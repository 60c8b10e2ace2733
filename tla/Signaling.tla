----------------------------- MODULE Signaling -----------------------------
(***************************************************************************)
(* The client package: an RTCClientSession per user makes an                *)
(* RTCClientConnection for every call, placed or received, and exchanges    *)
(* offers, answers and ICE candidates through an RTCClient.  A message      *)
(* names two users and no connection; the session of the receiver decides   *)
(* which of its connections is meant.                                       *)
(*                                                                          *)
(* Every connection has a page and a peer connection of its own.  What a    *)
(* handler does with it waits for the promise of that peer connection, and  *)
(* the page does things in the order they were handed over (PeerConnection  *)
(* models that channel), so a connection has one queue of things to do; a   *)
(* step takes the first, with the continuation that the code chained to it. *)
(* Connections are numbered in the order of their making, which is that of  *)
(* the lists of the sessions.                                               *)
(***************************************************************************)
EXTENDS Naturals, Sequences, FiniteSets

CONSTANTS Users,
          CallPairs,      \* <<u, v>>: u may call v
          MaxCalls,       \* bound: calls of each pair
          MaxConns,       \* bound: connections made
          MaxRenegotiate, \* bound: later negotiationneeded events, per connection
          MaxCandidates,  \* bound: candidates found, per connection
          Nobody          \* the user of a connection not made

ASSUME SignalingAssumption ==
  /\ CallPairs \subseteq {pair \in Users \X Users : pair[1] # pair[2]}
  /\ {MaxCalls, MaxConns, MaxRenegotiate, MaxCandidates} \subseteq Nat
  /\ Nobody \notin Users

VARIABLES
  user,     \* of each connection: the user of its session
  peer,     \* of each connection: remoteUsername
  role,     \* of each connection: made by connect or for an offer
  list,     \* of each session: its connections
  open,     \* connections whose peerConnection promise is fulfilled
  todo,     \* of each connection: what the handlers handed to its peer connection
  onPage,   \* of each connection: what waits for its page to be loaded
  awaiting, \* connections waiting for their local stream
  camera,   \* of each session: the outcome of getLocalStream
  sig,      \* of each connection: signalingState of its peer connection
  remote,   \* of each connection: whose description is its remote one
  offers,   \* of each connection: negotiationneeded events so far
  found,    \* of each connection: candidates found so far
  denied,   \* connections that were refused a stream
  refused,  \* connections that were handed a candidate too early
  stray,    \* connections that were handed a candidate not meant for them
  net       \* of each pair of users: messages under way, in order

own  == <<user, peer, role, list>>
page == <<sig, remote, offers, found, denied, refused, stray>>
vars == <<own, open, todo, onPage, awaiting, camera, page, net>>

Conn == 1 .. MaxConns
None == 0
Made == {c \in Conn : user[c] # Nobody}

Roles == {"caller", "callee"}
Sigs  == {"stable", "have-local-offer", "have-remote-offer"}
Camera == {"asked", "granted", "denied"}

(* A message carries what its sender put in: `from' is the connection, and  *)
(* `re' the one whose offer an answer answers.  The receiver reads neither: *)
(* they stand for the text of the description, which only its page reads.   *)
Message == [type : {"offer", "answer", "candidate"}, from : Conn, re : Conn \cup {None}]
Task    == [do : {"call", "createOffer", "setLocalOffer", "createAnswer", "setLocalAnswer"},
            from : {None}, re : {None}]
           \cup [do : {"offer", "answer", "candidate"}, from : Conn, re : Conn \cup {None}]

Do(what)     == [do |-> what, from |-> None, re |-> None]
Handle(m)    == [do |-> m.type, from |-> m.from, re |-> m.re]
Send(c, type, re) ==
  [net EXCEPT ![<<user[c], peer[c]>>] = Append(@, [type |-> type, from |-> c, re |-> re])]

Listed(c) == \E u \in Users : c \in list[u]
ConnectionsTo(u, v) == {c \in list[u] : peer[c] = v}

\* Connections cs are handed t: sendOffer and handleAnswer wait for the page and
\* then for the peer connection, the others for the peer connection.
HandTo(cs, t) ==
  LET waits(c) == c \notin open /\ t.do \in {"call", "answer"}
  IN  /\ todo' = [c \in Conn |-> IF c \in cs /\ ~waits(c) THEN Append(todo[c], t) ELSE todo[c]]
      /\ onPage' = [c \in Conn |-> IF c \in cs /\ waits(c) THEN Append(onPage[c], t) ELSE onPage[c]]

Init ==
  /\ user = [c \in Conn |-> Nobody] /\ peer = [c \in Conn |-> Nobody]
  /\ role = [c \in Conn |-> "callee"]
  /\ list = [u \in Users |-> {}]
  /\ open = {} /\ awaiting = {}
  /\ todo = [c \in Conn |-> <<>>] /\ onPage = [c \in Conn |-> <<>>]
  /\ camera = [u \in Users |-> "asked"]
  /\ sig = [c \in Conn |-> "stable"] /\ remote = [c \in Conn |-> None]
  /\ offers = [c \in Conn |-> 0] /\ found = [c \in Conn |-> 0]
  /\ denied = {} /\ refused = {} /\ stray = {}
  /\ net = [pair \in Users \X Users |-> <<>>]

(* The constructor of a connection, and RTCClientSession.add.               *)
Create(u, v, as, task) ==
  \E c \in Conn :
    /\ Made = 1 .. c - 1
    /\ user' = [user EXCEPT ![c] = u]
    /\ peer' = [peer EXCEPT ![c] = v]
    /\ role' = [role EXCEPT ![c] = as]
    /\ list' = [list EXCEPT ![u] = @ \cup {c}]
    /\ HandTo({c}, task)

(* RTCClientSession.connect, which calls sendOffer of the new connection.   *)
Connect(u, v) ==
  /\ <<u, v>> \in CallPairs
  /\ Cardinality({c \in Made : user[c] = u /\ peer[c] = v /\ role[c] = "caller"}) < MaxCalls
  /\ Create(u, v, "caller", Do("call"))
  /\ UNCHANGED <<open, awaiting, camera, page, net>>

(* Variant: what waited for the peer connection is lost.                    *)
OpenForgets(c) ==
  /\ c \in Made \ open
  /\ open' = open \cup {c}
  /\ todo' = [todo EXCEPT ![c] = <<>>] /\ onPage' = [onPage EXCEPT ![c] = <<>>]
  /\ UNCHANGED <<own, awaiting, camera, page, net>>

(* The page of the connection is loaded and its peer connection made: what  *)
(* waited for the peer connection runs, then what waited for the page.      *)
Open(c) ==
  /\ c \in Made \ open
  /\ open' = open \cup {c}
  /\ todo' = [todo EXCEPT ![c] = @ \o onPage[c]]
  /\ onPage' = [onPage EXCEPT ![c] = <<>>]
  /\ UNCHANGED <<own, awaiting, camera, page, net>>

(* getLocalStream of the session asks the user once and keeps the answer.   *)
CameraAnswers(u) ==
  /\ camera[u] = "asked"
  /\ \E answer \in {"granted", "denied"} : camera' = [camera EXCEPT ![u] = answer]
  /\ UNCHANGED <<own, open, todo, onPage, awaiting, page, net>>

(* getLocalStream of the connection then asks for a stream of its own page. *)
(* A refusal rejects a promise that nobody looks at.                        *)
StreamAnswers(c) ==
  /\ c \in awaiting /\ camera[user[c]] # "asked"
  /\ awaiting' = awaiting \ {c}
  /\ \/ /\ denied' = denied \cup {c}
        /\ UNCHANGED <<todo, offers>>
     \/ /\ camera[user[c]] = "granted" /\ role[c] = "callee"
        /\ todo' = [todo EXCEPT ![c] = Append(@, Do("createAnswer"))]
        /\ UNCHANGED <<offers, denied>>
     \/ /\ camera[user[c]] = "granted" /\ role[c] = "caller"
        /\ todo' = [todo EXCEPT ![c] = Append(@, Do("createOffer"))]
        /\ offers' = [offers EXCEPT ![c] = @ + 1]
        /\ UNCHANGED denied
  /\ UNCHANGED <<own, open, onPage, camera, sig, remote, found, refused, stray, net>>

(* The page wants another negotiation, of which it says so only when it is  *)
(* stable; the listener creates an offer.                                   *)
NegotiationNeeded(c) ==
  /\ c \in open /\ Listed(c) /\ sig[c] = "stable" /\ remote[c] # None
  /\ offers[c] < MaxRenegotiate + IF role[c] = "caller" THEN 1 ELSE 0
  /\ \A i \in DOMAIN todo[c] : todo[c][i].do \notin {"createOffer", "setLocalOffer"}
  /\ offers' = [offers EXCEPT ![c] = @ + 1]
  /\ todo' = [todo EXCEPT ![c] = Append(@, Do("createOffer"))]
  /\ UNCHANGED <<own, open, onPage, awaiting, camera, sig, remote, found, denied, refused, stray, net>>

(* The page finds a candidate once it has a local description; the listener *)
(* sends it to the other user.                                              *)
FindCandidate(c) ==
  /\ c \in open /\ Listed(c) /\ found[c] < MaxCandidates
  /\ sig[c] = "have-local-offer" \/ (sig[c] = "stable" /\ remote[c] # None)
  /\ found' = [found EXCEPT ![c] = @ + 1]
  /\ net' = Send(c, "candidate", None)
  /\ UNCHANGED <<own, open, todo, onPage, awaiting, camera, sig, remote, offers, denied, refused, stray>>

(* iceConnectionState is failed or closed: the listeners are taken off and  *)
(* the session forgets the connection.                                      *)
IceFails(c) ==
  /\ c \in open /\ Listed(c)
  /\ sig[c] = "have-local-offer" \/ (sig[c] = "stable" /\ remote[c] # None)
  /\ list' = [list EXCEPT ![user[c]] = @ \ {c}]
  /\ UNCHANGED <<user, peer, role, open, todo, onPage, awaiting, camera, page, net>>
-----------------------------------------------------------------------------
(* clientMessageListener of the session of v.                               *)
OnOffer(u, v, m) == Create(v, u, "callee", Handle(m))

(* The first of some connections, if there is one.                          *)
First(cs) == {c \in cs : \A d \in cs : c <= d}

(* Variant: the first connection of the session, whoever the sender is.     *)
OnAnswerOfAnyone(u, v, m) ==
  /\ HandTo(First(list[v]), Handle(m))
  /\ UNCHANGED own

(* The answer goes to the first connection to that user.                    *)
OnAnswer(u, v, m) ==
  /\ HandTo(First(ConnectionsTo(v, u)), Handle(m))
  /\ UNCHANGED own

(* Variant: the candidate does not wait for the peer connection.            *)
OnCandidateAtOnce(u, v, m) ==
  /\ todo' = [c \in Conn |-> IF c \in ConnectionsTo(v, u) THEN <<Handle(m)>> \o todo[c] ELSE todo[c]]
  /\ UNCHANGED <<own, onPage>>

(* Variant: the message itself is queued.                                   *)
OnCandidateUnread(u, v, m) ==
  /\ todo' = [c \in Conn |-> IF c \in ConnectionsTo(v, u) THEN Append(todo[c], m) ELSE todo[c]]
  /\ UNCHANGED <<own, onPage>>

(* The candidate goes to all connections to that user.                      *)
OnCandidate(u, v, m) ==
  /\ HandTo(ConnectionsTo(v, u), Handle(m))
  /\ UNCHANGED own

(* The client delivers the next message from u to v.                        *)
Deliver(u, v) ==
  /\ net[<<u, v>>] # <<>>
  /\ LET m == Head(net[<<u, v>>])
     IN  \/ m.type = "offer" /\ OnOffer(u, v, m)
         \/ m.type = "answer" /\ OnAnswer(u, v, m)
         \/ m.type = "candidate" /\ OnCandidate(u, v, m)
  /\ net' = [net EXCEPT ![<<u, v>>] = Tail(@)]
  /\ UNCHANGED <<open, awaiting, camera, page>>
-----------------------------------------------------------------------------
(* sendOffer, once the peer connection is there.                            *)
BeginCall(c) ==
  /\ Head(todo[c]).do = "call"
  /\ awaiting' = awaiting \cup {c}
  /\ todo' = [todo EXCEPT ![c] = Tail(@)]
  /\ UNCHANGED <<page, net>>

(* Variant: the offer is sent before it is set.                             *)
CreateOfferSends(c) ==
  /\ Head(todo[c]).do = "createOffer"
  /\ todo' = [todo EXCEPT ![c] = Append(Tail(@), Do("setLocalOffer"))]
  /\ net' = Send(c, "offer", None)
  /\ UNCHANGED <<awaiting, page>>

(* negotiationNeededListener: createOffer, setLocalDescription, sendOffer.  *)
CreateOffer(c) ==
  /\ Head(todo[c]).do = "createOffer"
  /\ todo' = [todo EXCEPT ![c] = Append(Tail(@), Do("setLocalOffer"))]
  /\ UNCHANGED <<awaiting, page, net>>

SetLocalOffer(c) ==
  /\ Head(todo[c]).do = "setLocalOffer"
  /\ sig' = [sig EXCEPT ![c] = "have-local-offer"]
  /\ net' = Send(c, "offer", None)
  /\ todo' = [todo EXCEPT ![c] = Tail(@)]
  /\ UNCHANGED <<awaiting, remote, offers, found, denied, refused, stray>>

(* handleOffer: setRemoteDescription, getLocalStream, createAnswer,         *)
(* setLocalDescription, sendAnswer.                                         *)
SetRemoteOffer(c) ==
  /\ Head(todo[c]).do = "offer"
  /\ sig' = [sig EXCEPT ![c] = "have-remote-offer"]
  /\ remote' = [remote EXCEPT ![c] = Head(todo[c]).from]
  /\ awaiting' = awaiting \cup {c}
  /\ todo' = [todo EXCEPT ![c] = Tail(@)]
  /\ UNCHANGED <<offers, found, denied, refused, stray, net>>

CreateAnswer(c) ==
  /\ Head(todo[c]).do = "createAnswer"
  /\ todo' = [todo EXCEPT ![c] = Append(Tail(@), Do("setLocalAnswer"))]
  /\ UNCHANGED <<awaiting, page, net>>

SetLocalAnswer(c) ==
  /\ Head(todo[c]).do = "setLocalAnswer"
  /\ sig' = [sig EXCEPT ![c] = "stable"]
  /\ net' = Send(c, "answer", remote[c])
  /\ todo' = [todo EXCEPT ![c] = Tail(@)]
  /\ UNCHANGED <<awaiting, remote, offers, found, denied, refused, stray>>

(* handleAnswer: a page that waits for no answer rejects it, unnoticed.     *)
SetRemoteAnswer(c) ==
  /\ Head(todo[c]).do = "answer"
  /\ \/ /\ sig[c] = "have-local-offer"
        /\ sig' = [sig EXCEPT ![c] = "stable"]
        /\ remote' = [remote EXCEPT ![c] = Head(todo[c]).from]
     \/ sig[c] # "have-local-offer" /\ UNCHANGED <<sig, remote>>
  /\ todo' = [todo EXCEPT ![c] = Tail(@)]
  /\ UNCHANGED <<awaiting, offers, found, denied, refused, stray, net>>

(* handleNewIceCandidate: a page without remote description refuses it.     *)
AddCandidate(c) ==
  /\ Head(todo[c]).do = "candidate"
  /\ refused' = IF remote[c] = None THEN refused \cup {c} ELSE refused
  /\ stray' = IF remote[c] \in {None, Head(todo[c]).from} THEN stray ELSE stray \cup {c}
  /\ todo' = [todo EXCEPT ![c] = Tail(@)]
  /\ UNCHANGED <<awaiting, sig, remote, offers, found, denied, net>>

Perform(c) ==
  /\ c \in open /\ todo[c] # <<>>
  /\ \/ BeginCall(c) \/ CreateOffer(c) \/ SetLocalOffer(c)
     \/ SetRemoteOffer(c) \/ CreateAnswer(c) \/ SetLocalAnswer(c)
     \/ SetRemoteAnswer(c) \/ AddCandidate(c)
  /\ UNCHANGED <<own, open, onPage, camera>>
-----------------------------------------------------------------------------
Progress ==
  \/ \E c \in Conn : Open(c) \/ StreamAnswers(c) \/ Perform(c)
  \/ \E u \in Users : CameraAnswers(u)
  \/ \E u, v \in Users : Deliver(u, v)

Next ==
  \/ \E u, v \in Users : Connect(u, v)
  \/ \E c \in Conn : NegotiationNeeded(c) \/ FindCandidate(c) \/ IceFails(c)
  \/ Progress

Spec == Init /\ [][Next]_vars

(* The pages run, the user answers the question for the camera and the      *)
(* client delivers.                                                         *)
FairSpec ==
  /\ Spec
  /\ \A c \in Conn : WF_vars(Open(c)) /\ WF_vars(StreamAnswers(c)) /\ WF_vars(Perform(c))
  /\ \A u \in Users : WF_vars(CameraAnswers(u))
  /\ \A u, v \in Users : WF_vars(Deliver(u, v))
-----------------------------------------------------------------------------
TypeOK ==
  /\ user \in [Conn -> Users \cup {Nobody}] /\ peer \in [Conn -> Users \cup {Nobody}]
  /\ role \in [Conn -> Roles]
  /\ list \in [Users -> SUBSET Conn]
  /\ open \subseteq Conn /\ awaiting \subseteq Conn
  /\ todo \in [Conn -> Seq(Task)] /\ onPage \in [Conn -> Seq(Task)]
  /\ camera \in [Users -> Camera]
  /\ sig \in [Conn -> Sigs] /\ remote \in [Conn -> Conn \cup {None}]
  /\ offers \in [Conn -> 0 .. MaxRenegotiate + 1] /\ found \in [Conn -> 0 .. MaxCandidates]
  /\ denied \subseteq Conn /\ refused \subseteq Conn /\ stray \subseteq Conn
  /\ net \in [Users \X Users -> Seq(Message)]

(* RTCClient.java, sendAnswer: "Sends an answer to the given connection".   *)
(* The connection that takes an answer is the one whose offer it answers.   *)
AnswersReachCaller ==
  \A c \in Conn : role[c] = "caller" /\ remote[c] # None => remote[remote[c]] = c

(* The offers of one connection all reach the same connection.              *)
OffersReachOneEnd ==
  \A d, e \in Made :
     role[d] = "callee" /\ role[e] = "callee" /\ remote[d] = remote[e] /\ remote[d] # None => d = e

(* Two ends of a call have each other's descriptions: an answer is taken by *)
(* the connection whose offer it answers, and a connection is not answered  *)
(* by two.                                                                  *)
Paired ==
  /\ AnswersReachCaller
  /\ OffersReachOneEnd
  /\ \A c \in Conn : remote[c] # None =>
        /\ peer[c] = user[remote[c]] /\ peer[remote[c]] = user[c]
        /\ remote[remote[c]] \in {c, None}

(* A candidate reaches its page after the description it belongs to, and    *)
(* the page of no other call.                                               *)
CandidatesFollowDescriptions == refused = {} /\ stray = {}

(* The connection at the other end of a call, if its offer made one.        *)
Answering(c) == {d \in Made : remote[d] = c}

(* A call gets through, unless a user refuses the camera, a page refuses    *)
(* the stream or the network fails.                                         *)
CallsGetThrough ==
  \A c \in Conn :
    (c \in Made /\ role[c] = "caller") ~>
       \/ remote[c] # None
       \/ ~Listed(c)
       \/ \E d \in {c} \cup Answering(c) : d \in denied
-----------------------------------------------------------------------------
(* The two ends of each call, and their states as OfferAnswer names them.   *)
(* An end is past an offer only with the description of its other end.      *)
CallersOf(k) == {c \in Conn : user[c] = k[1] /\ peer[c] = k[2] /\ role[c] = "caller"}
CalleesOf(k) == {c \in Conn : user[c] = k[2] /\ peer[c] = k[1] /\ role[c] = "callee"}

CallerAt(k) ==
  LET callers == CallersOf(k)  callees == CalleesOf(k)
  IN IF callers = {} THEN "none"
     ELSE IF \E c \in callers : remote[c] \in callees THEN "stable"
     ELSE IF \E c \in callers : sig[c] = "have-local-offer" THEN "have-local-offer"
     ELSE "made"

CalleeAt(k) ==
  LET callers == CallersOf(k)  callees == CalleesOf(k)
  IN IF callees = {} THEN "none"
     ELSE IF \A d \in callees : remote[d] \notin callers THEN "made"
     ELSE IF \E d \in callees : sig[d] = "have-remote-offer" THEN "have-remote-offer"
     ELSE "stable"

CallerStates == [k \in CallPairs |-> CallerAt(k)]
CalleeStates == [k \in CallPairs |-> CalleeAt(k)]

Exchange == INSTANCE OfferAnswer WITH
  Calls  <- CallPairs,
  caller <- CallerStates,
  callee <- CalleeStates

(* Sessions and connections of all users together do one exchange of offer  *)
(* and answer per call, its steps in order and each of them once, whatever  *)
(* waits for pages, cameras and messages meanwhile.                         *)
FollowsExchange == Exchange!Spec
=============================================================================
