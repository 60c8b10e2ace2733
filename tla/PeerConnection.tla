--------------------------- MODULE PeerConnection ---------------------------
(***************************************************************************)
(* RTCPeerConnectionImpl of RTC.java: a Java mirror of an RTCPeerConnection *)
(* that lives in the page of a browser component.  Java sends scripts       *)
(* (web.execute) and the page answers with callbacks and events            *)
(* (window.cn1Callback); both directions are FIFO and asynchronous, and     *)
(* Java handles one message at a time on its event thread (EDT).            *)
(*                                                                          *)
(* The page side is the browser's RTCPeerConnection, modelled from how the  *)
(* scripts of RTC.java and RTCBootstrap.js use it: one chain of operations, *)
(* a state event for every change, nothing settled or fired after close.    *)
(***************************************************************************)
EXTENDS Naturals, Sequences, SequencesExt

CONSTANTS Tracks,       \* local tracks the application can add
          Offers, Answers, \* session descriptions the application can set
          ConnStates,   \* connection states of the page other than "closed"
          Nil,          \* null
          NOps,         \* bound: calls that return a promise
          NSenders,     \* bound: calls of addTrack
          MaxInFlight   \* bound: messages to Java when the page fires an event, and
                        \* scripts waiting when the application removes a track

ASSUME PeerAssumption ==
  /\ NOps \in Nat /\ NSenders \in Nat /\ MaxInFlight \in Nat
  /\ "new" \in ConnStates /\ "closed" \notin ConnStates
  /\ Offers \cap Answers = {}
  /\ Nil \notin Tracks /\ Nil \notin Offers \cup Answers /\ Nil \notin ConnStates
  /\ Nil \notin {"stable", "have-local-offer", "have-remote-offer", "closed"}

VARIABLES
  jConn,    \* Java: connectionState
  jSig,     \* Java: signalingState, null until the first event
  jLocal,   \* Java: localDescription
  jRemote,  \* Java: remoteDescription
  senders,  \* Java: the list getSenders() returns
  track,    \* Java: of each sender object, the track it sends
  ready,    \* Java: sender objects whose page counterpart is known
  onReady,  \* Java: of each sender object, calls waiting for that
  ops,      \* Java: the promises handed out, with their state
  toPage,   \* scripts not yet run by the page
  toJava,   \* callbacks and events not yet handled by the EDT
  pConn,    \* page: connectionState
  pSig,     \* page: signalingState
  pLocal,   \* page: localDescription
  pRemote,  \* page: remoteDescription
  chain,    \* page: operations of the connection, run one after the other
  tuning,   \* page: setParameters calls under way
  sending,  \* page: track of each entry of getSenders(), null once removed
  slot,     \* page: of each sender object of Java, its entry of getSenders()
  seen,     \* history: the latest setParameters the page got, per sender
  wanted,   \* history: tracks added and not removed since
  closed    \* history: close() has been called

java == <<jConn, jSig, jLocal, jRemote, senders, track, ready, onReady, ops>>
page == <<pConn, pSig, pLocal, pRemote, chain, tuning, sending, slot, seen>>
vars == <<java, toPage, toJava, page, wanted, closed>>

Op     == 1 .. NOps
Sender == 1 .. NSenders
Descs  == Offers \cup Answers
Conn   == ConnStates \cup {"closed"}
Sig    == {"stable", "have-local-offer", "have-remote-offer", "closed"}
Kinds  == [kind : {"createOffer", "createAnswer", "addIceCandidate"}, arg : {Nil}]
          \cup [kind : {"setLocalDescription", "setRemoteDescription"}, arg : Descs]
          \cup [kind : {"setParameters"}, arg : Sender]
NoCall == [kind |-> "none", arg |-> Nil]
Call   == [call : Kinds \cup {NoCall}, state : {"unused", "pending", "resolved", "rejected"}]

Fresh     == {o \in Op : ops[o].state = "unused"}
NextOp    == CHOOSE o \in Fresh : \A p \in Fresh : o <= p
Unmade    == {s \in Sender : track[s] = Nil}
NewSender == CHOOSE s \in Unmade : \A t \in Unmade : s <= t

Script(kind, arg) == [script |-> kind, arg |-> arg]
Done(o, ok)       == [msg |-> "done", op |-> o, ok |-> ok]
(* The answer to setParameters carries the track of the sender of the page.  *)
Tuned(o, ok, t)   == [msg |-> "tuned", op |-> o, ok |-> ok, track |-> t]
Made(s)           == [msg |-> "sender", sender |-> s]
(* Every event that Java listens to carries the connectionState of its time.*)
Event(type, sig, conn) == [msg |-> "event", type |-> type, sig |-> sig, conn |-> conn]

Scripts  == [script : {"query", "close"}, arg : {Nil}] \cup [script : {"op"}, arg : Op]
            \cup [script : {"addTrack"}, arg : Sender] \cup [script : {"removeTrack"}, arg : Tracks]
Messages == [msg : {"done"}, op : Op, ok : BOOLEAN] \cup [msg : {"sender"}, sender : Sender]
            \cup [msg : {"tuned"}, op : Op, ok : BOOLEAN, track : Tracks \cup {Nil}]
            \cup [msg : {"event"}, type : {"query", "signalingstatechange",
                   "connectionstatechange", "other"}, sig : Sig \cup {Nil}, conn : Conn]

Start(call)       == [ops EXCEPT ![NextOp] = [call |-> call, state |-> "pending"]]
Finish(o, ok)     == [ops EXCEPT ![o].state = IF ok THEN "resolved" ELSE "rejected"]
-----------------------------------------------------------------------------
(* The constructor: the page's object is made and asked for its state.      *)
Init ==
  /\ jConn = "new" /\ jSig = Nil /\ jLocal = Nil /\ jRemote = Nil
  /\ senders = <<>>
  /\ track = [s \in Sender |-> Nil]
  /\ ready = {}
  /\ onReady = [s \in Sender |-> <<>>]
  /\ ops = [o \in Op |-> [call |-> NoCall, state |-> "unused"]]
  /\ toPage = <<Script("query", Nil)>>
  /\ toJava = <<>>
  /\ pConn = "new" /\ pSig = "stable" /\ pLocal = Nil /\ pRemote = Nil
  /\ chain = <<>> /\ tuning = {} /\ sending = <<>>
  /\ slot = [s \in Sender |-> 0] /\ seen = [s \in Sender |-> 0]
  /\ wanted = {} /\ closed = FALSE

(* createOffer, createAnswer, setLocalDescription, setRemoteDescription:    *)
(* the script is sent whatever the state of the mirror.                     *)
Negotiate(call) ==
  /\ Fresh # {}
  /\ ops' = Start(call)
  /\ toPage' = Append(toPage, Script("op", NextOp))
  /\ UNCHANGED <<jConn, jSig, jLocal, jRemote, senders, track, ready, onReady, toJava, page, wanted, closed>>

(* addIceCandidate: rejected at once when the mirror says closed, resolved  *)
(* at once for the null candidate.                                          *)
AddIceCandidate(null) ==
  /\ Fresh # {}
  /\ LET call == [kind |-> "addIceCandidate", arg |-> Nil] IN
     \/ /\ jConn = "closed"
        /\ ops' = [ops EXCEPT ![NextOp] = [call |-> call, state |-> "rejected"]]
        /\ UNCHANGED toPage
     \/ /\ jConn # "closed" /\ null
        /\ ops' = [ops EXCEPT ![NextOp] = [call |-> call, state |-> "resolved"]]
        /\ UNCHANGED toPage
     \/ /\ jConn # "closed" /\ ~null
        /\ ops' = Start(call)
        /\ toPage' = Append(toPage, Script("op", NextOp))
  /\ UNCHANGED <<jConn, jSig, jLocal, jRemote, senders, track, ready, onReady, toJava, page, wanted, closed>>

(* addTrack returns a sender object; it joins the list when the page        *)
(* answers.                                                                 *)
AddTrack(t) ==
  /\ Unmade # {}
  /\ track' = [track EXCEPT ![NewSender] = t]
  /\ toPage' = Append(toPage, Script("addTrack", NewSender))
  /\ wanted' = wanted \cup {t}
  /\ UNCHANGED <<jConn, jSig, jLocal, jRemote, senders, ready, onReady, ops, toJava, page, closed>>

(* RTCRtpSenders.removeById: the first sender in the list with that track.  *)
FirstWith(t) ==
  LET at == {i \in DOMAIN senders : track[senders[i]] = t}
  IN  IF at = {} THEN 0 ELSE CHOOSE i \in at : \A j \in at : i <= j

RemoveTrack(s) ==
  /\ track[s] # Nil /\ Len(toPage) < MaxInFlight
  /\ senders' = IF FirstWith(track[s]) = 0 THEN senders ELSE RemoveAt(senders, FirstWith(track[s]))
  /\ toPage' = Append(toPage, Script("removeTrack", track[s]))
  /\ wanted' = wanted \ {track[s]}
  /\ UNCHANGED <<jConn, jSig, jLocal, jRemote, track, ready, onReady, ops, toJava, page, closed>>

(* RTCRtpSender.setParameters waits for the sender to be ready.             *)
SetParameters(s) ==
  /\ Fresh # {} /\ track[s] # Nil
  /\ ops' = Start([kind |-> "setParameters", arg |-> s])
  /\ \/ /\ s \notin ready
        /\ onReady' = [onReady EXCEPT ![s] = Append(@, NextOp)]
        /\ UNCHANGED toPage
     \/ /\ s \in ready
        /\ toPage' = Append(toPage, Script("op", NextOp))
        /\ UNCHANGED onReady
  /\ UNCHANGED <<jConn, jSig, jLocal, jRemote, senders, track, ready, toJava, page, wanted, closed>>

(* close() is guarded by the mirror's signalingState.                       *)
Close ==
  /\ jSig # "closed"
  /\ jConn' = "closed" /\ jSig' = "closed"
  /\ senders' = <<>>
  /\ toPage' = Append(toPage, Script("close", Nil))
  /\ closed' = TRUE
  /\ UNCHANGED <<jLocal, jRemote, track, ready, onReady, ops, toJava, page, wanted>>
-----------------------------------------------------------------------------
(* Faulty forms of the three handlers below, for testing the properties.    *)
StoresRefused(m) ==        \* the description is stored before the error check
  /\ ops' = Finish(m.op, m.ok)
  /\ LET call == ops[m.op].call
     IN  /\ jLocal'  = IF call.kind = "setLocalDescription" THEN call.arg ELSE jLocal
         /\ jRemote' = IF call.kind = "setRemoteDescription" THEN call.arg ELSE jRemote
  /\ UNCHANGED <<jConn, jSig, senders, track, ready, onReady, toPage>>

ForgetsWaiting(m) ==       \* fireReady drops the calls that waited
  /\ senders' = Append(senders, m.sender)
  /\ ready' = ready \cup {m.sender}
  /\ onReady' = [onReady EXCEPT ![m.sender] = <<>>]
  /\ UNCHANGED <<jConn, jSig, jLocal, jRemote, track, ops, toPage>>

RunsNewestFirst(m) ==      \* fireReady takes the calls from the end
  /\ senders' = Append(senders, m.sender)
  /\ ready' = ready \cup {m.sender}
  /\ onReady' = [onReady EXCEPT ![m.sender] = <<>>]
  /\ toPage' = toPage \o [i \in DOMAIN onReady[m.sender] |-> Script("op", Reverse(onReady[m.sender])[i])]
  /\ UNCHANGED <<jConn, jSig, jLocal, jRemote, track, ops>>

MissesStateChanges(m) ==   \* no listener for connectionstatechange
  /\ jConn' = IF m.type = "connectionstatechange" THEN jConn ELSE m.conn
  /\ jSig' = IF m.type = "signalingstatechange" THEN m.sig ELSE jSig
  /\ UNCHANGED <<jLocal, jRemote, senders, track, ready, onReady, ops, toPage>>

MixesStates(m) ==          \* signalingState read as connectionState
  /\ jConn' = IF m.type = "signalingstatechange" THEN m.sig ELSE m.conn
  /\ jSig' = IF m.type = "signalingstatechange" THEN m.sig ELSE jSig
  /\ UNCHANGED <<jLocal, jRemote, senders, track, ready, onReady, ops, toPage>>

(* A callback of web.execute for one of the calls above.                    *)
OnDone(m) ==
  /\ ops' = Finish(m.op, m.ok)
  /\ LET call == ops[m.op].call
     IN  /\ jLocal'  = IF m.ok /\ call.kind = "setLocalDescription" THEN call.arg ELSE jLocal
         /\ jRemote' = IF m.ok /\ call.kind = "setRemoteDescription" THEN call.arg ELSE jRemote
  /\ UNCHANGED <<jConn, jSig, senders, track, ready, onReady, toPage>>

(* The callback of setParameters: the sender takes the track of the page.   *)
OnTuned(m) ==
  /\ ops' = Finish(m.op, m.ok)
  /\ track' = IF m.ok THEN [track EXCEPT ![ops[m.op].call.arg] = m.track] ELSE track
  /\ UNCHANGED <<jConn, jSig, jLocal, jRemote, senders, ready, onReady, toPage>>

(* The callback of addTrack: the sender is listed, then fireReady runs the  *)
(* calls that waited, in order.                                             *)
OnSender(m) ==
  /\ senders' = Append(senders, m.sender)
  /\ ready' = ready \cup {m.sender}
  /\ onReady' = [onReady EXCEPT ![m.sender] = <<>>]
  /\ toPage' = toPage \o [i \in DOMAIN onReady[m.sender] |-> Script("op", onReady[m.sender][i])]
  /\ UNCHANGED <<jConn, jSig, jLocal, jRemote, track, ops>>

(* The listeners installed by the constructor copy the state of the event.  *)
OnEvent(m) ==
  /\ jConn' = m.conn
  /\ jSig' = IF m.type = "signalingstatechange" THEN m.sig ELSE jSig
  /\ UNCHANGED <<jLocal, jRemote, senders, track, ready, onReady, ops, toPage>>

(* The EDT handles the next message from the page.                          *)
JavaStep ==
  /\ toJava # <<>>
  /\ LET m == Head(toJava)
     IN  \/ m.msg = "done" /\ OnDone(m)
         \/ m.msg = "tuned" /\ OnTuned(m)
         \/ m.msg = "sender" /\ OnSender(m)
         \/ m.msg = "event" /\ OnEvent(m)
  /\ toJava' = Tail(toJava)
  /\ UNCHANGED <<page, wanted, closed>>
-----------------------------------------------------------------------------
PageQuery ==
  /\ Head(toPage).script = "query"
  /\ toJava' = Append(toJava, Event("query", Nil, pConn))
  /\ UNCHANGED page

PageOp ==
  /\ Head(toPage).script = "op"
  /\ LET o == Head(toPage).arg
         call == ops[o].call IN
     \/ /\ call.kind = "setParameters"
        /\ tuning' = tuning \cup {o}
        /\ seen' = [seen EXCEPT ![call.arg] = o]
        /\ UNCHANGED <<chain, toJava>>
     \/ /\ call.kind # "setParameters" /\ pConn # "closed"
        /\ chain' = Append(chain, o)
        /\ UNCHANGED <<tuning, seen, toJava>>
     \/ /\ call.kind # "setParameters" /\ pConn = "closed"
        /\ toJava' = Append(toJava, Done(o, FALSE))
        /\ UNCHANGED <<chain, tuning, seen>>
  /\ UNCHANGED <<pConn, pSig, pLocal, pRemote, sending, slot>>

(* addTrack throws on a closed connection or a track it already sends, and  *)
(* Java only logs that.  The track goes to a sender made for it or to one   *)
(* whose track was removed.                                                 *)
PageAddTrack ==
  /\ Head(toPage).script = "addTrack"
  /\ LET s == Head(toPage).arg IN
     \/ /\ pConn = "closed" \/ \E i \in DOMAIN sending : sending[i] = track[s]
        /\ UNCHANGED <<sending, slot, toJava>>
     \/ /\ pConn # "closed" /\ \A i \in DOMAIN sending : sending[i] # track[s]
        /\ \/ /\ sending' = Append(sending, track[s])
              /\ slot' = [slot EXCEPT ![s] = Len(sending) + 1]
           \/ \E i \in DOMAIN sending :
                 /\ sending[i] = Nil
                 /\ sending' = [sending EXCEPT ![i] = track[s]]
                 /\ slot' = [slot EXCEPT ![s] = i]
        /\ toJava' = Append(toJava, Made(s))
  /\ UNCHANGED <<pConn, pSig, pLocal, pRemote, chain, tuning, seen>>

(* removeTrack: getSenders().find(s => s.track.id === id) stops at a sender *)
(* without track, where it throws; a removed sender keeps its place.        *)
PageRemoveTrack ==
  /\ Head(toPage).script = "removeTrack"
  /\ LET hit == {i \in DOMAIN sending : /\ sending[i] = Head(toPage).arg
                                        /\ \A j \in 1 .. i : sending[j] # Nil}
     IN  sending' = IF pConn = "closed" THEN sending
                    ELSE [i \in DOMAIN sending |-> IF i \in hit THEN Nil ELSE sending[i]]
  /\ UNCHANGED <<pConn, pSig, pLocal, pRemote, chain, tuning, slot, seen, toJava>>

(* close: pending operations of the chain are never settled.                *)
PageClose ==
  /\ Head(toPage).script = "close"
  /\ pConn' = "closed" /\ pSig' = "closed"
  /\ chain' = <<>>
  /\ UNCHANGED <<pLocal, pRemote, tuning, sending, slot, seen, toJava>>

PageStep ==
  /\ toPage # <<>>
  /\ PageQuery \/ PageOp \/ PageAddTrack \/ PageRemoveTrack \/ PageClose
  /\ toPage' = Tail(toPage)
  /\ UNCHANGED <<java, wanted, closed>>

(* Where setting a description leads, Nil where the page refuses it.        *)
NextSig(call) ==
  LET local   == call.kind = "setLocalDescription"
      offered == IF local THEN "have-local-offer" ELSE "have-remote-offer"
      awaited == IF local THEN "have-remote-offer" ELSE "have-local-offer"
  IN  IF call.kind \notin {"setLocalDescription", "setRemoteDescription"} THEN pSig
      ELSE IF call.arg \in Offers THEN IF pSig \in {"stable", offered} THEN offered ELSE Nil
      ELSE IF pSig = awaited THEN "stable" ELSE Nil

(* The first operation of the chain ends; a new signaling state is fired    *)
(* before the promise of the page is settled.                               *)
ChainEnds ==
  /\ chain # <<>>
  /\ chain' = Tail(chain)
  /\ LET o == Head(chain)
         call == ops[o].call
         to == NextSig(call)
         told == IF to = pSig THEN toJava
                 ELSE Append(toJava, Event("signalingstatechange", to, pConn)) IN
     \/ /\ to # Nil
        /\ pSig' = to
        /\ pLocal' = IF call.kind = "setLocalDescription" THEN call.arg ELSE pLocal
        /\ pRemote' = IF call.kind = "setRemoteDescription" THEN call.arg ELSE pRemote
        /\ toJava' = Append(told, Done(o, TRUE))
     \/ /\ UNCHANGED <<pSig, pLocal, pRemote>>
        /\ toJava' = Append(toJava, Done(o, FALSE))
  /\ UNCHANGED <<java, toPage, pConn, tuning, sending, slot, seen, wanted, closed>>

(* A setParameters of the page ends, in any order; Java takes an answer     *)
(* without track for a failure.                                             *)
TuningEnds(o) ==
  /\ o \in tuning
  /\ tuning' = tuning \ {o}
  /\ LET t == sending[slot[ops[o].call.arg]]
     IN  \E ok \in {FALSE, t # Nil} : toJava' = Append(toJava, Tuned(o, ok, t))
  /\ UNCHANGED <<java, toPage, pConn, pSig, pLocal, pRemote, chain, sending, slot, seen, wanted, closed>>

(* The network changes the connection; the event is fired with the change.  *)
ConnectionChanges(c) ==
  /\ pConn # "closed" /\ pConn # c /\ Len(toJava) < MaxInFlight
  /\ pConn' = c
  /\ toJava' = Append(toJava, Event("connectionstatechange", Nil, c))
  /\ UNCHANGED <<java, toPage, pSig, pLocal, pRemote, chain, tuning, sending, slot, seen, wanted, closed>>

(* icecandidate, icegatheringstatechange, negotiationneeded, datachannel.   *)
OtherEvent ==
  /\ pConn # "closed" /\ Len(toJava) < MaxInFlight
  /\ toJava' = Append(toJava, Event("other", Nil, pConn))
  /\ UNCHANGED <<java, toPage, page, wanted, closed>>
-----------------------------------------------------------------------------
App ==
  \/ \E kind \in {"createOffer", "createAnswer"} : Negotiate([kind |-> kind, arg |-> Nil])
  \/ \E kind \in {"setLocalDescription", "setRemoteDescription"}, d \in Descs :
        Negotiate([kind |-> kind, arg |-> d])
  \/ \E null \in BOOLEAN : AddIceCandidate(null)
  \/ \E t \in Tracks : AddTrack(t)
  \/ \E s \in Sender : RemoveTrack(s) \/ SetParameters(s)
  \/ Close

Page ==
  \/ PageStep \/ ChainEnds
  \/ \E o \in Op : TuningEnds(o)
  \/ \E c \in ConnStates : ConnectionChanges(c)
  \/ OtherEvent

Next == App \/ JavaStep \/ Page

Spec == Init /\ [][Next]_vars

(* Both event loops keep running and the browser ends what it started.      *)
FairSpec ==
  /\ Spec
  /\ WF_vars(JavaStep) /\ WF_vars(PageStep) /\ WF_vars(ChainEnds)
  /\ \A o \in Op : WF_vars(TuningEnds(o))
-----------------------------------------------------------------------------
TypeOK ==
  /\ jConn \in Conn /\ pConn \in Conn
  /\ jSig \in Sig \cup {Nil} /\ pSig \in Sig
  /\ {jLocal, jRemote, pLocal, pRemote} \subseteq Descs \cup {Nil}
  /\ senders \in Seq(Sender) /\ ready \subseteq Sender
  /\ track \in [Sender -> Tracks \cup {Nil}]
  /\ onReady \in [Sender -> Seq(Op)]
  /\ ops \in [Op -> Call]
  /\ toPage \in Seq(Scripts) /\ toJava \in Seq(Messages)
  /\ chain \in Seq(Op) /\ tuning \subseteq Op
  /\ sending \in Seq(Tracks \cup {Nil})
  /\ slot \in [Sender -> 0 .. NSenders] /\ seen \in [Sender -> 0 .. NOps]
  /\ wanted \subseteq Tracks /\ closed \in BOOLEAN

(* Of some messages under way to Java, the one that is handled last.        *)
Final(I) == {i \in I : \A j \in I : j <= i}

Events    == {i \in DOMAIN toJava : toJava[i].msg = "event"}
SigEvents == {i \in Events : toJava[i].type = "signalingstatechange"}

(* While close() has not been called, the connectionState and the           *)
(* signalingState of Java become those of the page once the events under    *)
(* way are handled: no listener of the constructor undoes another one.      *)
MirrorCatchesUp ==
  ~closed =>
    /\ Events = {} => jConn = pConn
    /\ \A i \in Final(Events) : toJava[i].conn = pConn
    /\ SigEvents = {} => jSig = pSig \/ (jSig = Nil /\ pSig = "stable")
    /\ \A i \in Final(SigEvents) : toJava[i].sig = pSig

(* Answers that say that a description has been set.                        *)
Set(kind) == {i \in DOMAIN toJava : /\ toJava[i].msg = "done" /\ toJava[i].ok
                                    /\ ops[toJava[i].op].call.kind = kind}
Agree(kind, mirror, there) ==
  /\ Set(kind) = {} => mirror = there
  /\ \A i \in Final(Set(kind)) : ops[toJava[i].op].call.arg = there

(* getLocalDescription and getRemoteDescription become what the page has,   *)
(* whichever calls overlap, fail or are cut off by close().                 *)
DescriptionsAgree ==
  /\ Agree("setLocalDescription", jLocal, pLocal)
  /\ Agree("setRemoteDescription", jRemote, pRemote)

(* Where the answer to a call is to come from.                              *)
Places(o) ==
  {<<"toPage", i>> : i \in {j \in DOMAIN toPage : toPage[j] = Script("op", o)}}
  \cup {<<"chain", i>> : i \in {j \in DOMAIN chain : chain[j] = o}}
  \cup {<<"tuning", p>> : p \in {p \in tuning : p = o}}
  \cup {<<"toJava", i>> : i \in {j \in DOMAIN toJava : toJava[j].msg \in {"done", "tuned"}
                                                       /\ toJava[j].op = o}}
  \cup UNION {{<<"onReady", s, i>> : i \in {j \in DOMAIN onReady[s] : onReady[s][j] = o}} : s \in Sender}

(* A call is answered at most once, and a pending one is lost only when the *)
(* page has closed the connection under it.                                 *)
AnsweredOnce ==
  \A o \in Op :
    /\ \A p, q \in Places(o) : p = q
    /\ IF ops[o].state = "pending" THEN Places(o) # {} \/ pConn = "closed" ELSE Places(o) = {}

(* The page gets the setParameters calls of a sender in the order in which  *)
(* they were made, those that waited for the sender included.               *)
ParametersInOrder == [][\A s \in Sender : seen'[s] >= seen[s]]_seen

(* A call waits for a sender that the page refused to make.                 *)
WaitsInVain(o) ==
  \E s \in Sender :
    /\ o \in Range(onReady[s])
    /\ Script("addTrack", s) \notin Range(toPage) /\ Made(s) \notin Range(toJava)

(* Every promise is settled, unless the application closes the connection   *)
(* or the call waits for a sender that the page refused.                    *)
CallsAreAnswered ==
  \A o \in Op :
    ops[o].state = "pending" ~> (ops[o].state # "pending" \/ closed \/ WaitsInVain(o))
-----------------------------------------------------------------------------
Quiet == toPage = <<>> /\ toJava = <<>>

(* The tracks the page sends.                                               *)
Sent == IF pConn = "closed" THEN {} ELSE Range(sending) \ {Nil}

(* RTCPeerConnection.java, removeTrack: "tells the local end of the         *)
(* connection to stop sending media from the specified track".              *)
RemovedStopsSending == Quiet => Sent \subseteq wanted
=============================================================================
