------------------------ MODULE PeerConnectionProofs ------------------------
(***************************************************************************)
(* Proofs about PeerConnection: the calls of the application, the scripts   *)
(* and answers they become, and the mirror that Java keeps of the page.     *)
(***************************************************************************)
EXTENDS PeerConnection, QueueProofs

(* What the scripts and the messages that matter are about.                 *)
Asks    == [m \in {n \in Scripts : n.script = "op"} |-> m.arg]
Adds    == [m \in {n \in Scripts : n.script = "addTrack"} |-> m.arg]
Replies == [m \in {n \in Messages : n.msg \in {"done", "tuned"}} |-> m.op]
Names   == [m \in {n \in Messages : n.msg = "sender"} |-> m.sender]
Itself  == [o \in Op |-> o]

Unused  == {o \in Op : ops[o].state = "unused"}
Pending == {o \in Op : ops[o].state = "pending"}
Tuning(o) == ops[o].call.kind = "setParameters"

(* Where a call can be: in a script, in the chain of the page, being tuned, *)
(* in an answer, or waiting for its sender.                                 *)
Asked    == Keys(toPage, Asks)
Chained  == Members(chain)
Answered == Keys(toJava, Replies)
Waiting  == UNION {Members(onReady[s]) : s \in Sender}

(* Promises and senders are handed out in the order of their numbers.       *)
Numbered ==
  /\ \A o, p \in Op : o < p /\ ops[o].state = "unused" => ops[p].state = "unused"
  /\ \A s, t \in Sender : s < t /\ track[s] = Nil => track[t] = Nil
  /\ \A o \in Op : ops[o].state # "unused" => ops[o].call \in Kinds

(* Pending calls are in one place each, unless the page closed under them.  *)
Apart ==
  /\ Once(toPage, Asks) /\ Once(chain, Itself) /\ Once(toJava, Replies)
  /\ \A s \in Sender : Once(onReady[s], Itself)
  /\ Asked \cap Chained = {} /\ Asked \cap tuning = {} /\ Asked \cap Answered = {}
  /\ Asked \cap Waiting = {} /\ Chained \cap tuning = {} /\ Chained \cap Answered = {}
  /\ Chained \cap Waiting = {} /\ tuning \cap Answered = {} /\ tuning \cap Waiting = {}
  /\ Answered \cap Waiting = {}
  /\ Asked \cup Chained \cup tuning \cup Answered \cup Waiting \subseteq Pending
  /\ pConn # "closed" => Pending \subseteq Asked \cup Chained \cup tuning \cup Answered \cup Waiting

(* A call of setParameters keeps apart from the chain, and leaves Java only *)
(* when the page has made its sender.                                       *)
Kept ==
  /\ \A o \in Chained : ~Tuning(o)
  /\ \A o \in tuning : Tuning(o) /\ ops[o].call.arg \in ready
  /\ \A o \in Asked : Tuning(o) => ops[o].call.arg \in ready
  /\ \A s \in Sender : \A o \in Members(onReady[s]) : Tuning(o) /\ ops[o].call.arg = s
  /\ \A m \in Members(toJava) :
       /\ m.msg = "done" => ~Tuning(m.op)
       /\ m.msg = "tuned" => Tuning(m.op) /\ ops[m.op].call.arg \in ready /\ (m.ok => m.track # Nil)

(* Every sender that the page has made has a slot there, and there are no   *)
(* more of them than calls of addTrack.                                     *)
Slots ==
  /\ Rises(toPage, Adds) /\ Len(sending) <= NSenders
  /\ \A s \in Keys(toPage, Adds) : Len(sending) < s /\ track[s] # Nil
  /\ \A s \in Sender : track[s] = Nil => Len(sending) < s
  /\ \A s \in ready \cup Keys(toJava, Names) : slot[s] \in DOMAIN sending /\ track[s] # Nil

TypeInv == TypeOK /\ Numbered /\ Apart /\ Kept /\ Slots
-----------------------------------------------------------------------------
(* Scripts and messages.                                                    *)
LEMMA ScriptTypes ==
  /\ \A o \in Op : Script("op", o) \in Scripts /\ Script("op", o).script = "op" /\ Script("op", o).arg = o
  /\ \A s \in Sender : /\ Script("addTrack", s) \in Scripts
                       /\ Script("addTrack", s).script = "addTrack" /\ Script("addTrack", s).arg = s
  /\ \A t \in Tracks : Script("removeTrack", t) \in Scripts /\ Script("removeTrack", t).script = "removeTrack"
  /\ \A k \in {"query", "close"} : Script(k, Nil) \in Scripts /\ Script(k, Nil).script = k
  /\ \A m \in Scripts : /\ m.script \in {"query", "close", "op", "addTrack", "removeTrack"}
                        /\ m.script = "op" => m.arg \in Op
                        /\ m.script = "addTrack" => m.arg \in Sender
BY DEF Script, Scripts

LEMMA MessageTypes ==
  /\ \A o \in Op, ok \in BOOLEAN : Done(o, ok) \in Messages
  /\ \A o \in Op, ok \in BOOLEAN, t \in Tracks \cup {Nil} : Tuned(o, ok, t) \in Messages
  /\ \A s \in Sender : Made(s) \in Messages
  /\ \A c \in Conn, g \in Sig \cup {Nil} :
       \A k \in {"query", "signalingstatechange", "connectionstatechange", "other"} :
          Event(k, g, c) \in Messages
BY DEF Done, Tuned, Made, Event, Messages

LEMMA MessageFields ==
  \A m \in Messages :
     /\ m.msg \in {"done", "tuned", "sender", "event"}
     /\ m.msg = "done" => m.op \in Op /\ m.ok \in BOOLEAN
     /\ m.msg = "tuned" => m.op \in Op /\ m.ok \in BOOLEAN /\ m.track \in Tracks \cup {Nil}
     /\ m.msg = "sender" => m.sender \in Sender
     /\ m.msg = "event" => m.conn \in Conn /\ m.sig \in Sig \cup {Nil}
<1> SUFFICES ASSUME NEW m \in Messages
             PROVE  /\ m.msg \in {"done", "tuned", "sender", "event"}
                    /\ m.msg = "done" => m.op \in Op /\ m.ok \in BOOLEAN
                    /\ m.msg = "tuned" => m.op \in Op /\ m.ok \in BOOLEAN /\ m.track \in Tracks \cup {Nil}
                    /\ m.msg = "sender" => m.sender \in Sender
                    /\ m.msg = "event" => m.conn \in Conn /\ m.sig \in Sig \cup {Nil}
  OBVIOUS
<1>1. CASE m \in [msg : {"done"}, op : Op, ok : BOOLEAN]
  BY <1>1
<1>2. CASE m \in [msg : {"sender"}, sender : Sender]
  BY <1>2
<1>3. CASE m \in [msg : {"tuned"}, op : Op, ok : BOOLEAN, track : Tracks \cup {Nil}]
  BY <1>3
<1>4. CASE m \in [msg : {"event"}, type : {"query", "signalingstatechange", "connectionstatechange", "other"},
                  sig : Sig \cup {Nil}, conn : Conn]
  BY <1>4
<1>5. QED
  BY <1>1, <1>2, <1>3, <1>4 DEF Messages

(* What matters to the functions above.                                     *)
LEMMA AsksOf == \A m \in Scripts : (m \in DOMAIN Asks <=> m.script = "op")
                                   /\ (m.script = "op" => Asks[m] = m.arg)
BY DEF Asks

LEMMA AddsOf == \A m \in Scripts : (m \in DOMAIN Adds <=> m.script = "addTrack")
                                   /\ (m.script = "addTrack" => Adds[m] = m.arg)
BY DEF Adds

LEMMA RepliesOf == \A m \in Messages : (m \in DOMAIN Replies <=> m.msg \in {"done", "tuned"})
                                       /\ (m.msg \in {"done", "tuned"} => Replies[m] = m.op)
BY DEF Replies

LEMMA NamesOf == \A m \in Messages : (m \in DOMAIN Names <=> m.msg = "sender")
                                     /\ (m.msg = "sender" => Names[m] = m.sender)
BY DEF Names

LEMMA ItselfOf == DOMAIN Itself = Op /\ \A o \in Op : Itself[o] = o
BY DEF Itself

LEMMA OfItself == ASSUME NEW q \in Seq(Op) PROVE Keys(q, Itself) = Members(q) /\ Members(q) \subseteq Op
<1>1. Members(q) \subseteq Op
  BY MembersType
<1>2. QED
  BY <1>1, ItselfOf DEF Keys
-----------------------------------------------------------------------------
(* The next promise and the next sender.                                    *)
LEMMA NextOpType ==
  ASSUME Numbered, Fresh # {}
  PROVE  /\ NextOp \in Op /\ ops[NextOp].state = "unused"
         /\ \A o \in Op : o < NextOp <=> ops[o].state # "unused"
<1>1. Fresh \subseteq Nat /\ Fresh \subseteq Op
  BY DEF Fresh, Op
<1>2. PICK n \in Fresh : \A p \in Fresh : n <= p
  BY <1>1, LeastNumber
<1>3. NextOp \in Fresh /\ \A p \in Fresh : NextOp <= p
  BY <1>2 DEF NextOp
<1>4. ASSUME NEW o \in Op PROVE o < NextOp <=> ops[o].state # "unused"
  <2>1. o \in Nat /\ NextOp \in Nat
    BY <1>1, <1>3 DEF Op
  <2>2. CASE ops[o].state = "unused"
    BY <1>3, <2>1, <2>2 DEF Fresh
  <2>3. CASE ops[o].state # "unused"
    <3>1. NextOp # o /\ ops[NextOp].state = "unused" /\ NextOp \in Op
      BY <1>3, <2>3 DEF Fresh
    <3>2. ~(NextOp < o)
      BY <2>3, <3>1 DEF Numbered
    <3>3. QED
      BY <2>1, <2>3, <3>1, <3>2
  <2>4. QED
    BY <2>2, <2>3
<1>5. QED
  BY <1>3, <1>4 DEF Fresh

LEMMA NewSenderType ==
  ASSUME Unmade # {}
  PROVE  NewSender \in Sender /\ track[NewSender] = Nil /\ \A s \in Unmade : NewSender <= s
<1>1. Unmade \subseteq Nat
  BY DEF Unmade, Sender
<1>2. PICK n \in Unmade : \A t \in Unmade : n <= t
  BY <1>1, LeastNumber
<1>3. QED
  BY <1>2 DEF NewSender, Unmade

(* A new call takes the next promise, an answered one keeps what it was.    *)
LEMMA StartCall ==
  ASSUME TypeOK, Numbered, Fresh # {}, NEW call \in Kinds, NEW st \in {"pending", "resolved", "rejected"},
         ops' = [ops EXCEPT ![NextOp] = [call |-> call, state |-> st]], UNCHANGED track
  PROVE  /\ NextOp \in Op /\ ops[NextOp].state = "unused" /\ ops' \in [Op -> Call] /\ Numbered'
         /\ ops'[NextOp].call = call /\ ops'[NextOp].state = st
         /\ \A o \in Op : o # NextOp => ops'[o] = ops[o]
<1>1. NextOp \in Op /\ ops[NextOp].state = "unused" /\ \A o \in Op : o < NextOp <=> ops[o].state # "unused"
  BY NextOpType
<1>2. /\ ops \in [Op -> Call] /\ [call |-> call, state |-> st] \in Call
      /\ [call |-> call, state |-> st].call = call /\ [call |-> call, state |-> st].state = st
  BY DEF TypeOK, Call
<1>3. /\ ops' \in [Op -> Call] /\ ops'[NextOp].call = call /\ ops'[NextOp].state = st
      /\ \A o \in Op : o # NextOp => ops'[o] = ops[o]
  BY <1>1, <1>2
<1>4. \A o, p \in Op : o < p /\ ops'[o].state = "unused" => ops'[p].state = "unused"
  <2> SUFFICES ASSUME NEW o \in Op, NEW p \in Op, o < p, ops'[o].state = "unused"
               PROVE  ops'[p].state = "unused"
    OBVIOUS
  <2>1. o # NextOp /\ ops[o].state = "unused"
    BY <1>3
  <2>2. ops[p].state = "unused" /\ ~(o < NextOp)
    BY <1>1, <2>1 DEF Numbered
  <2>3. p # NextOp
    BY <1>1, <2>1, <2>2 DEF Op
  <2>4. QED
    BY <1>3, <2>2, <2>3
<1>5. Numbered'
  BY <1>3, <1>4 DEF Numbered
<1>6. QED
  BY <1>1, <1>3, <1>5

LEMMA FinishCall ==
  ASSUME TypeOK, Numbered, NEW o \in Op, ops[o].state = "pending", NEW ok \in BOOLEAN, ops' = Finish(o, ok)
  PROVE  /\ ops' \in [Op -> Call] /\ ops'[o].state \in {"resolved", "rejected"} /\ ops'[o].call = ops[o].call
         /\ \A p \in Op : ops'[p].call = ops[p].call /\ (p # o => ops'[p] = ops[p])
         /\ \A p \in Op : ops'[p].state = "unused" <=> ops[p].state = "unused"
<1> DEFINE st == IF ok THEN "resolved" ELSE "rejected"
<1>1. ops \in [Op -> Call] /\ ops[o] \in Call /\ ops' = [ops EXCEPT ![o].state = st]
  BY DEF TypeOK, Finish
<1>2. /\ [ops[o] EXCEPT !.state = st] \in Call
      /\ [ops[o] EXCEPT !.state = st].call = ops[o].call /\ [ops[o] EXCEPT !.state = st].state = st
  BY <1>1 DEF Call
<1>3. ops' = [ops EXCEPT ![o] = [ops[o] EXCEPT !.state = st]]
  BY <1>1
<1>4. QED
  BY <1>1, <1>2, <1>3

-----------------------------------------------------------------------------
(* Scripts are sent and run, messages are sent and handled.                 *)
LEMMA QueueTypes ==
  ASSUME TypeOK
  PROVE  /\ toPage \in Seq(Scripts) /\ toJava \in Seq(Messages) /\ chain \in Seq(Op)
         /\ \A s \in Sender : onReady[s] \in Seq(Op)
         /\ Members(toPage) \subseteq Scripts /\ Members(toJava) \subseteq Messages
         /\ Chained \subseteq Op
         /\ \A s \in Sender : Members(onReady[s]) \subseteq Op
<1>1. /\ toPage \in Seq(Scripts) /\ toJava \in Seq(Messages) /\ chain \in Seq(Op)
      /\ \A s \in Sender : onReady[s] \in Seq(Op)
  BY DEF TypeOK
<1>2. Members(toPage) \subseteq Scripts
  BY <1>1, MembersType
<1>3. Members(toJava) \subseteq Messages
  BY <1>1, MembersType
<1>4. Chained \subseteq Op /\ \A s \in Sender : Members(onReady[s]) \subseteq Op
  BY <1>1, OfItself DEF Chained
<1>5. QED
  BY <1>1, <1>2, <1>3, <1>4

LEMMA SendScript ==
  ASSUME TypeOK, NEW m \in Scripts, toPage' = Append(toPage, m)
  PROVE  /\ toPage' \in Seq(Scripts)
         /\ m.script = "op" =>
              Asked' = Asked \cup {m.arg} /\ (Once(toPage, Asks) /\ m.arg \notin Asked => Once(toPage', Asks))
         /\ m.script # "op" => Asked' = Asked /\ (Once(toPage, Asks) => Once(toPage', Asks))
         /\ m.script = "addTrack" =>
              /\ Keys(toPage', Adds) = Keys(toPage, Adds) \cup {m.arg}
              /\ Rises(toPage, Adds) /\ Precede(Keys(toPage, Adds), {m.arg}) => Rises(toPage', Adds)
         /\ m.script # "addTrack" =>
              Keys(toPage', Adds) = Keys(toPage, Adds) /\ (Rises(toPage, Adds) => Rises(toPage', Adds))
<1>1. toPage \in Seq(Scripts)
  BY QueueTypes
<1>2. toPage' \in Seq(Scripts)
  BY <1>1, AppendMembers
<1>3. Keys(toPage', Asks) = IF m \in DOMAIN Asks THEN Asked \cup {Asks[m]} ELSE Asked
  BY <1>1, AppendKeys DEF Asked
<1>4. Keys(toPage', Adds) = IF m \in DOMAIN Adds THEN Keys(toPage, Adds) \cup {Adds[m]} ELSE Keys(toPage, Adds)
  BY <1>1, AppendKeys
<1>5. Once(toPage, Asks) /\ (m \in DOMAIN Asks => Asks[m] \notin Asked) => Once(toPage', Asks)
  BY <1>1, AppendOnce DEF Asked
<1>6. Rises(toPage, Adds) /\ (m \in DOMAIN Adds => Precede(Keys(toPage, Adds), {Adds[m]})) => Rises(toPage', Adds)
  BY <1>1, AppendRises
<1>7. /\ m \in DOMAIN Asks <=> m.script = "op"
      /\ m.script = "op" => Asks[m] = m.arg
      /\ m \in DOMAIN Adds <=> m.script = "addTrack"
      /\ m.script = "addTrack" => Adds[m] = m.arg
  BY AsksOf, AddsOf
<1>8. QED
  BY <1>2, <1>3, <1>4, <1>5, <1>6, <1>7 DEF Asked

LEMMA TakeScript ==
  ASSUME TypeOK, toPage # <<>>, toPage' = Tail(toPage), NEW m, m = Head(toPage)
  PROVE  /\ toPage' \in Seq(Scripts) /\ m \in Scripts
         /\ m.script = "op" => m.arg \in Op /\ Asked = Asked' \cup {m.arg} /\ (Once(toPage, Asks) => m.arg \notin Asked')
         /\ m.script # "op" => Asked' = Asked
         /\ Once(toPage, Asks) => Once(toPage', Asks)
         /\ m.script = "addTrack" =>
              /\ m.arg \in Sender /\ Keys(toPage, Adds) = Keys(toPage', Adds) \cup {m.arg}
              /\ Rises(toPage, Adds) => Precede({m.arg}, Keys(toPage', Adds))
         /\ m.script # "addTrack" => Keys(toPage', Adds) = Keys(toPage, Adds)
         /\ Rises(toPage, Adds) => Rises(toPage', Adds)
<1>1. toPage \in Seq(Scripts)
  BY QueueTypes
<1>2. toPage' \in Seq(Scripts) /\ m \in Scripts
  BY <1>1, TailMembers
<1>3. Asked = IF m \in DOMAIN Asks THEN Keys(toPage', Asks) \cup {Asks[m]} ELSE Keys(toPage', Asks)
  BY <1>1, TailKeys DEF Asked
<1>4. Keys(toPage, Adds) = IF m \in DOMAIN Adds THEN Keys(toPage', Adds) \cup {Adds[m]} ELSE Keys(toPage', Adds)
  BY <1>1, TailKeys
<1>5. Once(toPage, Asks) => Once(toPage', Asks) /\ (m \in DOMAIN Asks => Asks[m] \notin Keys(toPage', Asks))
  BY <1>1, TailOnce
<1>6. Rises(toPage, Adds) => Rises(toPage', Adds) /\ (m \in DOMAIN Adds => Precede({Adds[m]}, Keys(toPage', Adds)))
  BY <1>1, TailRises
<1>7. /\ m \in DOMAIN Asks <=> m.script = "op"
      /\ m.script = "op" => Asks[m] = m.arg /\ m.arg \in Op
      /\ m \in DOMAIN Adds <=> m.script = "addTrack"
      /\ m.script = "addTrack" => Adds[m] = m.arg /\ m.arg \in Sender
  BY <1>2, AsksOf, AddsOf, ScriptTypes
<1>8. QED
  BY <1>2, <1>3, <1>4, <1>5, <1>6, <1>7 DEF Asked

LEMMA SendMessage ==
  ASSUME TypeOK, NEW m \in Messages, toJava' = Append(toJava, m)
  PROVE  /\ toJava' \in Seq(Messages) /\ Members(toJava') = Members(toJava) \cup {m}
         /\ m.msg \in {"done", "tuned"} =>
              /\ Answered' = Answered \cup {m.op}
              /\ Once(toJava, Replies) /\ m.op \notin Answered => Once(toJava', Replies)
         /\ m.msg \notin {"done", "tuned"} =>
              Answered' = Answered /\ (Once(toJava, Replies) => Once(toJava', Replies))
         /\ m.msg = "sender" => Keys(toJava', Names) = Keys(toJava, Names) \cup {m.sender}
         /\ m.msg # "sender" => Keys(toJava', Names) = Keys(toJava, Names)
<1>1. toJava \in Seq(Messages)
  BY QueueTypes
<1>2. toJava' \in Seq(Messages) /\ Members(toJava') = Members(toJava) \cup {m}
  BY <1>1, AppendMembers
<1>3. Keys(toJava', Replies) = IF m \in DOMAIN Replies THEN Answered \cup {Replies[m]} ELSE Answered
  BY <1>1, AppendKeys DEF Answered
<1>4. Keys(toJava', Names) = IF m \in DOMAIN Names THEN Keys(toJava, Names) \cup {Names[m]} ELSE Keys(toJava, Names)
  BY <1>1, AppendKeys
<1>5. Once(toJava, Replies) /\ (m \in DOMAIN Replies => Replies[m] \notin Answered) => Once(toJava', Replies)
  BY <1>1, AppendOnce DEF Answered
<1>6. /\ m \in DOMAIN Replies <=> m.msg \in {"done", "tuned"}
      /\ m.msg \in {"done", "tuned"} => Replies[m] = m.op
      /\ m \in DOMAIN Names <=> m.msg = "sender"
      /\ m.msg = "sender" => Names[m] = m.sender
  BY RepliesOf, NamesOf
<1>7. QED
  BY <1>2, <1>3, <1>4, <1>5, <1>6 DEF Answered

LEMMA TakeMessage ==
  ASSUME TypeOK, toJava # <<>>, toJava' = Tail(toJava), NEW m, m = Head(toJava)
  PROVE  /\ toJava' \in Seq(Messages) /\ m \in Messages /\ Members(toJava) = Members(toJava') \cup {m}
         /\ m.msg \in {"done", "tuned"} =>
              m.op \in Op /\ Answered = Answered' \cup {m.op} /\ (Once(toJava, Replies) => m.op \notin Answered')
         /\ m.msg \notin {"done", "tuned"} => Answered' = Answered
         /\ Once(toJava, Replies) => Once(toJava', Replies)
         /\ m.msg = "sender" => m.sender \in Sender /\ Keys(toJava, Names) = Keys(toJava', Names) \cup {m.sender}
         /\ m.msg # "sender" => Keys(toJava', Names) = Keys(toJava, Names)
<1>1. toJava \in Seq(Messages)
  BY QueueTypes
<1>2. toJava' \in Seq(Messages) /\ m \in Messages /\ Members(toJava) = Members(toJava') \cup {m}
  BY <1>1, TailMembers
<1>3. Answered = IF m \in DOMAIN Replies THEN Keys(toJava', Replies) \cup {Replies[m]} ELSE Keys(toJava', Replies)
  BY <1>1, TailKeys DEF Answered
<1>4. Keys(toJava, Names) = IF m \in DOMAIN Names THEN Keys(toJava', Names) \cup {Names[m]} ELSE Keys(toJava', Names)
  BY <1>1, TailKeys
<1>5. Once(toJava, Replies) =>
        Once(toJava', Replies) /\ (m \in DOMAIN Replies => Replies[m] \notin Keys(toJava', Replies))
  BY <1>1, TailOnce
<1>6. /\ m \in DOMAIN Replies <=> m.msg \in {"done", "tuned"}
      /\ m.msg \in {"done", "tuned"} => Replies[m] = m.op
      /\ m \in DOMAIN Names <=> m.msg = "sender"
      /\ m.msg = "sender" => Names[m] = m.sender /\ m.sender \in Sender
      /\ m.msg \in {"done", "tuned"} => m.op \in Op
  BY <1>2, RepliesOf, NamesOf, MessageFields
<1>7. QED
  BY <1>2, <1>3, <1>4, <1>5, <1>6 DEF Answered

(* Answers under way are found where the calls are.                         *)
LEMMA AnswersFound ==
  ASSUME TypeOK
  PROVE  /\ \A m \in Members(toJava) : m.msg \in {"done", "tuned"} => m.op \in Answered
         /\ \A o \in Asked : Script("op", o) \in Members(toPage)
<1>1. \A m \in Members(toJava) : m.msg \in {"done", "tuned"} => m.op \in Answered
  <2> SUFFICES ASSUME NEW m \in Members(toJava), m.msg \in {"done", "tuned"} PROVE m.op \in Answered
    OBVIOUS
  <2>1. m \in DOMAIN Replies /\ Replies[m] = m.op
    BY QueueTypes, RepliesOf
  <2>2. QED
    BY <2>1 DEF Answered, Keys
<1>2. ASSUME NEW o \in Asked PROVE Script("op", o) \in Members(toPage)
  <2>1. PICK m \in Members(toPage) \cap DOMAIN Asks : o = Asks[m]
    BY DEF Asked, Keys
  <2>2. m.script = "op" /\ m.arg = o /\ m \in Scripts
    BY <2>1, QueueTypes, AsksOf
  <2>3. m = Script("op", o)
    BY <2>2 DEF Scripts, Script
  <2>4. QED
    BY <2>1, <2>3
<1>3. QED
  BY <1>1, <1>2

-----------------------------------------------------------------------------
(* Every step keeps the invariant: first the calls of the application.      *)
LEMMA InitTypeInv == Init => TypeInv
<1> SUFFICES ASSUME Init PROVE TypeInv
  OBVIOUS
<1>1. toPage = <<Script("query", Nil)>> /\ Script("query", Nil) \in Scripts /\ Script("query", Nil).script = "query"
  BY ScriptTypes DEF Init
<1>3. toPage \in Seq(Scripts) /\ Members(toPage) = {Script("query", Nil)}
  BY <1>1, OneMember
<1>4. Asked = {} /\ Once(toPage, Asks) /\ Keys(toPage, Adds) = {} /\ Rises(toPage, Adds)
  <2>1. Script("query", Nil) \notin DOMAIN Asks /\ Script("query", Nil) \notin DOMAIN Adds
    BY <1>1, AsksOf, AddsOf
  <2>2. \A i \in DOMAIN toPage : toPage[i] = Script("query", Nil)
    BY <1>3 DEF Members
  <2>3. QED
    BY <1>3, <2>1, <2>2 DEF Asked, Keys, Once, Rises
<1>5. /\ chain = <<>> /\ toJava = <<>> /\ tuning = {} /\ ready = {} /\ sending = <<>>
      /\ \A s \in Sender : onReady[s] = <<>> /\ track[s] = Nil
      /\ \A o \in Op : ops[o] = [call |-> NoCall, state |-> "unused"]
  BY DEF Init
<1>6. /\ Chained = {} /\ Answered = {} /\ Waiting = {} /\ Keys(toJava, Names) = {} /\ Members(toJava) = {}
      /\ Once(chain, Itself) /\ Once(toJava, Replies) /\ \A s \in Sender : Once(onReady[s], Itself)
  BY <1>5, NoKeys, EmptyQueue DEF Chained, Answered, Waiting
<1>7. TypeOK
  <2>1. [call |-> NoCall, state |-> "unused"] \in Call
    BY DEF Call
  <2>2. /\ jConn \in Conn /\ pConn \in Conn /\ jSig \in Sig \cup {Nil} /\ pSig \in Sig
        /\ NOps \in Nat /\ NSenders \in Nat
    BY PeerAssumption DEF Init, Conn, Sig
  <2>3. /\ senders \in Seq(Sender) /\ toJava \in Seq(Messages) /\ chain \in Seq(Op)
        /\ sending \in Seq(Tracks \cup {Nil}) /\ onReady \in [Sender -> Seq(Op)]
    BY EmptySeq DEF Init
  <2>4. /\ slot \in [Sender -> 0 .. NSenders] /\ seen \in [Sender -> 0 .. NOps]
        /\ track \in [Sender -> Tracks \cup {Nil}]
    BY <2>2 DEF Init
  <2>5. ops \in [Op -> Call]
    BY <2>1 DEF Init
  <2>6. /\ {jLocal, jRemote, pLocal, pRemote} \subseteq Descs \cup {Nil} /\ ready \subseteq Sender
        /\ tuning \subseteq Op /\ wanted \subseteq Tracks /\ closed \in BOOLEAN
    BY DEF Init
  <2>7. QED
    BY <1>3, <2>2, <2>3, <2>4, <2>5, <2>6 DEF TypeOK
<1>8. Numbered
  BY <1>5 DEF Numbered
<1>9. Pending = {}
  BY <1>5 DEF Pending
<1>10. Apart /\ Kept
  BY <1>4, <1>5, <1>6, <1>9, EmptyQueue DEF Apart, Kept
<1>11. Slots
  <2>1. Len(sending) = 0 /\ NSenders \in Nat /\ \A s \in Sender : 0 < s
    BY <1>5, PeerAssumption, EmptySeq DEF Sender
  <2>2. QED
    BY <1>4, <1>5, <1>6, <2>1 DEF Slots
<1>12. QED
  BY <1>7, <1>8, <1>10, <1>11 DEF TypeInv

(* A call that is answered at once is nowhere.                              *)
LEMMA AtOnceType ==
  ASSUME TypeInv, Fresh # {}, NEW call \in Kinds, NEW st \in {"resolved", "rejected"},
         ops' = [ops EXCEPT ![NextOp] = [call |-> call, state |-> st]],
         UNCHANGED <<jConn, jSig, jLocal, jRemote, senders, track, ready, onReady, toPage, toJava, page, wanted, closed>>
  PROVE  TypeInv'
<1>1. /\ NextOp \in Op /\ ops[NextOp].state = "unused" /\ ops' \in [Op -> Call] /\ Numbered'
      /\ ops'[NextOp].state = st /\ \A o \in Op : o # NextOp => ops'[o] = ops[o]
  BY StartCall DEF TypeInv
<1>2. Pending' = Pending /\ NextOp \notin Pending /\ Pending \subseteq Op
  BY <1>1 DEF Pending
<1>3. UNCHANGED <<Asked, Chained, tuning, Answered, Waiting>>
  BY DEF Asked, Chained, Answered, Waiting, page
<1>4. Apart'
  BY <1>2, <1>3 DEF TypeInv, Apart, page
<1>5. \A o \in Asked \cup Chained \cup tuning \cup Answered \cup Waiting : ops'[o] = ops[o]
  BY <1>1, <1>2 DEF TypeInv, Apart
<1>6. Kept'
  <2>1. \A s \in Sender : Members(onReady[s]) \subseteq Waiting
    BY DEF Waiting
  <2>2. \A m \in Members(toJava) : m.msg \in {"done", "tuned"} => m.op \in Answered
    BY AnswersFound DEF TypeInv
  <2>3. QED
    BY <1>3, <1>5, <2>1, <2>2 DEF TypeInv, Kept, Tuning, page
<1>7. TypeOK' /\ Slots'
  BY <1>1 DEF TypeInv, TypeOK, Slots, page
<1>8. QED
  BY <1>1, <1>4, <1>6, <1>7 DEF TypeInv

(* A call whose script is sent.                                             *)
LEMMA AskType ==
  ASSUME TypeInv, Fresh # {}, NEW call \in Kinds, call.kind = "setParameters" => call.arg \in ready,
         ops' = Start(call), toPage' = Append(toPage, Script("op", NextOp)),
         UNCHANGED <<jConn, jSig, jLocal, jRemote, senders, track, ready, onReady, toJava, page, wanted, closed>>
  PROVE  TypeInv'
<1>1. /\ NextOp \in Op /\ ops[NextOp].state = "unused" /\ ops' \in [Op -> Call] /\ Numbered'
      /\ ops'[NextOp].state = "pending" /\ ops'[NextOp].call = call
      /\ \A o \in Op : o # NextOp => ops'[o] = ops[o]
  BY StartCall DEF TypeInv, Start
<1>2. Pending' = Pending \cup {NextOp} /\ NextOp \notin Pending /\ Pending \subseteq Op
  BY <1>1 DEF Pending
<1>3. UNCHANGED <<Chained, tuning, Answered, Waiting>>
  BY DEF Chained, Answered, Waiting, page
<1>4. NextOp \notin Asked \cup Chained \cup tuning \cup Answered \cup Waiting
  BY <1>2 DEF TypeInv, Apart
<1>5. /\ toPage' \in Seq(Scripts) /\ Asked' = Asked \cup {NextOp}
      /\ (Once(toPage, Asks) => Once(toPage', Asks))
      /\ Keys(toPage', Adds) = Keys(toPage, Adds) /\ (Rises(toPage, Adds) => Rises(toPage', Adds))
  <2>1. Script("op", NextOp) \in Scripts /\ Script("op", NextOp).script = "op" /\ Script("op", NextOp).arg = NextOp
    BY <1>1, ScriptTypes
  <2>2. QED
    BY <1>4, <2>1, SendScript DEF TypeInv
<1>6. Apart'
  BY <1>2, <1>3, <1>4, <1>5 DEF TypeInv, Apart, page
<1>7. \A o \in Asked \cup Chained \cup tuning \cup Answered \cup Waiting : ops'[o] = ops[o]
  BY <1>1, <1>2, <1>4 DEF TypeInv, Apart
<1>8. Kept'
  <2>1. \A s \in Sender : Members(onReady[s]) \subseteq Waiting
    BY DEF Waiting
  <2>2. \A m \in Members(toJava) : m.msg \in {"done", "tuned"} => m.op \in Answered
    BY AnswersFound DEF TypeInv
  <2>3. QED
    BY <1>1, <1>3, <1>5, <1>7, <2>1, <2>2 DEF TypeInv, Kept, Tuning, page
<1>9. TypeOK' /\ Slots'
  BY <1>1, <1>5 DEF TypeInv, TypeOK, Slots, page
<1>10. QED
  BY <1>1, <1>6, <1>8, <1>9 DEF TypeInv

LEMMA NegotiateType ==
  ASSUME TypeInv, NEW call \in Kinds, call.kind # "setParameters", Negotiate(call) PROVE TypeInv'
BY AskType DEF Negotiate

LEMMA AddIceCandidateType == ASSUME TypeInv, NEW null \in BOOLEAN, AddIceCandidate(null) PROVE TypeInv'
<1> DEFINE call == [kind |-> "addIceCandidate", arg |-> Nil]
<1>1. call \in Kinds /\ call.kind # "setParameters"
  BY DEF Kinds
<1>2. CASE ops' = [ops EXCEPT ![NextOp] = [call |-> call, state |-> "rejected"]] /\ UNCHANGED toPage
  BY <1>1, <1>2, AtOnceType DEF AddIceCandidate
<1>3. CASE ops' = [ops EXCEPT ![NextOp] = [call |-> call, state |-> "resolved"]] /\ UNCHANGED toPage
  BY <1>1, <1>3, AtOnceType DEF AddIceCandidate
<1>4. CASE ops' = Start(call) /\ toPage' = Append(toPage, Script("op", NextOp))
  BY <1>1, <1>4, AskType DEF AddIceCandidate
<1>5. QED
  BY <1>2, <1>3, <1>4 DEF AddIceCandidate

(* A call of setParameters waits for its sender, or its script is sent.     *)
LEMMA SetParametersType == ASSUME TypeInv, NEW s \in Sender, SetParameters(s) PROVE TypeInv'
<1> DEFINE call == [kind |-> "setParameters", arg |-> s]
<1>1. call \in Kinds /\ call.kind = "setParameters" /\ call.arg = s
  BY DEF Kinds
<1>2. CASE s \in ready /\ toPage' = Append(toPage, Script("op", NextOp)) /\ UNCHANGED onReady
  BY <1>1, <1>2, AskType DEF SetParameters
<1>3. CASE onReady' = [onReady EXCEPT ![s] = Append(@, NextOp)] /\ UNCHANGED toPage
  <2>1. /\ NextOp \in Op /\ ops[NextOp].state = "unused" /\ ops' \in [Op -> Call] /\ Numbered'
        /\ ops'[NextOp].state = "pending" /\ ops'[NextOp].call = call
        /\ \A o \in Op : o # NextOp => ops'[o] = ops[o]
    BY <1>1, StartCall DEF TypeInv, Start, SetParameters
  <2>2. Pending' = Pending \cup {NextOp} /\ NextOp \notin Pending /\ Pending \subseteq Op
    BY <2>1 DEF Pending
  <2>3. UNCHANGED <<Asked, Chained, tuning, Answered, toPage, chain, toJava, ready, pConn, sending, slot, track>>
    BY <1>3 DEF Asked, Chained, Answered, page, SetParameters
  <2>4. NextOp \notin Asked \cup Chained \cup tuning \cup Answered \cup Waiting
    BY <2>2 DEF TypeInv, Apart
  <2>5. /\ onReady'[s] = Append(onReady[s], NextOp) /\ onReady[s] \in Seq(Op)
        /\ onReady' \in [Sender -> Seq(Op)] /\ \A t \in Sender : t # s => onReady'[t] = onReady[t]
    BY <1>3, <2>1 DEF TypeInv, TypeOK
  <2>6. Members(onReady'[s]) = Members(onReady[s]) \cup {NextOp}
    BY <2>1, <2>5, AppendMembers
  <2>7. NextOp \notin Members(onReady[s])
    BY <2>4 DEF Waiting
  <2>8. Waiting' = Waiting \cup {NextOp}
    BY <2>5, <2>6 DEF Waiting
  <2>9. Once(onReady'[s], Itself)
    <3>1. Once(onReady[s], Itself) /\ Itself[NextOp] \notin Keys(onReady[s], Itself)
      BY <2>1, <2>5, <2>7, OfItself, ItselfOf DEF TypeInv, Apart
    <3>2. QED
      BY <2>1, <2>5, <3>1, AppendOnce
  <2>10. Apart'
    <3>1. \A t \in Sender : Once(onReady'[t], Itself)
      BY <2>5, <2>9 DEF TypeInv, Apart
    <3>2. QED
      BY <2>2, <2>3, <2>4, <2>8, <3>1 DEF TypeInv, Apart
  <2>11. \A o \in Asked \cup Chained \cup tuning \cup Answered \cup Waiting : ops'[o] = ops[o]
    BY <2>1, <2>2, <2>4 DEF TypeInv, Apart
  <2>12. Kept'
    <3>1. \A t \in Sender : Members(onReady[t]) \subseteq Waiting
      BY DEF Waiting
    <3>2. \A m \in Members(toJava) : m.msg \in {"done", "tuned"} => m.op \in Answered
      BY AnswersFound DEF TypeInv
    <3>3. \A t \in Sender : \A o \in Members(onReady'[t]) : ops'[o].call.kind = "setParameters" /\ ops'[o].call.arg = t
      <4> SUFFICES ASSUME NEW t \in Sender, NEW o \in Members(onReady'[t])
                   PROVE  ops'[o].call.kind = "setParameters" /\ ops'[o].call.arg = t
        OBVIOUS
      <4>1. CASE o = NextOp /\ t = s
        BY <1>1, <2>1, <4>1
      <4>2. CASE o \in Members(onReady[t])
        BY <2>11, <3>1, <4>2 DEF TypeInv, Kept, Tuning
      <4>3. QED
        BY <2>5, <2>6, <4>1, <4>2
    <3>4. QED
      BY <2>3, <2>11, <3>2, <3>3 DEF TypeInv, Kept, Tuning
  <2>13. TypeOK' /\ Slots'
    BY <1>3, <2>1, <2>5 DEF TypeInv, TypeOK, Slots, page, SetParameters
  <2>14. QED
    BY <2>1, <2>10, <2>12, <2>13 DEF TypeInv
<1>4. QED
  BY <1>2, <1>3 DEF SetParameters

(* A script that is not about a call or a sender.                           *)
LEMMA SendOtherType ==
  ASSUME TypeInv, NEW m \in Scripts, m.script \notin {"op", "addTrack"}, toPage' = Append(toPage, m),
         senders' \in Seq(Sender), jConn' \in Conn, jSig' \in Sig \cup {Nil}, wanted' \subseteq Tracks, closed' \in BOOLEAN,
         UNCHANGED <<jLocal, jRemote, track, ready, onReady, ops, toJava, page>>
  PROVE  TypeInv'
<1>1. /\ toPage' \in Seq(Scripts) /\ Asked' = Asked /\ Keys(toPage', Adds) = Keys(toPage, Adds)
      /\ (Once(toPage, Asks) => Once(toPage', Asks)) /\ (Rises(toPage, Adds) => Rises(toPage', Adds))
  BY SendScript DEF TypeInv
<1>2. UNCHANGED <<Chained, tuning, Answered, Waiting, Pending>>
  BY DEF Chained, Answered, Waiting, Pending, page
<1>3. TypeOK' /\ Numbered' /\ Slots'
  BY <1>1 DEF TypeInv, TypeOK, Numbered, Slots, page
<1>4. Apart' /\ Kept'
  BY <1>1, <1>2 DEF TypeInv, Apart, Kept, Tuning, page
<1>5. QED
  BY <1>3, <1>4 DEF TypeInv

LEMMA RemoveAtType ==
  ASSUME NEW S, NEW q \in Seq(S), NEW i \in DOMAIN q
  PROVE  RemoveAt(q, i) \in Seq(S)
<1>1. Len(q) \in Nat /\ DOMAIN q = 1 .. Len(q) /\ i \in 1 .. Len(q)
  BY LenProperties
<1>2. SubSeq(q, 1, i - 1) \in Seq(S) /\ SubSeq(q, i + 1, Len(q)) \in Seq(S)
  BY <1>1, SubSeqProperties
<1>3. QED
  BY <1>2, ConcatProperties DEF RemoveAt

LEMMA RemoveTrackType == ASSUME TypeInv, NEW s \in Sender, RemoveTrack(s) PROVE TypeInv'
<1> DEFINE t == track[s]
           at == {i \in DOMAIN senders : track[senders[i]] = t}
<1>1. senders \in Seq(Sender) /\ jSig \in Sig \cup {Nil} /\ jConn \in Conn /\ t \in Tracks /\ wanted \subseteq Tracks
  BY DEF TypeInv, TypeOK, RemoveTrack
<1>2. FirstWith(t) = IF at = {} THEN 0 ELSE CHOOSE i \in at : \A j \in at : i <= j
  BY DEF FirstWith
<1>3. at \subseteq DOMAIN senders /\ DOMAIN senders \subseteq Nat
  BY <1>1, LenProperties
<1>4. at = {} => senders' = senders
  BY <1>2 DEF RemoveTrack
<1>5. ASSUME at # {} PROVE FirstWith(t) \in DOMAIN senders /\ senders' \in Seq(Sender)
  <2> HIDE DEF at
  <2>1. PICK n \in at : \A j \in at : n <= j
    BY <1>3, <1>5, LeastNumber
  <2>2. FirstWith(t) \in at
    BY <1>2, <1>5, <2>1
  <2>3. FirstWith(t) \in DOMAIN senders
    BY <1>3, <2>2
  <2>4. RemoveAt(senders, FirstWith(t)) \in Seq(Sender)
    BY <1>1, <2>3, RemoveAtType
  <2>5. QED
    BY <1>1, <2>3, <2>4 DEF RemoveTrack
<1>6. senders' \in Seq(Sender)
  BY <1>1, <1>4, <1>5
<1> HIDE DEF at, t
<1>7. Script("removeTrack", t) \in Scripts /\ Script("removeTrack", t).script = "removeTrack"
  BY <1>1, ScriptTypes
<1>8. /\ toPage' = Append(toPage, Script("removeTrack", t)) /\ wanted' = wanted \ {t}
      /\ UNCHANGED <<jConn, jSig, jLocal, jRemote, track, ready, onReady, ops, toJava, page, closed>>
  BY DEF RemoveTrack, t
<1>9. closed \in BOOLEAN
  BY DEF TypeInv, TypeOK
<1>10. QED
  BY <1>1, <1>6, <1>7, <1>8, <1>9, SendOtherType

LEMMA CloseType == ASSUME TypeInv, Close PROVE TypeInv'
<1>1. /\ Script("close", Nil) \in Scripts /\ Script("close", Nil).script = "close"
      /\ "closed" \in Conn /\ "closed" \in Sig /\ <<>> \in Seq(Sender)
  BY ScriptTypes, EmptySeq DEF Conn, Sig
<1>2. wanted \subseteq Tracks
  BY DEF TypeInv, TypeOK
<1>3. /\ toPage' = Append(toPage, Script("close", Nil)) /\ jConn' = "closed" /\ jSig' = "closed"
      /\ senders' = <<>> /\ closed' = TRUE
      /\ UNCHANGED <<jLocal, jRemote, track, ready, onReady, ops, toJava, page, wanted>>
  BY DEF Close
<1>4. QED
  BY <1>1, <1>2, <1>3, SendOtherType

(* A new sender is numbered after all that the page has heard of.           *)
LEMMA AddTrackType == ASSUME TypeInv, NEW t \in Tracks, AddTrack(t) PROVE TypeInv'
<1> DEFINE n == NewSender
<1>1. n \in Sender /\ track[n] = Nil /\ \A s \in Unmade : n <= s
  BY NewSenderType DEF AddTrack
<1>2. /\ track' = [track EXCEPT ![n] = t] /\ toPage' = Append(toPage, Script("addTrack", n))
      /\ wanted' = wanted \cup {t}
      /\ UNCHANGED <<jConn, jSig, jLocal, jRemote, senders, ready, onReady, ops, toJava, page, closed>>
  BY DEF AddTrack
<1> HIDE DEF n
<1>3. /\ track' \in [Sender -> Tracks \cup {Nil}] /\ track'[n] = t /\ t # Nil
      /\ \A s \in Sender : s # n => track'[s] = track[s]
  BY <1>1, <1>2, PeerAssumption DEF TypeInv, TypeOK
<1>4. /\ Script("addTrack", n) \in Scripts /\ Script("addTrack", n).script = "addTrack"
      /\ Script("addTrack", n).arg = n
  BY <1>1, ScriptTypes
<1>5. \A s \in Sender : (track[s] # Nil => s < n) /\ (track[s] = Nil => n <= s)
  <2> SUFFICES ASSUME NEW s \in Sender PROVE (track[s] # Nil => s < n) /\ (track[s] = Nil => n <= s)
    OBVIOUS
  <2>1. track[s] = Nil => n <= s
    BY <1>1 DEF Unmade
  <2>2. track[s] # Nil => s # n /\ ~(n < s)
    BY <1>1 DEF TypeInv, Numbered
  <2>3. QED
    BY <1>1, <2>1, <2>2 DEF Sender
<1>6. \A s \in Keys(toPage, Adds) : s \in Sender
  <2> SUFFICES ASSUME NEW m \in Members(toPage), m \in DOMAIN Adds PROVE Adds[m] \in Sender
    BY DEF Keys
  <2>1. m \in Scripts
    BY QueueTypes DEF TypeInv
  <2>2. QED
    BY <2>1, AddsOf, ScriptTypes
<1>7. Precede(Keys(toPage, Adds), {n})
  BY <1>5, <1>6 DEF TypeInv, Slots, Precede
<1>8. /\ toPage' \in Seq(Scripts) /\ Asked' = Asked /\ (Once(toPage, Asks) => Once(toPage', Asks))
      /\ Keys(toPage', Adds) = Keys(toPage, Adds) \cup {n} /\ (Rises(toPage, Adds) => Rises(toPage', Adds))
  BY <1>2, <1>4, <1>7, SendScript DEF TypeInv
<1>9. UNCHANGED <<Chained, tuning, Answered, Waiting, Pending>>
  BY <1>2 DEF Chained, Answered, Waiting, Pending, page
<1>10. Apart' /\ Kept'
  BY <1>2, <1>8, <1>9 DEF TypeInv, Apart, Kept, Tuning, page
<1>11. Numbered'
  <2> SUFFICES ASSUME NEW r \in Sender, NEW s \in Sender, r < s, track'[r] = Nil PROVE track'[s] = Nil
    BY <1>2 DEF TypeInv, Numbered
  <2>1. r # n /\ track[r] = Nil
    BY <1>3
  <2>2. track[s] = Nil /\ n <= r
    BY <1>5, <2>1 DEF TypeInv, Numbered
  <2>3. s # n
    BY <1>1, <2>2 DEF Sender
  <2>4. QED
    BY <1>3, <2>2, <2>3
<1>12. Slots'
  <2>1. Len(sending) < n
    BY <1>1 DEF TypeInv, Slots
  <2>2. \A s \in Keys(toPage', Adds) : Len(sending) < s /\ track'[s] # Nil
    BY <1>3, <1>6, <1>8, <2>1 DEF TypeInv, Slots
  <2>3. \A s \in Sender : track'[s] = Nil => Len(sending) < s
    BY <1>3 DEF TypeInv, Slots
  <2>4. QED
    BY <1>2, <1>8, <2>2, <2>3 DEF TypeInv, Slots, page
<1>13. TypeOK'
  BY <1>2, <1>3, <1>8 DEF TypeInv, TypeOK, page
<1>14. QED
  BY <1>10, <1>11, <1>12, <1>13 DEF TypeInv
-----------------------------------------------------------------------------
(* Then the event thread of Java.                                           *)

(* A call is answered: it leaves the last place where it was.               *)
LEMMA AnswerType ==
  ASSUME TypeInv, toJava # <<>>, toJava' = Tail(toJava), NEW m, m = Head(toJava), m.msg \in {"done", "tuned"},
         ops' = Finish(m.op, m.ok), jLocal' \in Descs \cup {Nil}, jRemote' \in Descs \cup {Nil},
         track' \in [Sender -> Tracks \cup {Nil}], \A s \in Sender : track'[s] = Nil <=> track[s] = Nil,
         UNCHANGED <<jConn, jSig, senders, ready, onReady, toPage, page, wanted, closed>>
  PROVE  TypeInv'
<1> DEFINE o == m.op
<1>1. /\ toJava' \in Seq(Messages) /\ m \in Messages /\ Members(toJava) = Members(toJava') \cup {m}
      /\ o \in Op /\ Answered = Answered' \cup {o} /\ o \notin Answered' /\ Once(toJava', Replies)
      /\ Keys(toJava', Names) = Keys(toJava, Names)
  BY TakeMessage DEF TypeInv, Apart
<1>2. ops[o].state = "pending" /\ m.ok \in BOOLEAN
  BY <1>1, MessageFields DEF TypeInv, Apart, Pending
<1>3. /\ ops' \in [Op -> Call] /\ ops'[o].state \in {"resolved", "rejected"}
      /\ \A p \in Op : ops'[p].call = ops[p].call /\ (p # o => ops'[p] = ops[p])
      /\ \A p \in Op : ops'[p].state = "unused" <=> ops[p].state = "unused"
  BY <1>1, <1>2, FinishCall DEF TypeInv
<1> HIDE DEF o
<1>4. Pending' = Pending \ {o} /\ Pending \subseteq Op
  BY <1>1, <1>3 DEF Pending
<1>5. UNCHANGED <<Asked, Chained, tuning, Waiting>>
  BY DEF Asked, Chained, Waiting, page
<1>6. o \notin Asked \cup Chained \cup tuning \cup Waiting
  BY <1>1 DEF TypeInv, Apart
<1>7. Apart'
  BY <1>1, <1>4, <1>5, <1>6 DEF TypeInv, Apart, page
<1>8. Asked \cup Chained \cup tuning \cup Answered \cup Waiting \subseteq Op
  BY <1>4 DEF TypeInv, Apart
<1>9. Kept'
  <2>1. \A s \in Sender : Members(onReady[s]) \subseteq Waiting
    BY DEF Waiting
  <2>2. \A n \in Members(toJava) : n.msg \in {"done", "tuned"} => n.op \in Answered
    BY AnswersFound DEF TypeInv
  <2>3. \A p \in Op : (Tuning(p)' <=> Tuning(p)) /\ ops'[p].call.arg = ops[p].call.arg
    BY <1>3 DEF Tuning
  <2>4. /\ \A p \in Chained' : ~Tuning(p)'
        /\ \A p \in tuning' : Tuning(p)' /\ ops'[p].call.arg \in ready
        /\ \A p \in Asked' : Tuning(p)' => ops'[p].call.arg \in ready
    BY <1>5, <1>8, <2>3 DEF TypeInv, Kept
  <2>5. \A s \in Sender : \A p \in Members(onReady[s]) : Tuning(p)' /\ ops'[p].call.arg = s
    BY <1>8, <2>1, <2>3 DEF TypeInv, Kept
  <2>6. \A n \in Members(toJava') :
          /\ n.msg = "done" => ~Tuning(n.op)'
          /\ n.msg = "tuned" => Tuning(n.op)' /\ ops'[n.op].call.arg \in ready /\ (n.ok => n.track # Nil)
    <3> SUFFICES ASSUME NEW n \in Members(toJava')
                 PROVE  /\ n.msg = "done" => ~Tuning(n.op)'
                        /\ n.msg = "tuned" => Tuning(n.op)' /\ ops'[n.op].call.arg \in ready
                                              /\ (n.ok => n.track # Nil)
      OBVIOUS
    <3>1. n \in Members(toJava) /\ (n.msg \in {"done", "tuned"} => n.op \in Op)
      BY <1>1, <1>8, <2>2
    <3>2. QED
      BY <2>3, <3>1 DEF TypeInv, Kept
  <2>7. QED
    BY <2>4, <2>5, <2>6 DEF Kept
<1>10. Numbered' /\ Slots'
  <2>1. Numbered'
    BY <1>3 DEF TypeInv, Numbered
  <2>2. ready \subseteq Sender /\ \A s \in Keys(toJava, Names) : s \in Sender
    <3>1. \A n \in Members(toJava) : n \in DOMAIN Names => Names[n] \in Sender
      BY QueueTypes, NamesOf, MessageFields DEF TypeInv
    <3>2. QED
      BY <3>1 DEF TypeInv, TypeOK, Keys
  <2>3. \A s \in Keys(toPage, Adds) : s \in Sender
    <3>1. \A n \in Members(toPage) : n \in DOMAIN Adds => Adds[n] \in Sender
      BY QueueTypes, AddsOf, ScriptTypes DEF TypeInv
    <3>2. QED
      BY <3>1 DEF Keys
  <2>4. Slots'
    BY <1>1, <2>2, <2>3 DEF TypeInv, Slots, page
  <2>5. QED
    BY <2>1, <2>4
<1>11. TypeOK'
  BY <1>1, <1>3 DEF TypeInv, TypeOK, page
<1>12. QED
  BY <1>7, <1>9, <1>10, <1>11 DEF TypeInv

(* What is known of the call that an answer is for.                         *)
LEMMA AnsweredCall ==
  ASSUME TypeInv, toJava # <<>>, NEW m, m = Head(toJava), m.msg \in {"done", "tuned"}
  PROVE  /\ m \in Messages /\ m.op \in Op /\ ops[m.op].call \in Kinds /\ ops[m.op].state = "pending"
         /\ m.msg = "done" => ~Tuning(m.op)
         /\ m.msg = "tuned" => Tuning(m.op) /\ ops[m.op].call.arg \in ready /\ (m.ok => m.track # Nil)
<1>1. toJava \in Seq(Messages)
  BY QueueTypes DEF TypeInv
<1>2. m \in Members(toJava) /\ m \in Messages
  BY <1>1, TailMembers
<1>3. m.op \in Answered /\ m.op \in Op
  BY <1>2, AnswersFound, MessageFields DEF TypeInv
<1>4. ops[m.op].state = "pending"
  BY <1>3 DEF TypeInv, Apart, Pending
<1>5. QED
  BY <1>2, <1>3, <1>4 DEF TypeInv, Kept, Numbered

LEMMA CallArguments ==
  \A call \in Kinds :
     /\ call.kind \in {"setLocalDescription", "setRemoteDescription"} => call.arg \in Descs
     /\ call.kind = "setParameters" => call.arg \in Sender
BY DEF Kinds

LEMMA OnDoneType ==
  ASSUME TypeInv, toJava # <<>>, toJava' = Tail(toJava), UNCHANGED <<page, wanted, closed>>,
         NEW m, m = Head(toJava), m.msg = "done", OnDone(m)
  PROVE  TypeInv'
<1>1. ops[m.op].call \in Kinds
  BY AnsweredCall
<1>2. jLocal' \in Descs \cup {Nil} /\ jRemote' \in Descs \cup {Nil}
  BY <1>1, CallArguments DEF OnDone, TypeInv, TypeOK
<1>3. track' = track /\ track \in [Sender -> Tracks \cup {Nil}]
  BY DEF OnDone, TypeInv, TypeOK
<1>4. QED
  BY <1>2, <1>3, AnswerType DEF OnDone

LEMMA OnTunedType ==
  ASSUME TypeInv, toJava # <<>>, toJava' = Tail(toJava), UNCHANGED <<page, wanted, closed>>,
         NEW m, m = Head(toJava), m.msg = "tuned", OnTuned(m)
  PROVE  TypeInv'
<1> DEFINE s == ops[m.op].call.arg
<1>1. /\ m \in Messages /\ m.op \in Op /\ ops[m.op].call \in Kinds /\ ops[m.op].state = "pending"
      /\ Tuning(m.op) /\ s \in ready /\ (m.ok => m.track # Nil)
  BY AnsweredCall
<1>2. s \in Sender
  BY <1>1, CallArguments DEF Tuning
<1>3. jLocal' = jLocal /\ jRemote' = jRemote /\ track' = IF m.ok THEN [track EXCEPT ![s] = m.track] ELSE track
  BY DEF OnTuned
<1>4. /\ {jLocal, jRemote} \subseteq Descs \cup {Nil} /\ track \in [Sender -> Tracks \cup {Nil}]
      /\ m.track \in Tracks \cup {Nil}
  BY <1>1, MessageFields DEF TypeInv, TypeOK
<1>5. track[s] # Nil
  BY <1>1 DEF TypeInv, Slots
<1> HIDE DEF s
<1>6. track' \in [Sender -> Tracks \cup {Nil}] /\ \A r \in Sender : track'[r] = Nil <=> track[r] = Nil
  BY <1>1, <1>2, <1>3, <1>4, <1>5
<1>7. QED
  BY <1>3, <1>4, <1>6, AnswerType DEF OnTuned

LEMMA OnEventType ==
  ASSUME TypeInv, toJava # <<>>, toJava' = Tail(toJava), UNCHANGED <<page, wanted, closed>>,
         NEW m, m = Head(toJava), m.msg = "event", OnEvent(m)
  PROVE  TypeInv'
<1>1. /\ toJava' \in Seq(Messages) /\ m \in Messages /\ Members(toJava) = Members(toJava') \cup {m}
      /\ Answered' = Answered /\ (Once(toJava, Replies) => Once(toJava', Replies))
      /\ Keys(toJava', Names) = Keys(toJava, Names)
  BY TakeMessage DEF TypeInv
<1>2. m.conn \in Conn /\ m.sig \in Sig \cup {Nil}
  BY <1>1, MessageFields
<1>3. UNCHANGED <<Asked, Chained, tuning, Waiting, Pending>>
  BY DEF Asked, Chained, Waiting, Pending, page, OnEvent
<1>4. Apart' /\ Kept'
  BY <1>1, <1>3 DEF TypeInv, Apart, Kept, Tuning, page, OnEvent
<1>5. TypeOK' /\ Numbered' /\ Slots'
  BY <1>1, <1>2 DEF TypeInv, TypeOK, Numbered, Slots, page, OnEvent
<1>6. QED
  BY <1>4, <1>5 DEF TypeInv

(* The calls that waited for a sender become scripts.                       *)
LEMMA Replayed ==
  ASSUME NEW q \in Seq(Op), NEW r, r = [i \in DOMAIN q |-> Script("op", q[i])]
  PROVE  /\ r \in Seq(Scripts) /\ DOMAIN r = DOMAIN q
         /\ \A i \in DOMAIN q : r[i] \in Scripts /\ r[i].script = "op" /\ r[i].arg = q[i]
         /\ Keys(r, Asks) = Members(q) /\ (Once(q, Itself) => Once(r, Asks))
         /\ Keys(r, Adds) = {} /\ Rises(r, Adds)
<1>1. DOMAIN q = 1 .. Len(q) /\ Len(q) \in Nat /\ \A i \in DOMAIN q : q[i] \in Op
  BY LenProperties, ElementOfSeq
<1>2. DOMAIN r = DOMAIN q /\ \A i \in DOMAIN q : r[i] = Script("op", q[i])
  OBVIOUS
<1>3. \A i \in DOMAIN q : r[i] \in Scripts /\ r[i].script = "op" /\ r[i].arg = q[i]
  BY <1>1, <1>2, ScriptTypes
<1>4. r \in Seq(Scripts)
  BY <1>1, <1>2, <1>3
<1>5. \A i \in DOMAIN q : r[i] \in DOMAIN Asks /\ Asks[r[i]] = q[i] /\ r[i] \notin DOMAIN Adds
  BY <1>3, AsksOf, AddsOf
<1>6. Keys(r, Asks) = Members(q)
  BY <1>2, <1>5 DEF Keys, Members
<1>7. Once(q, Itself) => Once(r, Asks)
  BY <1>1, <1>2, <1>5, ItselfOf DEF Once
<1>8. Keys(r, Adds) = {} /\ Rises(r, Adds)
  BY <1>2, <1>5 DEF Keys, Members, Rises
<1>9. QED
  BY <1>2, <1>3, <1>4, <1>6, <1>7, <1>8

LEMMA OnSenderType ==
  ASSUME TypeInv, toJava # <<>>, toJava' = Tail(toJava), UNCHANGED <<page, wanted, closed>>,
         NEW m, m = Head(toJava), m.msg = "sender", OnSender(m)
  PROVE  TypeInv'
<1> DEFINE s == m.sender
           q == onReady[s]
           r == [i \in DOMAIN q |-> Script("op", q[i])]
<1>1. /\ toJava' \in Seq(Messages) /\ m \in Messages /\ Members(toJava) = Members(toJava') \cup {m}
      /\ Answered' = Answered /\ (Once(toJava, Replies) => Once(toJava', Replies))
      /\ s \in Sender /\ Keys(toJava, Names) = Keys(toJava', Names) \cup {s}
  BY TakeMessage DEF TypeInv
<1>2. /\ senders' = Append(senders, s) /\ ready' = ready \cup {s}
      /\ onReady' = [onReady EXCEPT ![s] = <<>>] /\ toPage' = toPage \o r
      /\ UNCHANGED <<jConn, jSig, jLocal, jRemote, track, ops>>
  BY DEF OnSender
<1>3. q \in Seq(Op) /\ toPage \in Seq(Scripts) /\ Once(q, Itself) /\ Members(q) \subseteq Waiting
  BY <1>1, QueueTypes DEF TypeInv, Apart, Waiting
<1>4. /\ r \in Seq(Scripts) /\ Keys(r, Asks) = Members(q) /\ Once(r, Asks)
      /\ Keys(r, Adds) = {} /\ Rises(r, Adds)
  BY <1>3, Replayed
<1> HIDE DEF r
<1>5. toPage' \in Seq(Scripts) /\ Asked' = Asked \cup Keys(r, Asks) /\ Keys(toPage', Adds) = Keys(toPage, Adds)
  <2>1. toPage' = toPage \o r /\ toPage \in Seq(Scripts) /\ r \in Seq(Scripts)
    BY <1>2, <1>3, <1>4
  <2>2. toPage' \in Seq(Scripts)
    BY <2>1, ConcatMembers
  <2>3. ASSUME NEW f PROVE Keys(toPage', f) = Keys(toPage, f) \cup Keys(r, f)
    <3>1. Keys(toPage \o r, f) = Keys(toPage, f) \cup Keys(r, f)
      BY <2>1, ConcatKeys
    <3>2. QED
      BY <2>1, <3>1
  <2>4. QED
    BY <1>4, <2>2, <2>3 DEF Asked
<1>6. Once(toPage', Asks)
  <2>1. Once(toPage, Asks) /\ Keys(toPage, Asks) \cap Keys(r, Asks) = {}
    BY <1>3, <1>4 DEF TypeInv, Apart, Asked
  <2>2. QED
    BY <1>2, <1>3, <1>4, <2>1, ConcatOnce
<1>7. Rises(toPage', Adds)
  <2>1. Rises(toPage, Adds) /\ Precede(Keys(toPage, Adds), Keys(r, Adds))
    BY <1>4 DEF TypeInv, Slots, Precede
  <2>2. QED
    BY <1>2, <1>3, <1>4, <2>1, ConcatRises
<1>8. /\ onReady'[s] = <<>> /\ onReady' \in [Sender -> Seq(Op)]
      /\ \A t \in Sender : t # s => onReady'[t] = onReady[t]
  BY <1>1, <1>2, EmptySeq DEF TypeInv, TypeOK
<1> HIDE DEF s, q
<1>9. Members(onReady'[s]) = {} /\ Once(onReady'[s], Itself)
  BY <1>8, EmptyQueue, NoKeys
<1>10. Waiting' = UNION {Members(onReady[t]) : t \in Sender \ {s}}
  BY <1>1, <1>8, <1>9 DEF Waiting
<1>11. Waiting = Waiting' \cup Members(q)
  BY <1>1, <1>10 DEF Waiting, q
<1>12. Waiting' \cap Members(q) = {}
  <2>1. \A o \in Members(q) : ops[o].call.arg = s
    BY <1>1 DEF TypeInv, Kept, q
  <2>2. \A t \in Sender \ {s} : \A o \in Members(onReady[t]) : ops[o].call.arg = t
    BY DEF TypeInv, Kept
  <2>3. QED
    BY <1>10, <2>1, <2>2
<1>13. UNCHANGED <<Chained, tuning, Pending, pConn, ops>>
  BY <1>2 DEF Chained, Pending, page
<1>14. Apart'
  <2>1. \A t \in Sender : Once(onReady'[t], Itself)
    BY <1>8, <1>9 DEF TypeInv, Apart
  <2>2. QED
    BY <1>1, <1>3, <1>4, <1>5, <1>6, <1>11, <1>12, <1>13, <2>1 DEF TypeInv, Apart, page
<1>15. Kept'
  <2>1. /\ \A o \in Asked' : Tuning(o) => ops[o].call.arg \in ready'
        /\ \A o \in tuning' : Tuning(o) /\ ops[o].call.arg \in ready'
    BY <1>1, <1>2, <1>4, <1>5, <1>13 DEF TypeInv, Kept, q
  <2>2. \A t \in Sender : \A o \in Members(onReady'[t]) : Tuning(o) /\ ops[o].call.arg = t
    BY <1>8, <1>9 DEF TypeInv, Kept
  <2>3. QED
    BY <1>1, <1>2, <1>13, <2>1, <2>2 DEF TypeInv, Kept, Tuning
<1>16. Numbered' /\ Slots'
  BY <1>1, <1>2, <1>5, <1>7 DEF TypeInv, Numbered, Slots, page
<1>17. TypeOK'
  <2>1. senders' \in Seq(Sender)
    BY <1>1, <1>2, AppendMembers DEF TypeInv, TypeOK
  <2>2. QED
    BY <1>1, <1>2, <1>5, <1>8, <2>1 DEF TypeInv, TypeOK, page
<1>18. QED
  BY <1>14, <1>15, <1>16, <1>17 DEF TypeInv

LEMMA JavaStepType == ASSUME TypeInv, JavaStep PROVE TypeInv'
<1> DEFINE m == Head(toJava)
<1>1. toJava # <<>> /\ toJava' = Tail(toJava) /\ UNCHANGED <<page, wanted, closed>>
  BY DEF JavaStep
<1>2. CASE m.msg = "done" /\ OnDone(m)
  BY <1>1, <1>2, OnDoneType
<1>3. CASE m.msg = "tuned" /\ OnTuned(m)
  BY <1>1, <1>3, OnTunedType
<1>4. CASE m.msg = "sender" /\ OnSender(m)
  BY <1>1, <1>4, OnSenderType
<1>5. CASE m.msg = "event" /\ OnEvent(m)
  BY <1>1, <1>5, OnEventType
<1>6. QED
  BY <1>2, <1>3, <1>4, <1>5 DEF JavaStep

-----------------------------------------------------------------------------
(* Then the scripts that the page runs.                                     *)

(* A page that runs a script other than a call or a new sender, and tells   *)
(* Java at most of its state.                                               *)
LEMMA PlainScriptType ==
  ASSUME TypeInv, toPage # <<>>, toPage' = Tail(toPage), UNCHANGED <<java, wanted, closed>>,
         Head(toPage).script \notin {"op", "addTrack"},
         pConn' \in Conn, pSig' \in Sig, pConn' # "closed" => pConn # "closed" /\ chain' = chain,
         chain' \in {chain, <<>>}, sending' \in Seq(Tracks \cup {Nil}), Len(sending') = Len(sending),
         toJava' = toJava \/ toJava' = Append(toJava, Event("query", Nil, pConn)),
         UNCHANGED <<pLocal, pRemote, tuning, slot, seen>>
  PROVE  TypeInv'
<1>1. /\ toPage' \in Seq(Scripts) /\ Asked' = Asked /\ (Once(toPage, Asks) => Once(toPage', Asks))
      /\ Keys(toPage', Adds) = Keys(toPage, Adds) /\ (Rises(toPage, Adds) => Rises(toPage', Adds))
  BY TakeScript DEF TypeInv
<1>2. /\ toJava' \in Seq(Messages) /\ Answered' = Answered /\ (Once(toJava, Replies) => Once(toJava', Replies))
      /\ Keys(toJava', Names) = Keys(toJava, Names)
      /\ \A m \in Members(toJava') : m \in Members(toJava) \/ m.msg = "event"
  <2>1. CASE toJava' = toJava
    BY <2>1, QueueTypes DEF TypeInv, Answered
  <2>2. CASE toJava' = Append(toJava, Event("query", Nil, pConn))
    <3>1. Event("query", Nil, pConn) \in Messages /\ Event("query", Nil, pConn).msg = "event"
      BY MessageTypes DEF TypeInv, TypeOK, Event
    <3>2. QED
      BY <2>2, <3>1, SendMessage DEF TypeInv
  <2>3. QED
    BY <2>1, <2>2
<1>3. chain' \in Seq(Op) /\ Chained' \subseteq Chained /\ Once(chain', Itself)
  <2>1. CASE chain' = chain
    BY <2>1, QueueTypes DEF TypeInv, Chained, Apart
  <2>2. CASE chain' = <<>>
    BY <2>2, EmptySeq, EmptyQueue, NoKeys DEF Chained
  <2>3. QED
    BY <2>1, <2>2
<1>4. pConn' # "closed" => Chained' = Chained
  BY DEF Chained
<1>5. UNCHANGED <<Waiting, Pending, tuning, ops, onReady, ready, track>>
  BY DEF Waiting, Pending, java
<1>6. Apart'
  BY <1>1, <1>2, <1>3, <1>4, <1>5 DEF TypeInv, Apart
<1>7. Kept'
  BY <1>1, <1>2, <1>3, <1>5 DEF TypeInv, Kept, Tuning
<1>8. DOMAIN sending' = DOMAIN sending
  BY LenProperties DEF TypeInv, TypeOK
<1>9. Numbered' /\ Slots'
  BY <1>1, <1>2, <1>5, <1>8 DEF TypeInv, Numbered, Slots
<1>10. TypeOK'
  BY <1>1, <1>2, <1>3 DEF TypeInv, TypeOK, java
<1>11. QED
  BY <1>6, <1>7, <1>9, <1>10 DEF TypeInv

LEMMA PageQueryType ==
  ASSUME TypeInv, toPage # <<>>, toPage' = Tail(toPage), UNCHANGED <<java, wanted, closed>>, PageQuery
  PROVE  TypeInv'
<1>1. pConn \in Conn /\ pSig \in Sig /\ sending \in Seq(Tracks \cup {Nil})
  BY DEF TypeInv, TypeOK
<1>2. /\ Head(toPage).script = "query" /\ toJava' = Append(toJava, Event("query", Nil, pConn))
      /\ UNCHANGED <<pConn, pSig, pLocal, pRemote, chain, tuning, sending, slot, seen>>
  BY DEF PageQuery, page
<1>3. QED
  BY <1>1, <1>2, PlainScriptType

LEMMA PageCloseType ==
  ASSUME TypeInv, toPage # <<>>, toPage' = Tail(toPage), UNCHANGED <<java, wanted, closed>>, PageClose
  PROVE  TypeInv'
<1>1. "closed" \in Conn /\ "closed" \in Sig /\ sending \in Seq(Tracks \cup {Nil})
  BY DEF TypeInv, TypeOK, Conn, Sig
<1>2. QED
  BY <1>1, PlainScriptType DEF PageClose

LEMMA PageRemoveTrackType ==
  ASSUME TypeInv, toPage # <<>>, toPage' = Tail(toPage), UNCHANGED <<java, wanted, closed>>, PageRemoveTrack
  PROVE  TypeInv'
<1> DEFINE hit == {i \in DOMAIN sending : /\ sending[i] = Head(toPage).arg
                                          /\ \A j \in 1 .. i : sending[j] # Nil}
           left == [i \in DOMAIN sending |-> IF i \in hit THEN Nil ELSE sending[i]]
<1>1. pConn \in Conn /\ pSig \in Sig /\ sending \in Seq(Tracks \cup {Nil})
  BY DEF TypeInv, TypeOK
<1>2. sending' = sending \/ sending' = left
  BY DEF PageRemoveTrack
<1> HIDE DEF hit
<1>3. left \in Seq(Tracks \cup {Nil}) /\ Len(left) = Len(sending)
  <2>1. DOMAIN sending = 1 .. Len(sending) /\ Len(sending) \in Nat
    BY <1>1, LenProperties
  <2>2. \A i \in DOMAIN sending : sending[i] \in Tracks \cup {Nil}
    BY <1>1, ElementOfSeq
  <2>3. \A i \in DOMAIN sending : left[i] \in Tracks \cup {Nil}
    BY <2>2
  <2>4. DOMAIN left = 1 .. Len(sending)
    BY <2>1
  <2> HIDE DEF left
  <2>5. left \in [1 .. Len(sending) -> Tracks \cup {Nil}]
    BY <2>1, <2>3, <2>4 DEF left
  <2>6. left \in Seq(Tracks \cup {Nil})
    BY <2>1, <2>5
  <2>7. QED
    BY <2>1, <2>4, <2>6, LenProperties
<1> HIDE DEF left
<1>4. sending' \in Seq(Tracks \cup {Nil}) /\ Len(sending') = Len(sending)
  BY <1>1, <1>2, <1>3
<1>5. /\ Head(toPage).script = "removeTrack"
      /\ UNCHANGED <<pConn, pSig, pLocal, pRemote, chain, tuning, slot, seen, toJava>>
  BY DEF PageRemoveTrack
<1>6. QED
  BY <1>1, <1>4, <1>5, PlainScriptType

(* A call that the page starts leaves its script for the chain, for the     *)
(* calls being tuned or, when the page is closed, for its answer.           *)
LEMMA PageOpType ==
  ASSUME TypeInv, toPage # <<>>, toPage' = Tail(toPage), UNCHANGED <<java, wanted, closed>>, PageOp
  PROVE  TypeInv'
<1> DEFINE o == Head(toPage).arg
<1>1. Head(toPage).script = "op" /\ UNCHANGED <<pConn, pSig, pLocal, pRemote, sending, slot>>
  BY DEF PageOp
<1>2. /\ toPage' \in Seq(Scripts) /\ o \in Op /\ Asked = Asked' \cup {o} /\ o \notin Asked' /\ Once(toPage', Asks)
      /\ Keys(toPage', Adds) = Keys(toPage, Adds) /\ (Rises(toPage, Adds) => Rises(toPage', Adds))
  BY <1>1, TakeScript DEF TypeInv, Apart
<1>3. UNCHANGED <<Waiting, Pending, ops, onReady, ready, track>>
  BY DEF Waiting, Pending, java
<1>4. o \notin Chained \cup tuning \cup Answered \cup Waiting /\ o \in Pending
  BY <1>2 DEF TypeInv, Apart
<1>5. ops[o].call \in Kinds
  BY <1>2, <1>4 DEF TypeInv, Numbered, Pending
<1>6. CASE /\ Tuning(o) /\ tuning' = tuning \cup {o}
           /\ seen' = [seen EXCEPT ![ops[o].call.arg] = o] /\ UNCHANGED <<chain, toJava>>
  <2>1. ops[o].call.arg \in ready /\ ops[o].call.arg \in Sender
    BY <1>2, <1>5, <1>6, CallArguments DEF TypeInv, Kept, Tuning
  <2>2. UNCHANGED <<Chained, Answered>>
    BY <1>6 DEF Chained, Answered
  <2>3. o \in 0 .. NOps
    BY <1>2, PeerAssumption DEF Op
  <2> HIDE DEF o
  <2>4. seen' \in [Sender -> 0 .. NOps]
    BY <1>6, <2>1, <2>3 DEF TypeInv, TypeOK
  <2>5. Apart'
    BY <1>1, <1>2, <1>3, <1>4, <1>6, <2>2 DEF TypeInv, Apart
  <2>6. Kept'
    BY <1>2, <1>3, <1>6, <2>1, <2>2 DEF TypeInv, Kept, Tuning
  <2>7. TypeOK' /\ Numbered' /\ Slots'
    BY <1>1, <1>2, <1>3, <1>6, <2>4 DEF TypeInv, TypeOK, Numbered, Slots, java
  <2>8. QED
    BY <2>5, <2>6, <2>7 DEF TypeInv
<1>7. CASE ~Tuning(o) /\ chain' = Append(chain, o) /\ UNCHANGED <<tuning, seen, toJava>>
  <2> HIDE DEF o
  <2>1. chain \in Seq(Op) /\ Once(chain, Itself) /\ Keys(chain, Itself) = Chained
    BY QueueTypes, OfItself DEF TypeInv, Apart, Chained
  <2>2. chain' \in Seq(Op) /\ Chained' = Chained \cup {o}
    BY <1>2, <1>7, <2>1, AppendMembers DEF Chained
  <2>3. Once(chain', Itself)
    BY <1>2, <1>4, <1>7, <2>1, ItselfOf, AppendOnce
  <2>4. UNCHANGED Answered
    BY <1>7 DEF Answered
  <2>5. Apart'
    BY <1>1, <1>2, <1>3, <1>4, <1>7, <2>2, <2>3, <2>4 DEF TypeInv, Apart
  <2>6. Kept'
    BY <1>2, <1>3, <1>7, <2>2 DEF TypeInv, Kept, Tuning
  <2>7. TypeOK' /\ Numbered' /\ Slots'
    BY <1>1, <1>2, <1>3, <1>7, <2>2 DEF TypeInv, TypeOK, Numbered, Slots, java
  <2>8. QED
    BY <2>5, <2>6, <2>7 DEF TypeInv
<1>8. CASE /\ ~Tuning(o) /\ pConn = "closed" /\ toJava' = Append(toJava, Done(o, FALSE))
           /\ UNCHANGED <<chain, tuning, seen>>
  <2> HIDE DEF o
  <2>1. Done(o, FALSE) \in Messages /\ Done(o, FALSE).msg = "done" /\ Done(o, FALSE).op = o
    BY <1>2, MessageTypes DEF Done
  <2>2. /\ toJava' \in Seq(Messages) /\ Members(toJava') = Members(toJava) \cup {Done(o, FALSE)}
        /\ Answered' = Answered \cup {o} /\ Once(toJava', Replies) /\ Keys(toJava', Names) = Keys(toJava, Names)
    <3>1. Once(toJava, Replies) /\ o \notin Answered /\ TypeOK /\ toJava' = Append(toJava, Done(o, FALSE))
      BY <1>4, <1>8 DEF TypeInv, Apart
    <3>2. QED
      BY <2>1, <3>1, SendMessage
  <2>3. UNCHANGED <<Chained, chain, tuning, Waiting, Pending, onReady, pConn>>
    BY <1>1, <1>3, <1>8 DEF Chained
  <2>4. Apart'
    <3>1. /\ Once(toPage', Asks) /\ Once(chain', Itself) /\ Once(toJava', Replies)
          /\ \A s \in Sender : Once(onReady'[s], Itself)
      BY <1>2, <2>2, <2>3 DEF TypeInv, Apart
    <3>2. /\ Asked' \cap Answered' = {} /\ Chained' \cap Answered' = {} /\ tuning' \cap Answered' = {}
          /\ Answered' \cap Waiting' = {}
      BY <1>2, <1>4, <2>2, <2>3 DEF TypeInv, Apart
    <3>3. /\ Asked' \cap Chained' = {} /\ Asked' \cap tuning' = {} /\ Asked' \cap Waiting' = {}
          /\ Chained' \cap tuning' = {} /\ Chained' \cap Waiting' = {} /\ tuning' \cap Waiting' = {}
      BY <1>2, <2>3 DEF TypeInv, Apart
    <3>4. Asked' \cup Chained' \cup tuning' \cup Answered' \cup Waiting' \subseteq Pending'
      BY <1>2, <1>4, <2>2, <2>3 DEF TypeInv, Apart
    <3>5. QED
      BY <1>8, <2>3, <3>1, <3>2, <3>3, <3>4 DEF Apart
  <2>5. Kept'
    BY <1>2, <1>3, <1>8, <2>1, <2>2, <2>3 DEF TypeInv, Kept, Tuning
  <2>6. TypeOK' /\ Numbered' /\ Slots'
    BY <1>1, <1>2, <1>3, <1>8, <2>2 DEF TypeInv, TypeOK, Numbered, Slots, java
  <2>7. QED
    BY <2>4, <2>5, <2>6 DEF TypeInv
<1>9. QED
  BY <1>6, <1>7, <1>8 DEF PageOp, Tuning

(* A sender that the page makes takes a place at the end or a vacant one;   *)
(* fewer senders were made before it than were asked for.                   *)
LEMMA PageAddTrackType ==
  ASSUME TypeInv, toPage # <<>>, toPage' = Tail(toPage), UNCHANGED <<java, wanted, closed>>, PageAddTrack
  PROVE  TypeInv'
<1> DEFINE s == Head(toPage).arg
<1>1. Head(toPage).script = "addTrack" /\ UNCHANGED <<pConn, pSig, pLocal, pRemote, chain, tuning, seen>>
  BY DEF PageAddTrack
<1>2. /\ toPage' \in Seq(Scripts) /\ Asked' = Asked /\ Once(toPage', Asks)
      /\ s \in Sender /\ Keys(toPage, Adds) = Keys(toPage', Adds) \cup {s}
      /\ Precede({s}, Keys(toPage', Adds)) /\ Rises(toPage', Adds)
  BY <1>1, TakeScript DEF TypeInv, Apart, Slots
<1>3. Len(sending) < s /\ track[s] \in Tracks /\ track[s] # Nil
  BY <1>2 DEF TypeInv, TypeOK, Slots
<1>4. CASE UNCHANGED <<sending, slot, toJava>>
  <2>1. UNCHANGED <<Chained, Answered, Waiting, Pending, ops, onReady, ready, track>>
    BY <1>1, <1>4 DEF Chained, Answered, Waiting, Pending, java
  <2>2. Apart' /\ Kept'
    BY <1>1, <1>2, <1>4, <2>1 DEF TypeInv, Apart, Kept, Tuning
  <2>3. TypeOK' /\ Numbered' /\ Slots'
    BY <1>1, <1>2, <1>4 DEF TypeInv, TypeOK, Numbered, Slots, java
  <2>4. QED
    BY <2>2, <2>3 DEF TypeInv
<1>5. ASSUME NEW n \in DOMAIN sending', n \in 1 .. NSenders, sending' \in Seq(Tracks \cup {Nil}),
             Len(sending') <= s, DOMAIN sending \subseteq DOMAIN sending', slot' = [slot EXCEPT ![s] = n],
             toJava' = Append(toJava, Made(s))
      PROVE  TypeInv'
  <2> HIDE DEF s
  <2>1. Made(s) \in Messages /\ Made(s).msg = "sender" /\ Made(s).sender = s
    BY <1>2, MessageTypes DEF Made
  <2>2. /\ toJava' \in Seq(Messages) /\ Members(toJava') = Members(toJava) \cup {Made(s)}
        /\ Answered' = Answered /\ Once(toJava', Replies) /\ Keys(toJava', Names) = Keys(toJava, Names) \cup {s}
    BY <1>5, <2>1, SendMessage DEF TypeInv, Apart
  <2>3. UNCHANGED <<Chained, Waiting, Pending, ops, onReady, ready, track>>
    BY <1>1 DEF Chained, Waiting, Pending, java
  <2>4. Apart' /\ Kept'
    BY <1>1, <1>2, <2>1, <2>2, <2>3 DEF TypeInv, Apart, Kept, Tuning
  <2>5. slot' \in [Sender -> 0 .. NSenders] /\ slot'[s] = n /\ \A t \in Sender : t # s => slot'[t] = slot[t]
    BY <1>2, <1>5 DEF TypeInv, TypeOK
  <2>6. Len(sending') <= NSenders /\ Len(sending') \in Nat
    BY <1>2, <1>5, LenProperties, PeerAssumption DEF Sender
  <2>7. \A t \in Keys(toPage', Adds) : Len(sending') < t /\ track[t] # Nil
    <3> SUFFICES ASSUME NEW t \in Keys(toPage', Adds) PROVE Len(sending') < t /\ track[t] # Nil
      OBVIOUS
    <3>1. t \in Sender /\ s < t
      <4>1. PICK k \in Members(toPage') \cap DOMAIN Adds : t = Adds[k]
        BY DEF Keys
      <4>2. k \in Scripts
        BY <1>2, <4>1, MembersType
      <4>3. QED
        BY <1>2, <4>1, <4>2, AddsOf, ScriptTypes DEF Precede
    <3>2. QED
      BY <1>2, <1>5, <2>6, <3>1 DEF TypeInv, Slots, Sender
  <2>8. \A t \in Sender : track[t] = Nil => Len(sending') < t
    <3> SUFFICES ASSUME NEW t \in Sender, track[t] = Nil PROVE Len(sending') < t
      OBVIOUS
    <3>1. t # s /\ ~(t < s)
      BY <1>2, <1>3 DEF TypeInv, Numbered
    <3>2. QED
      BY <1>2, <1>5, <2>6, <3>1 DEF Sender
  <2>9. \A t \in ready \cup Keys(toJava', Names) : slot'[t] \in DOMAIN sending' /\ track[t] # Nil
    <3> SUFFICES ASSUME NEW t \in ready \cup Keys(toJava', Names)
                 PROVE  slot'[t] \in DOMAIN sending' /\ track[t] # Nil
      OBVIOUS
    <3>1. CASE t = s
      BY <1>3, <1>5, <2>5, <3>1
    <3>2. CASE t # s
      <4>1. t \in ready \cup Keys(toJava, Names)
        BY <2>2, <3>2
      <4>2. t \in Sender
        <5>1. \A m \in Members(toJava) : m \in DOMAIN Names => Names[m] \in Sender
          BY QueueTypes, NamesOf, MessageFields DEF TypeInv
        <5>2. QED
          BY <4>1, <5>1 DEF TypeInv, TypeOK, Keys
      <4>3. QED
        BY <1>5, <2>5, <3>2, <4>1, <4>2 DEF TypeInv, Slots
    <3>3. QED
      BY <3>1, <3>2
  <2>10. Slots'
    BY <1>2, <2>3, <2>6, <2>7, <2>8, <2>9 DEF Slots
  <2>11. TypeOK' /\ Numbered'
    BY <1>1, <1>2, <1>5, <2>2, <2>5 DEF TypeInv, TypeOK, Numbered, java
  <2>12. QED
    BY <2>4, <2>10, <2>11 DEF TypeInv
<1>6. sending \in Seq(Tracks \cup {Nil}) /\ Len(sending) \in Nat /\ DOMAIN sending = 1 .. Len(sending) /\ NSenders \in Nat
  BY LenProperties, PeerAssumption DEF TypeInv, TypeOK
<1>7. CASE /\ sending' = Append(sending, track[s]) /\ slot' = [slot EXCEPT ![s] = Len(sending) + 1]
           /\ toJava' = Append(toJava, Made(s))
  <2>1. sending' \in Seq(Tracks \cup {Nil}) /\ DOMAIN sending' = 1 .. Len(sending) + 1
    BY <1>3, <1>6, <1>7, AppendPlaces
  <2>2. Len(sending') = Len(sending) + 1 /\ Len(sending) + 1 \in DOMAIN sending'
    BY <1>6, <2>1, LenProperties
  <2>3. Len(sending') <= s /\ Len(sending) + 1 \in 1 .. NSenders /\ DOMAIN sending \subseteq DOMAIN sending'
    BY <1>2, <1>3, <1>6, <2>1, <2>2 DEF Sender
  <2>4. QED
    BY <1>5, <1>7, <2>1, <2>2, <2>3
<1>8. CASE \E i \in DOMAIN sending : /\ sending[i] = Nil
                                     /\ sending' = [sending EXCEPT ![i] = track[s]]
                                     /\ slot' = [slot EXCEPT ![s] = i]
                                     /\ toJava' = Append(toJava, Made(s))
  <2>1. PICK i \in DOMAIN sending : /\ sending' = [sending EXCEPT ![i] = track[s]]
                                    /\ slot' = [slot EXCEPT ![s] = i] /\ toJava' = Append(toJava, Made(s))
    BY <1>8
  <2>2. sending' \in Seq(Tracks \cup {Nil}) /\ Len(sending') = Len(sending) /\ DOMAIN sending' = DOMAIN sending
    BY <1>3, <1>6, <2>1, ExceptSeq
  <2>3. Len(sending') <= s /\ i \in 1 .. NSenders
    BY <1>2, <1>3, <1>6, <2>2 DEF TypeInv, Slots, Sender
  <2>4. QED
    BY <1>5, <2>1, <2>2, <2>3
<1>9. QED
  BY <1>4, <1>7, <1>8 DEF PageAddTrack

LEMMA PageStepType == ASSUME TypeInv, PageStep PROVE TypeInv'
<1>1. toPage # <<>> /\ toPage' = Tail(toPage) /\ UNCHANGED <<java, wanted, closed>>
  BY DEF PageStep
<1>2. QED
  BY <1>1, PageQueryType, PageOpType, PageAddTrackType, PageRemoveTrackType, PageCloseType DEF PageStep

-----------------------------------------------------------------------------
(* Then what the page does by itself.                                       *)
LEMMA AppendMessage ==
  ASSUME NEW q \in Seq(Messages), NEW m \in Messages
  PROVE  /\ Append(q, m) \in Seq(Messages) /\ Members(Append(q, m)) = Members(q) \cup {m}
         /\ m.msg \in {"done", "tuned"} =>
              /\ Keys(Append(q, m), Replies) = Keys(q, Replies) \cup {m.op}
              /\ Once(q, Replies) /\ m.op \notin Keys(q, Replies) => Once(Append(q, m), Replies)
         /\ m.msg \notin {"done", "tuned"} =>
              /\ Keys(Append(q, m), Replies) = Keys(q, Replies)
              /\ Once(q, Replies) => Once(Append(q, m), Replies)
         /\ m.msg # "sender" => Keys(Append(q, m), Names) = Keys(q, Names)
<1> DEFINE r == Append(q, m)
<1>1. r \in Seq(Messages) /\ Members(r) = Members(q) \cup {m}
  BY AppendMembers
<1>2. Keys(r, Replies) = IF m \in DOMAIN Replies THEN Keys(q, Replies) \cup {Replies[m]} ELSE Keys(q, Replies)
  BY AppendKeys
<1>3. Keys(r, Names) = IF m \in DOMAIN Names THEN Keys(q, Names) \cup {Names[m]} ELSE Keys(q, Names)
  BY AppendKeys
<1>4. Once(q, Replies) /\ (m \in DOMAIN Replies => Replies[m] \notin Keys(q, Replies)) => Once(r, Replies)
  BY AppendOnce
<1> HIDE DEF r
<1>5. /\ m.msg \in {"done", "tuned"} =>
           /\ Keys(r, Replies) = Keys(q, Replies) \cup {m.op}
           /\ Once(q, Replies) /\ m.op \notin Keys(q, Replies) => Once(r, Replies)
      /\ m.msg \notin {"done", "tuned"} =>
           Keys(r, Replies) = Keys(q, Replies) /\ (Once(q, Replies) => Once(r, Replies))
      /\ m.msg # "sender" => Keys(r, Names) = Keys(q, Names)
  BY <1>2, <1>3, <1>4, RepliesOf, NamesOf
<1>6. QED
  BY <1>1, <1>5 DEF r

(* An event is sent, and nothing else happens to the calls.                 *)
LEMMA FireType ==
  ASSUME TypeInv, NEW type \in {"connectionstatechange", "other"}, NEW c \in Conn, pConn # "closed",
         toJava' = Append(toJava, Event(type, Nil, c)), pConn' \in Conn,
         UNCHANGED <<java, toPage, pSig, pLocal, pRemote, chain, tuning, sending, slot, seen, wanted, closed>>
  PROVE  TypeInv'
<1>1. Event(type, Nil, c) \in Messages /\ Event(type, Nil, c).msg = "event"
  BY MessageTypes DEF Event
<1>2. /\ toJava' \in Seq(Messages) /\ Members(toJava') = Members(toJava) \cup {Event(type, Nil, c)}
      /\ Answered' = Answered /\ (Once(toJava, Replies) => Once(toJava', Replies))
      /\ Keys(toJava', Names) = Keys(toJava, Names)
  BY <1>1, SendMessage DEF TypeInv
<1>3. UNCHANGED <<Asked, Chained, Waiting, Pending, ops, onReady, ready, track>>
  BY DEF Asked, Chained, Waiting, Pending, java
<1>4. Apart'
  BY <1>2, <1>3 DEF TypeInv, Apart
<1>5. Kept'
  BY <1>1, <1>2, <1>3 DEF TypeInv, Kept, Tuning
<1>6. TypeOK' /\ Numbered' /\ Slots'
  BY <1>2, <1>3 DEF TypeInv, TypeOK, Numbered, Slots, java
<1>7. QED
  BY <1>4, <1>5, <1>6 DEF TypeInv

LEMMA ConnectionChangesType == ASSUME TypeInv, NEW c \in ConnStates, ConnectionChanges(c) PROVE TypeInv'
BY FireType DEF ConnectionChanges, Conn

LEMMA OtherEventType == ASSUME TypeInv, OtherEvent PROVE TypeInv'
BY FireType DEF OtherEvent, page, TypeInv, TypeOK

(* Where a description leads is a state that a connection can be in.        *)
LEMMA NextSigType ==
  ASSUME TypeOK, NEW call \in Kinds
  PROVE  /\ NextSig(call) \in Sig \cup {Nil}
         /\ call.kind \notin {"setLocalDescription", "setRemoteDescription"} => NextSig(call) = pSig
BY DEF NextSig, TypeOK, Sig

(* An operation of the chain ends: the call moves to its answer.            *)
LEMMA ChainEndsType == ASSUME TypeInv, ChainEnds PROVE TypeInv'
<1> DEFINE o == Head(chain)
           call == ops[o].call
           to == NextSig(call)
           told == IF to = pSig THEN toJava ELSE Append(toJava, Event("signalingstatechange", to, pConn))
<1>1. /\ chain \in Seq(Op) /\ chain # <<>> /\ chain' = Tail(chain)
      /\ UNCHANGED <<java, toPage, pConn, tuning, sending, slot, seen, wanted, closed>>
  BY QueueTypes DEF TypeInv, ChainEnds
<1>2. /\ chain' \in Seq(Op) /\ o \in Op /\ Chained = Chained' \cup {o}
      /\ o \notin Chained' /\ Once(chain', Itself)
  <2>1. chain' \in Seq(Op) /\ o \in Op /\ Chained = Chained' \cup {o}
    BY <1>1, TailMembers DEF Chained
  <2>2. Once(chain', Itself) /\ o \notin Keys(chain', Itself)
    BY <1>1, <2>1, TailOnce, ItselfOf DEF TypeInv, Apart
  <2>3. QED
    BY <2>1, <2>2, OfItself DEF Chained
<1>3. o \in Chained /\ o \notin Answered /\ o \in Pending
  BY <1>2 DEF TypeInv, Apart
<1>4. call \in Kinds /\ ~Tuning(o)
  BY <1>2, <1>3 DEF TypeInv, Numbered, Kept, Pending
<1> HIDE DEF o
<1>5. to \in Sig \cup {Nil} /\ (call.kind \notin {"setLocalDescription", "setRemoteDescription"} => to = pSig)
  BY <1>4, NextSigType DEF TypeInv
<1> HIDE DEF call, to
<1>6. PICK ok \in BOOLEAN, q \in {toJava, told} :
        /\ toJava' = Append(q, Done(o, ok)) /\ (q = toJava \/ to # Nil)
        /\ pSig' \in Sig /\ {pLocal', pRemote'} \subseteq Descs \cup {Nil}
  <2>1. pSig \in Sig /\ {pLocal, pRemote} \subseteq Descs \cup {Nil}
    BY DEF TypeInv, TypeOK
  <2>2. CASE /\ to # Nil /\ pSig' = to
             /\ pLocal' = IF call.kind = "setLocalDescription" THEN call.arg ELSE pLocal
             /\ pRemote' = IF call.kind = "setRemoteDescription" THEN call.arg ELSE pRemote
             /\ toJava' = Append(told, Done(o, TRUE))
    <3>1. {pLocal', pRemote'} \subseteq Descs \cup {Nil}
      BY <1>4, <2>1, <2>2, CallArguments
    <3>2. QED
      BY <1>5, <2>2, <3>1
  <2>3. CASE UNCHANGED <<pSig, pLocal, pRemote>> /\ toJava' = Append(toJava, Done(o, FALSE))
    BY <2>1, <2>3
  <2>4. QED
    BY <2>2, <2>3 DEF ChainEnds, o, call, to
<1>7. /\ q \in Seq(Messages) /\ Keys(q, Replies) = Answered /\ Once(q, Replies)
      /\ Keys(q, Names) = Keys(toJava, Names)
      /\ \A m \in Members(q) : m \in Members(toJava) \/ m.msg = "event"
  <2>1. toJava \in Seq(Messages) /\ Keys(toJava, Replies) = Answered /\ Once(toJava, Replies)
    BY QueueTypes DEF TypeInv, Apart, Answered
  <2>2. CASE q # toJava
    <3> DEFINE e == Event("signalingstatechange", to, pConn)
    <3>1. q = Append(toJava, e)
      BY <2>2, <1>6
    <3>2. e \in Messages /\ e.msg = "event"
      BY <1>5, <1>6, <2>2, MessageTypes DEF TypeInv, TypeOK, Event
    <3> HIDE DEF e, told
    <3>3. /\ q \in Seq(Messages) /\ Members(q) = Members(toJava) \cup {e}
          /\ Keys(q, Replies) = Keys(toJava, Replies) /\ (Once(toJava, Replies) => Once(q, Replies))
          /\ Keys(q, Names) = Keys(toJava, Names)
      BY <2>1, <3>1, <3>2, AppendMessage
    <3>4. QED
      BY <2>1, <3>2, <3>3
  <2>3. QED
    BY <2>1, <2>2
<1>8. Done(o, ok) \in Messages /\ Done(o, ok).msg = "done" /\ Done(o, ok).op = o
  BY <1>2, MessageTypes DEF Done
<1>9. /\ toJava' \in Seq(Messages) /\ Members(toJava') = Members(q) \cup {Done(o, ok)}
      /\ Answered' = Answered \cup {o} /\ Once(toJava', Replies) /\ Keys(toJava', Names) = Keys(toJava, Names)
  <2>1. toJava' = Append(q, Done(o, ok)) /\ o \notin Keys(q, Replies)
    BY <1>3, <1>6, <1>7
  <2>2. /\ toJava' \in Seq(Messages) /\ Members(toJava') = Members(q) \cup {Done(o, ok)}
        /\ Keys(toJava', Replies) = Keys(q, Replies) \cup {o} /\ Once(toJava', Replies)
        /\ Keys(toJava', Names) = Keys(q, Names)
    <3> HIDE DEF told
    <3> DEFINE d == Done(o, ok)
    <3>1. d \in Messages /\ d.msg = "done" /\ d.op = o /\ toJava' = Append(q, d)
      BY <1>8, <2>1
    <3> HIDE DEF d
    <3>2. /\ q \in Seq(Messages) /\ Once(q, Replies) /\ o \notin Keys(q, Replies)
      BY <1>7, <2>1
    <3>3. /\ toJava' \in Seq(Messages) /\ Members(toJava') = Members(q) \cup {d}
          /\ Keys(toJava', Replies) = Keys(q, Replies) \cup {d.op}
          /\ d.op \notin Keys(q, Replies) => Once(toJava', Replies)
          /\ Keys(toJava', Names) = Keys(q, Names)
      BY <3>1, <3>2, AppendMessage
    <3>4. QED
      BY <3>1, <3>2, <3>3 DEF d
  <2>3. QED
    BY <1>7, <2>2 DEF Answered
<1>10. UNCHANGED <<Asked, Waiting, Pending, ops, onReady, ready, track, tuning, pConn, toPage>>
  BY <1>1 DEF Asked, Waiting, Pending, java
<1>11. Apart'
  <2>1. /\ Once(toPage', Asks) /\ Once(chain', Itself) /\ Once(toJava', Replies)
        /\ \A s \in Sender : Once(onReady'[s], Itself)
    BY <1>2, <1>9, <1>10 DEF TypeInv, Apart
  <2>2. o \notin Asked \cup Waiting \cup tuning
    BY <1>3 DEF TypeInv, Apart
  <2>3. QED
    BY <1>2, <1>3, <1>9, <1>10, <2>1, <2>2 DEF TypeInv, Apart
<1>12. Kept'
  BY <1>2, <1>4, <1>7, <1>8, <1>9, <1>10 DEF TypeInv, Kept, Tuning
<1>13. TypeOK' /\ Numbered' /\ Slots'
  BY <1>1, <1>2, <1>6, <1>9, <1>10 DEF TypeInv, TypeOK, Numbered, Slots, java
<1>14. QED
  BY <1>11, <1>12, <1>13 DEF TypeInv

(* The page is done with a setParameters: the call moves to its answer.     *)
LEMMA TuningEndsType == ASSUME TypeInv, NEW o \in Op, TuningEnds(o) PROVE TypeInv'
<1> DEFINE t == sending[slot[ops[o].call.arg]]
<1>1. /\ o \in tuning /\ tuning' = tuning \ {o}
      /\ UNCHANGED <<java, toPage, pConn, pSig, pLocal, pRemote, chain, sending, slot, seen, wanted, closed>>
  BY DEF TuningEnds
<1>2. o \in Pending /\ o \notin Asked \cup Chained \cup Answered \cup Waiting
  BY <1>1 DEF TypeInv, Apart
<1>3. Tuning(o) /\ ops[o].call.arg \in ready
  BY <1>1 DEF TypeInv, Kept
<1>4. t \in Tracks \cup {Nil}
  <2>1. slot[ops[o].call.arg] \in DOMAIN sending
    BY <1>3 DEF TypeInv, Slots
  <2>2. QED
    BY <2>1, ElementOfSeq, LenProperties DEF TypeInv, TypeOK
<1>5. PICK ok \in {FALSE, t # Nil} : toJava' = Append(toJava, Tuned(o, ok, t))
  BY DEF TuningEnds
<1> HIDE DEF t
<1>6. ok \in BOOLEAN /\ (ok => t # Nil)
  BY <1>5
<1>7. /\ Tuned(o, ok, t) \in Messages /\ Tuned(o, ok, t).msg = "tuned" /\ Tuned(o, ok, t).op = o
      /\ Tuned(o, ok, t).ok = ok /\ Tuned(o, ok, t).track = t
  BY <1>4, <1>6, MessageTypes DEF Tuned
<1>8. /\ toJava' \in Seq(Messages) /\ Members(toJava') = Members(toJava) \cup {Tuned(o, ok, t)}
      /\ Answered' = Answered \cup {o} /\ Once(toJava', Replies) /\ Keys(toJava', Names) = Keys(toJava, Names)
  <2>1. TypeOK /\ Once(toJava, Replies) /\ o \notin Answered
    BY <1>2 DEF TypeInv, Apart
  <2>2. QED
    BY <1>5, <1>7, <2>1, SendMessage
<1>9. UNCHANGED <<Asked, Chained, Waiting, Pending, ops, onReady, ready, track, pConn, toPage, chain>>
  BY <1>1 DEF Asked, Chained, Waiting, Pending, java
<1>10. Apart'
  BY <1>1, <1>2, <1>8, <1>9 DEF TypeInv, Apart
<1>11. Kept'
  <2>1. \A m \in Members(toJava') :
          /\ m.msg = "done" => ~Tuning(m.op)
          /\ m.msg = "tuned" => Tuning(m.op) /\ ops[m.op].call.arg \in ready /\ (m.ok => m.track # Nil)
    BY <1>3, <1>6, <1>7, <1>8 DEF TypeInv, Kept
  <2>2. QED
    BY <1>1, <1>9, <2>1 DEF TypeInv, Kept, Tuning
<1>12. TypeOK' /\ Numbered' /\ Slots'
  BY <1>1, <1>8, <1>9 DEF TypeInv, TypeOK, Numbered, Slots, java
<1>13. QED
  BY <1>10, <1>11, <1>12 DEF TypeInv

LEMMA NextTypeInv == TypeInv /\ [Next]_vars => TypeInv'
<1> SUFFICES ASSUME TypeInv, [Next]_vars PROVE TypeInv'
  OBVIOUS
<1>1. ASSUME App PROVE TypeInv'
  <2>1. \A kind \in {"createOffer", "createAnswer"} :
          [kind |-> kind, arg |-> Nil] \in Kinds /\ [kind |-> kind, arg |-> Nil].kind # "setParameters"
    BY DEF Kinds
  <2>2. \A kind \in {"setLocalDescription", "setRemoteDescription"}, d \in Descs :
          [kind |-> kind, arg |-> d] \in Kinds /\ [kind |-> kind, arg |-> d].kind # "setParameters"
    BY DEF Kinds
  <2>3. QED
    BY <1>1, <2>1, <2>2, NegotiateType, AddIceCandidateType, AddTrackType, RemoveTrackType, SetParametersType,
       CloseType DEF App
<1>2. ASSUME Page PROVE TypeInv'
  BY <1>2, PageStepType, ChainEndsType, TuningEndsType, ConnectionChangesType, OtherEventType DEF Page
<1>3. CASE UNCHANGED vars
  <2>1. UNCHANGED <<jConn, jSig, jLocal, jRemote, senders, track, ready, onReady, ops, toPage, toJava,
                    pConn, pSig, pLocal, pRemote, chain, tuning, sending, slot, seen, wanted, closed>>
    BY <1>3 DEF vars, java, page
  <2>2. UNCHANGED <<Asked, Chained, Answered, Waiting, Pending>>
    BY <2>1 DEF Asked, Chained, Answered, Waiting, Pending
  <2>3. QED
    BY <2>1, <2>2 DEF TypeInv, TypeOK, Numbered, Apart, Kept, Tuning, Slots
<1>4. QED
  BY <1>1, <1>2, <1>3, JavaStepType DEF Next

LEMMA AlwaysTypeInv == Spec => []TypeInv
<1>1. QED
  BY InitTypeInv, NextTypeInv, PTL DEF Spec

(* Every variable keeps to its type whatever overlaps: the answers to       *)
(* setParameters find the place of their sender in the page, no more        *)
(* senders are made there than calls of addTrack, and what the callbacks of *)
(* RTCPeerConnectionImpl store are descriptions and tracks, never null.     *)
THEOREM TypeCorrect == Spec => []TypeOK
<1>1. TypeInv => TypeOK
  BY DEF TypeInv
<1>2. QED
  BY <1>1, AlwaysTypeInv, PTL

-----------------------------------------------------------------------------
(* The places of a call are those of the invariant, one position in each.   *)
LEMMA PlacesOf ==
  ASSUME TypeInv, NEW o \in Op
  PROVE  /\ \A i \in DOMAIN toPage : toPage[i] = Script("op", o) => o \in Asked
         /\ \A i, j \in DOMAIN toPage : toPage[i] = Script("op", o) /\ toPage[j] = Script("op", o) => i = j
         /\ \A i \in DOMAIN chain : chain[i] = o => o \in Chained
         /\ \A i, j \in DOMAIN chain : chain[i] = o /\ chain[j] = o => i = j
         /\ \A i \in DOMAIN toJava : toJava[i].msg \in {"done", "tuned"} /\ toJava[i].op = o => o \in Answered
         /\ \A i, j \in {k \in DOMAIN toJava : toJava[k].msg \in {"done", "tuned"} /\ toJava[k].op = o} : i = j
         /\ \A s \in Sender : \A i \in DOMAIN onReady[s] :
              onReady[s][i] = o => o \in Waiting /\ ops[o].call.arg = s
         /\ \A s \in Sender : \A i, j \in DOMAIN onReady[s] : onReady[s][i] = o /\ onReady[s][j] = o => i = j
<1>1. Script("op", o) \in DOMAIN Asks /\ Asks[Script("op", o)] = o
  BY ScriptTypes, AsksOf
<1>2. \A i \in DOMAIN toPage : toPage[i] = Script("op", o) => o \in Asked
  BY <1>1 DEF Asked, Keys, Members
<1>3. \A i, j \in DOMAIN toPage : toPage[i] = Script("op", o) /\ toPage[j] = Script("op", o) => i = j
  BY <1>1 DEF TypeInv, Apart, Once
<1>4. \A i \in DOMAIN chain : chain[i] = o => o \in Chained
  BY DEF Chained, Members
<1>5. \A i, j \in DOMAIN chain : chain[i] = o /\ chain[j] = o => i = j
  BY ItselfOf DEF TypeInv, Apart, Once
<1>6. \A i \in DOMAIN toJava : toJava[i] \in Members(toJava) /\ toJava[i] \in Messages
  BY QueueTypes DEF TypeInv, Members
<1>7. \A i \in DOMAIN toJava : toJava[i].msg \in {"done", "tuned"} /\ toJava[i].op = o => o \in Answered
  BY <1>6, AnswersFound DEF TypeInv
<1>8. \A i, j \in {k \in DOMAIN toJava : toJava[k].msg \in {"done", "tuned"} /\ toJava[k].op = o} : i = j
  <2>1. \A i \in DOMAIN toJava : toJava[i].msg \in {"done", "tuned"} =>
          toJava[i] \in DOMAIN Replies /\ Replies[toJava[i]] = toJava[i].op
    BY <1>6, RepliesOf
  <2>2. Once(toJava, Replies)
    BY DEF TypeInv, Apart
  <2>3. QED
    BY <2>1, <2>2 DEF Once
<1>9. \A s \in Sender : \A i \in DOMAIN onReady[s] : onReady[s][i] = o => o \in Waiting /\ ops[o].call.arg = s
  BY DEF TypeInv, Kept, Waiting, Members
<1>10. \A s \in Sender : \A i, j \in DOMAIN onReady[s] : onReady[s][i] = o /\ onReady[s][j] = o => i = j
  BY ItselfOf DEF TypeInv, Apart, Once
<1>11. QED
  BY <1>2, <1>3, <1>4, <1>5, <1>7, <1>8, <1>9, <1>10

LEMMA TypeInvAnsweredOnce == TypeInv => AnsweredOnce
<1> SUFFICES ASSUME TypeInv, NEW o \in Op
             PROVE  /\ \A p, q \in Places(o) : p = q
                    /\ IF ops[o].state = "pending" THEN Places(o) # {} \/ pConn = "closed" ELSE Places(o) = {}
  BY DEF AnsweredOnce
<1> DEFINE InPage(p)  == \E i \in DOMAIN toPage : toPage[i] = Script("op", o) /\ p = <<"toPage", i>>
           InChain(p) == \E i \in DOMAIN chain : chain[i] = o /\ p = <<"chain", i>>
           IsTuned(p) == o \in tuning /\ p = <<"tuning", o>>
           InJava(p)  == \E i \in DOMAIN toJava : /\ toJava[i].msg \in {"done", "tuned"} /\ toJava[i].op = o
                                                  /\ p = <<"toJava", i>>
           Waits(p)   == \E s \in Sender : \E i \in DOMAIN onReady[s] : onReady[s][i] = o /\ p = <<"onReady", s, i>>
<1>1. \A p : p \in Places(o) <=> InPage(p) \/ InChain(p) \/ IsTuned(p) \/ InJava(p) \/ Waits(p)
  BY DEF Places
<1>2. /\ \A p : InPage(p) => o \in Asked
      /\ \A p, q : InPage(p) /\ InPage(q) => p = q
  BY PlacesOf
<1>3. /\ \A p : InChain(p) => o \in Chained
      /\ \A p, q : InChain(p) /\ InChain(q) => p = q
  BY PlacesOf
<1>4. /\ \A p : IsTuned(p) => o \in tuning
      /\ \A p, q : IsTuned(p) /\ IsTuned(q) => p = q
  OBVIOUS
<1>5. /\ \A p : InJava(p) => o \in Answered
      /\ \A p, q : InJava(p) /\ InJava(q) => p = q
  BY PlacesOf
<1>6. /\ \A p : Waits(p) => o \in Waiting
      /\ \A p, q : Waits(p) /\ Waits(q) => p = q
  BY PlacesOf
<1>7. /\ o \in Asked => \E p : InPage(p)
      /\ o \in Chained => \E p : InChain(p)
      /\ o \in tuning => \E p : IsTuned(p)
      /\ o \in Answered => \E p : InJava(p)
      /\ o \in Waiting => \E p : Waits(p)
  <2>1. o \in Asked => \E p : InPage(p)
    BY AnswersFound DEF TypeInv, Members
  <2>2. o \in Chained => \E p : InChain(p)
    BY DEF Chained, Members
  <2>3. o \in Answered => \E p : InJava(p)
    <3> SUFFICES ASSUME o \in Answered PROVE \E p : InJava(p)
      OBVIOUS
    <3>1. PICK m \in Members(toJava) \cap DOMAIN Replies : o = Replies[m]
      BY DEF Answered, Keys
    <3>2. m.msg \in {"done", "tuned"} /\ m.op = o
      BY <3>1, QueueTypes, RepliesOf DEF TypeInv
    <3>3. PICK i \in DOMAIN toJava : toJava[i] = m
      BY <3>1 DEF Members
    <3>4. InJava(<<"toJava", i>>)
      BY <3>2, <3>3
    <3>5. QED
      BY <3>4
  <2>4. o \in Waiting => \E p : Waits(p)
    BY DEF Waiting, Members
  <2>5. QED
    BY <2>1, <2>2, <2>3, <2>4
<1> HIDE DEF InPage, InChain, IsTuned, InJava, Waits
<1>8. ASSUME NEW p \in Places(o), NEW q \in Places(o) PROVE p = q
  BY <1>1, <1>2, <1>3, <1>4, <1>5, <1>6 DEF TypeInv, Apart
<1>9. Places(o) # {} => ops[o].state = "pending"
  BY <1>1, <1>2, <1>3, <1>4, <1>5, <1>6 DEF TypeInv, Apart, Pending
<1>10. ops[o].state = "pending" /\ pConn # "closed" => Places(o) # {}
  BY <1>1, <1>7 DEF TypeInv, Apart, Pending
<1>11. QED
  BY <1>8, <1>9, <1>10

(* A call that returns a promise is in one place of the two event loops at  *)
(* a time, so that its callback runs at most once, and a pending one is     *)
(* lost only where the page closes the connection under it, however the     *)
(* answers of the page overlap with further calls, with the sender that a   *)
(* call waits for and with close().                                         *)
THEOREM EachAnsweredOnce == Spec => []AnsweredOnce
<1>1. QED
  BY AlwaysTypeInv, TypeInvAnsweredOnce, PTL

-----------------------------------------------------------------------------
(* What the messages under way to Java will make of its mirror: the         *)
(* connection state, the signaling state, and the descriptions.             *)
ConnOf == [m \in {n \in Messages : n.msg = "event"} |-> m.conn]
SigOf  == [m \in {n \in Messages : n.msg = "event" /\ n.type = "signalingstatechange"} |-> m.sig]
ArgOf(kind) ==
  [m \in {n \in Messages : n.msg = "done" /\ n.ok /\ ops[n.op].call.kind = kind} |-> ops[m.op].call.arg]

Known == IF jSig = Nil THEN "stable" ELSE jSig
States(q, conn, sig) == Lands(jConn, q, ConnOf, conn) /\ Lands(Known, q, SigOf, sig)
Settings(q, local, remote) == /\ Lands(jLocal, q, ArgOf("setLocalDescription"), local)
                              /\ Lands(jRemote, q, ArgOf("setRemoteDescription"), remote)

(* The page is closed by the application only, and what is on its way to    *)
(* Java ends in the state of the page.                                      *)
Mirror ==
  /\ ~closed => /\ pConn # "closed" /\ \A m \in Members(toPage) : m.script # "close"
                /\ States(toJava, pConn, pSig)
  /\ Settings(toJava, pLocal, pRemote)
  /\ \A m \in Members(toJava) : m.msg = "event" /\ m.type = "signalingstatechange" => m.sig # Nil

LEMMA StatesOf ==
  \A m \in Messages :
    /\ m \in DOMAIN ConnOf <=> m.msg = "event"
    /\ m \in DOMAIN ConnOf => ConnOf[m] = m.conn
    /\ m \in DOMAIN SigOf <=> m.msg = "event" /\ m.type = "signalingstatechange"
    /\ m \in DOMAIN SigOf => SigOf[m] = m.sig
BY DEF ConnOf, SigOf

LEMMA SettingsOf ==
  \A m \in Messages, kind \in {"setLocalDescription", "setRemoteDescription"} :
    /\ m \in DOMAIN ArgOf(kind) <=> m.msg = "done" /\ m.ok /\ ops[m.op].call.kind = kind
    /\ m \in DOMAIN ArgOf(kind) => ArgOf(kind)[m] = ops[m.op].call.arg
BY DEF ArgOf

LEMMA SameLands ==
  ASSUME NEW now, NEW q, NEW f, NEW g, NEW there, Lands(now, q, f, there),
         \A m \in Members(q) : (m \in DOMAIN f <=> m \in DOMAIN g) /\ (m \in DOMAIN f => f[m] = g[m])
  PROVE  Lands(now, q, g, there)
<1>1. \A i \in DOMAIN q : q[i] \in Members(q)
  BY DEF Members
<1>2. Members(q) \cap DOMAIN g = {} => now = there
  BY DEF Lands
<1>3. ASSUME NEW i \in DOMAIN q, q[i] \in DOMAIN g, \A j \in DOMAIN q : i < j => q[j] \notin DOMAIN g
      PROVE  g[q[i]] = there
  BY <1>1, <1>3 DEF Lands
<1>4. QED
  BY <1>2, <1>3 DEF Lands

(* Calls that are answered keep what they were.                             *)
LEMMA SameSettings ==
  ASSUME TypeInv, \A o \in Answered : ops'[o].call = ops[o].call, NEW kind, NEW now, NEW there,
         Lands(now, toJava, ArgOf(kind), there)
  PROVE  Lands(now, toJava, ArgOf(kind)', there)
<1>1. \A m \in Members(toJava) : m \in Messages /\ (m.msg = "done" => m.op \in Answered)
  BY QueueTypes, AnswersFound DEF TypeInv
<1>2. \A m \in Members(toJava) : /\ m \in DOMAIN ArgOf(kind) <=> m \in DOMAIN (ArgOf(kind)')
                                 /\ m \in DOMAIN ArgOf(kind) => ArgOf(kind)[m] = (ArgOf(kind)')[m]
  BY <1>1 DEF ArgOf
<1>3. QED
  BY <1>2, SameLands

(* The mirror and the messages stay as they are.                            *)
LEMMA MirrorStays ==
  ASSUME TypeInv, Mirror, closed => closed', \A m \in Members(toPage') : m.script = "close" => closed' \/ m \in Members(toPage),
         ~closed' => UNCHANGED <<jConn, jSig, pConn, pSig>>,
         \A o \in Answered : ops'[o].call = ops[o].call, UNCHANGED <<jLocal, jRemote, toJava, pLocal, pRemote>>
  PROVE  Mirror'
<1>1. Settings(toJava, pLocal, pRemote)'
  <2>1. Lands(jLocal, toJava, ArgOf("setLocalDescription")', pLocal)
    BY SameSettings DEF Mirror, Settings
  <2>2. Lands(jRemote, toJava, ArgOf("setRemoteDescription")', pRemote)
    BY SameSettings DEF Mirror, Settings
  <2>3. QED
    BY <2>1, <2>2 DEF Settings
<1>2. ~closed' => States(toJava, pConn, pSig)'
  BY DEF Mirror, States, Known
<1>3. QED
  BY <1>1, <1>2 DEF Mirror

(* A message is sent.                                                       *)
LEMMA SendStates ==
  ASSUME NEW q \in Seq(Messages), NEW m \in Messages, NEW c, NEW g, States(q, c, g)
  PROVE  States(Append(q, m), IF m.msg = "event" THEN m.conn ELSE c,
                              IF m.msg = "event" /\ m.type = "signalingstatechange" THEN m.sig ELSE g)
<1>1. Lands(jConn, Append(q, m), ConnOf, IF m \in DOMAIN ConnOf THEN ConnOf[m] ELSE c)
  BY AppendLands DEF States
<1>2. Lands(Known, Append(q, m), SigOf, IF m \in DOMAIN SigOf THEN SigOf[m] ELSE g)
  BY AppendLands DEF States
<1>3. /\ (IF m \in DOMAIN ConnOf THEN ConnOf[m] ELSE c) = (IF m.msg = "event" THEN m.conn ELSE c)
      /\ (IF m \in DOMAIN SigOf THEN SigOf[m] ELSE g)
          = (IF m.msg = "event" /\ m.type = "signalingstatechange" THEN m.sig ELSE g)
  BY StatesOf
<1>4. QED
  BY <1>1, <1>2, <1>3 DEF States

LEMMA SendSettings ==
  ASSUME NEW q \in Seq(Messages), NEW m \in Messages, NEW l, NEW r, Settings(q, l, r)
  PROVE  Settings(Append(q, m),
                  IF m.msg = "done" /\ m.ok /\ ops[m.op].call.kind = "setLocalDescription" THEN ops[m.op].call.arg ELSE l,
                  IF m.msg = "done" /\ m.ok /\ ops[m.op].call.kind = "setRemoteDescription" THEN ops[m.op].call.arg ELSE r)
<1> DEFINE F == ArgOf("setLocalDescription")
           G == ArgOf("setRemoteDescription")
<1>1. Lands(jLocal, Append(q, m), F, IF m \in DOMAIN F THEN F[m] ELSE l)
  BY AppendLands DEF Settings
<1>2. Lands(jRemote, Append(q, m), G, IF m \in DOMAIN G THEN G[m] ELSE r)
  BY AppendLands DEF Settings
<1>3. /\ (IF m \in DOMAIN F THEN F[m] ELSE l)
          = (IF m.msg = "done" /\ m.ok /\ ops[m.op].call.kind = "setLocalDescription" THEN ops[m.op].call.arg ELSE l)
      /\ (IF m \in DOMAIN G THEN G[m] ELSE r)
          = (IF m.msg = "done" /\ m.ok /\ ops[m.op].call.kind = "setRemoteDescription" THEN ops[m.op].call.arg ELSE r)
  BY SettingsOf
<1>4. QED
  BY <1>1, <1>2, <1>3 DEF Settings

(* The mirror through the calls of the application.                         *)
LEMMA CallsKept ==
  ASSUME TypeInv, Fresh # {}, NEW x, ops' = [ops EXCEPT ![NextOp] = x]
  PROVE  \A o \in Answered : ops'[o].call = ops[o].call
<1>1. NextOp \in Op /\ ops[NextOp].state = "unused"
  BY NextOpType DEF TypeInv
<1>2. \A o \in Answered : o \in Op /\ o # NextOp
  BY <1>1 DEF TypeInv, Apart, Pending
<1>3. QED
  BY <1>1, <1>2 DEF TypeInv, TypeOK

LEMMA SentScripts ==
  ASSUME TypeInv, NEW m \in Scripts, toPage' = Append(toPage, m)
  PROVE  Members(toPage') = Members(toPage) \cup {m}
<1>1. toPage \in Seq(Scripts)
  BY QueueTypes DEF TypeInv
<1>2. QED
  BY <1>1, AppendMembers

LEMMA AppMirror == ASSUME TypeInv, Mirror, App PROVE Mirror'
<1>1. ASSUME NEW call \in Kinds, Negotiate(call) PROVE Mirror'
  <2>1. /\ Fresh # {} /\ ops' = [ops EXCEPT ![NextOp] = [call |-> call, state |-> "pending"]]
        /\ toPage' = Append(toPage, Script("op", NextOp))
        /\ UNCHANGED <<jConn, jSig, jLocal, jRemote, toJava, pConn, pSig, pLocal, pRemote, closed>>
    BY <1>1 DEF Negotiate, Start, page
  <2>2. Script("op", NextOp) \in Scripts /\ Script("op", NextOp).script = "op"
    BY <2>1, NextOpType, ScriptTypes DEF TypeInv
  <2>3. \A m \in Members(toPage') : m.script = "close" => m \in Members(toPage)
    BY <2>1, <2>2, SentScripts
  <2>4. QED
    BY <2>1, <2>3, CallsKept, MirrorStays
<1>2. ASSUME NEW null \in BOOLEAN, AddIceCandidate(null) PROVE Mirror'
  <2>1. /\ Fresh # {} /\ \E x : ops' = [ops EXCEPT ![NextOp] = x]
        /\ toPage' = toPage \/ toPage' = Append(toPage, Script("op", NextOp))
        /\ UNCHANGED <<jConn, jSig, jLocal, jRemote, toJava, pConn, pSig, pLocal, pRemote, closed>>
    BY <1>2 DEF AddIceCandidate, Start, page
  <2>2. Script("op", NextOp) \in Scripts /\ Script("op", NextOp).script = "op"
    BY <2>1, NextOpType, ScriptTypes DEF TypeInv
  <2>3. \A m \in Members(toPage') : m.script = "close" => m \in Members(toPage)
    BY <2>1, <2>2, SentScripts
  <2>4. \A o \in Answered : ops'[o].call = ops[o].call
    BY <2>1, CallsKept
  <2>5. QED
    BY <2>1, <2>3, <2>4, MirrorStays
<1>3. ASSUME NEW s \in Sender, SetParameters(s) PROVE Mirror'
  <2>1. /\ Fresh # {} /\ \E x : ops' = [ops EXCEPT ![NextOp] = x]
        /\ toPage' = toPage \/ toPage' = Append(toPage, Script("op", NextOp))
        /\ UNCHANGED <<jConn, jSig, jLocal, jRemote, toJava, pConn, pSig, pLocal, pRemote, closed>>
    BY <1>3 DEF SetParameters, Start, page
  <2>2. Script("op", NextOp) \in Scripts /\ Script("op", NextOp).script = "op"
    BY <2>1, NextOpType, ScriptTypes DEF TypeInv
  <2>3. \A m \in Members(toPage') : m.script = "close" => m \in Members(toPage)
    BY <2>1, <2>2, SentScripts
  <2>4. \A o \in Answered : ops'[o].call = ops[o].call
    BY <2>1, CallsKept
  <2>5. QED
    BY <2>1, <2>3, <2>4, MirrorStays
<1>4. ASSUME NEW t \in Tracks, AddTrack(t) PROVE Mirror'
  <2>1. /\ Unmade # {} /\ toPage' = Append(toPage, Script("addTrack", NewSender))
        /\ UNCHANGED <<jConn, jSig, jLocal, jRemote, toJava, pConn, pSig, pLocal, pRemote, closed, ops>>
    BY <1>4 DEF AddTrack, page
  <2>2. Script("addTrack", NewSender) \in Scripts /\ Script("addTrack", NewSender).script = "addTrack"
    BY <2>1, NewSenderType, ScriptTypes
  <2>3. \A m \in Members(toPage') : m.script = "close" => m \in Members(toPage)
    BY <2>1, <2>2, SentScripts
  <2>4. QED
    BY <2>1, <2>3, MirrorStays
<1>5. ASSUME NEW s \in Sender, RemoveTrack(s) PROVE Mirror'
  <2>1. /\ track[s] # Nil /\ toPage' = Append(toPage, Script("removeTrack", track[s]))
        /\ UNCHANGED <<jConn, jSig, jLocal, jRemote, toJava, pConn, pSig, pLocal, pRemote, closed, ops>>
    BY <1>5 DEF RemoveTrack, page
  <2>2. /\ Script("removeTrack", track[s]) \in Scripts
        /\ Script("removeTrack", track[s]).script = "removeTrack"
    BY <2>1, ScriptTypes DEF TypeInv, TypeOK
  <2>3. \A m \in Members(toPage') : m.script = "close" => m \in Members(toPage)
    BY <2>1, <2>2, SentScripts
  <2>4. QED
    BY <2>1, <2>3, MirrorStays
<1>6. CASE Close
  BY <1>6, MirrorStays DEF Close, page
<1>7. ASSUME NEW kind \in {"createOffer", "createAnswer"} PROVE [kind |-> kind, arg |-> Nil] \in Kinds
  BY DEF Kinds
<1>8. ASSUME NEW kind \in {"setLocalDescription", "setRemoteDescription"}, NEW d \in Descs
      PROVE  [kind |-> kind, arg |-> d] \in Kinds
  BY DEF Kinds
<1>9. QED
  BY <1>1, <1>2, <1>3, <1>4, <1>5, <1>6, <1>7, <1>8 DEF App

(* The mirror through the callbacks and events that Java handles.           *)
LEMMA TakeMirror ==
  ASSUME TypeInv, Mirror, toJava # <<>>, toJava' = Tail(toJava), UNCHANGED <<pConn, pSig, pLocal, pRemote, closed>>,
         NEW m, m = Head(toJava),
         jConn' = IF m.msg = "event" THEN m.conn ELSE jConn,
         jSig' = IF m.msg = "event" /\ m.type = "signalingstatechange" THEN m.sig ELSE jSig,
         jLocal' = IF m.msg = "done" /\ m.ok /\ ops[m.op].call.kind = "setLocalDescription"
                   THEN ops[m.op].call.arg ELSE jLocal,
         jRemote' = IF m.msg = "done" /\ m.ok /\ ops[m.op].call.kind = "setRemoteDescription"
                    THEN ops[m.op].call.arg ELSE jRemote,
         \A o \in Op : ops'[o].call = ops[o].call,
         \A n \in Members(toPage') : n.script = "close" => n \in Members(toPage)
  PROVE  Mirror'
<1> DEFINE F == ArgOf("setLocalDescription")
           G == ArgOf("setRemoteDescription")
<1>1. /\ toJava \in Seq(Messages) /\ m \in Messages
      /\ Members(toJava) = Members(toJava') \cup {m} /\ Members(toJava') \subseteq Messages
  BY QueueTypes, TailMembers DEF TypeInv
<1>2. \A n \in Members(toJava') : n.msg = "event" /\ n.type = "signalingstatechange" => n.sig # Nil
  BY <1>1 DEF Mirror
<1>3. ~closed => States(toJava, pConn, pSig)'
  <2> SUFFICES ASSUME ~closed PROVE States(toJava, pConn, pSig)'
    OBVIOUS
  <2>1. Lands(IF m \in DOMAIN ConnOf THEN ConnOf[m] ELSE jConn, toJava', ConnOf, pConn)
    BY <1>1, TailLands DEF Mirror, States
  <2>2. Lands(IF m \in DOMAIN SigOf THEN SigOf[m] ELSE Known, toJava', SigOf, pSig)
    BY <1>1, TailLands DEF Mirror, States
  <2>3. jConn' = IF m \in DOMAIN ConnOf THEN ConnOf[m] ELSE jConn
    BY <1>1, StatesOf
  <2>4. Known' = IF m \in DOMAIN SigOf THEN SigOf[m] ELSE Known
    BY <1>1, StatesOf DEF Known, Mirror
  <2>5. QED
    BY <2>1, <2>2, <2>3, <2>4 DEF States
<1>4. Settings(toJava, pLocal, pRemote)'
  <2>1. Lands(IF m \in DOMAIN F THEN F[m] ELSE jLocal, toJava', F, pLocal)
    BY <1>1, TailLands DEF Mirror, Settings
  <2>2. Lands(IF m \in DOMAIN G THEN G[m] ELSE jRemote, toJava', G, pRemote)
    BY <1>1, TailLands DEF Mirror, Settings
  <2>3. /\ jLocal' = IF m \in DOMAIN F THEN F[m] ELSE jLocal
        /\ jRemote' = IF m \in DOMAIN G THEN G[m] ELSE jRemote
    BY <1>1, SettingsOf
  <2>4. \A n \in Members(toJava') : n.msg = "done" => n.op \in Op
    BY <1>1, MessageFields
  <2>5. \A n \in Members(toJava') : /\ n \in DOMAIN F <=> n \in DOMAIN (F')
                                    /\ n \in DOMAIN F => F[n] = (F')[n]
    BY <1>1, <2>4 DEF ArgOf
  <2>6. \A n \in Members(toJava') : /\ n \in DOMAIN G <=> n \in DOMAIN (G')
                                    /\ n \in DOMAIN G => G[n] = (G')[n]
    BY <1>1, <2>4 DEF ArgOf
  <2> HIDE DEF F, G
  <2>7. Lands(jLocal', toJava', F', pLocal) /\ Lands(jRemote', toJava', G', pRemote)
    BY <2>1, <2>2, <2>3, <2>5, <2>6, SameLands
  <2>8. QED
    BY <2>7 DEF Settings, F, G
<1>5. QED
  BY <1>2, <1>3, <1>4 DEF Mirror

LEMMA JavaMirror == ASSUME TypeInv, Mirror, JavaStep PROVE Mirror'
<1> DEFINE m == Head(toJava)
<1>1. /\ toJava # <<>> /\ toJava' = Tail(toJava) /\ m \in Messages
      /\ UNCHANGED <<pConn, pSig, pLocal, pRemote, closed>>
  BY QueueTypes, TailMembers DEF TypeInv, JavaStep, page
<1> HIDE DEF m
<1>2. ASSUME m.msg \in {"done", "tuned"}, ops' = Finish(m.op, m.ok) PROVE \A o \in Op : ops'[o].call = ops[o].call
  <2>1. m.op \in Op /\ ops[m.op].state = "pending" /\ m.ok \in BOOLEAN
    BY <1>1, <1>2, AnsweredCall, MessageFields DEF m
  <2>2. QED
    BY <1>2, <2>1, FinishCall DEF TypeInv
<1>3. CASE m.msg = "done" /\ OnDone(m)
  BY <1>1, <1>2, <1>3, TakeMirror DEF OnDone, m
<1>4. CASE m.msg = "tuned" /\ OnTuned(m)
  BY <1>1, <1>2, <1>4, TakeMirror DEF OnTuned, m
<1>5. CASE m.msg = "event" /\ OnEvent(m)
  BY <1>1, <1>5, TakeMirror DEF OnEvent, m
<1>6. CASE m.msg = "sender" /\ OnSender(m)
  <2> DEFINE q == onReady[m.sender]
             r == [i \in DOMAIN q |-> Script("op", q[i])]
  <2>1. toPage' = toPage \o r /\ UNCHANGED <<jConn, jSig, jLocal, jRemote, ops>>
    BY <1>6 DEF OnSender
  <2>2. q \in Seq(Op) /\ toPage \in Seq(Scripts)
    BY <1>1, <1>6, MessageFields, QueueTypes DEF TypeInv
  <2> HIDE DEF q
  <2>3. r \in Seq(Scripts) /\ \A n \in Members(r) : n.script = "op"
    BY <2>2, Replayed DEF Members
  <2> HIDE DEF r
  <2>4. \A n \in Members(toPage') : n.script = "close" => n \in Members(toPage)
    BY <2>1, <2>2, <2>3, ConcatMembers
  <2>5. QED
    BY <1>1, <1>6, <2>1, <2>4, TakeMirror DEF m
<1>7. QED
  BY <1>3, <1>4, <1>5, <1>6 DEF JavaStep, m

(* The mirror through the steps of the page: a message is sent, and nothing *)
(* else reaches Java.                                                       *)
LEMMA SendMirror ==
  ASSUME TypeInv, Mirror, NEW m \in Messages, toJava' = Append(toJava, m),
         UNCHANGED <<jConn, jSig, jLocal, jRemote, ops, pLocal, pRemote, pSig, closed>>,
         \A n \in Members(toPage') : n \in Members(toPage),
         m.msg = "event" => m.conn = pConn' /\ m.type # "signalingstatechange",
         m.msg # "event" => pConn' = pConn,
         m.msg = "done" => ~m.ok,
         ~closed => pConn' # "closed"
  PROVE  Mirror'
<1>1. toJava \in Seq(Messages)
  BY QueueTypes DEF TypeInv
<1>2. \A n \in Members(toJava') : n.msg = "event" /\ n.type = "signalingstatechange" => n.sig # Nil
  BY <1>1, AppendMembers DEF Mirror
<1>3. ~closed => States(toJava, pConn, pSig)'
  <2> SUFFICES ASSUME ~closed PROVE States(toJava, pConn, pSig)'
    OBVIOUS
  <2> DEFINE c == IF m.msg = "event" THEN m.conn ELSE pConn
             g == IF m.msg = "event" /\ m.type = "signalingstatechange" THEN m.sig ELSE pSig
  <2>1. States(Append(toJava, m), c, g)
    BY <1>1, SendStates DEF Mirror
  <2>2. c = pConn' /\ g = pSig'
    OBVIOUS
  <2> HIDE DEF c, g
  <2>3. QED
    BY <2>1, <2>2 DEF States, Known
<1>4. Settings(toJava, pLocal, pRemote)'
  <2> DEFINE l == IF m.msg = "done" /\ m.ok /\ ops[m.op].call.kind = "setLocalDescription"
                  THEN ops[m.op].call.arg ELSE pLocal
             r == IF m.msg = "done" /\ m.ok /\ ops[m.op].call.kind = "setRemoteDescription"
                  THEN ops[m.op].call.arg ELSE pRemote
  <2>1. Settings(Append(toJava, m), l, r)
    BY <1>1, SendSettings DEF Mirror
  <2>2. l = pLocal' /\ r = pRemote'
    OBVIOUS
  <2> HIDE DEF l, r
  <2>3. QED
    BY <2>1, <2>2 DEF Settings, ArgOf
<1>5. QED
  BY <1>2, <1>3, <1>4 DEF Mirror

LEMMA PageMirror == ASSUME TypeInv, Mirror, PageStep PROVE Mirror'
<1>1. toPage # <<>> /\ toPage' = Tail(toPage) /\ UNCHANGED <<java, wanted, closed>>
  BY DEF PageStep
<1>2. /\ UNCHANGED <<jConn, jSig, jLocal, jRemote, ops, closed>> /\ pConn \in Conn
      /\ toPage \in Seq(Scripts) /\ Head(toPage) \in Scripts
      /\ Members(toPage) = Members(toPage') \cup {Head(toPage)}
  BY <1>1, QueueTypes, TailMembers DEF TypeInv, TypeOK, java
<1>3. ~closed => pConn # "closed"
  BY DEF Mirror
<1>4. CASE PageQuery
  <2>1. Event("query", Nil, pConn) \in Messages
    BY <1>2, MessageTypes
  <2>2. QED
    BY <1>2, <1>3, <1>4, <2>1, SendMirror DEF PageQuery, page, Event
<1>5. CASE PageOp
  <2> DEFINE o == Head(toPage).arg
  <2>1. o \in Op
    BY <1>2, <1>5, ScriptTypes DEF PageOp
  <2>2. UNCHANGED <<pConn, pSig, pLocal, pRemote>> /\ (toJava' = toJava \/ toJava' = Append(toJava, Done(o, FALSE)))
    BY <1>5 DEF PageOp
  <2>3. Done(o, FALSE) \in Messages /\ Done(o, FALSE).msg = "done" /\ Done(o, FALSE).ok = FALSE
    BY <2>1, MessageTypes DEF Done
  <2> HIDE DEF o
  <2>4. CASE toJava' = toJava
    BY <1>2, <2>2, <2>4, MirrorStays
  <2>5. CASE toJava' = Append(toJava, Done(o, FALSE))
    BY <1>2, <1>3, <2>2, <2>3, <2>5, SendMirror
  <2>6. QED
    BY <2>2, <2>4, <2>5
<1>6. CASE PageAddTrack
  <2> DEFINE s == Head(toPage).arg
  <2>1. s \in Sender
    BY <1>2, <1>6, ScriptTypes DEF PageAddTrack
  <2>2. UNCHANGED <<pConn, pSig, pLocal, pRemote>> /\ (toJava' = toJava \/ toJava' = Append(toJava, Made(s)))
    BY <1>6 DEF PageAddTrack
  <2>3. Made(s) \in Messages /\ Made(s).msg = "sender"
    BY <2>1, MessageTypes DEF Made
  <2> HIDE DEF s
  <2>4. CASE toJava' = toJava
    BY <1>2, <2>2, <2>4, MirrorStays
  <2>5. CASE toJava' = Append(toJava, Made(s))
    BY <1>2, <1>3, <2>2, <2>3, <2>5, SendMirror
  <2>6. QED
    BY <2>2, <2>4, <2>5
<1>7. CASE PageRemoveTrack
  BY <1>2, <1>7, MirrorStays DEF PageRemoveTrack
<1>8. CASE PageClose
  <2>1. closed /\ UNCHANGED <<pLocal, pRemote, toJava>>
    BY <1>2, <1>8 DEF Mirror, PageClose
  <2>2. QED
    BY <1>2, <2>1, MirrorStays
<1>9. QED
  BY <1>4, <1>5, <1>6, <1>7, <1>8 DEF PageStep

(* The signaling state is fired before the answer that changed it.          *)
LEMMA ChainMirror == ASSUME TypeInv, Mirror, ChainEnds PROVE Mirror'
<1> DEFINE o == Head(chain)
           call == ops[o].call
           to == NextSig(call)
           e == Event("signalingstatechange", to, pConn)
           told == IF to = pSig THEN toJava ELSE Append(toJava, e)
<1>1. /\ chain \in Seq(Op) /\ chain # <<>> /\ toJava \in Seq(Messages) /\ pConn \in Conn
      /\ UNCHANGED <<jConn, jSig, jLocal, jRemote, ops, toPage, pConn, closed>>
  BY QueueTypes DEF TypeInv, TypeOK, ChainEnds, java
<1>2. o \in Op /\ o \in Chained
  BY <1>1, TailMembers DEF Chained
<1>3. call \in Kinds
  BY <1>2 DEF TypeInv, Apart, Numbered, Pending
<1> HIDE DEF o
<1>4. to \in Sig \cup {Nil}
  BY <1>3, NextSigType DEF TypeInv
<1> HIDE DEF call, to
<1>5. /\ \A ok \in BOOLEAN : Done(o, ok) \in Messages
      /\ \A ok : Done(o, ok).msg = "done" /\ Done(o, ok).ok = ok /\ Done(o, ok).op = o
  BY <1>2, MessageTypes DEF Done
<1>6. e \in Messages /\ e.msg = "event" /\ e.type = "signalingstatechange" /\ e.sig = to /\ e.conn = pConn
  BY <1>1, <1>4, MessageTypes DEF Event
<1> HIDE DEF e
<1>7. CASE UNCHANGED <<pSig, pLocal, pRemote>> /\ toJava' = Append(toJava, Done(o, FALSE))
  <2>1. ~closed => pConn # "closed"
    BY DEF Mirror
  <2>2. QED
    BY <1>1, <1>5, <1>7, <2>1, SendMirror
<1>8. CASE /\ to # Nil /\ pSig' = to
           /\ pLocal' = IF call.kind = "setLocalDescription" THEN call.arg ELSE pLocal
           /\ pRemote' = IF call.kind = "setRemoteDescription" THEN call.arg ELSE pRemote
           /\ toJava' = Append(told, Done(o, TRUE))
  <2> DEFINE d == Done(o, TRUE)
  <2>1. told \in Seq(Messages) /\ Members(told) \subseteq Members(toJava) \cup {e}
    BY <1>1, <1>6, AppendMembers
  <2>2. ~closed => States(told, pConn, to)
    <3>1. CASE to = pSig
      BY <3>1 DEF Mirror
    <3>2. CASE to # pSig
      BY <1>1, <1>6, <3>2, SendStates DEF Mirror
    <3>3. QED
      BY <3>1, <3>2
  <2>3. Settings(told, pLocal, pRemote)
    <3>1. CASE to = pSig
      BY <3>1 DEF Mirror
    <3>2. CASE to # pSig
      BY <1>1, <1>6, <3>2, SendSettings DEF Mirror
    <3>3. QED
      BY <3>1, <3>2
  <2>4. toJava' = Append(told, d) /\ d \in Messages /\ d.msg = "done" /\ d.ok /\ d.op = o
    BY <1>5, <1>8
  <2> HIDE DEF told, d
  <2>5. ~closed => States(toJava', pConn, to)
    BY <2>1, <2>2, <2>4, SendStates
  <2>6. Settings(toJava', pLocal', pRemote')
    <3>1. Settings(toJava', IF call.kind = "setLocalDescription" THEN call.arg ELSE pLocal,
                            IF call.kind = "setRemoteDescription" THEN call.arg ELSE pRemote)
      BY <2>1, <2>3, <2>4, SendSettings DEF call
    <3>2. QED
      BY <1>8, <3>1
  <2>7. ~closed' => States(toJava, pConn, pSig)'
    BY <1>1, <1>8, <2>5 DEF States, Known
  <2>8. Settings(toJava, pLocal, pRemote)'
    BY <1>1, <2>6 DEF Settings, ArgOf
  <2>9. \A m \in Members(toJava') : m.msg = "event" /\ m.type = "signalingstatechange" => m.sig # Nil
    <3>1. Members(toJava') = Members(told) \cup {d}
      BY <2>1, <2>4, AppendMembers
    <3>2. QED
      BY <1>6, <1>8, <2>1, <2>4, <3>1 DEF Mirror
  <2>10. QED
    BY <1>1, <2>7, <2>8, <2>9 DEF Mirror
<1>9. QED
  BY <1>7, <1>8 DEF ChainEnds, o, call, to, e

LEMMA OthersMirror ==
  ASSUME TypeInv, Mirror,
         (\E o \in Op : TuningEnds(o)) \/ (\E c \in ConnStates : ConnectionChanges(c)) \/ OtherEvent
  PROVE  Mirror'
<1>1. (~closed => pConn # "closed") /\ pConn \in Conn
  BY DEF Mirror, TypeInv, TypeOK
<1>2. ASSUME NEW o \in Op, TuningEnds(o) PROVE Mirror'
  <2> DEFINE t == sending[slot[ops[o].call.arg]]
  <2>1. PICK ok \in BOOLEAN : toJava' = Append(toJava, Tuned(o, ok, t))
    BY <1>2 DEF TuningEnds
  <2>2. t \in Tracks \cup {Nil}
    <3>1. Tuning(o) /\ ops[o].call.arg \in ready
      BY <1>2 DEF TypeInv, Kept, TuningEnds
    <3>2. slot[ops[o].call.arg] \in DOMAIN sending
      BY <3>1 DEF TypeInv, Slots
    <3>3. QED
      BY <3>2, ElementOfSeq, LenProperties DEF TypeInv, TypeOK
  <2> HIDE DEF t
  <2>3. Tuned(o, ok, t) \in Messages /\ Tuned(o, ok, t).msg = "tuned"
    BY <2>2, MessageTypes DEF Tuned
  <2>4. QED
    BY <1>1, <1>2, <2>1, <2>3, SendMirror DEF TuningEnds, java
<1>3. ASSUME NEW c \in ConnStates, ConnectionChanges(c) PROVE Mirror'
  <2> DEFINE e == Event("connectionstatechange", Nil, c)
  <2>1. c \in Conn /\ c # "closed"
    BY PeerAssumption DEF Conn
  <2>2. e \in Messages /\ e.msg = "event" /\ e.type # "signalingstatechange" /\ e.conn = c
    BY <2>1, MessageTypes DEF Event
  <2>3. toJava' = Append(toJava, e) /\ pConn' = c
    BY <1>3 DEF ConnectionChanges
  <2> HIDE DEF e
  <2>4. QED
    BY <1>3, <2>1, <2>2, <2>3, SendMirror DEF ConnectionChanges, java
<1>4. CASE OtherEvent
  <2> DEFINE e == Event("other", Nil, pConn)
  <2>1. e \in Messages /\ e.msg = "event" /\ e.type # "signalingstatechange" /\ e.conn = pConn
    BY <1>1, MessageTypes DEF Event
  <2>2. toJava' = Append(toJava, e)
    BY <1>4 DEF OtherEvent
  <2> HIDE DEF e
  <2>3. QED
    BY <1>1, <1>4, <2>1, <2>2, SendMirror DEF OtherEvent, java, page
<1>5. QED
  BY <1>2, <1>3, <1>4

LEMMA NextMirror == TypeInv /\ Mirror /\ [Next]_vars => Mirror'
<1> SUFFICES ASSUME TypeInv, Mirror, [Next]_vars PROVE Mirror'
  OBVIOUS
<1>1. CASE Page
  BY <1>1, PageMirror, ChainMirror, OthersMirror DEF Page
<1>2. CASE UNCHANGED vars
  BY <1>2, MirrorStays DEF vars, java, page
<1>3. QED
  BY <1>1, <1>2, AppMirror, JavaMirror DEF Next

LEMMA InitMirror == Init => Mirror
<1> SUFFICES ASSUME Init PROVE Mirror
  OBVIOUS
<1>1. toPage = <<Script("query", Nil)>> /\ Script("query", Nil) \in Scripts /\ Script("query", Nil).script = "query"
  BY ScriptTypes DEF Init
<1>2. \A m \in Members(toPage) : m.script # "close"
  BY <1>1, OneMember
<1>3. toJava = <<>> /\ Members(toJava) = {}
  BY EmptyQueue DEF Init
<1>4. \A now, f : Lands(now, toJava, f, now)
  BY <1>3, EmptyQueue DEF Lands, Members
<1>5. Known = pSig /\ jConn = pConn /\ pConn # "closed" /\ jLocal = pLocal /\ jRemote = pRemote
  BY DEF Init, Known
<1>6. States(toJava, pConn, pSig) /\ Settings(toJava, pLocal, pRemote)
  BY <1>4, <1>5 DEF States, Settings
<1>7. QED
  BY <1>2, <1>3, <1>5, <1>6 DEF Mirror

LEMMA AlwaysMirror == Spec => []Mirror
<1>1. QED
  BY InitMirror, NextMirror, AlwaysTypeInv, PTL DEF Spec

(* What a queue lands in, said of the last position that matters.           *)
LEMMA LandsFinal ==
  ASSUME NEW q \in Seq(Messages), NEW f, NEW now, NEW there, Lands(now, q, f, there),
         NEW I, I = {i \in DOMAIN q : q[i] \in DOMAIN f}
  PROVE  (I = {} => now = there) /\ \A i \in Final(I) : f[q[i]] = there
<1>1. DOMAIN q \subseteq Nat
  BY LenProperties
<1>2. I = {} => now = there
  BY DEF Lands, Members
<1>3. ASSUME NEW i \in Final(I) PROVE f[q[i]] = there
  <2>1. i \in DOMAIN q /\ q[i] \in DOMAIN f /\ \A j \in I : j <= i
    BY DEF Final
  <2>2. \A j \in DOMAIN q : i < j => q[j] \notin DOMAIN f
    BY <1>1, <2>1
  <2>3. QED
    BY <2>1, <2>2 DEF Lands
<1>4. QED
  BY <1>2, <1>3

LEMMA MirrorMeets == TypeInv /\ Mirror => MirrorCatchesUp /\ DescriptionsAgree
<1> SUFFICES ASSUME TypeInv, Mirror PROVE MirrorCatchesUp /\ DescriptionsAgree
  OBVIOUS
<1>1. toJava \in Seq(Messages) /\ \A i \in DOMAIN toJava : toJava[i] \in Messages
  BY QueueTypes DEF TypeInv, Members
<1>2. ASSUME ~closed
      PROVE  /\ Events = {} => jConn = pConn
             /\ \A i \in Final(Events) : toJava[i].conn = pConn
             /\ SigEvents = {} => jSig = pSig \/ (jSig = Nil /\ pSig = "stable")
             /\ \A i \in Final(SigEvents) : toJava[i].sig = pSig
  <2>1. Lands(jConn, toJava, ConnOf, pConn) /\ Lands(Known, toJava, SigOf, pSig)
    BY <1>2 DEF Mirror, States
  <2>2. Events = {i \in DOMAIN toJava : toJava[i] \in DOMAIN ConnOf}
    BY <1>1, StatesOf DEF Events
  <2>3. SigEvents = {i \in DOMAIN toJava : toJava[i] \in DOMAIN SigOf}
    BY <1>1, StatesOf DEF SigEvents, Events
  <2>4. (Events = {} => jConn = pConn) /\ \A i \in Final(Events) : ConnOf[toJava[i]] = pConn
    BY <1>1, <2>1, <2>2, LandsFinal
  <2>5. (SigEvents = {} => Known = pSig) /\ \A i \in Final(SigEvents) : SigOf[toJava[i]] = pSig
    BY <1>1, <2>1, <2>3, LandsFinal
  <2>6. \A i \in Final(Events) : toJava[i].conn = pConn
    BY <1>1, <2>2, <2>4, StatesOf DEF Final
  <2>7. \A i \in Final(SigEvents) : toJava[i].sig = pSig
    BY <1>1, <2>3, <2>5, StatesOf DEF Final
  <2>8. QED
    BY <2>4, <2>5, <2>6, <2>7 DEF Known
<1>3. ASSUME NEW kind \in {"setLocalDescription", "setRemoteDescription"}, NEW mirror, NEW there,
             Lands(mirror, toJava, ArgOf(kind), there)
      PROVE  Agree(kind, mirror, there)
  <2>1. Set(kind) = {i \in DOMAIN toJava : toJava[i] \in DOMAIN ArgOf(kind)}
    BY <1>1, SettingsOf DEF Set
  <2>2. (Set(kind) = {} => mirror = there) /\ \A i \in Final(Set(kind)) : ArgOf(kind)[toJava[i]] = there
    BY <1>1, <1>3, <2>1, LandsFinal
  <2>3. \A i \in Final(Set(kind)) : ops[toJava[i].op].call.arg = there
    BY <1>1, <2>1, <2>2, SettingsOf DEF Final
  <2>4. QED
    BY <2>2, <2>3 DEF Agree
<1>4. DescriptionsAgree
  BY <1>3 DEF Mirror, Settings, DescriptionsAgree
<1>5. QED
  BY <1>2, <1>4 DEF MirrorCatchesUp

(* Until the application closes the connection, the connectionState and the *)
(* signalingState that Java shows become those of the page once the events  *)
(* under way are handled: no listener of the constructor undoes another.    *)
THEOREM StatesCatchUp == Spec => []MirrorCatchesUp
<1>1. QED
  BY AlwaysTypeInv, AlwaysMirror, MirrorMeets, PTL

(* The descriptions that Java keeps become those of the page, for every     *)
(* overlap of calls that set them, that are refused or that close() cuts    *)
(* off: the callback stores what the page has set, and only then.           *)
THEOREM DescriptionsCatchUp == Spec => []DescriptionsAgree
<1>1. QED
  BY AlwaysTypeInv, AlwaysMirror, MirrorMeets, PTL

-----------------------------------------------------------------------------
(* The order in which the page gets the setParameters calls of a sender.    *)
Tunes(s) ==
  [m \in {n \in Scripts : n.script = "op" /\ Tuning(n.arg) /\ ops[n.arg].call.arg = s} |-> m.arg]

(* The calls of a sender are on their way in the order of their making, all *)
(* of them later than the one that the page got last, and none waits any    *)
(* more once the sender is ready.                                           *)
Ordered ==
  \A s \in Sender :
    /\ Rises(toPage, Tunes(s)) /\ Increases(onReady[s])
    /\ Precede({seen[s]}, Keys(toPage, Tunes(s)) \cup Members(onReady[s]))
    /\ s \in ready => Members(onReady[s]) = {}
    /\ seen[s] # 0 => seen[s] \in Op /\ ops[seen[s]].state # "unused"

LEMMA TunesOf ==
  \A m \in Scripts, s \in Sender :
    /\ m \in DOMAIN Tunes(s) <=> m.script = "op" /\ Tuning(m.arg) /\ ops[m.arg].call.arg = s
    /\ m \in DOMAIN Tunes(s) => Tunes(s)[m] = m.arg
BY DEF Tunes

LEMMA SameRises ==
  ASSUME NEW q, NEW f, NEW g,
         \A m \in Members(q) : (m \in DOMAIN f <=> m \in DOMAIN g) /\ (m \in DOMAIN f => f[m] = g[m])
  PROVE  Keys(q, f) = Keys(q, g) /\ (Rises(q, f) => Rises(q, g))
<1>1. \A i \in DOMAIN q : q[i] \in Members(q)
  BY DEF Members
<1>2. Keys(q, f) = Keys(q, g)
  BY DEF Keys
<1>3. Rises(q, f) => Rises(q, g)
  BY <1>1 DEF Rises
<1>4. QED
  BY <1>2, <1>3

(* The scripts under way mean the same as long as their calls do.           *)
LEMMA SameTunes ==
  ASSUME TypeInv, \A o \in Asked : ops'[o].call = ops[o].call, NEW s \in Sender
  PROVE  Keys(toPage, Tunes(s)') = Keys(toPage, Tunes(s)) /\ (Rises(toPage, Tunes(s)) => Rises(toPage, Tunes(s)'))
<1>1. \A m \in Members(toPage) : m \in Scripts /\ (m.script = "op" => m.arg \in Asked)
  <2>1. \A m \in Members(toPage) : m \in Scripts
    BY QueueTypes DEF TypeInv
  <2>2. QED
    BY <2>1, AsksOf DEF Asked, Keys
<1>2. \A m \in Members(toPage) : /\ m \in DOMAIN Tunes(s) <=> m \in DOMAIN (Tunes(s)')
                                 /\ m \in DOMAIN Tunes(s) => Tunes(s)[m] = (Tunes(s)')[m]
  BY <1>1 DEF Tunes, Tuning
<1>3. QED
  BY <1>2, SameRises

(* A script under way for a sender is of a pending call, made for it.       *)
LEMMA TunesAreAsked ==
  ASSUME TypeInv, NEW s \in Sender
  PROVE  /\ Keys(toPage, Tunes(s)) \subseteq Asked /\ Keys(toPage, Tunes(s)) \subseteq Pending
         /\ \A o \in Keys(toPage, Tunes(s)) : Tuning(o) /\ ops[o].call.arg = s
         /\ Keys(toPage, Tunes(s)) # {} => s \in ready
<1>1. ASSUME NEW o \in Keys(toPage, Tunes(s)) PROVE o \in Asked /\ Tuning(o) /\ ops[o].call.arg = s
  <2>1. PICK m \in Members(toPage) : m \in DOMAIN Tunes(s) /\ o = Tunes(s)[m]
    BY DEF Keys
  <2>2. m \in Scripts
    BY QueueTypes DEF TypeInv
  <2>3. m.script = "op" /\ m.arg = o /\ Tuning(o) /\ ops[o].call.arg = s
    BY <2>1, <2>2, TunesOf
  <2>4. QED
    BY <2>1, <2>2, <2>3, AsksOf DEF Asked, Keys
<1>2. QED
  BY <1>1 DEF TypeInv, Apart, Kept

LEMMA OrderStays ==
  ASSUME TypeInv, Ordered, \A o \in Asked : ops'[o].call = ops[o].call,
         \A o \in Op : ops[o].state # "unused" => ops'[o].state # "unused",
         UNCHANGED <<toPage, onReady, ready, seen>>
  PROVE  Ordered'
BY SameTunes DEF Ordered

(* A script is sent that is not for a sender, or for one that is ready.     *)
LEMMA SendOrder ==
  ASSUME TypeInv, Ordered, \A o \in Asked : ops'[o].call = ops[o].call,
         \A o \in Op : ops[o].state # "unused" => ops'[o].state # "unused",
         NEW m \in Scripts, toPage' = Append(toPage, m), UNCHANGED <<onReady, ready, seen>>,
         \A s \in Sender : m \in DOMAIN (Tunes(s)') =>
             s \in ready /\ Precede({seen[s]} \cup Keys(toPage, Tunes(s)), {(Tunes(s)')[m]})
  PROVE  Ordered'
<1>1. toPage \in Seq(Scripts)
  BY QueueTypes DEF TypeInv
<1>2. ASSUME NEW s \in Sender
      PROVE  /\ Rises(toPage', Tunes(s)')
             /\ Precede({seen[s]}, Keys(toPage', Tunes(s)') \cup Members(onReady[s]))
  <2> DEFINE f == Tunes(s)'
  <2>1. /\ Keys(toPage, f) = Keys(toPage, Tunes(s)) /\ Rises(toPage, f)
        /\ Precede({seen[s]}, Keys(toPage, Tunes(s)) \cup Members(onReady[s]))
    BY SameTunes DEF Ordered
  <2>2. m \in DOMAIN f => s \in ready /\ Precede({seen[s]} \cup Keys(toPage, Tunes(s)), {f[m]})
    OBVIOUS
  <2> HIDE DEF f
  <2>3. Rises(Append(toPage, m), f)
    <3>1. m \in DOMAIN f => Precede(Keys(toPage, f), {f[m]})
      BY <2>1, <2>2 DEF Precede
    <3>2. QED
      BY <1>1, <2>1, <3>1, AppendRises
  <2>4. Keys(Append(toPage, m), f) = IF m \in DOMAIN f THEN Keys(toPage, f) \cup {f[m]} ELSE Keys(toPage, f)
    BY <1>1, AppendKeys
  <2>5. Precede({seen[s]}, Keys(Append(toPage, m), f) \cup Members(onReady[s]))
    BY <2>1, <2>2, <2>4 DEF Precede
  <2>6. QED
    BY <2>3, <2>5 DEF f
<1>3. QED
  BY <1>2 DEF Ordered

(* A new call is later than all before it.                                  *)
LEMMA NewCallOrder ==
  ASSUME TypeInv, Ordered, Fresh # {}, NEW x, x.state # "unused", ops' = [ops EXCEPT ![NextOp] = x]
  PROVE  /\ NextOp \in Op /\ NextOp # 0
         /\ \A o \in Asked : ops'[o].call = ops[o].call
         /\ \A o \in Op : ops[o].state # "unused" => ops'[o].state # "unused"
         /\ \A s \in Sender : Precede({seen[s]} \cup Keys(toPage, Tunes(s)) \cup Members(onReady[s]), {NextOp})
<1>1. /\ NextOp \in Op /\ ops[NextOp].state = "unused" /\ NextOp # 0 /\ NextOp \in Nat
      /\ \A o \in Op : ops[o].state # "unused" => o < NextOp
  BY NextOpType DEF TypeInv, Op
<1>2. ops \in [Op -> Call]
  BY DEF TypeInv, TypeOK
<1>3. \A o \in Op : o # NextOp => ops'[o] = ops[o]
  BY <1>2
<1>4. ops'[NextOp] = x
  BY <1>1, <1>2
<1>5. \A o \in Asked : o \in Op /\ o # NextOp
  BY <1>1 DEF TypeInv, Apart, Pending
<1>6. ASSUME NEW s \in Sender, NEW o \in {seen[s]} \cup Keys(toPage, Tunes(s)) \cup Members(onReady[s])
      PROVE  o < NextOp
  <2>1. CASE o = seen[s]
    <3>1. seen[s] # 0 => seen[s] \in Op /\ ops[seen[s]].state # "unused"
      BY DEF Ordered
    <3>2. CASE seen[s] = 0
      BY <1>1, <2>1, <3>2
    <3>3. QED
      BY <1>1, <2>1, <3>1, <3>2
  <2>2. CASE o \in Keys(toPage, Tunes(s)) \cup Members(onReady[s])
    <3>1. o \in Pending
      BY <2>2, TunesAreAsked DEF TypeInv, Apart, Waiting
    <3>2. QED
      BY <1>1, <3>1 DEF Pending
  <2>3. QED
    BY <1>6, <2>1, <2>2
<1>7. QED
  BY <1>1, <1>3, <1>4, <1>5, <1>6 DEF Precede

(* The order through the calls of the application.                          *)
LEMMA AskOrder ==
  ASSUME TypeInv, Ordered, Fresh # {}, NEW call \in Kinds, call.kind = "setParameters" => call.arg \in ready,
         ops' = Start(call), toPage' = Append(toPage, Script("op", NextOp)), UNCHANGED <<onReady, ready, seen>>
  PROVE  Ordered'
<1> DEFINE x == [call |-> call, state |-> "pending"]
           m == Script("op", NextOp)
<1>1. ops' = [ops EXCEPT ![NextOp] = x] /\ x.state # "unused" /\ x.call = call
  BY DEF Start
<1> HIDE DEF x
<1>2. /\ NextOp \in Op /\ \A o \in Asked : ops'[o].call = ops[o].call
      /\ \A o \in Op : ops[o].state # "unused" => ops'[o].state # "unused"
      /\ \A s \in Sender : Precede({seen[s]} \cup Keys(toPage, Tunes(s)) \cup Members(onReady[s]), {NextOp})
  BY <1>1, NewCallOrder
<1>3. m \in Scripts /\ m.arg = NextOp /\ ops'[NextOp].call = call
  BY <1>1, <1>2, ScriptTypes DEF TypeInv, TypeOK
<1> HIDE DEF m
<1>4. ASSUME NEW s \in Sender, m \in DOMAIN (Tunes(s)')
      PROVE  s \in ready /\ Precede({seen[s]} \cup Keys(toPage, Tunes(s)), {(Tunes(s)')[m]})
  <2>1. (Tunes(s)')[m] = NextOp /\ call.kind = "setParameters" /\ call.arg = s
    BY <1>3, <1>4 DEF Tunes, Tuning
  <2>2. QED
    BY <1>2, <2>1 DEF Precede
<1>5. QED
  BY <1>2, <1>3, <1>4, SendOrder DEF m

LEMMA OtherScriptOrder ==
  ASSUME TypeInv, Ordered, NEW m \in Scripts, m.script # "op", toPage' = Append(toPage, m),
         UNCHANGED <<ops, onReady, ready, seen>>
  PROVE  Ordered'
<1>1. \A s \in Sender : m \notin DOMAIN (Tunes(s)')
  BY DEF Tunes
<1>2. QED
  BY <1>1, SendOrder

LEMMA AtOnceOrder ==
  ASSUME TypeInv, Ordered, Fresh # {}, NEW x, x.state # "unused", ops' = [ops EXCEPT ![NextOp] = x],
         UNCHANGED <<toPage, onReady, ready, seen>>
  PROVE  Ordered'
BY NewCallOrder, OrderStays

LEMMA SetParametersOrder == ASSUME TypeInv, Ordered, NEW s \in Sender, SetParameters(s) PROVE Ordered'
<1> DEFINE call == [kind |-> "setParameters", arg |-> s]
           x == [call |-> call, state |-> "pending"]
<1>1. /\ call \in Kinds /\ call.kind = "setParameters" /\ call.arg = s /\ Fresh # {} /\ ops' = Start(call)
      /\ UNCHANGED <<ready, seen>>
  BY DEF Kinds, SetParameters, page
<1>2. CASE s \in ready /\ toPage' = Append(toPage, Script("op", NextOp)) /\ UNCHANGED onReady
  BY <1>1, <1>2, AskOrder
<1>3. CASE s \notin ready /\ onReady' = [onReady EXCEPT ![s] = Append(@, NextOp)] /\ UNCHANGED toPage
  <2>1. ops' = [ops EXCEPT ![NextOp] = x] /\ x.state # "unused"
    BY <1>1 DEF Start
  <2> HIDE DEF x, call
  <2>2. /\ NextOp \in Op /\ \A o \in Asked : ops'[o].call = ops[o].call
        /\ \A o \in Op : ops[o].state # "unused" => ops'[o].state # "unused"
        /\ \A t \in Sender : Precede({seen[t]} \cup Keys(toPage, Tunes(t)) \cup Members(onReady[t]), {NextOp})
    BY <1>1, <2>1, NewCallOrder
  <2>3. /\ onReady'[s] = Append(onReady[s], NextOp) /\ onReady[s] \in Seq(Op) /\ Op \subseteq Nat
        /\ \A t \in Sender : t # s => onReady'[t] = onReady[t]
    BY <1>3 DEF TypeInv, TypeOK, Op
  <2>4. Members(onReady'[s]) = Members(onReady[s]) \cup {NextOp}
    BY <2>2, <2>3, AppendMembers
  <2>5. Increases(onReady'[s])
    <3>1. Increases(onReady[s]) /\ Precede(Members(onReady[s]), {NextOp})
      BY <2>2 DEF Ordered, Precede
    <3>2. QED
      BY <2>2, <2>3, <3>1, AppendIncreases
  <2>6. ASSUME NEW t \in Sender
        PROVE  /\ Rises(toPage', Tunes(t)') /\ Increases(onReady'[t])
               /\ Precede({seen[t]}, Keys(toPage', Tunes(t)') \cup Members(onReady'[t]))
               /\ t \in ready => Members(onReady'[t]) = {}
    <3>1. Keys(toPage', Tunes(t)') = Keys(toPage, Tunes(t)) /\ Rises(toPage', Tunes(t)')
      BY <1>3, <2>2, SameTunes DEF Ordered
    <3>2. CASE t = s
      <4>1. Precede({seen[t]}, Keys(toPage, Tunes(t)) \cup Members(onReady[t])) /\ Precede({seen[t]}, {NextOp})
        BY <2>2 DEF Ordered, Precede
      <4>2. QED
        BY <1>3, <2>4, <2>5, <3>1, <3>2, <4>1 DEF Precede
    <3>3. CASE t # s
      BY <2>3, <3>1, <3>3 DEF Ordered
    <3>4. QED
      BY <3>2, <3>3
  <2>7. QED
    BY <1>1, <2>2, <2>6 DEF Ordered
<1>4. QED
  BY <1>2, <1>3 DEF SetParameters

LEMMA AppOrder == ASSUME TypeInv, Ordered, App PROVE Ordered'
<1>1. ASSUME NEW call \in Kinds, call.kind # "setParameters", Negotiate(call) PROVE Ordered'
  BY <1>1, AskOrder DEF Negotiate, page
<1>2. ASSUME NEW null \in BOOLEAN, AddIceCandidate(null) PROVE Ordered'
  <2> DEFINE call == [kind |-> "addIceCandidate", arg |-> Nil]
             Answer(st) == [call |-> call, state |-> st]
  <2>1. call \in Kinds /\ call.kind # "setParameters"
    BY DEF Kinds
  <2>2. Fresh # {} /\ UNCHANGED <<onReady, ready, seen>>
    BY <1>2 DEF AddIceCandidate, page
  <2>3. \A st \in {"resolved", "rejected"} : Answer(st).state # "unused"
    OBVIOUS
  <2>4. CASE ops' = Start(call) /\ toPage' = Append(toPage, Script("op", NextOp))
    BY <2>1, <2>2, <2>4, AskOrder
  <2> HIDE DEF call, Answer
  <2>5. CASE (\E st \in {"resolved", "rejected"} : ops' = [ops EXCEPT ![NextOp] = Answer(st)]) /\ UNCHANGED toPage
    BY <2>2, <2>3, <2>5, AtOnceOrder
  <2>6. QED
    BY <1>2, <2>4, <2>5 DEF AddIceCandidate, call, Answer
<1>3. ASSUME NEW t \in Tracks, AddTrack(t) PROVE Ordered'
  <2>1. Script("addTrack", NewSender) \in Scripts /\ Script("addTrack", NewSender).script = "addTrack"
    BY <1>3, NewSenderType, ScriptTypes DEF AddTrack
  <2>2. toPage' = Append(toPage, Script("addTrack", NewSender)) /\ UNCHANGED <<ops, onReady, ready, seen>>
    BY <1>3 DEF AddTrack, page
  <2>3. QED
    BY <2>1, <2>2, OtherScriptOrder
<1>4. ASSUME NEW s \in Sender, RemoveTrack(s) PROVE Ordered'
  <2>1. Script("removeTrack", track[s]) \in Scripts /\ Script("removeTrack", track[s]).script = "removeTrack"
    BY <1>4, ScriptTypes DEF RemoveTrack, TypeInv, TypeOK
  <2>2. toPage' = Append(toPage, Script("removeTrack", track[s])) /\ UNCHANGED <<ops, onReady, ready, seen>>
    BY <1>4 DEF RemoveTrack, page
  <2>3. QED
    BY <2>1, <2>2, OtherScriptOrder
<1>5. CASE Close
  <2>1. Script("close", Nil) \in Scripts /\ Script("close", Nil).script = "close"
    BY ScriptTypes
  <2>2. toPage' = Append(toPage, Script("close", Nil)) /\ UNCHANGED <<ops, onReady, ready, seen>>
    BY <1>5 DEF Close, page
  <2>3. QED
    BY <2>1, <2>2, OtherScriptOrder
<1>6. ASSUME NEW kind \in {"createOffer", "createAnswer"}
      PROVE  [kind |-> kind, arg |-> Nil] \in Kinds /\ [kind |-> kind, arg |-> Nil].kind # "setParameters"
  BY DEF Kinds
<1>7. ASSUME NEW kind \in {"setLocalDescription", "setRemoteDescription"}, NEW d \in Descs
      PROVE  [kind |-> kind, arg |-> d] \in Kinds /\ [kind |-> kind, arg |-> d].kind # "setParameters"
  BY DEF Kinds
<1>8. QED
  BY <1>1, <1>2, <1>3, <1>4, <1>5, <1>6, <1>7, SetParametersOrder DEF App

(* The order through the callbacks: those that waited follow in theirs.     *)
LEMMA JavaOrder == ASSUME TypeInv, Ordered, JavaStep PROVE Ordered'
<1> DEFINE m == Head(toJava)
<1>1. toJava # <<>> /\ m \in Messages /\ UNCHANGED seen
  BY QueueTypes, TailMembers DEF TypeInv, JavaStep, page
<1> HIDE DEF m
<1>2. ASSUME m.msg \in {"done", "tuned"}, ops' = Finish(m.op, m.ok), UNCHANGED <<toPage, onReady, ready>> PROVE Ordered'
  <2>1. m.op \in Op /\ ops[m.op].state = "pending" /\ m.ok \in BOOLEAN
    BY <1>1, <1>2, AnsweredCall, MessageFields DEF m
  <2>2. /\ \A o \in Op : ops'[o].call = ops[o].call /\ (ops'[o].state = "unused" <=> ops[o].state = "unused")
    BY <1>2, <2>1, FinishCall DEF TypeInv
  <2>3. Asked \subseteq Op
    BY DEF TypeInv, Apart, Pending
  <2>4. QED
    BY <1>1, <1>2, <2>2, <2>3, OrderStays
<1>3. CASE m.msg = "event" /\ OnEvent(m)
  BY <1>1, <1>3, OrderStays DEF OnEvent
<1>4. CASE m.msg = "sender" /\ OnSender(m)
  <2> DEFINE s == m.sender
             q == onReady[s]
             r == [i \in DOMAIN q |-> Script("op", q[i])]
  <2>1. s \in Sender /\ q \in Seq(Op) /\ toPage \in Seq(Scripts)
    BY <1>1, <1>4, MessageFields, QueueTypes DEF TypeInv
  <2>2. /\ onReady' = [onReady EXCEPT ![s] = <<>>] /\ toPage' = toPage \o r /\ ready' = ready \cup {s}
        /\ UNCHANGED ops
    BY <1>4 DEF OnSender
  <2>3. /\ r \in Seq(Scripts) /\ DOMAIN r = DOMAIN q
        /\ \A i \in DOMAIN q : r[i] \in Scripts /\ r[i].script = "op" /\ r[i].arg = q[i]
    BY <2>1, Replayed
  <2>4. \A i \in DOMAIN q : Tuning(q[i]) /\ ops[q[i]].call.arg = s
    BY <2>1 DEF TypeInv, Kept, Members
  <2>5. /\ onReady'[s] = <<>> /\ \A t \in Sender : t # s => onReady'[t] = onReady[t]
    BY <2>1, <2>2 DEF TypeInv, TypeOK
  <2>6. Increases(q) /\ Precede({seen[s]}, Keys(toPage, Tunes(s)) \cup Members(q)) /\ (s \in ready => Members(q) = {})
    BY <2>1 DEF Ordered
  <2>7. Keys(toPage, Tunes(s)) = {} \/ s \in ready
    BY <2>1, TunesAreAsked
  <2> HIDE DEF r, q, s
  <2>8. \A i \in DOMAIN q : r[i] \in DOMAIN Tunes(s) /\ Tunes(s)[r[i]] = q[i]
    BY <2>1, <2>3, <2>4, TunesOf
  <2>9. Keys(r, Tunes(s)) = Members(q) /\ Rises(r, Tunes(s))
    <3>1. Keys(r, Tunes(s)) = Members(q)
      BY <2>3, <2>8 DEF Keys, Members
    <3>2. Rises(r, Tunes(s))
      BY <2>3, <2>6, <2>8 DEF Rises, Increases
    <3>3. QED
      BY <3>1, <3>2
  <2>10. ASSUME NEW t \in Sender, t # s PROVE Keys(r, Tunes(t)) = {} /\ Rises(r, Tunes(t))
    <3>1. \A i \in DOMAIN q : r[i] \notin DOMAIN Tunes(t)
      BY <2>3, <2>4, <2>10, TunesOf
    <3>2. QED
      BY <2>3, <3>1 DEF Keys, Members, Rises
  <2>11. ASSUME NEW t \in Sender
         PROVE  /\ Keys(toPage', Tunes(t)) = Keys(toPage, Tunes(t)) \cup Keys(r, Tunes(t))
                /\ Rises(r, Tunes(t)) /\ Precede(Keys(toPage, Tunes(t)), Keys(r, Tunes(t))) => Rises(toPage', Tunes(t))
    <3> DEFINE f == Tunes(t)
    <3>1. Rises(toPage, f)
      BY DEF Ordered
    <3> HIDE DEF f
    <3>2. Keys(toPage \o r, f) = Keys(toPage, f) \cup Keys(r, f)
      BY <2>1, <2>3, ConcatKeys
    <3>3. Rises(r, f) /\ Precede(Keys(toPage, f), Keys(r, f)) => Rises(toPage \o r, f)
      BY <2>1, <2>3, <3>1, ConcatRises
    <3>4. QED
      BY <2>2, <3>2, <3>3 DEF f
  <2>12. ASSUME NEW t \in Sender
         PROVE  /\ Rises(toPage', Tunes(t)) /\ Increases(onReady'[t])
                /\ Precede({seen[t]}, Keys(toPage', Tunes(t)) \cup Members(onReady'[t]))
                /\ t \in ready' => Members(onReady'[t]) = {}
    <3>1. CASE t = s
      <4>1. Members(onReady'[s]) = {} /\ Increases(onReady'[s])
        BY <2>5, EmptyQueue
      <4>2. Precede(Keys(toPage, Tunes(s)), Keys(r, Tunes(s)))
        BY <2>6, <2>7, <2>9 DEF Precede
      <4>3. QED
        BY <2>1, <2>6, <2>9, <2>11, <3>1, <4>1, <4>2
    <3>2. CASE t # s
      <4>1. Precede(Keys(toPage, Tunes(t)), Keys(r, Tunes(t)))
        BY <2>10, <3>2 DEF Precede
      <4>2. QED
        BY <2>2, <2>5, <2>10, <2>11, <3>2, <4>1 DEF Ordered
    <3>3. QED
      BY <3>1, <3>2
  <2>13. \A t \in Sender : Tunes(t)' = Tunes(t)
    BY <2>2 DEF Tunes, Tuning
  <2>14. QED
    BY <1>1, <2>2, <2>12, <2>13 DEF Ordered
<1>5. QED
  BY <1>2, <1>3, <1>4 DEF JavaStep, OnDone, OnTuned, m

(* The order through the page, which gets each call after the last one.     *)
LEMMA PageOrder ==
  ASSUME TypeInv, Ordered, PageStep
  PROVE  Ordered' /\ \A s \in Sender : seen'[s] >= seen[s]
<1> DEFINE m == Head(toPage)
           o == m.arg
<1>1. /\ toPage # <<>> /\ toPage' = Tail(toPage) /\ UNCHANGED <<ops, onReady, ready>>
      /\ toPage \in Seq(Scripts) /\ m \in Scripts
  BY QueueTypes, TailMembers DEF TypeInv, PageStep, java
<1>2. \A s \in Sender : Tunes(s)' = Tunes(s)
  BY <1>1 DEF Tunes, Tuning
<1>3. seen \in [Sender -> 0 .. NOps] /\ NOps \in Nat
  BY PeerAssumption DEF TypeInv, TypeOK
<1> HIDE DEF m
<1>4. ASSUME NEW s \in Sender
      PROVE  /\ Rises(toPage', Tunes(s))
             /\ Keys(toPage, Tunes(s)) = IF m \in DOMAIN Tunes(s) THEN Keys(toPage', Tunes(s)) \cup {Tunes(s)[m]}
                                         ELSE Keys(toPage', Tunes(s))
             /\ m \in DOMAIN Tunes(s) => Precede({Tunes(s)[m]}, Keys(toPage', Tunes(s)))
  <2> DEFINE f == Tunes(s)
  <2>1. Rises(toPage, f)
    BY DEF Ordered
  <2> HIDE DEF f
  <2>2. Keys(toPage, f) = IF m \in DOMAIN f THEN Keys(toPage', f) \cup {f[m]} ELSE Keys(toPage', f)
    BY <1>1, TailKeys DEF m
  <2>3. Rises(toPage', f) /\ (m \in DOMAIN f => Precede({f[m]}, Keys(toPage', f)))
    BY <1>1, <2>1, TailRises DEF m
  <2>4. QED
    BY <2>2, <2>3 DEF f
<1>5. CASE UNCHANGED seen
  <2>1. ASSUME NEW s \in Sender
        PROVE  Precede({seen[s]}, Keys(toPage', Tunes(s)) \cup Members(onReady[s]))
    BY <1>4 DEF Ordered, Precede
  <2>2. Ordered'
    BY <1>1, <1>2, <1>4, <1>5, <2>1 DEF Ordered
  <2>3. \A s \in Sender : seen'[s] >= seen[s]
    BY <1>3, <1>5
  <2>4. QED
    BY <2>2, <2>3
<1>6. CASE m.script = "op" /\ Tuning(o) /\ seen' = [seen EXCEPT ![ops[o].call.arg] = o]
  <2> DEFINE t == ops[o].call.arg
  <2>1. o \in Op /\ o \in Asked
    BY <1>1, <1>6, TakeScript DEF TypeInv, m
  <2>2. o \in Pending /\ ops[o].state # "unused" /\ t \in ready
    BY <1>6, <2>1 DEF TypeInv, Apart, Kept, Pending
  <2>3. t \in Sender
    BY <2>2 DEF TypeInv, TypeOK
  <2>4. m \in DOMAIN Tunes(t) /\ Tunes(t)[m] = o
    BY <1>1, <1>6, <2>3, TunesOf
  <2> HIDE DEF o, t
  <2>5. seen'[t] = o /\ \A s \in Sender : s # t => seen'[s] = seen[s]
    BY <1>3, <1>6, <2>3 DEF t
  <2>6. seen[t] < o /\ seen[t] \in Nat /\ o \in Nat
    <3>1. o \in Keys(toPage, Tunes(t))
      BY <1>4, <2>3, <2>4
    <3>2. QED
      BY <1>3, <2>1, <2>3, <3>1 DEF Ordered, Precede, Op
  <2>7. \A s \in Sender : seen'[s] >= seen[s]
    BY <1>3, <2>5, <2>6
  <2>8. ASSUME NEW s \in Sender
        PROVE  /\ Precede({seen'[s]}, Keys(toPage', Tunes(s)) \cup Members(onReady[s]))
               /\ seen'[s] # 0 => seen'[s] \in Op /\ ops[seen'[s]].state # "unused"
    <3>1. CASE s = t
      <4>1. Members(onReady[s]) = {}
        BY <2>2, <3>1 DEF Ordered
      <4>2. Precede({o}, Keys(toPage', Tunes(s)))
        BY <1>4, <2>4, <3>1
      <4>3. QED
        BY <2>1, <2>2, <2>5, <3>1, <4>1, <4>2
    <3>2. CASE s # t
      BY <1>4, <2>5, <3>2 DEF Ordered, Precede
    <3>3. QED
      BY <3>1, <3>2
  <2>9. Ordered'
    BY <1>1, <1>2, <1>4, <2>8 DEF Ordered
  <2>10. QED
    BY <2>7, <2>9
<1>7. UNCHANGED seen \/ (m.script = "op" /\ Tuning(o) /\ seen' = [seen EXCEPT ![ops[o].call.arg] = o])
  BY DEF PageStep, PageQuery, PageOp, PageAddTrack, PageRemoveTrack, PageClose, page, m, Tuning
<1>8. QED
  BY <1>5, <1>6, <1>7

LEMMA NextOrder ==
  TypeInv /\ Ordered /\ [Next]_vars => Ordered' /\ \A s \in Sender : seen'[s] >= seen[s]
<1> SUFFICES ASSUME TypeInv, Ordered, [Next]_vars PROVE Ordered' /\ \A s \in Sender : seen'[s] >= seen[s]
  OBVIOUS
<1>1. UNCHANGED seen => \A s \in Sender : seen'[s] >= seen[s]
  BY PeerAssumption DEF TypeInv, TypeOK
<1>2. CASE App
  <2>1. UNCHANGED seen
    BY <1>2 DEF App, Negotiate, AddIceCandidate, AddTrack, RemoveTrack, SetParameters, Close, page
  <2>2. QED
    BY <1>1, <1>2, <2>1, AppOrder
<1>3. CASE JavaStep
  <2>1. UNCHANGED seen
    BY <1>3 DEF JavaStep, page
  <2>2. QED
    BY <1>1, <1>3, <2>1, JavaOrder
<1>4. CASE PageStep
  BY <1>4, PageOrder
<1>5. CASE ChainEnds \/ (\E o \in Op : TuningEnds(o)) \/ (\E c \in ConnStates : ConnectionChanges(c)) \/ OtherEvent
           \/ UNCHANGED vars
  <2>1. UNCHANGED <<ops, toPage, onReady, ready, seen>>
    BY <1>5 DEF ChainEnds, TuningEnds, ConnectionChanges, OtherEvent, vars, java, page
  <2>2. QED
    BY <1>1, <2>1, OrderStays
<1>6. QED
  BY <1>2, <1>3, <1>4, <1>5 DEF Next, Page

LEMMA InitOrder == Init => Ordered
<1> SUFFICES ASSUME Init PROVE Ordered
  OBVIOUS
<1>1. toPage = <<Script("query", Nil)>> /\ Script("query", Nil) \in Scripts /\ Script("query", Nil).script = "query"
  BY ScriptTypes DEF Init
<1>2. toPage \in Seq(Scripts) /\ Members(toPage) = {Script("query", Nil)}
  BY <1>1, OneMember
<1>3. ASSUME NEW s \in Sender PROVE Keys(toPage, Tunes(s)) = {} /\ Rises(toPage, Tunes(s))
  <2>1. Script("query", Nil) \notin DOMAIN Tunes(s)
    BY <1>1, TunesOf
  <2>2. \A i \in DOMAIN toPage : toPage[i] = Script("query", Nil)
    BY <1>2 DEF Members
  <2>3. QED
    BY <1>2, <2>1, <2>2 DEF Keys, Rises
<1>4. \A s \in Sender : onReady[s] = <<>> /\ seen[s] = 0
  BY DEF Init
<1>5. \A s \in Sender : Members(onReady[s]) = {} /\ Increases(onReady[s])
  BY <1>4, EmptyQueue
<1>6. QED
  BY <1>3, <1>4, <1>5 DEF Ordered, Precede

LEMMA AlwaysOrdered == Spec => []Ordered
<1>1. QED
  BY InitOrder, NextOrder, AlwaysTypeInv, PTL DEF Spec

(* The page gets the setParameters calls of a sender in the order in which  *)
(* the application made them: fireReady sends those that waited before the  *)
(* callback of addTrack lets any other overtake them.                       *)
THEOREM ParametersKeepOrder == Spec => ParametersInOrder
<1>1. TypeInv /\ Ordered /\ [Next]_vars => [\A s \in Sender : seen'[s] >= seen[s]]_seen
  BY NextOrder
<1>2. QED
  BY <1>1, AlwaysTypeInv, AlwaysOrdered, PTL DEF Spec, ParametersInOrder
=============================================================================
