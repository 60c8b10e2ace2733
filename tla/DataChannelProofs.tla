------------------------- MODULE DataChannelProofs -------------------------
(***************************************************************************)
(* Proofs about DataChannel for every number of messages.                  *)
(***************************************************************************)
EXTENDS DataChannel, QueueProofs

Calls      == {Op(o) : o \in {"create", "listen"}} \cup {SendOp(n) : n \in 1 .. NSends}
              \cup {CloseOp(n) : n \in 0 .. NSends}
Events     == StateEvents \cup MessageEvents
PageEvents == Events \cup [type : {"new", "channel"}, state : States]
Tasks      == [event : Events, heard : BOOLEAN]

LEMMA CallRecords ==
  /\ \A o \in {"create", "listen"} : Op(o) \in Calls /\ Op(o).type = o
  /\ \A n \in 1 .. NSends : SendOp(n) \in Calls /\ SendOp(n).type = "send" /\ SendOp(n).number = n
  /\ \A n \in 0 .. NSends : /\ CloseOp(n) \in Calls
                            /\ CloseOp(n).type = "close" /\ CloseOp(n).number = n
  /\ \A c \in Calls : /\ c.type \in {"create", "listen", "close", "send"}
                      /\ c.type = "send" => c.number \in 1 .. NSends
                      /\ c.type = "close" => c.number \in 0 .. NSends
<1>1. \A o \in {"create", "listen"} : Op(o) \in Calls /\ Op(o).type = o
  BY DEF Calls, Op
<1>2. \A n \in 1 .. NSends : /\ SendOp(n) \in Calls /\ SendOp(n).type = "send"
                             /\ SendOp(n).number = n
  BY DEF Calls, SendOp
<1>3. \A n \in 0 .. NSends : /\ CloseOp(n) \in Calls
                             /\ CloseOp(n).type = "close" /\ CloseOp(n).number = n
  BY DEF Calls, CloseOp
<1>4. \A c \in Calls : (\E o \in {"create", "listen"} : c = Op(o))
                       \/ (\E n \in 1 .. NSends : c = SendOp(n))
                       \/ \E n \in 0 .. NSends : c = CloseOp(n)
  BY DEF Calls
<1>5. QED
  BY <1>1, <1>2, <1>3, <1>4

LEMMA EventRecords ==
  /\ \A s \in States : State(s) \in StateEvents /\ State(s).type = "state" /\ State(s).state = s
  /\ \A n \in 1 .. NMessages : /\ Message(n) \in MessageEvents
                               /\ Message(n).type = "message" /\ Message(n).number = n
  /\ \A m \in StateEvents : m.type = "state" /\ m.state \in States
  /\ \A m \in MessageEvents : m.type = "message" /\ m.number \in 1 .. NMessages
BY DEF StateEvents, MessageEvents, State, Message

LEMMA Records ==
  /\ StateEvents \subseteq Events /\ MessageEvents \subseteq Events /\ Events \subseteq PageEvents
  /\ \A s \in States : /\ State(s) \in Events /\ State(s) \in PageEvents
                       /\ State(s).type = "state" /\ State(s).state = s
  /\ \A n \in 1 .. NMessages : /\ Message(n) \in Events
                               /\ Message(n).type = "message" /\ Message(n).number = n
  /\ \A s \in States, t \in {"new", "channel"} : [type |-> t, state |-> s] \in PageEvents
  /\ \A m \in PageEvents :
       /\ m.type \in {"state", "message", "new", "channel"}
       /\ m.type = "message" => m.number \in 1 .. NMessages
       /\ m.type # "message" => m.state \in States
  /\ \A m \in Events : /\ m.type = "state" => m \in StateEvents
                       /\ m.type = "message" => m \in MessageEvents
                       /\ m.type \in {"state", "message"}
BY EventRecords DEF Events, PageEvents

(***************************************************************************)
(* Types.  run() finds a state to report because createDataChannel of      *)
(* WebRTC has returned a channel before.                                   *)
(***************************************************************************)
Steps ==
  /\ step \in {"announce", "attach", "test", "report"} => state # "none"
  /\ step = "report" => replay # <<>>

TypeInv == TypeOK /\ Steps

LEMMA Types ==
  ASSUME TypeInv
  PROVE  /\ received \in BOOLEAN /\ readyState \in States \cup {"none"}
         /\ delivered \in Seq(1 .. NMessages) /\ sent \in 0 .. NSends
         /\ calls \in Seq(Calls) /\ toPage \in Seq(PageEvents) /\ replay \in Seq(Events)
         /\ listed \in BOOLEAN /\ attached \in BOOLEAN /\ listener \in BOOLEAN
         /\ lostStates \in Seq(StateEvents) /\ lostMessages \in Seq(MessageEvents)
         /\ lostStates \in Seq(Events) /\ lostMessages \in Seq(Events)
         /\ state \in States \cup {"none"}
         /\ task = <<>> \/ \E t \in Tasks : task = <<t>>
         /\ incoming \in 0 .. NMessages /\ missed \in 0 .. incoming
         /\ outgoing \in Seq(1 .. NSends)
         /\ NMessages \in Nat /\ NSends \in Nat
<1>1. \A q \in Seq(StateEvents) \cup Seq(MessageEvents) : q \in Seq(Events)
  <2>1. ASSUME NEW S, S \subseteq Events, NEW q \in Seq(S) PROVE q \in Seq(Events)
    BY <2>1, SeqMonotonic
  <2>2. QED
    BY <2>1 DEF Events
<1>2. QED
  BY <1>1, ChannelAssumption
  DEF TypeInv, TypeOK, Calls, Events, PageEvents, Tasks

LEMMA HeadTask ==
  ASSUME TypeInv, task # <<>>
  PROVE  /\ Head(task).event \in Events /\ Head(task).heard \in BOOLEAN
         /\ task = <<Head(task)>> /\ Members(task) = {Head(task)}
<1>1. PICK t \in Tasks : task = <<t>>
  BY Types
<1>2. Head(task) = t /\ t.event \in Events /\ t.heard \in BOOLEAN
  BY <1>1 DEF Tasks
<1>3. DOMAIN task = {1} /\ task[1] = t
  BY <1>1
<1>4. QED
  BY <1>1, <1>2, <1>3 DEF Members

LEMMA InitType == Init => TypeInv
<1> SUFFICES ASSUME Init PROVE TypeInv
  OBVIOUS
<1>1. \A S : <<>> \in Seq(S)
  BY EmptySeq
<1>2. Op("create") \in Calls /\ <<Op("create")>> \in Seq(Calls)
  BY CallRecords
<1>3. ASSUME NEW s \in {"connecting", "open"}
      PROVE  /\ <<[type |-> "channel", state |-> s]>> \in Seq(PageEvents)
             /\ <<State("open")>> \in Seq(StateEvents)
  BY EventRecords, Records DEF States
<1>4. /\ calls \in Seq(Calls) /\ toPage \in Seq(PageEvents) /\ lostStates \in Seq(StateEvents)
      /\ replay \in Seq(Events) /\ delivered \in Seq(1 .. NMessages)
      /\ lostMessages \in Seq(MessageEvents) /\ outgoing \in Seq(1 .. NSends)
  BY <1>1, <1>2, <1>3 DEF Init
<1>6. TypeOK
  <2>1. /\ received \in BOOLEAN /\ readyState \in States \cup {"none"}
        /\ listed \in BOOLEAN /\ attached \in BOOLEAN /\ state \in States \cup {"none"}
    BY DEF Init, States
  <2>2. sent \in 0 .. NSends /\ incoming \in 0 .. NMessages /\ missed \in 0 .. incoming
    BY ChannelAssumption DEF Init
  <2>3. step = "idle" /\ listener = FALSE /\ task = <<>>
    BY DEF Init
  <2>4. QED
    BY <1>4, <2>1, <2>2, <2>3 DEF TypeOK, Calls, Events, PageEvents
<1>5. QED
  BY <1>6 DEF TypeInv, Steps, Init

LEMMA NextType == TypeInv /\ [Next]_vars => TypeInv'
<1> SUFFICES ASSUME TypeInv, [Next]_vars PROVE TypeInv'
  OBVIOUS
<1> USE DEF page, queue, lost, webrtc
<1>1. CASE UNCHANGED vars
  BY <1>1 DEF vars, TypeInv, TypeOK, Steps
<1>2. CASE PageSend
  <2>1. sent + 1 \in 1 .. NSends /\ sent' = sent + 1
    BY <1>2, Types DEF PageSend
  <2>2. calls' \in Seq(Calls)
    BY <1>2, <2>1, Types, CallRecords, AppendMembers DEF PageSend
  <2>3. QED
    BY <1>2, <2>1, <2>2 DEF PageSend, TypeInv, TypeOK, Steps, Calls
<1>3. CASE PageClose
  <2>1. CloseOp(sent) \in Calls
    BY Types, CallRecords
  <2>2. calls' \in Seq(Calls)
    BY <1>3, <2>1, Types, AppendMembers DEF PageClose
  <2>3. QED
    BY <1>3, <2>2 DEF PageClose, TypeInv, TypeOK, Steps, Calls, States
<1>4. CASE PageEvent
  <2> DEFINE m == Head(toPage)
  <2>1. m \in PageEvents /\ toPage' \in Seq(PageEvents)
    BY <1>4, Types, TailMembers DEF PageEvent
  <2>2. \/ m.type = "message" /\ delivered' = Append(delivered, m.number) /\ UNCHANGED <<readyState, calls>>
        \/ /\ m.type # "message" /\ readyState' = m.state /\ UNCHANGED delivered
           /\ calls' = calls \/ calls' = Append(calls, Op("listen"))
    BY <1>4 DEF PageEvent
  <2> HIDE DEF m
  <2>3. /\ delivered' \in Seq(1 .. NMessages) /\ readyState' \in States \cup {"none"}
        /\ calls' \in Seq(Calls)
    <3>1. calls \in Seq(Calls) /\ Op("listen") \in Calls /\ delivered \in Seq(1 .. NMessages)
      BY Types, CallRecords
    <3>2. calls' \in Seq(Calls)
      BY <2>2, <3>1, MayAppend
    <3>3. m.type = "message" => m.number \in 1 .. NMessages
      BY <2>1, Records
    <3>4. delivered' \in Seq(1 .. NMessages)
      <4>1. CASE UNCHANGED delivered
        BY <3>1, <4>1
      <4>2. CASE m.number \in 1 .. NMessages /\ delivered' = Append(delivered, m.number)
        BY <3>1, <4>2, AppendMembers
      <4>3. QED
        BY <2>2, <3>3, <4>1, <4>2
    <3>5. readyState' \in States \cup {"none"}
      BY <2>1, <2>2, Types, Records
    <3>6. QED
      BY <3>2, <3>4, <3>5
  <2>4. QED
    BY <1>4, <2>1, <2>3 DEF PageEvent, TypeInv, TypeOK, Steps, Calls, Events, PageEvents
<1>5. ASSUME NEW o, Begin(o) PROVE calls' \in Seq(Calls) /\ Head(calls) \in Calls /\ step = "idle"
  BY <1>5, Types, TailMembers DEF Begin
<1>6. CASE Create
  <2>1. calls' \in Seq(Calls) /\ step = "idle"
    BY <1>5, <1>6 DEF Create
  <2>2. QED
    BY <1>6, <2>1 DEF Create, TypeInv, TypeOK, Steps, Calls, States
<1>21. CASE CreateFails
  BY <1>5, <1>21 DEF CreateFails, TypeInv, TypeOK, Steps, Calls
<1>22. CASE Announce
  <2>1. [type |-> "new", state |-> state] \in PageEvents
    BY <1>22, Types, Records DEF Announce, TypeInv, Steps
  <2>2. toPage' \in Seq(PageEvents)
    BY <1>22, <2>1, Types, AppendMembers DEF Announce, Emit
  <2>3. QED
    BY <1>22, <2>2 DEF Announce, TypeInv, TypeOK, Steps, Events, PageEvents
<1>7. CASE Attach
  BY <1>7 DEF Attach, TypeInv, TypeOK, Steps
<1>8. CASE TestState
  <2>1. state # "connecting" => <<State(state)>> \in Seq(Events) /\ <<State(state)>> # <<>>
    <3>1. state \in States
      BY <1>8, Types DEF TestState, TypeInv, Steps
    <3>2. State(state) \in Events
      BY <3>1, Records
    <3>3. QED
      BY <3>2
  <2>2. QED
    BY <1>8, <2>1 DEF TestState, TypeInv, TypeOK, Steps, Events
<1>9. CASE ReportState
  <2>1. toPage' \in Seq(PageEvents)
    BY <1>9, Types, Records, TailMembers, AppendMembers DEF ReportState, Emit, TypeInv, Steps
  <2>2. QED
    BY <1>9, <2>1, EmptySeq DEF ReportState, TypeInv, TypeOK, Steps, Events, PageEvents
<1>10. CASE SetListener
  <2>1. calls' \in Seq(Calls) /\ replay' \in Seq(Events)
    BY <1>5, <1>10, Types DEF SetListener
  <2>2. QED
    BY <1>10, <2>1 DEF SetListener, TypeInv, TypeOK, Steps, Events, Calls
<1>11. CASE Replay
  <2>1. toPage' \in Seq(PageEvents) /\ replay' \in Seq(Events)
    BY <1>11, Types, Records, TailMembers, AppendMembers DEF Replay, Emit
  <2>2. QED
    BY <1>11, <2>1 DEF Replay, TypeInv, TypeOK, Steps, Events, PageEvents
<1>12. CASE ClearStates
  BY <1>12, Types, EmptySeq DEF ClearStates, TypeInv, TypeOK, Steps, Events
<1>13. CASE ClearMessages
  BY <1>13, EmptySeq DEF ClearMessages, TypeInv, TypeOK, Steps
<1>14. CASE Send
  <2>1. calls' \in Seq(Calls) /\ Head(calls) \in Calls /\ Head(calls).type = "send"
    BY <1>5, <1>14 DEF Send, Begin
  <2>2. outgoing' \in Seq(1 .. NSends)
    BY <1>14, <2>1, Types, CallRecords, AppendMembers DEF Send
  <2>3. QED
    BY <1>14, <2>1, <2>2 DEF Send, TypeInv, TypeOK, Steps, Calls
<1>15. CASE Close
  <2>1. calls' \in Seq(Calls) /\ step = "idle"
    BY <1>5, <1>15 DEF Close
  <2>2. toPage' \in Seq(PageEvents)
    <3>1. toPage' = toPage \/ toPage' = Append(toPage, State("closing"))
      BY <1>15 DEF Close, Emit
    <3>2. State("closing") \in PageEvents /\ toPage \in Seq(PageEvents)
      BY Types, Records DEF States
    <3>3. QED
      BY <3>1, <3>2, MayAppend
  <2>3. state' \in States \cup {"none"}
    BY <1>15, Types DEF Close, States
  <2>4. QED
    BY <1>15, <2>1, <2>2, <2>3 DEF Close, TypeInv, TypeOK, Steps, Calls, Events, PageEvents
<1>16. ASSUME NEW m \in Events, Tell(m) PROVE task' = <<>> \/ \E t \in Tasks : task' = <<t>>
  <2>1. [event |-> m, heard |-> listener] \in Tasks
    BY Types DEF Tasks
  <2>2. QED
    BY <1>16, <2>1 DEF Tell
<1>17. CASE StateChanges
  <2>1. state' \in States /\ state # "none"
    BY <1>17 DEF StateChanges, States
  <2>2. task' = <<>> \/ \E t \in Tasks : task' = <<t>>
    BY <1>16, <1>17, <2>1, Records DEF StateChanges
  <2>3. QED
    BY <1>17, <2>1, <2>2 DEF StateChanges, TypeInv, TypeOK, Steps, Tasks, Events, States
<1>18. CASE MessageArrives
  <2>1. incoming' \in 1 .. NMessages /\ incoming' \in 0 .. NMessages /\ missed' \in 0 .. incoming'
    BY <1>18, Types DEF MessageArrives
  <2>2. task' = <<>> \/ \E t \in Tasks : task' = <<t>>
    BY <1>16, <1>18, <2>1, Records DEF MessageArrives
  <2>3. QED
    BY <1>18, <2>1, <2>2 DEF MessageArrives, TypeInv, TypeOK, Steps, Tasks, Events
<1>19. CASE DelegateActs
  <2> DEFINE m == Head(task).event
  <2>1. m \in Events
    BY <1>19, HeadTask DEF DelegateActs
  <2>2. /\ task' = <<>>
        /\ \/ Emit(m) /\ UNCHANGED lost
           \/ m.type = "state" /\ lostStates' = Append(lostStates, m) /\ UNCHANGED <<toPage, lostMessages>>
           \/ m.type = "message" /\ lostMessages' = Append(lostMessages, m) /\ UNCHANGED <<toPage, lostStates>>
        /\ UNCHANGED <<received, page, calls, queue, state, webrtc>>
    BY <1>19 DEF DelegateActs
  <2> HIDE DEF m
  <2>3. /\ toPage' \in Seq(PageEvents) /\ lostStates' \in Seq(StateEvents)
        /\ lostMessages' \in Seq(MessageEvents)
    <3>1. /\ m \in PageEvents /\ (m.type = "state" => m \in StateEvents)
          /\ (m.type = "message" => m \in MessageEvents)
      BY <2>1, Records
    <3>2. toPage' = toPage \/ toPage' = Append(toPage, m)
      BY <2>2 DEF Emit
    <3>3. toPage' \in Seq(PageEvents)
      BY <3>1, <3>2, Types, MayAppend
    <3>4. lostStates' \in Seq(StateEvents)
      <4>1. CASE UNCHANGED lostStates
        BY <4>1, Types
      <4>2. CASE m \in StateEvents /\ lostStates' = Append(lostStates, m)
        BY <4>2, Types, AppendMembers
      <4>3. QED
        BY <2>2, <3>1, <4>1, <4>2
    <3>5. lostMessages' \in Seq(MessageEvents)
      <4>1. CASE UNCHANGED lostMessages
        BY <4>1, Types
      <4>2. CASE m \in MessageEvents /\ lostMessages' = Append(lostMessages, m)
        BY <4>2, Types, AppendMembers
      <4>3. QED
        BY <2>2, <3>1, <4>1, <4>2
    <3>6. QED
      BY <3>3, <3>4, <3>5
  <2>4. QED
    BY <2>2, <2>3 DEF TypeInv, TypeOK, Steps, Events, PageEvents
<1>20. QED
  BY <1>1, <1>2, <1>3, <1>4, <1>6, <1>7, <1>8, <1>9, <1>10, <1>11, <1>12, <1>13, <1>14, <1>15,
     <1>17, <1>18, <1>19, <1>21, <1>22 DEF Next, QueueStep

LEMMA TypeHolds == Spec => []TypeInv
BY InitType, NextType, PTL DEF Spec

(* The lists and queues between the page and the channel hold what their    *)
(* readers expect, and run() has a state to report.                         *)
THEOREM TypeCorrect == Spec => []TypeOK
<1>1. TypeInv => TypeOK
  BY DEF TypeInv
<1>2. QED
  BY <1>1, TypeHolds, PTL

(***************************************************************************)
(* What the page sends.  It sends nothing before it has heard that the     *)
(* channel is open, and by then the channel has been open; the queue takes *)
(* no call while run() has yet to list a channel.  So until WebRTC closes  *)
(* the channel the messages on their way continue those that went out.     *)
(***************************************************************************)
InOrder(q) ==
  \A i, j \in DOMAIN q :
    i < j /\ q[i].type = "close" /\ q[j].type = "send" => q[i].number < q[j].number

Unbroken ==
  /\ SentWithoutGaps /\ Len(outgoing) <= sent
  /\ Ascends(calls, "send") /\ Numbers(calls, "send") \subseteq 1 .. sent
  /\ \A c \in Members(calls) : c.type = "close" => c.number <= sent

Early      == state \in {"none", "connecting"}
Opening(m) == m.type # "message" /\ m.state = "open"
Quiet(q)   == \A m \in Members(q) : ~ Opening(m)

NotYetOpen ==
  Early => /\ sent = 0 /\ readyState # "open"
           /\ Quiet(toPage) /\ Quiet(lostStates) /\ Quiet(replay)
           /\ \A t \in Members(task) : ~ Opening(t.event)

Listed      == state \in {"connecting", "open"} => listed \/ step \in {"announce", "attach"}
CreateFirst == \A i \in DOMAIN calls : calls[i].type = "create" => i = 1 /\ state = "none"

SentInv == Unbroken /\ NotYetOpen /\ Listed /\ CreateFirst

LEMMA QuietAppend ==
  ASSUME NEW S, NEW q \in Seq(S), NEW e \in S, Quiet(q), ~ Opening(e)
  PROVE  Quiet(Append(q, e))
<1>1. Members(Append(q, e)) = Members(q) \cup {e}
  BY AppendMembers
<1>2. QED
  BY <1>1 DEF Quiet

LEMMA QuietTail ==
  ASSUME NEW S, NEW q \in Seq(S), q # <<>>, Quiet(q)
  PROVE  Quiet(Tail(q)) /\ ~ Opening(Head(q))
BY TailMembers DEF Quiet

(* The call at the head of the queue is taken.                              *)
LEMMA TakeCall ==
  ASSUME TypeInv, Unbroken, CreateFirst, NEW o, Begin(o)
  PROVE  /\ step = "idle" /\ calls' \in Seq(Calls) /\ Head(calls) \in Calls
         /\ Head(calls).type = o /\ calls' = Tail(calls) /\ calls # <<>>
         /\ Ascends(calls', "send") /\ InOrder(calls') /\ Members(calls') \subseteq Members(calls)
         /\ o # "send" => Numbers(calls', "send") = Numbers(calls, "send")
         /\ o = "create" => state = "none"
         /\ \A i \in DOMAIN calls' : calls'[i].type # "create"
<1>1. /\ step = "idle" /\ calls \in Seq(Calls) /\ calls # <<>>
      /\ Head(calls).type = o /\ calls' = Tail(calls)
  BY Types DEF Begin
<1>2. Head(calls) \in Calls /\ calls' \in Seq(Calls)
  BY <1>1, TailMembers
<1>3. Ascends(calls', "send")
  BY <1>1, TailAscends DEF Unbroken
<1>4. o # "send" => Numbers(calls', "send") = Numbers(calls, "send")
  BY <1>1, TailNumbers
<1>5. /\ 1 \in DOMAIN calls /\ Head(calls) = calls[1]
      /\ \A i \in DOMAIN calls' : i \in Nat /\ i + 1 \in DOMAIN calls /\ calls'[i] = calls[i + 1]
      /\ \A i \in DOMAIN calls' : i # 0
  BY <1>1, <1>2, TailPlaces, LenProperties
<1>6. o = "create" => state = "none"
  BY <1>1, <1>5 DEF CreateFirst
<1>7. ASSUME NEW i \in DOMAIN calls' PROVE calls'[i].type # "create"
  <2>1. i + 1 \in DOMAIN calls /\ i + 1 # 1 /\ calls'[i] = calls[i + 1]
    BY <1>5
  <2>2. QED
    BY <2>1 DEF CreateFirst
<1>8. InOrder(calls')
  <2>1. \A i, j \in DOMAIN calls' : i < j => i + 1 < j + 1
    BY <1>5
  <2>2. InOrder(calls)
    BY DEF Unbroken, SentWithoutGaps, InOrder
  <2>3. QED
    BY <1>5, <2>1, <2>2 DEF InOrder
<1>9. Members(calls') \subseteq Members(calls)
  BY <1>1, TailMembers
<1>10. QED
  BY <1>1, <1>2, <1>3, <1>4, <1>6, <1>7, <1>8, <1>9

(* A call that sends nothing is put at the end of the queue.                *)
LEMMA PutCall ==
  ASSUME TypeInv, Unbroken, CreateFirst, NEW c \in Calls, c.type # "create",
         calls' = Append(calls, c), UNCHANGED state,
         c.type = "close" => c.number <= sent, c.type = "send" => sent < c.number
  PROVE  /\ CreateFirst' /\ InOrder(calls')
         /\ \A d \in Members(calls') : d.type = "close" => d.number <= sent
         /\ c.type # "send" => Ascends(calls', "send")
         /\ Numbers(calls', "send") = IF c.type = "send" THEN Numbers(calls, "send") \cup {c.number}
                                      ELSE Numbers(calls, "send")
<1>1. calls \in Seq(Calls)
  BY Types
<1>2. /\ \A i \in DOMAIN calls' : i \in DOMAIN calls \/ i = Len(calls) + 1
      /\ \A i \in DOMAIN calls : calls'[i] = calls[i]
      /\ calls'[Len(calls) + 1] = c
  BY <1>1, AppendPlaces
<1>3. CreateFirst'
  BY <1>2 DEF CreateFirst
<1>4. c.type # "send" => Ascends(calls', "send")
  BY <1>1, AppendAscends DEF Unbroken
<1>5. Numbers(calls', "send") = IF c.type = "send" THEN Numbers(calls, "send") \cup {c.number}
                                ELSE Numbers(calls, "send")
  BY <1>1, AppendNumbers
<1>6. \A d \in Members(calls') : d.type = "close" => d.number <= sent
  BY <1>1, AppendMembers DEF Unbroken
<1>7. InOrder(calls')
  <2>1. ASSUME NEW i \in DOMAIN calls', NEW j \in DOMAIN calls', i < j,
               calls'[i].type = "close", calls'[j].type = "send"
        PROVE  calls'[i].number < calls'[j].number
    <3>1. i \in DOMAIN calls
      BY <1>1, <1>2, <2>1, LenProperties
    <3>2. CASE j \in DOMAIN calls
      BY <1>2, <2>1, <3>1, <3>2 DEF Unbroken, SentWithoutGaps
    <3>3. CASE j = Len(calls) + 1
      <4>1. calls[i] \in Members(calls) /\ calls[i] \in Calls /\ calls[i].type = "close"
        BY <1>1, <1>2, <2>1, <3>1, MembersType DEF Members
      <4>2. calls[i].number <= sent /\ calls[i].number \in Nat /\ sent \in Nat
        BY <4>1, CallRecords, Types DEF Unbroken
      <4>3. calls'[j] = c /\ c.number \in Nat /\ sent < c.number
        BY <1>2, <2>1, <3>3, CallRecords
      <4>4. QED
        BY <1>2, <3>1, <4>2, <4>3
    <3>4. QED
      BY <1>2, <3>2, <3>3
  <2>2. QED
    BY <2>1 DEF InOrder
<1>8. QED
  BY <1>3, <1>4, <1>5, <1>6, <1>7

(* Neither the page nor the channel does anything with a message.           *)
LEMMA KeepsUnbroken ==
  ASSUME TypeInv, Unbroken, UNCHANGED <<outgoing, sent>>,
         Numbers(calls', "send") = Numbers(calls, "send"), Ascends(calls', "send"),
         InOrder(calls'), \A c \in Members(calls') : c.type = "close" => c.number <= sent,
         state' \notin {"closing", "closed"} => state \notin {"closing", "closed"}
  PROVE  Unbroken'
BY DEF Unbroken, SentWithoutGaps, InOrder

LEMMA InitSent == Init => SentInv
<1> SUFFICES ASSUME Init PROVE SentInv
  OBVIOUS
<1>1. outgoing = <<>> /\ Len(outgoing) = 0 /\ sent = 0 /\ DOMAIN outgoing = {} /\ task = <<>>
  BY EmptySeq DEF Init
<1>2. Ascends(calls, "send") /\ Numbers(calls, "send") = {} /\ CreateFirst
      /\ \A c \in Members(calls) : c.type # "close"
  BY DEF Init, Ascends, Numbers, Members, Op, CreateFirst
<1>3. Unbroken
  <2>1. \A i \in DOMAIN calls : calls[i].type # "close"
    BY <1>2 DEF Members
  <2>2. QED
    BY <1>1, <1>2, <2>1 DEF Unbroken, SentWithoutGaps
<1>4. state # "open" => Quiet(toPage) /\ Quiet(lostStates)
  BY DEF Init, Quiet, Opening, Members
<1>5. Quiet(replay) /\ \A t \in Members(task) : ~ Opening(t.event)
  BY EmptyQueue DEF Init, Quiet
<1>6. Early => state # "open"
  BY DEF Init, Early
<1>7. NotYetOpen /\ Listed
  BY <1>1, <1>4, <1>5, <1>6 DEF Init, NotYetOpen, Listed
<1>8. QED
  BY <1>2, <1>3, <1>7 DEF SentInv

LEMMA PageSendSent == TypeInv /\ SentInv /\ PageSend => SentInv'
<1> SUFFICES ASSUME TypeInv, SentInv, PageSend PROVE SentInv'
  OBVIOUS
<1> DEFINE n == sent + 1
<1>1. n \in 1 .. NSends /\ sent' = n /\ sent \in Nat /\ readyState = "open"
  BY Types DEF PageSend
<1>2. /\ UNCHANGED <<readyState, toPage, queue, lost, state, task, outgoing>>
      /\ calls' = Append(calls, SendOp(n))
  BY DEF PageSend, webrtc
<1>3. SendOp(n) \in Calls /\ SendOp(n).type = "send" /\ SendOp(n).number = n
  BY <1>1, CallRecords
<1>4. ~ Early /\ ~ Early'
  BY <1>1, <1>2 DEF SentInv, NotYetOpen, Early, queue
<1>5. /\ Numbers(calls', "send") = Numbers(calls, "send") \cup {n} /\ CreateFirst'
      /\ InOrder(calls') /\ \A c \in Members(calls') : c.type = "close" => c.number <= sent'
  <2>1. sent < n /\ SendOp(n).type # "close" /\ SendOp(n).type # "create"
    BY <1>1, <1>3
  <2> HIDE DEF n
  <2>2. /\ CreateFirst' /\ InOrder(calls') /\ Numbers(calls', "send") = Numbers(calls, "send") \cup {n}
        /\ \A c \in Members(calls') : c.type = "close" => c.number <= sent
    BY <1>2, <1>3, <2>1, PutCall DEF SentInv
  <2>3. \A c \in Members(calls') : c.type = "close" => c.number \in Nat
    BY <1>2, <1>3, Types, AppendMembers, MembersType, CallRecords
  <2>4. QED
    BY <1>1, <2>2, <2>3 DEF n
<1>6. Ascends(calls', "send")
  <2>1. Precede(Numbers(calls, "send"), {n})
    BY <1>1 DEF SentInv, Unbroken, Precede
  <2>2. QED
    BY <1>2, <1>3, <2>1, Types, AppendAscends DEF SentInv, Unbroken
<1>7. Unbroken'
  <2>1. Len(outgoing) \in Nat /\ Len(outgoing) <= sent /\ UNCHANGED outgoing
    BY <1>2, Types, LenProperties DEF SentInv, Unbroken
  <2>2. Numbers(calls', "send") \subseteq 1 .. sent'
    BY <1>1, <1>5 DEF SentInv, Unbroken
  <2>3. state' \notin {"closing", "closed"} => Numbers(calls', "send") = Len(outgoing) + 1 .. sent'
    <3>1. (Len(outgoing) + 1 .. sent) \cup {n} = Len(outgoing) + 1 .. n
      BY <1>1, <2>1
    <3>2. UNCHANGED state
      BY <1>2
    <3>3. QED
      BY <1>1, <1>5, <3>1, <3>2 DEF SentInv, Unbroken, SentWithoutGaps
  <2>4. QED
    BY <1>1, <1>5, <1>6, <2>1, <2>2, <2>3 DEF SentInv, Unbroken, SentWithoutGaps, InOrder
<1>8. QED
  BY <1>2, <1>4, <1>5, <1>7 DEF SentInv, NotYetOpen, Listed, Early, queue

LEMMA PageCloseSent == TypeInv /\ SentInv /\ PageClose => SentInv'
<1> SUFFICES ASSUME TypeInv, SentInv, PageClose PROVE SentInv'
  OBVIOUS
<1>1. /\ UNCHANGED <<sent, toPage, queue, lost, state, task, outgoing>>
      /\ calls' = Append(calls, CloseOp(sent)) /\ readyState' = "closing"
  BY DEF PageClose, webrtc
<1>2. /\ CloseOp(sent) \in Calls /\ CloseOp(sent).type = "close" /\ CloseOp(sent).number = sent
      /\ sent \in Nat
  BY CallRecords, Types
<1>3. CreateFirst' /\ Unbroken'
  BY <1>1, <1>2, PutCall, KeepsUnbroken DEF SentInv, queue
<1>4. QED
  BY <1>1, <1>3 DEF SentInv, NotYetOpen, Listed, Early, queue, lost

LEMMA PageEventSent == TypeInv /\ SentInv /\ PageEvent => SentInv'
<1> SUFFICES ASSUME TypeInv, SentInv, PageEvent PROVE SentInv'
  OBVIOUS
<1> DEFINE m == Head(toPage)
<1>1. /\ UNCHANGED <<sent, queue, lost, state, task, outgoing>>
      /\ calls' = calls \/ calls' = Append(calls, Op("listen"))
      /\ readyState' = readyState \/ (m.type # "message" /\ readyState' = m.state)
  BY DEF PageEvent, webrtc
<1>2. Quiet(toPage) => Quiet(toPage') /\ ~ Opening(m)
  BY Types, QuietTail DEF PageEvent
<1>3. CreateFirst' /\ Unbroken'
  <2>1. Op("listen") \in Calls /\ Op("listen").type = "listen"
    BY CallRecords
  <2>2. CASE UNCHANGED calls
    BY <1>1, <2>2, KeepsUnbroken DEF SentInv, Unbroken, SentWithoutGaps, InOrder, CreateFirst, queue
  <2>3. CASE calls' = Append(calls, Op("listen"))
    BY <1>1, <2>1, <2>3, PutCall, KeepsUnbroken DEF SentInv, queue
  <2>4. QED
    BY <1>1, <2>2, <2>3
<1> HIDE DEF m
<1>4. QED
  BY <1>1, <1>2, <1>3 DEF SentInv, NotYetOpen, Listed, Early, Opening, queue, lost

LEMMA CreateSent == TypeInv /\ SentInv /\ (Create \/ CreateFails) => SentInv'
<1> SUFFICES ASSUME TypeInv, SentInv, Create \/ CreateFails PROVE SentInv'
  OBVIOUS
<1>1. /\ UNCHANGED <<page, toPage, replay, listed, attached, lost, task, outgoing>>
      /\ Begin("create")
      /\ \/ state' = "connecting" /\ step' = "announce"
         \/ state' = state
  BY DEF Create, CreateFails, webrtc
<1>2. /\ state = "none" /\ Ascends(calls', "send") /\ Numbers(calls', "send") = Numbers(calls, "send")
      /\ InOrder(calls') /\ Members(calls') \subseteq Members(calls)
      /\ \A i \in DOMAIN calls' : calls'[i].type # "create"
  BY <1>1, TakeCall DEF SentInv
<1>3. Unbroken'
  BY <1>1, <1>2, KeepsUnbroken DEF SentInv, Unbroken, page
<1>4. QED
  BY <1>1, <1>2, <1>3 DEF SentInv, NotYetOpen, Listed, CreateFirst, Early, page, lost

LEMMA AttachSent == TypeInv /\ SentInv /\ Attach => SentInv'
<1> SUFFICES ASSUME TypeInv, SentInv, Attach PROVE SentInv'
  OBVIOUS
<1>1. /\ UNCHANGED <<page, calls, toPage, replay, lost, state, task, outgoing>> /\ listed'
  BY DEF Attach, webrtc
<1>2. Unbroken'
  BY <1>1, KeepsUnbroken DEF SentInv, Unbroken, SentWithoutGaps, InOrder, page
<1>3. QED
  BY <1>1, <1>2 DEF SentInv, NotYetOpen, Listed, CreateFirst, Early, page, lost

(* Steps of the queue that take no call and change neither channel nor list *)
(* of listed channels.                                                      *)
LEMMA StepSent ==
  ASSUME TypeInv, SentInv, UNCHANGED <<page, calls, listed, attached, state, task, outgoing>>,
         step \in {"announce", "attach"} => step' \in {"announce", "attach"},
         Early /\ Quiet(toPage) /\ Quiet(replay) => Quiet(toPage'),
         Early /\ Quiet(replay) /\ Quiet(lostStates) => Quiet(replay') /\ Quiet(lostStates')
  PROVE  SentInv'
<1>1. Unbroken'
  BY KeepsUnbroken DEF SentInv, Unbroken, SentWithoutGaps, InOrder, page
<1>2. QED
  BY <1>1 DEF SentInv, NotYetOpen, Listed, CreateFirst, Early, page

LEMMA QueueStepsSent ==
  ASSUME TypeInv, SentInv,
         Announce \/ TestState \/ ReportState \/ Replay \/ ClearStates \/ ClearMessages
  PROVE  SentInv'
<1> USE DEF webrtc
<1>7. CASE Announce
  <2> DEFINE m == [type |-> "new", state |-> state]
  <2>1. m \in PageEvents /\ (Early => ~ Opening(m))
    BY <1>7, Types, Records DEF Announce, TypeInv, Steps, Early, Opening
  <2>2. toPage' = Append(toPage, m)
    BY <1>7 DEF Announce, Emit
  <2> HIDE DEF m
  <2>3. Early /\ Quiet(toPage) => Quiet(toPage')
    BY <2>1, <2>2, Types, QuietAppend
  <2>4. QED
    BY <1>7, <2>3, StepSent DEF Announce, lost
<1>1. CASE TestState
  <2>1. Early => Quiet(<<State(state)>>)
    BY DEF Early, Quiet, Members, Opening, State
  <2>2. QED
    BY <1>1, <2>1, StepSent DEF TestState, lost
<1>2. CASE ReportState
  <2>1. Quiet(toPage) /\ Quiet(replay) => Quiet(toPage')
    <3>1. replay # <<>> /\ replay \in Seq(Events) /\ toPage \in Seq(PageEvents)
      BY <1>2, Types DEF ReportState, TypeInv, Steps
    <3>2. Head(replay) \in PageEvents
      BY <3>1, Records, TailMembers
    <3>3. QED
      BY <1>2, <3>1, <3>2, QuietAppend, QuietTail DEF ReportState, Emit
  <2>2. Quiet(<<>>)
    BY EmptyQueue DEF Quiet
  <2>3. QED
    BY <1>2, <2>1, <2>2, StepSent DEF ReportState, lost
<1>3. CASE Replay
  <2>1. /\ Quiet(toPage) /\ Quiet(replay) => Quiet(toPage')
        /\ Quiet(replay) => Quiet(replay')
    <3>1. replay # <<>> /\ replay \in Seq(Events) /\ toPage \in Seq(PageEvents)
      BY <1>3, Types DEF Replay
    <3>2. Head(replay) \in PageEvents
      BY <3>1, Records, TailMembers
    <3>3. QED
      BY <1>3, <3>1, <3>2, QuietAppend, QuietTail DEF Replay, Emit
  <2>2. QED
    BY <1>3, <2>1, StepSent DEF Replay, lost
<1>4. CASE ClearStates
  <2>1. Quiet(<<>>) /\ Quiet(lostMessages)
    BY Types, EventRecords, MembersType, EmptyQueue DEF Quiet, Opening
  <2>2. QED
    BY <1>4, <2>1, StepSent DEF ClearStates
<1>5. CASE ClearMessages
  BY <1>5, StepSent DEF ClearMessages
<1>6. QED
  BY <1>1, <1>2, <1>3, <1>4, <1>5, <1>7

LEMMA SetListenerSent == TypeInv /\ SentInv /\ SetListener => SentInv'
<1> SUFFICES ASSUME TypeInv, SentInv, SetListener PROVE SentInv'
  OBVIOUS
<1>1. /\ UNCHANGED <<page, toPage, listed, attached, lost, state, task, outgoing>>
      /\ Begin("listen") /\ step' = "states" /\ replay' = lostStates
  BY DEF SetListener, webrtc
<1>2. /\ Ascends(calls', "send") /\ Numbers(calls', "send") = Numbers(calls, "send")
      /\ InOrder(calls') /\ Members(calls') \subseteq Members(calls) /\ step = "idle"
      /\ \A i \in DOMAIN calls' : calls'[i].type # "create"
  BY <1>1, TakeCall DEF SentInv
<1>3. Unbroken'
  BY <1>1, <1>2, KeepsUnbroken DEF SentInv, Unbroken, page
<1>4. QED
  BY <1>1, <1>2, <1>3 DEF SentInv, NotYetOpen, Listed, CreateFirst, Early, page, lost

LEMMA CloseSent == TypeInv /\ SentInv /\ Close => SentInv'
<1> SUFFICES ASSUME TypeInv, SentInv, Close PROVE SentInv'
  OBVIOUS
<1>1. /\ UNCHANGED <<page, step, replay, lost, task, outgoing>> /\ task = <<>>
      /\ Begin("close") /\ ~ listed' /\ ~ attached'
      /\ \/ /\ ~ (listed /\ state \in {"connecting", "open"})
            /\ UNCHANGED <<state, toPage>>
         \/ /\ state \in {"connecting", "open"} /\ state' = "closing"
            /\ toPage' = Append(toPage, State("closing"))
  BY DEF Close, Emit, webrtc
<1>2. /\ Ascends(calls', "send") /\ Numbers(calls', "send") = Numbers(calls, "send")
      /\ InOrder(calls') /\ Members(calls') \subseteq Members(calls) /\ step = "idle"
      /\ \A i \in DOMAIN calls' : calls'[i].type # "create"
  BY <1>1, TakeCall DEF SentInv
<1>3. Unbroken'
  BY <1>1, <1>2, KeepsUnbroken DEF SentInv, Unbroken, page
<1>4. Quiet(toPage) => Quiet(toPage')
  <2>1. State("closing") \in PageEvents /\ ~ Opening(State("closing"))
    BY Records DEF Opening, States
  <2>2. QED
    BY <1>1, <2>1, Types, QuietAppend
<1>5. Listed' /\ (Early' => Early)
  BY <1>1, <1>2 DEF SentInv, Listed, Early
<1>6. QED
  BY <1>1, <1>2, <1>3, <1>4, <1>5 DEF SentInv, NotYetOpen, CreateFirst, page, lost

(* A message leaves for the remote end if it continues what went out.       *)
LEMMA SendSent == TypeInv /\ SentInv /\ Send => SentInv'
<1> SUFFICES ASSUME TypeInv, SentInv, Send PROVE SentInv'
  OBVIOUS
<1> DEFINE n == Head(calls).number
           k == Len(outgoing)
<1>1. /\ UNCHANGED <<page, toPage, queue, lost, state, task>>
      /\ Begin("send")
      /\ outgoing' = IF listed /\ state = "open" THEN Append(outgoing, n) ELSE outgoing
  BY DEF Send
<1>2. /\ Ascends(calls', "send") /\ Head(calls) \in Calls /\ Head(calls).type = "send"
      /\ calls' = Tail(calls) /\ calls # <<>> /\ calls \in Seq(Calls)
      /\ InOrder(calls') /\ Members(calls') \subseteq Members(calls) /\ step = "idle"
      /\ \A i \in DOMAIN calls' : calls'[i].type # "create"
  BY <1>1, TakeCall, Types DEF SentInv
<1>3. /\ n \in 1 .. NSends /\ n \in Nat /\ Numbers(calls, "send") = Numbers(calls', "send") \cup {n}
      /\ Precede({n}, Numbers(calls', "send"))
  BY <1>2, CallRecords, TailNumbers, TailAscends DEF SentInv, Unbroken
<1>4. /\ k \in Nat /\ sent \in Nat /\ k <= sent /\ DOMAIN outgoing = 1 .. k
      /\ outgoing \in Seq(1 .. NSends) /\ \A i \in DOMAIN outgoing : outgoing[i] = i
      /\ Numbers(calls', "send") \subseteq 1 .. sent
  BY <1>3, Types, LenProperties DEF SentInv, Unbroken, SentWithoutGaps
<1> HIDE DEF n, k
<1>5. Unbroken'
  <2>1. CASE ~ (listed /\ state = "open")
    <3>1. state \in {"closing", "closed"}
      <4>1. state # "open"
        BY <1>2, <2>1 DEF SentInv, Listed
      <4>2. ~ Early
        BY <1>3, <1>4 DEF SentInv, NotYetOpen, Unbroken
      <4>3. QED
        BY <4>1, <4>2, Types DEF Early, States
    <3>2. QED
      BY <1>1, <1>2, <1>4, <2>1, <3>1 DEF SentInv, Unbroken, SentWithoutGaps, InOrder, page, queue
  <2>2. CASE listed /\ state = "open"
    <3>1. {n} \cup Numbers(calls', "send") = k + 1 .. sent
      BY <1>3, <2>2 DEF SentInv, Unbroken, SentWithoutGaps, k
    <3>2. /\ n = k + 1 /\ n <= sent /\ Numbers(calls', "send") = n + 1 .. sent
      <4>1. Numbers(calls', "send") \in SUBSET Nat /\ k + 1 \in Nat
        BY <1>4
      <4>2. n = k + 1 /\ k + 1 <= sent /\ Numbers(calls', "send") = (k + 1) + 1 .. sent
        <5> DEFINE B == Numbers(calls', "send")
        <5>1. n \in Nat /\ B \in SUBSET Nat /\ Precede({n}, B) /\ {n} \cup B = k + 1 .. sent
          BY <1>3, <3>1, <4>1
        <5>2. sent \in Nat
          BY <1>4
        <5> HIDE DEF B
        <5>3. n = k + 1 /\ k + 1 <= sent /\ B = (k + 1) + 1 .. sent
          BY <4>1, <5>1, <5>2, FirstOfRun
        <5>4. QED
          BY <5>3 DEF B
      <4>3. QED
        BY <4>2
    <3>3. outgoing' = Append(outgoing, n)
      BY <1>1, <2>2
    <3>4. /\ Len(outgoing') = n
          /\ \A i \in DOMAIN outgoing' : i \in DOMAIN outgoing \/ i = k + 1
          /\ \A i \in DOMAIN outgoing : outgoing'[i] = outgoing[i]
          /\ outgoing'[k + 1] = n
      BY <1>3, <1>4, <3>2, <3>3, AppendPlaces, AppendProperties DEF k
    <3>5. SentWithoutGaps'
      <4>1. sent' = sent
        BY <1>1 DEF page
      <4>2. (\A i \in DOMAIN outgoing' : outgoing'[i] = i) /\ InOrder(calls')
        BY <1>2, <1>4, <3>2, <3>4
      <4>3. Numbers(calls', "send") = Len(outgoing') + 1 .. sent'
        BY <3>2, <3>4, <4>1
      <4>4. QED
        BY <4>2, <4>3 DEF SentWithoutGaps, InOrder
    <3>6. QED
      BY <1>1, <1>2, <1>4, <3>2, <3>4, <3>5 DEF SentInv, Unbroken, page, queue
  <2>3. QED
    BY <2>1, <2>2
<1>6. QED
  BY <1>1, <1>2, <1>5 DEF SentInv, NotYetOpen, Listed, CreateFirst, Early, page, queue, lost

LEMMA StateChangesSent == TypeInv /\ SentInv /\ StateChanges => SentInv'
<1> SUFFICES ASSUME TypeInv, SentInv, StateChanges PROVE SentInv'
  OBVIOUS
<1>1. /\ UNCHANGED <<page, calls, toPage, queue, lost, outgoing>>
      /\ state' \in {"open", "closing", "closed"} /\ (state' = "open" => state = "connecting")
      /\ state # "none"
  BY DEF StateChanges, webrtc
<1>2. Unbroken'
  BY <1>1, KeepsUnbroken DEF SentInv, Unbroken, SentWithoutGaps, InOrder, page
<1>3. ~ Early'
  BY <1>1 DEF Early
<1>4. QED
  BY <1>1, <1>2, <1>3 DEF SentInv, NotYetOpen, Listed, CreateFirst, queue

LEMMA MessageArrivesSent == TypeInv /\ SentInv /\ MessageArrives => SentInv'
<1> SUFFICES ASSUME TypeInv, SentInv, MessageArrives PROVE SentInv'
  OBVIOUS
<1>1. UNCHANGED <<page, calls, toPage, queue, lost, state, outgoing>> /\ state = "open"
  BY DEF MessageArrives
<1>2. ~ Early /\ ~ Early'
  BY <1>1 DEF Early
<1>3. Unbroken'
  BY <1>1, KeepsUnbroken DEF SentInv, Unbroken, SentWithoutGaps, InOrder, page, queue
<1>4. QED
  BY <1>1, <1>2, <1>3 DEF SentInv, NotYetOpen, Listed, CreateFirst, Early, queue

LEMMA DelegateActsSent == TypeInv /\ SentInv /\ DelegateActs => SentInv'
<1> SUFFICES ASSUME TypeInv, SentInv, DelegateActs PROVE SentInv'
  OBVIOUS
<1> DEFINE m == Head(task).event
<1>1. /\ UNCHANGED <<page, calls, queue, state, outgoing>> /\ task' = <<>> /\ task # <<>>
      /\ toPage' = toPage \/ toPage' = Append(toPage, m)
      /\ lostStates' = lostStates \/ (m.type = "state" /\ lostStates' = Append(lostStates, m))
  BY DEF DelegateActs, Emit, lost, webrtc
<1>2. m \in PageEvents /\ (m.type = "state" => m \in StateEvents) /\ (Early => ~ Opening(m))
  BY <1>1, HeadTask, Records DEF SentInv, NotYetOpen
<1> HIDE DEF m
<1>3. Unbroken'
  BY <1>1, KeepsUnbroken DEF SentInv, Unbroken, SentWithoutGaps, InOrder, page, queue
<1>4. Early /\ Quiet(toPage) => Quiet(toPage')
  BY <1>1, <1>2, Types, QuietAppend
<1>5. Early /\ Quiet(lostStates) => Quiet(lostStates')
  BY <1>1, <1>2, Types, QuietAppend
<1>6. \A t \in Members(task') : FALSE
  BY <1>1, EmptyQueue
<1>7. QED
  BY <1>1, <1>3, <1>4, <1>5, <1>6
  DEF SentInv, NotYetOpen, Listed, CreateFirst, Early, page, queue

LEMMA NextSent == TypeInv /\ SentInv /\ [Next]_vars => SentInv'
<1>1. TypeInv /\ SentInv /\ UNCHANGED vars => SentInv'
  BY DEF vars, page, queue, lost, webrtc, SentInv, Unbroken, SentWithoutGaps, NotYetOpen, Listed,
         CreateFirst, Early, Quiet
<1>2. QED
  BY <1>1, PageSendSent, PageCloseSent, PageEventSent, CreateSent, AttachSent, QueueStepsSent,
     SetListenerSent, CloseSent, SendSent, StateChangesSent, MessageArrivesSent, DelegateActsSent
  DEF Next, QueueStep

(* The remote end gets what the page sent, in order and without a gap,      *)
(* however close() and the network interleave with it; and what the page    *)
(* sent before it closed the channel is out by the time that the queue      *)
(* closes it, unless WebRTC closed it before.                               *)
THEOREM NoGaps == Spec => []SentWithoutGaps
<1>1. SentInv => SentWithoutGaps
  BY DEF SentInv, Unbroken
<1>2. QED
  BY <1>1, InitSent, NextSent, TypeHolds, PTL DEF Spec

(***************************************************************************)
(* A channel that the page made.  Its listener is there before its         *)
(* delegate, so nothing is ever kept: what the delegate is told goes       *)
(* straight to the page, after what it was told before.  Until run() has   *)
(* set the delegate every message is missed, and once that is gone the     *)
(* channel is closing.                                                     *)
(***************************************************************************)
Told(q) == Numbers([i \in DOMAIN q |-> q[i].event], "message")

InTurn ==
  /\ missed + Len(delivered) <= incoming /\ \A i \in DOMAIN delivered : delivered[i] = missed + i
  /\ Ascends(toPage, "message")
  /\ Precede(Numbers(toPage, "message"), Told(task))
  /\ Numbers(toPage, "message") \cup Told(task) = missed + Len(delivered) + 1 .. incoming

Window ==
  /\ state = "none" => ~ attached
  /\ ~ attached /\ state \notin {"closing", "closed"} =>
       missed = incoming /\ delivered = <<>> /\ Numbers(toPage, "message") = {}

Heard ==
  /\ attached \/ step \in {"announce", "attach"} => listener
  /\ \A t \in Members(task) : t.heard
  /\ \A c \in Members(calls) : c.type # "listen"
  /\ \A m \in Members(toPage) : m.type # "channel"
  /\ step \notin {"states", "messages"} /\ Numbers(replay, "message") = {}

CreatedInv == ~ received => InTurn /\ Window /\ Heard

LEMMA ToldTask ==
  /\ Told(<<>>) = {}
  /\ \A t : Told(<<t>>) = IF t.event.type = "message" THEN {t.event.number} ELSE {}
<1>1. Told(<<>>) = {}
  BY DEF Told, Numbers, Members
<1>2. ASSUME NEW t
      PROVE  Told(<<t>>) = IF t.event.type = "message" THEN {t.event.number} ELSE {}
  <2> DEFINE q == [i \in DOMAIN <<t>> |-> <<t>>[i].event]
  <2>1. DOMAIN q = {1} /\ q[1] = t.event
    OBVIOUS
  <2>2. Members(q) = {t.event}
    BY <2>1 DEF Members
  <2>3. Told(<<t>>) = Numbers(q, "message")
    BY DEF Told
  <2> HIDE DEF q
  <2>4. QED
    BY <2>2, <2>3 DEF Numbers
<1>3. QED
  BY <1>1, <1>2

(* An event on its way to the page, behind those sent before.               *)
LEMMA EmitNumbers ==
  ASSUME TypeInv, NEW m \in PageEvents, Emit(m)
  PROVE  /\ toPage \in Seq(PageEvents) /\ Members(toPage') = Members(toPage) \cup {m}
         /\ Numbers(toPage', "message") = IF m.type = "message"
                                          THEN Numbers(toPage, "message") \cup {m.number}
                                          ELSE Numbers(toPage, "message")
         /\ /\ Ascends(toPage, "message")
            /\ m.type = "message" => Precede(Numbers(toPage, "message"), {m.number})
            => Ascends(toPage', "message")
<1>1. toPage \in Seq(PageEvents) /\ toPage' = Append(toPage, m)
  BY Types DEF Emit
<1>2. Members(toPage') = Members(toPage) \cup {m}
  BY <1>1, AppendMembers
<1>3. Numbers(toPage', "message") = IF m.type = "message"
                                    THEN Numbers(toPage, "message") \cup {m.number}
                                    ELSE Numbers(toPage, "message")
  BY <1>1, AppendNumbers
<1>4. ASSUME Ascends(toPage, "message"),
             m.type = "message" => Precede(Numbers(toPage, "message"), {m.number})
      PROVE  Ascends(toPage', "message")
  BY <1>1, <1>4, AppendAscends
<1>5. QED
  BY <1>1, <1>2, <1>3, <1>4

(* The page gets to know nothing but states.                                *)
LEMMA KeepsTurn ==
  ASSUME TypeInv, InTurn, UNCHANGED <<delivered, incoming, missed>>, Told(task') = Told(task),
         UNCHANGED toPage \/ \E m \in PageEvents : m.type # "message" /\ Emit(m)
  PROVE  InTurn' /\ Numbers(toPage', "message") = Numbers(toPage, "message")
<1>1. /\ Numbers(toPage', "message") = Numbers(toPage, "message")
      /\ Ascends(toPage', "message")
  BY EmitNumbers DEF InTurn
<1>2. QED
  BY <1>1 DEF InTurn

LEMMA InitCreated == Init => CreatedInv
<1> SUFFICES ASSUME Init, ~ received PROVE InTurn /\ Window /\ Heard
  BY DEF CreatedInv
<1>1. /\ delivered = <<>> /\ toPage = <<>> /\ task = <<>> /\ incoming = 0 /\ missed = 0
      /\ replay = <<>> /\ ~ attached
  BY DEF Init
<1>2. Members(calls) = {Op("create")} /\ Op("create").type = "create"
  BY DEF Init, Members, Op
<1>3. DOMAIN <<>> = {} /\ Len(<<>>) = 0
  BY EmptySeq
<1>4. InTurn
  BY <1>1, <1>3, NoNumbers, ToldTask DEF InTurn, Precede
<1>5. Heard
  BY <1>1, <1>2, EmptyQueue, NoNumbers DEF Init, Heard
<1>6. Window
  BY <1>1, NoNumbers DEF Window
<1>7. QED
  BY <1>4, <1>5, <1>6

LEMMA PageEventCreated ==
  ASSUME TypeInv, InTurn, Window, Heard, PageEvent
  PROVE  InTurn' /\ Window' /\ Heard'
<1> DEFINE m == Head(toPage)
<1>1. /\ m \in PageEvents /\ Members(toPage) = Members(toPage') \cup {m} /\ toPage' = Tail(toPage)
      /\ toPage \in Seq(PageEvents) /\ toPage # <<>>
  BY Types, TailMembers DEF PageEvent
<1>2. /\ Ascends(toPage', "message")
      /\ m.type = "message" =>
           /\ Precede({m.number}, Numbers(toPage', "message"))
           /\ Numbers(toPage, "message") = Numbers(toPage', "message") \cup {m.number}
      /\ m.type # "message" => Numbers(toPage, "message") = Numbers(toPage', "message")
  BY <1>1, TailAscends, TailNumbers DEF InTurn
<1>3. /\ UNCHANGED <<queue, task, state, incoming, missed>>
      /\ \/ /\ m.type = "message" /\ delivered' = Append(delivered, m.number)
            /\ UNCHANGED calls
         \/ m.type # "message" /\ m.type # "channel" /\ UNCHANGED <<delivered, calls>>
         \/ m.type = "channel"
  BY DEF PageEvent, webrtc
<1> HIDE DEF m
<1>4. m.type # "channel"
  BY <1>1 DEF Heard
<1>5. Heard'
  BY <1>1, <1>3, <1>4 DEF Heard, queue
<1>6. CASE m.type # "message"
  <2>1. UNCHANGED <<delivered, task, incoming>>
    BY <1>3, <1>4, <1>6
  <2>2. Numbers(toPage', "message") = Numbers(toPage, "message") /\ Ascends(toPage', "message")
    BY <1>2, <1>6
  <2>3. InTurn' /\ Window'
    BY <1>3, <2>1, <2>2 DEF InTurn, Window, queue
  <2>4. QED
    BY <1>5, <2>3
<1>7. CASE m.type = "message" /\ delivered' = Append(delivered, m.number)
  <2> DEFINE k == Len(delivered)
             a == m.number
             z == missed + k
             B == Numbers(toPage', "message") \cup Told(task)
  <2>1. /\ k \in Nat /\ DOMAIN delivered = 1 .. k /\ delivered \in Seq(1 .. NMessages)
        /\ a \in 1 .. NMessages /\ a \in Nat /\ incoming \in Nat /\ missed \in Nat /\ z \in Nat
    <3>1. delivered \in Seq(1 .. NMessages) /\ k \in Nat /\ DOMAIN delivered = 1 .. k
      BY Types, LenProperties
    <3>2. a \in 1 .. NMessages /\ NMessages \in Nat
      BY <1>1, <1>7, Types, Records
    <3>3. incoming \in 0 .. NMessages /\ missed \in 0 .. incoming
      BY Types
    <3> HIDE DEF a, k
    <3>4. a \in Nat /\ incoming \in Nat /\ missed \in Nat
      BY <3>2, <3>3
    <3>5. QED
      BY <3>1, <3>2, <3>4
  <2>2. {a} \cup B = z + 1 .. incoming
    BY <1>2, <1>7 DEF InTurn
  <2>3. Precede({a}, B)
    BY <1>2, <1>7 DEF InTurn, Precede
  <2> HIDE DEF B, a, k, z
  <2>4. B \in SUBSET Nat /\ z + 1 \in Nat
    BY <2>1, <2>2
  <2>5. a = z + 1 /\ z + 1 <= incoming /\ B = (z + 1) + 1 .. incoming
    BY <2>1, <2>2, <2>3, <2>4, FirstOfRun
  <2>6. /\ Len(delivered') = k + 1
        /\ \A i \in DOMAIN delivered' : i \in DOMAIN delivered \/ i = k + 1
        /\ \A i \in DOMAIN delivered : delivered'[i] = delivered[i]
        /\ delivered'[k + 1] = a
    BY <1>7, <2>1, AppendPlaces, AppendProperties DEF a, k
  <2>7. missed' + (k + 1) = z + 1 /\ missed' = missed /\ incoming' = incoming
    BY <1>3, <2>1 DEF z
  <2>8. \A i \in DOMAIN delivered' : delivered'[i] = missed' + i
    BY <2>5, <2>6, <2>7 DEF InTurn
  <2>9. Precede(Numbers(toPage', "message"), Told(task'))
    BY <1>2, <1>3, <1>7 DEF InTurn, Precede
  <2>10. Numbers(toPage', "message") \cup Told(task') = missed' + Len(delivered') + 1 .. incoming'
    BY <1>3, <2>5, <2>6, <2>7 DEF B
  <2>11. InTurn'
    BY <1>2, <2>5, <2>6, <2>7, <2>8, <2>9, <2>10 DEF InTurn
  <2>12. Numbers(toPage, "message") # {}
    BY <1>2, <1>7
  <2>13. QED
    BY <1>3, <1>5, <2>11, <2>12 DEF Window, queue
<1>8. QED
  BY <1>3, <1>4, <1>5, <1>6, <1>7

(* A call is made, or one is taken by the queue of the plugin.              *)
LEMMA CallsHeard ==
  ASSUME TypeInv, \A c \in Members(calls) : c.type # "listen",
         \/ UNCHANGED calls \/ (calls # <<>> /\ calls' = Tail(calls))
         \/ \E c \in Calls : c.type # "listen" /\ calls' = Append(calls, c)
  PROVE  \A c \in Members(calls') : c.type # "listen"
<1>1. calls \in Seq(Calls)
  BY Types
<1>2. CASE UNCHANGED calls
  BY <1>2
<1>3. CASE calls # <<>> /\ calls' = Tail(calls)
  BY <1>1, <1>3, TailMembers
<1>4. CASE \E c \in Calls : c.type # "listen" /\ calls' = Append(calls, c)
  BY <1>1, <1>4, AppendMembers
<1>5. QED
  BY <1>2, <1>3, <1>4

LEMMA DelegateActsCreated ==
  ASSUME TypeInv, InTurn, Window, Heard, DelegateActs
  PROVE  InTurn' /\ Window' /\ Heard'
<1> DEFINE m == Head(task).event
<1>1. /\ UNCHANGED <<page, calls, queue, state, incoming, missed>> /\ task # <<>> /\ task' = <<>>
      /\ Head(task).heard => Emit(m)
  BY DEF DelegateActs, webrtc
<1>2. m \in Events /\ m \in PageEvents /\ m.type # "channel" /\ Head(task).heard
      /\ Told(task) = IF m.type = "message" THEN {m.number} ELSE {}
  <2>1. m \in Events /\ task = <<Head(task)>> /\ Members(task) = {Head(task)}
    BY <1>1, HeadTask
  <2>2. m \in PageEvents /\ m.type # "channel"
    BY <2>1, Records
  <2>3. Told(task) = IF m.type = "message" THEN {m.number} ELSE {}
    BY <2>1, ToldTask
  <2>4. QED
    BY <2>1, <2>2, <2>3 DEF Heard
<1> HIDE DEF m
<1>3. Emit(m) /\ Told(task') = {}
  BY <1>1, <1>2, ToldTask
<1>4. /\ Numbers(toPage', "message") = Numbers(toPage, "message") \cup Told(task)
      /\ Ascends(toPage', "message") /\ Members(toPage') = Members(toPage) \cup {m}
  BY <1>2, <1>3, EmitNumbers DEF InTurn
<1>5. InTurn'
  BY <1>1, <1>3, <1>4 DEF InTurn, Precede, page
<1>6. Members(task') = {}
  BY <1>1, EmptyQueue
<1>7. Window'
  <2>1. SUFFICES ASSUME ~ attached, state \notin {"closing", "closed"} PROVE Told(task) = {}
    BY <1>1, <1>4 DEF Window, page, queue
  <2>2. missed = incoming /\ Len(delivered) = 0 /\ incoming \in Nat
    BY <2>1, Types, EmptySeq DEF Window
  <2>3. QED
    BY <2>2 DEF InTurn
<1>8. QED
  BY <1>1, <1>2, <1>4, <1>5, <1>6, <1>7 DEF Heard, queue

LEMMA MessageMissed ==
  ASSUME TypeInv, InTurn, Window, Heard, MessageArrives, ~ attached
  PROVE  InTurn' /\ Window' /\ Heard'
<1>1. /\ UNCHANGED <<page, calls, toPage, queue, state>> /\ task = <<>> /\ task' = <<>>
      /\ incoming' = incoming + 1 /\ missed' = incoming' /\ state = "open"
  BY DEF MessageArrives, Tell
<1>2. delivered = <<>> /\ Numbers(toPage, "message") = {} /\ incoming \in Nat
  BY <1>1, Types DEF Window
<1>3. Told(task') = {} /\ Len(<<>>) = 0 /\ DOMAIN <<>> = {}
  BY <1>1, ToldTask, EmptySeq
<1>4. InTurn'
  BY <1>1, <1>2, <1>3 DEF InTurn, Precede, page
<1>5. QED
  BY <1>1, <1>2, <1>4, EmptyQueue DEF Window, Heard, page, queue

LEMMA MessageArrivesCreated ==
  ASSUME TypeInv, InTurn, Window, Heard, MessageArrives, attached
  PROVE  InTurn' /\ Window' /\ Heard'
<1> DEFINE n == incoming + 1
           t == [event |-> Message(n), heard |-> listener]
<1>1. /\ UNCHANGED <<page, calls, toPage, queue, state, missed>> /\ task = <<>> /\ attached
      /\ incoming' = n /\ task' = <<t>>
  BY DEF MessageArrives, Tell
<1>2. /\ n \in 1 .. NMessages /\ incoming \in Nat
      /\ t.event = Message(n) /\ t.heard = listener
  BY <1>1, Types DEF MessageArrives
<1>3. Told(task) = {} /\ Told(task') = {n} /\ Members(task') = {t}
  <2>1. Message(n).type = "message" /\ Message(n).number = n
    BY <1>2, Records
  <2>2. DOMAIN <<t>> = {1} /\ <<t>>[1] = t
    OBVIOUS
  <2>3. Members(<<t>>) = {t}
    BY <2>2 DEF Members
  <2> HIDE DEF t
  <2>4. QED
    BY <1>1, <1>2, <2>1, <2>3, ToldTask
<1> HIDE DEF n, t
<1>4. InTurn'
  <2> DEFINE k == missed + Len(delivered)
             A == Numbers(toPage, "message")
  <2>1. k \in Nat
    BY Types, LenProperties
  <2>2. A = k + 1 .. incoming /\ k <= incoming
    BY <1>3 DEF InTurn
  <2>3. Precede(A, {n}) /\ A \cup {n} = k + 1 .. n
    BY <1>2, <2>1, <2>2 DEF n, Precede
  <2>4. UNCHANGED <<delivered, toPage, missed>> /\ incoming' = n /\ k <= n
    BY <1>1, <1>2, <2>1, <2>2 DEF page, n
  <2>5. A \cup Told(task') = k + 1 .. incoming'
    BY <1>3, <2>3, <2>4
  <2>6. Precede(A, Told(task'))
    BY <1>3, <2>3
  <2>7. QED
    BY <2>4, <2>5, <2>6 DEF InTurn
<1>5. Window' /\ Heard'
  BY <1>1, <1>2, <1>3 DEF Window, Heard, queue
<1>6. QED
  BY <1>4, <1>5

(* The other steps tell the page a state at most.                           *)
LEMMA StepCreated ==
  ASSUME TypeInv, InTurn, Window, Heard, UNCHANGED <<delivered, incoming, missed>>,
         Told(task') = Told(task),
         \A t \in Members(task') : t.heard,
         attached' \/ step' \in {"announce", "attach"} => listener',
         state' = "none" => ~ attached',
         ~ attached' /\ state' \notin {"closing", "closed"} =>
           ~ attached /\ state \notin {"closing", "closed"},
         UNCHANGED toPage \/ \E m \in PageEvents : m.type \in {"state", "new"} /\ Emit(m),
         \/ UNCHANGED calls \/ (calls # <<>> /\ calls' = Tail(calls))
         \/ \E c \in Calls : c.type # "listen" /\ calls' = Append(calls, c),
         step' \notin {"states", "messages"}, Numbers(replay', "message") = {}
  PROVE  InTurn' /\ Window' /\ Heard'
<1>1. UNCHANGED toPage \/ \E m \in PageEvents : m.type # "message" /\ Emit(m)
  OBVIOUS
<1>2. InTurn' /\ Numbers(toPage', "message") = Numbers(toPage, "message")
  BY <1>1, KeepsTurn
<1>6. Window'
  BY <1>2 DEF Window
<1>3. \A c \in Members(calls') : c.type # "listen"
  BY CallsHeard DEF Heard
<1>4. \A m \in Members(toPage') : m.type # "channel"
  <2>1. CASE UNCHANGED toPage
    BY <2>1 DEF Heard
  <2>2. CASE \E m \in PageEvents : m.type \in {"state", "new"} /\ Emit(m)
    BY <2>2, EmitNumbers DEF Heard
  <2>3. QED
    BY <2>1, <2>2
<1>5. QED
  BY <1>2, <1>3, <1>4, <1>6 DEF Heard

LEMMA NextCreated == TypeInv /\ SentInv /\ CreatedInv /\ [Next]_vars => CreatedInv'
<1> SUFFICES ASSUME TypeInv, SentInv, CreatedInv, [Next]_vars, ~ received'
             PROVE  InTurn' /\ Window' /\ Heard'
  BY DEF CreatedInv
<1>1. UNCHANGED received
  BY DEF Next, QueueStep, vars, PageSend, PageClose, PageEvent, Create, CreateFails, Announce, Attach,
         TestState, ReportState, SetListener, Replay, ClearStates, ClearMessages, Send, Close, StateChanges,
         MessageArrives, DelegateActs
<1>2. InTurn /\ Window /\ Heard
  BY <1>1 DEF CreatedInv
<1> USE DEF page, queue, lost, webrtc
<1>3. CASE UNCHANGED vars
  BY <1>2, <1>3 DEF vars, InTurn, Window, Heard
<1>4. ASSUME NEW o, Begin(o) PROVE calls # <<>> /\ calls' = Tail(calls) /\ o # "listen"
  <2>1. calls # <<>> /\ calls' = Tail(calls) /\ Head(calls).type = o
    BY <1>4 DEF Begin
  <2>2. Head(calls) \in Members(calls)
    BY <2>1, Types, TailMembers
  <2>3. QED
    BY <1>2, <2>1, <2>2 DEF Heard
<1>5. CASE PageSend
  <2>1. SendOp(sent + 1) \in Calls /\ SendOp(sent + 1).type # "listen"
    <3>1. sent + 1 \in 1 .. NSends
      BY <1>5, Types DEF PageSend
    <3>2. QED
      BY <3>1, CallRecords
  <2>2. calls' = Append(calls, SendOp(sent + 1))
    BY <1>5 DEF PageSend
  <2>3. QED
    BY <1>2, <1>5, <2>1, <2>2, StepCreated DEF PageSend, Window, Heard
<1>6. CASE PageClose
  <2>1. CloseOp(sent) \in Calls /\ CloseOp(sent).type # "listen"
    BY CallRecords, Types
  <2>2. calls' = Append(calls, CloseOp(sent))
    BY <1>6 DEF PageClose
  <2>3. QED
    BY <1>2, <1>6, <2>1, <2>2, StepCreated DEF PageClose, Window, Heard
<1>7. CASE Create \/ CreateFails
  <2>1. /\ Begin("create") /\ UNCHANGED <<page, toPage, replay, attached, lost, task, webrtc>>
        /\ step' \in {"announce", "crashed"} /\ (step' = "announce" => listener')
        /\ listener' = listener \/ listener'
        /\ state' \in {state, "connecting"}
    BY <1>7 DEF Create, CreateFails
  <2>2. state = "none" /\ ~ attached
    BY <1>2, <2>1, TakeCall DEF SentInv, Window
  <2>3. QED
    BY <1>2, <1>4, <2>1, <2>2, StepCreated DEF Heard
<1>20. CASE Announce
  <2> DEFINE m == [type |-> "new", state |-> state]
  <2>1. m \in PageEvents /\ m.type = "new"
    BY <1>20, Types, Records DEF Announce, TypeInv, Steps
  <2>2. /\ Emit(m) /\ UNCHANGED <<page, calls, replay, attached, listener, lost, state, task, webrtc>>
        /\ step = "announce" /\ step' = "attach"
    BY <1>20 DEF Announce
  <2> HIDE DEF m
  <2>3. \E x \in PageEvents : x.type \in {"state", "new"} /\ Emit(x)
    BY <2>1, <2>2
  <2>4. QED
    BY <1>2, <2>2, <2>3, StepCreated DEF Window, Heard
<1>8. CASE Attach
  <2>1. listener /\ state # "none"
    BY <1>2, <1>8 DEF Attach, Heard, TypeInv, Steps
  <2>2. QED
    BY <1>2, <1>8, <2>1, StepCreated DEF Attach, Heard
<1>9. CASE TestState
  <2>1. Numbers(<<State(state)>>, "message") = {}
    BY DEF Numbers, Members, State
  <2>2. QED
    BY <1>2, <1>9, <2>1, StepCreated DEF TestState, Window, Heard
<1>10. CASE ReportState
  <2>1. replay # <<>> /\ replay \in Seq(Events) /\ Head(replay) \in Members(replay)
    BY <1>10, Types, TailMembers DEF ReportState, TypeInv, Steps
  <2>2. Head(replay) \in Events /\ Head(replay).type # "message"
    <3>1. Head(replay) \in Events
      BY <2>1, TailMembers
    <3>2. Head(replay).type = "message" => Head(replay).number \in Numbers(replay, "message")
      BY <2>1 DEF Numbers
    <3>3. QED
      BY <1>2, <3>1, <3>2 DEF Heard
  <2>3. Head(replay) \in PageEvents /\ Head(replay).type = "state"
    BY <2>2, Records
  <2>4. QED
    BY <1>2, <1>10, <2>3, NoNumbers, StepCreated DEF ReportState, Window, Heard
<1>11. CASE SetListener
  BY <1>4, <1>11 DEF SetListener
<1>12. CASE Replay \/ ClearStates \/ ClearMessages
  BY <1>2, <1>12 DEF Replay, ClearStates, ClearMessages, Heard
<1>13. CASE Send
  BY <1>2, <1>4, <1>13, StepCreated DEF Send, Window, Heard
<1>14. CASE Close
  <2>1. /\ Begin("close") /\ UNCHANGED <<page, step, replay, listener, lost, task, webrtc>>
        /\ UNCHANGED toPage \/ (Emit(State("closing")) /\ ~ attached')
    BY <1>14 DEF Close
  <2>2. State("closing") \in PageEvents /\ State("closing").type = "state"
    BY Records DEF States
  <2>3. UNCHANGED toPage \/ \E m \in PageEvents : m.type \in {"state", "new"} /\ Emit(m)
    BY <2>1, <2>2
  <2>4. /\ step = "idle" /\ ~ attached'
        /\ state' \notin {"closing", "closed"} => state' = state /\ state \notin {"connecting", "open"}
    BY <1>14 DEF Close, Begin, SentInv, Listed
  <2>5. state' \notin {"closing", "closed"} => state = "none"
    BY <2>4, Types DEF States
  <2>6. QED
    BY <1>2, <1>4, <2>1, <2>3, <2>4, <2>5, StepCreated DEF Window, Heard
<1>15. CASE StateChanges
  <2> DEFINE t == [event |-> State(state'), heard |-> listener]
  <2>1. /\ UNCHANGED <<page, calls, toPage, queue, lost, webrtc>>
        /\ state' # "none" /\ (state' \notin {"closing", "closed"} => state \notin {"closing", "closed"})
        /\ task = <<>> /\ (task' = <<>> \/ (attached /\ task' = <<t>>))
    BY <1>15 DEF StateChanges, Tell
  <2>2. t.event.type = "state" /\ (attached => t.heard)
    BY <1>2 DEF State, Heard
  <2>3. DOMAIN <<t>> = {1} /\ <<t>>[1] = t
    OBVIOUS
  <2>4. Members(<<t>>) = {t}
    BY <2>3 DEF Members
  <2> HIDE DEF t
  <2>5. Told(task') = Told(task) /\ \A x \in Members(task') : x.heard
    BY <2>1, <2>2, <2>4, ToldTask, EmptyQueue
  <2>6. QED
    BY <1>2, <2>1, <2>5, StepCreated DEF Window, Heard
<1>16. CASE MessageArrives
  BY <1>2, <1>16, MessageArrivesCreated, MessageMissed
<1>17. CASE DelegateActs
  BY <1>2, <1>17, DelegateActsCreated
<1>18. CASE PageEvent
  BY <1>2, <1>18, PageEventCreated
<1>19. QED
  BY <1>3, <1>5, <1>6, <1>7, <1>8, <1>9, <1>10, <1>11, <1>12, <1>13, <1>14, <1>15, <1>16, <1>17,
     <1>18, <1>20 DEF Next, QueueStep

(* On a channel that the page made the messages of the remote end reach the *)
(* listeners of the page in order, with none lost and none twice, but for   *)
(* those that come before run() has set the delegate: they are lost.        *)
THEOREM NoneLost == Spec => []CreatedInOrder
<1>1. CreatedInv => CreatedInOrder
  BY DEF CreatedInv, InTurn, CreatedInOrder, Told
<1>2. QED
  BY <1>1, InitCreated, NextCreated, InitSent, NextSent, TypeHolds, PTL DEF Spec

(***************************************************************************)
(* A channel that the remote end made.  A message is with the delegate,    *)
(* kept, in the loop over what was kept, on its way to the page, or        *)
(* dispatched.  While the loop over the kept messages runs they are in the *)
(* list as well; that list is emptied before anything else looks at it.    *)
(***************************************************************************)
Known(q)      == Numbers(q, "message")
Unrepeated(q) ==
  \A i, j \in DOMAIN q :
    q[i].type = "message" /\ q[j].type = "message" /\ q[i].number = q[j].number => i = j
Passed        == Members(delivered) \cup Known(toPage)

PassedOnce ==
  /\ DispatchedOnce /\ Unrepeated(toPage)
  /\ \A n \in Known(toPage) : n \notin Members(delivered)

ReplayedOnce ==
  /\ step # "messages" => Known(replay) = {}
  /\ Unrepeated(replay) /\ \A n \in Known(replay) : n \notin Passed

KeptOnce ==
  step # "messages" =>
    Unrepeated(lostMessages) /\ \A n \in Known(lostMessages) : n \notin Passed

ToldLast ==
  /\ \A n \in Passed \cup Known(replay) \cup Known(lostMessages) :
       n \in Nat /\ n <= incoming /\ n \notin Told(task)
  /\ Told(task) \subseteq {incoming}

OnceInv == PassedOnce /\ ReplayedOnce /\ KeptOnce /\ ToldLast

LEMMA UnrepeatedAppend ==
  ASSUME NEW S, NEW q \in Seq(S), NEW e \in S, Unrepeated(q),
         e.type = "message" => e.number \notin Known(q)
  PROVE  Unrepeated(Append(q, e))
<1> DEFINE r == Append(q, e)
<1>1. /\ Len(q) \in Nat /\ DOMAIN q = 1 .. Len(q) /\ DOMAIN r = 1 .. Len(q) + 1
      /\ \A k \in DOMAIN q : r[k] = q[k]
      /\ r[Len(q) + 1] = e
  BY AppendPlaces
<1> HIDE DEF r
<1>2. \A i \in DOMAIN q : q[i].type = "message" => q[i].number \in Known(q)
  BY DEF Known, Numbers, Members
<1>3. \A i \in DOMAIN r : i \in DOMAIN q \/ i = Len(q) + 1
  BY <1>1
<1>4. Unrepeated(r)
  BY <1>1, <1>2, <1>3 DEF Unrepeated
<1>5. QED
  BY <1>4 DEF r

LEMMA UnrepeatedTail ==
  ASSUME NEW S, NEW q \in Seq(S), q # <<>>, Unrepeated(q)
  PROVE  /\ Unrepeated(Tail(q))
         /\ Head(q).type = "message" => Head(q).number \notin Known(Tail(q))
<1>1. /\ 1 \in DOMAIN q /\ Head(q) = q[1]
      /\ \A i \in DOMAIN Tail(q) : i \in Nat /\ i + 1 \in DOMAIN q /\ Tail(q)[i] = q[i + 1]
      /\ \A i \in DOMAIN Tail(q) : i # 0
  BY TailPlaces, LenProperties
<1>2. ASSUME NEW i \in DOMAIN Tail(q), NEW j \in DOMAIN Tail(q), Tail(q)[i].type = "message",
             Tail(q)[j].type = "message", Tail(q)[i].number = Tail(q)[j].number
      PROVE  i = j
  <2>1. i + 1 = j + 1
    BY <1>1, <1>2 DEF Unrepeated
  <2>2. QED
    BY <1>1, <2>1
<1>3. ASSUME Head(q).type = "message", NEW i \in DOMAIN Tail(q), Tail(q)[i].type = "message"
      PROVE  Tail(q)[i].number # Head(q).number
  <2>1. i + 1 \in DOMAIN q /\ i + 1 # 1 /\ Tail(q)[i] = q[i + 1]
    BY <1>1
  <2>2. QED
    BY <1>1, <1>3, <2>1 DEF Unrepeated
<1>4. QED
  BY <1>2, <1>3 DEF Unrepeated, Known, Numbers, Members

LEMMA UnrepeatedNone == Unrepeated(<<>>) /\ Known(<<>>) = {}
BY NoNumbers DEF Unrepeated, Known

(* An event on its way to the page.                                         *)
LEMMA EmitOnce ==
  ASSUME TypeInv, PassedOnce, NEW m \in PageEvents, Emit(m), UNCHANGED delivered,
         m.type = "message" => m.number \notin Passed
  PROVE  /\ PassedOnce'
         /\ Passed' = IF m.type = "message" THEN Passed \cup {m.number} ELSE Passed
<1>1. toPage \in Seq(PageEvents) /\ toPage' = Append(toPage, m)
  BY Types DEF Emit
<1>2. Known(toPage') = IF m.type = "message" THEN Known(toPage) \cup {m.number} ELSE Known(toPage)
  BY EmitNumbers DEF Known
<1>3. Unrepeated(toPage')
  BY <1>1, UnrepeatedAppend DEF PassedOnce, Passed
<1>4. QED
  BY <1>2, <1>3 DEF PassedOnce, Passed, DispatchedOnce

LEMMA InitOnce == Init => OnceInv
<1> SUFFICES ASSUME Init PROVE OnceInv
  OBVIOUS
<1>1. Known(toPage) = {} /\ Unrepeated(toPage)
  BY DEF Init, Known, Numbers, Members, Unrepeated
<1>2. Members(delivered) = {} /\ Known(replay) = {} /\ Known(lostMessages) = {}
      /\ Unrepeated(replay) /\ Unrepeated(lostMessages) /\ Told(task) = {} /\ DispatchedOnce
  BY EmptyQueue, UnrepeatedNone, ToldTask DEF Init, DispatchedOnce
<1>3. QED
  BY <1>1, <1>2 DEF OnceInv, PassedOnce, ReplayedOnce, KeptOnce, ToldLast, Passed

(* Steps that touch no message.                                             *)
LEMMA StepOnce ==
  ASSUME TypeInv, OnceInv, UNCHANGED <<delivered, incoming, lostMessages>>,
         Told(task') = Told(task), step' = "messages" <=> step = "messages",
         UNCHANGED toPage \/ \E m \in PageEvents : m.type # "message" /\ Emit(m),
         UNCHANGED replay \/ (Known(replay') = {} /\ Unrepeated(replay'))
  PROVE  OnceInv'
<1>1. PassedOnce' /\ Passed' = Passed
  <2>1. CASE UNCHANGED toPage
    BY <2>1 DEF OnceInv, PassedOnce, Passed, DispatchedOnce
  <2>2. CASE \E m \in PageEvents : m.type # "message" /\ Emit(m)
    BY <2>2, EmitOnce DEF OnceInv
  <2>3. QED
    BY <2>1, <2>2
<1>2. ReplayedOnce' /\ KeptOnce' /\ ToldLast'
  <2>1. Known(replay') \subseteq Known(replay) /\ Unrepeated(replay')
    BY DEF OnceInv, ReplayedOnce
  <2>2. QED
    BY <1>1, <2>1 DEF OnceInv, ReplayedOnce, KeptOnce, ToldLast
<1>3. QED
  BY <1>1, <1>2 DEF OnceInv

(* The page dispatches a message, which was only on its way to it.          *)
LEMMA PageEventOnce == TypeInv /\ OnceInv /\ PageEvent => OnceInv'
<1> SUFFICES ASSUME TypeInv, OnceInv, PageEvent PROVE OnceInv'
  OBVIOUS
<1> DEFINE m == Head(toPage)
<1>1. /\ m \in PageEvents /\ Unrepeated(toPage')
      /\ m.type = "message" => m.number \notin Known(toPage')
  BY Types, TailMembers, UnrepeatedTail DEF PageEvent, OnceInv, PassedOnce
<1>2. Known(toPage) = IF m.type = "message" THEN Known(toPage') \cup {m.number}
                      ELSE Known(toPage')
  BY Types, TailNumbers DEF PageEvent, Known
<1>3. /\ UNCHANGED <<queue, lost, task, incoming>>
      /\ \/ m.type = "message" /\ delivered' = Append(delivered, m.number)
         \/ m.type # "message" /\ UNCHANGED delivered
  BY DEF PageEvent, webrtc
<1> HIDE DEF m
<1>4. PassedOnce' /\ Passed' = Passed
  <2>1. CASE m.type # "message" /\ UNCHANGED delivered
    BY <1>1, <1>2, <2>1 DEF OnceInv, PassedOnce, Passed, DispatchedOnce
  <2>2. CASE m.type = "message" /\ delivered' = Append(delivered, m.number)
    <3> DEFINE n == m.number
    <3>1. n \in 1 .. NMessages /\ delivered \in Seq(1 .. NMessages)
      BY <1>1, <2>2, Records, Types
    <3>2. n \notin Members(delivered) /\ Known(toPage) = Known(toPage') \cup {n}
      BY <1>2, <2>2 DEF OnceInv, PassedOnce
    <3>3. delivered' = Append(delivered, n)
      BY <2>2
    <3>4. n \notin Known(toPage')
      BY <1>1, <2>2
    <3> HIDE DEF n
    <3>5. Members(delivered') = Members(delivered) \cup {n}
      <4> DEFINE S == 1 .. NMessages
      <4>1. n \in S /\ delivered \in Seq(S)
        BY <3>1
      <4> HIDE DEF S
      <4>2. Members(Append(delivered, n)) = Members(delivered) \cup {n}
        BY <4>1, AppendMembers
      <4>3. QED
        BY <3>3, <4>2
    <3>6. /\ Len(delivered) \in Nat /\ DOMAIN delivered = 1 .. Len(delivered)
          /\ \A i \in DOMAIN delivered' : i \in DOMAIN delivered \/ i = Len(delivered) + 1
          /\ \A i \in DOMAIN delivered : delivered'[i] = delivered[i]
          /\ delivered'[Len(delivered) + 1] = n
      BY <3>1, <3>3, AppendPlaces
    <3>7. \A i \in DOMAIN delivered : delivered[i] # n
      BY <3>2 DEF Members
    <3>8. DispatchedOnce'
      BY <3>6, <3>7 DEF OnceInv, PassedOnce, DispatchedOnce
    <3>9. QED
      BY <1>1, <3>2, <3>4, <3>5, <3>8 DEF OnceInv, PassedOnce, Passed
  <2>3. QED
    BY <1>3, <2>1, <2>2
<1>5. QED
  BY <1>3, <1>4 DEF OnceInv, ReplayedOnce, KeptOnce, ToldLast, queue, lost

(* The loop sends a kept message, which the delegate cannot send as well.   *)
LEMMA ReplayOnce == TypeInv /\ OnceInv /\ Replay => OnceInv'
<1> SUFFICES ASSUME TypeInv, OnceInv, Replay PROVE OnceInv'
  OBVIOUS
<1> DEFINE m == Head(replay)
<1>1. /\ replay # <<>> /\ replay' = Tail(replay) /\ replay \in Seq(Events) /\ Emit(m)
      /\ UNCHANGED <<step, delivered, lost, task, incoming>>
  BY Types DEF Replay, page, webrtc
<1>2. /\ m \in Events /\ m \in PageEvents /\ Unrepeated(replay')
      /\ m.type = "message" => m.number \notin Known(replay')
  <2>1. m \in Events
    BY <1>1, TailMembers
  <2>2. QED
    BY <1>1, <2>1, Records, UnrepeatedTail DEF OnceInv, ReplayedOnce
<1>3. Known(replay) = IF m.type = "message" THEN Known(replay') \cup {m.number} ELSE Known(replay')
  BY <1>1, TailNumbers DEF Known
<1> HIDE DEF m
<1>4. m.type = "message" => m.number \notin Passed /\ step = "messages"
  BY <1>3 DEF OnceInv, ReplayedOnce
<1>5. /\ PassedOnce'
      /\ Passed' = IF m.type = "message" THEN Passed \cup {m.number} ELSE Passed
  BY <1>1, <1>2, <1>4, EmitOnce DEF OnceInv
<1>6. ReplayedOnce'
  BY <1>1, <1>2, <1>3, <1>4, <1>5 DEF OnceInv, ReplayedOnce
<1>7. KeptOnce'
  BY <1>1, <1>4, <1>5 DEF OnceInv, KeptOnce, lost
<1>8. ToldLast'
  BY <1>1, <1>3, <1>5 DEF OnceInv, ToldLast, lost
<1>9. QED
  BY <1>5, <1>6, <1>7, <1>8 DEF OnceInv

LEMMA ClearStatesOnce == TypeInv /\ OnceInv /\ ClearStates => OnceInv'
<1> SUFFICES ASSUME TypeInv, OnceInv, ClearStates PROVE OnceInv'
  OBVIOUS
<1>1. /\ UNCHANGED <<delivered, toPage, lostMessages, task, incoming>>
      /\ step = "states" /\ step' = "messages" /\ replay' = lostMessages
  BY DEF ClearStates, page, webrtc
<1>2. PassedOnce' /\ Passed' = Passed
  BY <1>1 DEF OnceInv, PassedOnce, Passed, DispatchedOnce
<1>3. QED
  BY <1>1, <1>2 DEF OnceInv, ReplayedOnce, KeptOnce, ToldLast

LEMMA ClearMessagesOnce == TypeInv /\ OnceInv /\ ClearMessages => OnceInv'
<1> SUFFICES ASSUME TypeInv, OnceInv, ClearMessages PROVE OnceInv'
  OBVIOUS
<1>1. /\ UNCHANGED <<delivered, toPage, replay, task, incoming>> /\ replay = <<>>
      /\ lostMessages' = <<>>
  BY DEF ClearMessages, page, webrtc
<1>2. PassedOnce' /\ Passed' = Passed
  BY <1>1 DEF OnceInv, PassedOnce, Passed, DispatchedOnce
<1>3. Known(replay) = {} /\ Known(lostMessages') = {} /\ Unrepeated(lostMessages')
  BY <1>1, UnrepeatedNone
<1>4. QED
  BY <1>1, <1>2, <1>3 DEF OnceInv, ReplayedOnce, KeptOnce, ToldLast

LEMMA MessageArrivesOnce == TypeInv /\ OnceInv /\ MessageArrives => OnceInv'
<1> SUFFICES ASSUME TypeInv, OnceInv, MessageArrives PROVE OnceInv'
  OBVIOUS
<1> DEFINE n == incoming + 1
           t == [event |-> Message(n), heard |-> listener]
<1>1. /\ UNCHANGED <<delivered, toPage, queue, lost>> /\ incoming' = n
      /\ task' = <<>> \/ task' = <<t>>
      /\ n \in 1 .. NMessages /\ incoming \in Nat
  BY Types DEF MessageArrives, Tell, page
<1>2. Told(task') \subseteq {n}
  <2>1. t.event.type = "message" /\ t.event.number = n
    BY <1>1, Records
  <2> HIDE DEF t
  <2>2. QED
    BY <1>1, <2>1, ToldTask
<1>3. PassedOnce' /\ Passed' = Passed
  BY <1>1 DEF OnceInv, PassedOnce, Passed, DispatchedOnce
<1>4. ToldLast'
  <2>1. \A x \in Nat : x <= incoming => x <= n /\ x # n
    BY <1>1
  <2> HIDE DEF n
  <2>2. QED
    BY <1>1, <1>2, <1>3, <2>1 DEF OnceInv, ToldLast, queue, lost
<1>5. QED
  BY <1>1, <1>3, <1>4 DEF OnceInv, ReplayedOnce, KeptOnce, queue, lost

(* The delegate sends its message or keeps it.                              *)
LEMMA DelegateActsOnce == TypeInv /\ OnceInv /\ DelegateActs => OnceInv'
<1> SUFFICES ASSUME TypeInv, OnceInv, DelegateActs PROVE OnceInv'
  OBVIOUS
<1> DEFINE m == Head(task).event
<1>1. /\ UNCHANGED <<page, queue, incoming>> /\ task # <<>> /\ task' = <<>>
      /\ \/ Emit(m) /\ UNCHANGED lostMessages
         \/ m.type # "message" /\ UNCHANGED <<toPage, lostMessages>>
         \/ m.type = "message" /\ lostMessages' = Append(lostMessages, m) /\ UNCHANGED toPage
  BY DEF DelegateActs, lost, webrtc
<1>2. /\ m \in Events /\ m \in PageEvents /\ (m.type = "message" => m \in MessageEvents)
      /\ Told(task) = IF m.type = "message" THEN {m.number} ELSE {}
  <2>1. m \in Events /\ task = <<Head(task)>>
    BY <1>1, HeadTask
  <2>2. Told(task) = IF m.type = "message" THEN {m.number} ELSE {}
    BY <2>1, ToldTask
  <2>3. QED
    BY <2>1, <2>2, Records
<1>3. Told(task') = {}
  BY <1>1, ToldTask
<1> HIDE DEF m
<1>4. m.type = "message" =>
        /\ m.number \notin Passed \cup Known(replay) \cup Known(lostMessages)
        /\ m.number = incoming /\ m.number \in Nat
  BY <1>2, Types DEF OnceInv, ToldLast
<1>5. CASE Emit(m) /\ UNCHANGED lostMessages
  <2>1. /\ PassedOnce'
        /\ Passed' = IF m.type = "message" THEN Passed \cup {m.number} ELSE Passed
    BY <1>1, <1>2, <1>4, <1>5, EmitOnce DEF OnceInv, page
  <2>2. ReplayedOnce' /\ KeptOnce'
    BY <1>1, <1>4, <1>5, <2>1 DEF OnceInv, ReplayedOnce, KeptOnce, queue
  <2>3. ToldLast'
    BY <1>1, <1>3, <1>4, <1>5, <2>1 DEF OnceInv, ToldLast, queue
  <2>4. QED
    BY <2>1, <2>2, <2>3 DEF OnceInv
<1>6. ASSUME UNCHANGED toPage PROVE PassedOnce' /\ Passed' = Passed /\ ReplayedOnce'
  BY <1>1, <1>6 DEF OnceInv, PassedOnce, Passed, DispatchedOnce, ReplayedOnce, page, queue
<1>7. CASE m.type # "message" /\ UNCHANGED <<toPage, lostMessages>>
  BY <1>1, <1>3, <1>6, <1>7 DEF OnceInv, KeptOnce, ToldLast, queue
<1>8. CASE m.type = "message" /\ lostMessages' = Append(lostMessages, m) /\ UNCHANGED toPage
  <2>1. lostMessages \in Seq(MessageEvents) /\ m \in MessageEvents
    BY <1>2, <1>8, Types
  <2>2. Known(lostMessages') = Known(lostMessages) \cup {m.number}
    BY <1>8, <2>1, AppendNumbers DEF Known
  <2>3. Unrepeated(lostMessages) => Unrepeated(lostMessages')
    BY <1>4, <1>8, <2>1, UnrepeatedAppend
  <2>4. KeptOnce'
    BY <1>1, <1>4, <1>6, <1>8, <2>2, <2>3 DEF OnceInv, KeptOnce, queue
  <2>5. ToldLast'
    BY <1>1, <1>3, <1>4, <1>6, <1>8, <2>2, Types DEF OnceInv, ToldLast, queue
  <2>6. QED
    BY <1>6, <1>8, <2>4, <2>5 DEF OnceInv
<1>9. QED
  BY <1>1, <1>5, <1>7, <1>8

LEMMA NextOnce == TypeInv /\ OnceInv /\ [Next]_vars => OnceInv'
<1> SUFFICES ASSUME TypeInv, OnceInv, [Next]_vars PROVE OnceInv'
  OBVIOUS
<1> USE DEF page, queue, lost, webrtc
<1>1. CASE UNCHANGED vars \/ PageSend \/ PageClose \/ Create \/ CreateFails \/ Attach \/ Send
  BY <1>1, StepOnce DEF vars, PageSend, PageClose, Create, CreateFails, Attach, Send, Begin
<1>2. CASE Announce
  <2>1. [type |-> "new", state |-> state] \in PageEvents
    BY <1>2, Types, Records DEF Announce, TypeInv, Steps
  <2>2. QED
    BY <1>2, <2>1, StepOnce DEF Announce
<1>3. CASE TestState
  <2>1. Known(<<State(state)>>) = {} /\ Unrepeated(<<State(state)>>)
    BY DEF Known, Numbers, Members, State, Unrepeated
  <2>2. QED
    BY <1>3, <2>1, StepOnce DEF TestState
<1>4. CASE ReportState
  <2>1. replay # <<>> /\ replay \in Seq(Events)
    BY <1>4, Types DEF ReportState, TypeInv, Steps
  <2>2. Head(replay) \in PageEvents /\ Head(replay) \in Members(replay)
    BY <2>1, TailMembers, Records
  <2>3. Head(replay).type = "message" => Head(replay).number \in Known(replay)
    BY <2>2 DEF Known, Numbers
  <2>4. Head(replay).type # "message"
    BY <1>4, <2>3 DEF ReportState, OnceInv, ReplayedOnce
  <2>5. QED
    BY <1>4, <2>2, <2>4, UnrepeatedNone, StepOnce DEF ReportState
<1>5. CASE SetListener
  <2>1. \A m \in Members(lostStates) : m.type # "message"
    BY Types, EventRecords, MembersType
  <2>2. Known(lostStates) = {} /\ Unrepeated(lostStates)
    BY <2>1 DEF Known, Numbers, Unrepeated, Members
  <2>3. QED
    BY <1>5, <2>2, StepOnce DEF SetListener, Begin
<1>6. CASE Close
  <2>1. State("closing") \in PageEvents /\ State("closing").type # "message"
    BY Records DEF States
  <2>2. QED
    BY <1>6, <2>1, StepOnce DEF Close
<1>7. CASE StateChanges
  <2> DEFINE t == [event |-> State(state'), heard |-> listener]
  <2>1. /\ UNCHANGED <<page, toPage, queue, lost, incoming>>
        /\ task = <<>> /\ (task' = <<>> \/ task' = <<t>>)
    BY <1>7 DEF StateChanges, Tell
  <2>2. t.event.type = "state"
    BY DEF State
  <2> HIDE DEF t
  <2>3. Told(task') = Told(task)
    BY <2>1, <2>2, ToldTask
  <2>4. QED
    BY <2>1, <2>3, StepOnce
<1>8. QED
  BY <1>1, <1>2, <1>3, <1>4, <1>5, <1>6, <1>7, PageEventOnce, ReplayOnce, ClearStatesOnce,
     ClearMessagesOnce, MessageArrivesOnce, DelegateActsOnce DEF Next, QueueStep

(* However setListener and the delegate interleave, no message is           *)
(* dispatched both from the list of kept messages and by the delegate.      *)
THEOREM NoneTwice == Spec => []DispatchedOnce
<1>1. OnceInv => DispatchedOnce
  BY DEF OnceInv, PassedOnce
<1>2. QED
  BY <1>1, InitOnce, NextOnce, TypeHolds, PTL DEF Spec
=============================================================================
