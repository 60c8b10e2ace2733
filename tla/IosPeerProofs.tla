--------------------------- MODULE IosPeerProofs ---------------------------
(***************************************************************************)
(* Proofs about IosPeer for every number of calls.                          *)
(***************************************************************************)
EXTENDS IosPeer, QueueProofs

Deferrable == Exec \cup {DISPOSE}
Blocks == [type : {"run"}, exec : Exec] \cup Messages

LEMMA CallNumbers ==
  /\ NCalls \in Nat /\ Call \subseteq Nat /\ Exec \subseteq Nat /\ Call \subseteq Exec
  /\ NewConn \in Exec /\ NewConn \notin Call /\ DISPOSE \in Nat /\ DISPOSE \notin Exec
  /\ \A c \in Exec : c < DISPOSE
  /\ Deferrable \subseteq Nat /\ Exec \subseteq Deferrable /\ DISPOSE \in Deferrable
BY IosAssumption DEF Deferrable, Call, Exec, NewConn, DISPOSE

LEMMA BlockTypes ==
  /\ \A c \in Exec : Run(c) \in Blocks /\ Run(c).type = "run" /\ Run(c).exec = c
  /\ \A c, d \in Call, ok \in BOOLEAN :
       /\ Answer(c, ok, d) \in Messages /\ Answer(c, ok, d) \in Blocks
       /\ Answer(c, ok, d).type = "answer" /\ Answer(c, ok, d).exec = c
       /\ Answer(c, ok, d).of = d /\ Answer(c, ok, d).ok = ok
  /\ \A d \in Call, b \in BOOLEAN :
       /\ Event(d, b) \in Messages /\ Event(d, b) \in Blocks
       /\ Event(d, b).type = "event" /\ Event(d, b).exec = NewConn /\ Event(d, b).of = d
       /\ Event(d, b).closed = b
  /\ Messages \subseteq Blocks
  /\ \A m \in Messages : /\ m.type \in {"answer", "event"} /\ m.of \in Call
                         /\ m.type = "answer" => m.exec \in Call /\ m.ok \in BOOLEAN
                         /\ m.type = "event" => m.exec = NewConn /\ m.closed \in BOOLEAN
  /\ \A m \in Blocks : /\ m.type = "run" => m.exec \in Exec /\ m = Run(m.exec)
                       /\ m.type # "run" => m \in Messages
BY DEF Blocks, Messages, Run, Answer, Event

LEMMA SlotTypes == \A k : SlotOf(k) \in Slots
BY DEF SlotOf, Slots

(***************************************************************************)
(* The main queue.                                                         *)
(***************************************************************************)
LEMMA MainAppend ==
  ASSUME main \in Seq(Blocks), NEW m \in Blocks, main' = Append(main, m)
  PROVE  /\ main' \in Seq(Blocks) /\ Members(main') = Members(main) \cup {m}
         /\ InMain' = IF m.type = "run" THEN InMain \cup {m.exec} ELSE InMain
BY AppendMembers DEF InMain

LEMMA MainTail ==
  ASSUME main \in Seq(Blocks), main # <<>>, main' = Tail(main)
  PROVE  /\ main' \in Seq(Blocks) /\ Head(main) \in Blocks
         /\ Members(main) = Members(main') \cup {Head(main)}
         /\ InMain = IF Head(main).type = "run" THEN InMain' \cup {Head(main).exec} ELSE InMain'
<1>1. /\ main' \in Seq(Blocks) /\ Head(main) \in Blocks
      /\ Members(main) = Members(main') \cup {Head(main)}
  BY TailMembers
<1>2. InMain = IF Head(main).type = "run" THEN InMain' \cup {Head(main).exec} ELSE InMain'
  BY <1>1 DEF InMain
<1>3. QED
  BY <1>1, <1>2

LEMMA MainEmit ==
  ASSUME main \in Seq(Blocks), NEW m \in Messages, Emit(m)
  PROVE  /\ main' \in Seq(Blocks) /\ InMain' = InMain
         /\ Members(main') \subseteq Members(main) \cup {m} /\ Members(main) \subseteq Members(main')
<1>1. m \in Blocks /\ m.type # "run"
  BY BlockTypes
<1>2. CASE plugin
  BY <1>1, <1>2, MainAppend DEF Emit
<1>3. CASE ~ plugin
  BY <1>3 DEF Emit, InMain
<1>4. QED
  BY <1>2, <1>3

LEMMA SameMain == UNCHANGED main => InMain' = InMain
BY DEF InMain

(***************************************************************************)
(* Types.  A completion handler finds closures in its slot because only    *)
(* operations that have put theirs there are in the chain, and no call     *)
(* changes its kind afterwards.                                            *)
(***************************************************************************)
MadeBefore(A) == \A c \in A : c <= made

CallsMade ==
  /\ MadeBefore(Members(chain)) /\ MadeBefore(Members(queue)) /\ MadeBefore(InMain)
  /\ MadeBefore(Members(onReady) \ {DISPOSE}) /\ MadeBefore(Members(execs))

ChainFilled ==
  \A c \in Members(chain) :
    kind[c] \in Creations \cup Descriptions /\ slot[SlotOf(kind[c])] \in Call

TypeInv == TypeOK /\ CallsMade /\ ChainFilled

LEMMA InitTypeInv == Init => TypeInv
<1> SUFFICES ASSUME Init PROVE TypeInv
  OBVIOUS
<1>1. /\ \A S : <<>> \in Seq(S)
      /\ <<NewConn>> \in Seq(Exec)
      /\ 0 \in 0 .. NCalls
  BY CallNumbers, EmptySeq
<1>4. TypeOK
  BY <1>1 DEF Init, TypeOK
<1>2. /\ Members(chain) = {} /\ Members(queue) = {} /\ Members(onReady) = {} /\ InMain = {}
      /\ Members(execs) = {NewConn}
  BY EmptyQueue DEF Init, InMain, Members
<1>3. QED
  BY <1>2, <1>4, CallNumbers DEF Init, TypeInv, CallsMade, ChainFilled, MadeBefore, NewConn

LEMMA PageCallType ==
  ASSUME TypeInv, NEW k \in Kinds, PageCall(k)
  PROVE  TypeInv'
<1>1. made + 1 \in Call /\ made \in Nat /\ made' = made + 1 /\ made' \in 0 .. NCalls
  BY IosAssumption DEF PageCall, TypeInv, TypeOK, Call
<1>2. /\ execs' \in Seq(Exec)
      /\ execs' = execs \/ Members(execs') = Members(execs) \cup {made + 1}
  <2>1. execs \in Seq(Exec) /\ made' \in Exec
    BY <1>1, CallNumbers DEF TypeInv, TypeOK
  <2>2. execs' = execs \/ execs' = Append(execs, made')
    BY DEF PageCall
  <2>3. QED
    BY <1>1, <2>1, <2>2, MayAppend
<1>3. kind' \in [Call -> Kinds \cup {"none"}] /\ \A c \in Call : c # made + 1 => kind'[c] = kind[c]
  BY <1>1 DEF PageCall, TypeInv, TypeOK
<1>4. promise' \in [Call -> {"none", "pending", "fulfilled", "rejected"}]
  BY <1>1 DEF PageCall, TypeInv, TypeOK
<1>5. UNCHANGED <<pageClosed, edt, waiting, main, plugin, listed, queue, peer, results>>
  BY DEF PageCall
<1>6. TypeOK'
  BY <1>1, <1>2, <1>3, <1>4, <1>5 DEF TypeInv, TypeOK, edt, peer
<1>7. InMain' = InMain
  BY <1>5, SameMain
<1>8. CallsMade'
  <2>1. /\ Members(chain) \subseteq Nat /\ Members(queue) \subseteq Nat /\ InMain \subseteq Nat
        /\ Members(onReady) \subseteq Nat /\ Members(execs) \subseteq Nat
    <3>1. /\ chain \in Seq(Call) /\ queue \in Seq(Call) /\ main \in Seq(Blocks)
          /\ onReady \in Seq(Deferrable) /\ execs \in Seq(Exec)
      BY DEF TypeInv, TypeOK, Blocks, Deferrable
    <3>2. InMain \subseteq Exec
      BY <3>1, MembersType, BlockTypes DEF InMain
    <3>3. QED
      BY <3>1, <3>2, CallNumbers, MembersType
  <2>2. \A c \in Nat : c <= made => c <= made'
    BY <1>1
  <2>3. QED
    BY <1>1, <1>2, <1>5, <1>7, <2>1, <2>2 DEF TypeInv, CallsMade, MadeBefore, edt, peer
<1>9. ChainFilled'
  <2>1. \A c \in Members(chain) : c \in Call /\ c # made + 1
    BY <1>1, CallNumbers, MembersType DEF TypeInv, TypeOK, CallsMade, MadeBefore
  <2>2. QED
    BY <1>3, <1>5, <2>1 DEF TypeInv, ChainFilled, peer
<1>10. QED
  BY <1>6, <1>8, <1>9 DEF TypeInv

LEMMA PageResultType == TypeInv /\ PageResult => TypeInv'
<1> SUFFICES ASSUME TypeInv, PageResult PROVE TypeInv'
  OBVIOUS
<1>1. Head(results) \in Messages /\ results' \in Seq(Messages)
  BY TailMembers DEF PageResult, TypeInv, TypeOK
<1>2. promise' \in [Call -> {"none", "pending", "fulfilled", "rejected"}] /\ pageClosed' \in BOOLEAN
  <2> DEFINE m == Head(results)
  <2>1. /\ m.type = "answer" => m.exec \in Call
        /\ m.type = "event" => m.closed \in BOOLEAN
    BY <1>1, BlockTypes
  <2>2. /\ promise \in [Call -> {"none", "pending", "fulfilled", "rejected"}]
        /\ pageClosed \in BOOLEAN
    BY DEF TypeInv, TypeOK
  <2>3. \/ /\ m.type = "answer"
           /\ promise' = promise \/ promise' = [promise EXCEPT ![m.exec] = "fulfilled"]
                \/ promise' = [promise EXCEPT ![m.exec] = "rejected"]
           /\ UNCHANGED pageClosed
        \/ /\ m.type = "event"
           /\ pageClosed' = (pageClosed \/ m.closed)
           /\ UNCHANGED promise
    BY DEF PageResult
  <2> HIDE DEF m
  <2>4. QED
    BY <2>1, <2>2, <2>3
<1>3. UNCHANGED <<made, kind, execs, edt, waiting, main, plugin, listed, queue, peer>>
  BY DEF PageResult
<1>4. TypeOK'
  BY <1>1, <1>2, <1>3 DEF TypeInv, TypeOK, edt, peer
<1>5. CallsMade' /\ ChainFilled'
  BY <1>3, SameMain DEF TypeInv, CallsMade, ChainFilled, MadeBefore, edt, peer
<1>6. QED
  BY <1>4, <1>5 DEF TypeInv

LEMMA EdtExecType == TypeInv /\ EdtExec => TypeInv'
<1> SUFFICES ASSUME TypeInv, EdtExec PROVE TypeInv'
  OBVIOUS
<1> DEFINE c == Head(execs)
<1>1. /\ c \in Exec /\ execs' \in Seq(Exec) /\ execs \in Seq(Exec)
      /\ Members(execs) = Members(execs') \cup {c}
      /\ c # NewConn => c \in Call
  BY TailMembers DEF EdtExec, TypeInv, TypeOK, Exec
<1>2. /\ UNCHANGED <<page, ready, disposed, plugin, listed, queue, peer>>
      /\ \/ /\ results' = results \/ (c # NewConn /\ results' = Append(results, Answer(c, FALSE, c)))
            /\ UNCHANGED <<onReady, waiting, main>>
         \/ onReady' = Append(onReady, c) /\ UNCHANGED <<waiting, main, results>>
         \/ Execute(c) /\ UNCHANGED <<onReady, results>>
  BY DEF EdtExec
<1> HIDE DEF c
<1>3. results' \in Seq(Messages)
  <2>1. results \in Seq(Messages) /\ (c # NewConn => Answer(c, FALSE, c) \in Messages)
    BY <1>1, BlockTypes DEF TypeInv, TypeOK
  <2>2. QED
    BY <1>2, <2>1, MayAppend
<1>4. /\ onReady' \in Seq(Deferrable)
      /\ onReady' = onReady \/ Members(onReady') = Members(onReady) \cup {c}
  <2>1. onReady \in Seq(Deferrable) /\ c \in Deferrable
    BY <1>1, CallNumbers DEF TypeInv, TypeOK, Deferrable
  <2>2. onReady' = onReady \/ onReady' = Append(onReady, c)
    BY <1>2
  <2>3. QED
    BY <2>1, <2>2, MayAppend
<1>5. /\ main' \in Seq(Blocks) /\ waiting' \subseteq Exec
      /\ InMain' = InMain \/ InMain' = InMain \cup {c}
  <2>1. CASE Execute(c)
    BY <1>1, <2>1, BlockTypes, MainAppend DEF Execute, TypeInv, TypeOK, Blocks, Deferrable
  <2>2. CASE UNCHANGED <<waiting, main>>
    BY <2>2, SameMain DEF TypeInv, TypeOK, Blocks, Deferrable
  <2>3. QED
    BY <1>2, <2>1, <2>2
<1>6. TypeOK'
  BY <1>1, <1>2, <1>3, <1>4, <1>5 DEF TypeInv, TypeOK, Blocks, Deferrable, page, peer
<1>7. CallsMade' /\ ChainFilled'
  BY <1>1, <1>2, <1>4, <1>5 DEF TypeInv, CallsMade, ChainFilled, MadeBefore, page, peer
<1>8. QED
  BY <1>6, <1>7 DEF TypeInv

LEMMA PluginReadyType == TypeInv /\ PluginReady => TypeInv'
BY SameMain
DEF PluginReady, TypeInv, TypeOK, CallsMade, ChainFilled, MadeBefore, page, peer

LEMMA RunDeferredType == TypeInv /\ RunDeferred => TypeInv'
<1> SUFFICES ASSUME TypeInv, RunDeferred PROVE TypeInv'
  OBVIOUS
<1> DEFINE c == Head(onReady)
<1>1. /\ c \in Deferrable /\ onReady' \in Seq(Deferrable)
      /\ Members(onReady) = Members(onReady') \cup {c}
  BY TailMembers DEF RunDeferred, Deferring, TypeInv, TypeOK, Deferrable
<1>2. /\ UNCHANGED <<page, execs, ready, disposed, listed, queue, peer, results>>
      /\ \/ c = DISPOSE /\ plugin' = FALSE /\ UNCHANGED <<waiting, main>>
         \/ c # DISPOSE /\ Execute(c) /\ UNCHANGED plugin
  BY DEF RunDeferred
<1> HIDE DEF c
<1>3. /\ main' \in Seq(Blocks) /\ waiting' \subseteq Exec
      /\ InMain' = InMain \/ (c # DISPOSE /\ InMain' = InMain \cup {c})
  <2>1. CASE c # DISPOSE /\ Execute(c)
    BY <1>1, <2>1, BlockTypes, MainAppend DEF Execute, TypeInv, TypeOK, Blocks, Deferrable
  <2>2. CASE UNCHANGED <<waiting, main>>
    BY <2>2, SameMain DEF TypeInv, TypeOK, Blocks, Deferrable
  <2>3. QED
    BY <1>2, <2>1, <2>2
<1>4. TypeOK'
  BY <1>1, <1>2, <1>3 DEF TypeInv, TypeOK, Blocks, Deferrable, page, peer
<1>5. CallsMade' /\ ChainFilled'
  BY <1>1, <1>2, <1>3 DEF TypeInv, CallsMade, ChainFilled, MadeBefore, page, peer
<1>6. QED
  BY <1>4, <1>5 DEF TypeInv

LEMMA DisposeType == TypeInv /\ Dispose => TypeInv'
<1> SUFFICES ASSUME TypeInv, Dispose PROVE TypeInv'
  OBVIOUS
<1>1. /\ onReady' \in Seq(Deferrable)
      /\ Members(onReady') \ {DISPOSE} = Members(onReady) \ {DISPOSE}
  <2>1. onReady \in Seq(Deferrable) /\ DISPOSE \in Deferrable
    BY CallNumbers DEF TypeInv, TypeOK, Deferrable
  <2>2. onReady' = onReady \/ onReady' = Append(onReady, DISPOSE)
    BY DEF Dispose
  <2>3. QED
    BY <2>1, <2>2, MayAppend
<1>2. /\ UNCHANGED <<page, execs, ready, waiting, main, listed, queue, peer, results>>
      /\ disposed' \in BOOLEAN /\ plugin' \in BOOLEAN
  BY DEF Dispose, TypeInv, TypeOK
<1>3. TypeOK'
  BY <1>1, <1>2 DEF TypeInv, TypeOK, Deferrable, page, peer
<1>4. CallsMade' /\ ChainFilled'
  BY <1>1, <1>2, SameMain DEF TypeInv, CallsMade, ChainFilled, MadeBefore, page, peer
<1>5. QED
  BY <1>3, <1>4 DEF TypeInv

LEMMA MainStepType == TypeInv /\ MainStep => TypeInv'
<1> SUFFICES ASSUME TypeInv, MainStep PROVE TypeInv'
  OBVIOUS
<1> DEFINE m == Head(main)
<1>1. /\ main' \in Seq(Blocks) /\ m \in Blocks
      /\ InMain = IF m.type = "run" THEN InMain' \cup {m.exec} ELSE InMain'
  BY MainTail DEF MainStep, TypeInv, TypeOK, Blocks, Deferrable
<1>2. /\ UNCHANGED <<page, execs, edt, plugin, peer>>
      /\ \/ m.type = "run" /\ RunExec(m.exec)
         \/ m.type # "run" /\ Send(m)
  BY DEF MainStep
<1> HIDE DEF m
<1>3. CASE m.type = "run" /\ RunExec(m.exec)
  <2>1. m.exec \in Exec
    BY <1>1, <1>3, BlockTypes
  <2>2. /\ listed' \in BOOLEAN /\ UNCHANGED <<waiting, results>>
        /\ queue' \in Seq(Call)
        /\ queue' = queue \/ Members(queue') = Members(queue) \cup {m.exec}
    <3>1. queue \in Seq(Call) /\ listed \in BOOLEAN /\ (m.exec # NewConn => m.exec \in Call)
      BY <2>1 DEF TypeInv, TypeOK, Exec
    <3>2. /\ listed' = listed \/ listed' = TRUE
          /\ UNCHANGED <<waiting, results>>
          /\ queue' = queue \/ (m.exec # NewConn /\ queue' = Append(queue, m.exec))
      BY <1>3 DEF RunExec
    <3>3. CASE m.exec # NewConn
      <4>1. queue' = queue \/ queue' = Append(queue, m.exec)
        BY <3>2
      <4>2. m.exec \in Call
        BY <3>1, <3>3
      <4>3. queue' \in Seq(Call) /\ (queue' = queue \/ Members(queue') = Members(queue) \cup {m.exec})
        BY <3>1, <4>1, <4>2, MayAppend
      <4>4. QED
        BY <3>1, <3>2, <4>3
    <3>4. QED
      BY <3>1, <3>2, <3>3
  <2>3. TypeOK'
    BY <1>1, <1>2, <2>2 DEF TypeInv, TypeOK, Blocks, Deferrable, page, edt, peer
  <2>4. CallsMade' /\ ChainFilled'
    BY <1>1, <1>2, <1>3, <2>2 DEF TypeInv, CallsMade, ChainFilled, MadeBefore, page, edt, peer
  <2>5. QED
    BY <2>3, <2>4 DEF TypeInv
<1>4. CASE m.type # "run" /\ Send(m)
  <2>1. m \in Messages
    BY <1>1, <1>4, BlockTypes
  <2>2. waiting' \subseteq Exec /\ results' \in Seq(Messages) /\ UNCHANGED <<listed, queue>>
    BY <1>4, <2>1, AppendMembers DEF Send, KeepsCallback, TypeInv, TypeOK
  <2>3. TypeOK'
    BY <1>1, <1>2, <2>2 DEF TypeInv, TypeOK, Blocks, Deferrable, page, edt, peer
  <2>4. CallsMade' /\ ChainFilled'
    BY <1>1, <1>2, <1>4, <2>2 DEF TypeInv, CallsMade, ChainFilled, MadeBefore, page, edt, peer
  <2>5. QED
    BY <2>3, <2>4 DEF TypeInv
<1>5. QED
  BY <1>2, <1>3, <1>4

LEMMA QueueStepType == TypeInv /\ QueueStep => TypeInv'
<1> SUFFICES ASSUME TypeInv, QueueStep PROVE TypeInv'
  OBVIOUS
<1> DEFINE c == Head(queue)
<1>1. c \in Call /\ queue' \in Seq(Call) /\ Members(queue) = Members(queue') \cup {c}
  BY TailMembers DEF QueueStep, TypeInv, TypeOK
<1>2. /\ UNCHANGED <<page, execs, edt, waiting, plugin, applied, described, alive, results>>
      /\ \/ listed' = (listed /\ kind[c] # "close") /\ UNCHANGED <<main, slot, chain, closed>>
         \/ kind[c] \in Creations \cup Descriptions /\ BeginOperation(c)
         \/ AddIceCandidate(c)
         \/ Close(c)
  BY DEF QueueStep
<1> HIDE DEF c
<1>3. CASE kind[c] \in Creations \cup Descriptions /\ BeginOperation(c)
  <2>1. /\ chain' \in Seq(Call) /\ Members(chain') = Members(chain) \cup {c}
        /\ slot' = [slot EXCEPT ![SlotOf(kind[c])] = c] /\ UNCHANGED <<main, listed, closed>>
    BY <1>1, <1>3, AppendMembers DEF BeginOperation, TypeInv, TypeOK
  <2>2. TypeOK'
    BY <1>1, <1>2, <2>1, SlotTypes DEF TypeInv, TypeOK, page, edt
  <2>3. CallsMade'
    BY <1>1, <1>2, <2>1, SameMain DEF TypeInv, CallsMade, MadeBefore, page, edt
  <2>4. ChainFilled'
    BY <1>1, <1>2, <1>3, <2>1, SlotTypes DEF TypeInv, TypeOK, ChainFilled, page
  <2>5. QED
    BY <2>2, <2>3, <2>4 DEF TypeInv
<1>4. ASSUME /\ main' \in Seq(Blocks) /\ InMain' = InMain /\ UNCHANGED <<slot, chain>>
             /\ listed' \in BOOLEAN /\ closed' \in BOOLEAN
      PROVE  TypeInv'
  <2>1. TypeOK'
    BY <1>1, <1>2, <1>4 DEF TypeInv, TypeOK, Blocks, Deferrable, page, edt
  <2>2. CallsMade' /\ ChainFilled'
    BY <1>1, <1>2, <1>4 DEF TypeInv, CallsMade, ChainFilled, MadeBefore, page, edt
  <2>3. QED
    BY <2>1, <2>2 DEF TypeInv
<1>5. CASE listed' = (listed /\ kind[c] # "close") /\ UNCHANGED <<main, slot, chain, closed>>
  BY <1>4, <1>5, SameMain DEF TypeInv, TypeOK, Blocks, Deferrable
<1>6. CASE AddIceCandidate(c)
  BY <1>1, <1>4, <1>6, BlockTypes, MainEmit DEF AddIceCandidate, TypeInv, TypeOK, Blocks, Deferrable
<1>7. CASE Close(c)
  BY <1>1, <1>4, <1>7, BlockTypes, MainEmit DEF Close, TypeInv, TypeOK, Blocks, Deferrable
<1>8. QED
  BY <1>2, <1>3, <1>5, <1>6, <1>7

LEMMA NativeAppliesType == TypeInv /\ NativeApplies => TypeInv'
<1> SUFFICES ASSUME TypeInv, NativeApplies PROVE TypeInv'
  OBVIOUS
<1>1. Head(chain) \in Call
  BY TailMembers DEF NativeApplies, TypeInv, TypeOK
<1>2. main' \in Seq(Blocks) /\ InMain' = InMain
  <2>1. main \in Seq(Blocks) /\ Event(Head(chain), FALSE) \in Messages
    BY <1>1, BlockTypes DEF TypeInv, TypeOK, Blocks, Deferrable
  <2>2. Emit(Event(Head(chain), FALSE)) \/ UNCHANGED main
    BY DEF NativeApplies
  <2>3. QED
    BY <2>1, <2>2, MainEmit, SameMain
<1>3. TypeOK'
  BY <1>2 DEF NativeApplies, TypeInv, TypeOK, Blocks, Deferrable, page, edt
<1>4. CallsMade' /\ ChainFilled'
  BY <1>2 DEF NativeApplies, TypeInv, CallsMade, ChainFilled, MadeBefore, page, edt
<1>5. QED
  BY <1>3, <1>4 DEF TypeInv

LEMMA NativeCompletesType == TypeInv /\ NativeCompletes => TypeInv'
<1> SUFFICES ASSUME TypeInv, NativeCompletes PROVE TypeInv'
  OBVIOUS
<1> DEFINE c == Head(chain)
           a == slot[SlotOf(kind[c])]
<1>1. /\ c \in Call /\ chain' \in Seq(Call) /\ Members(chain) = Members(chain') \cup {c}
  BY TailMembers DEF NativeCompletes, TypeInv, TypeOK
<1>2. a \in Call
  BY <1>1 DEF TypeInv, ChainFilled
<1>3. PICK ok \in BOOLEAN : CallsBack(c, ok)
  BY DEF NativeCompletes
<1>4. (alive' = FALSE /\ UNCHANGED main) \/ (Emit(Answer(a, ok, c)) /\ UNCHANGED alive)
  BY <1>3 DEF CallsBack
<1>5. /\ UNCHANGED <<page, execs, edt, waiting, plugin, listed, queue, slot, described, closed, results>>
      /\ applied' = FALSE
  BY DEF NativeCompletes
<1> HIDE DEF a, c
<1>6. main' \in Seq(Blocks) /\ InMain' = InMain
  <2>1. main \in Seq(Blocks) /\ \A b \in BOOLEAN : Answer(a, b, c) \in Messages
    BY <1>1, <1>2, BlockTypes DEF TypeInv, TypeOK, Blocks, Deferrable
  <2>2. QED
    BY <1>4, <2>1, MainEmit, SameMain
<1>7. TypeOK'
  BY <1>1, <1>4, <1>5, <1>6 DEF TypeInv, TypeOK, Blocks, Deferrable, page, edt
<1>8. CallsMade' /\ ChainFilled'
  BY <1>1, <1>5, <1>6 DEF TypeInv, CallsMade, ChainFilled, MadeBefore, page, edt
<1>9. QED
  BY <1>7, <1>8 DEF TypeInv

LEMMA NextTypeInv == TypeInv /\ [Next]_vars => TypeInv'
<1> SUFFICES ASSUME TypeInv, [Next]_vars PROVE TypeInv'
  OBVIOUS
<1>1. CASE UNCHANGED vars
  BY <1>1, SameMain
  DEF vars, page, edt, peer, TypeInv, TypeOK, CallsMade, ChainFilled, MadeBefore
<1>2. CASE Next
  BY <1>2, PageCallType, PageResultType, EdtExecType, PluginReadyType, RunDeferredType,
     DisposeType, MainStepType, QueueStepType, NativeAppliesType, NativeCompletesType DEF Next
<1>3. QED
  BY <1>1, <1>2

LEMMA TypeInvHolds == Spec => []TypeInv
BY InitTypeInv, NextTypeInv, PTL DEF Spec

(* Every queue between the page and WebRTC holds what its reader expects;   *)
(* in particular a completion handler never finds an empty slot.            *)
THEOREM TypeCorrect == Spec => []TypeOK
<1>1. TypeInv => TypeOK
  BY DEF TypeInv
<1>2. QED
  BY <1>1, TypeInvHolds, PTL

(***************************************************************************)
(* Order.  A call leaves one queue from the front and enters the next one  *)
(* at the end; the EDT puts an exec on the main queue itself only when     *)
(* nothing is deferred, and dispose() is deferred after every call.        *)
(***************************************************************************)
Deferred == Members(onReady) \ {DISPOSE}

RunsIncrease ==
  \A i, j \in DOMAIN main :
    i < j /\ main[i].type = "run" /\ main[j].type = "run" => main[i].exec < main[j].exec

StagesInOrder ==
  /\ Precede(Members(chain), Members(queue)) /\ Precede(Members(chain), InMain)
  /\ Precede(Members(chain), Deferred) /\ Precede(Members(chain), Members(execs))
  /\ Precede(Members(queue), InMain) /\ Precede(Members(queue), Deferred)
  /\ Precede(Members(queue), Members(execs))
  /\ Precede(InMain, Deferred) /\ Precede(InMain, Members(execs))
  /\ Precede(Deferred, Members(execs))

OrderInv ==
  /\ Increases(chain) /\ Increases(queue) /\ Increases(onReady) /\ Increases(execs)
  /\ RunsIncrease /\ StagesInOrder
  /\ DISPOSE \in Members(onReady) => disposed

LEMMA OrderFollows == OrderInv => CallsInOrder
<1>1. DOMAIN Stages = 1 .. 5
  BY DEF Stages
<1>2. /\ Stages[1] = Members(chain) /\ Stages[2] = Members(queue) /\ Stages[3] = InMain
      /\ Stages[4] = Deferred /\ Stages[5] = Members(execs)
  BY DEF Stages, Deferred
<1>3. ASSUME StagesInOrder, NEW s \in 1 .. 5, NEW t \in 1 .. 5, s < t
      PROVE  Precede(Stages[s], Stages[t])
  <2>1. s = 1 \/ s = 2 \/ s = 3 \/ s = 4
    BY <1>3
  <2>2. CASE s = 1
    BY <1>2, <1>3, <2>2 DEF StagesInOrder
  <2>3. CASE s = 2
    BY <1>2, <1>3, <2>3 DEF StagesInOrder
  <2>4. CASE s = 3
    BY <1>2, <1>3, <2>4 DEF StagesInOrder
  <2>5. CASE s = 4
    BY <1>2, <1>3, <2>5 DEF StagesInOrder
  <2>6. QED
    BY <2>1, <2>2, <2>3, <2>4, <2>5
<1>4. QED
  BY <1>1, <1>3 DEF OrderInv, CallsInOrder, RunsIncrease

LEMMA PipelineTypes ==
  ASSUME TypeInv
  PROVE  /\ chain \in Seq(Call) /\ queue \in Seq(Call) /\ main \in Seq(Blocks)
         /\ onReady \in Seq(Deferrable) /\ execs \in Seq(Exec)
         /\ Members(chain) \subseteq Call /\ Members(queue) \subseteq Call /\ InMain \subseteq Exec
         /\ Members(onReady) \subseteq Deferrable /\ Deferred \subseteq Exec
         /\ Members(execs) \subseteq Exec
<1>1. /\ chain \in Seq(Call) /\ queue \in Seq(Call) /\ main \in Seq(Blocks)
      /\ onReady \in Seq(Deferrable) /\ execs \in Seq(Exec)
  BY DEF TypeInv, TypeOK, Blocks, Deferrable
<1>2. InMain \subseteq Exec
  BY <1>1, MembersType, BlockTypes DEF InMain
<1>3. /\ Members(chain) \subseteq Call /\ Members(queue) \subseteq Call
      /\ Members(onReady) \subseteq Deferrable /\ Members(execs) \subseteq Exec
  BY <1>1, MembersType
<1>4. QED
  BY <1>1, <1>2, <1>3 DEF Deferred, Deferrable

(* A block at the end of the main queue, and the first one taken.           *)
LEMMA RunsAppend ==
  ASSUME main \in Seq(Blocks), RunsIncrease, NEW m \in Blocks, main' = Append(main, m),
         m.type = "run" => Precede(InMain, {m.exec})
  PROVE  RunsIncrease'
<1> SUFFICES ASSUME NEW i \in DOMAIN main', NEW j \in DOMAIN main', i < j,
                    main'[i].type = "run", main'[j].type = "run"
             PROVE  main'[i].exec < main'[j].exec
  BY DEF RunsIncrease
<1>1. /\ Len(main) \in Nat /\ DOMAIN main = 1 .. Len(main) /\ DOMAIN main' = 1 .. Len(main) + 1
      /\ \A k \in DOMAIN main : main'[k] = main[k]
      /\ main'[Len(main) + 1] = m
  BY AppendPlaces
<1>2. i \in DOMAIN main
  BY <1>1
<1>3. CASE j \in DOMAIN main
  BY <1>1, <1>2, <1>3 DEF RunsIncrease
<1>4. CASE j = Len(main) + 1
  <2>1. main[i].exec \in InMain
    BY <1>1, <1>2 DEF InMain, Members
  <2>2. QED
    BY <1>1, <1>2, <1>4, <2>1 DEF Precede
<1>5. QED
  BY <1>1, <1>3, <1>4

LEMMA RunsEmit ==
  ASSUME main \in Seq(Blocks), RunsIncrease, NEW m \in Messages, Emit(m)
  PROVE  RunsIncrease'
<1>1. m \in Blocks /\ m.type # "run"
  BY BlockTypes
<1>2. CASE plugin
  BY <1>1, <1>2, RunsAppend DEF Emit
<1>3. CASE ~ plugin
  BY <1>3 DEF Emit, RunsIncrease
<1>4. QED
  BY <1>2, <1>3

LEMMA RunsTail ==
  ASSUME main \in Seq(Blocks), main # <<>>, RunsIncrease, main' = Tail(main)
  PROVE  /\ RunsIncrease'
         /\ Head(main).type = "run" => Precede({Head(main).exec}, InMain')
<1>1. /\ 1 \in DOMAIN main /\ Head(main) = main[1] /\ DOMAIN main \subseteq Nat \ {0}
      /\ \A i \in DOMAIN main' : i \in Nat /\ i + 1 \in DOMAIN main /\ main'[i] = main[i + 1]
  BY TailPlaces
<1>2. RunsIncrease'
  <2> SUFFICES ASSUME NEW i \in DOMAIN main', NEW j \in DOMAIN main', i < j,
                      main'[i].type = "run", main'[j].type = "run"
               PROVE  main'[i].exec < main'[j].exec
    BY DEF RunsIncrease
  <2>1. i + 1 < j + 1
    BY <1>1
  <2>2. QED
    BY <1>1, <2>1 DEF RunsIncrease
<1>3. ASSUME Head(main).type = "run", NEW e \in InMain' PROVE Head(main).exec < e
  <2>1. PICK i \in DOMAIN main' : main'[i].type = "run" /\ main'[i].exec = e
    BY <1>3 DEF InMain, Members
  <2>2. i + 1 \in DOMAIN main /\ main[i + 1] = main'[i] /\ i \in Nat
    BY <1>1
  <2>3. i \in DOMAIN main' => i # 0
    BY TailPlaces, LenProperties
  <2>4. 1 < i + 1
    BY <2>2, <2>3
  <2>5. QED
    BY <1>1, <1>3, <2>1, <2>2, <2>4 DEF RunsIncrease
<1>4. QED
  BY <1>2, <1>3 DEF Precede

LEMMA InitOrder == Init => OrderInv
<1> SUFFICES ASSUME Init PROVE OrderInv
  OBVIOUS
<1>1. /\ Members(chain) = {} /\ Members(queue) = {} /\ Members(onReady) = {} /\ InMain = {}
      /\ Deferred = {}
  BY EmptyQueue DEF Init, InMain, Deferred
<1>2. Increases(chain) /\ Increases(queue) /\ Increases(onReady) /\ RunsIncrease
  BY EmptyQueue DEF Init, RunsIncrease
<1>3. Increases(execs)
  BY DEF Init, Increases
<1>4. QED
  BY <1>1, <1>2, <1>3 DEF OrderInv, StagesInOrder, Precede

LEMMA PageCallOrder ==
  ASSUME TypeInv, OrderInv, NEW k \in Kinds, PageCall(k)
  PROVE  OrderInv'
<1>1. made + 1 \in Call /\ made \in Nat /\ made' = made + 1 /\ made + 1 \in Exec
  BY IosAssumption DEF PageCall, TypeInv, TypeOK, Call, Exec
<1>2. UNCHANGED <<chain, queue, main, onReady, disposed>> /\ InMain' = InMain
  BY SameMain DEF PageCall, peer, edt
<1>3. CASE execs' = execs
  BY <1>2, <1>3 DEF OrderInv, RunsIncrease, StagesInOrder, Deferred
<1>4. CASE execs' = Append(execs, made + 1)
  <2>1. /\ Precede(Members(chain), {made + 1}) /\ Precede(Members(queue), {made + 1})
        /\ Precede(InMain, {made + 1}) /\ Precede(Deferred, {made + 1})
        /\ Precede(Members(execs), {made + 1})
    <3>1. ASSUME NEW A \in SUBSET Exec, MadeBefore(A) PROVE Precede(A, {made + 1})
      <4>1. \A a \in A : a \in Nat /\ a <= made
        BY <3>1, CallNumbers DEF MadeBefore
      <4>2. QED
        BY <1>1, <4>1 DEF Precede
    <3>2. /\ MadeBefore(Members(chain)) /\ MadeBefore(Members(queue)) /\ MadeBefore(InMain)
          /\ MadeBefore(Deferred) /\ MadeBefore(Members(execs))
      BY DEF TypeInv, CallsMade, Deferred
    <3>3. /\ Members(chain) \in SUBSET Exec /\ Members(queue) \in SUBSET Exec
          /\ InMain \in SUBSET Exec /\ Deferred \in SUBSET Exec /\ Members(execs) \in SUBSET Exec
      BY PipelineTypes, CallNumbers
    <3>4. QED
      BY <3>1, <3>2, <3>3
  <2>2. Members(execs') = Members(execs) \cup {made + 1}
    BY <1>1, <1>4, PipelineTypes, AppendMembers
  <2>3. Increases(execs')
    BY <1>1, <1>4, <2>1, PipelineTypes, CallNumbers, AppendIncreases DEF OrderInv
  <2>4. StagesInOrder'
    BY <1>2, <2>1, <2>2 DEF OrderInv, StagesInOrder, Precede, Deferred
  <2>5. QED
    BY <1>2, <2>3, <2>4 DEF OrderInv, RunsIncrease
<1>5. QED
  BY <1>1, <1>3, <1>4 DEF PageCall

(* An exec goes to the end of the main queue.                               *)
LEMMA ExecuteOrder ==
  ASSUME TypeInv, OrderInv, NEW c \in Exec, Execute(c), Precede(InMain, {c})
  PROVE  RunsIncrease' /\ InMain' = InMain \cup {c}
<1>1. Run(c) \in Blocks /\ Run(c).type = "run" /\ Run(c).exec = c /\ main \in Seq(Blocks)
  BY BlockTypes, PipelineTypes
<1>2. QED
  BY <1>1, MainAppend, RunsAppend DEF Execute, OrderInv

LEMMA EdtExecOrder == TypeInv /\ OrderInv /\ EdtExec => OrderInv'
<1> SUFFICES ASSUME TypeInv, OrderInv, EdtExec PROVE OrderInv'
  OBVIOUS
<1> DEFINE c == Head(execs)
<1>1. /\ c \in Exec /\ Members(execs) = Members(execs') \cup {c} /\ execs' = Tail(execs)
  BY PipelineTypes, TailMembers DEF EdtExec
<1>2. Increases(execs') /\ Precede({c}, Members(execs'))
  BY PipelineTypes, TailIncreases, CallNumbers DEF EdtExec, OrderInv
<1>3. /\ UNCHANGED <<ready, disposed, queue, chain>>
      /\ \/ UNCHANGED <<onReady, waiting, main>>
         \/ ~ disposed /\ onReady' = Append(onReady, c) /\ UNCHANGED <<waiting, main>>
         \/ Execute(c) /\ onReady = <<>> /\ UNCHANGED onReady
  BY DEF EdtExec, Deferring, peer
<1> HIDE DEF c
<1>4. /\ Precede(Members(chain), {c}) /\ Precede(Members(queue), {c})
      /\ Precede(InMain, {c}) /\ Precede(Deferred, {c})
  BY <1>1 DEF OrderInv, StagesInOrder, Precede
<1>5. CASE UNCHANGED <<onReady, waiting, main>>
  BY <1>1, <1>2, <1>3, <1>5, SameMain
  DEF OrderInv, RunsIncrease, StagesInOrder, Deferred, Precede
<1>6. CASE ~ disposed /\ onReady' = Append(onReady, c) /\ UNCHANGED <<waiting, main>>
  <2>1. DISPOSE \notin Members(onReady) /\ Deferred = Members(onReady) /\ c # DISPOSE
    BY <1>1, <1>6, CallNumbers DEF OrderInv, Deferred
  <2>2. onReady \in Seq(Deferrable) /\ c \in Deferrable
    BY <1>1, PipelineTypes, CallNumbers
  <2>3. Members(onReady') = Members(onReady) \cup {c}
    BY <1>6, <2>2, AppendMembers
  <2>4. Increases(onReady')
    BY <1>4, <1>6, <2>1, <2>2, CallNumbers, AppendIncreases DEF OrderInv
  <2>5. Deferred' = Deferred \cup {c} /\ InMain' = InMain
    BY <1>6, <2>1, <2>3, SameMain DEF Deferred
  <2>6. StagesInOrder'
    BY <1>1, <1>2, <1>3, <1>4, <2>5 DEF OrderInv, StagesInOrder, Precede
  <2>7. QED
    BY <1>2, <1>3, <1>6, <2>1, <2>3, <2>4, <2>6 DEF OrderInv, RunsIncrease
<1>7. CASE Execute(c) /\ onReady = <<>> /\ UNCHANGED onReady
  <2>1. RunsIncrease' /\ InMain' = InMain \cup {c}
    BY <1>1, <1>4, <1>7, ExecuteOrder
  <2>2. Members(onReady) = {} /\ Deferred = {} /\ Deferred' = {}
    BY <1>7, EmptyQueue DEF Deferred
  <2>3. StagesInOrder'
    BY <1>1, <1>2, <1>3, <1>4, <2>1, <2>2 DEF OrderInv, StagesInOrder, Precede
  <2>4. QED
    BY <1>2, <1>3, <1>7, <2>1, <2>2, <2>3 DEF OrderInv
<1>8. QED
  BY <1>3, <1>5, <1>6, <1>7

LEMMA RunDeferredOrder == TypeInv /\ OrderInv /\ RunDeferred => OrderInv'
<1> SUFFICES ASSUME TypeInv, OrderInv, RunDeferred PROVE OrderInv'
  OBVIOUS
<1> DEFINE c == Head(onReady)
<1>1. /\ c \in Deferrable /\ Members(onReady) = Members(onReady') \cup {c}
  BY PipelineTypes, TailMembers DEF RunDeferred, Deferring
<1>2. Increases(onReady') /\ Precede({c}, Members(onReady'))
  BY PipelineTypes, TailIncreases, CallNumbers DEF RunDeferred, Deferring, OrderInv
<1>3. /\ UNCHANGED <<execs, disposed, queue, chain>>
      /\ \/ c = DISPOSE /\ UNCHANGED <<waiting, main>>
         \/ c # DISPOSE /\ Execute(c)
  BY DEF RunDeferred, peer
<1> HIDE DEF c
<1>4. CASE c = DISPOSE /\ UNCHANGED <<waiting, main>>
  BY <1>1, <1>2, <1>3, <1>4, SameMain
  DEF OrderInv, RunsIncrease, StagesInOrder, Deferred, Precede
<1>5. CASE c # DISPOSE /\ Execute(c)
  <2>1. c \in Exec /\ c \in Deferred /\ Deferred = Deferred' \cup {c}
    BY <1>1, <1>5 DEF Deferred, Deferrable
  <2>2. RunsIncrease' /\ InMain' = InMain \cup {c}
    BY <1>5, <2>1, ExecuteOrder DEF OrderInv, StagesInOrder, Precede
  <2>3. Precede({c}, Deferred')
    BY <1>2 DEF Precede, Deferred
  <2>4. StagesInOrder'
    BY <1>3, <2>1, <2>2, <2>3 DEF OrderInv, StagesInOrder, Precede
  <2>5. QED
    BY <1>1, <1>2, <1>3, <2>2, <2>4 DEF OrderInv
<1>6. QED
  BY <1>3, <1>4, <1>5

LEMMA DisposeOrder == TypeInv /\ OrderInv /\ Dispose => OrderInv'
<1> SUFFICES ASSUME TypeInv, OrderInv, Dispose PROVE OrderInv'
  OBVIOUS
<1>1. /\ UNCHANGED <<execs, main, queue, chain>> /\ InMain' = InMain
      /\ disposed' = TRUE /\ ~ disposed
      /\ onReady' = onReady \/ onReady' = Append(onReady, DISPOSE)
  BY SameMain DEF Dispose, peer
<1>2. onReady \in Seq(Deferrable) /\ DISPOSE \in Deferrable
  BY PipelineTypes, CallNumbers
<1>3. Precede(Members(onReady), {DISPOSE})
  BY <1>1, PipelineTypes, CallNumbers DEF OrderInv, Precede, Deferrable
<1>4. Increases(onReady') /\ Deferred' = Deferred
  <2>1. CASE onReady' = onReady
    BY <2>1 DEF OrderInv, Deferred
  <2>2. CASE onReady' = Append(onReady, DISPOSE)
    <3>1. Members(onReady') = Members(onReady) \cup {DISPOSE}
      BY <1>2, <2>2, AppendMembers
    <3>2. Increases(onReady')
      BY <1>2, <1>3, <2>2, CallNumbers, AppendIncreases DEF OrderInv
    <3>3. QED
      BY <3>1, <3>2 DEF Deferred
  <2>3. QED
    BY <1>1, <2>1, <2>2
<1>5. QED
  BY <1>1, <1>4 DEF OrderInv, RunsIncrease, StagesInOrder

LEMMA MainStepOrder == TypeInv /\ OrderInv /\ MainStep => OrderInv'
<1> SUFFICES ASSUME TypeInv, OrderInv, MainStep PROVE OrderInv'
  OBVIOUS
<1> DEFINE m == Head(main)
<1>1. /\ m \in Blocks
      /\ InMain = IF m.type = "run" THEN InMain' \cup {m.exec} ELSE InMain'
      /\ RunsIncrease' /\ (m.type = "run" => Precede({m.exec}, InMain'))
  BY PipelineTypes, MainTail, RunsTail DEF MainStep, OrderInv
<1>2. /\ UNCHANGED <<execs, onReady, disposed, chain>>
      /\ \/ queue' = queue
         \/ m.type = "run" /\ m.exec # NewConn /\ queue' = Append(queue, m.exec)
         \/ m.type = "run" /\ plugin /\ listed /\ queue' = Append(queue, m.exec) /\ m.exec # NewConn
  BY DEF MainStep, RunExec, Send, edt, peer
<1> HIDE DEF m
<1>3. CASE queue' = queue
  BY <1>1, <1>2, <1>3 DEF OrderInv, StagesInOrder, Deferred, Precede
<1>4. CASE m.type = "run" /\ m.exec # NewConn /\ queue' = Append(queue, m.exec)
  <2>1. m.exec \in Call /\ InMain = InMain' \cup {m.exec} /\ queue \in Seq(Call)
    BY <1>1, <1>4, BlockTypes, PipelineTypes DEF Exec
  <2>2. Members(queue') = Members(queue) \cup {m.exec}
    BY <1>4, <2>1, AppendMembers
  <2>3. Precede(Members(queue), {m.exec})
    BY <2>1 DEF OrderInv, StagesInOrder, Precede
  <2>4. Increases(queue')
    BY <1>4, <2>1, <2>3, CallNumbers, AppendIncreases DEF OrderInv
  <2>5. StagesInOrder'
    BY <1>1, <1>2, <1>4, <2>1, <2>2 DEF OrderInv, StagesInOrder, Deferred, Precede
  <2>6. QED
    BY <1>1, <1>2, <2>4, <2>5 DEF OrderInv
<1>5. QED
  BY <1>2, <1>3, <1>4

LEMMA QueueStepOrder == TypeInv /\ OrderInv /\ QueueStep => OrderInv'
<1> SUFFICES ASSUME TypeInv, OrderInv, QueueStep PROVE OrderInv'
  OBVIOUS
<1> DEFINE c == Head(queue)
<1>1. /\ c \in Call /\ Members(queue) = Members(queue') \cup {c}
      /\ Increases(queue') /\ Precede({c}, Members(queue'))
  BY PipelineTypes, CallNumbers, TailMembers, TailIncreases DEF QueueStep, OrderInv
<1>2. /\ UNCHANGED <<execs, onReady, disposed>>
      /\ \/ UNCHANGED <<main, chain>>
         \/ UNCHANGED main /\ chain' = Append(chain, c)
         \/ UNCHANGED chain /\ Emit(Answer(c, TRUE, c))
         \/ UNCHANGED chain /\ Emit(Event(c, TRUE))
  BY DEF QueueStep, BeginOperation, AddIceCandidate, Close, edt
<1> HIDE DEF c
<1>3. CASE UNCHANGED main /\ chain' = Append(chain, c)
  <2>1. chain \in Seq(Call) /\ Members(chain') = Members(chain) \cup {c}
    BY <1>1, <1>3, PipelineTypes, AppendMembers
  <2>2. Precede(Members(chain), {c})
    BY <1>1 DEF OrderInv, StagesInOrder, Precede
  <2>3. Increases(chain')
    BY <1>1, <1>3, <2>1, <2>2, CallNumbers, AppendIncreases DEF OrderInv
  <2>4. InMain' = InMain
    BY <1>3, SameMain
  <2>5. StagesInOrder'
    BY <1>1, <1>2, <2>1, <2>4 DEF OrderInv, StagesInOrder, Deferred, Precede
  <2>6. QED
    BY <1>1, <1>2, <1>3, <2>3, <2>5 DEF OrderInv, RunsIncrease
<1>4. CASE UNCHANGED chain /\ InMain' = InMain /\ RunsIncrease'
  BY <1>1, <1>2, <1>4 DEF OrderInv, StagesInOrder, Deferred, Precede
<1>5. CASE UNCHANGED <<main, chain>>
  BY <1>4, <1>5, SameMain DEF OrderInv, RunsIncrease
<1>6. CASE UNCHANGED chain /\ (Emit(Answer(c, TRUE, c)) \/ Emit(Event(c, TRUE)))
  BY <1>1, <1>4, <1>6, BlockTypes, PipelineTypes, MainEmit, RunsEmit DEF OrderInv
<1>7. QED
  BY <1>2, <1>3, <1>5, <1>6

(* WebRTC takes a call from the chain, if any, and sends a message, if any. *)
LEMMA NativeOrder ==
  ASSUME TypeInv, OrderInv, UNCHANGED <<execs, onReady, disposed, queue>>,
         UNCHANGED chain \/ (chain # <<>> /\ chain' = Tail(chain)),
         UNCHANGED main \/ \E m \in Messages : Emit(m)
  PROVE  OrderInv'
<1>1. InMain' = InMain /\ RunsIncrease'
  <2>1. CASE UNCHANGED main
    BY <2>1, SameMain DEF OrderInv, RunsIncrease
  <2>2. CASE \E m \in Messages : Emit(m)
    BY <2>2, PipelineTypes, MainEmit, RunsEmit DEF OrderInv
  <2>3. QED
    BY <2>1, <2>2
<1>2. Members(chain') \subseteq Members(chain) /\ Increases(chain')
  <2>1. CASE UNCHANGED chain
    BY <2>1 DEF OrderInv
  <2>2. CASE chain # <<>> /\ chain' = Tail(chain)
    BY <2>2, PipelineTypes, CallNumbers, TailMembers, TailIncreases DEF OrderInv
  <2>3. QED
    BY <2>1, <2>2
<1>3. QED
  BY <1>1, <1>2 DEF OrderInv, StagesInOrder, Deferred, Precede

LEMMA NextOrder == TypeInv /\ OrderInv /\ [Next]_vars => OrderInv'
<1> SUFFICES ASSUME TypeInv, OrderInv, [Next]_vars PROVE OrderInv'
  OBVIOUS
<1>1. CASE PluginReady \/ PageResult \/ UNCHANGED vars
  BY <1>1, NativeOrder DEF PluginReady, PageResult, vars, peer, edt
<1>2. CASE NativeApplies
  <2>1. Event(Head(chain), FALSE) \in Messages
    BY <1>2, PipelineTypes, TailMembers, BlockTypes DEF NativeApplies
  <2>2. QED
    BY <1>2, <2>1, NativeOrder DEF NativeApplies, edt
<1>3. CASE NativeCompletes
  <2> DEFINE c == Head(chain)
             a == slot[SlotOf(kind[c])]
  <2>1. c \in Call /\ a \in Call
    BY <1>3, PipelineTypes, TailMembers DEF NativeCompletes, TypeInv, ChainFilled
  <2>2. UNCHANGED main \/ Emit(Answer(a, TRUE, c)) \/ Emit(Answer(a, FALSE, c))
    BY <1>3 DEF NativeCompletes, CallsBack
  <2> HIDE DEF a, c
  <2>3. UNCHANGED main \/ \E m \in Messages : Emit(m)
    BY <2>1, <2>2, BlockTypes
  <2>4. QED
    BY <1>3, <2>3, NativeOrder DEF NativeCompletes, edt
<1>4. QED
  BY <1>1, <1>2, <1>3, PageCallOrder, EdtExecOrder, RunDeferredOrder, DisposeOrder, MainStepOrder,
     QueueStepOrder DEF Next

LEMMA OrderHolds == Spec => []OrderInv
BY InitOrder, NextOrder, TypeInvHolds, PTL DEF Spec

(* Calls pass through all queues in the order the page made them, whether   *)
(* or not they were deferred until the plugin was ready.                    *)
THEOREM OrderKept == Spec => []CallsInOrder
BY OrderHolds, OrderFollows, PTL

(***************************************************************************)
(* Answers.  No answer is on its way for a call that is still passing      *)
(* through the queues, so the callback of the call is there when its       *)
(* answer comes.  That a closure answers its own call needs a disciplined  *)
(* application: of the calls that share a slot only one is unanswered.     *)
(***************************************************************************)
Passing == Members(chain) \cup Members(queue) \cup InMain \cup Deferred \cup Members(execs)
Sent    == {m \in Members(main) : m.type # "run"} \cup Members(results)

Unanswered ==
  \A c \in Passing \ {NewConn} :
    promise[c] = IF kind[c] = "close" THEN "none" ELSE "pending"

OwnAnswers ==
  \A m \in Sent :
    /\ m.of \notin Members(execs) /\ m.of <= made /\ promise[m.of] # "fulfilled"
    /\ m.type = "answer" => m.exec = m.of /\ m.of \notin Passing /\ promise[m.of] = "pending"

\* An answer is the last word on its call.
Silent(m, n) == m.type = "answer" /\ n.type # "run" => n.of # m.of
Orderly(q)   == \A i, j \in DOMAIN q : i < j => Silent(q[i], q[j])
LastWords ==
  /\ Orderly(main) /\ Orderly(results)
  /\ \A m \in Members(results), n \in Members(main) : Silent(m, n)

RivalsWait ==
  \A c, d \in Call :
    promise[c] = "pending" /\ promise[d] = "pending" /\ kind[d] \in Rivals(kind[c]) => c = d

SlotsHeld ==
  /\ \A c \in Members(chain) : slot[SlotOf(kind[c])] = c
  /\ alive
  /\ applied => chain # <<>> /\ kind[Head(chain)] \in described

Callbacks ==
  /\ Members(queue) \cup Members(chain) \subseteq waiting
  /\ \A m \in Members(main) : m.exec \in waiting
  /\ NewConn \notin waiting => ~ listed /\ queue = <<>> /\ chain = <<>>

FlowInv == Unanswered /\ OwnAnswers /\ LastWords /\ RivalsWait /\ SlotsHeld /\ Callbacks

LEMMA SlotNames ==
  /\ SlotOf("offer") = "createLocal" /\ SlotOf("answer") = "createRemote"
  /\ SlotOf("local") = "set" /\ SlotOf("remote") = "set"
<1>1. SlotOf("offer") = "createLocal"
  BY DEF SlotOf
<1>2. SlotOf("answer") = "createRemote"
  BY DEF SlotOf
<1>3. SlotOf("local") = "set"
  BY DEF SlotOf
<1>4. SlotOf("remote") = "set"
  BY DEF SlotOf
<1>5. QED
  BY <1>1, <1>2, <1>3, <1>4

LEMMA RivalsShareSlots ==
  ASSUME NEW j \in Creations \cup Descriptions, NEW k \in Creations \cup Descriptions,
         SlotOf(j) = SlotOf(k)
  PROVE  k \in Rivals(j)
BY SlotNames DEF Creations, Descriptions, Rivals

LEMMA RivalsMutual == \A j, k : k \in Rivals(j) => j \in Rivals(k)
BY DEF Rivals, Creations, Descriptions

LEMMA OrderlyAppend ==
  ASSUME NEW S, NEW q \in Seq(S), NEW e \in S, Orderly(q), \A m \in Members(q) : Silent(m, e)
  PROVE  Orderly(Append(q, e))
<1> SUFFICES ASSUME NEW i \in DOMAIN Append(q, e), NEW j \in DOMAIN Append(q, e), i < j
             PROVE  Silent(Append(q, e)[i], Append(q, e)[j])
  BY DEF Orderly
<1>1. /\ Len(q) \in Nat /\ DOMAIN q = 1 .. Len(q) /\ DOMAIN Append(q, e) = 1 .. Len(q) + 1
      /\ \A k \in DOMAIN q : Append(q, e)[k] = q[k]
      /\ Append(q, e)[Len(q) + 1] = e
  BY AppendPlaces
<1>2. i \in DOMAIN q /\ Append(q, e)[i] = q[i] /\ q[i] \in Members(q)
  BY <1>1 DEF Members
<1>3. CASE j \in DOMAIN q
  BY <1>1, <1>2, <1>3 DEF Orderly
<1>4. CASE j = Len(q) + 1
  BY <1>1, <1>2, <1>4
<1>5. QED
  BY <1>1, <1>3, <1>4

LEMMA OrderlyTail ==
  ASSUME NEW S, NEW q \in Seq(S), q # <<>>, Orderly(q)
  PROVE  /\ Orderly(Tail(q))
         /\ \A m \in Members(Tail(q)) : Silent(Head(q), m)
<1>1. /\ 1 \in DOMAIN q /\ Head(q) = q[1]
      /\ \A i \in DOMAIN Tail(q) : i \in Nat /\ i + 1 \in DOMAIN q /\ Tail(q)[i] = q[i + 1]
      /\ \A i \in DOMAIN Tail(q) : i # 0
  BY TailPlaces, LenProperties
<1>2. Orderly(Tail(q))
  <2> SUFFICES ASSUME NEW i \in DOMAIN Tail(q), NEW j \in DOMAIN Tail(q), i < j
               PROVE  Silent(Tail(q)[i], Tail(q)[j])
    BY DEF Orderly
  <2>1. i + 1 < j + 1
    BY <1>1
  <2>2. QED
    BY <1>1, <2>1 DEF Orderly
<1>3. ASSUME NEW i \in DOMAIN Tail(q) PROVE Silent(Head(q), Tail(q)[i])
  <2>1. i + 1 \in DOMAIN q /\ 1 < i + 1 /\ Tail(q)[i] = q[i + 1]
    BY <1>1
  <2>2. QED
    BY <1>1, <2>1 DEF Orderly
<1>4. QED
  BY <1>2, <1>3 DEF Members

LEMMA FlowTypes ==
  ASSUME TypeInv
  PROVE  /\ made \in Nat /\ kind \in [Call -> Kinds \cup {"none"}]
         /\ promise \in [Call -> {"none", "pending", "fulfilled", "rejected"}]
         /\ results \in Seq(Messages) /\ Members(results) \subseteq Messages
         /\ Sent \subseteq Messages /\ \A m \in Sent : m.of \in Call /\ m.of \in Exec
         /\ Passing \subseteq Exec /\ Passing \ {NewConn} \subseteq Call
         /\ InMain \subseteq Passing /\ Members(chain) \subseteq Passing
         /\ Members(queue) \subseteq Passing /\ Members(execs) \subseteq Passing
         /\ MadeBefore(Passing)
<1>1. /\ made \in Nat /\ kind \in [Call -> Kinds \cup {"none"}]
      /\ promise \in [Call -> {"none", "pending", "fulfilled", "rejected"}]
      /\ results \in Seq(Messages)
  BY IosAssumption DEF TypeInv, TypeOK
<1>2. Members(results) \subseteq Messages /\ Members(main) \subseteq Blocks
  BY <1>1, PipelineTypes, MembersType
<1>3. Sent \subseteq Messages
  BY <1>2, BlockTypes DEF Sent
<1>4. \A m \in Sent : m.of \in Call /\ m.of \in Exec
  BY <1>3, BlockTypes, CallNumbers
<1>5. Passing \subseteq Exec /\ Passing \ {NewConn} \subseteq Call
  BY PipelineTypes, CallNumbers DEF Passing, Exec
<1>6. MadeBefore(Passing)
  BY DEF TypeInv, CallsMade, MadeBefore, Passing, Deferred
<1>7. QED
  BY <1>1, <1>2, <1>3, <1>4, <1>5, <1>6 DEF Passing

(* What stays where it is when the page and its messages do.                *)
LEMMA SameWords == LastWords /\ UNCHANGED <<main, results>> => LastWords'
BY DEF LastWords, Orderly

(* The main queue gets a message about a call that is not yet answered.     *)
LEMMA EmitFlow ==
  ASSUME TypeInv, OwnAnswers, LastWords, Callbacks, NEW m \in Messages, Emit(m),
         UNCHANGED <<page, execs, waiting, results>>, Passing' \subseteq Passing,
         m.of \in Passing, m.of \notin Members(execs), promise[m.of] # "fulfilled",
         m.exec \in waiting,
         m.type = "answer" => m.exec = m.of /\ m.of \notin Passing' /\ promise[m.of] = "pending"
  PROVE  OwnAnswers' /\ LastWords' /\ \A n \in Members(main') : n.exec \in waiting'
<1>1. m \in Blocks /\ m.type # "run" /\ m.of \in Call
  BY BlockTypes
<1>2. main \in Seq(Blocks)
  BY PipelineTypes
<1>3. CASE ~ plugin
  <2>1. UNCHANGED main
    BY <1>3 DEF Emit
  <2>2. Sent' = Sent
    BY <2>1 DEF Sent
  <2>3. OwnAnswers'
    BY <2>2 DEF OwnAnswers, page
  <2>4. QED
    BY <2>1, <2>3, SameWords DEF Callbacks
<1>4. CASE plugin
  <2>1. main' = Append(main, m)
    BY <1>4 DEF Emit
  <2>2. Members(main') = Members(main) \cup {m}
    BY <1>1, <1>2, <2>1, AppendMembers
  <2>3. Sent' = Sent \cup {m}
    BY <1>1, <2>2 DEF Sent
  <2>4. m.of <= made
    BY FlowTypes DEF MadeBefore
  <2>5. OwnAnswers'
    BY <2>3, <2>4 DEF OwnAnswers, page
  <2>6. \A n \in Sent : Silent(n, m)
    BY DEF OwnAnswers, Silent
  <2>7. \A n \in Members(main) \cup Members(results) : Silent(n, m)
    BY <2>6 DEF Sent, Silent
  <2>8. Orderly(main')
    BY <1>1, <1>2, <2>1, <2>7, OrderlyAppend DEF LastWords
  <2>9. LastWords'
    BY <2>2, <2>7, <2>8 DEF LastWords, Orderly
  <2>10. QED
    BY <2>2, <2>5, <2>9 DEF Callbacks
<1>5. QED
  BY <1>3, <1>4

LEMMA InitFlow == Init => FlowInv
<1> SUFFICES ASSUME Init PROVE FlowInv
  OBVIOUS
<1>1. /\ Members(chain) = {} /\ Members(queue) = {} /\ Members(onReady) = {} /\ InMain = {}
      /\ Members(main) = {} /\ Members(results) = {} /\ Members(execs) = {NewConn}
  BY EmptyQueue DEF Init, InMain, Members
<1>2. Passing \subseteq {NewConn} /\ Sent = {}
  BY <1>1 DEF Passing, Sent, Deferred
<1>3. LastWords
  BY <1>1 DEF Init, LastWords, Orderly
<1>4. QED
  BY <1>1, <1>2, <1>3
  DEF Init, FlowInv, Unanswered, OwnAnswers, RivalsWait, SlotsHeld, Callbacks

LEMMA PageCallFlow ==
  ASSUME Disciplined, TypeInv, FlowInv, NEW k \in Kinds, PageCall(k)
  PROVE  FlowInv'
<1> DEFINE n == made + 1
<1>1. n \in Call /\ n \in Exec /\ made \in Nat /\ made' = n /\ n # NewConn
  BY IosAssumption, CallNumbers DEF PageCall, TypeInv, TypeOK, Call
<1>2. /\ UNCHANGED <<pageClosed, edt, waiting, main, plugin, listed, queue, peer, results>>
      /\ InMain' = InMain /\ Deferred' = Deferred /\ Sent' = Sent
  BY SameMain DEF PageCall, Deferred, Sent, edt
<1>3. /\ \A c \in Passing : c # n /\ c \in Nat
      /\ \A m \in Sent : m.of # n /\ m.of \in Nat /\ m.of \in Call
  <2>1. /\ \A c \in Passing : c \in Nat /\ c <= made
        /\ \A m \in Sent : m.of \in Nat /\ m.of <= made /\ m.of \in Call
    BY FlowTypes, CallNumbers DEF FlowInv, OwnAnswers, MadeBefore
  <2>2. QED
    BY <1>1, <2>1
<1>4. /\ kind'[n] = k /\ \A c \in Call : c # n => kind'[c] = kind[c] /\ promise'[c] = promise[c]
      /\ \/ promise'[n] = "rejected" /\ UNCHANGED execs
         \/ promise'[n] = "none" /\ UNCHANGED execs
         \/ /\ promise'[n] = IF k = "close" THEN "none" ELSE "pending"
            /\ execs' = Append(execs, n)
  BY <1>1, FlowTypes DEF PageCall
<1>5. /\ Members(execs') \subseteq Members(execs) \cup {n}
      /\ \/ Passing' = Passing
         \/ /\ Passing' = Passing \cup {n}
            /\ promise'[n] = IF k = "close" THEN "none" ELSE "pending"
  <2>1. CASE UNCHANGED execs
    BY <1>2, <2>1 DEF Passing, peer
  <2>2. CASE execs' = Append(execs, n)
    <3>1. Members(execs') = Members(execs) \cup {n}
      BY <1>1, <2>2, PipelineTypes, AppendMembers
    <3>2. promise'[n] = IF k = "close" THEN "none" ELSE "pending"
      BY <1>4, <2>2, <3>1, PipelineTypes, AppendMembers, <1>3 DEF Passing
    <3>3. QED
      BY <1>2, <3>1, <3>2 DEF Passing, peer
  <2>3. QED
    BY <1>4, <2>1, <2>2
<1>6. Unanswered'
  <2>1. \A c \in Passing \ {NewConn} : c \in Call
    BY FlowTypes
  <2>2. QED
    BY <1>3, <1>4, <1>5, <2>1 DEF FlowInv, Unanswered
<1>7. OwnAnswers'
  <2>1. \A m \in Sent : m.of \in Nat /\ m.of <= made /\ m.of # n /\ promise'[m.of] = promise[m.of]
    BY <1>3, <1>4 DEF FlowInv, OwnAnswers
  <2>2. \A m \in Sent : m.of <= made'
    BY <1>1, <2>1
  <2>3. QED
    BY <1>2, <1>5, <2>1, <2>2 DEF FlowInv, OwnAnswers
<1>8. LastWords'
  BY <1>2, SameWords DEF FlowInv
<1>9. RivalsWait'
  <2>1. \A d \in Call : kind[d] \in Rivals(k) => promise[d] # "pending"
    BY DEF PageCall, MayCall
  <2>2. \A d \in Call : k \in Rivals(kind[d]) => promise[d] # "pending"
    BY <2>1, RivalsMutual
  <2>3. QED
    BY <1>4, <2>1, <2>2 DEF FlowInv, RivalsWait
<1>10. SlotsHeld'
  <2>1. \A c \in Members(chain) : c \in Call /\ c # n
    BY <1>3, PipelineTypes, FlowTypes
  <2>2. chain # <<>> => Head(chain) \in Members(chain)
    BY PipelineTypes, TailMembers
  <2>3. QED
    BY <1>2, <1>4, <2>1, <2>2 DEF FlowInv, SlotsHeld, peer
<1>11. Callbacks'
  BY <1>2 DEF FlowInv, Callbacks, peer
<1>12. QED
  BY <1>6, <1>7, <1>8, <1>9, <1>10, <1>11 DEF FlowInv

(* The page takes a message; the calls and the queues are as before.        *)
LEMMA PageResultFlow == TypeInv /\ FlowInv /\ PageResult => FlowInv'
<1> SUFFICES ASSUME TypeInv, FlowInv, PageResult PROVE FlowInv'
  OBVIOUS
<1> DEFINE m == Head(results)
<1>1. /\ m \in Messages /\ m \in Sent /\ Members(results) = Members(results') \cup {m}
      /\ Orderly(results') /\ \A x \in Members(results') : Silent(m, x)
  BY FlowTypes, TailMembers, OrderlyTail DEF PageResult, FlowInv, LastWords, Sent
<1>2. /\ UNCHANGED <<made, kind, execs, edt, waiting, main, plugin, listed, queue, peer>>
      /\ \/ promise' = promise
         \/ m.type = "answer" /\ promise' = [promise EXCEPT ![m.exec] = "fulfilled"]
         \/ m.type = "answer" /\ promise' = [promise EXCEPT ![m.exec] = "rejected"]
  BY DEF PageResult
<1> HIDE DEF m
<1>3. Sent = Sent' \cup {m} /\ Passing' = Passing
  BY <1>1, <1>2, SameMain DEF Sent, Passing, Deferred, edt, peer, Messages
<1>4. /\ \A c \in Passing \ {NewConn} : promise'[c] = promise[c]
      /\ \A x \in Sent' : promise'[x.of] = promise[x.of]
      /\ \A c \in Call : promise'[c] = "pending" => promise[c] = "pending"
  <2>1. CASE promise' = promise
    BY <2>1
  <2>2. CASE m.type = "answer"
    <3>1. m.exec = m.of /\ m.of \notin Passing
      BY <1>1, <2>2 DEF FlowInv, OwnAnswers
    <3>2. \A x \in Sent' : x.of # m.of
      <4>1. \A x \in Members(results') \cup Members(main) : Silent(m, x)
        BY <1>1 DEF FlowInv, LastWords, Sent
      <4>2. \A x \in Sent' : x \in Members(results') \cup Members(main)
        BY <1>2 DEF Sent
      <4>3. \A x \in Sent' : x.type # "run"
        BY <1>3, FlowTypes, BlockTypes
      <4>4. QED
        BY <2>2, <4>1, <4>2, <4>3 DEF Silent
    <3>3. QED
      BY <1>2, <1>3, <3>1, <3>2, FlowTypes
  <2>3. QED
    BY <1>2, <2>1, <2>2
<1>5. Unanswered'
  BY <1>2, <1>3, <1>4 DEF FlowInv, Unanswered
<1>6. OwnAnswers'
  BY <1>2, <1>3, <1>4 DEF FlowInv, OwnAnswers
<1>7. LastWords'
  BY <1>1, <1>2 DEF FlowInv, LastWords, Orderly
<1>8. RivalsWait'
  BY <1>2, <1>4 DEF FlowInv, RivalsWait
<1>9. SlotsHeld' /\ Callbacks'
  BY <1>2 DEF FlowInv, SlotsHeld, Callbacks, peer
<1>10. QED
  BY <1>5, <1>6, <1>7, <1>8, <1>9 DEF FlowInv

LEMMA PluginReadyFlow == TypeInv /\ FlowInv /\ PluginReady => FlowInv'
<1> SUFFICES ASSUME TypeInv, FlowInv, PluginReady PROVE FlowInv'
  OBVIOUS
<1>1. UNCHANGED <<page, execs, onReady, disposed, waiting, main, listed, queue, peer, results>>
  BY DEF PluginReady
<1>2. Passing' = Passing /\ Sent' = Sent
  BY <1>1, SameMain DEF Passing, Deferred, Sent, peer
<1>3. LastWords'
  BY <1>1, SameWords DEF FlowInv
<1>4. QED
  BY <1>1, <1>2, <1>3
  DEF FlowInv, Unanswered, OwnAnswers, RivalsWait, SlotsHeld, Callbacks, page, peer

(* An exec goes to the main queue with its callback.                        *)
LEMMA ExecuteFlow ==
  ASSUME TypeInv, LastWords, Callbacks, NEW c \in Exec, Execute(c), UNCHANGED results
  PROVE  /\ Sent' = Sent /\ InMain' = InMain \cup {c} /\ LastWords'
         /\ waiting \subseteq waiting' /\ \A m \in Members(main') : m.exec \in waiting'
<1>1. /\ Run(c) \in Blocks /\ Run(c).type = "run" /\ Run(c).exec = c /\ main \in Seq(Blocks)
      /\ main' = Append(main, Run(c)) /\ waiting' = waiting \cup {c}
  BY BlockTypes, PipelineTypes DEF Execute
<1>2. Members(main') = Members(main) \cup {Run(c)} /\ InMain' = InMain \cup {c}
  BY <1>1, MainAppend
<1>3. \A m : Silent(m, Run(c))
  BY <1>1 DEF Silent
<1>4. Orderly(main')
  BY <1>1, <1>3, OrderlyAppend DEF LastWords
<1>5. LastWords'
  BY <1>2, <1>3, <1>4 DEF LastWords, Orderly
<1>6. QED
  BY <1>1, <1>2, <1>5 DEF Sent, Callbacks

LEMMA EdtExecFlow == TypeInv /\ OrderInv /\ FlowInv /\ EdtExec => FlowInv'
<1> SUFFICES ASSUME TypeInv, OrderInv, FlowInv, EdtExec PROVE FlowInv'
  OBVIOUS
<1> DEFINE c == Head(execs)
<1>1. c \in Exec /\ Members(execs) = Members(execs') \cup {c}
  BY PipelineTypes, TailMembers DEF EdtExec
<1>2. Precede({c}, Members(execs'))
  BY PipelineTypes, TailIncreases, CallNumbers DEF EdtExec, OrderInv
<1>3. /\ UNCHANGED <<page, plugin, listed, queue, peer>>
      /\ \/ /\ UNCHANGED <<onReady, waiting, main>>
            /\ \/ UNCHANGED results
               \/ c # NewConn /\ kind[c] # "close" /\ results' = Append(results, Answer(c, FALSE, c))
         \/ onReady' = Append(onReady, c) /\ UNCHANGED <<waiting, main, results>>
         \/ Execute(c) /\ UNCHANGED <<onReady, results>>
  BY DEF EdtExec
<1> HIDE DEF c
<1>4. c \in Passing /\ (c # NewConn => c \in Call)
  BY <1>1 DEF Passing, Exec
<1>5. RivalsWait' /\ SlotsHeld'
  BY <1>3 DEF FlowInv, RivalsWait, SlotsHeld, page, peer
<1>6. ASSUME Passing' \subseteq Passing, Sent' = Sent PROVE Unanswered' /\ OwnAnswers'
  BY <1>1, <1>3, <1>6 DEF FlowInv, Unanswered, OwnAnswers, page
<1>7. CASE UNCHANGED <<onReady, waiting, main>>
  <2>1. Passing' \subseteq Passing /\ InMain' = InMain
    BY <1>1, <1>3, <1>7, SameMain DEF Passing, Deferred, peer
  <2>2. Callbacks'
    BY <1>3, <1>7 DEF FlowInv, Callbacks, peer
  <2>3. CASE UNCHANGED results
    <3>1. Sent' = Sent /\ LastWords'
      BY <1>7, <2>3, SameWords DEF Sent, FlowInv
    <3>2. QED
      BY <1>5, <1>6, <2>1, <2>2, <3>1 DEF FlowInv
  <2>4. CASE c # NewConn /\ kind[c] # "close" /\ results' = Append(results, Answer(c, FALSE, c))
    <3> DEFINE a == Answer(c, FALSE, c)
    <3>1. a \in Messages /\ a.type = "answer" /\ a.exec = c /\ a.of = c
      BY <1>4, <2>4 DEF Answer, Messages
    <3>2. results' = Append(results, a)
      BY <2>4
    <3> HIDE DEF a
    <3>3. Members(results') = Members(results) \cup {a} /\ results \in Seq(Messages)
      BY <3>1, <3>2, FlowTypes, AppendMembers
    <3>4. Sent' = Sent \cup {a}
      BY <1>7, <3>3 DEF Sent
    <3>5. \A m \in Sent : m.of # c
      BY <1>1 DEF FlowInv, OwnAnswers
    <3>6. promise[c] = "pending" /\ c <= made
      BY <1>4, <2>4, FlowTypes DEF FlowInv, Unanswered, MadeBefore
    <3>7. c \notin Passing'
      <4>1. c \notin Members(execs')
        BY <1>1, <1>2, CallNumbers DEF Precede
      <4>2. \A A \in SUBSET Exec : Precede(A, Members(execs)) => c \notin A
        BY <1>1, CallNumbers DEF Precede
      <4>3. /\ c \notin Members(chain) /\ c \notin Members(queue) /\ c \notin InMain
            /\ c \notin Deferred
        BY <4>2, PipelineTypes, CallNumbers DEF OrderInv, StagesInOrder
      <4>4. QED
        BY <1>3, <1>7, <2>1, <4>1, <4>3 DEF Passing, Deferred, peer
    <3>8. Unanswered'
      BY <1>3, <2>1 DEF FlowInv, Unanswered, page
    <3>9. OwnAnswers'
      <4>1. Members(execs') \subseteq Passing'
        BY DEF Passing
      <4>2. QED
        BY <1>1, <1>3, <2>1, <3>1, <3>4, <3>6, <3>7, <4>1 DEF FlowInv, OwnAnswers, page
    <3>10. LastWords'
      <4>1. \A m \in Sent : Silent(m, a) /\ Silent(a, m)
        BY <3>1, <3>5 DEF Silent
      <4>2. \A m \in Members(main) : Silent(a, m)
        BY <4>1 DEF Sent, Silent
      <4>3. \A m \in Members(results) : Silent(m, a)
        BY <4>1 DEF Sent
      <4>4. Orderly(results')
        BY <3>1, <3>2, <3>3, <4>3, OrderlyAppend DEF FlowInv, LastWords
      <4>5. QED
        BY <1>7, <3>3, <4>2, <4>4 DEF FlowInv, LastWords, Orderly
    <3>11. QED
      BY <1>5, <2>2, <3>8, <3>9, <3>10 DEF FlowInv
  <2>5. QED
    BY <1>3, <1>7, <2>3, <2>4, CallNumbers
<1>8. CASE onReady' = Append(onReady, c) /\ UNCHANGED <<waiting, main, results>>
  <2>1. Members(onReady') = Members(onReady) \cup {c}
    BY <1>1, <1>8, PipelineTypes, CallNumbers, AppendMembers
  <2>2. Passing' \subseteq Passing /\ Sent' = Sent
    BY <1>1, <1>3, <1>8, <2>1, SameMain DEF Passing, Deferred, Sent, peer
  <2>3. LastWords' /\ Callbacks'
    BY <1>3, <1>8, SameWords DEF FlowInv, Callbacks, peer
  <2>4. QED
    BY <1>5, <1>6, <2>2, <2>3 DEF FlowInv
<1>9. CASE Execute(c) /\ UNCHANGED <<onReady, results>>
  <2>1. /\ Sent' = Sent /\ InMain' = InMain \cup {c} /\ LastWords'
        /\ waiting \subseteq waiting' /\ \A m \in Members(main') : m.exec \in waiting'
    BY <1>1, <1>9, ExecuteFlow DEF FlowInv
  <2>2. Passing' \subseteq Passing
    BY <1>1, <1>3, <1>9, <2>1 DEF Passing, Deferred, peer
  <2>3. Callbacks'
    BY <1>3, <2>1 DEF FlowInv, Callbacks, peer
  <2>4. QED
    BY <1>5, <1>6, <2>1, <2>2, <2>3 DEF FlowInv
<1>10. QED
  BY <1>3, <1>7, <1>8, <1>9

LEMMA RunDeferredFlow == TypeInv /\ OrderInv /\ FlowInv /\ RunDeferred => FlowInv'
<1> SUFFICES ASSUME TypeInv, OrderInv, FlowInv, RunDeferred PROVE FlowInv'
  OBVIOUS
<1> DEFINE c == Head(onReady)
<1>1. c \in Deferrable /\ Members(onReady) = Members(onReady') \cup {c}
  BY PipelineTypes, TailMembers DEF RunDeferred, Deferring
<1>2. /\ UNCHANGED <<page, execs, ready, disposed, listed, queue, peer, results>>
      /\ \/ c = DISPOSE /\ UNCHANGED <<waiting, main>>
         \/ c # DISPOSE /\ Execute(c)
  BY DEF RunDeferred
<1> HIDE DEF c
<1>3. ASSUME Passing' \subseteq Passing, Sent' = Sent
      PROVE  Unanswered' /\ OwnAnswers' /\ RivalsWait' /\ SlotsHeld'
  BY <1>2, <1>3 DEF FlowInv, Unanswered, OwnAnswers, RivalsWait, SlotsHeld, page, peer
<1>4. CASE c = DISPOSE /\ UNCHANGED <<waiting, main>>
  <2>1. Passing' \subseteq Passing /\ Sent' = Sent
    BY <1>1, <1>2, <1>4, SameMain DEF Passing, Deferred, Sent, peer
  <2>2. LastWords' /\ Callbacks'
    BY <1>2, <1>4, SameWords DEF FlowInv, Callbacks, peer
  <2>3. QED
    BY <1>3, <2>1, <2>2 DEF FlowInv
<1>5. CASE c # DISPOSE /\ Execute(c)
  <2>1. c \in Exec /\ c \in Deferred /\ Deferred' \subseteq Deferred
    BY <1>1, <1>5 DEF Deferred, Deferrable
  <2>2. /\ Sent' = Sent /\ InMain' = InMain \cup {c} /\ LastWords'
        /\ waiting \subseteq waiting' /\ \A m \in Members(main') : m.exec \in waiting'
    BY <1>2, <1>5, <2>1, ExecuteFlow DEF FlowInv
  <2>3. Passing' \subseteq Passing
    BY <1>2, <2>1, <2>2 DEF Passing, peer
  <2>4. Callbacks'
    BY <1>2, <2>2 DEF FlowInv, Callbacks, peer
  <2>5. QED
    BY <1>3, <2>2, <2>3, <2>4 DEF FlowInv
<1>6. QED
  BY <1>2, <1>4, <1>5

LEMMA DisposeFlow == TypeInv /\ FlowInv /\ Dispose => FlowInv'
<1> SUFFICES ASSUME TypeInv, FlowInv, Dispose PROVE FlowInv'
  OBVIOUS
<1>1. /\ UNCHANGED <<page, execs, ready, waiting, main, listed, queue, peer, results>>
      /\ onReady' = onReady \/ onReady' = Append(onReady, DISPOSE)
  BY DEF Dispose
<1>2. Deferred' = Deferred
  BY <1>1, PipelineTypes, CallNumbers, MayAppend DEF Deferred
<1>3. Passing' = Passing /\ Sent' = Sent
  BY <1>1, <1>2, SameMain DEF Passing, Sent, peer
<1>4. LastWords'
  BY <1>1, SameWords DEF FlowInv
<1>5. QED
  BY <1>1, <1>3, <1>4
  DEF FlowInv, Unanswered, OwnAnswers, RivalsWait, SlotsHeld, Callbacks, page, peer

(* The main queue runs an exec, or sends a message on to the page.          *)
LEMMA MainStepFlow == TypeInv /\ FlowInv /\ MainStep => FlowInv'
<1> SUFFICES ASSUME TypeInv, FlowInv, MainStep PROVE FlowInv'
  OBVIOUS
<1> DEFINE m == Head(main)
<1>1. /\ m \in Blocks /\ Members(main) = Members(main') \cup {m}
      /\ InMain = IF m.type = "run" THEN InMain' \cup {m.exec} ELSE InMain'
      /\ Orderly(main') /\ \A x \in Members(main') : Silent(m, x)
      /\ Members(main) \subseteq Blocks
  BY PipelineTypes, MainTail, MembersType, OrderlyTail DEF MainStep, FlowInv, LastWords
<1>2. /\ UNCHANGED <<page, execs, edt, plugin, peer>>
      /\ \/ m.type = "run" /\ RunExec(m.exec)
         \/ m.type # "run" /\ Send(m)
  BY DEF MainStep
<1> HIDE DEF m
<1>3. Deferred' = Deferred /\ m.exec \in waiting
  BY <1>1, <1>2 DEF Deferred, edt, FlowInv, Callbacks
<1>4. ASSUME Passing' \subseteq Passing, Sent' \subseteq Sent
      PROVE  Unanswered' /\ OwnAnswers' /\ RivalsWait' /\ SlotsHeld'
  BY <1>2, <1>4 DEF FlowInv, Unanswered, OwnAnswers, RivalsWait, SlotsHeld, page, peer
<1>5. CASE m.type = "run" /\ RunExec(m.exec)
  <2>1. /\ UNCHANGED <<waiting, results>>
        /\ \/ m.exec = NewConn /\ UNCHANGED queue
           \/ UNCHANGED <<queue, listed>>
           \/ m.exec # NewConn /\ listed /\ queue' = Append(queue, m.exec) /\ UNCHANGED listed
    BY <1>5 DEF RunExec
  <2>2. Members(queue') \subseteq Members(queue) \cup {m.exec}
    <3>1. m.exec # NewConn => m.exec \in Call
      BY <1>1, <1>5, BlockTypes DEF Exec
    <3>2. queue \in Seq(Call)
      BY PipelineTypes
    <3>3. CASE UNCHANGED queue
      BY <3>3
    <3>4. CASE m.exec \in Call /\ queue' = Append(queue, m.exec)
      BY <3>2, <3>4, AppendMembers
    <3>5. QED
      BY <2>1, <3>1, <3>3, <3>4
  <2>3. Passing' \subseteq Passing /\ Sent' \subseteq Sent
    BY <1>1, <1>2, <1>3, <1>5, <2>1, <2>2 DEF Passing, Sent, peer
  <2>4. LastWords'
    BY <1>1, <2>1 DEF FlowInv, LastWords, Orderly
  <2>5. Callbacks'
    BY <1>1, <1>2, <1>3, <2>1, <2>2 DEF FlowInv, Callbacks, peer
  <2>6. QED
    BY <1>4, <2>3, <2>4, <2>5 DEF FlowInv
<1>6. CASE m.type # "run" /\ Send(m)
  <2>1. m \in Messages /\ m \in Sent
    BY <1>1, <1>6, BlockTypes DEF Sent
  <2>2. /\ results' = Append(results, m) /\ UNCHANGED <<listed, queue>>
        /\ waiting' = IF m.type = "event" THEN waiting ELSE waiting \ {m.exec}
    BY <1>3, <1>6 DEF Send, KeepsCallback
  <2>3. Members(results') = Members(results) \cup {m} /\ results \in Seq(Messages)
    BY <2>1, <2>2, FlowTypes, AppendMembers
  <2>4. Passing' = Passing /\ Sent' \subseteq Sent
    BY <1>1, <1>2, <1>3, <1>6, <2>1, <2>2, <2>3 DEF Passing, Sent, peer
  <2>5. LastWords'
    <3>1. \A x \in Members(results) : Silent(x, m)
      BY <1>1 DEF FlowInv, LastWords
    <3>2. Orderly(results')
      BY <2>1, <2>2, <2>3, <3>1, OrderlyAppend DEF FlowInv, LastWords
    <3>3. QED
      BY <1>1, <2>3, <3>2 DEF FlowInv, LastWords, Orderly
  <2>6. Callbacks'
    <3>1. CASE m.type = "event"
      BY <1>1, <1>2, <2>2, <3>1 DEF FlowInv, Callbacks, peer
    <3>2. CASE m.type = "answer"
      <4>1. m.exec = m.of /\ m.of \notin Passing /\ m.exec \in Call /\ m.exec # NewConn
        BY <2>1, <3>2, BlockTypes, CallNumbers DEF FlowInv, OwnAnswers
      <4>2. waiting' = waiting \ {m.exec}
        BY <2>2, <3>2
      <4>3. ASSUME NEW x \in Members(main') PROVE x.exec # m.exec
        <5>1. x \in Blocks /\ Silent(m, x)
          BY <1>1
        <5>2. CASE x.type = "run"
          BY <1>1, <1>6, <4>1, <5>2 DEF InMain, Passing
        <5>3. CASE x.type # "run"
          <6>1. x \in Messages /\ x.of # m.of /\ x \in Sent
            BY <1>1, <3>2, <5>1, <5>3, BlockTypes DEF Silent, Sent
          <6>2. CASE x.type = "answer"
            BY <4>1, <6>1, <6>2 DEF FlowInv, OwnAnswers
          <6>3. CASE x.type = "event"
            BY <4>1, <6>1, <6>3, BlockTypes
          <6>4. QED
            BY <6>1, <6>2, <6>3, BlockTypes
        <5>4. QED
          BY <5>2, <5>3
      <4>4. m.exec \notin Members(queue) /\ m.exec \notin Members(chain)
        BY <4>1 DEF Passing
      <4>5. QED
        BY <1>1, <1>2, <2>2, <4>1, <4>2, <4>3, <4>4 DEF FlowInv, Callbacks, peer
    <3>3. QED
      BY <2>1, <3>1, <3>2, BlockTypes
  <2>7. QED
    BY <1>4, <2>4, <2>5, <2>6 DEF FlowInv
<1>7. QED
  BY <1>2, <1>5, <1>6

(* A call leaves the queue of the plugin.                                   *)
LEMMA QueueStepFlow == TypeInv /\ OrderInv /\ FlowInv /\ QueueStep => FlowInv'
<1> SUFFICES ASSUME TypeInv, OrderInv, FlowInv, QueueStep PROVE FlowInv'
  OBVIOUS
<1> DEFINE c == Head(queue)
<1>1. c \in Call /\ Members(queue) = Members(queue') \cup {c} /\ Precede({c}, Members(queue'))
  BY PipelineTypes, CallNumbers, TailMembers, TailIncreases DEF QueueStep, OrderInv
<1>2. /\ UNCHANGED <<page, execs, edt, waiting, plugin, applied, described, alive, results>>
      /\ \/ (listed' => listed) /\ UNCHANGED <<main, slot, chain>>
         \/ kind[c] \in Creations \cup Descriptions /\ BeginOperation(c)
         \/ kind[c] = "candidate" /\ AddIceCandidate(c)
         \/ kind[c] = "close" /\ Close(c)
      /\ queue # <<>>
  BY DEF QueueStep
<1> HIDE DEF c
<1>3. /\ c \in waiting /\ NewConn \in waiting /\ c \in Passing /\ c # NewConn
      /\ promise[c] = IF kind[c] = "close" THEN "none" ELSE "pending"
  BY <1>1, <1>2, CallNumbers DEF FlowInv, Callbacks, Passing, Unanswered
<1>4. Deferred' = Deferred
  BY <1>2 DEF Deferred, edt
<1>5. /\ c \notin Members(queue') /\ c \notin Members(chain) /\ c \notin InMain
      /\ c \notin Deferred /\ c \notin Members(execs)
  <2>1. \A A \in SUBSET Exec : Precede(A, {c}) \/ Precede({c}, A) => c \notin A
    BY <1>1, CallNumbers DEF Precede
  <2>2. /\ Precede({c}, Members(execs)) /\ Precede({c}, InMain) /\ Precede({c}, Deferred)
        /\ Precede(Members(chain), {c})
    BY <1>1 DEF OrderInv, StagesInOrder, Precede
  <2>3. Members(queue') \in SUBSET Exec
    BY <1>1, PipelineTypes, CallNumbers
  <2>4. QED
    BY <1>1, <2>1, <2>2, <2>3, PipelineTypes, CallNumbers
<1>6. ASSUME Passing' \subseteq Passing, Sent' = Sent PROVE OwnAnswers'
  BY <1>2, <1>6 DEF FlowInv, OwnAnswers, page
<1>7. ASSUME Passing' \subseteq Passing PROVE Unanswered' /\ RivalsWait'
  BY <1>2, <1>7 DEF FlowInv, Unanswered, RivalsWait, page
<1>8. CASE (listed' => listed) /\ UNCHANGED <<main, slot, chain>>
  <2>1. Passing' \subseteq Passing /\ Sent' = Sent
    BY <1>1, <1>2, <1>4, <1>8, SameMain DEF Passing, Sent
  <2>2. SlotsHeld' /\ Callbacks' /\ LastWords'
    BY <1>1, <1>2, <1>3, <1>8, SameWords DEF FlowInv, SlotsHeld, Callbacks, page
  <2>3. QED
    BY <1>6, <1>7, <2>1, <2>2 DEF FlowInv
<1>9. CASE kind[c] \in Creations \cup Descriptions /\ BeginOperation(c)
  <2>1. /\ chain' = Append(chain, c) /\ UNCHANGED <<main, listed>>
        /\ slot' = [slot EXCEPT ![SlotOf(kind[c])] = c]
    BY <1>9 DEF BeginOperation
  <2>2. Members(chain') = Members(chain) \cup {c} /\ chain \in Seq(Call)
    BY <1>1, <2>1, PipelineTypes, AppendMembers
  <2>3. Passing' \subseteq Passing /\ Sent' = Sent
    BY <1>1, <1>2, <1>4, <2>1, <2>2, SameMain DEF Passing, Sent
  <2>4. LastWords' /\ Callbacks'
    BY <1>1, <1>2, <1>3, <2>1, <2>2, SameWords DEF FlowInv, Callbacks
  <2>5. ASSUME NEW d \in Members(chain) PROVE SlotOf(kind[d]) # SlotOf(kind[c])
    <3>1. /\ d \in Call /\ d # c /\ kind[d] \in Creations \cup Descriptions
          /\ d \in Passing /\ d # NewConn
      BY <1>5, PipelineTypes, CallNumbers DEF TypeInv, ChainFilled, Passing
    <3>2. promise[d] = "pending" /\ promise[c] = "pending"
      BY <1>3, <1>9, <3>1 DEF FlowInv, Unanswered, Creations, Descriptions
    <3>3. SlotOf(kind[d]) = SlotOf(kind[c]) => kind[c] \in Rivals(kind[d])
      BY <1>9, <3>1, RivalsShareSlots
    <3>4. QED
      BY <1>1, <3>1, <3>2, <3>3 DEF FlowInv, RivalsWait
  <2>6. SlotsHeld'
    <3>1. slot \in [Slots -> Call \cup {0}] /\ \A k : SlotOf(k) \in Slots
      BY SlotTypes DEF TypeInv, TypeOK
    <3>2. \A d \in Members(chain') : slot'[SlotOf(kind[d])] = d
      BY <2>1, <2>2, <2>5, <3>1 DEF FlowInv, SlotsHeld
    <3>3. chain # <<>> => chain' # <<>> /\ Head(chain') = Head(chain)
      BY <1>1, <2>1, <2>2, HeadTailAppend, AppendProperties
    <3>4. QED
      BY <1>2, <3>2, <3>3 DEF FlowInv, SlotsHeld, page
  <2>7. QED
    BY <1>6, <1>7, <2>3, <2>4, <2>6 DEF FlowInv
<1>10. ASSUME NEW m \in Messages, Emit(m), m.of = c, UNCHANGED <<slot, chain>>, listed' => listed,
              m.exec \in waiting, promise[c] # "fulfilled",
              m.type = "answer" => m.exec = c /\ promise[c] = "pending"
       PROVE  FlowInv'
  <2>1. InMain' = InMain
    BY <1>10, PipelineTypes, MainEmit
  <2>2. Passing' \subseteq Passing /\ c \notin Passing'
    BY <1>1, <1>2, <1>4, <1>5, <1>10, <2>1 DEF Passing
  <2>3. UNCHANGED <<page, execs, waiting, results>>
    BY <1>2
  <2>4. OwnAnswers' /\ LastWords' /\ \A n \in Members(main') : n.exec \in waiting'
    BY <1>3, <1>5, <1>10, <2>2, <2>3, EmitFlow DEF FlowInv
  <2>5. Callbacks'
    BY <1>1, <1>2, <1>3, <1>10, <2>4 DEF FlowInv, Callbacks
  <2>6. SlotsHeld'
    BY <1>2, <1>10 DEF FlowInv, SlotsHeld, page
  <2>7. QED
    BY <1>7, <2>2, <2>4, <2>5, <2>6 DEF FlowInv
<1>11. CASE kind[c] = "candidate" /\ AddIceCandidate(c)
  <2>1. promise[c] = "pending"
    BY <1>3, <1>11
  <2>2. Emit(Answer(c, TRUE, c)) /\ UNCHANGED <<listed, slot, chain>>
    BY <1>11 DEF AddIceCandidate
  <2>3. Answer(c, TRUE, c) \in Messages /\ Answer(c, TRUE, c).of = c /\ Answer(c, TRUE, c).exec = c
    BY <1>1 DEF Answer, Messages
  <2>4. QED
    BY <1>3, <1>10, <2>1, <2>2, <2>3
<1>12. CASE kind[c] = "close" /\ Close(c)
  <2>1. promise[c] = "none"
    BY <1>3, <1>12
  <2>2. Emit(Event(c, TRUE)) /\ UNCHANGED <<slot, chain>> /\ ~ listed'
    BY <1>12 DEF Close
  <2>3. /\ Event(c, TRUE) \in Messages /\ Event(c, TRUE).of = c
        /\ Event(c, TRUE).exec = NewConn /\ Event(c, TRUE).type # "answer"
    BY <1>1 DEF Event, Messages
  <2>4. QED
    BY <1>3, <1>10, <2>1, <2>2, <2>3
<1>13. QED
  BY <1>2, <1>8, <1>9, <1>11, <1>12

LEMMA NativeAppliesFlow == TypeInv /\ OrderInv /\ FlowInv /\ NativeApplies => FlowInv'
<1> SUFFICES ASSUME TypeInv, OrderInv, FlowInv, NativeApplies PROVE FlowInv'
  OBVIOUS
<1> DEFINE c == Head(chain)
           e == Event(c, FALSE)
<1>1. c \in Call /\ c \in Members(chain) /\ kind[c] \in Descriptions
  BY PipelineTypes, TailMembers DEF NativeApplies
<1>2. /\ UNCHANGED <<page, execs, edt, waiting, plugin, listed, queue, slot, chain, closed, alive,
                     results>>
      /\ Emit(e) \/ UNCHANGED main
      /\ described' = described \cup {kind[c]} /\ chain # <<>> /\ c' = c
  BY DEF NativeApplies
<1>3. e \in Messages /\ e.of = c /\ e.exec = NewConn /\ e.type # "answer"
  BY <1>1 DEF Event, Messages
<1> HIDE DEF e
<1>4. /\ c \in Passing /\ promise[c] = "pending" /\ NewConn \in waiting
  BY <1>1, <1>2, CallNumbers DEF FlowInv, Unanswered, Callbacks, Passing, Descriptions
<1>5. c \notin Members(execs)
  <2>1. \A d \in Members(chain), x \in Members(execs) : d < x
    BY DEF OrderInv, StagesInOrder, Precede
  <2> HIDE DEF c
  <2>2. c \in Nat /\ ~ (c < c)
    BY <1>1, CallNumbers
  <2>3. QED
    BY <1>1, <2>1, <2>2
<1>6. Deferred' = Deferred /\ InMain' = InMain
  BY <1>2, <1>3, PipelineTypes, MainEmit, SameMain DEF Deferred, edt
<1>7. Passing' = Passing
  BY <1>2, <1>6 DEF Passing
<1>8. OwnAnswers' /\ LastWords' /\ \A n \in Members(main') : n.exec \in waiting'
  <2>1. CASE Emit(e)
    BY <1>2, <1>3, <1>4, <1>5, <1>7, <2>1, EmitFlow DEF FlowInv
  <2>2. CASE UNCHANGED main
    BY <1>2, <1>7, <2>2, SameWords DEF FlowInv, OwnAnswers, Sent, Callbacks, page
  <2>3. QED
    BY <1>2, <2>1, <2>2
<1>9. SlotsHeld'
  BY <1>2 DEF FlowInv, SlotsHeld, page
<1>10. Unanswered' /\ RivalsWait' /\ Callbacks'
  BY <1>2, <1>7, <1>8 DEF FlowInv, Unanswered, RivalsWait, Callbacks, page
<1>11. QED
  BY <1>8, <1>9, <1>10 DEF FlowInv

(* A completion handler answers the call that is first in the chain: its    *)
(* slot still holds that call.                                              *)
LEMMA NativeCompletesFlow == TypeInv /\ OrderInv /\ FlowInv /\ NativeCompletes => FlowInv'
<1> SUFFICES ASSUME TypeInv, OrderInv, FlowInv, NativeCompletes PROVE FlowInv'
  OBVIOUS
<1> DEFINE c == Head(chain)
<1>1. /\ c \in Call /\ c \in Members(chain) /\ Members(chain) = Members(chain') \cup {c}
      /\ Precede({c}, Members(chain'))
  <2>1. chain \in Seq(Call) /\ chain # <<>> /\ chain' = Tail(chain) /\ Increases(chain)
    BY PipelineTypes DEF NativeCompletes, OrderInv
  <2>2. c \in Call /\ Members(chain) = Members(chain') \cup {c}
    BY <2>1, TailMembers
  <2>3. Precede({c}, Members(chain'))
    BY <2>1, CallNumbers, TailIncreases
  <2>4. QED
    BY <2>2, <2>3
<1>2. /\ UNCHANGED <<page, execs, edt, waiting, plugin, listed, queue, slot, described, closed,
                     results>>
      /\ applied' = FALSE /\ chain # <<>>
      /\ \/ applied /\ CallsBack(c, TRUE)
         \/ CallsBack(c, FALSE)
         \/ kind[c] \in Creations /\ CallsBack(c, TRUE)
  BY DEF NativeCompletes
<1>3. slot[SlotOf(kind[c])] = c /\ (applied => kind[c] \in described)
  BY <1>1 DEF FlowInv, SlotsHeld
<1> HIDE DEF c
<1>4. PICK ok \in BOOLEAN : Emit(Answer(c, ok, c)) /\ UNCHANGED alive
  BY <1>2, <1>3 DEF CallsBack, Creations, Descriptions
<1> DEFINE a == Answer(c, ok, c)
<1>5. a \in Messages /\ a.of = c /\ a.exec = c /\ Emit(a)
  BY <1>1, <1>4 DEF Answer, Messages
<1> HIDE DEF a
<1>6. /\ c \in Passing /\ c # NewConn /\ c \in waiting
      /\ kind[c] \in Creations \cup Descriptions
  BY <1>1, CallNumbers DEF TypeInv, ChainFilled, FlowInv, Callbacks, Passing
<1>7. promise[c] = "pending"
  BY <1>6 DEF FlowInv, Unanswered, Creations, Descriptions
<1>8. /\ c \notin Members(chain') /\ c \notin Members(queue) /\ c \notin InMain
      /\ c \notin Deferred /\ c \notin Members(execs)
  <2>1. c \notin Members(chain')
    BY <1>1, CallNumbers DEF Precede
  <2>2. QED
    BY <1>1, <2>1, CallNumbers DEF OrderInv, StagesInOrder, Precede
<1>9. Deferred' = Deferred /\ InMain' = InMain
  BY <1>2, <1>5, PipelineTypes, MainEmit DEF Deferred, edt
<1>10. Passing' \subseteq Passing /\ c \notin Passing'
  BY <1>1, <1>2, <1>8, <1>9 DEF Passing
<1>11. OwnAnswers' /\ LastWords' /\ \A n \in Members(main') : n.exec \in waiting'
  BY <1>2, <1>5, <1>6, <1>7, <1>8, <1>10, EmitFlow DEF FlowInv
<1>12. SlotsHeld'
  BY <1>1, <1>2, <1>4 DEF FlowInv, SlotsHeld, page
<1>13. Unanswered' /\ RivalsWait' /\ Callbacks'
  BY <1>1, <1>2, <1>10, <1>11 DEF FlowInv, Unanswered, RivalsWait, Callbacks, page
<1>14. QED
  BY <1>11, <1>12, <1>13 DEF FlowInv

LEMMA NextFlow == Disciplined /\ TypeInv /\ OrderInv /\ FlowInv /\ [Next]_vars => FlowInv'
<1> SUFFICES ASSUME Disciplined, TypeInv, OrderInv, FlowInv, [Next]_vars PROVE FlowInv'
  OBVIOUS
<1>1. CASE UNCHANGED vars
  <2>1. UNCHANGED <<page, execs, onReady, disposed, waiting, main, listed, queue, peer, results>>
    BY <1>1 DEF vars, edt
  <2>2. Passing' = Passing /\ Sent' = Sent
    BY <2>1, SameMain DEF Passing, Deferred, Sent, peer
  <2>3. LastWords'
    BY <2>1, SameWords DEF FlowInv
  <2>4. QED
    BY <2>1, <2>2, <2>3
    DEF FlowInv, Unanswered, OwnAnswers, RivalsWait, SlotsHeld, Callbacks, page, peer
<1>2. CASE Next
  BY <1>2, PageCallFlow, PageResultFlow, EdtExecFlow, PluginReadyFlow, RunDeferredFlow,
     DisposeFlow, MainStepFlow, QueueStepFlow, NativeAppliesFlow, NativeCompletesFlow DEF Next
<1>3. QED
  BY <1>1, <1>2

LEMMA FlowHolds == ASSUME Disciplined PROVE Spec => []FlowInv
<1>1. TypeInv /\ OrderInv /\ FlowInv /\ [Next]_vars => FlowInv'
  BY NextFlow
<1>2. QED
  BY <1>1, InitFlow, TypeInvHolds, OrderHolds, PTL DEF Spec

(* sendResult finds a callback for every answer and event that it sends, so *)
(* the main thread does not fail on nil, and no call is answered twice.     *)
THEOREM CallbacksFound == ASSUME Disciplined PROVE Spec => []AnswersFindCallbacks
<1>1. TypeInv /\ FlowInv => AnswersFindCallbacks
  <2> SUFFICES ASSUME TypeInv, FlowInv PROVE AnswersFindCallbacks
    OBVIOUS
  <2>1. ASSUME NEW i \in DOMAIN main PROVE main[i].exec \in waiting
    BY DEF FlowInv, Callbacks, Members
  <2>2. ASSUME NEW i \in DOMAIN main, NEW j \in DOMAIN main, main[i].type = "answer",
               main[j].type = "answer", main[i].exec = main[j].exec
        PROVE  i = j
    <3>1. i \in Nat /\ j \in Nat
      BY PipelineTypes, LenProperties
    <3>2. main[i] \in Sent /\ main[j] \in Sent
      BY <2>2 DEF Sent, Members
    <3>3. main[i].of = main[j].of
      BY <2>2, <3>2 DEF FlowInv, OwnAnswers
    <3>4. ~ (i < j) /\ ~ (j < i)
      BY <2>2, <3>3 DEF FlowInv, LastWords, Orderly, Silent
    <3>5. QED
      BY <3>1, <3>4
  <2>3. QED
    BY <2>1, <2>2 DEF AnswersFindCallbacks
<1>2. QED
  BY <1>1, TypeInvHolds, FlowHolds, PTL

(* A closure of the connection always answers the call that put it there,   *)
(* and finds the description which that call has set.                       *)
THEOREM OwnClosures == ASSUME Disciplined PROVE Spec => []AnswersAreOwn
<1>1. TypeInv /\ FlowInv => AnswersAreOwn
  BY DEF AnswersAreOwn, FlowInv, SlotsHeld, OwnAnswers, Sent
<1>2. QED
  BY <1>1, TypeInvHolds, FlowHolds, PTL

(* The page learns of a new signaling state before the promise of the call  *)
(* that brought it about is fulfilled.                                      *)
THEOREM StateComesFirst == ASSUME Disciplined PROVE Spec => []StateBeforeAnswer
<1>1. FlowInv => StateBeforeAnswer
  BY DEF StateBeforeAnswer, FlowInv, OwnAnswers, Sent
<1>2. QED
  BY <1>1, FlowHolds, PTL
=============================================================================
