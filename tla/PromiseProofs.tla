--------------------------- MODULE PromiseProofs ---------------------------
(***************************************************************************)
(* Proofs about Promise for every number of promises, every set of values   *)
(* and errors and every bound.                                              *)
(***************************************************************************)
EXTENDS Promise, SequenceTheorems, TLAPS

(* A sequence without its last element.                                     *)
LEMMA FrontProperties ==
  ASSUME NEW S, NEW s \in Seq(S), s # <<>>
  PROVE  /\ s[Len(s)] \in S
         /\ SubSeq(s, 1, Len(s) - 1) \in Seq(S)
         /\ Len(SubSeq(s, 1, Len(s) - 1)) = Len(s) - 1
         /\ \A i \in 1 .. Len(s) - 1 : SubSeq(s, 1, Len(s) - 1)[i] = s[i]
<1>1. Len(s) \in Nat \ {0}
  OBVIOUS
<1>2. PICK n \in Nat : n = Len(s) - 1
  BY <1>1
<1>3. \A i \in 1 .. n : s[i] \in S
  BY <1>1, <1>2
<1>4. Len(SubSeq(s, 1, n)) = n
  BY <1>3, SubSeqProperties
<1>5. /\ SubSeq(s, 1, Len(s) - 1) \in Seq(S)
      /\ \A i \in 1 .. Len(s) - 1 : SubSeq(s, 1, Len(s) - 1)[i] = s[i]
  OBVIOUS
<1>6. QED
  BY <1>1, <1>2, <1>4, <1>5

(* The stack without its innermost frame.                                   *)
LEMMA BelowProperties ==
  ASSUME stack \in Seq(Frames), stack # <<>>
  PROVE  /\ Top \in Frames
         /\ Below \in Seq(Frames)
         /\ Len(Below) = Len(stack) - 1
         /\ \A i \in 1 .. Len(stack) - 1 : Below[i] = stack[i]
BY FrontProperties DEF Top, Below

LEMMA IdProperties ==
  /\ Root \subseteq Id /\ Derived \subseteq Id
  /\ Root \cap Derived = {}
  /\ NoId \notin Id
BY ConstantsAssumption DEF Root, Derived, Id, NoId

LEMMA ExistingType == TypeOK => Existing \subseteq Id
BY ConstantsAssumption DEF TypeOK, Existing, Id

LEMMA OutcomeOfType ==
  ASSUME TypeOK, NEW p \in Id, state[p] \in Settled
  PROVE  OutcomeOf(p) \in Outcome
BY DEF OutcomeOf, Outcome, Fulfil, Reject, TypeOK, Settled

LEMMA DefaultOutcomeType ==
  ASSUME NEW h \in Handler, NEW out \in Outcome
  PROVE  DefaultOutcome(h, out) \in Outcome
BY ConstantsAssumption DEF DefaultOutcome, Reject, Thrown, Outcome

(* What the innermost frame can be.                                         *)
LEMMA TopType ==
  ASSUME TypeOK
  PROVE  /\ Draining => Top.id \in Id /\ Top.out \in Outcome
         /\ InBody => Top.id \in Derived \cup {NoId}
<1>1. stack # <<>> => Top \in Frames
  BY BelowProperties DEF TypeOK
<1>2. QED
  BY <1>1 DEF Draining, InBody, Frames, DrainFrames, BodyFrames

(* The part of the state that a settlement assigns.                         *)
FieldsOK ==
  /\ state \in [Id -> State]
  /\ value \in [Id -> Vals \cup {Nil}]
  /\ error \in [Id -> Errs \cup {Nil}]
  /\ \A p \in Id : /\ state[p] = "Fulfilled" => value[p] \in Vals
                   /\ state[p] = "Rejected" => error[p] \in Errs
  /\ stack \in Seq(Frames)

(* Assigning the fields of a promise and starting its loop keeps the types. *)
LEMMA SettleType ==
  ASSUME TypeOK, NEW p \in Id, NEW out \in Outcome, NEW frames \in Seq(Frames),
         Settle(p, out, frames)
  PROVE  FieldsOK'
<1>1. Drain(p, out) \in Frames
  BY DEF Drain, Frames, DrainFrames
<1>2. stack' \in Seq(Frames)
  BY <1>1, AppendProperties DEF Settle
<1>3. CASE out.to = "Fulfilled"
  <2>1. out.obj \in Vals
    BY <1>3 DEF Outcome
  <2>2. QED
    BY <1>2, <1>3, <2>1 DEF Settle, TypeOK, FieldsOK, State, Settled
<1>4. CASE out.to = "Rejected"
  <2>1. out.obj \in Errs
    BY <1>4 DEF Outcome
  <2>2. QED
    BY <1>2, <1>4, <2>1 DEF Settle, TypeOK, FieldsOK, State, Settled
<1>5. QED
  BY <1>3, <1>4 DEF Outcome

(* Adding a handler at the end of one list keeps the lists' type.           *)
LEMMA AddHandlerType ==
  ASSUME TypeOK, NEW p \in Id, NEW h \in Handler
  PROVE  [thens EXCEPT ![p] = Append(@, h)] \in [Id -> Seq(Handler)]
BY AppendProperties DEF TypeOK
-----------------------------------------------------------------------------
LEMMA InitType == Init => TypeOK
BY ConstantsAssumption, IdProperties, EmptySeq
DEF Init, TypeOK, State, Settled, Root, Derived

LEMMA PostSettleType ==
  ASSUME TypeOK, NEW p \in Root, NEW out \in Outcome, PostSettle(p, out)
  PROVE  TypeOK'
<1>1. SettleTask(p, out) \in Tasks
  BY DEF SettleTask, Tasks
<1>2. queue' \in Seq(Tasks)
  BY <1>1, AppendProperties DEF PostSettle, TypeOK
<1>3. settles' \in [Root -> 0 .. MaxSettles]
  BY ConstantsAssumption DEF PostSettle, TypeOK
<1>4. QED
  BY <1>2, <1>3 DEF PostSettle, TypeOK

LEMMA PostAppType == TypeOK /\ PostApp => TypeOK'
<1> SUFFICES ASSUME TypeOK, PostApp PROVE TypeOK'
  OBVIOUS
<1>1. AppTask \in Tasks
  BY DEF AppTask, Tasks
<1>2. queue' \in Seq(Tasks)
  BY <1>1, AppendProperties DEF PostApp, TypeOK
<1>3. QED
  BY <1>2 DEF PostApp, TypeOK

LEMMA RunTaskType == TypeOK /\ RunTask => TypeOK'
<1> SUFFICES ASSUME TypeOK, RunTask PROVE TypeOK'
  OBVIOUS
<1>1. Head(queue) \in Tasks /\ queue' \in Seq(Tasks)
  BY HeadTailProperties DEF RunTask, TypeOK
<1>2. CASE Head(queue).kind = "app"
  <2>1. Body(NoId) \in Frames
    BY DEF Body, Frames, BodyFrames
  <2>2. stack' = <<Body(NoId)>> /\ UNCHANGED <<state, value, error>>
    BY <1>1, <1>2 DEF RunTask, Tasks
  <2>3. QED
    BY <1>1, <2>1, <2>2 DEF RunTask, TypeOK
<1>3. CASE Head(queue).kind = "settle"
  <2>1. Head(queue).id \in Id /\ Head(queue).out \in Outcome
    BY <1>1, <1>3, IdProperties DEF Tasks
  <2>2. Settle(Head(queue).id, Head(queue).out, <<>>)
    BY <1>3 DEF RunTask
  <2>3. <<>> \in Seq(Frames)
    BY EmptySeq
  <2>4. FieldsOK'
    BY <2>1, <2>2, <2>3, SettleType
  <2>5. QED
    BY <1>1, <2>4 DEF RunTask, TypeOK, FieldsOK
<1>4. QED
  BY <1>2, <1>3 DEF RunTask

LEMMA CallResolverType ==
  ASSUME TypeOK, NEW p \in Root, NEW out \in Outcome, CallResolver(p, out)
  PROVE  TypeOK'
<1>1. FieldsOK'
  BY SettleType, IdProperties DEF CallResolver, TypeOK
<1>2. settles' \in [Root -> 0 .. MaxSettles]
  BY ConstantsAssumption DEF CallResolver, TypeOK
<1>3. QED
  BY <1>1, <1>2 DEF CallResolver, TypeOK, FieldsOK

LEMMA ThenType ==
  ASSUME TypeOK, NEW p \in Existing, NEW kind \in UserKind, Then(p, kind)
  PROVE  TypeOK'
<1>1. p \in Id /\ made + 1 \in Derived /\ made' \in NRoots .. NPromises
  BY ExistingType, ConstantsAssumption DEF Then, TypeOK, Derived
<1>2. [child |-> made + 1, kind |-> kind] \in Handler
  BY <1>1 DEF Handler, Kind
<1>3. thens' \in [Id -> Seq(Handler)]
  BY <1>1, <1>2, AddHandlerType DEF Then
<1>4. origin' \in [Id -> Id \cup {NoId}]
  BY <1>1, IdProperties DEF Then, TypeOK
<1>5. stack' \in Seq(Frames)
  <2>1. CASE state[p] = "Pending"
    BY <2>1 DEF Then, TypeOK
  <2>2. CASE state[p] # "Pending"
    <3>1. Drain(p, OutcomeOf(p)) \in Frames
      BY <1>1, <2>2, OutcomeOfType DEF TypeOK, State, Drain, Frames, DrainFrames
    <3>2. QED
      BY <2>2, <3>1, AppendProperties DEF Then, TypeOK
  <2>3. QED
    BY <2>1, <2>2
<1>6. QED
  BY <1>1, <1>3, <1>4, <1>5 DEF Then, TypeOK

LEMMA DrainEndType == TypeOK /\ DrainEnd => TypeOK'
<1> SUFFICES ASSUME TypeOK, DrainEnd PROVE TypeOK'
  OBVIOUS
<1>1. stack' \in Seq(Frames)
  BY BelowProperties DEF DrainEnd, Draining, TypeOK
<1>2. QED
  BY <1>1 DEF DrainEnd, TypeOK

LEMMA DrainStepType == TypeOK /\ DrainStep => TypeOK'
<1> SUFFICES ASSUME TypeOK, DrainStep PROVE TypeOK'
  OBVIOUS
<1> DEFINE h == Head(thens[Top.id])
<1>1. Top.id \in Id /\ Top.out \in Outcome
  BY TopType DEF DrainStep
<1>2. h \in Handler /\ Tail(thens[Top.id]) \in Seq(Handler)
  BY <1>1, HeadTailProperties DEF DrainStep, TypeOK
<1>3. h.child \in Derived
  BY <1>2 DEF Handler
<1>4. /\ thens' = [thens EXCEPT ![Top.id] = Tail(@)]
      /\ called' = called \cup {h.child}
      /\ \/ /\ stack' = Append(stack, Body(h.child))
            /\ UNCHANGED <<state, value, error>>
         \/ Settle(h.child, DefaultOutcome(h, Top.out), stack)
      /\ UNCHANGED <<made, queue, settles, origin>>
  BY DEF DrainStep
<1>5. thens' \in [Id -> Seq(Handler)]
  BY <1>1, <1>2, <1>4 DEF TypeOK
<1>6. called' \subseteq Derived
  BY <1>3, <1>4 DEF TypeOK
<1> HIDE DEF h
<1>7. FieldsOK'
  <2>1. CASE stack' = Append(stack, Body(h.child)) /\ UNCHANGED <<state, value, error>>
    <3>1. Body(h.child) \in Frames
      BY <1>3 DEF Body, Frames, BodyFrames
    <3>2. stack' \in Seq(Frames)
      BY <2>1, <3>1, AppendProperties DEF TypeOK
    <3>3. QED
      BY <2>1, <3>2 DEF FieldsOK, TypeOK
  <2>2. CASE Settle(h.child, DefaultOutcome(h, Top.out), stack)
    <3>1. DefaultOutcome(h, Top.out) \in Outcome
      BY <1>1, <1>2, DefaultOutcomeType
    <3>2. h.child \in Id /\ stack \in Seq(Frames)
      BY <1>3, IdProperties DEF TypeOK
    <3>3. QED
      BY <2>2, <3>1, <3>2, SettleType
  <2>3. QED
    BY <1>4, <2>1, <2>2
<1>8. QED
  BY <1>4, <1>5, <1>6, <1>7 DEF TypeOK, FieldsOK

LEMMA ReturnOutcomeType ==
  ASSUME TypeOK, NEW out \in Outcome, ReturnOutcome(out)
  PROVE  TypeOK'
<1>1. Top.id \in Id /\ Below \in Seq(Frames)
  BY TopType, IdProperties, BelowProperties DEF ReturnOutcome, InBody, TypeOK
<1>2. FieldsOK'
  BY <1>1, SettleType DEF ReturnOutcome
<1>3. QED
  BY <1>2 DEF ReturnOutcome, TypeOK, FieldsOK

LEMMA ReturnPromiseType ==
  ASSUME TypeOK, NEW q \in Existing, ReturnPromise(q)
  PROVE  TypeOK'
<1>1. Top.id \in Derived /\ Top.id \in Id /\ Below \in Seq(Frames)
  BY TopType, IdProperties, BelowProperties DEF ReturnPromise, InBody, TypeOK
<1>2. q \in Id
  BY ExistingType
<1>3. CASE state[q] \in Settled
  <2>1. FieldsOK'
    BY <1>1, <1>2, <1>3, SettleType, OutcomeOfType DEF ReturnPromise, Settled
  <2>2. QED
    BY <1>3, <2>1 DEF ReturnPromise, TypeOK, FieldsOK, Settled
<1>4. CASE state[q] = "Pending"
  <2>1. [child |-> Top.id, kind |-> "adopt"] \in Handler
    BY <1>1 DEF Handler, Kind
  <2>2. thens' \in [Id -> Seq(Handler)]
    BY <1>2, <1>4, <2>1, AddHandlerType DEF ReturnPromise, Settled
  <2>3. QED
    BY <1>1, <1>4, <2>2 DEF ReturnPromise, TypeOK, Settled
<1>5. QED
  BY <1>3, <1>4 DEF ReturnPromise

LEMMA ReturnAppType == TypeOK /\ ReturnApp => TypeOK'
<1> SUFFICES ASSUME TypeOK, ReturnApp PROVE TypeOK'
  OBVIOUS
<1>1. stack' \in Seq(Frames)
  BY BelowProperties DEF ReturnApp, InBody, TypeOK
<1>2. QED
  BY <1>1 DEF ReturnApp, TypeOK

LEMMA NextType == TypeOK /\ [Next]_vars => TypeOK'
<1> SUFFICES ASSUME TypeOK, [Next]_vars PROVE TypeOK'
  OBVIOUS
<1>1. CASE UNCHANGED vars
  BY <1>1 DEF vars, TypeOK
<1>2. CASE Next
  BY <1>2, PostSettleType, PostAppType, RunTaskType, CallResolverType, ThenType, DrainEndType,
     DrainStepType, ReturnOutcomeType, ReturnPromiseType, ReturnAppType
  DEF Next, Edt, Return
<1>3. QED
  BY <1>1, <1>2

(* The fields of every promise, every handler list, the queue and the call  *)
(* stack of Promise.java always hold what the code expects of them; the     *)
(* value of a fulfilled promise and the error of a rejected one are set.    *)
THEOREM TypeCorrect == Spec => []TypeOK
BY InitType, NextType, PTL DEF Spec
-----------------------------------------------------------------------------
(* No handler is left behind in a settled promise.                          *)

LEMMA PushDrained ==
  ASSUME NEW s \in Seq(Frames), NEW f \in Frames, NEW p \in Id
  PROVE  /\ DrainedIn(s, p) => DrainedIn(Append(s, f), p)
         /\ f.kind = "drain" /\ f.id = p => DrainedIn(Append(s, f), p)
<1>1. /\ Len(Append(s, f)) = Len(s) + 1 /\ Len(s) \in Nat
      /\ DOMAIN s = 1 .. Len(s) /\ DOMAIN Append(s, f) = 1 .. Len(s) + 1
      /\ \A i \in 1 .. Len(s) : Append(s, f)[i] = s[i]
      /\ Append(s, f)[Len(s) + 1] = f
  BY AppendProperties, LenProperties
<1>2. QED
  BY <1>1 DEF DrainedIn

LEMMA PopDrained ==
  ASSUME TypeOK, stack # <<>>, NEW p \in Id,
         DrainedIn(stack, p), ~(Top.kind = "drain" /\ Top.id = p)
  PROVE  DrainedIn(Below, p)
<1>1. /\ Len(stack) \in Nat \ {0} /\ DOMAIN stack = 1 .. Len(stack)
      /\ DOMAIN Below = 1 .. Len(stack) - 1
      /\ \A i \in 1 .. Len(stack) - 1 : Below[i] = stack[i]
  BY BelowProperties, LenProperties, EmptySeq DEF TypeOK
<1>2. PICK i \in DOMAIN stack : stack[i].kind = "drain" /\ stack[i].id = p
  BY DEF DrainedIn
<1>3. i # Len(stack)
  BY <1>2 DEF Top
<1>4. QED
  BY <1>1, <1>2, <1>3 DEF DrainedIn

(* Settling p with the frames below keeps every loop of those frames and    *)
(* starts one on p.                                                         *)
LEMMA SettleDrained ==
  ASSUME TypeOK, NEW p \in Id, NEW out \in Outcome, NEW frames \in Seq(Frames),
         Settle(p, out, frames), NEW q \in Id, q = p \/ DrainedIn(frames, q)
  PROVE  DrainedIn(stack', q)
<1>1. Drain(p, out) \in Frames /\ Drain(p, out).kind = "drain" /\ Drain(p, out).id = p
  BY DEF Drain, Frames, DrainFrames
<1>2. QED
  BY <1>1, PushDrained DEF Settle

LEMMA SettleStates ==
  ASSUME TypeOK, NEW p \in Id, NEW out \in Outcome, NEW frames, Settle(p, out, frames)
  PROVE  /\ state'[p] \in Settled
         /\ \A q \in Id : q # p => state'[q] = state[q] /\ value'[q] = value[q] /\ error'[q] = error[q]
BY DEF Settle, TypeOK, Outcome, Settled

LEMMA NextDrained == TypeOK /\ SettledIsDrained /\ [Next]_vars => SettledIsDrained'
<1> SUFFICES ASSUME TypeOK, SettledIsDrained, [Next]_vars,
                    NEW q \in Id, state'[q] \in Settled, thens'[q] # <<>>
             PROVE  DrainedIn(stack', q)
  BY DEF SettledIsDrained
<1>0. state[q] \in Settled /\ thens[q] # <<>> => DrainedIn(stack, q)
  BY DEF SettledIsDrained
<1>1. CASE UNCHANGED vars
  BY <1>0, <1>1 DEF vars
<1>2. ASSUME NEW p \in Root, NEW out \in Outcome, PostSettle(p, out) PROVE DrainedIn(stack', q)
  BY <1>0, <1>2 DEF PostSettle
<1>3. CASE PostApp
  BY <1>0, <1>3 DEF PostApp
<1>4. CASE RunTask
  <2>1. ~DrainedIn(stack, q)
    BY <1>4 DEF RunTask, DrainedIn
  <2>2. thens' = thens /\ Head(queue) \in Tasks
    BY <1>4, HeadTailProperties DEF RunTask, TypeOK
  <2>3. CASE UNCHANGED <<state, value, error>>
    BY <1>0, <2>1, <2>2, <2>3
  <2>4. CASE Head(queue).kind = "settle" /\ Settle(Head(queue).id, Head(queue).out, <<>>)
    <3>1. Head(queue).id \in Id /\ Head(queue).out \in Outcome /\ <<>> \in Seq(Frames)
      BY <2>2, <2>4, IdProperties, EmptySeq DEF Tasks
    <3>2. q = Head(queue).id
      BY <1>0, <2>1, <2>2, <2>4, <3>1, SettleStates
    <3>3. QED
      BY <2>4, <3>1, <3>2, SettleDrained
  <2>5. QED
    BY <1>4, <2>3, <2>4 DEF RunTask
<1>5. ASSUME NEW p \in Root, NEW out \in Outcome, CallResolver(p, out) PROVE DrainedIn(stack', q)
  <2>1. p \in Id /\ Settle(p, out, stack) /\ thens' = thens /\ stack \in Seq(Frames)
    BY <1>5, IdProperties DEF CallResolver, TypeOK
  <2>2. q = p \/ DrainedIn(stack, q)
    BY <1>0, <2>1, SettleStates
  <2>3. QED
    BY <2>1, <2>2, SettleDrained
<1>6. ASSUME NEW p \in Existing, NEW kind \in UserKind, Then(p, kind) PROVE DrainedIn(stack', q)
  <2>1. p \in Id /\ state' = state /\ stack \in Seq(Frames) /\ (q # p => thens'[q] = thens[q])
    BY <1>6, ExistingType DEF Then, TypeOK
  <2>2. CASE state[p] = "Pending"
    BY <1>0, <1>6, <2>1, <2>2 DEF Then, Settled
  <2>3. CASE state[p] # "Pending"
    <3>1. Drain(p, OutcomeOf(p)) \in Frames
      BY <2>1, <2>3, OutcomeOfType DEF TypeOK, State, Drain, Frames, DrainFrames
    <3>2. Drain(p, OutcomeOf(p)).kind = "drain" /\ Drain(p, OutcomeOf(p)).id = p
      BY DEF Drain
    <3>3. stack' = Append(stack, Drain(p, OutcomeOf(p)))
      BY <1>6, <2>3 DEF Then
    <3>4. q = p \/ DrainedIn(stack, q)
      BY <1>0, <2>1
    <3>5. QED
      BY <2>1, <3>1, <3>2, <3>3, <3>4, PushDrained
  <2>4. QED
    BY <2>2, <2>3
<1>7. CASE DrainEnd
  BY <1>0, <1>7, PopDrained DEF DrainEnd, Draining
<1>8. CASE DrainStep
  <2> DEFINE h == Head(thens[Top.id])
  <2>1. Top.id \in Id /\ Top.out \in Outcome /\ h \in Handler /\ stack \in Seq(Frames)
    BY <1>8, TopType, HeadTailProperties DEF DrainStep, TypeOK
  <2>2. thens[q] # <<>>
    BY <1>8, <2>1 DEF DrainStep, TypeOK
  <2>3. h.child \in Id /\ h.child \in Derived
    BY <2>1, IdProperties DEF Handler
  <2>4. \/ stack' = Append(stack, Body(h.child)) /\ state' = state
        \/ Settle(h.child, DefaultOutcome(h, Top.out), stack)
    BY <1>8 DEF DrainStep
  <2> HIDE DEF h
  <2>5. CASE stack' = Append(stack, Body(h.child)) /\ state' = state
    <3>1. Body(h.child) \in Frames
      BY <2>3 DEF Body, Frames, BodyFrames
    <3>2. QED
      BY <1>0, <2>1, <2>2, <2>5, <3>1, PushDrained
  <2>6. CASE Settle(h.child, DefaultOutcome(h, Top.out), stack)
    <3>1. DefaultOutcome(h, Top.out) \in Outcome
      BY <2>1, DefaultOutcomeType
    <3>2. q = h.child \/ DrainedIn(stack, q)
      BY <1>0, <2>2, <2>3, <2>6, <3>1, SettleStates
    <3>3. QED
      BY <2>1, <2>3, <2>6, <3>1, <3>2, SettleDrained
  <2>7. QED
    BY <2>4, <2>5, <2>6
<1>9. ASSUME NEW out \in Outcome, ReturnOutcome(out) PROVE DrainedIn(stack', q)
  <2>1. Top.id \in Id /\ Below \in Seq(Frames) /\ stack # <<>> /\ Top.kind = "body"
    BY <1>9, TopType, IdProperties, BelowProperties DEF ReturnOutcome, InBody, TypeOK
  <2>2. q = Top.id \/ DrainedIn(stack, q)
    BY <1>0, <1>9, <2>1, SettleStates DEF ReturnOutcome
  <2>3. QED
    BY <1>9, <2>1, <2>2, PopDrained, SettleDrained DEF ReturnOutcome
<1>10. ASSUME NEW r \in Existing, ReturnPromise(r) PROVE DrainedIn(stack', q)
  <2>1. /\ Top.id \in Id /\ Below \in Seq(Frames) /\ stack # <<>> /\ Top.kind = "body"
        /\ r \in Id
    BY <1>10, TopType, IdProperties, BelowProperties, ExistingType DEF ReturnPromise, InBody, TypeOK
  <2>2. CASE state[r] \in Settled
    <3>1. Settle(Top.id, OutcomeOf(r), Below) /\ thens' = thens /\ OutcomeOf(r) \in Outcome
      BY <1>10, <2>1, <2>2, OutcomeOfType DEF ReturnPromise, Settled
    <3>2. q = Top.id \/ DrainedIn(stack, q)
      BY <1>0, <2>1, <3>1, SettleStates
    <3>3. QED
      BY <2>1, <3>1, <3>2, PopDrained, SettleDrained
  <2>3. CASE state[r] = "Pending"
    <3>1. q # r /\ state' = state /\ thens'[q] = thens[q] /\ stack' = Below
      BY <1>10, <2>1, <2>3 DEF ReturnPromise, Settled, TypeOK
    <3>2. QED
      BY <1>0, <2>1, <3>1, PopDrained
  <2>4. QED
    BY <1>10, <2>2, <2>3 DEF ReturnPromise
<1>11. CASE ReturnApp
  BY <1>0, <1>11, PopDrained DEF ReturnApp, InBody
<1>12. QED
  BY <1>1, <1>2, <1>3, <1>4, <1>5, <1>6, <1>7, <1>8, <1>9, <1>10, <1>11 DEF Next, Edt, Return

(* A handler added to a promise is never stranded: whenever a settled       *)
(* promise still has handlers, a loop of processThens over that promise is  *)
(* in progress, so the EDT cannot become idle before they are called.       *)
THEOREM NoHandlerStranded == Spec => []SettledIsDrained
<1>1. Init => SettledIsDrained
  BY DEF Init, SettledIsDrained
<1>2. QED
  BY <1>1, NextDrained, TypeCorrect, PTL DEF Spec
-----------------------------------------------------------------------------
(* Every promise of then has one owner.                                     *)

(* Running and UniqueOnStack, of any call stack.                            *)
RunningIn(s, c) == \E i \in DOMAIN s : s[i] = Body(c)
UniqueBodies(s) ==
  \A i, j \in DOMAIN s : s[i].kind = "body" /\ s[i] = s[j] /\ s[i].id # NoId => i = j

LEMMA StackFormulas ==
  /\ UniqueOnStack <=> UniqueBodies(stack)
  /\ \A c : Running(c) <=> RunningIn(stack, c)
BY DEF UniqueOnStack, UniqueBodies, Running, RunningIn

LEMMA FrameKinds ==
  /\ \A f \in Frames : f.kind = "body" => f = Body(f.id)
  /\ \A c : Body(c).kind = "body" /\ Body(c).id = c
  /\ \A p, out : Drain(p, out).kind = "drain" /\ Drain(p, out).id = p /\ Drain(p, out).out = out
  /\ \A p \in Id, out \in Outcome : Drain(p, out) \in Frames
  /\ \A c \in Derived \cup {NoId} : Body(c) \in Frames
BY DEF Frames, DrainFrames, BodyFrames, Body, Drain

LEMMA PushBodies ==
  ASSUME NEW s \in Seq(Frames), NEW f \in Frames
  PROVE  /\ \A c : RunningIn(Append(s, f), c) <=> RunningIn(s, c) \/ f = Body(c)
         /\ UniqueBodies(s) /\ (f.kind = "body" /\ f.id # NoId => ~RunningIn(s, f.id))
              => UniqueBodies(Append(s, f))
<1>1. /\ Len(s) \in Nat /\ DOMAIN s = 1 .. Len(s) /\ DOMAIN Append(s, f) = 1 .. Len(s) + 1
      /\ \A i \in 1 .. Len(s) : Append(s, f)[i] = s[i]
      /\ Append(s, f)[Len(s) + 1] = f
  BY AppendProperties, LenProperties
<1>2. \A c : RunningIn(Append(s, f), c) <=> RunningIn(s, c) \/ f = Body(c)
  BY <1>1 DEF RunningIn
<1>3. ASSUME UniqueBodies(s), f.kind = "body" /\ f.id # NoId => ~RunningIn(s, f.id)
      PROVE  UniqueBodies(Append(s, f))
  <2>1. f.kind = "body" /\ f.id # NoId => \A i \in 1 .. Len(s) : s[i] # f
    BY <1>1, <1>3, FrameKinds DEF RunningIn
  <2>2. QED
    BY <1>1, <1>3, <2>1 DEF UniqueBodies
<1>4. QED
  BY <1>2, <1>3

LEMMA PopBodies ==
  ASSUME stack \in Seq(Frames), stack # <<>>
  PROVE  /\ \A c : RunningIn(stack, c) <=> RunningIn(Below, c) \/ Top = Body(c)
         /\ UniqueBodies(stack) => UniqueBodies(Below)
         /\ UniqueBodies(stack) /\ Top.kind = "body" /\ Top.id # NoId => ~RunningIn(Below, Top.id)
<1>1. /\ Len(stack) \in Nat \ {0} /\ DOMAIN stack = 1 .. Len(stack)
      /\ DOMAIN Below = 1 .. Len(stack) - 1
      /\ \A i \in 1 .. Len(stack) - 1 : Below[i] = stack[i]
      /\ Top = stack[Len(stack)] /\ Top \in Frames
  BY BelowProperties, LenProperties, EmptySeq DEF Top
<1>2. \A c : RunningIn(stack, c) <=> RunningIn(Below, c) \/ Top = Body(c)
  BY <1>1 DEF RunningIn
<1>3. UniqueBodies(stack) => UniqueBodies(Below)
  BY <1>1 DEF UniqueBodies
<1>4. UniqueBodies(stack) /\ Top.kind = "body" /\ Top.id # NoId => ~RunningIn(Below, Top.id)
  BY <1>1, FrameKinds DEF UniqueBodies, RunningIn
<1>5. QED
  BY <1>2, <1>3, <1>4

(* A sequence without its first element.                                    *)
LEMMA TailProperties ==
  ASSUME NEW S, NEW s \in Seq(S), s # <<>>
  PROVE  /\ Len(s) \in Nat \ {0} /\ DOMAIN s = 1 .. Len(s)
         /\ Head(s) = s[1]
         /\ Tail(s) \in Seq(S)
         /\ DOMAIN Tail(s) = 1 .. Len(s) - 1
         /\ \A i \in 1 .. Len(s) - 1 : Tail(s)[i] = s[i + 1]
<1>1. Len(s) \in Nat \ {0} /\ DOMAIN s = 1 .. Len(s)
  BY LenProperties, EmptySeq
<1>2. Head(s) = s[1] /\ Tail(s) \in Seq(S) /\ Len(Tail(s)) = Len(s) - 1
  BY <1>1, HeadTailProperties
<1>3. DOMAIN Tail(s) = 1 .. Len(s) - 1
  BY <1>2, LenProperties
<1>4. \A i \in 1 .. Len(s) - 1 : Tail(s)[i] = s[i + 1]
  BY <1>1, <1>2, HeadTailProperties
<1>5. QED
  BY <1>1, <1>2, <1>3, <1>4

(* A handler added to a list: its promise becomes listed, nothing else.     *)
LEMMA AddListed ==
  ASSUME TypeOK, NEW p \in Id, NEW h \in Handler,
         thens' = [thens EXCEPT ![p] = Append(@, h)]
  PROVE  /\ \A c : Listed(c)' <=> Listed(c) \/ c = h.child
         /\ UniqueInLists /\ ~Listed(h.child) => UniqueInLists'
<1>1. /\ thens[p] \in Seq(Handler) /\ thens'[p] = Append(thens[p], h)
      /\ \A q \in Id : q # p => thens'[q] = thens[q]
  BY DEF TypeOK
<1>2. /\ Len(thens[p]) \in Nat /\ DOMAIN thens[p] = 1 .. Len(thens[p])
      /\ DOMAIN thens'[p] = 1 .. Len(thens[p]) + 1
      /\ \A i \in 1 .. Len(thens[p]) : thens'[p][i] = thens[p][i]
      /\ thens'[p][Len(thens[p]) + 1] = h
  BY <1>1, AppendProperties, LenProperties
<1>3. \A c : Listed(c)' <=> Listed(c) \/ c = h.child
  <2> TAKE c
  <2>1. Listed(c) => Listed(c)'
    BY <1>1, <1>2 DEF Listed
  <2>2. Listed(h.child)'
    BY <1>2 DEF Listed
  <2>3. Listed(c)' => Listed(c) \/ c = h.child
    BY <1>1, <1>2 DEF Listed
  <2>4. QED
    BY <2>1, <2>2, <2>3
<1>4. ASSUME UniqueInLists, ~Listed(h.child) PROVE UniqueInLists'
  <2>1. \A q \in Id : \A i \in DOMAIN thens[q] : thens[q][i].child # h.child
    BY <1>4 DEF Listed
  <2>2. QED
    BY <1>1, <1>2, <1>4, <2>1 DEF UniqueInLists
<1>5. QED
  BY <1>3, <1>4

(* The first handler taken from a list: its promise is listed no more.      *)
LEMMA TakeListed ==
  ASSUME TypeOK, UniqueInLists, NEW p \in Id, thens[p] # <<>>,
         thens' = [thens EXCEPT ![p] = Tail(@)]
  PROVE  /\ Listed(Head(thens[p]).child)
         /\ \A c : Listed(c)' <=> Listed(c) /\ c # Head(thens[p]).child
         /\ UniqueInLists'
<1>1. /\ thens[p] \in Seq(Handler) /\ thens'[p] = Tail(thens[p])
      /\ \A q \in Id : q # p => thens'[q] = thens[q]
  BY DEF TypeOK
<1>2. /\ Len(thens[p]) \in Nat \ {0} /\ DOMAIN thens[p] = 1 .. Len(thens[p])
      /\ DOMAIN thens'[p] = 1 .. Len(thens[p]) - 1
      /\ \A i \in 1 .. Len(thens[p]) - 1 : thens'[p][i] = thens[p][i + 1]
      /\ Head(thens[p]) = thens[p][1]
  BY <1>1, TailProperties
<1>3. Listed(Head(thens[p]).child)
  BY <1>2 DEF Listed
<1>4. ASSUME NEW c, Listed(c)' PROVE Listed(c) /\ c # Head(thens[p]).child
  <2>1. PICK q \in Id : \E i \in DOMAIN thens'[q] : thens'[q][i].child = c
    BY <1>4 DEF Listed
  <2>2. CASE q = p
    <3>1. PICK i \in 1 .. Len(thens[p]) - 1 : thens[p][i + 1].child = c
      BY <1>2, <2>1, <2>2
    <3>2. i + 1 \in DOMAIN thens[p] /\ 1 \in DOMAIN thens[p] /\ i + 1 # 1
      BY <1>2
    <3>3. QED
      BY <1>2, <3>1, <3>2 DEF Listed, UniqueInLists
  <2>3. CASE q # p
    <3>1. PICK i \in DOMAIN thens[q] : thens[q][i].child = c
      BY <1>1, <2>1, <2>3
    <3>2. 1 \in DOMAIN thens[p]
      BY <1>2
    <3>3. QED
      BY <1>2, <2>3, <3>1, <3>2 DEF Listed, UniqueInLists
  <2>4. QED
    BY <2>2, <2>3
<1>5. ASSUME NEW c, Listed(c), c # Head(thens[p]).child PROVE Listed(c)'
  <2>1. PICK q \in Id : \E i \in DOMAIN thens[q] : thens[q][i].child = c
    BY <1>5 DEF Listed
  <2>0. PICK i \in DOMAIN thens[q] : thens[q][i].child = c
    BY <2>1
  <2>2. CASE q = p
    <3>1. i - 1 \in DOMAIN thens'[p] /\ thens'[p][i - 1] = thens[p][i]
      BY <1>2, <1>5, <2>0, <2>2
    <3>2. QED
      BY <2>0, <2>2, <3>1 DEF Listed
  <2>3. QED
    BY <1>1, <2>0, <2>2 DEF Listed
<1>6. UniqueInLists'
  <2> SUFFICES ASSUME NEW q \in Id, NEW r \in Id,
                      NEW i \in DOMAIN thens'[q], NEW j \in DOMAIN thens'[r],
                      thens'[q][i].child = thens'[r][j].child
               PROVE  q = r /\ i = j
    BY DEF UniqueInLists
  <2> DEFINE From(s, k) == IF s = p THEN k + 1 ELSE k
  <2>1. \A s \in Id : \A k \in DOMAIN thens'[s] :
          From(s, k) \in DOMAIN thens[s] /\ thens'[s][k] = thens[s][From(s, k)]
    BY <1>1, <1>2
  <2> HIDE DEF From
  <2>2. /\ From(q, i) \in DOMAIN thens[q] /\ From(r, j) \in DOMAIN thens[r]
        /\ thens[q][From(q, i)].child = thens[r][From(r, j)].child
    BY <2>1
  <2>0. q = r /\ From(q, i) = From(r, j)
    BY <2>2 DEF UniqueInLists
  <2>3. q = p => i \in Nat /\ j \in Nat
    BY <1>2, <2>0
  <2>4. QED
    BY <2>0, <2>3 DEF From
<1>7. QED
  BY <1>3, <1>4, <1>5, <1>6

(* Settling: the new loop is no handler's frame, and one promise changes.   *)
LEMMA SettleBodies ==
  ASSUME TypeOK, NEW p \in Id, NEW out \in Outcome, NEW frames \in Seq(Frames),
         Settle(p, out, frames)
  PROVE  /\ \A c \in Derived : RunningIn(stack', c) <=> RunningIn(frames, c)
         /\ UniqueBodies(frames) => UniqueBodies(stack')
         /\ state'[p] # "Pending"
         /\ \A c \in Id : c # p => state'[c] = state[c]
<1>1. Drain(p, out) \in Frames /\ Drain(p, out).kind = "drain" /\ \A c : Body(c).kind = "body"
  BY FrameKinds
<1>2. stack' = Append(frames, Drain(p, out))
  BY DEF Settle
<1>3. \A c : RunningIn(stack', c) <=> RunningIn(frames, c) \/ Drain(p, out) = Body(c)
  BY <1>1, <1>2, PushBodies
<1>4. UniqueBodies(frames) => UniqueBodies(stack')
  BY <1>1, <1>2, PushBodies
<1>5. QED
  BY <1>1, <1>3, <1>4, SettleStates DEF Settled

(* OneOwner for one promise made by then.                                   *)
OwnerOf(c) ==
  /\ c \in Existing => /\ state[c] = "Pending" <=> (Listed(c) \/ Running(c))
                       /\ ~(Listed(c) /\ Running(c))
  /\ c \notin Existing => state[c] = "Pending" /\ ~Listed(c) /\ ~Running(c)

LEMMA OneOwnerOf ==
  ASSUME TypeOK
  PROVE  OneOwner <=> /\ UniqueInLists /\ UniqueBodies(stack)
                      /\ \A c \in Derived : OwnerOf(c)
<1>1. Id \ Existing \subseteq Derived /\ Derived \subseteq Id
  BY ConstantsAssumption DEF TypeOK, Existing, Id, Derived
<1>2. QED
  BY <1>1, StackFormulas DEF OneOwner, OwnedWhilePending, NothingUnmade, OwnerOf

LEMMA RunTaskOwners ==
  ASSUME TypeOK, OneOwner, RunTask, NEW c \in Derived
  PROVE  OwnerOf(c)' /\ UniqueInLists' /\ UniqueBodies(stack')
<1>1. /\ OwnerOf(c) /\ UniqueInLists /\ ~Running(c) /\ c \in Id /\ c # NoId
      /\ Running(c)' <=> RunningIn(stack', c)
  BY OneOwnerOf, IdProperties DEF RunTask, Running, RunningIn
<1>2. /\ thens' = thens /\ made' = made /\ Head(queue) \in Tasks
      /\ Listed(c)' <=> Listed(c)
      /\ UniqueInLists'
  BY <1>1, HeadTailProperties DEF RunTask, TypeOK, Listed, UniqueInLists
<1>3. CASE stack' = <<Body(NoId)>> /\ UNCHANGED <<state, value, error>>
  <2>1. UniqueBodies(stack') /\ ~RunningIn(stack', c)
    BY <1>1, <1>3, FrameKinds DEF UniqueBodies, RunningIn
  <2>2. QED
    BY <1>1, <1>2, <1>3, <2>1 DEF OwnerOf, Existing
<1>4. CASE Head(queue).kind = "settle" /\ Settle(Head(queue).id, Head(queue).out, <<>>)
  <2>1. /\ Head(queue).id \in Id /\ Head(queue).id # c
        /\ Head(queue).out \in Outcome /\ <<>> \in Seq(Frames)
    BY <1>2, <1>4, IdProperties, EmptySeq DEF Tasks
  <2>2. UniqueBodies(<<>>) /\ ~RunningIn(<<>>, c)
    BY DEF UniqueBodies, RunningIn
  <2>3. UniqueBodies(stack') /\ ~RunningIn(stack', c) /\ state'[c] = state[c]
    BY <1>1, <1>4, <2>1, <2>2, SettleBodies
  <2>4. QED
    BY <1>1, <1>2, <2>3 DEF OwnerOf, Existing
<1>5. QED
  BY <1>3, <1>4 DEF RunTask

LEMMA CallResolverOwners ==
  ASSUME TypeOK, OneOwner, NEW p \in Root, NEW out \in Outcome, CallResolver(p, out),
         NEW c \in Derived
  PROVE  OwnerOf(c)' /\ UniqueInLists' /\ UniqueBodies(stack')
<1>1. /\ OwnerOf(c) /\ UniqueInLists /\ UniqueBodies(stack) /\ c \in Id /\ p \in Id /\ c # p
      /\ Running(c) <=> RunningIn(stack, c)
      /\ Running(c)' <=> RunningIn(stack', c)
  BY OneOwnerOf, IdProperties DEF Running, RunningIn
<1>2. /\ thens' = thens /\ made' = made
      /\ Listed(c)' <=> Listed(c)
      /\ UniqueInLists'
  BY <1>1 DEF CallResolver, Listed, UniqueInLists
<1>3. UniqueBodies(stack') /\ (RunningIn(stack', c) <=> RunningIn(stack, c)) /\ state'[c] = state[c]
  BY <1>1, SettleBodies DEF CallResolver, TypeOK
<1>4. QED
  BY <1>1, <1>2, <1>3 DEF OwnerOf, Existing

LEMMA ThenOwners ==
  ASSUME TypeOK, OneOwner, NEW p \in Existing, NEW kind \in UserKind, Then(p, kind),
         NEW c \in Derived
  PROVE  OwnerOf(c)' /\ UniqueInLists' /\ UniqueBodies(stack')
<1> DEFINE h == [child |-> made + 1, kind |-> kind]
<1>1. /\ OwnerOf(c) /\ UniqueInLists /\ UniqueBodies(stack) /\ c \in Id /\ p \in Id
      /\ Running(c) <=> RunningIn(stack, c)
      /\ Running(c)' <=> RunningIn(stack', c)
  BY OneOwnerOf, IdProperties, ExistingType DEF Running, RunningIn
<1>2. /\ made' = made + 1 /\ state' = state /\ made + 1 \in Derived
      /\ \A d \in Derived : d \in Existing' <=> d \in Existing \/ d = made + 1
      /\ made + 1 \notin Existing
  BY ConstantsAssumption DEF Then, TypeOK, Derived, Existing
<1>3. h \in Handler /\ h.child = made + 1 /\ thens' = [thens EXCEPT ![p] = Append(@, h)]
  BY <1>2 DEF Handler, Kind, Then
<1> HIDE DEF h
<1>4. OwnerOf(made + 1)
  BY <1>2, OneOwnerOf
<1>5. (Listed(c)' <=> Listed(c) \/ c = made + 1) /\ UniqueInLists'
  BY <1>1, <1>2, <1>3, <1>4, AddListed DEF OwnerOf
<1>6. UniqueBodies(stack') /\ (RunningIn(stack', c) <=> RunningIn(stack, c))
  <2>1. CASE stack' = stack
    BY <1>1, <2>1
  <2>2. CASE state[p] # "Pending" /\ stack' = Append(stack, Drain(p, OutcomeOf(p)))
    <3>1. OutcomeOf(p) \in Outcome
      BY <1>1, <2>2, OutcomeOfType DEF TypeOK, State
    <3>2. /\ Drain(p, OutcomeOf(p)) \in Frames
          /\ Drain(p, OutcomeOf(p)).kind = "drain" /\ Body(c).kind = "body"
      BY <1>1, <3>1, FrameKinds
    <3>3. QED
      BY <1>1, <2>2, <3>2, PushBodies DEF TypeOK
  <2>3. QED
    BY <2>1, <2>2 DEF Then
<1>7. QED
  BY <1>1, <1>2, <1>4, <1>5, <1>6 DEF OwnerOf

(* A frame that is not a handler's returns.                                 *)
LEMMA PopOwners ==
  ASSUME TypeOK, OneOwner, stack # <<>>, stack' = Below,
         Top.kind = "drain" \/ Top.id = NoId,
         UNCHANGED <<state, thens, made>>, NEW c \in Derived
  PROVE  OwnerOf(c)' /\ UniqueInLists' /\ UniqueBodies(stack')
<1>1. /\ OwnerOf(c) /\ UniqueInLists /\ UniqueBodies(stack) /\ c \in Id /\ c # NoId
      /\ Running(c) <=> RunningIn(stack, c)
      /\ Running(c)' <=> RunningIn(stack', c)
  BY OneOwnerOf, IdProperties DEF Running, RunningIn
<1>2. (Listed(c)' <=> Listed(c)) /\ UniqueInLists'
  BY <1>1 DEF Listed, UniqueInLists
<1>3. Top # Body(c)
  BY <1>1, FrameKinds
<1>4. UniqueBodies(stack') /\ (RunningIn(stack', c) <=> RunningIn(stack, c))
  BY <1>1, <1>3, PopBodies DEF TypeOK
<1>5. QED
  BY <1>1, <1>2, <1>4 DEF OwnerOf, Existing

LEMMA DrainStepOwners ==
  ASSUME TypeOK, OneOwner, DrainStep, NEW c \in Derived
  PROVE  OwnerOf(c)' /\ UniqueInLists' /\ UniqueBodies(stack')
<1> DEFINE h == Head(thens[Top.id])
<1>1. /\ OwnerOf(c) /\ UniqueInLists /\ UniqueBodies(stack) /\ c \in Id
      /\ stack \in Seq(Frames)
      /\ \A d \in Derived : Running(d) <=> RunningIn(stack, d)
      /\ Running(c)' <=> RunningIn(stack', c)
  BY OneOwnerOf, IdProperties DEF Running, RunningIn, TypeOK
<1>2. Top.id \in Id /\ Top.out \in Outcome /\ h \in Handler
  BY TopType, HeadTailProperties DEF DrainStep, TypeOK
<1>3. h.child \in Derived /\ h.child \in Id /\ h.child # NoId
  BY <1>2, IdProperties DEF Handler
<1>4. /\ thens' = [thens EXCEPT ![Top.id] = Tail(@)] /\ thens[Top.id] # <<>> /\ made' = made
      /\ \/ /\ stack' = Append(stack, Body(h.child))
            /\ UNCHANGED <<state, value, error>>
         \/ Settle(h.child, DefaultOutcome(h, Top.out), stack)
  BY DEF DrainStep
<1>5. /\ Listed(h.child) /\ UniqueInLists'
      /\ Listed(c)' <=> Listed(c) /\ c # h.child
  BY <1>1, <1>2, <1>4, TakeListed
<1> HIDE DEF h
<1>6. h.child \in Existing /\ ~Running(h.child) /\ state[h.child] = "Pending"
  BY <1>3, <1>5, OneOwnerOf DEF OwnerOf
<1>7. CASE stack' = Append(stack, Body(h.child)) /\ UNCHANGED <<state, value, error>>
  <2>1. /\ Body(h.child) \in Frames /\ Body(h.child).kind = "body"
        /\ Body(h.child).id = h.child /\ Body(c).id = c
    BY <1>3, FrameKinds
  <2>2. UniqueBodies(stack')
    BY <1>1, <1>3, <1>6, <1>7, <2>1, PushBodies
  <2>3. RunningIn(stack', c) <=> RunningIn(stack, c) \/ c = h.child
    BY <1>1, <1>7, <2>1, PushBodies
  <2>4. QED
    BY <1>1, <1>4, <1>5, <1>6, <1>7, <2>2, <2>3 DEF OwnerOf, Existing
<1>8. CASE Settle(h.child, DefaultOutcome(h, Top.out), stack)
  <2>1. DefaultOutcome(h, Top.out) \in Outcome
    BY <1>2, DefaultOutcomeType
  <2>2. /\ UniqueBodies(stack') /\ (RunningIn(stack', c) <=> RunningIn(stack, c))
        /\ state'[h.child] # "Pending" /\ (c # h.child => state'[c] = state[c])
    BY <1>1, <1>3, <1>8, <2>1, SettleBodies
  <2>3. QED
    BY <1>1, <1>4, <1>5, <1>6, <2>2 DEF OwnerOf, Existing
<1>9. QED
  BY <1>4, <1>7, <1>8

(* What is known when a handler of the application returns.                 *)
LEMMA ReturningOwner ==
  ASSUME TypeOK, OneOwner, InBody, Top.id # NoId
  PROVE  /\ Top.id \in Derived /\ Top.id \in Id /\ Top.id \in Existing
         /\ state[Top.id] = "Pending" /\ ~Listed(Top.id)
         /\ Below \in Seq(Frames) /\ UniqueBodies(Below) /\ ~RunningIn(Below, Top.id)
         /\ \A c \in Derived : RunningIn(stack, c) <=> RunningIn(Below, c) \/ c = Top.id
<1>1. /\ Top.id \in Derived /\ Top.id \in Id /\ Top \in Frames /\ Top = Body(Top.id)
      /\ Below \in Seq(Frames) /\ UniqueBodies(stack) /\ stack # <<>> /\ stack \in Seq(Frames)
  BY TopType, IdProperties, BelowProperties, FrameKinds, OneOwnerOf DEF InBody, TypeOK
<1>2. \A c : RunningIn(stack, c) <=> RunningIn(Below, c) \/ Top = Body(c)
  BY <1>1, PopBodies
<1>3. \A c : Top = Body(c) <=> c = Top.id
  BY <1>1, FrameKinds
<1>4. Running(Top.id)
  BY <1>2, <1>3, StackFormulas
<1>5. Top.id \in Existing /\ state[Top.id] = "Pending" /\ ~Listed(Top.id)
  BY <1>1, <1>4, OneOwnerOf DEF OwnerOf
<1>6. UniqueBodies(Below) /\ ~RunningIn(Below, Top.id)
  BY <1>1, PopBodies DEF InBody
<1>7. QED
  BY <1>1, <1>2, <1>3, <1>5, <1>6

(* The handler returns and its promise is settled.                          *)
LEMMA ReturnSettledOwners ==
  ASSUME TypeOK, OneOwner, InBody, Top.id # NoId, NEW out \in Outcome,
         Settle(Top.id, out, Below), UNCHANGED <<thens, made>>, NEW c \in Derived
  PROVE  OwnerOf(c)' /\ UniqueInLists' /\ UniqueBodies(stack')
<1>1. /\ OwnerOf(c) /\ UniqueInLists /\ c \in Id
      /\ Running(c) <=> RunningIn(stack, c)
      /\ Running(c)' <=> RunningIn(stack', c)
  BY OneOwnerOf, IdProperties DEF Running, RunningIn
<1>2. (\A d : Listed(d)' <=> Listed(d)) /\ UniqueInLists'
  BY <1>1 DEF Listed, UniqueInLists
<1>3. /\ UniqueBodies(stack') /\ (RunningIn(stack', c) <=> RunningIn(Below, c))
      /\ state'[Top.id] # "Pending" /\ (c # Top.id => state'[c] = state[c])
  BY <1>1, ReturningOwner, SettleBodies
<1>4. QED
  BY <1>1, <1>2, <1>3, ReturningOwner DEF OwnerOf, Existing

LEMMA ReturnPromiseOwners ==
  ASSUME TypeOK, OneOwner, NEW q \in Existing, ReturnPromise(q), NEW c \in Derived
  PROVE  OwnerOf(c)' /\ UniqueInLists' /\ UniqueBodies(stack')
<1>1. q \in Id
  BY ExistingType
<1>2. CASE state[q] \in Settled
  BY <1>1, <1>2, OutcomeOfType, ReturnSettledOwners DEF ReturnPromise, Settled
<1>3. CASE state[q] = "Pending"
  <2> DEFINE h == [child |-> Top.id, kind |-> "adopt"]
  <2>1. /\ OwnerOf(c) /\ UniqueInLists /\ c \in Id
        /\ Running(c) <=> RunningIn(stack, c)
        /\ Running(c)' <=> RunningIn(stack', c)
    BY OneOwnerOf, IdProperties DEF Running, RunningIn
  <2>2. /\ thens' = [thens EXCEPT ![q] = Append(@, h)]
        /\ stack' = Below /\ UNCHANGED <<state, made>>
    BY <1>3 DEF ReturnPromise, Settled
  <2>3. h \in Handler /\ h.child = Top.id /\ InBody /\ Top.id # NoId
    BY ReturningOwner DEF Handler, Kind, ReturnPromise
  <2> HIDE DEF h
  <2>4. (Listed(c)' <=> Listed(c) \/ c = Top.id) /\ UniqueInLists'
    BY <1>1, <2>1, <2>2, <2>3, ReturningOwner, AddListed
  <2>5. QED
    BY <2>1, <2>2, <2>3, <2>4, ReturningOwner DEF OwnerOf, Existing
<1>4. QED
  BY <1>2, <1>3 DEF ReturnPromise

LEMMA NextOwners == TypeOK /\ OneOwner /\ [Next]_vars => OneOwner'
<1> SUFFICES ASSUME TypeOK, OneOwner, [Next]_vars PROVE OneOwner'
  OBVIOUS
<1>1. TypeOK'
  BY NextType
<1>2. CASE UNCHANGED <<thens, made, stack, state>>
  BY <1>2 DEF OneOwner, UniqueInLists, UniqueOnStack, OwnedWhilePending, NothingUnmade,
              Listed, Running, Existing
<1>3. ASSUME \/ RunTask \/ DrainStep \/ DrainEnd \/ ReturnApp
             \/ \E p \in Root, out \in Outcome : CallResolver(p, out)
             \/ \E p \in Existing, kind \in UserKind : Then(p, kind)
             \/ \E out \in Outcome : ReturnOutcome(out)
             \/ \E q \in Existing : ReturnPromise(q),
             NEW c \in Derived
      PROVE  OwnerOf(c)' /\ UniqueInLists' /\ UniqueBodies(stack')
  <2>1. CASE DrainEnd \/ ReturnApp
    BY <2>1, PopOwners DEF DrainEnd, ReturnApp, Draining, InBody
  <2>2. CASE \E out \in Outcome : ReturnOutcome(out)
    BY <2>2, ReturnSettledOwners DEF ReturnOutcome
  <2>3. QED
    BY <1>3, <2>1, <2>2, RunTaskOwners, DrainStepOwners, CallResolverOwners, ThenOwners,
       ReturnPromiseOwners
<1>4. CASE \A c \in Derived : OwnerOf(c)' /\ UniqueInLists' /\ UniqueBodies(stack')
  <2>1. UniqueInLists' /\ UniqueBodies(stack')
    <3>1. CASE Derived # {}
      BY <1>4, <3>1
    <3>2. CASE Derived = {}
      <4>1. \A p \in Id : DOMAIN thens'[p] = {}
        BY <1>1, <3>2 DEF TypeOK, Handler
      <4>2. \A i \in DOMAIN stack' : stack'[i].kind = "body" => stack'[i].id = NoId
        BY <1>1, <3>2 DEF TypeOK, Frames, DrainFrames, BodyFrames
      <4>3. QED
        BY <4>1, <4>2 DEF UniqueInLists, UniqueBodies
    <3>3. QED
      BY <3>1, <3>2
  <2>2. UniqueOnStack'
    BY <2>1 DEF UniqueOnStack, UniqueBodies
  <2>3. Id \ Existing' \subseteq Derived /\ Derived \subseteq Id
    BY <1>1, ConstantsAssumption DEF TypeOK, Existing, Id, Derived
  <2>4. QED
    BY <1>4, <2>1, <2>2, <2>3 DEF OneOwner, OwnedWhilePending, NothingUnmade, OwnerOf
<1>5. QED
  BY <1>2, <1>3, <1>4 DEF Next, Edt, Return, vars, PostSettle, PostApp

(* The promise returned by then has exactly one thing that will settle it   *)
(* until it is settled, and nothing afterwards: processThens takes a        *)
(* handler off the list before calling it, and returning a pending promise  *)
(* hands the duty over to that promise's list.                              *)
THEOREM OwnersAreUnique == Spec => []OneOwner
<1>1. ASSUME Init PROVE OneOwner
  <2>1. /\ \A p \in Id : DOMAIN thens[p] = {} /\ state[p] = "Pending"
        /\ DOMAIN stack = {}
        /\ Derived \cap Existing = {}
    BY <1>1, ConstantsAssumption DEF Init, Derived, Existing
  <2>2. UniqueInLists /\ UniqueOnStack /\ \A c \in Id : ~Listed(c) /\ ~Running(c)
    BY <2>1 DEF UniqueInLists, UniqueOnStack, Listed, Running
  <2>3. QED
    BY <2>1, <2>2 DEF OneOwner, OwnedWhilePending, NothingUnmade
<1>2. QED
  BY <1>1, NextOwners, TypeCorrect, PTL DEF Spec

(* What DerivedSettlesOnce asks of a step.                                  *)
SettledKept ==
  \A c \in Derived : state[c] \in Settled =>
     /\ state'[c] = state[c]
     /\ value'[c] = value[c]
     /\ error'[c] = error[c]

LEMMA SettleKeeps ==
  ASSUME TypeOK, NEW p \in Id, NEW out \in Outcome, NEW frames, Settle(p, out, frames),
         p \in Root \/ state[p] = "Pending"
  PROVE  SettledKept
BY SettleStates, IdProperties DEF SettledKept, Settled

LEMMA NextKeeps == TypeOK /\ OneOwner /\ [Next]_vars => SettledKept
<1> SUFFICES ASSUME TypeOK, OneOwner, [Next]_vars PROVE SettledKept
  OBVIOUS
<1>1. CASE UNCHANGED <<state, value, error>>
  BY <1>1 DEF SettledKept
<1>2. CASE RunTask
  <2>1. Head(queue) \in Tasks
    BY <1>2, HeadTailProperties DEF RunTask, TypeOK
  <2>2. QED
    BY <1>1, <1>2, <2>1, SettleKeeps, IdProperties DEF RunTask, Tasks
<1>3. ASSUME NEW p \in Root, NEW out \in Outcome, CallResolver(p, out) PROVE SettledKept
  BY <1>3, SettleKeeps, IdProperties DEF CallResolver
<1>4. CASE DrainStep
  <2> DEFINE h == Head(thens[Top.id])
  <2>1. /\ Top.id \in Id /\ Top.out \in Outcome /\ h \in Handler
        /\ thens[Top.id] # <<>> /\ thens[Top.id] \in Seq(Handler)
    BY <1>4, TopType, HeadTailProperties DEF DrainStep, TypeOK
  <2>2. h.child \in Derived /\ Listed(h.child)
    <3>1. 1 \in DOMAIN thens[Top.id] /\ h = thens[Top.id][1]
      BY <2>1, TailProperties
    <3>2. QED
      BY <2>1, <3>1 DEF Listed, Handler
  <2>3. UNCHANGED <<state, value, error>> \/ Settle(h.child, DefaultOutcome(h, Top.out), stack)
    BY <1>4 DEF DrainStep
  <2> HIDE DEF h
  <2>4. h.child \in Id /\ state[h.child] = "Pending" /\ DefaultOutcome(h, Top.out) \in Outcome
    BY <2>1, <2>2, OneOwnerOf, IdProperties, DefaultOutcomeType DEF OwnerOf
  <2>5. QED
    BY <1>1, <2>3, <2>4, SettleKeeps
<1>5. ASSUME NEW out \in Outcome, ReturnOutcome(out) PROVE SettledKept
  BY <1>5, ReturningOwner, SettleKeeps DEF ReturnOutcome
<1>6. ASSUME NEW q \in Existing, ReturnPromise(q) PROVE SettledKept
  <2>1. q \in Id /\ (state[q] \in Settled => OutcomeOf(q) \in Outcome)
    BY ExistingType, OutcomeOfType
  <2>2. QED
    BY <1>1, <1>6, <2>1, ReturningOwner, SettleKeeps DEF ReturnPromise
<1>7. QED
  BY <1>1, <1>2, <1>3, <1>4, <1>5, <1>6
  DEF Next, Edt, Return, vars, PostSettle, PostApp, Then, DrainEnd, ReturnApp

(* A promise that then returned is settled once: no sequence of handlers,   *)
(* adoptions and late calls of resolvers assigns its fields a second time.  *)
THEOREM SettledOnce == Spec => DerivedSettlesOnce
<1>1. TypeOK /\ OneOwner /\ [Next]_vars =>
        [\A c \in Derived : state[c] \in Settled =>
           /\ state'[c] = state[c]
           /\ value'[c] = value[c]
           /\ error'[c] = error[c]]_vars
  BY NextKeeps DEF SettledKept
<1>2. QED
  BY <1>1, TypeCorrect, OwnersAreUnique, PTL DEF Spec, DerivedSettlesOnce
-----------------------------------------------------------------------------
(* Handlers are called with what their promise holds.                       *)

(* The innermost loop of s over p, if there is one, carries out.            *)
CurrentIn(s, p, out) ==
  \A i \in DOMAIN s : s[i].kind = "drain" /\ s[i].id = p =>
     \E j \in DOMAIN s : i <= j /\ s[j] = Drain(p, out)

(* Loops run over settled promises only, and an outer loop that carries an  *)
(* old outcome will find the list of handlers empty: an inner loop over the *)
(* same promise has started since.                                          *)
LoopsAreCurrent ==
  /\ \A p \in Id : DrainedIn(stack, p) => state[p] \in Settled
  /\ \A p \in Id : thens[p] # <<>> => CurrentIn(stack, p, OutcomeOf(p))

LEMMA PushCurrent ==
  ASSUME NEW s \in Seq(Frames), NEW f \in Frames, NEW p \in Id
  PROVE  /\ DrainedIn(Append(s, f), p) <=> DrainedIn(s, p) \/ (f.kind = "drain" /\ f.id = p)
         /\ \A out : CurrentIn(s, p, out) /\ ~(f.kind = "drain" /\ f.id = p)
                       => CurrentIn(Append(s, f), p, out)
         /\ \A out : f = Drain(p, out) => CurrentIn(Append(s, f), p, out)
<1>1. /\ Len(s) \in Nat /\ DOMAIN s = 1 .. Len(s) /\ DOMAIN Append(s, f) = 1 .. Len(s) + 1
      /\ \A i \in 1 .. Len(s) : Append(s, f)[i] = s[i]
      /\ Append(s, f)[Len(s) + 1] = f
  BY AppendProperties, LenProperties
<1>2. DrainedIn(Append(s, f), p) <=> DrainedIn(s, p) \/ (f.kind = "drain" /\ f.id = p)
  BY <1>1 DEF DrainedIn
<1>3. ASSUME NEW out, CurrentIn(s, p, out), ~(f.kind = "drain" /\ f.id = p)
      PROVE  CurrentIn(Append(s, f), p, out)
  BY <1>1, <1>3 DEF CurrentIn
<1>4. ASSUME NEW out, f = Drain(p, out) PROVE CurrentIn(Append(s, f), p, out)
  BY <1>1, <1>4 DEF CurrentIn
<1>5. QED
  BY <1>2, <1>3, <1>4

LEMMA PopCurrent ==
  ASSUME TypeOK, stack # <<>>, NEW p \in Id
  PROVE  /\ DrainedIn(Below, p) => DrainedIn(stack, p)
         /\ \A out : CurrentIn(stack, p, out) /\ ~(Top.kind = "drain" /\ Top.id = p)
                       => CurrentIn(Below, p, out)
<1>1. /\ Len(stack) \in Nat \ {0} /\ DOMAIN stack = 1 .. Len(stack)
      /\ DOMAIN Below = 1 .. Len(stack) - 1
      /\ \A i \in 1 .. Len(stack) - 1 : Below[i] = stack[i]
      /\ Top = stack[Len(stack)]
  BY BelowProperties, LenProperties, EmptySeq DEF TypeOK, Top
<1>2. DrainedIn(Below, p) => DrainedIn(stack, p)
  BY <1>1 DEF DrainedIn
<1>3. ASSUME NEW out, CurrentIn(stack, p, out), ~(Top.kind = "drain" /\ Top.id = p),
             NEW i \in DOMAIN Below, Below[i].kind = "drain" /\ Below[i].id = p
      PROVE  \E j \in DOMAIN Below : i <= j /\ Below[j] = Drain(p, out)
  <2>1. PICK j \in DOMAIN stack : i <= j /\ stack[j] = Drain(p, out)
    BY <1>1, <1>3 DEF CurrentIn
  <2>2. j # Len(stack)
    BY <1>1, <1>3, <2>1, FrameKinds
  <2>3. QED
    BY <1>1, <2>1, <2>2
<1>4. QED
  BY <1>2, <1>3 DEF CurrentIn

(* A settled promise holds the outcome it was settled with.                 *)
LEMMA SettleOutcome ==
  ASSUME TypeOK, NEW p \in Id, NEW out \in Outcome, NEW frames, Settle(p, out, frames)
  PROVE  /\ OutcomeOf(p)' = out
         /\ \A q \in Id : q # p => OutcomeOf(q)' = OutcomeOf(q)
<1>1. \A q \in Id : q # p => OutcomeOf(q)' = OutcomeOf(q)
  BY SettleStates DEF OutcomeOf
<1>2. CASE out.to = "Fulfilled"
  BY <1>2 DEF Settle, TypeOK, Outcome, OutcomeOf, Fulfil
<1>3. CASE out.to = "Rejected"
  BY <1>3 DEF Settle, TypeOK, Outcome, OutcomeOf, Reject
<1>4. QED
  BY <1>1, <1>2, <1>3 DEF Outcome

(* Settling a promise above frames whose loops are current.                 *)
LEMMA SettleCurrent ==
  ASSUME TypeOK, LoopsAreCurrent, NEW p \in Id, NEW out \in Outcome, NEW frames \in Seq(Frames),
         Settle(p, out, frames),
         \A q \in Id : thens'[q] # <<>> => thens[q] # <<>>,
         \A q \in Id : DrainedIn(frames, q) => DrainedIn(stack, q),
         \A q \in Id : state[q] \in Settled /\ thens[q] # <<>> => CurrentIn(frames, q, OutcomeOf(q))
  PROVE  LoopsAreCurrent'
<1>1. /\ Drain(p, out) \in Frames /\ stack' = Append(frames, Drain(p, out))
      /\ Drain(p, out).kind = "drain" /\ Drain(p, out).id = p
  BY FrameKinds DEF Settle
<1>2. ASSUME NEW q \in Id, DrainedIn(stack', q) PROVE state'[q] \in Settled
  <2>1. q = p \/ DrainedIn(stack, q)
    BY <1>1, <1>2, PushCurrent
  <2>2. QED
    BY <2>1, SettleStates DEF LoopsAreCurrent
<1>3. ASSUME NEW q \in Id, thens'[q] # <<>> PROVE CurrentIn(stack', q, OutcomeOf(q)')
  <2>1. CASE q = p
    BY <1>1, <2>1, PushCurrent, SettleOutcome
  <2>2. CASE q # p /\ state[q] \in Settled
    <3>1. CurrentIn(frames, q, OutcomeOf(q)) /\ OutcomeOf(q) \in Outcome
      BY <1>3, <2>2, OutcomeOfType
    <3>2. QED
      BY <1>1, <2>2, <3>1, PushCurrent, SettleOutcome
  <2>3. CASE q # p /\ state[q] \notin Settled
    <3>1. ~DrainedIn(stack', q)
      BY <1>1, <2>3, PushCurrent DEF LoopsAreCurrent
    <3>2. QED
      BY <3>1 DEF DrainedIn, CurrentIn
  <2>4. QED
    BY <2>1, <2>2, <2>3
<1>4. QED
  BY <1>2, <1>3 DEF LoopsAreCurrent, DrainedIn, CurrentIn, OutcomeOf

(* The call stack gains or loses a frame and no promise is settled.         *)
LEMMA MoveCurrent ==
  ASSUME TypeOK, LoopsAreCurrent, UNCHANGED <<state, value, error>>,
         \A q \in Id : DrainedIn(stack', q) => state[q] \in Settled,
         \A q \in Id : state[q] \in Settled /\ thens'[q] # <<>> => CurrentIn(stack', q, OutcomeOf(q))
  PROVE  LoopsAreCurrent'
<1>1. \A q \in Id : OutcomeOf(q)' = OutcomeOf(q)
  BY DEF OutcomeOf
<1>2. ASSUME NEW q \in Id, thens'[q] # <<>> PROVE CurrentIn(stack', q, OutcomeOf(q)')
  <2>1. CASE state[q] \in Settled
    BY <1>1, <1>2, <2>1
  <2>2. CASE state[q] \notin Settled
    BY <2>2 DEF DrainedIn, CurrentIn
  <2>3. QED
    BY <2>1, <2>2
<1>3. QED
  BY <1>2 DEF LoopsAreCurrent, DrainedIn, CurrentIn, OutcomeOf

LEMMA NextCurrent == TypeOK /\ LoopsAreCurrent /\ [Next]_vars => LoopsAreCurrent'
<1> SUFFICES ASSUME TypeOK, LoopsAreCurrent, [Next]_vars PROVE LoopsAreCurrent'
  OBVIOUS
<1>0. /\ \A q \in Id : DrainedIn(stack, q) => state[q] \in Settled
      /\ \A q \in Id : thens[q] # <<>> => CurrentIn(stack, q, OutcomeOf(q))
      /\ \A q \in Id : state[q] \in Settled => OutcomeOf(q) \in Outcome
      /\ stack \in Seq(Frames)
  BY OutcomeOfType DEF LoopsAreCurrent, TypeOK
<1>1. CASE UNCHANGED <<state, value, error, thens, stack>>
  BY <1>0, <1>1, MoveCurrent
<1>2. CASE RunTask
  <2>1. /\ thens' = thens /\ Head(queue) \in Tasks
        /\ \A q \in Id : ~DrainedIn(<<>>, q) /\ \A out : CurrentIn(<<>>, q, out)
    BY <1>2, HeadTailProperties DEF RunTask, TypeOK, DrainedIn, CurrentIn
  <2>2. CASE stack' = <<Body(NoId)>> /\ UNCHANGED <<state, value, error>>
    <3>1. \A q \in Id : ~DrainedIn(stack', q) /\ \A out : CurrentIn(stack', q, out)
      BY <2>2, FrameKinds DEF DrainedIn, CurrentIn
    <3>2. QED
      BY <2>2, <3>1, MoveCurrent
  <2>3. CASE Head(queue).kind = "settle" /\ Settle(Head(queue).id, Head(queue).out, <<>>)
    <3>1. Head(queue).id \in Id /\ Head(queue).out \in Outcome /\ <<>> \in Seq(Frames)
      BY <2>1, <2>3, IdProperties, EmptySeq DEF Tasks
    <3>2. QED
      BY <2>1, <2>3, <3>1, SettleCurrent
  <2>4. QED
    BY <1>2, <2>2, <2>3 DEF RunTask
<1>3. ASSUME NEW p \in Root, NEW out \in Outcome, CallResolver(p, out) PROVE LoopsAreCurrent'
  <2>1. p \in Id /\ Settle(p, out, stack) /\ thens' = thens
    BY <1>3, IdProperties DEF CallResolver
  <2>2. QED
    BY <1>0, <2>1, SettleCurrent
<1>4. ASSUME NEW p \in Existing, NEW kind \in UserKind, Then(p, kind) PROVE LoopsAreCurrent'
  <2>1. /\ p \in Id /\ UNCHANGED <<state, value, error>>
        /\ \A q \in Id : q # p => thens'[q] = thens[q]
    BY <1>4, ExistingType DEF Then, TypeOK
  <2>2. CASE state[p] = "Pending"
    <3>1. stack' = stack
      BY <1>4, <2>2 DEF Then
    <3>2. QED
      BY <1>0, <2>1, <2>2, <3>1, MoveCurrent DEF Settled
  <2>3. CASE state[p] # "Pending"
    <3>1. /\ stack' = Append(stack, Drain(p, OutcomeOf(p)))
          /\ state[p] \in Settled /\ OutcomeOf(p) \in Outcome
      BY <1>0, <1>4, <2>1, <2>3 DEF Then, TypeOK, State
    <3>2. /\ Drain(p, OutcomeOf(p)) \in Frames
          /\ Drain(p, OutcomeOf(p)).kind = "drain" /\ Drain(p, OutcomeOf(p)).id = p
      BY <2>1, <3>1, FrameKinds
    <3>3. \A q \in Id : DrainedIn(stack', q) => state[q] \in Settled
      BY <1>0, <3>1, <3>2, PushCurrent
    <3>4. \A q \in Id : state[q] \in Settled /\ thens'[q] # <<>> => CurrentIn(stack', q, OutcomeOf(q))
      BY <1>0, <2>1, <3>1, <3>2, PushCurrent
    <3>5. QED
      BY <2>1, <3>3, <3>4, MoveCurrent
  <2>4. QED
    BY <2>2, <2>3
<1>5. CASE DrainEnd \/ ReturnApp
  <2>1. /\ UNCHANGED <<state, value, error, thens>> /\ stack # <<>> /\ stack' = Below
        /\ \A q \in Id : thens[q] # <<>> => ~(Top.kind = "drain" /\ Top.id = q)
    BY <1>5 DEF DrainEnd, ReturnApp, Draining, InBody
  <2>2. \A q \in Id : DrainedIn(Below, q) => state[q] \in Settled
    BY <1>0, <2>1, PopCurrent
  <2>3. \A q \in Id : state[q] \in Settled /\ thens[q] # <<>> => CurrentIn(Below, q, OutcomeOf(q))
    BY <1>0, <2>1, PopCurrent
  <2>4. QED
    BY <2>1, <2>2, <2>3, MoveCurrent
<1>6. CASE DrainStep
  <2> DEFINE h == Head(thens[Top.id])
  <2>1. Top.id \in Id /\ Top.out \in Outcome /\ h \in Handler
    BY <1>6, TopType, HeadTailProperties DEF DrainStep, TypeOK
  <2>2. h.child \in Id /\ h.child \in Derived /\ DefaultOutcome(h, Top.out) \in Outcome
    BY <2>1, IdProperties, DefaultOutcomeType DEF Handler
  <2>3. /\ \A q \in Id : thens'[q] # <<>> => thens[q] # <<>>
        /\ \/ stack' = Append(stack, Body(h.child)) /\ UNCHANGED <<state, value, error>>
           \/ Settle(h.child, DefaultOutcome(h, Top.out), stack)
    BY <1>6 DEF DrainStep, TypeOK
  <2> HIDE DEF h
  <2>4. CASE stack' = Append(stack, Body(h.child)) /\ UNCHANGED <<state, value, error>>
    <3>1. Body(h.child) \in Frames /\ Body(h.child).kind # "drain"
      BY <2>2, FrameKinds
    <3>2. \A q \in Id : DrainedIn(stack', q) => state[q] \in Settled
      BY <1>0, <2>4, <3>1, PushCurrent
    <3>3. \A q \in Id : state[q] \in Settled /\ thens'[q] # <<>> => CurrentIn(stack', q, OutcomeOf(q))
      BY <1>0, <2>3, <2>4, <3>1, PushCurrent
    <3>4. QED
      BY <2>4, <3>2, <3>3, MoveCurrent
  <2>5. CASE Settle(h.child, DefaultOutcome(h, Top.out), stack)
    BY <1>0, <2>2, <2>3, <2>5, SettleCurrent
  <2>6. QED
    BY <2>3, <2>4, <2>5
<1>7. ASSUME InBody, Top.id # NoId,
             \/ \E out \in Outcome : ReturnOutcome(out)
             \/ \E q \in Existing : ReturnPromise(q)
      PROVE  LoopsAreCurrent'
  <2>1. Top.id \in Id /\ Top.kind # "drain" /\ stack # <<>> /\ Below \in Seq(Frames)
    BY <1>7, TopType, IdProperties, BelowProperties DEF InBody, TypeOK
  <2>2. /\ \A q \in Id : DrainedIn(Below, q) => DrainedIn(stack, q)
        /\ \A q \in Id : state[q] \in Settled /\ thens[q] # <<>> => CurrentIn(Below, q, OutcomeOf(q))
    BY <1>0, <2>1, PopCurrent
  <2>3. ASSUME NEW out \in Outcome, Settle(Top.id, out, Below), thens' = thens PROVE LoopsAreCurrent'
    BY <2>1, <2>2, <2>3, SettleCurrent
  <2>4. ASSUME NEW q \in Existing, ReturnPromise(q) PROVE LoopsAreCurrent'
    <3>1. q \in Id
      BY ExistingType
    <3>2. CASE state[q] \in Settled
      BY <1>0, <2>3, <2>4, <3>1, <3>2 DEF ReturnPromise, Settled
    <3>3. CASE state[q] = "Pending"
      <4>1. /\ stack' = Below /\ UNCHANGED <<state, value, error>>
            /\ \A r \in Id : r # q => thens'[r] = thens[r]
        BY <2>4, <3>1, <3>3 DEF ReturnPromise, Settled, TypeOK
      <4>2. QED
        BY <1>0, <2>2, <3>3, <4>1, MoveCurrent DEF Settled
    <3>4. QED
      BY <2>4, <3>2, <3>3 DEF ReturnPromise
  <2>5. QED
    BY <1>7, <2>3, <2>4 DEF ReturnOutcome
<1>8. QED
  BY <1>1, <1>2, <1>3, <1>4, <1>5, <1>6, <1>7
  DEF Next, Edt, Return, vars, PostSettle, PostApp, ReturnOutcome, ReturnPromise

(* Of nested loops of processThens over one promise, the innermost carries *)
(* its present outcome, and outer ones with an older outcome call nobody.   *)
THEOREM LoopsCurrent == Spec => []LoopsAreCurrent
<1>1. Init => LoopsAreCurrent
  BY DEF Init, LoopsAreCurrent, DrainedIn
<1>2. QED
  BY <1>1, NextCurrent, TypeCorrect, PTL DEF Spec

(* A handler is called with what its promise holds at that moment, also     *)
(* when a resolver is called again from inside an earlier handler.          *)
THEOREM CurrentOutcomes == Spec => []HandlersSeeCurrentOutcome
<1>1. ASSUME TypeOK, LoopsAreCurrent PROVE HandlersSeeCurrentOutcome
  <2> SUFFICES ASSUME Draining, thens[Top.id] # <<>> PROVE Top.out = OutcomeOf(Top.id)
    BY DEF HandlersSeeCurrentOutcome
  <2>1. /\ Top.id \in Id /\ stack # <<>> /\ Top.kind = "drain"
        /\ Len(stack) \in DOMAIN stack /\ DOMAIN stack = 1 .. Len(stack) /\ Top = stack[Len(stack)]
    BY <1>1, TopType, LenProperties, EmptySeq DEF Draining, TypeOK, Top
  <2>2. PICK j \in DOMAIN stack : Len(stack) <= j /\ stack[j] = Drain(Top.id, OutcomeOf(Top.id))
    BY <1>1, <2>1 DEF LoopsAreCurrent, CurrentIn
  <2>3. j = Len(stack)
    BY <1>1, <2>1, <2>2, LenProperties DEF TypeOK
  <2>4. QED
    BY <2>1, <2>2, <2>3, FrameKinds
<1>2. QED
  BY <1>1, LoopsCurrent, TypeCorrect, PTL

(***************************************************************************)
(* Promise implements PromiseContract: every step of the EDT is a step of   *)
(* the contract or changes nothing the contract speaks of.  (That handlers  *)
(* do get called, the contract's fairness, is checked by TLC.)              *)
(***************************************************************************)
(* A handler that then added belongs to the list it was added to and has    *)
(* not been called; an adoption belongs to a handler that has been.         *)
HandlersInPlace ==
  \A p \in Id : \A i \in DOMAIN thens[p] :
     IF thens[p][i].kind = "adopt"
     THEN thens[p][i].child \in called
     ELSE thens[p][i].child \notin called /\ origin[thens[p][i].child] = p

(* A handler that has not been called is in the list it was added to.       *)
WaitingAreListed ==
  \A c \in Derived : c \in Existing /\ c \notin called =>
     /\ origin[c] \in Id
     /\ \E i \in DOMAIN thens[origin[c]] : thens[origin[c]][i].child = c

(* The handlers that then added stand in the order of addition.             *)
ListsInOrder ==
  \A p \in Id : \A i, j \in DOMAIN thens[p] :
     i < j /\ thens[p][i].kind # "adopt" /\ thens[p][j].kind # "adopt"
       => thens[p][i].child < thens[p][j].child

CalledAreMade ==
  /\ \A c \in Derived : Running(c) => c \in called
  /\ called \subseteq Existing

CallOrder == HandlersInPlace /\ WaitingAreListed /\ ListsInOrder /\ CalledAreMade

(* Steps that touch no list and call no handler.                            *)
LEMMA StackOrder ==
  ASSUME TypeOK, CallOrder, UNCHANGED <<thens, made, origin, called>>,
         \A c \in Derived : RunningIn(stack', c) => RunningIn(stack, c)
  PROVE  CallOrder'
BY DEF CallOrder, HandlersInPlace, WaitingAreListed, ListsInOrder, CalledAreMade, Existing,
       Running, RunningIn

(* What an appended list holds.                                             *)
LEMMA AddedHandlers ==
  ASSUME TypeOK, NEW p \in Id, NEW h \in Handler, thens' = [thens EXCEPT ![p] = Append(@, h)]
  PROVE  /\ \E i \in DOMAIN thens'[p] : thens'[p][i] = h
         /\ \A q \in Id :
              /\ \A i \in DOMAIN thens[q] : i \in DOMAIN thens'[q] /\ thens'[q][i] = thens[q][i]
              /\ \A i \in DOMAIN thens'[q] : i \notin DOMAIN thens[q] =>
                   /\ q = p /\ thens'[q][i] = h
                   /\ \A j \in DOMAIN thens'[q] : ~(i < j)
<1> SUFFICES ASSUME NEW q \in Id
             PROVE  /\ q = p => \E i \in DOMAIN thens'[q] : thens'[q][i] = h
                    /\ \A i \in DOMAIN thens[q] : i \in DOMAIN thens'[q] /\ thens'[q][i] = thens[q][i]
                    /\ \A i \in DOMAIN thens'[q] : i \notin DOMAIN thens[q] =>
                         /\ q = p /\ thens'[q][i] = h
                         /\ \A j \in DOMAIN thens'[q] : ~(i < j)
  OBVIOUS
<1>1. /\ thens[q] \in Seq(Handler) /\ (q # p => thens'[q] = thens[q])
      /\ q = p => thens'[q] = Append(thens[q], h)
  BY DEF TypeOK
<1>2. Len(thens[q]) \in Nat /\ DOMAIN thens[q] = 1 .. Len(thens[q])
  BY <1>1, LenProperties
<1>3. QED
  BY <1>1, <1>2, AppendProperties

LEMMA ThenOrder ==
  ASSUME TypeOK, OneOwner, CallOrder, NEW p \in Existing, NEW kind \in UserKind, Then(p, kind)
  PROVE  CallOrder'
<1> DEFINE h == [child |-> made + 1, kind |-> kind]
<1>1. /\ p \in Id /\ made + 1 \in Derived /\ made + 1 \in Id /\ made + 1 \notin Existing
      /\ Existing' = Existing \cup {made + 1}
      /\ called' = called /\ origin' = [origin EXCEPT ![made + 1] = p]
      /\ made + 1 \notin called
  <2>1. made \in Nat /\ NRoots \in Nat /\ NPromises \in Nat /\ NRoots <= made /\ made < NPromises
    BY ConstantsAssumption DEF Then, TypeOK
  <2>2. p \in Id /\ made + 1 \in Derived /\ made + 1 \in Id /\ made + 1 \notin Existing
    BY <2>1, ExistingType DEF Derived, Id, Existing
  <2>3. made' = made + 1 /\ called' = called /\ origin' = [origin EXCEPT ![made + 1] = p]
    BY DEF Then
  <2>4. Existing' = Existing \cup {made + 1}
    BY <2>1, <2>3 DEF Existing
  <2>5. QED
    BY <2>2, <2>3, <2>4 DEF CallOrder, CalledAreMade
<1>2. /\ h \in Handler /\ h.child = made + 1 /\ h.kind # "adopt"
      /\ thens' = [thens EXCEPT ![p] = Append(@, h)]
  BY <1>1 DEF Handler, Kind, UserKind, Then
<1> HIDE DEF h
<1>20. /\ \E i \in DOMAIN thens'[p] : thens'[p][i] = h
       /\ \A q \in Id :
            /\ \A i \in DOMAIN thens[q] : i \in DOMAIN thens'[q] /\ thens'[q][i] = thens[q][i]
            /\ \A i \in DOMAIN thens'[q] : i \notin DOMAIN thens[q] =>
                 /\ q = p /\ thens'[q][i] = h
                 /\ \A j \in DOMAIN thens'[q] : ~(i < j)
  BY <1>1, <1>2, AddedHandlers
<1>3. \A q \in Id : \A i \in DOMAIN thens[q] :
        /\ thens[q][i].child \in Derived /\ thens[q][i].child \in Existing
        /\ thens[q][i].child # made + 1 /\ thens[q][i].child < made + 1
  <2> TAKE q \in Id
  <2> TAKE i \in DOMAIN thens[q]
  <2>1. thens[q][i].child \in Derived /\ Listed(thens[q][i].child)
    <3>1. thens[q] \in Seq(Handler)
      BY DEF TypeOK
    <3>2. thens[q][i] \in Handler
      BY <3>1
    <3>3. QED
      BY <3>2 DEF Listed, Handler
  <2>2. thens[q][i].child \in Existing
    BY <2>1, OneOwnerOf DEF OwnerOf
  <2>3. QED
    BY <1>1, <2>1, <2>2, ConstantsAssumption DEF Existing, TypeOK
<1>4. HandlersInPlace'
  <2> SUFFICES ASSUME NEW q \in Id, NEW i \in DOMAIN thens'[q]
               PROVE  IF thens'[q][i].kind = "adopt"
                      THEN thens'[q][i].child \in called'
                      ELSE thens'[q][i].child \notin called' /\ origin'[thens'[q][i].child] = q
    BY DEF HandlersInPlace
  <2>1. CASE i \in DOMAIN thens[q]
    <3>1. thens'[q][i] = thens[q][i]
      BY <2>1, <1>20
    <3>2. origin'[thens[q][i].child] = origin[thens[q][i].child]
      BY <1>1, <1>3, <2>1, IdProperties DEF TypeOK
    <3>3. QED
      BY <1>1, <2>1, <3>1, <3>2 DEF CallOrder, HandlersInPlace
  <2>2. CASE i \notin DOMAIN thens[q]
    <3>1. q = p /\ thens'[q][i] = h
      BY <2>2, <1>20
    <3>2. QED
      BY <1>1, <1>2, <3>1 DEF TypeOK
  <2>3. QED
    BY <2>1, <2>2
<1>5. WaitingAreListed'
  <2> SUFFICES ASSUME NEW c \in Derived, c \in Existing', c \notin called'
               PROVE  /\ origin'[c] \in Id
                      /\ \E i \in DOMAIN thens'[origin'[c]] : thens'[origin'[c]][i].child = c
    BY DEF WaitingAreListed
  <2>1. CASE c = made + 1
    <3>1. origin'[c] = p
      BY <1>1, <2>1 DEF TypeOK
    <3>2. \E i \in DOMAIN thens'[p] : thens'[p][i] = h
      BY <1>20
    <3>3. QED
      BY <1>1, <1>2, <2>1, <3>1, <3>2
  <2>2. CASE c # made + 1
    <3>1. origin'[c] = origin[c]
      BY <1>1, <2>2, IdProperties DEF TypeOK
    <3>2. origin[c] \in Id /\ \E i \in DOMAIN thens[origin[c]] : thens[origin[c]][i].child = c
      BY <1>1, <2>2 DEF CallOrder, WaitingAreListed
    <3>3. PICK i \in DOMAIN thens[origin[c]] : thens[origin[c]][i].child = c
      BY <3>2
    <3>4. i \in DOMAIN thens'[origin[c]] /\ thens'[origin[c]][i] = thens[origin[c]][i]
      BY <3>2, <1>20
    <3>5. QED
      BY <3>1, <3>2, <3>3, <3>4
  <2>3. QED
    BY <2>1, <2>2
<1>6. ListsInOrder'
  <2> SUFFICES ASSUME NEW q \in Id, NEW i \in DOMAIN thens'[q], NEW j \in DOMAIN thens'[q],
                      i < j, thens'[q][i].kind # "adopt", thens'[q][j].kind # "adopt"
               PROVE  thens'[q][i].child < thens'[q][j].child
    BY DEF ListsInOrder
  <2>1. i \in DOMAIN thens[q] /\ thens'[q][i] = thens[q][i]
    BY <1>20
  <2>2. CASE j \in DOMAIN thens[q]
    BY <2>1, <2>2, <1>20 DEF CallOrder, ListsInOrder
  <2>3. CASE j \notin DOMAIN thens[q]
    <3>1. thens'[q][j] = h
      BY <2>3, <1>20
    <3>2. QED
      BY <1>2, <1>3, <2>1, <3>1
  <2>4. QED
    BY <2>2, <2>3
<1>7. CalledAreMade'
  <2>1. \A c \in Derived : RunningIn(stack', c) => RunningIn(stack, c)
    <3>1. CASE state[p] = "Pending"
      BY <3>1 DEF Then
    <3>2. CASE state[p] # "Pending"
      <4>1. OutcomeOf(p) \in Outcome
        BY <1>1, <3>2, OutcomeOfType DEF TypeOK, State
      <4>2. Drain(p, OutcomeOf(p)) \in Frames /\ \A c : Drain(p, OutcomeOf(p)) # Body(c)
        BY <1>1, <4>1, FrameKinds
      <4>3. QED
        BY <3>2, <4>2, PushBodies DEF Then, TypeOK
    <3>3. QED
      BY <3>1, <3>2
  <2>2. QED
    BY <1>1, <2>1 DEF CallOrder, CalledAreMade, Running, RunningIn
<1>8. QED
  BY <1>4, <1>5, <1>6, <1>7 DEF CallOrder

(* A handler's promise adopted by q: its handler has been called.           *)
LEMMA AdoptOrder ==
  ASSUME TypeOK, OneOwner, CallOrder, NEW q \in Existing, ReturnPromise(q), state[q] = "Pending"
  PROVE  CallOrder'
<1> DEFINE h == [child |-> Top.id, kind |-> "adopt"]
<1>1. /\ Top.id \in Derived /\ q \in Id
      /\ \A c \in Derived : RunningIn(stack, c) <=> RunningIn(Below, c) \/ c = Top.id
  BY ReturningOwner, ExistingType DEF ReturnPromise
<1>2. Top.id \in called
  BY <1>1, StackFormulas DEF CallOrder, CalledAreMade
<1>3. /\ h \in Handler /\ h.child = Top.id /\ h.kind = "adopt"
      /\ thens' = [thens EXCEPT ![q] = Append(@, h)]
      /\ stack' = Below /\ UNCHANGED <<made, origin, called>>
  BY <1>1 DEF Handler, Kind, ReturnPromise, Settled
<1> HIDE DEF h
<1>4. \A p \in Id :
        /\ \A i \in DOMAIN thens[p] : i \in DOMAIN thens'[p] /\ thens'[p][i] = thens[p][i]
        /\ \A i \in DOMAIN thens'[p] : i \in DOMAIN thens[p] \/ thens'[p][i] = h
  <2> TAKE p \in Id
  <2> QED
    BY <1>1, <1>3, AddedHandlers
<1>5. HandlersInPlace'
  BY <1>2, <1>3, <1>4 DEF CallOrder, HandlersInPlace
<1>6. WaitingAreListed'
  <2> SUFFICES ASSUME NEW c \in Derived, c \in Existing, c \notin called
               PROVE  /\ origin[c] \in Id
                      /\ \E i \in DOMAIN thens'[origin[c]] : thens'[origin[c]][i].child = c
    BY <1>3 DEF WaitingAreListed, Existing
  <2>1. QED
    BY <1>4 DEF CallOrder, WaitingAreListed
<1>7. ListsInOrder'
  BY <1>3, <1>4 DEF CallOrder, ListsInOrder
<1>8. CalledAreMade'
  BY <1>1, <1>3 DEF CallOrder, CalledAreMade, Running, RunningIn, Existing
<1>9. QED
  BY <1>5, <1>6, <1>7, <1>8 DEF CallOrder

(* The first handler of a list is called.                                   *)
LEMMA TakenHandlers ==
  ASSUME TypeOK, NEW p \in Id, thens[p] # <<>>, thens' = [thens EXCEPT ![p] = Tail(@)]
  PROVE  /\ 1 \in DOMAIN thens[p] /\ Head(thens[p]) = thens[p][1]
         /\ \A q \in Id :
              /\ DOMAIN thens[q] \subseteq Nat \ {0}
              /\ \A i \in DOMAIN thens'[q] :
                   /\ i \in Nat
                   /\ q = p => i + 1 \in DOMAIN thens[q] /\ thens'[q][i] = thens[q][i + 1]
                   /\ q # p => i \in DOMAIN thens[q] /\ thens'[q][i] = thens[q][i]
              /\ \A k \in DOMAIN thens[q] : q # p \/ k # 1 =>
                   \E i \in DOMAIN thens'[q] : thens'[q][i] = thens[q][k]
<1> SUFFICES ASSUME NEW q \in Id
             PROVE  /\ 1 \in DOMAIN thens[p] /\ Head(thens[p]) = thens[p][1]
                    /\ DOMAIN thens[q] \subseteq Nat \ {0}
                    /\ \A i \in DOMAIN thens'[q] :
                         /\ i \in Nat
                         /\ q = p => i + 1 \in DOMAIN thens[q] /\ thens'[q][i] = thens[q][i + 1]
                         /\ q # p => i \in DOMAIN thens[q] /\ thens'[q][i] = thens[q][i]
                    /\ \A k \in DOMAIN thens[q] : q # p \/ k # 1 =>
                         \E i \in DOMAIN thens'[q] : thens'[q][i] = thens[q][k]
  OBVIOUS
<1>1. /\ thens[q] \in Seq(Handler) /\ thens[p] \in Seq(Handler) /\ (q # p => thens'[q] = thens[q])
      /\ thens'[p] = Tail(thens[p])
  BY DEF TypeOK
<1>2. /\ Len(thens[p]) \in Nat \ {0} /\ DOMAIN thens[p] = 1 .. Len(thens[p])
      /\ Head(thens[p]) = thens[p][1]
      /\ DOMAIN thens'[p] = 1 .. Len(thens[p]) - 1
      /\ \A i \in 1 .. Len(thens[p]) - 1 : thens'[p][i] = thens[p][i + 1]
  BY <1>1, TailProperties
<1>3. Len(thens[q]) \in Nat /\ DOMAIN thens[q] = 1 .. Len(thens[q])
  BY <1>1, LenProperties
<1>4. \A i \in DOMAIN thens'[q] :
        /\ i \in Nat
        /\ q = p => i + 1 \in DOMAIN thens[q] /\ thens'[q][i] = thens[q][i + 1]
        /\ q # p => i \in DOMAIN thens[q] /\ thens'[q][i] = thens[q][i]
  BY <1>1, <1>2, <1>3
<1>5. ASSUME NEW k \in DOMAIN thens[q], q # p \/ k # 1
      PROVE  \E i \in DOMAIN thens'[q] : thens'[q][i] = thens[q][k]
  <2>1. CASE q # p
    BY <1>1, <2>1
  <2>2. CASE q = p
    <3>1. k - 1 \in DOMAIN thens'[p] /\ thens'[p][k - 1] = thens[p][k]
      BY <1>2, <1>5, <2>2
    <3>2. QED
      BY <2>2, <3>1
  <2>3. QED
    BY <2>1, <2>2
<1>6. QED
  BY <1>2, <1>3, <1>4, <1>5

LEMMA DrainStepOrder ==
  ASSUME TypeOK, OneOwner, CallOrder, DrainStep
  PROVE  CallOrder'
<1> DEFINE h == Head(thens[Top.id])
           p == Top.id
<1>1. p \in Id /\ Top.out \in Outcome /\ h \in Handler /\ thens[p] # <<>>
  BY TopType, HeadTailProperties DEF DrainStep, TypeOK
<1>2. h.child \in Derived /\ h.child \in Id
  BY <1>1, IdProperties DEF Handler
<1>3. /\ thens' = [thens EXCEPT ![p] = Tail(@)]
      /\ called' = called \cup {h.child} /\ UNCHANGED <<made, origin>>
      /\ \/ stack' = Append(stack, Body(h.child))
         \/ Settle(h.child, DefaultOutcome(h, Top.out), stack)
  BY DEF DrainStep
<1>4. Listed(h.child) /\ \A c : Listed(c)' => c # h.child
  BY <1>1, <1>3, TakeListed DEF OneOwner
<1>5. h = thens[p][1]
  BY <1>1, <1>3, TakenHandlers
<1> HIDE DEF h, p
<1>20. \A q \in Id :
         /\ DOMAIN thens[q] \subseteq Nat \ {0}
         /\ \A i \in DOMAIN thens'[q] :
              /\ i \in Nat
              /\ q = p => i + 1 \in DOMAIN thens[q] /\ thens'[q][i] = thens[q][i + 1]
              /\ q # p => i \in DOMAIN thens[q] /\ thens'[q][i] = thens[q][i]
         /\ \A k \in DOMAIN thens[q] : q # p \/ k # 1 =>
              \E i \in DOMAIN thens'[q] : thens'[q][i] = thens[q][k]
  BY <1>1, <1>3, TakenHandlers
<1>6. \A q \in Id : \A i \in DOMAIN thens'[q] : thens'[q][i].child # h.child
  BY <1>4 DEF Listed
<1>7. HandlersInPlace'
  <2> SUFFICES ASSUME NEW q \in Id, NEW i \in DOMAIN thens'[q]
               PROVE  IF thens'[q][i].kind = "adopt"
                      THEN thens'[q][i].child \in called'
                      ELSE thens'[q][i].child \notin called' /\ origin'[thens'[q][i].child] = q
    BY DEF HandlersInPlace
  <2>1. PICK k \in DOMAIN thens[q] : thens'[q][i] = thens[q][k]
    BY <1>20
  <2>2. QED
    BY <1>3, <1>6, <2>1 DEF CallOrder, HandlersInPlace
<1>8. WaitingAreListed'
  <2> SUFFICES ASSUME NEW c \in Derived, c \in Existing, c \notin called, c # h.child
               PROVE  /\ origin[c] \in Id
                      /\ \E i \in DOMAIN thens'[origin[c]] : thens'[origin[c]][i].child = c
    BY <1>3 DEF WaitingAreListed, Existing
  <2>1. origin[c] \in Id /\ \E k \in DOMAIN thens[origin[c]] : thens[origin[c]][k].child = c
    BY DEF CallOrder, WaitingAreListed
  <2>2. PICK k \in DOMAIN thens[origin[c]] : thens[origin[c]][k].child = c
    BY <2>1
  <2>3. origin[c] # p \/ k # 1
    BY <1>5, <2>2
  <2>4. \E i \in DOMAIN thens'[origin[c]] : thens'[origin[c]][i] = thens[origin[c]][k]
    BY <2>1, <2>3, <1>20
  <2>5. QED
    BY <2>1, <2>2, <2>4
<1>9. ListsInOrder'
  <2> SUFFICES ASSUME NEW q \in Id, NEW i \in DOMAIN thens'[q], NEW j \in DOMAIN thens'[q],
                      i < j, thens'[q][i].kind # "adopt", thens'[q][j].kind # "adopt"
               PROVE  thens'[q][i].child < thens'[q][j].child
    BY DEF ListsInOrder
  <2>1. PICK k \in DOMAIN thens[q], l \in DOMAIN thens[q] :
          k < l /\ thens'[q][i] = thens[q][k] /\ thens'[q][j] = thens[q][l]
    <3>1. CASE q = p
      <4>1. /\ i \in Nat /\ i + 1 \in DOMAIN thens[q] /\ thens'[q][i] = thens[q][i + 1]
            /\ j \in Nat /\ j + 1 \in DOMAIN thens[q] /\ thens'[q][j] = thens[q][j + 1]
        BY <3>1, <1>20
      <4>2. i + 1 < j + 1
        BY <4>1
      <4>3. QED
        BY <4>1, <4>2
    <3>2. CASE q # p
      BY <3>2, <1>20
    <3>3. QED
      BY <3>1, <3>2
  <2>2. QED
    BY <2>1 DEF CallOrder, ListsInOrder
<1>10. CalledAreMade'
  <2>1. h.child \in Existing
    BY <1>2, <1>4, OneOwnerOf DEF OwnerOf
  <2>2. \A c \in Derived : RunningIn(stack', c) => RunningIn(stack, c) \/ c = h.child
    <3>1. CASE stack' = Append(stack, Body(h.child))
      BY <1>2, <3>1, PushBodies, FrameKinds DEF TypeOK
    <3>2. CASE Settle(h.child, DefaultOutcome(h, Top.out), stack)
      BY <1>1, <1>2, <3>2, SettleBodies, DefaultOutcomeType DEF TypeOK
    <3>3. QED
      BY <1>3, <3>1, <3>2
  <2>3. QED
    BY <1>3, <2>1, <2>2 DEF CallOrder, CalledAreMade, Running, RunningIn, Existing
<1>11. QED
  BY <1>7, <1>8, <1>9, <1>10 DEF CallOrder

LEMMA NextOrder == TypeOK /\ OneOwner /\ CallOrder /\ [Next]_vars => CallOrder'
<1> SUFFICES ASSUME TypeOK, OneOwner, CallOrder, [Next]_vars PROVE CallOrder'
  OBVIOUS
<1>1. CASE UNCHANGED <<thens, made, origin, called, stack>>
  BY <1>1, StackOrder
<1>2. CASE RunTask
  <2>1. Head(queue) \in Tasks
    BY <1>2, HeadTailProperties DEF RunTask, TypeOK
  <2>2. \A c \in Derived : ~RunningIn(stack', c)
    <3>1. CASE stack' = <<Body(NoId)>>
      BY <3>1, IdProperties, FrameKinds DEF RunningIn
    <3>2. CASE Head(queue).kind = "settle" /\ Settle(Head(queue).id, Head(queue).out, <<>>)
      <4>1. Head(queue).id \in Id /\ Head(queue).out \in Outcome /\ <<>> \in Seq(Frames)
        BY <2>1, <3>2, IdProperties, EmptySeq DEF Tasks
      <4>2. \A c \in Derived : RunningIn(stack', c) <=> RunningIn(<<>>, c)
        BY <3>2, <4>1, SettleBodies
      <4>3. QED
        BY <4>2 DEF RunningIn
    <3>3. QED
      BY <1>2, <3>1, <3>2 DEF RunTask
  <2>3. QED
    BY <1>2, <2>2, StackOrder DEF RunTask
<1>3. ASSUME NEW p \in Root, NEW out \in Outcome, CallResolver(p, out) PROVE CallOrder'
  BY <1>3, IdProperties, SettleBodies, StackOrder DEF CallResolver, TypeOK
<1>4. CASE DrainEnd \/ ReturnApp
  <2>1. stack # <<>> /\ stack' = Below /\ UNCHANGED <<thens, made, origin, called>>
    BY <1>4 DEF DrainEnd, ReturnApp, Draining, InBody
  <2>2. \A c : RunningIn(stack', c) => RunningIn(stack, c)
    BY <2>1, PopBodies DEF TypeOK
  <2>3. QED
    BY <2>1, <2>2, StackOrder
<1>5. ASSUME InBody, Top.id # NoId, NEW out \in Outcome, Settle(Top.id, out, Below),
             UNCHANGED <<thens, made, origin, called>>
      PROVE  CallOrder'
  <2>1. \A c \in Derived : RunningIn(stack', c) => RunningIn(stack, c)
    BY <1>5, ReturningOwner, SettleBodies
  <2>2. QED
    BY <1>5, <2>1, StackOrder
<1>6. ASSUME NEW q \in Existing, ReturnPromise(q) PROVE CallOrder'
  <2>1. CASE state[q] \in Settled
    BY <1>5, <1>6, <2>1, ExistingType, OutcomeOfType DEF ReturnPromise, Settled
  <2>2. QED
    BY <1>6, <2>1, AdoptOrder DEF ReturnPromise
<1>7. QED
  BY <1>1, <1>2, <1>3, <1>4, <1>5, <1>6, ThenOrder, DrainStepOrder
  DEF Next, Edt, Return, vars, PostSettle, PostApp, ReturnOutcome

LEMMA InitOrder == Init => CallOrder
<1> SUFFICES ASSUME Init PROVE CallOrder
  OBVIOUS
<1>1. /\ \A p \in Id : DOMAIN thens[p] = {}
      /\ DOMAIN stack = {} /\ called = {} /\ Derived \cap Existing = {}
  BY ConstantsAssumption DEF Init, Derived, Existing
<1>2. QED
  BY <1>1 DEF CallOrder, HandlersInPlace, WaitingAreListed, ListsInOrder, CalledAreMade, Running

(* Handlers wait in the list of the promise they were added to, in the      *)
(* order of addition, until processThens calls them, and nothing but an     *)
(* adoption is added to a list for a handler that has already been called.  *)
THEOREM HandlersKeepOrder == Spec => []CallOrder
BY InitOrder, NextOrder, TypeCorrect, OwnersAreUnique, PTL DEF Spec
-----------------------------------------------------------------------------
(* The steps of the contract.                                               *)

LEMMA ContractNames ==
  Contract!CId = Id /\ Contract!CDerived = Derived
BY DEF Contract!CId, Contract!CDerived, Id, Derived

LEMMA PhaseOf ==
  ASSUME TypeOK, NEW c \in Derived
  PROVE  /\ Phase[c] = "unmade" <=> c \notin Existing
         /\ Phase[c] = "waiting" <=> c \in Existing /\ c \notin called
         /\ Phase[c] = "called" <=> c \in Existing /\ c \in called
         /\ c \notin Existing <=> c > made
<1>1. c \in Nat /\ c >= 1 /\ made \in Nat
  BY ConstantsAssumption DEF TypeOK, Derived
<1>2. c \notin Existing <=> c > made
  BY <1>1 DEF Existing
<1>3. QED
  BY <1>2 DEF Phase

LEMMA SettleResult ==
  ASSUME TypeOK, NEW p \in Id, NEW out \in Outcome, NEW frames, Settle(p, out, frames)
  PROVE  Result' = [Result EXCEPT ![p] = out]
<1>1. /\ state'[p] # "Pending" /\ OutcomeOf(p)' = out
      /\ \A q \in Id : q # p => state'[q] = state[q] /\ OutcomeOf(q)' = OutcomeOf(q)
  BY SettleStates, SettleOutcome DEF Settled
<1>2. Result' = [q \in Id |-> IF state'[q] = "Pending" THEN NoOutcome ELSE OutcomeOf(q)']
  BY DEF Result, NoOutcome
<1>3. QED
  BY <1>1, <1>2 DEF Result

LEMMA SameContract ==
  /\ UNCHANGED <<made, called>> => Phase' = Phase
  /\ UNCHANGED origin => Added' = Added
  /\ UNCHANGED <<state, value, error>> => Result' = Result
BY DEF Phase, Added, Result, Existing, OutcomeOf

LEMMA ResultOf ==
  ASSUME TypeOK, NEW p \in Id
  PROVE  /\ state[p] = "Pending" => Result[p] = NoOutcome
         /\ state[p] \in Settled => Result[p] # NoOutcome
<1>1. NoOutcome \notin Outcome
  BY DEF NoOutcome, Outcome
<1>2. QED
  BY <1>1, OutcomeOfType DEF Result, Settled

LEMMA RootStep ==
  ASSUME TypeOK, NEW p \in Root, NEW out \in Outcome, NEW frames, Settle(p, out, frames),
         UNCHANGED <<made, origin, called>>
  PROVE  Contract!ContractNext
<1>1. p \in Id /\ p \notin Derived
  BY IdProperties
<1>2. Contract!SettleRoot(p, out)
  BY <1>1, SettleResult, SameContract, ContractNames DEF Contract!SettleRoot
<1>3. QED
  BY <1>1, <1>2, ContractNames DEF Contract!ContractNext

LEMMA DerivedStep ==
  ASSUME TypeOK, NEW c \in Derived, NEW out \in Outcome, NEW frames, Settle(c, out, frames),
         UNCHANGED <<made, origin>>, called' = called, c \in called, c \in Existing,
         state[c] = "Pending"
  PROVE  Contract!ContractNext
<1>1. c \in Id /\ Phase[c] = "called" /\ Result[c] = NoOutcome
  BY IdProperties, PhaseOf, ResultOf
<1>2. Contract!SettleDerived(c, out)
  BY <1>1, SettleResult, SameContract DEF Contract!SettleDerived
<1>3. QED
  BY <1>2, ContractNames DEF Contract!ContractNext

LEMMA AddStep ==
  ASSUME TypeOK, CallOrder, NEW p \in Existing, NEW kind \in UserKind, Then(p, kind)
  PROVE  Contract!ContractNext
<1>1. /\ p \in Id /\ made \in Nat /\ made + 1 \in Derived /\ made + 1 \in Id
      /\ made + 1 \notin Existing /\ made + 1 \notin called /\ called' = called /\ made' = made + 1
      /\ Existing' = Existing \cup {made + 1}
      /\ origin' = [origin EXCEPT ![made + 1] = p] /\ UNCHANGED <<state, value, error>>
  <2>1. made \in Nat /\ NRoots \in Nat /\ NPromises \in Nat /\ NRoots <= made /\ made < NPromises
    BY ConstantsAssumption DEF Then, TypeOK
  <2>2. p \in Id /\ made + 1 \in Derived /\ made + 1 \in Id /\ made + 1 \notin Existing
    BY <2>1, ExistingType DEF Derived, Id, Existing
  <2>3. made' = made + 1 /\ called' = called /\ origin' = [origin EXCEPT ![made + 1] = p]
    BY DEF Then
  <2>4. Existing' = Existing \cup {made + 1}
    BY <2>1, <2>3 DEF Existing
  <2>5. QED
    BY <2>1, <2>2, <2>3, <2>4 DEF CallOrder, CalledAreMade, Then
<1>2. Phase[made + 1] = "unmade"
  BY <1>1, PhaseOf
<1>3. ASSUME NEW d \in Derived, d < made + 1 PROVE Phase[d] # "unmade"
  <2>1. d \in Nat /\ ~(d > made)
    BY <1>1, <1>3, ConstantsAssumption DEF Derived
  <2>2. QED
    BY <2>1, PhaseOf
<1>4. p \in Derived => Phase[p] # "unmade"
  BY PhaseOf
<1>5. Phase' = [Phase EXCEPT ![made + 1] = "waiting"]
  <2>1. Phase' = [c \in Derived |-> IF c \notin Existing' THEN "unmade"
                                    ELSE IF c \in called' THEN "called" ELSE "waiting"]
    BY DEF Phase
  <2>2. QED
    BY <1>1, <2>1 DEF Phase
<1>6. Added' = [Added EXCEPT ![made + 1] = p]
  BY <1>1, IdProperties DEF Added, TypeOK
<1>7. Contract!Add(made + 1, p)
  BY <1>1, <1>2, <1>3, <1>4, <1>5, <1>6, SameContract, ContractNames DEF Contract!Add
<1>8. QED
  BY <1>1, <1>7, ContractNames DEF Contract!ContractNext

LEMMA CallStep ==
  ASSUME TypeOK, OneOwner, LoopsAreCurrent, CallOrder, DrainStep
  PROVE  Contract!ContractNext
<1> DEFINE h == Head(thens[Top.id])
           p == Top.id
<1>1. /\ p \in Id /\ Top.out \in Outcome /\ h \in Handler
      /\ thens[p] # <<>> /\ thens[p] \in Seq(Handler)
  BY TopType, HeadTailProperties DEF DrainStep, TypeOK
<1>2. h.child \in Derived /\ h.child \in Id /\ DefaultOutcome(h, Top.out) \in Outcome
  BY <1>1, IdProperties, DefaultOutcomeType DEF Handler
<1>3. 1 \in DOMAIN thens[p] /\ DOMAIN thens[p] \subseteq Nat \ {0} /\ h = thens[p][1]
  BY <1>1, TailProperties
<1>4. /\ called' = called \cup {h.child} /\ UNCHANGED <<made, origin>>
      /\ \/ /\ HasFunction(h, Top.out)
            /\ UNCHANGED <<state, value, error>>
         \/ /\ ~HasFunction(h, Top.out)
            /\ Settle(h.child, DefaultOutcome(h, Top.out), stack)
  BY DEF DrainStep
<1>5. state[p] \in Settled
  <2>1. /\ stack # <<>> /\ Top.kind = "drain"
        /\ Len(stack) \in DOMAIN stack /\ Top = stack[Len(stack)]
    BY LenProperties, EmptySeq DEF DrainStep, Draining, TypeOK, Top
  <2>2. QED
    BY <1>1, <2>1 DEF LoopsAreCurrent, DrainedIn
<1> HIDE DEF h, p
<1>6. Listed(h.child) /\ h.child \in Existing /\ state[h.child] = "Pending"
  <2>1. Listed(h.child)
    BY <1>1, <1>3 DEF Listed
  <2>2. QED
    BY <1>2, <2>1, OneOwnerOf DEF OwnerOf
<1>7. CASE h.kind = "adopt"
  <2>1. h.child \in called
    BY <1>1, <1>3, <1>7 DEF CallOrder, HandlersInPlace
  <2>2. ~HasFunction(h, Top.out)
    BY <1>7 DEF HasFunction
  <2>3. QED
    BY <1>2, <1>4, <1>6, <2>1, <2>2, DerivedStep
<1>8. CASE h.kind # "adopt"
  <2>1. h.child \notin called /\ origin[h.child] = p
    BY <1>1, <1>3, <1>8 DEF CallOrder, HandlersInPlace
  <2>2. Phase[h.child] = "waiting" /\ Added[h.child] = p /\ Result[p] # NoOutcome
    BY <1>1, <1>2, <1>5, <1>6, <2>1, PhaseOf, ResultOf DEF Added
  <2>3. ASSUME NEW d \in Derived, d < h.child, Added[d] = Added[h.child]
        PROVE  Phase[d] = "called"
    <3>1. d \in Nat /\ h.child \in Nat /\ made \in Nat
      BY <1>2, ConstantsAssumption DEF Derived, TypeOK
    <3>2. d \in Existing
      BY <1>2, <1>6, <2>3, <3>1, PhaseOf
    <3>3. ASSUME d \notin called PROVE FALSE
      <4>1. origin[d] = p
        BY <2>2, <2>3 DEF Added
      <4>2. PICK i \in DOMAIN thens[p] : thens[p][i].child = d
        BY <3>2, <3>3, <4>1 DEF CallOrder, WaitingAreListed
      <4>3. thens[p][i].kind # "adopt"
        BY <1>1, <3>3, <4>2 DEF CallOrder, HandlersInPlace
      <4>4. i # 1 /\ 1 < i
        BY <1>3, <2>3, <3>1, <4>2
      <4>5. h.child < d
        BY <1>1, <1>3, <1>8, <4>2, <4>3, <4>4 DEF CallOrder, ListsInOrder
      <4>6. QED
        BY <2>3, <3>1, <4>5
    <3>4. QED
      BY <3>2, <3>3, PhaseOf
  <2>4. Phase' = [Phase EXCEPT ![h.child] = "called"]
    <3>1. Phase' = [c \in Derived |-> IF c \notin Existing THEN "unmade"
                                      ELSE IF c \in called \cup {h.child} THEN "called" ELSE "waiting"]
      BY <1>4 DEF Phase, Existing
    <3>2. QED
      BY <1>6, <3>1 DEF Phase
  <2>5. Result' = Result \/ \E out \in Outcome : Result' = [Result EXCEPT ![h.child] = out]
    BY <1>2, <1>4, SettleResult, SameContract
  <2>6. Contract!Call(h.child)
    BY <1>2, <1>4, <2>2, <2>3, <2>4, <2>5, SameContract, ContractNames DEF Contract!Call
  <2>7. QED
    BY <1>2, <2>6, ContractNames DEF Contract!ContractNext
<1>9. QED
  BY <1>7, <1>8

LEMMA NextContract ==
  TypeOK /\ OneOwner /\ LoopsAreCurrent /\ CallOrder /\ [Next]_vars
    => [Contract!ContractNext]_(Contract!cvars)
<1> SUFFICES ASSUME TypeOK, OneOwner, LoopsAreCurrent, CallOrder, [Next]_vars
             PROVE  Contract!ContractNext \/ UNCHANGED <<Phase, Added, Result>>
  BY DEF Contract!cvars
<1>1. CASE UNCHANGED <<made, called, origin, state, value, error>>
  BY <1>1, SameContract
<1>2. CASE RunTask
  <2>1. Head(queue) \in Tasks
    BY <1>2, HeadTailProperties DEF RunTask, TypeOK
  <2>2. QED
    BY <1>1, <1>2, <2>1, RootStep DEF RunTask, Tasks
<1>3. ASSUME NEW p \in Root, NEW out \in Outcome, CallResolver(p, out)
      PROVE  Contract!ContractNext
  BY <1>3, RootStep DEF CallResolver
<1>4. ASSUME InBody, Top.id # NoId, NEW out \in Outcome, Settle(Top.id, out, Below),
             UNCHANGED <<made, origin, called>>
      PROVE  Contract!ContractNext
  <2>1. Top.id \in called
    BY <1>4, ReturningOwner, StackFormulas DEF CallOrder, CalledAreMade
  <2>2. QED
    BY <1>4, <2>1, ReturningOwner, DerivedStep
<1>5. ASSUME NEW q \in Existing, ReturnPromise(q)
      PROVE  Contract!ContractNext \/ UNCHANGED <<made, called, origin, state, value, error>>
  BY <1>4, <1>5, ExistingType, OutcomeOfType DEF ReturnPromise, Settled
<1>6. QED
  BY <1>1, <1>2, <1>3, <1>4, <1>5, AddStep, CallStep
  DEF Next, Edt, Return, vars, PostSettle, PostApp, ReturnOutcome, DrainEnd, ReturnApp

LEMMA InitContract == Init => Contract!ContractInit
<1> SUFFICES ASSUME Init PROVE Contract!ContractInit
  OBVIOUS
<1>1. TypeOK /\ \A c \in Derived : c \notin Existing
  BY InitType, ConstantsAssumption DEF Init, Derived, Existing
<1>2. Phase = [c \in Derived |-> "unmade"]
  BY <1>1, PhaseOf DEF Phase
<1>3. Added = [c \in Derived |-> 0]
  BY IdProperties DEF Init, Added, NoId
<1>4. Result = [p \in Id |-> NoOutcome]
  BY DEF Init, Result
<1>5. QED
  BY <1>2, <1>3, <1>4, ContractNames DEF Contract!ContractInit

(* What Promise.java does keeps the contract of then: a handler is called   *)
(* after its promise is settled, once, in the order of addition, also when  *)
(* loops over one list are nested, and only then is the promise that then   *)
(* returned settled, once.                                                  *)
THEOREM KeepsContract == Spec => Contract!ContractSafety
BY InitContract, NextContract, TypeCorrect, OwnersAreUnique, LoopsCurrent, HandlersKeepOrder, PTL
DEF Spec, Contract!ContractSafety
=============================================================================
