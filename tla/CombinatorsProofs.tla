------------------------- MODULE CombinatorsProofs -------------------------
(***************************************************************************)
(* Proofs about Combinators: what all, allSettled and await make of their   *)
(* promises, for any number of promises, arguments, awaits and nested event *)
(* loops.                                                                   *)
(***************************************************************************)
EXTENDS Combinators, QueueProofs, FiniteSets, FiniteSetTheorems

Handler == [type : {"all", "settled"}, arg : Nat] \cup [type : {"await"}, call : Await]
           \cup [type : {"app"}]
Frame   == [type : {"drain"}, of : Promises, out : Outcomes] \cup [type : {"body"}]
           \cup [type : {"calling"}, arg : Nat]
           \cup [type : {"awaiting"}, call : Await, of : Promises]

Fields ==
  /\ state \in [Promises -> {"Pending", "Fulfilled", "Rejected"}]
  /\ error \in [Promises -> Inputs \cup {CastError, Nil}]
  /\ handlers \in [Promises -> Seq(Handler)]
  /\ which \in {"none", "all", "allSettled"}
  /\ args \in Arguments \cup {<<>>} /\ args \in Seq(Inputs)
  /\ returned \in BOOLEAN
  /\ results \in [DOMAIN args -> Inputs \cup {Nil}]
  /\ failures \in Seq(Nat)
  /\ added \in 0 .. NHandlers /\ awaits \in 0 .. NAwaits
  /\ done \in [Await -> Outcomes \cup {Pending}]
  /\ helper \in [Await -> {"none", "started", "waits", "ended"}]
  /\ answer \in [Await -> Outcomes \cup {Pending}]
  /\ stack \in Seq(Frame)

\* Which argument a handler is of, and which await; the frame of the call of all
\* or allSettled, and the frames of the awaits.
Turns == [h \in {g \in Handler : g.type \in {"all", "settled"}} |-> h.arg]
Notes == [h \in {g \in Handler : g.type = "await"} |-> h.call]
Loops == [f \in {g \in Frame : g.type = "calling"} |-> 0]
Waits == [f \in {g \in Frame : g.type = "awaiting"} |-> f.call]

\* The arguments that the loop of the call has passed; those whose handler has
\* run; those among them that have counted.
Reached(i) == \A f \in Members(stack) : f.type = "calling" => i < f.arg
Fired   == {i \in DOMAIN args : Reached(i) /\ i \notin Keys(handlers[args[i]], Turns)}
Counted == {i \in Fired : which = "allSettled" \/ state[args[i]] = "Fulfilled"}

\* There is one call of all or allSettled, and it is on the stack until it returns.
Called ==
  /\ Once(stack, Loops)
  /\ \A f \in Members(stack) :
       f.type = "calling" => which # "none" /\ ~returned /\ f.arg \in 1 .. Len(args) + 1
  /\ which # "none" => returned \/ \E f \in Members(stack) : f.type = "calling"
  /\ which = "none" => args = <<>> /\ ~returned

\* An argument that the loop has passed has one handler, on its own promise.
Turned ==
  /\ \A p \in Promises : Once(handlers[p], Turns)
  /\ \A p \in Promises : \A i \in Keys(handlers[p], Turns) :
       i \in DOMAIN args /\ args[i] = p /\ Reached(i)
  /\ \A p \in Promises : \A h \in Members(handlers[p]) :
       (h.type = "all" => which = "all") /\ (h.type = "settled" => which = "allSettled")

\* The loops over handlers carry the outcome of their promise, and a settled
\* promise that has handlers left has a loop.
Drained ==
  /\ \A f \in Members(stack) : f.type = "drain" =>
       f.out.to = state[f.of] /\ (f.of \in Inputs => f.out = Outcome(f.of))
  /\ \A p \in Promises : state[p] # "Pending" /\ handlers[p] # <<>> =>
       \E f \in Members(stack) : f.type = "drain" /\ f.of = p
  /\ \A p \in Inputs : state[p] = "Rejected" => error[p] = p
  /\ \A i \in Fired : state[args[i]] # "Pending"

\* The arguments whose failure has been passed on, once each; the error of all is
\* that of the last.
Failing == {i \in Fired : which = "all" /\ state[args[i]] = "Rejected"}
Reported ==
  /\ Members(failures) = Failing
  /\ \A j, k \in DOMAIN failures : failures[j] = failures[k] => j = k
  /\ failures # <<>> => error[All] = Thrown(error[args[failures[Len(failures)]]])

\* The promise of all or allSettled is what the handlers that have run make it.
Combined ==
  /\ complete = Cardinality(Counted)
  /\ which = "all" => \A i \in Counted : results[i] = args[i]
  /\ state[All] = "Fulfilled" <=> which # "none" /\ Counted = DOMAIN args /\ (args # <<>> \/ returned)
  /\ state[All] = "Rejected" <=> which = "all" /\ \E i \in Fired : state[args[i]] = "Rejected"
  /\ state[All] = "Rejected" =>
       \E i \in Fired : state[args[i]] = "Rejected" /\ error[All] = Thrown(error[args[i]])
  /\ Reported

\* A handler of an await belongs to an await on the stack that is not notified yet.
Awaited ==
  /\ \A p \in Promises : Once(handlers[p], Notes)
  /\ \A p \in Promises : \A n \in Keys(handlers[p], Notes) :
       done[n] = Pending /\ \E f \in Members(stack) : f.type = "awaiting" /\ f.call = n /\ f.of = p
  /\ Once(stack, Waits)
  /\ \A f \in Members(stack) : f.type = "awaiting" =>
       f.call <= awaits /\ answer[f.call] = Pending
       /\ (done[f.call] # Pending => done[f.call].to = state[f.of])
  /\ \A n \in Await : answer[n] # Pending => answer[n] = done[n]
  /\ \A n \in Await : awaits < n => done[n] = Pending

Inv == Fields /\ Called /\ Turned /\ Drained /\ Combined /\ Awaited

-----------------------------------------------------------------------------
(* Helpers.                                                                 *)

LEMMA UpTo ==
  \A n \in Nat : IsFiniteSet(1 .. n) /\ Cardinality(1 .. n) = n
<1>1. ASSUME NEW n \in Nat
      PROVE  IsFiniteSet(1 .. n) /\ Cardinality(1 .. n) = n
  <2>1. IsFiniteSet(1 .. n) /\ Cardinality(1 .. n) = IF 1 > n THEN 0 ELSE n - 1 + 1
    BY FS_Interval
  <2>2. (IF 1 > n THEN 0 ELSE n - 1 + 1) = n
    OBVIOUS
  <2>3. QED
    BY <2>1, <2>2
<1>2. QED
  BY <1>1

(* The stack.                                                               *)

LEMMA LastPlaces ==
  ASSUME NEW S, NEW q \in Seq(S), q # <<>>
  PROVE  /\ SubSeq(q, 1, Len(q) - 1) \in Seq(S) /\ q[Len(q)] \in S
         /\ Len(q) \in Nat /\ Len(q) \in DOMAIN q /\ DOMAIN q = 1 .. Len(q)
         /\ DOMAIN SubSeq(q, 1, Len(q) - 1) = 1 .. Len(q) - 1
         /\ \A i \in 1 .. Len(q) - 1 : SubSeq(q, 1, Len(q) - 1)[i] = q[i]
<1>1. Len(q) \in Nat /\ Len(q) # 0 /\ DOMAIN q = 1 .. Len(q)
  BY LenProperties, EmptySeq
<1>2. Len(q) \in DOMAIN q /\ q[Len(q)] \in S
  BY <1>1, ElementOfSeq
<1>3. /\ SubSeq(q, 1, Len(q) - 1) \in Seq(S)
      /\ Len(SubSeq(q, 1, Len(q) - 1)) = Len(q) - 1
      /\ \A i \in 1 .. Len(q) - 1 : SubSeq(q, 1, Len(q) - 1)[i] = q[i]
  BY <1>1, SubSeqProperties
<1>4. DOMAIN SubSeq(q, 1, Len(q) - 1) = 1 .. Len(q) - 1
  BY <1>3, LenProperties
<1>5. QED
  BY <1>1, <1>2, <1>3, <1>4

LEMMA LastMembers ==
  ASSUME NEW S, NEW q \in Seq(S), q # <<>>
  PROVE  /\ SubSeq(q, 1, Len(q) - 1) \in Seq(S) /\ q[Len(q)] \in S
         /\ Members(q) = Members(SubSeq(q, 1, Len(q) - 1)) \cup {q[Len(q)]}
<1> DEFINE r == SubSeq(q, 1, Len(q) - 1)
<1>1. /\ r \in Seq(S) /\ q[Len(q)] \in S /\ Len(q) \in Nat /\ Len(q) \in DOMAIN q
      /\ DOMAIN q = 1 .. Len(q) /\ DOMAIN r = 1 .. Len(q) - 1
      /\ \A i \in 1 .. Len(q) - 1 : r[i] = q[i]
  BY LastPlaces
<1> HIDE DEF r
<1>2. ASSUME NEW i \in DOMAIN q PROVE i \in DOMAIN r \/ i = Len(q)
  BY <1>1
<1>3. Members(q) = Members(r) \cup {q[Len(q)]}
  <2>1. Members(q) \subseteq Members(r) \cup {q[Len(q)]}
    BY <1>1, <1>2 DEF Members
  <2>2. ASSUME NEW x \in Members(r) PROVE x \in Members(q)
    BY <1>1 DEF Members
  <2>3. q[Len(q)] \in Members(q)
    BY <1>1 DEF Members
  <2>4. QED
    BY <2>1, <2>2, <2>3
<1>4. QED
  BY <1>1, <1>3 DEF r

LEMMA LastOnce ==
  ASSUME NEW S, NEW q \in Seq(S), q # <<>>, NEW f, Once(q, f)
  PROVE  /\ Once(SubSeq(q, 1, Len(q) - 1), f)
         /\ q[Len(q)] \in DOMAIN f => f[q[Len(q)]] \notin Keys(SubSeq(q, 1, Len(q) - 1), f)
<1> DEFINE r == SubSeq(q, 1, Len(q) - 1)
<1>1. /\ Len(q) \in Nat /\ Len(q) \in DOMAIN q
      /\ DOMAIN q = 1 .. Len(q) /\ DOMAIN r = 1 .. Len(q) - 1
      /\ \A i \in 1 .. Len(q) - 1 : r[i] = q[i]
  BY LastPlaces
<1> HIDE DEF r
<1>2. \A i \in DOMAIN r : i \in DOMAIN q /\ i # Len(q) /\ r[i] = q[i]
  BY <1>1
<1>3. Once(r, f)
  BY <1>2 DEF Once
<1>4. ASSUME q[Len(q)] \in DOMAIN f, f[q[Len(q)]] \in Keys(r, f) PROVE FALSE
  <2>1. PICK i \in DOMAIN r : r[i] \in DOMAIN f /\ f[r[i]] = f[q[Len(q)]]
    BY <1>4 DEF Keys, Members
  <2>2. QED
    BY <2>1, <1>1, <1>2, <1>4 DEF Once
<1>5. QED
  BY <1>3, <1>4 DEF r

LEMMA Kinds ==
  /\ \A h \in Handler : h.type \in {"all", "settled", "await", "app"}
  /\ \A h \in Handler : h.type \in {"all", "settled"} =>
       h.arg \in Nat /\ h \in DOMAIN Turns /\ Turns[h] = h.arg /\ h \notin DOMAIN Notes
  /\ \A h \in Handler : h.type = "await" =>
       h.call \in Await /\ h \in DOMAIN Notes /\ Notes[h] = h.call /\ h \notin DOMAIN Turns
  /\ \A h \in Handler : h.type = "app" => h \notin DOMAIN Turns /\ h \notin DOMAIN Notes
  /\ \A i \in Nat : /\ AllHandler(i) \in Handler /\ AllHandler(i).type = "all" /\ AllHandler(i).arg = i
                    /\ SettledHandler(i) \in Handler /\ SettledHandler(i).type = "settled"
                    /\ SettledHandler(i).arg = i
  /\ \A n \in Await : AwaitHandler(n) \in Handler /\ AwaitHandler(n).type = "await" /\ AwaitHandler(n).call = n
  /\ AppHandler \in Handler /\ AppHandler.type = "app"
BY DEF Handler, Turns, Notes, AllHandler, SettledHandler, AwaitHandler, AppHandler

LEMMA FrameKinds ==
  /\ \A f \in Frame : f.type \in {"drain", "body", "calling", "awaiting"}
  /\ \A f \in Frame : f.type = "drain" =>
       f.of \in Promises /\ f.out \in Outcomes /\ f \notin DOMAIN Loops /\ f \notin DOMAIN Waits
  /\ \A f \in Frame : f.type = "body" => f \notin DOMAIN Loops /\ f \notin DOMAIN Waits
  /\ \A f \in Frame : f.type = "calling" =>
       f.arg \in Nat /\ f \in DOMAIN Loops /\ Loops[f] = 0 /\ f \notin DOMAIN Waits
  /\ \A f \in Frame : f.type = "awaiting" =>
       f.call \in Await /\ f.of \in Promises /\ f \notin DOMAIN Loops
       /\ f \in DOMAIN Waits /\ Waits[f] = f.call
  /\ \A p \in Promises, out \in Outcomes :
       Drain(p, out) \in Frame /\ Drain(p, out).type = "drain" /\ Drain(p, out).of = p
       /\ Drain(p, out).out = out
  /\ Body \in Frame /\ Body.type = "body"
  /\ \A i \in Nat : Calling(i) \in Frame /\ Calling(i).type = "calling" /\ Calling(i).arg = i
  /\ \A n \in Await, p \in Promises :
       Awaiting(n, p) \in Frame /\ Awaiting(n, p).type = "awaiting" /\ Awaiting(n, p).call = n
       /\ Awaiting(n, p).of = p
BY DEF Frame, Loops, Waits, Drain, Body, Calling, Awaiting

-----------------------------------------------------------------------------
(* What a step keeps that leaves a part of the state alone.                 *)

LEMMA CalledKept ==
  ASSUME Called, Once(stack', Loops), UNCHANGED <<which, args, returned>>,
         \A f : f.type = "calling" => (f \in Members(stack') <=> f \in Members(stack))
  PROVE  Called'
<1>1. Once(stack, Loops)'
  OBVIOUS
<1>2. (\A f \in Members(stack) :
        f.type = "calling" => which # "none" /\ ~returned /\ f.arg \in 1 .. Len(args) + 1)'
  BY DEF Called
<1>3. (which # "none" => returned \/ \E f \in Members(stack) : f.type = "calling")'
  BY DEF Called
<1>4. (which = "none" => args = <<>> /\ ~returned)'
  BY DEF Called
<1>5. QED
  BY <1>1, <1>2, <1>3, <1>4 DEF Called

LEMMA ReachedKept ==
  ASSUME \A f : f.type = "calling" => (f \in Members(stack') <=> f \in Members(stack))
  PROVE  \A i : Reached(i)' <=> Reached(i)
BY DEF Reached

LEMMA FiredKept ==
  ASSUME Fields, args' = args,
         \A f : f.type = "calling" => (f \in Members(stack') <=> f \in Members(stack)),
         \A p \in Promises : Keys(handlers'[p], Turns) = Keys(handlers[p], Turns)
  PROVE  Fired' = Fired
<1>1. \A i \in DOMAIN args : args[i] \in Promises
  BY ElementOfSeq DEF Fields, Promises
<1>2. \A i \in DOMAIN args : Reached(i)' <=> Reached(i)
  BY ReachedKept
<1>3. \A i \in DOMAIN args : Keys(handlers'[args[i]], Turns) = Keys(handlers[args[i]], Turns)
  BY <1>1
<1>4. Fired' = {i \in DOMAIN args : Reached(i)' /\ i \notin Keys(handlers'[args[i]], Turns)}
  BY DEF Fired
<1>5. QED
  BY <1>2, <1>3, <1>4 DEF Fired

LEMMA TurnedKept ==
  ASSUME Turned, UNCHANGED <<which, args>>,
         \A f : f.type = "calling" => (f \in Members(stack') <=> f \in Members(stack)),
         \A p \in Promises : /\ Keys(handlers'[p], Turns) = Keys(handlers[p], Turns)
                             /\ Once(handlers'[p], Turns)
                             /\ \A h \in Members(handlers'[p]) :
                                  h \in Members(handlers[p]) \/ h.type \in {"await", "app"}
  PROVE  Turned'
<1>1. \A p \in Promises : Once(handlers'[p], Turns)
  OBVIOUS
<1>2. \A p \in Promises : \A i \in Keys(handlers'[p], Turns) :
        i \in DOMAIN args' /\ args'[i] = p /\ Reached(i)'
  BY ReachedKept DEF Turned
<1>3. \A p \in Promises : \A h \in Members(handlers'[p]) :
        (h.type = "all" => which' = "all") /\ (h.type = "settled" => which' = "allSettled")
  BY DEF Turned
<1>4. QED
  BY <1>1, <1>2, <1>3 DEF Turned

LEMMA LastFailure ==
  ASSUME Fields, Reported, failures # <<>>
  PROVE  failures[Len(failures)] \in Failing
BY LastPlaces, MembersType DEF Fields, Reported, Members

LEMMA ReportedKept ==
  ASSUME Fields, Reported, Failing' = Failing, UNCHANGED <<failures, args>>,
         failures # <<>> => error'[All] = error[All],
         \A i \in Failing : error'[args[i]] = error[args[i]]
  PROVE  Reported'
<1>1. (Members(failures) = Failing)'
  BY DEF Reported
<1>2. (\A j, k \in DOMAIN failures : failures[j] = failures[k] => j = k)'
  BY DEF Reported
<1>3. (failures # <<>> => error[All] = Thrown(error[args[failures[Len(failures)]]]))'
  BY LastFailure DEF Reported, Thrown
<1>4. QED
  BY <1>1, <1>2, <1>3 DEF Reported

LEMMA CombinedKept ==
  ASSUME Fields, Combined, Fired' = Fired, UNCHANGED <<complete, results, failures, which, args, returned>>,
         state'[All] = state[All], error'[All] = error[All],
         \A i \in Fired : state'[args[i]] = state[args[i]] /\ error'[args[i]] = error[args[i]]
  PROVE  Combined'
<1>1. Counted' = Counted
  BY DEF Counted
<1>2. (complete = Cardinality(Counted))'
  BY <1>1 DEF Combined
<1>3. (which = "all" => \A i \in Counted : results[i] = args[i])'
  BY <1>1 DEF Combined
<1>4. (state[All] = "Fulfilled" <=> which # "none" /\ Counted = DOMAIN args /\ (args # <<>> \/ returned))'
  BY <1>1 DEF Combined
<1>5. (state[All] = "Rejected" <=> which = "all" /\ \E i \in Fired : state[args[i]] = "Rejected")'
  BY DEF Combined
<1>6. (state[All] = "Rejected" =>
        \E i \in Fired : state[args[i]] = "Rejected" /\ error[All] = Thrown(error[args[i]]))'
  BY DEF Combined, Thrown
<1>7. Reported'
  <2>1. Failing' = Failing
    BY DEF Failing
  <2>2. \A i \in Failing : i \in Fired
    BY DEF Failing
  <2>3. QED
    BY <2>1, <2>2, ReportedKept DEF Combined
<1>8. QED
  BY <1>2, <1>3, <1>4, <1>5, <1>6, <1>7 DEF Combined

LEMMA DrainedKept ==
  ASSUME Drained, UNCHANGED <<state, error, args>>, Fired' \subseteq Fired,
         \A f \in Members(stack') : f.type = "drain" =>
            f \in Members(stack) \/ f.out = Outcome(f.of),
         \A p \in Promises : state[p] # "Pending" /\ handlers'[p] # <<>> =>
            \E f \in Members(stack') : f.type = "drain" /\ f.of = p
  PROVE  Drained'
<1>1. \A p : Outcome(p)' = Outcome(p) /\ Outcome(p).to = state[p]
  BY DEF Outcome, Rejected
<1>2. (\A f \in Members(stack) : f.type = "drain" =>
        f.out.to = state[f.of] /\ (f.of \in Inputs => f.out = Outcome(f.of)))'
  BY <1>1 DEF Drained
<1>3. (\A p \in Promises : state[p] # "Pending" /\ handlers[p] # <<>> =>
        \E f \in Members(stack) : f.type = "drain" /\ f.of = p)'
  OBVIOUS
<1>4. (\A p \in Inputs : state[p] = "Rejected" => error[p] = p)'
  BY DEF Drained
<1>5. (\A i \in Fired : state[args[i]] # "Pending")'
  BY DEF Drained
<1>6. QED
  BY <1>2, <1>3, <1>4, <1>5 DEF Drained

\* The part of Awaited about notifications, when awaits and answers stay.
LEMMA AwaitedKept ==
  ASSUME Awaited, UNCHANGED <<awaits, done, answer>>, Once(stack', Waits),
         \A f : f.type = "awaiting" => (f \in Members(stack') <=> f \in Members(stack)),
         \A p \in Promises : /\ Keys(handlers'[p], Notes) = Keys(handlers[p], Notes)
                             /\ Once(handlers'[p], Notes),
         \A f \in Members(stack) :
           f.type = "awaiting" /\ done[f.call] # Pending => state'[f.of] = state[f.of]
  PROVE  Awaited'
<1>1. (\A p \in Promises : \A n \in Keys(handlers[p], Notes) :
        done[n] = Pending /\ \E f \in Members(stack) : f.type = "awaiting" /\ f.call = n /\ f.of = p)'
  BY DEF Awaited
<1>2. (\A f \in Members(stack) : f.type = "awaiting" =>
        f.call <= awaits /\ answer[f.call] = Pending
        /\ (done[f.call] # Pending => done[f.call].to = state[f.of]))'
  BY DEF Awaited
<1>3. (\A n \in Await : answer[n] # Pending => answer[n] = done[n])'
  BY DEF Awaited
<1>4. (\A n \in Await : awaits < n => done[n] = Pending)'
  BY DEF Awaited
<1>5. QED
  BY <1>1, <1>2, <1>3, <1>4 DEF Awaited

\* A loop has a settled promise.
LEMMA LoopsSettled ==
  ASSUME Fields, Drained, NEW f \in Members(stack), f.type = "drain"
  PROVE  /\ f.of \in Promises /\ f.out \in Outcomes /\ f.out.to = state[f.of]
         /\ f.out.to \in {"Fulfilled", "Rejected"} /\ (f.of \in Inputs => f.out = Outcome(f.of))
<1>1. f \in Frame
  BY MembersType DEF Fields
<1>2. f.of \in Promises /\ f.out \in Outcomes
  BY <1>1, FrameKinds
<1>3. f.out.to \in {"Fulfilled", "Rejected"}
  BY <1>2 DEF Outcomes, Fulfilled, Rejected
<1>4. QED
  BY <1>2, <1>3 DEF Drained

-----------------------------------------------------------------------------
(* What a step does to the stack and to the lists of handlers.              *)

LEMMA Pushed ==
  ASSUME NEW q \in Seq(Frame), NEW f \in Frame
  PROVE  /\ Append(q, f) \in Seq(Frame) /\ Members(Append(q, f)) = Members(q) \cup {f}
         /\ Once(q, Loops) /\ f.type # "calling" => Once(Append(q, f), Loops)
         /\ Once(q, Waits) /\ f.type # "awaiting" => Once(Append(q, f), Waits)
<1>1. Append(q, f) \in Seq(Frame) /\ Members(Append(q, f)) = Members(q) \cup {f}
  BY AppendMembers
<1>2. ASSUME Once(q, Loops), f.type # "calling" PROVE Once(Append(q, f), Loops)
  <2>1. f \notin DOMAIN Loops
    BY <1>2, FrameKinds
  <2>2. QED
    BY <1>2, <2>1, AppendOnce
<1>3. ASSUME Once(q, Waits), f.type # "awaiting" PROVE Once(Append(q, f), Waits)
  <2>1. f \notin DOMAIN Waits
    BY <1>3, FrameKinds
  <2>2. QED
    BY <1>3, <2>1, AppendOnce
<1>4. QED
  BY <1>1, <1>2, <1>3

LEMMA Popped ==
  ASSUME Fields, stack # <<>>
  PROVE  /\ Below \in Seq(Frame) /\ Top \in Frame /\ Members(stack) = Members(Below) \cup {Top}
         /\ Once(stack, Loops) => /\ Once(Below, Loops)
                                  /\ Top.type = "calling" => \A f \in Members(Below) : f.type # "calling"
         /\ Once(stack, Waits) => /\ Once(Below, Waits)
                                  /\ Top.type = "awaiting" =>
                                       \A f \in Members(Below) : f.type = "awaiting" => f.call # Top.call
<1>1. stack \in Seq(Frame)
  BY DEF Fields
<1>2. Below \in Seq(Frame) /\ Top \in Frame /\ Members(stack) = Members(Below) \cup {Top}
  BY <1>1, LastMembers DEF Below, Top
<1>3. Members(Below) \subseteq Frame
  BY <1>2, MembersType
<1>4. ASSUME Once(stack, Loops)
      PROVE  Once(Below, Loops) /\ (Top \in DOMAIN Loops => Loops[Top] \notin Keys(Below, Loops))
  BY <1>1, <1>4, LastOnce DEF Below, Top
<1>5. ASSUME Once(stack, Loops), Top.type = "calling", NEW f \in Members(Below), f.type = "calling" PROVE FALSE
  <2>1. Top \in DOMAIN Loops /\ Loops[Top] = 0 /\ f \in DOMAIN Loops /\ Loops[f] = 0
    BY <1>2, <1>3, <1>5, FrameKinds
  <2>2. QED
    BY <2>1, <1>4, <1>5 DEF Keys
<1>6. ASSUME Once(stack, Waits)
      PROVE  Once(Below, Waits) /\ (Top \in DOMAIN Waits => Waits[Top] \notin Keys(Below, Waits))
  BY <1>1, <1>6, LastOnce DEF Below, Top
<1>7. ASSUME Once(stack, Waits), Top.type = "awaiting", NEW f \in Members(Below), f.type = "awaiting",
             f.call = Top.call
      PROVE  FALSE
  <2>1. Top \in DOMAIN Waits /\ Waits[Top] = Top.call /\ f \in DOMAIN Waits /\ Waits[f] = f.call
    BY <1>2, <1>3, <1>7, FrameKinds
  <2>2. QED
    BY <2>1, <1>6, <1>7 DEF Keys
<1>8. QED
  BY <1>2, <1>4, <1>5, <1>6, <1>7

LEMMA HandlerLists ==
  ASSUME Fields, NEW p \in Promises
  PROVE  handlers[p] \in Seq(Handler) /\ Members(handlers[p]) \subseteq Handler
BY MembersType DEF Fields

LEMMA Added ==
  ASSUME Fields, NEW p \in Promises, NEW h \in Handler,
         handlers' = [handlers EXCEPT ![p] = Append(@, h)]
  PROVE  /\ handlers' \in [Promises -> Seq(Handler)]
         /\ handlers'[p] = Append(handlers[p], h) /\ Members(handlers'[p]) = Members(handlers[p]) \cup {h}
         /\ \A r \in Promises \ {p} : handlers'[r] = handlers[r]
<1>1. handlers[p] \in Seq(Handler)
  BY HandlerLists
<1>2. Append(handlers[p], h) \in Seq(Handler)
      /\ Members(Append(handlers[p], h)) = Members(handlers[p]) \cup {h}
  BY <1>1, AppendMembers
<1>3. QED
  BY <1>2 DEF Fields

LEMMA AddedKeys ==
  ASSUME Fields, NEW p \in Promises, NEW h \in Handler, NEW f, h \notin DOMAIN f,
         handlers' = [handlers EXCEPT ![p] = Append(@, h)]
  PROVE  \A r \in Promises : /\ Keys(handlers'[r], f) = Keys(handlers[r], f)
                             /\ Once(handlers[r], f) => Once(handlers'[r], f)
<1>1. handlers[p] \in Seq(Handler)
  BY HandlerLists
<1>2. Keys(Append(handlers[p], h), f) = Keys(handlers[p], f)
  BY <1>1, AppendKeys
<1>3. Once(handlers[p], f) => Once(Append(handlers[p], h), f)
  BY <1>1, AppendOnce
<1>4. QED
  BY <1>2, <1>3, Added

LEMMA Removed ==
  ASSUME Fields, NEW p \in Promises, handlers[p] # <<>>, NEW f,
         handlers' = [handlers EXCEPT ![p] = Tail(@)]
  PROVE  /\ handlers' \in [Promises -> Seq(Handler)]
         /\ Head(handlers[p]) \in Handler
         /\ Members(handlers[p]) = Members(handlers'[p]) \cup {Head(handlers[p])}
         /\ \A r \in Promises \ {p} : handlers'[r] = handlers[r]
         /\ Keys(handlers[p], f) = IF Head(handlers[p]) \in DOMAIN f
                                   THEN Keys(handlers'[p], f) \cup {f[Head(handlers[p])]}
                                   ELSE Keys(handlers'[p], f)
         /\ Once(handlers[p], f) =>
              /\ Once(handlers'[p], f)
              /\ Head(handlers[p]) \in DOMAIN f => f[Head(handlers[p])] \notin Keys(handlers'[p], f)
<1>1. handlers[p] \in Seq(Handler)
  BY HandlerLists
<1>2. /\ Tail(handlers[p]) \in Seq(Handler) /\ Head(handlers[p]) \in Handler
      /\ Members(handlers[p]) = Members(Tail(handlers[p])) \cup {Head(handlers[p])}
  BY <1>1, TailMembers
<1>3. /\ handlers' \in [Promises -> Seq(Handler)] /\ handlers'[p] = Tail(handlers[p])
      /\ \A r \in Promises \ {p} : handlers'[r] = handlers[r]
  BY <1>2 DEF Fields
<1>4. Keys(handlers[p], f) = IF Head(handlers[p]) \in DOMAIN f
                             THEN Keys(handlers'[p], f) \cup {f[Head(handlers[p])]}
                             ELSE Keys(handlers'[p], f)
  BY <1>1, <1>3, TailKeys
<1>5. Once(handlers[p], f) =>
        /\ Once(handlers'[p], f)
        /\ Head(handlers[p]) \in DOMAIN f => f[Head(handlers[p])] \notin Keys(handlers'[p], f)
  BY <1>1, <1>3, TailOnce
<1>6. QED
  BY <1>2, <1>3, <1>4, <1>5

LEMMA ArgumentType ==
  ASSUME Fields, NEW i \in DOMAIN args
  PROVE  i \in Nat /\ args[i] \in Inputs /\ args[i] \in Promises /\ args[i] # All
<1>1. args \in Seq(Inputs) /\ DOMAIN args = 1 .. Len(args) /\ Len(args) \in Nat
  BY LenProperties DEF Fields
<1>2. args[i] \in Inputs
  BY <1>1, ElementOfSeq
<1>3. QED
  BY <1>1, <1>2, CombinatorsAssumption DEF Promises

LEMMA OutcomeType ==
  ASSUME Fields, Drained, Combined, NEW p \in Promises, state[p] # "Pending"
  PROVE  Outcome(p) \in Outcomes /\ Outcome(p).to = state[p]
<1>1. Outcome(p).to = state[p]
  BY DEF Outcome, Rejected
<1>2. CASE state[p] = "Rejected"
  <2>1. error[p] \in Inputs \cup {CastError}
    <3>1. CASE p \in Inputs
      BY <1>2, <3>1 DEF Drained
    <3>2. CASE p = All
      <4>1. PICK i \in Fired : state[args[i]] = "Rejected" /\ error[All] = Thrown(error[args[i]])
        BY <1>2, <3>2 DEF Combined
      <4>2. i \in DOMAIN args
        BY DEF Fired
      <4>3. error[args[i]] = args[i] /\ args[i] \in Inputs
        BY <4>1, <4>2, ArgumentType DEF Drained
      <4>4. QED
        BY <3>2, <4>1, <4>3 DEF Thrown
    <3>3. QED
      BY <3>1, <3>2 DEF Promises
  <2>2. QED
    BY <1>1, <1>2, <2>1 DEF Outcome, Outcomes
<1>3. CASE state[p] # "Rejected"
  <2>1. state[p] = "Fulfilled"
    BY <1>3 DEF Fields
  <2>2. QED
    BY <1>1, <2>1 DEF Outcome, Outcomes, Fulfilled
<1>4. QED
  BY <1>2, <1>3

\* then, called above frames.
LEMMA HandlerAdded ==
  ASSUME Fields, Drained, Combined, NEW p \in Promises, NEW h \in Handler, NEW frames \in Seq(Frame),
         AddHandler(p, h, frames)
  PROVE  /\ handlers' = [handlers EXCEPT ![p] = Append(@, h)]
         /\ stack' \in Seq(Frame)
         /\ Members(frames) \subseteq Members(stack')
         /\ \A f \in Members(stack') :
              f \in Members(frames) \/ (f.type = "drain" /\ f.of = p /\ f.out = Outcome(p))
         /\ state[p] # "Pending" => \E f \in Members(stack') : f.type = "drain" /\ f.of = p
         /\ Once(frames, Loops) => Once(stack', Loops)
         /\ Once(frames, Waits) => Once(stack', Waits)
<1>1. CASE state[p] = "Pending"
  BY <1>1 DEF AddHandler
<1>2. CASE state[p] # "Pending"
  <2> DEFINE d == Drain(p, Outcome(p))
  <2>1. d \in Frame /\ d.type = "drain" /\ d.of = p /\ d.out = Outcome(p)
    BY <1>2, OutcomeType, FrameKinds
  <2>2. handlers' = [handlers EXCEPT ![p] = Append(@, h)] /\ stack' = Append(frames, d)
    BY <1>2 DEF AddHandler
  <2> HIDE DEF d
  <2>3. stack' \in Seq(Frame) /\ Members(stack') = Members(frames) \cup {d}
    BY <2>1, <2>2, Pushed
  <2>4. (Once(frames, Loops) => Once(stack', Loops)) /\ (Once(frames, Waits) => Once(stack', Waits))
    BY <2>1, <2>2, Pushed
  <2>5. QED
    BY <2>1, <2>2, <2>3, <2>4
<1>3. QED
  BY <1>1, <1>2

-----------------------------------------------------------------------------
(* The actions that settle nothing.                                         *)

LEMMA InitInv == Init => Inv
<1> SUFFICES ASSUME Init PROVE Inv
  OBVIOUS
<1>1. Members(stack) = {} /\ Once(stack, Loops) /\ Once(stack, Waits)
  BY EmptyQueue, NoKeys DEF Init
<1>2. \A p \in Promises : /\ Members(handlers[p]) = {} /\ Once(handlers[p], Turns) /\ Once(handlers[p], Notes)
                          /\ Keys(handlers[p], Turns) = {} /\ Keys(handlers[p], Notes) = {}
                          /\ handlers[p] = <<>> /\ state[p] = "Pending"
  BY EmptyQueue, NoKeys DEF Init
<1>3. Fields
  <2>1. args \in Arguments \cup {<<>>} /\ args \in Seq(Inputs)
    BY DEF Init
  <2>2. results \in [DOMAIN args -> Inputs \cup {Nil}]
    BY DEF Init
  <2>3. added \in 0 .. NHandlers /\ awaits \in 0 .. NAwaits
    BY CombinatorsAssumption DEF Init
  <2>4. handlers \in [Promises -> Seq(Handler)] /\ stack \in Seq(Frame) /\ failures \in Seq(Nat)
    BY DEF Init
  <2>5. QED
    BY <2>1, <2>2, <2>3, <2>4 DEF Init, Fields
<1>4. DOMAIN args = {} /\ Fired = {} /\ Counted = {}
  BY DEF Init, Fired, Counted
<1>5. Called
  BY <1>1 DEF Init, Called
<1>6. Turned
  BY <1>2 DEF Turned
<1>7. Drained
  BY <1>1, <1>2, <1>4 DEF Drained, Promises
<1>8. Combined
  <2>1. complete = Cardinality(Counted)
    BY <1>4, FS_EmptySet DEF Init
  <2>2. All \in Promises
    BY DEF Promises
  <2>3. Reported
    BY <1>4, EmptyQueue DEF Init, Reported, Failing
  <2>4. QED
    BY <1>2, <1>4, <2>1, <2>2, <2>3 DEF Init, Combined
<1>9. Awaited
  BY <1>1, <1>2 DEF Init, Awaited
<1>10. QED
  BY <1>3, <1>5, <1>6, <1>7, <1>8, <1>9 DEF Inv

\* Nothing but the stack changes, and only in functions of the application.
LEMMA OnlyBodies ==
  ASSUME Inv, stack' \in Seq(Frame), UNCHANGED <<promise, combine, added, await>>,
         Once(stack', Loops), Once(stack', Waits),
         \A f : f.type # "body" => (f \in Members(stack') <=> f \in Members(stack))
  PROVE  Inv'
<1>1. UNCHANGED <<state, error, handlers, which, args, returned, complete, results, failures, added, awaits,
                  done, helper, answer>>
  BY DEF promise, combine, await
<1>2. Fields'
  BY <1>1 DEF Inv, Fields
<1>3. Called'
  BY <1>1, CalledKept DEF Inv
<1>4. \A p \in Promises : Once(handlers[p], Turns) /\ Once(handlers[p], Notes)
  BY DEF Inv, Turned, Awaited
<1>5. Turned'
  BY <1>1, <1>4, TurnedKept DEF Inv
<1>6. Fired' = Fired
  BY <1>1, FiredKept DEF Inv
<1>7. Drained'
  <2>1. \A p \in Promises : state[p] # "Pending" /\ handlers'[p] # <<>> =>
          \E f \in Members(stack') : f.type = "drain" /\ f.of = p
    BY <1>1 DEF Inv, Drained
  <2>2. QED
    BY <1>1, <1>6, <2>1, DrainedKept DEF Inv
<1>8. Combined'
  BY <1>1, <1>6, CombinedKept DEF Inv
<1>9. Awaited'
  BY <1>1, <1>4, AwaitedKept DEF Inv
<1>10. QED
  BY <1>2, <1>3, <1>5, <1>7, <1>8, <1>9 DEF Inv

LEMMA AppEventKeeps == ASSUME Inv, AppEvent PROVE Inv'
<1>1. stack \in Seq(Frame) /\ stack' = Append(stack, Body) /\ Once(stack, Loops) /\ Once(stack, Waits)
  BY DEF AppEvent, Inv, Fields, Called, Awaited
<1>2. Body \in Frame /\ Body.type = "body"
  BY FrameKinds
<1>3. stack' \in Seq(Frame) /\ Members(stack') = Members(stack) \cup {Body}
      /\ Once(stack', Loops) /\ Once(stack', Waits)
  BY <1>1, <1>2, Pushed
<1>4. QED
  BY <1>2, <1>3, OnlyBodies DEF AppEvent

LEMMA ReturnKeeps == ASSUME Inv, Return PROVE Inv'
<1>1. stack # <<>> /\ Top.type = "body" /\ stack' = Below
  BY DEF Return, OnTop
<1>2. Below \in Seq(Frame) /\ Members(stack) = Members(Below) \cup {Top} /\ Once(Below, Loops) /\ Once(Below, Waits)
  BY <1>1, Popped DEF Inv, Called, Awaited
<1>3. QED
  BY <1>1, <1>2, OnlyBodies DEF Return

LEMMA DrainEndKeeps == ASSUME Inv, DrainEnd PROVE Inv'
<1>1. /\ stack # <<>> /\ Top.type = "drain" /\ stack' = Below /\ handlers[Top.of] = <<>>
      /\ UNCHANGED <<state, error, handlers, which, args, returned, complete, results, failures, added, awaits,
                     done, helper, answer>>
  BY DEF DrainEnd, OnTop, promise, combine, await
<1>2. Below \in Seq(Frame) /\ Members(stack) = Members(Below) \cup {Top} /\ Once(Below, Loops) /\ Once(Below, Waits)
  BY <1>1, Popped DEF Inv, Called, Awaited
<1>3. Fields'
  BY <1>1, <1>2 DEF Inv, Fields
<1>4. Called'
  BY <1>1, <1>2, CalledKept DEF Inv
<1>5. \A p \in Promises : Once(handlers[p], Turns) /\ Once(handlers[p], Notes)
  BY DEF Inv, Turned, Awaited
<1>6. Turned'
  BY <1>1, <1>2, <1>5, TurnedKept DEF Inv
<1>7. Fired' = Fired
  BY <1>1, <1>2, FiredKept DEF Inv
<1>8. Drained'
  <2>1. ASSUME NEW p \in Promises, state[p] # "Pending", handlers'[p] # <<>>
        PROVE  \E f \in Members(stack') : f.type = "drain" /\ f.of = p
    <3>1. PICK f \in Members(stack) : f.type = "drain" /\ f.of = p
      BY <1>1, <2>1 DEF Inv, Drained
    <3>2. f # Top
      BY <1>1, <2>1, <3>1
    <3>3. QED
      BY <1>1, <1>2, <3>1, <3>2
  <2>2. QED
    BY <1>1, <1>2, <1>7, <2>1, DrainedKept DEF Inv
<1>9. Combined'
  BY <1>1, <1>7, CombinedKept DEF Inv
<1>10. Awaited'
  BY <1>1, <1>2, <1>5, AwaitedKept DEF Inv
<1>11. QED
  BY <1>3, <1>4, <1>6, <1>8, <1>9, <1>10 DEF Inv

LEMMA OnlyHelpers ==
  ASSUME Inv, helper' \in [Await -> {"none", "started", "waits", "ended"}],
         UNCHANGED <<promise, combine, added, awaits, done, answer, stack>>
  PROVE  Inv'
<1>1. UNCHANGED <<state, error, handlers, which, args, returned, complete, results, failures, added, awaits,
                  done, answer, stack>>
  BY DEF promise, combine
<1>2. Fields'
  BY <1>1 DEF Inv, Fields
<1>3. Called' /\ Fired' = Fired
  BY <1>1 DEF Inv, Called, Fired, Reached
<1>4. Turned'
  BY <1>1 DEF Inv, Turned, Reached
<1>5. Drained'
  BY <1>1, <1>3 DEF Inv, Drained, Outcome
<1>6. Combined'
  BY <1>1, <1>3, CombinedKept DEF Inv
<1>7. Awaited'
  BY <1>1 DEF Inv, Awaited
<1>8. QED
  BY <1>2, <1>3, <1>4, <1>5, <1>6, <1>7 DEF Inv

LEMMA HelperKeeps == ASSUME Inv, NEW n \in Await, Helper(n) PROVE Inv'
<1>1. helper' \in [Await -> {"none", "started", "waits", "ended"}]
  BY DEF Helper, HelperWaits, HelperTimesOut, Inv, Fields
<1>2. QED
  BY <1>1, OnlyHelpers DEF Helper, HelperWaits, HelperTimesOut

LEMMA AddAppHandlerKeeps == ASSUME Inv, NEW p \in Promises, AddAppHandler(p) PROVE Inv'
<1>1. /\ added < NHandlers /\ added' = added + 1 /\ AddHandler(p, AppHandler, stack)
      /\ UNCHANGED <<state, error, which, args, returned, complete, results, failures, awaits, done, helper, answer>>
  BY DEF AddAppHandler, combine, await
<1>2. /\ AppHandler \in Handler /\ AppHandler.type = "app"
      /\ AppHandler \notin DOMAIN Turns /\ AppHandler \notin DOMAIN Notes
  BY Kinds
<1>3. stack \in Seq(Frame) /\ Once(stack, Loops) /\ Once(stack, Waits)
  BY DEF Inv, Fields, Called, Awaited
<1>4. /\ handlers' = [handlers EXCEPT ![p] = Append(@, AppHandler)]
      /\ stack' \in Seq(Frame) /\ Members(stack) \subseteq Members(stack')
      /\ \A f \in Members(stack') :
           f \in Members(stack) \/ (f.type = "drain" /\ f.of = p /\ f.out = Outcome(p))
      /\ state[p] # "Pending" => \E f \in Members(stack') : f.type = "drain" /\ f.of = p
      /\ Once(stack', Loops) /\ Once(stack', Waits)
  BY <1>1, <1>2, <1>3, HandlerAdded DEF Inv
<1>5. /\ handlers' \in [Promises -> Seq(Handler)] /\ Members(handlers'[p]) = Members(handlers[p]) \cup {AppHandler}
      /\ \A r \in Promises \ {p} : handlers'[r] = handlers[r]
  BY <1>2, <1>4, Added DEF Inv
<1>6. \A r \in Promises : /\ Keys(handlers'[r], Turns) = Keys(handlers[r], Turns) /\ Once(handlers'[r], Turns)
                          /\ Keys(handlers'[r], Notes) = Keys(handlers[r], Notes) /\ Once(handlers'[r], Notes)
  <2>1. \A r \in Promises : Once(handlers[r], Turns) /\ Once(handlers[r], Notes)
    BY DEF Inv, Turned, Awaited
  <2>2. \A r \in Promises : /\ Keys(handlers'[r], Turns) = Keys(handlers[r], Turns)
                            /\ Once(handlers[r], Turns) => Once(handlers'[r], Turns)
    BY <1>2, <1>4, AddedKeys DEF Inv
  <2>3. \A r \in Promises : /\ Keys(handlers'[r], Notes) = Keys(handlers[r], Notes)
                            /\ Once(handlers[r], Notes) => Once(handlers'[r], Notes)
    BY <1>2, <1>4, AddedKeys DEF Inv
  <2>4. QED
    BY <2>1, <2>2, <2>3
<1>7. Fields'
  <2>1. added' \in 0 .. NHandlers
    BY <1>1, CombinatorsAssumption DEF Inv, Fields
  <2>2. QED
    BY <1>1, <1>4, <1>5, <2>1 DEF Inv, Fields
<1>8. Called'
  BY <1>1, <1>4, CalledKept DEF Inv
<1>9. Turned'
  BY <1>1, <1>2, <1>4, <1>5, <1>6, TurnedKept DEF Inv
<1>10. Fired' = Fired
  BY <1>1, <1>4, <1>6, FiredKept DEF Inv
<1>11. Drained'
  <2>1. \A r \in Promises : state[r] # "Pending" /\ handlers'[r] # <<>> =>
          \E f \in Members(stack') : f.type = "drain" /\ f.of = r
    BY <1>4, <1>5 DEF Inv, Drained
  <2>2. QED
    BY <1>1, <1>4, <1>10, <2>1, DrainedKept DEF Inv
<1>12. Combined'
  BY <1>1, <1>10, CombinedKept DEF Inv
<1>13. Awaited'
  BY <1>1, <1>4, <1>6, AwaitedKept DEF Inv
<1>14. QED
  BY <1>7, <1>8, <1>9, <1>11, <1>12, <1>13 DEF Inv

LEMMA CallAwaitKeeps == ASSUME Inv, NEW p \in Promises, CallAwait(p) PROVE Inv'
<1> DEFINE n == awaits + 1
           w == Awaiting(n, p)
           h == AwaitHandler(n)
           frames == Append(stack, w)
<1>1. /\ awaits < NAwaits /\ awaits' = n /\ AddHandler(p, h, frames)
      /\ UNCHANGED <<state, error, which, args, returned, complete, results, failures, added, done, helper, answer>>
  BY DEF CallAwait, combine
<1>2. n \in Await /\ awaits \in Nat /\ awaits < n /\ n \in 0 .. NAwaits /\ \A m \in Await : m \in Nat
  BY <1>1, CombinatorsAssumption DEF Inv, Fields, Await
<1>3. /\ w \in Frame /\ w.type = "awaiting" /\ w.call = n /\ w.of = p
      /\ w \in DOMAIN Waits /\ Waits[w] = n
  BY <1>2, FrameKinds
<1>4. h \in Handler /\ h.type = "await" /\ h \in DOMAIN Notes /\ Notes[h] = n /\ h \notin DOMAIN Turns
  BY <1>2, Kinds
<1> HIDE DEF w, h
<1>5. stack \in Seq(Frame) /\ Once(stack, Loops) /\ Once(stack, Waits)
  BY DEF Inv, Fields, Called, Awaited
<1>6. \A f \in Members(stack) : f \in Frame /\ (f.type = "awaiting" =>
        f.call \in Await /\ f \in DOMAIN Waits /\ Waits[f] = f.call /\ f.call <= awaits)
  BY <1>5, MembersType, FrameKinds DEF Inv, Awaited
<1>7. frames \in Seq(Frame) /\ Members(frames) = Members(stack) \cup {w} /\ Once(frames, Loops)
  BY <1>3, <1>5, Pushed
<1>8. Once(frames, Waits)
  <2>1. ASSUME n \in Keys(stack, Waits) PROVE FALSE
    <3>1. PICK f \in Members(stack) \cap DOMAIN Waits : Waits[f] = n
      BY <2>1 DEF Keys
    <3>2. f.type = "awaiting"
      BY <3>1 DEF Waits
    <3>3. QED
      BY <1>2, <1>6, <3>1, <3>2
  <2>2. QED
    BY <1>3, <1>5, <2>1, AppendOnce
<1> HIDE DEF frames
<1>9. /\ handlers' = [handlers EXCEPT ![p] = Append(@, h)]
      /\ stack' \in Seq(Frame) /\ Members(frames) \subseteq Members(stack')
      /\ \A f \in Members(stack') :
           f \in Members(frames) \/ (f.type = "drain" /\ f.of = p /\ f.out = Outcome(p))
      /\ state[p] # "Pending" => \E f \in Members(stack') : f.type = "drain" /\ f.of = p
      /\ Once(stack', Loops) /\ Once(stack', Waits)
  BY <1>1, <1>4, <1>7, <1>8, HandlerAdded DEF Inv
<1>10. /\ handlers' \in [Promises -> Seq(Handler)] /\ Members(handlers'[p]) = Members(handlers[p]) \cup {h}
       /\ handlers'[p] = Append(handlers[p], h)
       /\ \A r \in Promises \ {p} : handlers'[r] = handlers[r]
  BY <1>4, <1>9, Added DEF Inv
<1>11. \A r \in Promises : Keys(handlers'[r], Turns) = Keys(handlers[r], Turns) /\ Once(handlers'[r], Turns)
  <2>1. \A r \in Promises : Once(handlers[r], Turns)
    BY DEF Inv, Turned
  <2>2. \A r \in Promises : /\ Keys(handlers'[r], Turns) = Keys(handlers[r], Turns)
                            /\ Once(handlers[r], Turns) => Once(handlers'[r], Turns)
    BY <1>4, <1>9, AddedKeys DEF Inv
  <2>3. QED
    BY <2>1, <2>2
<1>12. \A f : f.type = "calling" => (f \in Members(stack') <=> f \in Members(stack))
  BY <1>3, <1>7, <1>9
<1>13. Fields'
  BY <1>1, <1>2, <1>9, <1>10 DEF Inv, Fields
<1>14. Called'
  BY <1>1, <1>9, <1>12, CalledKept DEF Inv
<1>15. Turned'
  BY <1>1, <1>4, <1>10, <1>11, <1>12, TurnedKept DEF Inv
<1>16. Fired' = Fired
  BY <1>1, <1>11, <1>12, FiredKept DEF Inv
<1>17. Drained'
  <2>1. \A r \in Promises : state[r] # "Pending" /\ handlers'[r] # <<>> =>
          \E f \in Members(stack') : f.type = "drain" /\ f.of = r
    BY <1>7, <1>9, <1>10 DEF Inv, Drained
  <2>2. \A f \in Members(stack') : f.type = "drain" => f \in Members(stack) \/ f.out = Outcome(f.of)
    BY <1>3, <1>7, <1>9
  <2>3. QED
    BY <1>1, <1>16, <2>1, <2>2, DrainedKept DEF Inv
<1>18. Combined'
  BY <1>1, <1>16, CombinedKept DEF Inv
<1>19. Awaited'
  <2>1. done[n] = Pending /\ answer[n] = Pending
    BY <1>2 DEF Inv, Awaited
  <2>2. \A r \in Promises : \A m \in Keys(handlers'[r], Notes) : m \in Keys(handlers[r], Notes) \/ (r = p /\ m = n)
    <3>1. Keys(handlers'[p], Notes) = Keys(handlers[p], Notes) \cup {n}
      BY <1>4, <1>10, HandlerLists, AppendKeys DEF Inv
    <3>2. QED
      BY <1>10, <3>1
  <2>3. \A r \in Promises : \A m \in Keys(handlers[r], Notes) :
          done[m] = Pending /\ m # n /\ \E f \in Members(stack) : f.type = "awaiting" /\ f.call = m /\ f.of = r
    BY <1>2, <1>6 DEF Inv, Awaited
  <2>4. \A r \in Promises : Once(handlers'[r], Notes)
    <3>1. n \notin Keys(handlers[p], Notes) /\ handlers[p] \in Seq(Handler) /\ Once(handlers[p], Notes)
      BY <2>3, HandlerLists DEF Inv, Awaited
    <3>2. Once(handlers'[p], Notes)
      BY <1>4, <1>10, <3>1, AppendOnce
    <3>3. QED
      BY <1>10, <3>2 DEF Inv, Awaited
  <2>5. Members(stack) \subseteq Members(stack') /\ w \in Members(stack')
    BY <1>7, <1>9
  <2>6. (\A r \in Promises : \A m \in Keys(handlers[r], Notes) :
          done[m] = Pending /\ \E f \in Members(stack) : f.type = "awaiting" /\ f.call = m /\ f.of = r)'
    BY <1>1, <1>3, <2>1, <2>2, <2>3, <2>5
  <2>7. ASSUME NEW f \in Members(stack'), f.type = "awaiting"
        PROVE  f.call <= awaits' /\ answer'[f.call] = Pending
               /\ (done'[f.call] # Pending => done'[f.call].to = state'[f.of])
    <3>1. f \in Members(stack) \/ f = w
      BY <1>7, <1>9, <2>7
    <3>2. CASE f = w
      BY <1>1, <1>2, <1>3, <2>1, <3>2
    <3>3. CASE f \in Members(stack)
      <4>1. f.call \in Await /\ f.call <= awaits
        BY <1>6, <2>7, <3>3
      <4>2. f.call <= awaits'
        BY <1>1, <1>2, <4>1
      <4>3. QED
        BY <1>1, <2>7, <3>3, <4>2 DEF Inv, Awaited
    <3>4. QED
      BY <3>1, <3>2, <3>3
  <2>8. (\A m \in Await : answer[m] # Pending => answer[m] = done[m])'
    BY <1>1 DEF Inv, Awaited
  <2>9. (\A m \in Await : awaits < m => done[m] = Pending)'
    BY <1>1, <1>2 DEF Inv, Awaited
  <2>10. QED
    BY <1>9, <2>4, <2>6, <2>7, <2>8, <2>9 DEF Awaited
<1>20. QED
  BY <1>13, <1>14, <1>15, <1>17, <1>18, <1>19 DEF Inv

LEMMA AwaitLoopKeeps == ASSUME Inv, AwaitLoop PROVE Inv'
<1> DEFINE n == Top.call
<1>1. /\ stack # <<>> /\ Top.type = "awaiting"
      /\ UNCHANGED <<state, error, handlers, which, args, returned, complete, results, failures, added, awaits, done>>
  BY DEF AwaitLoop, OnTop, promise, combine
<1>2. /\ Below \in Seq(Frame) /\ Top \in Frame /\ Members(stack) = Members(Below) \cup {Top}
      /\ Once(Below, Loops) /\ Once(Below, Waits)
      /\ \A f \in Members(Below) : f.type = "awaiting" => f.call # n
  BY <1>1, Popped DEF Inv, Called, Awaited
<1>3. n \in Await
  BY <1>1, <1>2, FrameKinds
<1>4. CASE done[n] = Pending
  <2>1. helper' = [helper EXCEPT ![n] = "started"] /\ UNCHANGED <<answer, stack>>
    BY <1>4 DEF AwaitLoop
  <2>2. helper' \in [Await -> {"none", "started", "waits", "ended"}]
    BY <1>3, <2>1 DEF Inv, Fields
  <2>3. QED
    BY <1>1, <2>1, <2>2, OnlyHelpers DEF promise, combine
<1>5. CASE done[n] # Pending
  <2>1. answer' = [answer EXCEPT ![n] = done[n]] /\ stack' = Below /\ UNCHANGED helper
    BY <1>5 DEF AwaitLoop
  <2>2. \A m \in Await : answer'[m] = IF m = n THEN done[n] ELSE answer[m]
    BY <2>1 DEF Inv, Fields
  <2>3. \A p \in Promises : Once(handlers[p], Turns) /\ Once(handlers[p], Notes)
    BY DEF Inv, Turned, Awaited
  <2>4. Fields'
    BY <1>1, <1>2, <1>3, <2>1 DEF Inv, Fields
  <2>5. \A f : f.type # "awaiting" => (f \in Members(stack') <=> f \in Members(stack))
    BY <1>1, <1>2, <2>1
  <2>6. Called'
    BY <1>1, <1>2, <2>1, <2>5, CalledKept DEF Inv
  <2>7. Turned'
    BY <1>1, <2>3, <2>5, TurnedKept DEF Inv
  <2>8. Fired' = Fired
    BY <1>1, <2>5, FiredKept DEF Inv
  <2>9. Drained'
    <3>1. \A p \in Promises : state[p] # "Pending" /\ handlers'[p] # <<>> =>
            \E f \in Members(stack') : f.type = "drain" /\ f.of = p
      BY <1>1, <2>5 DEF Inv, Drained
    <3>2. QED
      BY <1>1, <2>5, <2>8, <3>1, DrainedKept DEF Inv
  <2>10. Combined'
    BY <1>1, <2>8, CombinedKept DEF Inv
  <2>11. Awaited'
    <3>1. ASSUME NEW p \in Promises, NEW m \in Keys(handlers[p], Notes)
          PROVE  done[m] = Pending /\ \E f \in Members(Below) : f.type = "awaiting" /\ f.call = m /\ f.of = p
      BY <1>2, <1>5 DEF Inv, Awaited
    <3>2. ASSUME NEW f \in Members(Below), f.type = "awaiting"
          PROVE  f.call <= awaits /\ answer'[f.call] = Pending
                 /\ (done[f.call] # Pending => done[f.call].to = state[f.of])
      <4>1. f \in Frame /\ f.call \in Await /\ f.call # n /\ f \in Members(stack)
        BY <1>2, <3>2, MembersType, FrameKinds
      <4>2. QED
        BY <2>2, <3>2, <4>1 DEF Inv, Awaited
    <3>3. \A m \in Await : answer'[m] # Pending => answer'[m] = done[m]
      BY <2>2 DEF Inv, Awaited
    <3>4. \A m \in Await : awaits < m => done[m] = Pending
      BY DEF Inv, Awaited
    <3>5. QED
      BY <1>1, <1>2, <2>1, <2>3, <3>1, <3>2, <3>3, <3>4 DEF Awaited
  <2>12. QED
    BY <2>4, <2>6, <2>7, <2>9, <2>10, <2>11 DEF Inv
<1>6. QED
  BY <1>4, <1>5

-----------------------------------------------------------------------------
(* Settlements.                                                             *)

\* A resolver, called above frames: of a pending promise, or of that of all again
\* with an outcome of the same kind.
LEMMA SettleEffect ==
  ASSUME Inv, NEW p \in Promises, NEW out \in Outcomes, NEW frames \in Seq(Frame),
         Members(frames) \subseteq Members(stack), Settle(p, out, frames),
         state[p] = "Pending" \/ (p = All /\ state[p] = out.to),
         p \in Inputs => out \in {Fulfilled, Rejected(p)}
  PROVE  /\ state' \in [Promises -> {"Pending", "Fulfilled", "Rejected"}]
         /\ error' \in [Promises -> Inputs \cup {CastError, Nil}]
         /\ stack' \in Seq(Frame)
         /\ Once(frames, Loops) => Once(stack', Loops)
         /\ Once(frames, Waits) => Once(stack', Waits)
         /\ \A f : f.type # "drain" => (f \in Members(stack') <=> f \in Members(frames))
         /\ Members(frames) \subseteq Members(stack')
         /\ \E f \in Members(stack') : f.type = "drain" /\ f.of = p
         /\ state'[p] = out.to /\ out.to \in {"Fulfilled", "Rejected"}
         /\ out.to = "Rejected" => error'[p] = out.error
         /\ \A r \in Promises \ {p} : state'[r] = state[r] /\ error'[r] = error[r]
         /\ \A r \in Inputs : state'[r] = "Rejected" => error'[r] = r
         /\ \A f \in Members(stack') : f.type = "drain" =>
              f.out.to = state'[f.of] /\ (f.of \in Inputs => f.out = Outcome(f.of)')
         /\ \A f \in Members(stack) :
              f.type = "awaiting" /\ done[f.call] # Pending => state'[f.of] = state[f.of]
<1> DEFINE d == Drain(p, out)
<1>1. d \in Frame /\ d.type = "drain" /\ d.of = p /\ d.out = out
  BY FrameKinds
<1>2. /\ state' = [state EXCEPT ![p] = out.to] /\ stack' = Append(frames, d)
      /\ error' = IF out.to = "Rejected" THEN [error EXCEPT ![p] = out.error] ELSE error
  BY DEF Settle
<1> HIDE DEF d
<1>3. /\ stack' \in Seq(Frame) /\ Members(stack') = Members(frames) \cup {d}
      /\ Once(frames, Loops) => Once(stack', Loops)
      /\ Once(frames, Waits) => Once(stack', Waits)
  BY <1>1, <1>2, Pushed
<1>4. out.to \in {"Fulfilled", "Rejected"} /\ (out.to = "Rejected" => out.error \in Inputs \cup {CastError})
  BY DEF Outcomes, Fulfilled, Rejected
<1>5. /\ state' \in [Promises -> {"Pending", "Fulfilled", "Rejected"}] /\ state'[p] = out.to
      /\ \A r \in Promises \ {p} : state'[r] = state[r]
  BY <1>2, <1>4 DEF Inv, Fields
<1>6. /\ error' \in [Promises -> Inputs \cup {CastError, Nil}]
      /\ out.to = "Rejected" => error'[p] = out.error
      /\ \A r \in Promises \ {p} : error'[r] = error[r]
  BY <1>2, <1>4 DEF Inv, Fields
<1>7. \A r \in Inputs : state'[r] = "Rejected" => error'[r] = r
  <2>1. \A r \in Inputs : state[r] = "Rejected" => error[r] = r
    BY DEF Inv, Drained
  <2>2. p \in Inputs /\ out.to = "Rejected" => out.error = p
    BY DEF Fulfilled, Rejected
  <2>3. QED
    BY <1>5, <1>6, <2>1, <2>2 DEF Promises
<1>8. p \in Inputs => Outcome(p)' = out
  <2>1. CASE out = Fulfilled
    BY <1>5, <2>1 DEF Outcome, Fulfilled
  <2>2. CASE p \in Inputs /\ out = Rejected(p)
    BY <1>5, <1>6, <2>2 DEF Outcome, Rejected
  <2>3. QED
    BY <2>1, <2>2
<1>9. \A r \in Promises \ {p} : Outcome(r)' = Outcome(r)
  BY <1>5, <1>6 DEF Outcome
<1>10. p # All => p \in Inputs
  BY DEF Promises
<1>11. All \notin Inputs
  BY CombinatorsAssumption
<1>12. ASSUME NEW f \in Members(stack'), f.type = "drain"
       PROVE  f.out.to = state'[f.of] /\ (f.of \in Inputs => f.out = Outcome(f.of)')
  <2>1. f = d \/ f \in Members(stack)
    BY <1>3
  <2>2. CASE f = d
    BY <1>1, <1>5, <1>8, <2>2
  <2>3. CASE f \in Members(stack)
    <3>1. f.of \in Promises /\ f.out.to = state[f.of] /\ f.out.to # "Pending"
          /\ (f.of \in Inputs => f.out = Outcome(f.of))
      BY <1>12, <2>3, LoopsSettled DEF Inv
    <3>2. CASE f.of = p
      BY <1>5, <1>11, <3>1, <3>2
    <3>3. CASE f.of # p
      BY <1>5, <1>9, <3>1, <3>3
    <3>4. QED
      BY <3>2, <3>3
  <2>4. QED
    BY <2>1, <2>2, <2>3
<1>13. ASSUME NEW f \in Members(stack), f.type = "awaiting", done[f.call] # Pending
       PROVE  state'[f.of] = state[f.of]
  <2>1. f \in Frame
    BY MembersType DEF Inv, Fields
  <2>2. f.call \in Await /\ f.of \in Promises
    BY <1>13, <2>1, FrameKinds
  <2>3. done[f.call] \in Outcomes /\ done[f.call].to = state[f.of]
    BY <1>13, <2>2 DEF Inv, Fields, Awaited
  <2>4. state[f.of] # "Pending"
    <3>1. \A o \in Outcomes : o.to # "Pending"
      BY DEF Outcomes, Fulfilled, Rejected
    <3>2. QED
      BY <2>3, <3>1
  <2>5. QED
    BY <1>5, <2>2, <2>4
<1>14. QED
  BY <1>1, <1>3, <1>4, <1>5, <1>6, <1>7, <1>12, <1>13

LEMMA SettleEventKeeps ==
  ASSUME Inv, NEW p \in Inputs, NEW out \in {Fulfilled, Rejected(p)}, SettleEvent(p, out)
  PROVE  Inv'
<1>1. /\ state[p] = "Pending" /\ Settle(p, out, stack)
      /\ UNCHANGED <<handlers, which, args, returned, complete, results, failures, added, awaits, done, helper, answer>>
  BY DEF SettleEvent, combine, await
<1>2. p \in Promises /\ out \in Outcomes /\ p # All
  BY CombinatorsAssumption DEF Promises, Outcomes
<1>3. stack \in Seq(Frame) /\ Once(stack, Loops) /\ Once(stack, Waits)
  BY DEF Inv, Fields, Called, Awaited
<1>4. /\ state' \in [Promises -> {"Pending", "Fulfilled", "Rejected"}]
      /\ error' \in [Promises -> Inputs \cup {CastError, Nil}]
      /\ stack' \in Seq(Frame) /\ Once(stack', Loops) /\ Once(stack', Waits)
      /\ \A f : f.type # "drain" => (f \in Members(stack') <=> f \in Members(stack))
      /\ Members(stack) \subseteq Members(stack')
      /\ \E f \in Members(stack') : f.type = "drain" /\ f.of = p
      /\ \A r \in Promises \ {p} : state'[r] = state[r] /\ error'[r] = error[r]
      /\ \A r \in Inputs : state'[r] = "Rejected" => error'[r] = r
      /\ \A f \in Members(stack') : f.type = "drain" =>
           f.out.to = state'[f.of] /\ (f.of \in Inputs => f.out = Outcome(f.of)')
      /\ \A f \in Members(stack) :
           f.type = "awaiting" /\ done[f.call] # Pending => state'[f.of] = state[f.of]
  BY <1>1, <1>2, <1>3, SettleEffect
<1>5. \A r \in Promises : Once(handlers[r], Turns) /\ Once(handlers[r], Notes)
  BY DEF Inv, Turned, Awaited
<1>6. Fields'
  BY <1>1, <1>4 DEF Inv, Fields
<1>7. Called'
  BY <1>1, <1>4, CalledKept DEF Inv
<1>8. Turned'
  BY <1>1, <1>4, <1>5, TurnedKept DEF Inv
<1>9. Fired' = Fired
  BY <1>1, <1>4, FiredKept DEF Inv
<1>10. \A i \in Fired : args[i] \in Promises \ {p}
  <2>1. \A i \in Fired : i \in DOMAIN args /\ state[args[i]] # "Pending"
    BY DEF Fired, Inv, Drained
  <2>2. QED
    BY <1>1, <2>1, ArgumentType DEF Inv
<1>11. Drained'
  <2>1. (\A r \in Promises : state[r] # "Pending" /\ handlers[r] # <<>> =>
          \E f \in Members(stack) : f.type = "drain" /\ f.of = r)'
    BY <1>1, <1>4 DEF Inv, Drained
  <2>2. (\A i \in Fired : state[args[i]] # "Pending")'
    BY <1>1, <1>4, <1>9, <1>10 DEF Inv, Drained
  <2>3. QED
    BY <1>4, <2>1, <2>2 DEF Drained
<1>12. Combined'
  <2>1. All \in Promises \ {p}
    BY <1>2 DEF Promises
  <2>2. QED
    BY <1>1, <1>4, <1>9, <1>10, <2>1, CombinedKept DEF Inv
<1>13. Awaited'
  BY <1>1, <1>4, <1>5, AwaitedKept DEF Inv
<1>14. QED
  BY <1>6, <1>7, <1>8, <1>11, <1>12, <1>13 DEF Inv

-----------------------------------------------------------------------------
(* The call of all or allSettled.                                           *)

LEMMA CallCombinatorKeeps ==
  ASSUME Inv, NEW name \in {"all", "allSettled"}, NEW ps \in Arguments, CallCombinator(name, ps)
  PROVE  Inv'
<1>1. /\ which = "none" /\ which' = name /\ args' = ps /\ results' = [i \in DOMAIN ps |-> Nil]
      /\ stack' = Append(stack, Calling(1))
      /\ UNCHANGED <<state, error, handlers, returned, complete, failures, added, awaits, done, helper, answer>>
  BY DEF CallCombinator, promise, await
<1>2. ps \in Seq(Inputs) /\ Len(ps) \in Nat /\ args = <<>> /\ ~returned /\ DOMAIN args = {}
  BY <1>1, CombinatorsAssumption, LenProperties DEF Inv, Called
<1>3. stack \in Seq(Frame) /\ Once(stack, Loops) /\ Once(stack, Waits)
      /\ \A f \in Members(stack) : f \in Frame /\ f.type # "calling"
  BY <1>1, MembersType DEF Inv, Fields, Called, Awaited
<1>4. Calling(1) \in Frame /\ Calling(1).type = "calling" /\ Calling(1).arg = 1
      /\ Calling(1) \in DOMAIN Loops /\ Loops[Calling(1)] = 0
  BY FrameKinds
<1>5. /\ stack' \in Seq(Frame) /\ Members(stack') = Members(stack) \cup {Calling(1)} /\ Once(stack', Waits)
  BY <1>1, <1>3, <1>4, Pushed
<1>6. Once(stack', Loops)
  <2>1. 0 \notin Keys(stack, Loops)
    BY <1>3 DEF Keys, Loops
  <2>2. QED
    BY <1>1, <1>3, <1>4, <2>1, AppendOnce
<1>7. \A i \in DOMAIN ps : ~(i < 1)
  BY <1>2, LenProperties
<1>8. Fired' = {} /\ Fired = {} /\ Counted' = {} /\ Counted = {}
  <2>1. Fired = {} /\ Counted = {}
    BY <1>2 DEF Fired, Counted
  <2>2. \A i \in DOMAIN ps : ~Reached(i)'
    BY <1>4, <1>5, <1>7 DEF Reached
  <2>3. Fired' = {}
    BY <1>1, <2>2 DEF Fired
  <2>4. Counted' = {}
    BY <2>3 DEF Counted
  <2>5. QED
    BY <2>1, <2>3, <2>4
<1>9. \A p \in Promises : Keys(handlers[p], Turns) = {} /\ \A h \in Members(handlers[p]) : h.type \notin {"all", "settled"}
  <2>1. ASSUME NEW p \in Promises PROVE Keys(handlers[p], Turns) = {}
    BY <1>2 DEF Inv, Turned
  <2>2. ASSUME NEW p \in Promises, NEW h \in Members(handlers[p]), h.type \in {"all", "settled"} PROVE FALSE
    BY <1>1, <2>2 DEF Inv, Turned
  <2>3. QED
    BY <2>1, <2>2
<1>10. Fields'
  BY <1>1, <1>2, <1>5 DEF Inv, Fields
<1>11. Called'
  <2>1. (\A f \in Members(stack) :
          f.type = "calling" => which # "none" /\ ~returned /\ f.arg \in 1 .. Len(args) + 1)'
    BY <1>1, <1>2, <1>3, <1>4, <1>5
  <2>2. (which # "none" => returned \/ \E f \in Members(stack) : f.type = "calling")'
    BY <1>4, <1>5
  <2>3. (which = "none" => args = <<>> /\ ~returned)'
    BY <1>1
  <2>4. QED
    BY <1>6, <2>1, <2>2, <2>3 DEF Called
<1>12. Turned'
  <2>1. \A p \in Promises : Once(handlers[p], Turns)
    BY DEF Inv, Turned
  <2>2. QED
    BY <1>1, <1>9, <2>1 DEF Turned
<1>13. Drained'
  <2>1. \A r \in Promises : state[r] # "Pending" /\ handlers[r] # <<>> =>
          \E f \in Members(stack') : f.type = "drain" /\ f.of = r
    BY <1>5 DEF Inv, Drained
  <2>2. \A f \in Members(stack') : f.type = "drain" => f \in Members(stack)
    BY <1>4, <1>5
  <2>3. \A p : Outcome(p)' = Outcome(p)
    BY <1>1 DEF Outcome
  <2>4. QED
    BY <1>1, <1>8, <2>1, <2>2, <2>3 DEF Inv, Drained
<1>14. Combined'
  <2>1. state[All] # "Fulfilled" /\ state[All] # "Rejected" /\ complete = Cardinality({})
    BY <1>1, <1>8 DEF Inv, Combined
  <2>2. args' = <<>> \/ DOMAIN args' # {}
    BY <1>1, <1>2, EmptySeq, LenProperties
  <2>3. ~(Counted' = DOMAIN args' /\ (args' # <<>> \/ returned'))
    BY <1>1, <1>2, <1>8, <2>2
  <2>4. Reported'
    <3>1. Failing = {} /\ Failing' = {}
      BY <1>8 DEF Failing
    <3>2. failures = <<>> /\ failures' = <<>>
      BY <1>1, <3>1, LastFailure DEF Inv, Combined
    <3>3. QED
      BY <3>1, <3>2, EmptyQueue DEF Reported
  <2>5. QED
    BY <1>1, <1>8, <2>1, <2>3, <2>4 DEF Combined
<1>15. Awaited'
  <2>1. \A p \in Promises : Once(handlers[p], Notes)
    BY DEF Inv, Awaited
  <2>2. QED
    BY <1>1, <1>4, <1>5, <2>1, AwaitedKept DEF Inv
<1>16. QED
  BY <1>10, <1>11, <1>12, <1>13, <1>14, <1>15 DEF Inv

LEMMA CallStepKeeps == ASSUME Inv, CallStep PROVE Inv'
<1> DEFINE i == Top.arg
           p == args[i]
           h == IF which = "all" THEN AllHandler(i) ELSE SettledHandler(i)
           c == Calling(i + 1)
           frames == Append(Below, c)
<1>1. /\ stack # <<>> /\ Top.type = "calling" /\ i <= Len(args) /\ AddHandler(p, h, frames)
      /\ UNCHANGED <<state, error, which, args, returned, complete, results, failures, added, awaits, done, helper, answer>>
  BY DEF CallStep, OnTop, combine, await
<1>2. /\ Below \in Seq(Frame) /\ Top \in Frame /\ Members(stack) = Members(Below) \cup {Top}
      /\ Once(Below, Loops) /\ Once(Below, Waits)
      /\ \A f \in Members(Below) : f.type # "calling" /\ f \in Frame
  BY <1>1, Popped, MembersType DEF Inv, Called, Awaited
<1>3. which \in {"all", "allSettled"} /\ ~returned /\ i \in DOMAIN args /\ i \in Nat /\ i + 1 \in 1 .. Len(args) + 1
  <2>1. which # "none" /\ ~returned /\ i \in 1 .. Len(args) + 1
    BY <1>1, <1>2 DEF Inv, Called
  <2>2. DOMAIN args = 1 .. Len(args) /\ Len(args) \in Nat
    BY LenProperties DEF Inv, Fields
  <2>3. QED
    BY <1>1, <2>1, <2>2 DEF Inv, Fields
<1>4. p \in Promises
  BY <1>3, ArgumentType DEF Inv
<1>5. /\ h \in Handler /\ h.type \in {"all", "settled"} /\ h.arg = i
      /\ h.type = "all" => which = "all"
      /\ h.type = "settled" => which = "allSettled"
      /\ h \in DOMAIN Turns /\ Turns[h] = i /\ h \notin DOMAIN Notes
  BY <1>3, Kinds
<1>6. c \in Frame /\ c.type = "calling" /\ c.arg = i + 1 /\ c \in DOMAIN Loops /\ Loops[c] = 0
  BY <1>3, FrameKinds
<1> HIDE DEF i, p, h, c
<1>7. frames \in Seq(Frame) /\ Members(frames) = Members(Below) \cup {c} /\ Once(frames, Waits)
  BY <1>2, <1>6, Pushed
<1>8. Once(frames, Loops)
  <2>1. 0 \notin Keys(Below, Loops)
    BY <1>2 DEF Keys, Loops
  <2>2. QED
    BY <1>2, <1>6, <2>1, AppendOnce
<1> HIDE DEF frames
<1>9. /\ handlers' = [handlers EXCEPT ![p] = Append(@, h)]
      /\ stack' \in Seq(Frame) /\ Members(frames) \subseteq Members(stack')
      /\ \A f \in Members(stack') :
           f \in Members(frames) \/ (f.type = "drain" /\ f.of = p /\ f.out = Outcome(p))
      /\ state[p] # "Pending" => \E f \in Members(stack') : f.type = "drain" /\ f.of = p
      /\ Once(stack', Loops) /\ Once(stack', Waits)
  BY <1>1, <1>4, <1>5, <1>7, <1>8, HandlerAdded DEF Inv
<1>10. /\ handlers' \in [Promises -> Seq(Handler)] /\ Members(handlers'[p]) = Members(handlers[p]) \cup {h}
       /\ handlers'[p] = Append(handlers[p], h)
       /\ \A r \in Promises \ {p} : handlers'[r] = handlers[r]
  BY <1>4, <1>5, <1>9, Added DEF Inv
<1>11. \A r \in Promises : Keys(handlers'[r], Notes) = Keys(handlers[r], Notes) /\ Once(handlers'[r], Notes)
  <2>1. \A r \in Promises : Once(handlers[r], Notes)
    BY DEF Inv, Awaited
  <2>2. \A r \in Promises : /\ Keys(handlers'[r], Notes) = Keys(handlers[r], Notes)
                            /\ Once(handlers[r], Notes) => Once(handlers'[r], Notes)
    BY <1>4, <1>5, <1>9, AddedKeys DEF Inv
  <2>3. QED
    BY <2>1, <2>2
<1>12. Keys(handlers'[p], Turns) = Keys(handlers[p], Turns) \cup {i}
  BY <1>4, <1>5, <1>10, HandlerLists, AppendKeys DEF Inv
<1>13. \A f : f.type = "calling" => (f \in Members(stack) <=> f = Top) /\ (f \in Members(stack') <=> f = c)
  BY <1>1, <1>2, <1>6, <1>7, <1>9
<1>14. \A j \in DOMAIN args : (Reached(j) <=> j < i) /\ (Reached(j)' <=> j < i + 1)
  BY <1>1, <1>6, <1>13 DEF Reached, i
<1>15. \A j \in DOMAIN args : j \in Nat /\ args[j] \in Promises
  BY ArgumentType DEF Inv
<1>16. i \notin Keys(handlers[p], Turns) /\ i \notin Fired
  BY <1>3, <1>4, <1>14 DEF Inv, Turned, Fired
<1>17. Fired' = Fired
  <2>1. Fired' = {j \in DOMAIN args : Reached(j)' /\ j \notin Keys(handlers'[args[j]], Turns)}
    BY <1>1 DEF Fired
  <2>2. ASSUME NEW j \in DOMAIN args
        PROVE  Reached(j)' /\ j \notin Keys(handlers'[args[j]], Turns)
               <=> Reached(j) /\ j \notin Keys(handlers[args[j]], Turns)
    <3>1. CASE j = i
      BY <1>3, <1>12, <1>14, <3>1 DEF p
    <3>2. CASE j # i
      <4>1. Reached(j)' <=> Reached(j)
        BY <1>3, <1>14, <1>15, <3>2
      <4>2. j \in Keys(handlers'[args[j]], Turns) <=> j \in Keys(handlers[args[j]], Turns)
        BY <1>10, <1>12, <1>15, <3>2
      <4>3. QED
        BY <4>1, <4>2
    <3>3. QED
      BY <3>1, <3>2
  <2>3. QED
    BY <2>1, <2>2 DEF Fired
<1>18. Fields'
  BY <1>1, <1>9, <1>10 DEF Inv, Fields
<1>19. Called'
  <2>1. (\A f \in Members(stack) :
          f.type = "calling" => which # "none" /\ ~returned /\ f.arg \in 1 .. Len(args) + 1)'
    BY <1>1, <1>3, <1>6, <1>13
  <2>2. (which # "none" => returned \/ \E f \in Members(stack) : f.type = "calling")'
    BY <1>6, <1>13
  <2>3. (which = "none" => args = <<>> /\ ~returned)'
    BY <1>1, <1>3
  <2>4. QED
    BY <1>9, <2>1, <2>2, <2>3 DEF Called
<1>20. Turned'
  <2>1. \A r \in Promises : Once(handlers'[r], Turns)
    <3>1. handlers[p] \in Seq(Handler) /\ Once(handlers[p], Turns)
      BY <1>4, HandlerLists DEF Inv, Turned
    <3>2. Once(handlers'[p], Turns)
      BY <1>5, <1>10, <1>16, <3>1, AppendOnce
    <3>3. QED
      BY <1>10, <3>2 DEF Inv, Turned
  <2>2. ASSUME NEW r \in Promises, NEW j \in Keys(handlers'[r], Turns)
        PROVE  j \in DOMAIN args /\ args[j] = r /\ Reached(j)'
    <3>1. j \in Keys(handlers[r], Turns) \/ (r = p /\ j = i)
      BY <1>10, <1>12
    <3>2. CASE j \in Keys(handlers[r], Turns)
      <4>1. j \in DOMAIN args /\ args[j] = r /\ Reached(j)
        BY <3>2 DEF Inv, Turned
      <4>2. QED
        BY <1>3, <1>14, <1>15, <4>1
    <3>3. CASE r = p /\ j = i
      BY <1>3, <1>14, <3>3 DEF p
    <3>4. QED
      BY <3>1, <3>2, <3>3
  <2>3. \A r \in Promises : \A g \in Members(handlers'[r]) :
          (g.type = "all" => which = "all") /\ (g.type = "settled" => which = "allSettled")
    BY <1>5, <1>10 DEF Inv, Turned
  <2>4. QED
    BY <1>1, <2>1, <2>2, <2>3 DEF Turned
<1>21. Drained'
  <2>1. \A r \in Promises : state[r] # "Pending" /\ handlers'[r] # <<>> =>
          \E f \in Members(stack') : f.type = "drain" /\ f.of = r
    <3>1. \A f \in Members(stack) : f.type = "drain" => f \in Members(stack')
      BY <1>1, <1>2, <1>7, <1>9
    <3>2. QED
      BY <1>9, <1>10, <3>1 DEF Inv, Drained
  <2>2. \A f \in Members(stack') : f.type = "drain" => f \in Members(stack) \/ f.out = Outcome(f.of)
    BY <1>2, <1>6, <1>7, <1>9
  <2>3. QED
    BY <1>1, <1>17, <2>1, <2>2, DrainedKept DEF Inv
<1>22. Combined'
  BY <1>1, <1>17, CombinedKept DEF Inv
<1>23. Awaited'
  <2>1. \A f : f.type = "awaiting" => (f \in Members(stack') <=> f \in Members(stack))
    BY <1>1, <1>2, <1>6, <1>7, <1>9
  <2>2. QED
    BY <1>1, <1>9, <1>11, <2>1, AwaitedKept DEF Inv
<1>24. QED
  BY <1>18, <1>19, <1>20, <1>21, <1>22, <1>23 DEF Inv

LEMMA CallReturnsKeeps == ASSUME Inv, CallReturns PROVE Inv'
<1>1. /\ stack # <<>> /\ Top.type = "calling" /\ Top.arg > Len(args) /\ returned' = TRUE
      /\ UNCHANGED <<handlers, which, args, complete, results, failures, added, awaits, done, helper, answer>>
  BY DEF CallReturns, OnTop, await
<1>2. /\ Below \in Seq(Frame) /\ Top \in Frame /\ Members(stack) = Members(Below) \cup {Top}
      /\ Once(Below, Loops) /\ Once(Below, Waits)
      /\ \A f \in Members(Below) : f.type # "calling"
  BY <1>1, Popped DEF Inv, Called, Awaited
<1>3. which # "none" /\ ~returned /\ Top.arg \in Nat
  BY <1>1, <1>2, FrameKinds DEF Inv, Called
<1>4. DOMAIN args = 1 .. Len(args) /\ Len(args) \in Nat
  BY LenProperties DEF Inv, Fields
<1>5. \A i \in DOMAIN args : Reached(i)
  BY <1>1, <1>2, <1>3, <1>4 DEF Reached
<1>6. All \in Promises /\ Fulfilled \in Outcomes /\ Fulfilled.to = "Fulfilled"
  BY DEF Promises, Outcomes, Fulfilled
<1>7. args = <<>> => state[All] = "Pending"
  <2>1. args = <<>> => Fired = {}
    BY DEF Fired
  <2>2. args = <<>> => state[All] # "Fulfilled" /\ state[All] # "Rejected"
    BY <1>3, <2>1 DEF Inv, Combined
  <2>3. QED
    BY <1>6, <2>2 DEF Inv, Fields
<1>8. All \notin Inputs
  BY CombinatorsAssumption
<1>9. /\ state' \in [Promises -> {"Pending", "Fulfilled", "Rejected"}]
      /\ error' \in [Promises -> Inputs \cup {CastError, Nil}]
      /\ stack' \in Seq(Frame) /\ Once(stack', Loops) /\ Once(stack', Waits)
      /\ \A f : f.type # "drain" => (f \in Members(stack') <=> f \in Members(Below))
      /\ Members(Below) \subseteq Members(stack')
      /\ state'[All] # state[All] => \E f \in Members(stack') : f.type = "drain" /\ f.of = All
      /\ state'[All] = IF args = <<>> THEN "Fulfilled" ELSE state[All]
      /\ args # <<>> => error'[All] = error[All]
      /\ \A r \in Inputs : state'[r] = state[r] /\ error'[r] = error[r]
      /\ \A f \in Members(stack') : f.type = "drain" =>
           f.out.to = state'[f.of] /\ (f.of \in Inputs => f.out = Outcome(f.of)')
      /\ \A f \in Members(stack) :
           f.type = "awaiting" /\ done[f.call] # Pending => state'[f.of] = state[f.of]
  <2>1. CASE args = <<>>
    <3>1. Settle(All, Fulfilled, Below)
      BY <2>1 DEF CallReturns
    <3>2. \A r \in Inputs : r \in Promises \ {All}
      BY <1>8 DEF Promises
    <3>3. QED
      BY <1>2, <1>6, <1>7, <1>8, <2>1, <3>1, <3>2, SettleEffect
  <2>2. CASE args # <<>>
    <3>1. stack' = Below /\ UNCHANGED <<state, error>>
      BY <2>2 DEF CallReturns
    <3>2. \A r : Outcome(r)' = Outcome(r)
      BY <3>1 DEF Outcome
    <3>3. QED
      BY <1>2, <2>2, <3>1, <3>2 DEF Inv, Fields, Drained
  <2>3. QED
    BY <2>1, <2>2
<1>10. Fields'
  BY <1>1, <1>9 DEF Inv, Fields
<1>11. \A i \in DOMAIN args : Reached(i)'
  BY <1>2, <1>9 DEF Reached
<1>12. Fired' = Fired
  BY <1>1, <1>5, <1>11 DEF Fired
<1>13. \A i \in Fired : i \in DOMAIN args /\ state'[args[i]] = state[args[i]] /\ error'[args[i]] = error[args[i]]
  <2>1. \A i \in Fired : i \in DOMAIN args
    BY DEF Fired
  <2>2. QED
    BY <1>9, <2>1, ArgumentType DEF Inv
<1>14. Called'
  BY <1>1, <1>2, <1>3, <1>9 DEF Called
<1>15. Turned'
  BY <1>1, <1>11 DEF Inv, Turned
<1>16. Drained'
  <2>1. (\A r \in Promises : state[r] # "Pending" /\ handlers[r] # <<>> =>
          \E f \in Members(stack) : f.type = "drain" /\ f.of = r)'
    <3>1. ASSUME NEW r \in Promises, state'[r] # "Pending", handlers[r] # <<>>
          PROVE  \E f \in Members(stack') : f.type = "drain" /\ f.of = r
      <4>1. CASE state'[r] = state[r]
        <5>1. PICK f \in Members(stack) : f.type = "drain" /\ f.of = r
          BY <3>1, <4>1 DEF Inv, Drained
        <5>2. QED
          BY <1>1, <1>2, <1>9, <5>1
      <4>2. CASE state'[r] # state[r]
        BY <1>9, <4>2 DEF Promises
      <4>3. QED
        BY <4>1, <4>2
    <3>2. QED
      BY <1>1, <3>1
  <2>2. (\A r \in Inputs : state[r] = "Rejected" => error[r] = r)'
    BY <1>9 DEF Inv, Drained
  <2>3. (\A i \in Fired : state[args[i]] # "Pending")'
    BY <1>1, <1>12, <1>13 DEF Inv, Drained
  <2>4. QED
    BY <1>9, <2>1, <2>2, <2>3 DEF Drained
<1>17. Combined'
  <2>1. Counted' = Counted
    BY <1>1, <1>12, <1>13 DEF Counted
  <2>2. CASE args = <<>>
    <3>1. Fired = {} /\ Counted = {} /\ DOMAIN args = {}
      BY <2>2 DEF Fired, Counted
    <3>2. complete' = Cardinality(Counted')
      BY <1>1, <2>1 DEF Inv, Combined
    <3>3. Reported'
      <4>1. Failing = {} /\ Failing' = {}
        BY <1>12, <3>1 DEF Failing
      <4>2. failures = <<>>
        BY <4>1, LastFailure DEF Inv, Combined
      <4>3. QED
        BY <1>1, <4>1, <4>2, ReportedKept DEF Inv, Combined
    <3>4. QED
      BY <1>1, <1>3, <1>9, <1>12, <2>1, <2>2, <3>1, <3>2, <3>3 DEF Combined
  <2>3. CASE args # <<>>
    <3>1. (complete = Cardinality(Counted))'
      BY <1>1, <2>1 DEF Inv, Combined
    <3>2. (which = "all" => \A i \in Counted : results[i] = args[i])'
      BY <1>1, <2>1 DEF Inv, Combined
    <3>3. (state[All] = "Fulfilled" <=> which # "none" /\ Counted = DOMAIN args /\ (args # <<>> \/ returned))'
      BY <1>1, <1>9, <2>1, <2>3 DEF Inv, Combined
    <3>4. (state[All] = "Rejected" <=> which = "all" /\ \E i \in Fired : state[args[i]] = "Rejected")'
      BY <1>1, <1>9, <1>12, <1>13, <2>3 DEF Inv, Combined
    <3>5. (state[All] = "Rejected" =>
            \E i \in Fired : state[args[i]] = "Rejected" /\ error[All] = Thrown(error[args[i]]))'
      BY <1>1, <1>9, <1>12, <1>13, <2>3 DEF Inv, Combined, Thrown
    <3>6. Reported'
      <4>1. Failing' = Failing
        BY <1>1, <1>12, <1>13 DEF Failing
      <4>2. \A i \in Failing : i \in Fired
        BY DEF Failing
      <4>3. QED
        BY <1>1, <1>9, <1>13, <2>3, <4>1, <4>2, ReportedKept DEF Inv, Combined
    <3>7. QED
      BY <3>1, <3>2, <3>3, <3>4, <3>5, <3>6 DEF Combined
  <2>4. QED
    BY <2>2, <2>3
<1>18. Awaited'
  <2>1. \A f : f.type = "awaiting" => (f \in Members(stack') <=> f \in Members(stack))
    BY <1>1, <1>2, <1>9
  <2>2. \A r \in Promises : Once(handlers[r], Notes)
    BY DEF Inv, Awaited
  <2>3. QED
    BY <1>1, <1>9, <2>1, <2>2, AwaitedKept DEF Inv
<1>19. QED
  BY <1>10, <1>14, <1>15, <1>16, <1>17, <1>18 DEF Inv

-----------------------------------------------------------------------------
(* processThens.                                                            *)

\* What a handler of all or allSettled does to the promises: nothing, or it
\* settles that of all.
Resolved ==
  /\ state' \in [Promises -> {"Pending", "Fulfilled", "Rejected"}]
  /\ error' \in [Promises -> Inputs \cup {CastError, Nil}]
  /\ stack' \in Seq(Frame) /\ Once(stack', Loops) /\ Once(stack', Waits)
  /\ \A f : f.type # "drain" => (f \in Members(stack') <=> f \in Members(stack))
  /\ Members(stack) \subseteq Members(stack')
  /\ state'[All] # "Pending" =>
       state[All] # "Pending" \/ \E f \in Members(stack') : f.type = "drain" /\ f.of = All
  /\ \A r \in Inputs : state'[r] = state[r] /\ error'[r] = error[r]
  /\ \A f \in Members(stack') : f.type = "drain" =>
       f.out.to = state'[f.of] /\ (f.of \in Inputs => f.out = Outcome(f.of)')
  /\ \A f \in Members(stack) :
       f.type = "awaiting" /\ done[f.call] # Pending => state'[f.of] = state[f.of]

LEMMA ResolvesNothing ==
  ASSUME Inv, UNCHANGED <<state, error, stack>>
  PROVE  Resolved
<1>1. \A r : Outcome(r)' = Outcome(r)
  BY DEF Outcome
<1>2. QED
  BY <1>1 DEF Resolved, Inv, Fields, Called, Awaited, Drained

LEMMA ResolvesAll ==
  ASSUME Inv, NEW out \in Outcomes, Settle(All, out, stack), state[All] \in {"Pending", out.to}
  PROVE  /\ Resolved /\ state'[All] = out.to
         /\ out.to = "Rejected" => error'[All] = out.error
<1>1. All \in Promises /\ All \notin Inputs /\ \A r \in Inputs : r \in Promises \ {All}
  BY CombinatorsAssumption DEF Promises
<1>2. stack \in Seq(Frame) /\ Once(stack, Loops) /\ Once(stack, Waits)
  BY DEF Inv, Fields, Called, Awaited
<1>3. QED
  BY <1>1, <1>2, SettleEffect DEF Resolved

\* The promise whose handlers the innermost loop calls, and the next of them.
Of    == Top.of
First == Head(handlers[Of])

LEMMA TurnFacts ==
  ASSUME Inv, OnTop("drain"), handlers[Of] # <<>>,
         First.type \in {"all", "settled"}, handlers' = [handlers EXCEPT ![Of] = Tail(@)],
         which' = which, args' = args,
         \A f : f.type = "calling" => (f \in Members(stack') <=> f \in Members(stack))
  PROVE  /\ Of \in Inputs /\ Of \in Promises /\ Top.out = Outcome(Of) /\ state[Of] \in {"Fulfilled", "Rejected"}
         /\ Top \in Members(stack) /\ Top.type = "drain"
         /\ First.arg \in DOMAIN args /\ args[First.arg] = Of
         /\ First.arg \notin Fired /\ Fired' = Fired \cup {First.arg}
         /\ First.type = "all" => which = "all"
         /\ First.type = "settled" => which = "allSettled"
         /\ Keys(handlers[Of], Turns) = Keys(handlers'[Of], Turns) \cup {First.arg}
<1> DEFINE i == First.arg
<1>1. stack # <<>> /\ Top.type = "drain" /\ Top \in Members(stack)
  BY Popped DEF OnTop, Inv
<1>2. Of \in Promises /\ Top.out.to = state[Of] /\ state[Of] \in {"Fulfilled", "Rejected"}
      /\ (Of \in Inputs => Top.out = Outcome(Of))
  BY <1>1, LoopsSettled DEF Inv, Of
<1>3. /\ First \in Handler /\ Members(handlers[Of]) = Members(handlers'[Of]) \cup {First}
      /\ \A r \in Promises \ {Of} : handlers'[r] = handlers[r]
      /\ Keys(handlers[Of], Turns) = IF First \in DOMAIN Turns THEN Keys(handlers'[Of], Turns) \cup {Turns[First]}
                                    ELSE Keys(handlers'[Of], Turns)
      /\ Once(handlers[Of], Turns) => (First \in DOMAIN Turns => Turns[First] \notin Keys(handlers'[Of], Turns))
  BY <1>2, Removed DEF Inv, First
<1>4. First \in DOMAIN Turns /\ Turns[First] = i
  BY <1>3, Kinds
<1>5. Keys(handlers[Of], Turns) = Keys(handlers'[Of], Turns) \cup {i} /\ i \notin Keys(handlers'[Of], Turns)
  BY <1>2, <1>3, <1>4 DEF Inv, Turned
<1> HIDE DEF i
<1>6. i \in DOMAIN args /\ args[i] = Of /\ Reached(i)
  BY <1>2, <1>5 DEF Inv, Turned
<1>7. Of \in Inputs
  BY <1>6, ArgumentType DEF Inv
<1>8. i \notin Fired
  BY <1>5, <1>6 DEF Fired
<1>9. Fired' = Fired \cup {i}
  <2>1. Fired' = {j \in DOMAIN args : Reached(j)' /\ j \notin Keys(handlers'[args[j]], Turns)}
    BY DEF Fired
  <2>2. \A j : Reached(j)' <=> Reached(j)
    BY ReachedKept
  <2>3. ASSUME NEW j \in DOMAIN args
        PROVE  j \notin Keys(handlers'[args[j]], Turns) <=> j \notin Keys(handlers[args[j]], Turns) \/ j = i
    <3>1. args[j] \in Promises
      BY ArgumentType DEF Inv
    <3>2. CASE args[j] = Of
      BY <1>5, <3>2
    <3>3. CASE args[j] # Of
      BY <1>3, <1>6, <3>1, <3>3
    <3>4. QED
      BY <3>2, <3>3
  <2>4. QED
    BY <1>6, <2>1, <2>2, <2>3 DEF Fired
<1>10. (First.type = "all" => which = "all") /\ (First.type = "settled" => which = "allSettled")
  BY <1>2, <1>3 DEF Inv, Turned
<1>11. QED
  BY <1>1, <1>2, <1>5, <1>6, <1>7, <1>8, <1>9, <1>10 DEF i

LEMMA TurnTaken ==
  ASSUME Inv, OnTop("drain"), handlers[Of] # <<>>,
         First.type \in {"all", "settled"}, handlers' = [handlers EXCEPT ![Of] = Tail(@)],
         UNCHANGED <<which, args, returned, added, await>>, Resolved,
         results' \in [DOMAIN args -> Inputs \cup {Nil}], failures' \in Seq(Nat), Combined'
  PROVE  Inv'
<1>1. UNCHANGED <<which, args, returned, added, awaits, done, helper, answer>>
  BY DEF await
<1>2. \A f : f.type # "drain" => (f \in Members(stack') <=> f \in Members(stack))
  BY DEF Resolved
<1>3. /\ Of \in Inputs /\ Of \in Promises /\ state[Of] \in {"Fulfilled", "Rejected"}
      /\ Top \in Members(stack) /\ Top.type = "drain"
      /\ First.arg \in DOMAIN args /\ args[First.arg] = Of /\ Fired' = Fired \cup {First.arg}
      /\ Keys(handlers[Of], Turns) = Keys(handlers'[Of], Turns) \cup {First.arg}
  <2>1. \A f : f.type = "calling" => (f \in Members(stack') <=> f \in Members(stack))
    BY <1>2
  <2>2. which' = which /\ args' = args
    BY <1>1
  <2>3. QED
    BY <2>1, <2>2, TurnFacts
<1>4. /\ handlers' \in [Promises -> Seq(Handler)] /\ First \in Handler
      /\ Members(handlers[Of]) = Members(handlers'[Of]) \cup {First}
      /\ \A r \in Promises \ {Of} : handlers'[r] = handlers[r]
  BY <1>3, Removed DEF Inv, First
<1>5. \A r \in Promises : Once(handlers'[r], Turns)
  <2>1. Once(handlers'[Of], Turns)
    BY <1>3, Removed DEF Inv, Turned, First
  <2>2. QED
    BY <1>4, <2>1 DEF Inv, Turned
<1>6. \A r \in Promises : Keys(handlers'[r], Notes) = Keys(handlers[r], Notes) /\ Once(handlers'[r], Notes)
  <2>1. First \notin DOMAIN Notes
    BY <1>4, Kinds
  <2>2. Keys(handlers'[Of], Notes) = Keys(handlers[Of], Notes) /\ Once(handlers'[Of], Notes)
    <3>1. Once(handlers[Of], Notes) /\ Fields
      BY <1>3 DEF Inv, Awaited
    <3>2. /\ Keys(handlers[Of], Notes) = IF First \in DOMAIN Notes THEN Keys(handlers'[Of], Notes) \cup {Notes[First]}
                                        ELSE Keys(handlers'[Of], Notes)
          /\ Once(handlers'[Of], Notes)
      BY <1>3, <3>1, Removed DEF First
    <3>3. QED
      BY <2>1, <3>2
  <2>3. QED
    BY <1>4, <2>2 DEF Inv, Awaited
<1>7. Fields'
  BY <1>1, <1>4 DEF Inv, Fields, Resolved
<1>8. Called'
  BY <1>2, CalledKept DEF Inv, Resolved
<1>9. Turned'
  <2>1. \A r \in Promises : \A i \in Keys(handlers'[r], Turns) : i \in DOMAIN args /\ args[i] = r /\ Reached(i)'
    <3>1. \A r \in Promises : Keys(handlers'[r], Turns) \subseteq Keys(handlers[r], Turns)
      BY <1>3, <1>4
    <3>2. \A i : Reached(i)' <=> Reached(i)
      BY <1>2, ReachedKept
    <3>3. QED
      BY <3>1, <3>2 DEF Inv, Turned
  <2>2. \A r \in Promises : \A g \in Members(handlers'[r]) :
          (g.type = "all" => which = "all") /\ (g.type = "settled" => which = "allSettled")
    BY <1>4 DEF Inv, Turned
  <2>3. QED
    BY <1>5, <2>1, <2>2 DEF Turned
<1>10. Drained'
  <2>1. ASSUME NEW r \in Promises, state'[r] # "Pending", handlers'[r] # <<>>
        PROVE  \E f \in Members(stack') : f.type = "drain" /\ f.of = r
    <3>1. CASE r = Of
      BY <1>3, <3>1 DEF Resolved, Of
    <3>2. CASE r # Of /\ state[r] # "Pending"
      BY <1>4, <2>1, <3>2 DEF Inv, Drained, Resolved
    <3>3. CASE r # Of /\ state[r] = "Pending"
      BY <2>1, <3>3 DEF Resolved, Promises
    <3>4. QED
      BY <3>1, <3>2, <3>3
  <2>2. (\A r \in Inputs : state[r] = "Rejected" => error[r] = r)'
    BY DEF Inv, Drained, Resolved
  <2>3. ASSUME NEW i \in Fired' PROVE state'[args[i]] # "Pending"
    <3>1. i \in DOMAIN args /\ state[args[i]] # "Pending"
      BY <1>3, <2>3 DEF Inv, Drained, Fired
    <3>2. args[i] \in Inputs
      BY <3>1, ArgumentType DEF Inv
    <3>3. QED
      BY <3>1, <3>2 DEF Resolved
  <2>4. QED
    BY <2>1, <2>2, <2>3 DEF Drained, Resolved
<1>11. Awaited'
  BY <1>1, <1>2, <1>6, AwaitedKept DEF Inv, Resolved
<1>12. QED
  BY <1>7, <1>8, <1>9, <1>10, <1>11 DEF Inv

\* A handler that counts.
LEMMA TurnCounts ==
  ASSUME Inv, OnTop("drain"), handlers[Of] # <<>>,
         First.type \in {"all", "settled"}, handlers' = [handlers EXCEPT ![Of] = Tail(@)],
         UNCHANGED <<which, args, returned, added, await>>,
         First.type = "settled" \/ Top.out.to = "Fulfilled",
         complete' = complete + 1, failures' = failures,
         results' = IF First.type = "all" THEN [results EXCEPT ![First.arg] = args[First.arg]] ELSE results,
         complete' = Len(args) => Settle(All, Fulfilled, stack),
         complete' # Len(args) => UNCHANGED <<state, error, stack>>
  PROVE  Inv'
<1> DEFINE i == First.arg
<1>1. stack \in Seq(Frame) /\ Fulfilled \in Outcomes /\ Fulfilled.to = "Fulfilled"
  BY DEF Inv, Fields, Outcomes, Fulfilled
<1>2. \A f : f.type = "calling" => (f \in Members(stack') <=> f \in Members(stack))
  <2>1. CASE complete' = Len(args)
    <3>1. stack' = Append(stack, Drain(All, Fulfilled)) /\ All \in Promises
      BY <2>1 DEF Settle, Promises
    <3>2. QED
      BY <1>1, <3>1, FrameKinds, Pushed
  <2>2. CASE complete' # Len(args)
    BY <2>2
  <2>3. QED
    BY <2>1, <2>2
<1>3. /\ Of \in Inputs /\ Top.out = Outcome(Of) /\ i \in DOMAIN args /\ args[i] = Of
      /\ i \notin Fired /\ Fired' = Fired \cup {i}
      /\ First.type = "all" => which = "all"
      /\ First.type = "settled" => which = "allSettled"
  <2>1. which' = which /\ args' = args
    OBVIOUS
  <2>2. QED
    BY <1>2, <2>1, TurnFacts
<1>4. which = "allSettled" \/ state[Of] = "Fulfilled"
  BY <1>3 DEF Outcome, Rejected
<1>5. DOMAIN args = 1 .. Len(args) /\ Len(args) \in Nat /\ args # <<>>
  BY <1>3, LenProperties, EmptySeq DEF Inv, Fields
<1>6. \A j \in DOMAIN args : args[j] \in Inputs
  BY ArgumentType DEF Inv
<1>7. i \notin Counted /\ Counted \subseteq DOMAIN args /\ Fired \subseteq DOMAIN args
  BY <1>3 DEF Counted, Fired
<1>8. state[All] # "Fulfilled"
  BY <1>3, <1>7 DEF Inv, Combined
<1> DEFINE C == Counted \cup {i}
<1>9. IsFiniteSet(DOMAIN args) /\ Cardinality(DOMAIN args) = Len(args)
  BY <1>5, UpTo, Zenon
<1>10. IsFiniteSet(Counted) /\ Cardinality(C) = complete + 1
  BY <1>7, <1>9, FS_Subset, FS_AddElement DEF Inv, Combined
<1>11. complete + 1 = Len(args) <=> C = DOMAIN args
  <2>1. C \subseteq DOMAIN args
    BY <1>3, <1>7
  <2>2. Cardinality(C) = Cardinality(DOMAIN args) <=> C = DOMAIN args
    BY <1>9, <2>1, FS_Subset
  <2>3. QED
    BY <1>9, <1>10, <2>2
<1>12. complete' = Len(args) => state[All] # "Rejected"
  <2>1. ASSUME complete' = Len(args), state[All] = "Rejected" PROVE FALSE
    <3>1. PICK j \in Fired : which = "all" /\ state[args[j]] = "Rejected"
      BY <2>1 DEF Inv, Combined
    <3>2. j \in C
      BY <1>7, <1>11, <2>1, <3>1
    <3>3. j \notin Counted /\ j # i
      BY <1>3, <3>1 DEF Counted
    <3>4. QED
      BY <3>2, <3>3
  <2>2. QED
    BY <2>1
<1>13. All \in Promises /\ state[All] \in {"Pending", "Fulfilled", "Rejected"}
  BY DEF Inv, Fields, Promises
<1>14. /\ Resolved /\ state'[All] = IF complete' = Len(args) THEN "Fulfilled" ELSE state[All]
       /\ complete' # Len(args) => error' = error
  <2>1. CASE complete' = Len(args)
    BY <1>1, <1>8, <1>12, <1>13, <2>1, ResolvesAll
  <2>2. CASE complete' # Len(args)
    BY <2>2, ResolvesNothing
  <2>3. QED
    BY <2>1, <2>2
<1>15. \A j \in Fired' : j \in DOMAIN args /\ state'[args[j]] = state[args[j]] /\ error'[args[j]] = error[args[j]]
  BY <1>3, <1>6, <1>7, <1>14 DEF Resolved
<1>16. Counted' = C
  <2>1. Counted' = {j \in Fired' : which = "allSettled" \/ state[args[j]] = "Fulfilled"}
    BY <1>15 DEF Counted
  <2>2. QED
    BY <1>3, <1>4, <2>1 DEF Counted
<1>17. results' \in [DOMAIN args -> Inputs \cup {Nil}]
  BY <1>3 DEF Inv, Fields
<1>18. Combined'
  <2>1. (complete = Cardinality(Counted))'
    BY <1>10, <1>16
  <2>2. (which = "all" => \A j \in Counted : results[j] = args[j])'
    <3>1. ASSUME which = "all", NEW j \in C PROVE results'[j] = args[j]
      <4>1. First.type = "all" /\ results' = [results EXCEPT ![i] = args[i]]
        BY <1>3, <3>1
      <4>2. results'[i] = args[i] /\ \A k \in DOMAIN args \ {i} : results'[k] = results[k]
        BY <1>3, <4>1 DEF Inv, Fields
      <4>3. j \in Counted => results[j] = args[j]
        BY <3>1 DEF Inv, Combined
      <4>4. QED
        BY <1>7, <4>2, <4>3
    <3>2. QED
      BY <1>16, <3>1
  <2>3. (state[All] = "Fulfilled" <=> which # "none" /\ Counted = DOMAIN args /\ (args # <<>> \/ returned))'
    BY <1>3, <1>5, <1>8, <1>11, <1>14, <1>16
  <2>4. (state[All] = "Rejected" <=> which = "all" /\ \E j \in Fired : state[args[j]] = "Rejected")'
    <3>1. state'[All] = "Rejected" <=> state[All] = "Rejected"
      BY <1>12, <1>14
    <3>2. which = "all" => ((\E j \in Fired' : state'[args[j]] = "Rejected") <=> \E j \in Fired : state[args[j]] = "Rejected")
      BY <1>3, <1>4, <1>15
    <3>3. QED
      BY <3>1, <3>2 DEF Inv, Combined
  <2>5. (state[All] = "Rejected" =>
          \E j \in Fired : state[args[j]] = "Rejected" /\ error[All] = Thrown(error[args[j]]))'
    <3>1. ASSUME state'[All] = "Rejected"
          PROVE  \E j \in Fired' : state'[args[j]] = "Rejected" /\ error'[All] = Thrown(error'[args[j]])
      <4>1. state[All] = "Rejected" /\ error' = error
        BY <1>14, <3>1
      <4>2. PICK j \in Fired : state[args[j]] = "Rejected" /\ error[All] = Thrown(error[args[j]])
        BY <4>1 DEF Inv, Combined
      <4>3. QED
        BY <1>3, <1>15, <4>1, <4>2
    <3>2. QED
      BY <3>1 DEF Thrown
  <2>6. Reported'
    <3>1. Failing' = Failing
      BY <1>3, <1>4, <1>15 DEF Failing
    <3>2. \A j \in Failing : j \in Fired'
      BY <1>3 DEF Failing
    <3>3. failures # <<>> => error'[All] = error[All]
      <4>1. ASSUME failures # <<>> PROVE complete' # Len(args)
        <5>1. PICK j \in Failing : TRUE
          BY <4>1, LastFailure DEF Inv, Combined
        <5>2. state[All] = "Rejected"
          BY <5>1 DEF Failing, Inv, Combined
        <5>3. QED
          BY <1>12, <5>2
      <4>2. QED
        BY <1>14, <4>1
    <3>4. QED
      BY <1>15, <3>1, <3>2, <3>3, ReportedKept DEF Inv, Combined
  <2>7. QED
    BY <2>1, <2>2, <2>3, <2>4, <2>5, <2>6 DEF Combined
<1>19. failures' \in Seq(Nat)
  BY DEF Inv, Fields
<1>20. QED
  BY <1>14, <1>17, <1>18, <1>19, TurnTaken

\* A handler of all that rejects.
LEMMA TurnRejects ==
  ASSUME Inv, OnTop("drain"), handlers[Of] # <<>>,
         First.type = "all", handlers' = [handlers EXCEPT ![Of] = Tail(@)],
         UNCHANGED <<which, args, returned, added, await>>,
         Top.out.to = "Rejected", AllRejected(First.arg, Top.out.error)
  PROVE  Inv'
<1> DEFINE i == First.arg
           out == Rejected(Thrown(Top.out.error))
<1>1. Settle(All, out, stack) /\ UNCHANGED <<complete, results>> /\ All \in Promises
      /\ failures' = Append(failures, i)
      /\ out.to = "Rejected" /\ out.error = Thrown(Top.out.error)
  BY DEF AllRejected, Promises, Rejected
<1>2. stack # <<>> /\ Top \in Members(stack) /\ Top.type = "drain" /\ stack \in Seq(Frame)
  BY Popped DEF OnTop, Inv, Fields
<1>3. Top.out \in Outcomes
  BY <1>2, LoopsSettled DEF Inv
<1>4. out \in Outcomes
  <2>1. Top.out.error \in Inputs \cup {CastError}
    BY <1>3 DEF Outcomes, Fulfilled, Rejected
  <2>2. QED
    BY <2>1 DEF Outcomes, Thrown
<1>5. \A f : f.type = "calling" => (f \in Members(stack') <=> f \in Members(stack))
  <2>1. stack' = Append(stack, Drain(All, out))
    BY <1>1 DEF Settle
  <2>2. QED
    BY <1>1, <1>2, <1>4, <2>1, FrameKinds, Pushed
<1>6. /\ Of \in Inputs /\ Top.out = Outcome(Of) /\ i \in DOMAIN args /\ args[i] = Of
      /\ i \notin Fired /\ Fired' = Fired \cup {i} /\ which = "all"
  <2>1. which' = which /\ args' = args /\ First.type \in {"all", "settled"}
    OBVIOUS
  <2>2. QED
    BY <1>5, <2>1, TurnFacts
<1>7. state[Of] = "Rejected" /\ out.error = Thrown(error[Of])
  BY <1>1, <1>6 DEF Outcome, Rejected
<1>8. state[All] \in {"Pending", "Rejected"}
  <2>1. i \notin Counted
    BY <1>6 DEF Counted
  <2>2. state[All] # "Fulfilled"
    BY <1>6, <2>1 DEF Inv, Combined
  <2>3. QED
    BY <1>1, <2>2 DEF Inv, Fields
<1>9. Resolved /\ state'[All] = "Rejected" /\ error'[All] = Thrown(error[Of])
  BY <1>1, <1>4, <1>7, <1>8, ResolvesAll
<1>10. \A j \in Fired' : j \in DOMAIN args /\ state'[args[j]] = state[args[j]] /\ error'[args[j]] = error[args[j]]
  <2>1. \A j \in DOMAIN args : args[j] \in Inputs
    BY ArgumentType DEF Inv
  <2>2. QED
    BY <1>6, <1>9, <2>1 DEF Resolved, Fired
<1>11. Counted' = Counted
  <2>1. Counted' = {j \in Fired' : which = "allSettled" \/ state[args[j]] = "Fulfilled"}
    BY <1>10 DEF Counted
  <2>2. QED
    BY <1>6, <1>7, <2>1 DEF Counted
<1>12. Combined'
  <2>1. (complete = Cardinality(Counted))'
    BY <1>1, <1>11 DEF Inv, Combined
  <2>2. (which = "all" => \A j \in Counted : results[j] = args[j])'
    BY <1>1, <1>11 DEF Inv, Combined
  <2>3. (state[All] = "Fulfilled" <=> which # "none" /\ Counted = DOMAIN args /\ (args # <<>> \/ returned))'
    BY <1>6, <1>9, <1>11 DEF Counted
  <2>4. (state[All] = "Rejected" <=> which = "all" /\ \E j \in Fired : state[args[j]] = "Rejected")'
    BY <1>6, <1>7, <1>9, <1>10
  <2>5. (state[All] = "Rejected" =>
          \E j \in Fired : state[args[j]] = "Rejected" /\ error[All] = Thrown(error[args[j]]))'
    <3>1. i \in Fired' /\ state'[args[i]] = "Rejected" /\ error'[All] = Thrown(error'[args[i]])
      BY <1>6, <1>7, <1>9, <1>10
    <3>2. QED
      BY <3>1 DEF Thrown
  <2>6. Reported'
    <3>1. Failing' = Failing \cup {i}
      BY <1>6, <1>7, <1>10 DEF Failing
    <3>2. failures \in Seq(Nat) /\ i \in Nat
      BY <1>6, LenProperties DEF Inv, Fields
    <3>3. /\ Members(failures') = Members(failures) \cup {i}
          /\ Len(failures) \in Nat /\ DOMAIN failures = 1 .. Len(failures)
          /\ DOMAIN failures' = 1 .. Len(failures) + 1 /\ Len(failures') = Len(failures) + 1
          /\ \A k \in DOMAIN failures : failures'[k] = failures[k]
          /\ failures'[Len(failures) + 1] = i
      <4> HIDE DEF i
      <4>1. Members(failures') = Members(failures) \cup {i}
        BY <1>1, <3>2, AppendMembers
      <4>2. /\ Len(failures) \in Nat /\ DOMAIN failures = 1 .. Len(failures)
            /\ DOMAIN failures' = 1 .. Len(failures) + 1
            /\ \A k \in DOMAIN failures : failures'[k] = failures[k]
            /\ failures'[Len(failures) + 1] = i
        BY <1>1, <3>2, AppendPlaces
      <4>3. Len(failures') = Len(failures) + 1
        BY <1>1, <3>2, AppendProperties
      <4>4. QED
        BY <4>1, <4>2, <4>3
    <3>4. Members(failures') = Failing'
      BY <3>1, <3>3 DEF Inv, Combined, Reported
    <3>5. \A j, k \in DOMAIN failures' : failures'[j] = failures'[k] => j = k
      <4>1. \A k \in DOMAIN failures : failures[k] # i
        BY <1>6 DEF Inv, Combined, Reported, Members, Failing
      <4>2. QED
        BY <3>3, <4>1 DEF Inv, Combined, Reported
    <3>6. error'[All] = Thrown(error'[args'[failures'[Len(failures')]]])
      <4>1. error'[args[i]] = error[Of]
        BY <1>6, <1>10
      <4>2. failures'[Len(failures')] = i
        BY <3>3
      <4>3. QED
        BY <1>9, <4>1, <4>2
    <3>7. QED
      BY <3>4, <3>5, <3>6 DEF Reported, Thrown
  <2>7. QED
    BY <2>1, <2>2, <2>3, <2>4, <2>5, <2>6 DEF Combined
<1>13. failures' \in Seq(Nat)
  BY <1>1, <1>6, LenProperties, AppendProperties DEF Inv, Fields
<1>14. QED
  BY <1>1, <1>9, <1>12, <1>13, TurnTaken DEF Inv, Fields

\* A handler of the application is called.
LEMMA AppCalled ==
  ASSUME Inv, OnTop("drain"), handlers[Of] # <<>>, First.type = "app",
         handlers' = [handlers EXCEPT ![Of] = Tail(@)], stack' = Append(stack, Body),
         UNCHANGED <<state, error, which, args, returned, complete, results, failures, added, await>>
  PROVE  Inv'
<1>1. UNCHANGED <<state, error, which, args, returned, complete, results, failures, added, awaits, done, helper, answer>>
  BY DEF await
<1>2. stack # <<>> /\ Top \in Members(stack) /\ Top.type = "drain" /\ stack \in Seq(Frame)
      /\ Once(stack, Loops) /\ Once(stack, Waits)
  BY Popped DEF OnTop, Inv, Fields, Called, Awaited
<1>3. Of \in Promises
  BY <1>2, LoopsSettled DEF Inv, Of
<1>4. /\ handlers' \in [Promises -> Seq(Handler)] /\ First \in Handler
      /\ Members(handlers[Of]) = Members(handlers'[Of]) \cup {First}
      /\ \A r \in Promises \ {Of} : handlers'[r] = handlers[r]
  BY <1>3, Removed DEF Inv, First
<1>5. First \notin DOMAIN Turns /\ First \notin DOMAIN Notes
  BY <1>4, Kinds
<1>6. Keys(handlers'[Of], Turns) = Keys(handlers[Of], Turns) /\ Once(handlers'[Of], Turns)
  <2>1. Once(handlers[Of], Turns) /\ Fields
    BY <1>3 DEF Inv, Turned
  <2>2. /\ Keys(handlers[Of], Turns) = IF First \in DOMAIN Turns THEN Keys(handlers'[Of], Turns) \cup {Turns[First]}
                                       ELSE Keys(handlers'[Of], Turns)
        /\ Once(handlers'[Of], Turns)
    BY <1>3, <2>1, Removed DEF First
  <2>3. QED
    BY <1>5, <2>2
<1>7. Keys(handlers'[Of], Notes) = Keys(handlers[Of], Notes) /\ Once(handlers'[Of], Notes)
  <2>1. Once(handlers[Of], Notes) /\ Fields
    BY <1>3 DEF Inv, Awaited
  <2>2. /\ Keys(handlers[Of], Notes) = IF First \in DOMAIN Notes THEN Keys(handlers'[Of], Notes) \cup {Notes[First]}
                                       ELSE Keys(handlers'[Of], Notes)
        /\ Once(handlers'[Of], Notes)
    BY <1>3, <2>1, Removed DEF First
  <2>3. QED
    BY <1>5, <2>2
<1>8. \A r \in Promises : /\ Keys(handlers'[r], Turns) = Keys(handlers[r], Turns) /\ Once(handlers'[r], Turns)
                          /\ Keys(handlers'[r], Notes) = Keys(handlers[r], Notes) /\ Once(handlers'[r], Notes)
                          /\ Members(handlers'[r]) \subseteq Members(handlers[r])
  BY <1>4, <1>6, <1>7 DEF Inv, Turned, Awaited
<1>9. /\ stack' \in Seq(Frame) /\ Once(stack', Loops) /\ Once(stack', Waits)
      /\ Body.type = "body" /\ Members(stack') = Members(stack) \cup {Body}
  BY <1>2, FrameKinds, Pushed
<1>10. Fields'
  BY <1>1, <1>4, <1>9 DEF Inv, Fields
<1>11. Called'
  BY <1>1, <1>9, CalledKept DEF Inv
<1>12. Turned'
  BY <1>1, <1>8, <1>9, TurnedKept DEF Inv
<1>13. Fired' = Fired
  BY <1>1, <1>8, <1>9, FiredKept DEF Inv
<1>14. Drained'
  <2>1. \A r \in Promises : state[r] # "Pending" /\ handlers'[r] # <<>> =>
          \E f \in Members(stack') : f.type = "drain" /\ f.of = r
    BY <1>2, <1>4, <1>9 DEF Inv, Drained, Of
  <2>2. QED
    BY <1>1, <1>9, <1>13, <2>1, DrainedKept DEF Inv
<1>15. Combined'
  BY <1>1, <1>13, CombinedKept DEF Inv
<1>16. Awaited'
  BY <1>1, <1>8, <1>9, AwaitedKept DEF Inv
<1>17. QED
  BY <1>10, <1>11, <1>12, <1>14, <1>15, <1>16 DEF Inv

\* A handler of an await notifies it.
LEMMA AwaitNotified ==
  ASSUME Inv, OnTop("drain"), handlers[Of] # <<>>, First.type = "await",
         handlers' = [handlers EXCEPT ![Of] = Tail(@)], Notify(First.call, Top.out),
         UNCHANGED <<state, error, which, args, returned, complete, results, failures, added, stack, awaits, answer>>
  PROVE  Inv'
<1> DEFINE n == First.call
           o == IF Top.out.to = "Rejected" THEN Rejected(Thrown(Top.out.error)) ELSE Top.out
<1>1. stack # <<>> /\ Top \in Members(stack) /\ Top.type = "drain" /\ stack \in Seq(Frame)
      /\ Once(stack, Loops) /\ Once(stack, Waits)
  BY Popped DEF OnTop, Inv, Fields, Called, Awaited
<1>2. Of \in Promises /\ Top.out \in Outcomes /\ Top.out.to = state[Of]
  BY <1>1, LoopsSettled DEF Inv, Of
<1>3. /\ handlers' \in [Promises -> Seq(Handler)] /\ First \in Handler
      /\ Members(handlers[Of]) = Members(handlers'[Of]) \cup {First}
      /\ \A r \in Promises \ {Of} : handlers'[r] = handlers[r]
  BY <1>2, Removed DEF Inv, First
<1>4. First \notin DOMAIN Turns /\ First \in DOMAIN Notes /\ Notes[First] = n /\ n \in Await
  BY <1>3, Kinds
<1>5. Keys(handlers'[Of], Turns) = Keys(handlers[Of], Turns) /\ Once(handlers'[Of], Turns)
  <2>1. Once(handlers[Of], Turns) /\ Fields
    BY <1>2 DEF Inv, Turned
  <2>2. /\ Keys(handlers[Of], Turns) = IF First \in DOMAIN Turns THEN Keys(handlers'[Of], Turns) \cup {Turns[First]}
                                       ELSE Keys(handlers'[Of], Turns)
        /\ Once(handlers'[Of], Turns)
    BY <1>2, <2>1, Removed DEF First
  <2>3. QED
    BY <1>4, <2>2
<1>6. Keys(handlers[Of], Notes) = Keys(handlers'[Of], Notes) \cup {n} /\ Once(handlers'[Of], Notes)
      /\ n \notin Keys(handlers'[Of], Notes)
  <2>1. Once(handlers[Of], Notes) /\ Fields
    BY <1>2 DEF Inv, Awaited
  <2>2. /\ Keys(handlers[Of], Notes) = IF First \in DOMAIN Notes THEN Keys(handlers'[Of], Notes) \cup {Notes[First]}
                                       ELSE Keys(handlers'[Of], Notes)
        /\ Once(handlers'[Of], Notes)
        /\ First \in DOMAIN Notes => Notes[First] \notin Keys(handlers'[Of], Notes)
    BY <1>2, <2>1, Removed DEF First
  <2>3. QED
    BY <1>4, <2>2
<1>7. \A r \in Promises : /\ Keys(handlers'[r], Turns) = Keys(handlers[r], Turns) /\ Once(handlers'[r], Turns)
                          /\ Members(handlers'[r]) \subseteq Members(handlers[r])
  BY <1>3, <1>5 DEF Inv, Turned
<1>8. \A r \in Promises : Keys(handlers'[r], Notes) \subseteq Keys(handlers[r], Notes) /\ Once(handlers'[r], Notes)
  BY <1>3, <1>6 DEF Inv, Awaited
<1>9. o \in Outcomes /\ o.to = state[Of] /\ o # Pending
  <2>1. CASE Top.out.to = "Rejected"
    <3>1. Top.out.error \in Inputs \cup {CastError}
      BY <1>2, <2>1 DEF Outcomes, Fulfilled, Rejected
    <3>2. Thrown(Top.out.error) \in Inputs \cup {CastError}
      BY <3>1 DEF Thrown
    <3>3. QED
      BY <1>2, <2>1, <3>2 DEF Outcomes, Rejected, Pending
  <2>2. CASE Top.out.to # "Rejected"
    <3>1. Top.out = Fulfilled
      BY <1>2, <2>2 DEF Outcomes, Rejected
    <3>2. QED
      BY <1>2, <3>1 DEF Fulfilled, Pending
  <2>3. QED
    BY <2>1, <2>2
<1>10. done' = [done EXCEPT ![n] = o] /\ helper' \in [Await -> {"none", "started", "waits", "ended"}]
  BY DEF Notify, Inv, Fields
<1> HIDE DEF n, o
<1>11. done' \in [Await -> Outcomes \cup {Pending}] /\ \A m \in Await : done'[m] = IF m = n THEN o ELSE done[m]
  BY <1>4, <1>9, <1>10 DEF Inv, Fields
<1>12. Fields'
  BY <1>3, <1>10, <1>11 DEF Inv, Fields
<1>13. Called' /\ \A i : Reached(i)' <=> Reached(i)
  BY DEF Inv, Called, Reached
<1>14. Turned'
  BY <1>7, TurnedKept DEF Inv
<1>15. Fired' = Fired
  BY <1>7, FiredKept DEF Inv
<1>16. Drained'
  <2>1. \A r \in Promises : state[r] # "Pending" /\ handlers'[r] # <<>> =>
          \E f \in Members(stack') : f.type = "drain" /\ f.of = r
    BY <1>1, <1>3 DEF Inv, Drained, Of
  <2>2. QED
    BY <1>15, <2>1, DrainedKept DEF Inv
<1>17. Combined'
  BY <1>15, CombinedKept DEF Inv
<1>18. Awaited'
  <2>1. PICK w \in Members(stack) : w.type = "awaiting" /\ w.call = n /\ w.of = Of
    BY <1>2, <1>6 DEF Inv, Awaited
  <2>2. \A f \in Members(stack) : f.type = "awaiting" =>
          f.call \in Await /\ f \in DOMAIN Waits /\ Waits[f] = f.call /\ (f.call = n => f = w)
    <3>1. \A f \in Members(stack) : f.type = "awaiting" => f.call \in Await /\ f \in DOMAIN Waits /\ Waits[f] = f.call
      BY <1>1, MembersType, FrameKinds
    <3>2. ASSUME NEW f \in Members(stack), f.type = "awaiting", f.call = n PROVE f = w
      <4>1. PICK i \in DOMAIN stack, j \in DOMAIN stack : stack[i] = f /\ stack[j] = w
        BY <2>1 DEF Members
      <4>2. f \in DOMAIN Waits /\ w \in DOMAIN Waits /\ Waits[f] = Waits[w]
        BY <2>1, <3>1, <3>2
      <4>3. QED
        BY <1>1, <4>1, <4>2 DEF Once
    <3>3. QED
      BY <3>1, <3>2
  <2>3. answer[n] = Pending /\ ~(awaits < n)
    <3>1. n <= awaits /\ answer[n] = Pending
      BY <2>1 DEF Inv, Awaited
    <3>2. n \in Nat /\ awaits \in Nat
      BY <1>4, CombinatorsAssumption DEF Inv, Fields, Await
    <3>3. QED
      BY <3>1, <3>2
  <2>4. ASSUME NEW r \in Promises, NEW m \in Keys(handlers'[r], Notes)
        PROVE  done'[m] = Pending /\ \E f \in Members(stack) : f.type = "awaiting" /\ f.call = m /\ f.of = r
    <3>1. m \in Keys(handlers[r], Notes)
      BY <1>8
    <3>2. done[m] = Pending
      BY <3>1 DEF Inv, Awaited
    <3>3. PICK f \in Members(stack) : f.type = "awaiting" /\ f.call = m /\ f.of = r
      BY <3>1 DEF Inv, Awaited
    <3>4. m \in Await
      BY <2>2, <3>3
    <3>5. m # n
      BY <1>6, <2>1, <2>2, <2>4, <3>3
    <3>6. QED
      BY <1>11, <3>2, <3>3, <3>4, <3>5
  <2>5. \A f \in Members(stack) : f.type = "awaiting" =>
          f.call <= awaits /\ answer[f.call] = Pending /\ (done'[f.call] # Pending => done'[f.call].to = state[f.of])
    BY <1>9, <1>11, <2>1, <2>2 DEF Inv, Awaited
  <2>6. \A m \in Await : answer[m] # Pending => answer[m] = done'[m]
    BY <1>11, <2>3 DEF Inv, Awaited
  <2>7. \A m \in Await : awaits < m => done'[m] = Pending
    BY <1>11, <2>3 DEF Inv, Awaited
  <2>8. stack' = stack /\ awaits' = awaits /\ answer' = answer /\ state' = state
    OBVIOUS
  <2>9. \A f \in Members(stack) : f.type = "awaiting" =>
          f.call <= awaits' /\ answer'[f.call] = Pending /\ (done'[f.call] # Pending => done'[f.call].to = state'[f.of])
    BY <2>5, <2>8
  <2>10. (\A m \in Await : answer'[m] # Pending => answer'[m] = done'[m])
         /\ \A m \in Await : awaits' < m => done'[m] = Pending
    BY <2>6, <2>7, <2>8
  <2>11. \A r \in Promises : \A m \in Keys(handlers'[r], Notes) :
           done'[m] = Pending /\ \E f \in Members(stack') : f.type = "awaiting" /\ f.call = m /\ f.of = r
    BY <2>4, <2>8
  <2>12. Once(stack', Waits) /\ (\A r \in Promises : Once(handlers'[r], Notes))
    BY <1>1, <1>8, <2>8
  <2>13. QED
    BY <2>8, <2>9, <2>10, <2>11, <2>12 DEF Awaited
<1>19. QED
  BY <1>12, <1>13, <1>14, <1>16, <1>17, <1>18 DEF Inv

LEMMA DrainStepKeeps == ASSUME Inv, DrainStep PROVE Inv'
<1>1. /\ OnTop("drain") /\ handlers[Of] # <<>> /\ handlers' = [handlers EXCEPT ![Of] = Tail(@)]
      /\ UNCHANGED <<which, args, returned, added>>
      /\ \/ First.type = "all" /\ Top.out.to = "Fulfilled" /\ AllFulfilled(First.arg) /\ UNCHANGED <<failures, await>>
         \/ First.type = "all" /\ Top.out.to = "Rejected" /\ AllRejected(First.arg, Top.out.error) /\ UNCHANGED await
         \/ First.type = "settled" /\ Settled /\ UNCHANGED <<failures, await>>
         \/ First.type = "await" /\ Notify(First.call, Top.out)
            /\ UNCHANGED <<state, error, complete, results, failures, stack, awaits, answer>>
         \/ First.type = "app" /\ stack' = Append(stack, Body)
            /\ UNCHANGED <<state, error, complete, results, failures, await>>
  BY DEF DrainStep, Of, First
<1>2. CASE First.type = "all" /\ Top.out.to = "Fulfilled" /\ AllFulfilled(First.arg) /\ UNCHANGED <<failures, await>>
  <2>1. /\ complete' = complete + 1 /\ results' = [results EXCEPT ![First.arg] = args[First.arg]]
        /\ complete' = Len(args) => Settle(All, Fulfilled, stack)
        /\ complete' # Len(args) => UNCHANGED <<state, error, stack>>
    BY <1>2 DEF AllFulfilled
  <2>2. QED
    BY <1>1, <1>2, <2>1, TurnCounts
<1>3. CASE First.type = "all" /\ Top.out.to = "Rejected" /\ AllRejected(First.arg, Top.out.error) /\ UNCHANGED await
  BY <1>1, <1>3, TurnRejects
<1>4. CASE First.type = "settled" /\ Settled /\ UNCHANGED <<failures, await>>
  <2>1. /\ complete' = complete + 1 /\ results' = results
        /\ complete' = Len(args) => Settle(All, Fulfilled, stack)
        /\ complete' # Len(args) => UNCHANGED <<state, error, stack>>
    BY <1>4 DEF Settled
  <2>2. QED
    BY <1>1, <1>4, <2>1, TurnCounts
<1>5. CASE First.type = "await" /\ Notify(First.call, Top.out)
           /\ UNCHANGED <<state, error, complete, results, failures, stack, awaits, answer>>
  BY <1>1, <1>5, AwaitNotified
<1>6. CASE First.type = "app" /\ stack' = Append(stack, Body)
           /\ UNCHANGED <<state, error, complete, results, failures, await>>
  BY <1>1, <1>6, AppCalled
<1>7. QED
  BY <1>1, <1>2, <1>3, <1>4, <1>5, <1>6

-----------------------------------------------------------------------------
(* The theorems.                                                            *)

LEMMA NextKeeps == ASSUME Inv, [Next]_vars PROVE Inv'
<1>1. CASE Next
  <2>1. ASSUME NEW p \in Inputs, SettleEvent(p, Fulfilled) \/ SettleEvent(p, Rejected(p)) PROVE Inv'
    BY <2>1, SettleEventKeeps
  <2>2. ASSUME NEW p \in Promises, AddAppHandler(p) \/ CallAwait(p) PROVE Inv'
    BY <2>2, AddAppHandlerKeeps, CallAwaitKeeps
  <2>3. ASSUME NEW name \in {"all", "allSettled"}, NEW ps \in Arguments, CallCombinator(name, ps) PROVE Inv'
    BY <2>3, CallCombinatorKeeps
  <2>4. ASSUME Edt PROVE Inv'
    BY <2>4, CallStepKeeps, CallReturnsKeeps, DrainStepKeeps, DrainEndKeeps, AwaitLoopKeeps, ReturnKeeps DEF Edt
  <2>5. QED
    BY <1>1, <2>1, <2>2, <2>3, <2>4, AppEventKeeps, HelperKeeps DEF Next
<1>2. CASE UNCHANGED vars
  <2>1. UNCHANGED <<state, error, handlers, which, args, returned, complete, results, failures, added, awaits,
                    done, helper, answer, stack>>
    BY <1>2 DEF vars, promise, combine, await
  <2>2. Fields' /\ Called' /\ Fired' = Fired
    BY <2>1 DEF Inv, Fields, Called, Fired, Reached
  <2>3. Turned' /\ Drained' /\ Awaited'
    BY <2>1, <2>2 DEF Inv, Turned, Reached, Drained, Outcome, Awaited
  <2>4. Combined'
    BY <2>1, <2>2, CombinedKept DEF Inv
  <2>5. QED
    BY <2>2, <2>3, <2>4 DEF Inv
<1>3. QED
  BY <1>1, <1>2

LEMMA AlwaysInv == Spec => []Inv
<1>1. Init => Inv
  BY InitInv
<1>2. Inv /\ [Next]_vars => Inv'
  BY NextKeeps
<1>3. QED
  BY <1>1, <1>2, PTL DEF Spec

LEMMA Forms ==
  /\ \A h \in Handler : /\ h.type = "all" => h = AllHandler(h.arg)
                        /\ h.type = "settled" => h = SettledHandler(h.arg)
                        /\ h.type = "await" => h = AwaitHandler(h.call)
                        /\ h.type = "app" => h = AppHandler
  /\ \A f \in Frame : /\ f.type = "drain" => f = Drain(f.of, f.out)
                      /\ f.type = "body" => f = Body
                      /\ f.type = "calling" => f = Calling(f.arg)
                      /\ f.type = "awaiting" => f = Awaiting(f.call, f.of)
BY DEF Handler, Frame, AllHandler, SettledHandler, AwaitHandler, AppHandler, Drain, Body, Calling, Awaiting

LEMMA InvTypeOK == Inv => TypeOK
<1> SUFFICES ASSUME Inv PROVE TypeOK
  OBVIOUS
<1>1. ASSUME NEW p \in Promises, NEW i \in DOMAIN handlers[p]
      PROVE  handlers[p][i] \in {AllHandler(k) : k \in DOMAIN args} \cup {SettledHandler(k) : k \in DOMAIN args}
                                \cup {AppHandler} \cup {AwaitHandler(n) : n \in Await}
  <2> DEFINE h == handlers[p][i]
  <2>1. h \in Members(handlers[p]) /\ h \in Handler
    BY HandlerLists DEF Inv, Members
  <2> HIDE DEF h
  <2>2. CASE h.type \in {"all", "settled"}
    <3>1. h.arg \in Keys(handlers[p], Turns)
      BY <2>1, <2>2, Kinds DEF Keys
    <3>2. h.arg \in DOMAIN args
      BY <3>1 DEF Inv, Turned
    <3>3. QED
      BY <2>1, <2>2, <3>2, Forms DEF h
  <2>3. CASE h.type \in {"await", "app"}
    BY <2>1, <2>3, Kinds, Forms DEF h
  <2>4. QED
    BY <2>1, <2>2, <2>3, Kinds
<1>2. complete \in 0 .. Len(args)
  <2>1. DOMAIN args = 1 .. Len(args) /\ Len(args) \in Nat
    BY LenProperties DEF Inv, Fields
  <2>2. IsFiniteSet(DOMAIN args) /\ Cardinality(DOMAIN args) = Len(args)
    BY <2>1, UpTo, Zenon
  <2>3. Counted \subseteq DOMAIN args
    BY DEF Counted, Fired
  <2>4. IsFiniteSet(Counted) /\ Cardinality(Counted) <= Len(args)
    BY <2>2, <2>3, FS_Subset
  <2>5. Cardinality(Counted) \in Nat
    BY <2>4, FS_CardinalityType
  <2>6. QED
    BY <2>1, <2>4, <2>5 DEF Inv, Combined
<1>3. ASSUME NEW i \in DOMAIN stack
      PROVE  stack[i] \in {Drain(p, out) : p \in Promises, out \in Outcomes} \cup {Body}
                          \cup {Calling(k) : k \in 1 .. Len(args) + 1}
                          \cup {Awaiting(n, p) : n \in Await, p \in Promises}
  <2> DEFINE f == stack[i]
  <2>1. f \in Members(stack) /\ f \in Frame
    BY MembersType DEF Inv, Fields, Members
  <2> HIDE DEF f
  <2>2. f.type = "calling" => f.arg \in 1 .. Len(args) + 1
    BY <2>1 DEF Inv, Called
  <2>3. CASE f.type = "drain"
    BY <2>1, <2>3, FrameKinds, Forms DEF f
  <2>4. CASE f.type = "body"
    BY <2>1, <2>4, Forms DEF f
  <2>5. CASE f.type = "calling"
    BY <2>1, <2>2, <2>5, Forms DEF f
  <2>6. CASE f.type = "awaiting"
    BY <2>1, <2>6, FrameKinds, Forms DEF f
  <2>7. QED
    BY <2>1, <2>3, <2>4, <2>5, <2>6, FrameKinds
<1>4. failures \in Seq(DOMAIN args)
  <2>1. failures \in [1 .. Len(failures) -> Nat] /\ Len(failures) \in Nat
    BY LenProperties DEF Inv, Fields
  <2>2. \A k \in 1 .. Len(failures) : failures[k] \in DOMAIN args
    BY <2>1 DEF Inv, Combined, Reported, Members, Failing, Fired
  <2>3. failures \in [1 .. Len(failures) -> DOMAIN args]
    BY <2>1, <2>2
  <2>4. QED
    BY <2>1, <2>3, SeqDef
<1>5. QED
  BY <1>1, <1>2, <1>3, <1>4 DEF Inv, Fields, TypeOK

\* The promises, handlers, counters, awaits and the call stack keep their types
\* (Promise.java:120-417): a handler of all or allSettled always belongs to one of
\* the arguments, and the counter never passes their number.
THEOREM TypeCorrect == Spec => []TypeOK
BY AlwaysInv, InvTypeOK, PTL

LEMMA InvOutcomesAgree == Inv => OutcomesAgree
<1> SUFFICES ASSUME Inv PROVE OutcomesAgree
  OBVIOUS
<1>1. ASSUME stack = <<>>, which # "none"
      PROVE  /\ state[All] = Expected
             /\ which = "all" /\ state[All] = "Fulfilled" => results = args
             /\ which = "all" => {failures[k] : k \in DOMAIN failures}
                                   = {i \in DOMAIN args : state[args[i]] = "Rejected"}
             /\ \A j, k \in DOMAIN failures : failures[j] = failures[k] => j = k
             /\ state[All] = "Rejected" =>
                  error[All] = Thrown(error[args[failures[Len(failures)]]])
  <2>1. Members(stack) = {}
    BY <1>1, EmptyQueue
  <2>2. returned /\ \A i : Reached(i)
    BY <1>1, <2>1 DEF Inv, Called, Reached
  <2>3. \A p \in Promises : state[p] # "Pending" => handlers[p] = <<>>
    BY <2>1 DEF Inv, Drained
  <2>4. \A i \in DOMAIN args : args[i] \in Promises /\ state[args[i]] \in {"Pending", "Fulfilled", "Rejected"}
    BY ArgumentType DEF Inv, Fields
  <2>5. Fired = {i \in DOMAIN args : state[args[i]] # "Pending"}
    <3>1. ASSUME NEW i \in DOMAIN args, state[args[i]] # "Pending" PROVE i \in Fired
      <4>1. Keys(handlers[args[i]], Turns) = {}
        BY <2>3, <2>4, <3>1, NoKeys
      <4>2. QED
        BY <2>2, <4>1 DEF Fired
    <3>2. \A i \in Fired : i \in DOMAIN args /\ state[args[i]] # "Pending"
      BY DEF Fired, Inv, Drained
    <3>3. QED
      BY <3>1, <3>2
  <2>6. Counted = {i \in DOMAIN args : state[args[i]] # "Pending" /\ (which = "allSettled" \/ state[args[i]] = "Fulfilled")}
    BY <2>5 DEF Counted
  <2>7. state[All] = "Fulfilled" <=> Counted = DOMAIN args
    BY <1>1, <2>2 DEF Inv, Combined
  <2>8. state[All] = "Rejected" <=> which = "all" /\ \E i \in DOMAIN args : state[args[i]] = "Rejected"
    BY <2>5 DEF Inv, Combined
  <2>9. state[All] \in {"Pending", "Fulfilled", "Rejected"} /\ which \in {"all", "allSettled"}
    BY <1>1 DEF Inv, Fields, Promises
  <2>10. state[All] = Expected
    <3> DEFINE S == {state[args[i]] : i \in DOMAIN args}
    <3>1. CASE which = "all" /\ "Rejected" \in S
      BY <2>8, <3>1 DEF Expected
    <3>2. CASE ~(which = "all" /\ "Rejected" \in S) /\ "Pending" \in S
      <4>1. PICK i \in DOMAIN args : state[args[i]] = "Pending"
        BY <3>2
      <4>2. i \notin Counted
        BY <2>6, <4>1
      <4>3. state[All] = "Pending"
        BY <2>7, <2>8, <2>9, <3>2, <4>2
      <4>4. QED
        BY <3>2, <4>3 DEF Expected
    <3>3. CASE ~(which = "all" /\ "Rejected" \in S) /\ "Pending" \notin S
      <4>1. \A i \in DOMAIN args : state[args[i]] # "Pending" /\ (which = "all" => state[args[i]] = "Fulfilled")
        BY <2>4, <3>3
      <4>2. Counted = DOMAIN args
        BY <2>6, <2>9, <4>1
      <4>3. QED
        BY <2>7, <3>3, <4>2 DEF Expected
    <3>4. QED
      BY <3>1, <3>2, <3>3
  <2>11. ASSUME which = "all", state[All] = "Fulfilled" PROVE results = args
    <3>1. \A i \in DOMAIN args : results[i] = args[i]
      BY <2>7, <2>11 DEF Inv, Combined
    <3>2. results \in [DOMAIN args -> Inputs \cup {Nil}] /\ args \in [DOMAIN args -> Inputs \cup {Nil}]
      <4>1. args \in [1 .. Len(args) -> Inputs] /\ DOMAIN args = 1 .. Len(args)
        BY LenProperties DEF Inv, Fields
      <4>2. QED
        BY <4>1 DEF Inv, Fields
    <3>3. QED
      BY <3>1, <3>2
  <2>12. Reported /\ Failing = {i \in DOMAIN args : which = "all" /\ state[args[i]] = "Rejected"}
    BY <2>5 DEF Inv, Combined, Failing
  <2>13. state[All] = "Rejected" => failures # <<>>
    BY <2>8, <2>12, EmptyQueue DEF Reported
  <2>14. QED
    BY <2>10, <2>11, <2>12, <2>13 DEF Reported, Members
<1>2. \A i \in DOMAIN stack : stack[i].type = "awaiting" /\ done[stack[i].call] # Pending =>
        done[stack[i].call].to = state[stack[i].of]
  <2>1. \A i \in DOMAIN stack : stack[i] \in Members(stack)
    BY DEF Members
  <2>2. QED
    BY <2>1 DEF Inv, Awaited
<1>3. \A n \in Await : answer[n] # Pending => answer[n] = done[n]
  BY DEF Inv, Awaited
<1>4. QED
  BY <1>1, <1>2, <1>3 DEF OutcomesAgree

\* Between two events the promise of all or allSettled is in the state that its
\* arguments put it in, with each result in the place of its argument; each failed
\* argument of all has been passed on once, and the error is that of the one passed
\* on last; an await returns what its promise has; however handlers, nested event loops and settlements inside
\* the call of all interleave (Promise.java:307-417).
THEOREM CombinedRight == Spec => []OutcomesAgree
BY AlwaysInv, InvOutcomesAgree, PTL
=============================================================================
