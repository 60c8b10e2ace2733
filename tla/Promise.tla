------------------------------ MODULE Promise ------------------------------
(***************************************************************************)
(* Promise.java: promises, their handler lists and the event thread (EDT)   *)
(* on which every settlement and every handler runs.                        *)
(*                                                                          *)
(* Calls between promises are synchronous in the code (settling a promise   *)
(* drains its handlers, which settle their own promises, and so on), so the *)
(* EDT is modelled with its call stack.  A frame is either the drain loop   *)
(* of processThens on one promise or a running function of the application: *)
(* a handler, or the body of an event.  `queue' is the list of runnables    *)
(* that CN.callSerially has posted to the EDT.                              *)
(*                                                                          *)
(* Roots are the promises made by `new Promise(executor)'; their resolvers  *)
(* are held by the code that made them, on the EDT or on another thread.    *)
(* Every other promise is the result of one `then', named by its number.    *)
(***************************************************************************)
EXTENDS Naturals, Sequences

CONSTANTS NRoots,      \* promises 1..NRoots are made by an executor
          NPromises,   \* bound: promises NRoots+1..NPromises are made by then
          Vals,        \* values a promise can be fulfilled with
          Errs,        \* errors a promise can be rejected with
          Checked,     \* the errors that are not RuntimeExceptions
          CastError,   \* the ClassCastException thrown by the default thrower
          Nil,         \* Java's null
          MaxSettles,  \* bound: calls of the resolvers of one root
          MaxQueue     \* bound: length of the queue when a runnable is posted

ASSUME ConstantsAssumption ==
  /\ NRoots \in Nat /\ NPromises \in Nat /\ NRoots <= NPromises
  /\ MaxSettles \in Nat /\ MaxQueue \in Nat
  /\ Checked \subseteq Errs /\ CastError \in Errs \ Checked
  /\ Nil \notin Vals \cup Errs

VARIABLES state,   \* Promise.state
          value,   \* Promise.value
          error,   \* Promise.error
          thens,   \* Promise.then, the list of handlers not yet called
          made,    \* number of promises that exist
          queue,   \* runnables posted with CN.callSerially
          stack,   \* call stack of the EDT, innermost call last
          settles, \* calls made so far on the resolvers of each root
          origin,  \* history: the promise on which a derived promise was made
          called   \* history: derived promises whose handler has been called

vars == <<state, value, error, thens, made, queue, stack, settles, origin, called>>

Root    == 1 .. NRoots
Derived == (NRoots + 1) .. NPromises
Id      == 1 .. NPromises
NoId    == 0

(* What the caller of then passed: both functions, or null for one.  An     *)
(* "adopt" handler is promiseResult.then(child.resolve, child.reject).      *)
UserKind == {"both", "onlyResolve", "onlyReject"}
Kind     == UserKind \cup {"adopt"}
Handler  == [child : Derived, kind : Kind]

Settled == {"Fulfilled", "Rejected"}
State   == {"Pending"} \cup Settled

(* A settlement: the outcome and the object that goes with it.              *)
Outcome == [to : {"Fulfilled"}, obj : Vals] \cup [to : {"Rejected"}, obj : Errs]
Fulfil(v) == [to |-> "Fulfilled", obj |-> v]
Reject(e) == [to |-> "Rejected", obj |-> e]

Drain(p, out) == [kind |-> "drain", id |-> p, out |-> out]
Body(c)       == [kind |-> "body", id |-> c]       \* id = NoId: an event of the application
DrainFrames   == [kind : {"drain"}, id : Id, out : Outcome]
BodyFrames    == [kind : {"body"}, id : Derived \cup {NoId}]
Frames        == DrainFrames \cup BodyFrames

AppTask           == [kind |-> "app"]
SettleTask(p, out) == [kind |-> "settle", id |-> p, out |-> out]
Tasks == [kind : {"app"}] \cup [kind : {"settle"}, id : Root, out : Outcome]

Existing == 1 .. made
Top      == stack[Len(stack)]
Below    == SubSeq(stack, 1, Len(stack) - 1)
InBody   == stack # <<>> /\ Top.kind = "body"
Draining == stack # <<>> /\ Top.kind = "drain"

(* What processThens passes on for a promise that is already settled.       *)
OutcomeOf(p) == IF state[p] = "Fulfilled" THEN Fulfil(value[p]) ELSE Reject(error[p])

(* Variant: the default rejection handler throws the error's missing cause. *)
ThrownCause(e) == IF e \in Checked THEN Nil ELSE e

(* The default rejection handler casts to RuntimeException before throwing. *)
Thrown(e) == IF e \in Checked THEN CastError ELSE e
-----------------------------------------------------------------------------
Init ==
  /\ state = [p \in Id |-> "Pending"]
  /\ value = [p \in Id |-> Nil]
  /\ error = [p \in Id |-> Nil]
  /\ thens = [p \in Id |-> <<>>]
  /\ made = NRoots
  /\ queue = <<>>
  /\ stack = <<>>
  /\ settles = [p \in Root |-> 0]
  /\ origin = [p \in Id |-> NoId]
  /\ called = {}

(* The resolve and reject functions on the EDT: the fields are assigned     *)
(* whatever they held before, then processThens starts above `frames'.      *)
Settle(p, out, frames) ==
  /\ state' = [state EXCEPT ![p] = out.to]
  /\ value' = IF out.to = "Fulfilled" THEN [value EXCEPT ![p] = out.obj] ELSE value
  /\ error' = IF out.to = "Rejected" THEN [error EXCEPT ![p] = out.obj] ELSE error
  /\ stack' = Append(frames, Drain(p, out))

(* The same functions on another thread re-post themselves to the EDT.      *)
PostSettle(p, out) ==
  /\ settles[p] < MaxSettles /\ Len(queue) < MaxQueue
  /\ settles' = [settles EXCEPT ![p] = @ + 1]
  /\ queue' = Append(queue, SettleTask(p, out))
  /\ UNCHANGED <<state, value, error, thens, made, stack, origin, called>>

(* The toolkit posts an event of the application (a button, a callback).    *)
PostApp ==
  /\ Len(queue) < MaxQueue
  /\ queue' = Append(queue, AppTask)
  /\ UNCHANGED <<state, value, error, thens, made, stack, settles, origin, called>>

(* The EDT takes the next runnable.                                         *)
RunTask ==
  /\ stack = <<>> /\ queue # <<>>
  /\ queue' = Tail(queue)
  /\ \/ /\ Head(queue).kind = "app"
        /\ stack' = <<Body(NoId)>>
        /\ UNCHANGED <<state, value, error>>
     \/ /\ Head(queue).kind = "settle"
        /\ Settle(Head(queue).id, Head(queue).out, <<>>)
  /\ UNCHANGED <<thens, made, settles, origin, called>>

(* Application code on the EDT calls a resolver it holds.                   *)
CallResolver(p, out) ==
  /\ InBody /\ settles[p] < MaxSettles
  /\ settles' = [settles EXCEPT ![p] = @ + 1]
  /\ Settle(p, out, stack)
  /\ UNCHANGED <<thens, made, queue, origin, called>>

(* Variant: then leaves a settled promise's new handler in the list.        *)
ThenWithoutDrain(p, kind) ==
  /\ InBody /\ made < NPromises
  /\ made' = made + 1
  /\ thens' = [thens EXCEPT ![p] = Append(@, [child |-> made + 1, kind |-> kind])]
  /\ origin' = [origin EXCEPT ![made + 1] = p]
  /\ UNCHANGED <<state, value, error, queue, stack, settles, called>>

(* Variant: then relies on a loop that is already running on p.             *)
ThenGuardedDrain(p, kind) ==
  /\ InBody /\ made < NPromises
  /\ made' = made + 1
  /\ thens' = [thens EXCEPT ![p] = Append(@, [child |-> made + 1, kind |-> kind])]
  /\ origin' = [origin EXCEPT ![made + 1] = p]
  /\ stack' = IF \/ state[p] = "Pending"
                 \/ \E i \in DOMAIN stack : stack[i].kind = "drain" /\ stack[i].id = p
              THEN stack ELSE Append(stack, Drain(p, OutcomeOf(p)))
  /\ UNCHANGED <<state, value, error, queue, settles, called>>

(* Application code on the EDT calls p.then: the handler is added, and if p *)
(* is already settled processThens runs at once, inside then.               *)
Then(p, kind) ==
  /\ InBody /\ made < NPromises
  /\ made' = made + 1
  /\ thens' = [thens EXCEPT ![p] = Append(@, [child |-> made + 1, kind |-> kind])]
  /\ origin' = [origin EXCEPT ![made + 1] = p]
  /\ stack' = IF state[p] = "Pending" THEN stack ELSE Append(stack, Drain(p, OutcomeOf(p)))
  /\ UNCHANGED <<state, value, error, queue, settles, called>>

(* processThens, the list is empty: return to the caller.                   *)
DrainEnd ==
  /\ Draining /\ thens[Top.id] = <<>>
  /\ stack' = Below
  /\ UNCHANGED <<state, value, error, thens, made, queue, settles, origin, called>>

(* The functions the application gave, as opposed to the two defaults.      *)
HasFunction(h, out) ==
  \/ h.kind = "both"
  \/ h.kind = "onlyResolve" /\ out.to = "Fulfilled"
  \/ h.kind = "onlyReject" /\ out.to = "Rejected"

(* What a handler without a function of the application passes to its      *)
(* promise: an adoption copies, identity copies, the thrower throws.        *)
DefaultOutcome(h, out) ==
  IF h.kind = "adopt" \/ out.to = "Fulfilled" THEN out ELSE Reject(Thrown(out.obj))

(* Variant: the handler stays in the list while it is called.               *)
DrainStepKeepsHandler ==
  /\ Draining /\ thens[Top.id] # <<>>
  /\ LET h == Head(thens[Top.id])
     IN  /\ called' = called \cup {h.child}
         /\ \/ /\ HasFunction(h, Top.out)
               /\ stack' = Append(stack, Body(h.child))
               /\ UNCHANGED <<state, value, error>>
            \/ /\ ~HasFunction(h, Top.out)
               /\ Settle(h.child, DefaultOutcome(h, Top.out), stack)
  /\ UNCHANGED <<thens, made, queue, settles, origin>>

(* Variant: the loop takes the handler added last.                          *)
DrainStepFromEnd ==
  /\ Draining /\ thens[Top.id] # <<>>
  /\ LET hs == thens[Top.id]
         h  == hs[Len(hs)]
     IN  /\ thens' = [thens EXCEPT ![Top.id] = SubSeq(hs, 1, Len(hs) - 1)]
         /\ called' = called \cup {h.child}
         /\ \/ /\ HasFunction(h, Top.out)
               /\ stack' = Append(stack, Body(h.child))
               /\ UNCHANGED <<state, value, error>>
            \/ /\ ~HasFunction(h, Top.out)
               /\ Settle(h.child, DefaultOutcome(h, Top.out), stack)
  /\ UNCHANGED <<made, queue, settles, origin>>

(* One turn of the loop of processThens: the first handler is removed, then *)
(* called.  A function of the application becomes a frame of its own.       *)
DrainStep ==
  /\ Draining /\ thens[Top.id] # <<>>
  /\ LET h == Head(thens[Top.id])
     IN  /\ thens' = [thens EXCEPT ![Top.id] = Tail(@)]
         /\ called' = called \cup {h.child}
         /\ \/ /\ HasFunction(h, Top.out)
               /\ stack' = Append(stack, Body(h.child))
               /\ UNCHANGED <<state, value, error>>
            \/ /\ ~HasFunction(h, Top.out)
               /\ Settle(h.child, DefaultOutcome(h, Top.out), stack)
  /\ UNCHANGED <<made, queue, settles, origin>>

(* A handler returns a plain value or throws.                               *)
ReturnOutcome(out) ==
  /\ InBody /\ Top.id # NoId
  /\ Settle(Top.id, out, Below)
  /\ UNCHANGED <<thens, made, queue, settles, origin, called>>

(* Variant: the case of a pending promise also fulfils the child at once.   *)
ReturnPromiseFallsThrough(q) ==
  /\ InBody /\ Top.id # NoId
  /\ \/ /\ state[q] \in Settled
        /\ Settle(Top.id, OutcomeOf(q), Below)
        /\ UNCHANGED thens
     \/ /\ state[q] = "Pending"
        /\ thens' = [thens EXCEPT ![q] = Append(@, [child |-> Top.id, kind |-> "adopt"])]
        /\ \E v \in Vals : Settle(Top.id, Fulfil(v), Below)
  /\ UNCHANGED <<made, queue, settles, origin, called>>

(* A handler returns a promise: a settled one is copied, a pending one gets *)
(* the resolvers of the handler's promise as its own handler.               *)
ReturnPromise(q) ==
  /\ InBody /\ Top.id # NoId
  /\ \/ /\ state[q] \in Settled
        /\ Settle(Top.id, OutcomeOf(q), Below)
        /\ UNCHANGED thens
     \/ /\ state[q] = "Pending"
        /\ thens' = [thens EXCEPT ![q] = Append(@, [child |-> Top.id, kind |-> "adopt"])]
        /\ stack' = Below
        /\ UNCHANGED <<state, value, error>>
  /\ UNCHANGED <<made, queue, settles, origin, called>>

(* The body of an event returns.                                            *)
ReturnApp ==
  /\ InBody /\ Top.id = NoId
  /\ stack' = Below
  /\ UNCHANGED <<state, value, error, thens, made, queue, settles, origin, called>>

Return ==
  \/ \E out \in Outcome : ReturnOutcome(out)
  \/ \E q \in Existing : ReturnPromise(q)
  \/ ReturnApp

Edt == RunTask \/ DrainEnd \/ DrainStep \/ Return

Next ==
  \/ \E p \in Root, out \in Outcome : PostSettle(p, out) \/ CallResolver(p, out)
  \/ PostApp
  \/ \E p \in Existing, kind \in UserKind : Then(p, kind)
  \/ Edt

Spec == Init /\ [][Next]_vars

(* The toolkit keeps running its event loop and functions given to a       *)
(* promise return; nothing obliges the application to call anything.        *)
FairSpec == Spec /\ WF_vars(Edt)
-----------------------------------------------------------------------------
(* Places where the handler of derived promise c can be.                    *)
Listed(c)  == \E p \in Id : \E i \in DOMAIN thens[p] : thens[p][i].child = c
Running(c) == \E i \in DOMAIN stack : stack[i] = Body(c)

(* A loop of processThens on p is in the call stack s.                      *)
DrainedIn(s, p) == \E i \in DOMAIN s : s[i].kind = "drain" /\ s[i].id = p

(* The values the fields of Promise.java can hold.                          *)
TypeOK ==
  /\ state \in [Id -> State]
  /\ value \in [Id -> Vals \cup {Nil}]
  /\ error \in [Id -> Errs \cup {Nil}]
  /\ \A p \in Id : /\ state[p] = "Fulfilled" => value[p] \in Vals
                   /\ state[p] = "Rejected" => error[p] \in Errs
  /\ thens \in [Id -> Seq(Handler)]
  /\ made \in NRoots .. NPromises
  /\ queue \in Seq(Tasks)
  /\ stack \in Seq(Frames)
  /\ settles \in [Root -> 0 .. MaxSettles]
  /\ origin \in [Id -> Id \cup {NoId}]
  /\ called \subseteq Derived

(* A handler is in one list at most, and once.                              *)
UniqueInLists ==
  \A p, q \in Id : \A i \in DOMAIN thens[p], j \in DOMAIN thens[q] :
     thens[p][i].child = thens[q][j].child => p = q /\ i = j

(* A handler is called once at most at a time.                              *)
UniqueOnStack ==
  \A i, j \in DOMAIN stack :
     stack[i].kind = "body" /\ stack[i] = stack[j] /\ stack[i].id # NoId => i = j

(* A promise waits as long as its handler is in a list or running.          *)
OwnedWhilePending ==
  \A c \in Derived \cap Existing :
     /\ state[c] = "Pending" <=> (Listed(c) \/ Running(c))
     /\ ~(Listed(c) /\ Running(c))

(* Nothing refers to a promise that has not been made yet.                  *)
NothingUnmade ==
  \A c \in Id \ Existing : state[c] = "Pending" /\ ~Listed(c) /\ ~Running(c)

(* Every promise returned by then has exactly one thing that will settle    *)
(* it until it is settled, and nothing afterwards: its handler is in one    *)
(* list, once, or is running, once.  processThens removes before it calls   *)
(* and hands over to an adopted promise, so nothing is lost or run twice.   *)
OneOwner ==
  /\ UniqueInLists
  /\ UniqueOnStack
  /\ OwnedWhilePending
  /\ NothingUnmade

(* A settled promise with handlers left is being drained: a handler added   *)
(* while the loop runs, or after it, is never left behind.                  *)
SettledIsDrained ==
  \A p \in Id : state[p] \in Settled /\ thens[p] # <<>> => DrainedIn(stack, p)

(* A handler is called with what its promise holds at that moment, even if  *)
(* a resolver was called again from inside an earlier handler: an outer     *)
(* loop that still carries the old value finds the list empty.              *)
HandlersSeeCurrentOutcome ==
  Draining /\ thens[Top.id] # <<>> => Top.out = OutcomeOf(Top.id)

(* The promise returned by then is settled once, although the promise it    *)
(* was made on can be settled again by its executor.                        *)
DerivedSettlesOnce ==
  [][\A c \in Derived : state[c] \in Settled =>
        /\ state'[c] = state[c]
        /\ value'[c] = value[c]
        /\ error'[c] = error[c]]_vars
-----------------------------------------------------------------------------
(* The outcome of a promise that has none yet.                              *)
NoOutcome == [to |-> "Pending", obj |-> Nil]

(* The variables of the contract, read off the fields.                      *)
Phase  == [c \in Derived |-> IF c \notin Existing THEN "unmade"
                             ELSE IF c \in called THEN "called" ELSE "waiting"]
Added  == [c \in Derived |-> origin[c]]
Result == [p \in Id |-> IF state[p] = "Pending" THEN NoOutcome ELSE OutcomeOf(p)]

Contract == INSTANCE PromiseContract WITH
  Outcomes  <- Outcome,
  Unsettled <- NoOutcome,
  phase     <- Phase,
  added     <- Added,
  result    <- Result

(* Promise.java implements the contract: handlers are called in the order   *)
(* of addition, also when loops over one list are nested, and once their    *)
(* promise is settled they do get called.                                   *)
ImplementsContract == Contract!ContractSpec
=============================================================================
