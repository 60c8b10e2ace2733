---------------------------- MODULE Combinators ----------------------------
(***************************************************************************)
(* Promise.all, Promise.allSettled and await of Promise.java, on the event *)
(* thread (EDT) with its nested event loops.  The promises given to them   *)
(* are those of Promise.tla without chaining: an outcome and a list of     *)
(* handlers, called one by one inside the call that settles.  A handler or *)
(* an event of the application may itself await; then the loop over the    *)
(* handlers is suspended, and other events run on top of it.               *)
(***************************************************************************)
EXTENDS Naturals, Sequences

CONSTANTS Inputs,     \* promises that events of the page settle
          Arguments,  \* what all or allSettled is called with: sequences of inputs
          All,        \* the promise that all or allSettled makes
          Checked,    \* inputs whose error is not a RuntimeException
          CastError,  \* the ClassCastException thrown by the default thrower
          Nil,        \* Java's null
          NHandlers,  \* bound: handlers of the application
          NAwaits     \* bound: calls of await

ASSUME CombinatorsAssumption ==
  /\ Arguments \subseteq Seq(Inputs) /\ Checked \subseteq Inputs
  /\ All \notin Inputs /\ CastError \notin Inputs /\ Nil \notin Inputs \cup {CastError}
  /\ NHandlers \in Nat /\ NAwaits \in Nat

Promises == Inputs \cup {All}
Await    == 1 .. NAwaits

VARIABLES
  state,     \* of each promise: Promise.state
  error,     \* of each promise: the input whose error it has, or CastError
  handlers,  \* of each promise: Promise.then
  which,     \* "all" or "allSettled"; "none" before the call
  args,      \* the promises that it is called with
  returned,  \* the call has returned its promise
  complete,  \* the counter of all and allSettled
  results,   \* the array of all: whose value is in each element
  failures,  \* history: arguments whose failure has been passed to the promise of all, in order
  added,     \* handlers of the application added so far
  awaits,    \* calls of await so far
  done,      \* of each await: complete[0], with what out[0] or ex[0] holds
  helper,    \* of each await: the thread that invokeAndBlock started
  answer,    \* of each await: what it has returned or thrown
  stack      \* call stack of the EDT, innermost call last

promise == <<state, error, handlers>>
combine == <<which, args, returned, complete, results, failures>>
await   == <<awaits, done, helper, answer>>
vars    == <<promise, combine, added, await, stack>>

\* Handlers: of all for one argument (then and except), of allSettled (always),
\* of an await (onSuccess and onFail), of the application.
AllHandler(i)     == [type |-> "all", arg |-> i]
SettledHandler(i) == [type |-> "settled", arg |-> i]
AwaitHandler(n)   == [type |-> "await", call |-> n]
AppHandler        == [type |-> "app"]

\* Frames: the loop of processThens with the outcome it passes on, a function of the application, the call of
\* all or allSettled at its i-th argument, a call of await.
Drain(p, out) == [type |-> "drain", of |-> p, out |-> out]
Body        == [type |-> "body"]
Calling(i)  == [type |-> "calling", arg |-> i]
Awaiting(n, p) == [type |-> "awaiting", call |-> n, of |-> p]

Pending   == [to |-> "Pending"]
Fulfilled == [to |-> "Fulfilled"]
Rejected(e) == [to |-> "Rejected", error |-> e]
Outcome(p) == IF state[p] = "Rejected" THEN Rejected(error[p]) ELSE [to |-> state[p]]
Outcomes == {Fulfilled} \cup {Rejected(e) : e \in Inputs \cup {CastError}}

TypeOK ==
  /\ state \in [Promises -> {"Pending", "Fulfilled", "Rejected"}]
  /\ error \in [Promises -> Inputs \cup {CastError, Nil}]
  /\ \A p \in Promises : \A i \in DOMAIN handlers[p] :
       handlers[p][i] \in {AllHandler(k) : k \in DOMAIN args} \cup {SettledHandler(k) : k \in DOMAIN args}
                          \cup {AppHandler} \cup {AwaitHandler(n) : n \in Await}
  /\ which \in {"none", "all", "allSettled"} /\ args \in Arguments \cup {<<>>}
  /\ returned \in BOOLEAN
  /\ complete \in 0 .. Len(args)
  /\ results \in [DOMAIN args -> Inputs \cup {Nil}]
  /\ failures \in Seq(DOMAIN args)
  /\ added \in 0 .. NHandlers /\ awaits \in 0 .. NAwaits
  /\ done \in [Await -> Outcomes \cup {Pending}]
  /\ helper \in [Await -> {"none", "started", "waits", "ended"}]
  /\ answer \in [Await -> Outcomes \cup {Pending}]
  /\ \A i \in DOMAIN stack :
       stack[i] \in {Drain(p, out) : p \in Promises, out \in Outcomes} \cup {Body}
                    \cup {Calling(k) : k \in 1 .. Len(args) + 1}
                    \cup {Awaiting(n, p) : n \in Await, p \in Promises}

Init ==
  /\ state = [p \in Promises |-> "Pending"]
  /\ error = [p \in Promises |-> Nil]
  /\ handlers = [p \in Promises |-> <<>>]
  /\ which = "none" /\ args = <<>> /\ returned = FALSE
  /\ complete = 0 /\ results = <<>> /\ failures = <<>>
  /\ added = 0 /\ awaits = 0
  /\ done = [n \in Await |-> Pending]
  /\ helper = [n \in Await |-> "none"]
  /\ answer = [n \in Await |-> Pending]
  /\ stack = <<>>

Top    == stack[Len(stack)]
Below  == SubSeq(stack, 1, Len(stack) - 1)
OnTop(type) == stack # <<>> /\ Top.type = type

\* The event loop runs: that of the toolkit, or that of invokeAndBlock.
Idle == stack = <<>> \/ (OnTop("awaiting") /\ helper[Top.call] \in {"started", "waits"})

\* Faulty: it throws the missing cause of the error.
ThrownCause(e) == IF e \in Checked THEN Nil ELSE e

\* The default rejection handler casts to RuntimeException before it throws.
Thrown(e) == IF e \in Checked THEN CastError ELSE e

\* A resolver, called on the EDT: the state is set, whatever it was, and
\* processThens starts above frames.
Settle(p, out, frames) ==
  /\ state' = [state EXCEPT ![p] = out.to]
  /\ error' = IF out.to = "Rejected" THEN [error EXCEPT ![p] = out.error] ELSE error
  /\ stack' = Append(frames, Drain(p, out))

\* then: the handler is added, and the list processed at once if p is settled.
AddHandler(p, h, frames) ==
  /\ handlers' = [handlers EXCEPT ![p] = Append(@, h)]
  /\ stack' = IF state[p] = "Pending" THEN frames ELSE Append(frames, Drain(p, Outcome(p)))

(***************************************************************************)
(* Events: the page settles a promise, or calls the application.           *)
(***************************************************************************)
SettleEvent(p, out) ==
  /\ Idle /\ p \in Inputs /\ state[p] = "Pending"
  /\ Settle(p, out, stack)
  /\ UNCHANGED <<handlers, combine, added, await>>

\* An event that could do nothing more is left out.
AppEvent ==
  /\ Idle /\ (awaits < NAwaits \/ added < NHandlers \/ which = "none")
  /\ stack' = Append(stack, Body)
  /\ UNCHANGED <<promise, combine, added, await>>

(***************************************************************************)
(* What a function of the application does.                                *)
(***************************************************************************)
Known(p) == p \in Inputs \/ returned

AddAppHandler(p) ==
  /\ OnTop("body") /\ added < NHandlers /\ Known(p)
  /\ added' = added + 1
  /\ AddHandler(p, AppHandler, stack)
  /\ UNCHANGED <<state, error, combine, await>>

Return ==
  /\ OnTop("body")
  /\ stack' = Below
  /\ UNCHANGED <<promise, combine, added, await>>

\* all and allSettled: the executor runs inside the constructor.
CallCombinator(name, ps) ==
  /\ OnTop("body") /\ which = "none"
  /\ which' = name /\ args' = ps
  /\ results' = [i \in DOMAIN ps |-> Nil]
  /\ stack' = Append(stack, Calling(1))
  /\ UNCHANGED <<promise, returned, complete, failures, added, await>>

\* A turn of the loop over the arguments.
CallStep ==
  /\ OnTop("calling") /\ Top.arg <= Len(args)
  /\ AddHandler(args[Top.arg],
                IF which = "all" THEN AllHandler(Top.arg) ELSE SettledHandler(Top.arg),
                Append(Below, Calling(Top.arg + 1)))
  /\ UNCHANGED <<state, error, combine, added, await>>

\* The loop ends; without arguments the promise is resolved at once.
CallReturns ==
  /\ OnTop("calling") /\ Top.arg > Len(args)
  /\ returned' = TRUE
  /\ \/ args = <<>> /\ Settle(All, Fulfilled, Below)
     \/ args # <<>> /\ stack' = Below /\ UNCHANGED <<state, error>>
  /\ UNCHANGED <<handlers, which, args, complete, results, failures, added, await>>

(***************************************************************************)
(* processThens: the first handler is removed, then called.                *)
(***************************************************************************)
\* Faulty: the results are in the order of completion.
AllFulfilledInTurn(i) ==
  /\ complete' = complete + 1
  /\ results' = [results EXCEPT ![complete'] = args[i]]
  /\ IF complete' = Len(args) THEN Settle(All, Fulfilled, stack)
     ELSE UNCHANGED <<state, error, stack>>

AllFulfilled(i) ==
  /\ complete' = complete + 1
  /\ results' = [results EXCEPT ![i] = args[i]]
  /\ IF complete' = Len(args) THEN Settle(All, Fulfilled, stack)
     ELSE UNCHANGED <<state, error, stack>>

\* then has no rejection handler, so except gets what the thrower throws.  Each
\* failure settles the promise again.
AllRejected(i, e) ==
  /\ failures' = Append(failures, i)
  /\ Settle(All, Rejected(Thrown(e)), stack)
  /\ UNCHANGED <<complete, results>>

Settled ==
  /\ complete' = complete + 1
  /\ IF complete' = Len(args) THEN Settle(All, Fulfilled, stack)
     ELSE UNCHANGED <<state, error, stack>>
  /\ UNCHANGED results

\* onSuccess, or onFail after the thrower of onSuccess: complete[0] is set and
\* the helper, if it waits by now, notified.
Notify(n, out) ==
  /\ done' = [done EXCEPT ![n] = IF out.to = "Rejected" THEN Rejected(Thrown(out.error)) ELSE out]
  /\ helper' = IF helper[n] = "waits" THEN [helper EXCEPT ![n] = "ended"] ELSE helper

DrainStep ==
  /\ OnTop("drain") /\ handlers[Top.of] # <<>>
  /\ LET p == Top.of
         h == Head(handlers[p])
     IN  /\ handlers' = [handlers EXCEPT ![p] = Tail(@)]
         /\ \/ /\ h.type = "all" /\ Top.out.to = "Fulfilled" /\ AllFulfilled(h.arg)
               /\ UNCHANGED <<failures, await>>
            \/ /\ h.type = "all" /\ Top.out.to = "Rejected" /\ AllRejected(h.arg, Top.out.error)
               /\ UNCHANGED await
            \/ /\ h.type = "settled" /\ Settled
               /\ UNCHANGED <<failures, await>>
            \/ /\ h.type = "await" /\ Notify(h.call, Top.out)
               /\ UNCHANGED <<state, error, complete, results, failures, stack, awaits, answer>>
            \/ /\ h.type = "app" /\ stack' = Append(stack, Body)
               /\ UNCHANGED <<state, error, complete, results, failures, await>>
  /\ UNCHANGED <<which, args, returned, added>>

DrainEnd ==
  /\ OnTop("drain") /\ handlers[Top.of] = <<>>
  /\ stack' = Below
  /\ UNCHANGED <<promise, combine, added, await>>

(***************************************************************************)
(* await.                                                                  *)
(***************************************************************************)
CallAwait(p) ==
  /\ OnTop("body") /\ awaits < NAwaits /\ Known(p)
  /\ awaits' = awaits + 1
  /\ AddHandler(p, AwaitHandler(awaits'), Append(stack, Awaiting(awaits', p)))
  /\ UNCHANGED <<state, error, combine, added, done, helper, answer>>

\* The loop of await, when it is entered or invokeAndBlock has returned.
AwaitLoop ==
  /\ OnTop("awaiting")
  /\ LET n == Top.call IN
       /\ helper[n] \in {"none", "ended"}
       /\ \/ /\ done[n] # Pending
             /\ answer' = [answer EXCEPT ![n] = done[n]]
             /\ stack' = Below
             /\ UNCHANGED helper
          \/ /\ done[n] = Pending
             /\ helper' = [helper EXCEPT ![n] = "started"]
             /\ UNCHANGED <<answer, stack>>
  /\ UNCHANGED <<promise, combine, added, awaits, done>>

\* The helper's synchronized block; it does not look at complete[0].
HelperWaits(n) ==
  /\ helper[n] = "started"
  /\ helper' = [helper EXCEPT ![n] = "waits"]
  /\ UNCHANGED <<promise, combine, added, awaits, done, answer, stack>>

\* Faulty: it waits until it is notified.
HelperNeverTimesOut(n) == FALSE /\ UNCHANGED vars

\* The wait of 500 ms ends.
HelperTimesOut(n) ==
  /\ helper[n] = "waits"
  /\ helper' = [helper EXCEPT ![n] = "ended"]
  /\ UNCHANGED <<promise, combine, added, awaits, done, answer, stack>>

Edt == CallStep \/ CallReturns \/ DrainStep \/ DrainEnd \/ AwaitLoop \/ Return
Helper(n) == HelperWaits(n) \/ HelperTimesOut(n)

Next ==
  \/ \E p \in Inputs : SettleEvent(p, Fulfilled) \/ SettleEvent(p, Rejected(p))
  \/ AppEvent
  \/ \E p \in Promises : AddAppHandler(p) \/ CallAwait(p)
  \/ \E name \in {"all", "allSettled"}, ps \in Arguments : CallCombinator(name, ps)
  \/ Edt
  \/ \E n \in Await : Helper(n)

\* Functions return, the EDT and the helper threads run; nobody has to settle a
\* promise.
Spec == Init /\ [][Next]_vars /\ WF_vars(Edt) /\ \A n \in Await : WF_vars(Helper(n))

(***************************************************************************)
(* Properties.                                                             *)
(***************************************************************************)
\* What all and allSettled promise of their arguments.
Expected ==
  LET states == {state[args[i]] : i \in DOMAIN args} IN
    IF which = "all" /\ "Rejected" \in states THEN "Rejected"
    ELSE IF "Pending" \in states THEN "Pending" ELSE "Fulfilled"

\* When the EDT is between two events, the promise of all or allSettled is in the
\* state that its arguments put it in, and each result is in the place of its
\* argument.  Each argument that failed has been passed on once, and the error of
\* all is that of the one passed on last.  What an await returns is what its
\* promise has.  All this whether arguments were settled before, are the same, or
\* are settled in the event loop of an await.
OutcomesAgree ==
  /\ stack = <<>> /\ which # "none" =>
       /\ state[All] = Expected
       /\ which = "all" /\ state[All] = "Fulfilled" => results = args
       /\ which = "all" => {failures[k] : k \in DOMAIN failures}
                             = {i \in DOMAIN args : state[args[i]] = "Rejected"}
       /\ \A j, k \in DOMAIN failures : failures[j] = failures[k] => j = k
       /\ state[All] = "Rejected" =>
            error[All] = Thrown(error[args[failures[Len(failures)]]])
  /\ \A i \in DOMAIN stack :
       stack[i].type = "awaiting" /\ done[stack[i].call] # Pending =>
         done[stack[i].call].to = state[stack[i].of]
  /\ \A n \in Await : answer[n] # Pending => answer[n] = done[n]

\* Promise.java, all: "It rejects immediately upon any of the input promises
\* rejecting [...] and will reject with this first rejection message / error."
RejectsWithFirst ==
  state[All] = "Rejected" => error[All] = Thrown(error[args[failures[1]]])

\* An await does not block for ever unless its promise, or that of an await that
\* runs on top of it, is never settled: no notification is waited for in vain.
Blocked(i) == stack[i].type = "awaiting" /\ state[stack[i].of] = "Pending"
AwaitsReturn ==
  \A n \in Await : []<>
    \A i \in DOMAIN stack : stack[i].type = "awaiting" /\ stack[i].call = n =>
      \E j \in i .. Len(stack) : Blocked(j)
=============================================================================
