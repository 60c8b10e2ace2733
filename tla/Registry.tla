------------------------------ MODULE Registry ------------------------------
(***************************************************************************)
(* The two registries of RTC.java and RTCBootstrap.js and the counts they  *)
(* keep.  An object of the page that Java knows is counted twice: by the   *)
(* page, and by each Java object made for it, its proxies.  Java changes   *)
(* its count at once and tells the page with a script.                     *)
(*                                                                         *)
(* The operators map the state of a side to its next state, so that an     *)
(* operation that retains several objects composes them:                   *)
(*   J: proxies (a sequence; of what object, count, readyState),           *)
(*      bound (the proxy the registry holds of an object, 0 for none),     *)
(*      scripts (on their way to the page);                                *)
(*   P: known (objects with an id), count, heard (of a track, how many     *)
(*      listeners are installed for its events).                           *)
(***************************************************************************)
EXTENDS Integers, Sequences, FiniteSets

(***************************************************************************)
(* Java.                                                                   *)
(***************************************************************************)
Script(op, o) == [op |-> op, of |-> o]

\* Faulty: Java counts alone.
RetainUntold(J, p) ==
  [J EXCEPT !.proxies[p].count = @ + 1,
            !.bound[J.proxies[p].of] = IF @ = 0 THEN p ELSE @]

\* retain(): the first one registers the object and stands for the reference
\* that the page took when it wrapped it.
Retain(J, p) ==
  LET o == J.proxies[p].of
      K == [J EXCEPT !.proxies[p].count = @ + 1]
  IN  IF J.bound[o] = 0
      THEN [K EXCEPT !.bound[o] = p]
      ELSE [K EXCEPT !.scripts = Append(@, Script("retain", o))]

\* release(): nothing is given up on either side when the count is zero.
Release(J, p) ==
  [J EXCEPT !.proxies[p].count = @ - 1,
            !.scripts = Append(@, Script("release", J.proxies[p].of))]

\* A new proxy of an object; every constructor ends with retain().
New(J, o, ready) ==
  Retain([J EXCEPT !.proxies = Append(@, [of |-> o, count |-> 0, ready |-> ready])],
         Len(J.proxies) + 1)

Newest(J) == Len(J.proxies)

\* What Java owns of an object, over all its proxies.
Owned(J, o) ==
  LET Sum[n \in 0 .. Len(J.proxies)] ==
        IF n = 0 THEN 0
        ELSE Sum[n - 1] + (IF J.proxies[n].of = o THEN J.proxies[n].count ELSE 0)
  IN  Sum[Len(J.proxies)]

\* How many scripts of one kind about an object are on their way.
UnderWay(J, op, o) == Cardinality({i \in DOMAIN J.scripts : J.scripts[i] = Script(op, o)})

(***************************************************************************)
(* The page.  installs are the tracks that get listeners when the object   *)
(* becomes known.                                                          *)
(***************************************************************************)
PageRetain(P, o, installs) ==
  LET Q == [P EXCEPT !.count[o] = @ + 1]
  IN  IF o \in P.known THEN Q
      ELSE [Q EXCEPT !.known = @ \cup {o},
                     !.heard = [t \in DOMAIN @ |-> IF t \in installs THEN @[t] + 1 ELSE @[t]]]

PageRelease(P, o) == [P EXCEPT !.count[o] = @ - 1]
=============================================================================
