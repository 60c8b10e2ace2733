------------------------------- MODULE Queues -------------------------------
(***************************************************************************)
(* Queues of the connections and of the data channel: what is in them, and  *)
(* in which order.                                                          *)
(***************************************************************************)
EXTENDS Naturals, Sequences

Members(q) == {q[i] : i \in DOMAIN q}

\* The numbers in q stand in the order of their making.
Increases(q) == \A i, j \in DOMAIN q : i < j => q[i] < q[j]

\* Everything in A was made before everything in B.
Precede(A, B) == \A a \in A, b \in B : a < b

\* The same of the records of type t in q, which carry numbers.
Numbers(q, t) == {m.number : m \in {n \in Members(q) : n.type = t}}
Ascends(q, t) ==
  \A i, j \in DOMAIN q : i < j /\ q[i].type = t /\ q[j].type = t => q[i].number < q[j].number

(* Of a queue of records of several kinds, those in DOMAIN f matter, and f  *)
(* tells what they are about.                                               *)
Keys(q, f) == {f[m] : m \in Members(q) \cap DOMAIN f}
Once(q, f) ==
  \A i, j \in DOMAIN q :
    q[i] \in DOMAIN f /\ q[j] \in DOMAIN f /\ f[q[i]] = f[q[j]] => i = j
Rises(q, f) ==
  \A i, j \in DOMAIN q : i < j /\ q[i] \in DOMAIN f /\ q[j] \in DOMAIN f => f[q[i]] < f[q[j]]

\* Once q has been read, what is now is there: the last record that matters says so.
Lands(now, q, f, there) ==
  /\ Members(q) \cap DOMAIN f = {} => now = there
  /\ \A i \in DOMAIN q :
       q[i] \in DOMAIN f /\ (\A j \in DOMAIN q : i < j => q[j] \notin DOMAIN f) => f[q[i]] = there

\* Whatever of B is in q has something of A before it.
Leads(q, A, B) == \A i \in DOMAIN q : q[i] \in B => \E j \in DOMAIN q : j < i /\ q[j] \in A
=============================================================================
