---------------------------- MODULE OfferAnswer ----------------------------
(***************************************************************************)
(* What a call between two users is, without sessions, connections,         *)
(* messages, pages or cameras: one exchange of an offer and an answer, of   *)
(* which each end knows the signalingState of its peer connection.  The     *)
(* calls of all users go on at the same time.                               *)
(***************************************************************************)

CONSTANT Calls     \* who may call whom

VARIABLES caller,  \* of each call: the end that placed it
          callee   \* of each call: the end that is called

ends == <<caller, callee>>

TypeOK ==
  /\ caller \in [Calls -> {"none", "made", "have-local-offer", "stable"}]
  /\ callee \in [Calls -> {"none", "made", "have-remote-offer", "stable"}]

Init ==
  /\ caller = [k \in Calls |-> "none"]
  /\ callee = [k \in Calls |-> "none"]

(* A connection is made, and given its offer to apply and to send.          *)
Place(k) ==
  /\ caller[k] = "none"
  /\ caller' = [caller EXCEPT ![k] = "made"]
  /\ UNCHANGED callee

Offer(k) ==
  /\ caller[k] = "made"
  /\ caller' = [caller EXCEPT ![k] = "have-local-offer"]
  /\ UNCHANGED callee

(* The other user gets the offer: a connection is made that applies it and  *)
(* then an answer.                                                          *)
Ring(k) ==
  /\ caller[k] = "have-local-offer" /\ callee[k] = "none"
  /\ callee' = [callee EXCEPT ![k] = "made"]
  /\ UNCHANGED caller

Accept(k) ==
  /\ caller[k] = "have-local-offer" /\ callee[k] = "made"
  /\ callee' = [callee EXCEPT ![k] = "have-remote-offer"]
  /\ UNCHANGED caller

Answer(k) ==
  /\ caller[k] = "have-local-offer" /\ callee[k] = "have-remote-offer"
  /\ callee' = [callee EXCEPT ![k] = "stable"]
  /\ UNCHANGED caller

(* The caller applies the answer.                                           *)
Connect(k) ==
  /\ caller[k] = "have-local-offer" /\ callee[k] = "stable"
  /\ caller' = [caller EXCEPT ![k] = "stable"]
  /\ UNCHANGED callee

Next == \E k \in Calls : Place(k) \/ Offer(k) \/ Ring(k) \/ Accept(k) \/ Answer(k) \/ Connect(k)

Spec == Init /\ [][Next]_ends
=============================================================================
