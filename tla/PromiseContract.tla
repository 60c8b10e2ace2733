-------------------------- MODULE PromiseContract --------------------------
(***************************************************************************)
(* What Promise.java promises to the caller of then, without handler lists, *)
(* call stacks or adoption: the handler of a derived promise is called      *)
(* after the promise it was added to is settled, once, in the order of      *)
(* addition, and only afterwards is the derived promise settled, once.      *)
(* Promises made by an executor may be settled at any time.                 *)
(***************************************************************************)
EXTENDS Naturals

CONSTANTS NRoots, NPromises, Outcomes, Unsettled

VARIABLES phase,   \* of each derived promise: its handler's life
          added,   \* the promise its handler was added to, 0 before that
          result   \* the outcome of every promise, Unsettled before it has one

cvars == <<phase, added, result>>

CId      == 1 .. NPromises
CDerived == (NRoots + 1) .. NPromises
CPhase   == {"unmade", "waiting", "called"}

ContractTypeOK ==
  /\ phase \in [CDerived -> CPhase]
  /\ added \in [CDerived -> 0 .. NPromises]
  /\ result \in [CId -> Outcomes \cup {Unsettled}]

ContractInit ==
  /\ phase = [c \in CDerived |-> "unmade"]
  /\ added = [c \in CDerived |-> 0]
  /\ result = [p \in CId |-> Unsettled]

SettleRoot(p, out) ==
  /\ p \notin CDerived
  /\ result' = [result EXCEPT ![p] = out]
  /\ UNCHANGED <<phase, added>>

Add(c, p) ==
  /\ phase[c] = "unmade" /\ \A d \in CDerived : d < c => phase[d] # "unmade"
  /\ p \in CDerived => phase[p] # "unmade"
  /\ phase' = [phase EXCEPT ![c] = "waiting"]
  /\ added' = [added EXCEPT ![c] = p]
  /\ UNCHANGED result

(* Calling the handler; a handler that is one of the defaults settles its   *)
(* promise in the same step.                                                *)
Call(c) ==
  /\ phase[c] = "waiting" /\ result[added[c]] # Unsettled
  /\ \A d \in CDerived : d < c /\ added[d] = added[c] => phase[d] = "called"
  /\ phase' = [phase EXCEPT ![c] = "called"]
  /\ \/ UNCHANGED result
     \/ \E out \in Outcomes : result' = [result EXCEPT ![c] = out]
  /\ UNCHANGED added

SettleDerived(c, out) ==
  /\ phase[c] = "called" /\ result[c] = Unsettled
  /\ result' = [result EXCEPT ![c] = out]
  /\ UNCHANGED <<phase, added>>

ContractNext ==
  \/ \E p \in CId, out \in Outcomes : SettleRoot(p, out)
  \/ \E c \in CDerived, p \in CId : Add(c, p)
  \/ \E c \in CDerived : Call(c)
  \/ \E c \in CDerived, out \in Outcomes : SettleDerived(c, out)

ContractSafety == ContractInit /\ [][ContractNext]_cvars

(* The one thing a caller may wait for: a handler whose promise is settled. *)
ContractSpec == ContractSafety /\ \A c \in CDerived : WF_cvars(Call(c))
=============================================================================
