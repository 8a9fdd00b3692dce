------------------------------- MODULE Payment -------------------------------
(***************************************************************************)
(* What the copilot promises about each request, without contracts,        *)
(* workers or chains: it is decided once; only an approved request is      *)
(* paid, at most once and on its approved terms; and it is reported as     *)
(* executed only when the payee has the money.                             *)
(***************************************************************************)
CONSTANT RequestId

VARIABLES
  decision,   \* "none", "approved" or "denied"
  money,      \* "none", "sent" (burned, not yet minted) or "delivered"
  reported    \* the contract says "executed"

paymentVars == <<decision, money, reported>>

Init ==
  /\ decision = [r \in RequestId |-> "none"]
  /\ money = [r \in RequestId |-> "none"]
  /\ reported = [r \in RequestId |-> FALSE]

Decide(r) ==
  /\ decision[r] = "none"
  /\ \E verdict \in {"approved", "denied"} :
       decision' = [decision EXCEPT ![r] = verdict]
  /\ UNCHANGED <<money, reported>>

Pay(r) ==
  /\ decision[r] = "approved"
  /\ money[r] = "none"
  /\ \E progress \in {"sent", "delivered"} :
       money' = [money EXCEPT ![r] = progress]
  /\ UNCHANGED <<decision, reported>>

Deliver(r) ==
  /\ money[r] = "sent"
  /\ money' = [money EXCEPT ![r] = "delivered"]
  /\ UNCHANGED <<decision, reported>>

Report(r) ==
  /\ money[r] = "delivered"
  /\ ~reported[r]
  /\ reported' = [reported EXCEPT ![r] = TRUE]
  /\ UNCHANGED <<decision, money>>

Next == \E r \in RequestId : Decide(r) \/ Pay(r) \/ Deliver(r) \/ Report(r)

Spec == Init /\ [][Next]_paymentVars
=============================================================================
