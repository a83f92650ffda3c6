----------------------------- MODULE FleetSweep -----------------------------
(***************************************************************************)
(* What a fleet sweep promises: each server settles exactly once, by       *)
(* itself, as answered or failed; the results are handed back once, only   *)
(* when all have settled, and never change after that.                     *)
(***************************************************************************)
CONSTANT Server

VARIABLES
  outcome,    \* per server: "pending", "answered" or "failed"
  handedBack  \* the caller has the results

vars == <<outcome, handedBack>>

Init ==
  /\ outcome = [s \in Server |-> "pending"]
  /\ handedBack = FALSE

Settle(s) ==
  /\ outcome[s] = "pending"
  /\ \E o \in {"answered", "failed"} : outcome' = [outcome EXCEPT ![s] = o]
  /\ UNCHANGED handedBack

HandBack ==
  /\ \A s \in Server : outcome[s] # "pending"
  /\ ~handedBack
  /\ handedBack' = TRUE
  /\ UNCHANGED outcome

Next == HandBack \/ \E s \in Server : Settle(s)

\* Every server settles and the results are handed back in the end.
Spec == Init /\ [][Next]_vars /\ WF_vars(Next)

=============================================================================
