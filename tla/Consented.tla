----------------------------- MODULE Consented -----------------------------
(***************************************************************************)
(* What bwg promises whoever runs it: nothing on a VPS changes without     *)
(* their consent, what changes is what they consented to, and it changes   *)
(* at most once.                                                           *)
(***************************************************************************)
EXTENDS Sequences

CONSTANT Request  \* an operation, the server it acts on and the object it takes

VARIABLES
  permitted,  \* the flags and the terminal leave room for consent at all
  agreed,     \* what was consented to: nothing, or one request
  executed    \* what KiwiVM has changed, in order

vars == <<permitted, agreed, executed>>

Init ==
  /\ permitted \in BOOLEAN
  /\ agreed = {}
  /\ executed = <<>>

Agree(r) ==
  /\ permitted
  /\ agreed = {}
  /\ agreed' = {r}
  /\ UNCHANGED <<permitted, executed>>

Act(r) ==
  /\ r \in agreed
  /\ executed = <<>>
  /\ executed' = <<r>>
  /\ UNCHANGED <<permitted, agreed>>

Next == \E r \in Request : Agree(r) \/ Act(r)

Spec == Init /\ [][Next]_vars

=============================================================================
