----------------------------- MODULE Installed -----------------------------
(***************************************************************************)
(* What `bwg update` promises whoever has bwg installed: there is always a *)
(* version they can run or rename back, updates only go upwards, and a bad *)
(* release can be undone.  Of two updates at once it promises nothing.     *)
(***************************************************************************)
EXTENDS Integers

CONSTANTS
  Version,  \* the released versions, as numbers
  Nothing   \* no version

VARIABLES
  current,  \* the version that runs, or would once .old is renamed back
  spare,    \* the version that is kept besides
  shared    \* two updates have overlapped

vars == <<current, spare, shared>>

Init ==
  /\ current \in Version
  /\ spare = Nothing
  /\ shared = FALSE

\* The backup of the last update makes room for the next one's.
Discard == spare' = Nothing /\ UNCHANGED <<current, shared>>

Upgrade(v) ==
  /\ v > current
  /\ current' = v
  /\ spare' = current
  /\ UNCHANGED shared

Revert ==
  /\ spare # Nothing
  /\ current' = spare
  /\ spare' = Nothing
  /\ UNCHANGED shared

Share == shared' = TRUE /\ UNCHANGED <<current, spare>>

Next ==
  \/ Discard \/ Revert \/ Share
  \/ \E v \in Version : Upgrade(v)
  \/ shared /\ shared'

Spec == Init /\ [][Next]_vars

=============================================================================
