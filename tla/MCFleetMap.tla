----------------------------- MODULE MCFleetMap -----------------------------
(* Small instances of FleetMap for TLC. *)
EXTENDS FleetMap

\* The sweep as a patient user sees it: nobody interrupts, and the deadline is
\* so far away that it only passes when nothing else in the sweep can move.
Quiescent == \A i \in Index : ~ENABLED Goroutine(i)

PatientNext ==
  \/ Spawn
  \/ Return
  \/ \E i \in Index : Goroutine(i)
  \/ spawned = N /\ Quiescent /\ Expire
  \/ Finished

PatientSpec == Init /\ [][PatientNext]_vars

\* fleet.go's package comment: the sweep "never lets one unreachable box hide
\* the answer for the others".  With a single hung box, and every other box
\* answering long before the deadline, every healthy box's answer is shown.
OneHungBoxHidesNothing ==
  returned /\ Cardinality({i \in Index : box[i] = "hung"}) = 1
    => \A i \in Index : box[i] = "healthy" => results[i].err = "ok"

=============================================================================
