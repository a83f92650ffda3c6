------------------------------ MODULE Releases ------------------------------
(***************************************************************************)
(* How `bwg update` compares versions.  A version is what stands between   *)
(* its dots: numbers, or something else, such as 0-rc1 or dev.             *)
(***************************************************************************)
EXTENDS Integers, Sequences

CONSTANTS
  Number,  \* the numbers between the dots
  Other    \* what is no number

ASSUME ReleasesAssumption == Number \subseteq Int

Version == Seq(Number \cup {Other})

\* parseSemver: what is missing or no number counts as 0, and so does the third
\* part if there is a fourth.
ParseSemver(v) ==
  [i \in 1..3 |-> IF i > Len(v) \/ (i = 3 /\ Len(v) > 3) THEN 0
                  ELSE IF v[i] = Other THEN 0 ELSE v[i]]

\* newer: the first part that differs decides.
\* (Mutant: any part that is greater.)
NewerAny(a, b) ==
  LET p == ParseSemver(a) q == ParseSemver(b)
  IN  p[1] > q[1] \/ p[2] > q[2] \/ p[3] > q[3]

Newer(a, b) ==
  LET p == ParseSemver(a) q == ParseSemver(b)
  IN  \/ p[1] > q[1]
      \/ p[1] = q[1] /\ p[2] > q[2]
      \/ p[1] = q[1] /\ p[2] = q[2] /\ p[3] > q[3]

----------------------------------------------------------------------------
(* Properties *)

\* Whatever the tags look like: no version is newer than itself, so an update
\* is not installed twice; and versions that are each newer than the one before
\* never lead back, so updates come to an end.
UpdatesLeadUp(a, b, c) ==
  /\ ~Newer(a, a)
  /\ Newer(a, b) /\ Newer(b, c) => Newer(a, c) /\ ~Newer(c, a)

=============================================================================
