------------------------------ MODULE Standing ------------------------------
(***************************************************************************)
(* What KiwiVM's counters say of one VPS, and when `bwg ls --alerting`     *)
(* shows it.  A share is kept as the fraction it is: at least p percent of *)
(* a positive whole is part * 100 >= p * whole.                            *)
(***************************************************************************)
EXTENDS Integers

\* What KiwiVM says; what is null-routed is a set of addresses.
Info(addresses) ==
  [suspended : BOOLEAN, violation : BOOLEAN, nullrouted : SUBSET addresses,
   multiplier : Int, counter : Int, plan : Int, points : Int, maxPoints : Int]

\* Bandwidth: the location's multiplier scales both sides; one that is missing
\* or senseless is 1.
\* (Mutant: it scales the counter only.)
BandwidthHalf(info) ==
  LET mult == IF info.multiplier <= 0 THEN 1 ELSE info.multiplier
      used == info.counter * mult
  IN  [used |-> used, total |-> info.plan,
       free |-> IF info.plan > used THEN info.plan - used ELSE 0]

Bandwidth(info) ==
  LET mult  == IF info.multiplier <= 0 THEN 1 ELSE info.multiplier
      used  == info.counter * mult
      total == info.plan * mult
  IN  [used |-> used, total |-> total, free |-> IF total > used THEN total - used ELSE 0]

\* A share of a whole that is not known is 0.
AtLeast(percent, part, whole) == whole > 0 /\ part * 100 >= percent * whole

Healthy(info) == ~info.suspended /\ ~info.violation /\ info.nullrouted = {}

\* alertsFor.  The state is only known under --live.
AlertsFor(info, state) ==
  LET b == Bandwidth(info)
  IN  {a \in {"suspended"} : info.suspended}
      \cup {a \in {"violation"} : info.violation}
      \cup {a \in {"nullrouted"} : info.nullrouted # {}}
      \cup {a \in {"exhausted"} : AtLeast(100, b.used, b.total)}
      \cup {a \in {"bandwidth"} : AtLeast(90, b.used, b.total) /\ ~AtLeast(100, b.used, b.total)}
      \cup {a \in {"abuse"} : AtLeast(75, info.points, info.maxPoints)}
      \cup {a \in {"stopped"} : state = "stopped"}

----------------------------------------------------------------------------
(* Properties *)

\* "Anything that would make someone open the KiwiVM panel belongs here":
\* --alerting hides no server that `bwg info` calls unhealthy, and none that
\* has used up its transfer.
AlertingHidesNoTrouble(info, state) ==
  /\ ~Healthy(info) => AlertsFor(info, state) # {}
  /\ info.plan > 0 /\ Bandwidth(info).free = 0 => "exhausted" \in AlertsFor(info, state)

\* "The one figure that is right regardless of how the multiplier is
\* interpreted": the alerts do not depend on it, and used and free add up to
\* the allowance until that is exceeded.
ScaleIsNoMatter(info, state) ==
  LET b == Bandwidth(info)
  IN  /\ AlertsFor(info, state) = AlertsFor([info EXCEPT !.multiplier = 1], state)
      /\ b.used + b.free = IF b.used > b.total THEN b.used ELSE b.total

=============================================================================
