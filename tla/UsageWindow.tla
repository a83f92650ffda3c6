----------------------------- MODULE UsageWindow -----------------------------
(***************************************************************************)
(* `bwg usage`: the samples of the last days, and their sums per day.  A   *)
(* sample has the calendar day it falls on, a transfer and a CPU load, and *)
(* the samples come in any order.                                          *)
(***************************************************************************)
EXTENDS Loops

Lists == INSTANCE SequencesExt

Sample == [day : Int, bytes : Int, cpu : Nat]

Dates(samples) == {samples[i].day : i \in DOMAIN samples}

Days(dates) == Sorted(dates, {p \in dates \X dates : p[1] < p[2]})

\* The day of the oldest sample shown, days of them counted back.
\* (Mutant: one too many.)
CutoffBefore(dates, days) == Days(dates)[Cardinality(dates) - days]

Cutoff(dates, days) == Days(dates)[Cardinality(dates) - days + 1]

\* The samples of some days.
Of(samples, days) == Kept(samples, {s \in Lists!Range(samples) : s.day \in days})

\* window: days <= 0 is everything there is.
Window(samples, days) ==
  LET dates == Dates(samples)
  IN  IF days <= 0 \/ Cardinality(dates) <= days THEN samples
      ELSE Of(samples, {d \in dates : d >= Cutoff(dates, days)})

\* One figure of each sample, or of each day.
Bytes(list) == [i \in DOMAIN list |-> list[i].bytes]
Loads(list) == [i \in DOMAIN list |-> list[i].cpu]

\* aggregateByDay: one row per day, in the order of the days.
DayOf(samples, day) ==
  LET of == Of(samples, {day})
  IN  [day     |-> day,
       bytes   |-> SumOf(Bytes(of)),
       cpu     |-> SumOf(Loads(of)) \div Len(of),
       samples |-> Len(of)]

AggregateByDay(samples) ==
  [i \in 1..Cardinality(Dates(samples)) |-> DayOf(samples, Days(Dates(samples))[i])]

\* What the command shows: everything but the number of days KiwiVM kept is
\* made of the samples in the window.
Usage(samples, days) ==
  [byDay     |-> AggregateByDay(Window(samples, days)),
   total     |-> SumOf(Bytes(Window(samples, days))),
   raw       |-> Window(samples, days),
   available |-> Cardinality(Dates(samples))]

----------------------------------------------------------------------------
(* Properties *)

\* "So no two parts of the output can end up describing different spans": the
\* daily rows, the totals and the raw samples are of the same samples, and
\* each day's load lies among its samples'.
OneSpan(samples, days) ==
  LET shown == Usage(samples, days)
  IN  /\ shown.total = SumOf(Bytes(shown.byDay))
      /\ Len(shown.raw) = SumOf([i \in DOMAIN shown.byDay |-> shown.byDay[i].samples])
      /\ \A i \in DOMAIN shown.byDay :
           LET loads == {s \in Lists!Range(shown.raw) : s.day = shown.byDay[i].day}
           IN  /\ \E s \in loads : s.cpu <= shown.byDay[i].cpu
               /\ \E s \in loads : s.cpu >= shown.byDay[i].cpu

\* The days that are left out are older than all that are shown, which are as
\* many as were asked for if there are as many; of a day that is shown no
\* sample is left out.
TheLatestDays(samples, days) ==
  LET shown == Usage(samples, days)
      kept  == Dates(shown.raw)
  IN  /\ \A d \in Dates(samples) \ kept, e \in kept : d < e
      /\ days > 0 => Len(shown.byDay) = IF shown.available < days THEN shown.available ELSE days
      /\ days <= 0 => shown.raw = samples
      /\ shown.raw = Of(samples, kept)

=============================================================================
