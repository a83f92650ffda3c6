----------------------------- MODULE Algorithms -----------------------------
(***************************************************************************)
(* The pure functions of bwg over the inputs they may get: a state is one  *)
(* input.                                                                  *)
(***************************************************************************)
EXTENDS PortalCsv, References, UsageWindow, Incidents, Standing, Releases

CONSTANTS
  Exports,  \* a fleet and the file that is imported into it
  Lookups,  \* a listing and what the user types for one of its objects
  Usages,   \* the samples KiwiVM kept and --days
  Feeds,    \* the status feed, a fleet, and the servers of it that are asked for
  Infos,    \* what KiwiVM says of a VPS, and its state
  Tags,     \* the versions of bwg
  Letter,   \* the letters of names and references
  Address,  \* what may be null-routed
  Place,    \* the locations and datacenters
  Digit     \* the digits of a node

ASSUME AlgorithmsAssumption ==
  /\ \A e \in Exports : e.fleet \in Config /\ IsPortalFile(e.file)
  /\ \A l \in Lookups :
       /\ l.kind \in Kinds /\ l.ref \in Seq(Letter)
       /\ l.list \in Seq([name : Seq(Letter), about : Seq(Letter)])
  /\ \A u \in Usages : u.samples \in Seq(Sample) /\ u.days \in Int
  /\ \A f \in Feeds :
       /\ f.feed \in Seq(Incident(Place, Digit))
       /\ \A s \in f.fleet : s.node \in Seq(Digit)
  /\ \A i \in Infos : i.info \in Info(Address)
  /\ Tags \subseteq Version

VARIABLE input

Init ==
  \/ \E e \in Exports : input = [of |-> "csv", file |-> e.file, fleet |-> e.fleet]
  \/ \E l \in Lookups : input = [of |-> "find", kind |-> l.kind, list |-> l.list, ref |-> l.ref]
  \/ \E u \in Usages : input = [of |-> "usage", samples |-> u.samples, days |-> u.days]
  \/ \E f \in Feeds : input = [of |-> "feed", feed |-> f.feed, fleet |-> f.fleet, pick |-> f.pick]
  \/ \E i \in Infos : input = [of |-> "info", info |-> i.info, state |-> i.state]
  \/ \E a, b \in Tags : input = [of |-> "tags", a |-> a, b |-> b]

Next == UNCHANGED input

Spec == Init /\ [][Next]_input

----------------------------------------------------------------------------
(* The properties of the modules, of the input at hand *)

\* ParseCSV reads every complete row of the export whatever its columns, and
\* never gives two rows one name; server import then leaves out no VPS but one
\* whose name another has.
ExportIsRead ==
  input.of = "csv" =>
    /\ EveryPairIsRead(input.file)
    /\ NamesAreDistinct(input.file)
    /\ OnlyClashesAreLeftOut(input.fleet, input.file)

\* A full name always stands for its own object; what an abbreviation stands for
\* depends neither on the order of the listing nor on whether more is typed.
ReferenceIsSafe ==
  input.of = "find" =>
    /\ FullNameIsUnmistakable(input.kind, input.list)
    /\ OrderIsNoMatter(input.kind, input.list, input.ref)
    /\ \A x \in Letter : MoreSpecificIsSafe(input.kind, input.list, input.ref, Append(input.ref, x))

\* bwg usage shows one span, and that is the latest days.
UsageIsOneSpan ==
  input.of = "usage" =>
    OneSpan(input.samples, input.days) /\ TheLatestDays(input.samples, input.days)

\* bwg incidents gives the verdict of the feed, and of the servers it is asked
\* about lets no unchecked one pass for a clear one.
IncidentsAreShown ==
  input.of = "feed" =>
    /\ OneVerdict(input.feed, input.fleet, input.pick)
    /\ UncheckedIsNotClear(input.feed, input.fleet, input.pick)

\* bwg ls --alerting hides no trouble, and the location's multiplier changes no
\* alert.
AlertsAreSound ==
  input.of = "info" =>
    AlertingHidesNoTrouble(input.info, input.state) /\ ScaleIsNoMatter(input.info, input.state)

\* Updates lead upwards.
Upwards == input.of = "tags" => \A c \in Tags : UpdatesLeadUp(input.a, input.b, c)

=============================================================================
