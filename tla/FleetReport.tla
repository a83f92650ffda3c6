----------------------------- MODULE FleetReport -----------------------------
(***************************************************************************)
(* The two commands that sweep the whole fleet, `bwg ls` and `bwg server   *)
(* check`: what they make of the results fleet.Map hands back, and the     *)
(* exit code a script branches on.                                         *)
(***************************************************************************)
EXTENDS FleetMap

CONSTANT NoReport  \* nothing has been written to stdout

ReportType == [servers : SUBSET Index, failed : SUBSET Index,
               reachable : 0..N, needsAttention : 0..N]

ASSUME ReportAssumption == NoReport \notin ReportType

VARIABLES
  command,   \* "ls" or "check"
  alerting,  \* ls --alerting: only servers that need attention
  alerted,   \* servers whose answer carries alerts (suspension, quota, ...)
  jqFails,   \* --jq was given and fails, so that Emit returns an error
  report,    \* what stdout shows
  exit       \* the process's exit code, -1 while it runs

reportVars == <<command, alerting, alerted, jqFails, report, exit>>
allVars    == <<vars, reportVars>>

ExitOK    == 0
ExitError == 1
ExitAuth  == 4

TypeOKReport ==
  /\ TypeOK
  /\ command \in {"ls", "check"}
  /\ alerting \in BOOLEAN
  /\ alerted \in SUBSET Index
  /\ jqFails \in BOOLEAN
  /\ report \in ReportType \cup {NoReport}
  /\ exit \in {-1, ExitOK, ExitError, ExitAuth}

InitReport ==
  /\ Init
  /\ command \in {"ls", "check"}
  /\ alerting \in (IF command = "ls" THEN BOOLEAN ELSE {FALSE})
  /\ alerted \in SUBSET {i \in Index : box[i] = "healthy"}
  /\ jqFails \in BOOLEAN
  /\ report = NoReport
  /\ exit = -1

\* fleet.Split.
Answered   == {i \in Index : results[i].err = "ok"}
Unanswered == {i \in Index : results[i].err # "ok"}

\* buildReport: every failure is listed; --alerting drops the rows of servers
\* with no alert, after they have been counted.  server check lists every
\* server, marked ok or not.
\* (Mutant: --alerting drops the failures too.)
BuiltQuietly ==
  [servers        |-> IF alerting THEN Answered \cap alerted ELSE Answered,
   failed         |-> IF alerting THEN {} ELSE Unanswered,
   reachable      |-> Cardinality(Answered),
   needsAttention |-> Cardinality(Answered \cap alerted)]

Built ==
  [servers        |-> IF alerting THEN Answered \cap alerted ELSE Answered,
   failed         |-> Unanswered,
   reachable      |-> Cardinality(Answered),
   needsAttention |-> Cardinality(Answered \cap alerted)]

\* server check's last lines: any failed server, whatever failed, is ExitAuth.
\* (Mutant: only rejected credentials count.)
CheckCodeStrict == IF \E i \in Index : results[i].err = "rejected" THEN ExitAuth ELSE ExitOK

CheckCode == IF Unanswered # {} THEN ExitAuth ELSE ExitOK

\* What the command does once Map has returned: build, emit, choose the code.
Report ==
  /\ returned
  /\ exit = -1
  /\ \/ /\ jqFails
        /\ exit' = ExitError
        /\ UNCHANGED report
     \/ /\ ~jqFails
        /\ report' = Built
        /\ exit' = IF command = "check" THEN CheckCode ELSE ExitOK
  /\ UNCHANGED <<vars, command, alerting, alerted, jqFails>>

\* The context can still end between Map's return and the exit.
Sweeping ==
  /\ exit = -1
  /\ Next
  /\ vars' # vars
  /\ UNCHANGED reportVars

Exited == exit # -1 /\ UNCHANGED allVars

NextReport == Sweeping \/ Report \/ Exited

SpecReport == InitReport /\ [][NextReport]_allVars

----------------------------------------------------------------------------
(* Properties *)

\* `bwg ls`: "a missing row always means a missing server, never a hidden
\* error".  Every server of the fleet is a row or a listed failure, a row
\* --alerting left out is one that answered with nothing to report, and the
\* totals count what the rows cannot show.
NoHiddenError ==
  report # NoReport =>
    /\ report.servers \cap report.failed = {}
    /\ \A i \in Index \ (report.servers \cup report.failed) :
         alerting /\ i \notin alerted /\ box[i] = "healthy" /\ i \in sent
    /\ report.reachable + Cardinality(report.failed) = N
    /\ report.needsAttention = Cardinality(report.servers \cap alerted)

\* `bwg server check` exits 0 only when every server was asked and its own
\* credentials were accepted: an interrupt, a deadline, a failed write or a
\* hung box never passes for success.
CheckedMeansVerified ==
  command = "check" /\ exit = ExitOK =>
    report # NoReport /\ \A i \in Index : i \in sent /\ box[i] = "healthy"

=============================================================================
