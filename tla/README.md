# bwg-cli in TLA+

A verification development of `bwg`, the command line client of KiwiVM (BandwagonHost's
VPS control API). The models are translated from the Go source under `src/`; TLC checks
them on small instances, and TLAPS proves the safety properties that matter most for
every instance.

## 1. The system

| part | source | state it keeps | operations | talks to |
|---|---|---|---|---|
| entry | `cmd/bwg/main.go` | the process's context | run, map the error to an exit code | App |
| App | `internal/cli/app.go`, `root.go` | global flags, the loaded fleet | Init, Context, Server, ClientForOp, Emit, Explain, CodeFor | config, client, commands |
| consent | `internal/cli/confirm.go`, `pkg/output/term.go` | none | Confirm, askYesNo, askForName, emitDryRun | the terminal |
| commands | `internal/cli/*.go` | none | 43 commands on one server, and `bwg api call` for any endpoint | client, consent |
| client | `kiwivm/` | credentials, read-only flag | call, callRaw, one method per endpoint | KiwiVM over HTTP |
| registry | `kiwivm/ops.go` | 45 endpoints with a risk class | LookupOp | every gate |
| fleet sweep | `internal/fleet/fleet.go` | one sweep's goroutines, semaphore, results | Map, Split, ClientFor | client, `ls`, `server check`, MCP |
| fleet commands | `internal/cli/ls.go`, `server.go` | none | ls, server check | sweep |
| fleet config | `internal/config/config.go` | the YAML file with every API key | Load, Save, Add, Remove, SetDefault, Resolve, ParseCSV | App, server subcommands |
| server subcommands | `internal/cli/server.go` | none | add, set, rm, default, import, ls, show | config, client |
| self-update | `internal/updater/`, `internal/cli/update.go` | the binary and its `.old`, the download | CheckLatest, Download, Replace, newer | GitHub, the file system |
| MCP server | `internal/mcp/` | the fleet as it was at its start | Serve, tools, callTool | an agent on stdin, sweep, client |
| incidents | `bwhstatus/` | none | Fetch, Parse, Match, Summarize | the status feed |
| output | `pkg/output/` | none | tables, JSON, jq | stdout |

Where it is hard:

* **Concurrency.** One goroutine per server in a sweep, against a semaphore, a wait group
  and a context that may end anywhere. Several `bwg` processes on one config file. A
  signal that arrives while a person is reading a prompt.
* **Failure.** A request that was performed and whose answer was lost. Boxes that reject,
  fail or hang. A process killed between two system calls of a save or an update.
* **Ordering.** The reads before the card, the gates inside `Confirm`, the client's own
  gate, the deadline that starts before all of them.
* **Agreement of two views.** The server a person means and the one `Resolve` chose; the
  exit code a script sees and what KiwiVM did; a dry run and the run it stands for.

`PROJECT.json` lists the hazards one by one, each at its line, with the properties that
would catch it.

## 2. The modules

```
 FleetSweep  <-implements-  FleetMap <-- FleetReport      ls, server check
 Consented   <-implements-  Invocation --> Commands --> KiwiOps <-+
 Installed   <-implements-  Updater                               |
 Rpc         <-implements-  McpServer ----------------------------+
                            McpServer, ConfigStore, PortalCsv --> FleetConfig
 Algorithms --> PortalCsv, References, UsageWindow, Incidents, Standing, Releases
                UsageWindow, Incidents --> Loops
```

An arrow is EXTENDS. `MCFleetMap`, `MCInvocation`, `MCConfigStore`, `MCMcpServer` and
`MCAlgorithms` hold instances for TLC; `FleetProofs`, `InvocationProofs`, `ConfigStoreProofs`,
`UpdaterProofs`, `McpProofs` and `AlgorithmsProofs` hold theorems, `FleetConfigProofs` the
lemmas on fleets and imports that two of them share, and `LoopsProofs` those on loops over
data. A remark "(Mutant: ...)" beside a definition names an altered form of it, with a
plausible bug in it, that breaks a property: they show that the property can fail.

**FleetMap** is `fleet.Map`. Each statement that another goroutine can see is an action:
the loop's `wg.Add` and `go` (`Spawn`), the two branches of the `select` (`Acquire`,
`Skip`), the call (`Call`), the write to the results slice (`Store`), the two deferred
calls in their order (`Release`, `Done`), `wg.Wait` (`Return`), and the context's two ends
(`Expire`, `Interrupt`). When the context is done and a slot is free, both branches are
enabled, as Go chooses either. What the call may return is `Returns`: it depends on the
kind of the box, on whether the request went out at all, and on the context. A context
without a deadline is the MCP server's; there the HTTP client's own timeout ends a call.

**FleetSweep** is what a caller relies on: every server settles once, by itself, and the
results come back once, when all have settled.

**FleetReport** composes the sweep with what `ls` and `server check` make of it
(`Split`, `buildReport`, the exit code), including `--alerting` and a `--jq` that fails.

**KiwiOps** is the registry with its risk classes and the typed-name policy. `Looks` says
what an endpoint does on KiwiVM's side, whatever bwg calls it; the registry is thereby
something that can be wrong.

**Commands** is the command table, one record per command: its reads before the card, for
each read whether its failure ends the command, whether its answer picks the object or may
refuse, and which context it runs under; then the operation, whether the card names an
object, whether read-only mode is refused at once, whether the guest's status becomes
bwg's, whether stdin is read for a script first (`RunStdin`), and whether KiwiVM's answer is
passed on as it is (`ApiCall`).

**Invocation** runs one of those commands: `Start` (flags, config, `ClientForOp`,
`Server`), before them `ReadScript` where the script comes from stdin, `Read`, `Confirm`,
`Reply` (the prompt), `Call` (the client's gate and the request), `Receive` (with `Report`,
what the result says went wrong), `GiveUp`; `Serve` is KiwiVM, which may act and answer, act
and have its answer spoiled, decline, or answer without an error although it does not know
what it was asked to set ("ignored": notification preferences, all of them or some); `Expire`
and `Interrupt` are the deadline and Ctrl-C, `EndOfInput` is whoever writes to the pipe. The
server the person has in mind (`meant`) is chosen apart from the one that was resolved
(`srv`).

**Consented** is what `bwg` promises whoever runs it: nothing changes without consent,
what changes is what was consented to, and at most once.

**FleetConfig** is the fleet as a value, with the methods of `config.Config` and the
edits of the `server` subcommands as operators. **ConfigStore** runs several subcommands
against one file: load, check, edit, create the temporary file, write, close, rename, clean
up; each of the disk calls may fail, the deferred removal of the temporary file like the
others (`Works`, `Fails`), and a process may be killed anywhere. `Save`'s error is that of the
call that failed first; the removal's is discarded.

**Updater** is `bwg update`: `Start`, `CheckLatest`, `Download` and `Extract` (GitHub and the
archive), then `Replace` and `installCopy` one system call at a time: `Aside` (rename the
binary to `bwg.old`, over the last one), `Swap` (rename the download into place), and where that
fails `Open`, `Write`, `Chmod`, `Remove` and `Restore`; `Emit` and the deferred `Cleanup`. The
removals of the download, whose errors the code discards, are `Discard`: they may fail too,
which changes nothing in the way the command ends. Names and inodes are apart: `path`
and `tmp` say which inode a name stands for and `data` what is in it. A process that runs
from a file goes on running, and one that writes to a file goes on writing to it, under
whatever name it then has. Around the command: a kill, a context that ends, a person who
renames `.old` back, a new release.

**Installed** is what a user is told: there is always a version to run or to rename back,
updates only go upwards, and a bad release can be undone.

**McpServer** is `bwg mcp`: `Scan` and `ScanEOF` (one turn of the loop), `Handle` with
`CallTool` (the method, the read-only gate, `Resolve`), `Call` (the client's gate and the
request), `Receive`, `GiveUp`, `Sweep` (a fleet tool says a result however its sweep went; what
the sweep brings is FleetMap's, what is said of it Incidents'). The toolset is data: each tool with the endpoint it is classified by and the
requests it may make, by which the two can disagree. Around it: `Send` and `Close` (the client),
`Serve` (KiwiVM, also after nobody waits any more), `Edited` (other bwg processes),
`Interrupt` and `Kill`. **Rpc** is what the client relies on: one answer for every message
that calls for one, in order.

The pure functions are operators with a reference property beside each, and **Algorithms**
states the properties of an `input` that is one of those given by its constants and that no
step changes. Their loops are recursive functions of the number of turns (`ReadRows`, `Seen`,
`ImportRows`), so that what they keep can be stated, and proved, turn by turn. **Loops** has the
three that several of them share: the items of a list that are wanted (`Kept`), the sum of its
numbers (`SumOf`), and a sort (`Sorted`, where the n-th item is the one with n - 1 before it):

| module | code | property |
|---|---|---|
| PortalCsv | `ParseCSV`, and `serverImport` over what it returns | every row's VEID is read with its own key whatever the columns; names are distinct; only a clash of names is left out |
| References | `findSnapshot`, `matchTemplate`, `resolveBackup` | a full name is that object; the order of the listing is no matter; a longer abbreviation never means another object |
| UsageWindow | `window`, `aggregateByDay`, `Totals`, the command | rows, totals and samples span the same days, which are the latest |
| Incidents | `findNodePrefixes`, `Match`, `Parse`'s order, `Summarize`, `Servers`, `fleetTargets`, the command | the verdict is the feed's; of the servers that `--server` or `--tag` chooses, no unchecked one passes for a clear one, and no other is named |
| Standing | `Bandwidth`, `AbusePercent`, `Healthy`, `alertsFor` | `--alerting` hides no trouble; the multiplier changes no alert |
| Releases | `parseSemver`, `newer` | a strict order: updates never lead back |

## 3. The checks

| run | module | instance | distinct states | result |
|---|---|---|---|---|
| fleet_map | FleetMap | 3 servers of any kind, 2 slots | 382,267 | safety, refinement of FleetSweep, termination |
| fleet_report | FleetReport | 2 servers, 1 slot | 71,400 | no hidden error, sound exit code |
| invocation | MCInvocation | every command, every flag, 2 servers, 1 object | 336,282 | consent, exit codes, refinement of Consented, without a terminal an end, given one of the script |
| config_store | MCConfigStore | 2 processes, 11 jobs, 6 fleets of up to 2 servers | 162,357 | whole file, sound default, no keys left by one failure, nothing lost by one save alone |
| updater | Updater | 2 processes, one of them with a deadline, 3 versions, up to 2 failing disk calls in each | 438,964 | recoverable, healed, as announced, no download left, refinement of Installed, termination with a deadline |
| mcp | MCMcpServer | any 2 lines, 3 fleets, 1 edit of the file | 986,724 | read-only, done once, stable names, refinement of Rpc |
| algorithms | MCAlgorithms | every input of a small enumeration | 159,478 | the six properties of the table above |

Runs that TLC is expected to find violated, each a place where a document says one thing and
the code does another:

| run | property | in short |
|---|---|---|
| fleet_hung | OneHungBoxHidesNothing | a hung box uses up the deadline that servers waiting for a slot share |
| invocation_exec_auth | RejectedExitsAuth | under `exec`, rejected credentials exit 101 |
| config_lost_update | OnlyPassedFlagsChange | overlapping saves undo each other |
| update_advice | AdvisedFileIsThere | the message names a file that the same command then deletes |
| mcp_interrupt | CancelledServerEnds | Ctrl-C does not end a server that waits for a line |

### Met while modelling, without a run

These are visible in the models or in the code beside them:

* `--dry-run` makes the read requests of the card (`misc.go:897`; README:221 says no call).
* End of input at the prompt exits 1, not 3 (`confirm.go:151`).
* One deadline covers the reads, the prompt and the operation (`app.go:112`), while the
  flag's help says "Per-request timeout" (`root.go:51`): what is agreed to late is not sent.
* `IsTransient` ("retry shortly") is also said of an operation that was performed and whose
  answer was lost (`errors.go:122`).
* `server check` exits ExitAuth for any failure (`CheckCode`), and `exec` passes a guest's
  status 3 through, which then reads as ExitRefused (`Codes`).
* `server import --dry-run` lists a row whose name is taken, which the import skips
  (`server.go:418`). A new VPS whose generated name another VPS holds is never imported
  (`server.go:353`); `ExportIsRead` allows for just that.
* `server add`, `set`, `rm` and `default` ignore `--dry-run` (`server.go:189`).
* The help calls the replacement atomic; between the two renames there is no binary at the
  path (`Aside`, `Swap`). A failed update has already
  overwritten the last `.old`. After two
  overlapping updates across file systems there may be no whole binary at all
  (`Recoverable` is only stated otherwise).
* `bwg_incidents` declares an argument `ongoing` that is not used (`mcp.go:600`).
* `bwg usage --days N` counts days that have samples, not calendar days (`usage.go:117`).
* With `--ongoing`, the summary's `total` is the number of incidents listed.
* `bwg notify set` and `bwg api call` exit 0 when KiwiVM ignored every id they sent, while
  `app.go:28` says of exit 0 "the command did what it was asked": `notify set` lists those ids
  under `ignored` (`Report`), a raw call leaves it to the reader. `ExitZeroMeansApplied` says just
  that. An id that KiwiVM echoes as submitted, and does not update, is not listed
  (`misc.go:826`; `types.go:836`: what was updated "can be narrower").
* `bwg run` without a script reads all of stdin before it has a context (`misc.go:1013`). On a
  pipe that nobody closes it waits for ever, deadline and Ctrl-C notwithstanding, the case
  `TASTE.md:115` warns of for prompts. `ScriptsEnd` is stated for input that ends.
* `bwg update --timeout 0` has no deadline (`app.go:109`), nor has `http.DefaultClient`
  (`updater.go:65`, `129`): it may wait for GitHub for ever. `Terminates` is stated for updates
  with a deadline, and for what comes after the download.
* The errors of the deferred and of the other removals are discarded (`config.go:283`,
  `update.go:67`, `updater.go:302-311`): where the removal fails, a file with every API key
  (after another failure) or a downloaded binary stays, and nothing says so.
* `fleetTargets` swallows the error of `Servers` (`incidents.go:145-148`). With a `--server` or a
  `--tag` that names nothing, or with no server configured, nobody is asked and nobody is listed
  as unchecked: the report reads as under `--all`, although the comment above it says that "an
  unchecked box is not a clear box". `UncheckedIsNotClear` is about the servers that were chosen,
  of which there is then none; `ls` and `server check` report that error.
* Tags that differ in their pre-release compare equal (`parseSemver`).
* A further column named `id` after the one named `veid` takes its place (`config.go:551`);
  an empty reference is part of every name (`misc.go:274`); `BWG_VEID` beside a combined key
  of another VPS makes a mixed pair (`config.go:403`); a server without settings in a YAML
  edited by hand panics in `Load` (`config.go:224`); a key file of comments only makes
  `keys set` remove every key (`ssh.go:312`).

### Bounds

* **FleetMap**: three servers over two slots give a goroutine that waits, one that holds
  and one that has finished, with every mix of healthy, rejecting, failing and hung boxes.
  The proofs cover every number of servers and every integer concurrency.
* **FleetReport**: two servers, one slot: one answer and one failure of every kind.
* **Invocation**: two servers, so that the wrong one can be meant; one object beside the
  one taken as typed; the guest statuses 1 and 3, of which 3 collides with ExitRefused.
  One operation per run, because no command performs two and none retries. The passing run
  takes the whole command table; the violation run takes one command per shape
  (`ShapeCommands`), which is enough to find it. A script on stdin comes to its end or does not
  (`piped`); what is in it does not matter.
* **ConfigStore**: two processes and two names are the least in which a save can undo
  another's and a row can clash by name and by VPS. One note stands for the optional
  settings, which `server set` treats alike. Each process runs one subcommand.
  `stale` and `faults` are history variables: whose run another save overlapped, and how many
  disk calls of a save have failed. Every call may, so that there is no bound on failures.
* **Updater**: two processes give two updates in a row and two at once; the versions 0
  (a development build) to `MaxVersion` = 2 let an update find a newer release twice;
  `MaxFaults` = 2 failing disk calls in one process are the least that the rename back does
  not survive; failing removals of the download are not counted. One process has a deadline and
  one has none (`Timed`). `overlapped` and `unremoved` (whose removal failed) are history
  variables.
* **McpServer**: `MaxLines` = 2, so that the answer to one line can come during the next;
  `MaxEdits` = 1; two names whose VPSs an edit exchanges. The client writes one tool of each
  shape with every arguments its requests depend on; the proofs take any lines.
* **MCAlgorithms**: files of three rows with or without a header, in three orders of the
  columns; listings of two or three names of at most two letters; up to three samples on
  three days; two incidents, held against fleets of up to three servers with and without tags, of
  which a name or some tags choose all, some or none (`Picks`); shares around each threshold; tags of up to four parts.

### Fairness

* The Go scheduler runs every goroutine that can run: weak fairness per goroutine, for
  the loop and for `wg.Wait`. A deadline that was set passes: weak fairness of `Expire`,
  which is only enabled where the context has one.
* In Invocation the process's own steps are weakly fair, and an exchange ends (weak
  fairness of `GiveUp \/ Receive`), because `kiwivm.New` always installs an HTTP timeout:
  `WithTimeout` ignores a value that is not positive (`client.go:63`). Nothing is assumed
  of KiwiVM, of Ctrl-C, of the deadline, of the person at the prompt, or of whoever holds the
  pipe: `ReadScript` can only be taken once the input has come to its end. A `--file` or a key
  file is taken to be a plain file, which is read at once.
* In Updater the steps after the download are weakly fair, and so are the deadline of a
  process that has one (`Expire`) and the failure that follows when a context is over (`GiveUp`);
  GitHub, and a person with Ctrl-C, owe nothing.
* In McpServer the loop's steps are weakly fair and an exchange ends, by the same HTTP
  timeout; neither KiwiVM nor the client owes anything.
* FleetReport and ConfigStore state safety only.

A stopped system is explicit (`Finished`, `Exited`, `Ended`, `Over`, `Quiet`), so that TLC's
search for deadlocks covers everything before it.

## 4. The proofs

The assumptions are named ASSUMEs beside the constants, on their types and on values that must
differ (`NoFile`, `None`, `NoReport`, what `Resolve` returns for a failure, `Absent`); TLC
evaluates them in the runs. `AlgorithmsAssumption` says which inputs the pure functions get. Of a
file that is imported it says that it is one the billing portal may export (`IsPortalFile`):
each column holds one kind of cell, no header calls one column what another is, and the names
made of a hostname and a small number are names `ValidateName` accepts (`Nameable`). Headers may
be missing, or name one of the two columns only; rows may be short or incomplete, columns in
any order, hostnames the same.

Loops over data are proved turn by turn. The library's induction theorems take an operator as a
parameter, which no backend here can instantiate; but a set can stand for the property. That the
natural numbers with `<` are well-founded is a theorem without such a parameter, and from it
**LoopsProofs** has `LeastNumber`, `EveryTurn` (induction over the turns of a loop) and
`LoopRuns` (a loop has a state after each turn, so that a recursive function is what its
definition says). With them it says what the loops of Loops make of a list: `KeptIs` (only what
is wanted, all of it, as often, and the first that is wanted first), `EachHasItsPlace` (of a
finite set and a strict order on it, a sort is a list with every item once, the earlier before the
later), `PartsAddUp` (where each turn adds to one part what it adds to the whole, the parts add
up to the whole in the end) and `AverageLies` (a sum divided by its length lies between two of
its numbers).

**FleetProofs.** Of the sweep, the inductive invariant relates the counters to the places of the
goroutines: `sem` is the number of goroutines that hold a token, `wg` the number that were
spawned and have not left, a goroutine is unborn exactly if the loop has not come to it, a
slot is written once its goroutine has stored or skipped, and what was written is a
possible answer of that server's box. `BoundedFanOut` alone is not inductive, since nothing
in it says that a release was preceded by an acquire. From the invariant: `TypeCorrect`,
`FanOutBounded`, `ReturnIsComplete`, `FailuresAreIsolated`, and `MapImplementsSweep`, the
safety part of the refinement. Of the commands, `RInv` is the sweep's invariant, which the sweeping steps inherit, the
types, and `Shown`: what the report says is what `Built` makes of the results, which have
not changed since. `NothingIsHidden` counts answers and failures by the cardinality lemmas of
the library; `CheckedIsVerified` needs that a result of "ok" was asked for.

**InvocationProofs.** `IInv` is `TypeOK` and five parts: past the start a server was
resolved (`Resolved`); past the prompt there is consent to exactly what is intended, or
the operation only looks (`Asked`); what is on the wire is what the place in the command
allows (`Sent`); what KiwiVM did follows from its answer (`Applied`); and the exit code
tells how the command stopped (`Told`). The exit codes need a little arithmetic, since
`exec` can end with any status: that is why the properties on codes set `exec` apart, and
the run on `exec` shows what it does instead. From it: `TypeCorrect`, `WrongBoxIsCaught`,
`ZeroMeansApplied`, `RefusalSendsNothing`, `AuthCodeIsExact`, `LateConsentSendsNothing`,
and `EveryCommandIsConsented`, the whole refinement of Consented (which has no liveness).
They hold for any set of commands whose reads are read operations, not just for the
table's.

**ConfigStoreProofs.** `Order` is what needs no type: a process that saves holds an edit of
what it loaded (`Edited`), its temporary file is there while it should be, and at the end only
if two disk calls have failed (`Temps`),
and a process that no save has overlapped still has the file's contents in hand (`Fresh`).
From it alone: `KeysAreGone`, and `SavesKeepTheRest`, that a save alone loses nothing. `Sane` adds that every
fleet around is sound and the file is not torn. `IInv` is `TypeOK`, `Order` and `Sane`. What an
import makes of a fleet is proved in FleetConfigProofs: `Grown` holds after each number of rows
(nothing that was there has changed, every server that was added has its own VPS), and a row
that was passed is found when the file is imported again (`Skipped`), which then adds nothing.
With it: `ImportIsSafe`.

**UpdaterProofs.** `IInv` is `TypeOK` and four parts: an inode is known to no one before its
process puts it in place (`Fresh`); what a process's temporary file holds at each place (`Temps`); while
updates come one at a time, where the two names point at each place of the one that runs
(`Solo`); and, for overlapping updates that need no copy, that whole binaries are all there
is (`Still`). `Recoverable` is a disjunction of the last two cases and inductive in neither
alone. There is one lemma per action. From them: `NothingDownloadedStays`,
`AlwaysRecoverable`, `OldBinaryGoesBack`, `InstalledAsAnnounced`, and `PromiseIsKept`, the
refinement of Installed.

**McpProofs.** `Harmless` (under `--read-only` nothing was changed, and nothing on the wire
can) is inductive by itself: `ReadOnlyIsHarmless`. The rest needs the call in hand (`Place`:
what the loop's place says of the line), what is on the wire or on the VPS stems from a call to
one of the fleet's servers (`Traffic`), and every reply is a good one (`Replies`). From
them: `OfferedToolsRun`, `NamesAreStable`, `ErrorsTouchNothing`.
`Once` is a second invariant, on top of the first, for `ChangesOnce`: a line that changes something has
at most one request on its way and at most one change, never both (`Requests`, `Changes`); before
its request the line in hand has neither, and an "ok" in hand is recorded (`InHand`); so is
every result (`Results`). `Order` says which lines are answered: all that were owed an answer,
but the one in hand. With it every step is one of Rpc's or changes nothing Rpc sees:
`ImplementsRpc`.

**AlgorithmsProofs.** Of the loop over a listing: it has seen the object of that very name, or
else all that fit so far (`SeenSoFar`). So an exact name wins wherever it stands, and what fits a
longer reference fits a shorter one (`LongerFitsLess`, letter by letter): `ReferencesAreSafe`. Of
the loop over the rows of a file: the names read so far are distinct, and the pairs read are
those of the rows, in order (`OneMoreRow`). That a name is always free is the pigeonhole
principle, n + 1 numbers for n names in use (`OneIsFree`); that no VPS gets another one's key is
`ColumnsAreRight`, in which a column is the right one or there is nothing of its kind in the
file. With the lemmas on imports: `ExportsAreRead`. A day's row is what is kept of the samples of
that day; each further sample adds its bytes to one row and to the total (`RowsAddUp`), and the
days from the cutoff on are the last in their order, as many as were asked for (`LatestDays`):
`UsageIsAlwaysOneSpan`, of any samples, of which only the load must not be negative. The feed in
its order is the feed with every entry in one place (`NewestIs`), so that what is open of one is
as many as of the other (`OngoingIs`), and the first is the last that was updated whether or not
`--ongoing` leaves any out (`SummaryIs`). A node of two digits or more begins with what is looked
at of it (`OwnNodeIsFound`): `IncidentsAreAlwaysShown`. `AlertsAreAlwaysSound` is arithmetic on
products, and `UpdatesAlwaysLeadUp` says that `newer` is a strict order, for tags of any length.

Type correctness is proved for every state machine; TLC checks it in the invocation run and
has checked it elsewhere on the way to the proof.

Only model-checked:

* liveness: `Terminates` of a sweep and of an update, `ScriptsEnd`, and the liveness parts of
  the refinements of FleetSweep and Rpc; temporal reasoning about fairness and ENABLED is out of
  this prover's reach.

## 5. What is not modelled

* **Rendering, jq, JSON and the wire types' decoding**: data, without control the properties
  depend on. That `--jq` may fail is modelled.
* **The parsing of credentials from the environment**, the masking of keys.
* **The feed's XML**, the table of place names, and `bwg incidents <id>`.
* **The content of the tools' results** in the MCP server; the verdict that `bwg_incidents`
  shares with `bwg incidents` is in Incidents, one server's failure beside the others in FleetMap.
* **`bwg ssh`'s child**, shell completion, the install script, version stamping.
* **A power cut**: a kill ends the process, not the machine, so that the missing fsync in
  `Save` is out of reach.

## 6. What is left

1. The environment's credentials, and `Load`'s validation, as operators with a property on
   which pair of VEID and key is used.
2. A fleet register that every save replaces, as an abstraction of ConfigStore for one writer
   at a time.
