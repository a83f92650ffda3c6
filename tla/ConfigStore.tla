----------------------------- MODULE ConfigStore -----------------------------
(***************************************************************************)
(* Several `bwg server` subcommands on one config file: each loads it,     *)
(* edits its copy and saves the copy through a temporary file.  There is   *)
(* no lock, a process may be killed anywhere, and every disk call may      *)
(* fail, the one that cleans up after a failure included.                  *)
(***************************************************************************)
EXTENDS FleetConfig

CONSTANTS
  Proc,    \* the processes
  Job,     \* the subcommands they may run, with their flags
  NoFile,  \* there is no such file
  Torn     \* a file cut short

ASSUME StoreAssumption ==
  /\ NoFile \notin Config /\ Torn \notin Config /\ NoFile # Torn
  /\ {Env, "not found"} \cap Name = {}
  /\ \A j \in Job :
       /\ j.kind \in {"add", "set", "rm", "default", "import"}
       /\ j.kind = "add" => j.name \in Name /\ j.server \in Server
       /\ j.kind = "set" => j.key \in Key \cup {NoName} /\ j.note \in Note \cup {NoNote, NoName}
       /\ j.kind = "import" =>
            j.rows \in Seq([name : Name, server : Server]) /\ j.dryRun \in BOOLEAN

VARIABLES
  file,    \* the config file
  job,     \* per process: what it runs
  pc,      \* per process: where it stands
  loaded,  \* per process: the fleet it read
  cfg,     \* per process: the fleet it edited
  tmp,     \* per process: its temporary file
  faults,  \* history: how many disk calls of the process's save have failed
  stale    \* history: the processes during whose run another one has saved

vars == <<file, job, pc, loaded, cfg, tmp, faults, stale>>

TypeOK ==
  /\ file \in Config \cup {NoFile, Torn}
  /\ job \in [Proc -> Job]
  /\ pc \in [Proc -> {"load", "check", "edit", "create", "write", "close", "rename", "cleanup",
                      "end", "killed"}]
  /\ loaded \in [Proc -> Config]
  /\ cfg \in [Proc -> Config]
  /\ tmp \in [Proc -> Config \cup {NoFile, Torn}]
  /\ faults \in [Proc -> Nat]
  /\ stale \in SUBSET Proc

Init ==
  /\ file \in {c \in Config : Sound(c)} \cup {NoFile}
  /\ job \in [Proc -> Job]
  /\ pc = [p \in Proc |-> "load"]
  /\ loaded = [p \in Proc |-> Empty]
  /\ cfg = [p \in Proc |-> Empty]
  /\ tmp = [p \in Proc |-> NoFile]
  /\ faults = [p \in Proc |-> 0]
  /\ stale = {}

Goto(p, place) == pc' = [pc EXCEPT ![p] = place]

\* A disk call of Save: it works, or it fails and the save goes elsewhere.
Works(p, place) == Goto(p, place) /\ UNCHANGED faults
Fails(p, place) == Goto(p, place) /\ faults' = [faults EXCEPT ![p] = @ + 1]

\* config.Load, from App.Init: no file is an empty fleet; a file that cannot be
\* read, or that does not parse, ends the command.
\* (Mutant: the notes are not read back.)
LoadNoNotes(p) ==
  /\ pc[p] = "load"
  /\ Goto(p, "check")
  /\ loaded' = [loaded EXCEPT ![p] =
       IF file = NoFile THEN Empty
       ELSE [file EXCEPT !.servers = [n \in Name |-> IF n \in Names(file)
                                                    THEN [@[n] EXCEPT !.note = NoNote]
                                                    ELSE Absent]]]
  /\ UNCHANGED <<file, job, cfg, tmp, faults, stale>>

Load(p) ==
  /\ pc[p] = "load"
  /\ \/ Goto(p, "end") /\ UNCHANGED loaded
     \/ /\ file # Torn
        /\ Goto(p, "check")
        /\ loaded' = [loaded EXCEPT ![p] = IF file = NoFile THEN Empty ELSE file]
  /\ UNCHANGED <<file, job, cfg, tmp, faults, stale>>

\* Before the edit, and ending the command if it fails: server add asks the API
\* whether the pair works, server set validates, server rm asks a person,
\* server import parses the CSV.
Check(p) ==
  /\ pc[p] = "check"
  /\ Goto(p, "edit") \/ (job[p].kind # "default" /\ Goto(p, "end"))
  /\ UNCHANGED <<file, job, loaded, cfg, tmp, faults, stale>>

\* The edit of the copy in memory; without one there is nothing to save.
Edit(p) ==
  /\ pc[p] = "edit"
  /\ \/ \E c \in Edits(loaded[p], job[p]) :
          cfg' = [cfg EXCEPT ![p] = c] /\ Goto(p, "create")
     \/ Edits(loaded[p], job[p]) = {} /\ Goto(p, "end") /\ UNCHANGED cfg
  /\ UNCHANGED <<file, job, loaded, tmp, faults, stale>>

----------------------------------------------------------------------------
(* Config.Save *)

\* MkdirAll and CreateTemp.
Create(p) ==
  /\ pc[p] = "create"
  /\ \/ tmp' = [tmp EXCEPT ![p] = Torn] /\ Works(p, "write")
     \/ UNCHANGED tmp /\ Fails(p, "end")
  /\ UNCHANGED <<file, job, loaded, cfg, stale>>

\* Chmod and Write: until it is closed, the file may hold any part of the data.
\* (Mutant: the fleet is written over the old one.)
WriteInPlace(p) ==
  /\ pc[p] = "write"
  /\ file' = Torn
  /\ Works(p, "close")
  /\ UNCHANGED <<job, loaded, cfg, tmp, stale>>

Write(p) ==
  /\ pc[p] = "write"
  /\ Works(p, "close") \/ Fails(p, "cleanup")
  /\ UNCHANGED <<file, job, loaded, cfg, tmp, stale>>

Close(p) ==
  /\ pc[p] = "close"
  /\ \/ tmp' = [tmp EXCEPT ![p] = cfg[p]] /\ Works(p, "rename")
     \/ UNCHANGED tmp /\ Fails(p, "cleanup")
  /\ UNCHANGED <<file, job, loaded, cfg, stale>>

\* The rename replaces the config file in one step; the removal after it then
\* finds nothing.
Rename(p) ==
  /\ pc[p] = "rename"
  /\ \/ /\ file' = tmp[p]
        /\ tmp' = [tmp EXCEPT ![p] = NoFile]
        /\ stale' = stale \cup {q \in Proc \ {p} : pc[q] \notin {"load", "end", "killed"}}
        /\ Works(p, "end")
     \/ UNCHANGED <<file, tmp, stale>> /\ Fails(p, "cleanup")
  /\ UNCHANGED <<job, loaded, cfg>>

\* The deferred os.Remove of the temporary file, after a failure; whether it
\* fails too, nobody asks.
\* (Mutant: there is none.)
CleanupForgotten(p) ==
  /\ pc[p] = "cleanup"
  /\ Goto(p, "end")
  /\ UNCHANGED <<file, job, loaded, cfg, tmp, faults, stale>>

Cleanup(p) ==
  /\ pc[p] = "cleanup"
  /\ \/ tmp' = [tmp EXCEPT ![p] = NoFile] /\ Works(p, "end")
     \/ UNCHANGED tmp /\ Fails(p, "end")
  /\ UNCHANGED <<file, job, loaded, cfg, stale>>

\* Killed anywhere, with its temporary file left where it is.
Kill(p) ==
  /\ pc[p] \notin {"end", "killed"}
  /\ Goto(p, "killed")
  /\ UNCHANGED <<file, job, loaded, cfg, tmp, faults, stale>>

Step(p) ==
  \/ Load(p) \/ Check(p) \/ Edit(p)
  \/ Create(p) \/ Write(p) \/ Close(p) \/ Rename(p) \/ Cleanup(p)
  \/ Kill(p)

Over == \A p \in Proc : pc[p] \in {"end", "killed"}

Next == (\E p \in Proc : Step(p)) \/ (Over /\ UNCHANGED vars)

Spec == Init /\ [][Next]_vars

----------------------------------------------------------------------------
(* Properties *)

\* "An interrupted save cannot leave a truncated fleet behind", whoever else
\* saves or is killed meanwhile.
FileIsWhole == file # Torn

\* Whatever add, rm, default and import made of the fleet, in whatever order
\* and over whichever of each other's saves: a bare command never stumbles on
\* a default that is not there.
DefaultIsThere ==
  file \in Config => Resolve(file, NoName, NoName, FALSE) # "not found"

\* The temporary file holds every API key.  No single failure leaves it behind,
\* at whatever step of the save: only a kill does, or a second failure, of the
\* removal itself, of which the command says nothing.
NoKeysLeftBehind ==
  \A p \in Proc : pc[p] = "end" /\ faults[p] <= 1 => tmp[p] = NoFile

\* "Only the flags you pass are changed": of what it loaded, server set saves
\* everything but those.
SetKeepsTheRest ==
  [][\A p \in Proc : job[p].kind = "set" /\ pc[p] = "rename" /\ pc'[p] = "end" =>
       /\ file'.default = loaded[p].default
       /\ \A n \in Name \ {job[p].name} : file'.servers[n] = loaded[p].servers[n]
       /\ job[p].note = NoName =>
            file'.servers[job[p].name].note = loaded[p].servers[job[p].name].note
       /\ job[p].key = NoName =>
            file'.servers[job[p].name].key = loaded[p].servers[job[p].name].key]_vars

\* "so re-importing after buying a box is safe": an import changes no server it
\* found, adds no second name for a VPS, and run again adds nothing.
ImportOnlyAdds ==
  [][\A p \in Proc : job[p].kind = "import" /\ pc[p] = "edit" /\ pc'[p] = "create" =>
       /\ \A n \in Names(loaded[p]) : cfg'[p].servers[n] = loaded[p].servers[n]
       /\ \A n \in Names(cfg'[p]) \ Names(loaded[p]) : \A m \in Names(cfg'[p]) \ {n} :
            cfg'[p].servers[n].veid # cfg'[p].servers[m].veid
       /\ Edits(cfg'[p], job[p]) = {}]_vars

\* What a save changes is its own edit of the file as it stands: unless another
\* subcommand saved between its load and its save, nothing in the file is lost.
NothingLost ==
  [][\A p \in Proc : pc[p] = "rename" /\ pc'[p] = "end" /\ p \notin stale =>
       file' \in Edits(IF file = NoFile THEN Empty ELSE file, job[p])]_vars

----------------------------------------------------------------------------
(* What the documents say and the code does not do *)

\* server set: "Only the flags you pass are changed", of the fleet as it is.
OnlyPassedFlagsChange ==
  [][\A p \in Proc :
       job[p].kind = "set" /\ pc[p] = "rename" /\ pc'[p] = "end" /\ file \in Config =>
         \A n \in Name \ {job[p].name} : file'.servers[n] = file.servers[n]]_vars

=============================================================================
