----------------------------- MODULE FleetConfig -----------------------------
(***************************************************************************)
(* The fleet as a value: what config.Config's methods and the `bwg server` *)
(* subcommands make of it, and the rules by which a command picks one      *)
(* server of it.                                                           *)
(***************************************************************************)
EXTENDS Naturals, Sequences, FiniteSets

CONSTANTS
  Name,    \* server names that ValidateName accepts
  Veid,    \* VPS IDs
  Key,     \* API keys
  Note,    \* notes; the other optional settings behave alike
  NoNote,  \* a server without a note
  NoName,  \* no server: an empty Default, a flag that was not given
  Env,     \* the reserved name of the server in the environment
  Absent   \* no server of this name

SeqOps == INSTANCE SequencesExt

Server == [veid : Veid, key : Key, note : Note \cup {NoNote}]
ASSUME FleetAssumption == Absent \notin Server

Config == [servers : [Name -> Server \cup {Absent}], default : Name \cup {NoName}]

Empty == [servers |-> [n \in Name |-> Absent], default |-> NoName]

Names(cfg) == {n \in Name : cfg.servers[n] # Absent}
Veids(cfg) == {cfg.servers[n].veid : n \in Names(cfg)}

\* Files bwg itself may have left behind: a default is one of the servers.
Sound(cfg) == cfg.default = NoName \/ cfg.default \in Names(cfg)

Put(cfg, n, s) == [cfg EXCEPT !.servers[n] = s]

\* Config.Add, of a name that is free.
Add(cfg, n, s, makeDefault) ==
  [Put(cfg, n, s) EXCEPT
     !.default = IF makeDefault \/ Names(cfg) = {} THEN n ELSE @]

\* Config.Remove, of a name that is there: a default that went is replaced by
\* the only server left, if there is just one.
\* (Mutant: the default stays.)
RemoveOnly(cfg, n) == Put(cfg, n, Absent)

Remove(cfg, n) ==
  LET left == Names(cfg) \ {n}
      kept == IF cfg.default = n THEN NoName ELSE cfg.default
  IN  [Put(cfg, n, Absent) EXCEPT
         !.default = IF kept = NoName /\ Cardinality(left) = 1
                     THEN CHOOSE m \in left : TRUE ELSE kept]

----------------------------------------------------------------------------
(* server import *)

\* One row of the CSV: skipped if its VEID is known, or if Add fails because
\* its name is taken; --dry-run does not call Add.  (ParseCSV has already made
\* the names of the file distinct and valid.)
\* (Mutant: the VEIDs are not looked up.)
ImportRowByName(acc, row, dryRun) ==
  IF ~dryRun /\ row.name \in Names(acc.cfg) THEN acc
  ELSE [cfg   |-> IF dryRun THEN acc.cfg ELSE Add(acc.cfg, row.name, row.server, FALSE),
        known |-> acc.known \cup {row.server.veid},
        added |-> Append(acc.added, row.name)]

ImportRow(acc, row, dryRun) ==
  IF row.server.veid \in acc.known THEN acc
  ELSE IF ~dryRun /\ row.name \in Names(acc.cfg) THEN acc
  ELSE [cfg   |-> IF dryRun THEN acc.cfg ELSE Add(acc.cfg, row.name, row.server, FALSE),
        known |-> acc.known \cup {row.server.veid},
        added |-> Append(acc.added, row.name)]

\* The rows one after another: what there is after each number of them.
ImportRows(cfg, rows, dryRun) ==
  LET after[n \in 0..Len(rows)] ==
        IF n = 0 THEN [cfg |-> cfg, known |-> Veids(cfg), added |-> <<>>]
        ELSE ImportRow(after[n - 1], rows[n], dryRun)
  IN  after

\* All the rows; then --default, which counts for a single added row only.
Import(cfg, rows, makeDefault, dryRun) ==
  LET done == ImportRows(cfg, rows, dryRun)[Len(rows)]
  IN  IF makeDefault /\ ~dryRun /\ Len(done.added) = 1
      THEN [done EXCEPT !.cfg.default = done.added[1]]
      ELSE done

----------------------------------------------------------------------------
(* What a subcommand saves *)

\* The fleet a job saves, given the one it loaded: none if it fails or has
\* nothing to save.  server set changes the flags that were passed; a key or a
\* note that was not is NoName.
\* server add takes the hostname for a note that was not passed, when it asked.
Noted(s) ==
  {s} \cup IF s.note = NoNote THEN {[s EXCEPT !.note = hostname] : hostname \in Note} ELSE {}

Added(cfg, job) ==
  {Add(cfg, n, s, job.makeDefault) : n \in {job.name} \ Names(cfg), s \in Noted(job.server)}

\* (Mutant: set does not ask whether --note was passed.)
SetUnasked(cfg, job) ==
  {Put(cfg, n, [cfg.servers[n] EXCEPT
                  !.key = IF job.key = NoName THEN @ ELSE job.key,
                  !.note = IF job.note = NoName THEN NoNote ELSE job.note]) :
     n \in {job.name} \cap Names(cfg)}

Set(cfg, job) ==
  {Put(cfg, n, [cfg.servers[n] EXCEPT
                  !.key = IF job.key = NoName THEN @ ELSE job.key,
                  !.note = IF job.note = NoName THEN @ ELSE job.note]) :
     n \in {job.name} \cap Names(cfg)}

Removed(cfg, job) == {Remove(cfg, n) : n \in {job.name} \cap Names(cfg)}

SetDefault(cfg, job) == {[cfg EXCEPT !.default = n] : n \in {job.name} \cap Names(cfg)}

Imported(cfg, job) ==
  LET done == Import(cfg, job.rows, job.makeDefault, job.dryRun)
  IN  IF job.dryRun \/ done.added = <<>> THEN {} ELSE {done.cfg}

Edits(cfg, job) ==
  IF job.kind = "add" THEN Added(cfg, job)
  ELSE IF job.kind = "set" THEN Set(cfg, job)
  ELSE IF job.kind = "rm" THEN Removed(cfg, job)
  ELSE IF job.kind = "default" THEN SetDefault(cfg, job)
  ELSE Imported(cfg, job)

----------------------------------------------------------------------------
(* Config.Resolve *)

\* The server a command acts on: --server, else $BWG_SERVER, else credentials
\* in the environment, else the default, else the only server there is.
Lookup(cfg, n, creds) ==
  IF n = Env THEN IF creds THEN Env ELSE "not found"
  ELSE IF n \in Names(cfg) THEN n ELSE "not found"

Resolve(cfg, flag, envServer, creds) ==
  IF flag # NoName THEN Lookup(cfg, flag, creds)
  ELSE IF envServer # NoName THEN Lookup(cfg, envServer, creds)
  ELSE IF creds THEN Env
  ELSE IF cfg.default # NoName THEN Lookup(cfg, cfg.default, creds)
  ELSE IF Names(cfg) = {} THEN "none configured"
  ELSE IF Cardinality(Names(cfg)) = 1 THEN CHOOSE n \in Names(cfg) : TRUE
  ELSE "ambiguous"

=============================================================================
