------------------------------ MODULE Updater ------------------------------
(***************************************************************************)
(* `bwg update`: ask GitHub for the latest release, download it to a       *)
(* temporary file, move the running binary aside to bwg.old, and put the   *)
(* new one in its place by a rename or, across file systems, by a copy.    *)
(* Names and inodes are apart, since a rename moves a file that another    *)
(* process still runs or writes.                                           *)
(***************************************************************************)
EXTENDS Integers

CONSTANTS
  Proc,        \* the processes that run `bwg update`
  Timed,       \* those of them with a deadline: --timeout is above zero
  MaxVersion,  \* bound: releases are numbered 1..MaxVersion, 0 is a dev build
  MaxFaults,   \* bound: the disk calls that may fail in one process
  None         \* no inode

Version   == 0..MaxVersion
NoVersion == -1

ASSUME UpdaterAssumption == MaxVersion \in Nat /\ MaxFaults \in Nat /\ Timed \subseteq Proc

\* The inodes: the binary first installed, each process's download and copy.
Orig    == [kind |-> "orig"]
Temp(p) == [kind |-> "temp", by |-> p]
Copy(p) == [kind |-> "copy", by |-> p]
Inode   == {Orig} \cup {Temp(p) : p \in Proc} \cup {Copy(p) : p \in Proc}

ASSUME NoneAssumption == None \notin Inode

VARIABLES
  path,        \* which inode bwg and bwg.old name
  data,        \* per inode: the version in it, if it is all there, if it may be run
  tmp,         \* per process: what its temporary file names
  sameFS,      \* $TMPDIR and the binary are on one file system
  latest,      \* the latest release
  pc,          \* per process: where it stands
  image,       \* per process: the inode it runs
  fd,          \* per process: the inode its copy is written to
  release,     \* per process: the release it was told of
  over,        \* per process: its context has ended
  faults,      \* per process: the disk calls that failed
  result,      \* per process: how the command ended
  overlapped,  \* history: a process was started while another ran
  unremoved    \* history: the processes whose removal of their download failed

disk  == <<path, data, tmp>>
local == <<image, fd, release, over>>
vars  == <<disk, sameFS, latest, pc, local, faults, result, overlapped, unremoved>>

Asking     == {"check", "download", "extract"}
Installing == {"aside", "swap", "open", "copy", "chmod", "remove", "restore", "emit", "cleanup"}

Alive(p) == pc[p] \in Asking \cup Installing

\* "failed": before Replace.  "uninstalled": Replace failed, and the message
\* says where the download is.  "unprinted": installed, but --jq failed.
Result == {"none", "current", "failed", "uninstalled", "installed", "unprinted"}

TypeOK ==
  /\ path \in [{"bin", "old"} -> Inode \cup {None}]
  /\ data \in [Inode -> [ver : Version, whole : BOOLEAN, exec : BOOLEAN]]
  /\ tmp \in [Proc -> Inode \cup {None}]
  /\ sameFS \in BOOLEAN
  /\ latest \in Version
  /\ pc \in [Proc -> {"idle", "done", "killed"} \cup Asking \cup Installing]
  /\ image \in [Proc -> Inode]
  /\ fd \in [Proc -> Inode \cup {None}]
  /\ release \in [Proc -> Version]
  /\ over \in [Proc -> BOOLEAN]
  /\ faults \in [Proc -> 0..MaxFaults]
  /\ result \in [Proc -> Result]
  /\ overlapped \in BOOLEAN
  /\ unremoved \in SUBSET Proc

Usable(i) == i # None /\ data[i].whole /\ data[i].exec

Init ==
  /\ path = [bin |-> Orig, old |-> None]
  /\ \E v \in Version :
       data = [i \in Inode |-> [ver |-> v, whole |-> i = Orig, exec |-> i = Orig]]
  /\ tmp = [p \in Proc |-> None]
  /\ sameFS \in BOOLEAN
  /\ latest \in Version
  /\ pc = [p \in Proc |-> "idle"]
  /\ image = [p \in Proc |-> Orig]
  /\ fd = [p \in Proc |-> None]
  /\ release = [p \in Proc |-> 0]
  /\ over = [p \in Proc |-> FALSE]
  /\ faults = [p \in Proc |-> 0]
  /\ result = [p \in Proc |-> "none"]
  /\ overlapped = FALSE
  /\ unremoved = {}

Goto(p, place) == pc' = [pc EXCEPT ![p] = place] /\ UNCHANGED result
End(p, how)    == pc' = [pc EXCEPT ![p] = "done"] /\ result' = [result EXCEPT ![p] = how]
Fails(p, place) == pc' = [pc EXCEPT ![p] = place] /\ result' = [result EXCEPT ![p] = "uninstalled"]
Fault(p)       == faults[p] < MaxFaults /\ faults' = [faults EXCEPT ![p] = @ + 1]
NoFault        == UNCHANGED faults

\* os.Remove of the temporary file, if it still has that name: it works, or it
\* fails, which nobody asks.
Discard(p) ==
  \/ tmp' = [tmp EXCEPT ![p] = None] /\ UNCHANGED unremoved
  \/ tmp[p] # None /\ unremoved' = unremoved \cup {p} /\ UNCHANGED tmp

----------------------------------------------------------------------------
(* Asking GitHub *)

\* A user runs the file at the path: the process keeps its inode.
Start(p) ==
  /\ pc[p] = "idle"
  /\ Usable(path["bin"])
  /\ image' = [image EXCEPT ![p] = path["bin"]]
  /\ overlapped' = (overlapped \/ \E q \in Proc : Alive(q))
  /\ Goto(p, "check")
  /\ UNCHANGED <<disk, sameFS, latest, fd, release, over, faults, unremoved>>

\* newer: strictly, so that the same version is never installed again.
\* (Mutant: not strictly.)
NewerOrEqual(a, b) == a >= b

Newer(a, b) == a > b

\* CheckLatest answers.  There may be no update, only --check may be asked for,
\* the platform may have no asset.
CheckLatest(p) ==
  /\ pc[p] = "check" /\ ~over[p]
  /\ release' = [release EXCEPT ![p] = latest]
  /\ \/ ~Newer(latest, data[image[p]].ver) /\ (End(p, "current") \/ End(p, "unprinted"))
     \/ Newer(latest, data[image[p]].ver)
        /\ (Goto(p, "download") \/ End(p, "current") \/ End(p, "failed"))
  /\ UNCHANGED <<disk, sameFS, latest, image, fd, over, faults, overlapped, unremoved>>

\* The archive arrives, and writeTemp creates the temporary file.
Download(p) ==
  /\ pc[p] = "download" /\ ~over[p]
  /\ \/ /\ tmp' = [tmp EXCEPT ![p] = Temp(p)]
        /\ data' = [data EXCEPT ![Temp(p)] = [ver |-> release[p], whole |-> FALSE, exec |-> FALSE]]
        /\ Goto(p, "extract") /\ NoFault
     \/ End(p, "failed") /\ Fault(p) /\ UNCHANGED <<tmp, data>>
  /\ UNCHANGED <<path, sameFS, latest, local, overlapped, unremoved>>

\* The rest of writeTemp: the bytes, the mode, the close; after a failure of one
\* of them it removes the file.
Extract(p) ==
  /\ pc[p] = "extract" /\ ~over[p]
  /\ \/ /\ data' = [data EXCEPT ![Temp(p)] = [@ EXCEPT !.whole = TRUE, !.exec = TRUE]]
        /\ Goto(p, "aside") /\ NoFault /\ UNCHANGED <<tmp, unremoved>>
     \/ Discard(p) /\ End(p, "failed") /\ Fault(p) /\ UNCHANGED data
  /\ UNCHANGED <<path, sameFS, latest, local, overlapped>>

\* An exchange fails: GitHub refuses or breaks off, or the context is over.
\* writeTemp then removes what it had of the archive.
AskFails(p) ==
  /\ pc[p] \in Asking
  /\ Discard(p)
  /\ End(p, "failed")
  /\ UNCHANGED <<path, data, sameFS, latest, local, faults, overlapped>>

GiveUp(p) == over[p] /\ AskFails(p)

\* The deadline of the command, if it has one, or Ctrl-C: only the exchanges look
\* at its context.
\* (Mutant: the download has a context of its own.)
ContextEndsAtCheck(p) ==
  /\ pc[p] = "check" /\ ~over[p]
  /\ over' = [over EXCEPT ![p] = TRUE]
  /\ UNCHANGED <<disk, sameFS, latest, pc, image, fd, release, faults, result, overlapped, unremoved>>

ContextEnds(p) ==
  /\ pc[p] \in Asking /\ ~over[p]
  /\ over' = [over EXCEPT ![p] = TRUE]
  /\ UNCHANGED <<disk, sameFS, latest, pc, image, fd, release, faults, result, overlapped, unremoved>>

Expire(p) == p \in Timed /\ ContextEnds(p)

----------------------------------------------------------------------------
(* Replace and installCopy *)

\* The running binary moves aside, over the last backup.
\* (Mutant: it is removed.)
AsideByRemove(p) ==
  /\ pc[p] = "aside"
  /\ \/ /\ path["bin"] # None
        /\ path' = [path EXCEPT !["bin"] = None]
        /\ Goto(p, "swap") /\ NoFault
     \/ Fails(p, "cleanup") /\ UNCHANGED path
        /\ IF path["bin"] = None THEN NoFault ELSE Fault(p)
  /\ UNCHANGED <<data, tmp, sameFS, latest, local, overlapped, unremoved>>

Aside(p) ==
  /\ pc[p] = "aside"
  /\ \/ /\ path["bin"] # None
        /\ path' = [path EXCEPT !["old"] = path["bin"], !["bin"] = None]
        /\ Goto(p, "swap") /\ NoFault
     \/ Fails(p, "cleanup") /\ UNCHANGED path
        /\ IF path["bin"] = None THEN NoFault ELSE Fault(p)
  /\ UNCHANGED <<data, tmp, sameFS, latest, local, overlapped, unremoved>>

\* The download takes the binary's name; across file systems it cannot.
Swap(p) ==
  /\ pc[p] = "swap"
  /\ \/ /\ sameFS
        /\ path' = [path EXCEPT !["bin"] = tmp[p]]
        /\ tmp' = [tmp EXCEPT ![p] = None]
        /\ Goto(p, "emit") /\ NoFault
     \/ /\ Goto(p, "open") /\ UNCHANGED <<path, tmp>>
        /\ IF sameFS THEN Fault(p) ELSE NoFault
  /\ UNCHANGED <<data, sameFS, latest, local, overlapped, unremoved>>

\* Creates the file, or truncates what is there by now.  A file that is being
\* run cannot be opened for writing.  The umask decides if a new one may be run.
Open(p) ==
  /\ pc[p] = "open"
  /\ \/ /\ path["bin"] = None
        /\ path' = [path EXCEPT !["bin"] = Copy(p)]
        /\ fd' = [fd EXCEPT ![p] = Copy(p)]
        /\ \E x \in BOOLEAN : data' = [data EXCEPT
             ![Copy(p)] = [ver |-> release[p], whole |-> FALSE, exec |-> x]]
        /\ Goto(p, "copy") /\ NoFault
     \/ /\ path["bin"] # None
        /\ \A q \in Proc : Alive(q) => image[q] # path["bin"]
        /\ fd' = [fd EXCEPT ![p] = path["bin"]]
        /\ data' = [data EXCEPT ![path["bin"]] = [@ EXCEPT !.ver = release[p], !.whole = FALSE]]
        /\ Goto(p, "copy") /\ NoFault /\ UNCHANGED path
     \/ /\ Fails(p, "restore") /\ UNCHANGED <<path, data, fd>>
        /\ IF path["bin"] = None THEN Fault(p) ELSE NoFault
  /\ UNCHANGED <<tmp, sameFS, latest, image, release, over, overlapped, unremoved>>

\* io.Copy, Sync and Close: the bytes are all there, or one of them failed.
\* (Mutant: the error of the copy is dropped.)
WriteUnchecked(p) ==
  /\ pc[p] = "copy"
  /\ Goto(p, "chmod")
  /\ \/ data' = [data EXCEPT ![fd[p]] = [@ EXCEPT !.whole = TRUE]] /\ NoFault
     \/ Fault(p) /\ UNCHANGED data
  /\ UNCHANGED <<path, tmp, sameFS, latest, local, overlapped, unremoved>>

Write(p) ==
  /\ pc[p] = "copy"
  /\ \/ /\ data' = [data EXCEPT ![fd[p]] = [@ EXCEPT !.whole = TRUE]]
        /\ Goto(p, "chmod") /\ NoFault
     \/ Fails(p, "remove") /\ Fault(p) /\ UNCHANGED data
  /\ UNCHANGED <<path, tmp, sameFS, latest, local, overlapped, unremoved>>

\* By name: whatever has the binary's name by now may be run.
Chmod(p) ==
  /\ pc[p] = "chmod"
  /\ \/ /\ path["bin"] # None
        /\ data' = [data EXCEPT ![path["bin"]] = [@ EXCEPT !.exec = TRUE]]
        /\ Goto(p, "emit") /\ NoFault
     \/ Fails(p, "restore") /\ UNCHANGED data
        /\ IF path["bin"] = None THEN NoFault ELSE Fault(p)
  /\ UNCHANGED <<path, tmp, sameFS, latest, local, overlapped, unremoved>>

\* By name too, and an error is ignored.
Remove(p) ==
  /\ pc[p] = "remove"
  /\ Goto(p, "restore")
  /\ \/ path' = [path EXCEPT !["bin"] = None] /\ NoFault
     \/ UNCHANGED path /\ Fault(p)
  /\ UNCHANGED <<data, tmp, sameFS, latest, local, overlapped, unremoved>>

\* The backup takes its old name again; an error is ignored.
\* (Mutant: it is not renamed back.)
RestoreForgotten(p) ==
  /\ pc[p] = "restore"
  /\ Goto(p, "cleanup") /\ NoFault
  /\ UNCHANGED <<disk, sameFS, latest, local, overlapped, unremoved>>

Restore(p) ==
  /\ pc[p] = "restore"
  /\ Goto(p, "cleanup")
  /\ \/ /\ path["old"] # None
        /\ path' = [path EXCEPT !["bin"] = path["old"], !["old"] = None]
        /\ NoFault
     \/ /\ UNCHANGED path
        /\ IF path["old"] = None THEN NoFault ELSE Fault(p)
  /\ UNCHANGED <<data, tmp, sameFS, latest, local, overlapped, unremoved>>

Emit(p) ==
  /\ pc[p] = "emit"
  /\ pc' = [pc EXCEPT ![p] = "cleanup"]
  /\ \E r \in {"installed", "unprinted"} : result' = [result EXCEPT ![p] = r]
  /\ UNCHANGED <<disk, sameFS, latest, local, faults, overlapped, unremoved>>

\* The deferred os.Remove of the temporary file.
\* (Mutant: only after a success.)
CleanupOnSuccess(p) ==
  /\ pc[p] = "cleanup"
  /\ IF result[p] = "uninstalled" THEN UNCHANGED <<tmp, unremoved>> ELSE Discard(p)
  /\ pc' = [pc EXCEPT ![p] = "done"]
  /\ UNCHANGED <<path, data, sameFS, latest, local, faults, result, overlapped>>

Cleanup(p) ==
  /\ pc[p] = "cleanup"
  /\ Discard(p)
  /\ pc' = [pc EXCEPT ![p] = "done"]
  /\ UNCHANGED <<path, data, sameFS, latest, local, faults, result, overlapped>>

----------------------------------------------------------------------------
(* Around it *)

\* Ended by a signal that cannot be caught, or with the terminal's session.
Kill(p) ==
  /\ Alive(p)
  /\ pc' = [pc EXCEPT ![p] = "killed"]
  /\ UNCHANGED <<disk, sameFS, latest, local, faults, result, overlapped, unremoved>>

\* "a bad release can be recovered by renaming it back", by a person, when no
\* update is under way.
RenameBack ==
  /\ \A p \in Proc : ~Alive(p)
  /\ path["old"] # None
  /\ path' = [path EXCEPT !["bin"] = path["old"], !["old"] = None]
  /\ UNCHANGED <<data, tmp, sameFS, latest, pc, local, faults, result, overlapped, unremoved>>

Publish ==
  /\ latest < MaxVersion
  /\ latest' = latest + 1
  /\ UNCHANGED <<disk, sameFS, pc, local, faults, result, overlapped, unremoved>>

\* What the process does by itself once it has the archive.
Install(p) ==
  \/ Aside(p) \/ Swap(p) \/ Open(p) \/ Write(p) \/ Chmod(p)
  \/ Remove(p) \/ Restore(p) \/ Emit(p) \/ Cleanup(p)

Step(p) ==
  \/ Start(p) \/ CheckLatest(p) \/ Download(p) \/ Extract(p) \/ AskFails(p)
  \/ ContextEnds(p) \/ Install(p) \/ Kill(p)

Quiet == \A p \in Proc : ~Alive(p)

Next ==
  \/ \E p \in Proc : Step(p)
  \/ RenameBack \/ Publish
  \/ Quiet /\ UNCHANGED vars

\* The process runs on, and a deadline passes where there is one; GitHub need not
\* answer, and nobody has to press Ctrl-C.
Fairness == \A p \in Proc : WF_vars(Install(p)) /\ WF_vars(GiveUp(p)) /\ WF_vars(Expire(p))

Spec == Init /\ [][Next]_vars /\ Fairness

----------------------------------------------------------------------------
(* Properties *)

Faultless == \A p \in Proc : faults[p] = 0

\* Killed or failing anywhere, in one update after the other, or in two at once
\* that need no copy: a bwg that runs is at its path or one rename away.
Recoverable ==
  ~overlapped \/ (sameFS /\ Faultless) => Usable(path["bin"]) \/ Usable(path["old"])

\* "Whatever happens, the old binary goes back if the install does not
\* complete", as long as no more than one thing went wrong.
OneFaultIsHealed ==
  [][\A p \in Proc : pc[p] = "cleanup" /\ pc'[p] = "done" /\ result[p] = "uninstalled" =>
       overlapped \/ faults[p] > 1 \/ path["bin"] = image[p]]_vars

\* A finished update has put the release it announced, a newer one, at the
\* path, and keeps the binary it ran as .old, "so a bad release can be recovered".
InstalledIsTheRelease ==
  [][\A p \in Proc : pc[p] = "cleanup" /\ pc'[p] = "done" /\ result[p] \in {"installed", "unprinted"} =>
       \/ overlapped
       \/ /\ Usable(path["bin"]) /\ data[path["bin"]].ver = release[p]
          /\ release[p] > data[image[p]].ver
          /\ path["old"] = image[p] /\ Usable(image[p])]_vars

\* Every way out but a kill removes the download; it stays only where that very
\* removal fails.
NoDownloadLeft == \A p \in Proc \ unremoved : pc[p] = "done" => tmp[p] = None

\* The version one runs or can rename back only goes up by an update, and down
\* to the one before it: what bwg promises, for updates one at a time.
VersionOf(i) == IF Usable(i) THEN data[i].ver ELSE NoVersion

Promise == INSTANCE Installed WITH
  Nothing <- NoVersion,
  current <- IF Usable(path["bin"]) THEN VersionOf(path["bin"]) ELSE VersionOf(path["old"]),
  spare   <- IF Usable(path["bin"]) THEN VersionOf(path["old"]) ELSE NoVersion,
  shared  <- overlapped

PromiseSpec == Promise!Spec

\* Whatever GitHub does, an update with a deadline ends; and so does any, once it
\* has the archive.  With --timeout 0 it waits for GitHub as long as that takes.
Terminates ==
  \A p \in Proc : Alive(p) /\ (p \in Timed \/ pc[p] \in Installing) ~> ~Alive(p)

----------------------------------------------------------------------------
(* What the code says and does not do *)

\* "The downloaded binary is at %s — install it manually."
AdvisedFileIsThere ==
  \A p \in Proc : pc[p] = "done" /\ result[p] = "uninstalled" => tmp[p] # None

=============================================================================
