--------------------------- MODULE UpdaterProofs ---------------------------
(***************************************************************************)
(* What `bwg update` keeps true for any number of processes, releases and  *)
(* failing disk calls.  IInv is inductive: the inodes of a process are its *)
(* own until it gives them a name (Fresh, Temps), updates that need no     *)
(* copy leave only binaries that run (Still), and updates one at a time    *)
(* keep the binary they run at one of the two names (Solo).                *)
(***************************************************************************)
EXTENDS Updater, TLAPS

\* Some name, some process or some open file leads to it.
Named(i) == path["bin"] = i \/ path["old"] = i \/ \E q \in Proc : fd[q] = i \/ image[q] = i

Placed == {"emit", "cleanup", "done", "killed"}

\* The download and the copy of a process are known to no one before it puts
\* them in place.
Fresh == \A p \in Proc :
  /\ Named(Temp(p)) => pc[p] \in Placed
  /\ Named(Copy(p)) => pc[p] \in Placed \cup {"copy", "chmod", "remove", "restore"}

\* The temporary file, and what it holds.
Temps == \A p \in Proc :
  /\ tmp[p] \in {None, Temp(p)}
  /\ pc[p] \in {"idle", "check", "download"} => tmp[p] = None
  /\ pc[p] = "done" => tmp[p] = None \/ p \in unremoved
  /\ pc[p] \in {"extract", "aside", "swap"} => tmp[p] = Temp(p) /\ data[Temp(p)].ver = release[p]
  /\ pc[p] \in {"aside", "swap"} => data[Temp(p)].whole /\ data[Temp(p)].exec

\* Where a process that runs alone has the binary it runs, and the new one.
Place(p) ==
  /\ Usable(image[p]) /\ image[p] # Temp(p) /\ image[p] # Copy(p)
  /\ pc[p] \in Asking \cup {"aside"} => path["bin"] = image[p]
  /\ pc[p] \in {"swap", "open", "copy", "chmod", "remove", "restore", "emit"} =>
       path["old"] = image[p]
  /\ pc[p] \in {"swap", "open"} => path["bin"] = None
  /\ pc[p] \in {"copy", "chmod", "remove"} => path["bin"] = Copy(p)
  /\ pc[p] = "copy" => fd[p] = Copy(p)
  /\ pc[p] \in {"copy", "chmod", "remove", "restore"} =>
       path["bin"] = None \/ (path["bin"] = Copy(p) /\ data[Copy(p)].ver = release[p])
  /\ pc[p] \in {"copy", "remove"} => ~data[Copy(p)].whole
  /\ pc[p] = "chmod" => data[Copy(p)].whole
  /\ pc[p] = "emit" => Usable(path["bin"]) /\ data[path["bin"]].ver = release[p]
  /\ pc[p] \notin {"check"} => release[p] > data[image[p]].ver
  /\ pc[p] \in {"remove", "restore"} => faults[p] >= 1 /\ result[p] = "uninstalled"
  /\ pc[p] = "cleanup" /\ result[p] = "uninstalled" =>
       path["bin"] = image[p] \/ (path["old"] = image[p] /\ faults[p] >= 2)
  /\ pc[p] = "cleanup" /\ result[p] # "uninstalled" =>
       path["old"] = image[p] /\ Usable(path["bin"]) /\ data[path["bin"]].ver = release[p]

Alone == \A p, q \in Proc : Alive(p) /\ Alive(q) => p = q

\* Updates one at a time.
Solo == ~overlapped =>
  /\ Alone
  /\ \A p \in Proc : Alive(p) => Place(p)
  /\ path["old"] # None => Usable(path["old"])
  /\ Usable(path["bin"]) \/ Usable(path["old"])

\* Updates that need no copy, at once or not.
Still == sameFS /\ Faultless =>
  /\ \A p \in Proc : pc[p] \notin {"open", "copy", "chmod", "remove", "restore"}
  /\ path["bin"] # None => Usable(path["bin"])
  /\ path["old"] # None => Usable(path["old"])
  /\ path["bin"] # None \/ path["old"] # None

IInv == TypeOK /\ Fresh /\ Temps /\ Solo /\ Still

----------------------------------------------------------------------------
(* Inodes *)

LEMMA Inodes ==
  ASSUME NEW p \in Proc, NEW q \in Proc
  PROVE  /\ Orig \in Inode /\ Temp(p) \in Inode /\ Copy(p) \in Inode
         /\ Orig # Temp(p) /\ Orig # Copy(p) /\ Temp(p) # Copy(q)
         /\ (p # q => Temp(p) # Temp(q) /\ Copy(p) # Copy(q))
<1>1. Orig.kind = "orig" /\ Temp(p).kind = "temp" /\ Copy(p).kind = "copy" /\ Copy(q).kind = "copy"
  BY DEF Orig, Temp, Copy
<1>2. Temp(p).by = p /\ Temp(q).by = q /\ Copy(p).by = p /\ Copy(q).by = q
  BY DEF Temp, Copy
<1>3. Orig \in Inode /\ Temp(p) \in Inode /\ Copy(p) \in Inode
  BY DEF Inode
<1> QED
  BY <1>1, <1>2, <1>3


File == [ver : Version, whole : BOOLEAN, exec : BOOLEAN]

LEMMA TypedData ==
  ASSUME TypeOK, NEW p \in Proc, NEW i \in Inode
  PROVE  /\ \A r \in File : [data EXCEPT ![i] = r] \in [Inode -> File]
         /\ \A x \in BOOLEAN : [ver |-> release[p], whole |-> FALSE, exec |-> x] \in File
         /\ [data[i] EXCEPT !.whole = TRUE] \in File
         /\ [data[i] EXCEPT !.exec = TRUE] \in File
         /\ [data[i] EXCEPT !.whole = TRUE, !.exec = TRUE] \in File
         /\ [data[i] EXCEPT !.ver = release[p], !.whole = FALSE] \in File
<1>1. data \in [Inode -> File] /\ data[i] \in File /\ release[p] \in Version
  BY DEF TypeOK, File
<1>2. \A r \in File : [data EXCEPT ![i] = r] \in [Inode -> File]
  BY <1>1
<1>3. /\ \A x \in BOOLEAN : [ver |-> release[p], whole |-> FALSE, exec |-> x] \in File
      /\ [data[i] EXCEPT !.whole = TRUE] \in File
      /\ [data[i] EXCEPT !.exec = TRUE] \in File
      /\ [data[i] EXCEPT !.whole = TRUE, !.exec = TRUE] \in File
      /\ [data[i] EXCEPT !.ver = release[p], !.whole = FALSE] \in File
  BY <1>1 DEF File
<1> QED
  BY <1>2, <1>3

LEMMA TypedPath ==
  ASSUME TypeOK, NEW j \in Inode \cup {None}, NEW k \in Inode \cup {None}
  PROVE  /\ [path EXCEPT !["bin"] = j] \in [{"bin", "old"} -> Inode \cup {None}]
         /\ [path EXCEPT !["bin"] = j, !["old"] = k] \in [{"bin", "old"} -> Inode \cup {None}]
         /\ [path EXCEPT !["old"] = j, !["bin"] = k] \in [{"bin", "old"} -> Inode \cup {None}]
BY DEF TypeOK

LEMMA Counted ==
  ASSUME TypeOK, NEW p \in Proc, NoFault \/ Fault(p)
  PROVE  faults' \in [Proc -> 0..MaxFaults]
<1>1. CASE NoFault
  BY <1>1 DEF NoFault, TypeOK
<1>2. CASE Fault(p)
  <2>1. faults[p] + 1 \in 0..MaxFaults
    BY <1>2, UpdaterAssumption DEF Fault, TypeOK
  <2> QED
    BY <1>2, <2>1 DEF Fault, TypeOK
<1> QED
  BY <1>1, <1>2


\* A step of the only process there is.
LEMMA SoleStep ==
  ASSUME Solo, NEW p \in Proc, Alive(p), overlapped' = overlapped,
         \A q \in Proc \ {p} : pc'[q] = pc[q],
         ~overlapped => /\ Alive(p)' => Place(p)'
                        /\ path'["old"] # None => Usable(path["old"])'
                        /\ Usable(path["bin"])' \/ Usable(path["old"])'
  PROVE  Solo'
<1> SUFFICES ASSUME ~overlapped
             PROVE  /\ Alone'
                    /\ \A q \in Proc : Alive(q)' => Place(q)'
  BY DEF Solo
<1>1. \A q \in Proc : Alive(q)' => q = p
  BY DEF Solo, Alone, Alive
<1> QED
  BY <1>1 DEF Alone

LEMMA StartStep ==
  ASSUME IInv, NEW p \in Proc, Start(p)
  PROVE  IInv'
<1>0. TypeOK /\ Fresh /\ Temps /\ Solo /\ Still
  BY DEF IInv
<1>1. TypeOK'
  BY <1>0, UpdaterAssumption, NoneAssumption, Inodes DEF TypeOK, Start, Goto, End, Fails, Fault, NoFault, disk, local, Asking, Installing, Result, Version, Usable
<1>2. Fresh'
  BY <1>0, NoneAssumption, Inodes DEF TypeOK, Fresh, Temps, Named, Placed, Start, Goto, End, Fails, Fault, NoFault, disk, local, Asking, Installing, Alive
<1>3. Temps'
  BY <1>0, NoneAssumption, Inodes DEF TypeOK, Fresh, Temps, Named, Placed, Start, Goto, End, Fails, Fault, NoFault, disk, local, Asking, Installing
<1>4. Solo'
  <2> SUFFICES ASSUME ~overlapped'
               PROVE  /\ Alone'
                      /\ \A q \in Proc : Alive(q)' => Place(q)'
                      /\ (path["old"] # None => Usable(path["old"]))'
                      /\ (Usable(path["bin"]) \/ Usable(path["old"]))'
    BY DEF Solo
  <2>1. ~overlapped /\ \A q \in Proc : ~Alive(q)
    BY <1>0 DEF Start, TypeOK
  <2>2. path' = path /\ data' = data /\ image'[p] = path["bin"] /\ pc'[p] = "check"
    BY <1>0 DEF Start, Goto, disk, TypeOK
  <2>3. \A q \in Proc \ {p} : pc'[q] = pc[q]
    BY <1>0 DEF Start, Goto, TypeOK
  <2>4. \A q \in Proc : Alive(q)' => q = p
    BY <2>1, <2>3 DEF Alive
  <2>5. Usable(path["bin"]) /\ path["bin"] # Temp(p) /\ path["bin"] # Copy(p)
    BY <1>0 DEF Start, Fresh, Named, Placed
  <2>6. Usable(path["bin"])' /\ Usable(image[p])'
    BY <2>2, <2>5 DEF Usable
  <2>7. Place(p)'
    BY <2>2, <2>5, <2>6 DEF Place, Asking
  <2>8. (path["old"] # None => Usable(path["old"]))'
    BY <1>0, <2>1, <2>2 DEF Solo, Usable
  <2> QED
    BY <2>4, <2>6, <2>7, <2>8 DEF Alone
<1>5. Still'
  BY <1>0, NoneAssumption, Inodes DEF TypeOK, Fresh, Temps, Named, Placed, Still, Faultless, Usable, Start, Goto, End, Fails, Fault, NoFault, disk, local, Asking, Installing
<1> QED
  BY <1>1, <1>2, <1>3, <1>4, <1>5 DEF IInv

LEMMA CheckLatestStep ==
  ASSUME IInv, NEW p \in Proc, CheckLatest(p)
  PROVE  IInv'
<1>0. TypeOK /\ Fresh /\ Temps /\ Solo /\ Still
  BY DEF IInv
<1>1. TypeOK'
  BY <1>0, UpdaterAssumption, NoneAssumption, Inodes DEF TypeOK, CheckLatest, Goto, End, Fails, Fault, NoFault, disk, local, Asking, Installing, Result, Version, Usable
<1>2. Fresh'
  BY <1>0, NoneAssumption, Inodes DEF TypeOK, Fresh, Temps, Named, Placed, CheckLatest, Goto, End, Fails, Fault, NoFault, disk, local, Asking, Installing, Alive
<1>3. Temps'
  BY <1>0, NoneAssumption, Inodes DEF TypeOK, Fresh, Temps, Named, Placed, CheckLatest, Goto, End, Fails, Fault, NoFault, disk, local, Asking, Installing
<1>4. Solo'
  <2>1. Alive(p) /\ overlapped' = overlapped /\ \A q \in Proc \ {p} : pc'[q] = pc[q]
    BY <1>0 DEF CheckLatest, Goto, End, Fails, Alive, Asking, Installing, TypeOK, local
  <2> SUFFICES ASSUME ~overlapped
               PROVE  /\ Alive(p)' => Place(p)'
                      /\ path'["old"] # None => Usable(path["old"])'
                      /\ Usable(path["bin"])' \/ Usable(path["old"])'
    BY <1>0, <2>1, SoleStep
  <2>2. Place(p) /\ (path["old"] # None => Usable(path["old"]))
    BY <1>0, <2>1 DEF Solo
  <2> QED
    BY <1>0, <2>2, NoneAssumption, Inodes DEF CheckLatest, Goto, End, Fails, Fault, NoFault, disk, local, TypeOK, Fresh, Temps, Named, Placed, Place, Usable, Alive, Asking, Installing, Newer
<1>5. Still'
  BY <1>0, NoneAssumption, Inodes DEF TypeOK, Fresh, Temps, Named, Placed, Still, Faultless, Usable, CheckLatest, Goto, End, Fails, Fault, NoFault, disk, local, Asking, Installing
<1> QED
  BY <1>1, <1>2, <1>3, <1>4, <1>5 DEF IInv

LEMMA DownloadStep ==
  ASSUME IInv, NEW p \in Proc, Download(p)
  PROVE  IInv'
<1>0. TypeOK /\ Fresh /\ Temps /\ Solo /\ Still
  BY DEF IInv
<1>1. TypeOK'
  <2>1. path' \in [{"bin", "old"} -> Inode \cup {None}]
    BY <1>0, TypedPath DEF Download, Goto, Fails, TypeOK, disk
  <2>2. data' \in [Inode -> File]
    <3>1. CASE data' = [data EXCEPT ![Temp(p)] = [ver |-> release[p], whole |-> FALSE, exec |-> FALSE]]
      BY <1>0, <3>1, TypedData, Inodes
    <3>2. CASE UNCHANGED data
      BY <1>0, <3>2 DEF TypeOK, File
    <3> QED
      BY <3>1, <3>2 DEF Download
  <2>3. faults' \in [Proc -> 0..MaxFaults]
    BY <1>0, Counted DEF Download
  <2>4. /\ fd' \in [Proc -> Inode \cup {None}]
        /\ image' = image /\ release' = release /\ over' = over
        /\ sameFS' = sameFS /\ latest' = latest /\ overlapped' = overlapped
    BY <1>0 DEF Download, TypeOK, local
  <2>5. /\ pc' \in [Proc -> {"idle", "done", "killed"} \cup Asking \cup Installing]
        /\ result' \in [Proc -> Result]
    BY <1>0 DEF Download, Goto, End, Fails, TypeOK, Asking, Installing, Result
  <2>6. unremoved' \in SUBSET Proc
    BY <1>0 DEF Download, TypeOK
  <2>7. tmp' \in [Proc -> Inode \cup {None}]
    <3>1. tmp' = tmp \/ tmp' = [tmp EXCEPT ![p] = Temp(p)]
      BY DEF Download
    <3>2. tmp \in [Proc -> Inode \cup {None}] /\ Temp(p) \in Inode
      BY <1>0, Inodes DEF TypeOK
    <3> QED
      BY <3>1, <3>2
  <2> QED
    BY <1>0, <2>1, <2>2, <2>3, <2>4, <2>5, <2>6, <2>7 DEF TypeOK, File
<1>2. Fresh'
  BY <1>0, NoneAssumption, Inodes DEF TypeOK, Fresh, Temps, Named, Placed, Download, Goto, End, Fails, Fault, NoFault, disk, local, Asking, Installing, Alive
<1>3. Temps'
  BY <1>0, NoneAssumption, Inodes DEF TypeOK, Fresh, Temps, Named, Placed, Download, Goto, End, Fails, Fault, NoFault, disk, local, Asking, Installing
<1>4. Solo'
  <2>1. Alive(p) /\ overlapped' = overlapped /\ \A q \in Proc \ {p} : pc'[q] = pc[q]
    BY <1>0 DEF Download, Goto, End, Fails, Alive, Asking, Installing, TypeOK, local
  <2> SUFFICES ASSUME ~overlapped
               PROVE  /\ Alive(p)' => Place(p)'
                      /\ path'["old"] # None => Usable(path["old"])'
                      /\ Usable(path["bin"])' \/ Usable(path["old"])'
    BY <1>0, <2>1, SoleStep
  <2>2. Place(p) /\ (path["old"] # None => Usable(path["old"]))
    BY <1>0, <2>1 DEF Solo
  <2>3. image[p] \in Inode /\ path["bin"] \in Inode \cup {None} /\ path["old"] \in Inode \cup {None}
    BY <1>0 DEF TypeOK
  <2>4. \A i \in Inode : i # Temp(p) => data'[i] = data[i]
    BY <1>0 DEF Download, TypeOK
  <2>5. path["bin"] = image[p] /\ path["old"] # Temp(p) /\ image[p] # Temp(p)
    BY <1>0, <2>2 DEF Download, Fresh, Named, Place, Asking, Placed
  <2>6. path' = path /\ image' = image /\ release' = release
    BY DEF Download, local
  <2>7. Usable(image[p]) /\ data'[image[p]] = data[image[p]] /\ Usable(image[p])'
    BY <2>2, <2>3, <2>4, <2>5, <2>6 DEF Usable, Place
  <2>8. path'["old"] # None => Usable(path["old"])'
    BY <2>2, <2>3, <2>4, <2>5, <2>6 DEF Usable
  <2>9. Alive(p)' => pc'[p] \in {"extract", "aside"}
    BY <1>0 DEF Download, Goto, End, TypeOK, Alive, Asking, Installing
  <2>10. pc[p] # "check" /\ image[p] # Copy(p) /\ release[p] > data[image[p]].ver
    BY <2>2 DEF Download, Place
  <2>11. Alive(p)' => Place(p)'
    BY <2>5, <2>6, <2>7, <2>9, <2>10 DEF Place, Asking
  <2> QED
    BY <2>5, <2>6, <2>7, <2>8, <2>11
<1>5. Still'
  <2> SUFFICES ASSUME (sameFS /\ Faultless)'
               PROVE  /\ \A q \in Proc : pc'[q] \notin {"open", "copy", "chmod", "remove", "restore"}
                      /\ path["bin"]' # None => Usable(path["bin"])'
                      /\ path["old"]' # None => Usable(path["old"])'
                      /\ path["bin"]' # None \/ path["old"]' # None
    BY DEF Still
  <2>1. sameFS /\ Faultless
    BY <1>0 DEF Download, Faultless, Fault, NoFault, TypeOK
  <2>2. path' = path /\ path["bin"] # Temp(p) /\ path["old"] # Temp(p)
    BY <1>0 DEF Download, Fresh, Named, Placed
  <2>3. \A i \in Inode : i # Temp(p) => data'[i] = data[i]
    BY <1>0 DEF Download, TypeOK
  <2>4. path["bin"] \in Inode \cup {None} /\ path["old"] \in Inode \cup {None}
    BY <1>0 DEF TypeOK
  <2>5. \A q \in Proc : pc'[q] = pc[q] \/ pc'[q] \in {"extract", "aside", "done"}
    BY <1>0 DEF Download, Goto, End, TypeOK
  <2> QED
    BY <1>0, <2>1, <2>2, <2>3, <2>4, <2>5 DEF Still, Usable
<1> QED
  BY <1>1, <1>2, <1>3, <1>4, <1>5 DEF IInv

LEMMA ExtractStep ==
  ASSUME IInv, NEW p \in Proc, Extract(p)
  PROVE  IInv'
<1>0. TypeOK /\ Fresh /\ Temps /\ Solo /\ Still
  BY DEF IInv
<1>1. TypeOK'
  <2>1. path' \in [{"bin", "old"} -> Inode \cup {None}]
    BY <1>0, TypedPath DEF Extract, Goto, Fails, TypeOK, disk
  <2>2. data' \in [Inode -> File]
    <3>1. CASE data' = [data EXCEPT ![Temp(p)] = [@ EXCEPT !.whole = TRUE, !.exec = TRUE]]
      <4>1. data' = [data EXCEPT ![Temp(p)] = [data[Temp(p)] EXCEPT !.whole = TRUE, !.exec = TRUE]]
        BY <3>1
      <4> QED
        BY <1>0, <4>1, TypedData, Inodes
    <3>2. CASE UNCHANGED data
      BY <1>0, <3>2 DEF TypeOK, File
    <3> QED
      BY <3>1, <3>2 DEF Extract
  <2>3. faults' \in [Proc -> 0..MaxFaults]
    BY <1>0, Counted DEF Extract
  <2>4. /\ tmp' \in [Proc -> Inode \cup {None}] /\ fd' \in [Proc -> Inode \cup {None}]
        /\ image' = image /\ release' = release /\ over' = over
        /\ sameFS' = sameFS /\ latest' = latest /\ overlapped' = overlapped
        /\ unremoved' \in SUBSET Proc
    BY <1>0, Inodes DEF Extract, Discard, TypeOK, local, disk
  <2>5. /\ pc' \in [Proc -> {"idle", "done", "killed"} \cup Asking \cup Installing]
        /\ result' \in [Proc -> Result]
    BY <1>0 DEF Extract, Goto, End, Fails, TypeOK, Asking, Installing, Result
  <2> QED
    BY <1>0, <2>1, <2>2, <2>3, <2>4, <2>5 DEF TypeOK, File
<1>2. Fresh'
  BY <1>0, NoneAssumption, Inodes DEF TypeOK, Fresh, Temps, Named, Placed, Extract, Goto, End, Fails, Fault, NoFault, Discard, disk, local, Asking, Installing, Alive
<1>3. Temps'
  <2>1. Temp(p) \in Inode /\ \A q \in Proc \ {p} : Temp(q) \in Inode /\ Temp(q) # Temp(p)
    BY Inodes
  <2>2. /\ release' = release /\ unremoved \subseteq unremoved'
        /\ \A q \in Proc \ {p} : pc'[q] = pc[q] /\ tmp'[q] = tmp[q]
    BY <1>0 DEF Extract, Discard, Goto, End, local, TypeOK
  <2>3. \A q \in Proc \ {p} : data'[Temp(q)] = data[Temp(q)]
    BY <1>0, <2>1 DEF Extract, TypeOK
  <2>4. /\ data'[Temp(p)].ver = data[Temp(p)].ver
        /\ pc'[p] = "done" \/ (data'[Temp(p)].whole /\ data'[Temp(p)].exec)
    <3>1. data[Temp(p)] \in File
      BY <1>0, <2>1 DEF TypeOK, File
    <3>2. /\ [data[Temp(p)] EXCEPT !.whole = TRUE, !.exec = TRUE].ver = data[Temp(p)].ver
          /\ [data[Temp(p)] EXCEPT !.whole = TRUE, !.exec = TRUE].whole
          /\ [data[Temp(p)] EXCEPT !.whole = TRUE, !.exec = TRUE].exec
      BY <3>1 DEF File
    <3>3. \/ data'[Temp(p)] = [data[Temp(p)] EXCEPT !.whole = TRUE, !.exec = TRUE]
          \/ data' = data /\ pc'[p] = "done"
      BY <1>0, <2>1 DEF Extract, End, TypeOK
    <3> QED
      BY <3>2, <3>3
  <2>5. \/ pc'[p] = "aside" /\ tmp'[p] = Temp(p) /\ data'[Temp(p)].whole /\ data'[Temp(p)].exec
        \/ pc'[p] = "done" /\ tmp'[p] \in {None, Temp(p)} /\ (tmp'[p] = None \/ p \in unremoved')
    BY <1>0, <2>1, <2>4 DEF Extract, Discard, Goto, End, Temps, TypeOK
  <2>6. data[Temp(p)].ver = release[p]
    BY <1>0 DEF Temps, Extract
  <2> QED
    BY <1>0, <2>2, <2>3, <2>4, <2>5, <2>6 DEF Temps
<1>4. Solo'
  <2>1. Alive(p) /\ overlapped' = overlapped /\ \A q \in Proc \ {p} : pc'[q] = pc[q]
    BY <1>0 DEF Extract, Goto, End, Fails, Alive, Asking, Installing, TypeOK, local
  <2> SUFFICES ASSUME ~overlapped
               PROVE  /\ Alive(p)' => Place(p)'
                      /\ path'["old"] # None => Usable(path["old"])'
                      /\ Usable(path["bin"])' \/ Usable(path["old"])'
    BY <1>0, <2>1, SoleStep
  <2>2. Place(p) /\ (path["old"] # None => Usable(path["old"]))
    BY <1>0, <2>1 DEF Solo
  <2>3. image[p] \in Inode /\ path["bin"] \in Inode \cup {None} /\ path["old"] \in Inode \cup {None}
    BY <1>0 DEF TypeOK
  <2>4. \A i \in Inode : i # Temp(p) => data'[i] = data[i]
    BY <1>0 DEF Extract, TypeOK
  <2>5. path["bin"] = image[p] /\ path["old"] # Temp(p) /\ image[p] # Temp(p)
    BY <1>0, <2>2 DEF Extract, Fresh, Named, Place, Asking, Placed
  <2>6. path' = path /\ image' = image /\ release' = release
    BY DEF Extract, local
  <2>7. Usable(image[p]) /\ data'[image[p]] = data[image[p]] /\ Usable(image[p])'
    BY <2>2, <2>3, <2>4, <2>5, <2>6 DEF Usable, Place
  <2>8. path'["old"] # None => Usable(path["old"])'
    BY <2>2, <2>3, <2>4, <2>5, <2>6 DEF Usable
  <2>9. Alive(p)' => pc'[p] \in {"extract", "aside"}
    BY <1>0 DEF Extract, Goto, End, TypeOK, Alive, Asking, Installing
  <2>10. pc[p] # "check" /\ image[p] # Copy(p) /\ release[p] > data[image[p]].ver
    BY <2>2 DEF Extract, Place
  <2>11. Alive(p)' => Place(p)'
    BY <2>5, <2>6, <2>7, <2>9, <2>10 DEF Place, Asking
  <2> QED
    BY <2>5, <2>6, <2>7, <2>8, <2>11
<1>5. Still'
  <2> SUFFICES ASSUME (sameFS /\ Faultless)'
               PROVE  /\ \A q \in Proc : pc'[q] \notin {"open", "copy", "chmod", "remove", "restore"}
                      /\ path["bin"]' # None => Usable(path["bin"])'
                      /\ path["old"]' # None => Usable(path["old"])'
                      /\ path["bin"]' # None \/ path["old"]' # None
    BY DEF Still
  <2>1. sameFS /\ Faultless
    BY <1>0 DEF Extract, Faultless, Fault, NoFault, TypeOK
  <2>2. path' = path /\ path["bin"] # Temp(p) /\ path["old"] # Temp(p)
    BY <1>0 DEF Extract, Fresh, Named, Placed
  <2>3. \A i \in Inode : i # Temp(p) => data'[i] = data[i]
    BY <1>0 DEF Extract, TypeOK
  <2>4. path["bin"] \in Inode \cup {None} /\ path["old"] \in Inode \cup {None}
    BY <1>0 DEF TypeOK
  <2>5. \A q \in Proc : pc'[q] = pc[q] \/ pc'[q] \in {"extract", "aside", "done"}
    BY <1>0 DEF Extract, Goto, End, TypeOK
  <2> QED
    BY <1>0, <2>1, <2>2, <2>3, <2>4, <2>5 DEF Still, Usable
<1> QED
  BY <1>1, <1>2, <1>3, <1>4, <1>5 DEF IInv

LEMMA AskFailsStep ==
  ASSUME IInv, NEW p \in Proc, AskFails(p)
  PROVE  IInv'
<1>0. TypeOK /\ Fresh /\ Temps /\ Solo /\ Still
  BY DEF IInv
<1>1. TypeOK'
  BY <1>0, UpdaterAssumption, NoneAssumption, Inodes DEF TypeOK, AskFails, Goto, End, Fails, Fault, NoFault, Discard, disk, local, Asking, Installing, Result, Version, Usable
<1>2. Fresh'
  BY <1>0, NoneAssumption, Inodes DEF TypeOK, Fresh, Temps, Named, Placed, AskFails, Goto, End, Fails, Fault, NoFault, Discard, disk, local, Asking, Installing, Alive
<1>3. Temps'
  BY <1>0, NoneAssumption, Inodes DEF TypeOK, Fresh, Temps, Named, Placed, AskFails, Goto, End, Fails, Fault, NoFault, Discard, disk, local, Asking, Installing
<1>4. Solo'
  BY <1>0, NoneAssumption, Inodes DEF TypeOK, Fresh, Temps, Named, Placed, Solo, Alone, Place, Alive, Usable, AskFails, Goto, End, Fails, Fault, NoFault, Discard, disk, local, Asking, Installing, Newer
<1>5. Still'
  BY <1>0, NoneAssumption, Inodes DEF TypeOK, Fresh, Temps, Named, Placed, Still, Faultless, Usable, AskFails, Goto, End, Fails, Fault, NoFault, Discard, disk, local, Asking, Installing
<1> QED
  BY <1>1, <1>2, <1>3, <1>4, <1>5 DEF IInv

LEMMA ContextEndsStep ==
  ASSUME IInv, NEW p \in Proc, ContextEnds(p)
  PROVE  IInv'
<1>0. TypeOK /\ Fresh /\ Temps /\ Solo /\ Still
  BY DEF IInv
<1>1. TypeOK'
  BY <1>0, UpdaterAssumption, NoneAssumption, Inodes DEF TypeOK, ContextEnds, Goto, End, Fails, Fault, NoFault, disk, local, Asking, Installing, Result, Version, Usable
<1>2. Fresh'
  BY <1>0, NoneAssumption, Inodes DEF TypeOK, Fresh, Temps, Named, Placed, ContextEnds, Goto, End, Fails, Fault, NoFault, disk, local, Asking, Installing, Alive
<1>3. Temps'
  BY <1>0, NoneAssumption, Inodes DEF TypeOK, Fresh, Temps, Named, Placed, ContextEnds, Goto, End, Fails, Fault, NoFault, disk, local, Asking, Installing
<1>4. Solo'
  BY <1>0, NoneAssumption, Inodes DEF TypeOK, Fresh, Temps, Named, Placed, Solo, Alone, Place, Alive, Usable, ContextEnds, Goto, End, Fails, Fault, NoFault, disk, local, Asking, Installing, Newer
<1>5. Still'
  BY <1>0, NoneAssumption, Inodes DEF TypeOK, Fresh, Temps, Named, Placed, Still, Faultless, Usable, ContextEnds, Goto, End, Fails, Fault, NoFault, disk, local, Asking, Installing
<1> QED
  BY <1>1, <1>2, <1>3, <1>4, <1>5 DEF IInv

LEMMA AsideStep ==
  ASSUME IInv, NEW p \in Proc, Aside(p)
  PROVE  IInv'
<1>0. TypeOK /\ Fresh /\ Temps /\ Solo /\ Still
  BY DEF IInv
<1>1. TypeOK'
  <2>1. path' \in [{"bin", "old"} -> Inode \cup {None}]
    BY <1>0, TypedPath DEF Aside, Goto, Fails, TypeOK, disk
  <2>2. data' \in [Inode -> File]
    BY <1>0 DEF Aside, TypeOK, File, disk
  <2>3. faults' \in [Proc -> 0..MaxFaults]
    BY <1>0, Counted DEF Aside
  <2>4. /\ tmp' \in [Proc -> Inode \cup {None}] /\ fd' \in [Proc -> Inode \cup {None}]
        /\ image' = image /\ release' = release /\ over' = over
        /\ sameFS' = sameFS /\ latest' = latest /\ overlapped' = overlapped
        /\ unremoved' \in SUBSET Proc
    BY <1>0, Inodes DEF Aside, TypeOK, local, disk
  <2>5. /\ pc' \in [Proc -> {"idle", "done", "killed"} \cup Asking \cup Installing]
        /\ result' \in [Proc -> Result]
    BY <1>0 DEF Aside, Goto, End, Fails, TypeOK, Asking, Installing, Result
  <2> QED
    BY <1>0, <2>1, <2>2, <2>3, <2>4, <2>5 DEF TypeOK, File
<1>2. Fresh'
  <2>1. /\ path'["bin"] \in {path["bin"], None} /\ path'["old"] \in {path["bin"], path["old"]}
        /\ fd' = fd /\ image' = image
    BY <1>0 DEF Aside, TypeOK, local
  <2>2. (\A q \in Proc \ {p} : pc'[q] = pc[q]) /\ pc'[p] \in {"swap", "cleanup"} /\ pc[p] = "aside"
    BY <1>0 DEF Aside, Goto, Fails, TypeOK
  <2>3. \A i \in Inode : Named(i)' => Named(i)
    BY <2>1, NoneAssumption DEF Named
  <2>4. \A q \in Proc : Temp(q) \in Inode /\ Copy(q) \in Inode
    BY Inodes
  <2> QED
    BY <1>0, <2>2, <2>3, <2>4 DEF Fresh, Placed
<1>3. Temps'
  BY <1>0, NoneAssumption, Inodes DEF TypeOK, Fresh, Temps, Named, Placed, Aside, Goto, End, Fails, Fault, NoFault, disk, local, Asking, Installing
<1>4. Solo'
  <2>1. Alive(p) /\ overlapped' = overlapped /\ \A q \in Proc \ {p} : pc'[q] = pc[q]
    BY <1>0 DEF Aside, Goto, End, Fails, Alive, Asking, Installing, TypeOK, local
  <2> SUFFICES ASSUME ~overlapped
               PROVE  /\ Alive(p)' => Place(p)'
                      /\ path'["old"] # None => Usable(path["old"])'
                      /\ Usable(path["bin"])' \/ Usable(path["old"])'
    BY <1>0, <2>1, SoleStep
  <2>2. Place(p) /\ (path["old"] # None => Usable(path["old"]))
    BY <1>0, <2>1 DEF Solo
  <2> QED
    BY <1>0, <2>2, NoneAssumption, Inodes DEF Aside, Goto, End, Fails, Fault, NoFault, disk, local, TypeOK, Fresh, Temps, Named, Placed, Place, Usable, Alive, Asking, Installing, Newer
<1>5. Still'
  BY <1>0, NoneAssumption, Inodes DEF TypeOK, Fresh, Temps, Named, Placed, Still, Faultless, Usable, Aside, Goto, End, Fails, Fault, NoFault, disk, local, Asking, Installing
<1> QED
  BY <1>1, <1>2, <1>3, <1>4, <1>5 DEF IInv

LEMMA SwapStep ==
  ASSUME IInv, NEW p \in Proc, Swap(p)
  PROVE  IInv'
<1>0. TypeOK /\ Fresh /\ Temps /\ Solo /\ Still
  BY DEF IInv
<1>1. TypeOK'
  <2>1. path' \in [{"bin", "old"} -> Inode \cup {None}]
    <3>1. tmp[p] \in Inode \cup {None}
      BY <1>0 DEF TypeOK
    <3> QED
      BY <1>0, <3>1, TypedPath DEF Swap, TypeOK
  <2>2. data' \in [Inode -> File]
    BY <1>0 DEF Swap, TypeOK, File, disk
  <2>3. faults' \in [Proc -> 0..MaxFaults]
    BY <1>0, Counted DEF Swap
  <2>4. /\ tmp' \in [Proc -> Inode \cup {None}] /\ fd' \in [Proc -> Inode \cup {None}]
        /\ image' = image /\ release' = release /\ over' = over
        /\ sameFS' = sameFS /\ latest' = latest /\ overlapped' = overlapped
        /\ unremoved' \in SUBSET Proc
    BY <1>0, Inodes DEF Swap, TypeOK, local, disk
  <2>5. /\ pc' \in [Proc -> {"idle", "done", "killed"} \cup Asking \cup Installing]
        /\ result' \in [Proc -> Result]
    BY <1>0 DEF Swap, Goto, End, Fails, TypeOK, Asking, Installing, Result
  <2> QED
    BY <1>0, <2>1, <2>2, <2>3, <2>4, <2>5 DEF TypeOK, File
<1>2. Fresh'
  <2>1. tmp[p] = Temp(p)
    BY <1>0 DEF Swap, Temps
  <2>2. path' = path \/ (path' = [path EXCEPT !["bin"] = Temp(p)] /\ pc'[p] = "emit")
    BY <1>0, <2>1 DEF Swap, Goto, TypeOK
  <2>3. path'["bin"] = path["bin"] \/ (path'["bin"] = Temp(p) /\ pc'[p] = "emit")
    BY <1>0, <2>2 DEF TypeOK
  <2>4. path'["old"] = path["old"] /\ fd' = fd /\ image' = image
    BY <1>0, <2>2 DEF TypeOK, Swap, local
  <2>5. (\A q \in Proc \ {p} : pc'[q] = pc[q]) /\ pc'[p] \in {"emit", "open"} /\ pc[p] = "swap"
    BY <1>0 DEF Swap, Goto, TypeOK
  <2>6. \A q \in Proc : Temp(p) # Copy(q) /\ (q # p => Temp(p) # Temp(q))
    BY Inodes
  <2> QED
    BY <1>0, <2>3, <2>4, <2>5, <2>6 DEF Fresh, Named, Placed
<1>3. Temps'
  BY <1>0, NoneAssumption, Inodes DEF TypeOK, Fresh, Temps, Named, Placed, Swap, Goto, End, Fails, Fault, NoFault, disk, local, Asking, Installing
<1>4. Solo'
  <2>1. Alive(p) /\ overlapped' = overlapped /\ \A q \in Proc \ {p} : pc'[q] = pc[q]
    BY <1>0 DEF Swap, Goto, End, Fails, Alive, Asking, Installing, TypeOK, local
  <2> SUFFICES ASSUME ~overlapped
               PROVE  /\ Alive(p)' => Place(p)'
                      /\ path'["old"] # None => Usable(path["old"])'
                      /\ Usable(path["bin"])' \/ Usable(path["old"])'
    BY <1>0, <2>1, SoleStep
  <2>2. Place(p) /\ (path["old"] # None => Usable(path["old"]))
    BY <1>0, <2>1 DEF Solo
  <2> QED
    BY <1>0, <2>2, NoneAssumption, Inodes DEF Swap, Goto, End, Fails, Fault, NoFault, disk, local, TypeOK, Fresh, Temps, Named, Placed, Place, Usable, Alive, Asking, Installing, Newer
<1>5. Still'
  BY <1>0, NoneAssumption, Inodes DEF TypeOK, Fresh, Temps, Named, Placed, Still, Faultless, Usable, Swap, Goto, End, Fails, Fault, NoFault, disk, local, Asking, Installing
<1> QED
  BY <1>1, <1>2, <1>3, <1>4, <1>5 DEF IInv

LEMMA OpenStep ==
  ASSUME IInv, NEW p \in Proc, Open(p)
  PROVE  IInv'
<1>0. TypeOK /\ Fresh /\ Temps /\ Solo /\ Still
  BY DEF IInv
<1>1. TypeOK'
  <2>1. path' \in [{"bin", "old"} -> Inode \cup {None}]
    <3>1. Copy(p) \in Inode \cup {None}
      BY Inodes
    <3> QED
      BY <1>0, <3>1, TypedPath DEF Open, TypeOK
  <2>2. data' \in [Inode -> File]
    <3>1. CASE \E x \in BOOLEAN : data' = [data EXCEPT
               ![Copy(p)] = [ver |-> release[p], whole |-> FALSE, exec |-> x]]
      <4>1. PICK x \in BOOLEAN : data' = [data EXCEPT
                   ![Copy(p)] = [ver |-> release[p], whole |-> FALSE, exec |-> x]]
        BY <3>1
      <4>2. Copy(p) \in Inode
        BY Inodes
      <4>3. [ver |-> release[p], whole |-> FALSE, exec |-> x] \in File
        BY <1>0, <4>2, TypedData
      <4> QED
        BY <1>0, <4>1, <4>2, <4>3, TypedData
    <3>2. CASE /\ path["bin"] # None
               /\ data' = [data EXCEPT ![path["bin"]] = [@ EXCEPT !.ver = release[p], !.whole = FALSE]]
      <4>1. path["bin"] \in Inode
        BY <1>0, <3>2 DEF TypeOK
      <4>2. data' = [data EXCEPT ![path["bin"]] =
                      [data[path["bin"]] EXCEPT !.ver = release[p], !.whole = FALSE]]
        BY <3>2
      <4> QED
        BY <1>0, <4>1, <4>2, TypedData
    <3>3. CASE UNCHANGED data
      BY <1>0, <3>3 DEF TypeOK, File
    <3> QED
      BY <3>1, <3>2, <3>3 DEF Open
  <2>3. faults' \in [Proc -> 0..MaxFaults]
    BY <1>0, Counted DEF Open
  <2>4. /\ tmp' \in [Proc -> Inode \cup {None}] /\ fd' \in [Proc -> Inode \cup {None}]
        /\ image' = image /\ release' = release /\ over' = over
        /\ sameFS' = sameFS /\ latest' = latest /\ overlapped' = overlapped
        /\ unremoved' \in SUBSET Proc
    BY <1>0, Inodes DEF Open, TypeOK, local, disk
  <2>5. /\ pc' \in [Proc -> {"idle", "done", "killed"} \cup Asking \cup Installing]
        /\ result' \in [Proc -> Result]
    BY <1>0 DEF Open, Goto, End, Fails, TypeOK, Asking, Installing, Result
  <2> QED
    BY <1>0, <2>1, <2>2, <2>3, <2>4, <2>5 DEF TypeOK, File
<1>2. Fresh'
  BY <1>0, NoneAssumption, Inodes DEF TypeOK, Fresh, Temps, Named, Placed, Open, Goto, End, Fails, Fault, NoFault, disk, local, Asking, Installing, Alive
<1>3. Temps'
  <2>1. \A q \in Proc : pc[q] \in {"extract", "aside", "swap"} =>
          Temp(q) # path["bin"] /\ Temp(q) # fd[p] /\ Temp(q) # Copy(p) /\ Temp(q) \in Inode
    BY <1>0, Inodes DEF Fresh, Named, Placed
  <2>2. \A q \in Proc : pc[q] \in {"extract", "aside", "swap"} => data'[Temp(q)] = data[Temp(q)]
    BY <1>0, <2>1 DEF Open, TypeOK
  <2>3. tmp' = tmp /\ release' = release /\ unremoved' = unremoved
    BY DEF Open, local
  <2>4. (\A q \in Proc \ {p} : pc'[q] = pc[q]) /\ pc'[p] \in {"copy", "restore"}
    BY <1>0 DEF Open, Goto, Fails, TypeOK
  <2> QED
    BY <1>0, <2>2, <2>3, <2>4 DEF Temps
<1>4. Solo'
  <2>1. Alive(p) /\ overlapped' = overlapped /\ \A q \in Proc \ {p} : pc'[q] = pc[q]
    BY <1>0 DEF Open, Goto, End, Fails, Alive, Asking, Installing, TypeOK, local
  <2> SUFFICES ASSUME ~overlapped
               PROVE  /\ Alive(p)' => Place(p)'
                      /\ path'["old"] # None => Usable(path["old"])'
                      /\ Usable(path["bin"])' \/ Usable(path["old"])'
    BY <1>0, <2>1, SoleStep
  <2>2. Place(p) /\ (path["old"] # None => Usable(path["old"]))
    BY <1>0, <2>1 DEF Solo
  <2> QED
    BY <1>0, <2>2, NoneAssumption, Inodes DEF Open, Goto, End, Fails, Fault, NoFault, disk, local, TypeOK, Fresh, Temps, Named, Placed, Place, Usable, Alive, Asking, Installing, Newer
<1>5. Still'
  BY <1>0, NoneAssumption, Inodes DEF TypeOK, Fresh, Temps, Named, Placed, Still, Faultless, Usable, Open, Goto, End, Fails, Fault, NoFault, disk, local, Asking, Installing
<1> QED
  BY <1>1, <1>2, <1>3, <1>4, <1>5 DEF IInv

LEMMA WriteStep ==
  ASSUME IInv, NEW p \in Proc, Write(p)
  PROVE  IInv'
<1>0. TypeOK /\ Fresh /\ Temps /\ Solo /\ Still
  BY DEF IInv
<1>1. TypeOK'
  <2>1. path' \in [{"bin", "old"} -> Inode \cup {None}]
    BY <1>0, TypedPath DEF Write, Goto, Fails, TypeOK, disk
  <2>2. data' \in [Inode -> File]
    <3>1. CASE fd[p] \in Inode /\ data' = [data EXCEPT ![fd[p]] = [@ EXCEPT !.whole = TRUE]]
      <4>1. data' = [data EXCEPT ![fd[p]] = [data[fd[p]] EXCEPT !.whole = TRUE]]
        BY <3>1
      <4>2. [data[fd[p]] EXCEPT !.whole = TRUE] \in File
        BY <1>0, <3>1, TypedData
      <4>3. \A r \in File : [data EXCEPT ![fd[p]] = r] \in [Inode -> File]
        BY <1>0, <3>1, TypedData
      <4> QED
        BY <4>1, <4>2, <4>3
    <3>2. CASE fd[p] = None /\ data' = [data EXCEPT ![fd[p]] = [@ EXCEPT !.whole = TRUE]]
      BY <1>0, <3>2, NoneAssumption DEF TypeOK, File
    <3>3. CASE UNCHANGED data
      BY <1>0, <3>3 DEF TypeOK, File
    <3>4. fd[p] \in Inode \cup {None}
      BY <1>0 DEF TypeOK
    <3> QED
      BY <3>1, <3>2, <3>3, <3>4 DEF Write
  <2>3. faults' \in [Proc -> 0..MaxFaults]
    BY <1>0, Counted DEF Write
  <2>4. /\ tmp' \in [Proc -> Inode \cup {None}] /\ fd' \in [Proc -> Inode \cup {None}]
        /\ image' = image /\ release' = release /\ over' = over
        /\ sameFS' = sameFS /\ latest' = latest /\ overlapped' = overlapped
        /\ unremoved' \in SUBSET Proc
    BY <1>0, Inodes DEF Write, TypeOK, local, disk
  <2>5. /\ pc' \in [Proc -> {"idle", "done", "killed"} \cup Asking \cup Installing]
        /\ result' \in [Proc -> Result]
    BY <1>0 DEF Write, Goto, End, Fails, TypeOK, Asking, Installing, Result
  <2> QED
    BY <1>0, <2>1, <2>2, <2>3, <2>4, <2>5 DEF TypeOK, File
<1>2. Fresh'
  <2>1. path' = path /\ fd' = fd /\ image' = image
    BY DEF Write, local
  <2>2. (\A q \in Proc \ {p} : pc'[q] = pc[q]) /\ pc'[p] \in {"chmod", "remove"} /\ pc[p] = "copy"
    BY <1>0 DEF Write, Goto, Fails, TypeOK
  <2> QED
    BY <1>0, <2>1, <2>2 DEF Fresh, Named, Placed
<1>3. Temps'
  <2>1. \A q \in Proc : pc[q] \in {"extract", "aside", "swap"} =>
          Temp(q) # path["bin"] /\ Temp(q) # fd[p] /\ Temp(q) # Copy(p) /\ Temp(q) \in Inode
    BY <1>0, Inodes DEF Fresh, Named, Placed
  <2>2. \A q \in Proc : pc[q] \in {"extract", "aside", "swap"} => data'[Temp(q)] = data[Temp(q)]
    BY <1>0, <2>1 DEF Write, TypeOK
  <2>3. tmp' = tmp /\ release' = release /\ unremoved' = unremoved
    BY DEF Write, local
  <2>4. (\A q \in Proc \ {p} : pc'[q] = pc[q]) /\ pc'[p] \in {"chmod", "remove"}
    BY <1>0 DEF Write, Goto, Fails, TypeOK
  <2> QED
    BY <1>0, <2>2, <2>3, <2>4 DEF Temps
<1>4. Solo'
  <2>1. Alive(p) /\ overlapped' = overlapped /\ \A q \in Proc \ {p} : pc'[q] = pc[q]
    BY <1>0 DEF Write, Goto, End, Fails, Alive, Asking, Installing, TypeOK, local
  <2> SUFFICES ASSUME ~overlapped
               PROVE  /\ Alive(p)' => Place(p)'
                      /\ path'["old"] # None => Usable(path["old"])'
                      /\ Usable(path["bin"])' \/ Usable(path["old"])'
    BY <1>0, <2>1, SoleStep
  <2>2. Place(p) /\ (path["old"] # None => Usable(path["old"]))
    BY <1>0, <2>1 DEF Solo
  <2>3. /\ fd[p] = Copy(p) /\ path["bin"] = Copy(p) /\ path["old"] = image[p] /\ image[p] # Copy(p)
        /\ image[p] # Temp(p) /\ image[p] \in Inode /\ Usable(image[p]) /\ ~data[Copy(p)].whole
        /\ data[Copy(p)].ver = release[p] /\ release[p] > data[image[p]].ver
    BY <1>0, <2>2, NoneAssumption, Inodes DEF Write, Place, TypeOK
  <2>4. path' = path /\ image' = image /\ release' = release /\ fd' = fd
    BY DEF Write, local
  <2>5. data'[image[p]] = data[image[p]] /\ data'[Copy(p)].ver = data[Copy(p)].ver
    BY <1>0, <2>3, Inodes DEF Write, TypeOK
  <2>6. Usable(image[p])'
    BY <2>3, <2>4, <2>5 DEF Usable
  <2>7. \/ pc'[p] = "chmod" /\ data'[Copy(p)].whole
        \/ pc'[p] = "remove" /\ ~data'[Copy(p)].whole /\ faults'[p] >= 1 /\ result'[p] = "uninstalled"
    <3>1. Copy(p) \in Inode
      BY Inodes
    <3> QED
      BY <1>0, <2>3, <3>1 DEF Write, Goto, Fails, Fault, TypeOK
  <2>8. Place(p)'
    BY <2>3, <2>4, <2>5, <2>6, <2>7 DEF Place, Asking
  <2> QED
    BY <2>3, <2>4, <2>6, <2>8
<1>5. Still'
  BY <1>0, NoneAssumption, Inodes DEF TypeOK, Fresh, Temps, Named, Placed, Still, Faultless, Usable, Write, Goto, End, Fails, Fault, NoFault, disk, local, Asking, Installing
<1> QED
  BY <1>1, <1>2, <1>3, <1>4, <1>5 DEF IInv

LEMMA ChmodStep ==
  ASSUME IInv, NEW p \in Proc, Chmod(p)
  PROVE  IInv'
<1>0. TypeOK /\ Fresh /\ Temps /\ Solo /\ Still
  BY DEF IInv
<1>1. TypeOK'
  <2>1. path' \in [{"bin", "old"} -> Inode \cup {None}]
    BY <1>0, TypedPath DEF Chmod, Goto, Fails, TypeOK, disk
  <2>2. data' \in [Inode -> File]
    <3>1. CASE /\ path["bin"] # None
               /\ data' = [data EXCEPT ![path["bin"]] = [@ EXCEPT !.exec = TRUE]]
      <4>1. path["bin"] \in Inode
        BY <1>0, <3>1 DEF TypeOK
      <4>2. data' = [data EXCEPT ![path["bin"]] = [data[path["bin"]] EXCEPT !.exec = TRUE]]
        BY <3>1
      <4> QED
        BY <1>0, <4>1, <4>2, TypedData
    <3>2. CASE UNCHANGED data
      BY <1>0, <3>2 DEF TypeOK, File
    <3> QED
      BY <3>1, <3>2 DEF Chmod
  <2>3. faults' \in [Proc -> 0..MaxFaults]
    BY <1>0, Counted DEF Chmod
  <2>4. /\ tmp' \in [Proc -> Inode \cup {None}] /\ fd' \in [Proc -> Inode \cup {None}]
        /\ image' = image /\ release' = release /\ over' = over
        /\ sameFS' = sameFS /\ latest' = latest /\ overlapped' = overlapped
        /\ unremoved' \in SUBSET Proc
    BY <1>0, Inodes DEF Chmod, TypeOK, local, disk
  <2>5. /\ pc' \in [Proc -> {"idle", "done", "killed"} \cup Asking \cup Installing]
        /\ result' \in [Proc -> Result]
    BY <1>0 DEF Chmod, Goto, End, Fails, TypeOK, Asking, Installing, Result
  <2> QED
    BY <1>0, <2>1, <2>2, <2>3, <2>4, <2>5 DEF TypeOK, File
<1>2. Fresh'
  <2>1. path' = path /\ fd' = fd /\ image' = image
    BY DEF Chmod, local
  <2>2. (\A q \in Proc \ {p} : pc'[q] = pc[q]) /\ pc'[p] \in {"emit", "restore"} /\ pc[p] = "chmod"
    BY <1>0 DEF Chmod, Goto, Fails, TypeOK
  <2> QED
    BY <1>0, <2>1, <2>2 DEF Fresh, Named, Placed
<1>3. Temps'
  <2>1. \A q \in Proc : pc[q] \in {"extract", "aside", "swap"} =>
          Temp(q) # path["bin"] /\ Temp(q) # fd[p] /\ Temp(q) # Copy(p) /\ Temp(q) \in Inode
    BY <1>0, Inodes DEF Fresh, Named, Placed
  <2>2. \A q \in Proc : pc[q] \in {"extract", "aside", "swap"} => data'[Temp(q)] = data[Temp(q)]
    BY <1>0, <2>1 DEF Chmod, TypeOK
  <2>3. tmp' = tmp /\ release' = release /\ unremoved' = unremoved
    BY DEF Chmod, local
  <2>4. (\A q \in Proc \ {p} : pc'[q] = pc[q]) /\ pc'[p] \in {"emit", "restore"}
    BY <1>0 DEF Chmod, Goto, Fails, TypeOK
  <2> QED
    BY <1>0, <2>2, <2>3, <2>4 DEF Temps
<1>4. Solo'
  <2>1. Alive(p) /\ overlapped' = overlapped /\ \A q \in Proc \ {p} : pc'[q] = pc[q]
    BY <1>0 DEF Chmod, Goto, End, Fails, Alive, Asking, Installing, TypeOK, local
  <2> SUFFICES ASSUME ~overlapped
               PROVE  /\ Alive(p)' => Place(p)'
                      /\ path'["old"] # None => Usable(path["old"])'
                      /\ Usable(path["bin"])' \/ Usable(path["old"])'
    BY <1>0, <2>1, SoleStep
  <2>2. Place(p) /\ (path["old"] # None => Usable(path["old"]))
    BY <1>0, <2>1 DEF Solo
  <2>3. /\ path["bin"] = Copy(p) /\ path["old"] = image[p] /\ image[p] # Copy(p)
        /\ image[p] # Temp(p) /\ image[p] \in Inode /\ Usable(image[p]) /\ data[Copy(p)].whole
        /\ data[Copy(p)].ver = release[p] /\ release[p] > data[image[p]].ver
        /\ Copy(p) \in Inode /\ Copy(p) # None
    BY <1>0, <2>2, NoneAssumption, Inodes DEF Chmod, Place, TypeOK
  <2>4. path' = path /\ image' = image /\ release' = release /\ fd' = fd
    BY DEF Chmod, local
  <2>5. data'[image[p]] = data[image[p]] /\ data'[Copy(p)].ver = data[Copy(p)].ver
    BY <1>0, <2>3 DEF Chmod, TypeOK
  <2>6. Usable(image[p])'
    BY <2>3, <2>4, <2>5 DEF Usable
  <2>7. \/ pc'[p] = "emit" /\ data'[Copy(p)].whole /\ data'[Copy(p)].exec
        \/ pc'[p] = "restore" /\ faults'[p] >= 1 /\ result'[p] = "uninstalled"
    BY <1>0, <2>3 DEF Chmod, Goto, Fails, Fault, TypeOK
  <2>8. Place(p)'
    BY <2>3, <2>4, <2>5, <2>6, <2>7 DEF Place, Asking, Usable
  <2> QED
    BY <2>3, <2>4, <2>6, <2>8
<1>5. Still'
  BY <1>0, NoneAssumption, Inodes DEF TypeOK, Fresh, Temps, Named, Placed, Still, Faultless, Usable, Chmod, Goto, End, Fails, Fault, NoFault, disk, local, Asking, Installing
<1> QED
  BY <1>1, <1>2, <1>3, <1>4, <1>5 DEF IInv

LEMMA RemoveStep ==
  ASSUME IInv, NEW p \in Proc, Remove(p)
  PROVE  IInv'
<1>0. TypeOK /\ Fresh /\ Temps /\ Solo /\ Still
  BY DEF IInv
<1>1. TypeOK'
  <2>1. path' \in [{"bin", "old"} -> Inode \cup {None}]
    BY <1>0, TypedPath DEF Remove, Goto, Fails, TypeOK, disk
  <2>2. data' \in [Inode -> File]
    BY <1>0 DEF Remove, TypeOK, File, disk
  <2>3. faults' \in [Proc -> 0..MaxFaults]
    BY <1>0, Counted DEF Remove
  <2>4. /\ tmp' \in [Proc -> Inode \cup {None}] /\ fd' \in [Proc -> Inode \cup {None}]
        /\ image' = image /\ release' = release /\ over' = over
        /\ sameFS' = sameFS /\ latest' = latest /\ overlapped' = overlapped
        /\ unremoved' \in SUBSET Proc
    BY <1>0, Inodes DEF Remove, TypeOK, local, disk
  <2>5. /\ pc' \in [Proc -> {"idle", "done", "killed"} \cup Asking \cup Installing]
        /\ result' \in [Proc -> Result]
    BY <1>0 DEF Remove, Goto, End, Fails, TypeOK, Asking, Installing, Result
  <2> QED
    BY <1>0, <2>1, <2>2, <2>3, <2>4, <2>5 DEF TypeOK, File
<1>2. Fresh'
  BY <1>0, NoneAssumption, Inodes DEF TypeOK, Fresh, Temps, Named, Placed, Remove, Goto, End, Fails, Fault, NoFault, disk, local, Asking, Installing, Alive
<1>3. Temps'
  BY <1>0, NoneAssumption, Inodes DEF TypeOK, Fresh, Temps, Named, Placed, Remove, Goto, End, Fails, Fault, NoFault, disk, local, Asking, Installing
<1>4. Solo'
  <2>1. Alive(p) /\ overlapped' = overlapped /\ \A q \in Proc \ {p} : pc'[q] = pc[q]
    BY <1>0 DEF Remove, Goto, End, Fails, Alive, Asking, Installing, TypeOK, local
  <2> SUFFICES ASSUME ~overlapped
               PROVE  /\ Alive(p)' => Place(p)'
                      /\ path'["old"] # None => Usable(path["old"])'
                      /\ Usable(path["bin"])' \/ Usable(path["old"])'
    BY <1>0, <2>1, SoleStep
  <2>2. Place(p) /\ (path["old"] # None => Usable(path["old"]))
    BY <1>0, <2>1 DEF Solo
  <2>3. /\ path["bin"] = Copy(p) /\ path["old"] = image[p] /\ image[p] # Copy(p)
        /\ image[p] # Temp(p) /\ Usable(image[p]) /\ faults[p] >= 1 /\ result[p] = "uninstalled"
        /\ release[p] > data[image[p]].ver
    BY <2>2 DEF Remove, Place
  <2>4. data' = data /\ image' = image /\ release' = release /\ result' = result /\ pc'[p] = "restore"
    BY <1>0 DEF Remove, Goto, local, TypeOK
  <2>5. path'["old"] = image[p] /\ path'["bin"] \in {None, Copy(p)}
    BY <1>0, <2>3 DEF Remove, TypeOK
  <2>6. faults'[p] >= 1
    BY <1>0, <2>3 DEF Remove, NoFault, Fault, TypeOK
  <2>7. Usable(image[p])'
    BY <2>3, <2>4 DEF Usable
  <2>8. data[Copy(p)].ver = release[p]
    BY <2>2, <2>3, Inodes, NoneAssumption DEF Place, Remove
  <2>9. Place(p)'
    BY <2>3, <2>4, <2>5, <2>6, <2>7, <2>8 DEF Place, Asking, Usable
  <2> QED
    BY <2>3, <2>4, <2>5, <2>7, <2>9
<1>5. Still'
  BY <1>0, NoneAssumption, Inodes DEF TypeOK, Fresh, Temps, Named, Placed, Still, Faultless, Usable, Remove, Goto, End, Fails, Fault, NoFault, disk, local, Asking, Installing
<1> QED
  BY <1>1, <1>2, <1>3, <1>4, <1>5 DEF IInv

LEMMA RestoreStep ==
  ASSUME IInv, NEW p \in Proc, Restore(p)
  PROVE  IInv'
<1>0. TypeOK /\ Fresh /\ Temps /\ Solo /\ Still
  BY DEF IInv
<1>1. TypeOK'
  <2>1. path' \in [{"bin", "old"} -> Inode \cup {None}]
    BY <1>0, TypedPath DEF Restore, Goto, Fails, TypeOK, disk
  <2>2. data' \in [Inode -> File]
    BY <1>0 DEF Restore, TypeOK, File, disk
  <2>3. faults' \in [Proc -> 0..MaxFaults]
    BY <1>0, Counted DEF Restore
  <2>4. /\ tmp' \in [Proc -> Inode \cup {None}] /\ fd' \in [Proc -> Inode \cup {None}]
        /\ image' = image /\ release' = release /\ over' = over
        /\ sameFS' = sameFS /\ latest' = latest /\ overlapped' = overlapped
        /\ unremoved' \in SUBSET Proc
    BY <1>0, Inodes DEF Restore, TypeOK, local, disk
  <2>5. /\ pc' \in [Proc -> {"idle", "done", "killed"} \cup Asking \cup Installing]
        /\ result' \in [Proc -> Result]
    BY <1>0 DEF Restore, Goto, End, Fails, TypeOK, Asking, Installing, Result
  <2> QED
    BY <1>0, <2>1, <2>2, <2>3, <2>4, <2>5 DEF TypeOK, File
<1>2. Fresh'
  BY <1>0, NoneAssumption, Inodes DEF TypeOK, Fresh, Temps, Named, Placed, Restore, Goto, End, Fails, Fault, NoFault, disk, local, Asking, Installing, Alive
<1>3. Temps'
  BY <1>0, NoneAssumption, Inodes DEF TypeOK, Fresh, Temps, Named, Placed, Restore, Goto, End, Fails, Fault, NoFault, disk, local, Asking, Installing
<1>4. Solo'
  BY <1>0, NoneAssumption, Inodes DEF TypeOK, Fresh, Temps, Named, Placed, Solo, Alone, Place, Alive, Usable, Restore, Goto, End, Fails, Fault, NoFault, disk, local, Asking, Installing, Newer
<1>5. Still'
  BY <1>0, NoneAssumption, Inodes DEF TypeOK, Fresh, Temps, Named, Placed, Still, Faultless, Usable, Restore, Goto, End, Fails, Fault, NoFault, disk, local, Asking, Installing
<1> QED
  BY <1>1, <1>2, <1>3, <1>4, <1>5 DEF IInv

LEMMA EmitStep ==
  ASSUME IInv, NEW p \in Proc, Emit(p)
  PROVE  IInv'
<1>0. TypeOK /\ Fresh /\ Temps /\ Solo /\ Still
  BY DEF IInv
<1>1. TypeOK'
  BY <1>0, UpdaterAssumption, NoneAssumption, Inodes DEF TypeOK, Emit, Goto, End, Fails, Fault, NoFault, disk, local, Asking, Installing, Result, Version, Usable
<1>2. Fresh'
  BY <1>0, NoneAssumption, Inodes DEF TypeOK, Fresh, Temps, Named, Placed, Emit, Goto, End, Fails, Fault, NoFault, disk, local, Asking, Installing, Alive
<1>3. Temps'
  BY <1>0, NoneAssumption, Inodes DEF TypeOK, Fresh, Temps, Named, Placed, Emit, Goto, End, Fails, Fault, NoFault, disk, local, Asking, Installing
<1>4. Solo'
  BY <1>0, NoneAssumption, Inodes DEF TypeOK, Fresh, Temps, Named, Placed, Solo, Alone, Place, Alive, Usable, Emit, Goto, End, Fails, Fault, NoFault, disk, local, Asking, Installing, Newer
<1>5. Still'
  BY <1>0, NoneAssumption, Inodes DEF TypeOK, Fresh, Temps, Named, Placed, Still, Faultless, Usable, Emit, Goto, End, Fails, Fault, NoFault, disk, local, Asking, Installing
<1> QED
  BY <1>1, <1>2, <1>3, <1>4, <1>5 DEF IInv

LEMMA CleanupStep ==
  ASSUME IInv, NEW p \in Proc, Cleanup(p)
  PROVE  IInv'
<1>0. TypeOK /\ Fresh /\ Temps /\ Solo /\ Still
  BY DEF IInv
<1>1. TypeOK'
  BY <1>0, UpdaterAssumption, NoneAssumption, Inodes DEF TypeOK, Cleanup, Goto, End, Fails, Fault, NoFault, Discard, disk, local, Asking, Installing, Result, Version, Usable
<1>2. Fresh'
  BY <1>0, NoneAssumption, Inodes DEF TypeOK, Fresh, Temps, Named, Placed, Cleanup, Goto, End, Fails, Fault, NoFault, Discard, disk, local, Asking, Installing, Alive
<1>3. Temps'
  BY <1>0, NoneAssumption, Inodes DEF TypeOK, Fresh, Temps, Named, Placed, Cleanup, Goto, End, Fails, Fault, NoFault, Discard, disk, local, Asking, Installing
<1>4. Solo'
  BY <1>0, NoneAssumption, Inodes DEF TypeOK, Fresh, Temps, Named, Placed, Solo, Alone, Place, Alive, Usable, Cleanup, Goto, End, Fails, Fault, NoFault, Discard, disk, local, Asking, Installing, Newer
<1>5. Still'
  BY <1>0, NoneAssumption, Inodes DEF TypeOK, Fresh, Temps, Named, Placed, Still, Faultless, Usable, Cleanup, Goto, End, Fails, Fault, NoFault, Discard, disk, local, Asking, Installing
<1> QED
  BY <1>1, <1>2, <1>3, <1>4, <1>5 DEF IInv

LEMMA KillStep ==
  ASSUME IInv, NEW p \in Proc, Kill(p)
  PROVE  IInv'
<1>0. TypeOK /\ Fresh /\ Temps /\ Solo /\ Still
  BY DEF IInv
<1>1. TypeOK'
  BY <1>0, UpdaterAssumption, NoneAssumption, Inodes DEF TypeOK, Kill, Goto, End, Fails, Fault, NoFault, disk, local, Asking, Installing, Result, Version, Usable
<1>2. Fresh'
  BY <1>0, NoneAssumption, Inodes DEF TypeOK, Fresh, Temps, Named, Placed, Kill, Goto, End, Fails, Fault, NoFault, disk, local, Asking, Installing, Alive
<1>3. Temps'
  BY <1>0, NoneAssumption, Inodes DEF TypeOK, Fresh, Temps, Named, Placed, Kill, Goto, End, Fails, Fault, NoFault, disk, local, Asking, Installing
<1>4. Solo'
  BY <1>0, NoneAssumption, Inodes DEF TypeOK, Fresh, Temps, Named, Placed, Solo, Alone, Place, Alive, Usable, Kill, Goto, End, Fails, Fault, NoFault, disk, local, Asking, Installing, Newer
<1>5. Still'
  BY <1>0, NoneAssumption, Inodes DEF TypeOK, Fresh, Temps, Named, Placed, Still, Faultless, Usable, Kill, Goto, End, Fails, Fault, NoFault, disk, local, Asking, Installing
<1> QED
  BY <1>1, <1>2, <1>3, <1>4, <1>5 DEF IInv

LEMMA RenameBackStep ==
  ASSUME IInv, RenameBack
  PROVE  IInv'
<1>0. TypeOK /\ Fresh /\ Temps /\ Solo /\ Still
  BY DEF IInv
<1>1. /\ UNCHANGED <<data, tmp, sameFS, latest, pc, image, fd, release, over, faults, result, overlapped, unremoved>>
      /\ path["old"] \in Inode
      /\ path' = [path EXCEPT !["bin"] = path["old"], !["old"] = None]
  BY <1>0 DEF RenameBack, TypeOK, local
<1>2. path'["bin"] = path["old"] /\ path'["old"] = None
  BY <1>0, <1>1 DEF TypeOK
<1>3. TypeOK'
  BY <1>0, <1>1, TypedPath DEF TypeOK
<1>4. Fresh'
  BY <1>0, <1>1, <1>2, NoneAssumption, Inodes DEF Fresh, Named
<1>5. Temps'
  BY <1>0, <1>1 DEF Temps
<1>6. Solo'
  <2>1. \A p \in Proc : ~Alive(p)
    BY DEF RenameBack
  <2>2. \A p \in Proc : Alive(p)' <=> Alive(p)
    BY <1>1 DEF Alive
  <2>3. ~overlapped => Usable(path["old"])
    BY <1>0, <1>1, NoneAssumption DEF Solo
  <2> QED
    BY <1>1, <1>2, <2>1, <2>2, <2>3 DEF Solo, Alone, Usable
<1>7. Still'
  BY <1>0, <1>1, <1>2, NoneAssumption DEF Still, Faultless, Usable
<1> QED
  BY <1>3, <1>4, <1>5, <1>6, <1>7 DEF IInv

LEMMA PublishStep ==
  ASSUME IInv, Publish \/ UNCHANGED vars
  PROVE  IInv'
<1>0. TypeOK /\ Fresh /\ Temps /\ Solo /\ Still
  BY DEF IInv
<1>1. /\ UNCHANGED <<path, data, tmp, sameFS, pc, image, fd, release, over, faults, result, overlapped, unremoved>>
      /\ latest' \in Version
  BY <1>0, UpdaterAssumption DEF Publish, vars, disk, local, TypeOK, Version
<1>2. TypeOK'
  BY <1>0, <1>1 DEF TypeOK
<1>3. Fresh' /\ Temps'
  BY <1>0, <1>1 DEF Fresh, Temps, Named
<1>4. Solo' /\ Still'
  BY <1>0, <1>1 DEF Solo, Alone, Alive, Place, Usable, Still, Faultless
<1> QED
  BY <1>2, <1>3, <1>4 DEF IInv

----------------------------------------------------------------------------
(* The invariants *)

LEMMA IInvInit ==
  ASSUME Init
  PROVE  IInv
<1>1. PICK v \in Version : data = [i \in Inode |-> [ver |-> v, whole |-> i = Orig, exec |-> i = Orig]]
  BY DEF Init
<1>2. Orig \in Inode /\ Orig # None
  BY NoneAssumption DEF Inode
<1>3. path["bin"] = Orig /\ path["old"] = None /\ Usable(Orig)
  BY <1>1, <1>2 DEF Init, Usable
<1>4. TypeOK
  <2>1. data \in [Inode -> [ver : Version, whole : BOOLEAN, exec : BOOLEAN]]
    BY <1>1
  <2>2. path \in [{"bin", "old"} -> Inode \cup {None}] /\ tmp \in [Proc -> Inode \cup {None}]
    BY <1>2 DEF Init
  <2>3. /\ sameFS \in BOOLEAN /\ latest \in Version /\ over \in [Proc -> BOOLEAN]
        /\ overlapped \in BOOLEAN /\ unremoved \in SUBSET Proc
    BY DEF Init
  <2>4. image \in [Proc -> Inode] /\ fd \in [Proc -> Inode \cup {None}]
    BY <1>2 DEF Init
  <2>5. release \in [Proc -> Version] /\ faults \in [Proc -> 0..MaxFaults]
    BY UpdaterAssumption DEF Init, Version
  <2>6. /\ pc \in [Proc -> {"idle", "done", "killed"} \cup Asking \cup Installing]
        /\ result \in [Proc -> Result]
    BY DEF Init, Result
  <2> QED
    BY <2>1, <2>2, <2>3, <2>4, <2>5, <2>6 DEF TypeOK
<1>5. \A p \in Proc : pc[p] = "idle" /\ tmp[p] = None /\ image[p] = Orig /\ fd[p] = None
  BY DEF Init
<1>6. Fresh
  BY <1>3, <1>5, Inodes, NoneAssumption DEF Fresh, Named
<1>7. Temps
  BY <1>5 DEF Temps
<1>8. Solo
  BY <1>3, <1>5 DEF Solo, Alone, Alive, Asking, Installing
<1>9. Still
  BY <1>2, <1>3, <1>5 DEF Still
<1> QED
  BY <1>4, <1>6, <1>7, <1>8, <1>9 DEF IInv

LEMMA IInvNext ==
  ASSUME IInv, [Next]_vars
  PROVE  IInv'
<1>1. CASE \E p \in Proc : Step(p)
  BY <1>1, StartStep, CheckLatestStep, DownloadStep, ExtractStep, AskFailsStep, ContextEndsStep,
     AsideStep, SwapStep, OpenStep, WriteStep, ChmodStep, RemoveStep, RestoreStep, EmitStep,
     CleanupStep, KillStep DEF Step, Install
<1>2. CASE RenameBack
  BY <1>2, RenameBackStep
<1>3. CASE Publish \/ UNCHANGED vars
  BY <1>3, PublishStep
<1> QED
  BY <1>1, <1>2, <1>3 DEF Next

LEMMA Invariance == Spec => []IInv
<1>1. Init => IInv
  BY IInvInit
<1>2. IInv /\ [Next]_vars => IInv'
  BY IInvNext
<1> QED
  BY <1>1, <1>2, PTL DEF Spec

\* Every variable of the updates keeps its type.
THEOREM TypeCorrect == Spec => []TypeOK
<1>1. IInv => TypeOK
  BY DEF IInv
<1> QED
  BY Invariance, <1>1, PTL

\* An update that ends by itself, however it went, leaves no download behind,
\* unless the removal of it was what failed.
THEOREM NothingDownloadedStays == Spec => []NoDownloadLeft
<1>1. IInv => NoDownloadLeft
  BY DEF IInv, Temps, NoDownloadLeft
<1> QED
  BY Invariance, <1>1, PTL

\* Killed or failing anywhere, one update after the other, or several at once
\* that need no copy: a bwg that runs is at its path or one rename away.
THEOREM AlwaysRecoverable == Spec => []Recoverable
<1>1. IInv => Recoverable
  BY DEF IInv, Solo, Still, Recoverable
<1> QED
  BY Invariance, <1>1, PTL

\* The step by which an update ends.
LEMMA Ending ==
  ASSUME IInv, Next, NEW p \in Proc, pc[p] = "cleanup", pc'[p] = "done", ~overlapped
  PROVE  Place(p)
<1>1. Alive(p)
  BY DEF Alive, Installing
<1> QED
  BY <1>1 DEF IInv, Solo

\* The old binary goes back if the install does not complete, as long as no
\* more than one thing went wrong.
THEOREM OldBinaryGoesBack == Spec => OneFaultIsHealed
<1>1. IInv /\ [Next]_vars =>
        [\A p \in Proc : pc[p] = "cleanup" /\ pc'[p] = "done" /\ result[p] = "uninstalled" =>
           overlapped \/ faults[p] > 1 \/ path["bin"] = image[p]]_vars
  <2> SUFFICES ASSUME IInv, Next, NEW p \in Proc, pc[p] = "cleanup", pc'[p] = "done",
                      result[p] = "uninstalled", ~overlapped
               PROVE  faults[p] > 1 \/ path["bin"] = image[p]
    OBVIOUS
  <2>1. path["bin"] = image[p] \/ faults[p] >= 2
    BY Ending DEF Place
  <2>2. faults[p] \in 0..MaxFaults
    BY DEF IInv, TypeOK
  <2> QED
    BY <2>1, <2>2, UpdaterAssumption
<1> QED
  BY Invariance, <1>1, PTL DEF Spec, OneFaultIsHealed

\* A finished update has put the newer release it announced at the path, and
\* keeps the binary it ran, which still runs, as .old.
THEOREM InstalledAsAnnounced == Spec => InstalledIsTheRelease
<1>1. IInv /\ [Next]_vars =>
        [\A p \in Proc :
           pc[p] = "cleanup" /\ pc'[p] = "done" /\ result[p] \in {"installed", "unprinted"} =>
             \/ overlapped
             \/ /\ Usable(path["bin"]) /\ data[path["bin"]].ver = release[p]
                /\ release[p] > data[image[p]].ver
                /\ path["old"] = image[p] /\ Usable(image[p])]_vars
  <2> SUFFICES ASSUME IInv, Next, NEW p \in Proc, pc[p] = "cleanup", pc'[p] = "done",
                      result[p] \in {"installed", "unprinted"}, ~overlapped
               PROVE  /\ Usable(path["bin"]) /\ data[path["bin"]].ver = release[p]
                      /\ release[p] > data[image[p]].ver
                      /\ path["old"] = image[p] /\ Usable(image[p])
    OBVIOUS
  <2> QED
    BY Ending DEF Place
<1> QED
  BY Invariance, <1>1, PTL DEF Spec, InstalledIsTheRelease

----------------------------------------------------------------------------
(* The refinement *)

Current == IF Usable(path["bin"]) THEN VersionOf(path["bin"]) ELSE VersionOf(path["old"])
Spare   == IF Usable(path["bin"]) THEN VersionOf(path["old"]) ELSE NoVersion

\* What a step may do to the two versions, in Installed's terms.
Promised ==
  \/ overlapped /\ overlapped'
  \/ overlapped' = TRUE /\ Current' = Current /\ Spare' = Spare
  \/ /\ overlapped' = overlapped
     /\ \/ Current' = Current /\ Spare' = Spare
        \/ Current' = Current /\ Spare' = NoVersion
        \/ Spare # NoVersion /\ Current' = Spare /\ Spare' = NoVersion
        \/ Current' \in Version /\ Current' > Current /\ Spare' = Current

LEMMA PromisedStep ==
  ASSUME Promised
  PROVE  Promise!Next \/ UNCHANGED Promise!vars
BY DEF Promised, Current, Spare, Promise!Next, Promise!Discard, Promise!Revert, Promise!Share,
       Promise!Upgrade, Promise!vars

\* Steps that change no name, nor what a named file holds.
LEMMA SameFiles ==
  ASSUME path' = path,
         \A x \in {"bin", "old"} : path[x] # None => data'[path[x]] = data[path[x]]
  PROVE  Current' = Current /\ Spare' = Spare
BY DEF Current, Spare, VersionOf, Usable

\* Once two updates have overlapped, nothing more is promised.
LEMMA OverlapStays ==
  ASSUME IInv, [Next]_vars, overlapped
  PROVE  overlapped'
BY DEF IInv, TypeOK, Next, Step, Install, Start, CheckLatest, Download, Extract, AskFails, ContextEnds,
       Aside, Swap, Open, Write, Chmod, Remove, Restore, Emit, Cleanup, Kill, RenameBack, Publish, vars

LEMMA AskPromised ==
  ASSUME IInv, NEW p \in Proc, Download(p) \/ Extract(p)
  PROVE  Current' = Current /\ Spare' = Spare
<1>1. path["bin"] # Temp(p) /\ path["old"] # Temp(p)
  BY DEF Download, Extract, IInv, Fresh, Named, Placed
<1>2. path' = path /\ \A i \in Inode : i # Temp(p) => data'[i] = data[i]
  BY DEF Download, Extract, IInv, TypeOK
<1>3. \A x \in {"bin", "old"} : path[x] \in Inode \cup {None}
  BY DEF IInv, TypeOK
<1> QED
  BY <1>1, <1>2, <1>3, SameFiles

\* One update at a time: what each step of Replace means.
LEMMA InstallPromised ==
  ASSUME IInv, IInv', NEW p \in Proc, Install(p), ~overlapped
  PROVE  Promised
<1>1. Alive(p) /\ overlapped' = overlapped /\ overlapped \in BOOLEAN
  BY DEF Install, Aside, Swap, Open, Write, Chmod, Remove, Restore, Emit, Cleanup, Alive, Installing,
         IInv, TypeOK
<1>2. Place(p) /\ Usable(image[p]) /\ (path["old"] # None => Usable(path["old"]))
  BY <1>1 DEF IInv, Solo, Place
<1>3. TypeOK /\ image[p] \in Inode /\ data[image[p]].ver \in Version /\ release[p] \in Version
      /\ NoVersion \notin Version /\ ~Usable(None)
  BY DEF IInv, TypeOK, Usable, NoVersion, Version
<1>4. CASE Aside(p)
  <2>1. path["bin"] = image[p] /\ data' = data
    BY <1>2, <1>4 DEF Aside, Place
  <2>2. path' = path \/ (path'["bin"] = None /\ path'["old"] = image[p])
    BY <1>3, <1>4, <2>1 DEF Aside, TypeOK
  <2> QED
    BY <1>1, <1>2, <1>3, <2>1, <2>2 DEF Promised, Current, Spare, VersionOf, Usable
<1>5. CASE Swap(p)
  <2>1. path["bin"] = None /\ path["old"] = image[p] /\ data' = data /\ tmp[p] = Temp(p)
        /\ release[p] > data[image[p]].ver
    BY <1>2, <1>5 DEF Swap, Place, IInv, Temps
  <2>2. Usable(Temp(p)) /\ data[Temp(p)].ver = release[p]
    BY <1>5, NoneAssumption, Inodes DEF Swap, Usable, IInv, Temps
  <2>3. path' = path \/ (path'["bin"] = Temp(p) /\ path'["old"] = image[p])
    BY <1>3, <1>5, <2>1 DEF Swap, TypeOK
  <2> QED
    BY <1>1, <1>2, <1>3, <2>1, <2>2, <2>3 DEF Promised, Current, Spare, VersionOf, Usable
<1>6. CASE Open(p)
  <2>1. path["bin"] = None /\ path["old"] = image[p] /\ image[p] # Copy(p) /\ Copy(p) \in Inode
    BY <1>2, <1>6, Inodes DEF Open, Place
  <2>2. data'[image[p]] = data[image[p]]
    BY <1>3, <1>6, <2>1 DEF Open, TypeOK
  <2>3. \/ path' = path
        \/ path'["bin"] = Copy(p) /\ path'["old"] = image[p] /\ ~data'[Copy(p)].whole
    BY <1>3, <1>6, <2>1 DEF Open, TypeOK
  <2> QED
    BY <1>1, <1>2, <1>3, <2>1, <2>2, <2>3 DEF Promised, Current, Spare, VersionOf, Usable
<1>7. CASE Write(p) \/ Chmod(p)
  <2>1. /\ path["bin"] = Copy(p) /\ path["old"] = image[p] /\ image[p] # Copy(p) /\ Copy(p) \in Inode
        /\ (Write(p) => fd[p] = Copy(p)) /\ path' = path
        /\ data[Copy(p)].ver = release[p] /\ release[p] > data[image[p]].ver
    BY <1>2, <1>7, Inodes, NoneAssumption DEF Write, Chmod, Place
  <2>2. data'[image[p]] = data[image[p]] /\ data'[Copy(p)].ver = data[Copy(p)].ver
        /\ (Usable(Copy(p)) => Usable(Copy(p))')
    BY <1>3, <1>7, <2>1 DEF Write, Chmod, TypeOK, Usable
  <2> QED
    BY <1>1, <1>2, <1>3, <2>1, <2>2 DEF Promised, Current, Spare, VersionOf, Usable
<1>8. CASE Remove(p)
  <2>1. path["bin"] = Copy(p) /\ path["old"] = image[p] /\ ~Usable(Copy(p)) /\ data' = data
    BY <1>2, <1>8 DEF Remove, Place, Usable
  <2>2. path' = path \/ (path'["bin"] = None /\ path'["old"] = image[p])
    BY <1>3, <1>8, <2>1 DEF Remove, TypeOK
  <2> QED
    BY <1>1, <1>2, <1>3, <2>1, <2>2 DEF Promised, Current, Spare, VersionOf, Usable
<1>9. CASE Restore(p)
  <2>1. path["old"] = image[p] /\ data' = data
    BY <1>2, <1>9 DEF Restore, Place
  <2>2. path' = path \/ (path'["bin"] = image[p] /\ path'["old"] = None)
    BY <1>3, <1>9, <2>1 DEF Restore, TypeOK
  <2> QED
    BY <1>1, <1>2, <1>3, <2>1, <2>2 DEF Promised, Current, Spare, VersionOf, Usable
<1>10. CASE Emit(p) \/ Cleanup(p)
  <2>1. path' = path /\ data' = data
    BY <1>10 DEF Emit, Cleanup, disk
  <2> QED
    BY <1>1, <2>1, SameFiles DEF Promised
<1> QED
  BY <1>4, <1>5, <1>6, <1>7, <1>8, <1>9, <1>10 DEF Install

LEMMA StepPromised ==
  ASSUME IInv, IInv', [Next]_vars
  PROVE  Promised
<1>1. overlapped \in BOOLEAN /\ overlapped' \in BOOLEAN
  BY DEF IInv, TypeOK
<1>2. CASE overlapped
  BY <1>1, <1>2, OverlapStays DEF Promised
<1>3. ASSUME ~overlapped, path' = path, data' = data
      PROVE  Promised
  <2>1. Current' = Current /\ Spare' = Spare
    BY <1>3, SameFiles
  <2>2. overlapped' = TRUE \/ overlapped' = overlapped
    BY <1>1, <1>3, Zenon
  <2> QED
    BY <2>1, <2>2 DEF Promised
<1>4. ASSUME ~overlapped, NEW p \in Proc, Step(p)
      PROVE  Promised
  <2>1. CASE Download(p) \/ Extract(p)
    BY <2>1, AskPromised DEF Promised, Download, Extract
  <2>2. CASE Install(p)
    BY <1>4, <2>2, InstallPromised
  <2>3. CASE Start(p) \/ CheckLatest(p) \/ AskFails(p) \/ ContextEnds(p) \/ Kill(p)
    BY <1>3, <1>4, <2>3 DEF Start, CheckLatest, AskFails, ContextEnds, Kill, disk
  <2> QED
    BY <1>4, <2>1, <2>2, <2>3 DEF Step
<1>5. ASSUME ~overlapped, RenameBack
      PROVE  Promised
  <2>1. Usable(path["old"]) /\ path["old"] \in Inode
    BY <1>5 DEF IInv, Solo, RenameBack, TypeOK
  <2>2. path'["bin"] = path["old"] /\ path'["old"] = None /\ data' = data /\ overlapped' = overlapped
    BY <1>5 DEF RenameBack, IInv, TypeOK
  <2>3. data[path["old"]].ver # NoVersion
    BY <2>1 DEF IInv, TypeOK, NoVersion, Version
  <2> QED
    BY <2>1, <2>2, <2>3, NoneAssumption DEF Promised, Current, Spare, VersionOf, Usable
<1> QED
  BY <1>2, <1>3, <1>4, <1>5 DEF Next, Publish, vars, disk

\* `bwg update` implements Installed: one update at a time, what can be run or
\* renamed back only goes up by an update and down to the version before it.
THEOREM PromiseIsKept == Spec => PromiseSpec
<1>1. Init => Promise!Init
  <2> SUFFICES ASSUME Init
               PROVE  Current \in Version /\ Spare = NoVersion /\ overlapped = FALSE
    BY DEF Promise!Init, Current, Spare
  <2>1. IInv /\ path["bin"] = Orig /\ path["old"] = None /\ overlapped = FALSE
    BY IInvInit DEF Init
  <2>2. Usable(Orig) /\ ~Usable(None)
    BY <2>1, NoneAssumption DEF IInv, Solo, Usable
  <2>3. data[Orig].ver \in Version
    BY <2>1 DEF IInv, TypeOK, Inode
  <2> QED
    BY <2>1, <2>2, <2>3 DEF Current, Spare, VersionOf
<1>2. IInv /\ IInv' /\ [Next]_vars => [Promise!Next]_(Promise!vars)
  BY StepPromised, PromisedStep
<1> QED
  BY <1>1, <1>2, Invariance, PTL DEF Spec, PromiseSpec, Promise!Spec

=============================================================================
