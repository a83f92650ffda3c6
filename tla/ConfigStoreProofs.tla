------------------------- MODULE ConfigStoreProofs -------------------------
(***************************************************************************)
(* What the saves of the config file keep true for any number of           *)
(* processes, servers and subcommands.  IInv says what a process holds at  *)
(* each step of its save: the fleet it writes is its edit of the one it    *)
(* loaded (Edited), which is the one in the file unless another process    *)
(* has saved since (Fresh), and its temporary file is gone when it ends,   *)
(* unless the removal failed too (Temps).                                  *)
(***************************************************************************)
EXTENDS ConfigStore, FleetConfigProofs

Saving == {"create", "write", "close", "rename", "cleanup"}

Edited == \A p \in Proc : pc[p] \in Saving => cfg[p] \in Edits(loaded[p], job[p])

Temps == \A p \in Proc :
  /\ pc[p] \in {"load", "check", "edit", "create"} => tmp[p] = NoFile
  /\ pc[p] = "rename" => tmp[p] = cfg[p]
  /\ pc[p] = "cleanup" => faults[p] >= 1
  /\ pc[p] = "end" => tmp[p] = NoFile \/ faults[p] >= 2

Fresh == \A p \in Proc \ stale :
  pc[p] \in Saving \cup {"check", "edit"} => loaded[p] = IF file = NoFile THEN Empty ELSE file

\* What needs no types.
Order == /\ pc \in [Proc -> {"load", "check", "edit", "end", "killed"} \cup Saving]
         /\ DOMAIN loaded = Proc /\ DOMAIN cfg = Proc /\ DOMAIN tmp = Proc
         /\ faults \in [Proc -> Nat]
         /\ Edited /\ Temps /\ Fresh

\* The fleets are sound wherever they are.
Sane == /\ file # Torn
        /\ file \in Config => Sound(file)
        /\ \A p \in Proc : Sound(loaded[p]) /\ Sound(cfg[p])

IInv == TypeOK /\ Order /\ Sane

----------------------------------------------------------------------------
(* The order of a save *)

LEMMA OrderInit ==
  ASSUME Init
  PROVE  Order
BY DEF Init, Order, Edited, Temps, Fresh, Saving

LEMMA OrderStep ==
  ASSUME Order, [Next]_vars
  PROVE  Order'
<1>1. CASE UNCHANGED vars
  BY <1>1 DEF vars, Order, Edited, Temps, Fresh
<1>2. ASSUME NEW p \in Proc, Load(p)
      PROVE  Order'
  BY <1>2 DEF Load, Goto, Works, Fails, Order, Edited, Temps, Fresh, Saving
<1>3. ASSUME NEW p \in Proc, Check(p)
      PROVE  Order'
  BY <1>3 DEF Check, Goto, Works, Fails, Order, Edited, Temps, Fresh, Saving
<1>4. ASSUME NEW p \in Proc, Edit(p)
      PROVE  Order'
  BY <1>4 DEF Edit, Goto, Works, Fails, Order, Edited, Temps, Fresh, Saving
<1>5. ASSUME NEW p \in Proc, Create(p)
      PROVE  Order'
  BY <1>5 DEF Create, Goto, Works, Fails, Order, Edited, Temps, Fresh, Saving
<1>6. ASSUME NEW p \in Proc, Write(p)
      PROVE  Order'
  BY <1>6 DEF Write, Goto, Works, Fails, Order, Edited, Temps, Fresh, Saving
<1>7. ASSUME NEW p \in Proc, Close(p)
      PROVE  Order'
  BY <1>7 DEF Close, Goto, Works, Fails, Order, Edited, Temps, Fresh, Saving
<1>8. ASSUME NEW p \in Proc, Rename(p)
      PROVE  Order'
  BY <1>8 DEF Rename, Goto, Works, Fails, Order, Edited, Temps, Fresh, Saving
<1>9. ASSUME NEW p \in Proc, Cleanup(p)
      PROVE  Order'
  BY <1>9 DEF Cleanup, Goto, Works, Fails, Order, Edited, Temps, Fresh, Saving
<1>10. ASSUME NEW p \in Proc, Kill(p)
       PROVE  Order'
  BY <1>10 DEF Kill, Goto, Works, Fails, Order, Edited, Temps, Fresh, Saving
<1> QED
  BY <1>1, <1>2, <1>3, <1>4, <1>5, <1>6, <1>7, <1>8, <1>9, <1>10 DEF Next, Step

LEMMA Ordered == Spec => []Order
<1>1. Init => Order
  BY OrderInit
<1>2. Order /\ [Next]_vars => Order'
  BY OrderStep
<1> QED
  BY <1>1, <1>2, PTL DEF Spec

\* What a process has edited is its edit of the fleet it loaded.
LEMMA EditMade ==
  ASSUME Order, Next, NEW p \in Proc, pc[p] = "edit", pc'[p] = "create"
  PROVE  cfg'[p] \in Edits(loaded[p], job[p])
<1>1. \A q \in Proc \ {p} : Step(q) => pc'[p] = pc[p]
  BY DEF Step, Load, Check, Edit, Create, Write, Close, Rename, Cleanup, Kill, Goto, Works, Fails, Order
<1>2. Step(p)
  BY <1>1 DEF Next, vars
<1>3. Edit(p)
  BY <1>2 DEF Step, Load, Check, Create, Write, Close, Rename, Cleanup, Kill, Goto, Works, Fails, Order
<1> QED
  BY <1>3 DEF Edit, Goto, Works, Fails, Order

\* The step by which a save ends.
LEMMA Saved ==
  ASSUME Order, Next, NEW p \in Proc, pc[p] = "rename", pc'[p] = "end"
  PROVE  file' = cfg[p] /\ cfg[p] \in Edits(loaded[p], job[p])
<1>1. \A q \in Proc \ {p} : Step(q) => pc'[p] = pc[p]
  BY DEF Step, Load, Check, Edit, Create, Write, Close, Rename, Cleanup, Kill, Goto, Works, Fails, Order
<1>2. Step(p)
  BY <1>1 DEF Next, vars
<1>3. Rename(p)
  BY <1>2 DEF Step, Load, Check, Edit, Create, Write, Close, Cleanup, Kill, Goto, Works, Fails, Order
<1> QED
  BY <1>3 DEF Rename, Goto, Works, Fails, Order, Temps, Edited, Saving

\* One failing disk call, wherever in a save, does not leave the temporary file
\* behind, which holds every API key.
THEOREM KeysAreGone == Spec => []NoKeysLeftBehind
<1>1. Order => NoKeysLeftBehind
  BY DEF Order, Temps, NoKeysLeftBehind
<1> QED
  BY Ordered, <1>1, PTL

\* Unless another subcommand saved between its load and its save, what a save
\* changes is its own edit of the file as it stands.
THEOREM SavesKeepTheRest == Spec => NothingLost
<1>1. Order /\ [Next]_vars =>
        [\A p \in Proc : pc[p] = "rename" /\ pc'[p] = "end" /\ p \notin stale =>
           file' \in Edits(IF file = NoFile THEN Empty ELSE file, job[p])]_vars
  <2> SUFFICES ASSUME Order, Next, NEW p \in Proc, pc[p] = "rename", pc'[p] = "end", p \notin stale
               PROVE  file' \in Edits(IF file = NoFile THEN Empty ELSE file, job[p])
    OBVIOUS
  <2>1. loaded[p] = IF file = NoFile THEN Empty ELSE file
    BY DEF Order, Fresh, Saving
  <2> QED
    BY <2>1, Saved
<1> QED
  BY Ordered, <1>1, PTL DEF Spec, NothingLost

----------------------------------------------------------------------------
(* What the subcommands make of a fleet *)

LEMMA SetFleet ==
  ASSUME NEW c \in Config, NEW j \in Job, j.kind = "set", NEW d \in Set(c, j)
  PROVE  /\ d \in Config /\ (Sound(c) => Sound(d))
         /\ d.default = c.default
         /\ \A m \in Name \ {j.name} : d.servers[m] = c.servers[m]
         /\ j.note = NoName => d.servers[j.name].note = c.servers[j.name].note
         /\ j.key = NoName => d.servers[j.name].key = c.servers[j.name].key
<1> DEFINE s == [c.servers[j.name] EXCEPT !.key = IF j.key = NoName THEN @ ELSE j.key,
                                          !.note = IF j.note = NoName THEN @ ELSE j.note]
<1>1. j.name \in Names(c) /\ d = Put(c, j.name, s)
  BY DEF Set
<1>2. j.name \in Name /\ c.servers[j.name] \in Server
  BY <1>1 DEF Names, Config
<1>3. s \in Server /\ (j.note = NoName => s.note = c.servers[j.name].note)
      /\ (j.key = NoName => s.key = c.servers[j.name].key)
  BY <1>2, StoreAssumption DEF Server
<1>4. s # Absent
  BY <1>3, FleetAssumption
<1> HIDE DEF s
<1>5. /\ d \in Config /\ d.default = c.default /\ Names(d) = Names(c) \cup {j.name}
      /\ \A m \in Name \ {j.name} : d.servers[m] = c.servers[m]
      /\ d.servers[j.name] = s
  BY <1>1, <1>2, <1>3, <1>4, PutFleet
<1> QED
  BY <1>3, <1>5 DEF Sound

LEMMA ImportJobs ==
  ASSUME NEW j \in Job, j.kind = "import"
  PROVE  j.rows \in Seq(Row) /\ j.dryRun \in BOOLEAN
BY StoreAssumption DEF Row

\* What any subcommand saves is a fleet, and sound if the loaded one was.
LEMMA EditFleet ==
  ASSUME NEW c \in Config, NEW j \in Job, NEW d \in Edits(c, j)
  PROVE  d \in Config /\ (Sound(c) => Sound(d))
<1>1. CASE j.kind = "add"
  <2>1. PICK n \in {j.name} \ Names(c), s \in Noted(j.server) : d = Add(c, n, s, j.makeDefault)
    BY <1>1 DEF Edits, Added
  <2>2. n \in Name /\ j.server \in Server
    BY <1>1, <2>1, StoreAssumption
  <2>3. s \in Server
    BY <2>2 DEF Noted, Server
  <2> QED
    BY <2>1, <2>2, <2>3, AddFleet
<1>2. CASE j.kind = "set"
  BY <1>2, SetFleet DEF Edits
<1>3. CASE j.kind = "rm"
  BY <1>3, RemoveFleet DEF Edits, Removed, Names
<1>4. CASE j.kind = "default"
  <2>1. j.name \in Names(c) /\ j.name \in Name /\ d = [c EXCEPT !.default = j.name]
    BY <1>4 DEF Edits, SetDefault, Names
  <2> QED
    BY <2>1, WithDefault DEF Sound
<1>5. CASE j.kind = "import"
  BY <1>5, ImportJobs, ImportFleet DEF Edits
<1> QED
  BY <1>1, <1>2, <1>3, <1>4, <1>5, StoreAssumption

LEMMA EmptyFleet == Empty \in Config /\ Sound(Empty)
BY DEF Empty, Config, Sound

----------------------------------------------------------------------------
(* The fleets in the file and in memory *)

LEMMA SaneInit ==
  ASSUME Init
  PROVE  TypeOK /\ Sane
<1>1. file \in Config \cup {NoFile} /\ (file \in Config => Sound(file)) /\ file # Torn
  BY StoreAssumption DEF Init
<1>2. /\ loaded \in [Proc -> Config] /\ cfg \in [Proc -> Config]
      /\ \A p \in Proc : Sound(loaded[p]) /\ Sound(cfg[p])
  BY EmptyFleet DEF Init
<1>3. /\ pc \in [Proc -> {"load", "check", "edit", "create", "write", "close", "rename", "cleanup",
                         "end", "killed"}]
      /\ tmp \in [Proc -> Config \cup {NoFile, Torn}] /\ faults \in [Proc -> Nat] /\ stale \in SUBSET Proc /\ job \in [Proc -> Job]
  BY DEF Init
<1> QED
  BY <1>1, <1>2, <1>3 DEF TypeOK, Sane

LEMMA SaneStep ==
  ASSUME TypeOK, Order, Sane, [Next]_vars
  PROVE  TypeOK' /\ Sane'
<1>1. CASE UNCHANGED vars
  BY <1>1 DEF vars, TypeOK, Sane
<1>2. ASSUME NEW p \in Proc, Load(p)
      PROVE  TypeOK' /\ Sane'
  <2>1. \/ loaded' = loaded
        \/ \E c \in Config : Sound(c) /\ loaded' = [loaded EXCEPT ![p] = c]
    BY <1>2, EmptyFleet DEF Load, TypeOK, Sane
  <2>2. loaded' \in [Proc -> Config] /\ \A q \in Proc : Sound(loaded'[q])
    BY <2>1 DEF TypeOK, Sane
  <2> QED
    BY <1>2, <2>2 DEF Load, Goto, Works, Fails, TypeOK, Sane
<1>3. ASSUME NEW p \in Proc, Edit(p)
      PROVE  TypeOK' /\ Sane'
  <2>1. \/ cfg' = cfg
        \/ \E c \in Config : Sound(c) /\ cfg' = [cfg EXCEPT ![p] = c]
    BY <1>3, EditFleet DEF Edit, TypeOK, Sane
  <2>2. cfg' \in [Proc -> Config] /\ \A q \in Proc : Sound(cfg'[q])
    BY <2>1 DEF TypeOK, Sane
  <2> QED
    BY <1>3, <2>2 DEF Edit, Goto, Works, Fails, TypeOK, Sane
<1>4. ASSUME NEW p \in Proc, Rename(p)
      PROVE  TypeOK' /\ Sane'
  <2>1. file' = file \/ (file' = cfg[p] /\ cfg[p] \in Config /\ Sound(cfg[p]))
    BY <1>4 DEF Rename, Order, Temps, TypeOK, Sane
  <2>2. file' \in Config \cup {NoFile, Torn} /\ file' # Torn /\ (file' \in Config => Sound(file'))
    BY <2>1, StoreAssumption DEF TypeOK, Sane
  <2> QED
    BY <1>4, <2>2 DEF Rename, Goto, Works, Fails, TypeOK, Sane
<1>5. ASSUME NEW p \in Proc, Create(p) \/ Close(p) \/ Cleanup(p)
      PROVE  TypeOK' /\ Sane'
  BY <1>5 DEF Create, Close, Cleanup, Goto, Works, Fails, TypeOK, Sane
<1>6. ASSUME NEW p \in Proc, Check(p) \/ Write(p) \/ Kill(p)
      PROVE  TypeOK' /\ Sane'
  BY <1>6 DEF Check, Write, Kill, Goto, Works, Fails, TypeOK, Sane
<1> QED
  BY <1>1, <1>2, <1>3, <1>4, <1>5, <1>6 DEF Next, Step

LEMMA Invariance == Spec => []IInv
<1>1. Init => IInv
  BY SaneInit, OrderInit DEF IInv
<1>2. IInv /\ [Next]_vars => IInv'
  BY SaneStep, OrderStep DEF IInv
<1> QED
  BY <1>1, <1>2, PTL DEF Spec

\* Every variable of the saves keeps its type.
THEOREM TypeCorrect == Spec => []TypeOK
<1>1. IInv => TypeOK
  BY DEF IInv
<1> QED
  BY Invariance, <1>1, PTL

\* Killed or failing anywhere, no save leaves a truncated fleet behind.
THEOREM FileStaysWhole == Spec => []FileIsWhole
<1>1. IInv => FileIsWhole
  BY DEF IInv, Sane, FileIsWhole
<1> QED
  BY Invariance, <1>1, PTL

\* Whatever the subcommands made of the fleet, a bare command never stumbles on
\* a default that is not there.
THEOREM DefaultStaysThere == Spec => []DefaultIsThere
<1>1. IInv => DefaultIsThere
  <2> SUFFICES ASSUME IInv, file \in Config
               PROVE  Resolve(file, NoName, NoName, FALSE) # "not found"
    BY DEF DefaultIsThere
  <2>1. Sound(file) /\ Names(file) \subseteq Name
    BY DEF IInv, Sane, Names
  <2>2. "not found" \notin Name /\ Env \notin Name
    BY StoreAssumption
  <2>3. CASE file.default # NoName
    BY <2>1, <2>2, <2>3 DEF Resolve, Lookup, Sound
  <2>4. CASE file.default = NoName
    <3>1. Cardinality(Names(file)) = 1 /\ Names(file) # {} =>
            (CHOOSE n \in Names(file) : TRUE) \in Name
      BY <2>1
    <3> QED
      BY <2>2, <2>4, <3>1 DEF Resolve
  <2> QED
    BY <2>3, <2>4
<1> QED
  BY Invariance, <1>1, PTL

\* Of the fleet it loaded, server set saves everything but the flags that were
\* passed.
THEOREM SetKeepsWhatItLoaded == Spec => SetKeepsTheRest
<1>1. IInv /\ [Next]_vars =>
        [\A p \in Proc : job[p].kind = "set" /\ pc[p] = "rename" /\ pc'[p] = "end" =>
           /\ file'.default = loaded[p].default
           /\ \A n \in Name \ {job[p].name} : file'.servers[n] = loaded[p].servers[n]
           /\ job[p].note = NoName =>
                file'.servers[job[p].name].note = loaded[p].servers[job[p].name].note
           /\ job[p].key = NoName =>
                file'.servers[job[p].name].key = loaded[p].servers[job[p].name].key]_vars
  <2> SUFFICES ASSUME IInv, Next, NEW p \in Proc, job[p].kind = "set", pc[p] = "rename", pc'[p] = "end"
               PROVE  /\ file'.default = loaded[p].default
                      /\ \A n \in Name \ {job[p].name} : file'.servers[n] = loaded[p].servers[n]
                      /\ job[p].note = NoName =>
                           file'.servers[job[p].name].note = loaded[p].servers[job[p].name].note
                      /\ job[p].key = NoName =>
                           file'.servers[job[p].name].key = loaded[p].servers[job[p].name].key
    OBVIOUS
  <2>1. file' \in Set(loaded[p], job[p])
    BY Saved DEF IInv, Edits
  <2>2. loaded[p] \in Config /\ job[p] \in Job
    BY DEF IInv, TypeOK
  <2> QED
    BY <2>1, <2>2, SetFleet
<1> QED
  BY Invariance, <1>1, PTL DEF Spec, SetKeepsTheRest

\* Whatever the file and the fleet, an import changes no server it found, adds
\* no second name for a VPS, and run again adds nothing.
THEOREM ImportIsSafe == Spec => ImportOnlyAdds
<1>1. IInv /\ [Next]_vars =>
        [\A p \in Proc : job[p].kind = "import" /\ pc[p] = "edit" /\ pc'[p] = "create" =>
           /\ \A n \in Names(loaded[p]) : cfg'[p].servers[n] = loaded[p].servers[n]
           /\ \A n \in Names(cfg'[p]) \ Names(loaded[p]) : \A m \in Names(cfg'[p]) \ {n} :
                cfg'[p].servers[n].veid # cfg'[p].servers[m].veid
           /\ Edits(cfg'[p], job[p]) = {}]_vars
  <2> SUFFICES ASSUME IInv, Next, NEW p \in Proc, job[p].kind = "import", pc[p] = "edit", pc'[p] = "create"
               PROVE  /\ \A n \in Names(loaded[p]) : cfg'[p].servers[n] = loaded[p].servers[n]
                      /\ \A n \in Names(cfg'[p]) \ Names(loaded[p]) : \A m \in Names(cfg'[p]) \ {n} :
                           cfg'[p].servers[n].veid # cfg'[p].servers[m].veid
                      /\ Edits(cfg'[p], job[p]) = {}
    OBVIOUS
  <2>1. cfg'[p] \in Edits(loaded[p], job[p])
    BY EditMade DEF IInv
  <2>2. loaded[p] \in Config /\ job[p] \in Job
    BY DEF IInv, TypeOK
  <2>3. \A c : Edits(c, job[p]) = Imported(c, job[p])
    BY DEF Edits
  <2>4. cfg'[p] \in Imported(loaded[p], job[p])
    BY <2>1, <2>3
  <2> QED
    BY <2>2, <2>3, <2>4, ImportJobs, ImportFleet
<1> QED
  BY Invariance, <1>1, PTL DEF Spec, ImportOnlyAdds

=============================================================================
