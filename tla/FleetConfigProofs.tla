------------------------- MODULE FleetConfigProofs -------------------------
(***************************************************************************)
(* What the operators of FleetConfig make of a fleet.  What an import      *)
(* makes of one is proved row by row: Grown holds of what there is after   *)
(* each number of them.                                                    *)
(***************************************************************************)
EXTENDS FleetConfig, LoopsProofs

(* What an edit makes of a fleet *)

LEMMA PutFleet ==
  ASSUME NEW c \in Config, NEW n \in Name, NEW s \in Server \cup {Absent}
  PROVE  /\ Put(c, n, s) \in Config
         /\ Put(c, n, s).default = c.default
         /\ Names(Put(c, n, s)) = IF s = Absent THEN Names(c) \ {n} ELSE Names(c) \cup {n}
         /\ \A m \in Name \ {n} : Put(c, n, s).servers[m] = c.servers[m]
         /\ Put(c, n, s).servers[n] = s
<1>1. Put(c, n, s) = [c EXCEPT !.servers = [c.servers EXCEPT ![n] = s]]
  BY DEF Put
<1>2. c.servers \in [Name -> Server \cup {Absent}] /\ c.default \in Name \cup {NoName}
  BY DEF Config
<1>3. [c.servers EXCEPT ![n] = s] \in [Name -> Server \cup {Absent}]
  BY <1>2
<1>4. Put(c, n, s).servers = [c.servers EXCEPT ![n] = s] /\ Put(c, n, s).default = c.default
  BY <1>1 DEF Config
<1>5. Put(c, n, s) \in Config
  BY <1>1, <1>3 DEF Config
<1> QED
  BY <1>2, <1>4, <1>5 DEF Names

LEMMA WithDefault ==
  ASSUME NEW c \in Config, NEW n \in Name \cup {NoName}
  PROVE  /\ [c EXCEPT !.default = n] \in Config
         /\ [c EXCEPT !.default = n].default = n
         /\ Names([c EXCEPT !.default = n]) = Names(c)
BY DEF Config, Names

LEMMA AddFleet ==
  ASSUME NEW c \in Config, NEW n \in Name, NEW s \in Server, NEW d
  PROVE  Add(c, n, s, d) \in Config /\ (Sound(c) => Sound(Add(c, n, s, d)))
<1> DEFINE put == Put(c, n, s)
           def == IF d \/ Names(c) = {} THEN n ELSE put.default
<1>1. put \in Config /\ put.default = c.default /\ Names(put) = Names(c) \cup {n}
  <2>1. s # Absent
    BY FleetAssumption
  <2> QED
    BY <2>1, PutFleet
<1>2. def \in Name \cup {NoName}
  BY <1>1 DEF Config
<1>3. Add(c, n, s, d) = [put EXCEPT !.default = def]
  BY DEF Add
<1> HIDE DEF put
<1> QED
  BY <1>1, <1>2, <1>3, WithDefault DEF Sound

LEMMA RemoveFleet ==
  ASSUME NEW c \in Config, NEW n \in Name
  PROVE  Remove(c, n) \in Config /\ (Sound(c) => Sound(Remove(c, n)))
<1> DEFINE left == Names(c) \ {n}
           kept == IF c.default = n THEN NoName ELSE c.default
           put  == Put(c, n, Absent)
           def  == IF kept = NoName /\ Cardinality(left) = 1 THEN CHOOSE m \in left : TRUE ELSE kept
<1>1. put \in Config /\ Names(put) = left
  BY PutFleet
<1>2. kept \in Name \cup {NoName} /\ left \subseteq Name
  BY DEF Config, Names
<1>3. Cardinality(left) = 1 => (CHOOSE m \in left : TRUE) \in left
  <2>1. Cardinality(left) = 1 => left # {}
    BY FS_EmptySet
  <2> QED
    BY <2>1
<1>4. def \in Name \cup {NoName} /\ (Sound(c) => def = NoName \/ def \in left)
  BY <1>2, <1>3 DEF Sound
<1>5. Remove(c, n) = [put EXCEPT !.default = def]
  BY DEF Remove
<1> HIDE DEF put, def, left
<1> QED
  BY <1>1, <1>4, <1>5, WithDefault DEF Sound

----------------------------------------------------------------------------
(* What an import makes of a fleet *)

Row == [name : Name, server : Server]

\* What the loop keeps from row to row.
Tally == [cfg : Config, known : SUBSET Veid, added : Seq(Name)]

LEMMA TallyParts ==
  ASSUME NEW c \in Config, NEW known \in SUBSET Veid, NEW added \in Seq(Name)
  PROVE  /\ [cfg |-> c, known |-> known, added |-> added] \in Tally
         /\ [cfg |-> c, known |-> known, added |-> added].cfg = c
         /\ [cfg |-> c, known |-> known, added |-> added].known = known
         /\ [cfg |-> c, known |-> known, added |-> added].added = added
BY DEF Tally

LEMMA VeidsOfFleet ==
  ASSUME NEW c \in Config
  PROVE  Veids(c) \in SUBSET Veid /\ Names(c) \in SUBSET Name
         /\ \A n \in Names(c) : c.servers[n] \in Server /\ c.servers[n].veid \in Veids(c)
<1>1. \A n \in Names(c) : n \in Name /\ c.servers[n] \in Server
  BY DEF Names, Config
<1> QED
  BY <1>1 DEF Veids, Server

LEMMA ImportRowTyped ==
  ASSUME NEW t \in Tally, NEW row \in Row, NEW dryRun
  PROVE  ImportRow(t, row, dryRun) \in Tally
<1>1. t.cfg \in Config /\ t.known \in SUBSET Veid /\ t.added \in Seq(Name)
  BY DEF Tally
<1>2. row.name \in Name /\ row.server \in Server /\ row.server.veid \in Veid
  BY DEF Row, Server
<1>3. Add(t.cfg, row.name, row.server, FALSE) \in Config
  BY <1>1, <1>2, AddFleet
<1>4. t.known \cup {row.server.veid} \in SUBSET Veid /\ Append(t.added, row.name) \in Seq(Name)
  BY <1>1, <1>2
<1>5. [cfg   |-> IF dryRun THEN t.cfg ELSE Add(t.cfg, row.name, row.server, FALSE),
       known |-> t.known \cup {row.server.veid},
       added |-> Append(t.added, row.name)] \in Tally
  BY <1>1, <1>3, <1>4, TallyParts
<1> QED
  BY <1>5 DEF ImportRow

\* The loop as a number of turns.
Untouched(c) == [cfg |-> c, known |-> Veids(c), added |-> <<>>]
RowByRow(rows, dryRun) == [n \in 1..Len(rows) |-> [t \in Tally |-> ImportRow(t, rows[n], dryRun)]]

LEMMA ImportRuns ==
  ASSUME NEW c \in Config, NEW rows \in Seq(Row), NEW dryRun
  PROVE  /\ Len(rows) \in Nat /\ \A n \in 1..Len(rows) : rows[n] \in Row
         /\ Untouched(c) \in Tally
         /\ \E f \in [0..Len(rows) -> Tally] :
              f[0] = Untouched(c) /\ \A n \in 1..Len(rows) : f[n] = ImportRow(f[n - 1], rows[n], dryRun)
<1>1. Untouched(c) \in Tally
  <2>1. <<>> \in Seq(Name)
    OBVIOUS
  <2> QED
    BY <2>1, VeidsOfFleet, TallyParts DEF Untouched
<1>2. Len(rows) \in Nat /\ \A n \in 1..Len(rows) : rows[n] \in Row
  OBVIOUS
<1>3. StepsIn(RowByRow(rows, dryRun), Tally, Len(rows))
  BY <1>2, ImportRowTyped DEF RowByRow, StepsIn
<1>4. PICK f : RunsAs(f, Untouched(c), RowByRow(rows, dryRun), Tally, Len(rows))
  BY <1>1, <1>2, <1>3, LoopRuns
<1>5. \A n \in 1..Len(rows) : n - 1 \in 0..Len(rows)
  BY <1>2
<1>6. \A n \in 1..Len(rows) : f[n] = ImportRow(f[n - 1], rows[n], dryRun)
  BY <1>4, <1>5 DEF RowByRow, RunsAs
<1> QED
  BY <1>1, <1>2, <1>4, <1>6 DEF RunsAs

\* After each row there is what ImportRow makes of what the one before left.
LEMMA ImportTurns ==
  ASSUME NEW c \in Config, NEW rows \in Seq(Row), NEW dryRun
  PROVE  LET after == ImportRows(c, rows, dryRun) IN
           /\ after \in [0..Len(rows) -> Tally]
           /\ after[0] = Untouched(c)
           /\ \A n \in 1..Len(rows) : after[n] = ImportRow(after[n - 1], rows[n], dryRun)
<1> DEFINE after == ImportRows(c, rows, dryRun)
           start == Untouched(c)
<1>1. start \in Tally
  BY ImportRuns
<1>2. Len(rows) \in Nat /\ \A n \in 1..Len(rows) : rows[n] \in Row
  OBVIOUS
<1>5. \E f : f = [n \in 0..Len(rows) |-> IF n = 0 THEN start ELSE ImportRow(f[n - 1], rows[n], dryRun)]
  <2> HIDE DEF start
  <2>1. PICK f \in [0..Len(rows) -> Tally] :
          f[0] = start /\ \A n \in 1..Len(rows) : f[n] = ImportRow(f[n - 1], rows[n], dryRun)
    BY ImportRuns DEF start
  <2>4. \A n \in 0..Len(rows) : n = 0 \/ n \in 1..Len(rows)
    BY <1>2
  <2> QED
    BY <2>1, <2>4
<1>6. after = [n \in 0..Len(rows) |-> IF n = 0 THEN start ELSE ImportRow(after[n - 1], rows[n], dryRun)]
  BY <1>5 DEF ImportRows, Untouched
<1> HIDE DEF after, start
<1>7. after[0] = start
  BY <1>2, <1>6
<1>8. \A n \in 1..Len(rows) : after[n] = ImportRow(after[n - 1], rows[n], dryRun)
  <2>1. \A n \in 1..Len(rows) : n \in 0..Len(rows) /\ n # 0
    BY <1>2
  <2> QED
    BY <1>6, <2>1
<1>9. \A n \in 0..Len(rows) : n \in {m \in 0..Len(rows) : after[m] \in Tally}
  <2> DEFINE S == {m \in 0..Len(rows) : after[m] \in Tally}
  <2>1. 0 \in S
    BY <1>1, <1>2, <1>7
  <2>2. \A n \in 1..Len(rows) : n - 1 \in S => n \in S
    <3> SUFFICES ASSUME NEW n \in 1..Len(rows), n - 1 \in S
                 PROVE  n \in S
      OBVIOUS
    <3>1. n \in 0..Len(rows) /\ rows[n] \in Row /\ after[n - 1] \in Tally
      BY <1>2
    <3>2. after[n] \in Tally
      BY <1>8, <3>1, ImportRowTyped
    <3> QED
      BY <3>1, <3>2
  <2> HIDE DEF S
  <2> QED
    BY <1>2, <2>1, <2>2, EveryTurn DEF S
<1>10. after \in [0..Len(rows) -> Tally]
  BY <1>6, <1>9
<1> QED
  BY <1>7, <1>8, <1>10 DEF after, start

\* A server that is added is there under its name, beside all the others.
LEMMA AddParts ==
  ASSUME NEW c \in Config, NEW n \in Name, n \notin Names(c), NEW s \in Server, NEW d
  PROVE  /\ Add(c, n, s, d) \in Config
         /\ Names(Add(c, n, s, d)) = Names(c) \cup {n}
         /\ Add(c, n, s, d).servers[n] = s
         /\ \A m \in Names(c) : Add(c, n, s, d).servers[m] = c.servers[m]
         /\ Veids(Add(c, n, s, d)) = Veids(c) \cup {s.veid}
<1> DEFINE more == Add(c, n, s, d)
           put  == Put(c, n, s)
           def  == IF d \/ Names(c) = {} THEN n ELSE put.default
<1>1. /\ put \in Config /\ Names(put) = Names(c) \cup {n} /\ put.servers[n] = s
      /\ \A m \in Name \ {n} : put.servers[m] = c.servers[m]
  <2>1. s # Absent
    BY FleetAssumption
  <2> QED
    BY <2>1, PutFleet
<1>2. def \in Name \cup {NoName}
  BY <1>1 DEF Config
<1>3. more = [put EXCEPT !.default = def]
  BY DEF Add
<1> HIDE DEF put, def
<1> HIDE DEF more
<1>4. more \in Config /\ Names(more) = Names(put)
  BY <1>1, <1>2, <1>3, WithDefault
<1>5. more.servers = put.servers
  BY <1>1, <1>3 DEF Config
<1>6. \A m \in Names(c) : m \in Name \ {n}
  BY DEF Names
<1>7. more.servers[n] = s /\ \A m \in Names(c) : more.servers[m] = c.servers[m]
  BY <1>1, <1>5, <1>6
<1>8. Veids(more) = Veids(c) \cup {s.veid}
  <2>1. \A x : x \in Veids(more) <=> \E m \in Names(c) \cup {n} : x = more.servers[m].veid
    BY <1>1, <1>4 DEF Veids
  <2>2. \A x : x \in Veids(c) <=> \E m \in Names(c) : x = c.servers[m].veid
    BY DEF Veids
  <2>3. \A x : (\E m \in Names(c) \cup {n} : x = more.servers[m].veid)
          <=> x = more.servers[n].veid \/ \E m \in Names(c) : x = more.servers[m].veid
    OBVIOUS
  <2>4. \A x : (\E m \in Names(c) : x = more.servers[m].veid) <=> \E m \in Names(c) : x = c.servers[m].veid
    <3>1. \A m \in Names(c) : more.servers[m].veid = c.servers[m].veid
      BY <1>7, Zenon
    <3> QED
      BY <3>1, Zenon
  <2>5. more.servers[n].veid = s.veid
    BY <1>7, Zenon
  <2>6. \A x : x \in Veids(more) <=> x \in Veids(c) \/ x = s.veid
    <3> SUFFICES ASSUME NEW x
                 PROVE  x \in Veids(more) <=> x \in Veids(c) \/ x = s.veid
      OBVIOUS
    <3>1. x \in Veids(more) <=> x = more.servers[n].veid \/ \E m \in Names(c) : x = more.servers[m].veid
      BY <2>1, <2>3, Zenon
    <3>2. x \in Veids(c) <=> \E m \in Names(c) : x = more.servers[m].veid
      BY <2>2, <2>4
    <3> QED
      BY <2>5, <3>1, <3>2
  <2> QED
    BY <2>6
<1> QED
  BY <1>1, <1>4, <1>7, <1>8 DEF more

\* What a row did not find and what it found.
Skipped(t, row) == row.server.veid \in t.known \/ row.name \in Names(t.cfg)

\* What is true of an import after any number of rows: it has added servers of
\* their own VPS to the fleet it began with.
GrownTo(c, more, known, added) ==
  /\ known = Veids(more)
  /\ Names(c) \subseteq Names(more)
  /\ \A n \in Names(c) : more.servers[n] = c.servers[n]
  /\ \A n \in Names(more) \ Names(c) : \A m \in Names(more) \ {n} :
       more.servers[n].veid # more.servers[m].veid
  /\ Sound(c) => Sound(more)
  /\ \A i \in 1..Len(added) : added[i] \in Names(more)

Grown(c, t) == GrownTo(c, t.cfg, t.known, t.added)

\* One more server.
GrownBy(c, b, known, added, n, s, d) ==
  /\ GrownTo(c, Add(b, n, s, d), known \cup {s.veid}, Append(added, n))
  /\ Add(b, n, s, d) \in Config
  /\ Names(Add(b, n, s, d)) = Names(b) \cup {n}

LEMMA AddGrows ==
  ASSUME NEW c \in Config, NEW b \in Config, NEW known, NEW added \in Seq(Name), GrownTo(c, b, known, added),
         NEW n \in Name, n \notin Names(b), NEW s \in Server, s.veid \notin known, NEW d
  PROVE  GrownBy(c, b, known, added, n, s, d)
<1> DEFINE more == Add(b, n, s, d)
<1>1. /\ more \in Config /\ Names(more) = Names(b) \cup {n}
      /\ more.servers[n] = s /\ \A m \in Names(b) : more.servers[m] = b.servers[m]
      /\ Veids(more) = Veids(b) \cup {s.veid}
  BY AddParts
<1>2. Sound(b) => Sound(more)
  BY AddFleet
<1> HIDE DEF more
<1>3. /\ known = Veids(b) /\ Names(c) \subseteq Names(b) /\ s.veid \notin Veids(b)
      /\ \A m \in Names(c) : b.servers[m] = c.servers[m]
      /\ Sound(c) => Sound(b)
      /\ \A i \in 1..Len(added) : added[i] \in Names(b)
  BY DEF GrownTo
<1>4. \A m \in Names(b) : b.servers[m].veid \in Veids(b)
  BY DEF Veids
<1>5. \A k \in Names(more) \ Names(c) : \A m \in Names(more) \ {k} :
        more.servers[k].veid # more.servers[m].veid
  <2> SUFFICES ASSUME NEW k \in Names(more) \ Names(c), NEW m \in Names(more) \ {k}
               PROVE  more.servers[k].veid # more.servers[m].veid
    BY Zenon
  <2>1. CASE k = n
    <3>1. m \in Names(b)
      BY <1>1, <2>1
    <3> QED
      BY <1>1, <1>3, <1>4, <2>1, <3>1
  <2>2. CASE m = n
    <3>1. k \in Names(b)
      BY <1>1, <2>2
    <3> QED
      BY <1>1, <1>3, <1>4, <2>2, <3>1
  <2>3. CASE k # n /\ m # n
    <3>1. k \in Names(b) \ Names(c) /\ m \in Names(b) \ {k}
      BY <1>1, <2>3
    <3>2. b.servers[k].veid # b.servers[m].veid
      BY <3>1, Zenon DEF GrownTo
    <3> QED
      BY <1>1, <3>1, <3>2
  <2> QED
    BY <2>1, <2>2, <2>3
<1>6. \A i \in 1..Len(Append(added, n)) : Append(added, n)[i] \in Names(more)
  <2>1. \A i \in 1..Len(Append(added, n)) :
          (i \in 1..Len(added) /\ Append(added, n)[i] = added[i]) \/ Append(added, n)[i] = n
    OBVIOUS
  <2> QED
    BY <1>1, <1>3, <2>1
<1> QED
  BY <1>1, <1>2, <1>3, <1>5, <1>6 DEF GrownTo, GrownBy, more

\* One more row.
LEMMA RowGrows ==
  ASSUME NEW c \in Config, NEW t \in Tally, Grown(c, t), NEW row \in Row,
         NEW next, next = ImportRow(t, row, FALSE)
  PROVE  /\ Grown(c, next) /\ Skipped(next, row)
         /\ \A other : Skipped(t, other) => Skipped(next, other)
<1>1. t.cfg \in Config /\ t.known \in SUBSET Veid /\ t.added \in Seq(Name)
  BY DEF Tally
<1>2. row.name \in Name /\ row.server \in Server /\ row.server.veid \in Veid
  BY DEF Row, Server
<1>3. CASE Skipped(t, row)
  BY <1>3 DEF ImportRow, Skipped
<1>4. CASE ~Skipped(t, row)
  <2>0. PICK b, known, added, n, s, d :
        /\ b = t.cfg /\ known = t.known /\ added = t.added
        /\ n = row.name /\ s = row.server /\ d = FALSE
    OBVIOUS
  <2> DEFINE more == Add(b, n, s, d)
  <2>1. /\ b \in Config /\ known \in SUBSET Veid /\ added \in Seq(Name) /\ n \in Name /\ s \in Server
        /\ s.veid \in Veid
    BY <1>1, <1>2, <2>0, Zenon
  <2>2. n \notin Names(b) /\ s.veid \notin known /\ GrownTo(c, b, known, added)
    BY <1>4, <2>0, Zenon DEF Skipped, Grown
  <2>3. next = [cfg |-> more, known |-> known \cup {s.veid}, added |-> Append(added, n)]
    BY <1>4, <2>0, Zenon DEF ImportRow, Skipped
  <2>4. /\ GrownTo(c, more, known \cup {s.veid}, Append(added, n))
        /\ more \in Config /\ Names(more) = Names(b) \cup {n}
    <3>1. GrownBy(c, b, known, added, n, s, d)
      BY <2>1, <2>2, AddGrows
    <3> QED
      BY <3>1 DEF GrownBy
  <2>5. known \cup {s.veid} \in SUBSET Veid /\ Append(added, n) \in Seq(Name)
    BY <2>1
  <2> HIDE DEF more
  <2>6. next.cfg = more /\ next.known = known \cup {s.veid} /\ next.added = Append(added, n)
    <3>1. /\ [cfg |-> more, known |-> known \cup {s.veid}, added |-> Append(added, n)].cfg = more
          /\ [cfg |-> more, known |-> known \cup {s.veid}, added |-> Append(added, n)].known = known \cup {s.veid}
          /\ [cfg |-> more, known |-> known \cup {s.veid}, added |-> Append(added, n)].added = Append(added, n)
      BY <2>4, <2>5, TallyParts
    <3> QED
      BY <2>3, <3>1, Zenon
  <2>7. Grown(c, next)
    BY <2>4, <2>6, Zenon DEF Grown
  <2>8. n \in Names(next.cfg) /\ t.known \subseteq next.known /\ Names(t.cfg) \subseteq Names(next.cfg)
        /\ s.veid \in next.known
    BY <2>0, <2>4, <2>6
  <2> QED
    BY <2>0, <2>7, <2>8, Zenon DEF Skipped
<1> QED
  BY <1>3, <1>4

LEMMA NothingGrown ==
  ASSUME NEW c \in Config
  PROVE  Grown(c, Untouched(c)) /\ Untouched(c).cfg = c
BY DEF Grown, GrownTo, Untouched

\* All of them: every row was added, or found its VPS or its name taken.
LEMMA ImportGrows ==
  ASSUME NEW c \in Config, NEW rows \in Seq(Row)
  PROVE  LET done == ImportRows(c, rows, FALSE)[Len(rows)] IN
           /\ done \in Tally /\ Grown(c, done)
           /\ \A n \in 1..Len(rows) : Skipped(done, rows[n])
<1> DEFINE after == ImportRows(c, rows, FALSE)
           N == Len(rows)
           S == {n \in 0..N : Grown(c, after[n]) /\ \A m \in 1..n : Skipped(after[n], rows[m])}
<1>1. N \in Nat /\ \A n \in 1..N : rows[n] \in Row
  OBVIOUS
<1>2. /\ after \in [0..N -> Tally] /\ after[0] = Untouched(c)
      /\ \A n \in 1..N : after[n] = ImportRow(after[n - 1], rows[n], FALSE)
  BY ImportTurns
<1> HIDE DEF after, N
<1>3. 0 \in S
  BY <1>1, <1>2, NothingGrown
<1>4. ASSUME NEW n \in 1..N, n - 1 \in S
      PROVE  n \in S
  <2>1. /\ n \in 0..N /\ n - 1 \in 0..N /\ rows[n] \in Row /\ after[n - 1] \in Tally
        /\ \A m \in 1..n : m \in 1..(n - 1) \/ m = n
    BY <1>1, <1>2
  <2>2. Grown(c, after[n - 1]) /\ \A m \in 1..(n - 1) : Skipped(after[n - 1], rows[m])
    BY <1>4
  <2>3. /\ Grown(c, after[n]) /\ Skipped(after[n], rows[n])
        /\ \A other : Skipped(after[n - 1], other) => Skipped(after[n], other)
    BY <1>2, <2>1, <2>2, RowGrows
  <2> QED
    BY <2>1, <2>2, <2>3
<1>5. N \in S
  <2> HIDE DEF S
  <2>1. \A n \in 0..N : n \in S
    BY <1>1, <1>3, <1>4, EveryTurn
  <2> QED
    BY <1>1, <2>1
<1> QED
  BY <1>1, <1>2, <1>5 DEF after, N

\* The servers that were added are those of the rows, under their names.
Sourced(c, more, rows, n) ==
  \A x \in Names(more) \ Names(c) : \E j \in 1..n : rows[j].name = x /\ rows[j].server = more.servers[x]

LEMMA RowSources ==
  ASSUME NEW c \in Config, NEW t \in Tally, NEW rows \in Seq(Row), NEW n \in 1..Len(rows),
         Sourced(c, t.cfg, rows, n - 1), NEW next, next = ImportRow(t, rows[n], FALSE)
  PROVE  Sourced(c, next.cfg, rows, n)
<1>1. t.cfg \in Config /\ t.known \in SUBSET Veid /\ t.added \in Seq(Name)
  BY DEF Tally
<1>2. rows[n].name \in Name /\ rows[n].server \in Server /\ rows[n].server.veid \in Veid
  <2>1. rows[n] \in Row
    OBVIOUS
  <2> QED
    BY <2>1 DEF Row, Server
<1>3. n \in 1..n /\ \A j : j \in 1..(n - 1) => j \in 1..n
  OBVIOUS
<1>4. Sourced(c, t.cfg, rows, n)
  BY <1>3, Zenon DEF Sourced
<1>5. CASE Skipped(t, rows[n])
  <2>1. next = t
    BY <1>5 DEF ImportRow, Skipped
  <2> QED
    BY <1>4, <2>1
<1>6. CASE ~Skipped(t, rows[n])
  <2>0. PICK b, known, added, d :
          b = t.cfg /\ known = t.known /\ added = t.added /\ d = FALSE
    OBVIOUS
  <2>1. PICK x, s : x = rows[n].name /\ s = rows[n].server
    OBVIOUS
  <2> DEFINE more == Add(b, x, s, d)
  <2>2. b \in Config /\ known \in SUBSET Veid /\ added \in Seq(Name) /\ x \in Name /\ s \in Server
        /\ s.veid \in Veid /\ x \notin Names(b)
    BY <1>1, <1>2, <1>6, <2>0, <2>1, Zenon DEF Skipped
  <2>3. next = [cfg |-> more, known |-> known \cup {s.veid}, added |-> Append(added, x)]
    BY <1>6, <2>0, <2>1, Zenon DEF ImportRow, Skipped
  <2>4. /\ more \in Config /\ Names(more) = Names(b) \cup {x}
        /\ more.servers[x] = s /\ \A m \in Names(b) : more.servers[m] = b.servers[m]
    BY <2>2, AddParts
  <2> HIDE DEF more
  <2>5. known \cup {s.veid} \in SUBSET Veid /\ Append(added, x) \in Seq(Name)
    BY <2>2
  <2>6. next.cfg = more
    <3>1. [cfg |-> more, known |-> known \cup {s.veid}, added |-> Append(added, x)].cfg = more
      BY <2>4, <2>5, TallyParts
    <3> QED
      BY <2>3, <3>1, Zenon
  <2>7. Sourced(c, b, rows, n)
    BY <1>4, <2>0, Zenon
  <2>8. ASSUME NEW y \in Names(more) \ Names(c)
        PROVE  \E j \in 1..n : rows[j].name = y /\ rows[j].server = more.servers[y]
    <3>1. CASE y = x
      BY <1>3, <2>1, <2>4, <3>1, Zenon
    <3>2. CASE y # x
      <4>1. y \in Names(b) \ Names(c)
        BY <2>4, <3>2
      <4>2. more.servers[y] = b.servers[y]
        BY <2>4, <4>1
      <4> QED
        BY <2>7, <4>1, <4>2, Zenon DEF Sourced
    <3> QED
      BY <3>1, <3>2
  <2> QED
    BY <2>6, <2>8, Zenon DEF Sourced
<1> QED
  BY <1>5, <1>6

LEMMA ImportSources ==
  ASSUME NEW c \in Config, NEW rows \in Seq(Row)
  PROVE  Sourced(c, ImportRows(c, rows, FALSE)[Len(rows)].cfg, rows, Len(rows))
<1> DEFINE after == ImportRows(c, rows, FALSE)
           N == Len(rows)
           S == {n \in 0..N : Sourced(c, after[n].cfg, rows, n)}
<1>1. N \in Nat
  OBVIOUS
<1>2. /\ after \in [0..N -> Tally] /\ after[0] = Untouched(c)
      /\ \A n \in 1..N : after[n] = ImportRow(after[n - 1], rows[n], FALSE)
  BY ImportTurns
<1> HIDE DEF after
<1>3. 0 \in S
  <2>1. after[0].cfg = c
    BY <1>2, NothingGrown
  <2>2. Sourced(c, after[0].cfg, rows, 0)
    BY <2>1 DEF Sourced
  <2> QED
    BY <1>1, <2>2
<1>4. ASSUME NEW n \in 1..N, n - 1 \in S
      PROVE  n \in S
  <2>1. n \in 0..N /\ n - 1 \in 0..N
    BY <1>1
  <2>2. after[n - 1] \in Tally /\ Sourced(c, after[n - 1].cfg, rows, n - 1)
        /\ after[n] = ImportRow(after[n - 1], rows[n], FALSE)
    BY <1>2, <1>4, <2>1
  <2>3. Sourced(c, after[n].cfg, rows, n)
    BY <2>2, RowSources
  <2> QED
    BY <2>1, <2>3
<1>5. N \in S
  <2> HIDE DEF S, N
  <2>1. \A n \in 0..N : n \in S
    BY <1>1, <1>3, <1>4, EveryTurn
  <2> QED
    BY <1>1, <2>1
<1> QED
  BY <1>5 DEF after

\* Importing again adds nothing, if every row finds its VPS or its name taken.
LEMMA ImportAgain ==
  ASSUME NEW c \in Config, NEW rows \in Seq(Row), \A n \in 1..Len(rows) : Skipped(Untouched(c), rows[n])
  PROVE  ImportRows(c, rows, FALSE)[Len(rows)] = Untouched(c)
<1> DEFINE after == ImportRows(c, rows, FALSE)
           N == Len(rows)
           S == {n \in 0..N : after[n] = Untouched(c)}
<1>1. N \in Nat /\ \A n \in 1..N : rows[n] \in Row
  OBVIOUS
<1>2. /\ after[0] = Untouched(c)
      /\ \A n \in 1..N : after[n] = ImportRow(after[n - 1], rows[n], FALSE)
  BY ImportTurns
<1>3. \A n \in 1..N : ImportRow(Untouched(c), rows[n], FALSE) = Untouched(c)
  BY <1>1 DEF ImportRow, Skipped
<1> HIDE DEF after, N
<1>4. 0 \in S
  BY <1>1, <1>2
<1>5. ASSUME NEW n \in 1..N, n - 1 \in S
      PROVE  n \in S
  <2>1. n \in 0..N /\ after[n - 1] = Untouched(c)
    BY <1>1, <1>5
  <2> QED
    BY <1>2, <1>3, <2>1
<1>6. N \in S
  <2> HIDE DEF S
  <2>1. \A n \in 0..N : n \in S
    BY <1>1, <1>4, <1>5, EveryTurn
  <2> QED
    BY <1>1, <2>1
<1> QED
  BY <1>6 DEF after, N

\* What import saves, whatever the file and the fleet.
LEMMA ImportFleet ==
  ASSUME NEW c \in Config, NEW j, j.rows \in Seq(Row), j.dryRun \in BOOLEAN, NEW d \in Imported(c, j)
  PROVE  /\ d \in Config /\ (Sound(c) => Sound(d))
         /\ \A n \in Names(c) : d.servers[n] = c.servers[n]
         /\ \A n \in Names(d) \ Names(c) : \A m \in Names(d) \ {n} : d.servers[n].veid # d.servers[m].veid
         /\ Imported(d, j) = {}
<1> DEFINE done == ImportRows(c, j.rows, FALSE)[Len(j.rows)]
<1>1. ~j.dryRun /\ j.rows \in Seq(Row)
  BY DEF Imported
<1>2. \A b \in Config : ImportRows(b, j.rows, j.dryRun) = ImportRows(b, j.rows, FALSE)
  <2>1. j.dryRun = FALSE
    BY <1>1
  <2> QED
    BY <2>1
<1>3. /\ done \in Tally /\ Grown(c, done)
      /\ \A n \in 1..Len(j.rows) : Skipped(done, j.rows[n])
  BY <1>1, ImportGrows
<1>4. done.cfg \in Config /\ done.added \in Seq(Name)
  BY <1>3 DEF Tally
<1>5. d = done.cfg \/ \E n \in Names(done.cfg) : d = [done.cfg EXCEPT !.default = n]
  <2>1. d = Import(c, j.rows, j.makeDefault, j.dryRun).cfg
    BY DEF Imported
  <2> HIDE DEF done
  <2>2. CASE j.makeDefault /\ Len(done.added) = 1
    <3>1. Import(c, j.rows, j.makeDefault, j.dryRun) = [done EXCEPT !.cfg.default = done.added[1]]
      BY <1>1, <1>2, <2>2 DEF Import, done
    <3>2. done.added[1] \in Names(done.cfg)
      BY <1>3, <2>2 DEF Grown, GrownTo
    <3>3. Import(c, j.rows, j.makeDefault, j.dryRun).cfg = [done.cfg EXCEPT !.default = done.added[1]]
      BY <1>3, <3>1 DEF Tally
    <3> QED
      BY <2>1, <3>2, <3>3
  <2>3. CASE ~(j.makeDefault /\ Len(done.added) = 1)
    BY <1>1, <1>2, <2>1, <2>3 DEF Import, done
  <2> QED
    BY <2>2, <2>3
<1>6. /\ d \in Config /\ Names(d) = Names(done.cfg) /\ d.servers = done.cfg.servers
      /\ d.default = done.cfg.default \/ d.default \in Names(d)
  <2>1. Names(done.cfg) \subseteq Name
    BY DEF Names
  <2> HIDE DEF done
  <2>2. CASE d = done.cfg
    BY <1>4, <2>2
  <2>3. ASSUME NEW n \in Names(done.cfg), d = [done.cfg EXCEPT !.default = n]
        PROVE  /\ d \in Config /\ Names(d) = Names(done.cfg) /\ d.servers = done.cfg.servers
               /\ d.default = done.cfg.default \/ d.default \in Names(d)
    <3>1. d \in Config /\ d.default = n /\ Names(d) = Names(done.cfg)
      BY <1>4, <2>1, <2>3, WithDefault
    <3>2. d.servers = done.cfg.servers
      BY <1>4, <2>3 DEF Config
    <3> QED
      BY <3>1, <3>2
  <2> QED
    BY <1>5, <2>2, <2>3
<1>7. Veids(d) = Veids(done.cfg)
  BY <1>6 DEF Veids
<1>8. Imported(d, j) = {}
  <2> HIDE DEF done
  <2>1. \A n \in 1..Len(j.rows) : Skipped(Untouched(d), j.rows[n])
    BY <1>3, <1>6, <1>7 DEF Skipped, Untouched, Grown, GrownTo
  <2>2. ImportRows(d, j.rows, j.dryRun)[Len(j.rows)] = Untouched(d)
    BY <1>1, <1>2, <1>6, <2>1, ImportAgain
  <2>3. Untouched(d).added = <<>> /\ Len(<<>>) = 0
    BY DEF Untouched
  <2>4. Import(d, j.rows, j.makeDefault, j.dryRun) = Untouched(d)
    BY <2>2, <2>3 DEF Import
  <2> QED
    BY <2>3, <2>4 DEF Imported
<1>9. Sound(c) => Sound(d)
  <2> HIDE DEF done
  <2> QED
    BY <1>3, <1>6 DEF Grown, GrownTo, Sound
<1> QED
  <2> HIDE DEF done
  <2> QED
    BY <1>3, <1>6, <1>8, <1>9 DEF Grown, GrownTo

=============================================================================
