------------------------------ MODULE PortalCsv ------------------------------
(***************************************************************************)
(* config.ParseCSV: how the billing portal's export of API keys is read,   *)
(* with or without a header, in any order of its columns, and what name    *)
(* each VPS gets; and what `bwg server import` then makes of the fleet.    *)
(* A cell is a kind of text with what it says; a name is the sequence of   *)
(* its parts, so that web-2 is <<"web", 2>>.                               *)
(***************************************************************************)
EXTENDS FleetConfig, Integers

Cell(is, of) == [is |-> is, of |-> of]

\* The first row is a header if it names the VEID or the API key by a word
\* that nothing else is named by.
Heads(row, words)    == {c \in DOMAIN row : row[c].is = "head" /\ row[c].of \in words}
LooksLikeHeader(row) == Heads(row, {"veid", "apikey"}) # {}

FirstOf(S) == IF S = {} THEN 0 ELSE CHOOSE c \in S : \A d \in S : c <= d
LastOf(S)  == IF S = {} THEN 0 ELSE CHOOSE c \in S : \A d \in S : c >= d

\* detectColumns: where the first cell of that look is, row by row.
Detected(rows, look) ==
  LET at == {r \in DOMAIN rows : \E c \in DOMAIN rows[r] : rows[r][c].is = look}
      r  == FirstOf(at)
  IN  IF at = {} THEN 0 ELSE FirstOf({c \in DOMAIN rows[r] : rows[r][c].is = look})

Body(file) == IF LooksLikeHeader(file[1]) THEN Tail(file) ELSE file

\* The columns: those the header names, unless it does not name both the VEID
\* and the key; then both are detected.  0 if there is none.
Columns(file) ==
  LET headed == LooksLikeHeader(file[1])
      veid   == IF headed THEN LastOf(Heads(file[1], {"veid", "id"})) ELSE 0
      key    == IF headed THEN LastOf(Heads(file[1], {"apikey", "key"})) ELSE 0
      detect == veid = 0 \/ key = 0
  IN  [veid |-> IF detect THEN Detected(Body(file), "veid") ELSE veid,
       key  |-> IF detect THEN Detected(Body(file), "key") ELSE key,
       name |-> IF headed THEN FirstOf(Heads(file[1], {"name"})) ELSE 0]

\* A row is read if it reaches that far, and Validate accepts what it says.
Readable(row, cols) ==
  /\ cols.veid \in DOMAIN row /\ row[cols.veid].is = "veid"
  /\ cols.key \in DOMAIN row /\ row[cols.key].is # "blank"

\* sanitizeName: nothing is left of a reserved name.
Wanted(row, cols) ==
  IF cols.name \in DOMAIN row /\ row[cols.name].is = "host" /\ row[cols.name].of # Env
  THEN row[cols.name].of
  ELSE <<"vps", row[cols.veid].of>>

\* web, web-2, web-3: the first that no row before has.
\* (Mutant: only -2 is tried.)
FreeNameOnce(name, used) == IF name \notin used THEN name ELSE Append(name, 2)

FreeName(name, used) ==
  IF name \notin used THEN name
  ELSE Append(name, FirstOf({n \in 2..Cardinality(used) + 2 : Append(name, n) \notin used}))

ParseRow(read, row, cols) ==
  IF ~Readable(row, cols) THEN read
  ELSE Append(read,
         [name   |-> FreeName(Wanted(row, cols), {read[i].name : i \in DOMAIN read}),
          server |-> [veid |-> row[cols.veid].of, key |-> row[cols.key].of, note |-> NoNote]])

\* What was read after each number of rows.
ReadRows(rows, cols) ==
  LET read[n \in 0..Len(rows)] ==
        IF n = 0 THEN <<>> ELSE ParseRow(read[n - 1], rows[n], cols)
  IN  read

\* <<>> is an error: nothing usable in the file.
ParseCSV(file) ==
  LET cols == Columns(file)
  IN  IF cols.veid = 0 \/ cols.key = 0 THEN <<>>
      ELSE ReadRows(Body(file), cols)[Len(Body(file))]

----------------------------------------------------------------------------
(* The files the properties are about *)

IsSeq(s) == Len(s) \in Nat /\ s = [i \in 1..Len(s) |-> s[i]]

\* A name that n rows may have, and none of them gets one that ValidateName
\* refuses.
Nameable(name, n) ==
  /\ IsSeq(name) /\ name \in Name
  /\ \A i \in 2..n + 1 : Append(name, i) \in Name

\* Each column holds one kind of cell: VEIDs are in column v, keys in column k
\* only.  0 is no column.
PlainRow(row, v, k, n) ==
  /\ IsSeq(row)
  /\ k \in DOMAIN row => row[k].is \in {"key", "blank"}
  /\ \A c \in DOMAIN row :
       /\ row[c].is = "veid" => c = v /\ row[c].of \in Veid /\ Nameable(<<"vps", row[c].of>>, n)
       /\ row[c].is = "key" => c = k /\ row[c].of \in Key
       /\ row[c].is = "host" /\ row[c].of # Env => Nameable(row[c].of, n)

\* A header calls no column what another one is.
HeaderRow(row, v, k) ==
  /\ IsSeq(row)
  /\ \A c \in DOMAIN row :
       /\ row[c].is = "head"
       /\ row[c].of \in {"veid", "id"} => c = v
       /\ row[c].of \in {"apikey", "key"} => c = k

PortalFile(file, v, k) ==
  /\ IsSeq(file) /\ file # <<>>
  /\ IF LooksLikeHeader(file[1]) THEN HeaderRow(file[1], v, k)
     ELSE PlainRow(file[1], v, k, Len(file))
  /\ \A r \in 2..Len(file) : PlainRow(file[r], v, k, Len(file))

IsPortalFile(file) ==
  \E v, k \in {0} \cup UNION {DOMAIN file[r] : r \in DOMAIN file} : PortalFile(file, v, k)

----------------------------------------------------------------------------
(* Properties *)

\* Whatever the order of the columns, with a header, a partial one or none:
\* every complete row is read, in order, and no VPS gets another one's key.
Pairs(row) ==
  LET veids == {c \in DOMAIN row : row[c].is = "veid"}
      keys  == {c \in DOMAIN row : row[c].is = "key"}
  IN  IF veids = {} \/ keys = {} THEN <<>>
      ELSE << <<row[FirstOf(veids)].of, row[FirstOf(keys)].of>> >>

EveryPairIsRead(file) ==
  LET read == ParseCSV(file)
  IN  [i \in DOMAIN read |-> <<read[i].server.veid, read[i].server.key>>]
        = SeqOps!FlattenSeq([r \in DOMAIN file |-> Pairs(file[r])])

\* "Hostnames repeat across a fleet": no two rows get one name, also when one
\* row's hostname is what another's would be numbered as.
NamesAreDistinct(file) ==
  LET read == ParseCSV(file)
  IN  \A i, j \in DOMAIN read : read[i].name = read[j].name => i = j

\* "Re-importing after buying a box is safe": no VPS of the file is left out
\* of the fleet but for a name that another VPS had before; every one that is
\* added has its own key; nothing that was there changes.
OnlyClashesAreLeftOut(cfg, file) ==
  LET read == ParseCSV(file)
      done == Import(cfg, read, FALSE, FALSE).cfg
  IN  /\ \A n \in Names(cfg) : done.servers[n] = cfg.servers[n]
      /\ \A i \in DOMAIN read :
           \/ read[i].server.veid \in Veids(done)
           \/ read[i].name \in Names(cfg) /\ cfg.servers[read[i].name].veid # read[i].server.veid
      /\ \A n \in Names(done) \ Names(cfg) :
           \E i \in DOMAIN read : read[i].server = done.servers[n]

=============================================================================
