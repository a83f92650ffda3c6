---------------------------- MODULE MCAlgorithms ----------------------------
(***************************************************************************)
(* Small inputs for the functions of Algorithms, for TLC.                  *)
(***************************************************************************)
EXTENDS Algorithms

CONSTANTS v1, v2, v3, k1, k2, k3

----------------------------------------------------------------------------
(* Exports of the billing portal *)

Web    == <<"web">>
Web2   == <<"web", 2>>
Vps1   == <<"vps", v1>>
Hosts  == {Web, Web2, Vps1, Env}

\* Every name a row may get.
MCName == LET base == {Web, Web2} \cup {<<"vps", v>> : v \in Veid}
          IN  base \cup {Append(n, i) : n \in base, i \in 2..5}

Blank == Cell("blank", NoName)

\* A row as the portal knows it, with a cell that may be empty.
Entry(veid, key, host) == [veid |-> veid, key |-> key, host |-> host]
Entries ==
  {Entry(Cell("veid", v1), Cell("key", k1), Cell("host", h)) : h \in Hosts}
  \cup {Entry(Cell("veid", v2), Cell("key", k2), Cell("host", Web)),
        Entry(Cell("veid", v3), Cell("key", k3), Cell("host", Web2)),
        Entry(Cell("veid", v3), Cell("key", k3), Blank),
        Entry(Blank, Cell("key", k3), Cell("host", Web)),
        Entry(Cell("veid", v3), Blank, Cell("host", Web))}

\* The orders of the columns, and what the header says of them: everything, not
\* the VEID, or there is none.
Orders  == {<<"veid", "key", "host">>, <<"host", "key", "veid">>, <<"key", "veid">>}
Headers == {[veid |-> "veid", key |-> "apikey", host |-> "name"],
            [veid |-> "id", key |-> "apikey", host |-> "other"],
            [veid |-> "other", key |-> "apikey", host |-> "name"]}

RowIn(order, entry)  == [c \in DOMAIN order |-> entry[order[c]]]
HeadIn(order, words) == [c \in DOMAIN order |-> Cell("head", words[order[c]])]

Bodies(order) == {[r \in 1..3 |-> RowIn(order, es[r])] : es \in [1..3 -> Entries]}
Files ==
  UNION {UNION {{body, <<HeadIn(order, words)>> \o body} : body \in Bodies(order), words \in Headers} :
           order \in Orders}

Server1(v, k) == [veid |-> v, key |-> k, note |-> NoNote]
Fleet(servers) ==
  [servers |-> [n \in Name |-> IF n \in DOMAIN servers THEN servers[n] ELSE Absent], default |-> NoName]
Fleets ==
  {Fleet(<<>>), Fleet([n \in {Web} |-> Server1(v2, k2)]),
   Fleet([n \in {Web, Web2} |-> IF n = Web THEN Server1(v3, k3) ELSE Server1(v1, k1)])}

----------------------------------------------------------------------------
(* Listings, samples, incidents, counters, versions *)

MCLetter == {"a", "A", "b"}
Texts(low, high) == UNION {[1..n -> MCLetter] : n \in low..high}

Objects(kind) ==
  {Object(n, about) : n \in Texts(1, 2),
                      about \in IF kind = "snapshot" THEN {<<>>, <<"A">>, <<"a", "b">>} ELSE {<<>>}}

\* Two snapshots, or three of the others, which have no description.
Listings(kind) ==
  LET n == IF kind = "snapshot" THEN 2 ELSE 3
  IN  {list \in [1..n -> Objects(kind)] : \A i, j \in 1..n : list[i].name = list[j].name => i = j}

Samples == UNION {[1..n -> [day : {1, 2, 4}, bytes : {0, 3}, cpu : {1, 4}]] : n \in 0..3}

MentionSets == {{}, {Node(<<3, 1>>)}, {NodesOf(<<3, 1>>)}, {Node(<<3, 1, 0, 5, 5>>)}, {Node(<<3, 2>>)}}
Reports ==
  {[i \in 1..n |-> [id |-> i, updated |-> u[i], resolved |-> r[i], places |-> IF i = 1 THEN {"osaka"} ELSE {},
                    nodes |-> m[i]]] :
     n \in {2}, u \in [1..2 -> 0..2], r \in [1..2 -> BOOLEAN], m \in [1..2 -> MentionSets]}
Boxes ==
  {[name |-> "p", tags |-> {}, places |-> {"osaka"}, node |-> <<>>, answers |-> TRUE],
   [name |-> "p", tags |-> {"prod"}, places |-> {"osaka"}, node |-> <<3, 1, 0, 5, 5>>, answers |-> FALSE],
   [name |-> "q", tags |-> {"prod", "eu"}, places |-> {}, node |-> <<3, 1, 0, 5, 5>>, answers |-> TRUE],
   [name |-> "r", tags |-> {}, places |-> {"tokyo"}, node |-> <<3, 1>>, answers |-> TRUE]}

\* Names are a fleet's own; a choice may be of a server or a tag that is not there.
Asked == {f \in SUBSET Boxes : \A x, y \in f : x.name = y.name => x = y}
Picks == [server : {NoServer}, tags : SUBSET {"prod", "eu"}] \cup [server : {"p", "s"}, tags : {{}}]

Standings ==
  [suspended : BOOLEAN, violation : BOOLEAN, nullrouted : {{}, {"ip"}}, multiplier : {-1, 0, 1, 3},
   counter : {0, 9, 10, 11}, plan : {0, 10}, points : {0, 3, 4}, maxPoints : {0, 4}]

Versions == UNION {[1..n -> Number \cup {Other}] : n \in 1..4}
MCTags   == {v \in Versions : Len(v) = 4 => v[1] = 1 /\ v[2] = 0}

----------------------------------------------------------------------------
(* The inputs *)

MCExports == [file : Files, fleet : Fleets]
MCLookups == UNION {[kind : {kind}, list : Listings(kind), ref : Texts(0, 2)] : kind \in Kinds}
MCUsages  == [samples : Samples, days : -1..4]
MCFeeds   == [feed : Reports, fleet : Asked, pick : Picks]
MCInfos   == [info : Standings, state : {"", "running", "stopped"}]

=============================================================================
