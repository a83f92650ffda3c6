------------------------------ MODULE Incidents ------------------------------
(***************************************************************************)
(* BandwagonHost's status feed held against the fleet: which incidents may *)
(* touch which server, and the verdict `bwg incidents` gives.  A text is   *)
(* the places and the nodes it mentions; a node is its digits, as in v3105,*)
(* or those of a whole family, as in v31xx.                                *)
(***************************************************************************)
EXTENDS Loops

Seqs == INSTANCE SequencesExt

Node(digits)     == [digits |-> digits, family |-> FALSE]
NodesOf(digits)  == [digits |-> digits, family |-> TRUE]

Incident(places, digits) ==
  [id : Nat, updated : Nat, resolved : BOOLEAN, places : SUBSET places,
   nodes : SUBSET [digits : Seq(digits), family : BOOLEAN]]

\* Two to four digits are looked at, with xx or more digits
\* after them.
Prefix(mention) ==
  IF Len(mention.digits) <= 4 THEN mention.digits ELSE SubSeq(mention.digits, 1, 4)
FindNodePrefixes(inc) ==
  {Prefix(m) : m \in {n \in inc.nodes :
     Len(n.digits) >= 2 /\ (n.family => Len(n.digits) <= 4)}}

\* Match: why an incident may affect a server.  A place is looked up in the
\* server's location and datacenter, a prefix at the start of its node's alias;
\* <<>> is a server whose node is not known.
Reasons(inc, target) ==
  [places |-> inc.places \cap target.places,
   nodes  |-> {p \in FindNodePrefixes(inc) : target.node # <<>> /\ Seqs!IsPrefix(p, target.node)}]

Linked(inc, target) == Reasons(inc, target) # [places |-> {}, nodes |-> {}]

\* Parse: the feed, the last updated first, and otherwise in its own order.
Before(feed) ==
  {p \in (DOMAIN feed) \X (DOMAIN feed) :
     \/ feed[p[1]].updated > feed[p[2]].updated
     \/ feed[p[1]].updated = feed[p[2]].updated /\ p[1] < p[2]}

Newest(feed) ==
  LET order == Sorted(DOMAIN feed, Before(feed))
  IN  [n \in DOMAIN feed |-> feed[order[n]]]

Ongoing(incidents) == Kept(incidents, {inc \in Seqs!Range(incidents) : ~inc.resolved})

Summarize(incidents) ==
  [operational |-> \A i \in DOMAIN incidents : incidents[i].resolved,
   ongoing     |-> Len(Ongoing(incidents)),
   total       |-> Len(incidents),
   lastUpdate  |-> Seqs!Max({0} \cup {incidents[i].updated : i \in DOMAIN incidents})]

\* App.Servers: the server --server names, or else those with every --tag, whose
\* case does not count; to choose none is an error.
NoServer == ""

Servers(fleet, pick) ==
  IF pick.server # NoServer THEN {s \in fleet : s.name = pick.server}
  ELSE {s \in fleet : pick.tags \subseteq s.tags}

\* fleetTargets: of the chosen servers, those that answered, and the others by
\* name.  The error of a choice of none is dropped: nobody is asked or named.
\* (Mutant: who does not answer is dropped.)
TargetsOnly(fleet, pick) ==
  [targets |-> {s \in Servers(fleet, pick) : s.answers}, unchecked |-> {}]

Targets(fleet, pick) ==
  LET servers == Servers(fleet, pick)
  IN  [targets   |-> {s \in servers : s.answers},
       unchecked |-> {s.name : s \in {t \in servers : ~t.answers}}]

\* The command: the summary is of what --ongoing left; --all asks no server.
Report(feed, fleet, pick, ongoing, all) ==
  LET incidents == IF ongoing THEN Ongoing(Newest(feed)) ELSE Newest(feed)
      asked     == IF all THEN [targets |-> {}, unchecked |-> {}] ELSE Targets(fleet, pick)
  IN  [summary   |-> Summarize(incidents),
       incidents |-> [i \in DOMAIN incidents |->
                        [inc |-> incidents[i],
                         affects |-> {t.name : t \in {s \in asked.targets : Linked(incidents[i], s)}}]],
       unchecked |-> asked.unchecked]

----------------------------------------------------------------------------
(* Properties *)

\* The verdict, and the number that are open, are the feed's: --ongoing and
\* --all, which change what is listed, do not change them; and what is listed
\* as open is as many as the verdict says, with the last change first.
OneVerdict(feed, fleet, pick) ==
  \A ongoing, all \in BOOLEAN :
    LET report == Report(feed, fleet, pick, ongoing, all)
    IN  /\ report.summary.operational <=> \A i \in DOMAIN feed : feed[i].resolved
        /\ report.summary.ongoing = Cardinality({i \in DOMAIN feed : ~feed[i].resolved})
        /\ report.summary.ongoing
             = Cardinality({i \in DOMAIN report.incidents : ~report.incidents[i].inc.resolved})
        /\ report.incidents # <<>> => report.incidents[1].inc.updated = report.summary.lastUpdate

\* "An unchecked box is not a clear box", of the servers --server and --tag
\* choose: every incident is listed, and a chosen server stands under each that
\* names its place or its very node, or else among those that were not checked.
\* No other server is said to be affected or unchecked, and a choice of none
\* leaves a report that no server is in.
Touches(inc, s) ==
  \/ inc.places \cap s.places # {}
  \/ Len(s.node) >= 2 /\ Node(s.node) \in inc.nodes

UncheckedIsNotClear(feed, fleet, pick) ==
  LET report == Report(feed, fleet, pick, FALSE, FALSE)
      listed == Seqs!Range(report.incidents)
      chosen == Servers(fleet, pick)
  IN  /\ {r.inc : r \in listed} = Seqs!Range(feed)
      /\ \A s \in chosen, r \in listed :
           Touches(r.inc, s) => s.name \in r.affects \cup report.unchecked
      /\ \A r \in listed : r.affects \cup report.unchecked \subseteq {s.name : s \in chosen}

=============================================================================
