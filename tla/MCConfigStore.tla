---------------------------- MODULE MCConfigStore ----------------------------
(* Small instances of ConfigStore for TLC. *)
EXTENDS ConfigStore

CONSTANTS a, b, v1, v2, k1, k2, n1

Box(v) == [veid |-> v, key |-> k1, note |-> NoNote]
Row(n, v) == [name |-> n, server |-> Box(v)]

\* One subcommand of each kind, on the same servers, and the imports whose
\* rows clash with a name, with a VPS, or with neither.
Jobs ==
  {[kind |-> "add", name |-> b, server |-> Box(v2), makeDefault |-> TRUE],
   [kind |-> "add", name |-> a, server |-> Box(v1), makeDefault |-> FALSE],
   [kind |-> "set", name |-> a, key |-> k2, note |-> NoName],
   [kind |-> "set", name |-> b, key |-> NoName, note |-> n1],
   [kind |-> "set", name |-> b, key |-> k2, note |-> NoNote],
   [kind |-> "rm", name |-> a], [kind |-> "rm", name |-> b],
   [kind |-> "default", name |-> b],
   [kind |-> "import", rows |-> <<Row(a, v1), Row(b, v2)>>, makeDefault |-> TRUE,
    dryRun |-> FALSE],
   [kind |-> "import", rows |-> <<Row(b, v1), Row(a, v2)>>, makeDefault |-> FALSE,
    dryRun |-> FALSE],
   [kind |-> "import", rows |-> <<Row(a, v2)>>, makeDefault |-> FALSE, dryRun |-> TRUE]}

\* The fleets to start from: every combination of the two names, once each.
Fleet(names, default) ==
  [servers |-> [n \in Name |-> IF n \notin names THEN Absent
                               ELSE IF n = a THEN Box(v1) ELSE [Box(v2) EXCEPT !.note = n1]],
   default |-> default]

Start ==
  /\ Init
  /\ file \in {NoFile, Empty, Fleet({a}, a), Fleet({b}, b), Fleet({a, b}, a), Fleet({a, b}, NoName)}

StoreSpec == Start /\ [][Next]_vars

=============================================================================
