---------------------------- MODULE MCMcpServer ----------------------------
(* Small instances of McpServer for TLC. *)
EXTENDS McpServer

CONSTANTS a, b, v1, v2, v3, k1

Box(v) == [veid |-> v, key |-> k1, note |-> NoNote]

\* No server; and two, which another process may exchange.
Fleets ==
  {Empty,
   [servers |-> [n \in Name |-> IF n = a THEN Box(v1) ELSE Box(v2)], default |-> NoName],
   [servers |-> [n \in Name |-> IF n = a THEN Box(v2) ELSE Box(v1)], default |-> a]}

\* One tool of each shape, with every arguments its requests depend on; some
\* with a server; and every other kind of line.
Shapes == {t \in Toolset : t.name \in {"bwg_fleet", "bwg_incidents", "bwg_info", "bwg_abuse",
                                       "bwg_power", "bwg_set_ptr"}}
Calls(t) == {Request("call", t, calls, NoName) : calls \in t.calls}

ClientLines ==
  {Bare(form) : form \in {"blank", "long", "garbled", "plain", "unknown", "unfit"}}
  \cup {Request("note", PowerTool, <<"stop">>, NoName)}
  \cup UNION {Calls(t) : t \in Shapes}
  \cup {Request("call", PowerTool, <<"stop">>, n) : n \in {b, Env}}

\* Credentials in the environment alone, and beside a fleet with a default.
Start == Init /\ (creds => fleet = Empty \/ fleet.default = a)

MCSpec == Start /\ [][Next]_vars /\ Fairness

=============================================================================
