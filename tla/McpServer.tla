----------------------------- MODULE McpServer -----------------------------
(***************************************************************************)
(* `bwg mcp`: a loop that reads JSON-RPC lines from stdin, runs the tool   *)
(* one of them asks for, and writes the replies to stdout.  Around it: a   *)
(* client that may call anything, a KiwiVM that answers late or not at     *)
(* all, other bwg processes that edit the config file, and Ctrl-C.         *)
(***************************************************************************)
EXTENDS KiwiOps, FleetConfig

CONSTANTS
  Fleet,     \* the fleets the config file may hold
  EnvVeid,   \* the VPS of the credentials in the environment
  Lines,     \* the lines the client may write
  MaxLines,  \* bound: the lines it writes
  MaxEdits   \* bound: the edits of the config file

ASSUME McpAssumption ==
  /\ Fleet \subseteq Config /\ EnvVeid \in Veid
  /\ MaxLines \in Nat /\ MaxEdits \in Nat

\* What Resolve returns instead of a server is no server's name.
ASSUME NamesAssumption ==
  {"not found", "none configured", "ambiguous"} \cap (Name \cup {Env}) = {}

----------------------------------------------------------------------------
(* The tools *)

\* The endpoint a tool is classified by, and the requests it may make,
\* depending on its arguments.
Tool(name, endpoint, calls) == [name |-> name, endpoint |-> endpoint, calls |-> calls]
BoxTool(name, endpoint)     == Tool(name, endpoint, {<<endpoint>>})

\* Says of a tool that it makes no KiwiVM request of its own class.
NoEndpoint == ""

\* No arguments but these three make a request.
\* (Mutant: classified by a read it does not make.)
PowerToolByRead == Tool("bwg_power", "getServiceInfo", {<<"start">>, <<"stop">>, <<"restart">>, <<>>})

PowerTool == Tool("bwg_power", "restart", {<<"start">>, <<"stop">>, <<"restart">>, <<>>})

FleetTool     == Tool("bwg_fleet", "getServiceInfo", {<<>>})
IncidentsTool == Tool("bwg_incidents", NoEndpoint, {<<>>})

Toolset ==
  {FleetTool, IncidentsTool, PowerTool,
   BoxTool("bwg_info", "getServiceInfo"),
   BoxTool("bwg_status", "getLiveServiceInfo"),
   BoxTool("bwg_usage", "getRawUsageStats"),
   BoxTool("bwg_snapshots", "snapshot/list"),
   BoxTool("bwg_backups", "backup/list"),
   Tool("bwg_abuse", "getSuspensionDetails", {<<"getSuspensionDetails", "getPolicyViolations">>}),
   BoxTool("bwg_audit", "getAuditLog"),
   BoxTool("bwg_os_list", "getAvailableOS"),
   BoxTool("bwg_rate_limit", "getRateLimitStatus"),
   BoxTool("bwg_snapshot_create", "snapshot/create"),
   BoxTool("bwg_set_ptr", "setPTR"),
   BoxTool("bwg_set_hostname", "setHostname")}

NoTool == Tool("", NoEndpoint, {<<>>})

Sweeping(tool) == tool \in {FleetTool, IncidentsTool}

Mutating(tool) == tool.endpoint # NoEndpoint /\ NotRead(tool.endpoint)

\* What the client writes.  "long": over the scanner's limit.  "garbled": not
\* JSON.  "note": without an id.  "plain": initialize, ping or tools/list.
\* "unknown": no such method.  "unfit": tools/call without proper parameters,
\* or of a tool that is not there.
Request(form, tool, calls, server) ==
  [form |-> form, tool |-> tool, calls |-> calls, server |-> server]
Bare(form) == Request(form, NoTool, <<>>, NoName)

Forms == {"blank", "long", "garbled", "note", "plain", "unknown", "unfit", "call"}

\* The requests a call comes to are its tool's.
ASSUME LinesAssumption ==
  /\ Lines \subseteq [form : Forms, tool : Toolset \cup {NoTool}, calls : Seq(Endpoint),
                      server : Name \cup {Env, NoName}]
  /\ \A line \in Lines :
       line.form = "call" => line.tool \in Toolset /\ line.calls \in line.tool.calls

Answerable(line) == line.form \in {"garbled", "plain", "unknown", "unfit", "call"}

----------------------------------------------------------------------------
VARIABLES
  readOnly,     \* --read-only
  creds,        \* the environment holds credentials
  fleet,        \* the fleet, as loaded at the start
  file,         \* the fleet in the config file
  edits,        \* how often others have edited it
  sent,         \* the lines the client has written
  closed,       \* the client has closed stdin
  interrupted,  \* Ctrl-C or SIGTERM arrived
  pc,           \* where the server stands
  read,         \* the lines it has read
  box,          \* the server the call in hand resolved to
  step,         \* the next request of that call
  wire,         \* the requests KiwiVM has yet to deal with
  got,          \* what came back of the request in hand
  changed,      \* what KiwiVM has changed, in order
  out           \* the replies

given  == <<readOnly, creds>>
client == <<sent, closed, interrupted>>
vars   == <<given, fleet, file, edits, client, pc, read, box, step, wire, got, changed, out>>

Boxes == Names(fleet) \cup IF creds THEN {Env} ELSE {}

\* The VPS whose credentials the client gets.
\* (Mutant: from the config file as it stands.)
VeidOfFile(b) ==
  IF b = Env THEN EnvVeid
  ELSE IF file.servers[b] # Absent THEN file.servers[b].veid ELSE fleet.servers[b].veid

VeidOf(b) == IF b = Env THEN EnvVeid ELSE fleet.servers[b].veid

\* "result", "toolError": a tool's result with isError set; "rpcError": an
\* error of the protocol.  why: "read-only" if a gate refused.
Reply == [to : 1..MaxLines, kind : {"result", "toolError", "rpcError"},
          why : {"", "read-only"}, box : Name \cup {Env, NoName}]

TypeOK ==
  /\ readOnly \in BOOLEAN /\ creds \in BOOLEAN
  /\ fleet \in Fleet /\ file \in Fleet /\ edits \in 0..MaxEdits
  /\ sent \in Seq(Lines) /\ read \in 0..Len(sent)
  /\ closed \in BOOLEAN /\ interrupted \in BOOLEAN
  /\ pc \in {"scan", "handle", "call", "awaiting", "sweep", "ended"}
  /\ box \in Name \cup {Env, NoName}
  /\ step \in 1..2
  /\ wire \subseteq [to : 1..MaxLines, step : 1..2, op : Endpoint, box : Name \cup {Env}, veid : Veid]
  /\ got \in {"none", "ok", "lost", "refused"}
  /\ changed \in Seq([to : 1..MaxLines, op : Endpoint, box : Name \cup {Env}, veid : Veid])
  /\ out \in Seq(Reply)

Init ==
  /\ readOnly \in BOOLEAN /\ creds \in BOOLEAN
  /\ fleet \in Fleet /\ file = fleet /\ edits = 0
  /\ sent = <<>> /\ closed = FALSE /\ interrupted = FALSE
  /\ pc = "scan" /\ read = 0 /\ box = NoName /\ step = 1
  /\ wire = {} /\ got = "none" /\ changed = <<>> /\ out = <<>>

Line == sent[read]
Goto(place) == pc' = place

\* reply, and back to the loop.
Say(kind, why, b) ==
  /\ out' = Append(out, [to |-> read', kind |-> kind, why |-> why, box |-> b])
  /\ Goto("scan")
Tell(kind) == Say(kind, "", NoName)

----------------------------------------------------------------------------
(* Serve *)

\* The next line: nothing at all is said to a notification or a blank one.  A
\* cancelled context is only looked at here, a line too long ends the loop.
\* (Mutant: a notification gets an error.)
ScanNotes ==
  /\ pc = "scan" /\ read < Len(sent)
  /\ read' = read + 1
  /\ LET line == sent[read + 1] IN
       \/ (interrupted \/ line.form = "long") /\ Goto("ended") /\ UNCHANGED out
       \/ ~interrupted /\ line.form = "blank" /\ Goto("scan") /\ UNCHANGED out
       \/ ~interrupted /\ line.form \in {"garbled", "note"} /\ Tell("rpcError")
       \/ ~interrupted /\ line.form \in {"plain", "unknown", "unfit", "call"}
          /\ Goto("handle") /\ UNCHANGED out
  /\ UNCHANGED <<given, fleet, file, edits, client, box, step, wire, got, changed>>

Scan ==
  /\ pc = "scan" /\ read < Len(sent)
  /\ read' = read + 1
  /\ LET line == sent[read + 1] IN
       \/ (interrupted \/ line.form = "long") /\ Goto("ended") /\ UNCHANGED out
       \/ ~interrupted /\ line.form \in {"blank", "note"} /\ Goto("scan") /\ UNCHANGED out
       \/ ~interrupted /\ line.form = "garbled" /\ Tell("rpcError")
       \/ ~interrupted /\ line.form \in {"plain", "unknown", "unfit", "call"}
          /\ Goto("handle") /\ UNCHANGED out
  /\ UNCHANGED <<given, fleet, file, edits, client, box, step, wire, got, changed>>

\* The end of the input.
ScanEOF ==
  /\ pc = "scan" /\ read = Len(sent) /\ closed
  /\ Goto("ended")
  /\ UNCHANGED <<given, fleet, file, edits, client, read, box, step, wire, got, changed, out>>

\* The call goes to the server that Resolve found.
CallOn(target) ==
  IF target \in Name \cup {Env}
  THEN box' = target /\ Goto("call") /\ UNCHANGED out
  ELSE Tell("toolError") /\ UNCHANGED box

\* callTool, up to the first request.
CallTool ==
  \/ /\ readOnly /\ Mutating(Line.tool)
     /\ Say("toolError", "read-only", NoName) /\ UNCHANGED box
  \/ /\ ~(readOnly /\ Mutating(Line.tool)) /\ Sweeping(Line.tool) /\ UNCHANGED box
     /\ \/ Line.tool = FleetTool /\ Boxes = {} /\ Tell("toolError")
        \/ Line.tool = IncidentsTool /\ Tell("toolError")
        \/ (Line.tool = FleetTool => Boxes # {}) /\ Goto("sweep") /\ UNCHANGED out
  \/ /\ ~(readOnly /\ Mutating(Line.tool)) /\ ~Sweeping(Line.tool)
     /\ CallOn(Resolve(fleet, Line.server, NoName, creds))

Handle ==
  /\ pc = "handle" /\ read' = read
  /\ \/ Line.form = "plain" /\ Tell("result") /\ UNCHANGED box
     \/ Line.form \in {"unknown", "unfit"} /\ Tell("rpcError") /\ UNCHANGED box
     \/ Line.form = "call" /\ CallTool
  /\ step' = 1 /\ got' = "none"
  /\ UNCHANGED <<given, fleet, file, edits, client, wire, changed>>

\* The next request of the tool, unless the client's own gate refuses it, or
\* bwg_power was given no proper action.
Call ==
  /\ pc = "call" /\ read' = read
  /\ LET gated == Line.calls # <<>> /\ readOnly /\ NotRead(Line.calls[step]) IN
       \/ /\ Line.calls = <<>> \/ gated
          /\ Say("toolError", IF gated THEN "read-only" ELSE "", NoName)
          /\ UNCHANGED <<wire, got>>
       \/ /\ Line.calls # <<>> /\ ~gated
          /\ wire' = wire \cup {[to |-> read, step |-> step, op |-> Line.calls[step],
                                 box |-> box, veid |-> VeidOf(box)]}
          /\ got' = "none" /\ Goto("awaiting") /\ UNCHANGED out
  /\ UNCHANGED <<given, fleet, file, edits, client, box, step, changed>>

\* A failed request is the result of the tool, with isError set.
\* (Mutants: it is an error of the protocol; it is tried again.)
ReceiveAsError ==
  /\ pc = "awaiting" /\ got # "none" /\ read' = read
  /\ IF got # "ok" THEN Tell("rpcError") /\ UNCHANGED step
     ELSE Say("result", "", box) /\ UNCHANGED step
  /\ UNCHANGED <<given, fleet, file, edits, client, box, wire, got, changed>>

ReceiveRetry ==
  /\ pc = "awaiting" /\ got # "none" /\ read' = read
  /\ IF got = "lost" THEN Goto("call") /\ UNCHANGED <<out, step>>
     ELSE IF got = "refused" THEN Tell("toolError") /\ UNCHANGED step
     ELSE Say("result", "", box) /\ UNCHANGED step
  /\ UNCHANGED <<given, fleet, file, edits, client, box, wire, got, changed>>

Receive ==
  /\ pc = "awaiting" /\ got # "none" /\ read' = read
  /\ \/ got # "ok" /\ Tell("toolError") /\ UNCHANGED step
     \/ got = "ok" /\ step < Len(Line.calls) /\ step' = step + 1 /\ Goto("call") /\ UNCHANGED out
     \/ got = "ok" /\ step = Len(Line.calls) /\ Say("result", "", box) /\ UNCHANGED step
  /\ UNCHANGED <<given, fleet, file, edits, client, box, wire, got, changed>>

\* The HTTP client's timeout, a broken connection, or a cancelled context: the
\* request itself may still be on its way.
GiveUp ==
  /\ pc = "awaiting" /\ read' = read
  /\ Tell("toolError")
  /\ UNCHANGED <<given, fleet, file, edits, client, box, step, wire, got, changed>>

\* bwg_fleet and bwg_incidents ask every server through fleet.Map, and say a
\* result however the sweep went: FleetMap, and Incidents for what is in it.
Sweep ==
  /\ pc = "sweep" /\ read' = read
  /\ Say("result", "", NoName)
  /\ UNCHANGED <<given, fleet, file, edits, client, box, step, wire, got, changed>>

----------------------------------------------------------------------------
(* Around it *)

\* KiwiVM deals with a request, whether or not anyone still waits for it.
Serve ==
  \E w \in wire, performed \in BOOLEAN :
    /\ wire' = wire \ {w}
    /\ changed' = IF performed /\ ~Looks(w.op)
                  THEN Append(changed, [to |-> w.to, op |-> w.op, box |-> w.box, veid |-> w.veid])
                  ELSE changed
    /\ IF pc = "awaiting" /\ read = w.to /\ step = w.step
       THEN got' \in IF performed THEN {"ok", "lost"} ELSE {"refused"}
       ELSE UNCHANGED got
    /\ UNCHANGED <<given, fleet, file, edits, client, pc, read, box, step, out>>

Send ==
  /\ Len(sent) < MaxLines /\ ~closed
  /\ \E line \in Lines : sent' = Append(sent, line)
  /\ UNCHANGED <<given, fleet, file, edits, closed, interrupted, pc, read, box, step, wire, got,
                 changed, out>>

Close ==
  /\ ~closed /\ closed' = TRUE
  /\ UNCHANGED <<given, fleet, file, edits, sent, interrupted, pc, read, box, step, wire, got,
                 changed, out>>

Interrupt ==
  /\ ~interrupted /\ interrupted' = TRUE
  /\ UNCHANGED <<given, fleet, file, edits, sent, closed, pc, read, box, step, wire, got,
                 changed, out>>

\* The config file, by a `bwg server` subcommand.
Edited ==
  /\ edits < MaxEdits /\ edits' = edits + 1
  /\ file' \in Fleet \ {file}
  /\ UNCHANGED <<given, fleet, client, pc, read, box, step, wire, got, changed, out>>

\* Killed, or SIGPIPE on a closed stdout.
Kill ==
  /\ pc # "ended" /\ Goto("ended")
  /\ UNCHANGED <<given, fleet, file, edits, client, read, box, step, wire, got, changed, out>>

Work == Scan \/ ScanEOF \/ Handle \/ Call \/ Receive \/ GiveUp \/ Sweep

Next ==
  \/ Work \/ Serve \/ Send \/ Close \/ Interrupt \/ Edited \/ Kill
  \/ pc = "ended" /\ UNCHANGED vars

\* The server runs on whenever it can; an exchange ends, by the HTTP timeout
\* that kiwivm.New installs; KiwiVM and the client owe nothing.
Fairness ==
  /\ WF_vars(Scan) /\ WF_vars(ScanEOF) /\ WF_vars(Handle) /\ WF_vars(Call) /\ WF_vars(Sweep)
  /\ WF_vars(Receive \/ GiveUp)

Spec == Init /\ [][Next]_vars /\ Fairness

----------------------------------------------------------------------------
(* Properties *)

\* Every request with an id, and every line that is not JSON, is answered once,
\* in order, and nothing else; and the server never stops answering while it
\* runs: on every error path, with KiwiVM hung, after Ctrl-C.
Contract == INSTANCE Rpc WITH
  Message  <- 1..MaxLines,
  asked    <- {k \in 1..Len(sent) : Answerable(sent[k])},
  answered <- [j \in 1..Len(out) |-> out[j].to],
  up       <- pc # "ended"

RpcSpec == Contract!Spec

\* "an agent is never offered a tool that is certain to fail": under
\* --read-only the tools that are listed are those that neither callTool nor
\* the client refuses, whatever their arguments.
Offered == {t \in Toolset : ~(readOnly /\ Mutating(t))}

OfferedIsNotRefused ==
  /\ \A t \in Offered : \A calls \in t.calls : \A i \in DOMAIN calls :
       ~(readOnly /\ NotRead(calls[i]))
  /\ \A j \in 1..Len(out) :
       LET line == sent[out[j].to] IN
         line.form = "call" => (out[j].why = "read-only" <=> line.tool \notin Offered)

\* Whatever the client calls, a read-only server changes nothing.
ReadOnlyChangesNothing == readOnly => changed = <<>>

\* A line changes at most one thing, and only a call does; a call that was
\* answered with a result has done what it asked for, on the server that the
\* result names.
ChangesOf(k) == {i \in 1..Len(changed) : changed[i].to = k}

Changing(line) == line.form = "call" /\ \E i \in DOMAIN line.calls : ~Looks(line.calls[i])

DoneOnce ==
  /\ \A k \in 1..Len(sent) :
       /\ Cardinality(ChangesOf(k)) <= 1
       /\ ChangesOf(k) # {} => Changing(sent[k])
  /\ \A j \in 1..Len(out) :
       out[j].kind = "result" /\ Changing(sent[out[j].to]) =>
         \E i \in ChangesOf(out[j].to) :
           changed[i].op = sent[out[j].to].calls[1] /\ changed[i].box = out[j].box

\* A name means one VPS for the whole session, whatever becomes of the config
\* file meanwhile.
OneNameOneBox ==
  \A i, j \in 1..Len(changed) : changed[i].box = changed[j].box => changed[i].veid = changed[j].veid

\* An error of the protocol means that nothing was sent to KiwiVM.
ProtocolErrorTouchesNothing ==
  \A j \in 1..Len(out) : out[j].kind = "rpcError" =>
    /\ ChangesOf(out[j].to) = {}
    /\ \A w \in wire : w.to # out[j].to
    /\ sent[out[j].to].form # "call"

----------------------------------------------------------------------------
(* What the code says and does not do *)

\* "Serve reads requests until the input closes or ctx is cancelled."
CancelledServerEnds == interrupted ~> pc = "ended"

=============================================================================
