------------------------------ MODULE McpProofs ------------------------------
(***************************************************************************)
(* Proofs about the MCP server, for any client, any fleets, any number of  *)
(* lines and any edits of the config file.                                 *)
(***************************************************************************)
EXTENDS McpServer, FiniteSetTheorems, TLAPS

\* The registry agrees with KiwiVM: what is classed as a read only looks.
LEMMA ReadsOnlyLook ==
  ASSUME NEW op, ~NotRead(op)
  PROVE  Looks(op)
BY DEF NotRead, ReadOps, Looks

\* A log stays what it was when something is appended to it.
LEMMA Appended ==
  ASSUME NEW S, NEW log \in Seq(S), NEW x
  PROVE  /\ Len(Append(log, x)) = Len(log) + 1
         /\ \A i \in 1..Len(log) : Append(log, x)[i] = log[i]
         /\ Append(log, x)[Len(log) + 1] = x
OBVIOUS

\* What Call puts on the wire, if its gates let it.
OnTheWire ==
  [to |-> read, step |-> step, op |-> Line.calls[step], box |-> box, veid |-> VeidOf(box)]

LEMMA CallSends ==
  ASSUME Call
  PROVE  \/ wire' = wire
         \/ /\ ~(readOnly /\ NotRead(Line.calls[step]))
            /\ wire' = wire \cup {OnTheWire}
<1> DEFINE empty == Line.calls = <<>>
           shut  == readOnly /\ NotRead(Line.calls[step])
<1>1. CASE empty \/ shut
  BY <1>1 DEF Call
<1>2. CASE ~empty /\ ~shut
  BY <1>2 DEF Call, OnTheWire
<1> QED
  BY <1>1, <1>2

----------------------------------------------------------------------------
(* A read-only server changes nothing *)

\* Nothing on its way to KiwiVM changes anything either.
Harmless == readOnly => changed = <<>> /\ \A w \in wire : Looks(w.op)

LEMMA HarmlessInit == Init => Harmless
BY DEF Init, Harmless

LEMMA HarmlessNext == Harmless /\ [Next]_vars => Harmless'
<1> SUFFICES ASSUME Harmless, [Next]_vars
             PROVE  Harmless'
  OBVIOUS
<1>1. CASE Call
  <2>1. readOnly' = readOnly /\ changed' = changed
    BY <1>1 DEF Call, given
  <2>2. CASE wire' = wire
    BY <2>1, <2>2 DEF Harmless
  <2>3. CASE ~(readOnly /\ NotRead(Line.calls[step])) /\ wire' = wire \cup {OnTheWire}
    <3>1. OnTheWire.op = Line.calls[step]
      BY DEF OnTheWire
    <3>2. readOnly => Looks(OnTheWire.op)
      BY <2>3, <3>1, ReadsOnlyLook
    <3> QED
      BY <2>1, <2>3, <3>2 DEF Harmless
  <2> QED
    BY <1>1, <2>2, <2>3, CallSends
<1>2. CASE Serve
  <2>1. PICK w \in wire, performed \in BOOLEAN :
          /\ wire' = wire \ {w}
          /\ changed' = IF performed /\ ~Looks(w.op)
                        THEN Append(changed, [to |-> w.to, op |-> w.op, box |-> w.box, veid |-> w.veid])
                        ELSE changed
          /\ UNCHANGED given
    BY <1>2 DEF Serve
  <2>2. readOnly' = readOnly
    BY <2>1 DEF given
  <2> QED
    BY <2>1, <2>2 DEF Harmless
<1>3. ASSUME readOnly' = readOnly, changed' = changed, wire' = wire
      PROVE  Harmless'
  BY <1>3 DEF Harmless
<1>4. CASE Scan
  BY <1>3, <1>4 DEF Scan, given
<1>5. CASE ScanEOF
  BY <1>3, <1>5 DEF ScanEOF, given
<1>6. CASE Handle
  BY <1>3, <1>6 DEF Handle, given
<1>7. CASE Receive
  BY <1>3, <1>7 DEF Receive, given
<1>8. CASE GiveUp
  BY <1>3, <1>8 DEF GiveUp, given
<1>9. CASE Sweep
  BY <1>3, <1>9 DEF Sweep, given
<1>10. CASE Send \/ Close \/ Interrupt \/ Edited \/ Kill
  BY <1>3, <1>10 DEF Send, Close, Interrupt, Edited, Kill, given
<1>11. CASE UNCHANGED vars
  BY <1>3, <1>11 DEF vars, given
<1> QED
  BY <1>1, <1>2, <1>4, <1>5, <1>6, <1>7, <1>8, <1>9, <1>10, <1>11 DEF Next, Work

\* A read-only server changes nothing, whatever is called, in whatever order,
\* and however late KiwiVM deals with it: the gate of the client is enough, the
\* two of the server are not needed for this.
THEOREM ReadOnlyIsHarmless == Spec => []ReadOnlyChangesNothing
<1>1. Harmless => ReadOnlyChangesNothing
  BY DEF Harmless, ReadOnlyChangesNothing
<1> QED
  BY HarmlessInit, HarmlessNext, <1>1, PTL DEF Spec

----------------------------------------------------------------------------
(* The tools *)

\* A tool makes no request of its own, the one it is classed by, one of three
\* that change the power, or the two that are about abuse.
LEMMA ToolParts ==
  ASSUME NEW name, NEW endpoint, NEW calls
  PROVE  /\ Tool(name, endpoint, calls).endpoint = endpoint
         /\ Tool(name, endpoint, calls).calls = calls
BY DEF Tool

LEMMA ToolShapes ==
  ASSUME NEW tool \in Toolset
  PROVE  \/ tool.calls = {<<>>}
         \/ tool.calls = {<<tool.endpoint>>} /\ tool.endpoint # NoEndpoint
         \/ tool.endpoint = "restart" /\ tool.calls = {<<"start">>, <<"stop">>, <<"restart">>, <<>>}
         \/ /\ tool.endpoint = "getSuspensionDetails"
            /\ tool.calls = {<<"getSuspensionDetails", "getPolicyViolations">>}
<1>1. CASE tool = FleetTool \/ tool = IncidentsTool
  BY <1>1, ToolParts DEF FleetTool, IncidentsTool
<1>2. CASE tool = PowerTool
  BY <1>2, ToolParts DEF PowerTool
<1>3. CASE tool = Tool("bwg_abuse", "getSuspensionDetails",
                       {<<"getSuspensionDetails", "getPolicyViolations">>})
  BY <1>3, ToolParts
<1>4. CASE \E name : \E endpoint \in Endpoint : tool = BoxTool(name, endpoint)
  <2>1. NoEndpoint \notin Endpoint
    BY DEF NoEndpoint, Endpoint, ReadOps, WriteOps, DestructiveOps
  <2> QED
    BY <1>4, <2>1, ToolParts DEF BoxTool
<1>5. {"getServiceInfo", "getLiveServiceInfo", "getRawUsageStats", "snapshot/list", "backup/list",
       "getAuditLog", "getAvailableOS", "getRateLimitStatus", "snapshot/create", "setPTR",
       "setHostname"} \subseteq Endpoint
  BY DEF Endpoint, ReadOps, WriteOps
<1> QED
  BY <1>1, <1>2, <1>3, <1>4, <1>5, Zenon DEF Toolset

LEMMA Lengths ==
  /\ \A x, y : Len(<<x>>) = 1 /\ Len(<<x, y>>) = 2
  /\ \A S : \A s \in Seq(S) : Len(s) \in Nat
  /\ \A m, n \in Nat : m <= n => \A i \in 1..m : i \in 1..n
OBVIOUS

\* No tool makes more than two requests.
LEMMA AtMostTwoCalls ==
  ASSUME NEW tool \in Toolset, NEW calls \in tool.calls
  PROVE  Len(calls) <= 2
<1>1. CASE tool.calls = {<<>>}
  BY <1>1
<1>2. CASE tool.calls = {<<tool.endpoint>>}
  <2>1. calls = <<tool.endpoint>>
    BY <1>2
  <2>2. Len(calls) = 1
    BY <2>1, Lengths, Zenon
  <2> QED
    BY <2>2
<1>3. CASE tool.calls = {<<"start">>, <<"stop">>, <<"restart">>, <<>>}
  BY <1>3
<1>4. CASE tool.calls = {<<"getSuspensionDetails", "getPolicyViolations">>}
  <2>1. Len(calls) = 2
    BY <1>4, Lengths, Zenon
  <2> QED
    BY <2>1
<1> QED
  BY <1>1, <1>2, <1>3, <1>4, ToolShapes

\* A tool that the server does not class as mutating makes reads only.
LEMMA UngatedToolsRead ==
  ASSUME NEW tool \in Toolset, ~Mutating(tool), NEW calls \in tool.calls, NEW i \in DOMAIN calls
  PROVE  ~NotRead(calls[i])
<1>1. CASE tool.calls = {<<>>}
  BY <1>1
<1>2. CASE tool.calls = {<<tool.endpoint>>} /\ tool.endpoint # NoEndpoint
  <2>1. calls = <<tool.endpoint>> /\ i = 1 /\ calls[i] = tool.endpoint
    BY <1>2
  <2> QED
    BY <1>2, <2>1 DEF Mutating
<1>3. CASE tool.endpoint = "restart"
  BY <1>3 DEF Mutating, NoEndpoint, NotRead, ReadOps
<1>4. CASE tool.calls = {<<"getSuspensionDetails", "getPolicyViolations">>}
  BY <1>4 DEF NotRead, ReadOps
<1> QED
  BY <1>1, <1>2, <1>3, <1>4, ToolShapes

\* Resolve finds a server that is there, or none.
LEMMA ResolvesToABox ==
  ASSUME NEW cfg, NEW flag, NEW withCreds \in BOOLEAN,
         Resolve(cfg, flag, NoName, withCreds) \in Name \cup {Env}
  PROVE  Resolve(cfg, flag, NoName, withCreds)
           \in Names(cfg) \cup IF withCreds THEN {Env} ELSE {}
BY NamesAssumption DEF Resolve, Lookup


----------------------------------------------------------------------------
(* The inductive invariant *)

\* Where the server stands says what line is in hand, and how far it got.
Place ==
  /\ Len(sent) <= MaxLines
  /\ pc \in {"handle", "call", "awaiting", "sweep"} => read \in 1..Len(sent)
  /\ pc \in {"call", "awaiting"} =>
       /\ Line.form = "call" /\ Line.tool \in Offered /\ ~Sweeping(Line.tool)
       /\ box \in Boxes
  /\ pc = "call" => Line.calls = <<>> \/ step \in 1..Len(Line.calls)
  /\ pc = "awaiting" => step \in 1..Len(Line.calls)
  /\ pc = "sweep" => Line.form = "call" /\ Line.tool \in Offered /\ Sweeping(Line.tool)

\* Only calls reach KiwiVM, with the credentials of the fleet of the start.
FromACall(x, lines, cfg) ==
  /\ x.to \in 1..Len(lines) /\ lines[x.to].form = "call"
  /\ x.veid = IF x.box = Env THEN EnvVeid ELSE cfg.servers[x.box].veid

Traffic ==
  /\ \A w \in wire : FromACall(w, sent, fleet)
  /\ \A i \in 1..Len(changed) : FromACall(changed[i], sent, fleet)

GoodReply(r, lines, offered) ==
  /\ r.to \in 1..Len(lines)
  /\ r.kind = "rpcError" => lines[r.to].form # "call"
  /\ lines[r.to].form = "call" => (r.why = "read-only" <=> lines[r.to].tool \notin offered)

Replies == \A j \in 1..Len(out) : GoodReply(out[j], sent, Offered)

IInv == TypeOK /\ Place /\ Traffic /\ Replies

\* What no step of the server itself touches.
Steady == UNCHANGED <<given, fleet, file, edits, client>>

LEMMA LineParts ==
  ASSUME TypeOK, read \in 1..Len(sent)
  PROVE  /\ Line \in Lines
         /\ Line.calls \in Seq(Endpoint)
         /\ Line.form = "call" => Line.tool \in Toolset /\ Line.calls \in Line.tool.calls
BY LinesAssumption DEF TypeOK, Line

LEMMA BoxesAreNames ==
  ASSUME TypeOK, NEW b \in Boxes
  PROVE  b \in Name \cup {Env} /\ VeidOf(b) \in Veid
<1>1. fleet \in Config
  BY McpAssumption DEF TypeOK
<1>2. CASE b = Env
  BY <1>2, McpAssumption DEF VeidOf
<1>3. CASE b \in Names(fleet) /\ b # Env
  <2>1. b \in Name /\ fleet.servers[b] \in Server
    BY <1>1, <1>3 DEF Names, Config
  <2> QED
    BY <1>3, <2>1 DEF VeidOf, Server
<1> QED
  BY <1>2, <1>3 DEF Boxes

LEMMA SteadyState ==
  ASSUME Steady
  PROVE  Boxes' = Boxes /\ Offered' = Offered /\ sent' = sent /\ fleet' = fleet
BY DEF Steady, Boxes, Offered, given, client

LEMMA NewReply ==
  ASSUME NEW kind \in {"result", "toolError", "rpcError"}, NEW why \in {"", "read-only"},
         NEW to \in 1..MaxLines, NEW b \in Name \cup {Env, NoName}
  PROVE  [to |-> to, kind |-> kind, why |-> why, box |-> b] \in Reply
BY DEF Reply

\* A good reply after good ones leaves good ones.
LEMMA OneMoreReply ==
  ASSUME NEW log \in Seq(Reply), NEW r \in Reply, NEW lines, NEW offered,
         \A j \in 1..Len(log) : GoodReply(log[j], lines, offered),
         GoodReply(r, lines, offered)
  PROVE  /\ Append(log, r) \in Seq(Reply)
         /\ \A j \in 1..Len(Append(log, r)) : GoodReply(Append(log, r)[j], lines, offered)
<1>1. Append(log, r) \in Seq(Reply)
  OBVIOUS
<1>2. ASSUME NEW j \in 1..Len(Append(log, r))
      PROVE  GoodReply(Append(log, r)[j], lines, offered)
  <2>1. j \in 1..Len(log) \/ j = Len(log) + 1
    BY Appended
  <2>2. CASE j \in 1..Len(log)
    <3>1. Append(log, r)[j] = log[j]
      BY <2>2, Appended
    <3> QED
      BY <2>2, <3>1
  <2>3. CASE j = Len(log) + 1
    <3>1. Append(log, r)[j] = r
      BY <2>3, Appended
    <3> QED
      BY <3>1
  <2> QED
    BY <2>1, <2>2, <2>3
<1> QED
  BY <1>1, <1>2

LEMMA SaysWell ==
  ASSUME IInv, Steady, read' \in 1..Len(sent),
         NEW kind \in {"result", "toolError", "rpcError"}, NEW why \in {"", "read-only"},
         NEW b \in Name \cup {Env, NoName},
         Say(kind, why, b),
         GoodReply([to |-> read', kind |-> kind, why |-> why, box |-> b], sent, Offered)
  PROVE  pc' = "scan" /\ out' \in Seq(Reply) /\ Replies'
<1> DEFINE r == [to |-> read', kind |-> kind, why |-> why, box |-> b]
<1>1. out \in Seq(Reply) /\ out' = Append(out, r) /\ pc' = "scan"
  BY DEF IInv, TypeOK, Say, Goto
<1>2. r \in Reply
  <2>1. read' \in 1..MaxLines
    <3>1. Len(sent) <= MaxLines
      BY DEF IInv, Place
    <3>2. Len(sent) \in Nat /\ MaxLines \in Nat
      <4>1. sent \in Seq(Lines)
        BY DEF IInv, TypeOK
      <4> QED
        BY <4>1, Lengths, McpAssumption
    <3> QED
      BY <3>1, <3>2, Lengths, Zenon
  <2> QED
    BY <2>1, NewReply, Zenon
<1>3. GoodReply(r, sent, Offered)
  OBVIOUS
<1>4. /\ Append(out, r) \in Seq(Reply)
      /\ \A j \in 1..Len(Append(out, r)) : GoodReply(Append(out, r)[j], sent, Offered)
  <2> HIDE DEF r
  <2> QED
    BY <1>1, <1>2, <1>3, OneMoreReply DEF IInv, Replies
<1>5. \A j \in 1..Len(out') : GoodReply(out'[j], sent', Offered')
  BY <1>1, <1>4, SteadyState
<1> QED
  BY <1>1, <1>4, <1>5 DEF Replies

LEMMA RepliesKept ==
  ASSUME IInv, Steady, out' = out
  PROVE  out' \in Seq(Reply) /\ Replies'
<1>1. out \in Seq(Reply) /\ \A j \in 1..Len(out) : GoodReply(out[j], sent, Offered)
  BY DEF IInv, TypeOK, Replies
<1> QED
  BY <1>1, SteadyState DEF Replies

LEMMA TrafficKept ==
  ASSUME IInv, Steady, wire' = wire, changed' = changed
  PROVE  Traffic'
BY SteadyState DEF IInv, Traffic

\* The frame of the server's steps: what is left to show of one.
LEMMA QuietStep ==
  ASSUME IInv, Steady, UNCHANGED <<wire, changed>>, Place', out' \in Seq(Reply), Replies',
         read' \in 0..Len(sent), step' \in 1..2, box' \in Name \cup {Env, NoName},
         pc' \in {"scan", "handle", "call", "awaiting", "sweep", "ended"},
         got' \in {"none", "ok", "lost", "refused"}
  PROVE  IInv'
<1>1. TypeOK'
  BY DEF IInv, TypeOK, Steady, given, client
<1> QED
  BY <1>1, TrafficKept DEF IInv

\* Back at the loop there is nothing to know but the length.
LEMMA AtTheLoop ==
  ASSUME IInv, Steady, pc' \in {"scan", "ended"}
  PROVE  Place'
BY SteadyState DEF IInv, Place

----------------------------------------------------------------------------
(* The steps of the server *)

LEMMA ScanStep ==
  ASSUME IInv, Scan
  PROVE  IInv'
<1>1. Steady /\ UNCHANGED <<wire, changed, box, step, got>>
  BY DEF Scan, Steady
<1>2. read' \in 1..Len(sent) /\ read' = read + 1 /\ sent \in Seq(Lines)
  BY DEF Scan, IInv, TypeOK
<1>3. /\ box' \in Name \cup {Env, NoName} /\ step' \in 1..2
      /\ got' \in {"none", "ok", "lost", "refused"} /\ read' \in 0..Len(sent)
  BY <1>1, <1>2 DEF IInv, TypeOK
<1>4. CASE out' = out /\ pc' \in {"scan", "ended"}
  BY <1>1, <1>3, <1>4, RepliesKept, AtTheLoop, QuietStep
<1>5. CASE out' = out /\ pc' = "handle"
  <2>1. Place'
    BY <1>1, <1>2, <1>5, SteadyState DEF IInv, Place
  <2> QED
    BY <1>1, <1>3, <1>5, <2>1, RepliesKept, QuietStep
<1>6. CASE sent[read + 1].form = "garbled" /\ Tell("rpcError")
  <2>1. GoodReply([to |-> read', kind |-> "rpcError", why |-> "", box |-> NoName], sent, Offered)
    BY <1>2, <1>6 DEF GoodReply
  <2>2. pc' = "scan" /\ out' \in Seq(Reply) /\ Replies'
    <3>1. Say("rpcError", "", NoName)
      BY <1>6 DEF Tell
    <3>2. /\ "rpcError" \in {"result", "toolError", "rpcError"} /\ "" \in {"", "read-only"}
          /\ NoName \in Name \cup {Env, NoName} /\ {} \in SUBSET (Name \cup {Env})
      OBVIOUS
    <3> QED
      BY <1>1, <1>2, <2>1, <3>1, <3>2, SaysWell, Zenon
  <2> QED
    BY <1>1, <1>3, <2>2, AtTheLoop, QuietStep
<1> QED
  BY <1>4, <1>5, <1>6 DEF Scan, Goto

LEMMA ScanEOFStep ==
  ASSUME IInv, ScanEOF
  PROVE  IInv'
<1>1. Steady /\ UNCHANGED <<wire, changed, box, step, got, out>> /\ read' = read /\ pc' = "ended"
  BY DEF ScanEOF, Steady, Goto
<1>2. /\ box' \in Name \cup {Env, NoName} /\ step' \in 1..2
      /\ got' \in {"none", "ok", "lost", "refused"} /\ read' \in 0..Len(sent)
  BY <1>1 DEF IInv, TypeOK
<1> QED
  BY <1>1, <1>2, RepliesKept, AtTheLoop, QuietStep

\* A reply to the line in hand that is no result of a sweep.
LEMMA AnswersTheLine ==
  ASSUME IInv, Steady, UNCHANGED <<wire, changed>>,
         pc \in {"handle", "call", "awaiting", "sweep"}, read' = read,
         step' \in 1..2, box' \in Name \cup {Env, NoName},
         got' \in {"none", "ok", "lost", "refused"},
         NEW kind \in {"result", "toolError", "rpcError"}, NEW why \in {"", "read-only"},
         NEW b \in Name \cup {Env, NoName}, Say(kind, why, b),
         kind = "rpcError" => Line.form # "call",
         Line.form = "call" => (why = "read-only" <=> Line.tool \notin Offered)
  PROVE  IInv'
<1>1. read \in 1..Len(sent)
  BY DEF IInv, Place
<1>2. GoodReply([to |-> read', kind |-> kind, why |-> why, box |-> b], sent, Offered)
  BY <1>1 DEF GoodReply, Line
<1>3. pc' = "scan" /\ out' \in Seq(Reply) /\ Replies'
  BY <1>1, <1>2, SaysWell
<1>4. read' \in 0..Len(sent)
  BY <1>1 DEF IInv, TypeOK
<1> QED
  BY <1>3, <1>4, AtTheLoop, QuietStep

LEMMA Ranges ==
  ASSUME IInv
  PROVE  /\ box \in Name \cup {Env, NoName} /\ step \in 1..2
         /\ got \in {"none", "ok", "lost", "refused"} /\ read \in 0..Len(sent)
         /\ readOnly \in BOOLEAN /\ creds \in BOOLEAN
BY DEF IInv, TypeOK

LEMMA Words ==
  /\ {"result", "toolError", "rpcError"} = {"result"} \cup {"toolError", "rpcError"}
  /\ "result" # "rpcError" /\ "toolError" # "rpcError" /\ "toolError" # "result"
  /\ "" # "read-only" /\ "none" \in {"none", "ok", "lost", "refused"}
  /\ NoName \in Name \cup {Env, NoName}
OBVIOUS

\* The tools that are offered are those the server itself lets through.
LEMMA OfferedIsUngated ==
  ASSUME IInv, read \in 1..Len(sent), Line.form = "call"
  PROVE  Line.tool \in Offered <=> ~(readOnly /\ Mutating(Line.tool))
BY LineParts DEF IInv, Offered

\* callTool sends the call on, answers it, or begins a sweep.
LEMMA CallToolStep ==
  ASSUME IInv, Steady, UNCHANGED <<wire, changed>>, pc = "handle", read' = read, step' = 1,
         got' = "none", Line.form = "call", CallTool
  PROVE  IInv'
<1>1. read \in 1..Len(sent) /\ read' \in 1..Len(sent) /\ Line' = Line
  BY SteadyState DEF IInv, Place, Line
<1>2. Line.tool \in Offered <=> ~(readOnly /\ Mutating(Line.tool))
  BY <1>1, OfferedIsUngated
<1>3. /\ got' \in {"none", "ok", "lost", "refused"} /\ step' \in 1..2 /\ read' \in 0..Len(sent)
      /\ box \in Name \cup {Env, NoName}
  BY Ranges, <1>1
<1>4. ASSUME Tell("toolError"), Line.tool \in Offered, box' = box
      PROVE  IInv'
  <2>1. Say("toolError", "", NoName)
    BY <1>4 DEF Tell
  <2> QED
    BY <1>3, <1>4, <2>1, AnswersTheLine, Words, Zenon
<1>5. CASE readOnly /\ Mutating(Line.tool) /\ Say("toolError", "read-only", NoName) /\ box' = box
  BY <1>2, <1>3, <1>5, AnswersTheLine, Words, Zenon
<1>6. CASE ~(readOnly /\ Mutating(Line.tool)) /\ Sweeping(Line.tool) /\ box' = box
           /\ pc' = "sweep" /\ out' = out
  <2>1. Place'
    BY <1>1, <1>2, <1>6, SteadyState DEF IInv, Place
  <2> QED
    BY <1>3, <1>6, <2>1, RepliesKept, QuietStep
<1>7. CASE /\ ~(readOnly /\ Mutating(Line.tool)) /\ ~Sweeping(Line.tool)
           /\ CallOn(Resolve(fleet, Line.server, NoName, creds))
  <2> DEFINE target == Resolve(fleet, Line.server, NoName, creds)
  <2>1. CASE target \in Name \cup {Env}
    <3>1. box' = target /\ pc' = "call" /\ out' = out
      BY <1>7, <2>1 DEF CallOn, Goto
    <3>2. target \in Boxes
      BY <2>1, ResolvesToABox, Ranges DEF Boxes
    <3>3. Line.calls = <<>> \/ step' \in 1..Len(Line.calls)
      <4>1. Line.calls \in Seq(Endpoint)
        BY <1>1, LineParts DEF IInv
      <4> QED
        BY <4>1
    <3> HIDE DEF target
    <3>4. Place'
      BY <1>1, <1>2, <1>7, <3>1, <3>2, <3>3, SteadyState DEF IInv, Place
    <3> QED
      BY <1>3, <2>1, <3>1, <3>4, RepliesKept, QuietStep
  <2>2. CASE target \notin Name \cup {Env}
    BY <1>2, <1>4, <1>7, <2>2 DEF CallOn
  <2> QED
    BY <2>1, <2>2
<1>8. \/ readOnly /\ Mutating(Line.tool) /\ Say("toolError", "read-only", NoName) /\ box' = box
      \/ /\ ~(readOnly /\ Mutating(Line.tool)) /\ Sweeping(Line.tool) /\ box' = box
         /\ Tell("toolError") \/ (pc' = "sweep" /\ out' = out)
      \/ /\ ~(readOnly /\ Mutating(Line.tool)) /\ ~Sweeping(Line.tool)
         /\ CallOn(Resolve(fleet, Line.server, NoName, creds))
  BY DEF CallTool, Goto
<1> QED
  BY <1>2, <1>4, <1>5, <1>6, <1>7, <1>8

LEMMA HandleStep ==
  ASSUME IInv, Handle
  PROVE  IInv'
<1>1. /\ Steady /\ UNCHANGED <<wire, changed>> /\ pc = "handle" /\ read' = read
      /\ step' = 1 /\ got' = "none"
  BY DEF Handle, Steady
<1>2. got' \in {"none", "ok", "lost", "refused"} /\ step' \in 1..2 /\ box \in Name \cup {Env, NoName}
  BY <1>1, Ranges
<1>3. CASE Line.form = "plain" /\ Tell("result") /\ box' = box
  <2>1. Say("result", "", NoName) /\ Line.form # "call"
    BY <1>3 DEF Tell
  <2> QED
    BY <1>1, <1>2, <1>3, <2>1, AnswersTheLine, Words, Zenon
<1>4. CASE Line.form \in {"unknown", "unfit"} /\ Tell("rpcError") /\ box' = box
  <2>1. Say("rpcError", "", NoName) /\ Line.form # "call"
    BY <1>4 DEF Tell
  <2> QED
    BY <1>1, <1>2, <1>4, <2>1, AnswersTheLine, Words, Zenon
<1>5. CASE Line.form = "call" /\ CallTool
  BY <1>1, <1>5, CallToolStep
<1> QED
  BY <1>3, <1>4, <1>5 DEF Handle

\* The type of what is on its way, and of what was changed.
OnWire == [to : 1..MaxLines, step : 1..2, op : Endpoint, box : Name \cup {Env}, veid : Veid]
OnTheVps == [to : 1..MaxLines, op : Endpoint, box : Name \cup {Env}, veid : Veid]

\* Where a call is in hand, it is one that is offered, so no gate stops it.
LEMMA CallInHand ==
  ASSUME IInv, pc \in {"call", "awaiting"}
  PROVE  /\ read \in 1..Len(sent) /\ Line.form = "call" /\ Line.tool \in Offered
         /\ ~Sweeping(Line.tool) /\ box \in Boxes
         /\ Line.calls \in Seq(Endpoint)
         /\ Line.calls = <<>> \/ step \in 1..Len(Line.calls)
         /\ Line.calls # <<>> => ~(readOnly /\ NotRead(Line.calls[step]))
<1>1. /\ read \in 1..Len(sent) /\ Line.form = "call" /\ Line.tool \in Offered
      /\ ~Sweeping(Line.tool) /\ box \in Boxes
      /\ Line.calls = <<>> \/ step \in 1..Len(Line.calls)
  BY DEF IInv, Place
<1>2. Line.calls \in Seq(Endpoint) /\ Line.tool \in Toolset /\ Line.calls \in Line.tool.calls
  BY <1>1, LineParts DEF IInv
<1>3. ~(readOnly /\ Mutating(Line.tool))
  BY <1>1, OfferedIsUngated
<1>4. ASSUME Line.calls # <<>>, readOnly
      PROVE  ~NotRead(Line.calls[step])
  <2>1. step \in DOMAIN Line.calls
    BY <1>1, <1>2, <1>4
  <2> QED
    BY <1>2, <1>3, <1>4, <2>1, UngatedToolsRead
<1> QED
  BY <1>1, <1>2, <1>4

LEMMA CallStep ==
  ASSUME IInv, Call
  PROVE  IInv'
<1>1. Steady /\ changed' = changed /\ read' = read /\ box' = box /\ step' = step /\ pc = "call"
  BY DEF Call, Steady
<1>2. /\ read \in 1..Len(sent) /\ Line.form = "call" /\ Line.tool \in Offered
      /\ ~Sweeping(Line.tool) /\ box \in Boxes
      /\ Line.calls \in Seq(Endpoint)
      /\ Line.calls = <<>> \/ step \in 1..Len(Line.calls)
      /\ Line.calls # <<>> => ~(readOnly /\ NotRead(Line.calls[step]))
  BY <1>1, CallInHand
<1>3. CASE Line.calls = <<>>
  <2>1. Say("toolError", "", NoName) /\ UNCHANGED <<wire, got>>
    BY <1>3 DEF Call
  <2>2. /\ step' \in 1..2 /\ box' \in Name \cup {Env, NoName}
        /\ got' \in {"none", "ok", "lost", "refused"}
    BY <1>1, <2>1, Ranges
  <2> QED
    BY <1>1, <1>2, <2>1, <2>2, AnswersTheLine, Words, Zenon
<1>4. CASE Line.calls # <<>>
  <2>1. wire' = wire \cup {OnTheWire} /\ got' = "none" /\ pc' = "awaiting" /\ out' = out
    BY <1>2, <1>4 DEF Call, OnTheWire, Goto
  <2>2. OnTheWire \in OnWire /\ FromACall(OnTheWire, sent, fleet)
    <3>1. read \in 1..MaxLines
      <4>1. Len(sent) \in Nat /\ MaxLines \in Nat /\ Len(sent) <= MaxLines
        <5>1. sent \in Seq(Lines) /\ Len(sent) <= MaxLines
          BY Zenon DEF IInv, TypeOK, Place
        <5> QED
          BY <5>1, Lengths, McpAssumption
      <4> QED
        BY <1>2, <4>1, Lengths, Zenon
    <3>2. Line.calls[step] \in Endpoint
      BY <1>2, <1>4
    <3>3. box \in Name \cup {Env} /\ VeidOf(box) \in Veid /\ step \in 1..2
      BY <1>2, BoxesAreNames, Ranges DEF IInv
    <3>4. OnTheWire \in OnWire
      BY <3>1, <3>2, <3>3 DEF OnTheWire, OnWire
    <3>5. FromACall(OnTheWire, sent, fleet)
      BY <1>2 DEF OnTheWire, FromACall, VeidOf, Line
    <3> QED
      BY <3>4, <3>5
  <2>3. TypeOK'
    BY <1>1, <2>1, <2>2 DEF IInv, TypeOK, Steady, given, client, OnWire
  <2>4. Place'
    BY <1>1, <1>2, <1>4, <2>1, SteadyState DEF IInv, Place, Line
  <2>5. Traffic'
    BY <1>1, <2>1, <2>2, SteadyState DEF IInv, Traffic
  <2> QED
    BY <1>1, <2>1, <2>3, <2>4, <2>5, RepliesKept DEF IInv
<1> QED
  BY <1>3, <1>4

LEMMA ReceiveStep ==
  ASSUME IInv, Receive
  PROVE  IInv'
<1>1. /\ Steady /\ UNCHANGED <<wire, changed>> /\ read' = read /\ box' = box /\ got' = got
      /\ pc = "awaiting"
  BY DEF Receive, Steady
<1>2. /\ read \in 1..Len(sent) /\ Line.form = "call" /\ Line.tool \in Offered
      /\ ~Sweeping(Line.tool) /\ box \in Boxes /\ Line.calls \in Seq(Endpoint)
  BY <1>1, CallInHand
<1>3. /\ box \in Name \cup {Env, NoName} /\ step \in 1..2
      /\ got' \in {"none", "ok", "lost", "refused"} /\ read' \in 0..Len(sent)
  BY <1>1, Ranges
<1>4. CASE Tell("toolError") /\ step' = step
  <2>1. Say("toolError", "", NoName)
    BY <1>4 DEF Tell
  <2> QED
    BY <1>1, <1>2, <1>3, <1>4, <2>1, AnswersTheLine, Words, Zenon
<1>5. CASE Say("result", "", box) /\ step' = step
  BY <1>1, <1>2, <1>3, <1>5, AnswersTheLine, Words, Zenon
<1>6. CASE step < Len(Line.calls) /\ step' = step + 1 /\ pc' = "call" /\ out' = out
  <2>1. Len(Line.calls) \in Nat /\ Len(Line.calls) <= 2
    <3>1. Line.tool \in Toolset /\ Line.calls \in Line.tool.calls
      BY <1>2, LineParts DEF IInv
    <3> QED
      BY <1>2, <3>1, AtMostTwoCalls, Lengths
  <2>2. step' \in 1..2 /\ step' \in 1..Len(Line.calls)
    BY <1>3, <1>6, <2>1
  <2>3. Place'
    BY <1>1, <1>2, <1>6, <2>2, SteadyState DEF IInv, Place, Line
  <2> QED
    BY <1>1, <1>3, <1>6, <2>2, <2>3, RepliesKept, QuietStep
<1> QED
  BY <1>4, <1>5, <1>6 DEF Receive, Goto

LEMMA GiveUpStep ==
  ASSUME IInv, GiveUp
  PROVE  IInv'
<1>1. /\ Steady /\ UNCHANGED <<wire, changed>> /\ read' = read /\ box' = box /\ got' = got
      /\ pc = "awaiting" /\ step' = step /\ Say("toolError", "", NoName)
  BY DEF GiveUp, Steady, Tell
<1>2. Line.form = "call" /\ Line.tool \in Offered
  BY <1>1, CallInHand
<1>3. /\ box' \in Name \cup {Env, NoName} /\ step' \in 1..2
      /\ got' \in {"none", "ok", "lost", "refused"}
  BY <1>1, Ranges
<1> QED
  BY <1>1, <1>2, <1>3, AnswersTheLine, Words, Zenon

LEMMA SweepStep ==
  ASSUME IInv, Sweep
  PROVE  IInv'
<1>1. /\ Steady /\ UNCHANGED <<wire, changed>> /\ read' = read /\ box' = box /\ got' = got
      /\ pc = "sweep" /\ step' = step /\ Say("result", "", NoName)
  BY DEF Sweep, Steady
<1>2. Line.form = "call" /\ Line.tool \in Offered
  BY <1>1 DEF IInv, Place
<1>3. /\ box' \in Name \cup {Env, NoName} /\ step' \in 1..2
      /\ got' \in {"none", "ok", "lost", "refused"}
  BY <1>1, Ranges
<1>4. pc \in {"handle", "call", "awaiting", "sweep"} /\ NoName \in Name \cup {Env, NoName}
  BY <1>1
<1> QED
  BY <1>1, <1>2, <1>3, <1>4, AnswersTheLine, Words, Zenon

----------------------------------------------------------------------------
(* The steps around it *)

LEMMA Shrunk ==
  ASSUME NEW S, NEW log \in Seq(S), NEW x \in S
  PROVE  Append(log, x) \in Seq(S)
OBVIOUS

LEMMA ServeStep ==
  ASSUME IInv, Serve
  PROVE  IInv'
<1>1. PICK w \in wire, performed \in BOOLEAN :
        /\ wire' = wire \ {w}
        /\ changed' = IF performed /\ ~Looks(w.op)
                      THEN Append(changed, [to |-> w.to, op |-> w.op, box |-> w.box, veid |-> w.veid])
                      ELSE changed
        /\ IF pc = "awaiting" /\ read = w.to /\ step = w.step
           THEN got' \in IF performed THEN {"ok", "lost"} ELSE {"refused"}
           ELSE UNCHANGED got
        /\ Steady /\ UNCHANGED <<pc, read, box, step, out>>
  BY DEF Serve, Steady
<1> DEFINE c == [to |-> w.to, op |-> w.op, box |-> w.box, veid |-> w.veid]
<1>2. wire \subseteq OnWire /\ changed \in Seq(OnTheVps) /\ got \in {"none", "ok", "lost", "refused"}
  BY DEF IInv, TypeOK, OnWire, OnTheVps
<1>3. c \in OnTheVps
  BY <1>2 DEF OnWire, OnTheVps
<1>4. FromACall(c, sent, fleet)
  BY DEF IInv, Traffic, FromACall
<1>5. got' \in {"none", "ok", "lost", "refused"}
  BY <1>1, <1>2
<1>6. /\ changed' \in Seq(OnTheVps)
      /\ \A i \in 1..Len(changed') : FromACall(changed'[i], sent, fleet)
  <2> HIDE DEF c
  <2>1. \A i \in 1..Len(changed) : FromACall(changed[i], sent, fleet)
    BY DEF IInv, Traffic
  <2>2. CASE changed' = changed
    BY <1>2, <2>1, <2>2
  <2>3. CASE changed' = Append(changed, c)
    <3>1. changed' \in Seq(OnTheVps)
      BY <1>2, <1>3, <2>3, Shrunk
    <3>2. ASSUME NEW i \in 1..Len(changed')
          PROVE  FromACall(changed'[i], sent, fleet)
      <4>1. i \in 1..Len(changed) \/ i = Len(changed) + 1
        BY <1>2, <2>3, <3>2
      <4>2. CASE i \in 1..Len(changed)
        <5>1. changed'[i] = changed[i]
          BY <1>2, <2>3, <4>2
        <5> QED
          BY <2>1, <4>2, <5>1
      <4>3. CASE i = Len(changed) + 1
        <5>1. changed'[i] = c
          BY <1>2, <2>3, <4>3
        <5> QED
          BY <1>4, <5>1
      <4> QED
        BY <4>1, <4>2, <4>3
    <3> QED
      BY <3>1, <3>2
  <2>4. changed' = changed \/ changed' = Append(changed, c)
    BY <1>1 DEF c
  <2> QED
    BY <2>2, <2>3, <2>4
<1>7. TypeOK'
  <2>1. wire' \subseteq OnWire /\ changed' \in Seq(OnTheVps)
    BY <1>1, <1>2, <1>6
  <2> QED
    BY <1>1, <1>5, <2>1 DEF IInv, TypeOK, OnWire, OnTheVps, Steady, given, client
<1>8. Place'
  BY <1>1, SteadyState DEF IInv, Place, Line
<1>9. Traffic'
  BY <1>1, <1>6, SteadyState DEF IInv, Traffic
<1> QED
  BY <1>1, <1>7, <1>8, <1>9, RepliesKept DEF IInv

\* What was said of the lines there are holds of a longer list of them.
LEMMA LongerLines ==
  ASSUME NEW S, NEW lines \in Seq(S), NEW line \in S
  PROVE  /\ Append(lines, line) \in Seq(S)
         /\ Len(Append(lines, line)) = Len(lines) + 1
         /\ \A k \in 1..Len(lines) : k \in 1..Len(Append(lines, line)) /\ Append(lines, line)[k] = lines[k]
         /\ 0..Len(lines) \subseteq 0..Len(Append(lines, line))
OBVIOUS

LEMMA LongerTraffic ==
  ASSUME NEW S, NEW lines \in Seq(S), NEW line \in S, NEW x, NEW cfg, FromACall(x, lines, cfg)
  PROVE  FromACall(x, Append(lines, line), cfg)
BY LongerLines DEF FromACall

LEMMA LongerReply ==
  ASSUME NEW S, NEW lines \in Seq(S), NEW line \in S, NEW r, NEW offered,
         GoodReply(r, lines, offered)
  PROVE  GoodReply(r, Append(lines, line), offered)
<1>1. r.to \in 1..Len(lines)
  BY DEF GoodReply
<1>2. r.to \in 1..Len(Append(lines, line)) /\ Append(lines, line)[r.to] = lines[r.to]
  BY <1>1, LongerLines
<1> QED
  BY <1>2 DEF GoodReply

LEMMA SendStep ==
  ASSUME IInv, Send
  PROVE  IInv'
<1>1. PICK line \in Lines : sent' = Append(sent, line)
  BY DEF Send
<1>2. /\ UNCHANGED <<given, fleet, file, edits, closed, interrupted, pc, read, box, step, wire, got,
                     changed, out>>
      /\ Len(sent) < MaxLines
  BY DEF Send
<1>3. sent \in Seq(Lines) /\ read \in 0..Len(sent) /\ Len(sent) \in Nat /\ MaxLines \in Nat
  BY Lengths, McpAssumption, Zenon DEF IInv, TypeOK
<1>4. Boxes' = Boxes /\ Offered' = Offered /\ fleet' = fleet
  BY <1>2 DEF Boxes, Offered, given
<1>5. /\ sent' \in Seq(Lines) /\ Len(sent') = Len(sent) + 1 /\ read' \in 0..Len(sent')
      /\ \A k \in 1..Len(sent) : k \in 1..Len(sent') /\ sent'[k] = sent[k]
  BY <1>1, <1>2, <1>3, LongerLines
<1>6. TypeOK'
  BY <1>2, <1>5 DEF IInv, TypeOK, given
<1>7. Place'
  <2>1. pc \in {"handle", "call", "awaiting", "sweep"} => read' \in 1..Len(sent') /\ Line' = Line
    BY <1>2, <1>5 DEF IInv, Place, Line
  <2>2. Len(sent') <= MaxLines
    BY <1>2, <1>3, <1>5
  <2> QED
    BY <1>2, <1>4, <2>1, <2>2 DEF IInv, Place
<1>8. Traffic'
  BY <1>1, <1>2, <1>3, <1>4, LongerTraffic DEF IInv, Traffic
<1>9. Replies'
  BY <1>1, <1>2, <1>3, <1>4, LongerReply DEF IInv, Replies
<1> QED
  BY <1>6, <1>7, <1>8, <1>9 DEF IInv

LEMMA OtherStep ==
  ASSUME IInv, Close \/ Interrupt \/ Edited \/ Kill \/ UNCHANGED vars
  PROVE  IInv'
<1>1. /\ UNCHANGED <<given, fleet, sent, read, box, step, wire, got, changed, out>>
      /\ pc' = pc \/ pc' = "ended"
      /\ closed' \in BOOLEAN /\ interrupted' \in BOOLEAN /\ file' \in Fleet /\ edits' \in 0..MaxEdits
  <2>1. CASE Close
    BY <2>1 DEF Close, IInv, TypeOK
  <2>2. CASE Interrupt
    BY <2>2 DEF Interrupt, IInv, TypeOK
  <2>3. CASE Edited
    BY <2>3, McpAssumption DEF Edited, IInv, TypeOK, client
  <2>4. CASE Kill
    BY <2>4 DEF Kill, Goto, IInv, TypeOK, client
  <2>5. CASE UNCHANGED vars
    BY <2>5 DEF vars, IInv, TypeOK, client
  <2> QED
    BY <2>1, <2>2, <2>3, <2>4, <2>5
<1>2. Boxes' = Boxes /\ Offered' = Offered /\ Line' = Line
  BY <1>1 DEF Boxes, Offered, Line, given
<1>3. TypeOK'
  BY <1>1 DEF IInv, TypeOK, given
<1>4. Place'
  BY <1>1, <1>2 DEF IInv, Place
<1>5. Traffic' /\ Replies'
  BY <1>1, <1>2 DEF IInv, Traffic, Replies
<1> QED
  BY <1>3, <1>4, <1>5 DEF IInv

----------------------------------------------------------------------------
(* The theorems *)

LEMMA IInvInit ==
  ASSUME Init
  PROVE  IInv
<1>1. sent = <<>> /\ changed = <<>> /\ out = <<>> /\ Len(sent) = 0 /\ Len(changed) = 0 /\ Len(out) = 0
  BY DEF Init
<1>2. 0 <= MaxLines /\ 0 \in 0..MaxEdits
  BY McpAssumption
<1>3. TypeOK
  <2>1. readOnly \in BOOLEAN /\ creds \in BOOLEAN /\ closed \in BOOLEAN /\ interrupted \in BOOLEAN
    BY DEF Init
  <2>2. fleet \in Fleet /\ file \in Fleet /\ edits \in 0..MaxEdits
    BY <1>2 DEF Init
  <2>3. sent \in Seq(Lines) /\ read \in 0..Len(sent)
    BY <1>1 DEF Init
  <2>4. pc \in {"scan", "handle", "call", "awaiting", "sweep", "ended"} /\ box \in Name \cup {Env, NoName}
    BY DEF Init
  <2>5. step \in 1..2 /\ got \in {"none", "ok", "lost", "refused"}
    BY DEF Init
  <2>6. wire \subseteq [to : 1..MaxLines, step : 1..2, op : Endpoint, box : Name \cup {Env}, veid : Veid]
    BY DEF Init
  <2>7. changed \in Seq([to : 1..MaxLines, op : Endpoint, box : Name \cup {Env}, veid : Veid])
    BY <1>1
  <2>8. out \in Seq(Reply)
    BY <1>1
  <2> QED
    BY <2>1, <2>2, <2>3, <2>4, <2>5, <2>6, <2>7, <2>8 DEF TypeOK
<1>4. Place /\ Traffic /\ Replies
  BY <1>1, <1>2 DEF Init, Place, Traffic, Replies
<1> QED
  BY <1>3, <1>4 DEF IInv

LEMMA IInvNext ==
  ASSUME IInv, [Next]_vars
  PROVE  IInv'
BY ScanStep, ScanEOFStep, HandleStep, CallStep, ReceiveStep, GiveUpStep, SweepStep, ServeStep,
   SendStep, OtherStep DEF Next, Work

LEMMA Invariance == Spec => []IInv
<1>1. Init => IInv
  BY IInvInit
<1>2. IInv /\ [Next]_vars => IInv'
  BY IInvNext
<1> QED
  BY <1>1, <1>2, PTL DEF Spec

\* Every variable of the server keeps its type.
THEOREM TypeCorrect == Spec => []TypeOK
<1>1. IInv => TypeOK
  BY DEF IInv
<1> QED
  BY Invariance, <1>1, PTL

\* No tool that a server offers is refused for being read-only, and every other
\* is: the list, callTool's gate and the client's gate agree.
THEOREM OfferedToolsRun == Spec => []OfferedIsNotRefused
<1>1. ASSUME IInv
      PROVE  OfferedIsNotRefused
  <2>1. ASSUME NEW t \in Offered, NEW calls \in t.calls, NEW i \in DOMAIN calls
        PROVE  ~(readOnly /\ NotRead(calls[i]))
    BY <2>1, UngatedToolsRead DEF Offered
  <2>2. ASSUME NEW j \in 1..Len(out), sent[out[j].to].form = "call"
        PROVE  out[j].why = "read-only" <=> sent[out[j].to].tool \notin Offered
    BY <1>1, <2>2 DEF IInv, Replies, GoodReply
  <2> QED
    BY <2>1, <2>2 DEF OfferedIsNotRefused
<1> QED
  BY Invariance, <1>1, PTL

\* Whatever becomes of the config file, a name is one VPS.
THEOREM NamesAreStable == Spec => []OneNameOneBox
<1>1. ASSUME IInv
      PROVE  OneNameOneBox
  BY <1>1 DEF IInv, Traffic, FromACall, OneNameOneBox
<1> QED
  BY Invariance, <1>1, PTL

\* A protocol error means that nothing went to KiwiVM for that line, nor will.
THEOREM ErrorsTouchNothing == Spec => []ProtocolErrorTouchesNothing
<1>1. ASSUME IInv
      PROVE  ProtocolErrorTouchesNothing
  <2> SUFFICES ASSUME NEW j \in 1..Len(out), out[j].kind = "rpcError"
               PROVE  /\ ChangesOf(out[j].to) = {}
                      /\ \A w \in wire : w.to # out[j].to
                      /\ sent[out[j].to].form # "call"
    BY DEF ProtocolErrorTouchesNothing
  <2>1. sent[out[j].to].form # "call"
    BY <1>1 DEF IInv, Replies, GoodReply
  <2> QED
    BY <1>1, <2>1 DEF IInv, Traffic, FromACall, ChangesOf
<1> QED
  BY Invariance, <1>1, PTL

----------------------------------------------------------------------------
(* What was asked of KiwiVM, and what came of it *)

\* The log holds the change that a line asked for, on this server.
Recorded(k, b, log, line) ==
  \E i \in 1..Len(log) : log[i].to = k /\ log[i].box = b /\ log[i].op = line.calls[1]

\* Every request is the one its line calls for at that step, made for a line
\* that was read, and a line that changes something has one on its way at most.
Requests ==
  /\ \A w \in wire :
       /\ w.to <= read
       /\ w.step \in 1..Len(sent[w.to].calls) /\ w.op = sent[w.to].calls[w.step]
  /\ \A v, w \in wire : v.to = w.to /\ Changing(sent[w.to]) => v = w

\* Every change is what its line asked for, and comes of the only request that
\* line made.
Changes ==
  /\ \A i \in 1..Len(changed) :
       /\ changed[i].to <= read /\ Changing(sent[changed[i].to])
       /\ changed[i].op = sent[changed[i].to].calls[1]
       /\ \A w \in wire : w.to # changed[i].to
  /\ \A i, j \in 1..Len(changed) : changed[i].to = changed[j].to => i = j

\* The line in hand: nothing of it has been sent before its first request, what
\* has been goes to the server it named, and "ok" means that it was done.
InHand ==
  /\ pc = "handle" \/ (pc = "call" /\ Changing(Line)) =>
       /\ \A w \in wire : w.to # read
       /\ \A i \in 1..Len(changed) : changed[i].to # read
  /\ pc \in {"call", "awaiting"} => \A w \in wire : w.to = read => w.box = box
  /\ pc = "awaiting" /\ got = "ok" /\ Changing(Line) => Recorded(read, box, changed, Line)

\* Every result stands for a change, if its line changes anything.
Results ==
  \A j \in 1..Len(out) :
    out[j].kind = "result" /\ Changing(sent[out[j].to]) =>
      Recorded(out[j].to, out[j].box, changed, sent[out[j].to])

Once == Requests /\ Changes /\ InHand /\ Results

\* A call that changes something makes one request.
LEMMA OneRequest ==
  ASSUME NEW tool \in Toolset, NEW calls \in tool.calls, NEW i \in DOMAIN calls, ~Looks(calls[i])
  PROVE  Len(calls) = 1 /\ ~Sweeping(tool)
<1>1. tool.calls # {<<>>}
  OBVIOUS
<1>2. ~Sweeping(tool)
  BY <1>1, ToolParts DEF Sweeping, FleetTool, IncidentsTool
<1>3. CASE tool.calls = {<<tool.endpoint>>}
  <2>1. calls = <<tool.endpoint>>
    BY <1>3
  <2> QED
    BY <1>2, <2>1, Lengths, Zenon
<1>4. CASE tool.calls = {<<"start">>, <<"stop">>, <<"restart">>, <<>>}
  <2>1. calls \in {<<"start">>, <<"stop">>, <<"restart">>}
    BY <1>4
  <2> QED
    BY <1>2, <2>1, Lengths, Zenon
<1>5. CASE tool.calls = {<<"getSuspensionDetails", "getPolicyViolations">>}
  BY <1>5 DEF Looks
<1> QED
  BY <1>1, <1>3, <1>4, <1>5, ToolShapes

LEMMA ChangingLines ==
  ASSUME TypeOK, NEW k \in 1..Len(sent), Changing(sent[k])
  PROVE  /\ sent[k].form = "call" /\ Len(sent[k].calls) = 1
         /\ ~Looks(sent[k].calls[1]) /\ ~Sweeping(sent[k].tool)
<1> DEFINE line == sent[k]
<1>1. line \in Lines
  BY DEF TypeOK
<1>2. PICK i \in DOMAIN line.calls : line.form = "call" /\ ~Looks(line.calls[i])
  BY DEF Changing
<1>3. line.tool \in Toolset /\ line.calls \in line.tool.calls /\ line.calls \in Seq(Endpoint)
  BY <1>1, <1>2, LinesAssumption
<1>4. Len(line.calls) = 1 /\ ~Sweeping(line.tool)
  <2> HIDE DEF line
  <2> QED
    BY <1>2, <1>3, OneRequest
<1>5. i = 1
  BY <1>2, <1>3, <1>4
<1> QED
  BY <1>2, <1>4, <1>5

\* The converse, for the requests that were made.
LEMMA ChangesIfItDoes ==
  ASSUME TypeOK, NEW k \in 1..Len(sent), sent[k].form = "call",
         NEW i \in 1..Len(sent[k].calls), ~Looks(sent[k].calls[i])
  PROVE  Changing(sent[k]) /\ i = 1
<1>1. sent[k] \in Lines
  BY DEF TypeOK
<1>2. sent[k].calls \in Seq(Endpoint)
  BY <1>1, LinesAssumption
<1>3. Changing(sent[k])
  BY <1>2 DEF Changing
<1>4. Len(sent[k].calls) = 1
  BY <1>3, ChangingLines
<1> QED
  BY <1>3, <1>4

\* A change, once recorded, stays so.
LEMMA StaysRecorded ==
  ASSUME NEW S, NEW log \in Seq(S), NEW x, NEW k, NEW b, NEW line, Recorded(k, b, log, line)
  PROVE  Recorded(k, b, Append(log, x), line)
<1>1. PICK i \in 1..Len(log) : log[i].to = k /\ log[i].box = b /\ log[i].op = line.calls[1]
  BY DEF Recorded
<1>2. i \in 1..Len(Append(log, x)) /\ Append(log, x)[i] = log[i]
  <2>1. Len(log) \in Nat /\ Len(Append(log, x)) = Len(log) + 1
    BY Appended
  <2> QED
    BY <2>1, Appended
<1> QED
  BY <1>1, <1>2 DEF Recorded

\* No step of the server but Call sends anything.
LEMMA NothingSent ==
  ASSUME IInv, Once, Steady, UNCHANGED <<wire, changed>>, read' \in Nat, read <= read'
  PROVE  Requests' /\ Changes'
<1>1. sent' = sent /\ wire' = wire /\ changed' = changed
  BY SteadyState
<1>2. read \in Nat /\ wire \subseteq OnWire /\ changed \in Seq(OnTheVps)
  BY DEF IInv, TypeOK, OnWire, OnTheVps
<1>3. \A n \in Nat : n <= read => n <= read'
  BY <1>2
<1>4. \A w \in wire : w.to \in Nat
  BY <1>2 DEF OnWire
<1>5. \A i \in 1..Len(changed) : changed[i].to \in Nat
  <2>1. \A i \in 1..Len(changed) : changed[i] \in OnTheVps
    BY <1>2
  <2> QED
    BY <2>1 DEF OnTheVps
<1>6. Requests'
  BY <1>1, <1>3, <1>4 DEF Once, Requests, Changing
<1>7. Changes'
  BY <1>1, <1>3, <1>5 DEF Once, Changes, Changing
<1> QED
  BY <1>6, <1>7

LEMMA ResultsKept ==
  ASSUME Once, sent' = sent, changed' = changed, out' = out
  PROVE  Results'
BY DEF Once, Results, Changing, Recorded

LEMMA OneMoreResult ==
  ASSUME IInv, Once, sent' = sent, changed' = changed,
         NEW kind, NEW why, NEW b, Say(kind, why, b),
         kind = "result" /\ Changing(sent[read']) => Recorded(read', b, changed, sent[read'])
  PROVE  Results'
<1> DEFINE r == [to |-> read', kind |-> kind, why |-> why, box |-> b]
<1>1. out \in Seq(Reply) /\ out' = Append(out, r)
  BY DEF IInv, TypeOK, Say
<1>2. r.kind = "result" /\ Changing(sent[r.to]) => Recorded(r.to, r.box, changed, sent[r.to])
  OBVIOUS
<1>3. ASSUME NEW j \in 1..Len(out')
      PROVE  out'[j].kind = "result" /\ Changing(sent[out'[j].to]) =>
               Recorded(out'[j].to, out'[j].box, changed, sent[out'[j].to])
  <2> HIDE DEF r
  <2>1. Len(out) \in Nat /\ Len(out') = Len(out) + 1
    BY <1>1, Appended
  <2>2. CASE j \in 1..Len(out)
    <3>1. out'[j] = out[j]
      BY <1>1, <2>2, Appended
    <3> QED
      BY <2>2, <3>1 DEF Once, Results
  <2>3. CASE j = Len(out) + 1
    <3>1. out'[j] = r
      BY <1>1, <2>3, Appended
    <3> QED
      BY <1>2, <3>1
  <2> QED
    BY <2>1, <2>2, <2>3
<1> QED
  BY <1>3 DEF Results, Changing, Recorded

\* Back at the loop, or at the end, there is no line in hand.
LEMMA NoLineInHand ==
  ASSUME pc' \in {"scan", "ended", "sweep"}
  PROVE  InHand'
BY DEF InHand

LEMMA ScanOnce ==
  ASSUME IInv, Once, Scan
  PROVE  Once'
<1>1. Steady /\ UNCHANGED <<wire, changed, box, step, got>> /\ sent' = sent
  BY SteadyState DEF Scan, Steady
<1>2. read \in Nat /\ read' = read + 1
  BY DEF Scan, IInv, TypeOK
<1>3. Requests' /\ Changes'
  BY <1>1, <1>2, NothingSent
<1>4. CASE out' = out /\ pc' \in {"scan", "ended"}
  BY <1>1, <1>3, <1>4, ResultsKept, NoLineInHand DEF Once
<1>5. CASE out' = out /\ pc' = "handle"
  <2>1. wire \subseteq OnWire /\ changed \in Seq(OnTheVps)
    BY DEF IInv, TypeOK, OnWire, OnTheVps
  <2>2. \A w \in wire : w.to # read'
    BY <1>2, <2>1 DEF Once, Requests, OnWire
  <2>3. \A i \in 1..Len(changed) : changed[i].to # read'
    <3>1. \A i \in 1..Len(changed) : changed[i].to \in Nat /\ changed[i].to <= read
      <4>1. \A i \in 1..Len(changed) : changed[i] \in OnTheVps
        BY <2>1
      <4> QED
        BY <4>1 DEF Once, Changes, OnTheVps
    <3> QED
      BY <1>2, <3>1
  <2>4. InHand'
    BY <1>1, <1>5, <2>2, <2>3 DEF InHand
  <2> QED
    BY <1>1, <1>3, <1>5, <2>4, ResultsKept DEF Once
<1>6. CASE Tell("rpcError")
  <2>1. Say("rpcError", "", NoName) /\ pc' = "scan"
    BY <1>6 DEF Tell, Say, Goto
  <2>2. "rpcError" # "result"
    OBVIOUS
  <2>3. Results'
    BY <1>1, <2>1, <2>2, OneMoreResult, Zenon
  <2> QED
    BY <1>3, <2>1, <2>3, NoLineInHand DEF Once
<1> QED
  BY <1>4, <1>5, <1>6 DEF Scan, Goto

\* A step that answers the line in hand.
LEMMA AnswerOnce ==
  ASSUME IInv, Once, Steady, UNCHANGED <<wire, changed>>, read' = read,
         NEW kind, NEW why, NEW b, Say(kind, why, b),
         kind = "result" /\ Changing(Line) => Recorded(read, b, changed, Line)
  PROVE  Once'
<1>1. sent' = sent /\ changed' = changed /\ pc' = "scan"
  BY SteadyState DEF Say, Goto
<1>2. read \in Nat /\ read' \in Nat /\ read <= read'
  BY DEF IInv, TypeOK
<1>3. kind = "result" /\ Changing(sent[read']) => Recorded(read', b, changed, sent[read'])
  BY DEF Line
<1>4. Results'
  BY <1>1, <1>3, OneMoreResult, Zenon
<1>5. Requests' /\ Changes'
  BY <1>2, NothingSent
<1> QED
  BY <1>1, <1>4, <1>5, NoLineInHand DEF Once

LEMMA NoResult == "toolError" # "result" /\ "rpcError" # "result"
OBVIOUS

LEMMA HandleOnce ==
  ASSUME IInv, Once, Handle
  PROVE  Once'
<1>1. /\ Steady /\ UNCHANGED <<wire, changed>> /\ pc = "handle" /\ read' = read
      /\ sent' = sent /\ Line' = Line
  BY SteadyState DEF Handle, Steady, Line
<1>2. read \in Nat /\ read' \in Nat /\ read <= read'
  BY <1>1 DEF IInv, TypeOK
<1>3. CASE Say("result", "", NoName) /\ Line.form = "plain"
  <2>1. ~Changing(Line)
    BY <1>3 DEF Changing
  <2> QED
    BY <1>1, <1>3, <2>1, AnswerOnce, Zenon
<1>4. ASSUME NEW kind \in {"toolError", "rpcError"}, NEW why, Say(kind, why, NoName)
      PROVE  Once'
  <2>1. kind # "result"
    BY <1>4
  <2> QED
    BY <1>1, <1>4, <2>1, AnswerOnce, Zenon
<1>5. CASE out' = out /\ pc' \in {"call", "sweep"}
  <2>1. Requests' /\ Changes' /\ Results'
    BY <1>1, <1>2, <1>5, NothingSent, ResultsKept
  <2>2. /\ \A w \in wire : w.to # read
        /\ \A i \in 1..Len(changed) : changed[i].to # read
    BY <1>1 DEF Once, InHand
  <2>3. InHand'
    BY <1>1, <1>5, <2>2 DEF InHand
  <2> QED
    BY <2>1, <2>3 DEF Once
<1>6. \/ Say("result", "", NoName) /\ Line.form = "plain"
      \/ Say("rpcError", "", NoName)
      \/ Line.form = "call" /\ CallTool
  BY DEF Handle, Tell
<1>7. ASSUME CallTool
      PROVE  \/ Say("toolError", "read-only", NoName)
             \/ Say("toolError", "", NoName)
             \/ out' = out /\ pc' \in {"call", "sweep"}
  BY <1>7 DEF CallTool, CallOn, Tell, Goto
<1> QED
  BY <1>3, <1>4, <1>5, <1>6, <1>7

LEMMA ReceiveOnce ==
  ASSUME IInv, Once, Receive
  PROVE  Once'
<1>1. /\ Steady /\ UNCHANGED <<wire, changed>> /\ pc = "awaiting" /\ read' = read /\ box' = box
      /\ sent' = sent /\ Line' = Line
  BY SteadyState DEF Receive, Steady, Line
<1>2. CASE Say("toolError", "", NoName)
  BY <1>1, <1>2, NoResult, AnswerOnce, Zenon
<1>3. CASE got = "ok" /\ Say("result", "", box)
  <2>1. Changing(Line) => Recorded(read, box, changed, Line)
    BY <1>1, <1>3 DEF Once, InHand
  <2> QED
    BY <1>1, <1>3, <2>1, AnswerOnce, Zenon
<1>4. CASE step < Len(Line.calls) /\ pc' = "call" /\ out' = out
  <2>1. read \in Nat /\ read' \in Nat /\ read <= read' /\ read \in 1..Len(sent) /\ step \in 1..2
    BY <1>1, CallInHand, Ranges DEF IInv, TypeOK
  <2>2. ~Changing(Line)
    <3> SUFFICES ASSUME Changing(Line)
                 PROVE  FALSE
      OBVIOUS
    <3>1. Len(Line.calls) = 1
      BY <2>1, ChangingLines DEF IInv, Line
    <3>2. ~(step < 1)
      BY <2>1
    <3> QED
      BY <1>4, <3>1, <3>2
  <2>3. \A w \in wire : w.to = read => w.box = box
    BY <1>1 DEF Once, InHand
  <2>4. InHand'
    BY <1>1, <1>4, <2>2, <2>3 DEF InHand, Changing
  <2> QED
    BY <1>1, <1>4, <2>1, <2>4, NothingSent, ResultsKept DEF Once
<1>5. \/ Say("toolError", "", NoName)
      \/ got = "ok" /\ Say("result", "", box)
      \/ step < Len(Line.calls) /\ pc' = "call" /\ out' = out
  BY DEF Receive, Tell, Goto
<1> QED
  BY <1>2, <1>3, <1>4, <1>5

LEMMA GiveUpOnce ==
  ASSUME IInv, Once, GiveUp
  PROVE  Once'
<1>1. /\ Steady /\ UNCHANGED <<wire, changed>> /\ read' = read
      /\ Say("toolError", "", NoName)
  BY DEF GiveUp, Steady, Tell
<1> QED
  BY <1>1, NoResult, AnswerOnce, Zenon

LEMMA SweepOnce ==
  ASSUME IInv, Once, Sweep
  PROVE  Once'
<1>1. /\ Steady /\ UNCHANGED <<wire, changed>> /\ read' = read /\ pc = "sweep"
  BY DEF Sweep, Steady
<1>2. Say("result", "", NoName)
  BY DEF Sweep
<1>3. ~Changing(Line)
  <2>1. read \in 1..Len(sent) /\ Sweeping(Line.tool)
    BY <1>1 DEF IInv, Place
  <2> QED
    BY <2>1, ChangingLines DEF IInv, Line
<1> QED
  BY <1>1, <1>2, <1>3, AnswerOnce, Zenon

LEMMA CallOnce ==
  ASSUME IInv, Once, Call
  PROVE  Once'
<1>1. /\ Steady /\ changed' = changed /\ pc = "call" /\ read' = read /\ box' = box /\ step' = step
      /\ sent' = sent /\ Line' = Line
  BY SteadyState DEF Call, Steady, Line
<1>2. /\ read \in 1..Len(sent) /\ read \in Nat /\ Line.form = "call"
      /\ Line.calls = <<>> \/ step \in 1..Len(Line.calls)
  BY <1>1, CallInHand DEF IInv, TypeOK
<1>3. CASE wire' = wire /\ \E why : Say("toolError", why, NoName)
  BY <1>1, <1>3, NoResult, AnswerOnce, Zenon
<1>4. CASE /\ wire' = wire \cup {OnTheWire} /\ got' = "none" /\ pc' = "awaiting" /\ out' = out
           /\ Line.calls # <<>>
  <2>1. OnTheWire.to = read /\ OnTheWire.op = Line.calls[step] /\ OnTheWire.step = step
        /\ OnTheWire.box = box
    BY DEF OnTheWire
  <2>2. Changing(Line) => /\ \A w \in wire : w.to # read
                          /\ \A i \in 1..Len(changed) : changed[i].to # read
    BY <1>1 DEF Once, InHand
  <2> HIDE DEF OnTheWire
  <2>3. Requests'
    <3>1. ASSUME NEW w \in wire'
          PROVE  w.to <= read /\ w.step \in 1..Len(sent[w.to].calls) /\ w.op = sent[w.to].calls[w.step]
      <4>1. CASE w \in wire
        BY <4>1 DEF Once, Requests
      <4>2. CASE w = OnTheWire
        BY <1>2, <1>4, <2>1, <4>2 DEF Line
      <4> QED
        BY <1>4, <4>1, <4>2
    <3>2. ASSUME NEW v \in wire', NEW w \in wire', v.to = w.to, Changing(sent[w.to])
          PROVE  v = w
      <4>1. CASE v \in wire /\ w \in wire
        BY <3>2, <4>1 DEF Once, Requests
      <4>2. CASE (v = OnTheWire \/ w = OnTheWire) /\ v # w
        <5>1. w.to = read /\ Changing(Line)
          BY <2>1, <3>2, <4>2 DEF Line
        <5> QED
          BY <1>4, <2>2, <3>2, <4>2, <5>1
      <4> QED
        BY <1>4, <4>1, <4>2
    <3> QED
      BY <1>1, <3>1, <3>2 DEF Requests, Changing
  <2>4. Changes'
    <3>1. ASSUME NEW i \in 1..Len(changed), NEW w \in wire'
          PROVE  w.to # changed[i].to
      <4>1. CASE w \in wire
        BY <4>1 DEF Once, Changes
      <4>2. CASE w = OnTheWire
        <5>1. Changing(sent[changed[i].to])
          BY DEF Once, Changes
        <5> QED
          BY <2>1, <2>2, <4>2, <5>1 DEF Line
      <4> QED
        BY <1>4, <4>1, <4>2
    <3> QED
      BY <1>1, <3>1 DEF Once, Changes, Changing
  <2>5. InHand'
    <3>1. \A w \in wire : w.to = read => w.box = box
      BY <1>1 DEF Once, InHand
    <3> QED
      BY <1>1, <1>4, <2>1, <3>1 DEF InHand
  <2> QED
    BY <1>1, <1>4, <2>3, <2>4, <2>5, ResultsKept DEF Once
<1>5. \/ wire' = wire /\ \E why : Say("toolError", why, NoName)
      \/ /\ wire' = wire \cup {OnTheWire} /\ got' = "none" /\ pc' = "awaiting" /\ out' = out
         /\ Line.calls # <<>>
  <2> DEFINE gated == Line.calls # <<>> /\ readOnly /\ NotRead(Line.calls[step])
  <2>1. CASE Line.calls = <<>> \/ gated
    <3>1. wire' = wire /\ Say("toolError", IF gated THEN "read-only" ELSE "", NoName)
      BY <2>1 DEF Call
    <3> QED
      BY <3>1
  <2>2. CASE Line.calls # <<>> /\ ~gated
    BY <2>2 DEF Call, OnTheWire, Goto
  <2> QED
    BY <2>1, <2>2
<1> QED
  BY <1>3, <1>4, <1>5

\* KiwiVM does what was asked: the change is recorded, and the request is gone.
LEMMA ServeOnce ==
  ASSUME IInv, Once, Serve
  PROVE  Once'
<1>1. PICK w \in wire, performed \in BOOLEAN :
        /\ wire' = wire \ {w}
        /\ changed' = IF performed /\ ~Looks(w.op)
                      THEN Append(changed, [to |-> w.to, op |-> w.op, box |-> w.box, veid |-> w.veid])
                      ELSE changed
        /\ IF pc = "awaiting" /\ read = w.to /\ step = w.step
           THEN got' \in IF performed THEN {"ok", "lost"} ELSE {"refused"}
           ELSE UNCHANGED got
        /\ Steady /\ UNCHANGED <<pc, read, box, step, out>>
  BY DEF Serve, Steady
<1> DEFINE c == [to |-> w.to, op |-> w.op, box |-> w.box, veid |-> w.veid]
<1>2. sent' = sent /\ Line' = Line /\ read' = read /\ pc' = pc /\ box' = box /\ out' = out
  BY <1>1, SteadyState DEF Line
<1>3. /\ TypeOK /\ changed \in Seq(OnTheVps) /\ w.to \in 1..Len(sent) /\ sent[w.to].form = "call"
      /\ w.to <= read /\ w.step \in 1..Len(sent[w.to].calls) /\ w.op = sent[w.to].calls[w.step]
  BY DEF IInv, TypeOK, OnTheVps, Traffic, FromACall, Once, Requests
<1>4. ~Looks(w.op) => Changing(sent[w.to]) /\ w.op = sent[w.to].calls[1]
  BY <1>3, ChangesIfItDoes
<1>5. Requests'
  BY <1>1, <1>2 DEF Once, Requests, Changing
<1>6. Len(changed) \in Nat
  BY <1>3, Appended
<1>7. CASE changed' = changed /\ ~(performed /\ ~Looks(w.op))
  <2>1. Changes'
    BY <1>1, <1>2, <1>7 DEF Once, Changes, Changing
  <2>2. Results'
    BY <1>2, <1>7, ResultsKept
  <2>3. InHand'
    <3>1. ASSUME pc = "awaiting", got' = "ok", Changing(Line)
          PROVE  Recorded(read, box, changed, Line)
      <4>1. CASE read = w.to /\ step = w.step
        <5>1. performed
          BY <1>1, <3>1, <4>1
        <5>2. Looks(w.op)
          BY <1>7, <5>1
        <5>3. ~Looks(Line.calls[1]) /\ Len(Line.calls) = 1
          BY <1>3, <3>1, <4>1, ChangingLines DEF Line
        <5>4. w.step = 1
          BY <1>3, <4>1, <5>3 DEF Line
        <5> QED
          BY <1>3, <4>1, <5>2, <5>3, <5>4 DEF Line
      <4>2. CASE ~(read = w.to /\ step = w.step)
        BY <1>1, <3>1, <4>2 DEF Once, InHand
      <4> QED
        BY <4>1, <4>2
    <3> QED
      BY <1>1, <1>2, <1>7, <3>1 DEF Once, InHand, Changing, Recorded
  <2> QED
    BY <1>5, <2>1, <2>2, <2>3 DEF Once
<1>8. CASE changed' = Append(changed, c) /\ performed /\ ~Looks(w.op)
  <2>1. c.to = w.to /\ c.op = w.op /\ c.box = w.box
    OBVIOUS
  <2> HIDE DEF c
  <2>2. /\ Len(changed') = Len(changed) + 1 /\ changed'[Len(changed) + 1] = c
        /\ \A i \in 1..Len(changed) : changed'[i] = changed[i]
    BY <1>3, <1>8, Appended
  <2>3. \A i \in 1..Len(changed') : i \in 1..Len(changed) \/ i = Len(changed) + 1
    BY <1>6, <2>2
  <2>4. \A i \in 1..Len(changed) : changed[i].to # c.to
    BY <2>1 DEF Once, Changes
  <2>5. Changes'
    <3>1. ASSUME NEW i \in 1..Len(changed')
          PROVE  /\ changed'[i].to <= read /\ Changing(sent[changed'[i].to])
                 /\ changed'[i].op = sent[changed'[i].to].calls[1]
                 /\ \A v \in wire' : v.to # changed'[i].to
      <4>1. CASE i \in 1..Len(changed)
        BY <1>1, <2>2, <4>1 DEF Once, Changes
      <4>2. CASE i = Len(changed) + 1
        <5>1. \A v \in wire' : v.to # w.to
          BY <1>1, <1>4, <1>8 DEF Once, Requests
        <5> QED
          BY <1>3, <1>4, <1>8, <2>1, <2>2, <4>2, <5>1
      <4> QED
        BY <2>3, <4>1, <4>2
    <3>2. ASSUME NEW i \in 1..Len(changed'), NEW j \in 1..Len(changed'),
                 changed'[i].to = changed'[j].to
          PROVE  i = j
      <4>1. CASE i \in 1..Len(changed) /\ j \in 1..Len(changed)
        BY <2>2, <3>2, <4>1 DEF Once, Changes
      <4>2. CASE i = Len(changed) + 1 \/ j = Len(changed) + 1
        BY <2>2, <2>3, <2>4, <3>2, <4>2
      <4> QED
        BY <2>3, <4>1, <4>2
    <3> QED
      BY <1>2, <3>1, <3>2 DEF Changes, Changing
  <2>6. \A k, b, line : Recorded(k, b, changed, line) => Recorded(k, b, changed', line)
    BY <1>3, <1>8, StaysRecorded
  <2>7. Results'
    BY <1>2, <2>6 DEF Once, Results, Changing
  <2>8. InHand'
    <3>1. ASSUME pc = "handle" \/ (pc = "call" /\ Changing(Line))
          PROVE  /\ \A v \in wire' : v.to # read
                 /\ \A i \in 1..Len(changed') : changed'[i].to # read
      <4>1. /\ \A v \in wire : v.to # read
            /\ \A i \in 1..Len(changed) : changed[i].to # read
        BY <3>1 DEF Once, InHand
      <4> QED
        BY <1>1, <2>1, <2>2, <2>3, <4>1
    <3>2. ASSUME pc = "awaiting", got' = "ok", Changing(Line)
          PROVE  Recorded(read, box, changed', Line)
      <4>1. CASE read = w.to /\ step = w.step
        <5>1. w.box = box
          BY <3>2, <4>1 DEF Once, InHand
        <5>2. Len(changed) + 1 \in 1..Len(changed')
          BY <1>6, <2>2
        <5> QED
          BY <1>4, <1>8, <2>1, <2>2, <4>1, <5>1, <5>2 DEF Recorded, Line
      <4>2. CASE ~(read = w.to /\ step = w.step)
        <5>1. got = "ok"
          BY <1>1, <3>2, <4>2
        <5> QED
          BY <2>6, <3>2, <5>1 DEF Once, InHand
      <4> QED
        BY <4>1, <4>2
    <3>3. pc \in {"call", "awaiting"} => \A v \in wire' : v.to = read => v.box = box
      BY <1>1 DEF Once, InHand
    <3> QED
      BY <1>2, <3>1, <3>2, <3>3 DEF InHand, Changing
  <2> QED
    BY <1>5, <2>5, <2>7, <2>8 DEF Once
<1> QED
  BY <1>1, <1>7, <1>8

\* A line that is read is the same when more have come.
LEMMA SendOnce ==
  ASSUME IInv, Once, Send
  PROVE  Once'
<1>1. PICK line \in Lines : sent' = Append(sent, line)
  BY DEF Send
<1>2. UNCHANGED <<pc, read, box, step, wire, got, changed, out>>
  BY DEF Send
<1>3. sent \in Seq(Lines) /\ wire \subseteq OnWire /\ changed \in Seq(OnTheVps)
  BY DEF IInv, TypeOK, OnWire, OnTheVps
<1>4. \A k \in 1..Len(sent) : sent'[k] = sent[k] /\ (Changing(sent'[k]) <=> Changing(sent[k]))
  BY <1>1, <1>3, LongerLines DEF Changing
<1>5. \A w \in wire : w.to \in 1..Len(sent)
  BY DEF IInv, Traffic, FromACall
<1>6. \A i \in 1..Len(changed) : changed[i].to \in 1..Len(sent)
  BY DEF IInv, Traffic, FromACall
<1>7. \A j \in 1..Len(out) : out[j].to \in 1..Len(sent)
  BY DEF IInv, Replies, GoodReply
<1>8. pc \in {"handle", "call", "awaiting"} => Line' = Line
  BY <1>2, <1>4 DEF IInv, Place, Line
<1>9. Requests'
  BY <1>2, <1>4, <1>5 DEF Once, Requests
<1>10. Changes'
  BY <1>2, <1>4, <1>6 DEF Once, Changes
<1>11. InHand'
  BY <1>2, <1>8 DEF Once, InHand, Changing
<1>12. Results'
  <2> SUFFICES ASSUME NEW j \in 1..Len(out), out[j].kind = "result", Changing(sent'[out[j].to])
               PROVE  Recorded(out[j].to, out[j].box, changed, sent'[out[j].to])
    BY <1>2 DEF Results
  <2>1. sent'[out[j].to] = sent[out[j].to] /\ Changing(sent[out[j].to])
    BY <1>4, <1>7
  <2> QED
    BY <2>1 DEF Once, Results
<1> QED
  BY <1>9, <1>10, <1>11, <1>12 DEF Once

LEMMA OtherOnce ==
  ASSUME IInv, Once, ScanEOF \/ Close \/ Interrupt \/ Edited \/ Kill \/ UNCHANGED vars
  PROVE  Once'
<1>1. /\ UNCHANGED <<sent, read, box, wire, got, changed, out>>
      /\ pc' = pc \/ pc' = "ended"
  BY DEF ScanEOF, Close, Interrupt, Edited, Kill, vars, client, Goto
<1>2. Line' = Line
  BY <1>1 DEF Line
<1>3. Requests' /\ Changes' /\ Results'
  BY <1>1 DEF Once, Requests, Changes, Results, Changing, Recorded
<1>4. InHand'
  BY <1>1, <1>2 DEF Once, InHand, Changing, Recorded
<1> QED
  BY <1>3, <1>4 DEF Once

LEMMA OnceInit ==
  ASSUME Init
  PROVE  Once
<1>1. wire = {} /\ pc = "scan" /\ Len(changed) = 0 /\ Len(out) = 0
  BY DEF Init
<1> QED
  BY <1>1 DEF Once, Requests, Changes, InHand, Results

LEMMA OnceNext ==
  ASSUME IInv, Once, [Next]_vars
  PROVE  Once'
BY ScanOnce, HandleOnce, CallOnce, ReceiveOnce, GiveUpOnce, SweepOnce, ServeOnce, SendOnce,
   OtherOnce DEF Next, Work

LEMMA OnceAlways == Spec => []Once
<1>1. Init => Once
  BY OnceInit
<1>2. IInv /\ Once /\ [Next]_vars => Once'
  BY OnceNext
<1> QED
  BY Invariance, <1>1, <1>2, PTL DEF Spec

\* A line changes one thing at most, and only a call does, however late KiwiVM
\* deals with it; and a call that was answered with a result has done what it
\* asked for, on the server that the result names.
THEOREM ChangesOnce == Spec => []DoneOnce
<1>1. ASSUME IInv, Once
      PROVE  DoneOnce
  <2>1. ASSUME NEW k \in 1..Len(sent)
        PROVE  Cardinality(ChangesOf(k)) <= 1
    <3>1. CASE ChangesOf(k) = {}
      BY <3>1, FS_EmptySet
    <3>2. CASE ChangesOf(k) # {}
      <4>1. PICK i \in ChangesOf(k) : TRUE
        BY <3>2
      <4>2. ChangesOf(k) = {i}
        BY <1>1, <4>1 DEF Once, Changes, ChangesOf
      <4>3. Cardinality({i}) = 1
        BY FS_Singleton, Zenon
      <4> QED
        BY <4>2, <4>3
    <3> QED
      BY <3>1, <3>2
  <2>2. ASSUME NEW k \in 1..Len(sent), ChangesOf(k) # {}
        PROVE  Changing(sent[k])
    BY <1>1, <2>2 DEF Once, Changes, ChangesOf
  <2>3. ASSUME NEW j \in 1..Len(out), out[j].kind = "result", Changing(sent[out[j].to])
        PROVE  \E i \in ChangesOf(out[j].to) :
                 changed[i].op = sent[out[j].to].calls[1] /\ changed[i].box = out[j].box
    BY <1>1, <2>3 DEF Once, Results, Recorded, ChangesOf
  <2> QED
    BY <2>1, <2>2, <2>3 DEF DoneOnce
<1> QED
  BY Invariance, OnceAlways, <1>1, PTL

----------------------------------------------------------------------------
(* The server keeps the contract of Rpc *)

\* The lines that have been answered; those of the first n that call for it.
Answered == {out[j].to : j \in 1..Len(out)}
Owed(n)  == {k \in 1..n : Answerable(sent[k])}

\* While the server runs, nothing is owed but an answer to the line in hand.
Order ==
  /\ Answered \subseteq Owed(read)
  /\ pc = "scan" => Answered = Owed(read)
  /\ pc \in {"handle", "call", "awaiting", "sweep"} =>
       Answerable(Line) /\ Answered = Owed(read - 1)

LEMMA OwedGrows ==
  ASSUME NEW n \in Nat
  PROVE  Owed(n + 1) = Owed(n) \cup IF Answerable(sent[n + 1]) THEN {n + 1} ELSE {}
<1>1. \A k : k \in 1..(n + 1) <=> k \in 1..n \/ k = n + 1
  OBVIOUS
<1> QED
  BY <1>1 DEF Owed

\* The lines that are answered, and the order of the answers, as Rpc has them.
Tos(log) == [j \in 1..Len(log) |-> log[j].to]

LEMMA TosOf ==
  ASSUME NEW S, NEW n \in Nat, NEW log, \A j \in 1..n : log[j].to \in S
  PROVE  [j \in 1..n |-> log[j].to] \in Seq(S) /\ Len([j \in 1..n |-> log[j].to]) = n
OBVIOUS

LEMMA TosGrow ==
  ASSUME NEW log \in Seq(Reply), NEW r \in Reply
  PROVE  /\ Tos(Append(log, r)) = Append(Tos(log), r.to)
         /\ Tos(log) \in Seq(1..MaxLines) /\ Len(Tos(log)) = Len(log)
<1>1. \A j \in 1..Len(log) : log[j].to \in 1..MaxLines
  <2>1. \A j \in 1..Len(log) : log[j] \in Reply
    OBVIOUS
  <2> QED
    BY <2>1 DEF Reply
<1>2. Len(log) \in Nat /\ Append(log, r) \in Seq(Reply)
  OBVIOUS
<1>3. Tos(log) \in Seq(1..MaxLines) /\ Len(Tos(log)) = Len(log)
  BY <1>1, <1>2 DEF Tos
<1>4. r.to \in 1..MaxLines
  BY DEF Reply
<1>5. Len(Tos(Append(log, r))) = Len(log) + 1 /\ Tos(Append(log, r)) \in Seq(1..MaxLines)
  <2>1. \A j \in 1..Len(Append(log, r)) : Append(log, r)[j].to \in 1..MaxLines
    <3>1. \A j \in 1..Len(Append(log, r)) : Append(log, r)[j] \in Reply
      BY <1>2
    <3> QED
      BY <3>1 DEF Reply
  <2>2. Len(Append(log, r)) = Len(log) + 1
    BY Appended
  <2>3. Tos(Append(log, r)) = [j \in 1..(Len(log) + 1) |-> Append(log, r)[j].to]
    BY <2>2 DEF Tos
  <2>4. \A j \in 1..(Len(log) + 1) : Append(log, r)[j].to \in 1..MaxLines
    BY <2>1, <2>2
  <2>5. Len(log) + 1 \in Nat
    BY <1>2
  <2> QED
    BY <2>3, <2>4, <2>5, TosOf
<1>6. \A j \in 1..(Len(log) + 1) : Tos(Append(log, r))[j] = Append(Tos(log), r.to)[j]
  <2> SUFFICES ASSUME NEW j \in 1..(Len(log) + 1)
               PROVE  Tos(Append(log, r))[j] = Append(Tos(log), r.to)[j]
    OBVIOUS
  <2>1. Tos(Append(log, r))[j] = Append(log, r)[j].to
    BY Appended DEF Tos
  <2>2. CASE j \in 1..Len(log)
    <3>1. Append(log, r)[j] = log[j] /\ Append(Tos(log), r.to)[j] = Tos(log)[j]
      BY <1>3, <2>2, Appended
    <3> QED
      BY <2>1, <2>2, <3>1 DEF Tos
  <2>3. CASE j = Len(log) + 1
    BY <1>3, <2>1, <2>3, Appended
  <2>4. j \in 1..Len(log) \/ j = Len(log) + 1
    BY <1>2
  <2> QED
    BY <2>2, <2>3, <2>4
<1>7. Append(Tos(log), r.to) \in Seq(1..MaxLines) /\ Len(Append(Tos(log), r.to)) = Len(log) + 1
  BY <1>3, <1>4, Appended
<1> QED
  BY <1>3, <1>5, <1>6, <1>7

LEMMA ContractNames ==
  /\ Contract!vars = <<{k \in 1..Len(sent) : Answerable(sent[k])}, Tos(out), pc # "ended">>
  /\ Contract!Due = {k \in 1..Len(sent) : Answerable(sent[k])} \ {Tos(out)[j] : j \in 1..Len(Tos(out))}
BY DEF Contract!vars, Contract!Due, Tos

\* What the contract sees of a step of the server: nothing, that it stopped, or
\* an answer to the line that was read.
LEMMA NoAnswer ==
  ASSUME sent' = sent, out' = out, pc # "ended", pc' # "ended"
  PROVE  UNCHANGED Contract!vars
BY DEF Contract!vars

LEMMA Stops ==
  ASSUME sent' = sent, out' = out, pc' = "ended"
  PROVE  Contract!Stop
BY DEF Contract!Stop

LEMMA JustBefore ==
  ASSUME NEW n \in Nat, NEW m \in 1..n
  PROVE  /\ m - 1 \in Nat /\ m = (m - 1) + 1
         /\ m \notin 1..(m - 1) /\ \A k \in 1..n : k < m => k \in 1..(m - 1)
OBVIOUS

LEMMA Answers ==
  ASSUME IInv, IInv', sent' = sent, pc # "ended",
         read' \in 1..Len(sent), Answerable(sent[read']), Answered = Owed(read' - 1),
         NEW kind, NEW why, NEW b, Say(kind, why, b)
  PROVE  Contract!Answer
<1> DEFINE r == [to |-> read', kind |-> kind, why |-> why, box |-> b]
           asked == {k \in 1..Len(sent) : Answerable(sent[k])}
           due   == asked \ Answered
<1>1. /\ out \in Seq(Reply) /\ out' = Append(out, r) /\ pc' = "scan" /\ out' \in Seq(Reply)
      /\ sent \in Seq(Lines)
  BY DEF IInv, TypeOK, Say, Goto
<1>2. r.to = read'
  OBVIOUS
<1>3. r \in Reply
  <2> HIDE DEF r
  <2>1. Len(out) + 1 \in 1..Len(out') /\ out'[Len(out) + 1] = r
    BY <1>1, Appended
  <2> QED
    BY <1>1, <2>1
<1> HIDE DEF r
<1>4. Tos(out') = Append(Tos(out), read')
  BY <1>1, <1>2, <1>3, TosGrow
<1>5. Answered = {Tos(out)[j] : j \in 1..Len(Tos(out))}
  <2>1. Len(Tos(out)) = Len(out) /\ \A j \in 1..Len(out) : Tos(out)[j] = out[j].to
    BY <1>1, <1>3, TosGrow DEF Tos
  <2> QED
    BY <2>1 DEF Answered
<1>6. Contract!Due = due
  BY <1>5, ContractNames
<1>7. read' \in due
  <2>1. Len(sent) \in Nat /\ read' \in Nat
    BY <1>1, Lengths
  <2>2. read' \notin 1..(read' - 1)
    BY <2>1, JustBefore
  <2>3. read' \notin Answered
    BY <2>2 DEF Owed
  <2> QED
    BY <2>3
<1>8. \A n \in due : read' <= n
  <2> SUFFICES ASSUME NEW n \in due, n < read'
               PROVE  FALSE
    BY <1>1
  <2>1. n \in 1..Len(sent) /\ Answerable(sent[n]) /\ n \notin Answered
    OBVIOUS
  <2>2. Len(sent) \in Nat
    BY <1>1, Lengths
  <2>3. n \in 1..(read' - 1)
    BY <2>1, <2>2, JustBefore
  <2> QED
    BY <2>1, <2>3 DEF Owed
<1> QED
  <2>1. Contract!Answer <=>
          /\ pc # "ended"
          /\ \E m \in Contract!Due :
               /\ \A n \in Contract!Due : m <= n
               /\ Tos(out)' = Append(Tos(out), m)
          /\ UNCHANGED <<asked, pc # "ended">>
    BY DEF Contract!Answer, Tos
  <2>2. Tos(out)' = Append(Tos(out), read')
    BY <1>4 DEF Tos
  <2>3. UNCHANGED <<asked, pc # "ended">>
    BY <1>1
  <2> HIDE DEF due, asked
  <2> QED
    BY <1>6, <1>7, <1>8, <2>1, <2>2, <2>3

LEMMA RpcInit ==
  ASSUME Init
  PROVE  Order /\ Contract!Init
<1>1. sent = <<>> /\ out = <<>> /\ pc = "scan" /\ read = 0
  BY DEF Init
<1>2. Answered = {} /\ \A n : n = 0 => Owed(n) = {}
  BY <1>1 DEF Answered, Owed
<1>3. {k \in 1..Len(sent) : Answerable(sent[k])} = {} /\ [j \in 1..Len(out) |-> out[j].to] = <<>>
  BY <1>1
<1> QED
  BY <1>1, <1>2, <1>3 DEF Order, Contract!Init

LEMMA OrderKept ==
  ASSUME Order, sent' = sent, out' = out, read' = read, pc' = "ended" \/ pc' = pc
  PROVE  Order'
BY DEF Order, Answered, Owed, Line

\* An answer to the line that was read leaves nothing owed.
LEMMA AnswerOrder ==
  ASSUME IInv, sent' = sent, read' \in 1..Len(sent), Answerable(sent[read']),
         Answered = Owed(read' - 1),
         NEW kind, NEW why, NEW b, Say(kind, why, b)
  PROVE  Order'
<1>1. out \in Seq(Reply) /\ pc' = "scan" /\ sent \in Seq(Lines)
  BY DEF IInv, TypeOK, Say, Goto
<1>2. Len(out') = Len(out) + 1 /\ Len(out) \in Nat /\ out'[Len(out) + 1].to = read'
      /\ \A j \in 1..Len(out) : out'[j] = out[j]
  BY <1>1, Appended DEF Say
<1>3. Answered' = Answered \cup {read'}
  <2>1. \A j : j \in 1..Len(out') <=> j \in 1..Len(out) \/ j = Len(out) + 1
    BY <1>2
  <2> QED
    BY <1>2, <2>1 DEF Answered
<1>4. Len(sent) \in Nat
  BY <1>1, Lengths
<1>5. read' - 1 \in Nat /\ read' = (read' - 1) + 1
  BY <1>4, JustBefore
<1>6. Owed(read') = Owed(read' - 1) \cup {read'}
  BY <1>5, OwedGrows
<1>7. Owed(read)' = Owed(read')
  BY DEF Owed
<1> QED
  BY <1>1, <1>3, <1>6, <1>7 DEF Order

LEMMA ScanRpc ==
  ASSUME IInv, IInv', Order, Scan
  PROVE  Order' /\ [Contract!Next]_Contract!vars
<1>1. sent' = sent /\ pc = "scan" /\ read \in Nat /\ read' = read + 1 /\ read' \in 1..Len(sent)
      /\ read' - 1 = read
  BY DEF Scan, client, IInv, TypeOK
<1>2. Answered = Owed(read)
  BY <1>1 DEF Order
<1>3. CASE out' = out /\ pc' = "ended"
  <2>1. Owed(read) \subseteq Owed(read') /\ Owed(read)' = Owed(read')
    BY <1>1, OwedGrows DEF Owed
  <2>2. Order'
    BY <1>2, <1>3, <2>1 DEF Order, Answered
  <2> QED
    BY <1>1, <1>3, <2>2, Stops DEF Contract!Next
<1>4. CASE out' = out /\ pc' = "scan" /\ ~Answerable(sent[read'])
  <2>1. Owed(read') = Owed(read) /\ Owed(read)' = Owed(read')
    BY <1>1, <1>4, OwedGrows DEF Owed
  <2>2. Order'
    BY <1>2, <1>4, <2>1 DEF Order, Answered
  <2> QED
    BY <1>1, <1>4, <2>2, NoAnswer
<1>5. CASE out' = out /\ pc' = "handle" /\ Answerable(sent[read'])
  <2>1. Owed(read) \subseteq Owed(read') /\ Owed(read)' = Owed(read') /\ Owed(read - 1)' = Owed(read)
    BY <1>1, OwedGrows DEF Owed
  <2>2. Line' = sent[read']
    BY <1>1 DEF Line
  <2>3. Order'
    BY <1>2, <1>5, <2>1, <2>2 DEF Order, Answered, Answerable
  <2> QED
    BY <1>1, <1>5, <2>3, NoAnswer
<1>6. CASE Tell("rpcError") /\ Answerable(sent[read'])
  <2>1. Say("rpcError", "", NoName)
    BY <1>6 DEF Tell
  <2>2. Answered = Owed(read' - 1) /\ pc # "ended"
    BY <1>1, <1>2
  <2>3. Order' /\ Contract!Answer
    BY <1>1, <1>6, <2>1, <2>2, AnswerOrder, Answers, Zenon
  <2> QED
    BY <2>3 DEF Contract!Next
<1> QED
  BY <1>1, <1>3, <1>4, <1>5, <1>6 DEF Scan, Goto, Answerable

\* The other steps of the server go on with the line in hand, or answer it.
LEMMA InHandRpc ==
  ASSUME IInv, IInv', Order, sent' = sent, read' = read,
         pc \in {"handle", "call", "awaiting", "sweep"},
         \/ out' = out /\ pc' \in {"handle", "call", "awaiting", "sweep"}
         \/ \E kind, why, b : Say(kind, why, b)
  PROVE  Order' /\ [Contract!Next]_Contract!vars
<1>1. Answerable(Line) /\ Answered = Owed(read - 1) /\ read \in 1..Len(sent)
  BY DEF Order, IInv, Place
<1>2. CASE out' = out /\ pc' \in {"handle", "call", "awaiting", "sweep"}
  <2>1. Line' = Line /\ Owed(read)' = Owed(read) /\ Owed(read - 1)' = Owed(read - 1)
        /\ Answered' = Answered
    BY <1>2 DEF Line, Owed, Answered
  <2>2. Order'
    BY <1>1, <1>2, <2>1 DEF Order, Answerable
  <2>3. UNCHANGED Contract!vars
    BY <1>2, NoAnswer
  <2> QED
    BY <2>2, <2>3
<1>3. ASSUME NEW kind, NEW why, NEW b,
             Say(kind, why, b)
      PROVE  Order' /\ Contract!Answer
  <2>1. Answerable(sent[read']) /\ Answered = Owed(read' - 1) /\ read' \in 1..Len(sent) /\ pc # "ended"
    BY <1>1 DEF Line
  <2> QED
    BY <1>3, <2>1, AnswerOrder, Answers, Zenon
<1> QED
  BY <1>2, <1>3 DEF Contract!Next

LEMMA SendRpc ==
  ASSUME IInv, Order, Send
  PROVE  Order' /\ [Contract!Next]_Contract!vars
<1> DEFINE asked == {k \in 1..Len(sent) : Answerable(sent[k])}
           m == Len(sent) + 1
<1>1. PICK line \in Lines : sent' = Append(sent, line)
  BY DEF Send
<1>2. pc' = pc /\ read' = read /\ out' = out /\ Len(sent) < MaxLines
  BY DEF Send
<1>3. sent \in Seq(Lines) /\ Len(sent) \in Nat /\ read \in 0..Len(sent) /\ MaxLines \in Nat
  BY Lengths, McpAssumption, Zenon DEF IInv, TypeOK
<1>4. /\ Len(sent') = m /\ sent'[m] = line
      /\ \A k \in 1..Len(sent) : sent'[k] = sent[k]
  BY <1>1, <1>3, LongerLines, Appended
<1>5. \A k : k \in 1..m <=> k \in 1..Len(sent) \/ k = m
  BY <1>3
<1>6. asked' = asked \cup IF Answerable(line) THEN {m} ELSE {}
  <2> HIDE DEF m
  <2>1. asked' = {k \in 1..m : Answerable(sent'[k])}
    BY <1>4
  <2> QED
    BY <1>4, <1>5, <2>1
<1>7. \A n \in 0..Len(sent) : {k \in 1..n : Answerable(sent'[k])} = Owed(n)
  <2>1. \A n \in 0..Len(sent) : \A k \in 1..n : k \in 1..Len(sent)
    BY <1>3
  <2> QED
    BY <1>4, <2>1 DEF Owed
<1>8. Order'
  <2>1. Owed(read)' = Owed(read) /\ Answered' = Answered
    BY <1>2, <1>3, <1>7 DEF Answered, Owed
  <2>2. ASSUME pc \in {"handle", "call", "awaiting", "sweep"}
        PROVE  Line' = Line /\ Owed(read - 1)' = Owed(read - 1)
    <3>1. read \in 1..Len(sent) /\ read - 1 \in 0..Len(sent)
      BY <1>3, <2>2 DEF IInv, Place
    <3>2. Line' = Line
      BY <1>2, <1>4, <3>1 DEF Line
    <3> QED
      BY <1>2, <1>7, <3>1, <3>2 DEF Owed
  <2> QED
    BY <1>2, <2>1, <2>2 DEF Order, Answerable
<1>9. CASE Answerable(line)
  <2>1. m \in 1..MaxLines /\ \A n \in asked : n < m
    BY <1>2, <1>3
  <2>2. asked' = asked \cup {m}
    BY <1>6, <1>9
  <2>3. Contract!Ask(m) <=>
          /\ \A n \in asked : n < m
          /\ asked' = asked \cup {m}
          /\ UNCHANGED <<[j \in 1..Len(out) |-> out[j].to], pc # "ended">>
    BY DEF Contract!Ask
  <2>4. UNCHANGED <<[j \in 1..Len(out) |-> out[j].to], pc # "ended">>
    BY <1>2
  <2> HIDE DEF m, asked
  <2>5. Contract!Ask(m)
    BY <2>1, <2>2, <2>3, <2>4
  <2> QED
    BY <1>8, <2>1, <2>5 DEF Contract!Next
<1>10. CASE ~Answerable(line)
  <2>1. asked' = asked
    BY <1>6, <1>10
  <2>2. UNCHANGED <<[j \in 1..Len(out) |-> out[j].to], pc # "ended">>
    BY <1>2
  <2> QED
    BY <1>8, <2>1, <2>2 DEF Contract!vars
<1> QED
  BY <1>9, <1>10

\* The rest leaves lines and replies alone; it may end the server.
LEMMA OtherRpc ==
  ASSUME IInv, Order, ScanEOF \/ Serve \/ Close \/ Interrupt \/ Edited \/ Kill \/ UNCHANGED vars
  PROVE  Order' /\ [Contract!Next]_Contract!vars
<1>1. sent' = sent /\ out' = out /\ read' = read /\ (pc' = pc \/ pc' = "ended")
  BY DEF ScanEOF, Serve, Close, Interrupt, Edited, Kill, vars, client, Goto
<1>2. Order'
  BY <1>1, OrderKept
<1>3. CASE pc' = "ended"
  BY <1>1, <1>2, <1>3, Stops DEF Contract!Next
<1>4. CASE pc' = pc /\ pc' # "ended"
  BY <1>1, <1>2, <1>4, NoAnswer
<1> QED
  BY <1>1, <1>2, <1>3, <1>4

LEMMA RpcNext ==
  ASSUME IInv, Order, [Next]_vars
  PROVE  Order' /\ [Contract!Next]_Contract!vars
<1>1. IInv'
  BY IInvNext
<1>2. CASE Handle \/ Call \/ Receive \/ GiveUp \/ Sweep
  <2>1. sent' = sent /\ read' = read /\ pc \in {"handle", "call", "awaiting", "sweep"}
    BY <1>2 DEF Handle, Call, Receive, GiveUp, Sweep, client
  <2>2. \/ out' = out /\ pc' \in {"handle", "call", "awaiting", "sweep"}
        \/ \E kind, why, b : Say(kind, why, b)
    <3>1. CASE Handle
      <4>1. CASE CallTool
        BY <4>1 DEF CallTool, CallOn, Tell, Goto
      <4>2. CASE Tell("result") \/ Tell("rpcError")
        BY <4>2 DEF Tell
      <4> QED
        BY <3>1, <4>1, <4>2 DEF Handle
    <3>2. CASE Call
      BY <3>2 DEF Call, Goto
    <3>3. CASE Receive
      BY <3>3 DEF Receive, Tell, Goto
    <3>4. CASE GiveUp
      BY <3>4 DEF GiveUp, Tell
    <3>5. CASE Sweep
      BY <3>5 DEF Sweep
    <3> QED
      BY <1>2, <3>1, <3>2, <3>3, <3>4, <3>5
  <2> QED
    BY <1>1, <2>1, <2>2, InHandRpc
<1> QED
  BY <1>1, <1>2, ScanRpc, SendRpc, OtherRpc DEF Next, Work

\* The server keeps the contract: each message that calls for an answer is
\* answered once, in the order they were sent, and nothing else is, whatever the
\* client writes and whatever becomes of its calls.  (The safety part of
\* RpcSpec; that it goes on answering is left to the model checker.)
THEOREM ImplementsRpc == Spec => Contract!Init /\ [][Contract!Next]_Contract!vars
<1>1. Init => Order /\ Contract!Init
  BY RpcInit
<1>2. IInv /\ Order /\ [Next]_vars => Order' /\ [Contract!Next]_Contract!vars
  BY RpcNext
<1> QED
  BY Invariance, <1>1, <1>2, PTL DEF Spec

=============================================================================
