------------------------------ MODULE Commands ------------------------------
(***************************************************************************)
(* bwg's commands that talk to KiwiVM, one record each: what the command   *)
(* reads before it asks for consent, what it may refuse on the way, and    *)
(* the one operation it then performs.                                     *)
(***************************************************************************)
EXTENDS KiwiOps, Sequences

\* A request made before the consent card.
\*   must     a failure ends the command; otherwise it costs a line on the card
\*   picks    its answer turns the user's reference into the one object it
\*            matches, and ends the command if it matches none or several
\*   refuses  its answer may show that the operation cannot work
\*   ctx      the context it runs under: the command's, which carries the
\*            deadline ("app"), or the process's, which does not ("process")
Look(ep) == [ep |-> ep, must |-> FALSE, picks |-> FALSE, refuses |-> FALSE, ctx |-> "app"]
Need(ep) == [Look(ep) EXCEPT !.must = TRUE]
Pick(ep) == [Need(ep) EXCEPT !.picks = TRUE]
Refusing(read) == [read EXCEPT !.refuses = TRUE]

\* A command.
\*   op      the operation it performs
\*   reads   the requests before the card, in order
\*   object  the card names an object of the operation beside the server
\*   gate    it refuses read-only mode at once (ClientForOp), not only later
\*   status  the guest command's exit status becomes bwg's (exec)
\*   stdin   it reads all of stdin before anything else (run, without a script)
\*   raw     its result is KiwiVM's answer as it is (api call)
Command(op, reads) ==
  [op |-> op, reads |-> reads, object |-> FALSE, gate |-> NotRead(op), status |-> FALSE,
   stdin |-> FALSE, raw |-> FALSE]

Naming(cmd) == [cmd EXCEPT !.object = TRUE]

\* identifyFacts: hostname, location and address for the card, if they are to be had.
Identify == Look("getServiceInfo")

\* findSnapshot: a reference resolved against the snapshots there are.
FindSnapshot == Pick("snapshot/list")

\* abuseFacts: it runs under the process's context, a failed look-up costs
\* only facts, and a case the API cannot resolve is refused.
AbuseFacts(ep) == Refusing([Look(ep) EXCEPT !.ctx = "process"])

----------------------------------------------------------------------------
(* Commands that change something *)

Power(verb)      == Command(verb, <<Identify>>)
SnapshotCreate   == Command("snapshot/create", <<>>)
SnapshotDelete   == Naming(Command("snapshot/delete", <<FindSnapshot>>))
SnapshotRestore  == Naming(Command("snapshot/restore", <<FindSnapshot, Identify>>))
SnapshotSticky   == Naming(Command("snapshot/toggleSticky", <<FindSnapshot>>))
SnapshotExport   == Naming(Command("snapshot/export", <<FindSnapshot>>))
SnapshotImport   == Naming(Command("snapshot/import", <<>>))
BackupRestore    == Naming(Command("backup/copyToSnapshot",
                                   <<[Look("backup/list") EXCEPT !.picks = TRUE]>>))
OSReinstall      == Naming(Command("reinstallOS",
                                   <<Pick("getAvailableOS"), Identify, Look("getSshKeys")>>))
KeysSet          == Command("updateSshKeys", <<>>)
Passwd           == Command("resetRootPassword", <<Identify>>)
Host             == Naming(Command("setHostname", <<Look("getServiceInfo")>>))
NetPTR           == Naming(Command("setPTR", <<Refusing(Need("getServiceInfo"))>>))
IPv6Add          == Command("ipv6/add", <<Refusing(Need("getServiceInfo"))>>)
IPv6Rm           == Naming(Command("ipv6/delete", <<>>))
PrivateAdd       == Naming(Command("privateIp/assign", <<>>))
PrivateRm        == Naming(Command("privateIp/delete", <<>>))
ISOMount         == Naming(Command("iso/mount", <<Refusing(Look("getServiceInfo"))>>))
ISOUnmount       == Command("iso/unmount", <<>>)
MigrateStart     == Naming(Command("migrate/start",
                                   <<Refusing(Need("migrate/getLocations")), Identify>>))
AbuseUnsuspend   == Naming(Command("unsuspend", <<AbuseFacts("getSuspensionDetails")>>))
AbuseResolve     == Naming(Command("resolvePolicyViolation", <<AbuseFacts("getPolicyViolations")>>))
NotifySet        == Command("kiwivm/setNotificationPreferences", <<>>)
Exec             == [Command("basicShell/exec", <<Identify>>) EXCEPT !.status = TRUE]
Run              == Command("shellScript/exec", <<Identify>>)
RunStdin         == [Run EXCEPT !.stdin = TRUE]

\* The escape hatch: any endpoint of the registry, gated by Confirm and by the
\* client, not by ClientForOp.
ApiCall(ep) == [Naming(Command(ep, <<>>)) EXCEPT !.gate = FALSE, !.raw = TRUE]

----------------------------------------------------------------------------
(* Commands that only look: the last request they cannot do without is the *)
(* operation (usage then adds the quota to its output if it can be had)    *)

Info         == Command("getServiceInfo", <<>>)
Status       == Command("getLiveServiceInfo", <<>>)
Usage        == Command("getRawUsageStats", <<>>)
Audit        == Command("getAuditLog", <<>>)
SnapshotLs   == Command("snapshot/list", <<>>)
BackupLs     == Command("backup/list", <<>>)
OSLs         == Command("getAvailableOS", <<>>)
KeysLs       == Command("getSshKeys", <<>>)
NetLs        == Command("getServiceInfo", <<>>)
PrivateLs    == Command("getServiceInfo", <<Need("privateIp/getAvailableIps")>>)
ISOLs        == Command("getServiceInfo", <<>>)
MigrateLs    == Command("migrate/getLocations", <<>>)
AbuseLs      == Command("getPolicyViolations", <<Need("getSuspensionDetails")>>)
NotifyLs     == Command("kiwivm/getNotificationPreferences", <<>>)
RateLimit    == Command("getRateLimitStatus", <<>>)

CommandTable ==
  {Power("start"), Power("stop"), Power("restart"), Power("kill"),
   SnapshotCreate, SnapshotDelete, SnapshotRestore, SnapshotSticky, SnapshotExport,
   SnapshotImport, BackupRestore, OSReinstall, KeysSet, Passwd, Host, NetPTR, IPv6Add, IPv6Rm,
   PrivateAdd, PrivateRm, ISOMount, ISOUnmount, MigrateStart, AbuseUnsuspend, AbuseResolve,
   NotifySet, Exec, Run, RunStdin, Info, Status, Usage, Audit, SnapshotLs, BackupLs, OSLs, KeysLs, NetLs,
   PrivateLs, ISOLs, MigrateLs, AbuseLs, NotifyLs, RateLimit}
  \cup {ApiCall(ep) : ep \in Endpoint}

=============================================================================
