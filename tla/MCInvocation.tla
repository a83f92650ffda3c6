---------------------------- MODULE MCInvocation ----------------------------
(* Small instances of Invocation for TLC. *)
EXTENDS Invocation

\* One command of each shape: what it reads and may refuse, how it asks, how
\* it reports, and each risk class through the escape hatch.
ShapeCommands ==
  {Power("stop"), SnapshotDelete, SnapshotRestore, OSReinstall, BackupRestore, IPv6Add,
   ISOMount, AbuseUnsuspend, Exec, PrivateLs, ApiCall("basicShell/exec"), ApiCall("getAuditLog"),
   ApiCall("cloneFromExternalServer")}

=============================================================================
