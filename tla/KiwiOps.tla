------------------------------ MODULE KiwiOps ------------------------------
(***************************************************************************)
(* The registry of KiwiVM endpoints, with the risk class every gate reads  *)
(* from it, and the policy on which of them ask for a typed name.          *)
(***************************************************************************)

ReadOps ==
  {"getServiceInfo", "getLiveServiceInfo", "getRateLimitStatus", "getAvailableOS", "getSshKeys",
   "getUsageGraphs", "getRawUsageStats", "getAuditLog", "basicShell/cd", "snapshot/list",
   "backup/list", "privateIp/getAvailableIps", "migrate/getLocations", "getSuspensionDetails",
   "getPolicyViolations", "kiwivm/getNotificationPreferences"}

WriteOps ==
  {"start", "stop", "restart", "updateSshKeys", "setHostname", "setPTR", "snapshot/create",
   "snapshot/toggleSticky", "snapshot/export", "snapshot/import", "backup/copyToSnapshot",
   "ipv6/add", "privateIp/assign", "privateIp/delete", "kiwivm/setNotificationPreferences"}

DestructiveOps ==
  {"kill", "reinstallOS", "resetRootPassword", "iso/mount", "iso/unmount", "basicShell/exec",
   "shellScript/exec", "snapshot/delete", "snapshot/restore", "ipv6/delete", "migrate/start",
   "cloneFromExternalServer", "unsuspend", "resolvePolicyViolation"}

Endpoint == ReadOps \cup WriteOps \cup DestructiveOps

\* op.Risk > RiskRead: the test of every read-only gate and of Confirm.
\* (Mutant: the test is against the next class up.)
NotReadDestructive(op) == op \in DestructiveOps

NotRead(op) == op \notin ReadOps

\* The operations that replace or erase a whole VPS: a typed name, not y/N.
Catastrophic(op) ==
  op \in {"reinstallOS", "snapshot/restore", "migrate/start", "cloneFromExternalServer"}

\* What KiwiVM does with a request, whatever bwg calls it: it only looks, or it
\* changes something on the VPS, on the network around it or on the account.
Looks(op) ==
  \/ op \in {"getServiceInfo", "getLiveServiceInfo", "getRateLimitStatus", "getAvailableOS",
             "getSshKeys", "getUsageGraphs", "getRawUsageStats", "getAuditLog",
             "getSuspensionDetails", "getPolicyViolations"}
  \/ op \in {"snapshot/list", "backup/list", "privateIp/getAvailableIps",
             "migrate/getLocations", "kiwivm/getNotificationPreferences", "basicShell/cd"}

=============================================================================
