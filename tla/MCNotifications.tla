--------------------------- MODULE MCNotifications ---------------------------
(***************************************************************************)
(* Notifications with the kinds of rules the engine has: TLS expiry fires  *)
(* at once and changes severity, HTTP failures are counted, CPU use must   *)
(* last.                                                                   *)
(***************************************************************************)
EXTENDS Notifications

Tls == [for |-> 0, consecutive |-> 0, severities |-> {"warning", "critical"}]
Http == [for |-> 0, consecutive |-> 3, severities |-> {"critical"}]
Cpu == [for |-> 1, consecutive |-> 0, severities |-> {"critical"}]
Disk == [for |-> 0, consecutive |-> 0, severities |-> {"warning"}]

AllRules == {Tls, Http, Cpu}
TlsOnly == {Tls}
DiskOnly == {Disk}

Everything == [enabled |-> TRUE, warnings |-> TRUE, recovery |-> TRUE]
NoRecovery == [enabled |-> TRUE, warnings |-> TRUE, recovery |-> FALSE]
CriticalOnly == [enabled |-> TRUE, warnings |-> FALSE, recovery |-> TRUE]
Nothing == [enabled |-> FALSE, warnings |-> FALSE, recovery |-> FALSE]

AllPreferences == {Everything, NoRecovery, CriticalOnly, Nothing}
TwoPreferences == {Everything, CriticalOnly}
AllFaults == {"mail", "store", "restart"}
NothingOrAllFails == {{}, AllFaults}

FullPreferences == {Everything}
RecoveryMuted == {NoRecovery}
=============================================================================
