--------------------------- MODULE MCConsoleViews ---------------------------
EXTENDS ConsoleViews, TLC
CONSTANTS r1, r2, r3, one, two
MCListed == (one :> {r1, r2}) @@ (two :> {r3})
MCCalls == [p \in Page |-> CASE p \in {"IncidentDetail", "BackupRecovery"} -> 6 [] p \in {"AlertList", "UserManagement", "AccessWizard"} -> 3 [] OTHER -> 4]
MCOutside == [p \in Page |-> IF p \in {"AlertList", "DownloadRecords"} THEN 1 ELSE 0]
=============================================================================
