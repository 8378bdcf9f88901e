-------------------------- MODULE ScannerServiceMC --------------------------
(***************************************************************************)
(* An instance of ScannerService for TLC: one client lists the scanners,   *)
(* two refresh the list, one scans.                                        *)
(***************************************************************************)
EXTENDS ScannerService, TLC

CONSTANTS get, scan, refresh1, refresh2, n1, n2

OneOfEach ==
  (get :> "GetScanners") @@ (scan :> "Scan") @@ (refresh1 :> "RefreshScanners")
    @@ (refresh2 :> "RefreshScanners")

FirstScanner == [h \in Handlers |-> n1]

SameRefreshes == Permutations({refresh1, refresh2})
=============================================================================
