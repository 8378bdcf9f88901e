---------------------------- MODULE ScanClientMC ----------------------------
(***************************************************************************)
(* An instance of ScanClient for TLC: a scan of two chunks, names of two   *)
(* bits and a clock that also reads beyond its width.                      *)
(***************************************************************************)
EXTENDS ScanClient

TwoChunks == <<"top", "bottom">>
Clock == {0, 2}
=============================================================================
