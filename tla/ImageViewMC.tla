---------------------------- MODULE ImageViewMC ----------------------------
(***************************************************************************)
(* Instances of ImageView for TLC.                                         *)
(***************************************************************************)
EXTENDS ImageViewProps, TLC
=============================================================================
