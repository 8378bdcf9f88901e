-------------------------- MODULE ServerShutdownMC --------------------------
(***************************************************************************)
(* An instance of ServerShutdown for TLC: two SIGINTs beside the command   *)
(* "stop", a scan, a daemon that fails once, a name taken on the host.     *)
(***************************************************************************)
EXTENDS ServerShutdown

CONSTANTS serverctl, netcat
=============================================================================
