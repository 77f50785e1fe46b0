---------------------------- MODULE MCVpnManager ----------------------------
(* Two jobs that need the tunnel, for TLC.                                  *)
EXTENDS VpnManager

CONSTANTS j1, j2
=============================================================================
