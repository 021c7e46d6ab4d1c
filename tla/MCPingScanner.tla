---------------------------- MODULE MCPingScanner ----------------------------
(* Small instances of PingScanner for TLC; the constants are in the cfgs.  *)
EXTENDS PingProperties
=============================================================================
