---------------------------- MODULE MCTcpScanner ----------------------------
(* Small instances of TcpScanner for TLC; the constants are in the cfgs.   *)
EXTENDS TcpProperties
=============================================================================
