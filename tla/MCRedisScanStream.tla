------------------------- MODULE MCRedisScanStream -------------------------
(* Small instances of RedisScanStream for TLC.                             *)
EXTENDS RedisScanStream

CONSTANTS o1, o2, o3, q1, f1, f2
=============================================================================
