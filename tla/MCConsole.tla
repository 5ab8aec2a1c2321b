------------------------------ MODULE MCConsole ------------------------------
(* The console with one endpoint of the tenant and the two backends.        *)
EXTENDS Console

CONSTANTS t1, t2, node, go, e1
=============================================================================
