------------------------------ MODULE MCSessions ------------------------------
(***************************************************************************)
(* Model values for checking Sessions on a small instance.                 *)
(***************************************************************************)
EXTENDS Sessions

CONSTANTS t1, t2, t3, r1, n1, n2
===============================================================================
