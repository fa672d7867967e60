----------------------------- MODULE MCSrpHost ------------------------------
(* An instance of SrpHost for TLC: two ports and three writes; up to the   *)
(* names of the writes, these are the ways in which they can collide.      *)
EXTENDS SrpHost, TLC

CONSTANTS t1, t2, t3, i1, i2

Login(a, b, c) == (t1 :> a) @@ (t2 :> b) @@ (t3 :> c)

MCLogins ==
  {Login(<<1, i1>>, <<1, i1>>, <<1, i1>>), Login(<<1, i1>>, <<1, i1>>, <<1, i2>>),
   Login(<<1, i1>>, <<1, i1>>, <<2, i1>>), Login(<<1, i1>>, <<2, i1>>, <<2, i2>>)}
==============================================================================
