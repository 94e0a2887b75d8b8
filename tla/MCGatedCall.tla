------------------------------ MODULE MCGatedCall ------------------------------
(***************************************************************************)
(* Calls for TLC: a and b are one call made twice, under two ids; c comes  *)
(* under a's id, as a policy handle that reuses ids would send it.         *)
(***************************************************************************)
EXTENDS GatedCall

CONSTANTS a, b, c, i1, i2, h1, h2

MCIdOf == [call \in Call |-> IF call = b THEN i2 ELSE i1]
MCHashOf == [call \in Call |-> IF call = c THEN h2 ELSE h1]
================================================================================
