---------------------------- MODULE MCOperations -----------------------------
(***************************************************************************)
(* Instances of Operations for TLC: one tunnel; three generations, two of  *)
(* them built for another policy than the first.                           *)
(***************************************************************************)
EXTENDS Operations, TLC

CONSTANTS a, b, c

OneTunnel == <<"tunnel">>
PolicyOfGen(g) == IF g = a THEN "old" ELSE "new"
=============================================================================
