----------------------------- MODULE MCMcpProxy -----------------------------
(***************************************************************************)
(* Instances of McpProxy for TLC.                                          *)
(***************************************************************************)
EXTENDS McpProxy, TLC

CONSTANTS c1, c2, t1, t2

\* The catalogue takes two pages.
Pages == (t1 :> 1) @@ (t2 :> 2)

=============================================================================
