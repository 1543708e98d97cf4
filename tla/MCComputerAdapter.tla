-------------------------- MODULE MCComputerAdapter --------------------------
(***************************************************************************)
(* A directory t with a frozen directory d; in that a file f, a missing    *)
(* entry n and an entry nz below n; outside a file g and a missing m.      *)
(***************************************************************************)
EXTENDS ComputerAdapter, TLC

CONSTANTS e1, e2, a1, a2, rec1, s1, s2, c1, c2, c3, w1, w2, t, d, f, n, nz, g, m, x, y

Paths == {t, d, f, n, nz, g, m}
Directories ==
  [p \in Paths |-> CASE p = d -> {t} [] p \in {f, n} -> {t, d} [] p = nz -> {t, d, n} [] OTHER -> {}]
Files0 == [p \in Paths |-> IF p \in {t, d} THEN "dir" ELSE IF p \in {f, g} THEN x ELSE "absent"]
=============================================================================
