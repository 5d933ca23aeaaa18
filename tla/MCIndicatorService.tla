------------------------- MODULE MCIndicatorService -------------------------
(***************************************************************************)
(* An instance of IndicatorService for TLC: two managers in two processes. *)
(***************************************************************************)
EXTENDS IndicatorService, TLC

CONSTANTS m1, m2, n1, n2

MCManagers == {m1, m2}
MCNames    == {n1, n2}

\* Every manager in a process of its own.
OneProcessEach == m1 :> n1 @@ m2 :> n2
=============================================================================
