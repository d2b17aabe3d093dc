----------------------------- MODULE MCSession -----------------------------
(* Session on small instances.  The backoff doubles from one tick to a cap *)
(* of two, so that the cap is reached inside a window of a few ticks.      *)
EXTENDS Session

MCBackoff == [n \in 1..MaxAttempts |-> IF n = 1 THEN 1 ELSE 2]
=============================================================================
