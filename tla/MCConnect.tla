----------------------------- MODULE MCConnect -----------------------------
(* Connect on small instances: a remote that moves between two addresses,  *)
(* and a second remote.                                                    *)
EXTENDS Connect, TLC

MCPlans == {[ref |-> "gw", addr |-> 1], [ref |-> "gw", addr |-> 2],
            [ref |-> "db", addr |-> 3]}
MCAsked == {[ref |-> "gw", addr |-> 1], [ref |-> "db", addr |-> 3]}
MCOnePlan == {[ref |-> "gw", addr |-> 1]}
Symmetry == Permutations(Commands)
=============================================================================
