----------------------------- MODULE MCRegression -----------------------------
(* One instruction with a result to compare and one without.               *)
EXTENDS RegressionProps

MCInsns == {"add", "fence"}
MCStem == [m \in MCInsns |-> m]
MCNoObservable == {"fence"}

MCScopes == {"current"}
MCTotal == [k \in MCScopes |-> 3000]
(* 74.0, 74.2 twice and 0 percent of 3000.                                 *)
MCCounts == {0, 2221, 2225, 2227}
=============================================================================
