------------------------------ MODULE MCSweepAll ------------------------------
(* Two labels (so four targets), with one and two instructions.  The       *)
(* second request names a label twice, which the argument list allows.     *)
(* The wall-clock run has one label, requested once and twice.             *)
EXTENDS SweepAllProps

MCVerdicts == {"PASS", "FAIL"}
MCLabels == {"M", "A"}
MCRequests == {<<"M", "A">>, <<"A", "A">>}
MCInsns == [label \in MCLabels |-> IF label = "M" THEN 1 ELSE 2]

MCLiveLabels == {"A"}
MCLiveRequests == {<<"A">>, <<"A", "A">>}
MCLiveInsns == [label \in MCLiveLabels |-> 2]
=============================================================================
