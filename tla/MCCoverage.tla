------------------------------ MODULE MCCoverage ------------------------------
(* Three ELFs, one of them RV32; "b" reaches nothing that "a" does not, and *)
(* one span each is outside the scope and outside the manifest.            *)
EXTENDS CoverageProps

MCElfs == {"a", "b", "c"}
MCWidth == [e \in MCElfs |-> IF e = "c" THEN 32 ELSE 64]
MCReach == [e \in MCElfs |-> CASE e = "a" -> {"boot", "pmp", "vmem"}
                               [] e = "b" -> {"boot", "pmp"}
                               [] e = "c" -> {"boot", "rv32", "library"}]
MCViews == {{"boot", "pmp", "vmem", "rv32", "trap"}, {"pmp", "trap"}}
=============================================================================
