---------------------------- MODULE RegressionProps ----------------------------
(***************************************************************************)
(* What the regression gate promises, over RegressionGate.                 *)
(***************************************************************************)
EXTENDS RegressionGate

Statuses == {"isla", "oracle", "vacuous", "skip", "uncovered"}

TypeOK ==
    /\ results \in [Insns -> [Xlens -> Verdicts \cup {"none"}]]
    /\ tests \in [Stems -> {"none", "asserts", "empty"}]
    /\ oracle \subseteq Insns
    /\ DOMAIN covered \subseteq Scopes /\ covered \in [DOMAIN covered -> Counts]
    /\ baseline.there \in BOOLEAN /\ baseline.whole \in BOOLEAN
    /\ baseline.whole => baseline.there
    /\ DOMAIN baseline.status \subseteq Insns
    /\ baseline.status \in [DOMAIN baseline.status -> Statuses]
    /\ DOMAIN baseline.covered \subseteq Scopes
    /\ baseline.covered \in [DOMAIN baseline.covered -> Counts]
    /\ answer \in {"none", "no baseline", "unreadable", "clean", "REGRESSION",
                   "updated"}
    /\ edits \in 0 .. MaxEdits
    /\ author \in [Stems -> (Insns \X Xlens) \cup {<<>>}]
    /\ asserted \in SUBSET (Insns \X Xlens)
    /\ sure \in BOOLEAN
    /\ sure => baseline.whole
    /\ careful \in BOOLEAN
    /\ DOMAIN bestRank \subseteq Insns /\ bestRank \in [DOMAIN bestRank -> 0 .. 4]
    /\ DOMAIN bestCovered \subseteq Scopes
    /\ bestCovered \in [DOMAIN bestCovered -> Counts]

(* "re-baseline only after reading the diff": with careful updates no      *)
(* instruction ever drops out of the baseline or below the best rank it    *)
(* had there, over any number of sweeps, checks and updates.               *)
BaselineRatchets ==
    careful /\ baseline.whole =>
        \A m \in DOMAIN bestRank :
            /\ m \in DOMAIN baseline.status
            /\ RANK[baseline.status[m]] >= bestRank[m]

(* Percentages are compared as printed, so a drop too small to print is    *)
(* clean.  Such drops do not add up: with careful updates the baseline has *)
(* always less than a tenth of a point under the best it ever had, and a   *)
(* scope that was measured stays measured.  (A scope with no answer counts *)
(* as 0 percent, so one whose best is 0.0 percent may drop out.)           *)
LossIsBounded ==
    careful /\ baseline.whole =>
        \A k \in DOMAIN bestCovered :
            Pct(k, bestCovered[k]) > 0 =>
            /\ k \in DOMAIN baseline.covered
            /\ 1000 * (bestCovered[k] - baseline.covered[k]) < Total[k]

(* The verdicts of an instruction are joined with the one file that the    *)
(* tests of both XLENs go to: they belong together if that file is the     *)
(* test of a PASS that still stands.                                       *)
Passing(m) == {<<m, x>> : x \in {y \in Xlens : results[m][y] = "PASS"}}
Joined(m) == author[Stem[m]] \notin Passing(m)

(* "verified -> vacuous is" a regression: after a clean check, and as long *)
(* as nothing changes, every instruction that the baseline has as verified *)
(* has an oracle test, or has passed a test that itself asserted           *)
(* something: it is the test of the PASS that counts, not the one that is  *)
(* there now.  The exceptions are the mnemonics whose test has another     *)
(* name, and those whose file is the test of another verdict than a        *)
(* standing PASS (PassesHaveAsserted).                                     *)
CleanMeansVerified ==
    sure =>
        \A m \in DOMAIN baseline.status \ NoObservable :
            baseline.status[m] \in {"isla", "oracle"} /\ Stem[m] = m /\ ~Joined(m) =>
                m \in oracle \/ Passing(m) \cap asserted # {}

(* coverage_matrix.py:24, a claim the program does not keep: "an isla PASS *)
(* is only counted as verified if the generated test asserts something".   *)
(* A PASS of an empty test at one XLEN counts once a sweep that fails at   *)
(* the other has left a test there that asserts; and, where the name of    *)
(* the file is not the mnemonic, whatever its test was.                    *)
PassesHaveAsserted ==
    \A m \in DOMAIN CurrentState.status \ NoObservable :
        CurrentState.status[m] = "isla" => Passing(m) \cap asserted # {}
=============================================================================
