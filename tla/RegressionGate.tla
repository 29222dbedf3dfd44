---------------------------- MODULE RegressionGate ----------------------------
(***************************************************************************)
(* python-isla/coverage_matrix.py and regression.py.  The result files of  *)
(* the sweeps, the generated tests, the oracle's corpus and the coverage   *)
(* trace are condensed into one status per instruction and one percentage  *)
(* per scope; `regression.py` compares them with an accepted baseline and  *)
(* `regression.py --update` accepts them as the next one.                  *)
(*                                                                         *)
(* What the gate is for depends on who updates it when.  `careful` holds   *)
(* of the histories in which every update but the one that creates the     *)
(* baseline came right after a check that printed "clean".                 *)
(***************************************************************************)
EXTENDS Integers, FiniteSets

CONSTANTS
    Insns,          \* mnemonics
    Stem,           \* Stem[m]: the file name of m's test, dots replaced
    NoObservable,   \* NO_OBSERVABLE_STATE
    Scopes,         \* the scope files coverage is measured for
    Total,          \* Total[k]: branches in the scope
    Counts,         \* the numbers of covered branches considered
    MaxEdits        \* bound on the changes between commands

ASSUME StemAssumption == Stem \in [Insns -> STRING]
ASSUME TotalAssumption == Total \in [Scopes -> Nat \ {0}]
ASSUME CountsAssumption == Counts \subseteq Nat
ASSUME MaxEditsAssumption == MaxEdits \in Nat
\* Counts half-way between two printed percentages, which Python rounds one way
\* or the other, are not considered.
ASSUME NoTieAssumption ==
    \A k \in Scopes, c \in Counts : (2000 * c + Total[k]) % (2 * Total[k]) # 0

Xlens == {32, 64}
Verdicts == {"NOENC", "SKIP", "FAIL", "PASS"}
Stems == {Stem[m] : m \in Insns}

VARIABLES
    results,    \* [Insns -> [Xlens -> verdict, or "none"]]: the result files
    tests,      \* [Stems -> "none", "asserts" or "empty"]: the .s files
    oracle,     \* mnemonics in the oracle's corpus
    covered,    \* branches in the trace per scope; a scope with no answer is out
    baseline,   \* what is in baseline.json
    answer,     \* what the last command printed
    edits,      \* changes so far
    author,     \* history: the instruction and XLEN whose test each .s file is
    asserted,   \* history: the PASSes, <<m, x>>, whose own test asserted something
    sure,       \* history: a check was clean and nothing has changed since
    careful,    \* history: see above
    bestRank,   \* history: the best rank accepted per instruction
    bestCovered \* history: the most covered branches accepted per scope

corpusVars == <<results, tests, oracle, covered>>
provenance == <<author, asserted>>
history == <<careful, bestRank, bestCovered>>
vars == <<corpusVars, baseline, answer, edits, provenance, sure, history>>

(* isla_status: the best verdict over the XLENs.                           *)
VerdictRank == [v \in Verdicts |->
    CASE v = "PASS" -> 3 [] v = "FAIL" -> 2 [] v = "SKIP" -> 1 [] v = "NOENC" -> 0]

Listed == {m \in Insns : \E x \in Xlens : results[m][x] # "none"}

BestIs(m, v) ==
    /\ \E x \in Xlens : results[m][x] = v
    /\ \A x \in Xlens : results[m][x] # "none" => VerdictRank[results[m][x]] <= VerdictRank[v]

(* The name of the file, not the mnemonic it was made from.                *)
Vacuous == {s \in Stems : tests[s] = "empty"}

IslaVerified(m) == BestIs(m, "PASS") /\ (m \notin Vacuous \/ m \in NoObservable)

(* Mutant of StatusOf: a pass is a pass.                                   *)
StatusOfPass(m) ==
    CASE BestIs(m, "PASS") -> "isla"
      [] m \in oracle -> "oracle"
      [] BestIs(m, "SKIP") -> "skip"
      [] OTHER -> "uncovered"

StatusOf(m) ==
    CASE IslaVerified(m) -> "isla"
      [] ~IslaVerified(m) /\ m \in oracle -> "oracle"
      [] ~IslaVerified(m) /\ m \notin oracle /\ BestIs(m, "PASS") -> "vacuous"
      [] m \notin oracle /\ BestIs(m, "SKIP") -> "skip"
      [] OTHER -> "uncovered"

RANK == [isla |-> 4, oracle |-> 4, stateless |-> 3, skip |-> 2, vacuous |-> 1,
         uncovered |-> 0]

(* Printed with one decimal, so in tenths of a point.                      *)
Pct(k, c) == (2000 * c + Total[k]) \div (2 * Total[k])

NoFile == [there |-> FALSE, whole |-> FALSE, status |-> <<>>, covered |-> <<>>]

(* Only what is really a mnemonic: "NOENC" alone makes no entry.           *)
CurrentState ==
    [there |-> TRUE, whole |-> TRUE, covered |-> covered,
     status |-> [m \in {n \in Listed : ~BestIs(n, "NOENC")} \cup oracle |-> StatusOf(m)]]

Init ==
    /\ results = [m \in Insns |-> [x \in Xlens |-> "none"]]
    /\ tests = [s \in Stems |-> "none"]
    /\ oracle = {}
    /\ covered = <<>>
    /\ baseline = NoFile
    /\ answer = "none"
    /\ edits = 0
    /\ author = [s \in Stems |-> <<>>]
    /\ asserted = {}
    /\ sure = FALSE
    /\ careful = TRUE
    /\ bestRank = <<>>
    /\ bestCovered = <<>>

Edited ==
    /\ edits < MaxEdits
    /\ edits' = edits + 1
    /\ answer' = "none"
    /\ sure' = FALSE
    /\ UNCHANGED <<baseline, history>>

(* A sweep comes to an instruction at one XLEN.  It writes the test unless *)
(* the instruction is skipped or its generation fails; there is one file   *)
(* for both XLENs.                                                         *)
Sweep(m, x) ==
    /\ Edited
    /\ \E v \in Verdicts :
          /\ results' = [results EXCEPT ![m][x] = v]
          /\ \/ v # "PASS" /\ UNCHANGED <<tests, author>> /\ asserted' = asserted \ {<<m, x>>}
             \/ /\ v \in {"PASS", "FAIL"}
                /\ \E t \in {"asserts", "empty"} :
                      /\ tests' = [tests EXCEPT ![Stem[m]] = t]
                      /\ asserted' = IF v = "PASS" /\ t = "asserts" THEN asserted \cup {<<m, x>>}
                                     ELSE asserted \ {<<m, x>>}
                /\ author' = [author EXCEPT ![Stem[m]] = <<m, x>>]
    /\ UNCHANGED <<oracle, covered>>

(* A result file written short, or by a sweep of a model without the       *)
(* instruction, no longer lists it.                                        *)
Unlist(m, x) ==
    /\ results[m][x] # "none"
    /\ Edited
    /\ results' = [results EXCEPT ![m][x] = "none"]
    /\ asserted' = asserted \ {<<m, x>>}
    /\ UNCHANGED <<tests, author, oracle, covered>>

ChangeOracle ==
    /\ Edited
    /\ oracle' \in SUBSET Insns
    /\ UNCHANGED <<results, tests, covered, provenance>>

(* A replay, or the loss of the trace: coverage_report.py has no answer.   *)
ChangeTrace ==
    /\ Edited
    /\ \E measured \in SUBSET Scopes : covered' \in [measured -> Counts]
    /\ UNCHANGED <<results, tests, oracle, provenance>>

Regressed(base, now) ==
    {m \in DOMAIN now.status \cap DOMAIN base.status :
        RANK[now.status[m]] < RANK[base.status[m]]}

(* Mutant of Removed: only what got worse is looked at.                    *)
RemovedIgnored(base, now) == {}

Removed(base, now) == DOMAIN base.status \ DOMAIN now.status

(* Mutant of CovDown: half a point, and a scope that was not measured is   *)
(* passed over as it is in the printed table.                              *)
CovDownLax(base, now) ==
    \E k \in DOMAIN base.covered \cap DOMAIN now.covered :
        Pct(k, now.covered[k]) < Pct(k, base.covered[k]) - 5

(* A drop of more than 0.05 points; a scope with no answer has 0 percent.  *)
CovDown(base, now) ==
    \E k \in DOMAIN base.covered :
        LET pct == IF k \in DOMAIN now.covered THEN Pct(k, now.covered[k]) ELSE 0
        IN  2 * pct < 2 * Pct(k, base.covered[k]) - 1

Failed(base, now) ==
    Regressed(base, now) # {} \/ Removed(base, now) # {} \/ CovDown(base, now)

(* Mutant of Check: "clean" is printed for a baseline that cannot be read. *)
CheckTrusts ==
    /\ baseline.there
    /\ LET good == ~baseline.whole \/ ~Failed(baseline, CurrentState)
       IN  /\ answer' = IF good THEN "clean" ELSE "REGRESSION"
           /\ sure' = good
    /\ UNCHANGED <<corpusVars, provenance, baseline, edits, history>>

Check ==
    /\ LET good == baseline.whole /\ ~Failed(baseline, CurrentState)
       IN  /\ answer' = CASE ~baseline.there -> "no baseline"
                          [] baseline.there /\ ~baseline.whole -> "unreadable"
                          [] baseline.whole -> IF good THEN "clean" ELSE "REGRESSION"
           /\ sure' = good
    /\ UNCHANGED <<corpusVars, provenance, baseline, edits, history>>

Better(old, new) ==
    [i \in DOMAIN old \cup DOMAIN new |->
        IF i \in DOMAIN old /\ (i \notin DOMAIN new \/ old[i] > new[i])
        THEN old[i] ELSE new[i]]

Update ==
    /\ baseline' = CurrentState
    /\ answer' = "updated"
    /\ careful' = (careful /\ (sure \/ ~baseline.there))
    /\ bestRank' = Better(bestRank, [m \in DOMAIN CurrentState.status |->
                                        RANK[CurrentState.status[m]]])
    /\ bestCovered' = Better(bestCovered, covered)
    /\ UNCHANGED <<corpusVars, provenance, edits, sure>>

(* The update dies after `open(baseline, "w")` and before the file is whole*)
UpdateDies ==
    /\ baseline' = [NoFile EXCEPT !.there = TRUE]
    /\ answer' = "none"
    /\ sure' = FALSE
    /\ careful' = (careful /\ (sure \/ ~baseline.there))
    /\ UNCHANGED <<corpusVars, provenance, edits, bestRank, bestCovered>>

Next ==
    \/ \E m \in Insns, x \in Xlens : Sweep(m, x) \/ Unlist(m, x)
    \/ ChangeOracle
    \/ ChangeTrace
    \/ Check
    \/ Update
    \/ UpdateDies

Spec == Init /\ [][Next]_vars
=============================================================================
