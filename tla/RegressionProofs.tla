--------------------------- MODULE RegressionProofs ---------------------------
(***************************************************************************)
(* Theorems about the regression gate, for any instructions, file names,   *)
(* scopes and counts, and any number of changes: careful updates never     *)
(* lose an instruction or more than a tenth of a point, and a clean check  *)
(* means that what the baseline has as verified still is.                  *)
(***************************************************************************)
EXTENDS RegressionProps, TLAPS

(* There is no history before the first update.                            *)
NoFileNoHistory ==
    ~baseline.there => bestRank = <<>> /\ bestCovered = <<>>

(* What is sure is that a check would still be clean.                      *)
SureIsClean == sure => baseline.whole /\ ~Failed(baseline, CurrentState)

(* The percentages, rather than the counts, are what never falls.          *)
PctRatchets ==
    careful /\ baseline.whole =>
        \A k \in DOMAIN bestCovered :
            Pct(k, bestCovered[k]) > 0 =>
            /\ k \in DOMAIN baseline.covered
            /\ Pct(k, baseline.covered[k]) >= Pct(k, bestCovered[k])

(* An instruction that passed has a test on disk.                          *)
PassHasTest ==
    \A m \in Insns, x \in Xlens : results[m][x] = "PASS" => tests[Stem[m]] # "none"

(* A file that asserts is the test of a PASS only if that PASS asserted.   *)
FilesAreAuthors ==
    \A m \in Insns, x \in Xlens :
        results[m][x] = "PASS" /\ author[Stem[m]] = <<m, x>> /\ tests[Stem[m]] = "asserts"
            => <<m, x>> \in asserted

IInv ==
    /\ TypeOK
    /\ NoFileNoHistory
    /\ SureIsClean
    /\ BaselineRatchets
    /\ PctRatchets
    /\ PassHasTest
    /\ FilesAreAuthors

(***************************************************************************)
(* The operators.                                                          *)
(***************************************************************************)

LEMMA DivBounds ==
    ASSUME NEW a \in Nat, NEW d \in Nat, d > 0
    PROVE  a \div d \in Nat /\ d * (a \div d) <= a /\ a < d * (a \div d) + d
OBVIOUS

LEMMA PctBounds ==
    ASSUME NEW k \in Scopes, NEW c \in Nat
    PROVE  /\ Pct(k, c) \in Nat
           /\ (2 * Total[k]) * Pct(k, c) <= 2000 * c + Total[k]
           /\ 2000 * c + Total[k] < (2 * Total[k]) * Pct(k, c) + 2 * Total[k]
<1> DEFINE n == 2000 * c + Total[k]  d == 2 * Total[k]
<1>1. Total[k] \in Nat /\ Total[k] > 0
  BY TotalAssumption
<1>2. n \in Nat /\ d \in Nat /\ d > 0
  BY <1>1
<1> HIDE DEF n, d
<1>3. n \div d \in Nat /\ d * (n \div d) <= n /\ n < d * (n \div d) + d
  BY <1>2, DivBounds
<1> QED
  BY <1>3 DEF Pct, n, d

(* Counts that print alike, or the wrong way round, are close together.    *)
LEMMA PctGap ==
    ASSUME NEW k \in Scopes, NEW a \in Nat, NEW b \in Nat, Pct(k, a) <= Pct(k, b)
    PROVE  1000 * (a - b) < Total[k]
<1> DEFINE T == Total[k]  p == Pct(k, a)  q == Pct(k, b)
<1>1. T \in Nat /\ T > 0
  BY TotalAssumption
<1>2. p \in Nat /\ 2000 * a + T < (2 * T) * p + 2 * T
  BY PctBounds
<1>3. q \in Nat /\ (2 * T) * q <= 2000 * b + T
  BY PctBounds
<1>4. p <= q
  OBVIOUS
<1> HIDE DEF T, p, q
<1>5. (2 * T) * p <= (2 * T) * q
  BY <1>1, <1>2, <1>3, <1>4
<1>6. (2 * T) * p \in Int /\ (2 * T) * q \in Int
  BY <1>1, <1>2, <1>3
<1>7. 2000 * (a - b) < 2 * T
  BY <1>1, <1>2, <1>3, <1>5, <1>6
<1>8. 1000 * (a - b) < T
  BY <1>1, <1>7
<1> QED
  BY <1>8 DEF T

LEMMA RankIsNat == \A s \in Statuses : RANK[s] \in 0 .. 4
BY DEF Statuses, RANK

LEMMA FourIsVerified == \A s \in Statuses : RANK[s] >= 4 <=> s \in {"isla", "oracle"}
BY DEF Statuses, RANK

LEMMA StatusFacts ==
    ASSUME NEW m
    PROVE  /\ StatusOf(m) \in Statuses
           /\ StatusOf(m) = "isla" => IslaVerified(m)
           /\ StatusOf(m) = "oracle" => m \in oracle
BY DEF StatusOf, Statuses

(* Between updates only the corpus changes, and then nothing is sure.      *)
LEMMA EditStep ==
    ASSUME IInv, TypeOK', PassHasTest', FilesAreAuthors', UNCHANGED <<baseline, history>>, ~sure'
    PROVE  IInv'
BY DEF IInv, NoFileNoHistory, SureIsClean, BaselineRatchets, PctRatchets, history

LEMMA InitIInv == Init => IInv
<1> SUFFICES ASSUME Init PROVE IInv
  OBVIOUS
<1> USE DEF Init, NoFile
<1>1. /\ results \in [Insns -> [Xlens -> Verdicts \cup {"none"}]]
      /\ tests \in [Stems -> {"none", "asserts", "empty"}]
      /\ oracle \subseteq Insns
      /\ \A m \in Insns, x \in Xlens : results[m][x] = "none"
  OBVIOUS
<1>7. author \in [Stems -> (Insns \X Xlens) \cup {<<>>}] /\ asserted \in SUBSET (Insns \X Xlens)
  OBVIOUS
<1>2. DOMAIN covered = {} /\ covered \in [DOMAIN covered -> Counts]
  OBVIOUS
<1>3. /\ baseline.there = FALSE /\ baseline.whole = FALSE
      /\ baseline.status = <<>> /\ baseline.covered = <<>>
      /\ baseline.status \in [{} -> Statuses] /\ baseline.covered \in [{} -> Counts]
  OBVIOUS
<1>4. bestRank \in [{} -> 0 .. 4] /\ bestCovered \in [{} -> Counts]
  OBVIOUS
<1>5. edits \in 0 .. MaxEdits
  BY MaxEditsAssumption
<1>6. TypeOK
  BY <1>1, <1>2, <1>3, <1>4, <1>5, <1>7 DEF TypeOK
<1> QED
  BY <1>1, <1>3, <1>6 DEF IInv, NoFileNoHistory, SureIsClean, BaselineRatchets,
     PctRatchets, PassHasTest, FilesAreAuthors

LEMMA EditIsCounted == TypeOK /\ Edited => edits' \in 0 .. MaxEdits
<1> SUFFICES ASSUME TypeOK, Edited PROVE edits' \in 0 .. MaxEdits
  OBVIOUS
<1>1. edits \in 0 .. MaxEdits
  BY DEF TypeOK
<1>2. edits < MaxEdits /\ edits' = edits + 1
  BY DEF Edited
<1> QED
  BY <1>1, <1>2, MaxEditsAssumption

LEMMA SweepStep ==
    ASSUME IInv, NEW m \in Insns, NEW x \in Xlens, Sweep(m, x)
    PROVE  IInv'
<1> DEFINE Writes(v, t) ==
      /\ tests' = [tests EXCEPT ![Stem[m]] = t]
      /\ author' = [author EXCEPT ![Stem[m]] = <<m, x>>]
      /\ asserted' = IF v = "PASS" /\ t = "asserts" THEN asserted \cup {<<m, x>>}
                     ELSE asserted \ {<<m, x>>}
<1> USE DEF Sweep, Edited
<1>1. PICK v \in Verdicts :
          /\ results' = [results EXCEPT ![m][x] = v]
          /\ \/ /\ v # "PASS" /\ tests' = tests /\ author' = author
                /\ asserted' = asserted \ {<<m, x>>}
             \/ \E t \in {"asserts", "empty"} : Writes(v, t)
  OBVIOUS
<1>2. UNCHANGED <<baseline, history, oracle, covered>> /\ ~sure' /\ sure' \in BOOLEAN
      /\ edits' = edits + 1 /\ edits < MaxEdits /\ answer' = "none"
  OBVIOUS
<1> HIDE DEF Sweep, Edited
<1>8. Edited
  BY DEF Sweep
<1>3. results' \in [Insns -> [Xlens -> Verdicts \cup {"none"}]]
  BY <1>1 DEF IInv, TypeOK
<1>4. tests' \in [Stems -> {"none", "asserts", "empty"}]
  BY <1>1 DEF IInv, TypeOK
<1>5. edits' \in 0 .. MaxEdits
  BY <1>8, EditIsCounted DEF IInv
<1>10. /\ author' \in [Stems -> (Insns \X Xlens) \cup {<<>>}]
       /\ asserted' \in SUBSET (Insns \X Xlens)
  <2>1. author \in [Stems -> (Insns \X Xlens) \cup {<<>>}] /\ asserted \in SUBSET (Insns \X Xlens)
    BY DEF IInv, TypeOK
  <2>2. <<m, x>> \in Insns \X Xlens
    OBVIOUS
  <2>3. author' = author \/ author' = [author EXCEPT ![Stem[m]] = <<m, x>>]
    BY <1>1
  <2>4. asserted' \subseteq asserted \cup {<<m, x>>}
    BY <1>1
  <2>5. author' \in [Stems -> (Insns \X Xlens) \cup {<<>>}]
    <3> HIDE DEF Xlens
    <3> QED
      BY <2>1, <2>2, <2>3
  <2> QED
    BY <2>1, <2>2, <2>4, <2>5
<1>6. TypeOK'
  BY <1>2, <1>3, <1>4, <1>5, <1>10 DEF IInv, TypeOK, history
<1>7. PassHasTest'
  <2> SUFFICES ASSUME NEW n \in Insns, NEW y \in Xlens, results'[n][y] = "PASS"
               PROVE  tests'[Stem[n]] # "none"
    BY DEF PassHasTest
  <2>1. Stem[n] \in Stems /\ Stem[m] \in Stems
    BY DEF Stems
  <2>2. CASE v # "PASS" /\ tests' = tests
    <3>1. results[n][y] = "PASS"
      BY <1>1, <2>2 DEF IInv, TypeOK
    <3> QED
      BY <2>2, <3>1 DEF IInv, PassHasTest
  <2>3. CASE \E t \in {"asserts", "empty"} : tests' = [tests EXCEPT ![Stem[m]] = t]
    <3>1. CASE Stem[n] = Stem[m]
      BY <2>1, <2>3, <3>1 DEF IInv, TypeOK
    <3>2. CASE Stem[n] # Stem[m]
      <4>1. results[n][y] = "PASS"
        BY <1>1, <3>2 DEF IInv, TypeOK
      <4>2. tests'[Stem[n]] = tests[Stem[n]]
        BY <2>1, <2>3, <3>2 DEF IInv, TypeOK
      <4> QED
        BY <4>1, <4>2 DEF IInv, PassHasTest
    <3> QED
      BY <3>1, <3>2
  <2> QED
    BY <1>1, <2>2, <2>3
<1>9. FilesAreAuthors'
  <2> SUFFICES ASSUME NEW n \in Insns, NEW y \in Xlens, results'[n][y] = "PASS",
                      author'[Stem[n]] = <<n, y>>, tests'[Stem[n]] = "asserts"
               PROVE  <<n, y>> \in asserted'
    BY DEF FilesAreAuthors
  <2>1. Stem[n] \in Stems /\ Stem[m] \in Stems
    BY DEF Stems
  <2>2. CASE n = m /\ y = x
    <3>1. v = "PASS"
      BY <1>1, <2>2 DEF IInv, TypeOK
    <3>2. PICK t \in {"asserts", "empty"} : Writes(v, t)
      BY <1>1, <3>1
    <3>3. t = "asserts"
      BY <2>1, <2>2, <3>2 DEF IInv, TypeOK
    <3> QED
      BY <2>2, <3>1, <3>2, <3>3
  <2>3. CASE ~(n = m /\ y = x)
    <3>1. results[n][y] = "PASS"
      BY <1>1, <2>3 DEF IInv, TypeOK
    <3>2. author[Stem[n]] = <<n, y>> /\ tests[Stem[n]] = "asserts"
      <4>1. CASE \E t \in {"asserts", "empty"} : Writes(v, t)
        <5>1. PICK t \in {"asserts", "empty"} : Writes(v, t)
          BY <4>1
        <5>2. Stem[n] # Stem[m]
          BY <2>1, <2>3, <5>1 DEF IInv, TypeOK
        <5> QED
          BY <2>1, <5>1, <5>2 DEF IInv, TypeOK
      <4> QED
        BY <1>1, <4>1
    <3>3. <<n, y>> \in asserted
      BY <3>1, <3>2 DEF IInv, FilesAreAuthors
    <3>4. <<n, y>> # <<m, x>>
      BY <2>3
    <3> QED
      BY <1>1, <3>3, <3>4
  <2> QED
    BY <2>2, <2>3
<1> QED
  BY <1>2, <1>6, <1>7, <1>9, EditStep

LEMMA UnlistStep ==
    ASSUME IInv, NEW m \in Insns, NEW x \in Xlens, Unlist(m, x)
    PROVE  IInv'
<1> USE DEF Unlist, Edited
<1>1. results' \in [Insns -> [Xlens -> Verdicts \cup {"none"}]]
  BY DEF IInv, TypeOK
<1>2. edits' \in 0 .. MaxEdits
  BY EditIsCounted DEF IInv
<1>3. TypeOK'
  BY <1>1, <1>2 DEF IInv, TypeOK, history
<1>4. PassHasTest'
  BY DEF IInv, TypeOK, PassHasTest
<1>5. FilesAreAuthors'
  BY DEF IInv, TypeOK, FilesAreAuthors
<1> QED
  BY <1>3, <1>4, <1>5, EditStep

LEMMA ChangeOracleStep == IInv /\ ChangeOracle => IInv'
<1> SUFFICES ASSUME IInv, ChangeOracle PROVE IInv'
  OBVIOUS
<1> USE DEF ChangeOracle, Edited
<1>1. edits' \in 0 .. MaxEdits
  BY EditIsCounted DEF IInv
<1>2. TypeOK'
  BY <1>1 DEF IInv, TypeOK, provenance, history
<1>3. PassHasTest' /\ FilesAreAuthors'
  BY DEF IInv, PassHasTest, FilesAreAuthors, provenance
<1> QED
  BY <1>2, <1>3, EditStep

LEMMA ChangeTraceStep == IInv /\ ChangeTrace => IInv'
<1> SUFFICES ASSUME IInv, ChangeTrace PROVE IInv'
  OBVIOUS
<1> USE DEF ChangeTrace, Edited
<1>1. edits' \in 0 .. MaxEdits
  BY EditIsCounted DEF IInv
<1>2. DOMAIN covered' \subseteq Scopes /\ covered' \in [DOMAIN covered' -> Counts]
  OBVIOUS
<1>3. TypeOK'
  BY <1>1, <1>2 DEF IInv, TypeOK, provenance, history
<1>4. PassHasTest' /\ FilesAreAuthors'
  BY DEF IInv, PassHasTest, FilesAreAuthors, provenance
<1> QED
  BY <1>3, <1>4, EditStep

LEMMA CheckStep == IInv /\ Check => IInv'
<1> SUFFICES ASSUME IInv, Check PROVE IInv'
  OBVIOUS
<1>1. /\ UNCHANGED <<corpusVars, provenance, baseline, edits, history>>
      /\ sure' = (baseline.whole /\ ~Failed(baseline, CurrentState))
  BY DEF Check
<1>2. answer' \in {"no baseline", "unreadable", "clean", "REGRESSION"}
  BY DEF Check, IInv, TypeOK
<1>3. CurrentState' = CurrentState
  BY <1>1 DEF corpusVars, CurrentState, Listed, BestIs, StatusOf, IslaVerified, Vacuous
<1>4. TypeOK'
  BY <1>1, <1>2 DEF IInv, TypeOK, corpusVars, provenance, history
<1>5. SureIsClean'
  BY <1>1, <1>3 DEF SureIsClean, Failed, Regressed, Removed, CovDown
<1> QED
  BY <1>1, <1>4, <1>5 DEF IInv, NoFileNoHistory, BaselineRatchets, PctRatchets,
     PassHasTest, FilesAreAuthors, provenance, corpusVars, history

LEMMA CurrentStateType ==
    ASSUME TypeOK
    PROVE  /\ CurrentState.there = TRUE /\ CurrentState.whole = TRUE
           /\ CurrentState.covered = covered
           /\ DOMAIN CurrentState.status \subseteq Insns
           /\ CurrentState.status \in [DOMAIN CurrentState.status -> Statuses]
           /\ \A m \in DOMAIN CurrentState.status :
                 CurrentState.status[m] = StatusOf(m)
<1> DEFINE S == {n \in Listed : ~BestIs(n, "NOENC")} \cup oracle
<1>1. CurrentState.status = [m \in S |-> StatusOf(m)]
  BY DEF CurrentState
<1>2. S \subseteq Insns
  BY DEF Listed, TypeOK
<1>3. \A m \in S : StatusOf(m) \in Statuses
  BY StatusFacts
<1>4. CurrentState.there = TRUE /\ CurrentState.whole = TRUE
      /\ CurrentState.covered = covered
  BY DEF CurrentState
<1> HIDE DEF S
<1> QED
  BY <1>1, <1>2, <1>3, <1>4

(* The types of the counts, ranks and statuses that functions hold.        *)
LEMMA ElementTypes ==
    ASSUME TypeOK
    PROVE  /\ \A k \in DOMAIN covered :
                 k \in Scopes /\ covered[k] \in Nat /\ Pct(k, covered[k]) \in Nat
           /\ \A k \in DOMAIN baseline.covered :
                 /\ k \in Scopes /\ baseline.covered[k] \in Nat
                 /\ Pct(k, baseline.covered[k]) \in Nat
           /\ \A k \in DOMAIN bestCovered :
                 /\ k \in Scopes /\ bestCovered[k] \in Nat
                 /\ Pct(k, bestCovered[k]) \in Nat
           /\ \A m \in DOMAIN bestRank : m \in Insns /\ bestRank[m] \in 0 .. 4
           /\ \A m \in DOMAIN baseline.status :
                 /\ m \in Insns /\ baseline.status[m] \in Statuses
                 /\ RANK[baseline.status[m]] \in 0 .. 4
           /\ \A m \in DOMAIN CurrentState.status :
                 /\ CurrentState.status[m] \in Statuses
                 /\ RANK[CurrentState.status[m]] \in 0 .. 4
<1>1. \A k \in DOMAIN covered : k \in Scopes /\ covered[k] \in Nat
  BY CountsAssumption DEF TypeOK
<1>2. \A k \in DOMAIN baseline.covered : k \in Scopes /\ baseline.covered[k] \in Nat
  BY CountsAssumption DEF TypeOK
<1>3. \A k \in DOMAIN bestCovered : k \in Scopes /\ bestCovered[k] \in Nat
  BY CountsAssumption DEF TypeOK
<1>4. \A m \in DOMAIN bestRank : m \in Insns /\ bestRank[m] \in 0 .. 4
  BY DEF TypeOK
<1>5. \A m \in DOMAIN baseline.status : m \in Insns /\ baseline.status[m] \in Statuses
  BY DEF TypeOK
<1>6. \A m \in DOMAIN CurrentState.status : CurrentState.status[m] \in Statuses
  BY CurrentStateType
<1> QED
  BY <1>1, <1>2, <1>3, <1>4, <1>5, <1>6, PctBounds, RankIsNat

(* A check against what has just been accepted is clean.                   *)
LEMMA SameIsClean ==
    ASSUME TypeOK
    PROVE  ~Failed(CurrentState, CurrentState)
<1>1. Regressed(CurrentState, CurrentState) = {}
  <2>1. \A m \in DOMAIN CurrentState.status :
            ~(RANK[CurrentState.status[m]] < RANK[CurrentState.status[m]])
    BY ElementTypes
  <2> QED
    BY <2>1 DEF Regressed
<1>2. Removed(CurrentState, CurrentState) = {}
  BY DEF Removed
<1>3. ~CovDown(CurrentState, CurrentState)
  <2>1. \A k \in DOMAIN covered : Pct(k, covered[k]) \in Nat
    BY ElementTypes
  <2>2. \A k \in DOMAIN covered :
            ~(2 * Pct(k, covered[k]) < 2 * Pct(k, covered[k]) - 1)
    BY <2>1
  <2>3. CurrentState.covered = covered
    BY CurrentStateType
  <2> QED
    BY <2>2, <2>3 DEF CovDown
<1> QED
  BY <1>1, <1>2, <1>3 DEF Failed

LEMMA BetterDomain ==
    ASSUME NEW old, NEW new
    PROVE  DOMAIN Better(old, new) = DOMAIN old \cup DOMAIN new
BY DEF Better

LEMMA BetterIs ==
    ASSUME NEW old, NEW new, NEW i \in DOMAIN Better(old, new)
    PROVE  \/ i \in DOMAIN old /\ Better(old, new)[i] = old[i]
           \/ i \in DOMAIN new /\ Better(old, new)[i] = new[i]
BY DEF Better

(* What a clean check says of one instruction and of one scope.            *)
LEMMA CleanKeepsRank ==
    ASSUME TypeOK, ~Failed(baseline, CurrentState), NEW m \in DOMAIN baseline.status
    PROVE  /\ m \in DOMAIN CurrentState.status
           /\ RANK[CurrentState.status[m]] >= RANK[baseline.status[m]]
<1>1. m \in DOMAIN CurrentState.status
  BY DEF Failed, Removed
<1>2. ~(RANK[CurrentState.status[m]] < RANK[baseline.status[m]])
  BY <1>1 DEF Failed, Regressed
<1>3. RANK[CurrentState.status[m]] \in Nat /\ RANK[baseline.status[m]] \in Nat
  BY <1>1, ElementTypes
<1> QED
  BY <1>1, <1>2, <1>3

LEMMA CleanKeepsPct ==
    ASSUME TypeOK, ~Failed(baseline, CurrentState),
           NEW k \in DOMAIN baseline.covered, Pct(k, baseline.covered[k]) > 0
    PROVE  /\ k \in DOMAIN covered
           /\ Pct(k, covered[k]) >= Pct(k, baseline.covered[k])
<1> DEFINE b == Pct(k, baseline.covered[k])
           pct == IF k \in DOMAIN covered THEN Pct(k, covered[k]) ELSE 0
<1>1. b \in Nat /\ pct \in Nat
  BY ElementTypes
<1>2. ~(2 * pct < 2 * b - 1)
  BY CurrentStateType DEF Failed, CovDown
<1>3. b > 0
  OBVIOUS
<1> HIDE DEF b
<1>4. pct > 0 /\ pct >= b
  <2> HIDE DEF pct
  <2> QED
    BY <1>1, <1>2, <1>3
<1> QED
  BY <1>4 DEF b

LEMMA UpdateStep == IInv /\ Update => IInv'
<1> SUFFICES ASSUME IInv, Update PROVE IInv'
  OBVIOUS
<1> DEFINE ranks == [m \in DOMAIN CurrentState.status |-> RANK[CurrentState.status[m]]]
<1>1. /\ baseline' = CurrentState
      /\ answer' = "updated"
      /\ careful' = (careful /\ (sure \/ ~baseline.there))
      /\ bestRank' = Better(bestRank, ranks)
      /\ bestCovered' = Better(bestCovered, covered)
      /\ UNCHANGED <<corpusVars, provenance, edits, sure>>
  BY DEF Update
<1>2. CurrentState' = CurrentState
  <2>1. UNCHANGED <<results, tests, oracle, covered>>
    BY <1>1 DEF corpusVars
  <2> HIDE DEF ranks
  <2> QED
    BY <2>1 DEF CurrentState, Listed, BestIs, StatusOf, IslaVerified, Vacuous
<1>3. ranks \in [DOMAIN CurrentState.status -> 0 .. 4]
  BY RankIsNat, CurrentStateType DEF IInv
<1> HIDE DEF ranks
<1>4. DOMAIN bestRank' \subseteq Insns /\ bestRank' \in [DOMAIN bestRank' -> 0 .. 4]
  <2>1. DOMAIN bestRank' = DOMAIN bestRank \cup DOMAIN ranks
    BY <1>1, BetterDomain
  <2>2. \A m \in DOMAIN bestRank' : bestRank'[m] \in 0 .. 4
    <3>1. \A m \in DOMAIN ranks : ranks[m] \in 0 .. 4
      BY <1>3
    <3>2. \A m \in DOMAIN bestRank : bestRank[m] \in 0 .. 4
      BY ElementTypes DEF IInv
    <3> QED
      BY <1>1, <3>1, <3>2, BetterIs
  <2>3. bestRank' = [m \in DOMAIN bestRank' |-> bestRank'[m]]
    BY <1>1 DEF Better
  <2> QED
    BY <1>3, <2>1, <2>2, <2>3, CurrentStateType DEF IInv, TypeOK
<1>5. DOMAIN bestCovered' \subseteq Scopes
      /\ bestCovered' \in [DOMAIN bestCovered' -> Counts]
  <2>1. DOMAIN bestCovered' = DOMAIN bestCovered \cup DOMAIN covered
    BY <1>1, BetterDomain
  <2>2. \A k \in DOMAIN bestCovered' : bestCovered'[k] \in Counts
    <3>1. \A k \in DOMAIN covered : covered[k] \in Counts
      BY DEF IInv, TypeOK
    <3>2. \A k \in DOMAIN bestCovered : bestCovered[k] \in Counts
      BY DEF IInv, TypeOK
    <3> QED
      BY <1>1, <3>1, <3>2, BetterIs
  <2>3. bestCovered' = [k \in DOMAIN bestCovered' |-> bestCovered'[k]]
    BY <1>1 DEF Better
  <2> QED
    BY <2>1, <2>2, <2>3 DEF IInv, TypeOK
<1>6. TypeOK'
  BY <1>1, <1>4, <1>5, CurrentStateType DEF IInv, TypeOK, corpusVars, provenance
<1>7. SureIsClean'
  BY <1>1, <1>2, SameIsClean, CurrentStateType DEF IInv, SureIsClean, Failed,
     Regressed, Removed, CovDown
<1>8. ASSUME careful', baseline.there
      PROVE  careful /\ baseline.whole /\ ~Failed(baseline, CurrentState)
  BY <1>1, <1>8 DEF IInv, SureIsClean
<1>9. BaselineRatchets'
  <2> SUFFICES ASSUME careful', NEW m \in DOMAIN bestRank'
               PROVE  /\ m \in DOMAIN CurrentState.status
                      /\ RANK[CurrentState.status[m]] >= bestRank'[m]
    BY <1>1 DEF BaselineRatchets
  <2>1. \A n \in DOMAIN CurrentState.status : RANK[CurrentState.status[n]] \in Nat
    BY ElementTypes DEF IInv
  <2>2. m \in DOMAIN ranks => ranks[m] = RANK[CurrentState.status[m]]
                              /\ m \in DOMAIN CurrentState.status
    BY DEF ranks
  <2>3. CASE m \in DOMAIN ranks /\ bestRank'[m] = ranks[m]
    BY <2>1, <2>2, <2>3
  <2>4. CASE m \in DOMAIN bestRank /\ bestRank'[m] = bestRank[m]
    <3>1. baseline.there
      BY <2>4 DEF IInv, NoFileNoHistory
    <3>2. m \in DOMAIN baseline.status /\ RANK[baseline.status[m]] >= bestRank[m]
      BY <1>8, <2>4, <3>1 DEF IInv, BaselineRatchets
    <3>3. /\ m \in DOMAIN CurrentState.status
          /\ RANK[CurrentState.status[m]] >= RANK[baseline.status[m]]
      BY <1>8, <3>1, <3>2, CleanKeepsRank DEF IInv
    <3>4. RANK[baseline.status[m]] \in Nat /\ bestRank[m] \in Nat
      BY <2>4, <3>2, ElementTypes DEF IInv
    <3> QED
      BY <2>1, <2>4, <3>2, <3>3, <3>4
  <2> QED
    BY <1>1, <2>3, <2>4, BetterIs
<1>10. PctRatchets'
  <2> SUFFICES ASSUME careful', NEW k \in DOMAIN bestCovered',
                      Pct(k, bestCovered'[k]) > 0
               PROVE  /\ k \in DOMAIN covered
                      /\ Pct(k, covered[k]) >= Pct(k, bestCovered'[k])
    BY <1>1, CurrentStateType DEF IInv, PctRatchets, Pct
  <2>1. \A j \in DOMAIN covered : Pct(j, covered[j]) \in Nat
    BY ElementTypes DEF IInv
  <2>2. CASE k \in DOMAIN covered /\ bestCovered'[k] = covered[k]
    BY <2>1, <2>2
  <2>3. CASE k \in DOMAIN bestCovered /\ bestCovered'[k] = bestCovered[k]
    <3>1. baseline.there
      BY <2>3 DEF IInv, NoFileNoHistory
    <3>2. /\ k \in DOMAIN baseline.covered
          /\ Pct(k, baseline.covered[k]) >= Pct(k, bestCovered[k])
      BY <1>8, <2>3, <3>1 DEF IInv, PctRatchets
    <3>3. Pct(k, bestCovered[k]) \in Nat /\ Pct(k, baseline.covered[k]) \in Nat
      BY <2>3, <3>2, ElementTypes DEF IInv
    <3>4. Pct(k, baseline.covered[k]) > 0
      BY <2>3, <3>2, <3>3
    <3>5. /\ k \in DOMAIN covered
          /\ Pct(k, covered[k]) >= Pct(k, baseline.covered[k])
      BY <1>8, <3>1, <3>2, <3>4, CleanKeepsPct DEF IInv
    <3> QED
      BY <2>1, <2>3, <3>2, <3>3, <3>5
  <2> QED
    BY <1>1, <2>2, <2>3, BetterIs
<1>11. NoFileNoHistory' /\ PassHasTest' /\ FilesAreAuthors'
  BY <1>1, CurrentStateType DEF IInv, NoFileNoHistory, PassHasTest, FilesAreAuthors,
     provenance, corpusVars
<1> QED
  BY <1>6, <1>7, <1>9, <1>10, <1>11 DEF IInv

LEMMA UpdateDiesStep == IInv /\ UpdateDies => IInv'
<1> SUFFICES ASSUME IInv, UpdateDies PROVE IInv'
  OBVIOUS
<1>1. /\ baseline' = [NoFile EXCEPT !.there = TRUE]
      /\ answer' = "none" /\ ~sure' /\ sure' \in BOOLEAN /\ careful' \in BOOLEAN
      /\ UNCHANGED <<corpusVars, provenance, edits, bestRank, bestCovered>>
  BY DEF UpdateDies, IInv, TypeOK
<1>2. /\ baseline'.there = TRUE /\ baseline'.whole = FALSE
      /\ DOMAIN baseline'.status = {} /\ DOMAIN baseline'.covered = {}
      /\ baseline'.status \in [{} -> Statuses] /\ baseline'.covered \in [{} -> Counts]
  BY <1>1 DEF NoFile
<1>3. TypeOK'
  BY <1>1, <1>2 DEF IInv, TypeOK, corpusVars, provenance
<1> QED
  BY <1>1, <1>2, <1>3 DEF IInv, NoFileNoHistory, SureIsClean, BaselineRatchets,
     PctRatchets, PassHasTest, FilesAreAuthors, provenance, corpusVars

(* IInv holds after every sweep, check and update.                         *)
THEOREM Invariance == Spec => []IInv
<1>1. IInv /\ [Next]_vars => IInv'
  <2> SUFFICES ASSUME IInv, [Next]_vars PROVE IInv'
    OBVIOUS
  <2>1. ASSUME NEW m \in Insns, NEW x \in Xlens, Sweep(m, x) PROVE IInv'
    BY <2>1, SweepStep
  <2>2. ASSUME NEW m \in Insns, NEW x \in Xlens, Unlist(m, x) PROVE IInv'
    BY <2>2, UnlistStep
  <2>3. CASE ChangeOracle
    BY <2>3, ChangeOracleStep
  <2>4. CASE ChangeTrace
    BY <2>4, ChangeTraceStep
  <2>5. CASE Check
    BY <2>5, CheckStep
  <2>6. CASE Update
    BY <2>6, UpdateStep
  <2>7. CASE UpdateDies
    BY <2>7, UpdateDiesStep
  <2>8. CASE UNCHANGED vars
    <3>1. UNCHANGED <<results, tests, oracle, covered, baseline, answer, edits, author, asserted, sure,
                      careful, bestRank, bestCovered>>
      BY <2>8 DEF vars, corpusVars, provenance, history
    <3>2. CurrentState' = CurrentState
      BY <3>1 DEF CurrentState, Listed, BestIs, StatusOf, IslaVerified, Vacuous
    <3>3. TypeOK'
      BY <3>1 DEF IInv, TypeOK
    <3>4. SureIsClean'
      BY <3>1, <3>2 DEF IInv, SureIsClean, Failed, Regressed, Removed, CovDown
    <3> QED
      BY <3>1, <3>3, <3>4 DEF IInv, NoFileNoHistory, BaselineRatchets,
         PctRatchets, PassHasTest, FilesAreAuthors
  <2> QED
    BY <2>1, <2>2, <2>3, <2>4, <2>5, <2>6, <2>7, <2>8 DEF Next
<1> QED
  BY InitIInv, <1>1, PTL DEF Spec

(* Every variable keeps its type.                                          *)
THEOREM TypeCorrect == Spec => []TypeOK
BY Invariance, PTL DEF IInv

(* Careful updates never lose an instruction, nor lower the best rank it   *)
(* had, for any instructions and any number of updates.                    *)
THEOREM NothingIsLost == Spec => []BaselineRatchets
BY Invariance, PTL DEF IInv

(* Drops too small to be printed never add up to a tenth of a point.       *)
THEOREM SmallLossesDoNotAddUp == Spec => []LossIsBounded
<1>1. IInv => LossIsBounded
  <2> SUFFICES ASSUME IInv, careful, baseline.whole, NEW k \in DOMAIN bestCovered,
                      Pct(k, bestCovered[k]) > 0
               PROVE  /\ k \in DOMAIN baseline.covered
                      /\ 1000 * (bestCovered[k] - baseline.covered[k]) < Total[k]
    BY DEF LossIsBounded
  <2>1. /\ k \in DOMAIN baseline.covered
        /\ Pct(k, baseline.covered[k]) >= Pct(k, bestCovered[k])
    BY DEF IInv, PctRatchets
  <2>2. k \in Scopes /\ bestCovered[k] \in Nat /\ baseline.covered[k] \in Nat
    BY <2>1, CountsAssumption DEF IInv, TypeOK
  <2>3. Pct(k, bestCovered[k]) \in Nat /\ Pct(k, baseline.covered[k]) \in Nat
    BY <2>2, PctBounds
  <2>4. Pct(k, bestCovered[k]) <= Pct(k, baseline.covered[k])
    BY <2>1, <2>3
  <2> QED
    BY <2>1, <2>2, <2>4, PctGap
<1> QED
  BY Invariance, <1>1, PTL

(* "clean" means that what the baseline has as verified is verified now:   *)
(* by the oracle or by a PASS whose own test asserted something, unless    *)
(* the file there now is the test of another verdict.                      *)
THEOREM CleanIsVerified == Spec => []CleanMeansVerified
<1>1. IInv => CleanMeansVerified
  <2> SUFFICES ASSUME IInv, sure, NEW m \in DOMAIN baseline.status \ NoObservable,
                      baseline.status[m] \in {"isla", "oracle"}, Stem[m] = m, ~Joined(m)
               PROVE  m \in oracle \/ Passing(m) \cap asserted # {}
    BY DEF CleanMeansVerified
  <2>1. m \in Insns /\ baseline.status[m] \in Statuses
    BY DEF IInv, TypeOK
  <2>2. /\ m \in DOMAIN CurrentState.status
        /\ RANK[CurrentState.status[m]] >= RANK[baseline.status[m]]
    BY CleanKeepsRank DEF IInv, SureIsClean
  <2>3. CurrentState.status[m] = StatusOf(m) /\ StatusOf(m) \in Statuses
    BY <2>2, CurrentStateType, StatusFacts DEF IInv
  <2>4. RANK[StatusOf(m)] \in Nat /\ RANK[baseline.status[m]] \in Nat
    BY <2>1, <2>3, RankIsNat
  <2>5. RANK[baseline.status[m]] >= 4
    BY <2>1, FourIsVerified
  <2>6. RANK[StatusOf(m)] >= 4
    BY <2>2, <2>3, <2>4, <2>5
  <2>7. StatusOf(m) \in {"isla", "oracle"}
    BY <2>3, <2>6, FourIsVerified
  <2>8. m \in oracle \/ IslaVerified(m)
    BY <2>7, StatusFacts
  <2>9. ASSUME IslaVerified(m) PROVE Passing(m) \cap asserted # {}
    <3>1. m \notin Vacuous /\ m \in Stems
      BY <2>1, <2>9 DEF IslaVerified, Stems
    <3>2. PICK x \in Xlens : results[m][x] = "PASS" /\ author[m] = <<m, x>>
      BY DEF Joined, Passing
    <3>3. tests[m] = "asserts"
      BY <2>1, <3>1, <3>2 DEF Vacuous, IInv, PassHasTest, TypeOK
    <3>4. <<m, x>> \in asserted
      BY <2>1, <3>2, <3>3 DEF IInv, FilesAreAuthors
    <3> QED
      BY <3>2, <3>4 DEF Passing
  <2> QED
    BY <2>8, <2>9
<1> QED
  BY Invariance, <1>1, PTL
=============================================================================
