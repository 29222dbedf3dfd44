---------------------------- MODULE CoverageProofs ----------------------------
(***************************************************************************)
(* Theorems about coverage_report.py, for any ELFs, spans and denominators:*)
(* the suite total and the per-ELF numbers are true, the trace is of one   *)
(* run, and the redundant ELFs can be dropped together.                    *)
(***************************************************************************)
EXTENDS CoverageProps, TLAPS, FiniteSetTheorems, WellFoundedInduction

Replaying == cmd # "idle"

Trying == cmd \in {"try64", "try32"}

(* A command that replays has not reported yet.                            *)
ReportComesLast == Replaying => report = NoReport

(* What clean runs reached is in the file or already collected from it.    *)
NothingLost == Replaying => trace.spans \cup cumulative = ReachedBy(since)

(* Without --per-elf nothing is collected while the replay runs.           *)
MergedCollectsNothing ==
    Replaying /\ ~perElf => cumulative = {} /\ alone = <<>>

(* With it the file holds the spans of the ELF at hand, or nothing.        *)
FileIsOfOneElf ==
    perElf =>
        /\ cmd = "loop" \/ Trying => trace.spans = {}
        /\ cmd = "parse" => trace.spans = IF elf \in since THEN Reach[elf] ELSE {}

(* No ELF runs cleanly before its turn, nor twice.                         *)
RunsInTurn ==
    /\ Replaying => since \cap todo = {}
    /\ Trying => elf \notin since
    /\ Trying \/ cmd = "parse" => elf \notin DOMAIN alone

(* Every ELF that ran is credited, but for the one at hand.                *)
AllCredited ==
    /\ Replaying /\ perElf =>
          since \subseteq DOMAIN alone \cup (IF cmd = "parse" THEN {elf} ELSE {})
    /\ report.kind = "replay" /\ perElf => since \subseteq DOMAIN alone

(* The counts are those of the ELFs credited, but for the one at hand.     *)
Counted ==
    Replaying /\ perElf =>
        /\ ok = Cardinality(since)
        /\ ok + fail = Cardinality(DOMAIN alone) + (IF cmd = "parse" THEN 1 ELSE 0)

IInv ==
    /\ TypeOK
    /\ ReportComesLast
    /\ NothingLost
    /\ MergedCollectsNothing
    /\ FileIsOfOneElf
    /\ RunsInTurn
    /\ AllCredited
    /\ Counted
    /\ TraceIsOneRun
    /\ SuiteTotalIsTrue
    /\ EachElfAlone

LEMMA ReachedByNone == ReachedBy({}) = {}
BY DEF ReachedBy

LEMMA ReachedByMore ==
    ASSUME NEW S, NEW e
    PROVE  ReachedBy(S \cup {e}) = ReachedBy(S) \cup Reach[e]
BY DEF ReachedBy

LEMMA InitIInv == Init => IInv
<1> SUFFICES ASSUME Init PROVE IInv
  OBVIOUS
<1> USE DEF Init
<1>1. TypeOK
  <2>1. trace \in [there : BOOLEAN, spans : SUBSET Spans] /\ trace.spans = {}
    BY DEF Absent
  <2>2. report \in [kind : {"none", "replay", "again"},
                    view : Views \cup {{}}, covered : SUBSET Spans]
    BY DEF NoReport
  <2>3. DOMAIN alone = {} /\ alone \in [DOMAIN alone -> SUBSET Spans]
    OBVIOUS
  <2> QED
    BY <2>1, <2>2, <2>3 DEF TypeOK
<1>2. report.kind = "none" /\ ~Replaying /\ ~Trying /\ cmd # "parse"
  BY DEF NoReport, Replaying, Trying
<1>3. TraceIsOneRun
  BY DEF TraceIsOneRun, Absent
<1> QED
  BY <1>1, <1>2, <1>3 DEF IInv, ReportComesLast, NothingLost,
     MergedCollectsNothing, FileIsOfOneElf, RunsInTurn, AllCredited, Counted,
     SuiteTotalIsTrue, EachElfAlone, Replaying, Trying

(* Between commands only the trace, what ran and the report matter.        *)
LEMMA IdleStep ==
    ASSUME IInv, TypeOK', cmd' = "idle", report'.kind # "replay", TraceIsOneRun'
    PROVE  IInv'
BY DEF IInv, ReportComesLast, NothingLost, MergedCollectsNothing,
   FileIsOfOneElf, RunsInTurn, AllCredited, Counted, SuiteTotalIsTrue,
   EachElfAlone, Replaying, Trying

LEMMA RegenerateStep == IInv /\ Regenerate => IInv'
<1> SUFFICES ASSUME IInv, Regenerate PROVE IInv'
  OBVIOUS
<1> USE DEF Regenerate, replayVars, NoReport
<1>1. TypeOK'
  BY DEF IInv, TypeOK
<1>2. TraceIsOneRun'
  BY DEF IInv, TraceIsOneRun, ReachedBy
<1> QED
  BY <1>1, <1>2, IdleStep

LEMMA StartReplayStep ==
    ASSUME IInv, NEW per \in BOOLEAN, NEW chosen \in SUBSET corpus,
           StartReplay(per, chosen)
    PROVE  IInv'
<1> USE DEF StartReplay
<1>1. TypeOK'
  BY DEF IInv, TypeOK, Absent, NoReport
<1>2. /\ trace'.spans = {} /\ cumulative' = {} /\ since' = {} /\ alone' = <<>>
      /\ cmd' = "loop" /\ report'.kind = "none" /\ report' = NoReport
      /\ ok' = 0 /\ fail' = 0
  BY DEF Absent, NoReport
<1>3. ReachedBy(since)' = {} /\ DOMAIN alone' = {}
  BY <1>2, ReachedByNone DEF ReachedBy
<1>4. Counted'
  BY <1>2, <1>3, FS_EmptySet DEF Counted
<1> QED
  BY <1>1, <1>2, <1>3, <1>4 DEF IInv, ReportComesLast, NothingLost,
     MergedCollectsNothing, FileIsOfOneElf, RunsInTurn, AllCredited,
     TraceIsOneRun, SuiteTotalIsTrue, EachElfAlone, Replaying, Trying

LEMMA NextElfStep ==
    ASSUME IInv, NEW e \in todo, NextElf(e)
    PROVE  IInv'
<1> USE DEF NextElf
<1>1. TypeOK'
  BY DEF IInv, TypeOK, Absent
<1>2. trace'.spans = trace.spans
  BY DEF IInv, FileIsOfOneElf, Absent
<1>3. /\ cmd = "loop" /\ cmd' = "try64" /\ since' = since /\ alone' = alone
      /\ perElf' = perElf /\ report' = report /\ cumulative' = cumulative
      /\ elf' = e /\ todo' = todo \ {e} /\ ok' = ok /\ fail' = fail
  OBVIOUS
<1>4. ReachedBy(since)' = ReachedBy(since)
  BY <1>3 DEF ReachedBy
<1>5. e \notin since /\ e \notin DOMAIN alone
  BY <1>3 DEF IInv, RunsInTurn, TypeOK, Replaying
<1>6. ReportComesLast' /\ NothingLost' /\ MergedCollectsNothing' /\ TraceIsOneRun'
  BY <1>2, <1>3, <1>4 DEF IInv, ReportComesLast, NothingLost,
     MergedCollectsNothing, TraceIsOneRun, Replaying
<1>7. FileIsOfOneElf' /\ RunsInTurn'
  BY <1>2, <1>3, <1>5 DEF IInv, FileIsOfOneElf, RunsInTurn, Replaying, Trying
<1>8. AllCredited' /\ Counted' /\ SuiteTotalIsTrue' /\ EachElfAlone'
  BY <1>3 DEF IInv, AllCredited, Counted, SuiteTotalIsTrue, EachElfAlone,
     ReportComesLast, NoReport, Replaying
<1> QED
  BY <1>1, <1>6, <1>7, <1>8 DEF IInv

LEMMA RunSucceedsStep ==
    ASSUME IInv, NEW x \in {32, 64}, RunSucceeds(x)
    PROVE  IInv'
<1> USE DEF RunSucceeds, Attempting, Appended, Holding
<1>1. /\ Trying /\ Replaying /\ cmd' = "parse" /\ since' = since \cup {elf}
      /\ trace' = [there |-> TRUE, spans |-> trace.spans \cup Reach[elf]]
      /\ alone' = alone /\ cumulative' = cumulative /\ report' = report
      /\ perElf' = perElf /\ todo' = todo /\ elf' = elf
      /\ ok' = ok + 1 /\ fail' = fail
  BY DEF Trying, Replaying
<1>2. elf \in Elfs \ todo /\ elf \notin since /\ elf \notin DOMAIN alone
  BY <1>1 DEF IInv, TypeOK, RunsInTurn, Trying
<1>3. Reach[elf] \subseteq Spans
  BY <1>2 DEF Spans
<1>4. TypeOK'
  BY <1>1, <1>2, <1>3 DEF IInv, TypeOK
<1>5. ReachedBy(since)' = ReachedBy(since) \cup Reach[elf]
  BY <1>1, ReachedByMore DEF ReachedBy
<1>15. trace'.spans = trace.spans \cup Reach[elf]
  BY <1>1
<1>6. ReportComesLast' /\ NothingLost' /\ MergedCollectsNothing' /\ TraceIsOneRun'
  <2> HIDE DEF RunSucceeds, Appended, Holding
  <2> QED
    BY <1>1, <1>5, <1>15 DEF IInv, ReportComesLast, NothingLost,
       MergedCollectsNothing, TraceIsOneRun, Replaying
<1>7. FileIsOfOneElf' /\ RunsInTurn'
  BY <1>1, <1>2 DEF IInv, FileIsOfOneElf, RunsInTurn, Replaying, Trying
<1>8. AllCredited' /\ SuiteTotalIsTrue'
  BY <1>1 DEF IInv, AllCredited, SuiteTotalIsTrue, ReportComesLast, NoReport,
     Replaying, Trying
<1>9. EachElfAlone'
  BY <1>1, <1>2 DEF IInv, EachElfAlone, Replaying
<1>10. IsFiniteSet(since)
  BY ElfsAssumption, FS_Subset DEF IInv, TypeOK
<1>11. Cardinality(since') = Cardinality(since) + 1
  BY <1>1, <1>2, <1>10, FS_AddElement
<1>12. cmd # "parse"
  BY <1>1 DEF Trying
<1>13. Cardinality(DOMAIN alone) \in Nat /\ Cardinality(since) \in Nat
  BY ElfsAssumption, FS_Subset, FS_CardinalityType DEF IInv, TypeOK
<1>14. Counted'
  BY <1>1, <1>11, <1>12, <1>13 DEF IInv, Counted, TypeOK, Replaying
<1> QED
  BY <1>4, <1>6, <1>7, <1>8, <1>9, <1>14 DEF IInv

LEMMA RunFailsStep ==
    ASSUME IInv, NEW x \in {32, 64}, RunFails(x)
    PROVE  IInv'
<1> USE DEF RunFails, Attempting
<1>1. /\ Trying /\ Replaying /\ cmd' \in {"try32", "parse"}
      /\ cmd' = "parse" => fail' = fail + 1
      /\ cmd' = "try32" => fail' = fail
      /\ since' = since /\ trace' = trace /\ alone' = alone
      /\ cumulative' = cumulative /\ report' = report /\ perElf' = perElf
      /\ todo' = todo /\ elf' = elf /\ ok' = ok /\ cmd # "parse"
  BY DEF Trying, Replaying
<1>2. TypeOK'
  BY <1>1 DEF IInv, TypeOK, Trying
<1>3. ReachedBy(since)' = ReachedBy(since)
  BY <1>1 DEF ReachedBy
<1>4. ReportComesLast' /\ NothingLost' /\ MergedCollectsNothing' /\ TraceIsOneRun'
  BY <1>1, <1>3 DEF IInv, ReportComesLast, NothingLost,
     MergedCollectsNothing, TraceIsOneRun, Replaying
<1>5. FileIsOfOneElf' /\ RunsInTurn'
  BY <1>1 DEF IInv, FileIsOfOneElf, RunsInTurn, Replaying, Trying
<1>6. AllCredited' /\ SuiteTotalIsTrue' /\ EachElfAlone'
  BY <1>1 DEF IInv, AllCredited, SuiteTotalIsTrue, EachElfAlone,
     ReportComesLast, NoReport, Replaying, Trying
<1>7. Cardinality(DOMAIN alone) \in Nat
  BY ElfsAssumption, FS_Subset, FS_CardinalityType DEF IInv, TypeOK
<1>8. Counted'
  BY <1>1, <1>7 DEF IInv, Counted, TypeOK, Replaying
<1> QED
  BY <1>2, <1>4, <1>5, <1>6, <1>8 DEF IInv

LEMMA CollectStep == IInv /\ Collect => IInv'
<1> SUFFICES ASSUME IInv, Collect PROVE IInv'
  OBVIOUS
<1> USE DEF Collect
<1>1. /\ Replaying /\ ~Trying /\ cmd = "parse" /\ cmd' = "loop"
      /\ since' = since /\ report' = report /\ perElf' = perElf
      /\ todo' = todo /\ ok' = ok /\ fail' = fail
  BY DEF Trying, Replaying
<1>2. elf \in Elfs \ todo /\ elf \notin DOMAIN alone
  BY <1>1 DEF IInv, TypeOK, RunsInTurn
<1>3. ReachedBy(since)' = ReachedBy(since)
  BY <1>1 DEF ReachedBy
<1>4. report.kind = "none"
  BY <1>1 DEF IInv, ReportComesLast, NoReport
<1>5. CASE ~perElf
  <2>1. UNCHANGED <<alone, cumulative, trace>>
    BY <1>5
  <2>2. TypeOK'
    BY <1>1, <2>1 DEF IInv, TypeOK
  <2> QED
    BY <1>1, <1>3, <1>4, <1>5, <2>1, <2>2 DEF IInv, ReportComesLast,
       NothingLost, MergedCollectsNothing, FileIsOfOneElf, RunsInTurn,
       AllCredited, Counted, TraceIsOneRun, SuiteTotalIsTrue, EachElfAlone,
       Replaying, Trying
<1>6. CASE perElf
  <2>1. /\ alone' = [e \in DOMAIN alone \cup {elf} |->
                        IF e = elf THEN trace.spans ELSE alone[e]]
        /\ cumulative' = cumulative \cup trace.spans
        /\ trace' = Absent
    BY <1>6
  <2>2. DOMAIN alone' = DOMAIN alone \cup {elf}
    BY <2>1
  <2>3. trace'.spans = {}
    BY <2>1 DEF Absent
  <2>4. TypeOK'
    BY <1>1, <1>2, <2>1, <2>2 DEF IInv, TypeOK, Absent
  <2>5. NothingLost' /\ TraceIsOneRun'
    BY <1>1, <1>3, <2>1, <2>3 DEF IInv, NothingLost, TraceIsOneRun, Replaying
  <2>6. FileIsOfOneElf' /\ RunsInTurn' /\ ReportComesLast'
    BY <1>1, <2>3 DEF IInv, FileIsOfOneElf, RunsInTurn, ReportComesLast,
       Replaying, Trying
  <2>7. AllCredited' /\ SuiteTotalIsTrue' /\ MergedCollectsNothing'
    BY <1>1, <1>4, <1>6, <2>2 DEF IInv, AllCredited, SuiteTotalIsTrue,
       MergedCollectsNothing, Replaying
  <2>8. \A e \in DOMAIN alone' :
            alone'[e] = IF e \in since THEN Reach[e] ELSE {}
    BY <1>1, <1>6, <2>1, <2>2 DEF IInv, FileIsOfOneElf, EachElfAlone, Replaying
  <2>9. EachElfAlone'
    BY <1>1, <2>8 DEF EachElfAlone
  <2>10. IsFiniteSet(DOMAIN alone)
    BY ElfsAssumption, FS_Subset DEF IInv, TypeOK
  <2>11. Cardinality(DOMAIN alone') = Cardinality(DOMAIN alone) + 1
    BY <1>2, <2>2, <2>10, FS_AddElement
  <2>12. Cardinality(DOMAIN alone) \in Nat
    BY <2>10, FS_CardinalityType
  <2>13. Counted'
    BY <1>1, <1>6, <2>11, <2>12 DEF IInv, Counted, TypeOK, Replaying
  <2> QED
    BY <2>4, <2>5, <2>6, <2>7, <2>9, <2>13 DEF IInv
<1> QED
  BY <1>5, <1>6

LEMMA FinishReplayStep ==
    ASSUME IInv, NEW view \in Views, FinishReplay(view)
    PROVE  IInv'
<1> USE DEF FinishReplay, Report, replayVars
<1>1. /\ Replaying /\ ~Trying /\ cmd = "loop" /\ cmd' = "idle"
      /\ UNCHANGED <<corpus, trace, perElf, todo, elf, ok, fail, alone,
                     cumulative, since>>
      /\ ~Replaying' /\ ~Trying'
  BY DEF Trying, Replaying
<1>2. CASE report' = NoReport
  <2>1. TypeOK' /\ TraceIsOneRun' /\ report'.kind = "none"
    BY <1>1, <1>2 DEF IInv, TypeOK, TraceIsOneRun, ReachedBy, NoReport
  <2> QED
    BY <1>1, <2>1, IdleStep
<1>3. CASE report' # NoReport
  <2> DEFINE spans == IF perElf THEN cumulative ELSE trace.spans
  <2>1. report' = [kind |-> "replay", view |-> view, covered |-> spans \cap view]
    BY <1>3
  <2>2. spans = ReachedBy(since)
    BY <1>1 DEF IInv, NothingLost, MergedCollectsNothing, FileIsOfOneElf
  <2>3. ReachedBy(since)' = ReachedBy(since)
    BY <1>1 DEF ReachedBy
  <2>4. TypeOK' /\ TraceIsOneRun'
    <3>1. spans \cap view \in SUBSET Spans
      BY DEF IInv, TypeOK
    <3> HIDE DEF spans
    <3>2. report' \in [kind : {"none", "replay", "again"},
                       view : Views \cup {{}}, covered : SUBSET Spans]
      BY <2>1, <3>1
    <3> QED
      BY <1>1, <2>3, <3>2 DEF IInv, TypeOK, TraceIsOneRun
  <2>5. SuiteTotalIsTrue'
    BY <2>1, <2>2, <2>3 DEF SuiteTotalIsTrue
  <2>6. AllCredited' /\ EachElfAlone'
    BY <1>1 DEF IInv, AllCredited, EachElfAlone, Replaying
  <2>7. FileIsOfOneElf' /\ RunsInTurn'
    BY <1>1 DEF FileIsOfOneElf, RunsInTurn, Trying, Replaying
  <2> QED
    BY <1>1, <2>4, <2>5, <2>6, <2>7 DEF IInv, ReportComesLast, NothingLost,
       MergedCollectsNothing, Counted
<1> QED
  BY <1>2, <1>3

LEMMA ReportAgainStep ==
    ASSUME IInv, NEW view \in Views, ReportAgain(view)
    PROVE  IInv'
<1> USE DEF ReportAgain, Report, replayVars
<1>1. /\ cmd' = "idle"
      /\ UNCHANGED <<corpus, trace, cmd, perElf, todo, elf, ok, fail, alone,
                     cumulative, since>>
  OBVIOUS
<1>2. report'.kind # "replay"
  BY DEF NoReport
<1>3. trace.spans \cap view \in SUBSET Spans
  BY DEF IInv, TypeOK
<1>4. report' \in [kind : {"none", "replay", "again"},
                   view : Views \cup {{}}, covered : SUBSET Spans]
  BY <1>3 DEF NoReport
<1>5. TypeOK' /\ TraceIsOneRun'
  BY <1>1, <1>4 DEF IInv, TypeOK, TraceIsOneRun, ReachedBy
<1> QED
  BY <1>1, <1>2, <1>5, IdleStep

LEMMA InterruptStep == IInv /\ Interrupt => IInv'
<1> SUFFICES ASSUME IInv, Interrupt PROVE IInv'
  OBVIOUS
<1> USE DEF Interrupt, replayVars
<1>1. TypeOK' /\ TraceIsOneRun'
  BY DEF IInv, TypeOK, TraceIsOneRun, ReachedBy
<1>2. report'.kind # "replay"
  BY DEF IInv, ReportComesLast, Replaying, NoReport
<1> QED
  BY <1>1, <1>2, IdleStep

LEMMA MeasureStep ==
    ASSUME IInv, NEW e \in corpus, Measure(e)
    PROVE  IInv'
<1> USE DEF Measure, replayVars, NoReport
<1>1. e \in Elfs /\ Reach[e] \subseteq Spans
  BY DEF IInv, TypeOK, Spans
<1>2. \/ trace' = [there |-> TRUE, spans |-> Reach[e]] /\ since' = {e}
      \/ trace' = [there |-> FALSE, spans |-> {}] /\ since' = {}
  BY DEF Holding, Absent
<1>3. TypeOK'
  <2>1. /\ trace' \in [there : BOOLEAN, spans : SUBSET Spans]
        /\ ~trace'.there => trace'.spans = {}
        /\ since' \subseteq Elfs
    <3> HIDE DEF Measure
    <3>1. CASE trace' = [there |-> TRUE, spans |-> Reach[e]] /\ since' = {e}
      BY <1>1, <3>1
    <3>2. CASE trace' = [there |-> FALSE, spans |-> {}] /\ since' = {}
      BY <3>2
    <3> QED
      BY <1>2, <3>1, <3>2
  <2>2. report' \in [kind : {"none", "replay", "again"},
                     view : Views \cup {{}}, covered : SUBSET Spans]
    OBVIOUS
  <2> HIDE DEF Measure
  <2>3. UNCHANGED <<corpus, cmd, perElf, todo, elf, ok, fail, alone, cumulative>>
    BY DEF Measure
  <2> QED
    BY <2>1, <2>2, <2>3 DEF IInv, TypeOK
<1>4. TraceIsOneRun'
  BY <1>2 DEF TraceIsOneRun, ReachedBy
<1>5. cmd' = "idle" /\ report'.kind # "replay"
  OBVIOUS
<1> QED
  BY <1>3, <1>4, <1>5, IdleStep

(* IInv holds of every command of coverage_report.py at every step.        *)
THEOREM Invariance == Spec => []IInv
<1>1. IInv /\ [Next]_vars => IInv'
  <2> SUFFICES ASSUME IInv, [Next]_vars PROVE IInv'
    OBVIOUS
  <2>1. CASE Regenerate
    BY <2>1, RegenerateStep
  <2>2. ASSUME NEW per \in BOOLEAN, NEW chosen \in SUBSET corpus,
               StartReplay(per, chosen)
        PROVE  IInv'
    BY <2>2, StartReplayStep
  <2>3. ASSUME NEW e \in todo, NextElf(e) PROVE IInv'
    BY <2>3, NextElfStep
  <2>4. ASSUME NEW x \in {32, 64}, RunSucceeds(x) PROVE IInv'
    BY <2>4, RunSucceedsStep
  <2>5. ASSUME NEW x \in {32, 64}, RunFails(x) PROVE IInv'
    BY <2>5, RunFailsStep
  <2>6. CASE Collect
    BY <2>6, CollectStep
  <2>7. ASSUME NEW view \in Views, FinishReplay(view) PROVE IInv'
    BY <2>7, FinishReplayStep
  <2>8. ASSUME NEW view \in Views, ReportAgain(view) PROVE IInv'
    BY <2>8, ReportAgainStep
  <2>9. CASE Interrupt
    BY <2>9, InterruptStep
  <2>10. ASSUME NEW e \in corpus, Measure(e) PROVE IInv'
    BY <2>10, MeasureStep
  <2>11. CASE UNCHANGED vars
    BY <2>11 DEF vars, replayVars, IInv, TypeOK, ReportComesLast, NothingLost,
       MergedCollectsNothing, FileIsOfOneElf, RunsInTurn, AllCredited, Counted,
       TraceIsOneRun, SuiteTotalIsTrue, EachElfAlone, ReachedBy, Replaying, Trying
  <2> QED
    BY <2>1, <2>2, <2>3, <2>4, <2>5, <2>6, <2>7, <2>8, <2>9, <2>10, <2>11
       DEF Next
<1> QED
  BY InitIInv, <1>1, PTL DEF Spec

(* Every variable keeps its type, for any ELFs and spans.                  *)
THEOREM TypeCorrect == Spec => []TypeOK
BY Invariance, PTL DEF IInv

(* A replay's suite total is what its own clean runs reached, in both      *)
(* modes and whatever earlier commands left in the file.                   *)
THEOREM TotalIsTrue == Spec => []SuiteTotalIsTrue
BY Invariance, PTL DEF IInv

(* In per-ELF mode each ELF is credited with what it reaches itself.       *)
THEOREM CreditIsAbsolute == Spec => []EachElfAlone
BY Invariance, PTL DEF IInv

(* The file holds spans of the ELFs run since a command claimed it.        *)
THEOREM OneRunInTrace == Spec => []TraceIsOneRun
BY Invariance, PTL DEF IInv

(* Each ELF is counted once, although it may be run at both XLENs.         *)
THEOREM CountedOnce == Spec => []EachElfCountedOnce
<1>1. IInv => EachElfCountedOnce
  <2> SUFFICES ASSUME IInv, cmd = "loop", perElf
               PROVE  ok + fail = Cardinality(DOMAIN alone) /\ ok = Cardinality(since)
    BY DEF EachElfCountedOnce
  <2>1. Cardinality(DOMAIN alone) \in Nat
    BY ElfsAssumption, FS_Subset, FS_CardinalityType DEF IInv, TypeOK
  <2> QED
    BY <2>1 DEF IInv, Counted, Replaying
<1> QED
  BY Invariance, <1>1, PTL

(* A set of numbers that is not empty has a least one.                     *)
LEMMA LeastNumber ==
    ASSUME NEW S \in SUBSET Nat, S # {}
    PROVE  \E m \in S : \A n \in S : m <= n
<1>1. PICK m \in S : \A n \in S : ~(<<n, m>> \in OpToRel(<, Nat))
  BY WFMin, NatLessThanWellFounded, Zenon
<1>2. ASSUME NEW n \in S PROVE ~(n < m)
  <2> SUFFICES ASSUME n < m PROVE <<n, m>> \in OpToRel(<, Nat)
    BY <1>1
  <2>1. <<n, m>> \in Nat \X Nat
    OBVIOUS
  <2>2. <<n, m>>[1] < <<n, m>>[2]
    OBVIOUS
  <2> QED
    BY <2>1, <2>2, Zenon DEF OpToRel
<1> QED
  BY <1>2

(* Dropping what `report_per_elf` calls redundant loses no span, because   *)
(* the first ELF of the ranking to reach a span is never redundant.  The   *)
(* order of the ranking does not matter, only that no ELF is in it twice.  *)
LEMMA RedundantLosesNothing ==
    ASSUME NEW credit, IsFiniteSet(DOMAIN credit), NEW r \in Rankings(credit)
    PROVE  UNION {credit[e] : e \in DOMAIN credit \ Redundant(credit, r)}
             = UNION {credit[e] : e \in DOMAIN credit}
<1> DEFINE D == 1 .. Cardinality(DOMAIN credit)
<1>1. r \in [D -> DOMAIN credit] /\ \A i, j \in D : i # j => r[i] # r[j]
  BY DEF Rankings, SetToSeqs
<1>2. DOMAIN r = D /\ D \subseteq Nat /\ Cardinality(DOMAIN credit) \in Nat
  BY <1>1, FS_CardinalityType
<1>3. ASSUME NEW e \in DOMAIN credit, NEW s \in credit[e]
      PROVE  \E d \in DOMAIN credit \ Redundant(credit, r) : s \in credit[d]
  <2> DEFINE H == {n \in D : s \in credit[r[n]]}
  <2>1. CASE e \notin Redundant(credit, r)
    BY <2>1
  <2>2. CASE e \in Redundant(credit, r)
    <3>1. PICK n \in D : r[n] = e
      BY <1>2, <2>2 DEF Redundant
    <3>2. n \in H
      BY <1>3, <3>1
    <3>3. PICK m \in H : \A i \in H : m <= i
      BY <1>2, <3>2, LeastNumber
    <3>4. r[m] \in DOMAIN credit /\ s \in credit[r[m]]
      BY <1>1, <3>3
    <3>5. \A i \in 1 .. m - 1 : s \notin credit[r[i]]
      <4>1. \A i \in 1 .. m - 1 : i \in D /\ ~(m <= i)
        BY <1>2, <3>3
      <4> QED
        BY <3>3, <4>1
    <3>6. r[m] \notin Redundant(credit, r)
      <4> SUFFICES ASSUME r[m] \in Redundant(credit, r) PROVE FALSE
        OBVIOUS
      <4>1. PICK i \in D : /\ r[m] = r[i]
                           /\ credit[r[i]] \subseteq
                                UNION {credit[r[j]] : j \in 1 .. i - 1}
        BY <1>2 DEF Redundant
      <4>2. i = m
        BY <1>1, <3>3, <4>1
      <4> QED
        BY <3>4, <3>5, <4>1, <4>2
    <3> QED
      BY <3>4, <3>6
  <2> QED
    BY <2>1, <2>2
<1> QED
  BY <1>3

(* The ELFs listed as redundant can be dropped all together, for any tie.  *)
THEOREM RedundantIsDroppable == Spec => []RedundantCanBeDropped
<1>1. IInv => RedundantCanBeDropped
  <2> DEFINE credit == [e \in DOMAIN alone |-> alone[e] \cap report.covered]
  <2> SUFFICES ASSUME IInv, report.kind = "replay", perElf,
                      NEW r \in Rankings(credit)
               PROVE  UNION {credit[e] : e \in DOMAIN credit \ Redundant(credit, r)}
                        = report.covered
    BY DEF RedundantCanBeDropped
  <2>1. since \subseteq DOMAIN alone
    BY DEF IInv, AllCredited
  <2>2. \A e \in DOMAIN alone : alone[e] = IF e \in since THEN Reach[e] ELSE {}
    BY DEF IInv, EachElfAlone
  <2>3. report.covered \subseteq ReachedBy(since)
    BY DEF IInv, SuiteTotalIsTrue
  <2>4. UNION {credit[e] : e \in DOMAIN credit} = report.covered
    BY <2>1, <2>2, <2>3 DEF ReachedBy
  <2>5. IsFiniteSet(DOMAIN credit)
    BY ElfsAssumption, FS_Subset DEF IInv, TypeOK
  <2> HIDE DEF credit
  <2> QED
    BY <2>4, <2>5, RedundantLosesNothing
<1> QED
  BY Invariance, <1>1, PTL
=============================================================================
