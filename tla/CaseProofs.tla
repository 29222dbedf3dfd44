------------------------------ MODULE CaseProofs ------------------------------
(***************************************************************************)
(* Theorems about the case runners, for any configurations, corpora and    *)
(* harts: the address the emitted opcodes build is the one asked for; what *)
(* a run tallies is of the cases behind it, each once; a case whose        *)
(* generation failed is never counted as passing; and the index of a       *)
(* complete run keeps the negative controls.  That the cases themselves    *)
(* expect the right thing is in VerdictProofs.                             *)
(***************************************************************************)
EXTENDS CaseProps, SequenceTheorems, TLAPS

(* The ids of the cases behind the current one.                            *)
Behind == {Corpus[k].id : k \in 1 .. pos - 1}

InRange == /\ pc = "idle" => pos = 0
           /\ pc = "case" => pos \in 1 .. Len(Corpus) + 1
           /\ pc = "judge" => pos \in 1 .. Len(Corpus)
ElfTyped == elf \in [Ids[prog] -> DOMAIN Configs \cup {0}]
ElfsAreNamed == \A id \in Ids[prog] : elf[id] # 0 => id \in IdsOf[prog][elf[id]]
WorldTyped ==
    /\ prog \in Programs /\ defect \in Bugs[prog] \cup {"none"}
    /\ config \in DOMAIN Configs /\ file \in DOMAIN Configs
    /\ pc \in {"idle", "case", "judge"} /\ only \in {"all", "first"}
Counted == runs \in 0 .. MaxRuns /\ faults \in 0 .. MaxFaults
Once == passed \cap bad = {} /\ (passed \cup bad) \cap failed = {}
Known == passed \cup bad \cup failed \cup manifests \cup index \cup fresh \cup broken \subseteq Ids[prog]

(* What is tallied is behind; a failed case of a runner is left behind.    *)
TallyIsBehind ==
    pc # "idle" => /\ passed \cup bad \cup failed \subseteq Behind
                   /\ ~IsScenario(prog) => broken \subseteq Behind
JudgesFresh == pc = "judge" /\ faults = 0 => Current.id \in fresh

IInv ==
    /\ WorldTyped
    /\ ElfTyped
    /\ ElfsAreNamed
    /\ Counted
    /\ Once
    /\ Known
    /\ InRange
    /\ TallyIsBehind
    /\ JudgesFresh
    /\ FailuresNeverPass

(* The scenarios that a run at this XLEN records.                          *)
Recordable ==
    IF IsScenario(prog)
    THEN {Scenarios[k].id : k \in {j \in DOMAIN Scenarios : ~SkippedAt(Xlen, Scenarios[j])}}
    ELSE {}
OnlyRecordable == manifests \cup index \subseteq Recordable
ListedHasElf ==
    faults = 0 => /\ \A id \in index : elf[id] # 0
                  /\ pc # "idle" => \A id \in manifests : elf[id] # 0
(* A complete run without a fault has recorded every scenario it has       *)
(* passed that is not skipped.                                             *)
AllRecorded ==
    faults = 0 /\ pc # "idle" /\ only = "all" /\ IsScenario(prog) =>
        \A k \in DOMAIN Scenarios :
            /\ k < pos \/ (k = pos /\ pc = "judge")
            /\ ~SkippedAt(Xlen, Scenarios[k])
            => Scenarios[k].id \in manifests

(* What the index needs on top of IInv.                                    *)
IndexInv == OnlyRecordable /\ ListedHasElf /\ AllRecorded

-----------------------------------------------------------------------------

(* lui, slli, srli, addi: the carry into the high part makes up for the    *)
(* sign of the low one, up to the last 2048 addresses of the word.         *)
THEOREM AddressesArrive ==
    ASSUME NEW addr \in Nat, addr <= WordSize - 2049
    PROVE  Materialise(addr) = addr
<1> DEFINE low == addr % 4096
           hi == addr \div 4096
<1>1. WordSize \in Nat \ {0}
  BY CorporaAssumption
<1>2. low \in 0 .. 4095 /\ hi \in Nat /\ addr = hi * 4096 + low
  OBVIOUS
<1>3. CASE low >= 2048
  <2>1. (hi + 1) * 4096 = addr - low + 4096
    BY <1>2
  <2>2. (hi + 1) * 4096 \in 0 .. WordSize - 1
    BY <1>1, <1>2, <1>3, <2>1
  <2>3. ((hi + 1) * 4096) % WordSize = (hi + 1) * 4096
    BY <1>1, <2>2
  <2> QED
    BY <1>2, <1>3, <2>1, <2>3 DEF Materialise
<1>4. CASE low < 2048
  <2>1. hi * 4096 \in 0 .. WordSize - 1
    BY <1>1, <1>2
  <2>2. (hi * 4096) % WordSize = hi * 4096
    BY <1>1, <2>1
  <2> QED
    BY <1>2, <1>4, <2>2 DEF Materialise
<1> QED
  BY <1>2, <1>3, <1>4

(* The case at hand has a name of its own, which an ELF may have.          *)
LEMMA CurrentIsKnown ==
    ASSUME WorldTyped, pos \in 1 .. Len(Corpus)
    PROVE  /\ Current.id \in IdsOf[prog][file] /\ Current.id \in Ids[prog]
           /\ Current.id \notin Behind
<1> USE DEF WorldTyped
<1>1. /\ Len(Corpora[prog][file]) \in Nat
      /\ DOMAIN Corpora[prog][file] = 1 .. Len(Corpora[prog][file])
      /\ \A j, k \in DOMAIN Corpora[prog][file] :
            Corpora[prog][file][j].id = Corpora[prog][file][k].id => j = k
  BY CorporaAssumption
<1>2. Current.id \in IdsOf[prog][file]
  BY <1>1 DEF Current, Corpus, IdsOf, Names
<1>3. Current.id \in Ids[prog]
  BY <1>2 DEF Ids
<1>4. Current.id \notin Behind
  <2> SUFFICES ASSUME NEW k \in 1 .. pos - 1, Current.id = Corpus[k].id PROVE FALSE
    BY DEF Behind
  <2>1. k \in 1 .. Len(Corpus) /\ k # pos
    BY <1>1 DEF Corpus
  <2> QED
    BY <1>1, <2>1 DEF Current, Corpus
<1> QED
  BY <1>2, <1>3, <1>4

(* A corpus has a length.                                                  *)
LEMMA LenCorpus == ASSUME WorldTyped PROVE Len(Corpus) \in Nat
BY CorporaAssumption DEF WorldTyped, Corpus

(* One position on, the case at hand is behind, too.                       *)
LEMMA BehindGrows ==
    ASSUME WorldTyped, pos \in 1 .. Len(Corpus), pos' = pos + 1, prog' = prog, file' = file
    PROVE  Behind' = Behind \cup {Current.id}
<1>1. Corpus' = Corpus
  BY DEF Corpus
<1>2. 1 .. pos' - 1 = (1 .. pos - 1) \cup {pos}
  BY LenCorpus
<1> QED
  BY <1>1, <1>2 DEF Behind, Current

(* What is behind depends on the corpus and the position only.             *)
LEMMA BehindStays ==
    ASSUME pos' = pos, prog' = prog, file' = file
    PROVE  Behind' = Behind /\ Current' = Current
BY DEF Behind, Current, Corpus

(* The initial state satisfies the invariant; then one lemma per action.   *)
LEMMA InitIInv == Init => IInv
<1> SUFFICES ASSUME Init PROVE IInv
  OBVIOUS
<1> USE DEF Init
<1>1. WorldTyped /\ ElfTyped /\ ElfsAreNamed
  BY DEF WorldTyped, ElfTyped, ElfsAreNamed
<1>2. Counted
  BY CorporaAssumption DEF Counted
<1>3. Once /\ Known
  BY DEF Once, Known
<1>4. InRange /\ TallyIsBehind /\ JudgesFresh /\ FailuresNeverPass
  BY DEF InRange, TallyIsBehind, JudgesFresh, FailuresNeverPass
<1> QED
  BY <1>1, <1>2, <1>3, <1>4 DEF IInv

(* Between two runs.                                                       *)
LEMMA IdleIInv ==
    ASSUME IInv, (\E c \in DOMAIN Configs : Reconfigure(c)) \/ Derive \/ Clean
    PROVE  IInv'
<1> USE DEF IInv, Reconfigure, Derive, Clean, world, tally, history
<1>1. /\ pc = "idle" /\ pc' = "idle" /\ pos' = pos /\ prog' = prog
      /\ UNCHANGED <<passed, bad, failed, broken, fresh, faults, runs, manifests>>
  OBVIOUS
<1>2. WorldTyped'
  BY DEF WorldTyped
<1>3. ElfTyped' /\ ElfsAreNamed'
  BY DEF ElfTyped, ElfsAreNamed
<1>4. Counted' /\ Once'
  BY <1>1 DEF Counted, Once
<1>5. Known'
  BY <1>1 DEF Known
<1>6. InRange' /\ TallyIsBehind' /\ JudgesFresh' /\ FailuresNeverPass'
  BY <1>1 DEF InRange, TallyIsBehind, JudgesFresh, FailuresNeverPass, IsScenario
<1> QED
  BY <1>2, <1>3, <1>4, <1>5, <1>6

(* A run begins with an empty tally.                                       *)
LEMMA BeginIInv == ASSUME IInv, NEW filter \in {"all", "first"}, Begin(filter) PROVE IInv'
<1> USE DEF IInv, Begin, world
<1>1. WorldTyped' /\ ElfTyped' /\ ElfsAreNamed'
  BY DEF WorldTyped, ElfTyped, ElfsAreNamed
<1>2. Counted'
  BY CorporaAssumption DEF Counted
<1>3. Once' /\ Known'
  BY DEF Once, Known
<1>4. InRange'
  BY LenCorpus DEF InRange, Corpus
<1>5. TallyIsBehind' /\ JudgesFresh' /\ FailuresNeverPass'
  BY DEF TallyIsBehind, JudgesFresh, FailuresNeverPass
<1> QED
  BY <1>1, <1>2, <1>3, <1>4, <1>5

(* The position moves on, and the tally with it at most.                   *)
LEMMA MovesOn ==
    ASSUME IInv, pos \in 1 .. Len(Corpus), pos' = pos + 1, pc' = "case",
           UNCHANGED <<world, only>>,
           passed' \cup bad' \cup failed' \subseteq passed \cup bad \cup failed \cup {Current.id},
           broken' \subseteq broken \cup {Current.id}
    PROVE  WorldTyped' /\ InRange' /\ TallyIsBehind' /\ JudgesFresh' /\ Behind \subseteq Behind'
<1> USE DEF IInv, world
<1>1. Behind' = Behind \cup {Current.id}
  BY BehindGrows
<1>2. WorldTyped'
  BY DEF WorldTyped
<1>3. InRange'
  BY LenCorpus DEF InRange, Corpus
<1>4. pc # "idle"
  BY DEF InRange
<1>5. TallyIsBehind'
  BY <1>1, <1>4 DEF TallyIsBehind, IsScenario
<1> QED
  BY <1>1, <1>2, <1>3, <1>5 DEF JudgesFresh

(* A case that is not wanted is left behind untried.                       *)
LEMMA SkipIInv == ASSUME IInv, Skip PROVE IInv'
<1> USE DEF IInv, Skip, AtCase, world, tally, history
<1>1. pos \in 1 .. Len(Corpus)
  BY LenCorpus DEF InRange
<1>2. WorldTyped' /\ InRange' /\ TallyIsBehind' /\ JudgesFresh'
  BY <1>1, MovesOn
<1>3. ElfTyped' /\ ElfsAreNamed' /\ Counted'
  BY DEF ElfTyped, ElfsAreNamed, Counted
<1>4. Once' /\ Known' /\ FailuresNeverPass'
  BY DEF Once, Known, FailuresNeverPass, IsScenario
<1> QED
  BY <1>2, <1>3, <1>4

(* Generation, as it succeeds, fails or writes nothing.                    *)
LEMMA GenerateIInv == ASSUME IInv, Generate PROVE IInv'
<1> USE DEF IInv, Generate, AtCase, world, tally
<1>1. pos \in 1 .. Len(Corpus)
  BY LenCorpus DEF InRange
<1>2. Current.id \in IdsOf[prog][file] /\ Current.id \in Ids[prog]
  BY <1>1, CurrentIsKnown
<1>3. WorldTyped' /\ Counted'
  BY DEF WorldTyped, Counted
<1>4. ElfTyped'
  BY <1>2 DEF ElfTyped, WorldTyped
<1>5. ElfsAreNamed'
  BY <1>2 DEF ElfTyped, ElfsAreNamed
<1>6. Once'
  BY DEF Once
<1>7. Known'
  BY <1>2 DEF Known
<1>8. Behind' = Behind /\ Current' = Current /\ Corpus' = Corpus
  BY BehindStays DEF Corpus
<1>9. InRange' /\ TallyIsBehind' /\ JudgesFresh'
  BY <1>1, <1>8 DEF InRange, TallyIsBehind, JudgesFresh, IsScenario
<1>10. FailuresNeverPass'
  BY DEF FailuresNeverPass, IsScenario
<1> QED
  BY <1>3, <1>4, <1>5, <1>6, <1>7, <1>9, <1>10

(* A failure is recorded and left behind; a scenario is judged.            *)
LEMMA FailureIInv == ASSUME IInv, GenerateFails \/ GeneratesNothing PROVE IInv'
<1> USE DEF IInv, world
<1>1. /\ AtCase /\ faults' = faults + 1 /\ faults < MaxFaults
      /\ UNCHANGED <<world, only, elf, passed, bad, index, runs, fresh>>
  BY DEF GenerateFails, GeneratesNothing, history
<1>2. pos \in 1 .. Len(Corpus) /\ pc = "case"
  BY <1>1, LenCorpus DEF InRange, AtCase
<1>3. Current.id \in Ids[prog] /\ Current.id \notin Behind
  BY <1>2, CurrentIsKnown
<1>4. WorldTyped'
  BY <1>1, <1>2 DEF WorldTyped, GenerateFails, GeneratesNothing
<1>5. ElfTyped' /\ ElfsAreNamed'
  BY <1>1 DEF ElfTyped, ElfsAreNamed
<1>6. Counted' /\ faults' > 0
  BY <1>1, CorporaAssumption DEF Counted
<1>7. failed' \subseteq failed \cup {Current.id} /\ broken' \subseteq broken \cup {Current.id}
  BY DEF GenerateFails, GeneratesNothing, history
<1>8. Once' /\ Known'
  <2>1. Current.id \notin passed \cup bad
    BY <1>2, <1>3 DEF TallyIsBehind
  <2>2. manifests' \subseteq manifests \cup {Current.id}
    BY DEF GenerateFails, GeneratesNothing
  <2>3. Once'
    BY <1>1, <1>7, <2>1 DEF Once
  <2>4. Known'
    BY <1>1, <1>3, <1>7, <2>2 DEF Known
  <2> QED
    BY <2>3, <2>4
<1>9. FailuresNeverPass'
  <2>1. Current.id \notin passed
    BY <1>2, <1>3 DEF TallyIsBehind
  <2> QED
    BY <1>1, <1>6, <1>7, <2>1 DEF FailuresNeverPass, IsScenario
<1>10. CASE pos' = pos + 1 /\ pc' = "case"
  <2>1. InRange' /\ TallyIsBehind' /\ JudgesFresh'
    BY <1>1, <1>2, <1>7, <1>10, MovesOn
  <2> QED
    BY <1>4, <1>5, <1>6, <1>8, <1>9, <2>1
<1>11. CASE pos' = pos /\ pc' = "judge" /\ failed' = failed /\ (~IsScenario(prog) => broken' = broken)
  <2>1. Behind' = Behind /\ Corpus' = Corpus
    BY <1>1, <1>11, BehindStays DEF Corpus
  <2>2. InRange' /\ TallyIsBehind' /\ JudgesFresh'
    BY <1>1, <1>2, <1>6, <1>11, <2>1 DEF InRange, TallyIsBehind, JudgesFresh, IsScenario, Counted
  <2> QED
    BY <1>4, <1>5, <1>6, <1>8, <1>9, <2>2
<1>12. \/ pos' = pos + 1 /\ pc' = "case"
       \/ pos' = pos /\ pc' = "judge" /\ failed' = failed /\ (~IsScenario(prog) => broken' = broken)
  BY <1>2 DEF GenerateFails, GeneratesNothing, history
<1> QED
  BY <1>10, <1>11, <1>12

(* A verdict is given once.                                                *)
LEMMA JudgeIInv == ASSUME IInv, Judge PROVE IInv'
<1> USE DEF IInv, Judge, world, history
<1>1. pos \in 1 .. Len(Corpus)
  BY DEF InRange
<1>2. Current.id \in Ids[prog] /\ Current.id \notin Behind
  BY <1>1, CurrentIsKnown
<1>3. Current.id \notin passed \cup bad \cup failed
  BY <1>2 DEF TallyIsBehind
<1>4. /\ passed' \subseteq passed \cup {Current.id} /\ bad' \subseteq bad \cup {Current.id}
      /\ passed' = passed \/ bad' = bad
  OBVIOUS
<1>5. WorldTyped' /\ InRange' /\ TallyIsBehind' /\ JudgesFresh'
  BY <1>1, <1>4, MovesOn
<1>6. ElfTyped' /\ ElfsAreNamed' /\ Counted'
  BY DEF ElfTyped, ElfsAreNamed, Counted
<1>7. Once' /\ Known'
  BY <1>2, <1>3, <1>4 DEF Once, Known
<1>8. FailuresNeverPass'
  BY <1>2, <1>4 DEF FailuresNeverPass, TallyIsBehind, JudgesFresh, IsScenario
<1> QED
  BY <1>5, <1>6, <1>7, <1>8

(* The run is over: the tally stays, and the index is of what it recorded  *)
(* and of what was there.                                                  *)
LEMMA EndIInv == ASSUME IInv, Finish \/ Die PROVE IInv'
<1> USE DEF IInv, Finish, Die, world, tally, history
<1>1. /\ pc' = "idle" /\ pos' = 0 /\ faults \in 0 .. MaxFaults /\ faults' \in {faults, faults + 1}
      /\ UNCHANGED <<prog, defect, config, file, only, elf, passed, bad, failed, broken, fresh, runs>>
      /\ index' \subseteq manifests \cup index /\ manifests' = manifests
  BY DEF Counted
<1>2. WorldTyped' /\ ElfTyped' /\ ElfsAreNamed'
  BY <1>1 DEF WorldTyped, ElfTyped, ElfsAreNamed
<1>3. Counted'
  BY CorporaAssumption DEF Counted
<1>4. Once' /\ Known'
  BY <1>1 DEF Once, Known
<1>5. InRange' /\ TallyIsBehind' /\ JudgesFresh'
  BY <1>1 DEF InRange, TallyIsBehind, JudgesFresh
<1>6. FailuresNeverPass'
  BY <1>1 DEF FailuresNeverPass, IsScenario
<1> QED
  BY <1>2, <1>3, <1>4, <1>5, <1>6

(* A step that changes nothing.                                            *)
LEMMA StutterIInv == ASSUME IInv, UNCHANGED vars PROVE IInv'
<1> USE DEF IInv, vars, world, tally, history
<1>1. WorldTyped' /\ ElfTyped' /\ ElfsAreNamed' /\ Counted' /\ Once' /\ Known'
  BY DEF WorldTyped, ElfTyped, ElfsAreNamed, Counted, Once, Known
<1>2. Behind' = Behind /\ Current' = Current /\ Corpus' = Corpus
  BY BehindStays DEF Corpus
<1>3. InRange' /\ TallyIsBehind' /\ JudgesFresh' /\ FailuresNeverPass'
  BY <1>2 DEF InRange, TallyIsBehind, JudgesFresh, FailuresNeverPass, IsScenario
<1> QED
  BY <1>1, <1>3

(* Every step keeps the invariant.                                         *)
LEMMA NextIInv == IInv /\ [Next]_vars => IInv'
<1> SUFFICES ASSUME IInv, [Next]_vars PROVE IInv'
  OBVIOUS
<1>1. CASE (\E c \in DOMAIN Configs : Reconfigure(c)) \/ Derive \/ Clean
  BY <1>1, IdleIInv
<1>2. CASE \E filter \in {"all", "first"} : Begin(filter)
  BY <1>2, BeginIInv
<1>3. CASE Skip \/ Generate \/ Judge
  BY <1>3, SkipIInv, GenerateIInv, JudgeIInv
<1>4. CASE GenerateFails \/ GeneratesNothing
  BY <1>4, FailureIInv
<1>5. CASE Finish \/ Die
  BY <1>5, EndIInv
<1>6. CASE UNCHANGED vars
  BY <1>6, StutterIInv
<1> QED
  BY <1>1, <1>2, <1>3, <1>4, <1>5, <1>6 DEF Next

(* The inductive invariant, in every reachable state.                      *)
THEOREM Invariance == Spec => []IInv
<1> QED
  BY InitIInv, NextIInv, PTL DEF Spec

(* Type correctness of the runners, the ELFs and the tally.                *)
THEOREM TypeCorrect == Spec => []TypeOK
<1>1. IInv => TypeOK
  <2> SUFFICES ASSUME IInv PROVE TypeOK
    OBVIOUS
  <2>1. pos \in 0 .. Len(Corpus) + 1
    BY LenCorpus DEF IInv, InRange, WorldTyped
  <2> QED
    BY <2>1 DEF IInv, TypeOK, WorldTyped, ElfsAreNamed, Counted, Once, Known
<1> QED
  BY Invariance, <1>1, PTL

(* No runner counts a case as passing whose generation failed in this run; *)
(* without a failure, only what this run generated passes.                 *)
THEOREM PassesAreGenerated == Spec => []FailuresNeverPass
<1>1. IInv => FailuresNeverPass
  BY DEF IInv
<1> QED
  BY Invariance, <1>1, PTL

-----------------------------------------------------------------------------

(* Every element of s is one of t.                                         *)
Members(s, t) == \A i \in DOMAIN s : \E k \in DOMAIN t : t[k] = s[i]

(* Both parts of a concatenation are found in it.                          *)
LEMMA Appended ==
    ASSUME NEW S, NEW s \in Seq(S), NEW t \in Seq(S)
    PROVE  s \o t \in Seq(S) /\ Members(s, s \o t) /\ Members(t, s \o t)
<1>1. /\ s \o t \in Seq(S) /\ Len(s \o t) = Len(s) + Len(t)
      /\ \A i \in 1 .. Len(s) + Len(t) : (s \o t)[i] = IF i <= Len(s) THEN s[i] ELSE t[i - Len(s)]
  BY ConcatProperties
<1>2. DOMAIN (s \o t) = 1 .. Len(s) + Len(t) /\ DOMAIN s = 1 .. Len(s) /\ DOMAIN t = 1 .. Len(t)
      /\ Len(s) \in Nat /\ Len(t) \in Nat
  BY <1>1, LenProperties
<1>3. ASSUME NEW i \in DOMAIN s PROVE i \in 1 .. Len(s) + Len(t) /\ (s \o t)[i] = s[i]
  BY <1>1, <1>2
<1>4. ASSUME NEW i \in DOMAIN t
      PROVE  Len(s) + i \in 1 .. Len(s) + Len(t) /\ (s \o t)[Len(s) + i] = t[i]
  <2>1. Len(s) + i \in 1 .. Len(s) + Len(t) /\ (Len(s) + i) - Len(s) = i /\ ~(Len(s) + i <= Len(s))
    BY <1>2
  <2> QED
    BY <1>1, <2>1
<1>5. Members(s, s \o t)
  BY <1>2, <1>3 DEF Members
<1>6. Members(t, s \o t)
  BY <1>2, <1>4 DEF Members
<1> QED
  BY <1>1, <1>5, <1>6

(* A scenario of a group is one of those a run goes through.               *)
LEMMA GroupsAreListed ==
    /\ \A g \in Groups : \A i \in DOMAIN g : \E k \in DOMAIN Scenarios : Scenarios[k] = g[i]
    /\ Len(Scenarios) \in Nat /\ DOMAIN Scenarios = 1 .. Len(Scenarios)
<1> DEFINE S == UNION {{g[i] : i \in DOMAIN g} : g \in Groups}
           G2 == Privilege \o Protection
           G3 == G2 \o Delivery
           G4 == G3 \o Paging
<1> DEFINE Of(g) == g = [i \in 1 .. Len(g) |-> g[i]] /\ Len(g) \in Nat
<1>1. /\ Privilege \in Seq(S) /\ Protection \in Seq(S) /\ Delivery \in Seq(S)
      /\ Paging \in Seq(S) /\ Attributes \in Seq(S)
  <2>1. \A g \in Groups : \A i \in DOMAIN g : g[i] \in S
    OBVIOUS
  <2>2. Of(Privilege) /\ DOMAIN Privilege = 1 .. Len(Privilege)
    BY DEF Privilege
  <2>3. Of(Protection) /\ DOMAIN Protection = 1 .. Len(Protection)
    BY DEF Protection
  <2>4. Of(Delivery) /\ DOMAIN Delivery = 1 .. Len(Delivery)
    BY DEF Delivery
  <2>5. Of(Paging) /\ DOMAIN Paging = 1 .. Len(Paging)
    BY DEF Paging
  <2>6. Of(Attributes) /\ DOMAIN Attributes = 1 .. Len(Attributes)
    BY DEF Attributes
  <2>a. ASSUME NEW g \in Groups, Of(g), DOMAIN g = 1 .. Len(g) PROVE g \in Seq(S)
    <3>1. g \in [1 .. Len(g) -> S] /\ Len(g) \in Nat
      BY <2>1, <2>a
    <3> QED
      BY <3>1
  <2>7. Groups = {Privilege, Protection, Delivery, Paging, Attributes}
    BY DEF Groups
  <2> HIDE DEF S
  <2> QED
    BY <2>1, <2>2, <2>3, <2>4, <2>5, <2>6, <2>7, <2>a
<1> HIDE DEF S
<1>2. G2 \in Seq(S) /\ G3 \in Seq(S) /\ G4 \in Seq(S)
  BY <1>1, ConcatProperties
<1>3. Scenarios = G4 \o Attributes
  BY DEF Scenarios
<1> HIDE DEF G2, G3, G4
<1>4. Members(G4, Scenarios) /\ Members(Attributes, Scenarios)
  BY <1>1, <1>2, <1>3, Appended
<1>5. Members(G3, G4) /\ Members(Paging, G4)
  BY <1>1, <1>2, Appended DEF G4
<1>6. Members(G2, G3) /\ Members(Delivery, G3)
  BY <1>1, <1>2, Appended DEF G3
<1>7. Members(Privilege, G2) /\ Members(Protection, G2)
  BY <1>1, <1>2, Appended DEF G2
<1> QED
  <2>1. Scenarios \in Seq(S)
    BY <1>1, <1>2, <1>3, Appended
  <2>2. Len(Scenarios) \in Nat /\ DOMAIN Scenarios = 1 .. Len(Scenarios)
    BY <2>1, LenProperties
  <2> QED
    BY <1>4, <1>5, <1>6, <1>7, <2>2 DEF Groups, Members
(* Each group has a control that is skipped only where all of it is.       *)
LEMMA ControlsOutlast ==
    \A g \in Groups : \E c \in DOMAIN g :
        /\ IsControl(g[c])
        /\ \A xlen \in {32, 64} : SkippedAt(xlen, g[c]) =>
              \A i \in DOMAIN g : SkippedAt(xlen, g[i])
<1> USE DEF Good, Control, Scenario, IsControl, IsPma, SkippedAt
<1>1. 9 \in DOMAIN Privilege /\ IsControl(Privilege[9]) /\ ~SkippedAt(32, Privilege[9])
  BY DEF Privilege
<1>2. 7 \in DOMAIN Protection /\ IsControl(Protection[7]) /\ ~SkippedAt(32, Protection[7])
  BY DEF Protection
<1>3. 3 \in DOMAIN Delivery /\ IsControl(Delivery[3]) /\ ~SkippedAt(32, Delivery[3])
  BY DEF Delivery
<1>4. 4 \in DOMAIN Paging /\ IsControl(Paging[4]) /\ ~SkippedAt(32, Paging[4])
  BY DEF Paging
<1>5. /\ 2 \in DOMAIN Attributes /\ IsControl(Attributes[2])
      /\ \A i \in DOMAIN Attributes : SkippedAt(32, Attributes[i])
  BY DEF Attributes
<1>6. \A s : ~SkippedAt(64, s)
  OBVIOUS
<1> HIDE DEF SkippedAt, IsControl
<1> QED
  BY <1>1, <1>2, <1>3, <1>4, <1>5, <1>6 DEF Groups


(* The list of a scenario program is the pinned one.                       *)
LEMMA ScenarioCorpus == ASSUME WorldTyped, IsScenario(prog) PROVE Corpus = Scenarios
BY DEF WorldTyped, IsScenario, Programs, CasePrograms, Corpora, Corpus

(* No two scenarios share a name.                                          *)
LEMMA ScenariosAreNamed ==
    ASSUME WorldTyped, IsScenario(prog)
    PROVE  \A j, k \in DOMAIN Scenarios : Scenarios[j].id = Scenarios[k].id => j = k
BY ScenarioCorpus, CorporaAssumption DEF WorldTyped, Corpus

(* A scenario that is not skipped is one the index may list.               *)
LEMMA CurrentIsRecordable ==
    ASSUME WorldTyped, pos \in 1 .. Len(Corpus), ~Skipped, IsScenario(prog)
    PROVE  Current.id \in Recordable
BY ScenarioCorpus, GroupsAreListed DEF Skipped, Current, Recordable

(* Before any run the index is empty.                                      *)
LEMMA InitIndexInv == Init => IndexInv
BY DEF Init, IndexInv, OnlyRecordable, ListedHasElf, AllRecorded

(* Steps that change neither the manifests nor the index, delete no ELF    *)
(* and stay where they are, or stop.                                       *)
LEMMA KeepsIndexInv ==
    ASSUME IInv, IndexInv, UNCHANGED <<prog, index, manifests, elf, only>>,
           faults' \in {faults, faults + 1},
           pc' = "idle" \/ (pc' = pc /\ pos' = pos)
    PROVE  IndexInv'
<1> USE DEF IndexInv
<1>1. faults \in Nat /\ (faults' = 0 => faults = 0)
  BY DEF IInv, Counted
<1>2. Recordable' = Recordable /\ Xlen' = Xlen
  BY DEF Recordable, Xlen
<1>3. OnlyRecordable' /\ ListedHasElf'
  BY <1>1, <1>2 DEF OnlyRecordable, ListedHasElf
<1>4. AllRecorded'
  BY <1>1, <1>2 DEF AllRecorded
<1> QED
  BY <1>3, <1>4

(* Every step of the program and of its surroundings keeps IndexInv.       *)
LEMMA NextIndexInv == IInv /\ IndexInv /\ [Next]_vars => IndexInv'
<1> SUFFICES ASSUME IInv, IndexInv, [Next]_vars PROVE IndexInv'
  OBVIOUS
<1> USE DEF world, tally, history
<1>a. WorldTyped /\ faults \in Nat /\ (faults' \in {faults, faults + 1} /\ faults' = 0 => faults = 0)
  BY DEF IInv, Counted
<1>b. ASSUME prog' = prog PROVE Recordable' = Recordable /\ Xlen' = Xlen
  BY <1>b DEF Recordable, Xlen
<1>1. CASE (\E c \in DOMAIN Configs : Reconfigure(c)) \/ Derive \/ Die \/ UNCHANGED vars
  <2>1. /\ UNCHANGED <<prog, index, manifests, elf, only>>
        /\ faults' \in {faults, faults + 1}
        /\ pc' = "idle" \/ (pc' = pc /\ pos' = pos)
    BY <1>1 DEF Reconfigure, Derive, Die, vars
  <2> QED
    BY <2>1, KeepsIndexInv
<1>2. CASE Clean
  BY <1>b, <1>2 DEF Clean, IndexInv, OnlyRecordable, ListedHasElf, AllRecorded
<1>3. CASE \E filter \in {"all", "first"} : Begin(filter)
  <2>1. /\ prog' = prog /\ index' = index /\ elf' = elf /\ faults' = faults
        /\ manifests' = {} /\ pos' = 1 /\ pc' = "case"
    BY <1>3 DEF Begin
  <2>2. OnlyRecordable' /\ ListedHasElf'
    BY <1>b, <2>1 DEF IndexInv, OnlyRecordable, ListedHasElf
  <2>3. \A k \in DOMAIN Scenarios : ~(k < 1)
    BY GroupsAreListed
  <2> QED
    BY <2>1, <2>2, <2>3 DEF IndexInv, AllRecorded
<1>4. CASE Skip
  <2>1. /\ UNCHANGED <<prog, file, index, manifests, elf, only, faults, pc>> /\ pos' = pos + 1
        /\ pc = "case" /\ Skipped /\ pos \in 1 .. Len(Corpus)
    BY <1>4, <1>a, LenCorpus DEF Skip, AtCase, IInv, InRange
  <2>2. OnlyRecordable' /\ ListedHasElf'
    BY <1>b, <2>1 DEF IndexInv, OnlyRecordable, ListedHasElf
  <2>3. AllRecorded'
    <3> SUFFICES ASSUME faults = 0, only = "all", IsScenario(prog), NEW k \in DOMAIN Scenarios,
                        k < pos + 1, ~SkippedAt(Xlen, Scenarios[k])
                 PROVE  Scenarios[k].id \in manifests
      BY <1>b, <2>1 DEF AllRecorded, IsScenario
    <3>1. k # pos
      BY <2>1, <1>a, ScenarioCorpus DEF Skipped, Wanted, Current
    <3>2. k < pos
      BY <3>1, <2>1, GroupsAreListed
    <3> QED
      BY <3>2, <2>1 DEF IndexInv, AllRecorded
  <2> QED
    BY <2>2, <2>3 DEF IndexInv
<1>5. CASE Generate
  <2>1. /\ UNCHANGED <<prog, file, index, only, faults, pos>> /\ pc' = "judge"
        /\ pc = "case" /\ ~Skipped /\ pos \in 1 .. Len(Corpus)
        /\ manifests' = IF IsScenario(prog) THEN manifests \cup {Current.id} ELSE manifests
        /\ elf' = [elf EXCEPT ![Current.id] = file]
    BY <1>5, <1>a, LenCorpus DEF Generate, AtCase, IInv, InRange
  <2>2. IsScenario(prog) => Current.id \in Recordable
    BY <1>a, <2>1, CurrentIsRecordable
  <2>3. OnlyRecordable'
    BY <1>b, <2>1, <2>2 DEF IndexInv, OnlyRecordable
  <2>4. ListedHasElf'
    <3>1. file # 0 /\ Current.id \in Ids[prog] /\ elf \in [Ids[prog] -> DOMAIN Configs \cup {0}]
      BY <2>1, <1>a, CurrentIsKnown, CorporaAssumption DEF WorldTyped, IInv, ElfTyped
    <3>2. elf'[Current.id] # 0 /\ \A id \in Ids[prog] : elf[id] # 0 => elf'[id] # 0
      BY <2>1, <3>1
    <3>3. index \cup manifests \subseteq Ids[prog]
      BY DEF IInv, Known
    <3> QED
      BY <2>1, <3>2, <3>3 DEF IndexInv, ListedHasElf
  <2>5. AllRecorded'
    <3> SUFFICES ASSUME faults = 0, only = "all", IsScenario(prog), NEW k \in DOMAIN Scenarios,
                        k < pos \/ k = pos, ~SkippedAt(Xlen, Scenarios[k])
                 PROVE  Scenarios[k].id \in manifests'
      BY <1>b, <2>1 DEF AllRecorded, IsScenario
    <3>1. CASE k < pos
      BY <3>1, <2>1 DEF IndexInv, AllRecorded
    <3>2. CASE k = pos
      BY <3>2, <2>1, <1>a, ScenarioCorpus DEF Current
    <3> QED
      BY <3>1, <3>2
  <2> QED
    BY <2>3, <2>4, <2>5 DEF IndexInv
<1>6. CASE GenerateFails \/ GeneratesNothing
  <2>1. /\ UNCHANGED <<prog, file, index, elf, only>> /\ faults' = faults + 1
        /\ pc = "case" /\ ~Skipped /\ pos \in 1 .. Len(Corpus)
        /\ manifests' = manifests \/ (IsScenario(prog) /\ manifests' = manifests \cup {Current.id})
    BY <1>6, <1>a, LenCorpus DEF GenerateFails, GeneratesNothing, AtCase, IInv, InRange
  <2>2. IsScenario(prog) => Current.id \in Recordable
    BY <1>a, <2>1, CurrentIsRecordable
  <2> QED
    BY <1>a, <1>b, <2>1, <2>2 DEF IndexInv, OnlyRecordable, ListedHasElf, AllRecorded
<1>7. CASE Judge
  <2>1. /\ UNCHANGED <<prog, index, manifests, elf, only, faults>> /\ pc' = "case" /\ pos' = pos + 1
        /\ pc = "judge" /\ pos \in Nat
    BY <1>7, <1>a, LenCorpus DEF Judge, IInv, InRange
  <2>2. OnlyRecordable' /\ ListedHasElf'
    BY <1>b, <2>1 DEF IndexInv, OnlyRecordable, ListedHasElf
  <2>3. \A k \in DOMAIN Scenarios : k < pos + 1 => k < pos \/ k = pos
    BY <2>1, GroupsAreListed
  <2>4. AllRecorded'
    BY <1>b, <2>1, <2>3 DEF IndexInv, AllRecorded, IsScenario
  <2> QED
    BY <2>2, <2>4 DEF IndexInv
<1>8. CASE Finish
  <2>1. /\ UNCHANGED <<prog, manifests, elf, only, faults>> /\ pc = "case" /\ pc' = "idle"
        /\ index' \subseteq manifests \cup index
    BY <1>8 DEF Finish
  <2> QED
    BY <1>b, <2>1 DEF IndexInv, OnlyRecordable, ListedHasElf, AllRecorded
<1> QED
  BY <1>1, <1>2, <1>3, <1>4, <1>5, <1>6, <1>7, <1>8 DEF Next

(* What the program of a fault-free complete run writes at the end.        *)
LEMMA FinishKeepsControls ==
    ASSUME IInv, IndexInv, Finish, only = "all", faults = 0
    PROVE  /\ \A id \in index' : elf[id] # 0
           /\ \A g \in Groups : Names(g) \cap index' # {} =>
                 \E i \in DOMAIN g : IsControl(g[i]) /\ g[i].id \in index'
<1>1. /\ pc = "case" /\ pos > Len(Corpus) /\ prog' = prog
      /\ index' = manifests \cup
          {id \in index : \E g \in Groups : id \in Names(g) /\ Names(g) \cap manifests = {}}
  BY DEF Finish, world
<1>2. \A id \in index' : elf[id] # 0
  BY <1>1 DEF IndexInv, ListedHasElf
<1>3. index' \subseteq Recordable
  BY <1>1 DEF IndexInv, OnlyRecordable
<1>4. ASSUME NEW g \in Groups, Names(g) \cap index' # {}
      PROVE  \E i \in DOMAIN g : IsControl(g[i]) /\ g[i].id \in index'
  <2>1. PICK id \in index' : id \in Names(g)
    BY <1>4
  <2>2. IsScenario(prog) /\ id \in Recordable
    BY <1>3, <2>1 DEF Recordable
  <2>3. WorldTyped /\ Corpus = Scenarios /\ Len(Scenarios) \in Nat
        /\ DOMAIN Scenarios = 1 .. Len(Scenarios) /\ Xlen \in {32, 64}
    BY <2>2, ScenarioCorpus, GroupsAreListed DEF IInv, Xlen
  <2>4. PICK j \in DOMAIN Scenarios : id = Scenarios[j].id /\ ~SkippedAt(Xlen, Scenarios[j])
    BY <2>2 DEF Recordable
  <2>5. PICK i \in DOMAIN g : id = g[i].id
    BY <2>1 DEF Names
  <2>6. PICK k \in DOMAIN Scenarios : Scenarios[k] = g[i]
    BY GroupsAreListed
  <2>7. j = k
    <3>1. Scenarios[j].id = Scenarios[k].id
      BY <2>4, <2>5, <2>6
    <3>2. \A a, b \in DOMAIN Scenarios : Scenarios[a].id = Scenarios[b].id => a = b
      BY <2>2, <2>3, ScenariosAreNamed
    <3> QED
      BY <3>1, <3>2
  <2>8. PICK c \in DOMAIN g : /\ IsControl(g[c])
                              /\ SkippedAt(Xlen, g[c]) => SkippedAt(Xlen, g[i])
    BY <2>3, ControlsOutlast
  <2>9. ~SkippedAt(Xlen, g[c])
    BY <2>4, <2>6, <2>7, <2>8
  <2>10. PICK n \in DOMAIN Scenarios : Scenarios[n] = g[c]
    BY GroupsAreListed
  <2>11. n < pos
    BY <1>1, <2>3 DEF IInv, InRange
  <2>12. g[c].id \in manifests
    BY <1>1, <2>2, <2>9, <2>10, <2>11 DEF IndexInv, AllRecorded
  <2> QED
    BY <1>1, <2>8, <2>12
<1> QED
  BY <1>2, <1>4

(* The index a complete run without a fault writes has, for every group it *)
(* lists a test of, a negative control, and an ELF for all it lists.       *)
THEOREM ControlsAreKept == Spec => IndexKeepsControls
<1> DEFINE Ends == pc = "case" /\ pc' = "idle" /\ pos > Len(Corpus) /\ only = "all" /\ faults' = 0
           Kept == /\ \A id \in index' : elf[id] # 0
                   /\ \A g \in Groups : Names(g) \cap index' # {} =>
                         \E i \in DOMAIN g : IsControl(g[i]) /\ g[i].id \in index'
<1>1. IInv /\ IndexInv /\ [Next]_vars => [Ends => Kept]_vars
  <2> SUFFICES ASSUME IInv, IndexInv, Next, Ends PROVE Kept
    BY DEF vars
  <2>1. Finish
    <3>1. ~Die
      BY DEF Die, IInv, Counted
    <3>2. /\ ~Reconfigure(config') /\ ~Derive /\ ~Clean /\ ~Skip /\ ~Generate /\ ~Judge
          /\ ~GenerateFails /\ ~GeneratesNothing
          /\ \A c \in DOMAIN Configs : ~Reconfigure(c)
          /\ \A filter \in {"all", "first"} : ~Begin(filter)
      BY DEF Reconfigure, Derive, Clean, Begin, Skip, Generate, GenerateFails,
             GeneratesNothing, Judge
    <3> QED
      BY <3>1, <3>2 DEF Next
  <2>2. faults = 0
    BY <2>1 DEF Finish
  <2> HIDE DEF Kept
  <2> QED
    BY <2>1, <2>2, FinishKeepsControls DEF Kept
<1>2. Spec => []IndexInv
  BY Invariance, InitIndexInv, NextIndexInv, PTL DEF Spec
<1>3. IndexKeepsControls <=> [][Ends => Kept]_vars
  BY DEF IndexKeepsControls
<1> HIDE DEF Ends, Kept
<1> QED
  BY <1>1, <1>2, <1>3, Invariance, PTL DEF Spec
=============================================================================
