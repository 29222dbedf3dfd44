------------------------------ MODULE PlanProofs ------------------------------
(***************************************************************************)
(* Theorems about the runs of testplan.py, for any models, corpora, scopes *)
(* and exclusions: types; that a run which is refused leaves the plan that *)
(* is there; that a plan counts every span of the sources on disk as it    *)
(* is; that the gate lets no new target through; that a helper's span      *)
(* names instructions that reach it; and that a row names the place of its *)
(* line.  The last two are about the index: a search over callers, and two *)
(* stacks that follow the depth of the braces.                             *)
(***************************************************************************)
EXTENDS TestPlanProps, FiniteSetTheorems, WellFoundedInduction, TLAPS

WorldTyped ==
    /\ source \in DOMAIN Model /\ DOMAIN mtime = DOMAIN Model[source]
    /\ manifest.built \in DOMAIN Model /\ log.of \in DOMAIN Model /\ spared \in DOMAIN Model
Dated == /\ clock \in Nat
         /\ manifest.time \in 1 .. clock /\ log.time \in 1 .. clock
         /\ \A f \in DOMAIN mtime : mtime[f] \in 1 .. clock
KeptTyped == kept = Nothing \/ kept.version > 0
LeavesTyped == /\ leaves = [l \in Leaf |-> leaves[l]]
               /\ \A l \in Leaf : leaves[l] \in {Absent, Torn} \/ leaves[l].version > 0
RunTyped ==
    /\ pc \in {"idle", "read", "exit"} \cup Leaf
    /\ args \in Arguments \cup {NoArgs}
    /\ outcome \in {"none", "refused", "killed", "ok", "new holes", "needs baseline"}
Counted == runs \in 0 .. MaxRuns /\ kills \in 0 .. MaxKills /\ events \in 0 .. MaxEvents

(* What is being written was read from a model on the disk; until then the *)
(* leaves are those the run found.                                         *)
InputsTyped == pc \in Leaf => inputs.version \in DOMAIN Model
NotYetWritten == pc = "read" => leaves = before

IInv ==
    /\ WorldTyped
    /\ Dated
    /\ KeptTyped
    /\ LeavesTyped
    /\ RunTyped
    /\ Counted
    /\ InputsTyped
    /\ NotYetWritten
    /\ RefusalKeepsPlan

(* A file that is not newer than the manifest is as it was built; a log    *)
(* that is not older than the manifest was replayed on that build.         *)
UnchangedFiles ==
    \A f \in DOMAIN mtime : mtime[f] <= manifest.time =>
        f \in DOMAIN Model[manifest.built] /\ Model[manifest.built][f] = Model[source][f]
LogIsOfBuild == log.time >= manifest.time => log.of = manifest.built
BuildIsEdited == IF source \in Edited THEN manifest.built \in Edited
                 ELSE manifest.built = source /\ events = MaxEvents

(* A plan is of a build, wherever it is kept.                              *)
IsPlan(m) == m \in {Nothing, Absent, Torn} \/ m.built \in DOMAIN Model
PlansTyped == IsPlan(kept) /\ \A l \in Leaf : IsPlan(leaves[l]) /\ IsPlan(before[l])

(* The baseline that was asked for, as it was when the run began.          *)
Chosen == IF args.baseline = "own" THEN before["json"] ELSE kept
(* What a run past its checks works from is what is on the disk.           *)
FromDisk ==
    pc \in Leaf \cup {"exit"} =>
        /\ inputs = Read
        /\ Stale => args.allow
        /\ base = IF args.baseline = "none" THEN Nothing ELSE Chosen
        /\ args.baseline # "none" => base \notin {Nothing, Absent, Torn}

(* What the truth of a plan needs on top of IInv.                          *)
PlanInv == UnchangedFiles /\ LogIsOfBuild /\ BuildIsEdited /\ PlansTyped /\ FromDisk

-----------------------------------------------------------------------------

LEMMA InitIInv == Init => IInv
<1> SUFFICES ASSUME Init PROVE IInv
  OBVIOUS
<1> USE DEF Init
<1>1. WorldTyped
  BY DEF WorldTyped
<1>2. Dated
  BY DEF Dated
<1>3. KeptTyped /\ LeavesTyped
  BY DEF KeptTyped, LeavesTyped
<1>4. RunTyped
  BY DEF RunTyped
<1>5. Counted
  BY PlanAssumption DEF Counted
<1>6. InputsTyped /\ NotYetWritten /\ RefusalKeepsPlan
  BY DEF InputsTyped, NotYetWritten, RefusalKeepsPlan, Leaf
<1> QED
  BY <1>1, <1>2, <1>3, <1>4, <1>5, <1>6 DEF IInv

(* The world moves on between two runs.                                    *)
LEMMA EventIInv ==
    ASSUME IInv, Event, WorldTyped', manifest'.time \in 1 .. clock', log'.time \in 1 .. clock',
           \A f \in DOMAIN mtime' : mtime'[f] \in 1 .. clock'
    PROVE  IInv'
<1> USE DEF IInv, Event, run
<1>1. Dated'
  BY DEF Dated
<1>2. KeptTyped' /\ LeavesTyped'
  BY DEF KeptTyped, LeavesTyped
<1>3. RunTyped'
  BY DEF RunTyped
<1>4. Counted'
  BY PlanAssumption DEF Counted
<1>5. InputsTyped' /\ NotYetWritten' /\ RefusalKeepsPlan'
  BY DEF InputsTyped, NotYetWritten, RefusalKeepsPlan, Leaf
<1> QED
  BY <1>1, <1>2, <1>3, <1>4, <1>5

LEMMA EditIInv == ASSUME IInv, NEW v \in DOMAIN Model, Edit(v) PROVE IInv'
<1>1. clock \in Nat /\ clock' = clock + 1 /\ Event
  BY DEF IInv, Dated, Edit, Event
<1>2. WorldTyped'
  BY DEF IInv, WorldTyped, Edit
<1>3. \A f \in DOMAIN mtime' : mtime'[f] \in 1 .. clock'
  BY <1>1 DEF IInv, Dated, Edit
<1>4. manifest'.time \in 1 .. clock' /\ log'.time \in 1 .. clock'
  BY <1>1 DEF IInv, Dated, Edit
<1> QED
  BY <1>1, <1>2, <1>3, <1>4, EventIInv

LEMMA BuildIInv == ASSUME IInv, Build PROVE IInv'
<1>1. clock \in Nat /\ clock' = clock + 1 /\ Event
  BY DEF IInv, Dated, Build, Event
<1>2. WorldTyped'
  BY DEF IInv, WorldTyped, Build
<1>3. \A f \in DOMAIN mtime' : mtime'[f] \in 1 .. clock'
  BY <1>1 DEF IInv, Dated, Build
<1>4. manifest'.time \in 1 .. clock' /\ log'.time \in 1 .. clock'
  BY <1>1 DEF IInv, Dated, Build
<1> QED
  BY <1>1, <1>2, <1>3, <1>4, EventIInv

LEMMA ReplayIInv == ASSUME IInv, NEW c \in Corpora, Replay(c) PROVE IInv'
<1>1. clock \in Nat /\ clock' = clock + 1 /\ Event
  BY DEF IInv, Dated, Replay, Event
<1>2. WorldTyped'
  BY DEF IInv, WorldTyped, Replay
<1>3. \A f \in DOMAIN mtime' : mtime'[f] \in 1 .. clock'
  BY <1>1 DEF IInv, Dated, Replay
<1>4. manifest'.time \in 1 .. clock' /\ log'.time \in 1 .. clock'
  BY <1>1 DEF IInv, Dated, Replay
<1> QED
  BY <1>1, <1>2, <1>3, <1>4, EventIInv

LEMMA ExclusionsIInv == ASSUME IInv, DeriveExclusions PROVE IInv'
<1>1. clock \in Nat /\ clock' = clock + 1 /\ Event
  BY DEF IInv, Dated, DeriveExclusions, Event
<1>2. WorldTyped'
  BY DEF IInv, WorldTyped, DeriveExclusions
<1>3. \A f \in DOMAIN mtime' : mtime'[f] \in 1 .. clock'
  BY <1>1 DEF IInv, Dated, DeriveExclusions
<1>4. manifest'.time \in 1 .. clock' /\ log'.time \in 1 .. clock'
  BY <1>1 DEF IInv, Dated, DeriveExclusions
<1> QED
  BY <1>1, <1>2, <1>3, <1>4, EventIInv

(* During a run, and when a plan is checked in, the world stands still.    *)
LEMMA WorldStands == ASSUME IInv, UNCHANGED world PROVE WorldTyped' /\ Dated' /\ events' = events
BY DEF IInv, WorldTyped, Dated, world

LEMMA KeepIInv == ASSUME IInv, Keep PROVE IInv'
<1> USE DEF IInv, Keep, run
<1>1. WorldTyped' /\ Dated' /\ events' = events
  BY WorldStands
<1>2. KeptTyped' /\ LeavesTyped'
  BY DEF KeptTyped, LeavesTyped, Leaf
<1>3. RunTyped' /\ Counted'
  BY <1>1 DEF RunTyped, Counted
<1>4. InputsTyped' /\ NotYetWritten' /\ RefusalKeepsPlan'
  BY DEF InputsTyped, NotYetWritten, RefusalKeepsPlan, Leaf
<1> QED
  BY <1>1, <1>2, <1>3, <1>4

LEMMA StartIInv == ASSUME IInv, NEW a \in Arguments, Start(a) PROVE IInv'
<1> USE DEF IInv, Start
<1>1. WorldTyped' /\ Dated' /\ events' = events
  BY WorldStands
<1>2. KeptTyped' /\ LeavesTyped'
  BY DEF KeptTyped, LeavesTyped
<1>3. RunTyped'
  BY DEF RunTyped
<1>4. Counted'
  BY <1>1, PlanAssumption DEF Counted
<1>5. InputsTyped' /\ NotYetWritten' /\ RefusalKeepsPlan'
  BY DEF InputsTyped, NotYetWritten, RefusalKeepsPlan, Leaf
<1> QED
  BY <1>1, <1>2, <1>3, <1>4, <1>5

LEMMA RefuseIInv == ASSUME IInv, Refuse PROVE IInv'
<1> USE DEF IInv, Refuse
<1>1. WorldTyped' /\ Dated' /\ events' = events
  BY WorldStands
<1>2. KeptTyped' /\ LeavesTyped'
  BY DEF KeptTyped, LeavesTyped
<1>3. RunTyped' /\ Counted'
  BY <1>1 DEF RunTyped, Counted
<1>4. InputsTyped' /\ NotYetWritten' /\ RefusalKeepsPlan'
  BY DEF InputsTyped, NotYetWritten, RefusalKeepsPlan, Leaf
<1> QED
  BY <1>1, <1>2, <1>3, <1>4

LEMMA LoadIInv == ASSUME IInv, Load PROVE IInv'
<1> USE DEF IInv, Load
<1>1. WorldTyped' /\ Dated' /\ events' = events
  BY WorldStands
<1>2. KeptTyped' /\ LeavesTyped'
  BY DEF KeptTyped, LeavesTyped
<1>3. RunTyped' /\ Counted'
  BY <1>1 DEF RunTyped, Counted, Leaf
<1>4. InputsTyped' /\ NotYetWritten' /\ RefusalKeepsPlan'
  BY DEF InputsTyped, NotYetWritten, RefusalKeepsPlan, Read, WorldTyped
<1> QED
  BY <1>1, <1>2, <1>3, <1>4

LEMMA WriteIInv == ASSUME IInv, NEW l \in Leaf, Write(l) PROVE IInv'
<1> USE DEF IInv, Write, run
<1>1. WorldTyped' /\ Dated' /\ events' = events
  BY WorldStands
<1>2. KeptTyped'
  BY DEF KeptTyped
<1>3. LeavesTyped'
  <2>1. inputs.version > 0
    BY PlanAssumption DEF InputsTyped, Model
  <2>2. /\ leaves' = [k \in Leaf |-> leaves'[k]] /\ leaves'[l] = inputs
        /\ \A k \in Leaf \ {l} : leaves'[k] = leaves[k]
    BY DEF LeavesTyped
  <2> QED
    BY <2>1, <2>2 DEF LeavesTyped
<1>4. RunTyped' /\ Counted'
  BY <1>1 DEF RunTyped, Counted, After, Leaf
<1>5. InputsTyped' /\ NotYetWritten' /\ RefusalKeepsPlan'
  BY DEF InputsTyped, NotYetWritten, RefusalKeepsPlan, After, Leaf
<1> QED
  BY <1>1, <1>2, <1>3, <1>4, <1>5

LEMMA ExitIInv == ASSUME IInv, Exit PROVE IInv'
<1> USE DEF IInv, Exit, Ended
<1>1. WorldTyped' /\ Dated' /\ events' = events
  BY WorldStands
<1>2. KeptTyped' /\ LeavesTyped'
  BY DEF KeptTyped, LeavesTyped
<1>3. RunTyped' /\ Counted'
  BY <1>1 DEF RunTyped, Counted
<1>4. InputsTyped' /\ NotYetWritten' /\ RefusalKeepsPlan'
  BY DEF InputsTyped, NotYetWritten, RefusalKeepsPlan, Leaf
<1> QED
  BY <1>1, <1>2, <1>3, <1>4

LEMMA DieIInv == ASSUME IInv, Die PROVE IInv'
<1> USE DEF IInv, Die, Ended
<1>1. WorldTyped' /\ Dated' /\ events' = events
  BY WorldStands
<1>2. KeptTyped'
  BY DEF KeptTyped
<1>3. LeavesTyped'
  BY DEF LeavesTyped
<1>4. RunTyped'
  BY DEF RunTyped
<1>5. Counted'
  BY <1>1, PlanAssumption DEF Counted
<1>6. InputsTyped' /\ NotYetWritten' /\ RefusalKeepsPlan'
  BY DEF InputsTyped, NotYetWritten, RefusalKeepsPlan, Leaf
<1> QED
  BY <1>1, <1>2, <1>3, <1>4, <1>5, <1>6

LEMMA StutterIInv == ASSUME IInv, UNCHANGED vars PROVE IInv'
<1> USE DEF IInv, vars, world, run
<1>1. WorldTyped' /\ Dated' /\ Counted'
  BY DEF WorldTyped, Dated, Counted
<1>2. KeptTyped' /\ LeavesTyped' /\ RunTyped'
  BY DEF KeptTyped, LeavesTyped, RunTyped
<1>3. InputsTyped' /\ NotYetWritten' /\ RefusalKeepsPlan'
  BY DEF InputsTyped, NotYetWritten, RefusalKeepsPlan
<1> QED
  BY <1>1, <1>2, <1>3

LEMMA NextIInv == IInv /\ [Next]_vars => IInv'
<1> SUFFICES ASSUME IInv, [Next]_vars PROVE IInv'
  OBVIOUS
<1>1. CASE (\E v \in DOMAIN Model : Edit(v)) \/ Build \/ (\E c \in Corpora : Replay(c))
           \/ DeriveExclusions \/ Keep
  BY <1>1, EditIInv, BuildIInv, ReplayIInv, ExclusionsIInv, KeepIInv
<1>2. CASE (\E a \in Arguments : Start(a)) \/ Refuse \/ Load
  BY <1>2, StartIInv, RefuseIInv, LoadIInv
<1>3. CASE (\E l \in Leaf : Write(l)) \/ Exit \/ Die \/ UNCHANGED vars
  BY <1>3, WriteIInv, ExitIInv, DieIInv, StutterIInv
<1> QED
  BY <1>1, <1>2, <1>3 DEF Next

(* The inductive invariant, in every reachable state.                      *)
THEOREM Invariance == Spec => []IInv
<1> QED
  BY InitIInv, NextIInv, PTL DEF Spec

(* Type correctness of the plan, its inputs and its baseline.              *)
THEOREM TypeCorrect == Spec => []TypeOK
<1>1. IInv => TypeOK
  <2> SUFFICES ASSUME IInv PROVE TypeOK
    OBVIOUS
  <2>1. \A t \in {manifest.time, log.time} \cup {mtime[f] : f \in DOMAIN mtime} : t \in 1 .. clock
    BY DEF IInv, Dated
  <2> QED
    BY <2>1 DEF IInv, TypeOK, WorldTyped, KeptTyped, LeavesTyped, RunTyped, Counted
<1> QED
  BY Invariance, <1>1, PTL

(* A run that is refused has replaced no file of the plan.                 *)
THEOREM RefusalsKeep == Spec => []RefusalKeepsPlan
<1>1. IInv => RefusalKeepsPlan
  BY DEF IInv
<1> QED
  BY Invariance, <1>1, PTL

-----------------------------------------------------------------------------

(* A row keeps its columns, and gains the text of its line.                *)
LEMMA LocatedColumns ==
    ASSUME NEW row, NEW arm, NEW chain, NEW text,
           {"feature", "target", "stimulus"} \subseteq DOMAIN row
    PROVE  /\ Located(row, arm, chain, text).source = text
           /\ Located(row, arm, chain, text).feature = row.feature
           /\ Located(row, arm, chain, text).target = row.target
           /\ Located(row, arm, chain, text).stimulus = row.stimulus
BY DEF Located

(* A row that is built has these columns.                                  *)
LEMMA RowColumns ==
    ASSUME NEW f, NEW owner, NEW mnem, NEW callers, NEW own, NEW loose
    PROVE  {"feature", "target", "stimulus"} \subseteq DOMAIN RowOf(f, owner, mnem, callers, own, loose)
BY DEF RowOf, RowWith

(* Some numbers have a least.                                              *)
LEMMA LeastIsThere ==
    ASSUME NEW S \in SUBSET Nat, S # {}
    PROVE  \E j \in S : \A i \in S : j <= i
<1>1. PICK j \in S : \A i \in S : ~(<<i, j>> \in OpToRel(<, Nat))
  BY WFMin, NatLessThanWellFounded, Zenon
<1>2. ASSUME NEW i \in S PROVE j <= i
  <2>1. i \in Nat /\ j \in Nat
    OBVIOUS
  <2>2. <<i, j>> \in Nat \X Nat /\ (i < j => <<i, j>>[1] < <<i, j>>[2])
    BY <2>1
  <2>3. i < j => <<i, j>> \in OpToRel(<, Nat)
    BY <2>2, Zenon DEF OpToRel
  <2>4. ~(i < j)
    BY <1>1, <2>3, Zenon
  <2> QED
    BY <2>1, <2>4
<1> QED
  BY <1>2

(* What matches no rule is unclassified; no rule is called a helper,       *)
(* nor an instruction.                                                     *)
LEMMA ClassesOfRules ==
    /\ Classify({}) = "unclassified"
    /\ \A matching : Classify(matching) \notin {"helper_function", "instruction_variant"}
<1>1. Classify({}) = "unclassified"
  BY DEF Classify
<1>2. ASSUME NEW matching PROVE Classify(matching) \notin {"helper_function", "instruction_variant"}
  <2> DEFINE hits == {j \in DOMAIN RULES : RULES[j] \in matching}
             first == CHOOSE j \in hits : \A i \in hits : j <= i
  <2>1. DOMAIN RULES = 1 .. 13 /\ \A j \in 1 .. 13 : RULES[j] \notin {"helper_function", "instruction_variant"}
    BY DEF RULES
  <2>2. hits # {} => first \in hits
    <3> SUFFICES ASSUME hits # {} PROVE \E j \in hits : \A i \in hits : j <= i
      OBVIOUS
    <3>1. hits \subseteq Nat
      BY <2>1
    <3> QED
      BY <3>1, LeastIsThere
  <2>3. Classify(matching) = IF hits = {} THEN "unclassified" ELSE RULES[first]
    BY DEF Classify
  <2> HIDE DEF first
  <2> QED
    BY <2>1, <2>2, <2>3
<1> QED
  BY <1>1, <1>2

(* A position that is no line of a source is put down to its file.         *)
LEMMA NowhereIsFile == ASSUME NEW src, NEW p PROVE Nowhere(src, p).target = "file"
<1> DEFINE loose == IF p[1] \in DOMAIN src THEN Classify(RulesAbove(src[p[1]], p[2]))
                    ELSE "unclassified"
           stimulus == Stimulus(<<"", "">>, "", "unclassified", [named |-> {}, more |-> FALSE],
                                loose)
<1>1. stimulus # "instruction_variant"
  <2>1. loose # "instruction_variant"
    BY ClassesOfRules
  <2> HIDE DEF loose
  <2> QED
    BY <2>1 DEF Stimulus
<1>2. Nowhere(src, p) = RowWith(p[1], <<"", "">>, "", [named |-> {}, more |-> FALSE], stimulus)
  BY DEF Nowhere, RowOf
<1> HIDE DEF stimulus
<1>3. RowWith(p[1], <<"", "">>, "", [named |-> {}, more |-> FALSE], stimulus).target = "file"
  <2>1. (CASE stimulus = "instruction_variant" -> ""
           [] stimulus # "instruction_variant" /\ <<"", "">>[2] # "" -> <<"", "">>[2]
           [] OTHER -> "file") = "file"
    BY <1>1
  <2> QED
    BY <2>1 DEF RowWith
<1> QED
  BY <1>2, <1>3

(* The row of a position has its key and its text; outside of the          *)
(* sources it is put down to the file.                                     *)
LEMMA RowsAtPositions ==
    ASSUME NEW v \in DOMAIN Model, NEW p \in PositionsAt(v)
    PROVE  /\ Keys[v][p] = KeyIn(Ladders[v][p])
           /\ p[1] \in DOMAIN Model[v] /\ p[2] \in DOMAIN Model[v][p[1]] =>
                 Ladders[v][p].source = Model[v][p[1]][p[2]].text
           /\ p[1] \notin DOMAIN Model[v] => KeyIn(Ladders[v][p])[2] = "file"
<1> DEFINE arms == [f \in DOMAIN Model[v] |-> Arms(Model[v][f])]
           chains == [f \in DOMAIN Model[v] |-> Chains(Model[v][f])]
<1>1. Ladders[v] = RowsOf(Model[v], arms, chains, PositionsAt(v))
  BY DEF Ladders
<1>2. Keys[v][p] = KeyIn(Ladders[v][p])
  BY DEF Keys
<1> HIDE DEF arms, chains
<1>3. ASSUME p[1] \in DOMAIN Model[v], p[2] \in DOMAIN Model[v][p[1]]
      PROVE  Ladders[v][p].source = Model[v][p[1]][p[2]].text
  <2> DEFINE row == Ladder(Model[v], p[1], p[2], Owner(Model[v][p[1]], p[2]), arms[p[1]][p[2]])
  <2>1. Ladders[v][p] = Located(row, arms[p[1]][p[2]], chains[p[1]][p[2]], Model[v][p[1]][p[2]].text)
    BY <1>1, <1>3 DEF RowsOf
  <2>2. {"feature", "target", "stimulus"} \subseteq DOMAIN row
    BY RowColumns DEF Ladder
  <2> HIDE DEF row
  <2> QED
    BY <2>1, <2>2, LocatedColumns
<1>4. ASSUME p[1] \notin DOMAIN Model[v] PROVE KeyIn(Ladders[v][p])[2] = "file"
  <2>1. Ladders[v][p] = Located(Nowhere(Model[v], p), <<>>, <<>>, "")
    BY <1>1, <1>4 DEF RowsOf
  <2>2. {"feature", "target", "stimulus"} \subseteq DOMAIN Nowhere(Model[v], p)
    BY RowColumns DEF Nowhere
  <2>3. Located(Nowhere(Model[v], p), <<>>, <<>>, "").target = "file"
    <3> DEFINE row == Nowhere(Model[v], p)
    <3>1. row.target = "file"
      BY NowhereIsFile
    <3> HIDE DEF row
    <3>2. "target" \in DOMAIN row
      BY <2>2 DEF row
    <3>3. \A arm, text : Located(row, arm, arm, text).target = row.target
      BY <3>2 DEF Located
    <3> QED
      BY <3>1, <3>3 DEF row
  <2> QED
    BY <2>1, <2>3 DEF KeyIn
<1> QED
  BY <1>2, <1>3, <1>4

(* What is counted under a key.                                            *)
Among(m, key, status) == {p \in InScope(m) : KeyOf(m, p) = key /\ Status(m, p) = status}

Keyed(m) == {<<KeyOf(m, p), p, Status(m, p)>> : p \in InScope(m)}
CountOf(m, key, s) == Cardinality({row \in Keyed(m) : row[1] = key /\ row[3] = s})

(* Finitely many spans are in scope.                                       *)
LEMMA InScopeFinite == ASSUME NEW m, m.built \in DOMAIN Model PROVE IsFiniteSet(InScope(m))
<1>1. IsFiniteSet(AllSpans[m.built] \cup Library)
  BY SourcesAssumption, FS_Union
<1> QED
  BY <1>1, FS_Subset DEF InScope

(* A function takes finitely many arguments to finitely many values.       *)
LEMMA ImageIsFinite ==
    ASSUME NEW S, IsFiniteSet(S), NEW g, g = [x \in S |-> g[x]]
    PROVE  IsFiniteSet({g[x] : x \in S})
<1> DEFINE T == {g[x] : x \in S}
<1>1. g \in [S -> T] /\ \A t \in T : \E x \in S : g[x] = t
  OBVIOUS
<1>2. g \in Surjection(S, T)
  BY <1>1 DEF Surjection
<1> HIDE DEF T
<1>3. IsFiniteSet(T)
  BY <1>2, FS_Surjection, Zenon
<1> QED
  BY <1>3 DEF T

(* Each span is counted once.                                              *)
LEMMA CountsAre ==
    ASSUME NEW m, m.built \in DOMAIN Model, NEW key, NEW s
    PROVE  /\ IsFiniteSet(Among(m, key, s)) /\ Cardinality(Among(m, key, s)) \in Nat
           /\ Cardinality(Among(m, key, s)) = 0 <=> Among(m, key, s) = {}
           /\ CountOf(m, key, s) = Cardinality(Among(m, key, s))
<1> DEFINE P == Among(m, key, s)
           S == {row \in Keyed(m) : row[1] = key /\ row[3] = s}
           f == [p \in P |-> <<KeyOf(m, p), p, Status(m, p)>>]
<1>1. P \in SUBSET InScope(m)
  BY DEF Among
<1>2. f \in [P -> S]
  BY DEF Among, Keyed
<1>3. \A p, q \in P : f[p] = f[q] => p = q
  OBVIOUS
<1>4. ASSUME NEW row \in S PROVE \E p \in P : f[p] = row
  <2>1. PICK p \in InScope(m) : row = <<KeyOf(m, p), p, Status(m, p)>>
    BY DEF Keyed
  <2>2. p \in P
    BY <1>4, <2>1 DEF Among
  <2> QED
    BY <2>1, <2>2
<1> HIDE DEF P, S, f
<1>5. f \in Bijection(P, S)
  BY <1>2, <1>3, <1>4 DEF Bijection, Injection, Surjection, IsInjective
<1>6. IsFiniteSet(P)
  BY <1>1, InScopeFinite, FS_Subset
<1>7. Cardinality(P) \in Nat /\ (Cardinality(P) = 0 <=> P = {})
  BY <1>6, FS_CardinalityType, FS_EmptySet
<1>8. Cardinality(S) = Cardinality(P)
  BY <1>5, <1>6, FS_Bijection, Zenon DEF ExistsBijection
<1> QED
  BY <1>6, <1>7, <1>8 DEF P, S, CountOf

(* What an item says of the spans under its key.                           *)
LEMMA ItemsCount ==
    ASSUME NEW m, m.built \in DOMAIN Model, NEW key
    PROVE  LET items == Items(m)
               todo == Cardinality(Among(m, key, "todo"))
               covered == Cardinality(Among(m, key, "covered"))
           IN
           /\ key \in DOMAIN items <=> \E p \in InScope(m) : KeyOf(m, p) = key
           /\ key \in DOMAIN items =>
                 /\ items[key].todo = todo
                 /\ items[key].covered = covered
                 /\ items[key].spans = todo + covered
                 /\ items[key].state = "complete" <=> todo = 0 /\ covered # 0
                 /\ key \in Live(items) <=> ~(todo = 0 /\ covered = 0)
                 /\ key \in Outstanding(items) <=> todo # 0 /\ key[3] \notin OUT_OF_REACH
<1> DEFINE todo == CountOf(m, key, "todo")
           covered == CountOf(m, key, "covered")
           items == Items(m)
<1>1. /\ todo \in Nat /\ todo = Cardinality(Among(m, key, "todo"))
      /\ covered \in Nat /\ covered = Cardinality(Among(m, key, "covered"))
  BY CountsAre
<1>2. DOMAIN items = {row[1] : row \in Keyed(m)}
  BY DEF Items, ItemsOver, Keyed
<1>3. key \in DOMAIN items => items[key] = Item(key, todo, covered)
  BY DEF Items, ItemsOver, Keyed, CountOf
<1>4. key \in DOMAIN items <=> \E p \in InScope(m) : KeyOf(m, p) = key
  <2>1. ASSUME NEW row \in Keyed(m), row[1] = key PROVE \E p \in InScope(m) : KeyOf(m, p) = key
    BY <2>1 DEF Keyed
  <2>2. ASSUME NEW p \in InScope(m), KeyOf(m, p) = key PROVE \E row \in Keyed(m) : row[1] = key
    <3>1. <<KeyOf(m, p), p, Status(m, p)>> \in Keyed(m)
      BY DEF Keyed
    <3> QED
      BY <2>2, <3>1
  <2> QED
    BY <1>2, <2>1, <2>2
<1> HIDE DEF todo, covered, items
<1>5. /\ Item(key, todo, covered).todo = todo
      /\ Item(key, todo, covered).covered = covered
      /\ Item(key, todo, covered).spans = todo + covered
      /\ Item(key, todo, covered).state = "complete" <=> todo = 0 /\ covered # 0
      /\ Item(key, todo, covered).state = "unreachable" <=> todo = 0 /\ covered = 0
      /\ Item(key, todo, covered).state = "out of reach" <=> todo # 0 /\ key[3] \in OUT_OF_REACH
  <2>1. todo + covered = 0 <=> todo = 0 /\ covered = 0
    BY <1>1
  <2>2. (todo > 0 <=> todo # 0) /\ (covered > 0 <=> covered # 0)
    BY <1>1
  <2> QED
    BY <2>1, <2>2 DEF Item
<1>6. ASSUME key \in DOMAIN items
      PROVE  /\ items[key].todo = todo /\ items[key].covered = covered
             /\ items[key].spans = todo + covered
             /\ items[key].state = "complete" <=> todo = 0 /\ covered # 0
             /\ key \in Live(items) <=> ~(todo = 0 /\ covered = 0)
             /\ key \in Outstanding(items) <=> todo # 0 /\ key[3] \notin OUT_OF_REACH
  <2>1. /\ items[key].todo = todo /\ items[key].covered = covered
        /\ items[key].spans = todo + covered
        /\ items[key].state = "complete" <=> todo = 0 /\ covered # 0
        /\ items[key].state = "unreachable" <=> todo = 0 /\ covered = 0
        /\ items[key].state = "out of reach" <=> todo # 0 /\ key[3] \in OUT_OF_REACH
    BY <1>3, <1>5, <1>6
  <2>2. key \in Live(items) <=> ~(todo = 0 /\ covered = 0)
    BY <1>6, <2>1 DEF Live
  <2>3. key \in Outstanding(items) <=> todo # 0 /\ key[3] \notin OUT_OF_REACH
    <3>1. todo > 0 <=> todo # 0
      BY <1>1
    <3> QED
      BY <2>1, <2>2, <3>1 DEF Outstanding
  <2> QED
    BY <2>1, <2>2, <2>3
<1> QED
  BY <1>1, <1>4, <1>6 DEF items

(* A percentage is a number.                                               *)
LEMMA PercentIsNumber ==
    ASSUME NEW item, item.covered \in Nat, item.spans \in Nat, item.spans # 0
    PROVE  Percent(item) \in Int
<1> DEFINE whole == (1000 * item.covered) \div item.spans
           rest == (1000 * item.covered) % item.spans
<1>1. whole \in Int
  OBVIOUS
<1> HIDE DEF whole, rest
<1>2. Percent(item) = IF 2 * rest > item.spans \/ (2 * rest = item.spans /\ whole % 2 = 1)
                      THEN whole + 1 ELSE whole
  BY DEF Percent, whole, rest
<1> QED
  BY <1>1, <1>2

(* No item comes before itself.                                            *)
LEMMA NoneBeforeItself ==
    ASSUME NEW m, m.built \in DOMAIN Model, NEW key PROVE ~ComesFirst(m, key, key)
<1> SUFFICES ASSUME NEW p \in InScope(m), Earlier(p, p) PROVE FALSE
  BY DEF ComesFirst
<1>1. p \in AllSpans[m.built]
  BY DEF InScope
<1>2. p[1] \in DOMAIN Model[m.built] /\ p[2] \in DOMAIN Model[m.built][p[1]]
  BY <1>1 DEF AllSpans, SpansOf
<1>3. WellLaid(Model[m.built][p[1]])
  BY <1>2, StructureAssumption
<1>4. p[2] \in Nat
  <2> DEFINE lines == Model[m.built][p[1]]
  <2>1. DOMAIN lines = 1 .. Len(lines) /\ Len(lines) \in Nat /\ p[2] \in DOMAIN lines
    BY <1>2, <1>3, Zenon DEF WellLaid
  <2> HIDE DEF lines
  <2> QED
    BY <2>1
<1>5. ASSUME NEW i \in DOMAIN FileNames, NEW j \in DOMAIN FileNames,
             FileNames[i] = p[1], FileNames[j] = p[1], i < j
      PROVE  FALSE
  BY <1>5, PlanAssumption
<1> QED
  BY <1>4, <1>5 DEF Earlier

(* What is left out of the schedule gives way to as many as it lists.      *)
LEMMA LeftOut ==
    ASSUME NEW m, m.built \in DOMAIN Model, NEW key \in Outstanding(Items(m)),
           key \notin Schedule(m, Items(m))
    PROVE  ScheduleLength <= Cardinality({other \in Outstanding(Items(m)) \ {key} :
                                Percent(Items(m)[other]) <= Percent(Items(m)[key])})
<1> DEFINE items == Items(m)
           out == Outstanding(items)
           ahead == {other \in out : Ahead(m, items, other, key)}
           others == {other \in out \ {key} : Percent(items[other]) <= Percent(items[key])}
<1>1. ASSUME NEW other \in out
      PROVE  Percent(items[other]) \in Int /\ items[other].spans \in Nat
  <2>1. other \in DOMAIN items
    BY DEF Outstanding, Live
  <2>2. /\ items[other].covered = Cardinality(Among(m, other, "covered"))
        /\ items[other].spans = Cardinality(Among(m, other, "todo"))
                                  + Cardinality(Among(m, other, "covered"))
        /\ Cardinality(Among(m, other, "todo")) # 0
    BY <2>1, ItemsCount
  <2>3. /\ Cardinality(Among(m, other, "covered")) \in Nat
        /\ Cardinality(Among(m, other, "todo")) \in Nat
    BY CountsAre
  <2> HIDE DEF items
  <2>4. items[other].covered \in Nat /\ items[other].spans \in Nat /\ items[other].spans # 0
    BY <2>2, <2>3
  <2> QED
    BY <2>4, PercentIsNumber
<1>2. IsFiniteSet(out)
  <2> DEFINE g == [p \in InScope(m) |-> KeyOf(m, p)]
             keys == {g[p] : p \in InScope(m)}
  <2>1. g = [p \in InScope(m) |-> g[p]]
    OBVIOUS
  <2>2. \A k \in out : k \in keys
    <3> SUFFICES ASSUME NEW k \in out PROVE k \in keys
      OBVIOUS
    <3>1. k \in DOMAIN items
      BY DEF Outstanding, Live
    <3> QED
      BY <3>1, ItemsCount
  <2> HIDE DEF g, out
  <2>3. IsFiniteSet(keys)
    BY <2>1, InScopeFinite, ImageIsFinite
  <2> HIDE DEF keys
  <2> QED
    BY <2>2, <2>3, FS_Subset
<1>3. ahead \subseteq others
  <2> SUFFICES ASSUME NEW other \in out, Ahead(m, items, other, key)
               PROVE  other # key /\ Percent(items[other]) <= Percent(items[key])
    OBVIOUS
  <2> HIDE DEF items, out
  <2>1. /\ Percent(items[other]) \in Int /\ Percent(items[key]) \in Int
        /\ items[other].spans \in Nat /\ items[key].spans \in Nat
    BY <1>1 DEF out, items
  <2>2. other # key
    BY <2>1, NoneBeforeItself DEF Ahead
  <2>3. Percent(items[other]) <= Percent(items[key])
    BY <2>1 DEF Ahead
  <2> QED
    BY <2>2, <2>3
<1>4. ~(Cardinality(ahead) < ScheduleLength)
  BY DEF Schedule
<1> HIDE DEF out, items
<1>5. others \in SUBSET out
  OBVIOUS
<1> HIDE DEF ahead, others
<1>6. IsFiniteSet(others)
  BY <1>2, <1>5, FS_Subset
<1>7. /\ Cardinality(ahead) \in Nat /\ Cardinality(others) \in Nat
      /\ Cardinality(ahead) <= Cardinality(others)
  BY <1>3, <1>6, FS_Subset, FS_CardinalityType
<1>8. ScheduleLength \in Nat
  BY PlanAssumption
<1> QED
  BY <1>4, <1>7, <1>8 DEF others, out, items

(* At first everything is of the version on disk.                          *)
LEMMA InitPlanInv == Init => PlanInv
<1> SUFFICES ASSUME Init PROVE PlanInv
  OBVIOUS
<1> USE DEF Init
<1>1. UnchangedFiles /\ LogIsOfBuild /\ BuildIsEdited
  BY DEF UnchangedFiles, LogIsOfBuild, BuildIsEdited
<1>2. PlansTyped
  BY DEF PlansTyped, IsPlan
<1>3. FromDisk
  BY DEF FromDisk, Leaf
<1> QED
  BY <1>1, <1>2, <1>3 DEF PlanInv

(* Between runs: what an edit leaves alone keeps its time and its lines.   *)
LEMMA EventPlanInv ==
    ASSUME IInv, PlanInv,
           (\E v \in DOMAIN Model : Edit(v)) \/ Build \/ (\E c \in Corpora : Replay(c))
             \/ DeriveExclusions
    PROVE  PlanInv'
<1> USE DEF PlanInv
<1>1. Event
  BY DEF Edit, Build, Replay, DeriveExclusions
<1>2. /\ clock \in Nat /\ clock' = clock + 1 /\ pc' = "idle" /\ source \in Edited
      /\ manifest.time \in 1 .. clock /\ log.time \in 1 .. clock
      /\ \A f \in DOMAIN mtime : mtime[f] \in 1 .. clock
  BY <1>1 DEF Event, IInv, Dated, BuildIsEdited, Counted
<1>3. PlansTyped' /\ FromDisk'
  <2>1. UNCHANGED <<kept, leaves, before>>
    BY <1>1 DEF Event
  <2> QED
    BY <1>2, <2>1 DEF PlansTyped, IsPlan, FromDisk, Leaf
<1>4. ASSUME NEW v \in DOMAIN Model, Edit(v) PROVE UnchangedFiles' /\ LogIsOfBuild' /\ BuildIsEdited'
  <2>1. /\ v \in Edited /\ source' = v /\ UNCHANGED <<manifest, log>>
        /\ mtime' = [f \in DOMAIN Model[v] |->
                       IF f \in DOMAIN mtime /\ Model[v][f] = Model[source][f]
                       THEN mtime[f] ELSE clock']
    BY <1>4 DEF Edit
  <2>2. LogIsOfBuild' /\ BuildIsEdited'
    BY <1>2, <2>1 DEF LogIsOfBuild, BuildIsEdited
  <2>3. ASSUME NEW f \in DOMAIN mtime', mtime'[f] <= manifest.time
        PROVE  f \in DOMAIN mtime /\ Model[v][f] = Model[source][f] /\ mtime[f] <= manifest.time
    BY <1>2, <2>1, <2>3
  <2>4. Model' = Model
    BY DEF Model
  <2>5. UnchangedFiles'
    BY <2>1, <2>3, <2>4 DEF UnchangedFiles
  <2> QED
    BY <2>2, <2>5
<1>5. ASSUME Build PROVE UnchangedFiles' /\ LogIsOfBuild' /\ BuildIsEdited'
  <2>1. manifest' = [built |-> source, time |-> clock'] /\ UNCHANGED <<source, mtime, log>>
    BY <1>5 DEF Build
  <2>2. DOMAIN mtime = DOMAIN Model[source]
    BY DEF IInv, WorldTyped
  <2> QED
    BY <1>2, <2>1, <2>2 DEF UnchangedFiles, LogIsOfBuild, BuildIsEdited, Model
<1>6. ASSUME NEW c \in Corpora, Replay(c) PROVE UnchangedFiles' /\ LogIsOfBuild' /\ BuildIsEdited'
  BY <1>2, <1>6 DEF Replay, UnchangedFiles, LogIsOfBuild, BuildIsEdited, Model
<1>7. ASSUME DeriveExclusions PROVE UnchangedFiles' /\ LogIsOfBuild' /\ BuildIsEdited'
  BY <1>2, <1>7 DEF DeriveExclusions, UnchangedFiles, LogIsOfBuild, BuildIsEdited, Model
<1> QED
  BY <1>3, <1>4, <1>5, <1>6, <1>7

(* During a run the world does not change.                                 *)
LEMMA WorldPlanInv ==
    ASSUME PlanInv, UNCHANGED world PROVE UnchangedFiles' /\ LogIsOfBuild' /\ BuildIsEdited'
BY DEF PlanInv, world, UnchangedFiles, LogIsOfBuild, BuildIsEdited, Model

(* Every step of the tool and of the world around it keeps PlanInv.        *)
LEMMA NextPlanInv == IInv /\ PlanInv /\ [Next]_vars => PlanInv'
<1> SUFFICES ASSUME IInv, PlanInv, [Next]_vars PROVE PlanInv'
  OBVIOUS
<1> USE DEF PlanInv
<1>1. CASE (\E v \in DOMAIN Model : Edit(v)) \/ Build \/ (\E c \in Corpora : Replay(c))
             \/ DeriveExclusions
  BY <1>1, EventPlanInv
<1>2. ASSUME UNCHANGED world, PlansTyped', FromDisk' PROVE PlanInv'
  BY <1>2, WorldPlanInv
<1>3. CASE Keep
  <2>1. pc' = "idle" /\ kept' = leaves["json"] /\ UNCHANGED <<world, leaves, before>>
    BY <1>3 DEF Keep
  <2> QED
    BY <1>2, <2>1 DEF PlansTyped, IsPlan, FromDisk, Leaf
<1>4. CASE \E a \in Arguments : Start(a)
  <2>1. pc' = "read" /\ before' = leaves /\ UNCHANGED <<world, kept, leaves>>
    BY <1>4 DEF Start
  <2> QED
    BY <1>2, <2>1 DEF PlansTyped, IsPlan, FromDisk, Leaf
<1>5. CASE Refuse
  <2>1. pc' = "idle" /\ UNCHANGED <<world, kept, leaves, before>>
    BY <1>5 DEF Refuse
  <2> QED
    BY <1>2, <2>1 DEF PlansTyped, IsPlan, FromDisk, Leaf
<1>6. CASE Load
  <2>1. /\ pc = "read" /\ ~Refused /\ inputs' = Read /\ base' = Baseline /\ pc' = "spans"
        /\ UNCHANGED <<world, kept, leaves, args, before>> /\ leaves = before
    BY <1>6 DEF Load, IInv, NotYetWritten
  <2>2. PlansTyped'
    BY <2>1 DEF PlansTyped, IsPlan
  <2>3. Read' = Read /\ Stale' = Stale /\ Chosen' = Chosen
    BY <2>1 DEF world, Read, Stale, Chosen
  <2>4. args.baseline \in {"none", "kept", "own"}
    <3>1. args \in Arguments \/ args = NoArgs
      BY DEF IInv, RunTyped
    <3>2. NoArgs.baseline = "none"
      BY DEF NoArgs
    <3> QED
      BY <3>1, <3>2, SourcesAssumption
  <2>5. Baseline = IF args.baseline = "none" THEN Nothing ELSE Chosen
    BY <2>1, <2>4 DEF Baseline, Chosen
  <2>6. FromDisk'
    BY <2>1, <2>3, <2>5 DEF FromDisk, Refused
  <2> QED
    BY <1>2, <2>1, <2>2, <2>6
<1>7. CASE \E l \in Leaf : Write(l)
  <2> PICK l \in Leaf : Write(l)
    BY <1>7
  <2>1. /\ pc = l /\ leaves' = [leaves EXCEPT ![l] = inputs] /\ UNCHANGED <<world, kept, before>>
        /\ UNCHANGED <<args, inputs, base>>
    BY DEF Write, run
  <2>2. IsPlan(inputs)
    BY <2>1 DEF FromDisk, IsPlan, Read, IInv, WorldTyped
  <2>3. PlansTyped'
    <3>1. \A k \in Leaf : leaves'[k] = inputs \/ leaves'[k] = leaves[k]
      BY <2>1 DEF IInv, LeavesTyped
    <3> QED
      BY <2>1, <2>2, <3>1 DEF PlansTyped, IsPlan
  <2>4. FromDisk'
    BY <2>1 DEF FromDisk, Read, Stale, Chosen, world
  <2> QED
    BY <1>2, <2>1, <2>3, <2>4
<1>8. CASE Exit
  <2>1. pc' = "idle" /\ before' = leaves' /\ UNCHANGED <<world, kept, leaves>>
    BY <1>8 DEF Exit, Ended
  <2> QED
    BY <1>2, <2>1 DEF PlansTyped, IsPlan, FromDisk, Leaf
<1>9. CASE Die
  <2>1. /\ pc' = "idle" /\ before' = leaves' /\ UNCHANGED <<world, kept>>
        /\ leaves' = IF pc \in Leaf THEN [leaves EXCEPT ![pc] = Torn] ELSE leaves
    BY <1>9 DEF Die, Ended
  <2>2. PlansTyped'
    <3>1. \A k \in Leaf : leaves'[k] = Torn \/ leaves'[k] = leaves[k]
      BY <2>1 DEF IInv, LeavesTyped
    <3> QED
      BY <2>1, <3>1 DEF PlansTyped, IsPlan
  <2> QED
    BY <1>2, <2>1, <2>2 DEF FromDisk, Leaf
<1>10. CASE UNCHANGED vars
  BY <1>2, <1>10 DEF vars, run, world, PlansTyped, IsPlan, FromDisk, Read, Stale, Chosen
<1> QED
  BY <1>1, <1>3, <1>4, <1>5, <1>6, <1>7, <1>8, <1>9, <1>10 DEF Next

(* The second inductive invariant, in every reachable state.               *)
THEOREM PlanInvariance == Spec => []PlanInv
<1> QED
  BY Invariance, InitPlanInv, NextPlanInv, PTL DEF Spec

(* A run at its end that did not allow stale inputs.                       *)
Strict == pc = "exit" /\ ~args.allow /\ (args.exclude => spared = source)

(* Every file of the sources is as built, and the log is of that build.    *)
LEMMA StrictIsFresh ==
    ASSUME IInv, PlanInv, Strict
    PROVE  /\ inputs = Read /\ source \in DOMAIN Model /\ inputs.built \in DOMAIN Model
           /\ \A f \in DOMAIN Model[source] : /\ f \in DOMAIN Model[inputs.built]
                                              /\ Model[inputs.built][f] = Model[source][f]
           /\ inputs.corpus = IF args.joined THEN <<inputs.built, log.corpus>> ELSE <<>>
           /\ AllSpans[inputs.built] \cup AllSpans[source] \subseteq PositionsAt(source)
<1> USE DEF Strict
<1>1. /\ inputs = Read /\ ~Stale /\ source \in DOMAIN Model /\ DOMAIN mtime = DOMAIN Model[source]
      /\ manifest.built \in DOMAIN Model /\ inputs.built = manifest.built
  BY DEF PlanInv, FromDisk, IInv, WorldTyped, Read
<1>2. /\ manifest.time \in Nat /\ log.time \in Nat
      /\ \A f \in DOMAIN mtime : mtime[f] \in Nat
  BY DEF IInv, Dated
<1>3. \A f \in DOMAIN mtime : mtime[f] <= manifest.time
  BY <1>1, <1>2 DEF Stale
<1>4. args.joined => log.of = manifest.built
  BY <1>1, <1>2 DEF Stale, PlanInv, LogIsOfBuild
<1>5. AllSpans[manifest.built] \cup AllSpans[source] \subseteq PositionsAt(source)
  BY DEF PlanInv, BuildIsEdited, PositionsAt
<1> QED
  BY <1>1, <1>3, <1>4, <1>5 DEF PlanInv, UnchangedFiles, Read

(* A span is a line of a file.                                             *)
LEMMA SpansAreLines ==
    ASSUME NEW v \in DOMAIN Model, NEW p
    PROVE  p \in AllSpans[v] <=> /\ \E f, k : p = <<f, k>>
                                 /\ p[1] \in DOMAIN Model[v] /\ p[2] \in DOMAIN Model[v][p[1]]
                                 /\ Model[v][p[1]][p[2]].span
BY DEF AllSpans, SpansOf

(* The spans of the sources are in the scope, under a key of their own.    *)
LEMMA LiveSpansCount ==
    ASSUME IInv, PlanInv, Strict, NEW p \in LiveSpans
    PROVE  /\ p \in AllSpans[source] /\ p \in AllSpans[inputs.built] /\ p \in InScope(inputs)
           /\ Line(p) = Model[inputs.built][p[1]][p[2]]
           /\ KeyOf(inputs, p)[2] # "file"
           /\ Ladders[source][p].source = Line(p).text
<1>1. p \in AllSpans[source] /\ (args.only = {} \/ Feature(p[1]) \in args.only \ args.except)
  BY DEF LiveSpans
<1>2. source \in DOMAIN Model /\ inputs.built \in DOMAIN Model /\ inputs = Read
  BY StrictIsFresh
<1>3. p[1] \in DOMAIN Model[source] /\ p[2] \in DOMAIN Model[source][p[1]]
  BY <1>1, <1>2, SpansAreLines
<1>4. p \in AllSpans[inputs.built] /\ Line(p) = Model[inputs.built][p[1]][p[2]]
  <2>1. p[1] \in DOMAIN Model[inputs.built] /\ Model[inputs.built][p[1]] = Model[source][p[1]]
    BY <1>3, StrictIsFresh
  <2> QED
    BY <1>1, <1>2, <1>3, <2>1, SpansAreLines DEF Line
<1>5. p \in InScope(inputs)
  <2>1. p \notin Library
    BY <1>1, <1>2, SourcesAssumption
  <2>2. inputs.only = args.only /\ inputs.except = args.except
    BY <1>2 DEF Read
  <2> QED
    BY <1>1, <1>4, <2>1, <2>2 DEF InScope
<1>6. p \in PositionsAt(source)
  BY <1>1, StrictIsFresh
<1>7. KeyOf(inputs, p) = KeyIn(Ladders[source][p])
  BY <1>2, <1>6, RowsAtPositions DEF KeyOf, Read
<1>8. KeyIn(Ladders[source][p])[2] # "file"
  BY <1>1, <1>2, SourcesAssumption
<1>9. Ladders[source][p].source = Line(p).text
  BY <1>2, <1>3, <1>6, RowsAtPositions DEF Line
<1> QED
  BY <1>1, <1>4, <1>5, <1>7, <1>8, <1>9

(* What is in the scope under the key of a live span is a live span.       *)
LEMMA ScopeIsLive ==
    ASSUME IInv, PlanInv, Strict, NEW p \in InScope(inputs), KeyOf(inputs, p)[2] # "file"
    PROVE  p \in LiveSpans
<1>1. /\ source \in DOMAIN Model /\ inputs.built \in DOMAIN Model /\ inputs = Read
      /\ AllSpans[inputs.built] \subseteq PositionsAt(source)
  BY StrictIsFresh
<1>2. /\ p \in AllSpans[inputs.built]
      /\ args.only # {} => Feature(p[1]) \in args.only /\ Feature(p[1]) \notin args.except
  BY <1>1 DEF InScope, Read
<1>3. KeyOf(inputs, p) = KeyIn(Ladders[source][p])
  BY <1>1, <1>2, RowsAtPositions DEF KeyOf, Read
<1>4. p[1] \in DOMAIN Model[source]
  BY <1>1, <1>2, <1>3, RowsAtPositions
<1>5. p \in AllSpans[source]
  <2>1. Model[inputs.built][p[1]] = Model[source][p[1]]
    BY <1>4, StrictIsFresh
  <2> QED
    BY <1>1, <1>2, <1>4, <2>1, SpansAreLines
<1> QED
  BY <1>2, <1>5 DEF LiveSpans

(* The status of a live span is what the replay and its line say.          *)
LEMMA StatusIsTrue ==
    ASSUME IInv, PlanInv, Strict, NEW p \in LiveSpans
    PROVE  Status(inputs, p) = IF args.exclude /\ Line(p).really.plumbing THEN "excluded"
                               ELSE IF Executed(p) THEN "covered" ELSE "todo"
<1>1. /\ p \in AllSpans[source] /\ p \in AllSpans[inputs.built]
      /\ Line(p) = Model[inputs.built][p[1]][p[2]]
  BY LiveSpansCount
<1>2. /\ inputs = Read /\ source \in DOMAIN Model /\ inputs.built \in DOMAIN Model
      /\ inputs.corpus = IF args.joined THEN <<inputs.built, log.corpus>> ELSE <<>>
  BY StrictIsFresh
<1>3. inputs.spared # 0 /\ p \in Spared[inputs.spared] <=> args.exclude /\ Line(p).really.plumbing
  <2>1. inputs.spared = IF args.exclude THEN source ELSE 0
    BY <1>2 DEF Strict, Read
  <2>2. source # 0
    BY <1>2, PlanAssumption DEF Model
  <2>3. p \in Spared[source] <=> Line(p).really.plumbing
    BY <1>1, <1>2, SourcesAssumption DEF Line
  <2> QED
    BY <2>1, <2>2, <2>3
<1>4. inputs.corpus # <<>> /\ p \in Reached(inputs.corpus[1], inputs.corpus[2]) <=> Executed(p)
  <2>1. CASE args.joined
    <3>1. inputs.corpus # <<>> /\ inputs.corpus[1] = inputs.built /\ inputs.corpus[2] = log.corpus
      BY <1>2, <2>1
    <3>2. p \in Reached(inputs.built, log.corpus) <=> Line(p).test \in log.corpus
      BY <1>1 DEF Reached
    <3> QED
      BY <2>1, <3>1, <3>2 DEF Executed
  <2>2. CASE ~args.joined
    BY <1>2, <2>2 DEF Executed
  <2> QED
    BY <2>1, <2>2
<1> QED
  BY <1>3, <1>4 DEF Status

(* A plan made from fresh inputs tells the truth about the model on disk.  *)
LEMMA StrictTellsTheTruth == ASSUME IInv, PlanInv PROVE PlanTellsTheTruth
<1> SUFFICES ASSUME Strict PROVE PlanTellsTheTruth
  BY DEF PlanTellsTheTruth, Strict
<1> DEFINE items == Items(inputs)
           dead(p) == args.exclude /\ Line(p).really.plumbing
           with(key) == {p \in LiveSpans : KeyOf(inputs, p) = key /\ ~dead(p)}
<1>1. LiveSpans \subseteq InScope(inputs)
  BY LiveSpansCount
<1>2. \A p \in LiveSpans :
         /\ Ladders[source][p].source = Line(p).text
         /\ Status(inputs, p) = IF dead(p) THEN "excluded"
                                ELSE IF Executed(p) THEN "covered" ELSE "todo"
  BY LiveSpansCount, StatusIsTrue
<1>3. ASSUME NEW key \in {KeyOf(inputs, p) : p \in LiveSpans}
      PROVE  LET left == {p \in with(key) : ~Executed(p)}
                 reachable == key[3] \notin OUT_OF_REACH /\ left # {}
             IN  /\ items[key].spans = Cardinality(with(key))
                 /\ items[key].todo = Cardinality(left)
                 /\ items[key].state = "complete" <=> with(key) # {} /\ left = {}
                 /\ key \in Schedule(inputs, items) => reachable
                 /\ reachable /\ key \notin Schedule(inputs, items) =>
                       ScheduleLength <= Cardinality(
                          {other \in Outstanding(items) \ {key} :
                             Percent(items[other]) <= Percent(items[key])})
  <2> DEFINE left == {p \in with(key) : ~Executed(p)}
             done == {p \in with(key) : Executed(p)}
  <2>1. PICK q \in LiveSpans : KeyOf(inputs, q) = key
    OBVIOUS
  <2>2. q \in InScope(inputs) /\ key[2] # "file"
    BY <2>1, LiveSpansCount
  <2>3. \A p \in InScope(inputs) : KeyOf(inputs, p) = key => p \in LiveSpans
    BY <2>2, ScopeIsLive
  <2>4. Among(inputs, key, "todo") = left
    BY <1>1, <1>2, <2>3 DEF Among
  <2>5. Among(inputs, key, "covered") = done
    BY <1>1, <1>2, <2>3 DEF Among
  <2>6. inputs.built \in DOMAIN Model
    BY StrictIsFresh
  <2>7. with(key) = left \cup done /\ left \cap done = {}
    OBVIOUS
  <2> DEFINE all == with(key)
  <2>8. all = left \cup done /\ left \cap done = {}
    BY <2>7
  <2> HIDE DEF items, left, done, all
  <2>9. /\ IsFiniteSet(left) /\ Cardinality(left) \in Nat /\ (Cardinality(left) = 0 <=> left = {})
        /\ IsFiniteSet(done) /\ Cardinality(done) \in Nat /\ (Cardinality(done) = 0 <=> done = {})
    BY <2>4, <2>5, <2>6, CountsAre
  <2>10. Cardinality(all) = Cardinality(left) + Cardinality(done)
    <3>1. Cardinality(left \cup done)
            = Cardinality(left) + Cardinality(done) - Cardinality(left \cap done)
      BY <2>9, FS_Union
    <3>2. Cardinality(left \cap done) = 0
      BY <2>8, FS_EmptySet
    <3> QED
      BY <2>8, <2>9, <3>1, <3>2
  <2>11. /\ key \in DOMAIN items
         /\ items[key].todo = Cardinality(left)
         /\ items[key].spans = Cardinality(left) + Cardinality(done)
         /\ items[key].state = "complete" <=> Cardinality(left) = 0 /\ Cardinality(done) # 0
         /\ key \in Outstanding(items) <=> Cardinality(left) # 0 /\ key[3] \notin OUT_OF_REACH
    BY <2>1, <2>2, <2>4, <2>5, <2>6, ItemsCount DEF items
  <2>12. items[key].state = "complete" <=> all # {} /\ left = {}
    BY <2>8, <2>9, <2>11
  <2>13. key \in Schedule(inputs, items) => key[3] \notin OUT_OF_REACH /\ left # {}
    BY <2>9, <2>11 DEF Schedule
  <2>14. ASSUME key[3] \notin OUT_OF_REACH, left # {}, key \notin Schedule(inputs, items)
         PROVE  ScheduleLength <= Cardinality(
                   {other \in Outstanding(items) \ {key} :
                      Percent(items[other]) <= Percent(items[key])})
    <3>1. key \in Outstanding(items)
      BY <2>9, <2>11, <2>14
    <3> QED
      BY <2>6, <2>14, <3>1, LeftOut DEF items
  <2> QED
    BY <2>10, <2>11, <2>12, <2>13, <2>14 DEF left, all
<1> HIDE DEF items, with, dead
<1>4. \A key \in {KeyOf(inputs, p) : p \in LiveSpans} :
         LET left == {p \in with(key) : ~Executed(p)}
             reachable == key[3] \notin OUT_OF_REACH /\ left # {}
         IN  /\ items[key].spans = Cardinality(with(key))
             /\ items[key].todo = Cardinality(left)
             /\ items[key].state = "complete" <=> with(key) # {} /\ left = {}
             /\ key \in Schedule(inputs, items) => reachable
             /\ reachable /\ key \notin Schedule(inputs, items) =>
                   ScheduleLength <= Cardinality(
                      {other \in Outstanding(items) \ {key} :
                         Percent(items[other]) <= Percent(items[key])})
  BY <1>3
<1> QED
  BY <1>1, <1>2, <1>4 DEF PlanTellsTheTruth, items, with, dead

(* Without --allow-stale, what a plan says of a span is true of the model  *)
(* on disk and of the last replay, and its items add up.                   *)
THEOREM PlansTellTheTruth == Spec => []PlanTellsTheTruth
<1>1. IInv /\ PlanInv => PlanTellsTheTruth
  BY StrictTellsTheTruth
<1> QED
  BY Invariance, PlanInvariance, <1>1, PTL

(* An exit of zero from the gate.                                          *)
LEMMA GatePasses ==
    ASSUME IInv, PlanInv, Strict, Exit, outcome' = "ok", args.gate,
           NEW p \in LiveSpans, ~Executed(p), ~(args.exclude /\ Line(p).really.plumbing)
    PROVE  KeyOf(inputs, p) \in DOMAIN Items(Chosen) /\ Items(Chosen)[KeyOf(inputs, p)].todo > 0
<1> DEFINE key == KeyOf(inputs, p)
           items == Items(inputs)
           old == Items(Chosen)
<1>1. base # Nothing /\ Failing(items, Items(base)) = {}
  BY DEF Exit
<1>2. base = Chosen /\ Chosen \notin {Nothing, Absent, Torn}
  BY <1>1 DEF PlanInv, FromDisk, Strict
<1>3. Chosen.built \in DOMAIN Model
  <2>1. IsPlan(Chosen)
    BY DEF PlanInv, PlansTyped, Chosen, Leaf
  <2> QED
    BY <1>2, <2>1 DEF IsPlan
<1>4. p \in InScope(inputs) /\ inputs.built \in DOMAIN Model /\ Status(inputs, p) = "todo"
  BY LiveSpansCount, StrictIsFresh, StatusIsTrue
<1>5. p \in Among(inputs, key, "todo")
  BY <1>4 DEF Among
<1> HIDE DEF items, old, key
<1>6. /\ key \in DOMAIN items /\ items[key].todo \in Nat /\ items[key].todo # 0
      /\ key \in Live(items)
  <2>1. \E q \in InScope(inputs) : KeyOf(inputs, q) = key
    BY <1>4 DEF key
  <2> QED
    BY <1>4, <1>5, <2>1, ItemsCount, CountsAre DEF items
<1>7. items[key].todo > 0
  BY <1>6
<1>8. key \notin Failing(items, old)
  BY <1>1, <1>2 DEF old
<1>9. key \in DOMAIN old /\ old[key].todo # 0
  BY <1>6, <1>7, <1>8 DEF Failing
<1>10. old[key].todo \in Nat
  BY <1>3, <1>9, ItemsCount, CountsAre DEF old
<1> QED
  BY <1>9, <1>10 DEF old, key

(* --fail-on-new-holes exits with zero from fresh inputs only if whatever  *)
(* nothing executes belongs to an item the baseline had left to do.        *)
THEOREM GateStops == Spec => GateStopsNewTargets
<1> DEFINE Passes == pc = "exit" /\ pc' = "idle" /\ outcome' = "ok" /\ args.gate /\ ~args.allow
                     /\ (args.exclude => spared = source)
           Stopped == LET old == IF args.baseline = "own" THEN before["json"] ELSE kept
                      IN  \A p \in LiveSpans :
                             Executed(p) \/ (args.exclude /\ Line(p).really.plumbing)
                             \/ /\ KeyOf(inputs, p) \in DOMAIN Items(old)
                                /\ Items(old)[KeyOf(inputs, p)].todo > 0
<1>1. IInv /\ PlanInv /\ [Next]_vars => [Passes => Stopped]_vars
  <2> SUFFICES ASSUME IInv, PlanInv, Next, Passes PROVE Stopped
    BY DEF vars
  <2>1. Exit
    <3>1. ~Die
      BY DEF Die
    <3> QED
      BY <3>1 DEF Next, Edit, Event, Build, Replay, DeriveExclusions, Keep, Start, Refuse, Load,
                  Write, Leaf
  <2>2. Strict
    BY DEF Strict
  <2>3. ASSUME NEW p \in LiveSpans, ~Executed(p), ~(args.exclude /\ Line(p).really.plumbing)
        PROVE  KeyOf(inputs, p) \in DOMAIN Items(Chosen) /\ Items(Chosen)[KeyOf(inputs, p)].todo > 0
    BY <2>1, <2>2, <2>3, GatePasses
  <2> QED
    BY <2>3 DEF Chosen
<1>2. GateStopsNewTargets <=> [][Passes => Stopped]_vars
  BY DEF GateStopsNewTargets
<1> HIDE DEF Passes, Stopped
<1> QED
  BY <1>1, <1>2, Invariance, PlanInvariance, PTL DEF Spec

-----------------------------------------------------------------------------
(***************************************************************************)
(* The search from a helper back to the instructions that reach it.        *)
(***************************************************************************)

(* A set with zero and the successor of each of its numbers has them all.  *)
LEMMA NumbersBySuccession ==
    ASSUME NEW S, 0 \in S, \A n \in Nat : n \in S => n + 1 \in S
    PROVE  Nat \subseteq S
<1> SUFFICES ASSUME Nat \ S # {} PROVE FALSE
  OBVIOUS
<1>1. PICK m \in Nat \ S : \A n \in Nat \ S : ~(<<n, m>> \in OpToRel(<, Nat))
  BY WFMin, NatLessThanWellFounded, Zenon
<1>2. m # 0 /\ m \in Nat /\ m - 1 \in Nat /\ (m - 1) + 1 = m /\ m - 1 < m
  OBVIOUS
<1>3. m - 1 \in Nat \ S
  BY <1>2
<1>4. <<m - 1, m>> \in OpToRel(<, Nat)
  <2>1. <<m - 1, m>> \in Nat \X Nat /\ <<m - 1, m>>[1] < <<m - 1, m>>[2]
    BY <1>2
  <2> QED
    BY <2>1, Zenon DEF OpToRel
<1> QED
  BY <1>1, <1>3, <1>4

(* A finite set with more than n members has a subset with n.              *)
LEMMA SomeOfMany ==
    ASSUME NEW A, IsFiniteSet(A), NEW n \in Nat, Cardinality(A) > n
    PROVE  \E S \in SUBSET A : Cardinality(S) = n
<1> DEFINE N == Cardinality(A)
<1>1. N \in Nat /\ ExistsBijection(1 .. N, A)
  BY FS_CardinalityType
<1>2. PICK f \in Bijection(1 .. N, A) : TRUE
  BY <1>1 DEF ExistsBijection
<1>3. /\ f \in [1 .. N -> A]
      /\ \A i, j \in 1 .. N : f[i] = f[j] => i = j
  BY <1>2 DEF Bijection, Injection, IsInjective
<1> DEFINE S == {f[i] : i \in 1 .. n}
           g == [i \in 1 .. n |-> f[i]]
<1>4. 1 .. n \subseteq 1 .. N
  BY <1>1
<1>5. S \in SUBSET A
  BY <1>3, <1>4
<1>6. g \in Bijection(1 .. n, S)
  <2>1. g \in [1 .. n -> S]
    OBVIOUS
  <2>2. \A i, j \in 1 .. n : g[i] = g[j] => i = j
    BY <1>3, <1>4
  <2>3. \A s \in S : \E i \in 1 .. n : g[i] = s
    OBVIOUS
  <2> HIDE DEF g, S
  <2> QED
    BY <2>1, <2>2, <2>3 DEF Bijection, Injection, Surjection, IsInjective
<1>7. IsFiniteSet(1 .. n) /\ Cardinality(1 .. n) = n
  <2>1. 1 \in Int /\ n \in Int
    OBVIOUS
  <2>2. IsFiniteSet(1 .. n) /\ Cardinality(1 .. n) = IF 1 > n THEN 0 ELSE n - 1 + 1
    BY <2>1, FS_Interval
  <2> QED
    BY <2>2
<1> HIDE DEF S, g
<1>8. Cardinality(S) = n
  BY <1>6, <1>7, FS_Bijection, Zenon DEF ExistsBijection
<1> QED
  BY <1>5, <1>8

(* All names are listed, or Limit of them.                                 *)
LEMMA NamesListed ==
    ASSUME NEW all, IsFiniteSet(all), Limit \in Nat \ {0}
    PROVE  /\ FirstNames(all).named \subseteq all
           /\ Cardinality(all) <= Limit => FirstNames(all).named = all
           /\ Cardinality(all) > Limit => Cardinality(FirstNames(all).named) = Limit
<1> DEFINE chosen == CHOOSE S \in SUBSET all : Cardinality(S) = Limit
           listed == IF Cardinality(all) <= Limit THEN all ELSE chosen
<1>1. Cardinality(all) \in Nat
  BY FS_CardinalityType
<1>2. Cardinality(all) > Limit => chosen \in SUBSET all /\ Cardinality(chosen) = Limit
  BY SomeOfMany
<1>3. FirstNames(all).named = listed
  BY DEF FirstNames
<1> HIDE DEF chosen
<1> QED
  BY <1>1, <1>2, <1>3

(* Where the search begins, and how the instructions that reach a function *)
(* in n calls grow with n.                                                 *)
Here(func) == [seen |-> {func}, frontier |-> {func}, found |-> {}, over |-> FALSE]
OneMoreCall(src, calls, names) ==
    names \cup {c[1] : c \in {e \in calls : e[2] \in names \ ExecuteNames(src)}}
IsSearch(level, src, func) ==
    /\ level[0] = Here(func)
    /\ \A n \in 1 .. Depth :
          level[n] = Widen(src, Calls(src), ExecuteNames(src), level[n - 1])
IsWithin(within, src, calls, func) ==
    /\ within[0] = {func}
    /\ \A n \in 1 .. Depth : within[n] = OneMoreCall(src, calls, within[n - 1])

(* The levels of the search are those of its definition.                   *)
LEMMA SearchHasLevels ==
    ASSUME NEW src, NEW func, Depth \in Nat
    PROVE  \E level : /\ IsSearch(level, src, func)
                      /\ Reach(src, Calls(src), ExecuteNames(src), func)
                           = FirstNames(UNION {Targets(src, c) : c \in level[Depth].found})
<1> DEFINE Next1(old) == Widen(src, Calls(src), ExecuteNames(src), old)
           Unfold(f) == [n \in 0 .. Depth |-> IF n = 0 THEN Here(func) ELSE Next1(f[n - 1])]
           level == CHOOSE f : f = Unfold(f)
           First(n, g) == \A i \in 0 .. n : g[i] = IF i = 0 THEN Here(func) ELSE Next1(g[i - 1])
           Has == {n \in Nat : \E g : g = [i \in 0 .. n |-> g[i]] /\ First(n, g)}
<1>1. Reach(src, Calls(src), ExecuteNames(src), func)
        = FirstNames(UNION {Targets(src, c) : c \in level[Depth].found})
  BY DEF Reach, Here
<1>2. level = Unfold(level) => IsSearch(level, src, func)
  <2> SUFFICES ASSUME level = Unfold(level) PROVE IsSearch(level, src, func)
    OBVIOUS
  <2> HIDE DEF level
  <2> DEFINE Step(n) == IF n = 0 THEN Here(func) ELSE Next1(level[n - 1])
  <2>1. level = [n \in 0 .. Depth |-> Step(n)]
    OBVIOUS
  <2> HIDE DEF Step
  <2>2. \A n \in 0 .. Depth : level[n] = Step(n)
    BY <2>1
  <2>3. 0 \in 0 .. Depth /\ \A n \in 1 .. Depth : n \in 0 .. Depth /\ n # 0
    OBVIOUS
  <2> QED
    BY <2>2, <2>3 DEF Step, IsSearch
<1> HIDE DEF Next1
<1>3. 0 \in Has
  <2> DEFINE g == [i \in 0 .. 0 |-> Here(func)]
  <2>1. g = [i \in 0 .. 0 |-> g[i]] /\ First(0, g)
    OBVIOUS
  <2> HIDE DEF g
  <2> QED
    BY <2>1
<1>4. ASSUME NEW n \in Nat, n \in Has PROVE n + 1 \in Has
  <2>1. PICK g : g = [i \in 0 .. n |-> g[i]] /\ First(n, g)
    BY <1>4
  <2> DEFINE h == [i \in 0 .. n + 1 |-> IF i = n + 1 THEN Next1(g[n]) ELSE g[i]]
  <2>2. h = [i \in 0 .. n + 1 |-> h[i]]
    OBVIOUS
  <2>3. h[n + 1] = Next1(h[n]) /\ \A i \in 0 .. n : h[i] = g[i] /\ (i # 0 => h[i - 1] = g[i - 1])
    OBVIOUS
  <2> HIDE DEF h
  <2>4. ASSUME NEW i \in 0 .. n + 1
        PROVE  h[i] = IF i = 0 THEN Here(func) ELSE Next1(h[i - 1])
    <3>1. CASE i = n + 1
      <4>1. i # 0 /\ i - 1 = n
        BY <3>1
      <4> QED
        BY <2>3, <3>1, <4>1
    <3>2. CASE i \in 0 .. n
      BY <2>1, <2>3, <3>2
    <3> QED
      BY <3>1, <3>2
  <2>5. First(n + 1, h)
    BY <2>4
  <2> HIDE DEF First
  <2> QED
    BY <2>2, <2>5
<1>5. \E f : f = Unfold(f)
  <2> HIDE DEF Has
  <2>1. Depth \in Has
    BY <1>3, <1>4, NumbersBySuccession
  <2>2. PICK g : g = [i \in 0 .. Depth |-> g[i]] /\ First(Depth, g)
    BY <2>1 DEF Has
  <2>3. g = Unfold(g)
    BY <2>2
  <2> HIDE DEF Unfold
  <2> QED
    BY <2>3
<1>6. level = Unfold(level)
  <2> HIDE DEF Unfold
  <2> QED
    BY <1>5
<1> HIDE DEF level
<1> QED
  BY <1>1, <1>2, <1>6

(* So are the functions within n calls.                                    *)
LEMMA CallsHaveLevels ==
    ASSUME NEW calls, NEW func, Depth \in Nat
    PROVE  LET src == Model[source]
           IN  \E within : /\ IsWithin(within, src, calls, func)
                           /\ InstructionsWithin(Depth, calls, func)
                                = UNION {InstructionsOf(source, c) :
                                           c \in within[Depth] \cap ExecuteNames(src)}
<1> DEFINE src == Model[source]
           Next1(old) == OneMoreCall(src, calls, old)
           Unfold(f) == [n \in 0 .. Depth |-> IF n = 0 THEN {func} ELSE Next1(f[n - 1])]
           within == CHOOSE f : f = Unfold(f)
           First(n, g) == \A i \in 0 .. n : g[i] = IF i = 0 THEN {func} ELSE Next1(g[i - 1])
           Has == {n \in Nat : \E g : g = [i \in 0 .. n |-> g[i]] /\ First(n, g)}
<1>1. InstructionsWithin(Depth, calls, func)
        = UNION {InstructionsOf(source, c) : c \in within[Depth] \cap ExecuteNames(src)}
  BY DEF InstructionsWithin, OneMoreCall
<1>2. within = Unfold(within) => IsWithin(within, src, calls, func)
  <2> SUFFICES ASSUME within = Unfold(within) PROVE IsWithin(within, src, calls, func)
    OBVIOUS
  <2> HIDE DEF within, src
  <2> DEFINE Step(n) == IF n = 0 THEN {func} ELSE Next1(within[n - 1])
  <2>1. within = [n \in 0 .. Depth |-> Step(n)]
    OBVIOUS
  <2> HIDE DEF Step
  <2>2. \A n \in 0 .. Depth : within[n] = Step(n)
    BY <2>1
  <2>3. 0 \in 0 .. Depth /\ \A n \in 1 .. Depth : n \in 0 .. Depth /\ n # 0
    OBVIOUS
  <2> QED
    BY <2>2, <2>3 DEF Step, IsWithin
<1> HIDE DEF Next1
<1>3. 0 \in Has
  <2> DEFINE g == [i \in 0 .. 0 |-> {func}]
  <2>1. g = [i \in 0 .. 0 |-> g[i]] /\ First(0, g)
    OBVIOUS
  <2> HIDE DEF g
  <2> QED
    BY <2>1
<1>4. ASSUME NEW n \in Nat, n \in Has PROVE n + 1 \in Has
  <2>1. PICK g : g = [i \in 0 .. n |-> g[i]] /\ First(n, g)
    BY <1>4
  <2> DEFINE h == [i \in 0 .. n + 1 |-> IF i = n + 1 THEN Next1(g[n]) ELSE g[i]]
  <2>2. h = [i \in 0 .. n + 1 |-> h[i]]
    OBVIOUS
  <2>3. h[n + 1] = Next1(h[n]) /\ \A i \in 0 .. n : h[i] = g[i] /\ (i # 0 => h[i - 1] = g[i - 1])
    OBVIOUS
  <2> HIDE DEF h
  <2>4. ASSUME NEW i \in 0 .. n + 1
        PROVE  h[i] = IF i = 0 THEN {func} ELSE Next1(h[i - 1])
    <3>1. CASE i = n + 1
      <4>1. i # 0 /\ i - 1 = n
        BY <3>1
      <4> QED
        BY <2>3, <3>1, <4>1
    <3>2. CASE i \in 0 .. n
      BY <2>1, <2>3, <3>2
    <3> QED
      BY <3>1, <3>2
  <2>5. First(n + 1, h)
    BY <2>4
  <2> HIDE DEF First
  <2> QED
    BY <2>2, <2>5
<1>5. \E f : f = Unfold(f)
  <2> HIDE DEF Has
  <2>1. Depth \in Has
    BY <1>3, <1>4, NumbersBySuccession
  <2>2. PICK g : g = [i \in 0 .. Depth |-> g[i]] /\ First(Depth, g)
    BY <2>1 DEF Has
  <2>3. g = Unfold(g)
    BY <2>2
  <2> HIDE DEF Unfold
  <2> QED
    BY <2>3
<1>6. within = Unfold(within)
  <2> HIDE DEF Unfold
  <2> QED
    BY <1>5
<1> HIDE DEF within
<1> QED
  BY <1>1, <1>2, <1>6

(* A level has seen what calls within so many steps, and found the         *)
(* instructions among it; all but its frontier, none of it an instruction, *)
(* was asked for its callers.  Or it stopped early with Limit names.       *)
Enough(src, found) == Cardinality(UNION {Targets(src, c) : c \in found}) >= Limit
Asked(src, old) ==
    \A e \in Calls(src) :
       e[2] \in (old.seen \ ExecuteNames(src)) \ old.frontier => e[1] \in old.seen
SearchInv(src, old, names) ==
    /\ old.found = old.seen \cap ExecuteNames(src)
    /\ old.seen \subseteq names
    /\ \/ old.over /\ Enough(src, old.found)
       \/ /\ old.seen = names
          /\ old.frontier \subseteq old.seen \ ExecuteNames(src)
          /\ Asked(src, old)
          /\ old.over => old.frontier = {}

(* One level more.                                                         *)
LEMMA WidenSearchInv ==
    ASSUME NEW src, NEW old, NEW names, SearchInv(src, old, names)
    PROVE  SearchInv(src, Widen(src, Calls(src), ExecuteNames(src), old), OneMoreCall(src, Calls(src), names))
<1> DEFINE E == ExecuteNames(src)
           new == {e[1] : e \in {c \in Calls(src) : c[2] \in old.frontier}} \ old.seen
           wide == [seen |-> old.seen \cup new, frontier |-> new \ E,
                    found |-> old.found \cup (new \cap E),
                    over |-> \/ Enough(src, old.found \cup (new \cap E))
                             \/ new \subseteq E]
           next == Widen(src, Calls(src), E, old)
           more == OneMoreCall(src, Calls(src), names)
<1>1. next = IF old.over THEN old ELSE wide
  BY DEF Widen, Enough
<1>2. /\ names \subseteq more
      /\ \A x \in more : x \in names \/ \E e \in Calls(src) : e[1] = x /\ e[2] \in names \ E
      /\ \A e \in Calls(src) : e[2] \in names \ E => e[1] \in more
  BY DEF OneMoreCall
<1>3. /\ \A x \in new : x \notin old.seen /\ \E e \in Calls(src) : e[1] = x /\ e[2] \in old.frontier
      /\ \A e \in Calls(src) : e[2] \in old.frontier => e[1] \in old.seen \cup new
  OBVIOUS
<1>4. CASE old.over /\ Enough(src, old.found)
  BY <1>1, <1>2, <1>4 DEF SearchInv
<1>5. CASE old.over /\ ~Enough(src, old.found)
  <2>1. old.seen = names /\ old.frontier = {} /\ Asked(src, old)
    BY <1>5 DEF SearchInv
  <2>2. more \subseteq old.seen
    BY <1>2, <2>1 DEF Asked
  <2>3. more = old.seen
    BY <1>2, <2>1, <2>2
  <2> QED
    BY <1>1, <1>5, <2>1, <2>3 DEF SearchInv
<1>6. CASE ~old.over
  <2>1. /\ old.seen = names /\ old.frontier \subseteq old.seen \ E /\ Asked(src, old)
        /\ old.found = old.seen \cap E
    BY <1>6 DEF SearchInv
  <2>2. wide.seen = more
    <3>1. old.seen \cup new \subseteq more
      BY <1>2, <1>3, <2>1
    <3>2. more \subseteq old.seen \cup new
      BY <1>2, <1>3, <2>1 DEF Asked
    <3> QED
      BY <3>1, <3>2
  <2> HIDE DEF new
  <2>3. wide.found = wide.seen \cap E /\ wide.frontier \subseteq wide.seen \ E
    BY <2>1
  <2>4. Asked(src, wide)
    <3> SUFFICES ASSUME NEW e \in Calls(src), e[2] \in ((old.seen \cup new) \ E) \ (new \ E)
                 PROVE  e[1] \in old.seen \cup new
      BY DEF Asked
    <3>1. e[2] \in old.seen \ E
      OBVIOUS
    <3> QED
      BY <1>3, <2>1, <3>1 DEF Asked
  <2>5. wide.over => Enough(src, wide.found) \/ wide.frontier = {}
    OBVIOUS
  <2>6. SearchInv(src, wide, more)
    <3> HIDE DEF wide, more
    <3> QED
      BY <2>2, <2>3, <2>4, <2>5 DEF SearchInv
  <2> QED
    BY <1>1, <1>6, <2>6
<1> QED
  BY <1>4, <1>5, <1>6

(* The search finds the instructions within Depth calls, and no others; it *)
(* stops early only with Limit names.                                      *)
LEMMA SearchIsRight ==
    ASSUME NEW src, NEW func, func \notin ExecuteNames(src), Depth \in Nat,
           NEW level, IsSearch(level, src, func),
           NEW within, IsWithin(within, src, Calls(src), func)
    PROVE  SearchInv(src, level[Depth], within[Depth])
<1> DEFINE Right == {n \in Nat : n <= Depth => SearchInv(src, level[n], within[n])}
<1>1. 0 \in Right
  <2>1. level[0] = Here(func) /\ within[0] = {func}
    BY DEF IsSearch, IsWithin
  <2>2. SearchInv(src, Here(func), {func})
    BY DEF SearchInv, Here, Asked
  <2> QED
    BY <2>1, <2>2
<1>2. ASSUME NEW n \in Nat, n \in Right PROVE n + 1 \in Right
  <2> SUFFICES ASSUME n + 1 <= Depth PROVE SearchInv(src, level[n + 1], within[n + 1])
    OBVIOUS
  <2>1. SearchInv(src, level[n], within[n]) /\ n + 1 \in 1 .. Depth /\ (n + 1) - 1 = n
    BY <1>2
  <2>2. /\ level[n + 1] = Widen(src, Calls(src), ExecuteNames(src), level[n])
        /\ within[n + 1] = OneMoreCall(src, Calls(src), within[n])
    BY <2>1 DEF IsSearch, IsWithin
  <2> QED
    BY <2>1, <2>2, WidenSearchInv
<1> HIDE DEF Right
<1>3. Depth \in Right
  BY <1>1, <1>2, NumbersBySuccession
<1> QED
  BY <1>3 DEF Right

(* What is within some calls of a function, itself apart, calls something. *)
LEMMA WithinCalls ==
    ASSUME NEW src, NEW calls, NEW func, Depth \in Nat,
           NEW within, IsWithin(within, src, calls, func)
    PROVE  \A n \in 0 .. Depth : within[n] \subseteq {func} \cup {c[1] : c \in calls}
<1> DEFINE Known == {func} \cup {c[1] : c \in calls}
           Right == {n \in Nat : n <= Depth => within[n] \subseteq Known}
<1>1. 0 \in Right
  BY DEF IsWithin
<1>2. ASSUME NEW n \in Nat, n \in Right PROVE n + 1 \in Right
  <2> SUFFICES ASSUME n + 1 <= Depth PROVE within[n + 1] \subseteq Known
    OBVIOUS
  <2>1. within[n] \subseteq Known /\ n + 1 \in 1 .. Depth /\ (n + 1) - 1 = n
    BY <1>2
  <2>2. within[n + 1] = OneMoreCall(src, calls, within[n])
    BY <2>1 DEF IsWithin
  <2> QED
    BY <2>1, <2>2 DEF OneMoreCall
<1> HIDE DEF Right
<1>3. Nat \subseteq Right
  BY <1>1, <1>2, NumbersBySuccession
<1> QED
  BY <1>3 DEF Right

(* More calls reach more.                                                  *)
LEMMA WithinGrows ==
    ASSUME NEW src, NEW few, NEW many, few \subseteq many, NEW func, Depth \in Nat,
           NEW small, IsWithin(small, src, few, func), NEW large, IsWithin(large, src, many, func)
    PROVE  small[Depth] \subseteq large[Depth]
<1> DEFINE Right == {n \in Nat : n <= Depth => small[n] \subseteq large[n]}
<1>1. 0 \in Right
  BY DEF IsWithin
<1>2. ASSUME NEW n \in Nat, n \in Right PROVE n + 1 \in Right
  <2> SUFFICES ASSUME n + 1 <= Depth PROVE small[n + 1] \subseteq large[n + 1]
    OBVIOUS
  <2>1. small[n] \subseteq large[n] /\ n + 1 \in 1 .. Depth /\ (n + 1) - 1 = n
    BY <1>2
  <2>2. /\ small[n + 1] = OneMoreCall(src, few, small[n])
        /\ large[n + 1] = OneMoreCall(src, many, large[n])
    BY <2>1 DEF IsWithin
  <2> QED
    BY <2>1, <2>2 DEF OneMoreCall
<1> HIDE DEF Right
<1>3. Depth \in Right
  BY <1>1, <1>2, NumbersBySuccession
<1> QED
  BY <1>3 DEF Right

(* The lines up to the next definition are those of a definition.          *)
LEMMA LastIsLast ==
    ASSUME NEW lines, Len(lines) \in Nat, DOMAIN lines = 1 .. Len(lines),
           NEW n \in Starts(lines), NEW k \in DOMAIN lines
    PROVE  k \in n .. Last(lines, n) <=> InDefinition(lines, k, n)
<1> DEFINE later == {m \in Starts(lines) : m > n}
           next == CHOOSE x \in later : \A y \in later : x <= y
<1>1. /\ n \in Nat /\ 1 <= n /\ k \in Nat /\ 1 <= k /\ k <= Len(lines) /\ lines[n].def # <<>>
      /\ later \subseteq Nat /\ Starts(lines) \subseteq 1 .. Len(lines)
  BY DEF Starts
<1>2. later # {} => /\ next \in later /\ next \in Nat /\ \A y \in later : next <= y
  <2> SUFFICES ASSUME later # {} PROVE \E x \in later : \A y \in later : x <= y
    BY <1>1
  <2> HIDE DEF later
  <2> QED
    BY <1>1, LeastIsThere
<1>3. Last(lines, n) = IF later = {} THEN Len(lines) ELSE next - 1
  BY DEF Last
<1> HIDE DEF next
<1>4. InDefinition(lines, k, n) <=> n <= k /\ \A m \in later : ~(m <= k)
  <2>1. ASSUME NEW m \in n + 1 .. k, lines[m].def # <<>> PROVE m \in later /\ m <= k
    BY <1>1, <2>1 DEF Starts
  <2>2. ASSUME NEW m \in later, m <= k PROVE m \in n + 1 .. k /\ lines[m].def # <<>>
    BY <1>1, <2>2 DEF Starts
  <2>3. n \in 1 .. k <=> n <= k
    BY <1>1
  <2> HIDE DEF later
  <2> QED
    BY <1>1, <2>1, <2>2, <2>3 DEF InDefinition
<1>5. CASE later = {}
  BY <1>1, <1>3, <1>4, <1>5
<1>6. CASE later # {}
  <2>1. (\A m \in later : ~(m <= k)) <=> k <= next - 1
    <3> HIDE DEF later
    <3> QED
      BY <1>1, <1>2, <1>6
  <2> HIDE DEF later
  <2> QED
    BY <1>1, <1>2, <1>3, <1>4, <1>6, <2>1
<1> QED
  BY <1>5, <1>6

(* The calls of the index are those below the first lines, but for a       *)
(* definition's own name and names that no definition has.                 *)
KnownNames(src) == {NameOf(src, d) : d \in {e \in Definitions(src) : KindOf(src, e) \in Callables}}
LEMMA CallsAreBelow ==
    ASSUME NEW v \in DOMAIN Model
    PROVE  LET src == Model[v]
           IN  /\ Calls(src) = {e \in AppliesBelow(src) : e[2] \in KnownNames(src) /\ e[1] # e[2]}
               /\ \A e \in AppliesBelow(src) : e[1] \in KnownNames(src)
               /\ AppliesBelow(src) \subseteq Applies(src)
<1> DEFINE src == Model[v]
           callers == {d \in Definitions(src) : KindOf(src, d) \in Code}
           body(d) == UNION {src[d[1]][k].calls : k \in d[2] + 1 .. Last(src[d[1]], d[2])}
<1>1. ASSUME NEW d \in Definitions(src)
      PROVE  d[2] + 1 .. Last(src[d[1]], d[2]) = LinesOf(src, d) \ {d[2]}
  <2> DEFINE lines == src[d[1]]
  <2>1. d[1] \in DOMAIN src /\ d[2] \in Starts(lines)
    BY DEF Definitions
  <2>2. WellLaid(lines)
    BY <2>1, StructureAssumption
  <2>3. Len(lines) \in Nat /\ DOMAIN lines = 1 .. Len(lines)
    BY <2>2 DEF WellLaid
  <2>4. LinesOf(src, d) = {k \in DOMAIN lines : InDefinition(lines, k, d[2])}
    BY DEF LinesOf
  <2> HIDE DEF lines
  <2>5. d[2] \in 1 .. Len(lines)
    BY <2>1, <2>3 DEF Starts
  <2>6. Last(lines, d[2]) \in Int /\ Last(lines, d[2]) <= Len(lines)
    <3> DEFINE later == {m \in Starts(lines) : m > d[2]}
               next == CHOOSE x \in later : \A y \in later : x <= y
    <3>1. later \subseteq 1 .. Len(lines)
      BY <2>3 DEF Starts
    <3>2. later # {} => next \in later
      <4> SUFFICES ASSUME later # {} PROVE \E x \in later : \A y \in later : x <= y
        OBVIOUS
      <4>1. later \subseteq Nat
        BY <3>1
      <4> HIDE DEF later
      <4> QED
        BY <4>1, LeastIsThere
    <3>3. Last(lines, d[2]) = IF later = {} THEN Len(lines) ELSE next - 1
      BY DEF Last
    <3> HIDE DEF later, next
    <3>4. later # {} => next \in 1 .. Len(lines)
      BY <3>1, <3>2
    <3>5. CASE later = {}
      BY <2>3, <3>3, <3>5
    <3>6. CASE later # {}
      BY <2>3, <3>3, <3>4, <3>6
    <3> QED
      BY <3>5, <3>6
  <2>7. \A k \in DOMAIN lines : k \in d[2] .. Last(lines, d[2]) <=> InDefinition(lines, k, d[2])
    BY <2>1, <2>3, LastIsLast
  <2>8. \A k : k \in d[2] + 1 .. Last(lines, d[2]) <=>
                  k \in DOMAIN lines /\ k \in d[2] .. Last(lines, d[2]) /\ k # d[2]
    BY <2>3, <2>5, <2>6
  <2> QED
    BY <2>4, <2>7, <2>8 DEF lines
<1>2. \A e : e \in Calls(src) <=>
               \E d \in callers : /\ e = <<NameOf(src, d), e[2]>>
                                  /\ e[2] \in body(d) /\ e[2] \in KnownNames(src)
                                  /\ e[2] # NameOf(src, d)
  <2> HIDE DEF body
  <2>1. Calls(src) = UNION {{NameOf(src, d)} \X ((body(d) \cap KnownNames(src)) \ {NameOf(src, d)}) :
                              d \in callers}
    BY DEF Calls, KnownNames, Code, body
  <2> HIDE DEF callers
  <2> QED
    BY <2>1
<1>3. \A e : e \in AppliesBelow(src) <=>
               \E d \in callers : /\ e = <<NameOf(src, d), e[2]>>
                                  /\ e[2] \in body(d)
  <2>1. AppliesBelow(src)
          = UNION {UNION {{NameOf(src, d)} \X src[d[1]][k].calls : k \in LinesOf(src, d) \ {d[2]}} :
                     d \in callers}
    BY DEF AppliesBelow
  <2>2. \A d \in callers : body(d) = UNION {src[d[1]][k].calls : k \in LinesOf(src, d) \ {d[2]}}
    BY <1>1
  <2> HIDE DEF callers, body
  <2> QED
    BY <2>1, <2>2
<1>4. \A d \in callers : NameOf(src, d) \in KnownNames(src)
  BY DEF KnownNames, Callables, Code
<1>5. AppliesBelow(src) \subseteq Applies(src)
  BY DEF AppliesBelow, Applies
<1> HIDE DEF callers, body
<1>6. \A e \in AppliesBelow(src) : e[1] \in KnownNames(src)
  BY <1>3, <1>4
<1>7. \A e : e \in Calls(src) <=>
               e \in AppliesBelow(src) /\ e[2] \in KnownNames(src) /\ e[1] # e[2]
  BY <1>2, <1>3
<1> HIDE DEF src
<1>8. Calls(src) = {e \in AppliesBelow(src) : e[2] \in KnownNames(src) /\ e[1] # e[2]}
  BY <1>7
<1> QED
  BY <1>5, <1>6, <1>8 DEF src

(* So they reach the same from a name that some definition has.            *)
LEMMA BelowReaches ==
    ASSUME NEW v \in DOMAIN Model, Depth \in Nat, NEW func \in KnownNames(Model[v]),
           NEW within, IsWithin(within, Model[v], AppliesBelow(Model[v]), func)
    PROVE  IsWithin(within, Model[v], Calls(Model[v]), func)
<1> DEFINE src == Model[v]
<1>1. \A n \in 0 .. Depth : within[n] \subseteq KnownNames(src)
  BY WithinCalls, CallsAreBelow
<1>2. ASSUME NEW names \in SUBSET KnownNames(src)
      PROVE  OneMoreCall(src, AppliesBelow(src), names) = OneMoreCall(src, Calls(src), names)
  BY CallsAreBelow DEF OneMoreCall
<1> HIDE DEF src
<1>3. ASSUME NEW n \in 1 .. Depth PROVE within[n] = OneMoreCall(src, Calls(src), within[n - 1])
  <2>1. n - 1 \in 0 .. Depth
    OBVIOUS
  <2>2. within[n] = OneMoreCall(src, AppliesBelow(src), within[n - 1])
    BY DEF IsWithin, src
  <2> QED
    BY <1>1, <1>2, <2>1, <2>2
<1> QED
  BY <1>3 DEF IsWithin, src

(* The names listed for a helper reach it, and every one that does by      *)
(* calls below first lines is listed, unless Limit are.                    *)
ReachedWell(named, below, all) ==
    /\ named # {} <=> below # {}
    /\ named \subseteq all
    /\ Cardinality(named) < Limit => below \subseteq named

LEMMA ReachingIsRight ==
    ASSUME source \in DOMAIN Model, NEW func \in KnownNames(Model[source]),
           func \notin ExecuteNames(Model[source])
    PROVE  ReachedWell(ReachingInstructions(Model[source], func).named,
                       InstructionsWithin(Depth, AppliesBelow(Model[source]), func),
                       InstructionsWithin(Depth, Applies(Model[source]), func))
<1> DEFINE src == Model[source]
           E == ExecuteNames(src)
           Callers == {c[1] : c \in Calls(src)}
           insns == {src[p[1]][p[2]].really.insn : p \in AllSpans[source]}
<1>1. Depth \in Nat /\ Limit \in Nat \ {0}
  BY StructureAssumption
<1>2. PICK level : /\ IsSearch(level, src, func)
                   /\ Reach(src, Calls(src), E, func)
                        = FirstNames(UNION {Targets(src, c) : c \in level[Depth].found})
  BY <1>1, SearchHasLevels
<1>3. PICK within : /\ IsWithin(within, src, AppliesBelow(src), func)
                    /\ InstructionsWithin(Depth, AppliesBelow(src), func)
                         = UNION {InstructionsOf(source, c) : c \in within[Depth] \cap E}
  BY <1>1, CallsHaveLevels
<1>4. IsWithin(within, src, Calls(src), func)
  BY <1>1, <1>3, BelowReaches
<1>5. InstructionsWithin(Depth, AppliesBelow(src), func)
         \subseteq InstructionsWithin(Depth, Applies(src), func)
  <2>1. PICK large : /\ IsWithin(large, src, Applies(src), func)
                     /\ InstructionsWithin(Depth, Applies(src), func)
                          = UNION {InstructionsOf(source, c) : c \in large[Depth] \cap E}
    BY <1>1, CallsHaveLevels
  <2>2. within[Depth] \subseteq large[Depth]
    <3>1. AppliesBelow(src) \subseteq Applies(src)
      BY CallsAreBelow
    <3> HIDE DEF src
    <3> QED
      BY <1>1, <1>3, <2>1, <3>1, WithinGrows
  <2> HIDE DEF src, E
  <2> QED
    BY <1>3, <2>1, <2>2
<1> DEFINE found == level[Depth].found
           some == UNION {Targets(src, c) : c \in found}
           all == InstructionsWithin(Depth, AppliesBelow(src), func)
<1>6. SearchInv(src, level[Depth], within[Depth])
  BY <1>1, <1>2, <1>4, SearchIsRight
<1>7. found \subseteq within[Depth] \cap E /\ within[Depth] \cap E \subseteq Callers \cap E
  <2>1. Depth \in 0 .. Depth
    BY <1>1
  <2>2. within[Depth] \subseteq {func} \cup Callers
    BY <1>1, <1>4, <2>1, WithinCalls
  <2> QED
    BY <1>6, <2>2 DEF SearchInv
<1>8. found = within[Depth] \cap E \/ Cardinality(some) >= Limit
  BY <1>6 DEF SearchInv, Enough
<1>9. \A c \in Callers \cap E : Targets(src, c) = InstructionsOf(source, c)
  BY StructureAssumption
<1>10. some \subseteq all /\ (found = within[Depth] \cap E => some = all)
  BY <1>3, <1>7, <1>9
<1>11. IsFiniteSet(some)
  <2>1. IsFiniteSet(AllSpans[source]) /\ IsFiniteSet(Definitions(src))
    BY SourcesAssumption, StructureAssumption
  <2>2. IsFiniteSet(insns)
    <3> DEFINE g == [p \in AllSpans[source] |-> src[p[1]][p[2]].really.insn]
    <3>1. g = [p \in AllSpans[source] |-> g[p]] /\ insns = {g[p] : p \in AllSpans[source]}
      OBVIOUS
    <3> HIDE DEF g, insns
    <3> QED
      BY <2>1, <3>1, ImageIsFinite
  <2>3. IsFiniteSet(Executes(src))
    BY <2>1, FS_Subset DEF Executes
  <2>4. IsFiniteSet(E)
    <3> DEFINE g == [d \in Executes(src) |-> NameOf(src, d)]
    <3>1. g = [d \in Executes(src) |-> g[d]] /\ E = {g[d] : d \in Executes(src)}
      BY DEF ExecuteNames
    <3> HIDE DEF g, E
    <3> QED
      BY <2>3, <3>1, ImageIsFinite
  <2>5. IsFiniteSet(insns \cup E)
    BY <2>2, <2>4, FS_Union
  <2>6. some \subseteq insns \cup E
    <3> SUFFICES ASSUME NEW c \in found PROVE Targets(src, c) \subseteq insns \cup E
      OBVIOUS
    <3>1. c \in E /\ Targets(src, c) = InstructionsOf(source, c)
      BY <1>7, <1>9
    <3>2. InstructionsOf(source, c) \subseteq insns \cup {c}
      BY DEF InstructionsOf, OrItself
    <3> QED
      BY <3>1, <3>2
  <2> HIDE DEF some, insns, E
  <2> QED
    BY <2>5, <2>6, FS_Subset
<1> DEFINE named == FirstNames(some).named
<1> HIDE DEF some, all, E, Callers, insns, found
<1>12. /\ named \subseteq some
       /\ Cardinality(some) <= Limit => named = some
       /\ Cardinality(some) > Limit => Cardinality(named) = Limit
  BY <1>1, <1>11, NamesListed
<1>13. Cardinality(some) \in Nat /\ IsFiniteSet({}) /\ Cardinality({}) = 0
  BY <1>11, FS_CardinalityType, FS_EmptySet
<1> HIDE DEF named
<1>14. some = all \/ Cardinality(some) >= Limit
  BY <1>8, <1>10
<1>15. named # {} <=> all # {}
  <2>1. Cardinality(some) >= Limit => some # {} /\ all # {}
    BY <1>1, <1>10, <1>13
  <2>2. Cardinality(some) > Limit => named # {}
    BY <1>1, <1>12, <1>13
  <2>3. Cardinality(some) <= Limit => named = some
    BY <1>12
  <2> QED
    BY <1>1, <1>13, <1>14, <2>1, <2>2, <2>3
<1>16. Cardinality(named) < Limit => named = all
  BY <1>1, <1>12, <1>13, <1>14
<1>17. ReachingInstructions(src, func).named = named
  BY <1>2 DEF ReachingInstructions, named, some, E, found
<1> QED
  BY <1>10, <1>12, <1>15, <1>16, <1>17, <1>5 DEF ReachedWell, all

(* The row of a function's line that no rule matches: it is a helper's     *)
(* exactly if some instruction is found, and names those that are.         *)
LEMMA RowOfHelper ==
    ASSUME NEW f, NEW owner, NEW mnem, NEW callers, NEW loose,
           owner[1] = "function", owner[2] \notin Renderers, loose # "helper_function"
    PROVE  LET row == RowOf(f, owner, mnem, callers, "unclassified", loose)
           IN  /\ {"owner", "stimulus", "named"} \subseteq DOMAIN row
               /\ row.owner = owner
               /\ row.stimulus = "helper_function" <=> callers.named # {}
               /\ row.named = callers.named
<1> DEFINE stimulus == Stimulus(owner, mnem, "unclassified", callers, loose)
<1>1. stimulus = IF callers.named # {} THEN "helper_function" ELSE loose
  BY DEF Stimulus
<1> HIDE DEF stimulus
<1>2. RowOf(f, owner, mnem, callers, "unclassified", loose) = RowWith(f, owner, mnem, callers, stimulus)
  BY DEF RowOf, stimulus
<1>3. /\ {"owner", "stimulus", "named"} \subseteq DOMAIN RowWith(f, owner, mnem, callers, stimulus)
      /\ RowWith(f, owner, mnem, callers, stimulus).owner = owner
      /\ RowWith(f, owner, mnem, callers, stimulus).stimulus = stimulus
      /\ RowWith(f, owner, mnem, callers, stimulus).named
           = IF stimulus = "helper_function" THEN callers.named ELSE {}
  BY DEF RowWith
<1> QED
  BY <1>1, <1>2, <1>3

(* The largest of some numbers up to n.                                    *)
LEMMA MaxIsLargest ==
    ASSUME NEW n \in Nat, NEW S \in SUBSET (0 .. n), S # {}
    PROVE  MaxOf(S) \in S /\ \A y \in S : y <= MaxOf(S)
<1> DEFINE Rest == {m \in Nat : m <= n /\ n - m \in S}
<1>1. Rest # {}
  <2>1. PICK y \in S : TRUE
    OBVIOUS
  <2>2. n - y \in Rest
    BY <2>1
  <2> QED
    BY <2>2
<1>2. PICK m \in Rest : \A i \in Rest : ~(<<i, m>> \in OpToRel(<, Nat))
  <2>1. Rest \subseteq Nat
    OBVIOUS
  <2> HIDE DEF Rest
  <2> QED
    BY <1>1, <2>1, WFMin, NatLessThanWellFounded, Zenon
<1>3. ASSUME NEW i \in Rest PROVE m <= i
  <2>1. i \in Nat /\ m \in Nat
    BY <1>2
  <2>2. <<i, m>> \in Nat \X Nat /\ (i < m => <<i, m>>[1] < <<i, m>>[2])
    BY <2>1
  <2>3. i < m => <<i, m>> \in OpToRel(<, Nat)
    BY <2>2, Zenon DEF OpToRel
  <2>4. ~(i < m)
    BY <1>2, <2>3, Zenon
  <2> QED
    BY <2>1, <2>4
<1>4. n - m \in S /\ m \in Nat /\ m <= n
  OBVIOUS
<1>5. ASSUME NEW y \in S PROVE y <= n - m
  <2>1. n - y \in Rest
    OBVIOUS
  <2>2. m <= n - y
    BY <1>3, <2>1
  <2> QED
    BY <1>4, <2>2
<1>6. \E x \in S : \A y \in S : y <= x
  BY <1>4, <1>5
<1> QED
  BY <1>6 DEF MaxOf

(* A largest number is the only one.                                       *)
LEMMA MaxIs ==
    ASSUME NEW n \in Nat, NEW S \in SUBSET (0 .. n), NEW x \in S, \A y \in S : y <= x
    PROVE  MaxOf(S) = x
<1>1. MaxOf(S) \in S /\ x <= MaxOf(S)
  BY MaxIsLargest
<1>2. MaxOf(S) <= x /\ x \in 0 .. n /\ MaxOf(S) \in 0 .. n
  BY <1>1
<1> QED
  BY <1>1, <1>2

(* The definition a line is in is the one its owner is read from.          *)
LEMMA OwnerIsAround ==
    ASSUME NEW lines, DOMAIN lines = 1 .. Len(lines), Len(lines) \in Nat,
           NEW k \in DOMAIN lines, NEW n \in 1 .. k, InDefinition(lines, k, n)
    PROVE  Owner(lines, k) = lines[n].def
<1> DEFINE above == {m \in Starts(lines) : m <= k}
<1>1. k \in Nat /\ n \in Nat /\ n <= k /\ ~(k > Len(lines)) /\ n \in DOMAIN lines
  OBVIOUS
<1>2. n \in Starts(lines) /\ Starts(lines) \subseteq 1 .. Len(lines)
  BY <1>1 DEF InDefinition, Starts
<1>3. \A m \in Starts(lines) : m <= k => m <= n
  <2>1. \A m \in n + 1 .. k : m \notin Starts(lines)
    BY DEF InDefinition, Starts
  <2>2. \A m \in 1 .. Len(lines) : m <= k /\ ~(m <= n) => m \in n + 1 .. k
    BY <1>1
  <2> QED
    BY <1>2, <2>1, <2>2
<1>4. above \subseteq 0 .. k /\ n \in above /\ \A m \in above : m <= n
  BY <1>1, <1>2, <1>3
<1>5. Owner(lines, k) = IF above = {} \/ k > Len(lines) THEN <<"", "">>
                        ELSE lines[MaxOf(above)].def
  BY DEF Owner
<1> HIDE DEF above
<1>6. MaxOf(above) = n
  BY <1>1, <1>4, MaxIs
<1> QED
  BY <1>1, <1>4, <1>5, <1>6

LEMMA OwnersAreAround ==
    ASSUME source \in DOMAIN Model, NEW p \in AllSpans[source]
    PROVE  Line(p).really.owner = Owner(Model[source][p[1]], p[2])
<1> DEFINE lines == Model[source][p[1]]
<1>1. p[1] \in DOMAIN Model[source] /\ p[2] \in DOMAIN lines
  BY SpansAreLines
<1>2. WellLaid(lines)
  BY <1>1, StructureAssumption
<1>3. \E n \in 1 .. p[2] : InDefinition(lines, p[2], n) /\ lines[n].def = Line(p).really.owner
  BY StructureAssumption DEF Line
<1>4. DOMAIN lines = 1 .. Len(lines) /\ Len(lines) \in Nat
  BY <1>2 DEF WellLaid
<1> HIDE DEF lines
<1>5. PICK n \in 1 .. p[2] : InDefinition(lines, p[2], n) /\ lines[n].def = Line(p).really.owner
  BY <1>3
<1>6. Owner(lines, p[2]) = lines[n].def
  BY <1>1, <1>4, <1>5, OwnerIsAround
<1> QED
  BY <1>5, <1>6 DEF lines

(* The row of a helper's span is built so, from the callers of the         *)
(* definition the line is in.                                              *)
LEMMA HelperAtPosition ==
    ASSUME source \in DOMAIN Model, NEW p \in LiveSpans,
           Line(p).really.owner[1] = "function", Line(p).really.owner[2] \notin Renderers,
           Line(p).rules = {}
    PROVE  LET row == Ladders[source][p]
               named == ReachingInstructions(Model[source], row.owner[2]).named
           IN  /\ row.owner = Line(p).really.owner
               /\ row.stimulus = "helper_function" <=> named # {}
               /\ row.named = named
<1> DEFINE src == Model[source]
           f == p[1]
           k == p[2]
           owner == Line(p).really.owner
           arms == [g \in DOMAIN src |-> Arms(src[g])]
           chains == [g \in DOMAIN src |-> Chains(src[g])]
           callers == CallersOf(src, owner)
           loose == Classify(RulesAround(src[f], k))
           mnem == MnemonicIn(src, f, owner, arms[f][k])
           row == RowOf(f, owner, mnem, callers, "unclassified", loose)
<1>1. p \in AllSpans[source] /\ f \in DOMAIN src /\ k \in DOMAIN src[f]
  BY SpansAreLines DEF LiveSpans
<1>2. p \in PositionsAt(source)
  BY <1>1 DEF PositionsAt
<1>3. Owner(src[f], k) = owner
  BY <1>1, OwnersAreAround
<1>4. Ladder(src, f, k, owner, arms[f][k]) = row
  <2>1. Classify(src[f][k].rules) = "unclassified"
    BY ClassesOfRules DEF Line
  <2> HIDE DEF arms
  <2> QED
    BY <2>1 DEF Ladder
<1>5. Ladders[source][p] = Located(row, arms[f][k], chains[f][k], src[f][k].text)
  <2>1. Ladders[source] = RowsOf(src, arms, chains, PositionsAt(source))
    BY DEF Ladders
  <2> HIDE DEF arms, chains, row
  <2> QED
    BY <1>1, <1>2, <1>3, <1>4, <2>1 DEF RowsOf
<1>6. callers = ReachingInstructions(src, owner[2])
  BY DEF CallersOf
<1> HIDE DEF arms, chains, callers, mnem, loose
<1>7. loose # "helper_function"
  BY ClassesOfRules DEF loose
<1>8. /\ {"owner", "stimulus", "named"} \subseteq DOMAIN row
      /\ row.owner = owner
      /\ row.stimulus = "helper_function" <=> callers.named # {}
      /\ row.named = callers.named
  BY <1>7, RowOfHelper
<1> HIDE DEF row, owner
<1>9. \A arm, chain, text : /\ Located(row, arm, chain, text).owner = row.owner
                            /\ Located(row, arm, chain, text).stimulus = row.stimulus
                            /\ Located(row, arm, chain, text).named = row.named
  BY <1>8 DEF Located
<1>10. /\ Ladders[source][p].owner = owner
       /\ Ladders[source][p].stimulus = "helper_function" <=> callers.named # {}
       /\ Ladders[source][p].named = callers.named
  BY <1>5, <1>8, <1>9
<1> QED
  BY <1>6, <1>10 DEF owner

(* A span of a helper that no rule matches names instructions that reach   *)
(* the helper, and, unless Limit are named, all that do within Depth calls *)
(* below first lines: reaching_instructions stops its search for nothing   *)
(* else, and the graph it searches lacks no other call.                    *)
THEOREM HelpersFindInstructions == Spec => []HelpersAreReached
<1>1. ASSUME IInv PROVE HelpersAreReached
  <2> DEFINE src == Model[source]
             Below(func) == InstructionsWithin(Depth, AppliesBelow(src), func)
             All(func) == InstructionsWithin(Depth, Applies(src), func)
  <2> SUFFICES ASSUME NEW p \in HelperSpans
               PROVE  LET row == Ladders[source][p]
                      IN  /\ row.stimulus = "helper_function" <=> Below(row.owner[2]) # {}
                          /\ row.named \subseteq All(row.owner[2])
                          /\ Cardinality(row.named) < Limit => Below(row.owner[2]) \subseteq row.named
    BY DEF HelpersAreReached
  <2>1. /\ p \in LiveSpans /\ Line(p).really.owner[1] = "function"
        /\ Line(p).really.owner[2] \notin Renderers /\ Line(p).rules = {}
    BY DEF HelperSpans
  <2>2. source \in DOMAIN Model
    BY <1>1 DEF IInv, WorldTyped
  <2> DEFINE owner == Line(p).really.owner
             named == ReachingInstructions(Model[source], owner[2]).named
             row == Ladders[source][p]
  <2>3. row.owner = owner /\ (row.stimulus = "helper_function" <=> named # {}) /\ row.named = named
    <3> HIDE DEF row
    <3> QED
      BY <2>1, <2>2, HelperAtPosition DEF row
  <2>4. owner[2] \notin ExecuteNames(Model[source])
    BY <2>1, <2>2, StructureAssumption DEF Line, LiveSpans
  <2>5. owner[2] \in KnownNames(Model[source])
    <3> DEFINE lines == Model[source][p[1]]
    <3>1. p \in AllSpans[source]
      BY <2>1 DEF LiveSpans
    <3>2. p[1] \in DOMAIN Model[source] /\ p[2] \in DOMAIN lines
      BY <2>2, <3>1, SpansAreLines
    <3>3. \E n \in 1 .. p[2] : InDefinition(lines, p[2], n) /\ lines[n].def = owner
      BY <2>2, <3>1, StructureAssumption DEF Line
    <3>4. WellLaid(lines)
      BY <2>2, <3>2, StructureAssumption
    <3>5. DOMAIN lines = 1 .. Len(lines) /\ Len(lines) \in Nat
      BY <3>4 DEF WellLaid
    <3> HIDE DEF owner
    <3>6. PICK n \in 1 .. p[2] : lines[n].def = owner /\ lines[n].def # <<>>
      BY <3>3 DEF InDefinition
    <3> HIDE DEF lines
    <3>7. n \in DOMAIN lines
      BY <3>2, <3>5
    <3>8. n \in Starts(lines)
      BY <3>6, <3>7 DEF Starts
    <3>9. <<p[1], n>> \in Definitions(Model[source])
      BY <3>2, <3>8 DEF Definitions, lines
    <3>10. NameOf(Model[source], <<p[1], n>>) = owner[2] /\ KindOf(Model[source], <<p[1], n>>) = "function"
      BY <2>1, <3>6 DEF NameOf, KindOf, lines, owner
    <3> QED
      BY <3>9, <3>10 DEF KnownNames, Callables
  <2>6. ReachedWell(named, Below(owner[2]), All(owner[2]))
    <3> HIDE DEF owner
    <3> QED
      BY <2>2, <2>4, <2>5, ReachingIsRight
  <2> HIDE DEF owner, named, row, Below, All
  <2> QED
    BY <2>3, <2>6 DEF ReachedWell, row
<1> QED
  BY Invariance, <1>1, PTL

-----------------------------------------------------------------------------
(***************************************************************************)
(* The elements of a list at some positions, in their order.               *)
(***************************************************************************)

(* How Those(s, I) comes about: what of it is among the first i of s.      *)
Gathered(s, I) ==
    CHOOSE f : f = [i \in 0 .. Len(s) |->
        IF i = 0 THEN <<>> ELSE IF i \in I THEN Append(f[i - 1], s[i]) ELSE f[i - 1]]

LEMMA GatheredStepwise ==
    ASSUME NEW s, NEW I, Len(s) \in Nat
    PROVE  /\ Those(s, I) = Gathered(s, I)[Len(s)]
           /\ Gathered(s, I)[0] = <<>>
           /\ \A i \in 1 .. Len(s) :
                Gathered(s, I)[i] = IF i \in I THEN Append(Gathered(s, I)[i - 1], s[i])
                                    ELSE Gathered(s, I)[i - 1]
<1> DEFINE N == Len(s)
           Next1(i, old) == IF i \in I THEN Append(old, s[i]) ELSE old
           Unfold(f) == [i \in 0 .. N |-> IF i = 0 THEN <<>> ELSE Next1(i, f[i - 1])]
           F == CHOOSE f : f = Unfold(f)
           First(n, g) == \A i \in 0 .. n : g[i] = IF i = 0 THEN <<>> ELSE Next1(i, g[i - 1])
           Has == {n \in Nat : \E g : g = [i \in 0 .. n |-> g[i]] /\ First(n, g)}
<1>1. Gathered(s, I) = F /\ Those(s, I) = F[N]
  BY DEF Gathered, Those
<1>2. F = Unfold(F) => F[0] = <<>> /\ \A i \in 1 .. N : F[i] = Next1(i, F[i - 1])
  <2> SUFFICES ASSUME F = Unfold(F) PROVE F[0] = <<>> /\ \A i \in 1 .. N : F[i] = Next1(i, F[i - 1])
    OBVIOUS
  <2> HIDE DEF F
  <2> DEFINE Step(n) == IF n = 0 THEN <<>> ELSE Next1(n, F[n - 1])
  <2>1. F = [n \in 0 .. N |-> Step(n)]
    OBVIOUS
  <2> HIDE DEF Step
  <2>2. \A n \in 0 .. N : F[n] = Step(n)
    BY <2>1
  <2>3. 0 \in 0 .. N /\ \A n \in 1 .. N : n \in 0 .. N /\ n # 0
    OBVIOUS
  <2> QED
    BY <2>2, <2>3 DEF Step
<1> HIDE DEF Next1
<1>3. 0 \in Has
  <2> DEFINE g == [i \in 0 .. 0 |-> <<>>]
  <2>1. g = [i \in 0 .. 0 |-> g[i]] /\ First(0, g)
    OBVIOUS
  <2> HIDE DEF g
  <2> QED
    BY <2>1
<1>4. ASSUME NEW n \in Nat, n \in Has PROVE n + 1 \in Has
  <2>1. PICK g : g = [i \in 0 .. n |-> g[i]] /\ First(n, g)
    BY <1>4
  <2> DEFINE h == [i \in 0 .. n + 1 |-> IF i = n + 1 THEN Next1(n + 1, g[n]) ELSE g[i]]
  <2>2. h = [i \in 0 .. n + 1 |-> h[i]]
    OBVIOUS
  <2>3. /\ h[n + 1] = Next1(n + 1, h[n])
        /\ \A i \in 0 .. n : h[i] = g[i] /\ (i # 0 => h[i - 1] = g[i - 1])
    OBVIOUS
  <2> HIDE DEF h
  <2>4. ASSUME NEW i \in 0 .. n + 1
        PROVE  h[i] = IF i = 0 THEN <<>> ELSE Next1(i, h[i - 1])
    <3>1. CASE i = n + 1
      <4>1. i # 0 /\ i - 1 = n
        BY <3>1
      <4> QED
        BY <2>3, <3>1, <4>1
    <3>2. CASE i \in 0 .. n
      BY <2>1, <2>3, <3>2
    <3> QED
      BY <3>1, <3>2
  <2>5. First(n + 1, h)
    BY <2>4
  <2> HIDE DEF First
  <2> QED
    BY <2>2, <2>5
<1>5. \E f : f = Unfold(f)
  <2> HIDE DEF Has
  <2>1. N \in Has
    BY <1>3, <1>4, NumbersBySuccession
  <2>2. PICK g : g = [i \in 0 .. N |-> g[i]] /\ First(N, g)
    BY <2>1 DEF Has
  <2>3. g = Unfold(g)
    BY <2>2
  <2> HIDE DEF Unfold
  <2> QED
    BY <2>3
<1>6. F = Unfold(F)
  <2> HIDE DEF Unfold
  <2> QED
    BY <1>5
<1> HIDE DEF F
<1> QED
  BY <1>1, <1>2, <1>6 DEF Next1

(* Sets of numbers up to some bound come about by adding larger ones.      *)
LEMMA ByLargest ==
    ASSUME NEW Q, {} \in Q,
           \A n \in Nat : \A J \in SUBSET (1 .. n) : J \in Q => J \cup {n + 1} \in Q
    PROVE  \A n \in Nat : SUBSET (1 .. n) \subseteq Q
<1> DEFINE Good == {n \in Nat : SUBSET (1 .. n) \subseteq Q}
<1>1. 0 \in Good
  <2>1. \A J \in SUBSET (1 .. 0) : J = {}
    OBVIOUS
  <2> QED
    BY <2>1
<1>2. ASSUME NEW n \in Nat, n \in Good PROVE n + 1 \in Good
  <2> SUFFICES ASSUME NEW J \in SUBSET (1 .. n + 1) PROVE J \in Q
    OBVIOUS
  <2>1. J \ {n + 1} \in SUBSET (1 .. n)
    OBVIOUS
  <2>2. J \ {n + 1} \in Q /\ (J \ {n + 1}) \cup {n + 1} \in Q
    BY <1>2, <2>1
  <2>3. J = J \ {n + 1} \/ J = (J \ {n + 1}) \cup {n + 1}
    OBVIOUS
  <2> QED
    BY <2>2, <2>3
<1> HIDE DEF Good
<1>3. Nat \subseteq Good
  BY <1>1, <1>2, NumbersBySuccession
<1> QED
  BY <1>3 DEF Good

(* The last position adds its element at the end.                          *)
LEMMA ThoseWithLast ==
    ASSUME NEW s, Len(s) \in Nat, NEW n \in Nat, n + 1 <= Len(s), NEW J \in SUBSET (1 .. n)
    PROVE  Those(s, J \cup {n + 1}) = Append(Those(s, J), s[n + 1])
<1> DEFINE N == Len(s)
           K == J \cup {n + 1}
           a == Gathered(s, J)
           b == Gathered(s, K)
           Same == {i \in Nat : i <= n => a[i] = b[i]}
           Rest == {i \in Nat : n + 1 + i <= N => a[n + 1 + i] = a[n] /\ b[n + 1 + i] = b[n + 1]}
<1>1. /\ Those(s, J) = a[N] /\ Those(s, K) = b[N] /\ a[0] = <<>> /\ b[0] = <<>>
      /\ \A i \in 1 .. N : /\ a[i] = IF i \in J THEN Append(a[i - 1], s[i]) ELSE a[i - 1]
                           /\ b[i] = IF i \in K THEN Append(b[i - 1], s[i]) ELSE b[i - 1]
  <2> HIDE DEF K
  <2> QED
    BY GatheredStepwise
<1> HIDE DEF a, b
<1>2. n \in Same
  <2>1. 0 \in Same
    BY <1>1
  <2>2. ASSUME NEW i \in Nat, i \in Same PROVE i + 1 \in Same
    <3> SUFFICES ASSUME i + 1 <= n PROVE a[i + 1] = b[i + 1]
      OBVIOUS
    <3>1. i + 1 \in 1 .. N /\ (i + 1) - 1 = i /\ i + 1 # n + 1 /\ a[i] = b[i]
      BY <2>2
    <3> QED
      BY <1>1, <3>1
  <2> HIDE DEF Same
  <2> QED
    BY <2>1, <2>2, NumbersBySuccession
<1>3. a[n] = b[n] /\ a[n + 1] = a[n] /\ b[n + 1] = Append(b[n], s[n + 1])
  <2>1. n + 1 \in 1 .. N /\ (n + 1) - 1 = n /\ n + 1 \notin J /\ n + 1 \in K
    OBVIOUS
  <2>2. a[n] = b[n]
    BY <1>2
  <2>3. \A i \in 1 .. N : /\ i \notin J => a[i] = a[i - 1]
                          /\ i \in K => b[i] = Append(b[i - 1], s[i])
    BY <1>1
  <2> HIDE DEF K
  <2> QED
    BY <2>1, <2>2, <2>3
<1>4. N - (n + 1) \in Rest
  <2>1. 0 \in Rest
    BY <1>3
  <2>2. ASSUME NEW i \in Nat, i \in Rest PROVE i + 1 \in Rest
    <3> DEFINE m == n + 1 + i
    <3> SUFFICES ASSUME m + 1 <= N PROVE a[m + 1] = a[n] /\ b[m + 1] = b[n + 1]
      OBVIOUS
    <3>1. /\ m + 1 \in 1 .. N /\ (m + 1) - 1 = m /\ m + 1 \notin J /\ m + 1 \notin K
          /\ a[m] = a[n] /\ b[m] = b[n + 1]
      BY <2>2
    <3> HIDE DEF m
    <3> QED
      BY <1>1, <3>1
  <2>3. N - (n + 1) \in Nat
    OBVIOUS
  <2> HIDE DEF Rest
  <2> QED
    BY <2>1, <2>2, <2>3, NumbersBySuccession
<1>5. a[N] = a[n] /\ b[N] = b[n + 1]
  <2>1. N - (n + 1) \in Nat /\ n + 1 + (N - (n + 1)) = N
    OBVIOUS
  <2> QED
    BY <1>4, <2>1
<1> QED
  BY <1>1, <1>3, <1>5

(* No positions, no elements.                                              *)
LEMMA ThoseNone == ASSUME NEW s, Len(s) \in Nat PROVE Those(s, {}) = <<>>
<1> DEFINE a == Gathered(s, {})
           Same == {i \in Nat : i <= Len(s) => a[i] = <<>>}
<1>1. /\ Those(s, {}) = a[Len(s)] /\ a[0] = <<>>
      /\ \A i \in 1 .. Len(s) : a[i] = a[i - 1]
  BY GatheredStepwise
<1> HIDE DEF a
<1>2. 0 \in Same
  BY <1>1
<1>3. ASSUME NEW i \in Nat, i \in Same PROVE i + 1 \in Same
  <2> SUFFICES ASSUME i + 1 <= Len(s) PROVE a[i + 1] = <<>>
    OBVIOUS
  <2>1. i + 1 \in 1 .. Len(s) /\ (i + 1) - 1 = i /\ a[i] = <<>>
    BY <1>3
  <2> QED
    BY <1>1, <2>1
<1> HIDE DEF Same
<1>4. Len(s) \in Same
  BY <1>2, <1>3, NumbersBySuccession
<1> QED
  BY <1>1, <1>4 DEF Same

(* Elements of a kind.                                                     *)
LEMMA ThoseAreList ==
    ASSUME NEW E, NEW s, Len(s) \in Nat, \A i \in 1 .. Len(s) : s[i] \in E,
           NEW I \in SUBSET (1 .. Len(s))
    PROVE  Those(s, I) \in Seq(E)
<1> DEFINE N == Len(s)
           Q == {J \in SUBSET Nat : J \subseteq 1 .. N => Those(s, J) \in Seq(E)}
<1>1. {} \in Q
  <2>1. Those(s, {}) = <<>> /\ <<>> \in Seq(E)
    BY ThoseNone
  <2> QED
    BY <2>1
<1>2. ASSUME NEW n \in Nat, NEW J \in SUBSET (1 .. n), J \in Q PROVE J \cup {n + 1} \in Q
  <2>1. J \cup {n + 1} \in SUBSET Nat
    OBVIOUS
  <2>2. ASSUME J \cup {n + 1} \subseteq 1 .. N PROVE Those(s, J \cup {n + 1}) \in Seq(E)
    <3>1. n + 1 <= N /\ n + 1 \in 1 .. N /\ J \subseteq 1 .. N
      BY <2>2
    <3>2. Those(s, J \cup {n + 1}) = Append(Those(s, J), s[n + 1])
      BY <3>1, ThoseWithLast
    <3> DEFINE a == Those(s, J)
    <3>3. a \in Seq(E) /\ s[n + 1] \in E
      BY <1>2, <3>1
    <3> HIDE DEF a
    <3>4. Append(a, s[n + 1]) \in Seq(E)
      BY <3>3
    <3> QED
      BY <3>2, <3>4 DEF a
  <2> QED
    BY <2>1, <2>2
<1> HIDE DEF Q
<1>3. I \in Q
  BY <1>1, <1>2, ByLargest
<1> QED
  BY <1>3 DEF Q

(* The elements of two lists at the same positions.                        *)
Matched(s, t, J) ==
    /\ DOMAIN Those(s, J) = DOMAIN Those(t, J)
    /\ \A n \in DOMAIN Those(s, J) : \E i \in J : Those(s, J)[n] = s[i] /\ Those(t, J)[n] = t[i]

LEMMA ThoseMatch ==
    ASSUME NEW E, NEW s, NEW t, Len(s) \in Nat, Len(t) = Len(s),
           \A i \in 1 .. Len(s) : s[i] \in E /\ t[i] \in E,
           NEW I \in SUBSET (1 .. Len(s))
    PROVE  Matched(s, t, I)
<1> DEFINE N == Len(s)
           Q == {J \in SUBSET Nat : J \subseteq 1 .. N => Matched(s, t, J)}
<1>1. {} \in Q
  <2>1. Those(s, {}) = <<>> /\ Those(t, {}) = <<>>
    BY ThoseNone
  <2>2. Matched(s, t, {})
    BY <2>1 DEF Matched
  <2> QED
    BY <2>2
<1>2. ASSUME NEW n \in Nat, NEW J \in SUBSET (1 .. n), J \in Q PROVE J \cup {n + 1} \in Q
  <2>1. J \cup {n + 1} \in SUBSET Nat
    OBVIOUS
  <2>2. ASSUME J \cup {n + 1} \subseteq 1 .. N PROVE Matched(s, t, J \cup {n + 1})
    <3>1. n + 1 <= N /\ n + 1 \in 1 .. N /\ J \subseteq 1 .. N
      BY <2>2
    <3> DEFINE a == Those(s, J)
               b == Those(t, J)
    <3>2. /\ Those(s, J \cup {n + 1}) = Append(a, s[n + 1])
          /\ Those(t, J \cup {n + 1}) = Append(b, t[n + 1])
      BY <3>1, ThoseWithLast
    <3>3. a \in Seq(E) /\ b \in Seq(E)
      <4>1. \A i \in 1 .. Len(t) : t[i] \in E
        OBVIOUS
      <4> QED
        BY <3>1, <4>1, ThoseAreList
    <3>4. Matched(s, t, J)
      BY <1>2, <3>1
    <3> HIDE DEF a, b
    <3>5. /\ Len(a) = Len(b) /\ Len(a) \in Nat /\ DOMAIN a = 1 .. Len(a)
          /\ \A i \in 1 .. Len(a) : \E j \in J : a[i] = s[j] /\ b[i] = t[j]
      BY <3>3, <3>4 DEF Matched, a, b
    <3>6. DOMAIN Append(a, s[n + 1]) = DOMAIN Append(b, t[n + 1])
      BY <3>3, <3>5
    <3>7. ASSUME NEW i \in DOMAIN Append(a, s[n + 1])
          PROVE  \E j \in J \cup {n + 1} : Append(a, s[n + 1])[i] = s[j] /\ Append(b, t[n + 1])[i] = t[j]
      <4>1. CASE i = Len(a) + 1
        BY <3>3, <3>5, <4>1
      <4>2. CASE i \in 1 .. Len(a)
        <5>1. Append(a, s[n + 1])[i] = a[i] /\ Append(b, t[n + 1])[i] = b[i]
          BY <3>3, <3>5, <4>2
        <5> QED
          BY <3>5, <4>2, <5>1
      <4>3. i = Len(a) + 1 \/ i \in 1 .. Len(a)
        <5>1. DOMAIN Append(a, s[n + 1]) = 1 .. Len(a) + 1 /\ Len(a) \in Nat
          BY <3>3
        <5> QED
          BY <3>7, <5>1
      <4> QED
        BY <4>1, <4>2, <4>3
    <3> QED
      BY <3>2, <3>6, <3>7 DEF Matched
  <2> QED
    BY <2>1, <2>2
<1> HIDE DEF Q
<1>3. I \in Q
  BY <1>1, <1>2, ByLargest
<1> QED
  BY <1>3 DEF Q

(* Lists that agree at the positions.                                      *)
LEMMA ThoseAgree ==
    ASSUME NEW s, NEW t, Len(s) \in Nat, Len(t) = Len(s),
           NEW I \in SUBSET (1 .. Len(s)), \A i \in I : s[i] = t[i]
    PROVE  Those(s, I) = Those(t, I)
<1> DEFINE N == Len(s)
           Q == {J \in SUBSET Nat : J \subseteq I => Those(s, J) = Those(t, J)}
<1>1. {} \in Q
  BY ThoseNone
<1>2. ASSUME NEW n \in Nat, NEW J \in SUBSET (1 .. n), J \in Q PROVE J \cup {n + 1} \in Q
  <2>1. J \cup {n + 1} \in SUBSET Nat
    OBVIOUS
  <2>2. ASSUME J \cup {n + 1} \subseteq I PROVE Those(s, J \cup {n + 1}) = Those(t, J \cup {n + 1})
    <3>1. n + 1 <= N /\ J \subseteq I /\ s[n + 1] = t[n + 1]
      BY <2>2
    <3>2. /\ Those(s, J \cup {n + 1}) = Append(Those(s, J), s[n + 1])
          /\ Those(t, J \cup {n + 1}) = Append(Those(t, J), t[n + 1])
      BY <3>1, ThoseWithLast
    <3> QED
      BY <1>2, <3>1, <3>2
  <2> QED
    BY <2>1, <2>2
<1> HIDE DEF Q
<1>3. I \in Q
  BY <1>1, <1>2, ByLargest
<1> QED
  BY <1>3 DEF Q

-----------------------------------------------------------------------------
(***************************************************************************)
(* Stacks of scopes.                                                       *)
(***************************************************************************)

(* The scope pushed last stays, and then all do, or goes first.            *)
LEMMA PoppedAppend ==
    ASSUME NEW E, \A e \in E : e.depth \in Int, NEW s \in Seq(E), NEW x \in E, NEW d \in Int
    PROVE  Popped(Append(s, x), d) = IF x.depth <= d THEN Append(s, x) ELSE Popped(s, d)
<1> DEFINE n == Len(s)
           t == Append(s, x)
           S == {0} \cup {i \in DOMAIN s : s[i].depth <= d}
           T == {0} \cup {i \in DOMAIN t : t[i].depth <= d}
<1>1. /\ n \in Nat /\ DOMAIN s = 1 .. n /\ DOMAIN t = 1 .. n + 1 /\ t \in Seq(E) /\ Len(t) = n + 1
      /\ t[n + 1] = x /\ \A i \in 1 .. n : t[i] = s[i]
  OBVIOUS
<1>2. Popped(t, d) = SubSeq(t, 1, MaxOf(T)) /\ Popped(s, d) = SubSeq(s, 1, MaxOf(S))
  BY DEF Popped
<1> HIDE DEF t
<1>3. T \subseteq 0 .. n + 1 /\ S \subseteq 0 .. n /\ S # {}
  BY <1>1
<1>4. CASE x.depth <= d
  <2>1. n + 1 \in T /\ \A y \in T : y <= n + 1
    BY <1>1, <1>3, <1>4
  <2>2. MaxOf(T) = n + 1
    <3> HIDE DEF T
    <3>1. n + 1 \in Nat
      BY <1>1
    <3> QED
      BY <1>3, <2>1, <3>1, MaxIs
  <2>3. SubSeq(t, 1, n + 1) = t
    BY <1>1
  <2> QED
    BY <1>2, <1>4, <2>2, <2>3 DEF t
<1>5. CASE ~(x.depth <= d)
  <2>1. T = S
    BY <1>1, <1>5
  <2> DEFINE m == MaxOf(S)
  <2> HIDE DEF S
  <2>2. m \in 0 .. n
    BY <1>1, <1>3, MaxIsLargest
  <2> HIDE DEF m
  <2>3. SubSeq(t, 1, m) = SubSeq(s, 1, m)
    <3>1. \A i \in 1 .. m : i \in 1 .. n /\ t[i] = s[i]
      BY <1>1, <2>2
    <3>2. SubSeq(t, 1, m) = [i \in 1 .. m |-> t[i]] /\ SubSeq(s, 1, m) = [i \in 1 .. m |-> s[i]]
      BY <1>1, <2>2
    <3> QED
      BY <3>1, <3>2
  <2> QED
    BY <1>2, <1>5, <2>1, <2>3 DEF t, m
<1> QED
  BY <1>4, <1>5

LEMMA PoppedNone == ASSUME NEW d PROVE Popped(<<>>, d) = <<>>
<1>1. {0} \cup {i \in DOMAIN <<>> : <<>>[i].depth <= d} = {0}
  OBVIOUS
<1>2. MaxOf({0}) = 0
  BY DEF MaxOf
<1>3. SubSeq(<<>>, 1, 0) = <<>>
  OBVIOUS
<1> QED
  BY <1>1, <1>2, <1>3 DEF Popped

(* Of scopes whose depths rise, those not deeper than the line stay.       *)
Rising(E, e, I) ==
    /\ \A x \in E : x.depth \in Int
    /\ Len(e) \in Nat /\ \A i \in 1 .. Len(e) : e[i] \in E
    /\ I \subseteq 1 .. Len(e)
    /\ \A i, j \in I : i <= j => e[i].depth <= e[j].depth

LEMMA PoppedThose ==
    ASSUME NEW E, NEW e, NEW I, Rising(E, e, I), NEW d \in Int
    PROVE  Popped(Those(e, I), d) = Those(e, {i \in I : e[i].depth <= d})
<1>1. /\ \A x \in E : x.depth \in Int
      /\ Len(e) \in Nat /\ \A i \in 1 .. Len(e) : e[i] \in E
      /\ I \in SUBSET (1 .. Len(e))
      /\ \A i, j \in I : i <= j => e[i].depth <= e[j].depth
  BY DEF Rising
<1> USE <1>1
<1> DEFINE N == Len(e)
           Kept(J) == {i \in J : e[i].depth <= d}
           Q == {J \in SUBSET Nat : J \subseteq I => Popped(Those(e, J), d) = Those(e, Kept(J))}
<1>2. {} \in Q
  <2>1. Kept({}) = {}
    OBVIOUS
  <2>2. Popped(Those(e, {}), d) = Those(e, {})
    BY ThoseNone, PoppedNone
  <2> HIDE DEF Kept
  <2> QED
    BY <2>1, <2>2
<1>3. ASSUME NEW n \in Nat, NEW J \in SUBSET (1 .. n), J \in Q PROVE J \cup {n + 1} \in Q
  <2>1. J \cup {n + 1} \in SUBSET Nat
    OBVIOUS
  <2>2. ASSUME J \cup {n + 1} \subseteq I
        PROVE  Popped(Those(e, J \cup {n + 1}), d) = Those(e, Kept(J \cup {n + 1}))
    <3> DEFINE a == Those(e, J)
               x == e[n + 1]
    <3>1. n + 1 \in 1 .. N /\ n + 1 <= N /\ J \subseteq 1 .. N /\ J \subseteq I /\ n + 1 \in I /\ n + 1 \notin J
      BY <2>2
    <3>2. Those(e, J \cup {n + 1}) = Append(a, x)
      BY <3>1, ThoseWithLast
    <3>3. a \in Seq(E)
      BY <3>1, ThoseAreList
    <3>4. x \in E /\ x.depth \in Int
      BY <3>1
    <3>5. Popped(Append(a, x), d) = IF x.depth <= d THEN Append(a, x) ELSE Popped(a, d)
      BY <3>3, <3>4, PoppedAppend
    <3>6. CASE x.depth <= d
      <4>1. \A i \in J : e[i].depth <= d
        <5> SUFFICES ASSUME NEW i \in J PROVE e[i].depth <= d
          OBVIOUS
        <5>1. i \in I /\ i \in 1 .. N /\ i <= n + 1
          BY <3>1
        <5>2. e[i].depth <= x.depth /\ e[i].depth \in Int
          BY <3>1, <5>1
        <5> QED
          BY <3>4, <3>6, <5>2
      <4>2. Kept(J \cup {n + 1}) = J \cup {n + 1}
        BY <3>6, <4>1
      <4> HIDE DEF a, x, Kept
      <4> QED
        BY <3>2, <3>5, <3>6, <4>2
    <3>7. CASE ~(x.depth <= d)
      <4>1. Kept(J \cup {n + 1}) = Kept(J)
        BY <3>7
      <4>2. Popped(a, d) = Those(e, Kept(J))
        BY <1>3, <3>1
      <4> HIDE DEF a, x, Kept
      <4> QED
        BY <3>2, <3>5, <3>7, <4>1, <4>2
    <3> QED
      BY <3>6, <3>7
  <2> HIDE DEF Kept
  <2> QED
    BY <2>1, <2>2
<1> HIDE DEF Q, Kept
<1>4. I \in Q
  BY <1>2, <1>3, ByLargest
<1> QED
  BY <1>4 DEF Q, Kept

(* The depth of the braces, line by line.                                  *)
LEMMA DepthsStepwise ==
    ASSUME NEW lines, WellLaid(lines)
    PROVE  /\ \A k \in 0 .. Len(lines) : Depths(lines)[k] \in Int
           /\ \A k \in 1 .. Len(lines) :
                 Depths(lines)[k] = Depths(lines)[k - 1] + lines[k].open - lines[k].close
<1> DEFINE N == Len(lines)
           Next1(k, old) == old + lines[k].open - lines[k].close
           Unfold(f) == [k \in 0 .. N |-> IF k = 0 THEN 0 ELSE Next1(k, f[k - 1])]
           F == CHOOSE f : f = Unfold(f)
           First(n, g) == \A i \in 0 .. n : g[i] = IF i = 0 THEN 0 ELSE Next1(i, g[i - 1])
           Has == {n \in Nat : \E g : g = [i \in 0 .. n |-> g[i]] /\ First(n, g)}
<1>1. N \in Nat
  BY DEF WellLaid
<1>2. Depths(lines) = F
  BY DEF Depths
<1>3. F = Unfold(F) => F[0] = 0 /\ \A k \in 1 .. N : F[k] = Next1(k, F[k - 1])
  <2> SUFFICES ASSUME F = Unfold(F) PROVE F[0] = 0 /\ \A k \in 1 .. N : F[k] = Next1(k, F[k - 1])
    OBVIOUS
  <2> HIDE DEF F
  <2> DEFINE Step(n) == IF n = 0 THEN 0 ELSE Next1(n, F[n - 1])
  <2>1. F = [n \in 0 .. N |-> Step(n)]
    OBVIOUS
  <2> HIDE DEF Step
  <2>2. \A n \in 0 .. N : F[n] = Step(n)
    BY <2>1
  <2>3. 0 \in 0 .. N /\ \A n \in 1 .. N : n \in 0 .. N /\ n # 0
    BY <1>1
  <2> QED
    BY <2>2, <2>3 DEF Step
<1> HIDE DEF Next1
<1>4. 0 \in Has
  <2> DEFINE g == [i \in 0 .. 0 |-> 0]
  <2>1. g = [i \in 0 .. 0 |-> g[i]] /\ First(0, g)
    OBVIOUS
  <2> HIDE DEF g
  <2> QED
    BY <2>1
<1>5. ASSUME NEW n \in Nat, n \in Has PROVE n + 1 \in Has
  <2>1. PICK g : g = [i \in 0 .. n |-> g[i]] /\ First(n, g)
    BY <1>5
  <2> DEFINE h == [i \in 0 .. n + 1 |-> IF i = n + 1 THEN Next1(n + 1, g[n]) ELSE g[i]]
  <2>2. h = [i \in 0 .. n + 1 |-> h[i]]
    OBVIOUS
  <2>3. /\ h[n + 1] = Next1(n + 1, h[n])
        /\ \A i \in 0 .. n : h[i] = g[i] /\ (i # 0 => h[i - 1] = g[i - 1])
    OBVIOUS
  <2> HIDE DEF h
  <2>4. ASSUME NEW i \in 0 .. n + 1
        PROVE  h[i] = IF i = 0 THEN 0 ELSE Next1(i, h[i - 1])
    <3>1. CASE i = n + 1
      <4>1. i # 0 /\ i - 1 = n
        BY <3>1
      <4> QED
        BY <2>3, <3>1, <4>1
    <3>2. CASE i \in 0 .. n
      BY <2>1, <2>3, <3>2
    <3> QED
      BY <3>1, <3>2
  <2>5. First(n + 1, h)
    BY <2>4
  <2> HIDE DEF First
  <2> QED
    BY <2>2, <2>5
<1>6. \E f : f = Unfold(f)
  <2> HIDE DEF Has
  <2>1. N \in Has
    BY <1>1, <1>4, <1>5, NumbersBySuccession
  <2>2. PICK g : g = [i \in 0 .. N |-> g[i]] /\ First(N, g)
    BY <2>1 DEF Has
  <2>3. g = Unfold(g)
    BY <2>2
  <2> HIDE DEF Unfold
  <2> QED
    BY <2>3
<1>7. F = Unfold(F)
  <2> HIDE DEF Unfold
  <2> QED
    BY <1>6
<1> HIDE DEF F
<1>8. F[0] = 0 /\ \A k \in 1 .. N : F[k] = F[k - 1] + lines[k].open - lines[k].close
  BY <1>3, <1>7 DEF Next1
<1> DEFINE Whole == {k \in Nat : k <= N => F[k] \in Int}
<1>9. 0 \in Whole
  BY <1>8
<1>10. ASSUME NEW k \in Nat, k \in Whole PROVE k + 1 \in Whole
  <2> SUFFICES ASSUME k + 1 <= N PROVE F[k + 1] \in Int
    OBVIOUS
  <2>1. k + 1 \in 1 .. N /\ (k + 1) - 1 = k /\ F[k] \in Int
    BY <1>1, <1>10
  <2>2. lines[k + 1].open \in Nat /\ lines[k + 1].close \in Nat
    BY <2>1 DEF WellLaid
  <2> QED
    BY <1>8, <2>1, <2>2
<1> HIDE DEF Whole
<1>11. Nat \subseteq Whole
  BY <1>9, <1>10, NumbersBySuccession
<1>12. \A k \in 0 .. N : F[k] \in Int
  BY <1>1, <1>11 DEF Whole
<1> QED
  BY <1>2, <1>8, <1>12

-----------------------------------------------------------------------------
(***************************************************************************)
(* Conditions: the stack of Chains holds the blocks a line is in.          *)
(***************************************************************************)

(* The stack after each line; at[k] is the depth line k is read at.        *)
Pushed(lines, at, k, old) ==
    IF lines[k].cond = "" THEN Popped(old, at[k])
    ELSE Append(Popped(old, at[k]), [depth |-> Depths(lines)[k], cond |-> lines[k].cond])
CondsOf(stack) == [j \in DOMAIN stack |-> stack[j].cond]

LEMMA ChainsHaveStack ==
    ASSUME NEW lines, Len(lines) \in Nat, NEW at
    PROVE  \E stack : /\ stack[0] = <<>>
                      /\ \A k \in 1 .. Len(lines) : stack[k] = Pushed(lines, at, k, stack[k - 1])
                      /\ ChainsRead(lines, at)
                           = [k \in DOMAIN lines |-> CondsOf(Popped(stack[k - 1], at[k]))]
<1> DEFINE N == Len(lines)
           Next1(k, old) == Pushed(lines, at, k, old)
           Unfold(f) == [k \in 0 .. N |-> IF k = 0 THEN <<>> ELSE Next1(k, f[k - 1])]
           F == CHOOSE f : f = Unfold(f)
           First(n, g) == \A i \in 0 .. n : g[i] = IF i = 0 THEN <<>> ELSE Next1(i, g[i - 1])
           Has == {n \in Nat : \E g : g = [i \in 0 .. n |-> g[i]] /\ First(n, g)}
<1>1. ChainsRead(lines, at) = [k \in DOMAIN lines |-> CondsOf(Popped(F[k - 1], at[k]))]
  BY DEF ChainsRead, Pushed, CondsOf
<1>2. F = Unfold(F) => F[0] = <<>> /\ \A k \in 1 .. N : F[k] = Next1(k, F[k - 1])
  <2> SUFFICES ASSUME F = Unfold(F) PROVE F[0] = <<>> /\ \A k \in 1 .. N : F[k] = Next1(k, F[k - 1])
    OBVIOUS
  <2> HIDE DEF F
  <2> DEFINE Step(n) == IF n = 0 THEN <<>> ELSE Next1(n, F[n - 1])
  <2>1. F = [n \in 0 .. N |-> Step(n)]
    OBVIOUS
  <2> HIDE DEF Step
  <2>2. \A n \in 0 .. N : F[n] = Step(n)
    BY <2>1
  <2>3. 0 \in 0 .. N /\ \A n \in 1 .. N : n \in 0 .. N /\ n # 0
    OBVIOUS
  <2> QED
    BY <2>2, <2>3 DEF Step
<1> HIDE DEF Next1
<1>3. 0 \in Has
  <2> DEFINE g == [i \in 0 .. 0 |-> <<>>]
  <2>1. g = [i \in 0 .. 0 |-> g[i]] /\ First(0, g)
    OBVIOUS
  <2> HIDE DEF g
  <2> QED
    BY <2>1
<1>4. ASSUME NEW n \in Nat, n \in Has PROVE n + 1 \in Has
  <2>1. PICK g : g = [i \in 0 .. n |-> g[i]] /\ First(n, g)
    BY <1>4
  <2> DEFINE h == [i \in 0 .. n + 1 |-> IF i = n + 1 THEN Next1(n + 1, g[n]) ELSE g[i]]
  <2>2. h = [i \in 0 .. n + 1 |-> h[i]]
    OBVIOUS
  <2>3. /\ h[n + 1] = Next1(n + 1, h[n])
        /\ \A i \in 0 .. n : h[i] = g[i] /\ (i # 0 => h[i - 1] = g[i - 1])
    OBVIOUS
  <2> HIDE DEF h
  <2>4. ASSUME NEW i \in 0 .. n + 1
        PROVE  h[i] = IF i = 0 THEN <<>> ELSE Next1(i, h[i - 1])
    <3>1. CASE i = n + 1
      <4>1. i # 0 /\ i - 1 = n
        BY <3>1
      <4> QED
        BY <2>3, <3>1, <4>1
    <3>2. CASE i \in 0 .. n
      BY <2>1, <2>3, <3>2
    <3> QED
      BY <3>1, <3>2
  <2>5. First(n + 1, h)
    BY <2>4
  <2> HIDE DEF First
  <2> QED
    BY <2>2, <2>5
<1>5. \E f : f = Unfold(f)
  <2> HIDE DEF Has
  <2>1. N \in Has
    BY <1>3, <1>4, NumbersBySuccession
  <2>2. PICK g : g = [i \in 0 .. N |-> g[i]] /\ First(N, g)
    BY <2>1 DEF Has
  <2>3. g = Unfold(g)
    BY <2>2
  <2> HIDE DEF Unfold
  <2> QED
    BY <2>3
<1>6. F = Unfold(F)
  <2> HIDE DEF Unfold
  <2> QED
    BY <1>5
<1> HIDE DEF F
<1> QED
  BY <1>1, <1>2, <1>6 DEF Next1

(* Scopes, opened by lines of O at the depths D and left by a line that is *)
(* read at less: those a line is in, and those open behind it.             *)
Around(D, at, O, k) ==
    {j \in 1 .. k - 1 : j \in O /\ \A i \in j + 1 .. k : D[j] <= at[i]}
Behind(D, at, O, k) ==
    {j \in 1 .. k : j \in O /\ \A i \in j + 1 .. k : D[j] <= at[i]}
Depthwise(N, D, at, O) ==
    /\ N \in Nat /\ \A k \in 0 .. N : D[k] \in Int
    /\ \A k \in 1 .. N : at[k] \in Int /\ (k \in O => at[k] <= D[k])

(* A line leaves the deepest of them, and none opens below one open.       *)
LEMMA ScopesNest ==
    ASSUME NEW N, NEW D, NEW at, NEW O, Depthwise(N, D, at, O), NEW k \in 1 .. N
    PROVE  /\ Around(D, at, O, k) = {j \in Behind(D, at, O, k - 1) : D[j] <= at[k]}
           /\ Behind(D, at, O, k) = IF k \in O THEN Around(D, at, O, k) \cup {k}
                                    ELSE Around(D, at, O, k)
           /\ Behind(D, at, O, k - 1) \subseteq 1 .. k - 1
           /\ Around(D, at, O, k) \subseteq 1 .. k - 1
           /\ \A i, j \in Behind(D, at, O, k - 1) : i <= j => D[i] <= D[j]
<1>1. N \in Nat /\ k \in Nat /\ k - 1 \in Nat /\ 1 .. k - 1 \subseteq 1 .. N
  BY DEF Depthwise
<1>2. Around(D, at, O, k) = {j \in Behind(D, at, O, k - 1) : D[j] <= at[k]}
  <2>1. ASSUME NEW j \in 1 .. k - 1
        PROVE  (\A i \in j + 1 .. k : D[j] <= at[i])
                 <=> (\A i \in j + 1 .. k - 1 : D[j] <= at[i]) /\ D[j] <= at[k]
    <3>1. j + 1 .. k = (j + 1 .. k - 1) \cup {k}
      BY <1>1
    <3> QED
      BY <3>1
  <2> QED
    BY <2>1 DEF Around, Behind
<1>3. Behind(D, at, O, k) = IF k \in O THEN Around(D, at, O, k) \cup {k} ELSE Around(D, at, O, k)
  <2>1. 1 .. k = (1 .. k - 1) \cup {k} /\ \A i \in k + 1 .. k : FALSE
    BY <1>1
  <2> QED
    BY <2>1 DEF Around, Behind
<1>4. ASSUME NEW i \in Behind(D, at, O, k - 1), NEW j \in Behind(D, at, O, k - 1), i <= j
      PROVE  D[i] <= D[j]
  <2>1. i \in 1 .. k - 1 /\ j \in 1 .. k - 1 /\ j \in O
    BY DEF Behind
  <2>2. i \in 1 .. N /\ j \in 1 .. N /\ i \in 0 .. N /\ j \in 0 .. N
    BY <1>1, <2>1
  <2>3. D[i] \in Int /\ D[j] \in Int /\ at[j] \in Int /\ at[j] <= D[j]
    BY <2>1, <2>2 DEF Depthwise
  <2>4. i # j => j \in i + 1 .. k - 1
    BY <1>1, <1>4, <2>1
  <2>5. i # j => D[i] <= at[j]
    BY <2>4 DEF Behind
  <2> QED
    BY <2>3, <2>5
<1>5. Behind(D, at, O, k - 1) \subseteq 1 .. k - 1 /\ Around(D, at, O, k) \subseteq 1 .. k - 1
  BY DEF Around, Behind
<1> QED
  BY <1>2, <1>3, <1>4, <1>5

(* The chain of a line is the conditions of the blocks around it: the pops *)
(* take the blocks that its head or a line above it has closed, no others, *)
(* as the depths on the stack rise.                                        *)
LEMMA ChainsAreConditions ==
    ASSUME NEW lines, WellLaid(lines), NEW l \in DOMAIN lines
    PROVE  Chains(lines)[l] = Conditions(lines, l)
<1> DEFINE N == Len(lines)
           D == Depths(lines)
           at == [k \in DOMAIN lines |-> D[k - 1] - lines[k].head]
           O == {k \in 1 .. N : lines[k].cond # ""}
           e == [j \in 1 .. N |-> [depth |-> D[j], cond |-> lines[j].cond]]
           E == {e[j] : j \in 1 .. N}
           In(k) == Behind(D, at, O, k)
           Kept(k) == Around(D, at, O, k)
<1>1. N \in Nat /\ DOMAIN lines = 1 .. N /\ l \in 1 .. N
  BY DEF WellLaid
<1>2. /\ \A k \in DOMAIN lines : {lines[k].open, lines[k].close, lines[k].head} \subseteq Nat
      /\ \A k \in DOMAIN lines :
            lines[k].cond # "" => lines[k].close - lines[k].head <= lines[k].open
  BY DEF WellLaid
<1>3. /\ \A k \in 0 .. N : D[k] \in Int
      /\ \A k \in 1 .. N : D[k] = D[k - 1] + lines[k].open - lines[k].close
  BY DepthsStepwise
<1>4. /\ Len(e) = N /\ \A j \in 1 .. N : e[j] \in E
      /\ \A j \in 1 .. N : e[j].depth = D[j] /\ e[j].cond = lines[j].cond
      /\ \A x \in E : x.depth \in Int
  <2>1. e \in [1 .. N -> E] /\ \A j \in 1 .. N : e[j].depth = D[j] /\ e[j].cond = lines[j].cond
    OBVIOUS
  <2>2. Len(e) = N
    <3> HIDE DEF e, E
    <3> QED
      BY <1>1, <2>1
  <2>3. \A x \in E : x.depth \in Int
    BY <1>3
  <2> QED
    BY <2>1, <2>2, <2>3
<1>5. /\ Depthwise(N, D, at, O)
      /\ \A k \in 1 .. N : at[k] = D[k - 1] - lines[k].head
  <2>1. \A k \in 1 .. N : at[k] = D[k - 1] - lines[k].head
    BY <1>1
  <2>2. ASSUME NEW k \in 1 .. N PROVE at[k] \in Int /\ (k \in O => at[k] <= D[k])
    <3> DEFINE d == D[k - 1]
               h == lines[k].head
               o == lines[k].open
               c == lines[k].close
    <3>1. k - 1 \in 0 .. N
      BY <1>1
    <3>2. d \in Int
      BY <1>3, <3>1
    <3>3. k \in DOMAIN lines
      BY <1>1
    <3>4. h \in Nat /\ o \in Nat /\ c \in Nat
      BY <1>2, <3>3
    <3>5. at[k] = d - h
      BY <2>1
    <3>6. D[k] = d + o - c
      BY <1>3
    <3>7. k \in O => c - h <= o
      <4>1. lines[k].cond # "" => c - h <= o
        BY <1>2, <3>3, Zenon
      <4> HIDE DEF c, h, o
      <4> QED
        BY <4>1
    <3> HIDE DEF d, h, o, c, at, D, O
    <3> QED
      BY <3>2, <3>4, <3>5, <3>6, <3>7
  <2> HIDE DEF at, D, O
  <2> QED
    BY <1>1, <1>3, <2>1, <2>2 DEF Depthwise
<1>6. PICK stack : /\ stack[0] = <<>>
                   /\ \A k \in 1 .. N : stack[k] = Pushed(lines, at, k, stack[k - 1])
                   /\ Chains(lines) = [k \in DOMAIN lines |-> CondsOf(Popped(stack[k - 1], at[k]))]
  <2> HIDE DEF at
  <2>1. Chains(lines) = ChainsRead(lines, at)
    BY DEF Chains, at
  <2> QED
    BY <1>1, <2>1, ChainsHaveStack
<1> HIDE DEF E, e, at, D, O
<1>7. ASSUME NEW k \in 1 .. N
      PROVE  /\ Kept(k) = {j \in In(k - 1) : e[j].depth <= at[k]}
             /\ In(k) = IF lines[k].cond = "" THEN Kept(k) ELSE Kept(k) \cup {k}
             /\ In(k - 1) \subseteq 1 .. N /\ Kept(k) \subseteq 1 .. k - 1
             /\ \A i, j \in In(k - 1) : i <= j => e[i].depth <= e[j].depth
  <2>1. /\ Kept(k) = {j \in In(k - 1) : D[j] <= at[k]}
        /\ In(k) = IF k \in O THEN Kept(k) \cup {k} ELSE Kept(k)
        /\ In(k - 1) \subseteq 1 .. k - 1 /\ Kept(k) \subseteq 1 .. k - 1
        /\ \A i, j \in In(k - 1) : i <= j => D[i] <= D[j]
    BY <1>5, ScopesNest
  <2> HIDE DEF In, Kept
  <2>2. 1 .. k - 1 \subseteq 1 .. N
    BY <1>1
  <2>3. \A j \in In(k - 1) : e[j].depth = D[j]
    BY <1>4, <2>1, <2>2
  <2>4. k \in O <=> lines[k].cond # ""
    BY DEF O
  <2> QED
    BY <2>1, <2>2, <2>3, <2>4
<1> HIDE DEF In, Kept
<1>8. ASSUME NEW k \in 1 .. N, stack[k - 1] = Those(e, In(k - 1))
      PROVE  Popped(stack[k - 1], at[k]) = Those(e, Kept(k))
  <2> DEFINE I == In(k - 1)
  <2>1. Rising(E, e, I)
    BY <1>1, <1>4, <1>7 DEF Rising
  <2>2. at[k] \in Int
    BY <1>5 DEF Depthwise
  <2>3. Kept(k) = {i \in I : e[i].depth <= at[k]}
    BY <1>7
  <2> HIDE DEF I
  <2>4. Popped(Those(e, I), at[k]) = Those(e, {i \in I : e[i].depth <= at[k]})
    BY <2>1, <2>2, PoppedThose
  <2> QED
    BY <1>8, <2>3, <2>4 DEF I
<1> DEFINE Right == {k \in Nat : k <= N => stack[k] = Those(e, In(k))}
<1>9. 0 \in Right
  <2>1. In(0) = {}
    BY DEF In, Behind
  <2>2. Those(e, {}) = <<>>
    BY <1>1, <1>4, ThoseNone
  <2> QED
    BY <1>6, <2>1, <2>2
<1>10. ASSUME NEW n \in Nat, n \in Right PROVE n + 1 \in Right
  <2> SUFFICES ASSUME n + 1 <= N PROVE stack[n + 1] = Those(e, In(n + 1))
    OBVIOUS
  <2> DEFINE k == n + 1
  <2>1. k \in 1 .. N /\ k - 1 = n /\ n \in Nat /\ n <= N
    BY <1>1
  <2>2. /\ k \in 1 .. N /\ k - 1 = n /\ n \in Nat
        /\ stack[k - 1] = Those(e, In(k - 1))
    BY <1>10, <2>1
  <2> HIDE DEF k
  <2> SUFFICES stack[k] = Those(e, In(k))
    BY DEF k
  <2>3. Popped(stack[k - 1], at[k]) = Those(e, Kept(k))
    BY <1>8, <2>2
  <2>4. stack[k] = Pushed(lines, at, k, stack[k - 1])
    BY <1>6, <2>2
  <2>5. CASE lines[k].cond = ""
    BY <1>7, <2>2, <2>3, <2>4, <2>5 DEF Pushed
  <2>6. CASE lines[k].cond # ""
    <3>1. stack[k] = Append(Those(e, Kept(k)), e[k])
      <4>1. e[k] = [depth |-> D[k], cond |-> lines[k].cond]
        BY <2>2 DEF e
      <4> QED
        BY <2>3, <2>4, <2>6, <4>1 DEF Pushed, D
    <3>2. Kept(k) \in SUBSET (1 .. n) /\ In(k) = Kept(k) \cup {n + 1} /\ n + 1 <= Len(e) /\ Len(e) \in Nat
      BY <1>1, <1>4, <1>7, <2>2, <2>6 DEF k
    <3>3. Those(e, Kept(k) \cup {n + 1}) = Append(Those(e, Kept(k)), e[n + 1])
      BY <2>2, <3>2, ThoseWithLast
    <3> QED
      BY <3>1, <3>2, <3>3 DEF k
  <2> QED
    BY <2>5, <2>6
<1> HIDE DEF Right
<1>11. Nat \subseteq Right
  BY <1>9, <1>10, NumbersBySuccession
<1>12. Chains(lines)[l] = CondsOf(Those(e, Kept(l)))
  <2>1. l \in 1 .. N /\ l \in DOMAIN lines /\ l - 1 \in Nat /\ l - 1 <= N
    BY <1>1
  <2>2. stack[l - 1] = Those(e, In(l - 1))
    BY <1>11, <2>1 DEF Right
  <2>3. Popped(stack[l - 1], at[l]) = Those(e, Kept(l))
    BY <1>8, <2>1, <2>2
  <2> QED
    BY <1>6, <2>1, <2>3
<1>13. Kept(l) = Blocks(lines, l) /\ Kept(l) \subseteq 1 .. N
  <2>1. \A i \in 1 .. l : i \in 1 .. N
    BY <1>1
  <2>2. \A j \in 1 .. l - 1 : j \in 1 .. l /\ \A i \in j + 1 .. l : i \in 1 .. l
    BY <1>1
  <2>3. \A j \in 1 .. l - 1 : /\ j \in O <=> lines[j].cond # ""
                              /\ \A i \in j + 1 .. l : at[i] = D[i - 1] - lines[i].head
    BY <1>5, <2>1, <2>2 DEF O
  <2>4. Kept(l) = Blocks(lines, l)
    BY <2>3 DEF Kept, Around, Blocks, D
  <2> QED
    BY <1>7, <2>1, <2>2, <2>4, <1>1
<1> DEFINE B == Kept(l)
           Either == E \cup {lines[j] : j \in 1 .. N}
<1>14. Matched(e, lines, B)
  <2>1. B \in SUBSET (1 .. Len(e)) /\ Len(lines) = Len(e) /\ Len(e) \in Nat
    BY <1>1, <1>4, <1>13
  <2>2. \A i \in 1 .. Len(e) : e[i] \in Either /\ lines[i] \in Either
    BY <1>4
  <2> HIDE DEF B, Either
  <2> QED
    BY <2>1, <2>2, ThoseMatch
<1>15. CondsOf(Those(e, B)) = CondsOf(Those(lines, B))
  <2> DEFINE s == Those(e, B)
             t == Those(lines, B)
  <2>1. B \subseteq 1 .. N
    BY <1>13
  <2>2. /\ DOMAIN s = DOMAIN t
        /\ \A n \in DOMAIN s : \E i \in B : s[n] = e[i] /\ t[n] = lines[i]
    BY <1>14 DEF Matched
  <2> HIDE DEF s, t, B
  <2>3. \A n \in DOMAIN s : s[n].cond = t[n].cond
    BY <1>4, <2>1, <2>2
  <2>4. CondsOf(s) = CondsOf(t)
    BY <2>2, <2>3 DEF CondsOf
  <2> QED
    BY <2>4 DEF s, t
<1>16. Conditions(lines, l) = CondsOf(Those(lines, B))
  BY <1>13 DEF Conditions, CondsOf
<1> QED
  BY <1>12, <1>15, <1>16
-----------------------------------------------------------------------------
(***************************************************************************)
(* Arms: the stack of Arms holds the matches a line is in, each with the   *)
(* arm that was the last to start in it.                                   *)
(***************************************************************************)

(* Only the innermost match, and only at the depth of its body, enters an  *)
(* arm; the stack after each line.                                         *)
Turned(lines, k, old) ==
    IF lines[k].on = "" THEN Entered(old, lines[k], Depths(lines)[k - 1])
    ELSE Append(Entered(old, lines[k], Depths(lines)[k - 1]),
                [depth |-> Depths(lines)[k], on |-> lines[k].on, arm |-> ""])

LEMMA ArmsHaveStack ==
    ASSUME NEW lines, Len(lines) \in Nat
    PROVE  \E stack : /\ stack[0] = <<>>
                      /\ \A k \in 1 .. Len(lines) : stack[k] = Turned(lines, k, stack[k - 1])
                      /\ Arms(lines) = [k \in DOMAIN lines |->
                            Innermost(Entered(stack[k - 1], lines[k], Depths(lines)[k - 1]))]
<1> DEFINE N == Len(lines)
           Next1(k, old) == Turned(lines, k, old)
           Unfold(f) == [k \in 0 .. N |-> IF k = 0 THEN <<>> ELSE Next1(k, f[k - 1])]
           F == CHOOSE f : f = Unfold(f)
           First(n, g) == \A i \in 0 .. n : g[i] = IF i = 0 THEN <<>> ELSE Next1(i, g[i - 1])
           Has == {n \in Nat : \E g : g = [i \in 0 .. n |-> g[i]] /\ First(n, g)}
<1>1. Arms(lines) = [k \in DOMAIN lines |->
                        Innermost(Entered(F[k - 1], lines[k], Depths(lines)[k - 1]))]
  BY DEF Arms, Turned
<1>2. F = Unfold(F) => F[0] = <<>> /\ \A k \in 1 .. N : F[k] = Next1(k, F[k - 1])
  <2> SUFFICES ASSUME F = Unfold(F) PROVE F[0] = <<>> /\ \A k \in 1 .. N : F[k] = Next1(k, F[k - 1])
    OBVIOUS
  <2> HIDE DEF F
  <2> DEFINE Step(n) == IF n = 0 THEN <<>> ELSE Next1(n, F[n - 1])
  <2>1. F = [n \in 0 .. N |-> Step(n)]
    OBVIOUS
  <2> HIDE DEF Step
  <2>2. \A n \in 0 .. N : F[n] = Step(n)
    BY <2>1
  <2>3. 0 \in 0 .. N /\ \A n \in 1 .. N : n \in 0 .. N /\ n # 0
    OBVIOUS
  <2> QED
    BY <2>2, <2>3 DEF Step
<1> HIDE DEF Next1
<1>3. 0 \in Has
  <2> DEFINE g == [i \in 0 .. 0 |-> <<>>]
  <2>1. g = [i \in 0 .. 0 |-> g[i]] /\ First(0, g)
    OBVIOUS
  <2> HIDE DEF g
  <2> QED
    BY <2>1
<1>4. ASSUME NEW n \in Nat, n \in Has PROVE n + 1 \in Has
  <2>1. PICK g : g = [i \in 0 .. n |-> g[i]] /\ First(n, g)
    BY <1>4
  <2> DEFINE h == [i \in 0 .. n + 1 |-> IF i = n + 1 THEN Next1(n + 1, g[n]) ELSE g[i]]
  <2>2. h = [i \in 0 .. n + 1 |-> h[i]]
    OBVIOUS
  <2>3. /\ h[n + 1] = Next1(n + 1, h[n])
        /\ \A i \in 0 .. n : h[i] = g[i] /\ (i # 0 => h[i - 1] = g[i - 1])
    OBVIOUS
  <2> HIDE DEF h
  <2>4. ASSUME NEW i \in 0 .. n + 1
        PROVE  h[i] = IF i = 0 THEN <<>> ELSE Next1(i, h[i - 1])
    <3>1. CASE i = n + 1
      <4>1. i # 0 /\ i - 1 = n
        BY <3>1
      <4> QED
        BY <2>3, <3>1, <4>1
    <3>2. CASE i \in 0 .. n
      BY <2>1, <2>3, <3>2
    <3> QED
      BY <3>1, <3>2
  <2>5. First(n + 1, h)
    BY <2>4
  <2> HIDE DEF First
  <2> QED
    BY <2>2, <2>5
<1>5. \E f : f = Unfold(f)
  <2> HIDE DEF Has
  <2>1. N \in Has
    BY <1>3, <1>4, NumbersBySuccession
  <2>2. PICK g : g = [i \in 0 .. N |-> g[i]] /\ First(N, g)
    BY <2>1 DEF Has
  <2>3. g = Unfold(g)
    BY <2>2
  <2> HIDE DEF Unfold
  <2> QED
    BY <2>3
<1>6. F = Unfold(F)
  <2> HIDE DEF Unfold
  <2> QED
    BY <1>5
<1> HIDE DEF F
<1> QED
  BY <1>1, <1>2, <1>6 DEF Next1

(* The innermost arm of a longer stack.                                    *)
LEMMA InnermostAppend ==
    ASSUME NEW E, NEW s \in Seq(E), NEW x \in E
    PROVE  Innermost(Append(s, x)) = IF x.arm # "" THEN <<x.on, x.arm>> ELSE Innermost(s)
<1> DEFINE n == Len(s)
           t == Append(s, x)
           Armed(y) == y.arm # ""
           S == {i \in DOMAIN s : Armed(s[i])}
           T == {i \in DOMAIN t : Armed(t[i])}
<1>1. /\ n \in Nat /\ DOMAIN s = 1 .. n /\ DOMAIN t = 1 .. n + 1
      /\ t[n + 1] = x /\ \A i \in 1 .. n : t[i] = s[i]
  OBVIOUS
<1>2. /\ Innermost(t) = IF T = {} THEN <<>> ELSE <<t[MaxOf(T)].on, t[MaxOf(T)].arm>>
      /\ Innermost(s) = IF S = {} THEN <<>> ELSE <<s[MaxOf(S)].on, s[MaxOf(S)].arm>>
  BY DEF Innermost
<1> HIDE DEF t, Armed
<1>3. T \subseteq 0 .. n + 1 /\ S \subseteq 1 .. n
  BY <1>1
<1>4. CASE Armed(x)
  <2>1. n + 1 \in T /\ \A y \in T : y <= n + 1
    BY <1>1, <1>3, <1>4
  <2>2. MaxOf(T) = n + 1
    <3> HIDE DEF T
    <3>1. n + 1 \in Nat
      BY <1>1
    <3> QED
      BY <1>3, <2>1, <3>1, MaxIs
  <2> HIDE DEF T, S
  <2> QED
    BY <1>1, <1>2, <1>4, <2>1, <2>2 DEF t, Armed
<1>5. CASE ~Armed(x)
  <2>1. T = S
    BY <1>1, <1>5
  <2> DEFINE m == MaxOf(S)
  <2>2. S # {} => m \in 1 .. n
    <3> HIDE DEF S
    <3>1. S \subseteq 0 .. n
      BY <1>1, <1>3
    <3> QED
      BY <1>1, <1>3, <3>1, MaxIsLargest
  <2>3. S # {} => t[m] = s[m]
    BY <1>1, <2>2
  <2> HIDE DEF S, T, m
  <2> QED
    BY <1>2, <1>5, <2>1, <2>3 DEF t, m, Armed
<1> QED
  BY <1>4, <1>5

(* Of scopes in a list at some positions, that of the last with an arm.    *)
LEMMA InnermostThose ==
    ASSUME NEW E, NEW e, Len(e) \in Nat, \A i \in 1 .. Len(e) : e[i] \in E,
           NEW I \in SUBSET (1 .. Len(e))
    PROVE  Innermost(Those(e, I)) =
              LET armed == {i \in I : e[i].arm # ""}
              IN  IF armed = {} THEN <<>> ELSE <<e[MaxOf(armed)].on, e[MaxOf(armed)].arm>>
<1> DEFINE N == Len(e)
           Armed(J) == {i \in J : e[i].arm # ""}
           Of(S) == IF S = {} THEN <<>> ELSE <<e[MaxOf(S)].on, e[MaxOf(S)].arm>>
           Q == {J \in SUBSET Nat : J \subseteq I => Innermost(Those(e, J)) = Of(Armed(J))}
<1>1. {} \in Q
  <2>1. Armed({}) = {} /\ Of({}) = <<>>
    OBVIOUS
  <2>2. Innermost(<<>>) = <<>>
    BY DEF Innermost
  <2>3. Those(e, {}) = <<>>
    BY ThoseNone
  <2> HIDE DEF Of, Armed
  <2> QED
    BY <2>1, <2>2, <2>3
<1>2. ASSUME NEW n \in Nat, NEW J \in SUBSET (1 .. n), J \in Q PROVE J \cup {n + 1} \in Q
  <2>1. J \cup {n + 1} \in SUBSET Nat
    OBVIOUS
  <2>2. ASSUME J \cup {n + 1} \subseteq I
        PROVE  Innermost(Those(e, J \cup {n + 1})) = Of(Armed(J \cup {n + 1}))
    <3> DEFINE a == Those(e, J)
               x == e[n + 1]
    <3>1. n + 1 <= N /\ J \subseteq 1 .. N /\ J \subseteq I /\ x \in E
      BY <2>2
    <3>2. Those(e, J \cup {n + 1}) = Append(a, x)
      BY <3>1, ThoseWithLast
    <3>3. a \in Seq(E)
      BY <3>1, ThoseAreList
    <3> HIDE DEF a
    <3>4. Innermost(Append(a, x)) = IF x.arm # "" THEN <<x.on, x.arm>> ELSE Innermost(a)
      BY <3>1, <3>3, InnermostAppend
    <3>5. CASE x.arm # ""
      <4> DEFINE S == Armed(J \cup {n + 1})
      <4>1. S \subseteq J \cup {n + 1} /\ n + 1 \in S
        BY <3>5
      <4>2. S \subseteq 0 .. n + 1 /\ n + 1 \in S /\ \A y \in S : y <= n + 1
        <5> HIDE DEF S
        <5> QED
          BY <4>1
      <4> HIDE DEF S
      <4>3. MaxOf(S) = n + 1
        <5>1. n + 1 \in Nat
          OBVIOUS
        <5> QED
          BY <4>2, <5>1, MaxIs
      <4>4. Of(S) = <<x.on, x.arm>>
        BY <4>2, <4>3
      <4> QED
        BY <3>2, <3>4, <3>5, <4>4 DEF S
    <3>6. CASE ~(x.arm # "")
      <4>1. Armed(J \cup {n + 1}) = Armed(J)
        BY <3>6
      <4>2. Innermost(a) = Of(Armed(J))
        BY <1>2, <3>1 DEF a
      <4> HIDE DEF x, Of, Armed
      <4> QED
        BY <3>2, <3>4, <3>6, <4>1, <4>2
    <3> QED
      BY <3>5, <3>6
  <2> HIDE DEF Of, Armed
  <2> QED
    BY <2>1, <2>2
<1> HIDE DEF Q
<1>3. I \in Q
  BY <1>1, <1>2, ByLargest
<1> QED
  BY <1>3 DEF Q
(* The arm that was the last to start, in the match at j, by line k.       *)
ArmRead(lines, j, k) ==
    IF ArmStarts(lines, j, k) = {} THEN "" ELSE lines[MaxOf(ArmStarts(lines, j, k))].arm
ScopesAt(lines, k) ==
    [j \in 1 .. Len(lines) |->
        [depth |-> Depths(lines)[j], on |-> lines[j].on, arm |-> ArmRead(lines, j, k)]]
Opens(lines) == {k \in 1 .. Len(lines) : lines[k].on # ""}
DepthBefore(lines) == [k \in 1 .. Len(lines) |-> Depths(lines)[k - 1]]
Within(lines, k) == Around(Depths(lines), DepthBefore(lines), Opens(lines), k)
Open(lines, k) == Behind(Depths(lines), DepthBefore(lines), Opens(lines), k)

LEMMA MatchesNest ==
    ASSUME NEW lines, WellLaid(lines)
    PROVE  /\ Depthwise(Len(lines), Depths(lines), DepthBefore(lines), Opens(lines))
           /\ \A k \in 1 .. Len(lines) : Within(lines, k) = Matches(lines, k)
<1> DEFINE N == Len(lines)
           D == Depths(lines)
           at == DepthBefore(lines)
           O == Opens(lines)
<1>1. N \in Nat /\ DOMAIN lines = 1 .. N
  BY DEF WellLaid
<1>2. /\ \A k \in DOMAIN lines : {lines[k].open, lines[k].close} \subseteq Nat
      /\ \A k \in DOMAIN lines : lines[k].on # "" => lines[k].close <= lines[k].open
  BY DEF WellLaid
<1>3. /\ \A k \in 0 .. N : D[k] \in Int
      /\ \A k \in 1 .. N : D[k] = D[k - 1] + lines[k].open - lines[k].close
  BY DepthsStepwise
<1>4. \A k \in 1 .. N : at[k] = D[k - 1]
  BY <1>1 DEF DepthBefore
<1>5. ASSUME NEW k \in 1 .. N PROVE at[k] \in Int /\ (k \in O => at[k] <= D[k])
  <2> DEFINE d == D[k - 1]
             o == lines[k].open
             c == lines[k].close
  <2>1. k \in DOMAIN lines /\ k - 1 \in 0 .. N
    BY <1>1
  <2>2. d \in Int
    BY <1>3, <2>1
  <2>3. o \in Nat /\ c \in Nat
    BY <1>2, <2>1
  <2>4. D[k] = d + o - c
    BY <1>3
  <2>5. at[k] = d
    BY <1>4
  <2>6. k \in O => c <= o
    <3>1. lines[k].on # "" => c <= o
      BY <1>2, <2>1, Zenon
    <3> HIDE DEF c, o
    <3> QED
      BY <3>1 DEF Opens
  <2> HIDE DEF D, d, o, c, at, O
  <2> QED
    BY <2>2, <2>3, <2>4, <2>5, <2>6
<1>6. Depthwise(N, D, at, O)
  <2> HIDE DEF at, D, O
  <2> QED
    BY <1>1, <1>3, <1>5 DEF Depthwise
<1>7. ASSUME NEW k \in 1 .. N PROVE Within(lines, k) = Matches(lines, k)
  <2>1. \A j \in 1 .. k - 1 : j \in 1 .. N /\ \A i \in j + 1 .. k : i \in 1 .. N
    BY <1>1
  <2>2. \A j \in 1 .. k - 1 : /\ j \in O <=> lines[j].on # ""
                              /\ \A i \in j + 1 .. k : at[i] = D[i - 1]
    BY <1>4, <2>1 DEF Opens
  <2> QED
    BY <2>2 DEF Within, Around, Matches
<1> QED
  BY <1>6, <1>7

LEMMA ScopesHave ==
    ASSUME NEW lines, WellLaid(lines), NEW k
    PROVE  /\ Len(ScopesAt(lines, k)) = Len(lines) /\ Len(lines) \in Nat
           /\ \A j \in 1 .. Len(lines) :
                 /\ ScopesAt(lines, k)[j] = [depth |-> Depths(lines)[j], on |-> lines[j].on,
                                             arm |-> ArmRead(lines, j, k)]
                 /\ ScopesAt(lines, k)[j].depth = Depths(lines)[j]
                 /\ ScopesAt(lines, k)[j].on = lines[j].on
                 /\ ScopesAt(lines, k)[j].arm = ArmRead(lines, j, k)
                 /\ Depths(lines)[j] \in Int
<1> DEFINE e == ScopesAt(lines, k)
           N == Len(lines)
<1>1. N \in Nat
  BY DEF WellLaid
<1>2. /\ e \in [1 .. N -> {e[j] : j \in 1 .. N}]
      /\ \A j \in 1 .. N : /\ e[j] = [depth |-> Depths(lines)[j], on |-> lines[j].on,
                                      arm |-> ArmRead(lines, j, k)]
                           /\ e[j].depth = Depths(lines)[j] /\ e[j].on = lines[j].on
                           /\ e[j].arm = ArmRead(lines, j, k)
  BY DEF ScopesAt
<1>3. \A j \in 1 .. N : Depths(lines)[j] \in Int
  <2>1. \A j \in 1 .. N : j \in 0 .. N
    BY <1>1
  <2> QED
    BY <2>1, DepthsStepwise
<1> HIDE DEF e
<1>4. Len(e) = N
  BY <1>1, <1>2
<1> QED
  BY <1>1, <1>2, <1>3, <1>4 DEF e

(* An arm that starts at line k does so in the innermost match around it.  *)
Starting(lines, j, k) ==
    /\ lines[k].arm # "" /\ Depths(lines)[k - 1] = Depths(lines)[j]
    /\ j \in Matches(lines, k) /\ j = MaxOf(Matches(lines, k))

LEMMA ArmReadStepwise ==
    ASSUME NEW lines, WellLaid(lines), NEW k \in 1 .. Len(lines), NEW j \in 1 .. k - 1
    PROVE  ArmRead(lines, j, k) = IF Starting(lines, j, k) THEN lines[k].arm
                                  ELSE ArmRead(lines, j, k - 1)
<1> DEFINE S == ArmStarts(lines, j, k)
           T == ArmStarts(lines, j, k - 1)
<1>1. Len(lines) \in Nat /\ k \in Nat /\ j \in Nat
  <2>1. Len(lines) \in Nat
    BY DEF WellLaid
  <2> QED
    BY <2>1
<1>2. j + 1 .. k = (j + 1 .. k - 1) \cup {k}
  BY <1>1
<1>3. S = IF Starting(lines, j, k) THEN T \cup {k} ELSE T
  BY <1>2 DEF ArmStarts, Starting
<1>4. T \subseteq j + 1 .. k - 1
  BY DEF ArmStarts
<1> HIDE DEF S, T
<1>5. CASE Starting(lines, j, k)
  <2>1. S \subseteq 0 .. k /\ k \in S /\ \A y \in S : y <= k
    BY <1>1, <1>3, <1>4, <1>5
  <2>2. MaxOf(S) = k
    BY <1>1, <2>1, MaxIs
  <2> QED
    BY <1>5, <2>1, <2>2 DEF ArmRead, S
<1>6. CASE ~Starting(lines, j, k)
  BY <1>3, <1>6 DEF ArmRead, S, T
<1> QED
  BY <1>5, <1>6
(* A line is read with the matches around it on the stack, each with the   *)
(* last arm to start in it: this line's own too.                           *)
LEMMA EnteredIs ==
    ASSUME NEW lines, WellLaid(lines), NEW k \in 1 .. Len(lines)
    PROVE  Entered(Those(ScopesAt(lines, k - 1), Open(lines, k - 1)), lines[k],
                   Depths(lines)[k - 1])
             = Those(ScopesAt(lines, k), Within(lines, k))
<1> DEFINE N == Len(lines)
           D == Depths(lines)
           d == D[k - 1]
           a == ScopesAt(lines, k - 1)
           b == ScopesAt(lines, k)
           I == Open(lines, k - 1)
           K == Within(lines, k)
           E == {a[j] : j \in 1 .. N} \cup {b[j] : j \in 1 .. N}
<1>1. N \in Nat /\ k \in Nat /\ k - 1 \in Nat /\ k - 1 \in 0 .. N /\ 1 .. k - 1 \subseteq 1 .. N
  <2>1. N \in Nat
    BY DEF WellLaid
  <2> QED
    BY <2>1
<1>2. d \in Int
  BY <1>1, DepthsStepwise
<1>3. /\ Len(a) = N /\ Len(b) = N
      /\ \A j \in 1 .. N : /\ a[j] = [depth |-> D[j], on |-> lines[j].on, arm |-> ArmRead(lines, j, k - 1)]
                           /\ b[j] = [depth |-> D[j], on |-> lines[j].on, arm |-> ArmRead(lines, j, k)]
                           /\ a[j].depth = D[j] /\ b[j].depth = D[j] /\ D[j] \in Int
  BY ScopesHave
<1>4. DepthBefore(lines)[k] = d
  BY DEF DepthBefore
<1>5. /\ K = {j \in I : D[j] <= d} /\ I \subseteq 1 .. k - 1 /\ K \subseteq 1 .. k - 1
      /\ \A i, j \in I : i <= j => D[i] <= D[j]
      /\ K = Matches(lines, k)
  <2>1. Depthwise(N, D, DepthBefore(lines), Opens(lines)) /\ K = Matches(lines, k)
    BY MatchesNest
  <2> QED
    BY <1>4, <2>1, ScopesNest DEF Within, Open
<1>6. \A j \in K : b[j] = [depth |-> D[j], on |-> lines[j].on,
                           arm |-> IF Starting(lines, j, k) THEN lines[k].arm
                                   ELSE ArmRead(lines, j, k - 1)]
  <2> SUFFICES ASSUME NEW j \in K
               PROVE  ArmRead(lines, j, k) = IF Starting(lines, j, k) THEN lines[k].arm
                                             ELSE ArmRead(lines, j, k - 1)
    BY <1>1, <1>3, <1>5
  <2>1. j \in 1 .. k - 1
    BY <1>5
  <2> QED
    BY <2>1, ArmReadStepwise
<1>7. \A j \in K : Starting(lines, j, k) <=> lines[k].arm # "" /\ d = D[j] /\ j = MaxOf(K)
  BY <1>5 DEF Starting
<1>8. /\ \A x \in E : x.depth \in Int
      /\ \A j \in 1 .. N : a[j] \in E /\ b[j] \in E
  BY <1>3
<1> HIDE DEF a, b, I, K, E, D, d
<1>9. Popped(Those(a, I), d) = Those(a, K)
  <2>1. \A i \in I : i \in 1 .. N
    BY <1>1, <1>5
  <2>2. \A i \in I : a[i].depth = D[i]
    BY <1>3, <2>1
  <2>3. Rising(E, a, I)
    BY <1>1, <1>3, <1>5, <1>8, <2>1, <2>2 DEF Rising
  <2>4. Popped(Those(a, I), d) = Those(a, {i \in I : a[i].depth <= d})
    BY <1>2, <2>3, PoppedThose
  <2>5. {i \in I : a[i].depth <= d} = K
    BY <1>5, <2>2
  <2> QED
    BY <2>4, <2>5
<1> DEFINE now == Those(a, K)
           top == Len(now)
<1>10. Entered(Those(a, I), lines[k], d)
        = IF top > 0 /\ lines[k].arm # "" /\ now[top].depth = d
          THEN [now EXCEPT ![top].arm = lines[k].arm] ELSE now
  BY <1>9 DEF Entered
<1>11. CASE K = {}
  <2>1. now = <<>> /\ Those(b, K) = <<>>
    BY <1>1, <1>3, <1>11, ThoseNone
  <2>2. top = 0
    BY <2>1
  <2> HIDE DEF now
  <2> QED
    BY <1>10, <2>1, <2>2 DEF a, b, I, K, D, d
<1>12. CASE K # {}
  <2> DEFINE n == MaxOf(K)
             J == K \ {n}
             p == Those(a, J)
  <2>1. n \in K /\ \A y \in K : y <= n
    <3>1. K \subseteq 0 .. k - 1
      BY <1>1, <1>5
    <3> QED
      BY <1>1, <1>12, <3>1, MaxIsLargest
  <2> HIDE DEF n
  <2>2. n \in 1 .. k - 1 /\ n \in 1 .. N /\ n - 1 \in Nat /\ (n - 1) + 1 = n
    BY <1>1, <1>5, <2>1
  <2>3. J \in SUBSET (1 .. n - 1) /\ K = J \cup {n} /\ J \in SUBSET (1 .. N)
    <3>1. \A j \in J : j \in 1 .. k - 1 /\ j <= n /\ j # n
      BY <1>5, <2>1
    <3>2. \A j \in J : j \in 1 .. n - 1 /\ j \in 1 .. N
      BY <1>1, <2>2, <3>1
    <3> QED
      BY <2>1, <3>2
  <2> HIDE DEF J, p
  <2>4. now = Append(p, a[n]) /\ Those(b, K) = Append(Those(b, J), b[n])
    <3> DEFINE i == n - 1
    <3>1. i \in Nat /\ i + 1 = n /\ i + 1 <= N /\ J \in SUBSET (1 .. i)
      BY <2>2, <2>3
    <3> HIDE DEF i
    <3>2. Those(a, J \cup {i + 1}) = Append(Those(a, J), a[i + 1])
      BY <1>1, <1>3, <3>1, ThoseWithLast
    <3>3. Those(b, J \cup {i + 1}) = Append(Those(b, J), b[i + 1])
      BY <1>1, <1>3, <3>1, ThoseWithLast
    <3> QED
      BY <2>3, <3>1, <3>2, <3>3 DEF p
  <2>5. Those(b, J) = p
    <3>1. \A j \in J : j \in K /\ j # n /\ j \in 1 .. N
      BY <2>2, <2>3
    <3>2. \A j \in J : ~Starting(lines, j, k)
      BY <1>7, <3>1 DEF n
    <3>3. \A j \in J : a[j] = b[j]
      BY <1>3, <1>6, <3>1, <3>2
    <3> QED
      BY <1>1, <1>3, <2>3, <3>3, ThoseAgree DEF p
  <2>6. p \in Seq(E) /\ a[n] \in E
    <3>1. \A j \in 1 .. Len(a) : a[j] \in E
      BY <1>3, <1>8
    <3> QED
      BY <1>1, <1>3, <1>8, <2>2, <2>3, <3>1, ThoseAreList DEF p
  <2>7. a[n] = [depth |-> D[n], on |-> lines[n].on, arm |-> ArmRead(lines, n, k - 1)]
    BY <1>3, <2>2
  <2>8. b[n] = IF lines[k].arm # "" /\ d = D[n] THEN [a[n] EXCEPT !.arm = lines[k].arm] ELSE a[n]
    <3>1. Starting(lines, n, k) <=> lines[k].arm # "" /\ d = D[n]
      BY <1>7, <2>1 DEF n
    <3>2. b[n] = [depth |-> D[n], on |-> lines[n].on,
                  arm |-> IF Starting(lines, n, k) THEN lines[k].arm ELSE ArmRead(lines, n, k - 1)]
      BY <1>6, <2>1
    <3>3. CASE Starting(lines, n, k)
      <4>1. b[n] = [depth |-> D[n], on |-> lines[n].on, arm |-> lines[k].arm]
        BY <3>2, <3>3
      <4>2. [a[n] EXCEPT !.arm = lines[k].arm] = b[n]
        BY <2>7, <4>1
      <4> QED
        BY <3>1, <3>3, <4>2
    <3>4. CASE ~Starting(lines, n, k)
      BY <2>7, <3>1, <3>2, <3>4
    <3> QED
      BY <3>3, <3>4
  <2>9. top = Len(p) + 1 /\ top > 0 /\ now[top] = a[n] /\ a[n].depth = D[n]
    <3>1. Len(Append(p, a[n])) = Len(p) + 1 /\ Len(p) \in Nat /\ Append(p, a[n])[Len(p) + 1] = a[n]
      BY <2>6
    <3>2. a[n].depth = D[n]
      BY <2>7
    <3> HIDE DEF now
    <3> QED
      BY <2>4, <3>1, <3>2
  <2>10. [Append(p, a[n]) EXCEPT ![Len(p) + 1].arm = lines[k].arm]
           = Append(p, [a[n] EXCEPT !.arm = lines[k].arm])
    <3> DEFINE u == a[n]
               v == [u EXCEPT !.arm = lines[k].arm]
               m == Len(p)
               s == Append(p, u)
               t == Append(p, v)
    <3>1. /\ m \in Nat
          /\ s = [i \in 1 .. m + 1 |-> IF i = m + 1 THEN u ELSE p[i]]
          /\ t = [i \in 1 .. m + 1 |-> IF i = m + 1 THEN v ELSE p[i]]
      <4> HIDE DEF u, v
      <4>1. /\ m \in Nat /\ p \in Seq(E \cup {u, v})
            /\ u \in E \cup {u, v} /\ v \in E \cup {u, v}
        BY <2>6
      <4>2. /\ s \in Seq(E \cup {u, v}) /\ Len(s) = m + 1
            /\ s[m + 1] = u /\ \A i \in 1 .. m : s[i] = p[i]
        BY <4>1
      <4>3. /\ t \in Seq(E \cup {u, v}) /\ Len(t) = m + 1
            /\ t[m + 1] = v /\ \A i \in 1 .. m : t[i] = p[i]
        BY <4>1
      <4>4. \A i \in 1 .. m + 1 : i # m + 1 => i \in 1 .. m
        BY <4>1
      <4> HIDE DEF s, t, m
      <4>5. s = [i \in 1 .. m + 1 |-> s[i]] /\ t = [i \in 1 .. m + 1 |-> t[i]]
        BY <4>2, <4>3
      <4>6. \A i \in 1 .. m + 1 : /\ s[i] = IF i = m + 1 THEN u ELSE p[i]
                                  /\ t[i] = IF i = m + 1 THEN v ELSE p[i]
        BY <4>2, <4>3, <4>4
      <4> QED
        BY <4>1, <4>5, <4>6
    <3> HIDE DEF s, t, u
    <3>2. [s EXCEPT ![m + 1].arm = lines[k].arm] = [s EXCEPT ![m + 1] = v]
      BY <3>1
    <3> HIDE DEF v, m
    <3>3. [s EXCEPT ![m + 1] = v] = t
      BY <3>1
    <3> QED
      BY <3>2, <3>3 DEF s, t, u, v, m
  <2> HIDE DEF now
  <2>11. Entered(Those(a, I), lines[k], d) = Those(b, K)
    <3>1. CASE lines[k].arm # "" /\ d = D[n]
      <4>1. Entered(Those(a, I), lines[k], d) = [now EXCEPT ![top].arm = lines[k].arm]
        BY <1>10, <2>9, <3>1
      <4> QED
        BY <2>4, <2>5, <2>8, <2>9, <2>10, <3>1, <4>1
    <3>2. CASE ~(lines[k].arm # "" /\ d = D[n])
      <4>1. Entered(Those(a, I), lines[k], d) = now
        BY <1>10, <2>9, <3>2
      <4> QED
        BY <2>4, <2>5, <2>8, <3>2, <4>1
    <3> QED
      BY <3>1, <3>2
  <2> QED
    BY <2>11 DEF a, b, I, K, D, d
<1> QED
  BY <1>11, <1>12
(* The arm of a line is the one the braces put around it.                  *)
LEMMA ArmsAreAround ==
    ASSUME NEW lines, WellLaid(lines), NEW l \in DOMAIN lines
    PROVE  Arms(lines)[l] = ArmAround(lines, l)
<1> DEFINE N == Len(lines)
           D == Depths(lines)
           e(k) == ScopesAt(lines, k)
           In(k) == Open(lines, k)
           Kept(k) == Within(lines, k)
<1>1. N \in Nat /\ DOMAIN lines = 1 .. N /\ l \in 1 .. N
  BY DEF WellLaid
<1>2. PICK stack : /\ stack[0] = <<>>
                   /\ \A k \in 1 .. N : stack[k] = Turned(lines, k, stack[k - 1])
                   /\ Arms(lines) = [k \in DOMAIN lines |->
                         Innermost(Entered(stack[k - 1], lines[k], D[k - 1]))]
  BY <1>1, ArmsHaveStack
<1>3. ASSUME NEW k \in 1 .. N, stack[k - 1] = Those(e(k - 1), In(k - 1))
      PROVE  Entered(stack[k - 1], lines[k], D[k - 1]) = Those(e(k), Kept(k))
  BY <1>3, EnteredIs
<1>4. ASSUME NEW k \in 1 .. N
      PROVE  /\ In(k) = IF lines[k].on = "" THEN Kept(k) ELSE Kept(k) \cup {k}
             /\ Kept(k) \subseteq 1 .. k - 1
             /\ Kept(k) = Matches(lines, k)
  <2>1. Depthwise(N, D, DepthBefore(lines), Opens(lines)) /\ Kept(k) = Matches(lines, k)
    BY MatchesNest
  <2>2. k \in Opens(lines) <=> lines[k].on # ""
    BY DEF Opens
  <2>3. /\ In(k) = IF k \in Opens(lines) THEN Kept(k) \cup {k} ELSE Kept(k)
        /\ Kept(k) \subseteq 1 .. k - 1
    <3> DEFINE at == DepthBefore(lines)
               O == Opens(lines)
    <3>1. Depthwise(N, D, at, O)
      BY <2>1
    <3> HIDE DEF D, at, O, N
    <3>2. /\ Behind(D, at, O, k) = IF k \in O THEN Around(D, at, O, k) \cup {k}
                                   ELSE Around(D, at, O, k)
          /\ Around(D, at, O, k) \subseteq 1 .. k - 1
      BY <3>1, ScopesNest
    <3> QED
      BY <3>2 DEF Within, Open, D, at, O
  <2> HIDE DEF In, Kept
  <2> QED
    BY <2>1, <2>2, <2>3
<1>5. /\ \A k : Len(e(k)) = N
      /\ \A k \in 1 .. N : e(k)[k] = [depth |-> D[k], on |-> lines[k].on, arm |-> ""]
  <2>1. ASSUME NEW k \in 1 .. N PROVE ArmRead(lines, k, k) = ""
    <3>1. k + 1 .. k = {}
      BY <1>1
    <3>2. ArmStarts(lines, k, k) = {}
      BY <3>1 DEF ArmStarts
    <3> QED
      BY <3>2 DEF ArmRead
  <2>2. ASSUME NEW k PROVE Len(e(k)) = N
    BY ScopesHave
  <2>3. ASSUME NEW k \in 1 .. N
        PROVE  e(k)[k] = [depth |-> D[k], on |-> lines[k].on, arm |-> ""]
    <3>1. e(k)[k] = [depth |-> D[k], on |-> lines[k].on, arm |-> ArmRead(lines, k, k)]
      BY ScopesHave
    <3> QED
      BY <2>1, <3>1
  <2> HIDE DEF e
  <2> QED
    BY <2>2, <2>3
<1> HIDE DEF e, In, Kept, D
<1> DEFINE Right == {k \in Nat : k <= N => stack[k] = Those(e(k), In(k))}
<1>6. 0 \in Right
  <2>1. In(0) = {}
    BY DEF In, Open, Behind
  <2>2. Those(e(0), {}) = <<>>
    BY <1>1, <1>5, ThoseNone
  <2> QED
    BY <1>2, <2>1, <2>2
<1>7. ASSUME NEW n \in Nat, n \in Right PROVE n + 1 \in Right
  <2> SUFFICES ASSUME n + 1 <= N PROVE stack[n + 1] = Those(e(n + 1), In(n + 1))
    OBVIOUS
  <2> DEFINE k == n + 1
  <2>1. k \in 1 .. N /\ k - 1 = n /\ n \in Nat /\ n <= N
    BY <1>1
  <2>2. /\ k \in 1 .. N /\ k - 1 = n /\ n \in Nat
        /\ stack[k - 1] = Those(e(k - 1), In(k - 1))
    BY <1>7, <2>1
  <2> HIDE DEF k
  <2> SUFFICES stack[k] = Those(e(k), In(k))
    BY DEF k
  <2>3. Entered(stack[k - 1], lines[k], D[k - 1]) = Those(e(k), Kept(k))
    BY <1>3, <2>2
  <2>4. stack[k] = Turned(lines, k, stack[k - 1])
    BY <1>2, <2>2
  <2>5. CASE lines[k].on = ""
    BY <1>4, <2>2, <2>3, <2>4, <2>5 DEF Turned, D
  <2>6. CASE lines[k].on # ""
    <3>1. stack[k] = Append(Those(e(k), Kept(k)), e(k)[k])
      <4>1. e(k)[k] = [depth |-> D[k], on |-> lines[k].on, arm |-> ""]
        BY <1>5, <2>2
      <4> QED
        BY <2>3, <2>4, <2>6, <4>1 DEF Turned, D
    <3>2. Kept(k) \in SUBSET (1 .. n) /\ In(k) = Kept(k) \cup {n + 1} /\ n + 1 = k
      BY <1>4, <2>2, <2>6 DEF k
    <3> DEFINE a == e(k)
    <3>3. Len(a) \in Nat /\ n + 1 <= Len(a)
      BY <1>1, <1>5
    <3> HIDE DEF a
    <3>4. Those(a, Kept(k) \cup {n + 1}) = Append(Those(a, Kept(k)), a[n + 1])
      BY <3>2, <3>3, ThoseWithLast
    <3> QED
      BY <3>1, <3>2, <3>4 DEF a
  <2> QED
    BY <2>5, <2>6
<1> HIDE DEF Right
<1>8. Nat \subseteq Right
  BY <1>6, <1>7, NumbersBySuccession
<1> DEFINE a == e(l)
           K == Kept(l)
           armed == {j \in K : a[j].arm # ""}
<1>9. Arms(lines)[l] = Innermost(Those(a, K))
  <2>1. l \in 1 .. N /\ l \in DOMAIN lines /\ l - 1 \in Nat /\ l - 1 <= N
    BY <1>1
  <2>2. stack[l - 1] = Those(e(l - 1), In(l - 1))
    BY <1>8, <2>1 DEF Right
  <2>3. Entered(stack[l - 1], lines[l], D[l - 1]) = Those(e(l), Kept(l))
    BY <1>3, <2>1, <2>2
  <2> QED
    BY <1>2, <2>1, <2>3
<1>10. /\ K \subseteq 1 .. N /\ K = Matches(lines, l)
      /\ \A j \in K : a[j].on = lines[j].on /\ a[j].arm = ArmRead(lines, j, l)
  <2>1. K \subseteq 1 .. l - 1 /\ K = Matches(lines, l)
    BY <1>1, <1>4
  <2>2. 1 .. l - 1 \subseteq 1 .. N
    BY <1>1
  <2>3. \A j \in 1 .. N : a[j].on = lines[j].on /\ a[j].arm = ArmRead(lines, j, l)
    BY ScopesHave DEF e
  <2> HIDE DEF a, K
  <2> QED
    BY <2>1, <2>2, <2>3
<1>11. Innermost(Those(a, K))
         = IF armed = {} THEN <<>> ELSE <<a[MaxOf(armed)].on, a[MaxOf(armed)].arm>>
  <2> DEFINE E == {a[j] : j \in 1 .. N}
  <2>1. Len(a) \in Nat /\ K \in SUBSET (1 .. Len(a)) /\ \A j \in 1 .. Len(a) : a[j] \in E
    BY <1>1, <1>5, <1>10
  <2> HIDE DEF a, K, E
  <2> QED
    BY <2>1, InnermostThose
<1>12. \A j \in K : a[j].arm # "" <=> ArmStarts(lines, j, l) # {}
  <2> SUFFICES ASSUME NEW j \in K PROVE ArmRead(lines, j, l) # "" <=> ArmStarts(lines, j, l) # {}
    BY <1>10
  <2> DEFINE S == ArmStarts(lines, j, l)
  <2>1. S \subseteq j + 1 .. l /\ \A m \in S : lines[m].arm # ""
    BY DEF ArmStarts
  <2>2. j \in 1 .. N
    BY <1>10
  <2>3. S \subseteq 0 .. l /\ l \in Nat
    <3>1. j \in Nat /\ l \in Nat
      BY <1>1, <2>2
    <3>2. S \subseteq j + 1 .. l
      BY <2>1
    <3> HIDE DEF S
    <3> QED
      BY <3>1, <3>2
  <2>4. S # {} => MaxOf(S) \in S
    <3> HIDE DEF S
    <3> QED
      BY <2>3, MaxIsLargest
  <2> QED
    BY <2>1, <2>4 DEF ArmRead
<1>13. armed = {j \in Matches(lines, l) : ArmStarts(lines, j, l) # {}}
  BY <1>10, <1>12
<1> HIDE DEF armed, a
<1>14. CASE armed = {}
  BY <1>9, <1>11, <1>13, <1>14 DEF ArmAround
<1>15. CASE armed # {}
  <2> DEFINE n == MaxOf(armed)
  <2>1. armed \subseteq 0 .. N
    <3>1. armed \subseteq K
      BY DEF armed
    <3> QED
      BY <1>1, <1>10, <3>1
  <2>2. n \in armed
    BY <1>1, <1>15, <2>1, MaxIsLargest
  <2> HIDE DEF n
  <2>3. n \in K /\ ArmStarts(lines, n, l) # {}
    BY <1>10, <1>13, <2>2
  <2>4. a[n].on = lines[n].on /\ a[n].arm = lines[MaxOf(ArmStarts(lines, n, l))].arm
    BY <1>10, <2>3 DEF ArmRead
  <2>5. ArmAround(lines, l) = <<lines[n].on, lines[MaxOf(ArmStarts(lines, n, l))].arm>>
    BY <1>13, <1>15 DEF ArmAround, n
  <2> QED
    BY <1>9, <1>11, <1>15, <2>4, <2>5 DEF n
<1> QED
  BY <1>14, <1>15
-----------------------------------------------------------------------------
(***************************************************************************)
(* Rows: what the code reads off a line, put into the columns of its row.  *)
(***************************************************************************)

(* An arm that is an instruction makes a target of its own.                *)
Variant(row, owner, mnem) ==
    /\ {"owner", "stimulus", "target"} \subseteq DOMAIN row
    /\ "arm" \notin DOMAIN row /\ "chain" \notin DOMAIN row
    /\ row.owner = owner
    /\ owner[1] = "execute" /\ mnem # "" =>
          row.stimulus = "instruction_variant" /\ row.target = mnem

LEMMA RowOfVariant ==
    ASSUME NEW f, NEW owner, NEW mnem, NEW callers, NEW own, NEW loose
    PROVE  Variant(RowOf(f, owner, mnem, callers, own, loose), owner, mnem)
<1> DEFINE stimulus == Stimulus(owner, mnem, own, callers, loose)
<1>1. owner[1] = "execute" /\ mnem # "" => stimulus = "instruction_variant"
  BY DEF Stimulus
<1> HIDE DEF stimulus
<1>2. RowOf(f, owner, mnem, callers, own, loose) = RowWith(f, owner, mnem, callers, stimulus)
  BY DEF RowOf, stimulus
<1> DEFINE row == RowWith(f, owner, mnem, callers, stimulus)
<1>3. /\ DOMAIN row = {"feature", "stimulus", "target", "owner", "more", "named"}
      /\ row.owner = owner /\ row.stimulus = stimulus
  BY DEF RowWith
<1>4. stimulus = "instruction_variant" => row.target = mnem
  BY DEF RowWith
<1>5. RowOf(f, owner, mnem, callers, own, loose) = row
  BY <1>2
<1> HIDE DEF row
<1>6. {"owner", "stimulus", "target"} \subseteq DOMAIN row
  BY <1>3
<1>7. "arm" \notin DOMAIN row /\ "chain" \notin DOMAIN row
  BY <1>3
<1>8. Variant(row, owner, mnem)
  BY <1>1, <1>3, <1>4, <1>6, <1>7 DEF Variant
<1> QED
  BY <1>5, <1>8

(* A row names the definition, the arm and the conditions that its line is *)
(* in by the braces, and the instruction its arm is for: the stacks of     *)
(* _index_conditions and _index_arms close what the braces have closed.    *)
THEOREM RowsNameTheirPlace == Spec => []RowsFollowStructure
<1>1. ASSUME IInv PROVE RowsFollowStructure
  <2> SUFFICES ASSUME NEW p \in LiveSpans
               PROVE  LET row == Ladders[source][p]
                          is == Line(p).really
                      IN  /\ row.owner = is.owner /\ row.arm = is.arm /\ row.chain = is.chain
                          /\ is.insn # "" =>
                                row.target = is.insn /\ row.stimulus = "instruction_variant"
    BY DEF RowsFollowStructure
  <2>1. source \in DOMAIN Model
    BY <1>1 DEF IInv, WorldTyped
  <2> DEFINE src == Model[source]
             f == p[1]
             k == p[2]
             is == Line(p).really
             arms == [g \in DOMAIN src |-> Arms(src[g])]
             chains == [g \in DOMAIN src |-> Chains(src[g])]
             mnem == MnemonicIn(src, f, is.owner, is.arm)
             callers == CallersOf(src, is.owner)
             own == Classify(src[f][k].rules)
             loose == Classify(RulesAround(src[f], k))
             row == RowOf(f, is.owner, mnem, callers, own, loose)
  <2>2. p \in AllSpans[source] /\ f \in DOMAIN src /\ k \in DOMAIN src[f]
    BY <2>1, SpansAreLines DEF LiveSpans
  <2>3. p \in PositionsAt(source)
    BY <2>1, <2>2 DEF PositionsAt
  <2>4. WellLaid(src[f])
    BY <2>1, <2>2, StructureAssumption
  <2>5. /\ is.chain = Conditions(src[f], k)
        /\ is.arm = ArmAround(src[f], k)
        /\ is.insn # "" => /\ is.owner[1] = "execute" /\ is.arm # <<>> /\ is.arm[2] # "_"
                           /\ IsOpcodeMatch(src, is.owner[2], is.arm[1])
                           /\ MnemonicOf(src, f, is.arm[2]) = is.insn
    BY <2>1, <2>2, StructureAssumption DEF Line
  <2>6. arms[f][k] = is.arm /\ chains[f][k] = is.chain /\ is.owner = Owner(src[f], k)
    <3>1. is.owner = Owner(src[f], k)
      BY <2>1, <2>2, OwnersAreAround
    <3>2. arms[f] = Arms(src[f]) /\ chains[f] = Chains(src[f])
      BY <2>2
    <3>3. Arms(src[f])[k] = ArmAround(src[f], k) /\ Chains(src[f])[k] = Conditions(src[f], k)
      BY <2>2, <2>4, ArmsAreAround, ChainsAreConditions
    <3> QED
      BY <2>5, <3>1, <3>2, <3>3
  <2>7. Ladders[source][p] = Located(row, is.arm, is.chain, src[f][k].text)
    <3>1. Ladders[source] = RowsOf(src, arms, chains, PositionsAt(source))
      BY <2>1 DEF Ladders
    <3>2. Ladder(src, f, k, is.owner, is.arm) = row
      BY DEF Ladder
    <3> HIDE DEF arms, chains, row, is
    <3> QED
      BY <2>2, <2>3, <2>5, <2>6, <3>1, <3>2 DEF RowsOf
  <2>8. is.insn # "" => is.owner[1] = "execute" /\ mnem = is.insn
    <3> HIDE DEF is
    <3> QED
      BY <2>5 DEF MnemonicIn
  <2> HIDE DEF arms, chains, mnem, callers, own, loose
  <2>9. Variant(row, is.owner, mnem)
    BY RowOfVariant
  <2> HIDE DEF row
  <2>10. /\ row.owner = is.owner
         /\ is.owner[1] = "execute" /\ mnem # "" =>
               row.stimulus = "instruction_variant" /\ row.target = mnem
    BY <2>9 DEF Variant
  <2>11. \A arm, chain, text : /\ Located(row, arm, chain, text).owner = row.owner
                               /\ Located(row, arm, chain, text).stimulus = row.stimulus
                               /\ Located(row, arm, chain, text).target = row.target
                               /\ Located(row, arm, chain, text).arm = arm
                               /\ Located(row, arm, chain, text).chain = chain
    BY <2>9 DEF Located, Variant
  <2> DEFINE whole == Ladders[source][p]
  <2>12. /\ whole.owner = row.owner /\ whole.stimulus = row.stimulus /\ whole.target = row.target
         /\ whole.arm = is.arm /\ whole.chain = is.chain
    BY <2>7, <2>11
  <2> HIDE DEF whole, is
  <2>13. /\ whole.owner = is.owner /\ whole.arm = is.arm /\ whole.chain = is.chain
         /\ is.insn # "" => whole.target = is.insn /\ whole.stimulus = "instruction_variant"
    BY <2>8, <2>10, <2>12
  <2> QED
    BY <2>13 DEF is, whole
<1> QED
  BY Invariance, <1>1, PTL

=============================================================================
