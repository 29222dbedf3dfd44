------------------------------ MODULE CaseRunner ------------------------------
(***************************************************************************)
(* The programs that turn a list of privileged cases into ELFs and judge   *)
(* them: run_pmp_cases.py, run_vmem_cases.py, run_trap_cases.py, whose     *)
(* list is a case file derived earlier from a configuration, and           *)
(* scenario_tests.py at each XLEN, whose list is pinned in the program.    *)
(* Each has its own output directory, which outlives the run.              *)
(***************************************************************************)
EXTENDS Hart, FiniteSets

CONSTANTS
    Configs,     \* Configs[i]: a machine configuration, see PmpCases
    Bugs,        \* Bugs[p]: deviations of a hart that p's cases aim at
    WordSize,    \* 2^32: x2 is built by lui, slli, srli and addi
    MaxRuns,     \* runs of the program; a deviating hart gets one, without faults
    MaxFaults    \* generations that fail, kills and simulator timeouts

CasePrograms == {"pmp", "vmem", "trap"}
Programs == CasePrograms \cup {"scenario64", "scenario32"}
IsScenario(p) == p \notin CasePrograms

VARIABLES
    prog, defect,
    config,    \* the configuration on disk
    file,      \* the configuration the case file was derived from
    pc, pos, only,
    elf,       \* ELFs in the output directory: id -> the configuration whose
               \* case of that name it was made from, 0 when there is none
    passed, bad, failed,     \* the tally of the run, as sets of ids
    manifests, \* tests recorded by this run, written when it ends
    index,     \* the tests.json files
    runs, faults,
    fresh,     \* history: ids this run generated
    broken     \* history: ids whose generator failed in this run

tally == <<passed, bad, failed>>
history == <<fresh, broken>>
world == <<prog, defect, config, file>>
vars == <<world, pc, pos, only, elf, tally, manifests, index, runs, faults, history>>

Corpora == [p \in Programs |-> [i \in DOMAIN Configs |->
    CASE p = "pmp" -> PmpCorpus(Configs[i])
      [] p = "vmem" -> VmemCorpus(Configs[i])
      [] p = "trap" -> TrapCorpus(Configs[i])
      [] OTHER -> Scenarios]]
IdsOf == [p \in Programs |-> [i \in DOMAIN Configs |-> Names(Corpora[p][i])]]
Ids == [p \in Programs |-> UNION {IdsOf[p][i] : i \in DOMAIN Configs}]
Corpus == Corpora[prog][file]
Current == Corpus[pos]
(* A corpus is a list of cases, and no two share the name of their ELF;    *)
(* configurations are numbered from 1, and 0 stands for none.              *)
ASSUME CorporaAssumption ==
    /\ 0 \notin DOMAIN Configs
    /\ \A p \in Programs : \A i \in DOMAIN Configs :
          /\ Len(Corpora[p][i]) \in Nat
          /\ DOMAIN Corpora[p][i] = 1 .. Len(Corpora[p][i])
          /\ \A j, k \in DOMAIN Corpora[p][i] :
                Corpora[p][i][j].id = Corpora[p][i][k].id => j = k
    /\ MaxRuns \in Nat \ {0} /\ MaxFaults \in Nat /\ WordSize \in Nat \ {0}

Named(cases, id) == cases[CHOOSE k \in DOMAIN cases : cases[k].id = id]
CaseIn(id, i) == Named(Corpora[prog][i], id)

Init ==
    /\ prog \in Programs
    /\ defect \in Bugs[prog] \cup {"none"}
    /\ config \in DOMAIN Configs
    /\ file = config
    /\ pc = "idle"
    /\ pos = 0
    /\ only = "all"
    /\ elf = [c \in Ids[prog] |-> 0]
    /\ passed = {} /\ bad = {} /\ failed = {}
    /\ manifests = {}
    /\ index = {}
    /\ runs = IF defect = "none" THEN 0 ELSE MaxRuns - 1
    /\ faults = IF defect = "none" THEN 0 ELSE MaxFaults
    /\ fresh = {} /\ broken = {}

(* The configuration is edited; pmp_cases.py and its siblings are run by   *)
(* hand, so the case file may stay behind.                                 *)
Reconfigure(c) ==
    /\ pc = "idle" /\ runs = 1 /\ defect = "none" /\ c # config
    /\ config' = c
    /\ UNCHANGED <<prog, defect, file, pc, pos, only, elf, tally, manifests, index,
                   runs, faults, history>>

Derive ==
    /\ pc = "idle"
    /\ file # config
    /\ file' = config
    /\ UNCHANGED <<prog, defect, config, pc, pos, only, elf, tally, manifests, index,
                   runs, faults, history>>

(* run.sh --clean removes the corpus before it starts.                     *)
Clean ==
    /\ pc = "idle" /\ runs > 0
    /\ elf' = [c \in Ids[prog] |-> 0]
    /\ index' = {}
    /\ UNCHANGED <<world, pc, pos, only, tally, manifests, runs, faults, history>>

(* Mutant: the tally of an earlier run goes on.                            *)
BeginKeepsTally(filter) ==
    /\ pc = "idle" /\ runs < MaxRuns
    /\ pc' = "case"
    /\ pos' = 1
    /\ only' = filter
    /\ runs' = runs + 1
    /\ UNCHANGED tally
    /\ manifests' = {}
    /\ fresh' = {} /\ broken' = {}
    /\ UNCHANGED <<world, elf, index, faults>>

Begin(filter) ==
    /\ pc = "idle" /\ runs < MaxRuns
    /\ pc' = "case"
    /\ pos' = 1
    /\ only' = filter
    /\ runs' = runs + 1
    /\ passed' = {} /\ bad' = {} /\ failed' = {}
    /\ manifests' = {}
    /\ fresh' = {} /\ broken' = {}
    /\ UNCHANGED <<world, elf, index, faults>>

AtCase == pc = "case" /\ pos <= Len(Corpus)
Wanted == \/ only = "all"
          \/ only = "first" /\ pos = 1
Xlen == IF prog = "scenario32" THEN 32 ELSE 64
Skipped == ~Wanted \/ (IsScenario(prog) /\ SkippedAt(Xlen, Current))

Skip ==
    /\ AtCase /\ Skipped
    /\ pos' = pos + 1
    /\ UNCHANGED <<world, pc, only, elf, tally, manifests, index, runs, faults, history>>

(* addr_setup_for: what x2 holds after the opcodes the runner emits.       *)
(* Mutant: the high part without the carry of a negative low part.         *)
MaterialiseNoCarry(addr) ==
    LET low == addr % 4096
        hi == addr \div 4096
        lo == IF low >= 2048 THEN low - 4096 ELSE low
    IN  (((hi * 4096) % WordSize) + lo)

Materialise(addr) ==
    LET low == addr % 4096
        hi == (addr \div 4096) + (IF low >= 2048 THEN 1 ELSE 0)
        lo == IF low >= 2048 THEN low - 4096 ELSE low
    IN  (((hi * 4096) % WordSize) + lo)

(* OPCODE, or the opcode of the case: bytes accessed and immediate.        *)
Insn(c) ==
    IF c.opcode = "lbu_disp1" THEN [width |-> 1, disp |-> 1]
    ELSE IF c.opcode = "ld_disp4" THEN [width |-> 8, disp |-> 4]
    ELSE CASE c.access \in {"Load", "Store"} -> [width |-> 4, disp |-> 0]
           [] c.access \in {"LR", "SC", "AMO"} -> [width |-> 8, disp |-> 0]
           [] OTHER -> [width |-> 1, disp |-> 0]

(* isla-testgen (external) builds the ELF of the current case.             *)
(* Mutant: a control is not recorded.                                      *)
ControlDropped ==
    /\ AtCase /\ ~Skipped
    /\ elf' = [elf EXCEPT ![Current.id] = file]
    /\ fresh' = fresh \cup {Current.id}
    /\ manifests' = IF IsScenario(prog) /\ ~IsControl(Current)
                    THEN manifests \cup {Current.id} ELSE manifests
    /\ pc' = "judge"
    /\ UNCHANGED <<world, pos, only, tally, index, runs, faults, broken>>

Generate ==
    /\ AtCase /\ ~Skipped
    /\ elf' = [elf EXCEPT ![Current.id] = file]
    /\ fresh' = fresh \cup {Current.id}
    /\ manifests' = IF IsScenario(prog) THEN manifests \cup {Current.id} ELSE manifests
    /\ pc' = "judge"
    /\ UNCHANGED <<world, pos, only, tally, index, runs, faults, broken>>

(* A non-zero exit.  The case runners record it and go on; generate() of   *)
(* the scenarios only leaves the test out of the manifest.                 *)
(* Mutant: a case runner goes on to judge as well.                         *)
FailureIgnored ==
    /\ AtCase /\ ~Skipped /\ faults < MaxFaults
    /\ faults' = faults + 1
    /\ pc' = "judge"
    /\ broken' = broken \cup {Current.id}
    /\ UNCHANGED <<world, pos, only, elf, tally, manifests, index, runs, fresh>>

GenerateFails ==
    /\ AtCase /\ ~Skipped /\ faults < MaxFaults
    /\ faults' = faults + 1
    /\ IF IsScenario(prog)
       THEN pc' = "judge" /\ UNCHANGED <<pos, failed>>
       ELSE pc' = pc /\ pos' = pos + 1 /\ failed' = failed \cup {Current.id}
    /\ broken' = broken \cup {Current.id}
    /\ UNCHANGED <<world, only, elf, passed, bad, manifests, index, runs, fresh>>

(* Exit status zero and nothing written: only run_trap_cases.py looks.     *)
GeneratesNothing ==
    /\ AtCase /\ ~Skipped /\ faults < MaxFaults
    /\ faults' = faults + 1
    /\ IF prog = "trap" /\ elf[Current.id] = 0
       THEN pc' = pc /\ pos' = pos + 1 /\ failed' = failed \cup {Current.id}
       ELSE pc' = "judge" /\ UNCHANGED <<pos, failed>>
    /\ manifests' = IF IsScenario(prog) THEN manifests \cup {Current.id} ELSE manifests
    /\ UNCHANGED <<world, only, elf, passed, bad, index, runs, history>>

(* What a simulator answers for ELF c: the test passes when it ends as the *)
(* expectation built into it says.                                         *)
SpikeHas(c) ==
    CASE prog = "pmp" -> {Needs(c.access)}
      [] prog = "vmem" -> IF "adue" \in c.bits THEN {"Svadu"} ELSE {}
      [] prog = "trap" -> IF "LCOFI" \in {c.id[i] : i \in DOMAIN c.id}
                          THEN {"Sscofpmf"} ELSE {}
      [] OTHER -> {}

EndsAsExpected(c, has, grain) ==
    LET m == Configs[config] IN
    CASE prog = "pmp" -> PmpTrap(c, Materialise(c.addr), Insn(c), grain, has, defect) = c.expect
      [] prog = "vmem" -> VmemTrap(c, c.addr, m, has, defect) = c.expect
      [] prog = "trap" -> TrapTaken(c, m, has, defect) = <<c.expect, c.handler>>
      [] OTHER -> LET trap == ScenarioTrap(c, RunConfig(c), Xlen, defect) IN
                  IF defect = "handler_ignores_cause" THEN (trap # 0) = (c.expect # 0)
                  ELSE trap = c.expect

SailPasses(c) == /\ EndsAsExpected(c, Configs[config].ext, Configs[config].grain)
                 /\ IsScenario(prog) => ~Refused(RunConfig(c))
SpikePasses(c) == EndsAsExpected(c, SpikeHas(c), 0)

(* With no ELF the simulators answer neither; run() of the scenarios looks *)
(* for the file first.  Both count the case as not as expected.            *)
GoodVerdict(id) ==
    /\ elf[id] # 0
    /\ LET c == CaseIn(id, elf[id]) IN
       IF IsScenario(prog)
       THEN Judgement(Current, SailPasses(c), SpikePasses(c)) = "ok"
       ELSE SailPasses(c) /\ SpikePasses(c)

Judge ==
    /\ pc = "judge"
    /\ IF GoodVerdict(Current.id)
       THEN passed' = passed \cup {Current.id} /\ UNCHANGED bad
       ELSE bad' = bad \cup {Current.id} /\ UNCHANGED passed
    /\ pos' = pos + 1
    /\ pc' = "case"
    /\ UNCHANGED <<world, only, elf, failed, manifests, index, runs, faults, history>>

(* The tally is printed; scenario_tests.py now writes the index of every   *)
(* group it recorded a test of, and leaves the others as they were.        *)
Finish ==
    /\ pc = "case" /\ pos > Len(Corpus)
    /\ pc' = "idle"
    /\ pos' = 0
    /\ index' = manifests \cup
          {id \in index : \E g \in Groups : id \in Names(g) /\ Names(g) \cap manifests = {}}
    /\ UNCHANGED <<world, only, elf, tally, manifests, runs, faults, history>>

(* Killed, or an exception nobody catches: the generator's 300 s or a      *)
(* simulator's 30 or 120 s pass, or pma_config exits.  Nothing is printed. *)
Die ==
    /\ pc # "idle" /\ faults < MaxFaults
    /\ pc' = "idle"
    /\ pos' = 0
    /\ faults' = faults + 1
    /\ UNCHANGED <<world, only, elf, tally, manifests, index, runs, history>>

Next ==
    \/ \E c \in DOMAIN Configs : Reconfigure(c)
    \/ Derive
    \/ Clean
    \/ \E filter \in {"all", "first"} : Begin(filter)
    \/ Skip
    \/ Generate
    \/ GenerateFails
    \/ GeneratesNothing
    \/ Judge
    \/ Finish
    \/ Die

Spec == Init /\ [][Next]_vars
=============================================================================
