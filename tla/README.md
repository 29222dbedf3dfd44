# Verification of riscv-test-generation

TLA+ models of the Python programs that generate, judge and measure RISC-V
tests, the TLC runs that check them on small instances, and TLAPS proofs of
their main properties for every instance. Paths are relative to the repository;
`python-isla/` is `src/python-isla/` here.

Contents: 1 the system, 2 modules and code, 3 runs and bounds, 4 fairness,
5 proofs, 6 only model-checked, 7 findings, 8 not modelled, 9 plan.

## 1. The system

The programs are small and sequential. What makes them hard is that they run for
hours, are killed and re-run, and talk to each other only through files that
outlive them: result files, a directory of tests that both XLENs share, one
coverage trace, one baseline.

| component | state it keeps | operations | talks to |
|---|---|---|---|
| batch driver, `sweep_all.py` | `_results/<label>-rv<xlen>.txt`, totals in memory | resume a target, run a target (start child, stream, wait, store), summarise | starts `opcode_sweep.py` as a child and reads its output |
| opcode sweep, `opcode_sweep.py`, `test_config.py` | `<mnemonic>.s`, `<mnemonic>.elf`, `tests.json`, a list of results | per mnemonic: skip, generate, annotate, simulate with retry, verdict; then summary and index | isla-testgen, Sail, Spike, QEMU |
| CSR sweep, `csr_sweep.py` | one cached text per CSR and XLEN | select, skip hazards, reuse or run, summarise | starts `opcode_sweep.py` |
| scenario tests, `scenario_tests.py` | ELFs, manifests | generate, simulate, negative controls | isla-testgen, Sail, Spike |
| model parser, `model_opcodes.py` | none | read the model's assembly clauses, recognise operand layouts, allocate registers and addresses, assemble | called by the opcode sweep, Sail's sources, GNU as |
| derived cases and runners, `pmp_cases.py` ... `run_vmem_cases.py` | none | compute expected outcomes of PMP, trap and paging cases; run and judge them | isla-testgen, Sail |
| coverage replay and report, `coverage_report.py` | `sail_coverage` (written by the emulator) | replay merged or per ELF, report, report again | coverage build of the emulator, comparison scripts |
| span exclusions and analysis | text files | find unreachable ranges, classify uncovered spans | `coverage_report.py` |
| coverage matrix, `coverage_matrix.py` | none | one status per instruction from results, tests and oracle corpus | reads what the sweeps left |
| regression gate, `regression.py` | `baseline.json` | check (exit status), update | coverage matrix, `coverage_report.py --no-replay` |
| test plan, `testplan.py`, `testplan_html.py` | plan files | check freshness, join rows with coverage, compare plans | trace, manifest, model sources |
| status reports | none | classify failures, count progress | result files and logs |
| configuration and paths | none | choose model files, check IR against configuration | every program |
| pipelines, `run.sh`, `generate_suite.sh` | corpus directories | run the above in order | all |
| comparison, inventory, document tools | none | measure or convert once | the coverage trace |

`PROJECT.json` lists each component with its status, and each hazard at its line.

What is hard, by component, and what makes the component correct:

* *Batch driver.* The driver or its child dies at any step; targets are resumed
  from files of earlier runs; an argument may be repeated. Correct: the summary
  says what the files hold, finished work is never lost or swept again, every
  run ends.
* *Opcode sweep.* The directory is shared by both XLENs and by re-runs, and a
  generation can fail with the other XLEN's ELF in place; simulators time out
  under load. Correct: a verdict judges what was just generated, one bad run is
  no verdict, the index and the headers describe the directory, each mnemonic
  prints exactly one verdict line.
* *Model parser.* A clause it misreads becomes a plausible but wrong instruction, an
  operand out of range a failure of the model under test, an address out of the
  region an access anywhere. Correct: layouts are read as they print, operands are
  legal for every instruction and XLEN, accesses stay in the declared region.
* *Coverage replay.* One file serves all replays, measurements and reports; an
  ELF is tried at two XLENs. Correct: totals and per-ELF numbers come from the
  replay's own clean runs, each ELF is counted once, the ELFs called redundant
  can all be dropped.
* *Regression gate.* It joins state left by other programs at other times, and it
  is its own reference: what it accepts today it compares with tomorrow.
  Correct: accepting after a clean check loses nothing, now or in the long run.
* *CSR sweep.* Results are cached one by one, under the name and the XLEN, and
  reused by later sweeps; a child that times out or dies leaves an output too.
  Correct: a row says what the hart does, it was earned by a child, an
  interruption costs one CSR.
* *Cases, scenarios and their runners.* Expectations are computed from a
  configuration, address arithmetic has boundaries (NAPOT, NA4, `lui`/`addi`
  carry), case files and ELFs outlive the configuration they were made from.
  Correct: a conforming hart fails nothing, a deviating one fails something, a
  failed generation never passes, the negative controls stay in the index.
* *Test plan.* Four inputs of different ages, an index built from brace depth, a
  search for callers with limits, a baseline that may be the output itself, four
  files replaced one after the other. Correct: the plan is about the sources on
  disk, a row names what guards its line, a refused run changes nothing, the gate
  lets no new target through.

## 2. Modules and code

| module | models | state and actions |
|---|---|---|
| `SweepChild` | what a sweep process looks like to its parent | `left`: mnemonics without a line; `out`: the printed text, as counts per verdict and whether the summary was reached. The interface between the next two. |
| `SweepAll` | `sweep_all.py` `main`, `run_one` | `drv` is the program point; `file` is `_results`; `ResumeTarget`, `RunTarget`, `StreamEnds`, `WaitReturns`, `OpenFile`, `CloseFile`, `Summarise`, `Exit` are the statements of the loop; `Crash` and `CrashWriting` end both processes, the second with a file cut anywhere. |
| `SweepAllProps` | properties of the driver | refinement mapping to `ResumableBatch` |
| `ResumableBatch` | abstract specification | jobs, a store of results, a report: a stored result stays until a run that starts anew discards it, a report needs all results and says what they are |
| `OpcodeSweep` | `opcode_sweep.py` `main`, simulators, `annotate`, `Manifest` | `pc` is the program point; `asm`, `elf`, `index` are the directory; one action per branch of the loop; `Die` and `Reaped` end the process anywhere |
| `OpcodeSweepProps` | properties of one sweep | refinement mapping to `SweepChild` |
| `OpcodeRender` | `model_opcodes.py` | operators: `Fragments` and `OperandKinds` read a template, `Parse` gives the instructions of a list of clauses, `Render` allocates operands and what precedes them, `OpcodesFor` asks the assembler |
| `RenderedSweep` | the sweep with the instructions its mnemonics stand for | properties of what isla-testgen is given; external: register groups of the vector unit, execution of the instructions before the one under test |
| `CoverageReplay` | `coverage_report.py` `replay`, `report_per_elf`, `main` | `trace` is `sail_coverage`; `NextElf`, `RunSucceeds`, `RunFails`, `Collect` are the loop; `FinishReplay`, `ReportAgain` report; `Measure` is the comparison scripts; `Regenerate` is the corpus changing |
| `CoverageProps` | properties of the numbers | |
| `RegressionGate` | `coverage_matrix.isla_status`, `regression.py` | `results`, `tests`, `oracle`, `covered` are what the other programs left; `StatusOf` is the ladder; `Check`, `Update`, `UpdateDies` |
| `RegressionProps` | properties of the gate | |
| `CsrTable` | `csr_sweep.py` tables, `from_model` | the curated rows, the rows derived from the model's CSRs, which write must trap at which XLEN |
| `CsrSweep` | `csr_sweep.py` `main`, `run` | `cache` is `_results/<name>-rv<XLEN>.txt`; `Begin`, `ReadCache`, `RunChild`, `ChildFails`, `Save`, `Summarise` are the loop; `Die` may leave a file empty; `Rebuild` is a model mended between two sweeps |
| `CsrProps` | properties of the CSR sweep | |
| `PmpCases`, `VmemCases`, `TrapCases` | `build_cases` of `pmp_cases.py`, `vmem_cases.py`, `trap_cases.py` | operators: the list of cases derived from a configuration, with registers, address, permissions and expectation; `CaseLists` has the list comprehension they share |
| `ScenarioTests` | `scenario_tests.py`, the pinned lists | operators: scenarios, flags, negative controls, what a PMA override changes |
| `Hart` | external: what a hart does with such a test | operators: PMP matching from the encoded registers, a page walk, the routing of traps, each with the ways a hart may deviate |
| `CaseRunner` | `run_pmp_cases.py`, `run_vmem_cases.py`, `run_trap_cases.py`, `scenario_tests.py` `main` | `config` and `file` are the configuration and the one the case file was derived from; `elf` and `index` are the output directory; `Generate`, `GenerateFails`, `GeneratesNothing`, `Judge`, `Finish` are the loop; `Die` is a kill or an uncaught timeout |
| `CaseProps` | properties of cases and runners | |
| `SailIndex` | `testplan.py` `SailIndex`, `classify`; `derive_span_exclusions.py` | operators: owner, condition chain, match arm and mnemonic of a line, callers of a helper, excluded lines |
| `TestPlan` | `testplan.py` `build_rows` to `main` | `source`, `manifest`, `log`, `spared` are the inputs with their times; `Edit`, `Build`, `Replay`, `DeriveExclusions`, `Keep` change them; `Start`, `Refuse`, `Load`, `Write`, `Exit`, `Die` are a run |
| `TestPlanProps` | properties of the plan | each line also carries what it really is, from the program it was printed from |
| `MC*` | instances for TLC | one per component |
| `*Proofs` | theorems | section 5 |

The composition: `OpcodeSweep` implements `SweepChild` (checked and proved,
`ImplementsChild`), `SweepAll` contains a `SweepChild`, and `SweepAll` implements
`ResumableBatch` (checked and proved, `ImplementsBatch`). The gate reads the files
of the sweeps and asks the replay's file for coverage; it takes them as inputs that
any command may change between two of its own. `CaseRunner` composes the five lists
of cases with `Hart`, which answers from the encoded registers and tables and not
from what the case claims. `RenderedSweep` composes `OpcodeSweep` with `OpcodeRender`: at
which XLENs a mnemonic assembles (`Encodes`) is what `OpcodesFor` answers. `TestPlan` runs on `SailIndex`.

Abstractions, beyond leaving out wording and layout:

* Printed output is the number of lines of each verdict and whether the summary
  was reached; nothing reads more of it. Of a CSR's child, how many of its six
  lines pass and whether there are any.
* A test is the XLEN its code was generated for and the XLEN its header names;
  to the gate, whether it asserts anything; to the case runners, the configuration
  whose case of that name it was made from.
* A clause is its parts and a mnemonic the texts its parts contribute; of an
  instruction's encoding the operands are kept. `--csr` is left at its default.
* A span is a value; a scope file with its exclusions is the set of spans left. In
  the plan a span is a line, and a line is what the code's patterns see in it.
* The simulators, isla-testgen and the emulator are external. In the sweeps
  simulators answer freely; in `CsrSweep` and `CaseRunner` they are a hart that
  conforms or deviates in one named way. The coverage emulator writes its spans only
  on a clean exit (`comparison/README.md`: "A test that exits nonzero writes no
  coverage file at all") and an ELF runs only under the configuration of its XLEN
  (`coverage_report.py`: a mismatch "fails fast").
* A percentage is in tenths, as printed and parsed back; counts half-way between
  two tenths are not considered, since Python rounds those either way. The
  totals of the scopes are constants: one build of the model.
* A file's time is the value of a clock that each change advances.

Mutants are operators beside the definition they replace (`ResumeCountsLastOutput`
beside `ResumeTarget`): each is a plausible bug, and each property has one that
breaks it.

## 3. Runs, what they show, and their bounds

| run | checks | shows |
|---|---|---|
| `sweep` | `TypeOK`, `ReportMatchesFiles`, `FinishedAccountsForAll`, `FinishedWorkSurvives`, `ImplementsBatch`, `EveryRunEnds` | over any number of runs, with and without resume, killed anywhere, the summary counts what the files hold, a finished file counts each instruction once, while runs resume no finished file changes, and a run comes to its summary or is killed |
| `partial_resume` | violates `ResumesOnlyFinished` | finding 1 |
| `wall_clock` | violates `WallClockEndsStream` | finding 2 |
| `opcode` | `TypeOK`, `JudgedFresh`, `OneBadRunIsNoVerdict`, `SummaryAgrees`, `IndexDescribesCorpus`, `HeaderIsTrue`, `OperandsAreLegal`, `AccessesStayInRegion`, `LayoutIsRecovered`, `ImplementsChild` | sweeps at both XLENs over one directory, re-run and killed anywhere, of instructions read from clauses and rendered |
| `index_incomplete` | violates `IndexIsComplete` | finding 3 |
| `coverage` | `TypeOK`, `SuiteTotalIsTrue`, `EachElfAlone`, `RedundantCanBeDropped` | replays in both modes, reports, interruptions and measurements in any order over one file |
| `no_trace` | violates `ReplayLeavesTrace` | finding 4 |
| `gate` | `TypeOK`, `BaselineRatchets`, `LossIsBounded`, `CleanMeansVerified` | sweeps, replays, checks, updates and a dying update in any order |
| `vacuous_joined` | violates `PassesHaveAsserted` | finding 5 |
| `csr` | `TypeOK`, `RowsTellTheTruth`, `RowsAreEarned`, `InterruptionCostsOne` | sweeps of the curated and of the derived rows at both XLENs, with a child that fails or a kill, on a hart that conforms and on three that deviate; a row passes exactly if its register can be tested this way and the hart gets it right |
| `cases` | `TypeOK`, `NoFalseAlarm`, `DefectsAreSeen`, `ClaimsHold`, `FailuresNeverPass`, `IndexKeepsControls` | every derived case and every pinned scenario, generated and judged on a conforming hart and on harts that each deviate in one way; an edited configuration, a case file left behind, a failed generation or a kill |
| `plan` | `TypeOK`, `PlanTellsTheTruth`, `RowsFollowStructure`, `HelpersAreReached`, `RefusalKeepsPlan`, `GateStopsNewTargets` | plans of many small models, and of one model whose sources, manifest, log, exclusions and baseline change between the runs, with kills |

Bounds and why they are enough:

* `sweep`: two labels, so four targets, with one and two instructions, and two
  verdict words. Two targets are needed for one's lines to leak into another's
  and for one to die after another finished; two instructions for a sweep to be
  cut in the middle. One request names a label twice, the only way a target can
  be reached twice in a run. The number of runs is not bounded.
* `opcode`: one mnemonic of each kind the loop tells apart (ordinary, RV32 only
  and unguarded, guarded to RV64, a cross-product artefact, one that does not
  assemble) and two machine setups (Spike without QEMU, QEMU without Spike and
  with a fixed boot entry). The number of sweeps is not bounded. The mnemonics stand
  for instructions of 37 clauses, one for each layout and each special case that
  `model_opcodes.py` treats: offsets, bare and stack-pointer bases, compressed and
  vector registers, tables, literals the assembler refuses, widening, segment,
  strided, indexed (by bytes, by 16 and by 64 bits), element-group and BF16
  instructions, and two clauses that must be skipped. An indexed access reaches as far
  as the largest index that its element width holds: the prelude loads no vector.
  `LayoutIsRecovered` takes every list of up to three of ten operand kinds and every
  list of up to five of five fragments; the patterns span four fragments at most (section 5
  has the theorems for any length).
* `coverage`: three ELFs, one RV32, one of whose reach is within another's; the
  corpus is any subset and changes between commands; two views. Three are the
  least in which two ELFs make a third redundant. Nothing is bounded in length.
* `gate`: an ordinary and a stateless instruction, both XLENs, one scope of 3000
  branches with counts of 0.0, 74.0 and (two that print alike) 74.2 percent.
  `MaxEdits` = 3 changes between commands: the shortest violations of the mutants
  need at most three. (The theorems have no bound.) Two history variables, `author` and
  `asserted`, keep which sweep left a test file and which tests asserted something when
  their verdict was given; the program keeps neither, and no action reads them.
* `csr`: 30 CSRs of the model, at least one of each kind that the tables or the
  rules treat apart (high halves, counters, read-only, floating-point, vector,
  hazards to the harness, CSRs no test can be made for), next to the whole
  curated table; the whole list and one filter. What a register reads back is given as
  four sets, from `documentation/python-isla/findings.md` (`findings.md` below): those that move by
  themselves (`Restless`: C1), those that legalise a write (`Legalised`: C2), those RV64
  lacks (`Rv32Only`), and those Spike resets otherwise than Sail (`SpikeResets`: A2).
  `MaxRuns` = 2: one run to leave a
  cache, one to reuse it. `MaxFaults` = 1: a fault's damage is counted per fault, and
  the theorems of `CsrProofs` have no bound.
* `cases`: three configurations: the shipped one, one that takes the other branch of
  the code where there is one (coarse grain, hence no TOR and NA4; no cache-block
  zero and prefetch; RAM elsewhere), and one that has NA4 and not TOR. RAM and the width of a word are scaled down
  (`WordSize` = 2^24, `PmpAddrBits` = 26), which leaves the low 12 bits, where the
  carry of `lui`/`addi` is decided, as they are. `MaxRuns` = 2 and `MaxFaults` = 1: an ELF
  of the first run can be met by the second, with one failure in either. A deviating
  hart gets one run without faults, which is what `DefectsAreSeen` is about.
* `plan`: hundreds of models that differ in nesting and in call graphs, each planned
  once, and three versions of one model among which a history of at most `MaxEvents` = 3
  events, `MaxRuns` = 2 plans and one kill leads. `Limit` and `Depth` of the search for
  callers are 2 here (8 and 6 in the code), so that both limits are reached by call
  graphs of three helpers and two instructions; among them are functions of one line.
  `ScheduleLength` is 2 for the 40 of the code, so that plans of these sizes are cut; `FileNames` is the order the rows are sorted in.

`csr` and `plan` switch deadlock checking off: their runs are counted, so that their
histories end. In every other model a user can start or clean up again.

## 4. Fairness

`Spec` is safety only. `FairSpec` adds weak fairness of `DriverStep` (an ordinary
process that is never disabled for ever by anything but its child) and of
`ChildStep`: the child is a process each of whose generator and simulator calls has
a timeout, so it goes on. Nothing makes a user start a run, and crashes have no
fairness. `EveryRunEnds` needs both parts. `WallClockEndsStream` is checked under
`DriverFair`, which says nothing of the child: the claim it states is that the
driver's wall clock ends the stream whatever the child does.

The other components make no promise of progress beyond "each command returns",
which they inherit from the timeouts of their calls; no liveness is claimed for them.

## 5. Proofs

All theorems are checked by tlapm to the last leaf. They hold under the ASSUMEs of the
modules, each of which TLC evaluates in a run:

| assumption | says | why it is justified |
|---|---|---|
| `SweepAll`, `OpcodeSweep`, `CoverageReplay`, `RegressionGate`, `CsrTable`, `CsrSweep`, `TestPlan` | requests, mnemonics, registers and versions are lists; counts are naturals, totals positive; the corpus is finite, an ELF has a width, no view is empty; a conforming hart and the empty filter are among the choices | the types of the program's inputs |
| `VerdictsAssumption` | the words of a verdict line are finitely many | they are the literals of `opcode_sweep.py` |
| `CorporaAssumption` | a corpus is a list of cases with distinct names | names become file names; a repeated name would overwrite an ELF. TLC checks it of the derived lists |
| `ConventionAssumption`, `Rv32OnlyAssumption` | the model names no register at a read-only address beside the ranges and names `from_model` knows, and none of those at a writable one; what RV64 lacks besides the high halves is neither curated nor read-only | external: the CSR numbering. It is what makes the rule of `csr_sweep.py` right, and where a new register would make it wrong |
| `SourcesAssumption` | spans are finitely many, lie in definitions and outside the library; what `derive_span_exclusions.py` finds is what only prints or decodes | the truth of the exclusions is thus assumed of `PlansTellTheTruth` and checked by TLC of each model of the run |
| `MachinesAssumption` | RAM is at the page the cases' tables map, in whole pages; the grain is at most 10; PMP addresses fit the word and the registers; the interrupts of the priority chain are distinct, and one that is not writable cannot be delegated | what the derivations take for granted. The last is a condition the code does not ask for: `InterruptDelegation` would pend a bit that no write can set |
| `DeviationsAssumption` | the deviations of the harts are among those that the cases aim at (`Aimed`), with an interrupt that may be delegated and two neighbours of the priority chain that can be written where they need them | a list of cases can only show what it has a case for. TLC runs with all of `Aimed` |
| `StructureAssumption` | a line is in one definition, in the blocks and matches that the depth of the braces puts around it (`Blocks`, `Matches`, `WellLaid`), and under the arm that was the last to start there; an arm for an instruction is a match on an operand with an entry in the table of mnemonics; no function is called like a constructor; the instructions of a clause that calls something are those its arms name | how the Sail sources are laid out, in terms of the text and not of the stacks the code keeps. TLC evaluates it of every model of the run |
| `InstancesAssumption` | a mnemonic stands for instructions of at most eight operands, of the kinds of `_build_variants`, one in memory at most; only those of scalar registers take no rounding mode; a stack pointer moves by a field of more than four bits; a strided access names its base, then its stride; a vector instruction has up to three vector operands and is defined under the vtype that `render_asm` goes by its name to choose; 2^(n+1) = 2 * 2^n up to 2^30 | what the clauses of the Sail model are. That the vtype fits is external (it ties the spelling of a mnemonic to the element widths of the instruction) and TLC evaluates it of every clause of `opcode`: a name that the code reads wrongly makes the assumption false |
| `PowersAssumption` | 2^(n+1) = 2 * 2^n, up to the width of a register | plain arithmetic; the provers know no law for a symbolic exponent |

Each proof has the same shape: `Init => IInv`, one lemma per action (or group of
alike actions) for `IInv /\ [Next]_vars => IInv'`, then the properties from `IInv`. A
property that needs more than `IInv` has an invariant of its own, proved on top of it.

**`SweepAllProofs`**, for any labels, requests and counts. `ReportMatchesFiles` is not
inductive: it speaks of the end, and one must know that what was counted earlier
is still stored. `IInv` says so for every target behind the loop (`TotalsAreStored`),
with the one exception of a target being written a second time because the
arguments repeat it; the rest ties program points to positions and to empty
memory. From it: `TypeCorrect`, `SummaryIsTrue`, `FinishedWorkIsKept` (an action
property: a target that is swept while resuming had no file, `OnlyAbsentSwept`),
`FinishedIsWhole` and `DriverImplementsBatch`: each step of the driver is a step of `ResumableBatch` or
leaves it unchanged, where a file that is open counts as not stored. `FinishedIsWhole`
is about a sum over the verdict words, so it needs `CountInv`: the lines printed and the
instructions left make up the target, until there is nothing left. The sum is a fold of
the community modules; `FoldIsSum` shows it to be the number of lines, by the least
counterexample, since the induction theorems of the library cannot be used here.

**`CoverageProofs`**, for any ELFs, spans and views. The heart is `NothingLost`: what is
in the file together with what was collected from it is exactly what the clean
runs reached; the others say whose spans the file holds in per-ELF mode and that
no ELF runs before its turn or twice. From it: `TypeCorrect`, `TotalIsTrue`,
`CreditIsAbsolute`, `RedundantIsDroppable`, and two that have no run of their own:
`OneRunInTrace` (the file never mixes two runs) and `CountedOnce` (each ELF is one
success or one failure; cardinalities). `RedundantIsDroppable` rests on a lemma about
`Redundant`: the first ELF of the ranking that reaches a span is never redundant, so
each span survives; the ranking's order is not needed, only that it has no repetition.

**`RegressionProofs`**, for any instructions, names, scopes and counts, and any number
of edits. `LossIsBounded` is about branches but the program compares printed
percentages, so `IInv` carries the ratchet on percentages (`PctRatchets`) and `PctGap`
turns it into branches: counts whose percentages print alike, or in the wrong
order, differ by less than a thousandth of the total. `SureIsClean` says that a clean
check stays clean until something changes. What a test file says is tied to the sweep
that left it by `FilesAreAuthors`: a file that asserts something and is the test of a
PASS that stands is one whose test asserted. From these: `TypeCorrect`,
`NothingIsLost`, `SmallLossesDoNotAddUp`, `CleanIsVerified`.

**`OpcodeSweepProofs`**, for any mnemonics, whatever they encode for, and any machines.
`SummaryAgrees` compares a list in memory with lines on the terminal at the end; its
strengthening `LinesAgree` relates them after each mnemonic. `JudgedFresh` needs that what
is past generation belongs to this run (`JudgesOwn`, `FreshIsOurs`);
`IndexDescribesCorpus` that an index stands until a listed test is rebuilt
(`IndexStands`, `ListedAreBuilt`); `OneBadRunIsNoVerdict` the shape of the list of attempts
(`AttemptsAreFew`). `SweepIsAChild` is the refinement: the steps that print a line take
one instruction off `left`, those that print none stutter.

`OperandsLegal` and `AccessesInRegion` are about what a sweep gives to isla-testgen. `Rendered`
is the invariant of `render_asm`, kept from operand to operand (one lemma per kind,
`RegisterRendered` to `MemRendered`): what is rendered fits its kind; the vector operands
have the numbers of their places; and the instructions before the one under test,
executed, leave the region's address in the base and the stride in its register
(`PointersAreSet`). That an operand set up later does not destroy one set up before is
where the counters matter (`PointersGrow`): a strided access takes all its registers
from one counter, and there is one operand in memory. `SafeAddressLoads` executes
`lui`, `slli` and `srli` at both XLENs. `ReachFits` measures the access by shape: unit stride,
a stride of 8, or the largest index its vector can hold, which decides both directions
(`AccessesStayHere`, `IndicesLeave`). `VectorsAreLegal` is the arithmetic of groups: a group of
one, two, four or eight registers that starts at 8, 16 or 24 is aligned, ends below the
next and leaves v0 alone, as long as its fields take no more than eight. The recursive
functions of `OpcodeRender` are unfolded once each by the least counterexample
(`RenderingStepwise`, `KeepingStepwise`, `ExecutingStepwise`, `PrintingStepwise`,
`KindsFromStepwise`).

`LayoutsRecovered` is what TLC checks for short layouts; it follows from two theorems
about layouts of any length, with any literals and widths. `LayoutsReadBack`: from the last kind to
the first, what is read from where a kind starts is that kind and the ones behind it
(`KindsRead`, `LayoutsAreRead`; `PrintingGrows` says where each is printed). It needs that no
immediate stands in front of a bare base (`Plain`), since that text is the one of an
offset. `ClausesAreWhatTheyPrint`: from the last fragment to the first, what is read there
prints back what is there, unless something is stray, and then the clause is skipped
(`PiecesReadBack`, `ClausesPrintBack`). Here the order of the tests in `_build_variants`
counts: an offset is looked for before a bare base, a base before a single fragment.

**`CsrProofs`**, for any model, filters, harts and bounds. `RowsAreEarned` speaks of the
report; since rows come from the cache, the same must hold of the cache and of the
output not yet saved (`CacheIsEarned`, `OutIsEarned`). `InterruptionCostsOne` needs
`LossIsCounted`: what was finished and is not stored is no more than the faults, plus,
before a save, the result at hand. `CacheIsKept` is an action property (it has no run
of its own) and rests on `AskedToRun`: a child only runs where nothing is cached or
resuming was declined.

`RowsAreTrue` says that a row passes exactly if its register is testable by a static value
and the hart is right about it. A
verdict is of the row at hand and the hart that answered, so `TruthInv` keeps what a
child hands over tied to both (`OutIsAnswer`) and the run at rows it visits
(`AtVisited`); the rest is about the tables: `CuratedAreRight` of the 37 rows written by
hand, `RowsExpect` of those derived from any model that follows the convention.

**`CaseProofs`**, for any configurations and lists of cases. `AddressesArrive` is the
arithmetic of the runners: the `lui`/`slli`/`srli`/`addi` sequence leaves the address in
x2, for each address up to `WordSize` - 2049; above it the carry leaves the word.
`PassesAreGenerated` needs that a case is tallied at most once and only behind the
position of the run (`TallyIsBehind`), so that a failed case cannot come up again; it is
there that the names must be distinct. `ControlsAreKept` (an action property) needs
`IndexInv`: while a complete run has had no fault, each scenario behind it has a
manifest, so that the control of a listed group has one when the index is written.

**`VerdictProofs`**, for any configurations whose machines are as `MachinesAssumption`
says. `NoFalseAlarms` joins two arguments. One is about the runner: a verdict is of an ELF,
which may be of an earlier configuration, so `VerdictInv` says that an ELF of this run
is of the file at hand (`FreshIsOfFile`). The other is about the contents: each derived
case ends on a conforming hart as it expects, with the extensions of Sail's configuration
and with those Spike is given (`SpikeHas`). It is proved per list of cases:

* `TrapsEnd`: the priority chain decides between two pending interrupts, delegation by
  the privilege below (`PairsEnd`, `DelegatedEnd`, `ExceptionsEnd`);
* `VmemEnd`: the walk of the encoded table reaches the leaf of the case, which grants or
  faults (`DataWalk`, `DeepWalk`, `LeafLands`, `LeafFault`), and the code is fetched;
* `AllPinned`: the scenarios, their controls ending otherwise than pinned;
* `PmpEnd`: the registers a case writes are decoded into ranges of addresses
  (`OnesAre` and `NapotRanges` for the trailing ones of NAPOT, `ByteRead` for the
  configuration byte), the first entry touched decides (`FirstDecides`), and the access
  of each position lies where its name says (`PlacesAround`).

`PmpEnd` also gives `PositionsAreTrue`: the address built is the one meant and the
position claimed is the one tested. The exception is that of section 7, NA4's "inside".

At RV32 the scenarios of `FalseAlarms` end in a trap on a conforming hart; `VerdictInv` says
of them that no ELF of this run passes, and of all others that none is bad.

`DefectsAreReported` is the converse. `SeenInv` follows the run: what is behind the position
of a complete run is settled - skipped by the code, passed on the harts as they are, or
reported - since a hart that deviates gets a run without faults and its ELFs are of the
file at hand. It remains to name, for each program and each deviation in `Aimed`, a case of
the derived list that ends otherwise on that hart and conformingly where nothing deviates
(`TrapsSeen`, `SumSeen` to `WalksSeen`, `ScenariosSeen`, `LocksSeen`, `PartsSeen`,
`StoresSeen`), whatever the machine. Among others it showed that `lowest_first` needs two
neighbours of the priority chain that can be pended, and `mideleg_ignored` an interrupt
that may be delegated, which are now clauses of the assumption.

**`PlanProofs`**, for any versions and command lines. `RefusalsKeep` needs that the leaves
stay those the run found until its reading is over (`NotYetWritten`).
`PlansTellTheTruth` and `GateStops` rest on `PlanInv`: file times decide whether inputs are
fresh, so it must be known what an equal time implies - a source not newer than the
build is the one built (`UnchangedFiles`, `BuildIsEdited`), a log is of the build it is
younger than (`LogIsOfBuild`) - and that a run past its reading has read what is on disk
(`FromDisk`). How rows become items is `ItemsCount`; that the schedule is cut late enough - what is
left out has `ScheduleLength` items before it, none better covered - is a cardinality
(`LeftOut`); rows themselves are taken there as
the index gives them, whatever it is. Two theorems are about the index.

`HelpersFindInstructions` compares the breadth-first search of `reaching_instructions`, which
stops at execute clauses, at `Depth` and once `Limit` names are found, with the set of
instructions that call the helper through at most `Depth` calls. That set is taken from the
lines of the text (`AppliesBelow`, `Applies`), not from the graph of the code, which leaves out
names that are not known and calls of oneself; those turn out not to matter. `WidenSearchInv` is the
invariant of the search: while it goes on, what it has seen is exactly what calls within
the levels so far, and what it has not expanded yet is the part of that seen last, execute
clauses apart; when it ends early, either nobody else calls or the names found are no
fewer than the limit. So what is named is right (`ReachedWell`) and complete below the limit.

`RowsNameTheirPlace` compares the two stacks of `_index_conditions` and `_index_arms` with the
braces of the text. `ScopesNest` is the reason both work: a scope opens at a depth no less
than that of the line it is read at, so depths on the stack never fall from the bottom
up, and popping from the end takes exactly the scopes that were left (`PoppedThose`).
`ChainsAreConditions` and `EnteredIs` carry that over all lines: the stack is the list of
blocks around the line, or of matches, each with the last arm to start in it. It is also
where the `}` at the head of a line counts: without applying it first the stack would
hold a block too many (`ChainsByLine`, the mutant).

## 6. Only model-checked

* Liveness (`EveryRunEnds`), which this prover does not do.
* The violated claims of section 7.

## 7. Where the program and its documentation disagree

1. A result file is said to be written "only after the target completes"
   (`sweep_all.py:149`). It is written whenever the output ends, also when the child
   died, and it exists from `open` on: an incomplete target is then resumed as done.
2. The wall clock of a target (`sweep_all.py:89-92`) is applied after its output has
   closed, so it never ends a child that hangs.
3. `tests.json` is the index "of what was generated" (`test_config.py:102`); the sweep
   at the other XLEN replaces it and tests only the first one built drop out.
4. "Replay once, report many times" (`README.md:508`): a per-ELF replay leaves no
   trace, and the command at `README.md:515` is refused.
5. "An isla PASS is only counted as verified if the generated test asserts
   something" (`coverage_matrix.py:24`). The best verdict over both XLENs is joined with
   the one test file that both write (`coverage_matrix.py:83-88`): a vacuous PASS of one
   sweep is verified by the test that a failing sweep of the other left there. Nor is
   the claim kept for a mnemonic with a dot, which is looked up under the name of its
   file (line 98). `CleanMeansVerified` therefore asks for a PASS whose own test asserted
   something, and leaves out the instructions whose file is the test of another verdict
   (`Joined`) or has another name.

The runs of these five exhibit the disagreement as a counterexample. In five more
places a passing property does: it states exactly where the program does otherwise
than it says, so that it would fail if the program kept its word.

6. Leaving out only the jump "fails the safe way -- a newly-parsed extension gets the
   safe address by default" (`model_opcodes.py:80`). The base is pinned and the stride;
   the index vector of an indexed access is not, and may reach out of the region unless
   its elements are narrow (`findings.md` C4 has indexed addressing among what fails).
   `AccessesStayInRegion`: an access stays in the region exactly if it is not one of
   these (`LeftToSolver`).
7. "read/write CSRs -- the access should simply succeed" (`csr_sweep.py:18`). Registers
   that move by themselves fail all six tests on correct simulators, those that legalise
   what is written fail some (`findings.md` C1, C2), and `--from-model` sweeps odd
   `pmpcfg` registers at RV64, where there are none, without expecting a trap.
   `RowsTellTheTruth`: a row passes exactly if its register is `Testable` and the hart right.
8. "expect is True if the generated ELF must pass on both simulators"
   (`scenario_tests.py:52`). `LOAD_MAPPED` (line 42) shifts by 32, which RV32 does not have,
   and is run there: `m2_load_permitted`, `m2_load_denied` and `m3_supervisor_bare` are reported
   at RV32 whatever the hart (`documentation/METHODOLOGY.md:372`: "3 are real RV32
   regressions"). `NoFalseAlarm`: these are the only ones (`FalseAlarms`), and they never
   pass; `DefectsAreSeen` does not count them as having found a defect.
9. "The 40 largest items with work outstanding" (`testplan.py:985`). They are the 40 worst
   covered: the cut at line 990 comes after a sort in which size decides only between
   equal percentages, so larger items with more to do are left out. `PlanTellsTheTruth`:
   what is left out gives way to as many that are covered no better.
10. The call graph "will over-approximate ... rather than miss a caller"
    (`testplan.py:329-332`). The first line of each definition is not searched (line 343,
    a one-based line used as an index), so what reaches a helper by a function of one
    line is not named. `HelpersAreReached`: a helper is planned through instructions
    exactly if calls below first lines lead to it, and those that do are named.

Limits that are no disagreement, but that a reader of the numbers should know. The
properties of section 3 are stated so that they hold beside these:

* Model parser: an immediate directly followed by `(reg)` is read as its offset also
  across a separator (no clause has that). A compressed branch is followed by a `nop`
  and its label, and so is not the last instruction given to isla-testgen, where
  `model_opcodes.py:688` wants compressed instructions to be; `c.jal` is one that writes
  a register.
* Gate: a failure at one XLEN is invisible while the other passes (the best verdict
  counts); a scope whose coverage cannot be measured is reported as a regression, like
  one at 0 percent.
* CSR sweep: the output of a child that timed out, and an empty file left by a kill,
  are resumed as rows without a pass until `--no-resume`. A cached row is reused
  whatever the model or the flags are now. Rows from `--from-model` carry an ISA suffix
  for Spike only where the rule knows one; others pass on Sail alone, like `pmpaddr0`,
  whose reset value differs (`findings.md` A2).
* PMP cases: "inside" is one access past the start of the region, which for NA4 is its
  end. With a grain of one or more a TOR bound loses bits the case counts on. The
  pattern that reads the access kinds stops at a nested parenthesis and leaves such
  an arm out.
* Translation and trap cases: those for Sv39 and Svadu are emitted whatever the
  configuration has; a delegated interrupt is not checked for being writable (the last
  clause of `MachinesAssumption`).
* Runners: an ELF left by an earlier run is judged when the generator ends with
  status zero and wrote nothing (the trap runner looks only whether there is one);
  the status is zero with mismatches too. The scenario runner does so whatever the
  status is, and a simulator's timeout ends it before an index is written. `--only` rewrites the index of a scenario
  group with the one test, and its controls leave it.
* Plan: `--exclude-spans` does not look at the age of the exclusions; an item that
  already had something to do may grow without failing the gate; a baseline that is
  the run's own output is accepted, so a gate that failed passes when it is run again;
  a scope file of which only `-` lines are left restricts nothing; a deleted source
  file leaves no time behind and is not noticed as a change.

## 8. Not modelled

* Loss of data the operating system had accepted (no program syncs its files);
  a crash loses what was not closed.
* A driver killed alone, whose child goes on printing into a closed pipe: its files
  are those of a killed child.
* A failing isla-testgen is assumed to leave no new ELF; a decoding error of a
  child's output ends the driver like a crash.
* Two replays at the same time, which `comparison/README.md` rules out.
* String processing: the regular expressions that read Sail text (clauses, guards and
  string tables in `model_opcodes.py`, the parsers of the case programs and of the index), HTML and Markdown, document
  conversion, the recognition of patterns in logs and tests. What they find is data
  of the models: encodings, access kinds, priorities, the fields of a line.
* Reports that keep nothing and that nothing reads: `status_report.py`,
  `sweep_status.py`, `coverage_analysis.py`, `testplan_html.py`, `validate_ownership`,
  the completeness report of the case programs (`--check`).
* `model_config.py`, `paths.py`, `verify_clone.py`: choices and checks made once at the
  start from files that no program here writes.
* `run.sh`, `generate_suite.sh`: they call the programs above one after the other. Each
  model lets its commands come in any order, this one included.
* The inventory and document tools under `tools/`, used once to extract or convert text.

`PROJECT.json` gives each component's status and reason.

## 9. Plan

Modelled are the programs that keep state or derive expectations. What is left, in
order of worth:

1. A pipeline module that composes the replay, the exclusions and the plan with one
   corpus, with the abstract specification that every number of a report is of one
   corpus; a failed step of `run.sh` is passed over there.
2. The matching of IR and configuration (`model_config.py`) as a guard of generation.
