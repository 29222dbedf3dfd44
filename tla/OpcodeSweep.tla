----------------------------- MODULE OpcodeSweep -----------------------------
(***************************************************************************)
(* python-isla/opcode_sweep.py: one run sweeps the instructions of one     *)
(* extension at one XLEN.  Each instruction is skipped, or assembled, has  *)
(* a test generated by isla-testgen, is annotated (test_config.py), is run *)
(* on the simulators and gets one verdict line; the run ends with a        *)
(* summary and with tests.json, the index of the directory.                *)
(*                                                                         *)
(* The directory <out-dir>/<extension> outlives the run and is the same at *)
(* both XLENs: <mnemonic>.s, <mnemonic>.elf and tests.json carry no XLEN   *)
(* in their names, so a run at one width works on top of what a run at     *)
(* the other, or a run that died, has left.                                *)
(***************************************************************************)
EXTENDS Integers, Sequences, FiniteSets

CONSTANTS
    Order,     \* the mnemonics parsed from the model, sorted
    Guard,     \* Guard[m]: the XLEN the model's own guard demands, 0 for none
    Encodes,   \* Encodes[m]: the XLENs the assembler accepts m for
    Unknown,   \* mnemonics the assembler answers "unrecognized opcode" for
    Setups     \* the machine and flags of a run: [spike, qemu, fixed]

VARIABLES
    pc, xlen, setup,
    pos,       \* index in Order; 0 before the first run
    gen,       \* gen_ok of the current instruction
    attempts,  \* outcomes of each simulator on the current test, in order
    printed,   \* verdict words printed by this run
    results,   \* the list the summary is computed from
    listed,    \* Manifest.tests
    summary,   \* <<>>, or the "passed/total" that was printed
    asm,       \* <mnemonic>.s: XLEN of its code, XLEN its header claims
    elf,       \* <mnemonic>.elf: XLEN of its code, 0 when there is none
    index,     \* tests.json
    fresh,     \* history: tests whose ELF this run wrote
    torn       \* history: a run died, and none has written an index since

runVars == <<xlen, setup, gen, attempts, printed, results, listed, summary, pos>>
diskVars == <<asm, elf, index>>
ghosts == <<fresh, torn>>
vars == <<pc, xlen, setup, pos, gen, attempts, printed, results, listed, summary,
          asm, elf, index, fresh, torn>>

Xlens == {32, 64}
Mnemonics == {Order[i] : i \in 1 .. Len(Order)}

ASSUME SweepAssumption ==
    /\ Order \in Seq(STRING)
    /\ Setups \subseteq [spike : BOOLEAN, qemu : BOOLEAN, fixed : BOOLEAN]

Words == {"PASS", "FAIL", "SKIP", "NOENC"}
Sims == {"sail", "spike", "qemu"}
Other(x) == IF x = 32 THEN 64 ELSE 32
Current == Order[pos]

NoAttempts == [s \in Sims |-> <<>>]
NoTest == [body |-> 0, header |-> 0]
NoIndex == [xlen |-> 0, tests |-> {}]

(* The verdict of a simulator is its last outcome: pass (True), fail       *)
(* (False) or na (None: not installed, or not run in this mode).           *)
Verdict(s) == attempts[s][Len(attempts[s])]

Init ==
    /\ pc = "idle"
    /\ xlen = 32
    /\ setup \in Setups
    /\ pos = 0
    /\ gen = FALSE
    /\ attempts = NoAttempts
    /\ printed = <<>>
    /\ results = <<>>
    /\ listed = {}
    /\ summary = <<>>
    /\ asm = [m \in Mnemonics |-> NoTest]
    /\ elf = [m \in Mnemonics |-> 0]
    /\ index = NoIndex
    /\ fresh = {}
    /\ torn = FALSE

Begin(x, how) ==
    /\ pc = "idle"
    /\ pc' = "insn"
    /\ xlen' = x
    /\ setup' = how
    /\ pos' = 1
    /\ gen' = FALSE
    /\ attempts' = NoAttempts
    /\ printed' = <<>>
    /\ results' = <<>>
    /\ listed' = {}
    /\ summary' = <<>>
    /\ fresh' = {}
    /\ UNCHANGED <<diskVars, torn>>

AtInsn == pc = "insn" /\ pos <= Len(Order)
Applicable == Guard[Current] \in {0, xlen}
Assembles == xlen \in Encodes[Current]

(* Print the one verdict line of the current instruction and go on.        *)
PrintLine(word) ==
    /\ printed' = Append(printed, word)
    /\ pos' = pos + 1
    /\ pc' = "insn"
    /\ gen' = FALSE
    /\ attempts' = NoAttempts

(* Mutant of SkipWrongXlen: no `continue` after the line is printed.       *)
SkipFallsThrough ==
    /\ AtInsn
    /\ ~Applicable
    /\ printed' = Append(printed, "SKIP")
    /\ UNCHANGED <<pc, xlen, setup, pos, gen, attempts, results, listed, summary,
                   diskVars, ghosts>>

SkipWrongXlen ==
    /\ AtInsn
    /\ \/ ~Applicable
       \/ Applicable /\ ~Assembles /\ Other(xlen) \in Encodes[Current]
    /\ PrintLine("SKIP")
    /\ UNCHANGED <<xlen, setup, results, listed, summary, diskVars, ghosts>>

(* No such mnemonic at either width: an artefact of the mnemonic tables.   *)
NoEncoding ==
    /\ AtInsn
    /\ Applicable
    /\ Encodes[Current] = {}
    /\ Current \in Unknown
    /\ PrintLine("NOENC")
    /\ UNCHANGED <<xlen, setup, results, listed, summary, diskVars, ghosts>>

(* results.append((name, None, False, {}, ...)): no simulator has an entry, *)
(* so none of them counts as failed.                                       *)
AssembleFails ==
    /\ AtInsn
    /\ Applicable
    /\ Encodes[Current] = {}
    /\ Current \notin Unknown
    /\ results' = Append(results, [gen |-> FALSE, clean |-> TRUE])
    /\ PrintLine("FAIL")
    /\ UNCHANGED <<xlen, setup, listed, summary, diskVars, ghosts>>

(* Mutant of Generate: a header already in the file survives regeneration. *)
GenerateKeepsHeader ==
    /\ AtInsn
    /\ Applicable
    /\ Assembles
    /\ gen' = TRUE
    /\ asm' = [asm EXCEPT ![Current].body = xlen]
    /\ elf' = [elf EXCEPT ![Current] = xlen]
    /\ fresh' = fresh \cup {Current}
    /\ pc' = "annotate"
    /\ UNCHANGED <<xlen, setup, attempts, printed, results, listed, summary,
                   pos, index, torn>>

(* isla-testgen (external) writes the assembly, then links the ELF.        *)
Generate ==
    /\ AtInsn
    /\ Applicable
    /\ Assembles
    /\ gen' = TRUE
    /\ asm' = [asm EXCEPT ![Current] = [body |-> xlen, header |-> 0]]
    /\ elf' = [elf EXCEPT ![Current] = xlen]
    /\ fresh' = fresh \cup {Current}
    /\ pc' = "annotate"
    /\ UNCHANGED <<xlen, setup, attempts, printed, results, listed, summary,
                   pos, index, torn>>

(* Mutants of GenerateFails: gen_ok is not looked at before the simulators *)
(* run; and the manifest entry is added whether or not the test was built. *)
GenerateFailureIgnored ==
    /\ AtInsn
    /\ Applicable
    /\ Assembles
    /\ pc' = "sail"
    /\ UNCHANGED <<runVars, diskVars, ghosts>>

GenerateFailureListed ==
    /\ AtInsn
    /\ Applicable
    /\ Assembles
    /\ listed' = listed \cup {Current}
    /\ attempts' = [s \in Sims |-> <<"fail">>]
    /\ pc' = "verdict"
    /\ UNCHANGED <<xlen, setup, gen, printed, results, summary, pos, diskVars,
                   ghosts>>

(* No execution found, an error, or the generation timeout: nothing or     *)
(* only the assembly has been written.  Every simulator is marked failed.  *)
GenerateFails ==
    /\ AtInsn
    /\ Applicable
    /\ Assembles
    /\ asm' \in {asm, [asm EXCEPT ![Current] = [body |-> xlen, header |-> 0]]}
    /\ attempts' = [s \in Sims |-> <<"fail">>]
    /\ pc' = "verdict"
    /\ UNCHANGED <<xlen, setup, gen, printed, results, listed, summary, pos,
                   elf, index, ghosts>>

(* annotate() leaves a test that already has a header alone.               *)
Annotate ==
    /\ pc = "annotate"
    /\ asm' = [asm EXCEPT ![Current].header = IF @ = 0 THEN xlen ELSE @]
    /\ listed' = listed \cup {Current}
    /\ pc' = "sail"
    /\ UNCHANGED <<xlen, setup, gen, attempts, printed, results, summary, pos,
                   elf, index, ghosts>>

(* What one run of a simulator can answer.  run_sail_sim, run_spike and    *)
(* run_qemu all refuse a test that has no ELF.                             *)
Available(s) ==
    CASE s = "sail"  -> TRUE
      [] s = "spike" -> setup.spike
      [] s = "qemu"  -> setup.qemu /\ setup.fixed

Answers(s) ==
    IF ~Available(s) THEN {"na"}
    ELSE IF elf[Current] = 0 THEN {"fail"}
    ELSE {"pass", "fail"}

(* Mutants of Retries: the first answer is the verdict; and a failure is   *)
(* retried until it goes away.                                             *)
RetriesNever(s, answer) == FALSE
RetriesForever(s, answer) == answer = "fail"

(* _retry: a first failure is not the verdict, the second answer is.       *)
Retries(s, answer) == answer = "fail" /\ attempts[s] = <<>>

Simulate(s, next) ==
    /\ pc = s
    /\ \E answer \in Answers(s) :
          /\ attempts' = [attempts EXCEPT ![s] = Append(@, answer)]
          /\ pc' = IF s # "qemu" /\ Retries(s, answer) THEN s ELSE next
    /\ UNCHANGED <<xlen, setup, gen, printed, results, listed, summary, pos,
                   diskVars, ghosts>>

RunSail == Simulate("sail", "spike")
RunSpike == Simulate("spike", "qemu")
RunQemu == Simulate("qemu", "verdict")

Clean == \A s \in Sims : Verdict(s) # "fail"

PrintVerdict ==
    /\ pc = "verdict"
    /\ results' = Append(results, [gen |-> gen, clean |-> Clean])
    /\ PrintLine(IF gen /\ Clean THEN "PASS" ELSE "FAIL")
    /\ UNCHANGED <<xlen, setup, listed, summary, diskVars, ghosts>>

(* Mutant of PrintSummary: only the simulators are asked, so a row without *)
(* any entry counts as passed.                                             *)
SummaryCountsClean ==
    /\ pc = "insn"
    /\ pos > Len(Order)
    /\ summary' = [passed |-> Cardinality({i \in DOMAIN results : results[i].clean}),
                   total |-> Len(results)]
    /\ pc' = "manifest"
    /\ UNCHANGED <<xlen, setup, gen, attempts, printed, results, listed, pos,
                   diskVars, ghosts>>

(* The summary counts `results`, not the lines that were printed.          *)
PrintSummary ==
    /\ pc = "insn"
    /\ pos > Len(Order)
    /\ summary' = [passed |-> Cardinality({i \in DOMAIN results :
                                             results[i].gen /\ results[i].clean}),
                   total |-> Len(results)]
    /\ pc' = "manifest"
    /\ UNCHANGED <<xlen, setup, gen, attempts, printed, results, listed, pos,
                   diskVars, ghosts>>

(* Manifest.write: no tests, no file; otherwise the old index is replaced. *)
WriteIndex ==
    /\ pc = "manifest"
    /\ pc' = "exited"
    /\ index' = IF listed = {} THEN index ELSE [xlen |-> xlen, tests |-> listed]
    /\ torn' = (torn /\ listed = {})
    /\ UNCHANGED <<runVars, asm, elf, fresh>>

(* Killed, out of memory, an exception: what was being rewritten is lost.  *)
Die ==
    /\ pc \notin {"idle", "exited"}
    /\ pc' = "exited"
    /\ torn' = TRUE
    /\ asm' \in {asm} \cup
          (IF pc = "annotate" THEN {[asm EXCEPT ![Current] = NoTest]} ELSE {})
    /\ index' \in {index} \cup
          (IF pc = "manifest" /\ listed # {} THEN {NoIndex} ELSE {})
    /\ UNCHANGED <<runVars, elf, fresh>>

Reaped ==
    /\ pc = "exited"
    /\ pc' = "idle"
    /\ UNCHANGED <<runVars, diskVars, ghosts>>

Step ==
    \/ SkipWrongXlen
    \/ NoEncoding
    \/ AssembleFails
    \/ Generate
    \/ GenerateFails
    \/ Annotate
    \/ RunSail
    \/ RunSpike
    \/ RunQemu
    \/ PrintVerdict
    \/ PrintSummary
    \/ WriteIndex

Next ==
    \/ \E x \in Xlens, how \in Setups : Begin(x, how)
    \/ Step
    \/ Die
    \/ Reaped

Spec == Init /\ [][Next]_vars
=============================================================================
