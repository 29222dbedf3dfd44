-------------------------- MODULE OpcodeSweepProps --------------------------
(***************************************************************************)
(* What one sweep of an extension guarantees about its verdicts and about  *)
(* the directory it leaves, stated over module OpcodeSweep.                *)
(***************************************************************************)
EXTENDS OpcodeSweep

TypeOK ==
    /\ pc \in {"idle", "insn", "annotate", "sail", "spike", "qemu", "verdict",
               "manifest", "exited"}
    /\ xlen \in Xlens
    /\ setup \in Setups
    /\ pos \in 0 .. Len(Order) + 1
    /\ gen \in BOOLEAN
    /\ attempts \in [Sims -> {<<>>} \cup [1 .. 1 -> {"pass", "fail", "na"}]
                                   \cup [1 .. 2 -> {"pass", "fail", "na"}]]
    /\ printed \in Seq(Words)
    /\ results \in Seq([gen : BOOLEAN, clean : BOOLEAN])
    /\ listed \subseteq Mnemonics
    /\ asm \in [Mnemonics -> [body : {0, 32, 64}, header : {0, 32, 64}]]
    /\ elf \in [Mnemonics -> {0, 32, 64}]
    /\ index \in [xlen : {0, 32, 64}, tests : SUBSET Mnemonics]
    /\ fresh \subseteq Mnemonics
    /\ torn \in BOOLEAN

(* No simulator ever judges a leftover: the directory may hold an ELF of   *)
(* the same mnemonic from the other XLEN or from an earlier run, but what  *)
(* runs is what this run has just generated.                               *)
JudgedFresh ==
    pc \in Sims => Current \in fresh /\ elf[Current] = xlen

(* "A loaded machine makes a perfectly good test fail": one bad run of     *)
(* Sail or of Spike never makes a generated test FAIL, and a test that     *)
(* passes has no simulator whose last answer was a failure.                *)
OneBadRunIsNoVerdict ==
    pc = "verdict" /\ gen =>
        \A s \in {"sail", "spike"} :
            (Verdict(s) = "fail") <=> (attempts[s] = <<"fail", "fail">>)

(* The summary is computed from a list of its own, with rows that have no  *)
(* simulator entries in it; it still agrees with the lines that were       *)
(* printed, which are what sweep_all.py and csr_sweep.py count.            *)
SummaryAgrees ==
    summary # <<>> =>
        LET lines(word) == Cardinality({i \in DOMAIN printed : printed[i] = word})
        IN  /\ summary.passed = lines("PASS")
            /\ summary.total = lines("PASS") + lines("FAIL")
            /\ Len(printed) = Len(Order)

(* tests.json never makes a runner select a test it cannot run: while no   *)
(* run has died since it was written, each test it lists has an ELF of the *)
(* XLEN it names, whatever runs at either XLEN came before and after.      *)
IndexDescribesCorpus ==
    pc = "idle" /\ ~torn =>
        \A m \in index.tests : elf[m] = index.xlen

(* The header of a test never names another configuration than the one its *)
(* code was generated for, across re-runs, other XLENs and deaths.         *)
HeaderIsTrue ==
    \A m \in Mnemonics : asm[m].header \in {0, asm[m].body}

(* One sweep is a SweepChild: exactly one verdict line per instruction,    *)
(* then the summary, and nothing after its output closed.                  *)
Child == INSTANCE SweepChild WITH
    Verdicts <- Words,
    child <- CASE pc = "idle" -> "none"
               [] pc = "exited" -> "exiting"
               [] OTHER -> "running",
    left <- IF pos = 0 THEN 0 ELSE Len(Order) + 1 - pos,
    out <- [lines |-> [w \in Words |->
                          Cardinality({i \in DOMAIN printed : printed[i] = w})],
            end |-> IF summary = <<>> THEN "cut" ELSE "summary"]

ImplementsChild == Child!ChildSpec

(***************************************************************************)
(* A claim of the source that the program does not keep.                   *)
(***************************************************************************)

(* test_config.py:102: tests.json is the "per-directory index of what was  *)
(* generated and what each test needs": as long as no run dies, every ELF  *)
(* in the directory is in it.                                              *)
IndexIsComplete ==
    pc = "idle" /\ ~torn => \A m \in Mnemonics : elf[m] # 0 => m \in index.tests
=============================================================================
