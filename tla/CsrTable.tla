------------------------------- MODULE CsrTable -------------------------------
(***************************************************************************)
(* python-isla/csr_sweep.py, the data: which CSRs a sweep visits, and what *)
(* it expects of a write to each (all six Zicsr forms it renders write).   *)
(***************************************************************************)
EXTENDS Integers, Sequences, FiniteSets

CONSTANTS
    ModelCsrs,       \* csr_name_map of the model: <<address, name>>, by address
    CounterBank,     \* names that _COUNTER_BANK matches
    HighHalf,        \* names ending in h -> the rest of the name
    CounterSamples   \* --counter-samples

ASSUME ModelCsrsAssumption ==
    ModelCsrs \in Seq(Nat \X STRING) /\ CounterSamples \in Nat

ModelNames == {ModelCsrs[i][2] : i \in DOMAIN ModelCsrs}

READ_ONLY_CSRS == {"mvendorid", "marchid", "mimpid", "mhartid", "mconfigptr"}
FP_CSRS == {"fcsr", "fflags", "frm"}
VECTOR_CSRS == {"vcsr", "vstart", "vxrm", "vxsat", "vl", "vtype", "vlenb"}
HARNESS_HAZARD == {"mtvec", "stvec", "misa"}
SELF_UPDATING == {"mcycle", "minstret", "cycle", "instret", "time", "hpmcounter3",
                  "mhpmcounter3"}

(* A row: extension, name, address, whether a write must trap, ISA suffix. *)
Row(ext, name, addr, traps, isa) ==
    [ext |-> ext, name |-> name, addr |-> addr, traps |-> traps, isa |-> isa]
RW(ext, name, addr, isa) == Row(ext, name, addr, FALSE, isa)
RO(ext, name, addr, isa) == Row(ext, name, addr, TRUE, isa)

NoIsa == ""      \* no suffix: every build of Spike knows the register

CSRS == <<
    RW("PMP", "pmpcfg0", \h3a0, NoIsa), RW("PMP", "pmpaddr0", \h3b0, NoIsa),
    RW("PMP", "pmpaddr1", \h3b1, NoIsa),
    RW("Smstateen", "mstateen0", \h30c, "smstateen"),
    RW("Ssstateen", "sstateen0", \h10c, "smstateen"),
    RW("Sstc", "stimecmp", \h14d, "zicntr_sstc"),
    RW("Sscounterenw", "mcounteren", \h306, NoIsa),
    RW("Smcntrpmf", "mcountinhibit", \h320, "smcntrpmf"),
    RW("Smcntrpmf", "mcyclecfg", \h321, "smcntrpmf"),
    RW("Smcntrpmf", "minstretcfg", \h322, "smcntrpmf"),
    RO("Sscofpmf", "scountovf", \hda0, "sscofpmf"),
    RW("Sscofpmf", "mhpmevent3", \h323, "sscofpmf"),
    RO("Zicntr", "cycle", \hc00, "zicntr"), RO("Zicntr", "time", \hc01, "zicntr"),
    RO("Zicntr", "instret", \hc02, "zicntr"), RO("Zihpm", "hpmcounter3", \hc03, "zihpm"),
    RW("Zihpm", "mhpmcounter3", \hb03, "zihpm"), RW("Zicntr", "mcycle", \hb00, "zicntr"),
    RW("Zicntr", "minstret", \hb02, "zicntr"), RW("Zkr", "seed", \h015, "zkr"),
    RW("Ssqosid", "srmcfg", \h181, "ssqosid"),
    RW("base", "mscratch", \h340, NoIsa), RW("base", "mepc", \h341, NoIsa),
    RW("base", "mcause", \h342, NoIsa), RW("base", "mtval", \h343, NoIsa),
    RW("base", "mie", \h304, NoIsa), RW("base", "mip", \h344, NoIsa),
    RW("base", "sscratch", \h140, NoIsa), RW("base", "satp", \h180, NoIsa),
    RW("base", "menvcfgh", \h31a, NoIsa), RW("base", "medelegh", \h312, NoIsa),
    RW("base", "mstatush", \h310, NoIsa), RW("base", "mseccfgh", \h757, NoIsa),
    RW("Smcntrpmf", "mcyclecfgh", \h721, "smcntrpmf"),
    RW("Smcntrpmf", "minstretcfgh", \h722, "smcntrpmf"),
    RW("base", "mseccfg", \h747, NoIsa), RW("base", "henvcfgh", \h61a, NoIsa)>>

Known == {CSRS[i].addr : i \in DOMAIN CSRS}

(* The RV32 high half of a register the model also names.                  *)
IsHighHalf(name) == name \in DOMAIN HighHalf /\ HighHalf[name] \in ModelNames

(* Mutant: the machine-information block is taken for read/write.          *)
ReadOnlyByConvention(addr, name, width) ==
    \/ \hc00 <= addr /\ addr <= \hc9f
    \/ width = 64 /\ IsHighHalf(name)

(* Read-only by convention, by name, or absent at RV64.                    *)
MustTrap(addr, name, width) ==
    \/ \hc00 <= addr /\ addr <= \hc9f
    \/ name \in READ_ONLY_CSRS
    \/ width = 64 /\ IsHighHalf(name)

UnitIsa(name) == IF name \in FP_CSRS THEN "f_d"
                 ELSE IF name \in VECTOR_CSRS THEN "v" ELSE NoIsa

(* --from-model: a row per name of the model, save those the table knows   *)
(* and all but the first CounterSamples of the structurally identical      *)
(* counters.                                                               *)
FromModel(i, width) ==
    LET addr == ModelCsrs[i][1]
        name == ModelCsrs[i][2]
    IN  Row("model", name, addr, MustTrap(addr, name, width), UnitIsa(name))
Unknown(i) == ModelCsrs[i][1] \notin Known
Kept(i) == /\ Unknown(i)
           /\ ModelCsrs[i][2] \in CounterBank =>
                Cardinality({j \in 1 .. i : Unknown(j) /\ ModelCsrs[j][2] \in CounterBank})
                    <= CounterSamples

(* What the loop visits, by position: the table and then the model's rows. *)
Size(derive) == Len(CSRS) + (IF derive THEN Len(ModelCsrs) ELSE 0)
RowAt(i, width) == IF i <= Len(CSRS) THEN CSRS[i] ELSE FromModel(i - Len(CSRS), width)
Left(i) == i > Len(CSRS) /\ ~Kept(i - Len(CSRS))

(* Mutant: the expectation of the table is taken as it stands.             *)
TableAsWritten(width, derive) == [i \in 1 .. Size(derive) |-> RowAt(i, width)]

(* A high half that the table lists as writable must trap at RV64, too.    *)
Csrs(width, derive) ==
    [i \in 1 .. Size(derive) |->
       LET row == RowAt(i, width)
       IN  Row(row.ext, row.name, row.addr,
               row.traps \/ (width = 64 /\ IsHighHalf(row.name)), row.isa)]
=============================================================================
