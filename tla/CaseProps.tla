------------------------------- MODULE CaseProps -------------------------------
(***************************************************************************)
(* What the derived cases, the pinned scenarios and their runners promise. *)
(***************************************************************************)
EXTENDS CaseRunner

(* Types: the tally partitions what was tried, the position stays in the   *)
(* list, and an ELF is of a configuration that has a case of its name.     *)
TypeOK ==
    /\ prog \in Programs /\ defect \in Bugs[prog] \cup {"none"}
    /\ config \in DOMAIN Configs /\ file \in DOMAIN Configs
    /\ pc \in {"idle", "case", "judge"}
    /\ pos \in 0 .. Len(Corpus) + 1
    /\ only \in {"all", "first"}
    /\ \A id \in Ids[prog] : elf[id] # 0 => id \in IdsOf[prog][elf[id]]
    /\ passed \cap bad = {} /\ (passed \cup bad) \cap failed = {}
    /\ passed \cup bad \cup failed \cup manifests \cup index \cup fresh \cup broken \subseteq Ids[prog]
    /\ runs \in 0 .. MaxRuns /\ faults \in 0 .. MaxFaults

(* The configurations a derivation is right about: the cases assume that   *)
(* every bit of a TOR bound exists and that the machine has supervisor     *)
(* mode, user mode, Sv39, Svadu and the counter-overflow interrupt.        *)
Assumed(c) == /\ c.tor => c.grain = 0
              /\ {"S", "U", "Sv39", "Svadu", "Sscofpmf"} \subseteq c.ext

(* What the derivations take for granted of the machine, beside its        *)
(* extensions: RAM, and so the code, is at the page that root entries 1 and *)
(* 2 of the table map; the addresses of the PMP cases, which begin at a    *)
(* page of RAM, are within the word that x2 is built in and within what a  *)
(* pmpaddr register reaches; and seven names stand for the interrupts, each *)
(* once in the chain; an interrupt that can be delegated can be made       *)
(* pending by a CSR write, which InterruptDelegation does not ask.  A grain *)
(* of more than 4 KiB would widen the NAPOT regions, which pmp_cases.py    *)
(* does not reckon with.                                                   *)
RamPage == 524288                                        \* of 0x80000000
Interrupts == {"SSI", "MSI", "STI", "MTI", "SEI", "MEI", "LCOFI"}
PmpTop(m) == m.ram + 262144
ASSUME MachinesAssumption ==
    /\ \A i \in DOMAIN Configs :
          /\ Configs[i].ramPage = RamPage
          /\ Configs[i].grain \in 0 .. 10 /\ Configs[i].ram \in Nat /\ Configs[i].ram % 4096 = 0
          /\ PmpTop(Configs[i]) <= WordSize - 2049 /\ PmpTop(Configs[i]) <= 8 * 2 ^ PmpAddrBits
    /\ Priority \in Seq(Interrupts)
    /\ \A i, j \in DOMAIN Priority : Priority[i] = Priority[j] => i = j
    /\ Writable \subseteq Interrupts /\ NoDeleg \subseteq Interrupts
    /\ \A i \in DOMAIN Priority : Priority[i] \in NoDeleg \cup Writable

(* Arithmetic that is no choice of the machine: the next power of two is   *)
(* twice the last one.                                                     *)
ASSUME PowersAssumption ==
    /\ PmpAddrBits \in Nat /\ PmpAddrBits > 9
    /\ \A n \in 0 .. PmpAddrBits : 2 ^ (n + 1) = 2 * 2 ^ n

(* The deviations that the cases of a program aim at.  That an interrupt   *)
(* is not delegated shows where one can be, and that the wrong one of two  *)
(* is taken where two neighbours in the chain can be made pending.         *)
Aimed == [p \in Programs |->
    CASE p = "pmp" -> {"lock_ignored", "partial_matches", "unlocked_binds",
                       "writes_unchecked"}
      [] p = "vmem" -> {"sum_ignored", "mxr_ignored",
                        "misaligned_ok", "walk_skips_pmp", "denied_walk_page_faults"}
      [] p = "trap" -> {"mideleg_ignored", "delegates_from_m", "lowest_first"}
      [] p = "scenario64" -> {"pmp_default_allows", "xret_keeps_privilege",
                              "satp_ignored", "interrupts_lost", "handler_ignores_cause"}
      [] p = "scenario32" -> {"pmp_default_allows", "xret_keeps_privilege",
                              "interrupts_lost", "handler_ignores_cause"}]
ASSUME DeviationsAssumption ==
    /\ \A p \in Programs : Bugs[p] \subseteq Aimed[p]
    /\ "mideleg_ignored" \in Bugs["trap"] => \E i \in DOMAIN Priority : Priority[i] \notin NoDeleg
    /\ "lowest_first" \in Bugs["trap"] =>
          \E i \in 1 .. Len(Priority) - 1 : {Priority[i], Priority[i + 1]} \subseteq Writable

(* The tests that must pass and whose code the hart does not have.         *)
FalseAlarms ==
    {Corpus[i].id : i \in {j \in DOMAIN Corpus :
        IsScenario(prog) /\ IllegalAt(Xlen, Corpus[j]) /\ Corpus[j].passes}}

(* A conforming hart never fails a case that was generated in this run     *)
(* from the configuration it is run under: the expectation written when    *)
(* the case was derived (mode, position, permissions, page table, mask of  *)
(* pending interrupts) agrees with what the machine does with the encoded  *)
(* registers and the address the runner materialises.  The exception is    *)
(* the code's, where scenario_tests.py:52 says of its table that these     *)
(* "must pass on both simulators": at RV32 the positive scenarios that     *)
(* load through LOAD_MAPPED trap on its shifts by 32, so those, and no     *)
(* others, are reported, and never pass.                                   *)
NoFalseAlarm ==
    defect = "none" /\ pc # "idle" /\ file = config /\ (~IsScenario(prog) => Assumed(Configs[config]))
        => /\ bad \cap fresh \subseteq FalseAlarms
           /\ passed \cap fresh \cap FalseAlarms = {}

(* A complete run over a corpus of the configuration at hand reports a     *)
(* hart with any of the deviations the cases aim at, and by a test that a  *)
(* conforming hart passes.  Only the regions of TOR and of NA4 begin where *)
(* an aligned access can straddle the bound, so a machine with neither has *)
(* no case for a partial match.                                            *)
DefectsAreSeen ==
    /\ defect # "none" /\ file = config
    /\ pc = "case" /\ only = "all" /\ pos > Len(Corpus)
    /\ defect = "partial_matches" => \E mode \in {"TOR", "NA4"} : Selectable(mode, Configs[config])
    => bad \ FalseAlarms # {}

(* The position a PMP case claims is the one it tests: x2 ends up holding  *)
(* the address of the case, and the bytes accessed there lie outside, in   *)
(* or across the bounds that the registers of its entry encode.  Were they *)
(* elsewhere, the permit-all entry below would let most of the cases pass  *)
(* all the same.  The exception is the code's: "inside" is one access past *)
(* the start, which for NA4 is its end.                                    *)
ClaimsHold ==
    prog = "pmp" /\ AtCase /\ (Configs[file].tor => Configs[file].grain = 0) =>
        LET c == Current
            entry == Len(c.pmpaddr) - 1
            bytes == EntryRange(c.pmpaddr, c.pmpcfg, entry, Configs[file].grain, "none")
            x2 == Materialise(c.addr)
        IN  /\ x2 = c.addr
            /\ c.id # <<"NA4", "inside">> =>
                  RangeMatch(bytes, x2 + Insn(c).disp, Insn(c).width) = c.claim

(* "pass" is never said of a case whose generation failed in this run: an  *)
(* ELF of that name may well be there, from an earlier run and an earlier  *)
(* configuration.  The scenarios do judge the ELF that is there, and there *)
(* is no other to judge while nothing has failed.                          *)
FailuresNeverPass ==
    /\ ~IsScenario(prog) => broken \cap passed = {}
    /\ faults = 0 => passed \subseteq fresh

(* An index that a complete run without a fault writes keeps the negative  *)
(* controls: every group listed has one, and everything listed has an ELF. *)
(* "A runner that silently drops them keeps the tests and loses the only   *)
(* thing proving they can fail."                                           *)
IndexKeepsControls ==
    [][pc = "case" /\ pc' = "idle" /\ pos > Len(Corpus) /\ only = "all" /\ faults' = 0
       => /\ \A id \in index' : elf[id] # 0
          /\ \A g \in Groups : Names(g) \cap index' # {} =>
                \E i \in DOMAIN g : IsControl(g[i]) /\ g[i].id \in index']_vars
=============================================================================
