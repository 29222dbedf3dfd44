---------------------------- MODULE ScenarioTests ----------------------------
(***************************************************************************)
(* python-isla/scenario_tests.py: the pinned scenarios.  A scenario is an  *)
(* instruction, the set-up flags handed to isla-testgen, the trap cause it *)
(* must end in (0: none) and whether the test must pass on the simulators; *)
(* a control must fail.  PMA scenarios carry a config override.            *)
(***************************************************************************)
EXTENDS Integers, Sequences

Scenario(name, insn, flags, cause, expect, pma) ==
    [id |-> name, insn |-> insn, flags |-> flags, expect |-> cause,
     passes |-> expect, pma |-> pma]

Good(name, insn, flags, cause) == Scenario(name, insn, flags, cause, TRUE, "stock")
Control(name, insn, flags, cause) == Scenario(name, insn, flags, cause, FALSE, "stock")

Privilege == <<
    Good("m0_ecall", "ecall", {}, 11),
    Good("m0_ebreak", "ebreak", {}, 3),
    Good("m0_wfi", "wfi", {"pending"}, 0),
    Good("m0_mret_to_machine", "xret", {"pp_m"}, 0),
    Good("m0_mret_to_supervisor", "xret", {"pp_s", "pmp_allow"}, 0),
    Good("m0_mret_to_user", "xret", {"pp_u", "pmp_allow"}, 0),
    Good("m0_sret_to_supervisor", "xret", {"pp_s", "pmp_allow"}, 0),
    Good("m0_sret_to_user", "xret", {"pp_u", "pmp_allow"}, 0),
    Control("m0_NEG_mret_to_user_no_pmp", "xret", {"pp_u"}, 0)>>

(* The two U-mode rows preload MPP but run no xRET: the load is M-mode's.  *)
Protection == <<
    Good("m2_load_permitted", "lw_ram", {}, 0),
    Good("m2_load_denied", "lw_ram", {"pmp_deny"}, 5),
    Control("m2_NEG_wrong_cause", "lw_ram", {"pmp_deny"}, 7),
    Control("m2_NEG_no_violation", "lw_ram", {"pmp_deny_elsewhere"}, 5),
    Good("m2_load_permitted_smode", "lw_ram", {"supervisor", "pmp_allow"}, 0),
    Good("m2_load_denied_smode", "lw_ram", {"supervisor", "pmp_deny"}, 5),
    Control("m2_NEG_smode_default_deny", "lw_ram", {"supervisor"}, 0),
    Good("m2_load_permitted_umode", "lw_ram", {"pp_u", "pmp_allow"}, 0),
    Good("m2_load_denied_umode", "lw_ram", {"pp_u", "pmp_deny"}, 5)>>

Delivery == <<
    Good("m5_interrupt_delivered", "wfi", {"deliver"}, 3),
    Good("m5_interrupt_delegated", "wfi",
         {"deliver", "delegate", "supervisor", "pmp_allow"}, 1),
    Control("m5_NEG_interrupt_wrong_cause", "wfi", {"deliver"}, 7)>>

Paging == <<
    Good("m3_supervisor_bare", "lw_ram", {"supervisor", "pmp_allow"}, 0),
    Good("m3_sv39_mapped", "lw_ram", {"supervisor", "pmp_allow", "sv39"}, 0),
    Good("m3_sv39_page_fault", "lw_hole", {"supervisor", "pmp_allow", "sv39"}, 13),
    Control("m3_NEG_no_translation", "lw_hole", {"supervisor", "pmp_allow"}, 13),
    Control("m3_NEG_mapped_address", "lw_ram", {"supervisor", "pmp_allow", "sv39"}, 13)>>

Attributes == <<
    Scenario("m4_amo_unsupported", "amo", {}, 7, TRUE, "atomic_support"),
    Scenario("m4_NEG_amo_wrong_cause", "amo", {}, 5, FALSE, "atomic_support"),
    Scenario("m4_lr_unreservable", "lr", {}, 5, TRUE, "reservability"),
    Scenario("m4_NEG_lr_wrong_cause", "lr", {}, 7, FALSE, "reservability")>>

Scenarios == Privilege \o Protection \o Delivery \o Paging \o Attributes
(* SCENARIO_GROUP: the directory, and so the tests.json, of a scenario.    *)
Groups == {Privilege, Protection, Delivery, Paging, Attributes}
Names(group) == {group[i].id : i \in DOMAIN group}
IsPma(s) == s.pma # "stock"
IsControl(s) == ~s.passes

(* LOAD_MAPPED drops the sign that lui extends by shifting x2 left and     *)
(* right by 32: at RV32 such a shift is an illegal instruction.            *)
IllegalAt(xlen, s) == xlen = 32 /\ s.insn = "lw_ram"

(* Sv39 and the .d sequences of the PMA scenarios exist at RV64 only.      *)
SkippedAt(xlen, s) == xlen = 32 /\ (IsPma(s) \/ "sv39" \in s.flags)

(* pma_config retracts the extensions that guarantee the attribute.        *)
(* Mutant: the transitive one, Svadu, is forgotten.                        *)
DisablesDirectly(pma) ==
    CASE pma = "atomic_support" -> {"Ziccamoa", "Ziccamoc"}
      [] pma = "reservability" -> {"Ziccrse"}
      [] OTHER -> {}

Disables(pma) ==
    CASE pma = "atomic_support" -> {"Ziccamoa", "Ziccamoc"}
      [] pma = "reservability" -> {"Ziccrse", "Svadu"}
      [] OTHER -> {}

(* Without --config the override does not reach the simulator.             *)
RunConfig(s) == [pma |-> s.pma, disabled |-> Disables(s.pma)]

(* Spike cannot be told the attributes: a PMA scenario is Sail's to judge. *)
(* Mutant: a control that passes is not looked at.                         *)
JudgePositives(s, sail, spike) ==
    IF IsControl(s) \/ (IF IsPma(s) THEN sail ELSE sail /\ spike) THEN "ok" ELSE "REGRESSION"

Judgement(s, sail, spike) ==
    IF (IF IsPma(s) THEN sail ELSE sail /\ spike) = s.passes THEN "ok" ELSE "REGRESSION"
=============================================================================
