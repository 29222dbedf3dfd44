------------------------------- MODULE CsrProps -------------------------------
(***************************************************************************)
(* What a sweep of the CSRs promises, and what an interruption costs.      *)
(***************************************************************************)
EXTENDS CsrSweep

TypeOK ==
    /\ hart \in Harts
    /\ pc \in {"idle", "row", "save"}
    /\ pos \in 0 .. Size(fromModel) + 1
    /\ xlen \in Xlens /\ fromModel \in BOOLEAN /\ resume \in BOOLEAN
    /\ only \in Filters
    /\ out \in Outputs
    /\ cache \in [Keys -> Outputs \cup {"absent"}]
    /\ \A n \in DOMAIN report : report[n] \in Outputs
    /\ runs \in 0 .. MaxRuns /\ faults \in 0 .. MaxFaults
    /\ \A e \in ended : <<e[1], e[2]>> \in Keys /\ e[3] \in Outputs

(* External: the model names no other register at a read-only address than *)
(* the counters, the unit's read-only ones beside them and the             *)
(* machine-information block, and none of these at a writable one.         *)
ASSUME ConventionAssumption ==
    \A i \in DOMAIN ModelCsrs : Unknown(i) =>
        LET addr == ModelCsrs[i][1]
        IN  addr \div 1024 = 3 <=> \/ \hc00 <= addr /\ addr <= \hc9f
                                  \/ ModelCsrs[i][2] \in READ_ONLY_CSRS

(* External: the registers that RV64 alone lacks are pmpcfg1 and every     *)
(* second one after it, none of which the table lists.                     *)
ASSUME Rv32OnlyAssumption ==
    /\ Rv32Only \cap (Curated \cup DOMAIN HighHalf) = {}
    /\ \A i \in DOMAIN ModelCsrs : ModelCsrs[i][2] \in Rv32Only => ModelCsrs[i][1] \div 1024 # 3

(* The deviations of a hart that a row is there to find: it lets a         *)
(* read-only register or an absent high half be written, or drops the      *)
(* writes of the others.                                                   *)
Wrong(row, w) ==
    CASE hart = "read_only_writable" -> row.addr \div 1024 = 3
                                        /\ ~(w = 64 /\ IsHighHalf(row.name))
      [] hart = "high_half_exists" -> w = 64 /\ IsHighHalf(row.name)
                                      /\ row.addr \div 1024 # 3
      [] hart = "writes_dropped" -> row.addr \div 1024 # 3
                                    /\ ~(w = 64 /\ IsHighHalf(row.name))
      [] OTHER -> FALSE

(* The registers whose final value a write decides, and that are there for *)
(* it: the others fail some or all of the six on the best of harts.        *)
Testable(row, w) == ReadsBack(row) /\ ~(w = 64 /\ row.name \in Rv32Only)

(* A row that a child ran to the end for passes on Sail exactly if its     *)
(* register is testable by a static value and the hart gets it right:      *)
(* whichever list the row came from and at either XLEN, the expectation it *)
(* was given (a trap or none) is what a conforming hart does, no deviation *)
(* passes, and no register that is not testable does: "the access should   *)
(* simply succeed" (csr_sweep.py:18) is not enough for a row to pass.      *)
RowsTellTheTruth ==
    pc = "save" /\ <<Current.name, xlen, out>> \in ended
        /\ Current.name \notin Ungeneratable
        => (out \in {"full", "sail"}) <=> Testable(Current, xlen) /\ ~Wrong(Current, xlen)

(* A row that counts as passing all six was earned: a child swept that CSR *)
(* at that XLEN to the end and passed it, now or in the run whose result   *)
(* is reused; and without a fault no row is reused or reported that a      *)
(* child did not end with.                                                 *)
RowsAreEarned ==
    \A n \in DOMAIN report :
        \/ <<n, xlen, report[n]>> \in ended
        \/ faults > 0 /\ report[n] \in {"text", "partial"}

(* "An interruption costs one CSR rather than the whole run": of all the   *)
(* CSRs that children finished, at most one per kill is missing from the   *)
(* cache, besides the one about to be written.                             *)
Finished == {<<e[1], e[2]>> : e \in ended}
InterruptionCostsOne ==
    Cardinality({k \in Finished : cache[k] \in {"absent", "text"}})
        <= faults + (IF pc = "save" THEN 1 ELSE 0)

(* A result once cached is replaced only by a newer run of the same CSR    *)
(* that was asked not to resume.                                           *)
OnlyNoResumeReplaces ==
    [][cache' # cache => \A k \in Keys :
         cache[k] # "absent" /\ cache'[k] # cache[k] => ~resume /\ k = Key]_vars
=============================================================================
