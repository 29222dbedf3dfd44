------------------------------- MODULE CsrSweep -------------------------------
(***************************************************************************)
(* python-isla/csr_sweep.py, main(): one opcode_sweep.py child per CSR,    *)
(* its raw output cached under _results/<name>-rv<XLEN>.txt, so that a     *)
(* sweep that is interrupted resumes where it was.                         *)
(***************************************************************************)
EXTENDS CsrTable

CONSTANTS
    Filters,      \* values of --only: sets of names; {} is no filter
    Harts,        \* the models swept: "conforming" and ways to deviate
    NeedsIsa,     \* name -> the suffix Spike needs to know a derived CSR
    Ungeneratable,\* CSRs with no test, or that the model does not implement
    Restless,     \* ... whose value moves without a write: no test can pass
    Legalised,    \* ... that read back another value than was written: some pass
    Rv32Only,     \* ... that RV64 lacks, besides the high halves: pmpcfg1, pmpcfg3 ..
    SpikeResets,  \* ... that Spike resets to another value than Sail
    MaxRuns,
    MaxFaults     \* children that fail and kills; only with a conforming hart

ASSUME RunsAssumption ==
    "conforming" \in Harts /\ {} \in Filters /\ MaxRuns \in Nat /\ MaxFaults \in Nat

Xlens == {32, 64}
(* What an output says: six, some or none of the lines are PASS; "some     *)
(* sail": Sail passed all six and Spike none; "text": no result line.      *)
Outputs == {"full", "sail", "partial", "none", "text"}

VARIABLES
    hart,       \* the model and simulators at hand
    pc, pos,      \* the row being visited
    xlen, fromModel, only, resume,      \* the arguments of the run
    out,        \* the child's output, not yet cached
    cache,      \* <<name, xlen>> -> output, or "absent"
    report,       \* name -> the output it was counted from, of a child or of the cache
    runs, faults,
    ended       \* history: <<name, xlen, output>> of children that ran to the end

arguments == <<xlen, fromModel, only, resume>>
vars == <<hart, pc, pos, arguments, out, cache, report, runs, faults, ended>>

(* The rows of a run, and the positions of those it does not pass over:    *)
(* HARNESS_HAZARD names are reported, not swept.                           *)
Tables == [w \in Xlens |-> [f \in BOOLEAN |-> Csrs(w, f)]]
Visits == [f \in BOOLEAN |-> [filter \in Filters |->
    {k \in 1 .. Size(f) : LET name == Tables[64][f][k].name
                          IN  /\ ~Left(k)
                              /\ filter = {} \/ name \in filter
                              /\ name \notin HARNESS_HAZARD}]]
Following == [f \in BOOLEAN |-> [filter \in Filters |-> [k \in 0 .. Size(f) |->
    LET rest == {j \in Visits[f][filter] \cup {Size(f) + 1} : j > k}
    IN  CHOOSE j \in rest : \A i \in rest : j <= i]]]
Current == Tables[xlen][fromModel][pos]
Key == <<Current.name, xlen>>
Curated == {CSRS[i].name : i \in DOMAIN CSRS}
Names == Curated \cup ModelNames
Keys == Names \X Xlens

Init ==
    /\ hart \in Harts
    /\ pc = "idle" /\ pos = 0
    /\ xlen = 64 /\ fromModel = FALSE /\ only = {} /\ resume = TRUE
    /\ out = "text"
    /\ cache = [k \in Keys |-> "absent"]
    /\ report = <<>>
    /\ runs = 0
    /\ faults = IF hart = "conforming" THEN 0 ELSE MaxFaults
    /\ ended = {}

(* The model or a simulator is mended and rebuilt between two sweeps.      *)
Rebuild ==
    /\ pc = "idle" /\ hart # "conforming"
    /\ hart' = "conforming"
    /\ UNCHANGED <<pc, pos, arguments, out, cache, report, runs, faults, ended>>

Begin(w, f, filter, r) ==
    /\ pc = "idle" /\ runs < MaxRuns
    /\ pc' = "row" /\ pos' = Following[f][filter][0]
    /\ xlen' = w /\ fromModel' = f /\ only' = filter /\ resume' = r
    /\ report' = <<>>
    /\ runs' = runs + 1
    /\ UNCHANGED <<hart, out, cache, faults, ended>>

AtRow == pc = "row" /\ pos <= Size(fromModel)
Onward == pos' = Following[fromModel][only][pos]

Count(output) ==
    report' = [n \in DOMAIN report \cup {Current.name} |->
               IF n = Current.name THEN output ELSE report[n]]

(* Mutant: whether there is such a file is not asked.                      *)
ReadUnchecked ==
    /\ AtRow
    /\ resume
    /\ Count(cache[Key])
    /\ Onward
    /\ UNCHANGED <<hart, pc, arguments, out, cache, runs, faults, ended>>

ReadCache ==
    /\ AtRow
    /\ resume /\ cache[Key] # "absent"
    /\ Count(cache[Key])
    /\ Onward
    /\ UNCHANGED <<hart, pc, arguments, out, cache, runs, faults, ended>>

(* run(): the switches a row gives the child.                              *)
Switches(row) ==
    (IF row.name \in SELF_UPDATING THEN {"inhibit"} ELSE {})
    \cup (IF row.name \in FP_CSRS THEN {"fp"} ELSE {})
    \cup (IF row.name \in VECTOR_CSRS THEN {"vector"} ELSE {})

(* External: whether a write traps on hart h, and whether the six tests    *)
(* built for the row then pass: a test compares the final state with the   *)
(* one value that isla solved.  Bits 11:10 of a read-only address are 11.  *)
WriteTraps(row, w, h) ==
    \/ row.addr \div 1024 = 3 /\ h # "read_only_writable"
    \/ w = 64 /\ IsHighHalf(row.name) /\ h # "high_half_exists"
    \/ w = 64 /\ row.name \in Rv32Only
    \/ row.name \in FP_CSRS /\ "fp" \notin Switches(row)
    \/ row.name \in VECTOR_CSRS /\ "vector" \notin Switches(row)

ReadsBack(row) == row.name \notin Restless \cup Legalised
SailPasses(row, w, h) ==
    /\ WriteTraps(row, w, h) = row.traps
    /\ ReadsBack(row)
    /\ row.name \in SELF_UPDATING /\ ~row.traps => "inhibit" \in Switches(row)
    /\ ~(h = "writes_dropped" /\ ~row.traps)

SpikeAgrees(row) ==
    /\ row.name \notin SpikeResets
    /\ \/ row.ext # "model" \/ row.traps \/ row.name \notin DOMAIN NeedsIsa
       \/ NeedsIsa[row.name] = row.isa

Answer(row, w, h) ==
    IF row.name \in Ungeneratable \cup Restless \/ WriteTraps(row, w, h) # row.traps THEN "none"
    ELSE IF row.name \in Legalised THEN "partial"
    ELSE IF ~SailPasses(row, w, h) THEN "none"
    ELSE IF SpikeAgrees(row) THEN "full" ELSE "sail"

MustRun == AtRow /\ ~(resume /\ cache[Key] # "absent")

(* The child ends by itself, having swept all six instructions.            *)
RunChild ==
    /\ MustRun
    /\ out' = Answer(Current, xlen, hart)
    /\ ended' = ended \cup {<<Current.name, xlen, out'>>}
    /\ pc' = "save"
    /\ UNCHANGED <<hart, pos, arguments, cache, report, runs, faults>>

(* It passes --timeout, and its text replaces the output; or it dies: the  *)
(* return code is not looked at, and some of the lines may be out.         *)
ChildFails(o) ==
    /\ MustRun /\ faults < MaxFaults
    /\ out' = o
    /\ faults' = faults + 1
    /\ pc' = "save"
    /\ UNCHANGED <<hart, pos, arguments, cache, report, runs, ended>>

(* Mutants of Save: the results of both XLENs go to one file; a result     *)
(* becomes a file only when the sweep ends.                                *)
SaveByName ==
    /\ pc = "save"
    /\ cache' = [k \in Keys |-> IF k[1] = Current.name THEN out ELSE cache[k]]
    /\ Count(out)
    /\ Onward
    /\ pc' = "row"
    /\ UNCHANGED <<hart, arguments, out, runs, faults, ended>>

SaveLate ==
    /\ pc = "save"
    /\ cache' = IF Following[fromModel][only][pos] > Size(fromModel) THEN [cache EXCEPT ![Key] = out] ELSE cache
    /\ Count(out)
    /\ Onward
    /\ pc' = "row"
    /\ UNCHANGED <<hart, arguments, out, runs, faults, ended>>

Save ==
    /\ pc = "save"
    /\ cache' = [cache EXCEPT ![Key] = out]
    /\ Count(out)
    /\ Onward
    /\ pc' = "row"
    /\ UNCHANGED <<hart, arguments, out, runs, faults, ended>>

(* The process and what it knew are gone.                                  *)
Exit ==
    /\ pc' = "idle" /\ pos' = 0
    /\ report' = <<>> /\ out' = "text"
    /\ xlen' = 64 /\ fromModel' = FALSE /\ only' = {} /\ resume' = TRUE

(* "OOM, a hard reset, a reboot": the sweep is gone; between open(.., "w") *)
(* and the write the file is there and empty.                              *)
Die ==
    /\ pc # "idle" /\ faults < MaxFaults
    /\ faults' = faults + 1
    /\ Exit
    /\ \/ UNCHANGED cache
       \/ pc = "save" /\ cache' = [cache EXCEPT ![Key] = "text"]
    /\ UNCHANGED <<hart, runs, ended>>

(* The summary: full is six PASS lines, none is no PASS line.              *)
Summarise ==
    /\ pc = "row" /\ pos > Size(fromModel)
    /\ Exit
    /\ UNCHANGED <<hart, cache, runs, faults, ended>>

Next ==
    \/ Rebuild
    \/ \E w \in Xlens, f \in BOOLEAN, filter \in Filters, r \in BOOLEAN :
          Begin(w, f, filter, r)
    \/ ReadCache
    \/ RunChild
    \/ \E o \in {"text", "partial"} : ChildFails(o)
    \/ Save
    \/ Die
    \/ Summarise

Spec == Init /\ [][Next]_vars
=============================================================================
