---------------------------- MODULE CoverageProps ----------------------------
(***************************************************************************)
(* What the numbers of coverage_report.py mean, over CoverageReplay.       *)
(***************************************************************************)
EXTENDS CoverageReplay

TypeOK ==
    /\ corpus \subseteq Elfs
    /\ trace \in [there : BOOLEAN, spans : SUBSET Spans]
    /\ ~trace.there => trace.spans = {}
    /\ cmd \in {"idle", "loop", "try64", "try32", "parse"}
    /\ perElf \in BOOLEAN
    /\ todo \subseteq Elfs
    /\ elf \in Elfs \cup {NoElf}
    /\ cmd \in {"try64", "try32", "parse"} => elf \in Elfs \ todo
    /\ ok \in Nat /\ fail \in Nat
    /\ DOMAIN alone \subseteq Elfs \ todo
    /\ alone \in [DOMAIN alone -> SUBSET Spans]
    /\ cumulative \subseteq Spans
    /\ report \in [kind : {"none", "replay", "again"},
                   view : Views \cup {{}}, covered : SUBSET Spans]
    /\ since \subseteq Elfs

ReachedBy(elfs) == UNION {Reach[e] : e \in elfs}

(* The suite total of a replay is the union of what its own clean runs     *)
(* reached, and it is the same whether the replay was merged or per ELF,   *)
(* in whatever order, after whatever an earlier command left in the file.  *)
SuiteTotalIsTrue ==
    report.kind = "replay" => report.covered = ReachedBy(since) \cap report.view

(* "This ELF's own absolute coverage": in per-ELF mode each ELF is         *)
(* credited with what it reaches itself, independent of the ELFs around it *)
(* (while the replay runs and in the report that it ends with).            *)
EachElfAlone ==
    cmd # "idle" \/ report.kind = "replay" =>
        \A e \in DOMAIN alone : alone[e] = IF e \in since THEN Reach[e] ELSE {}

(* Every ELF is counted once: as reaching SUCCESS or as not, never as both *)
(* although it may be run twice.                                           *)
EachElfCountedOnce ==
    cmd = "loop" /\ perElf =>
        /\ ok + fail = Cardinality(DOMAIN alone)
        /\ ok = Cardinality(since)

(* "every scope in a report comes from one run rather than several": the   *)
(* file never mixes two replays, a replay and another measurement, or the  *)
(* spans of an ELF that was not run.                                       *)
TraceIsOneRun ==
    trace.spans \subseteq ReachedBy(since)

(* The ELFs that report_per_elf lists as redundant can be dropped all      *)
(* together, however ties in the ranking fell: the suite total stays.      *)
RedundantCanBeDropped ==
    report.kind = "replay" /\ perElf =>
        LET credit == [e \in DOMAIN alone |-> alone[e] \cap report.covered]
        IN  \A r \in Rankings(credit) :
                UNION {credit[e] : e \in DOMAIN credit \ Redundant(credit, r)}
                    = report.covered

(***************************************************************************)
(* A claim of the documentation that the program does not keep.            *)
(***************************************************************************)

(* README.md:508: "Replay once, report many times": after a replay has     *)
(* reported, the trace that --no-replay reads is on disk.                  *)
ReplayLeavesTrace ==
    report.kind = "replay" => report.covered \subseteq trace.spans
=============================================================================
