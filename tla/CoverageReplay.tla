---------------------------- MODULE CoverageReplay ----------------------------
(***************************************************************************)
(* python-isla/coverage_report.py: the corpus is replayed on the coverage  *)
(* build of the model, which appends the spans a run has reached to one    *)
(* file, sail_coverage in the model's directory, when the run exits        *)
(* cleanly.  A report is made from that file (merged mode), from the spans *)
(* collected ELF by ELF (--per-elf, which empties the file before and      *)
(* after each ELF), or later from whatever the file then holds             *)
(* (--no-replay; demo/privileged/run.sh and regression.py report so).      *)
(*                                                                         *)
(* Other measurements use the same file, and the corpus changes between    *)
(* one command and the next.                                               *)
(***************************************************************************)
EXTENDS Naturals, FiniteSets, SequencesExt

CONSTANTS
    Elfs,      \* the ELFs a corpus may hold; a regenerated one is another
    NoElf,     \* none of them
    Width,     \* Width[e]: the XLEN the ELF was built for
    Reach,     \* Reach[e]: the spans a clean run of the ELF appends
    Views      \* the denominators: manifest, cut to a scope, less exclusions

ASSUME ElfsAssumption == IsFiniteSet(Elfs) /\ NoElf \notin Elfs
ASSUME WidthAssumption == Width \in [Elfs -> {32, 64}]
ASSUME ViewsAssumption == {} \notin Views

VARIABLES
    corpus,      \* the ELFs in the replayed directories
    trace,       \* sail_coverage: absent, or the spans appended to it
    cmd,         \* "idle", or where the replay is: "loop", "try64", "try32", "parse"
    perElf,      \* --per-elf was given
    todo,        \* ELFs the loop has not come to
    elf,         \* the ELF it is at
    ok, fail,    \* the counts the replay prints
    alone,       \* per_elf: the spans of each ELF done
    cumulative,  \* their union
    report,      \* the last report, or none
    since        \* history: ELFs that ran cleanly since a command last claimed
                 \* the file

replayVars == <<perElf, todo, elf, ok, fail, alone, cumulative>>
vars == <<corpus, trace, cmd, replayVars, report, since>>

Spans == UNION {Reach[e] : e \in Elfs}
Absent == [there |-> FALSE, spans |-> {}]
NoReport == [kind |-> "none", view |-> {}, covered |-> {}]
Holding(spans) == [there |-> TRUE, spans |-> spans]

Init ==
    /\ corpus \in SUBSET Elfs
    /\ trace = Absent
    /\ cmd = "idle"
    /\ perElf = FALSE
    /\ todo = {}
    /\ elf = NoElf
    /\ ok = 0
    /\ fail = 0
    /\ alone = <<>>
    /\ cumulative = {}
    /\ report = NoReport
    /\ since = {}

(* A sweep adds ELFs to the directories, a regeneration replaces some.     *)
Regenerate ==
    /\ cmd = "idle"
    /\ corpus' \in SUBSET Elfs
    /\ report' = NoReport
    /\ UNCHANGED <<trace, cmd, replayVars, since>>

(* Mutant of StartReplay: the file of the last replay is not removed.      *)
StartReplayAppends(per, chosen) ==
    /\ cmd = "idle"
    /\ cmd' = "loop"
    /\ perElf' = per
    /\ todo' = chosen
    /\ elf' = NoElf
    /\ ok' = 0
    /\ fail' = 0
    /\ alone' = <<>>
    /\ cumulative' = {}
    /\ report' = NoReport
    /\ since' = {}
    /\ UNCHANGED <<corpus, trace>>

(* `chosen` is the corpus found by glob, or its first N with --limit.      *)
StartReplay(per, chosen) ==
    /\ cmd = "idle"
    /\ cmd' = "loop"
    /\ trace' = Absent
    /\ perElf' = per
    /\ todo' = chosen
    /\ elf' = NoElf
    /\ ok' = 0
    /\ fail' = 0
    /\ alone' = <<>>
    /\ cumulative' = {}
    /\ report' = NoReport
    /\ since' = {}
    /\ UNCHANGED corpus

(* Mutant of NextElf: the loop does not advance.                           *)
NextElfStays(e) ==
    /\ cmd = "loop"
    /\ e \in todo
    /\ elf' = e
    /\ trace' = IF perElf THEN Absent ELSE trace
    /\ cmd' = "try64"
    /\ UNCHANGED <<corpus, perElf, todo, ok, fail, alone, cumulative, report, since>>

NextElf(e) ==
    /\ cmd = "loop"
    /\ e \in todo
    /\ todo' = todo \ {e}
    /\ elf' = e
    /\ trace' = IF perElf THEN Absent ELSE trace
    /\ cmd' = "try64"
    /\ UNCHANGED <<corpus, perElf, ok, fail, alone, cumulative, report, since>>

Appended(spans) == Holding(trace.spans \cup spans)

Attempting(x) == cmd = IF x = 64 THEN "try64" ELSE "try32"

(* The run prints SUCCESS, exits and flushes its spans.  The emulator      *)
(* (external) accepts an ELF only under the configuration of its XLEN.     *)
RunSucceeds(x) ==
    /\ Attempting(x)
    /\ Width[elf] = x
    /\ trace' = Appended(Reach[elf])
    /\ ok' = ok + 1
    /\ cmd' = "parse"
    /\ since' = since \cup {elf}
    /\ UNCHANGED <<corpus, perElf, todo, elf, fail, alone, cumulative, report>>

(* A run that fails exits nonzero and one that times out is killed: the    *)
(* emulator flushes nothing.  RV64 is tried first, then RV32.              *)
RunFails(x) ==
    /\ Attempting(x)
    /\ cmd' = IF x = 64 THEN "try32" ELSE "parse"
    /\ fail' = IF x = 64 THEN fail ELSE fail + 1
    /\ UNCHANGED <<corpus, trace, perElf, todo, elf, ok, alone, cumulative,
                   report, since>>

(* Mutant of Collect: an ELF is credited with what it adds to those before *)
(* it, the marginal count that the comment of `replay` describes.          *)
CollectCumulative ==
    /\ cmd = "parse"
    /\ cmd' = "loop"
    /\ elf' = NoElf
    /\ alone' = [e \in DOMAIN alone \cup {elf} |->
                    IF e = elf THEN trace.spans \ cumulative ELSE alone[e]]
    /\ cumulative' = cumulative \cup trace.spans
    /\ UNCHANGED <<corpus, trace, perElf, todo, ok, fail, report, since>>

Collect ==
    /\ cmd = "parse"
    /\ cmd' = "loop"
    /\ elf' = NoElf
    /\ IF perElf
       THEN /\ alone' = [e \in DOMAIN alone \cup {elf} |->
                            IF e = elf THEN trace.spans ELSE alone[e]]
            /\ cumulative' = cumulative \cup trace.spans
            /\ trace' = Absent
       ELSE UNCHANGED <<alone, cumulative, trace>>
    /\ UNCHANGED <<corpus, perElf, todo, ok, fail, report, since>>

(* report_per_elf: the ELFs are ranked by how much they reach in the view, *)
(* and one that adds nothing to those ranked above it is listed as         *)
(* redundant.  ELFs that reach as much as each other may come either way.  *)
Rankings(credit) ==
    {r \in SetToSeqs(DOMAIN credit) :
        \A i, j \in DOMAIN r :
            i < j => Cardinality(credit[r[i]]) >= Cardinality(credit[r[j]])}

(* Mutant of Redundant: an ELF that reaches nothing unique is listed.      *)
RedundantUnlessUnique(credit, r) ==
    {r[i] : i \in {n \in DOMAIN r :
        credit[r[n]] \subseteq UNION {credit[r[m]] : m \in DOMAIN r \ {n}}}}

Redundant(credit, r) ==
    {r[i] : i \in {n \in DOMAIN r :
        credit[r[n]] \subseteq UNION {credit[r[m]] : m \in 1 .. n - 1}}}

Report(kind, view, spans) ==
    report' = [kind |-> kind, view |-> view, covered |-> spans \cap view]

(* `merged if merged is not None else parse_spans(COVERAGE_FILE)`: without *)
(* --per-elf there must be a file, and there is none when no run succeeded.*)
FinishReplay(view) ==
    /\ cmd = "loop"
    /\ todo = {}
    /\ cmd' = "idle"
    /\ IF perElf THEN Report("replay", view, cumulative)
       ELSE IF trace.there THEN Report("replay", view, trace.spans)
       ELSE report' = NoReport
    /\ UNCHANGED <<corpus, trace, replayVars, since>>

(* --no-replay, alone: the report fails when there is no file.             *)
ReportAgain(view) ==
    /\ cmd = "idle"
    /\ IF trace.there THEN Report("again", view, trace.spans)
       ELSE report' = NoReport
    /\ UNCHANGED <<corpus, trace, cmd, replayVars, since>>

(* Interrupted or killed: the file stays as it is.                         *)
Interrupt ==
    /\ cmd # "idle"
    /\ cmd' = "idle"
    /\ UNCHANGED <<corpus, trace, replayVars, report, since>>

(* comparison/scripts replay one ELF at a time into the same file, at a    *)
(* time no replay runs: the file is left with the last one's spans.        *)
Measure(e) ==
    /\ cmd = "idle"
    /\ e \in corpus
    /\ \/ trace' = Holding(Reach[e]) /\ since' = {e}
       \/ trace' = Absent /\ since' = {}
    /\ report' = NoReport
    /\ UNCHANGED <<corpus, cmd, replayVars>>

Next ==
    \/ Regenerate
    \/ \E per \in BOOLEAN, chosen \in SUBSET corpus : StartReplay(per, chosen)
    \/ \E e \in todo : NextElf(e)
    \/ \E x \in {32, 64} : RunSucceeds(x) \/ RunFails(x)
    \/ Collect
    \/ \E view \in Views : FinishReplay(view) \/ ReportAgain(view)
    \/ Interrupt
    \/ \E e \in corpus : Measure(e)

Spec == Init /\ [][Next]_vars
=============================================================================
