------------------------------- MODULE TestPlan -------------------------------
(***************************************************************************)
(* python-isla/testplan.py: the plan of what is left to test, derived from *)
(* the sources of the model, the manifest of spans its coverage build      *)
(* emitted, the log of spans a replay executed, and the spans held         *)
(* unreachable; and its comparison with an earlier plan.  The four files   *)
(* on the disk change between the runs, each by a tool of its own.         *)
(***************************************************************************)
EXTENDS SailIndex

CONSTANTS
    Versions,     \* sources of the model: Versions[v][file][line]
    Edited,       \* the versions that editing leads to
    Corpora,      \* sets of tests that may be replayed
    Renderers,    \* names that _DIAGNOSTIC_NAME matches
    Library,      \* spans of Sail's library in every manifest
    Arguments,    \* the command lines
    FileNames,    \* every file of the sources, in the order of their names
    ScheduleLength,   \* items that write_markdown lists; 40 in the code
    MaxEvents, MaxRuns, MaxKills

ASSUME PlanAssumption ==
    /\ DOMAIN Versions \subseteq Nat \ {0} /\ Edited \subseteq DOMAIN Versions
    /\ \A v \in DOMAIN Versions : \A f \in DOMAIN Versions[v] :
          \E i \in DOMAIN FileNames : FileNames[i] = f
    /\ Len(FileNames) \in Nat /\ DOMAIN FileNames = 1 .. Len(FileNames)
    /\ \A i, j \in DOMAIN FileNames : FileNames[i] = FileNames[j] => i = j
    /\ ScheduleLength \in Nat \ {0}
    /\ MaxEvents \in Nat /\ MaxRuns \in Nat \ {0} /\ MaxKills \in Nat

VARIABLES
    source, mtime,     \* the version on disk; its files' modification times
    manifest,          \* branch_info: the version built, and when
    log,               \* sail_coverage: replayed build and corpus, and when
    spared,            \* span-exclusions.txt: derived from this version, or 0
    clock, events,
    kept,              \* a plan that was checked in: the inputs it was made from
    leaves,            \* -spans.csv, .csv, .json, .md: inputs, "absent" or "torn"
    pc, args, inputs,  \* the run: where it is, its arguments, what it has read
    base,              \* ... and the plan it compares with
    outcome,
    runs, kills,
    before             \* history: the leaves when the last run began to read

world == <<source, mtime, manifest, log, spared, clock, events>>
run == <<args, inputs, base>>
vars == <<world, kept, leaves, pc, run, outcome, runs, kills, before>>

NoArgs == [allow |-> FALSE, joined |-> FALSE, exclude |-> FALSE,
           only |-> {}, except |-> {}, baseline |-> "none", gate |-> FALSE]
Nothing == [version |-> 0]      \* no plan; no file; a file cut short
Absent == [version |-> -1]
Torn == [version |-> -2]
Leaf == {"spans", "csv", "json", "md"}

Model == Versions               \* under a name of its own, TLC evaluates it once

(* ---- what a plan says, given what it was made from -------------------- *)
SpansOf(v) == UNION {{<<f, k>> : k \in {j \in DOMAIN Model[v][f] : Model[v][f][j].span}} :
                       f \in DOMAIN Model[v]}
AllSpans == [v \in DOMAIN Model |-> SpansOf(v)]
Reached(v, corpus) == {p \in AllSpans[v] : Model[v][p[1]][p[2]].test \in corpus}
Spared == [v \in DOMAIN Model |-> Exclusions(Model[v])]

Feature(f) == IF f[1] = "extensions" /\ Len(f) > 2 THEN f[2] ELSE f[1]

(* The ladder of build_rows, most specific first: an arm that is an        *)
(* instruction, a printer, a guard on the line itself, the body of an      *)
(* instruction, a helper instructions reach, a guard nearby.               *)
Stimulus(owner, mnem, own, callers, loose) ==
    CASE owner[1] = "execute" /\ mnem # "" -> "instruction_variant"
      [] ~(owner[1] = "execute" /\ mnem # "") /\ owner[2] \in Renderers -> "diagnostic_string"
      [] OTHER -> CASE own # "unclassified" -> own
                    [] own = "unclassified" /\ owner[1] = "execute" -> "instruction"
                    [] own = "unclassified" /\ callers.named # {} -> "helper_function"
                    [] OTHER -> loose
RowWith(f, owner, mnem, callers, stimulus) ==
    [feature |-> Feature(f), stimulus |-> stimulus,
     target |-> CASE stimulus = "instruction_variant" -> mnem
                  [] stimulus # "instruction_variant" /\ owner[2] # "" -> owner[2]
                  [] OTHER -> "file",
     owner |-> owner, more |-> callers.more,
     named |-> IF stimulus = "helper_function" THEN callers.named ELSE {}]
RowOf(f, owner, mnem, callers, own, loose) ==
    RowWith(f, owner, mnem, callers, Stimulus(owner, mnem, own, callers, loose))

CallersOf(src, owner) ==
    IF owner[1] \in {"function", "function_clause"} THEN ReachingInstructions(src, owner[2])
    ELSE [named |-> {}, more |-> FALSE]
MnemonicIn(src, f, owner, arm) ==
    IF arm # <<>> /\ arm[2] # "_" /\ IsOpcodeMatch(src, owner[2], arm[1])
    THEN MnemonicOf(src, f, arm[2]) ELSE ""
Ladder(src, f, k, owner, arm) ==
    RowOf(f, owner, MnemonicIn(src, f, owner, arm), CallersOf(src, owner),
          Classify(src[f][k].rules), Classify(RulesAround(src[f], k)))
(* A position in no source file, or past the end of one: nothing is known  *)
(* of it but the branching lines that may be above.                        *)
Nowhere(src, p) ==
    RowOf(p[1], <<"", "">>, "", [named |-> {}, more |-> FALSE], "unclassified",
          IF p[1] \in DOMAIN src THEN Classify(RulesAbove(src[p[1]], p[2])) ELSE "unclassified")

(* A manifest that is behind may name any span of another version.         *)
PositionsAt(v) == IF v \in Edited THEN UNION {AllSpans[w] : w \in Edited} ELSE AllSpans[v]
Located(row, arm, chain, text) ==
    [column \in DOMAIN row \cup {"arm", "chain", "source"} |->
       CASE column = "arm" -> arm [] column = "chain" -> chain [] column = "source" -> text
         [] OTHER -> row[column]]
RowsOf(src, arms, chains, positions) ==
    [p \in positions |->
       IF p[1] \in DOMAIN src /\ p[2] \in DOMAIN src[p[1]]
       THEN Located(Ladder(src, p[1], p[2], Owner(src[p[1]], p[2]), arms[p[1]][p[2]]),
                    arms[p[1]][p[2]], chains[p[1]][p[2]], src[p[1]][p[2]].text)
       ELSE Located(Nowhere(src, p), <<>>, <<>>, "")]
Ladders == [v \in DOMAIN Model |->
    RowsOf(Model[v], [f \in DOMAIN Model[v] |-> Arms(Model[v][f])],
           [f \in DOMAIN Model[v] |-> Chains(Model[v][f])], PositionsAt(v))]

(* Library spans are dropped; a scope counts if it includes something.     *)
InScope(m) ==
    {p \in AllSpans[m.built] \cup Library :
       /\ p \notin Library
       /\ m.only # {} => Feature(p[1]) \in m.only /\ Feature(p[1]) \notin m.except}

Status(m, p) ==
    IF m.spared # 0 /\ p \in Spared[m.spared] THEN "excluded"
    ELSE IF m.corpus # <<>> /\ p \in Reached(m.corpus[1], m.corpus[2]) THEN "covered"
    ELSE "todo"

KeyIn(row) == <<row.feature, row.target, row.stimulus>>
Keys == [v \in DOMAIN Model |-> [p \in PositionsAt(v) |-> KeyIn(Ladders[v][p])]]
KeyOf(m, p) == Keys[m.version][p]
OUT_OF_REACH == {"naming_mapping", "hypervisor", "diagnostic_string"}

(* One item per feature, target and stimulus.  What is excluded counts     *)
(* for nothing.                                                            *)
Item(key, todo, covered) ==
    [spans |-> todo + covered, covered |-> covered, todo |-> todo,
     state |-> CASE todo + covered = 0 -> "unreachable"
                 [] todo = 0 /\ covered > 0 -> "complete"
                 [] todo > 0 /\ key[3] \in OUT_OF_REACH -> "out of reach"
                 [] todo > 0 /\ key[3] \notin OUT_OF_REACH /\ covered > 0 -> "partial"
                 [] OTHER -> "not started"]
ItemsOver(keyed) ==        \* of triples: key, span, status
    LET count(key, s) == Cardinality({row \in keyed : row[1] = key /\ row[3] = s})
    IN  [key \in {row[1] : row \in keyed} |->
           Item(key, count(key, "todo"), count(key, "covered"))]
Items(m) == ItemsOver({<<KeyOf(m, p), p, Status(m, p)>> : p \in InScope(m)})

Live(items) == {key \in DOMAIN items : items[key].state # "unreachable"}

(* In tenths of a point, as round() gives them: half-way goes to the even. *)
Percent(item) ==
    LET whole == (1000 * item.covered) \div item.spans
        rest == (1000 * item.covered) % item.spans
    IN  IF 2 * rest > item.spans \/ (2 * rest = item.spans /\ whole % 2 = 1)
        THEN whole + 1 ELSE whole

(* The rows come in the order of the manifest, by file name and line, and  *)
(* an item where its first row is.                                         *)
Earlier(p, q) ==
    \/ \E i, j \in DOMAIN FileNames : FileNames[i] = p[1] /\ FileNames[j] = q[1] /\ i < j
    \/ p[1] = q[1] /\ p[2] < q[2]
ComesFirst(m, i, j) ==
    \E p \in {r \in InScope(m) : KeyOf(m, r) = i} :
       \A q \in {r \in InScope(m) : KeyOf(m, r) = j} : Earlier(p, q)

(* The order of the items: worst covered, then largest, then first.        *)
Ahead(m, items, i, j) ==
    LET worse == Percent(items[i]) - Percent(items[j])
        larger == items[i].spans - items[j].spans
    IN  \/ worse < 0
        \/ worse = 0 /\ larger > 0
        \/ worse = 0 /\ larger = 0 /\ ComesFirst(m, i, j)

(* "What to generate next" in write_markdown: the items with work left and *)
(* within reach, cut to the first ones of that order.                      *)
Outstanding(items) ==
    {key \in Live(items) : items[key].todo > 0 /\ items[key].state # "out of reach"}
Schedule(m, items) ==
    {key \in Outstanding(items) :
       Cardinality({other \in Outstanding(items) : Ahead(m, items, other, key)}) < ScheduleLength}

(* Mutant of Failing: an item counts as a regression once nothing is left. *)
FailingWhenLost(items, old) ==
    {key \in Live(items) :
       IF key \notin DOMAIN old THEN items[key].todo > 0
       ELSE old[key].todo = 0 /\ items[key].covered = 0 /\ items[key].todo > 0}

(* diff_plans: new holes and regressions.  An item that had something to   *)
(* do and has more is "widened" and does not fail; nor does one that is    *)
(* gone.                                                                   *)
Failing(items, old) ==
    {key \in Live(items) :
       IF key \notin DOMAIN old THEN items[key].todo > 0
       ELSE old[key].todo = 0 /\ items[key].todo > 0}

(* ---- the world between two runs ---------------------------------------- *)
Init ==
    /\ source \in DOMAIN Model
    /\ mtime = [f \in DOMAIN Model[source] |-> 1]
    /\ manifest = [built |-> source, time |-> 2]
    /\ \E c \in Corpora : log = [of |-> source, corpus |-> c, time |-> 3]
    /\ spared = source
    /\ clock = 3
    /\ events = IF source \in Edited THEN 0 ELSE MaxEvents
    /\ kept = Nothing
    /\ leaves = [l \in Leaf |-> Absent]
    /\ pc = "idle" /\ args = NoArgs /\ inputs = Nothing /\ base = Nothing
    /\ outcome = "none"
    /\ runs = IF source \in Edited THEN 0 ELSE MaxRuns - 1
    /\ kills = IF source \in Edited THEN 0 ELSE MaxKills
    /\ before = leaves

Event == /\ pc = "idle" /\ events < MaxEvents
         /\ events' = events + 1
         /\ clock' = clock + 1
         /\ UNCHANGED <<kept, leaves, pc, run, outcome, runs, kills, before>>

(* The files that differ get a new time; a file taken away leaves none.    *)
Edit(v) ==
    /\ Event
    /\ v \in Edited \ {source}
    /\ source' = v
    /\ mtime' = [f \in DOMAIN Model[v] |->
                   IF f \in DOMAIN mtime /\ Model[v][f] = Model[source][f]
                   THEN mtime[f] ELSE clock']
    /\ UNCHANGED <<manifest, log, spared>>

Build ==
    /\ Event
    /\ manifest' = [built |-> source, time |-> clock']
    /\ UNCHANGED <<source, mtime, log, spared>>

(* coverage_report.py: the log is removed and written anew by the build.   *)
Replay(c) ==
    /\ Event
    /\ log' = [of |-> manifest.built, corpus |-> c, time |-> clock']
    /\ UNCHANGED <<source, mtime, manifest, spared>>

DeriveExclusions ==
    /\ Event
    /\ spared' = source
    /\ UNCHANGED <<source, mtime, manifest, log>>

(* The plan is checked in, to be the --baseline of later runs.             *)
KeepAnything ==
    /\ pc = "idle" /\ leaves["json"] # Absent /\ kept # leaves["json"]
    /\ kept' = leaves["json"]
    /\ UNCHANGED <<world, leaves, pc, run, outcome, runs, kills, before>>

Keep ==
    /\ pc = "idle" /\ leaves["json"] \notin {Absent, Torn} /\ kept # leaves["json"]
    /\ kept' = leaves["json"]
    /\ UNCHANGED <<world, leaves, pc, run, outcome, runs, kills, before>>

Ended == args' = NoArgs /\ inputs' = Nothing /\ base' = Nothing /\ before' = leaves'

(* ---- a run --------------------------------------------------------------- *)
Start(a) ==
    /\ pc = "idle" /\ runs < MaxRuns
    /\ pc' = "read"
    /\ args' = a
    /\ runs' = runs + 1
    /\ outcome' = "none"
    /\ before' = leaves
    /\ UNCHANGED <<world, kept, leaves, inputs, base, kills>>

(* check_freshness.  Mutant: the log is not compared with the manifest.    *)
StaleModelOnly ==
    \E f \in DOMAIN mtime : mtime[f] > manifest.time
Stale ==
    \/ \E f \in DOMAIN mtime : mtime[f] > manifest.time
    \/ args.joined /\ log.time < manifest.time

Read == [version |-> source, built |-> manifest.built, only |-> args.only,
         except |-> args.except, spared |-> IF args.exclude THEN spared ELSE 0,
         corpus |-> IF args.joined THEN <<log.of, log.corpus>> ELSE <<>>]
Baseline == CASE args.baseline = "none" -> Nothing
              [] args.baseline = "kept" -> kept
              [] args.baseline = "own" -> leaves["json"]

Refused == \/ Stale /\ ~args.allow
           \/ InScope(Read) = {}
           \/ args.baseline # "none" /\ Baseline \in {Nothing, Absent, Torn}

(* Stale inputs, an empty scope, a baseline that cannot be read.           *)
Refuse ==
    /\ pc = "read"
    /\ Refused
    /\ pc' = "idle" /\ outcome' = "refused"
    /\ args' = NoArgs
    /\ UNCHANGED <<world, kept, leaves, inputs, base, runs, kills, before>>

(* "A baseline that fails to load should do so before files are replaced." *)
(* Mutant: the first file is opened before it is loaded.                   *)
LoadOpensFirst ==
    /\ pc = "read"
    /\ ~(Stale /\ ~args.allow) /\ InScope(Read) # {}
    /\ inputs' = Read
    /\ base' = Baseline
    /\ IF Refused
       THEN /\ pc' = "idle" /\ outcome' = "refused"
            /\ leaves' = [leaves EXCEPT !["spans"] = Torn]
       ELSE pc' = "spans" /\ UNCHANGED <<leaves, outcome>>
    /\ UNCHANGED <<world, kept, args, runs, kills, before>>

Load ==
    /\ pc = "read"
    /\ ~Refused
    /\ inputs' = Read
    /\ base' = Baseline
    /\ pc' = "spans"
    /\ UNCHANGED <<world, kept, leaves, args, outcome, runs, kills, before>>

After(l) == CASE l = "spans" -> "csv" [] l = "csv" -> "json" [] l = "json" -> "md"
              [] l = "md" -> "exit"
Write(l) ==
    /\ pc = l
    /\ leaves' = [leaves EXCEPT ![l] = inputs]
    /\ pc' = After(l)
    /\ UNCHANGED <<world, kept, run, outcome, runs, kills, before>>

Exit ==
    /\ pc = "exit"
    /\ pc' = "idle"
    /\ outcome' = IF ~args.gate THEN "ok"
                  ELSE IF base = Nothing THEN "needs baseline"
                  ELSE IF Failing(Items(inputs), Items(base)) # {} THEN "new holes" ELSE "ok"
    /\ UNCHANGED <<world, kept, leaves, runs, kills>>
    /\ Ended

(* The file being written is left open and short.                          *)
Die ==
    /\ pc # "idle" /\ kills < MaxKills
    /\ kills' = kills + 1
    /\ leaves' = IF pc \in Leaf THEN [leaves EXCEPT ![pc] = Torn] ELSE leaves
    /\ pc' = "idle" /\ outcome' = "killed"
    /\ UNCHANGED <<world, kept, runs>>
    /\ Ended

Next ==
    \/ \E v \in DOMAIN Model : Edit(v)
    \/ Build
    \/ \E c \in Corpora : Replay(c)
    \/ DeriveExclusions
    \/ Keep
    \/ \E a \in Arguments : Start(a)
    \/ Refuse
    \/ Load
    \/ \E l \in Leaf : Write(l)
    \/ Exit
    \/ Die

Spec == Init /\ [][Next]_vars
=============================================================================
