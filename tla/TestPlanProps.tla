----------------------------- MODULE TestPlanProps -----------------------------
(***************************************************************************)
(* What a plan promises.  Beside what the patterns see, a line carries     *)
(* what it really is, `really`: [owner, chain, arm, insn, plumbing], from  *)
(* the program it was printed from; insn is the instruction whose opcode   *)
(* an arm discriminates.                                                   *)
(***************************************************************************)
EXTENDS TestPlan, CaseLists

Line(p) == Model[source][p[1]][p[2]]
LiveSpans == {p \in AllSpans[source] : args.only = {} \/ Feature(p[1]) \in args.only \ args.except}
Executed(p) == args.joined /\ Line(p).test \in log.corpus

(* The sources a plan is made from: finitely many spans, none of them in   *)
(* the library's files and each in a definition, which has a name; and     *)
(* what derive_span_exclusions.py finds in a version is what only prints,  *)
(* parses or decodes there.                                                *)
ASSUME SourcesAssumption ==
    /\ IsFiniteSet(Library)
    /\ \A v \in DOMAIN Model :
          /\ IsFiniteSet(AllSpans[v]) /\ AllSpans[v] \cap Library = {}
          /\ \A p \in AllSpans[v] :
                /\ KeyIn(Ladders[v][p])[2] # "file"
                /\ p \in Spared[v] <=> Model[v][p[1]][p[2]].really.plumbing
    /\ \A a \in Arguments : a.baseline \in {"none", "kept", "own"} /\ a.gate \in BOOLEAN

(* The instructions that lines of a constructor's execute clause are for.  *)
InstructionsOf(v, ctor) ==
    OrItself({Model[v][p[1]][p[2]].really.insn : p \in
                {q \in AllSpans[v] : Model[v][q[1]][q[2]].really.owner = <<"execute", ctor>>}}
             \ {""}, ctor)

(* The blocks and matches a line is in, by the braces: opened above it, at *)
(* a depth that no line since has fallen below when it is read.            *)
Blocks(lines, k) ==
    {j \in 1 .. k - 1 : lines[j].cond # ""
        /\ \A i \in j + 1 .. k : Depths(lines)[j] <= Depths(lines)[i - 1] - lines[i].head}
Matches(lines, k) ==
    {j \in 1 .. k - 1 : lines[j].on # ""
        /\ \A i \in j + 1 .. k : Depths(lines)[j] <= Depths(lines)[i - 1]}
Conditions(lines, k) ==
    LET around == Those(lines, Blocks(lines, k)) IN [n \in DOMAIN around |-> around[n].cond]

(* Where arms of the match at j start, not later than line k: in its body  *)
(* and in no match within.  The arm around a line is the last to start, of *)
(* the innermost match that has one.                                       *)
ArmStarts(lines, j, k) ==
    {m \in j + 1 .. k : lines[m].arm # "" /\ Depths(lines)[m - 1] = Depths(lines)[j]
        /\ j \in Matches(lines, m) /\ j = MaxOf(Matches(lines, m))}
ArmAround(lines, k) ==
    LET around == {j \in Matches(lines, k) : ArmStarts(lines, j, k) # {}}
        inner == MaxOf(around)
    IN  IF around = {} THEN <<>>
        ELSE <<lines[inner].on, lines[MaxOf(ArmStarts(lines, inner, k))].arm>>

(* A line that ends by opening a block closes no more braces behind its    *)
(* head than it opens.                                                     *)
WellLaid(lines) ==
    /\ Len(lines) \in Nat /\ DOMAIN lines = 1 .. Len(lines)
    /\ \A k \in DOMAIN lines :
          /\ {lines[k].open, lines[k].close, lines[k].head} \subseteq Nat
          /\ lines[k].cond # "" => lines[k].close - lines[k].head <= lines[k].open
          /\ lines[k].on # "" => lines[k].close <= lines[k].open

(* The definition at n is the one line k is in, as definitions do not nest.*)
InDefinition(lines, k, n) ==
    /\ n \in 1 .. k /\ lines[n].def # <<>>
    /\ \A m \in n + 1 .. k : lines[m].def = <<>>

(* How the sources are laid out: a line is in one definition, and in the   *)
(* blocks and matches that the braces put around it; no function bears the *)
(* name of a constructor; and in an execute clause that calls something,   *)
(* the arms that discriminate an opcode name the instructions its lines    *)
(* are for.                                                                *)
ASSUME StructureAssumption ==
    /\ Limit \in Nat \ {0} /\ Depth \in Nat
    /\ \A v \in DOMAIN Model :
          /\ IsFiniteSet(Definitions(Model[v]))
          /\ \A f \in DOMAIN Model[v] : WellLaid(Model[v][f])
          /\ \A p \in AllSpans[v] :
                LET lines == Model[v][p[1]]
                    is == lines[p[2]].really
                IN  /\ \E n \in 1 .. p[2] : /\ InDefinition(lines, p[2], n)
                                            /\ lines[n].def = is.owner
                    /\ is.chain = Conditions(lines, p[2])
                    /\ is.arm = ArmAround(lines, p[2])
                    /\ is.insn # "" =>
                          /\ is.owner[1] = "execute" /\ is.arm # <<>> /\ is.arm[2] # "_"
                          /\ IsOpcodeMatch(Model[v], is.owner[2], is.arm[1])
                          /\ MnemonicOf(Model[v], p[1], is.arm[2]) = is.insn
                    /\ is.owner[1] = "function" => is.owner[2] \notin ExecuteNames(Model[v])
          /\ \A ctor \in {c[1] : c \in Calls(Model[v])} \cap ExecuteNames(Model[v]) :
                Targets(Model[v], ctor) = InstructionsOf(v, ctor)

(* Types; a baseline that was checked in is a plan, never a torn file.     *)
TypeOK ==
    /\ source \in DOMAIN Model /\ DOMAIN mtime = DOMAIN Model[source]
    /\ manifest.built \in DOMAIN Model /\ log.of \in DOMAIN Model
    /\ spared \in DOMAIN Model
    /\ \A t \in {manifest.time, log.time} \cup {mtime[f] : f \in DOMAIN mtime} : t \in 1 .. clock
    /\ kept = Nothing \/ kept.version > 0
    /\ \A l \in Leaf : leaves[l] \in {Absent, Torn} \/ leaves[l].version > 0
    /\ pc \in {"idle", "read", "exit"} \cup Leaf
    /\ args \in Arguments \cup {NoArgs}
    /\ outcome \in {"none", "refused", "killed", "ok", "new holes", "needs baseline"}
    /\ runs \in 0 .. MaxRuns /\ kills \in 0 .. MaxKills /\ events \in 0 .. MaxEvents

(* A plan written without --allow-stale is about the model on disk: every  *)
(* span of the sources is counted, with the line it really is, as covered  *)
(* exactly if the last replay executed it and, if the exclusions are of    *)
(* this model, as excluded exactly if it only prints or decodes.  An item  *)
(* counts the spans under its key, and is complete when nothing live of it *)
(* is left, and then only.  What is scheduled has work left and within     *)
(* reach; what has, and is not, gives way to ScheduleLength others that    *)
(* have and are no better covered (testplan.py:985 calls them the largest; *)
(* size decides only between equals).                                      *)
PlanTellsTheTruth ==
    pc = "exit" /\ ~args.allow /\ (args.exclude => spared = source) =>
        LET items == Items(inputs)
            dead(p) == args.exclude /\ Line(p).really.plumbing
            with(key) == {p \in LiveSpans : KeyOf(inputs, p) = key /\ ~dead(p)}
        IN  /\ LiveSpans \subseteq InScope(inputs)
            /\ \A p \in LiveSpans :
                 /\ Ladders[source][p].source = Line(p).text
                 /\ Status(inputs, p) = IF dead(p) THEN "excluded"
                                        ELSE IF Executed(p) THEN "covered" ELSE "todo"
            /\ \A key \in {KeyOf(inputs, p) : p \in LiveSpans} :
                 LET left == {p \in with(key) : ~Executed(p)}
                     reachable == key[3] \notin OUT_OF_REACH /\ left # {}
                 IN  /\ items[key].spans = Cardinality(with(key))
                     /\ items[key].todo = Cardinality(left)
                     /\ items[key].state = "complete" <=> with(key) # {} /\ left = {}
                     /\ key \in Schedule(inputs, items) => reachable
                     /\ reachable /\ key \notin Schedule(inputs, items) =>
                           ScheduleLength <= Cardinality(
                              {other \in Outstanding(items) \ {key} :
                                 Percent(items[other]) <= Percent(items[key])})

(* A row names the definition its line is in, the match arm it is under    *)
(* and every condition that must hold, outermost first; an arm that tells  *)
(* instructions apart becomes a target of its own.                         *)
RowsFollowStructure ==
    pc = "exit" /\ ~args.allow =>
        \A p \in LiveSpans :
            LET row == Ladders[source][p]
                is == Line(p).really
            IN  /\ row.owner = is.owner /\ row.arm = is.arm /\ row.chain = is.chain
                /\ is.insn # "" => row.target = is.insn /\ row.stimulus = "instruction_variant"

(* <<definition, name it applies>>: on any line that belongs to it, or on  *)
(* a line below the one it starts on.                                      *)
Code == {"execute", "function", "function_clause"}
LinesOf(src, d) == {k \in DOMAIN src[d[1]] : InDefinition(src[d[1]], k, d[2])}
Applies(src) ==
    UNION {UNION {{NameOf(src, d)} \X src[d[1]][k].calls : k \in LinesOf(src, d)} :
             d \in {e \in Definitions(src) : KindOf(src, e) \in Code}}
AppliesBelow(src) ==
    UNION {UNION {{NameOf(src, d)} \X src[d[1]][k].calls : k \in LinesOf(src, d) \ {d[2]}} :
             d \in {e \in Definitions(src) : KindOf(src, e) \in Code}}

(* The instructions whose execution reaches a function in n calls or less. *)
InstructionsWithin(n, calls, func) ==
    LET execs == ExecuteNames(Model[source])
        within[j \in 0 .. n] ==
          IF j = 0 THEN {func}
          ELSE within[j - 1] \cup
               {c[1] : c \in {e \in calls : e[2] \in within[j - 1] \ execs}}
    IN  UNION {InstructionsOf(source, c) : c \in within[n] \cap execs}

(* The spans of helpers, with no guard of their own that says more.        *)
HelperSpans == {p \in LiveSpans : /\ Line(p).really.owner[1] = "function"
                                  /\ Line(p).really.owner[2] \notin Renderers
                                  /\ Line(p).rules = {}}

(* A helper's span is to be reached through instructions, if any reach it  *)
(* by calls below the first lines of definitions: those that do within     *)
(* Depth calls are named, unless Limit are, and an instruction that is     *)
(* named executes the helper, whatever line the calls are on.  What only   *)
(* calls on first lines lead to is missed, for all that testplan.py:329    *)
(* says ("over-approximate ... rather than miss a caller").                *)
HelpersAreReached ==
    pc = "exit" /\ ~args.allow =>
        \A p \in HelperSpans :
            LET row == Ladders[source][p]
                below == InstructionsWithin(Depth, AppliesBelow(Model[source]), row.owner[2])
            IN  /\ row.stimulus = "helper_function" <=> below # {}
                /\ row.named \subseteq
                       InstructionsWithin(Depth, Applies(Model[source]), row.owner[2])
                /\ Cardinality(row.named) < Limit => below \subseteq row.named

(* --fail-on-new-holes: an exit of zero from fresh inputs means that a     *)
(* span nothing executes belongs to an item that had something left to do  *)
(* in the baseline, as it was when the run began.  Such an item may have   *)
(* grown: the gate stops targets, not spans.                               *)
GateStopsNewTargets ==
    [][pc = "exit" /\ pc' = "idle" /\ outcome' = "ok" /\ args.gate /\ ~args.allow
         /\ (args.exclude => spared = source) =>
         LET old == IF args.baseline = "own" THEN before["json"] ELSE kept
         IN  \A p \in LiveSpans :
                Executed(p) \/ (args.exclude /\ Line(p).really.plumbing)
                \/ /\ KeyOf(inputs, p) \in DOMAIN Items(old)
                   /\ Items(old)[KeyOf(inputs, p)].todo > 0]_vars

(* A run that stops for its inputs leaves the plan that is there.          *)
RefusalKeepsPlan == outcome = "refused" /\ pc = "idle" => leaves = before
=============================================================================
