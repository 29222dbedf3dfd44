------------------------------- MODULE SailIndex -------------------------------
(***************************************************************************)
(* python-isla/testplan.py, SailIndex and classify: what a line of the     *)
(* Sail model belongs to, under which conditions it runs, and which        *)
(* stimulus reaches it.  derive_span_exclusions.py reads the same sources. *)
(* A source maps a file to its lines.  A line is what the patterns of the  *)
(* code see in it, comments removed:                                       *)
(*   def, params    <<kind, name>> of a definition that starts here        *)
(*   head, open, close   `}` before the first `{`, all `{`, all `}`        *)
(*   cond, on, arm  the condition or `match` that the line ends by opening,*)
(*                  the pattern of a match arm that starts here; "" if not *)
(*   table, entry   opens a string mapping; <<constructor, mnemonic>>      *)
(*   calls, rules   names applied; RULES that match                        *)
(*   branches, blank, plumbing   has if/match/when; is empty; starts a     *)
(*                  mapping that only prints, parses or decodes            *)
(*   text           the source text, as an identity                        *)
(***************************************************************************)
EXTENDS Integers, Sequences, FiniteSets

CONSTANTS Limit, Depth     \* of reaching_instructions: 8 names, 6 callers deep

Starts(lines) == {k \in DOMAIN lines : lines[k].def # <<>>}
MaxOf(S) == CHOOSE x \in S : \A y \in S : y <= x
Last(lines, k) ==
    LET later == {n \in Starts(lines) : n > k}
    IN  IF later = {} THEN Len(lines) ELSE (CHOOSE x \in later : \A y \in later : x <= y) - 1
Owner(lines, k) ==
    LET above == {n \in Starts(lines) : n <= k}
    IN  IF above = {} \/ k > Len(lines) THEN <<"", "">> ELSE lines[MaxOf(above)].def

(* The depth of the braces after each line, from 0.                        *)
Depths(lines) ==
    LET after[k \in 0 .. Len(lines)] ==
          IF k = 0 THEN 0 ELSE after[k - 1] + lines[k].open - lines[k].close
    IN  after

(* A stack of scopes without those a line of this depth has fallen out of. *)
Popped(stack, depth) ==
    SubSeq(stack, 1, MaxOf({0} \cup {i \in DOMAIN stack : stack[i].depth <= depth}))

(* The conditions that guard each line, outermost first; at[k] is the      *)
(* depth line k is read at.                                                *)
ChainsRead(lines, at) ==
    LET after == Depths(lines)
        stack[k \in 0 .. Len(lines)] ==
          IF k = 0 THEN <<>>
          ELSE LET open == Popped(stack[k - 1], at[k])
               IN  IF lines[k].cond = "" THEN open
                   ELSE Append(open, [depth |-> after[k], cond |-> lines[k].cond])
    IN  [k \in DOMAIN lines |->
           LET open == Popped(stack[k - 1], at[k]) IN [j \in DOMAIN open |-> open[j].cond]]

(* Mutant of Chains: the `}` of `} else if c then {` closes nothing first. *)
ChainsByLine(lines) ==
    ChainsRead(lines, [k \in DOMAIN lines |-> Depths(lines)[k - 1]])

(* The `}` at the head of a line are applied before it is read.            *)
Chains(lines) ==
    ChainsRead(lines, [k \in DOMAIN lines |-> Depths(lines)[k - 1] - lines[k].head])

(* The match scopes: depth of the body, scrutinee, arm being read.  Those  *)
(* fallen out of are closed, an arm may start at the depth of the          *)
(* innermost body only, and `match x {` opens a scope for the lines below. *)
(* The answer is the innermost arm around each line.                       *)
Entered(stack, line, depth) ==
    LET open == Popped(stack, depth)
        top == Len(open)
    IN  IF top > 0 /\ line.arm # "" /\ open[top].depth = depth
        THEN [open EXCEPT ![top].arm = line.arm] ELSE open
Innermost(stack) ==
    LET armed == {i \in DOMAIN stack : stack[i].arm # ""}
    IN  IF armed = {} THEN <<>> ELSE <<stack[MaxOf(armed)].on, stack[MaxOf(armed)].arm>>
Arms(lines) ==
    LET after == Depths(lines)
        stack[k \in 0 .. Len(lines)] ==
          IF k = 0 THEN <<>>
          ELSE LET now == Entered(stack[k - 1], lines[k], after[k - 1])
               IN  IF lines[k].on = "" THEN now
                   ELSE Append(now, [depth |-> after[k], on |-> lines[k].on, arm |-> ""])
    IN  [k \in DOMAIN lines |-> Innermost(Entered(stack[k - 1], lines[k], after[k - 1]))]

(* The model's own table of what a constructor is called in assembly.      *)
Mnemonics(lines) ==
    LET scan[k \in 0 .. Len(lines)] ==
          IF k = 0 THEN [inside |-> FALSE, depth |-> 0, found |-> {}]
          ELSE LET old == scan[k - 1]
                   depth == (IF old.inside THEN old.depth ELSE 0)
                            + lines[k].open - lines[k].close
               IN  IF ~old.inside
                   THEN [old EXCEPT !.inside = lines[k].table, !.depth = depth]
                   ELSE [inside |-> depth > 0, depth |-> depth,
                         found |-> IF lines[k].entry = <<>> THEN old.found
                                   ELSE old.found \cup {lines[k].entry}]
    IN  scan[Len(lines)].found

(* ---- the whole model ------------------------------------------------- *)
Definitions(src) == UNION {{f} \X Starts(src[f]) : f \in DOMAIN src}
KindOf(src, d) == src[d[1]][d[2]].def[1]
NameOf(src, d) == src[d[1]][d[2]].def[2]
Executes(src) == {d \in Definitions(src) : KindOf(src, d) = "execute"}

(* Same-file first: two extensions can reuse a constructor name.           *)
MnemonicOf(src, f, ctor) ==
    LET here == {e \in Mnemonics(src[f]) : e[1] = ctor}
        any == {e \in UNION {Mnemonics(src[g]) : g \in DOMAIN src} : e[1] = ctor}
    IN  CASE here # {} -> (CHOOSE e \in here : TRUE)[2]
          [] here = {} /\ any # {} -> (CHOOSE e \in any : TRUE)[2]
          [] OTHER -> ""

(* Only a match on an operand of the clause tells instructions apart.      *)
IsOpcodeMatch(src, ctor, scrutinee) ==
    \E d \in Executes(src) : /\ NameOf(src, d) = ctor
                             /\ scrutinee \in src[d[1]][d[2]].params

Callables == {"function", "function_clause", "val", "mapping", "mapping_clause",
              "execute"}
(* <<caller, callee>>: names applied below the first line of a definition. *)
Calls(src) ==
    LET known == {NameOf(src, d) : d \in {e \in Definitions(src) : KindOf(src, e) \in Callables}}
        body(d) == UNION {src[d[1]][k].calls : k \in d[2] + 1 .. Last(src[d[1]], d[2])}
        callers == {d \in Definitions(src) :
                      KindOf(src, d) \in {"execute", "function", "function_clause"}}
    IN  UNION {{NameOf(src, d)} \X ((body(d) \cap known) \ {NameOf(src, d)}) : d \in callers}

(* The mnemonics the arms of an execute clause can produce.                *)
ArmsOf(lines, first) == {Arms(lines)[k] : k \in first .. Last(lines, first)} \ {<<>>}
OrItself(names, ctor) == IF names = {} THEN {ctor} ELSE names
Targets(src, ctor) ==
    OrItself(UNION {{MnemonicOf(src, d[1], a[2]) :
                       a \in {b \in ArmsOf(src[d[1]], d[2]) :
                                b[2] # "_" /\ IsOpcodeMatch(src, ctor, b[1])}} :
                      d \in {e \in Executes(src) : NameOf(src, e) = ctor}} \ {""}, ctor)

(* One level further from callees to their callers, until Limit names are  *)
(* found or nobody else calls.                                             *)
Widen(src, calls, execs, old) ==
    LET new == {e[1] : e \in {c \in calls : c[2] \in old.frontier}} \ old.seen
        found == old.found \cup (new \cap execs)
    IN  IF old.over THEN old
        ELSE [seen |-> old.seen \cup new, frontier |-> new \ execs, found |-> found,
              over |-> \/ Cardinality(UNION {Targets(src, c) : c \in found}) >= Limit
                       \/ new \subseteq execs]
FirstNames(all) == [named |-> IF Cardinality(all) <= Limit THEN all
                              ELSE CHOOSE S \in SUBSET all : Cardinality(S) = Limit,
                    more |-> Cardinality(all) > Limit]
Reach(src, calls, execs, func) ==
    LET level[n \in 0 .. Depth] ==
          IF n = 0 THEN [seen |-> {func}, frontier |-> {func}, found |-> {}, over |-> FALSE]
          ELSE Widen(src, calls, execs, level[n - 1])
    IN  FirstNames(UNION {Targets(src, c) : c \in level[Depth].found})
ExecuteNames(src) == {NameOf(src, d) : d \in Executes(src)}

(* Mutant: who is called is taken for who calls.                           *)
ReachedForwards(src, func) ==
    Reach(src, {<<c[2], c[1]>> : c \in Calls(src)}, ExecuteNames(src), func)

(* Callers back to the execute clauses, Depth levels at most.  `more` is   *)
(* whether names were cut off, not whether callers were left unvisited.    *)
ReachingInstructions(src, func) == Reach(src, Calls(src), ExecuteNames(src), func)

(* ---- classify: the first rule that matches ---------------------------- *)
RULES == <<"naming_mapping", "model_callback", "hypervisor", "privilege", "csr_field",
           "configuration", "extension_gate", "xlen", "translation", "pmp", "memory_op",
           "fault_path", "operand_value">>
(* Their patterns match at the start of the text only.                     *)
Anchored == {"naming_mapping", "model_callback", "privilege"}

Classify(matching) ==
    LET hits == {j \in DOMAIN RULES : RULES[j] \in matching}
    IN  IF hits = {} THEN "unclassified" ELSE RULES[CHOOSE j \in hits : \A i \in hits : j <= i]

(* The rules that match the last three branching lines of the fourteen     *)
(* above a line, or above where it would be, joined into one text.         *)
RulesAbove(lines, k) ==
    LET last == IF k > Len(lines) THEN Len(lines) ELSE k - 1
        near == SelectSeq([j \in 1 .. last |-> j],
                          LAMBDA j : j >= k - 14 /\ lines[j].branches)
        above == SubSeq(near, IF Len(near) > 3 THEN Len(near) - 2 ELSE 1, Len(near))
    IN  UNION {IF j = 1 THEN lines[above[j]].rules ELSE lines[above[j]].rules \ Anchored :
                 j \in DOMAIN above}
RulesAround(lines, k) == lines[k].rules \cup RulesAbove(lines, k)

(* ---- derive_span_exclusions.py ----------------------------------------- *)
(* _block_end: a mapping ends where its braces close, or, before there is  *)
(* any, at the first blank line.  Mutant: it ends at the next brace.       *)
BlockEndAtBrace(lines, first) ==
    LET ends(k) == k > first /\ lines[k].close > 0
        at == {k \in first .. Len(lines) : ends(k)}
    IN  IF at = {} THEN Len(lines) ELSE CHOOSE k \in at : \A n \in at : k <= n

BlockEnd(lines, first) ==
    LET scan[k \in first - 1 .. Len(lines)] ==
          IF k < first THEN [depth |-> 0, seen |-> FALSE]
          ELSE LET old == scan[k - 1]
               IN  [depth |-> old.depth + lines[k].open - lines[k].close,
                    seen |-> old.seen \/ lines[k].open > 0]
        closed == {k \in first .. Len(lines) : scan[k].seen /\ scan[k].depth <= 0}
        blank == {k \in first + 1 .. Len(lines) : ~scan[k].seen /\ lines[k].blank}
        ends == closed \cup {k - 1 : k \in blank} \cup {Len(lines)}
    IN  CHOOSE k \in ends : \A n \in ends : k <= n

(* Lines in a mapping that only prints, parses or decodes.                 *)
Exclusions(src) ==
    UNION {UNION {{<<f, n>> : n \in k .. BlockEnd(src[f], k)} :
                    k \in {j \in DOMAIN src[f] : src[f][j].plumbing}} : f \in DOMAIN src}
=============================================================================
