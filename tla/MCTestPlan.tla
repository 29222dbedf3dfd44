------------------------------ MODULE MCTestPlan ------------------------------
(* Programs, the lines they are printed to, and the versions of a model    *)
(* made of them.                                                           *)
EXTENDS TestPlanProps, TLC

Plain == [def |-> <<>>, params |-> {}, head |-> 0, open |-> 0, close |-> 0, cond |-> "",
          on |-> "", arm |-> "", table |-> FALSE, entry |-> <<>>, calls |-> {}, rules |-> {},
          branches |-> FALSE, blank |-> FALSE, plumbing |-> FALSE, span |-> FALSE,
          text |-> "", test |-> "",
          really |-> [owner |-> <<"", "">>, chain |-> <<>>, arm |-> <<>>, insn |-> "",
                      plumbing |-> FALSE]]

(* Statements, if chains and matches.  A branch is <<condition, body>>, an *)
(* arm <<pattern, body>>.                                                  *)
Do(test, calls, rules) == [t |-> "do", test |-> test, calls |-> calls, rules |-> rules]
Ifs(branches, else) == [t |-> "if", branches |-> branches, else |-> else]
On(x, arms) == [t |-> "match", on |-> x, arms |-> arms]

RulesOf(c) == CASE c = "menvcfg[FIOM]" -> {"csv_field", "csr_field"}
                [] c = "pmpTOR" -> {"pmp"} [] OTHER -> {}
Mnem == [ADDI |-> "addi", SLTI |-> "slti"]
RECURSIVE Body(_, _), BranchLines(_, _, _), ArmLines(_, _, _)
Statement(n, c) ==
    [Plain EXCEPT !.span = TRUE, !.test = n.test, !.calls = n.calls, !.rules = n.rules,
                  !.text = n.test, !.really = c]
Close == [Plain EXCEPT !.head = 1, !.close = 1]
BranchLines(n, c, j) ==
    LET cond == IF j = 1 THEN n.branches[j][1] ELSE "else if " \o n.branches[j][1]
        last == IF j = 1 THEN 0 ELSE 1           \* closes the branch before
    IN  IF j > Len(n.branches) THEN <<>>
        ELSE <<[Plain EXCEPT !.head = last, !.close = last, !.open = 1, !.cond = cond,
                             !.branches = TRUE, !.rules = RulesOf(n.branches[j][1])]>>
             \o Body(n.branches[j][2], [c EXCEPT !.chain = Append(@, cond)])
             \o BranchLines(n, c, j + 1)
ArmLines(n, c, j) ==
    LET p == n.arms[j][1]
        body == n.arms[j][2]
        inside == [c EXCEPT !.chain = Append(@, "match " \o n.on), !.arm = <<n.on, p>>,
                            !.insn = IF n.on = "op" /\ c.owner[1] = "execute" /\ p \in DOMAIN Mnem THEN Mnem[p] ELSE ""]
    IN  IF j > Len(n.arms) THEN <<>>
        ELSE (IF Len(body) = 1 /\ body[1].t = "do"
              THEN <<[Statement(body[1], inside) EXCEPT !.arm = p]>>
              ELSE <<[Plain EXCEPT !.arm = p, !.open = 1]>> \o Body(body, inside) \o <<Close>>)
             \o ArmLines(n, c, j + 1)
Node(n, c) ==
    CASE n.t = "do" -> <<Statement(n, c)>>
      [] n.t = "if" ->
           BranchLines(n, c, 1)
           \o (IF n.else = <<>> THEN <<>>
               ELSE <<[Close EXCEPT !.open = 1, !.cond = "else"]>>
                    \o Body(n.else, [c EXCEPT !.chain = Append(@, "else")]))
           \o <<Close>>
      [] n.t = "match" ->
           <<[Plain EXCEPT !.open = 1, !.on = n.on, !.cond = "match " \o n.on, !.branches = TRUE]>>
           \o ArmLines(n, c, 1) \o <<Close>>
Body(b, c) == IF b = <<>> THEN <<>> ELSE Node(Head(b), c) \o Body(Tail(b), c)

(* Definitions, each followed by an empty line.                            *)
Fn(kind, name, params, body) ==
    LET is == [Plain.really EXCEPT !.owner = <<kind, name>>]
    IN  <<[Plain EXCEPT !.def = <<kind, name>>, !.params = params, !.open = 1]>>
        \o Body(body, is)
        \o <<Close, [Plain EXCEPT !.blank = TRUE]>>
Printed(name, kind) == [Plain.really EXCEPT !.owner = <<kind, name>>, !.plumbing = TRUE]
Table(name, entries) ==
    <<[Plain EXCEPT !.def = <<"mapping", name>>, !.table = TRUE, !.plumbing = TRUE, !.open = 1]>>
    \o [j \in DOMAIN entries |->
          [Plain EXCEPT !.entry = entries[j], !.span = TRUE, !.text = entries[j][1],
                        !.really = Printed(name, "mapping")]]
    \o <<Close, [Plain EXCEPT !.blank = TRUE]>>
Clause(name) ==
    <<[Plain EXCEPT !.def = <<"mapping_clause", name>>, !.plumbing = TRUE, !.span = TRUE,
                    !.text = name, !.really = Printed(name, "mapping_clause")],
      [Plain EXCEPT !.blank = TRUE]>>

(* A definition on one line, with the span it is.                          *)
OneLine(kind, name, test, calls) ==
    <<[Plain EXCEPT !.def = <<kind, name>>, !.calls = calls \cup {name}, !.span = TRUE,
                    !.test = test, !.text = test, !.really.owner = <<kind, name>>],
      [Plain EXCEPT !.blank = TRUE]>>

Names == Table("itype_mnemonic", <<<<"ADDI", "addi">>, <<"SLTI", "slti">>>>)
Itype(body) == Fn("execute", "ITYPE", {"op", "rs1"}, body)
OnOp(b1, b2) == On("op", <<<<"ADDI", b1>>, <<"SLTI", b2>>>>)
Help(name, calls) == Fn("function", name, {}, <<Do("t_help", calls, {})>>)

(* ---- versions the workflow edits among --------------------------------- *)
FileI == <<"extensions", "I", "base.sail">>
FilePmp == <<"pmp", "control.sail">>
FileC == <<"extensions", "C", "misc.sail">>
BaseI == Names \o Itype(<<OnOp(<<Do("t_addi", {"wrap"}, {})>>, <<Do("t_slti", {}, {})>>)>>)
         \o Fn("function", "wrap", {}, <<Do("t_addi", {"sum3"}, {})>>)
BasePmp == Clause("csr_name_map")
           \o Fn("function", "pmpCheck", {}, <<Ifs(<<<<"pmpTOR", <<Do("t_pmp", {}, {"pmp"})>>>>>>,
                                                   <<Do("t_addi", {}, {"pmp"})>>)>>)
           \o Fn("function", "pmp_to_str", {}, <<Do("", {}, {})>>)
FileCs == Fn("execute", "C_NOP", {}, <<Do("t_nop", {}, {})>>)
V1 == FileI :> BaseI @@ FilePmp :> BasePmp @@ FileC :> FileCs
(* A helper is put in front; a branch is added; a file is taken away.      *)
V2 == FileI :> Fn("function", "sum3", {}, <<Do("t_addi", {}, {})>>) \o BaseI
      @@ FilePmp :> BasePmp \o Fn("function", "pmpWrite", {}, <<Do("t_lock", {}, {"csr_field"})>>)
      @@ FileC :> FileCs
V3 == FileI :> BaseI @@ FilePmp :> BasePmp

(* ---- programs for the index -------------------------------------------- *)
Leafs == <<<<Do("t_a", {}, {})>>, <<Do("t_b", {}, {}), Do("t_a", {}, {"pmp"})>>>>
Nest(bodies) == <<>> \o [k \in 1 .. 5 * Len(bodies) |->
    LET b == bodies[1 + (k - 1) \div 5]
        a == <<Do("t_a", {}, {})>>
    IN  CASE k % 5 = 0 -> <<Ifs(<<<<"c", b>>>>, <<>>), Do("t_a", {}, {})>>
          [] k % 5 = 1 -> <<Ifs(<<<<"c", b>>, <<"menvcfg[FIOM]", <<Do("t_b", {}, {})>>>>>>, b)>>
          [] k % 5 = 2 -> <<Do("t_b", {}, {}), OnOp(b, a)>>
          [] k % 5 = 3 -> <<OnOp(a, b), Do("t_b", {}, {})>>
          [] k % 5 = 4 -> <<On("width", <<<<"BYTE", b>>, <<"_", a>>>>)>>]
Trial(b) == FileI :> Names \o Itype(b) \o Help("tail", {})
Called(b) == FileI :> Fn("function", "helper", {}, b) \o Itype(<<Do("t_a", {"helper"}, {})>>)
(* Acyclic call graphs over three helpers and two clauses.                 *)
Digit(k, div, S) == S[1 + ((k \div div) % Len(S))]
Graph(k) == FileI :>
    Names
    \o Itype(<<OnOp(<<Do("t_addi", Digit(k, 1, <<{}, {"h1"}, {"h2"}, {"h3"}>>), {})>>,
                    <<Do("t_slti", Digit(k, 4, <<{}, {"h1", "h3"}>>), {})>>)>>)
    \o Help("h1", {}) \o Help("h2", Digit(k, 8, <<{}, {"h1"}>>))
    \o Help("h3", Digit(k, 16, <<{}, {"h1"}, {"h2"}, {"h1", "h2"}>>))
    \o Fn("execute", "LUI", {},
          <<Do("t_lui", Digit(k, 64, <<{}, {"h1"}, {"h3"}, {"h2", "h3"}>>), {})>>)
(* A helper called on one line, from a helper or an instruction; and both. *)
OneLiners == <<
    Help("h1", {}) \o OneLine("function", "h2", "t_help", {"h1"})
      \o Fn("execute", "LUI", {}, <<Do("t_lui", {"h2"}, {})>>),
    Help("h1", {}) \o OneLine("execute", "LUI", "t_lui", {"h1"}),
    Help("h1", {}) \o OneLine("execute", "LUI", "t_lui", {"h1"})
      \o OneLine("function", "h2", "t_help", {"h1"})
      \o Itype(<<Do("t_a", {"h1", "h2"}, {})>>)>>

MCVersions ==
    LET one == Nest(Leafs)
        bodies == Leafs \o one \o Nest(one)
    IN  <<V1, V2, V3>> \o [k \in DOMAIN bodies |-> Trial(bodies[k])]
        \o [k \in DOMAIN one |-> Called(one[k])] \o [k \in 1 .. 256 |-> Graph(k)]
        \o [k \in DOMAIN OneLiners |-> FileI :> OneLiners[k]]
MCFileNames == <<FileC, FileI, FilePmp>>

MCCorpora == {{"t_addi", "t_slti", "t_nop", "t_a", "t_help"},
              {"t_addi", "t_pmp", "t_b", "t_lui"}}
Run(a, e, b, g) == [NoArgs EXCEPT !.joined = TRUE, !.allow = a, !.exclude = e,
                                  !.baseline = b, !.gate = g]
MCArguments == {
    Run(FALSE, TRUE, "kept", TRUE), Run(FALSE, FALSE, "own", TRUE),
    Run(TRUE, TRUE, "kept", TRUE),
    [Run(FALSE, TRUE, "none", TRUE) EXCEPT !.only = {"I", "pmp"}, !.except = {"pmp"}],
    [Run(FALSE, TRUE, "none", FALSE) EXCEPT !.except = {"I"}], [NoArgs EXCEPT !.only = {"K"}]}
MCRenderers == {"pmp_to_str"}
MCLibrary == {<<<<"/", "prelude.sail">>, 7>>}
=============================================================================
