----------------------------- MODULE OpcodeRender -----------------------------
(***************************************************************************)
(* python-isla/model_opcodes.py: from an assembly clause of the Sail model *)
(* to what isla-testgen is given.  A clause is                             *)
(*   union      its name in the model                                      *)
(*   template   its parts: [head, texts, bits], the function applied with  *)
(*              the literal, the rows of its string table or its width     *)
(*   guard      the XLEN its `when` guard demands, 0 for none              *)
(*   lacks      external: <<mnemonic, XLEN>> that are no instructions      *)
(*   exact      external: it takes no rounding mode                        *)
(* A mnemonic is the sequence of the texts its parts contribute, cut where *)
(* a test of the code on the mnemonic cuts it.  Reading the clauses out of *)
(* the Sail text, and an assembler that times out, are left out.           *)
(***************************************************************************)
EXTENDS Integers, Sequences, SequencesExt

(* ---- a template's fragments -------------------------------------------- *)
Mark(k) == [k |-> k, texts |-> <<>>, bits |-> 0, signed |-> FALSE]
Str(texts) == [Mark("str") EXCEPT !.texts = texts]
Imm(bits, signed) == [Mark("imm") EXCEPT !.bits = bits, !.signed = signed]
Opening == Str(<<"(">>)
Closing == Str(<<")">>)
StackPointer == Str(<<"sp">>)
Punctuation == {"", "(", ")", ","}

(* What is left of a sequence without these kinds, after n of its members. *)
Keeping(s, ks) ==
    LET kept[n \in 0 .. Len(s)] ==
          IF n = 0 THEN <<>>
          ELSE IF s[n].k \in ks THEN kept[n - 1] ELSE Append(kept[n - 1], s[n])
    IN  kept
Without(s, ks) == Keeping(s, ks)[Len(s)]

RegisterNames == [reg_name |-> "reg", freg_name |-> "freg", freg_or_reg_name |-> "freg",
                  creg_name |-> "creg", cfreg_name |-> "cfreg", vreg_name |-> "vreg"]

(* A table of which a row is computed has no texts here, and is not taken. *)
Fragment(part) ==
    CASE part.head \in {"spc", "sep"} -> Mark(part.head)
      [] part.head \in DOMAIN RegisterNames -> Mark(RegisterNames[part.head])
      [] part.head = "sp_reg_name" -> StackPointer
      [] part.head = "hex_bits_signed" -> Imm(part.bits, TRUE)
      [] part.head = "hex_bits" -> Imm(part.bits, FALSE)
      [] part.head = "dec_bits" -> Str(<<"1">>)
      [] part.head = "csr_name_map" -> Mark("csr")
      [] part.head = "vtype_assembly" -> Str(<<"e8, m1, ta, ma">>)
      [] part.head = "fence_bits" -> Str(<<"iorw">>)
      [] part.head \in {"literal", "table"} /\ part.texts # <<>> -> Str(part.texts)
      [] OTHER -> Mark("unmodelled")

Fragments(template) ==
    LET parts == SelectSeq(template, LAMBDA p : p.head \notin {"opt_spc", "maybe_vmask"})
    IN  [i \in DOMAIN parts |-> Fragment(parts[i])]

(* ---- operand kinds ------------------------------------------------------ *)
Kind(k) == [k |-> k, bits |-> 0, signed |-> FALSE, base |-> "", text |-> ""]
ImmKind(bits, signed) == [Kind("imm") EXCEPT !.bits = bits, !.signed = signed]
MemKind(bits, signed, base) == [Kind("mem") EXCEPT !.bits = bits, !.signed = signed, !.base = base]
BareKind(base) == MemKind(-1, FALSE, base)          \* `(reg)`, no offset
LitKind(text) == [Kind("lit") EXCEPT !.text = text]

Single(f) ==
    CASE f.k \in {"reg", "freg", "creg", "cfreg", "vreg", "csr"} -> Kind(f.k)
      [] f.k = "imm" -> ImmKind(f.bits, f.signed)
      [] f.k = "str" /\ f.texts[1] \notin Punctuation -> LitKind(f.texts[1])
      [] OTHER -> Kind("stray")

(* "(" base ")" at i of the operand fragments.                             *)
ParenBase(rest, i) ==
    IF i + 2 <= Len(rest) /\ rest[i] = Opening /\ rest[i + 2] = Closing
    THEN CASE rest[i + 1].k \in {"reg", "creg"} -> rest[i + 1].k
           [] rest[i + 1] = StackPointer -> "sp"
           [] OTHER -> "none"
    ELSE "none"

(* Mutant of OperandKinds: the shape without an offset is not known.       *)
OffsetOnly(rest) ==
    LET from[i \in 1 .. Len(rest) + 4] ==
          IF i > Len(rest) THEN <<>>
          ELSE IF rest[i].k = "imm" /\ ParenBase(rest, i + 1) # "none"
          THEN <<MemKind(rest[i].bits, rest[i].signed, ParenBase(rest, i + 1))>> \o from[i + 4]
          ELSE <<Single(rest[i])>> \o from[i + 1]
    IN  from[1]

(* The kinds from fragment i on.                                           *)
KindsFrom(rest) ==
    LET from[i \in 1 .. Len(rest) + 4] ==
          IF i > Len(rest) THEN <<>>
          ELSE IF rest[i].k = "imm" /\ ParenBase(rest, i + 1) # "none"
          THEN <<MemKind(rest[i].bits, rest[i].signed, ParenBase(rest, i + 1))>> \o from[i + 4]
          ELSE IF ParenBase(rest, i) # "none" THEN <<BareKind(ParenBase(rest, i))>> \o from[i + 3]
          ELSE <<Single(rest[i])>> \o from[i + 1]
    IN  from
OperandKinds(rest) == KindsFrom(rest)[1]

(* Up to the first spc() is the mnemonic; later marks carry nothing.       *)
Boundary(frags) ==
    IF \E i \in DOMAIN frags : frags[i].k = "spc"
    THEN CHOOSE i \in DOMAIN frags : frags[i].k = "spc" /\ \A j \in 1 .. i - 1 : frags[j].k # "spc"
    ELSE Len(frags) + 1
KindsOf(frags) ==
    OperandKinds(Without(SubSeq(frags, Boundary(frags) + 1, Len(frags)), {"sep", "spc"}))
MnemonicsOf(frags) ==
    LET n == Boundary(frags) - 1
        choices(i) == {frags[i].texts[j] : j \in DOMAIN frags[i].texts}
        all == {c \in [1 .. n -> UNION {choices(i) : i \in 1 .. n}] :
                   \A i \in 1 .. n : c[i] \in choices(i)}
    IN  {SelectSeq(c, LAMBDA t : t # "") : c \in all} \ {<<>>}

(* A clause that is not taken whole is skipped, and reported.              *)
Taken(frags) ==
    /\ \A i \in DOMAIN frags : frags[i].k # "unmodelled"
    /\ Boundary(frags) > 1 /\ \A i \in 1 .. Boundary(frags) - 1 : frags[i].k = "str"
    /\ \A i \in DOMAIN KindsOf(frags) : KindsOf(frags)[i].k # "stray"

(* The instructions of a list of clauses; of one mnemonic, the last stays. *)
Parse(clauses) ==
    LET frags == [i \in DOMAIN clauses |-> Fragments(clauses[i].template)]
        of(i) == IF Taken(frags[i]) THEN MnemonicsOf(frags[i]) ELSE {}
        last(m, i) == m \in of(i) /\ \A j \in DOMAIN clauses : j > i => m \notin of(j)
    IN  UNION {{[union |-> clauses[i].union, mnemonic |-> m, kinds |-> KindsOf(frags[i]),
                 guard |-> clauses[i].guard, clause |-> clauses[i]] :
                    m \in {n \in of(i) : last(n, i)}} : i \in DOMAIN clauses}

(* ---- rendering ---------------------------------------------------------- *)
BRANCH_LIKE == {"BTYPE", "JAL", "C_J", "C_JAL", "C_BEQZ", "C_BNEZ"}
CODE_MEM_UNIONS == {"JALR"}
STRIDED_UNIONS == {"VLSSEGTYPE", "VSSSEGTYPE", "VLSTYPE", "VSSTYPE"}
EGW256_PREFIXES == {"vsm3", "vsm4", "vaes", "vsha2", "vghsh", "vgmul"}
SEW64_PREFIXES == {"vclmul"}
CSR_ADDR == 832                                    \* mscratch; --csr overrides it
SAFE_PAGE == 524320                                \* SAFE_DATA_ADDR >> 12
IMM_OVERRIDE == [u \in {"C_ADDI16SPN", "C_ADDI16SP"} |-> 16]

Has(m, text) == \E i \in DOMAIN m : m[i] = text
VmemEew(m) == CASE Has(m, "e8") -> 8 [] Has(m, "e16") -> 16
                [] Has(m, "e32") -> 32 [] Has(m, "e64") -> 64 [] OTHER -> 0

Sew(m) == IF VmemEew(m) # 0 THEN VmemEew(m)
          ELSE IF m[1] \in SEW64_PREFIXES \/ Last(m) = ".vf8" THEN 64
          ELSE IF Has(m, "bf16") THEN 16 ELSE 32
Lmul(m) == IF m[1] \in EGW256_PREFIXES THEN 2 ELSE 1

Op(op, rd, arg) == [op |-> op, rd |-> rd, arg |-> arg]
Operand(file, n) == [file |-> file, n |-> n, text |-> ""]

(* v8, v16, v24, then v1, v2, ...: see next_vreg.  Mutant: in a row.       *)
VregInARow(i) == i + 1
Vreg(i) == IF i < 3 THEN 8 * (i + 1) ELSE i - 2

(* lui sign-extends: on RV64 the upper half is cleared.  Mutant: it is not.*)
LuiOnly(rd, xlen) == <<Op("lui", rd, SAFE_PAGE)>>
SafeAddress(rd, xlen) ==
    IF xlen = 64 THEN <<Op("lui", rd, SAFE_PAGE), Op("slli", rd, 32), Op("srli", rd, 32)>>
    ELSE <<Op("lui", rd, SAFE_PAGE)>>

ImmValue(insn, kind) ==
    LET cap == IF kind.signed THEN 2 ^ (kind.bits - 1) - 1 ELSE 2 ^ kind.bits - 1
        least(a, b) == IF a < b THEN a ELSE b
    IN  IF insn.union \in DOMAIN IMM_OVERRIDE THEN IMM_OVERRIDE[insn.union]
        ELSE least(4, IF cap > 1 THEN cap ELSE 1)

(* The counters of render_asm, what precedes the instruction, its operands.*)
Fresh == [x |-> 1, f |-> 1, cx |-> 8, cf |-> 8, v |-> 0, prelude |-> <<>>,
          parts |-> <<>>, trailer |-> FALSE]
Compressed(n) == 8 + ((n - 8) % 8)

(* Configure the vector unit before anything that names a vector register. *)
Prelude(insn) ==
    IF \E i \in DOMAIN insn.kinds : insn.kinds[i].k = "vreg"
    THEN [Fresh EXCEPT !.x = 2,
            !.prelude = <<Op("vsetvli", 1, <<Sew(insn.mnemonic), Lmul(insn.mnemonic)>>)>>]
    ELSE Fresh

Mem(st, insn, kind, xlen) ==
    LET base == CASE kind.base = "reg" -> st.x [] kind.base = "creg" -> Compressed(st.cx)
                  [] OTHER -> 2               \* sp
        setup == IF kind.base = "sp" THEN <<Op("li", 2, SAFE_PAGE)>>
                 ELSE IF insn.union \in CODE_MEM_UNIONS THEN <<>> ELSE SafeAddress(base, xlen)
    IN  [st EXCEPT !.x = IF kind.base = "reg" THEN @ + 1 ELSE @,
                   !.cx = IF kind.base = "creg" THEN @ + 1 ELSE @,
                   !.prelude = @ \o setup,
                   !.parts = Append(@, [Operand("mem", base) EXCEPT
                                          !.text = IF kind.bits >= 0 THEN "0" ELSE ""])]

Add(st, operand) == [st EXCEPT !.parts = Append(@, operand)]
Stride(st, insn) ==
    IF insn.union \in STRIDED_UNIONS /\ st.parts # <<>>
    THEN [st EXCEPT !.prelude = Append(@, Op("stride", st.x, 8))] ELSE st

RenderOne(st, insn, kind, xlen) ==
    CASE kind.k = "reg" -> [Add(Stride(st, insn), Operand("x", st.x)) EXCEPT !.x = @ + 1]
      [] kind.k = "freg" -> [Add(st, Operand("f", st.f)) EXCEPT !.f = @ + 1]
      [] kind.k = "creg" -> [Add(st, Operand("x", Compressed(st.cx))) EXCEPT !.cx = @ + 1]
      [] kind.k = "cfreg" -> [Add(st, Operand("f", Compressed(st.cf))) EXCEPT !.cf = @ + 1]
      [] kind.k = "vreg" -> [Add(st, Operand("v", Vreg(st.v))) EXCEPT !.v = @ + 1]
      [] kind.k = "imm" -> IF insn.union \in BRANCH_LIKE
                           THEN [Add(st, Operand("label", 0)) EXCEPT !.trailer = TRUE]
                           ELSE Add(st, Operand("imm", ImmValue(insn, kind)))
      [] kind.k = "mem" -> Mem(st, insn, kind, xlen)
      [] kind.k = "lit" -> Add(st, [Operand("lit", 0) EXCEPT !.text = kind.text])
      [] OTHER -> Add(st, Operand("csr", CSR_ADDR))

(* After n of the operands, in order.                                      *)
Rendering(insn, xlen, kinds) ==
    LET after[n \in 0 .. Len(kinds)] ==
          IF n = 0 THEN Prelude(insn) ELSE RenderOne(after[n - 1], insn, kinds[n], xlen)
    IN  after
Render(insn, xlen, kinds) ==
    LET end == Rendering(insn, xlen, kinds)[Len(kinds)]
    IN  [prelude |-> end.prelude, parts |-> end.parts, trailer |-> end.trailer]

(* ---- the assembler ------------------------------------------------------ *)
NoProgram == [prelude |-> <<>>, parts |-> <<>>, trailer |-> FALSE, kinds |-> <<>>, ok |-> FALSE]

(* External: GNU as on an operand of a kind, and on the whole instruction. *)
TakesOperand(insn, kind, operand) ==
    CASE kind.k \in {"creg", "cfreg"} -> operand.n \in 8 .. 15
      [] kind.k \in {"reg", "freg", "vreg"} -> operand.n \in 0 .. 31
      [] kind.k = "imm" -> \/ operand.file = "label"
                           \/ operand.n > 0 /\ operand.n < 2 ^ kind.bits
                              /\ (insn.union \in DOMAIN IMM_OVERRIDE => operand.n % 16 = 0)
      [] kind.k = "mem" -> /\ operand.text = "0" <=> kind.bits >= 0
                           /\ kind.base = "creg" => operand.n \in 8 .. 15
      [] kind.k = "lit" -> ~insn.clause.exact
      [] OTHER -> TRUE
Exists(insn, xlen) == <<insn.mnemonic, xlen>> \notin insn.clause.lacks

OPTIONAL_KINDS == {"lit"}
Try(insn, xlen, kinds) ==
    LET program == Render(insn, xlen, kinds)
    IN  IF \A i \in DOMAIN kinds : TakesOperand(insn, kinds[i], program.parts[i])
        THEN [prelude |-> program.prelude, parts |-> program.parts,
              trailer |-> program.trailer, kinds |-> kinds, ok |-> TRUE]
        ELSE NoProgram
(* One retry without the literals.                                         *)
OpcodesFor(insn, xlen) ==
    LET fewer == Without(insn.kinds, OPTIONAL_KINDS)
        first == Try(insn, xlen, insn.kinds)
    IN  IF ~Exists(insn, xlen) THEN NoProgram
        ELSE IF first.ok THEN first
        ELSE IF fewer # insn.kinds THEN Try(insn, xlen, fewer) ELSE NoProgram
=============================================================================
