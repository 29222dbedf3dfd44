----------------------------- MODULE RenderedSweep -----------------------------
(***************************************************************************)
(* The sweep of module OpcodeSweep with the instructions its mnemonics     *)
(* stand for: what isla-testgen is given for them by OpcodeRender, against *)
(* what the architecture makes of it.  An instruction's clause has, beside *)
(* the fields OpcodeRender reads, `vector`: for each vector operand how    *)
(* its element width follows from SEW, the fields of a segment, the SEWs   *)
(* the instruction is defined for, the bits of an element group.           *)
(***************************************************************************)
EXTENDS OpcodeSweepProps, OpcodeRender

CONSTANT Instances  \* Instances[m]: the instructions mnemonic m stands for

VLENs == {128, 256}                 \* Spike's and Sail's
RegionBytes == 65536                \* opcode_sweep.py --memory-region, from SAFE_PAGE

Programs == [m \in Mnemonics |-> [i \in Instances[m] |->
                [x \in Xlens |-> OpcodesFor(i, x)]]]

(* ---- the vector unit ---------------------------------------------------- *)
(* The vector operands of a program; which of them the one at p is.        *)
VregsOf(program) == {p \in DOMAIN program.parts : program.parts[p].file = "v"}
Place(program, p) == Cardinality({q \in VregsOf(program) : q <= p})
VtypeOf(program) == program.prelude[1].arg

(* Register group of a vector operand: EMUL in eighths, all nf fields.     *)
Eew(width, sew) == IF width.fixed # 0 THEN width.fixed ELSE (sew * width.up) \div width.down
Eighths(width, sew, lmul) == (8 * lmul * Eew(width, sew)) \div sew
Regs(width, sew, lmul) ==
    IF Eighths(width, sew, lmul) <= 8 THEN 1 ELSE Eighths(width, sew, lmul) \div 8

(* The instruction is defined under this vtype, at every VLEN.             *)
VtypeFits(vector, sew, lmul) ==
    /\ sew \in vector.sews
    /\ \A v \in VLENs : lmul * v >= vector.egw
    /\ \A i \in DOMAIN vector.widths :
          /\ Eew(vector.widths[i], sew) \in {8, 16, 32, 64}
          /\ Eighths(vector.widths[i], sew, lmul) \in 1 .. 64
          /\ Regs(vector.widths[i], sew, lmul) * vector.nf[i] <= 8

(* Under it, each operand names a group that starts where one may, holds   *)
(* no other operand's registers and not the mask.                          *)
GroupsAreLegal(vector, program, sew, lmul) ==
    LET regs(p) == Regs(vector.widths[Place(program, p)], sew, lmul)
        first(p) == program.parts[p].n
        group(p) == first(p) .. first(p) + regs(p) * vector.nf[Place(program, p)] - 1
    IN  /\ Cardinality(VregsOf(program)) = Len(vector.widths)
        /\ \A p \in VregsOf(program) : first(p) % regs(p) = 0 /\ group(p) \subseteq 1 .. 31
        /\ \A p, q \in VregsOf(program) : p # q => group(p) \cap group(q) = {}

VectorIsLegal(vector, program) ==
    LET sew == VtypeOf(program)[1]
        lmul == VtypeOf(program)[2]
    IN  VtypeFits(vector, sew, lmul) /\ GroupsAreLegal(vector, program, sew, lmul)

(* ---- instructions ------------------------------------------------------- *)
At(kinds, k) == {p \in DOMAIN kinds : kinds[p].k = k}
IsOperand(kind) ==
    /\ kind.k \in {"reg", "freg", "creg", "cfreg", "vreg", "csr", "lit", "imm", "mem"}
    /\ kind.k = "lit" => kind.text \in STRING
    /\ kind.k = "imm" => kind.bits \in 1 .. 30
    /\ kind.k = "mem" => kind.base \in {"reg", "creg", "sp"} /\ kind.bits \in Int

(* A vector instruction has up to three vector operands beside its mask,   *)
(* and is defined under the vtype that the code goes by its name to choose.*)
IsVector(vector, mnemonic, operands) ==
    /\ Cardinality(operands) <= 3 /\ Len(vector.widths) = Cardinality(operands)
    /\ DOMAIN vector.widths = 1 .. Len(vector.widths)
    /\ \A n \in DOMAIN vector.widths : vector.nf[n] \in Nat \ {0}
    /\ vector.sews \subseteq {8, 16, 32, 64}
    /\ VtypeFits(vector, Sew(mnemonic), Lmul(mnemonic))

(* What the clauses of the model are instructions of: a handful of         *)
(* operands of which one at most is in memory; a stack pointer moved by a  *)
(* multiple of 16 that its immediate has room for; no rounding mode to be  *)
(* left out but where all operands are scalar registers; a strided access  *)
(* names its base and then its stride.                                     *)
IsInstruction(i) ==
    /\ Len(i.kinds) \in 0 .. 8 /\ DOMAIN i.kinds = 1 .. Len(i.kinds)
    /\ \A p \in DOMAIN i.kinds : IsOperand(i.kinds[p])
    /\ \A p, q \in At(i.kinds, "mem") : p = q
    /\ i.union \in DOMAIN IMM_OVERRIDE => \A p \in At(i.kinds, "imm") : i.kinds[p].bits > 4
    /\ i.clause.exact => At(i.kinds, "mem") = {} /\ At(i.kinds, "vreg") = {}
    /\ i.union \in STRIDED_UNIONS =>
          \A p \in At(i.kinds, "mem") :
              i.kinds[p].base = "reg" /\ \E q \in At(i.kinds, "reg") : q > p
    /\ At(i.kinds, "vreg") # {} =>
          IsVector(i.clause.vector, i.mnemonic, At(i.kinds, "vreg"))

ASSUME InstancesAssumption ==
    /\ \A m \in Mnemonics : \A i \in Instances[m] : IsInstruction(i)
    /\ \A n \in 0 .. 29 : 2 ^ (n + 1) = 2 * 2 ^ n

(* ---- the prelude, executed ---------------------------------------------- *)
(* A register is <<what, upper 32 bits, lower 32 bits in pages>>: 64 bits   *)
(* on RV64, no upper ones on RV32.  "free": isla may choose any value.     *)
Free == <<"free", 0, 0>>
Region == <<"known", 0, SAFE_PAGE>>
Bounded == <<"stride", 0, 0>>
Value(op, x, old) ==
    CASE op.op = "lui" ->
            <<"known", IF x = 64 /\ op.arg >= 2 ^ 19 THEN -1 ELSE 0, op.arg>>
      [] op.op = "li" -> <<"known", 0, op.arg>>
      [] op.op = "slli" -> <<old[1], old[3], 0>>
      [] op.op = "srli" -> <<old[1], 0, old[2]>>
      [] op.op = "stride" -> Bounded
      [] OTHER -> Free                                        \* vsetvli
After(op, x, regs) == [regs EXCEPT ![op.rd] = Value(op, x, @)]
Unset == [r \in 0 .. 31 |-> Free]
(* The registers after n of the instructions.                              *)
Executing(prelude, x) ==
    LET regs[n \in 0 .. Len(prelude)] ==
          IF n = 0 THEN Unset ELSE After(prelude[n], x, regs[n - 1])
    IN  regs
Executed(prelude, x) == Executing(prelude, x)[Len(prelude)]

(* An indexed access adds the elements of its second vector operand to the *)
(* base.  The prelude loads no vector register, so isla may choose any.    *)
Indexed(insn) == /\ insn.union \notin STRIDED_UNIONS /\ At(insn.kinds, "mem") # {}
                 /\ Cardinality(At(insn.kinds, "vreg")) > 1
IndexWidth(insn, program) == Eew(insn.clause.vector.widths[2], VtypeOf(program)[1])
Anywhere == 16777216                \* stands for what 32 and 64 bits can hold
LargestIndex(width) == IF width = 8 THEN 255 ELSE IF width = 16 THEN 65535 ELSE Anywhere

(* Bytes reached from the base: one element on, or a whole vector access.  *)
Record(insn, program) ==
    (Eew(insn.clause.vector.widths[1], VtypeOf(program)[1]) \div 8) * insn.clause.vector.nf[1]
Reach(insn, program) ==
    IF VregsOf(program) = {} THEN 8
    ELSE LET vlmax == (256 * VtypeOf(program)[2]) \div VtypeOf(program)[1]
             record == Record(insn, program)
         IN  CASE insn.union \in STRIDED_UNIONS -> (vlmax - 1) * 8 + record
               [] Indexed(insn) -> LargestIndex(IndexWidth(insn, program)) + record
               [] OTHER -> vlmax * record

(* ---- what the sweep gives to isla-testgen ------------------------------- *)
Given(i) == Programs[Current][i][xlen]

(* Every instruction that exists at the XLEN of the run is assembled, with *)
(* operands its encoding has room for, and what is assembled is a legal    *)
(* vector instruction under the vtype set for it, at the VLEN of either    *)
(* simulator: register groups aligned, disjoint, apart from the mask.  An  *)
(* illegal one would be reported as a failure of the model under test.     *)
OperandsAreLegal ==
    AtInsn /\ Applicable =>
        \A i \in Instances[Current] : Exists(i, xlen) =>
            /\ Given(i).ok
            /\ (\E k \in DOMAIN i.kinds : i.kinds[k].k = "vreg") => VectorIsLegal(i.clause.vector, Given(i))

(* Where a program's data accesses go: when the prelude has run, at this   *)
(* XLEN, the base of a memory operand holds the region's address and not   *)
(* its sign extension, a stride is not left to the solver, and the largest *)
(* access of that shape ends inside the region.                            *)
StaysInRegion(i) ==
    \A p \in {q \in Range(Given(i).parts) : q.file = "mem"} :
        /\ Executed(Given(i).prelude, xlen)[p.n] = Region
        /\ Reach(i, Given(i)) <= RegionBytes
        /\ i.union \in STRIDED_UNIONS =>
              \E q \in Range(Given(i).parts) :
                  q.file = "x" /\ Executed(Given(i).prelude, xlen)[q.n] = Bounded

(* What model_opcodes.py:80 does not see to, where it says that leaving    *)
(* out the jump alone "fails the safe way -- a newly-parsed extension gets *)
(* the safe address by default": the base of an indexed access is safe,    *)
(* its indices are the solver's.  Those of a byte reach no further than    *)
(* 255 bytes, and of 16 bits to the region's last byte.                    *)
LeftToSolver(i) ==
    /\ Indexed(i)
    /\ \/ IndexWidth(i, Given(i)) > 16
       \/ IndexWidth(i, Given(i)) = 16 /\ Record(i, Given(i)) > 1
DataAccesses == {i \in Instances[Current] : Given(i).ok /\ i.union \notin CODE_MEM_UNIONS}

(* A data access stays in the memory region of the sweep, whatever isla    *)
(* chooses for the registers it is free to choose, unless the elements of  *)
(* a vector index it and are too wide for that; and those may leave it.    *)
AccessesStayInRegion ==
    AtInsn /\ Applicable => \A i \in DataAccesses : StaysInRegion(i) <=> ~LeftToSolver(i)

(* ---- layouts ------------------------------------------------------------ *)
(* A kind as the model's clauses print it.                                 *)
BaseText(base) == IF base = "sp" THEN StackPointer ELSE Mark(base)
Printed(kind) ==
    CASE kind.k = "imm" -> <<Imm(kind.bits, kind.signed)>>
      [] kind.k = "lit" -> <<Str(<<kind.text>>)>>
      [] kind.k = "mem" ->
           (IF kind.bits < 0 THEN <<>> ELSE <<Imm(kind.bits, kind.signed)>>)
           \o <<Opening, BaseText(kind.base), Closing>>
      [] OTHER -> <<Mark(kind.k)>>
(* After n of the kinds, one behind the other.                             *)
Printing(kinds) ==
    LET upto[n \in 0 .. Len(kinds)] == IF n = 0 THEN <<>> ELSE upto[n - 1] \o Printed(kinds[n])
    IN  upto
PrintedAll(kinds) == Printing(kinds)[Len(kinds)]
Clause(rest) == <<Str(<<"m">>), Mark("spc")>> \o rest

SomeKinds == {Kind("reg"), Kind("vreg"), Kind("csr"), LitKind("rne"), ImmKind(12, TRUE),
              MemKind(12, TRUE, "reg"), MemKind(5, FALSE, "creg"), MemKind(6, FALSE, "sp"),
              BareKind("reg"), BareKind("creg")}
SomeFragments == {Mark("reg"), Imm(12, TRUE), Opening, Closing, StackPointer}
UpTo(S, n) == UNION {[1 .. k -> S] : k \in 0 .. n}

(* An immediate right before `(reg)` reads as its offset: no clause has it.*)
Plain(kinds) == \A i \in 1 .. Len(kinds) - 1 :
                    kinds[i].k = "imm" => ~(kinds[i + 1].k = "mem" /\ kinds[i + 1].bits < 0)
Recovered ==
    /\ \A kinds \in {s \in UpTo(SomeKinds, 3) : Plain(s)} :
          /\ Taken(Clause(PrintedAll(kinds)))
          /\ KindsOf(Clause(PrintedAll(kinds))) = kinds
    /\ \A rest \in UpTo(SomeFragments, 5) :
          Taken(Clause(rest)) => PrintedAll(KindsOf(Clause(rest))) = rest

(* "A plausible but wrong instruction instead of a visible skip" is never  *)
(* what a clause is read as: the operand kinds of every layout are the     *)
(* ones that print it, and a clause that is taken prints back as it was.   *)
LayoutIsRecovered == pc = "insn" => Recovered
=============================================================================
