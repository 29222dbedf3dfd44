---------------------------- MODULE MCOpcodeSweep ----------------------------
(***************************************************************************)
(* One mnemonic of each kind the driver tells apart, standing for the      *)
(* instructions of that kind: c.jal assembles only for RV32 and carries no *)
(* guard, mulw is guarded to RV64, ldu is a cross-product artefact, "odd"  *)
(* does not assemble for another reason.  The clauses have the layouts     *)
(* that the comments of model_opcodes.py discuss.                          *)
(***************************************************************************)
EXTENDS RenderedSweep

Part(head) == [head |-> head, texts |-> <<>>, bits |-> 0]
Lit(text) == [Part("literal") EXCEPT !.texts = <<text>>]
Table(texts) == [Part("table") EXCEPT !.texts = texts]
Bits(head, n) == [Part(head) EXCEPT !.bits = n]
spc == Part("spc")
sep == Part("sep")
Reg == Part("reg_name")
CReg == Part("creg_name")
VReg == Part("vreg_name")
Base(reg) == <<Part("opt_spc"), Lit("("), reg, Part("opt_spc"), Lit(")")>>
Same == [up |-> 1, down |-> 1, fixed |-> 0]
Wide == [Same EXCEPT !.up = 2]
Eighth == [Same EXCEPT !.down = 8]
Width(n) == [Same EXCEPT !.fixed = n]
Vector(widths, nf, sews, egw) == [widths |-> widths, nf |-> nf, sews |-> sews, egw |-> egw]
NoVector == Vector(<<>>, <<>>, {}, 0)

Cl(union, template) ==
    [union |-> union, template |-> template, guard |-> 0, lacks |-> {}, exact |-> FALSE,
     vector |-> NoVector]
Three(mnemonic, r) == mnemonic \o <<spc, r, sep, r, sep, r>>
VV(union, mnemonic, widths, sews, egw) ==
    [Cl(union, Three(mnemonic, VReg) \o <<Part("maybe_vmask")>>) EXCEPT
        !.vector = Vector(widths, <<1, 1, 1>>, sews, egw)]
Never(ms) == {<<m, x>> : m \in ms, x \in Xlens}

Scalar == <<
    Cl("ITYPE", <<Table(<<"addi", "xori">>), spc, Reg, sep, Reg, sep, Bits("hex_bits_signed", 12)>>),
    [Cl("LOAD", <<Lit("l"), Table(<<"b", "d">>), Table(<<"", "u">>), spc, Reg, sep,
                  Bits("hex_bits_signed", 12)>> \o Base(Reg)) EXCEPT
        !.lacks = Never({<<"l", "d">>, <<"l", "d", "u">>})],
    [Cl("LD", <<Lit("ld"), spc, Reg, sep, Bits("hex_bits_signed", 12)>> \o Base(Reg)) EXCEPT
        !.guard = 64, !.lacks = {<<<<"ld">>, 32>>}],
    Cl("BTYPE", <<Table(<<"beq", "bne">>), spc, Reg, sep, Reg, sep, Bits("hex_bits_signed", 13)>>),
    Cl("JALR", <<Lit("jalr"), spc, Reg, sep, Bits("hex_bits_signed", 12)>> \o Base(Reg)),
    Cl("CSRReg", <<Lit("csrrw"), spc, Reg, sep, Part("csr_name_map"), sep, Reg>>),
    Cl("FENCE", <<Lit("fence"), spc, Part("fence_bits"), sep, Part("fence_bits")>>),
    Cl("ECALL", <<Lit("ecall")>>),
    Cl("AMO", <<Lit("amoadd.w"), Table(<<"", ".aq">>), spc, Reg, sep, Reg, sep>> \o Base(Reg)),
    Cl("ZICBOM", <<Lit("cbo.clean"), spc>> \o Base(Reg)),
    Cl("STRAY", <<Lit("stray"), spc, Reg, sep, Lit("("), Reg>>),
    Cl("COMPUTED", <<Part("table"), spc, Reg>>),
    [Cl("F_UN", <<Lit("fcvt.d.s"), spc, Part("freg_name"), sep, Part("freg_name"), sep,
                  Table(<<"rne", "rtz">>)>>) EXCEPT !.exact = TRUE],
    Cl("F_BIN", Three(<<Lit("fadd.s")>>, Part("freg_or_reg_name")) \o <<sep, Table(<<"rne", "rtz">>)>>)
    >>
Narrow == <<
    Cl("C_LWSP", <<Lit("c.lwsp"), spc, Reg, sep, Bits("hex_bits", 6)>> \o Base(Part("sp_reg_name"))),
    Cl("C_ADDI16SP", <<Lit("c.addi16sp"), spc, Part("sp_reg_name"), sep, Bits("hex_bits_signed", 6)>>),
    Cl("C_LW", <<Lit("c.lw"), spc, CReg, sep, Bits("hex_bits", 5)>> \o Base(CReg)),
    Cl("C_BEQZ", <<Lit("c.beqz"), spc, CReg, sep, Bits("hex_bits_signed", 8)>>),
    [Cl("C_JAL", <<Lit("c.jal"), spc, Bits("hex_bits_signed", 12)>>) EXCEPT
        !.lacks = {<<<<"c.jal">>, 64>>}],
    Cl("C_FLD", <<Lit("c.fld"), spc, Part("cfreg_name"), sep, Bits("hex_bits", 5)>> \o Base(CReg)),
    Cl("C_MOP", <<Lit("c.mop."), Bits("dec_bits", 3)>>)
    >>
Seg(union, prefix, width, nf, stride) ==
    [Cl(union, <<Lit(prefix), Lit(width), Lit(".v"), spc, VReg, sep>> \o Base(Reg) \o stride) EXCEPT
        !.vector = Vector(<<Width(IF width = "e64" THEN 64 ELSE 8)>>, <<nf>>, {8, 16, 32, 64}, 0)]
Vectors == <<
    Cl("VSET", <<Lit("vsetvli"), spc, Reg, sep, Reg, sep, Part("vtype_assembly")>>),
    VV("VVTYPE", <<Lit("vadd"), Lit(".vv")>>, <<Same, Same, Same>>, {8, 16, 32, 64}, 0),
    VV("FVVTYPE", <<Lit("vfadd"), Lit(".vv")>>, <<Same, Same, Same>>, {32, 64}, 0),
    VV("WVV", <<Lit("vwadd"), Lit(".vv")>>, <<Wide, Same, Same>>, {8, 16, 32}, 0),
    VV("VCLMUL", <<Lit("vclmul"), Lit(".vv")>>, <<Same, Same, Same>>, {64}, 0),
    VV("VSM3", <<Lit("vsm3"), Lit("me"), Lit(".vv")>>, <<Same, Same, Same>>, {32}, 256),
    VV("VBF16", <<Lit("vfwmacc"), Lit("bf16"), Lit(".vv")>>, <<Wide, Same, Same>>, {16}, 0),
    [Cl("VEXT8", <<Lit("vsext"), Lit(".vf8"), spc, VReg, sep, VReg, Part("maybe_vmask")>>) EXCEPT
        !.vector = Vector(<<Same, Eighth>>, <<1, 1>>, {64}, 0)],
    [Cl("VVMC", <<Lit("vadc"), Lit(".vvm"), spc, VReg, sep, VReg, sep, VReg, sep, Lit("v0")>>) EXCEPT
        !.vector = Vector(<<Same, Same, Same>>, <<1, 1, 1>>, {8, 16, 32, 64}, 0)],
    Seg("VLSEGTYPE", "vlseg5", "e64", 5, <<>>),
    Seg("VLSEGTYPE", "vlseg8", "e8", 8, <<>>),
    Seg("VLSTYPE", "vls", "e64", 1, <<sep, Reg, Part("maybe_vmask")>>),
    Seg("VSSSEGTYPE", "vssseg5", "e64", 5, <<sep, Reg, Part("maybe_vmask")>>)
    >>
(* Data elements of SEW, indices of the width that the mnemonic names.      *)
Index(union, prefix, width, bits, nf) ==
    [Cl(union, <<Lit(prefix), Lit(width), Lit(".v"), spc, VReg, sep>> \o Base(Reg)
               \o <<sep, VReg, Part("maybe_vmask")>>) EXCEPT
        !.vector = Vector(<<Same, Width(bits)>>, <<nf, 1>>, {8, 16, 32, 64}, 0)]
Indices == <<
    Index("VLXSEGTYPE", "vluxseg8", "ei8", 8, 8),
    Index("VSXSEGTYPE", "vsuxseg5", "ei16", 16, 5),
    Index("VLXSEGTYPE", "vlox", "ei64", 64, 1)
    >>
MCInsns == Parse(Scalar \o Narrow \o Vectors \o Indices)

MCOrder == <<"add", "c.jal", "ldu", "mulw", "odd">>
Kinds == {"add", "c.jal", "ldu", "mulw", "odd"}
Having(i) == {x \in Xlens : Exists(i, x)}
MCInstances == [m \in Kinds |-> {i \in MCInsns :
    CASE m = "add"   -> i.guard = 0 /\ Having(i) = Xlens
      [] m = "c.jal" -> i.guard = 0 /\ Having(i) = {32}
      [] m = "mulw"  -> i.guard = 64
      [] OTHER       -> i.guard = 0 /\ Having(i) = {}}]
MCGuard == [m \in Kinds |-> IF m = "mulw" THEN 64 ELSE 0]
MCEncodes == [m \in Kinds |->
                 {x \in Xlens : \E i \in MCInstances[m] : OpcodesFor(i, x).ok}]
MCUnknown == {"ldu"}
MCSetups == {[spike |-> TRUE, qemu |-> FALSE, fixed |-> FALSE],
             [spike |-> FALSE, qemu |-> TRUE, fixed |-> TRUE]}
=============================================================================
