------------------------------ MODULE VmemCases ------------------------------
(***************************************************************************)
(* python-isla/vmem_cases.py: translation test cases.  A case is a page    *)
(* table, an address, an access and the mstatus/menvcfg bits it needs.     *)
(* Addresses are page numbers (address >> 12).  A table maps an index to a *)
(* PTE; indices below 512 are the root, 512 + k is entry k of the level-1  *)
(* table one page after it.  A PTE is [ppn, flags, ext].                   *)
(***************************************************************************)
EXTENDS Integers, Sequences

VNoTrap == 0
SatpModes == <<"Bare", "Sv39", "Sv48", "Sv57">>      \* satpMode_of_bits
WalkLevels(mode) == CASE mode = "Sv39" -> 2 [] mode = "Sv48" -> 3 [] mode = "Sv57" -> 4

Pte(ppn, flags, ext) == [ppn |-> ppn, flags |-> flags, ext |-> ext]
FRWX == {"D", "A", "X", "W", "R", "V"}
FRO == {"D", "A", "R", "V"}
FXO == {"D", "A", "X", "V"}

DataVa == 262144                \* 0x40000000, the data view of RAM
DataAddr == DataVa + 32         \* 0x40020000
Unmapped == 786432              \* 0xC0000000: root index 3 stays zero
PtPage == 524306                \* 0x80012000, where the harness puts the table
L1Ppn == PtPage + 1

(* Mutant of BaseMap: the alias takes the flags, and so does the code.     *)
BaseMapShared(cfg, flags, ext) ==
    [i \in 0 .. 2 |-> IF i = 0 THEN Pte(0, FRWX, 0) ELSE Pte(cfg.ramPage, flags, ext)]

(* ROM, the data alias a case varies, and the code, which is never varied. *)
BaseMap(cfg, flags, ext) ==
    [i \in 0 .. 2 |-> CASE i = 0 -> Pte(0, FRWX, 0)
                        [] i = 1 -> Pte(cfg.ramPage, flags, ext)
                        [] i = 2 -> Pte(cfg.ramPage, FRWX, 0)]

Identity(cfg) == BaseMap(cfg, FRWX, 0)

(* Root index 1 becomes a pointer; its leaf is entry 0 of the next level.  *)
TwoLevel(cfg, flags, ppn) ==
    [i \in {0, 1, 2, 512} |-> IF i = 512 THEN Pte(ppn, flags, 0)
                              ELSE IF i = 1 THEN Pte(L1Ppn, {"V"}, 0)
                              ELSE Identity(cfg)[i]]

VCase(id, mode, table, addr, access, expect) ==
    [id |-> id, mode |-> mode, table |-> table, addr |-> addr, access |-> access,
     expect |-> expect, bits |-> {}, deny |-> "none"]

(* The cases below with the data alias as the only thing that varies.      *)
Alias(id, cfg, flags, access, expect, bits) ==
    [VCase(id, "Sv39", BaseMap(cfg, flags, 0), DataAddr, access, expect)
     EXCEPT !.bits = bits]

ModeCases(mode, cfg) ==
    IF mode = "Bare" THEN
        <<VCase(<<"bare">>, mode, <<>>, cfg.ramPage + 32, "Load", VNoTrap)>>
    ELSE IF mode \notin cfg.ext THEN <<>>
    ELSE IF mode # "Sv39" THEN
        <<VCase(<<mode, "superpage">>, mode, [i \in {0} |-> Pte(0, FRWX, 0)], cfg.ramPage + 32,
                "Load", VNoTrap)>>
    ELSE
        <<VCase(<<mode, "mapped">>, mode, Identity(cfg), DataAddr, "Load", VNoTrap),
          VCase(<<mode, "unmapped">>, mode, Identity(cfg), Unmapped, "Load", 13)>>

InvalidCases(cfg) ==
    LET Invalid(name, entry) ==
          VCase(<<"invalid", name>>, "Sv39", [Identity(cfg) EXCEPT ![1] = entry], DataAddr,
                "Load", 13)
    IN  <<Invalid("v_clear", Pte(0, {}, 0)),
          Invalid("reserved_wx", Pte(cfg.ramPage, {"D", "A", "X", "W", "V"}, 0)),
          Invalid("nonleaf_flags", Pte(cfg.ramPage, {"D", "A", "V"}, 0)),
          Invalid("reserved_bits", Pte(cfg.ramPage, FRWX, 1))>>

PermCases(cfg) ==
    <<Alias(<<"lw", "granted">>, cfg, FRWX, "Load", VNoTrap, {}),
      Alias(<<"lw", "denied">>, cfg, FXO, "Load", 13, {}),
      Alias(<<"sw", "granted">>, cfg, FRWX, "Store", VNoTrap, {}),
      Alias(<<"sw", "denied">>, cfg, FRO, "Store", 15, {}),
      Alias(<<"mxr", "set">>, cfg, FXO, "Load", VNoTrap, {"mxr"}),
      Alias(<<"mxr", "clear">>, cfg, FXO, "Load", 13, {}),
      Alias(<<"sum", "clear">>, cfg, FRWX \cup {"U"}, "Load", 13, {}),
      Alias(<<"sum", "set">>, cfg, FRWX \cup {"U"}, "Load", VNoTrap, {"sum"}),
      Alias(<<"adue", "clear">>, cfg, FRWX \ {"A"}, "Load", 13, {}),
      Alias(<<"adue", "set_a">>, cfg, FRWX \ {"A"}, "Load", VNoTrap, {"adue"}),
      Alias(<<"adue", "set_d">>, cfg, FRWX \ {"D"}, "Store", VNoTrap, {"adue"})>>

WalkCases(cfg) ==
    <<VCase(<<"superpage", "misaligned">>, "Sv39",
            [Identity(cfg) EXCEPT ![1] = Pte(cfg.ramPage + 1, FRWX, 0)], DataAddr,
            "Load", 13),
      VCase(<<"two_level", "walk">>, "Sv39", TwoLevel(cfg, FRWX, cfg.ramPage),
            DataAddr, "Load", VNoTrap),
      VCase(<<"two_level", "denied">>, "Sv39", TwoLevel(cfg, FRO, cfg.ramPage),
            DataAddr, "Store", 15),
      VCase(<<"two_level", "misaligned">>, "Sv39",
            TwoLevel(cfg, FRWX, cfg.ramPage + 1), DataAddr, "Load", 13),
      [VCase(<<"pmp_denies", "l1">>, "Sv39", TwoLevel(cfg, FRWX, cfg.ramPage),
             DataAddr, "Load", 5) EXCEPT !.deny = "l1"],
      [VCase(<<"pmp_denies", "table">>, "Sv39", Identity(cfg), DataAddr, "Load", 1)
       EXCEPT !.deny = "root"]>>

VmemCorpus(cfg) ==
    ModeCases("Bare", cfg) \o ModeCases("Sv39", cfg) \o ModeCases("Sv48", cfg)
    \o ModeCases("Sv57", cfg) \o InvalidCases(cfg) \o PermCases(cfg) \o WalkCases(cfg)
=============================================================================
