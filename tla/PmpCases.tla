------------------------------- MODULE PmpCases -------------------------------
(***************************************************************************)
(* python-isla/pmp_cases.py: PMP test cases derived from the match modes,  *)
(* the address positions of pmpRangeMatch and the access arms of           *)
(* pmpCheckRWX, bounded by a configuration.  A configuration is a record   *)
(* [ram, ramPage, grain, tor, na4, napot, ext]: ram is the byte address of *)
(* RAM scaled to TLC's integers, ext the set of supported extensions.      *)
(***************************************************************************)
EXTENDS CaseLists

CONSTANT PmpAddrBits       \* implemented bits of a pmpaddr register (54)

Allow == 0                 \* an expectation: no trap, or the cause of one
Modes == <<"OFF", "TOR", "NA4", "NAPOT">>      \* enum PmpAddrMatchType
ModeIndex(mode) == CHOOSE i \in 0 .. 3 : Modes[i + 1] = mode

(* The arms of pmpCheckRWX in the model: the bits an access needs.         *)
Arms == <<
    [kind |-> "Load",       needs |-> {"R"},      nested |-> FALSE],
    [kind |-> "LR",         needs |-> {"R"},      nested |-> FALSE],
    [kind |-> "Store",      needs |-> {"W"},      nested |-> FALSE],
    [kind |-> "SC",         needs |-> {"W"},      nested |-> FALSE],
    [kind |-> "AMO",        needs |-> {"R", "W"}, nested |-> FALSE],
    [kind |-> "CB_manage",  needs |-> {"R"},      nested |-> TRUE],
    [kind |-> "CB_zero",    needs |-> {"W"},      nested |-> TRUE],
    [kind |-> "PREFETCH_I", needs |-> {"X"},      nested |-> FALSE],
    [kind |-> "PREFETCH_R", needs |-> {"R"},      nested |-> FALSE],
    [kind |-> "PREFETCH_W", needs |-> {"W"},      nested |-> FALSE],
    [kind |-> "Vector",     needs |-> {"R"},      nested |-> FALSE]>>

(* The pattern that reads the arms stops at the first closing parenthesis: *)
(* an arm whose pattern nests two, CacheAccess(CB_zero()), is not read.    *)
AccessArms == Those(Arms, {i \in DOMAIN Arms : ~Arms[i].nested})

(* ACCESS: the kinds an instruction can be emitted for, some only with an  *)
(* extension.                                                              *)
NoExtension == ""
Emitters == {"Load", "LR", "Store", "SC", "AMO", "CB_manage", "CB_zero",
             "PREFETCH_I", "PREFETCH_R", "PREFETCH_W"}
Needs(kind) == CASE kind \in {"PREFETCH_I", "PREFETCH_R", "PREFETCH_W"} -> "Zicbop"
                 [] kind = "CB_manage" -> "Zicbom"
                 [] kind = "CB_zero" -> "Zicboz"
                 [] OTHER -> NoExtension

(* pmpWriteCfg reserves W without R.  Mutant: the rule is not read.        *)
LegalAsAsked(bits) == bits
LegalPerms(bits) == IF "W" \in bits THEN bits \cup {"R"} ELSE bits

FaultCause(kind) ==
    IF kind \in {"PREFETCH_I", "PREFETCH_R", "PREFETCH_W"} THEN Allow
    ELSE IF kind \in {"Load", "LR"} THEN 5 ELSE 7

RWX == {"R", "W", "X"}
(* Mutant of CfgByte: the lock bit is left out.                            *)
CfgByteUnlocked(mode, perms, locked) ==
    8 * ModeIndex(mode) + (IF "R" \in perms THEN 1 ELSE 0)
    + (IF "W" \in perms THEN 2 ELSE 0) + (IF "X" \in perms THEN 4 ELSE 0)

CfgByte(mode, perms, locked) ==
    8 * ModeIndex(mode) + (IF "R" \in perms THEN 1 ELSE 0)
    + (IF "W" \in perms THEN 2 ELSE 0) + (IF "X" \in perms THEN 4 ELSE 0)
    + (IF locked THEN 128 ELSE 0)

(* base is aligned to size, so the `|` of the code adds.                   *)
Napot(base, size) == base \div 4 + (size \div 8 - 1)
Everything == 2 ^ PmpAddrBits - 1          \* pmpaddr of the permitting entry
PermitAll == CfgByte("NAPOT", RWX, FALSE)
Base(cfg) == cfg.ram + 131072

Case(id, addrs, bytes, access, addr, expect, claim) ==
    [id |-> id, pmpaddr |-> Append(addrs, Everything),
     pmpcfg |-> Append(bytes, PermitAll), access |-> access, addr |-> addr,
     expect |-> expect, claim |-> claim, priv |-> "M", opcode |-> "default"]

Page(cfg) == <<Napot(Base(cfg) + 4096, 4096)>>

Selectable(mode, cfg) ==
    CASE mode = "OFF" -> FALSE
      [] mode = "NA4" -> cfg.na4 /\ cfg.grain < 1
      [] mode = "TOR" -> cfg.tor
      [] mode = "NAPOT" -> cfg.napot

(* The region of a mode as [begin, end) and the registers that set it up.  *)
Region(mode, cfg) ==
    LET begin == Base(cfg) + (IF mode = "NAPOT" THEN 4096 ELSE 4)
        size == CASE mode = "NAPOT" -> 4096 [] mode = "NA4" -> 4 [] mode = "TOR" -> 8
    IN  [begin |-> begin, end |-> begin + size,
         addrs |-> CASE mode = "NAPOT" -> <<Napot(begin, size)>>
                     [] mode = "NA4" -> <<begin \div 4>>
                     [] mode = "TOR" -> <<begin \div 4, (begin + size) \div 4>>]

Positions == <<"below", "straddle_low", "inside", "straddle_high", "above">>
Outcome(position) == CASE position \in {"below", "above"} -> "NoMatch"
                       [] position = "inside" -> "Match"
                       [] OTHER -> "PartialMatch"
Width(position) == IF Outcome(position) = "PartialMatch" THEN 8 ELSE 4

(* Mutant of Place: the position above the region starts inside it.        *)
PlaceLast(position, r) ==
    LET w == Width(position)
        at == CASE position = "below" -> r.begin - w
                [] position = "straddle_low" -> r.begin - w \div 2
                [] position = "inside" -> r.begin + w
                [] position = "straddle_high" -> r.end - w \div 2
                [] position = "above" -> r.end - 1
    IN  at - (at % w)

Place(position, r) ==
    LET w == Width(position)
        at == CASE position = "below" -> r.begin - w
                [] position = "straddle_low" -> r.begin - w \div 2
                [] position = "inside" -> r.begin + w
                [] position = "straddle_high" -> r.end - w \div 2
                [] position = "above" -> r.end
    IN  at - (at % w)                      \* kept naturally aligned

Straddles(position, r) ==
    LET edge == IF position = "straddle_low" THEN r.begin ELSE r.end
        at == Place(position, r)
    IN  at < edge /\ edge < at + Width(position)

PositionCases(mode, cfg) ==
    LET r == Region(mode, cfg)
        built == Those(Positions, {i \in DOMAIN Positions :
                     Outcome(Positions[i]) = "PartialMatch" => Straddles(Positions[i], r)})
    IN  [i \in 1 .. Len(built) |->
           LET p == built[i] IN
           Case(<<mode, p>>, r.addrs,
                [j \in 1 .. Len(r.addrs) |-> CfgByte(mode, RWX, FALSE)],
                IF Width(p) = 4 THEN "Load" ELSE "LR", Place(p, r),
                IF Outcome(p) = "PartialMatch" THEN 5 ELSE Allow, Outcome(p))]

OffCase(cfg) ==
    <<Case(<<"OFF", "n/a">>, Page(cfg), <<CfgByte("OFF", RWX, FALSE)>>, "Load",
           Base(cfg) + 8, Allow, "NoMatch")>>

NullRegion(cfg) ==
    IF ~cfg.tor THEN <<>>
    ELSE <<Case(<<"TOR", "null">>, <<(Base(cfg) + 4096) \div 4, Base(cfg) \div 4>>,
                <<CfgByte("OFF", {}, FALSE), CfgByte("TOR", {}, FALSE)>>,
                "Load", Base(cfg) + 8, Allow, "NoMatch")>>

(* One granted and one denied case per arm with an emitter in this         *)
(* configuration; the entry is locked, so that it binds M-mode.            *)
EmittedOf(arms, cfg) == Those(arms, {i \in DOMAIN arms :
    /\ arms[i].kind \in Emitters
    /\ Needs(arms[i].kind) \in cfg.ext \cup {NoExtension}})
Emitted(cfg) == EmittedOf(AccessArms, cfg)

ArmCase(cfg, arm, granted) ==
    Case(<<arm.kind, IF granted THEN "granted" ELSE "denied">>, Page(cfg),
         <<CfgByte("NAPOT", IF granted THEN LegalPerms(arm.needs) ELSE {}, TRUE)>>,
         arm.kind, Base(cfg) + 4096 + 16,
         IF granted THEN Allow ELSE FaultCause(arm.kind), "Match")
PermissionCases(cfg) ==
    [i \in 1 .. 2 * Len(Emitted(cfg)) |->
       ArmCase(cfg, Emitted(cfg)[(i + 1) \div 2], i % 2 = 1)]

MisalignedCases(cfg) ==
    <<[Case(<<"misaligned", "byte">>, Page(cfg), <<CfgByte("NAPOT", RWX, FALSE)>>,
            "Load", Base(cfg) + 4096 + 1, Allow, "Match") EXCEPT !.opcode = "lbu_disp1"],
      [Case(<<"misaligned", "dword">>, Page(cfg), <<CfgByte("NAPOT", RWX, FALSE)>>,
            "Load", Base(cfg) + 4096 + 4, Allow, "Match") EXCEPT !.opcode = "ld_disp4"]>>

OverrideCases(cfg) ==
    LET Override(locked, priv) ==
          [Case(<<IF locked THEN "locked" ELSE "unlocked", priv>>, Page(cfg),
                <<CfgByte("NAPOT", {}, locked)>>, "Load", Base(cfg) + 4096 + 8,
                IF ~locked /\ priv = "M" THEN Allow ELSE 5, "Match")
           EXCEPT !.priv = priv]
    IN  <<Override(TRUE, "M"), Override(FALSE, "M"),
          Override(TRUE, "S"), Override(FALSE, "S")>>

AddressCases(cfg) ==
    LET Of(mode) == IF Selectable(mode, cfg) THEN PositionCases(mode, cfg) ELSE <<>>
    IN  OffCase(cfg) \o Of("TOR") \o Of("NA4") \o Of("NAPOT")

PmpCorpus(cfg) == AddressCases(cfg) \o NullRegion(cfg) \o PermissionCases(cfg)
                  \o MisalignedCases(cfg) \o OverrideCases(cfg)
=============================================================================
