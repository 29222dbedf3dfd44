--------------------------------- MODULE Hart ---------------------------------
(***************************************************************************)
(* External: what a hart (the Sail model, Spike) does with a test, as the  *)
(* repository's generators and runners rely on it: pmpCheck, pt_walk, the  *)
(* routing of traps and the harness that isla-testgen puts around a test.  *)
(* Every operator answers the cause of the first trap, 0 for none.  `bug`  *)
(* names one way a hart under test may deviate; "none" is the conforming   *)
(* hart.  `has` is the set of extensions the simulator was told about.     *)
(***************************************************************************)
EXTENDS PmpCases, VmemCases, TrapCases, ScenarioTests

Bit(b, k) == (b \div 2 ^ k) % 2 = 1
Least(S) == CHOOSE x \in S : \A y \in S : x <= y

(* ---- PMP ------------------------------------------------------------- *)
Perms(byte) ==                      \* W without R is cleared on the write
    LET p == {x \in RWX : Bit(byte, CASE x = "R" -> 0 [] x = "W" -> 1 [] x = "X" -> 2)}
    IN  IF "W" \in p /\ "R" \notin p THEN {} ELSE p

Locked(byte, bug) == Bit(byte, 7) /\ bug # "lock_ignored"

EntryMode(byte) == Modes[1 + ((byte \div 8) % 4)]
(* The trailing ones of a NAPOT register.  Below the grain the bits of a   *)
(* TOR bound read as zeros and those of a NAPOT register as ones, which    *)
(* they are in every region of the cases: none is smaller than 4 KiB, the  *)
(* largest grain that MachinesAssumption allows.                           *)
Ones(a) == CHOOSE t \in 0 .. PmpAddrBits :
              /\ (a + 1) % 2 ^ t = 0
              /\ t < PmpAddrBits => (a + 1) % 2 ^ (t + 1) # 0
Bound(a, grain) == 4 * (a - (a % 2 ^ grain))
NapotRange(a) == LET begin == 4 * (a + 1 - 2 ^ Ones(a)) IN <<begin, begin + 8 * 2 ^ Ones(a)>>

(* The bytes of entry i.                                                   *)
EntryRange(addrs, bytes, i, grain, bug) ==
    CASE EntryMode(bytes[i]) = "OFF" -> <<0, 0>>
      [] EntryMode(bytes[i]) = "TOR" ->
            <<IF i = 1 THEN 0 ELSE Bound(addrs[i - 1], grain), Bound(addrs[i], grain)>>
      [] EntryMode(bytes[i]) = "NA4" -> <<4 * addrs[i], 4 * addrs[i] + 4>>
      [] EntryMode(bytes[i]) = "NAPOT" -> NapotRange(addrs[i])

RangeMatch(range, addr, width) ==
    IF range[2] <= range[1] \/ addr + width <= range[1] \/ range[2] <= addr THEN "NoMatch"
    ELSE IF range[1] <= addr /\ addr + width <= range[2] THEN "Match" ELSE "PartialMatch"

MatchAt(c, i, addr, width, grain, bug) ==
    LET m == RangeMatch(EntryRange(c.pmpaddr, c.pmpcfg, i, grain, bug), addr, width)
    IN  IF m = "PartialMatch" /\ bug = "partial_matches" THEN "Match" ELSE m

NeedsOf(kind) == Arms[CHOOSE k \in 1 .. Len(Arms) : Arms[k].kind = kind].needs
Hits(c, addr, width, grain, bug) ==
    {i \in 1 .. Len(c.pmpaddr) : MatchAt(c, i, addr, width, grain, bug) # "NoMatch"}
PmpAllows(c, addr, width, kind, grain, bug) ==
    LET hit == Hits(c, addr, width, grain, bug)
        i == Least(hit)
    IN  IF hit = {} THEN c.priv = "M"
        ELSE /\ MatchAt(c, i, addr, width, grain, bug) = "Match"
             /\ \/ NeedsOf(kind) \subseteq Perms(c.pmpcfg[i])
                \/ c.priv = "M" /\ ~Locked(c.pmpcfg[i], bug) /\ bug # "unlocked_binds"
                \/ bug = "writes_unchecked" /\ kind \in {"Store", "SC", "AMO"}

PmpTrap(c, x2, insn, grain, has, bug) ==
    IF Needs(c.access) \notin has \cup {NoExtension} THEN 2
    ELSE IF PmpAllows(c, x2 + insn.disp, insn.width, c.access, grain, bug) THEN 0
    ELSE CASE c.access \in {"PREFETCH_I", "PREFETCH_R", "PREFETCH_W"} -> 0
           [] c.access \in {"Load", "LR"} -> 5
           [] OTHER -> 7

(* ---- translation ------------------------------------------------------ *)
Span(l) == IF l < 3 THEN 512 ^ l ELSE 2 ^ 27     \* pages a level-l leaf maps
At(table, i) == IF i \in DOMAIN table THEN table[i] ELSE Pte(0, {}, 0)

PteInvalid(p, bug) ==
    \/ "V" \notin p.flags
    \/ "W" \in p.flags /\ "R" \notin p.flags /\ bug # "reserved_wx_ok"
    \/ p.flags \cap {"R", "W", "X"} = {} /\ p.flags \cap {"A", "D", "U"} # {}
    \/ p.ext # 0

Permitted(p, access, bits, bug) ==
    /\ "U" \in p.flags =>
          /\ access # "Fetch"
          /\ ("sum" \in bits \/ bug = "sum_ignored")
    /\ CASE access = "Fetch" -> "X" \in p.flags
         [] access = "Store" -> "W" \in p.flags
         [] access = "Load" -> \/ "R" \in p.flags
                               \/ "X" \in p.flags /\ "mxr" \in bits /\ bug # "mxr_ignored"

LeafFaults(p, l, access, bits, has, bug) ==
    \/ p.ppn % Span(l) # 0 /\ bug # "misaligned_ok"
    \/ ~Permitted(p, access, bits, bug)
    \/ /\ "A" \notin p.flags \/ (access = "Store" /\ "D" \notin p.flags)
       /\ ~("adue" \in bits /\ "Svadu" \in has)

(* The walk of one page: the entry at the root and, if that is a pointer,  *)
(* the one at level one.                                                   *)
IndexAt(page, l) == IF l < 3 THEN (page \div 512 ^ l) % 512 ELSE 0
RootPte(c, page) == At(c.table, IndexAt(page, WalkLevels(c.mode)))
NextPte(c, page) == At(c.table, 512 + IndexAt(page, WalkLevels(c.mode) - 1))
Descends(c, page, bug) ==
    ~PteInvalid(RootPte(c, page), bug) /\ RootPte(c, page).flags \cap {"R", "W", "X"} = {}
WalkDenied(c, page, bug) ==
    \/ c.deny = "root"
    \/ c.deny = "l1" /\ Descends(c, page, bug) /\ RootPte(c, page).ppn = L1Ppn
(* The causes of an access fault and of a page fault for an access.        *)
WalkFaults(access) == CASE access = "Fetch" -> <<1, 12>> [] access = "Load" -> <<5, 13>>
                        [] access = "Store" -> <<7, 15>>
(* What a leaf of that level leads to.                                     *)
Lands(leaf, level, page, access, bits, ramPage, has, bug) ==
    IF \/ PteInvalid(leaf, bug)
       \/ leaf.flags \cap {"R", "W", "X"} = {}
       \/ LeafFaults(leaf, level, access, bits, has, bug)
    THEN WalkFaults(access)[2]
    ELSE IF leaf.ppn + (page % Span(level)) < ramPage THEN WalkFaults(access)[1] ELSE 0
Walk(c, page, access, ramPage, has, bug) ==
    IF WalkDenied(c, page, bug) /\ bug # "walk_skips_pmp"
    THEN WalkFaults(access)[IF bug = "denied_walk_page_faults" THEN 2 ELSE 1]
    ELSE IF Descends(c, page, bug)
         THEN Lands(NextPte(c, page), WalkLevels(c.mode) - 1, page, access, c.bits, ramPage, has, bug)
         ELSE Lands(RootPte(c, page), WalkLevels(c.mode), page, access, c.bits, ramPage, has, bug)

VmemTrap(c, page, cfg, has, bug) ==
    IF c.mode = "Bare" \/ c.mode \notin cfg.ext
    THEN IF page < cfg.ramPage THEN 5 ELSE 0
    ELSE LET fetch == Walk(c, cfg.ramPage, "Fetch", cfg.ramPage, has, bug) IN
         IF fetch # 0 THEN fetch
         ELSE Walk(c, page, c.access, cfg.ramPage, has, bug)

(* ---- traps: <<cause, handler>> ---------------------------------------- *)
Taken(pending) == CHOOSE b \in {Priority[i] : i \in 1 .. Len(Priority)} :
    /\ IntrCode(b) \in pending
    /\ \A i, j \in 1 .. Len(Priority) :
          Priority[j] = b /\ IntrCode(Priority[i]) \in pending => j <= i

TrapTaken(c, cfg, has, bug) ==
    LET settable == {IntrCode(b) : b \in
                       Writable \ (IF "Sscofpmf" \in has THEN {} ELSE {"LCOFI"})}
        pending == c.mip \cap c.mie \cap settable
        delegated == IF bug = "mideleg_ignored" THEN {}
                     ELSE c.mideleg \ {IntrCode(b) : b \in NoDeleg}
        exc == IF c.insn = "ebreak" THEN 3
               ELSE CASE c.priv = "M" -> 11 [] c.priv = "S" -> 9 [] c.priv = "U" -> 8
        toS == /\ exc \in c.medeleg
               /\ c.priv # "M" \/ bug = "delegates_from_m"
    IN  IF c.priv \notin cfg.ext \cup {"M"} THEN <<0, "M">>
        ELSE IF c.kind = "exception" THEN <<exc, IF toS THEN "S" ELSE "M">>
        ELSE IF pending \ delegated # {} THEN
             <<IF bug = "lowest_first"
               THEN CHOOSE x \in pending : x # IntrCode(Taken(pending))
                                           \/ pending = {x}
               ELSE IntrCode(Taken(pending \ delegated)), "M">>
        ELSE IF pending # {} /\ c.priv # "M" THEN <<IntrCode(Taken(pending)), "S">>
        ELSE <<0, "M">>

(* ---- scenarios -------------------------------------------------------- *)
(* The model refuses a config that keeps an extension guaranteeing what    *)
(* the region no longer has; Spike never sees the attributes.              *)
Guarantees(pma) == CASE pma = "atomic_support" -> {"Ziccamoa", "Ziccamoc"}
                     [] pma = "reservability" -> {"Ziccrse", "Svadu"}
                     [] OTHER -> {}
Refused(run) == ~(Guarantees(run.pma) \subseteq run.disabled)

ScenarioTrap(s, run, xlen, bug) ==
    LET may(priv) == \/ priv = "M"
                     \/ s.flags \cap {"pmp_allow", "pmp_deny", "pmp_deny_elsewhere"} # {}
                     \/ bug = "pmp_default_allows"
        priv == IF "supervisor" \in s.flags THEN "S" ELSE "M"
        returns == IF bug = "xret_keeps_privilege" THEN "M" ELSE IF "pp_s" \in s.flags THEN "S"
                   ELSE IF "pp_u" \in s.flags THEN "U" ELSE "M"
        paged == "sv39" \in s.flags /\ bug # "satp_ignored"
    IN  IF ~may(priv) THEN 1
        ELSE IF "deliver" \in s.flags /\ bug # "interrupts_lost"
             THEN IF "delegate" \in s.flags THEN 1 ELSE 3
        ELSE CASE s.insn = "ecall" -> 11
               [] s.insn = "ebreak" -> 3
               [] s.insn = "xret" -> IF may(returns) THEN 0 ELSE 1
               [] s.insn = "lw_ram" -> IF IllegalAt(xlen, s) THEN 2
                                       ELSE IF "pmp_deny" \in s.flags THEN 5 ELSE 0
               [] s.insn = "lw_hole" -> IF paged THEN 13 ELSE 5
               [] s.insn = "amo" -> IF run.pma = "atomic_support" THEN 7 ELSE 0
               [] s.insn = "lr" -> IF run.pma = "reservability" THEN 5 ELSE 0
               [] OTHER -> 0
=============================================================================
