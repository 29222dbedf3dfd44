------------------------------ MODULE TrapCases ------------------------------
(***************************************************************************)
(* python-isla/trap_cases.py: trap-routing test cases.  mip, mie, mideleg  *)
(* and medeleg are sets of bit positions; a case names the handler whose   *)
(* xcause must hold the expected cause.                                    *)
(***************************************************************************)
EXTENDS CaseLists

CONSTANTS Priority,    \* the order of findPendingInterrupt, read from the model
          NoDeleg,     \* bits legalize_mideleg hardwires to 0
          Writable     \* bits legalize_mip takes from a CSR write

IBit(b) == CASE b = "SSI" -> 1 [] b = "MSI" -> 3 [] b = "STI" -> 5 [] b = "MTI" -> 7
             [] b = "SEI" -> 9 [] b = "MEI" -> 11 [] b = "LCOFI" -> 13
(* interruptType_bits and exceptionType_bits of the model.                 *)
IntrCode(b) == CASE b = "SSI" -> 1 [] b = "MSI" -> 3 [] b = "STI" -> 5 [] b = "MTI" -> 7
                 [] b = "SEI" -> 9 [] b = "MEI" -> 11 [] b = "LCOFI" -> 13
ExcCode(name) == CASE name = "breakpoint" -> 3 [] name = "u_ecall" -> 8
                   [] name = "s_ecall" -> 9 [] name = "m_ecall" -> 11
Raises(name) == IF name = "breakpoint" THEN "ebreak" ELSE "ecall"
PrivOf(name) == CASE name = "u_ecall" -> "U" [] name = "s_ecall" -> "S" [] OTHER -> "M"

TCase(id, kind, insn, priv, handler, cause) ==
    [id |-> id, kind |-> kind, insn |-> insn, priv |-> priv, handler |-> handler,
     expect |-> cause, medeleg |-> {}, mideleg |-> {}, mip |-> {}, mie |-> {}]

RAISERS == <<"breakpoint", "m_ecall", "s_ecall", "u_ecall">>
Raised(cfg) == Those(RAISERS, {i \in 1 .. 4 : PrivOf(RAISERS[i]) \in cfg.ext \cup {"M"}})
ExceptionCases(cfg) ==
    [i \in 1 .. Len(Raised(cfg)) |->
       LET n == Raised(cfg)[i] IN
       TCase(<<"exc", n>>, "exception", Raises(n), PrivOf(n), "M", ExcCode(n))]

DelegationCases(cfg) ==
    LET Delegated(id, priv, handler) ==
          [TCase(<<"deleg", id>>, "exception", "ebreak", priv, handler, 3)
           EXCEPT !.medeleg = {3}]
    IN  IF "S" \notin cfg.ext THEN <<>>
        ELSE <<Delegated("to_s", "S", "S"), Delegated("from_m", "M", "M")>>

Interrupt(id, bits, mideleg, priv, cause) ==
    [TCase(id, "interrupt", "nop", priv, priv, cause)
     EXCEPT !.mip = bits, !.mie = bits, !.mideleg = mideleg]

Adjacent == [i \in 1 .. Len(Priority) - 1 |-> <<Priority[i], Priority[i + 1]>>]

(* Mutant of PriorityCases: the lower of the pair is expected.             *)
PriorityReversed ==
    LET pairs == Those(Adjacent, {i \in DOMAIN Adjacent :
                   Adjacent[i][1] \in Writable /\ Adjacent[i][2] \in Writable})
    IN  [i \in 1 .. Len(pairs) |->
           LET hi == pairs[i][1]
               lo == pairs[i][2]
           IN  Interrupt(<<"prio", hi, lo>>, {IBit(hi), IBit(lo)}, {}, "M", IntrCode(lo))]

(* Each adjacent pair of the chain pending together, where a CSR write can *)
(* make both pending; the first of the two must be the one taken.          *)
PriorityCases ==
    LET pairs == Those(Adjacent, {i \in DOMAIN Adjacent :
                   Adjacent[i][1] \in Writable /\ Adjacent[i][2] \in Writable})
    IN  [i \in 1 .. Len(pairs) |->
           LET hi == pairs[i][1]
               lo == pairs[i][2]
           IN  Interrupt(<<"prio", hi, lo>>, {IBit(hi), IBit(lo)}, {}, "M", IntrCode(hi))]

(* Only whether a bit can be delegated is asked here, not whether a CSR    *)
(* write can make it pending.                                              *)
InterruptDelegation(cfg) ==
    LET bits == Those(Priority, {i \in DOMAIN Priority :
                                   Priority[i] \notin NoDeleg /\ "S" \in cfg.ext})
    IN  [i \in 1 .. Len(bits) |->
           Interrupt(<<"deleg", bits[i]>>, {IBit(bits[i])}, {IBit(bits[i])}, "S",
                     IntrCode(bits[i]))]

(* The causes xtval_exception_value answers with a constant.  check_xtval  *)
(* is written to the case file and read by nobody.                         *)
XtvalCases ==
    [i \in 1 .. 3 |->
       LET n == <<"m_ecall", "s_ecall", "u_ecall">>[i] IN
       TCase(<<"xtval", n>>, "exception", "ecall", PrivOf(n), "M", ExcCode(n))]

TrapCorpus(cfg) == ExceptionCases(cfg) \o DelegationCases(cfg) \o PriorityCases
                   \o InterruptDelegation(cfg) \o XtvalCases
=============================================================================
