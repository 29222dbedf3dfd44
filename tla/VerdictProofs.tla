---------------------------- MODULE VerdictProofs ----------------------------
(***************************************************************************)
(* That a failure the case runners report is a failure of a simulator, for *)
(* any configurations whose machines are as MachinesAssumption says:       *)
(*   NoFalseAlarms       nothing is reported where no simulator deviates;  *)
(*   PositionsAreTrue    a PMP access lies to the region as its case       *)
(*                       claims;                                           *)
(*   DefectsAreReported  a hart that deviates is reported.                 *)
(* A verdict compares what the case expects with how it ends on the hart,  *)
(* so both rest on one fact per list of cases: every case that is derived  *)
(* ends as it expects. The sections prove it in turn of the trap cases,    *)
(* the translation cases, the scenarios and the PMP cases, whose registers *)
(* are decoded into ranges of addresses; then the runner's invariant joins *)
(* them.  The rest is the converse: each deviation that a program's cases  *)
(* aim at has a case that ends otherwise on it, whatever the machine, and  *)
(* a run that moved past a case without reporting it saw it end as it      *)
(* expects.                                                                *)
(***************************************************************************)
EXTENDS CaseProofs, WellFoundedInduction

(* A set with zero and the successor of each of its numbers has them all.  *)
LEMMA AllNumbers ==
    ASSUME NEW S, 0 \in S, \A n \in Nat : n \in S => n + 1 \in S
    PROVE  Nat \subseteq S
<1>1. SUFFICES ASSUME Nat \ S # {} PROVE FALSE
  OBVIOUS
<1>2. PICK m \in Nat \ S : \A n \in Nat \ S : ~(<<n, m>> \in OpToRel(<, Nat))
  BY <1>1, WFMin, NatLessThanWellFounded, Zenon
<1>3. m # 0 /\ m \in Nat
  OBVIOUS
<1>3a. m - 1 \in Nat /\ (m - 1) + 1 = m
  BY <1>3
<1>4. m - 1 \notin S
  BY <1>3a
<1>5. <<m - 1, m>> \in OpToRel(<, Nat)
  <2>1. <<m - 1, m>> \in Nat \X Nat
    BY <1>3, <1>3a
  <2>2. <<m - 1, m>>[1] < <<m - 1, m>>[2]
    BY <1>3
  <2> QED
    BY <2>1, <2>2, Zenon DEF OpToRel
<1> QED
  BY <1>2, <1>3a, <1>4, <1>5

(***************************************************************************)
(* Lists of cases.                                                         *)
(***************************************************************************)

(* A list of what is in it.                                                *)
IsList(s) == s \in Seq(Range(s))

(* A function over the first n numbers is a list of n.                     *)
LEMMA ListIsFunction ==
    ASSUME NEW n \in Nat, NEW s, DOMAIN s = 1 .. n, s = [i \in 1 .. n |-> s[i]]
    PROVE  IsList(s) /\ Len(s) = n
<1>1. s \in [1 .. n -> Range(s)]
  BY DEF Range
<1> QED
  BY <1>1 DEF IsList

(* The short lists are lists.                                              *)
LEMMA Couple == IsList(<<>>) /\ \A a, b : IsList(<<a>>) /\ IsList(<<a, b>>)
<1>1. IsList(<<>>)
  BY DEF IsList
<1>2. ASSUME NEW a, NEW b PROVE IsList(<<a>>) /\ IsList(<<a, b>>)
  <2>1. <<a>> \in Seq({a}) /\ <<a, b>> \in Seq({a, b})
    OBVIOUS
  <2> QED
    BY <2>1, SeqOfRange DEF IsList
<1> QED
  BY <1>1, <1>2

(* A list written out is one.                                              *)
LEMMA WrittenOut ==
    ASSUME NEW a, NEW b, NEW c, NEW d, NEW e, NEW f, NEW g, NEW h, NEW i, NEW j, NEW k
    PROVE  /\ IsList(<<a, b, c>>) /\ IsList(<<a, b, c, d>>) /\ IsList(<<a, b, c, d, e>>)
           /\ IsList(<<a, b, c, d, e, f>>)
           /\ IsList(<<a, b, c, d, e, f, g, h, i>>)
           /\ IsList(<<a, b, c, d, e, f, g, h, i, j, k>>)
<1>1. <<a, b, c, d>> \in Seq({a, b, c, d})
  OBVIOUS
<1>2. <<a, b, c, d, e, f>> \in Seq({a, b, c, d, e, f})
  OBVIOUS
<1>4. <<a, b, c>> \in Seq({a, b, c}) /\ <<a, b, c, d, e>> \in Seq({a, b, c, d, e})
  OBVIOUS
<1>5. <<a, b, c, d, e, f, g, h, i>> \in Seq({a, b, c, d, e, f, g, h, i})
  OBVIOUS
<1>3. <<a, b, c, d, e, f, g, h, i, j, k>> \in Seq({a, b, c, d, e, f, g, h, i, j, k})
  OBVIOUS
<1> QED
  BY <1>1, <1>2, <1>3, <1>4, <1>5, SeqOfRange DEF IsList

(* Joining two lists loses nothing and adds nothing.                       *)
LEMMA Joined ==
    ASSUME NEW s, NEW t, IsList(s), IsList(t)
    PROVE  IsList(s \o t) /\ Range(s \o t) = Range(s) \cup Range(t)
<1> DEFINE S == Range(s) \cup Range(t)
<1>1. s \in Seq(S) /\ t \in Seq(S)
  BY SeqMonotonic DEF IsList
<1>2. s \o t \in Seq(S)
  BY <1>1, ConcatProperties
<1> QED
  BY <1>1, <1>2, RangeConcatenation, SeqOfRange DEF IsList

(* A comprehension keeps the elements at the positions it asks for.        *)
LEMMA ThoseAsked ==
    ASSUME NEW s, IsList(s), NEW I \in SUBSET DOMAIN s
    PROVE  IsList(Those(s, I)) /\ Range(Those(s, I)) = {s[i] : i \in I}
<1> DEFINE A == Range(s)
           N == Len(s)
           Unfold(f) == [i \in 0 .. N |->
                IF i = 0 THEN <<>> ELSE IF i \in I THEN Append(f[i - 1], s[i]) ELSE f[i - 1]]
           upTo == CHOOSE f : f = Unfold(f)
           \* a beginning of it
           First(n, g) == \A i \in 0 .. n :
                g[i] = IF i = 0 THEN <<>> ELSE IF i \in I THEN Append(g[i - 1], s[i]) ELSE g[i - 1]
<1>1. N \in Nat /\ DOMAIN s = 1 .. N
  BY LenProperties DEF IsList
<1>2. \E f : f = Unfold(f)
  <2> DEFINE Has == {n \in Nat : \E g : g = [i \in 0 .. n |-> g[i]] /\ First(n, g)}
  <2>1. 0 \in Has
    <3> DEFINE g == [i \in 0 .. 0 |-> <<>>]
    <3>1. g = [i \in 0 .. 0 |-> g[i]] /\ First(0, g)
      OBVIOUS
    <3> HIDE DEF g
    <3> QED
      BY <3>1
  <2>2. ASSUME NEW n \in Nat, n \in Has PROVE n + 1 \in Has
    <3>1. PICK g : g = [i \in 0 .. n |-> g[i]] /\ First(n, g)
      BY <2>2
    <3> DEFINE next == IF n + 1 \in I THEN Append(g[n], s[n + 1]) ELSE g[n]
               h == [i \in 0 .. n + 1 |-> IF i = n + 1 THEN next ELSE g[i]]
    <3>2. h[n + 1] = IF n + 1 \in I THEN Append(h[n], s[n + 1]) ELSE h[n]
      OBVIOUS
    <3>3. \A i \in 0 .. n : h[i] = g[i] /\ (i # 0 => h[i - 1] = g[i - 1])
      OBVIOUS
    <3>4. h = [i \in 0 .. n + 1 |-> h[i]]
      OBVIOUS
    <3> HIDE DEF h
    <3>5. ASSUME NEW i \in 0 .. n + 1
          PROVE  h[i] = IF i = 0 THEN <<>> ELSE IF i \in I THEN Append(h[i - 1], s[i]) ELSE h[i - 1]
      <4>1. CASE i = n + 1
        <5>1. i # 0 /\ i - 1 = n
          BY <4>1
        <5> QED
          BY <3>2, <4>1, <5>1
      <4>2. CASE i \in 0 .. n
        BY <3>1, <3>3, <4>2
      <4> QED
        BY <4>1, <4>2
    <3>6. First(n + 1, h)
      BY <3>5
    <3> HIDE DEF First
    <3> QED
      BY <3>4, <3>6
  <2> HIDE DEF Has
  <2>3. N \in Has
    BY <1>1, <2>1, <2>2, AllNumbers
  <2>4. PICK g : g = [i \in 0 .. N |-> g[i]] /\ First(N, g)
    BY <2>3 DEF Has
  <2>5. g = Unfold(g)
    BY <2>4
  <2> HIDE DEF Unfold
  <2> QED
    BY <2>5
<1>3. upTo = Unfold(upTo)
  <2> HIDE DEF Unfold
  <2> QED
    BY <1>2
<1>4. Those(s, I) = upTo[N]
  BY DEF Those
<1> HIDE DEF upTo
<1>5. /\ upTo[0] = << >>
      /\ \A i \in 1 .. N : upTo[i] = IF i \in I THEN Append(upTo[i - 1], s[i]) ELSE upTo[i - 1]
  <2> DEFINE Step(i) == IF i = 0 THEN <<>> ELSE IF i \in I THEN Append(upTo[i - 1], s[i]) ELSE upTo[i - 1]
  <2>1. upTo = [i \in 0 .. N |-> Step(i)]
    BY <1>3
  <2> HIDE DEF Step
  <2>2. \A i \in 0 .. N : upTo[i] = Step(i)
    BY <2>1
  <2>3. 0 \in 0 .. N /\ \A i \in 1 .. N : i \in 0 .. N /\ i # 0
    BY <1>1
  <2> QED
    BY <2>2, <2>3 DEF Step
<1> DEFINE Behold(n) == upTo[n] \in Seq(A) /\ Range(upTo[n]) = {s[i] : i \in I \cap 1 .. n}
           Right == {n \in Nat : n <= N => Behold(n)}
<1>6. 0 \in Right
  <2>1. <<>> \in Seq(A) /\ Range(<<>>) = {}
    BY DEF Range
  <2> QED
    <3>1. {s[i] : i \in I \cap 1 .. 0} = {}
      OBVIOUS
    <3> QED
      BY <1>5, <2>1, <3>1
<1>7. ASSUME NEW n \in Nat, n \in Right, n + 1 <= N PROVE Behold(n + 1)
  <2>1. Behold(n) /\ n + 1 \in 1 .. N /\ (n + 1) - 1 = n
    BY <1>1, <1>7
  <2>2. CASE n + 1 \in I
    <3>1. s[n + 1] \in A /\ upTo[n + 1] = Append(upTo[n], s[n + 1])
      BY <1>1, <1>5, <2>1, <2>2 DEF Range
    <3>2. upTo[n + 1] \in Seq(A) /\ upTo[n + 1] = upTo[n] \o <<s[n + 1]>>
      BY <2>1, <3>1, AppendProperties, AppendIsConcat
    <3>3. Range(upTo[n + 1]) = Range(upTo[n]) \cup Range(<<s[n + 1]>>)
      <4>1. <<s[n + 1]>> \in Seq(A)
        BY <3>1
      <4>2. upTo[n] \in Seq(A)
        BY <2>1
      <4> HIDE DEF A, Behold
      <4> QED
        BY <3>2, <4>1, <4>2, RangeConcatenation
    <3>4. Range(<<s[n + 1]>>) = {s[n + 1]}
      BY DEF Range
    <3>5. I \cap 1 .. n + 1 = (I \cap 1 .. n) \cup {n + 1}
      BY <2>2
    <3> QED
      BY <2>1, <3>2, <3>3, <3>4, <3>5
  <2>3. CASE n + 1 \notin I
    <3>1. upTo[n + 1] = upTo[n] /\ I \cap 1 .. n + 1 = I \cap 1 .. n
      BY <1>5, <2>1, <2>3
    <3> QED
      BY <2>1, <3>1
  <2> QED
    BY <2>2, <2>3
<1>8. N \in Right
  <2>1. ASSUME NEW n \in Nat, n \in Right PROVE n + 1 \in Right
    <3>1. n + 1 <= N => Behold(n + 1)
      BY <1>7, <2>1
    <3> HIDE DEF Behold
    <3> QED
      BY <3>1
  <2> HIDE DEF Right
  <2> QED
    BY <1>1, <1>6, <2>1, AllNumbers
<1>9. Behold(N) /\ I \cap 1 .. N = I
  BY <1>1, <1>8
<1> QED
  BY <1>4, <1>9, SeqOfRange DEF IsList

(***************************************************************************)
(* Traps: every case ends as it expects.                                   *)
(***************************************************************************)
TrapMachine(m) == {"S", "U", "Sscofpmf"} \subseteq m.ext
TrapEnds(c, m, has) == TrapTaken(c, m, has, "none") = <<c.expect, c.handler>>

(* The bit of an interrupt is its cause, and its own.                      *)
LEMMA Codes ==
    /\ \A b \in Interrupts : IBit(b) = IntrCode(b) /\ IntrCode(b) \in Nat
    /\ \A a, b \in Interrupts : IntrCode(a) = IntrCode(b) => a = b
<1>1. \A b \in Interrupts : IBit(b) = IntrCode(b) /\ IntrCode(b) \in Nat
  BY DEF Interrupts, IBit, IntrCode
<1>2. \A a, b \in Interrupts : IntrCode(a) = IntrCode(b) => a = b
  BY DEF Interrupts, IntrCode
<1> QED
  BY <1>1, <1>2

(* The priority chain of the interrupts names each once; an interrupt      *)
(* can be pended by its bit or is not delegated.                           *)
LEMMA Chain ==
    /\ IsList(Priority) /\ Len(Priority) \in Nat /\ DOMAIN Priority = 1 .. Len(Priority)
    /\ \A i \in DOMAIN Priority : Priority[i] \in Interrupts
    /\ \A i, j \in DOMAIN Priority : Priority[i] = Priority[j] => i = j
    /\ Writable \subseteq Interrupts /\ NoDeleg \subseteq Interrupts
    /\ \A i \in DOMAIN Priority : Priority[i] \in NoDeleg \cup Writable
<1>1. /\ Priority \in Seq(Interrupts)
      /\ \A i, j \in DOMAIN Priority : Priority[i] = Priority[j] => i = j
      /\ Writable \subseteq Interrupts /\ NoDeleg \subseteq Interrupts
      /\ \A i \in DOMAIN Priority : Priority[i] \in NoDeleg \cup Writable
  BY MachinesAssumption
<1>2. IsList(Priority)
  BY <1>1, SeqOfRange DEF IsList
<1> QED
  BY <1>1, <1>2, LenProperties, ElementOfSeq

(* Of the pending ones the first in the chain is taken.                    *)
LEMMA FirstIsTaken ==
    ASSUME NEW i \in DOMAIN Priority, NEW pending,
           IntrCode(Priority[i]) \in pending,
           \A j \in DOMAIN Priority : IntrCode(Priority[j]) \in pending => i <= j
    PROVE  Taken(pending) = Priority[i]
<1> DEFINE P(b) == /\ IntrCode(b) \in pending
                   /\ \A h, j \in 1 .. Len(Priority) :
                        Priority[j] = b /\ IntrCode(Priority[h]) \in pending => j <= h
           S == {Priority[h] : h \in 1 .. Len(Priority)}
<1>1. Priority[i] \in S /\ P(Priority[i])
  BY Chain
<1>2. ASSUME NEW b \in S, P(b) PROVE b = Priority[i]
  <2>1. PICK j \in DOMAIN Priority : b = Priority[j]
    BY <1>2, Chain
  <2>2. j <= i
    BY <1>2, <2>1, Chain
  <2>3. i <= j
    BY <1>2, <2>1
  <2>4. i \in Nat /\ j \in Nat
    BY Chain
  <2> QED
    BY <2>1, <2>2, <2>3, <2>4
<1>3. Taken(pending) = CHOOSE b \in S : P(b)
  BY DEF Taken
<1> HIDE DEF S, P
<1> QED
  BY <1>1, <1>2, <1>3

(* An exception goes to M, unless it is delegated and was raised below.    *)
LEMMA ExceptionsEnd ==
    ASSUME NEW m, TrapMachine(m), NEW has, NEW c,
           c \in Range(ExceptionCases(m)) \cup Range(DelegationCases(m)) \cup Range(XtvalCases)
    PROVE  TrapEnds(c, m, has)
<1> USE DEF TrapEnds, TrapTaken, TrapMachine
<1>1. CASE c \in Range(ExceptionCases(m))
  <2>1. PICK n \in {"breakpoint", "m_ecall", "s_ecall", "u_ecall"} :
           c = TCase(<<"exc", n>>, "exception", Raises(n), PrivOf(n), "M", ExcCode(n))
    <3>1. IsList(RAISERS) /\ DOMAIN RAISERS = 1 .. 4
      <4>1. RAISERS \in Seq({"breakpoint", "m_ecall", "s_ecall", "u_ecall"}) /\ Len(RAISERS) = 4
        BY DEF RAISERS
      <4> QED
        BY <4>1, SeqOfRange, LenProperties DEF IsList
    <3>2. /\ IsList(Raised(m))
          /\ Range(Raised(m)) \subseteq {RAISERS[i] : i \in 1 .. 4}
      BY <3>1, ThoseAsked DEF Raised
    <3>3. DOMAIN Raised(m) = 1 .. Len(Raised(m))
      BY <3>2, LenProperties DEF IsList
    <3>4. PICK i \in 1 .. Len(Raised(m)) :
             c = TCase(<<"exc", Raised(m)[i]>>, "exception", Raises(Raised(m)[i]),
                       PrivOf(Raised(m)[i]), "M", ExcCode(Raised(m)[i]))
      BY <1>1 DEF ExceptionCases, Range
    <3>5. Raised(m)[i] \in {RAISERS[j] : j \in 1 .. 4}
      BY <3>2, <3>3 DEF Range
    <3>6. {RAISERS[j] : j \in 1 .. 4} = {"breakpoint", "m_ecall", "s_ecall", "u_ecall"}
      BY DEF RAISERS
    <3> QED
      BY <3>4, <3>5, <3>6
  <2> QED
    BY <2>1 DEF TCase, Raises, PrivOf, ExcCode
<1>2. CASE c \in Range(DelegationCases(m))
  BY <1>2 DEF DelegationCases, Range, TCase
<1>3. CASE c \in Range(XtvalCases)
  BY <1>3 DEF XtvalCases, Range, TCase, PrivOf, ExcCode
<1> QED
  BY <1>1, <1>2, <1>3

(* A simulator that knows LCOFI, if the case has it, can pend what is      *)
(* writable.                                                               *)
Settable(has) == {IntrCode(b) : b \in Writable \ (IF "Sscofpmf" \in has THEN {} ELSE {"LCOFI"})}

(* So is the list of adjacent pairs of the chain (trap_cases.py).          *)
LEMMA AdjacentIsList == IsList(Adjacent)
<1>1. \/ Len(Priority) - 1 \in Nat /\ DOMAIN Adjacent = 1 .. Len(Priority) - 1
      \/ Adjacent = <<>>
  BY Chain DEF Adjacent
<1>2. Adjacent = [i \in 1 .. Len(Priority) - 1 |-> Adjacent[i]]
  BY DEF Adjacent
<1>3. CASE Len(Priority) - 1 \in Nat /\ DOMAIN Adjacent = 1 .. Len(Priority) - 1
  BY <1>2, <1>3, ListIsFunction
<1>4. CASE Adjacent = <<>>
  BY <1>4, Couple
<1> QED
  BY <1>1, <1>3, <1>4

(* Both of an adjacent pair pend; the first is taken.                      *)
LEMMA PairsEnd ==
    ASSUME NEW m, TrapMachine(m), NEW has, NEW c \in Range(PriorityCases),
           "LCOFI" \in {c.id[i] : i \in DOMAIN c.id} => "Sscofpmf" \in has
    PROVE  TrapEnds(c, m, has)
<1> DEFINE I == {i \in DOMAIN Adjacent : Adjacent[i][1] \in Writable /\ Adjacent[i][2] \in Writable}
           pairs == Those(Adjacent, I)
<1>1. PICK i \in 1 .. Len(Priority) - 1 :
         /\ Priority[i] \in Writable /\ Priority[i + 1] \in Writable
         /\ c = Interrupt(<<"prio", Priority[i], Priority[i + 1]>>,
                          {IBit(Priority[i]), IBit(Priority[i + 1])}, {}, "M",
                          IntrCode(Priority[i]))
  <2>1. IsList(Adjacent)
    BY AdjacentIsList
  <2>2. IsList(pairs) /\ Range(pairs) = {Adjacent[i] : i \in I}
    BY <2>1, ThoseAsked
  <2>3. DOMAIN pairs = 1 .. Len(pairs)
    BY <2>2, LenProperties DEF IsList
  <2>4. PriorityCases =
           [i \in 1 .. Len(pairs) |->
              Interrupt(<<"prio", pairs[i][1], pairs[i][2]>>,
                        {IBit(pairs[i][1]), IBit(pairs[i][2])}, {}, "M", IntrCode(pairs[i][1]))]
    BY DEF PriorityCases
  <2> HIDE DEF pairs
  <2>5. PICK k \in 1 .. Len(pairs) :
           c = Interrupt(<<"prio", pairs[k][1], pairs[k][2]>>,
                         {IBit(pairs[k][1]), IBit(pairs[k][2])}, {}, "M", IntrCode(pairs[k][1]))
    BY <2>4 DEF Range
  <2>6. PICK i \in I : pairs[k] = Adjacent[i]
    BY <2>2, <2>3 DEF Range
  <2>7. i \in 1 .. Len(Priority) - 1 /\ Adjacent[i] = <<Priority[i], Priority[i + 1]>>
    BY <2>6 DEF Adjacent
  <2>8. pairs[k][1] = Priority[i] /\ pairs[k][2] = Priority[i + 1]
    BY <2>6, <2>7
  <2>9. Priority[i] \in Writable /\ Priority[i + 1] \in Writable
    BY <2>6, <2>7
  <2> HIDE DEF I
  <2> QED
    BY <2>5, <2>7, <2>8, <2>9
<1> DEFINE a == Priority[i]
           b == Priority[i + 1]
<1>2. /\ a \in Interrupts /\ b \in Interrupts /\ a # b
      /\ i \in DOMAIN Priority /\ i + 1 \in DOMAIN Priority /\ i \in Nat
  BY Chain
<1>3. /\ c.kind = "interrupt" /\ c.priv = "M" /\ c.handler = "M" /\ c.expect = IntrCode(a)
      /\ c.id = <<"prio", a, b>> /\ c.mip = {IntrCode(a), IntrCode(b)} /\ c.mie = c.mip
      /\ c.mideleg = {}
  BY <1>1, <1>2, Codes DEF Interrupt, TCase
<1>4. IntrCode(a) \in Settable(has) /\ IntrCode(b) \in Settable(has)
  <2>1. a \in {c.id[k] : k \in DOMAIN c.id} /\ b \in {c.id[k] : k \in DOMAIN c.id}
    <3>1. DOMAIN c.id = 1 .. 3 /\ c.id[2] = a /\ c.id[3] = b
      BY <1>3
    <3> QED
      BY <3>1
  <2> QED
    BY <1>1, <2>1 DEF Settable
<1> DEFINE pending == c.mip \cap c.mie \cap Settable(has)
<1>5. pending = {IntrCode(a), IntrCode(b)}
  BY <1>3, <1>4
<1>6. Taken(pending) = a
  <2>1. ASSUME NEW j \in DOMAIN Priority, IntrCode(Priority[j]) \in pending PROVE i <= j
    <3>1. Priority[j] = a \/ Priority[j] = b
      BY <1>2, <1>5, <2>1, Codes, Chain
    <3>2. j = i \/ j = i + 1
      BY <1>2, <3>1, Chain
    <3> QED
      BY <1>2, <3>2
  <2>2. IntrCode(Priority[i]) \in pending
    BY <1>5
  <2> HIDE DEF pending
  <2> QED
    BY <1>2, <2>1, <2>2, FirstIsTaken
<1>7. TrapTaken(c, m, has, "none") =
         IF pending \ {} # {} THEN <<IntrCode(Taken(pending \ {})), "M">>
         ELSE <<0, "M">>
  BY <1>3, <1>5 DEF TrapTaken, Settable
<1>8. pending \ {} = pending /\ pending # {}
  BY <1>5
<1> HIDE DEF pending
<1> QED
  BY <1>3, <1>6, <1>7, <1>8 DEF TrapEnds

(* One that is delegated, and pends, goes to S.                            *)
LEMMA DelegatedEnd ==
    ASSUME NEW m, TrapMachine(m), NEW has, NEW c \in Range(InterruptDelegation(m)),
           "LCOFI" \in {c.id[i] : i \in DOMAIN c.id} => "Sscofpmf" \in has
    PROVE  TrapEnds(c, m, has)
<1> DEFINE I == {i \in DOMAIN Priority : Priority[i] \notin NoDeleg /\ "S" \in m.ext}
           bits == Those(Priority, I)
<1>1. PICK i \in DOMAIN Priority :
         /\ Priority[i] \notin NoDeleg
         /\ c = Interrupt(<<"deleg", Priority[i]>>, {IBit(Priority[i])}, {IBit(Priority[i])},
                          "S", IntrCode(Priority[i]))
  <2>1. IsList(bits) /\ Range(bits) = {Priority[i] : i \in I}
    BY Chain, ThoseAsked
  <2>2. DOMAIN bits = 1 .. Len(bits)
    BY <2>1, LenProperties DEF IsList
  <2>3. InterruptDelegation(m) =
           [i \in 1 .. Len(bits) |->
              Interrupt(<<"deleg", bits[i]>>, {IBit(bits[i])}, {IBit(bits[i])}, "S",
                        IntrCode(bits[i]))]
    BY DEF InterruptDelegation
  <2> HIDE DEF bits
  <2>4. PICK k \in 1 .. Len(bits) :
           c = Interrupt(<<"deleg", bits[k]>>, {IBit(bits[k])}, {IBit(bits[k])}, "S",
                         IntrCode(bits[k]))
    BY <2>3 DEF Range
  <2>5. PICK i \in I : bits[k] = Priority[i]
    BY <2>1, <2>2 DEF Range
  <2> QED
    BY <2>4, <2>5
<1> DEFINE b == Priority[i]
<1>2. b \in Interrupts /\ b \in Writable
  BY <1>1, Chain
<1>3. /\ c.kind = "interrupt" /\ c.priv = "S" /\ c.handler = "S" /\ c.expect = IntrCode(b)
      /\ c.id = <<"deleg", b>> /\ c.mip = {IntrCode(b)} /\ c.mie = c.mip
      /\ c.mideleg = {IntrCode(b)}
  BY <1>1, <1>2, Codes DEF Interrupt, TCase
<1>4. IntrCode(b) \in Settable(has)
  <2>1. b \in {c.id[k] : k \in DOMAIN c.id}
    <3>1. DOMAIN c.id = 1 .. 2 /\ c.id[2] = b
      BY <1>3
    <3> QED
      BY <3>1
  <2> QED
    BY <1>2, <2>1 DEF Settable
<1> DEFINE pending == c.mip \cap c.mie \cap Settable(has)
           delegated == c.mideleg \ {IntrCode(x) : x \in NoDeleg}
<1>5. pending = {IntrCode(b)}
  BY <1>3, <1>4
<1>6. delegated = {IntrCode(b)}
  <2>1. \A x \in NoDeleg : IntrCode(x) # IntrCode(b)
    BY <1>1, <1>2, Codes, Chain
  <2> QED
    BY <1>3, <2>1
<1>7. Taken(pending) = b
  <2>1. ASSUME NEW j \in DOMAIN Priority, IntrCode(Priority[j]) \in pending PROVE i <= j
    <3>1. Priority[j] = b
      BY <1>2, <1>5, <2>1, Codes, Chain
    <3> QED
      BY <3>1, Chain
  <2>2. IntrCode(Priority[i]) \in pending
    BY <1>5
  <2> HIDE DEF pending
  <2> QED
    BY <2>1, <2>2, FirstIsTaken
<1>8. pending \ delegated = {} /\ pending # {}
  BY <1>5, <1>6
<1>9. TrapTaken(c, m, has, "none") = <<IntrCode(Taken(pending)), "S">>
  BY <1>3, <1>8 DEF TrapTaken, Settable, TrapMachine
<1> HIDE DEF pending
<1> QED
  BY <1>3, <1>7, <1>9 DEF TrapEnds

(* The corpus joins five lists.                                            *)
LEMMA TrapLists ==
    ASSUME NEW m
    PROVE  Range(TrapCorpus(m)) = Range(ExceptionCases(m)) \cup Range(DelegationCases(m))
              \cup Range(PriorityCases) \cup Range(InterruptDelegation(m)) \cup Range(XtvalCases)
<1>1. IsList(ExceptionCases(m))
  <2>1. IsList(RAISERS) /\ DOMAIN RAISERS = 1 .. 4
    <3>1. RAISERS \in Seq({"breakpoint", "m_ecall", "s_ecall", "u_ecall"}) /\ Len(RAISERS) = 4
      BY DEF RAISERS
    <3> QED
      BY <3>1, SeqOfRange, LenProperties DEF IsList
  <2>2. Len(Raised(m)) \in Nat
    BY <2>1, ThoseAsked, LenProperties DEF Raised, IsList
  <2> QED
    BY <2>2, ListIsFunction DEF ExceptionCases
<1>2. IsList(DelegationCases(m))
  BY Couple DEF DelegationCases
<1>3. IsList(PriorityCases)
  <2> DEFINE pairs == Those(Adjacent, {i \in DOMAIN Adjacent :
                        Adjacent[i][1] \in Writable /\ Adjacent[i][2] \in Writable})
  <2>1. Len(pairs) \in Nat
    BY AdjacentIsList, ThoseAsked, LenProperties DEF IsList
  <2>2. PriorityCases =
           [i \in 1 .. Len(pairs) |->
              Interrupt(<<"prio", pairs[i][1], pairs[i][2]>>,
                        {IBit(pairs[i][1]), IBit(pairs[i][2])}, {}, "M", IntrCode(pairs[i][1]))]
    BY DEF PriorityCases
  <2> HIDE DEF pairs
  <2>3. /\ DOMAIN PriorityCases = 1 .. Len(pairs)
        /\ PriorityCases = [i \in 1 .. Len(pairs) |-> PriorityCases[i]]
    BY <2>2
  <2> QED
    BY <2>1, <2>3, ListIsFunction
<1>4. IsList(InterruptDelegation(m))
  <2> DEFINE bits == Those(Priority, {i \in DOMAIN Priority :
                                        Priority[i] \notin NoDeleg /\ "S" \in m.ext})
  <2>1. Len(bits) \in Nat
    BY Chain, ThoseAsked, LenProperties DEF IsList
  <2>2. InterruptDelegation(m) =
           [i \in 1 .. Len(bits) |->
              Interrupt(<<"deleg", bits[i]>>, {IBit(bits[i])}, {IBit(bits[i])}, "S",
                        IntrCode(bits[i]))]
    BY DEF InterruptDelegation
  <2> HIDE DEF bits
  <2>3. /\ DOMAIN InterruptDelegation(m) = 1 .. Len(bits)
        /\ InterruptDelegation(m) = [i \in 1 .. Len(bits) |-> InterruptDelegation(m)[i]]
    BY <2>2
  <2> QED
    BY <2>1, <2>3, ListIsFunction
<1>5. IsList(XtvalCases)
  BY ListIsFunction DEF XtvalCases
<1> QED
  BY <1>1, <1>2, <1>3, <1>4, <1>5, Joined DEF TrapCorpus

(* So does every case of the list.                                         *)
LEMMA TrapsEnd ==
    ASSUME NEW m, TrapMachine(m), NEW has, NEW c \in Range(TrapCorpus(m)),
           "LCOFI" \in {c.id[i] : i \in DOMAIN c.id} => "Sscofpmf" \in has
    PROVE  TrapEnds(c, m, has)
BY TrapLists, ExceptionsEnd, PairsEnd, DelegatedEnd

(***************************************************************************)
(* Translation: every case ends as it expects.                             *)
(***************************************************************************)
VmemMachine(m) == {"Sv39", "Svadu"} \subseteq m.ext /\ m.ramPage = RamPage
VmemEnds(c, m, has) == VmemTrap(c, c.addr, m, has, "none") = c.expect

(* What the tables of the hart say of Sv39 and of the accesses.            *)
LEMMA Sv39Levels == WalkLevels("Sv39") = 2
BY Zenon DEF WalkLevels

(* The root levels of the two deeper modes.                                *)
LEMMA DeepLevels == WalkLevels("Sv48") = 3 /\ WalkLevels("Sv57") = 4
BY Zenon DEF WalkLevels

(* The causes of an access that is denied and of one that is not mapped.   *)
LEMMA FaultCauses ==
    /\ WalkFaults("Fetch") = <<1, 12>> /\ WalkFaults("Load") = <<5, 13>>
    /\ WalkFaults("Store") = <<7, 15>>
BY Zenon DEF WalkFaults

(* What a leaf permits to each access on a conforming hart.                *)
LEMMA Permissions ==
    ASSUME NEW p, NEW bits
    PROVE  /\ Permitted(p, "Fetch", bits, "none") <=> "U" \notin p.flags /\ "X" \in p.flags
           /\ Permitted(p, "Store", bits, "none") <=>
                 ("U" \in p.flags => "sum" \in bits) /\ "W" \in p.flags
           /\ Permitted(p, "Load", bits, "none") <=>
                 /\ "U" \in p.flags => "sum" \in bits
                 /\ "R" \in p.flags \/ ("X" \in p.flags /\ "mxr" \in bits)
BY Zenon DEF Permitted

(* Pages that a leaf of Sv39 spans, and the entries of the addresses used. *)
LEMMA Pages ==
    /\ RamPage \in Nat /\ RamPage % Span(2) = 0 /\ RamPage % Span(1) = 0
    /\ (RamPage + 1) % Span(2) # 0 /\ (RamPage + 1) % Span(1) # 0
    /\ IndexAt(RamPage, 2) = 2 /\ IndexAt(DataAddr, 2) = 1 /\ IndexAt(DataAddr, 1) = 0
    /\ IndexAt(Unmapped, 2) = 3
    /\ DataAddr % Span(2) \in Nat /\ DataAddr % Span(1) \in Nat
<1>1. 512 ^ 1 = 512 /\ 512 ^ 2 = 262144
  BY SMT
<1> QED
  BY <1>1, SMT DEF Span, IndexAt, RamPage, DataAddr, DataVa, Unmapped

(* At the root of the deeper modes one leaf spans all that is used.        *)
LEMMA TopSpan ==
    \A l \in {3, 4} : /\ 0 % Span(l) = 0
                      /\ \A page \in {RamPage, RamPage + 32} : page % Span(l) = page
<1>1. 2 ^ 27 = 134217728
  BY SMT
<1> QED
  BY <1>1, SMT DEF Span, RamPage

(* Emptiness of an intersection of flags, flag by flag.                    *)
LEMMA Flags ==
    \A f : /\ f \cap {"R", "W", "X"} = {} <=> "R" \notin f /\ "W" \notin f /\ "X" \notin f
           /\ f \cap {"A", "D", "U"} = {} <=> "A" \notin f /\ "D" \notin f /\ "U" \notin f
OBVIOUS

(* The code is fetched from its own entry, whatever the data's is.         *)
LEMMA CodeIsFetched ==
    ASSUME NEW c, c.mode = "Sv39", c.deny # "root", 2 \in DOMAIN c.table,
           c.table[2] = Pte(RamPage, FRWX, 0), NEW has
    PROVE  Walk(c, RamPage, "Fetch", RamPage, has, "none") = 0
<1> DEFINE p == Pte(RamPage, FRWX, 0)
<1>1. WalkLevels(c.mode) = 2 /\ RootPte(c, RamPage) = p
  BY Pages, Sv39Levels DEF RootPte, At
<1>2. /\ p.flags \cap {"R", "W", "X"} # {} /\ "V" \in p.flags /\ "R" \in p.flags /\ p.ext = 0
      /\ p.ppn = RamPage /\ "X" \in p.flags /\ "A" \in p.flags /\ "U" \notin p.flags
  BY DEF Pte, FRWX
<1>3. ~PteInvalid(p, "none") /\ ~LeafFaults(p, 2, "Fetch", c.bits, has, "none")
  <2>1. ~PteInvalid(p, "none")
    BY <1>2 DEF PteInvalid
  <2>2. p.ppn % Span(2) = 0
    BY <1>2, Pages
  <2> QED
    BY <1>2, <2>1, <2>2, Permissions DEF LeafFaults
<1>4. ~Descends(c, RamPage, "none")
  BY <1>1, <1>2 DEF Descends
<1>5. ~(p.ppn + (RamPage % Span(2)) < RamPage)
  BY <1>2, Pages
<1> HIDE DEF p
<1> QED
  BY <1>1, <1>2, <1>3, <1>4, <1>5 DEF Walk, Lands, WalkDenied

(* The walk of the data's address when its entry is no pointer.            *)
LEMMA DataWalk ==
    ASSUME NEW c, c.mode = "Sv39", c.deny = "none", 1 \in DOMAIN c.table, NEW access, NEW has,
           NEW bug,
           \/ PteInvalid(c.table[1], bug)
           \/ "R" \in c.table[1].flags \/ "W" \in c.table[1].flags \/ "X" \in c.table[1].flags
    PROVE  Walk(c, DataAddr, access, RamPage, has, bug)
             = Lands(c.table[1], 2, DataAddr, access, c.bits, RamPage, has, bug)
<1>1. WalkLevels(c.mode) = 2 /\ RootPte(c, DataAddr) = c.table[1]
  BY Pages, Sv39Levels DEF RootPte, At
<1>2. ~Descends(c, DataAddr, bug)
  BY <1>1, Flags DEF Descends
<1> QED
  BY <1>1, <1>2 DEF Walk, WalkDenied

(* ... and when it is one.                                                 *)
LEMMA DeepWalk ==
    ASSUME NEW c, c.mode = "Sv39", c.deny = "none", 1 \in DOMAIN c.table, 512 \in DOMAIN c.table,
           c.table[1] = Pte(L1Ppn, {"V"}, 0), NEW access, NEW has
    PROVE  Walk(c, DataAddr, access, RamPage, has, "none")
             = Lands(c.table[512], 1, DataAddr, access, c.bits, RamPage, has, "none")
<1> DEFINE p == Pte(L1Ppn, {"V"}, 0)
<1>1. /\ WalkLevels(c.mode) = 2 /\ RootPte(c, DataAddr) = p
      /\ NextPte(c, DataAddr) = c.table[512]
  BY Pages, Sv39Levels DEF RootPte, NextPte, At
<1>2. p.flags = {"V"} /\ p.ext = 0
  BY DEF Pte
<1>3. Descends(c, DataAddr, "none")
  BY <1>1, <1>2, Flags DEF Descends, PteInvalid
<1> HIDE DEF p
<1> QED
  BY <1>1, <1>3 DEF Walk, WalkDenied

(* A leaf for the data that is aligned leads there, if it is valid and     *)
(* permits the access.                                                     *)
Grants(p, access, bits, has) ==
    /\ "V" \in p.flags /\ p.ext = 0 /\ p.ppn = RamPage
    /\ "W" \in p.flags => "R" \in p.flags
    /\ "U" \in p.flags => "sum" \in bits
    /\ \/ access = "Load" /\ ("R" \in p.flags \/ ("X" \in p.flags /\ "mxr" \in bits))
       \/ access = "Store" /\ "W" \in p.flags
    /\ \/ "adue" \in bits /\ "Svadu" \in has
       \/ "A" \in p.flags /\ (access = "Store" => "D" \in p.flags)

(* A leaf that grants the access leads to the address.                     *)
LEMMA LeafLands ==
    ASSUME NEW p, NEW access, NEW bits, NEW has, NEW level \in {1, 2}, Grants(p, access, bits, has)
    PROVE  Lands(p, level, DataAddr, access, bits, RamPage, has, "none") = 0
<1>1. p.flags \cap {"R", "W", "X"} # {}
  BY DEF Grants
<1>2. ~PteInvalid(p, "none")
  BY <1>1 DEF PteInvalid, Grants
<1>3. p.ppn % Span(level) = 0 /\ ~(p.ppn + (DataAddr % Span(level)) < RamPage)
  BY Pages DEF Grants
<1>4. Permitted(p, access, bits, "none")
  BY Permissions DEF Grants
<1>5. ~LeafFaults(p, level, access, bits, has, "none")
  BY <1>3, <1>4 DEF LeafFaults, Grants
<1> QED
  BY <1>1, <1>2, <1>3, <1>5 DEF Lands

(* One that is not ends in the page fault of the access.                   *)
Faulty(p, level, access, bits) ==
    \/ "V" \notin p.flags \/ p.ext # 0
    \/ "W" \in p.flags /\ "R" \notin p.flags
    \/ "R" \notin p.flags /\ "W" \notin p.flags /\ "X" \notin p.flags
    \/ p.ppn % Span(level) # 0
    \/ "U" \in p.flags /\ "sum" \notin bits
    \/ access = "Load" /\ "R" \notin p.flags /\ ~("X" \in p.flags /\ "mxr" \in bits)
    \/ access = "Store" /\ "W" \notin p.flags
    \/ "A" \notin p.flags /\ "adue" \notin bits

(* A leaf that is faulty ends the access in its page fault.                *)
LEMMA LeafFault ==
    ASSUME NEW p, NEW access \in {"Load", "Store"}, NEW bits, NEW has, NEW level,
           Faulty(p, level, access, bits)
    PROVE  Lands(p, level, DataAddr, access, bits, RamPage, has, "none")
             = IF access = "Load" THEN 13 ELSE 15
<1>1. \/ PteInvalid(p, "none")
      \/ p.flags \cap {"R", "W", "X"} = {}
      \/ LeafFaults(p, level, access, bits, has, "none")
  <2>1. CASE p.ppn % Span(level) # 0 \/ ("A" \notin p.flags /\ "adue" \notin bits)
    BY <2>1 DEF LeafFaults
  <2>2. CASE "V" \notin p.flags \/ p.ext # 0 \/ ("W" \in p.flags /\ "R" \notin p.flags)
    BY <2>2 DEF PteInvalid
  <2>3. CASE "R" \notin p.flags /\ "W" \notin p.flags /\ "X" \notin p.flags
    BY <2>3, Flags
  <2>4. CASE \/ "U" \in p.flags /\ "sum" \notin bits
             \/ access = "Load" /\ "R" \notin p.flags /\ ~("X" \in p.flags /\ "mxr" \in bits)
             \/ access = "Store" /\ "W" \notin p.flags
    BY <2>4, Permissions DEF LeafFaults
  <2> QED
    BY <2>1, <2>2, <2>3, <2>4 DEF Faulty
<1>2. WalkFaults(access)[2] = IF access = "Load" THEN 13 ELSE 15
  BY FaultCauses
<1> QED
  BY <1>1, <1>2 DEF Lands

(* What becomes of a case of Sv39 with the code's entry in its table.      *)
LEMMA LeafCase ==
    ASSUME NEW m, VmemMachine(m), NEW has, NEW c, c.mode = "Sv39", c.deny = "none",
           c.addr = DataAddr, c.access \in {"Load", "Store"},
           1 \in DOMAIN c.table, 2 \in DOMAIN c.table, c.table[2] = Pte(RamPage, FRWX, 0),
           \/ c.expect = 0 /\ Grants(c.table[1], c.access, c.bits, has)
           \/ /\ c.expect = IF c.access = "Load" THEN 13 ELSE 15
              /\ Faulty(c.table[1], 2, c.access, c.bits)
              /\ \/ PteInvalid(c.table[1], "none")
                 \/ "R" \in c.table[1].flags \/ "W" \in c.table[1].flags \/ "X" \in c.table[1].flags
    PROVE  VmemEnds(c, m, has)
<1>1. Walk(c, RamPage, "Fetch", RamPage, has, "none") = 0
  BY CodeIsFetched
<1>2. VmemTrap(c, c.addr, m, has, "none") = Walk(c, DataAddr, c.access, RamPage, has, "none")
  BY <1>1 DEF VmemTrap, VmemMachine
<1>3. Walk(c, DataAddr, c.access, RamPage, has, "none")
        = Lands(c.table[1], 2, DataAddr, c.access, c.bits, RamPage, has, "none")
  BY DataWalk DEF Grants
<1> QED
  BY <1>2, <1>3, LeafLands, LeafFault DEF VmemEnds

(* The table of the code's entry and the data's.                           *)
LEMMA Tables ==
    ASSUME NEW m, m.ramPage = RamPage, NEW flags, NEW ext
    PROVE  /\ DOMAIN BaseMap(m, flags, ext) = {0, 1, 2}
           /\ BaseMap(m, flags, ext)[1] = Pte(RamPage, flags, ext)
           /\ BaseMap(m, flags, ext)[2] = Pte(RamPage, FRWX, 0)
<1>1. 0 .. 2 = {0, 1, 2}
  OBVIOUS
<1> QED
  BY <1>1 DEF BaseMap

(* The cases of the permission bits end as they expect.                    *)
LEMMA PermCasesEnd ==
    ASSUME NEW m, VmemMachine(m), NEW c \in Range(PermCases(m)), NEW has,
           "adue" \in c.bits => "Svadu" \in has
    PROVE  VmemEnds(c, m, has)
<1> DEFINE A(id, flags, access, expect, bits) == Alias(id, m, flags, access, expect, bits)
           Is(id, flags, access, expect, bits) == c = A(id, flags, access, expect, bits)
<1>1. ASSUME NEW id, NEW flags, NEW access \in {"Load", "Store"}, NEW expect, NEW bits,
             Is(id, flags, access, expect, bits),
             \/ expect = 0 /\ Grants(Pte(RamPage, flags, 0), access, bits, has)
             \/ /\ expect = IF access = "Load" THEN 13 ELSE 15
                /\ Faulty(Pte(RamPage, flags, 0), 2, access, bits)
                /\ "X" \in flags \/ "R" \in flags
      PROVE  VmemEnds(c, m, has)
  <2>1. /\ c.mode = "Sv39" /\ c.deny = "none" /\ c.addr = DataAddr /\ c.access = access
        /\ c.table = BaseMap(m, flags, 0) /\ c.expect = expect /\ c.bits = bits
    BY <1>1 DEF Alias, VCase
  <2>2. /\ 1 \in DOMAIN c.table /\ 2 \in DOMAIN c.table
        /\ c.table[1] = Pte(RamPage, flags, 0) /\ c.table[2] = Pte(RamPage, FRWX, 0)
        /\ c.table[1].flags = flags
    BY <2>1, Tables DEF VmemMachine, Pte
  <2> HIDE DEF Is
  <2> QED
    BY <1>1, <2>1, <2>2, LeafCase
<1>2. \/ Is(<<"lw", "granted">>, FRWX, "Load", 0, {})
      \/ Is(<<"lw", "denied">>, FXO, "Load", 13, {})
      \/ Is(<<"sw", "granted">>, FRWX, "Store", 0, {})
      \/ Is(<<"sw", "denied">>, FRO, "Store", 15, {})
      \/ Is(<<"mxr", "set">>, FXO, "Load", 0, {"mxr"})
      \/ Is(<<"mxr", "clear">>, FXO, "Load", 13, {})
      \/ Is(<<"sum", "clear">>, FRWX \cup {"U"}, "Load", 13, {})
      \/ Is(<<"sum", "set">>, FRWX \cup {"U"}, "Load", 0, {"sum"})
      \/ Is(<<"adue", "clear">>, FRWX \ {"A"}, "Load", 13, {})
      \/ Is(<<"adue", "set_a">>, FRWX \ {"A"}, "Load", 0, {"adue"})
      \/ Is(<<"adue", "set_d">>, FRWX \ {"D"}, "Store", 0, {"adue"})
  BY DEF PermCases, Range, VNoTrap
<1>3. ASSUME NEW flags, NEW access, NEW bits
      PROVE  LET p == Pte(RamPage, flags, 0) IN p.flags = flags /\ p.ext = 0 /\ p.ppn = RamPage
  BY DEF Pte
<1>4. /\ Grants(Pte(RamPage, FRWX, 0), "Load", {}, has)
      /\ Grants(Pte(RamPage, FRWX, 0), "Store", {}, has)
      /\ Grants(Pte(RamPage, FXO, 0), "Load", {"mxr"}, has)
      /\ Grants(Pte(RamPage, FRWX \cup {"U"}, 0), "Load", {"sum"}, has)
  BY <1>3 DEF Grants, FRWX, FXO
<1>5. /\ Faulty(Pte(RamPage, FXO, 0), 2, "Load", {})
      /\ Faulty(Pte(RamPage, FRO, 0), 2, "Store", {})
      /\ Faulty(Pte(RamPage, FRWX \cup {"U"}, 0), 2, "Load", {})
      /\ Faulty(Pte(RamPage, FRWX \ {"A"}, 0), 2, "Load", {})
  BY <1>3 DEF Faulty, FRWX, FXO, FRO
<1>6. "adue" \in c.bits =>
         /\ Grants(Pte(RamPage, FRWX \ {"A"}, 0), "Load", {"adue"}, has)
         /\ Grants(Pte(RamPage, FRWX \ {"D"}, 0), "Store", {"adue"}, has)
  BY <1>3 DEF Grants, FRWX
<1>7. "X" \in FXO /\ "R" \in FRO /\ "X" \in FRWX \cup {"U"} /\ "X" \in FRWX \ {"A"}
  BY DEF FXO, FRO, FRWX
<1>8. ASSUME Is(<<"adue", "set_a">>, FRWX \ {"A"}, "Load", 0, {"adue"})
             \/ Is(<<"adue", "set_d">>, FRWX \ {"D"}, "Store", 0, {"adue"})
      PROVE  "adue" \in c.bits
  BY <1>8 DEF Alias, VCase
<1> HIDE DEF Is
<1> QED
  BY <1>1, <1>2, <1>4, <1>5, <1>6, <1>7, <1>8

(* So do those of the entries that are not valid.                          *)
LEMMA InvalidCasesEnd ==
    ASSUME NEW m, VmemMachine(m), NEW c \in Range(InvalidCases(m)), NEW has
    PROVE  VmemEnds(c, m, has)
<1>1. PICK p : /\ c = VCase(c.id, "Sv39", [Identity(m) EXCEPT ![1] = p], DataAddr, "Load", 13)
               /\ \/ p = Pte(0, {}, 0)
                  \/ p = Pte(RamPage, {"D", "A", "X", "W", "V"}, 0)
                  \/ p = Pte(RamPage, {"D", "A", "V"}, 0)
                  \/ p = Pte(RamPage, FRWX, 1)
  BY DEF InvalidCases, Range, VmemMachine, VCase
<1>2. /\ c.mode = "Sv39" /\ c.deny = "none" /\ c.addr = DataAddr /\ c.access = "Load"
      /\ c.table = [Identity(m) EXCEPT ![1] = p] /\ c.expect = 13 /\ c.bits = {}
  BY <1>1 DEF VCase
<1>3. /\ 1 \in DOMAIN c.table /\ 2 \in DOMAIN c.table
      /\ c.table[1] = p /\ c.table[2] = Pte(RamPage, FRWX, 0)
  BY <1>2, Tables DEF VmemMachine, Identity
<1>4. PteInvalid(p, "none") /\ Faulty(p, 2, "Load", {})
  <2>1. CASE p = Pte(0, {}, 0)
    BY <2>1 DEF Pte, PteInvalid, Faulty
  <2>2. CASE p = Pte(RamPage, {"D", "A", "X", "W", "V"}, 0)
    BY <2>2 DEF Pte, PteInvalid, Faulty
  <2>3. CASE p = Pte(RamPage, {"D", "A", "V"}, 0)
    BY <2>3, Flags DEF Pte, PteInvalid, Faulty
  <2>4. CASE p = Pte(RamPage, FRWX, 1)
    BY <2>4 DEF Pte, PteInvalid, Faulty
  <2> QED
    BY <1>1, <2>1, <2>2, <2>3, <2>4
<1> QED
  BY <1>2, <1>3, <1>4, LeafCase

(* So do those of each translation mode.                                   *)
LEMMA ModeCasesEnd ==
    ASSUME NEW m, VmemMachine(m), NEW has, NEW mode \in {"Bare", "Sv39", "Sv48", "Sv57"},
           NEW c \in Range(ModeCases(mode, m))
    PROVE  VmemEnds(c, m, has)
<1>1. CASE mode = "Bare"
  <2>1. c.mode = "Bare" /\ c.addr = RamPage + 32 /\ c.expect = 0
    BY <1>1 DEF ModeCases, Range, VCase, VNoTrap, VmemMachine
  <2>2. RamPage \in Nat
    BY Pages
  <2> QED
    BY <2>1, <2>2 DEF VmemEnds, VmemTrap, VmemMachine
<1>2. CASE mode = "Sv39"
  <2>1. /\ c.mode = "Sv39" /\ c.deny = "none" /\ c.table = Identity(m) /\ c.access = "Load"
        /\ c.bits = {}
        /\ \/ c.addr = DataAddr /\ c.expect = 0
           \/ c.addr = Unmapped /\ c.expect = 13
    BY <1>2 DEF ModeCases, Range, VCase, VNoTrap, VmemMachine
  <2>2. /\ DOMAIN c.table = {0, 1, 2} /\ c.table[1] = Pte(RamPage, FRWX, 0)
        /\ c.table[2] = Pte(RamPage, FRWX, 0)
    BY <2>1, Tables DEF VmemMachine, Identity
  <2>3. CASE c.addr = DataAddr /\ c.expect = 0
    <3>1. Grants(c.table[1], "Load", {}, has)
      BY <2>2 DEF Grants, Pte, FRWX
    <3> QED
      BY <2>1, <2>2, <2>3, <3>1, LeafCase
  <2>4. CASE c.addr = Unmapped /\ c.expect = 13
    <3> DEFINE p == Pte(0, {}, 0)
    <3>1. Walk(c, RamPage, "Fetch", RamPage, has, "none") = 0
      BY <2>1, <2>2, CodeIsFetched
    <3>2. RootPte(c, Unmapped) = p /\ WalkLevels(c.mode) = 2
      BY <2>1, <2>2, Pages, Sv39Levels DEF RootPte, At
    <3>3. p.flags = {}
      BY DEF Pte
    <3>4. PteInvalid(p, "none") /\ ~Descends(c, Unmapped, "none")
      BY <3>2, <3>3 DEF PteInvalid, Descends
    <3> HIDE DEF p
    <3>5. Walk(c, Unmapped, "Load", RamPage, has, "none") = 13
      BY <2>1, <3>2, <3>4, FaultCauses DEF Walk, WalkDenied, Lands
    <3> QED
      BY <2>1, <2>4, <3>1, <3>5 DEF VmemEnds, VmemTrap, VmemMachine
  <2> QED
    BY <2>1, <2>3, <2>4
<1>3. CASE mode \in {"Sv48", "Sv57"}
  <2> DEFINE p == Pte(0, FRWX, 0)
  <2>1. /\ mode \in m.ext
        /\ c.mode = mode /\ c.deny = "none" /\ c.table = [i \in {0} |-> p] /\ c.access = "Load"
        /\ c.addr = RamPage + 32 /\ c.expect = 0
    BY <1>3 DEF ModeCases, Range, VCase, VNoTrap, VmemMachine
  <2>2. /\ "V" \in p.flags /\ "R" \in p.flags /\ "X" \in p.flags /\ "A" \in p.flags
        /\ "U" \notin p.flags /\ p.ext = 0 /\ p.ppn = 0 /\ p.flags \cap {"R", "W", "X"} # {}
    BY DEF Pte, FRWX
  <2>3. WalkLevels(mode) \in {3, 4}
    BY <1>3, DeepLevels
  <2>4. ASSUME NEW page \in {RamPage, RamPage + 32} PROVE RootPte(c, page) = p
    BY <2>1, <2>3 DEF RootPte, At, IndexAt
  <2>5. ~PteInvalid(p, "none") /\ \A page \in {RamPage, RamPage + 32} : ~Descends(c, page, "none")
    BY <2>2, <2>4 DEF PteInvalid, Descends
  <2>6. ASSUME NEW access \in {"Fetch", "Load"}
        PROVE  ~LeafFaults(p, WalkLevels(mode), access, c.bits, has, "none")
    <3>1. p.ppn % Span(WalkLevels(mode)) = 0
      BY <2>2, <2>3, TopSpan
    <3> QED
      BY <2>2, <3>1, Permissions DEF LeafFaults
  <2>7. \A page \in {RamPage, RamPage + 32} : ~(p.ppn + (page % Span(WalkLevels(mode))) < RamPage)
    <3>1. RamPage \in Nat
      BY Pages
    <3>2. \A page \in {RamPage, RamPage + 32} : page % Span(WalkLevels(mode)) = page
      BY <2>3, TopSpan
    <3> HIDE DEF p
    <3> QED
      BY <2>2, <3>1, <3>2
  <2> HIDE DEF p
  <2>8. \A page \in {RamPage, RamPage + 32} : \A access \in {"Fetch", "Load"} :
           Walk(c, page, access, RamPage, has, "none") = 0
    BY <2>1, <2>2, <2>4, <2>5, <2>6, <2>7 DEF Walk, WalkDenied, Lands
  <2> QED
    BY <1>3, <2>1, <2>8 DEF VmemEnds, VmemTrap, VmemMachine
<1> QED
  BY <1>1, <1>2, <1>3

(* So do those that fault during the walk.                                 *)
LEMMA WalkCasesEnd ==
    ASSUME NEW m, VmemMachine(m), NEW has, NEW c \in Range(WalkCases(m))
    PROVE  VmemEnds(c, m, has)
<1> DEFINE Deep(flags, ppn, access, expect) ==
             /\ c.mode = "Sv39" /\ c.addr = DataAddr /\ c.access = access /\ c.bits = {}
             /\ c.table = TwoLevel(m, flags, ppn) /\ c.expect = expect
<1>1. \/ /\ c.mode = "Sv39" /\ c.addr = DataAddr /\ c.access = "Load" /\ c.expect = 13
         /\ c.table = [Identity(m) EXCEPT ![1] = Pte(RamPage + 1, FRWX, 0)]
         /\ c.deny = "none" /\ c.bits = {}
      \/ Deep(FRWX, RamPage, "Load", 0) /\ c.deny = "none"
      \/ Deep(FRO, RamPage, "Store", 15) /\ c.deny = "none"
      \/ Deep(FRWX, RamPage + 1, "Load", 13) /\ c.deny = "none"
      \/ Deep(FRWX, RamPage, "Load", 5) /\ c.deny = "l1"
      \/ /\ c.mode = "Sv39" /\ c.addr = DataAddr /\ c.access = "Load" /\ c.expect = 1
         /\ c.deny = "root"
  <2> DEFINE V(id, table, access, expect) == c = VCase(id, "Sv39", table, DataAddr, access, expect)
             D(id, table, expect, deny) ==
                c = [VCase(id, "Sv39", table, DataAddr, "Load", expect) EXCEPT !.deny = deny]
  <2>1. \/ V(<<"superpage", "misaligned">>, [Identity(m) EXCEPT ![1] = Pte(RamPage + 1, FRWX, 0)],
             "Load", 13)
        \/ V(<<"two_level", "walk">>, TwoLevel(m, FRWX, RamPage), "Load", 0)
        \/ V(<<"two_level", "denied">>, TwoLevel(m, FRO, RamPage), "Store", 15)
        \/ V(<<"two_level", "misaligned">>, TwoLevel(m, FRWX, RamPage + 1), "Load", 13)
        \/ D(<<"pmp_denies", "l1">>, TwoLevel(m, FRWX, RamPage), 5, "l1")
        \/ D(<<"pmp_denies", "table">>, Identity(m), 1, "root")
    BY SMT DEF WalkCases, Range, VNoTrap, VmemMachine
  <2>2. ASSUME NEW id, NEW table, NEW access, NEW expect, V(id, table, access, expect)
        PROVE  /\ c.mode = "Sv39" /\ c.addr = DataAddr /\ c.access = access /\ c.bits = {}
               /\ c.table = table /\ c.expect = expect /\ c.deny = "none"
    BY <2>2 DEF VCase
  <2>3. ASSUME NEW id, NEW table, NEW expect, NEW deny, D(id, table, expect, deny)
        PROVE  /\ c.mode = "Sv39" /\ c.addr = DataAddr /\ c.access = "Load" /\ c.bits = {}
               /\ c.table = table /\ c.expect = expect /\ c.deny = deny
    BY <2>3 DEF VCase
  <2> HIDE DEF V, D
  <2> QED
    BY <2>1, <2>2, <2>3
<1>2. CASE /\ c.mode = "Sv39" /\ c.addr = DataAddr /\ c.access = "Load" /\ c.expect = 13
           /\ c.table = [Identity(m) EXCEPT ![1] = Pte(RamPage + 1, FRWX, 0)]
           /\ c.deny = "none" /\ c.bits = {}
  <2>1. /\ 1 \in DOMAIN c.table /\ 2 \in DOMAIN c.table
        /\ c.table[1] = Pte(RamPage + 1, FRWX, 0) /\ c.table[2] = Pte(RamPage, FRWX, 0)
    BY <1>2, Tables DEF VmemMachine, Identity
  <2>2. c.table[1].ppn = RamPage + 1 /\ "R" \in c.table[1].flags
    BY <2>1 DEF Pte, FRWX
  <2>3. Faulty(c.table[1], 2, "Load", {})
    BY <2>2, Pages DEF Faulty
  <2> QED
    BY <1>2, <2>1, <2>2, <2>3, LeafCase
<1>3. ASSUME NEW flags, NEW ppn, NEW access \in {"Load", "Store"}, NEW expect,
             Deep(flags, ppn, access, expect)
      PROVE  /\ 1 \in DOMAIN c.table /\ 2 \in DOMAIN c.table /\ 512 \in DOMAIN c.table
             /\ c.table[1] = Pte(L1Ppn, {"V"}, 0) /\ c.table[2] = Pte(RamPage, FRWX, 0)
             /\ c.table[512] = Pte(ppn, flags, 0)
  <2>1. /\ DOMAIN TwoLevel(m, flags, ppn) = {0, 1, 2, 512}
        /\ TwoLevel(m, flags, ppn)[1] = Pte(L1Ppn, {"V"}, 0)
        /\ TwoLevel(m, flags, ppn)[2] = Identity(m)[2]
        /\ TwoLevel(m, flags, ppn)[512] = Pte(ppn, flags, 0)
    BY DEF TwoLevel
  <2> QED
    BY <1>3, <2>1, Tables DEF VmemMachine, Identity
<1>4. ASSUME NEW flags, NEW ppn, NEW access \in {"Load", "Store"}, NEW expect,
             Deep(flags, ppn, access, expect), c.deny = "none",
             \/ expect = 0 /\ Grants(Pte(ppn, flags, 0), access, {}, has)
             \/ /\ expect = IF access = "Load" THEN 13 ELSE 15
                /\ Faulty(Pte(ppn, flags, 0), 1, access, {})
      PROVE  VmemEnds(c, m, has)
  <2>1. Walk(c, RamPage, "Fetch", RamPage, has, "none") = 0
    BY <1>3, <1>4, CodeIsFetched
  <2>2. VmemTrap(c, c.addr, m, has, "none") = Walk(c, DataAddr, access, RamPage, has, "none")
    BY <1>4, <2>1 DEF VmemTrap, VmemMachine
  <2>3. Walk(c, DataAddr, access, RamPage, has, "none")
          = Lands(Pte(ppn, flags, 0), 1, DataAddr, access, {}, RamPage, has, "none")
    BY <1>3, <1>4, DeepWalk
  <2> QED
    BY <1>4, <2>2, <2>3, LeafLands, LeafFault DEF VmemEnds
<1>5. CASE c.deny = "none"
  <2>1. Grants(Pte(RamPage, FRWX, 0), "Load", {}, has)
    BY DEF Grants, Pte, FRWX
  <2>2. Faulty(Pte(RamPage, FRO, 0), 1, "Store", {})
    BY DEF Faulty, Pte, FRO
  <2>3. Faulty(Pte(RamPage + 1, FRWX, 0), 1, "Load", {})
    <3>1. Pte(RamPage + 1, FRWX, 0).ppn = RamPage + 1
      BY DEF Pte
    <3> QED
      BY <3>1, Pages DEF Faulty
  <2> HIDE DEF Deep
  <2> QED
    BY <1>1, <1>2, <1>4, <1>5, <2>1, <2>2, <2>3
<1>6. CASE Deep(FRWX, RamPage, "Load", 5) /\ c.deny = "l1"
  <2>1. Walk(c, RamPage, "Fetch", RamPage, has, "none") = 0
    BY <1>3, <1>6, CodeIsFetched
  <2>2. RootPte(c, DataAddr) = Pte(L1Ppn, {"V"}, 0)
    BY <1>3, <1>6, Pages, Sv39Levels DEF RootPte, At
  <2>3. Descends(c, DataAddr, "none") /\ RootPte(c, DataAddr).ppn = L1Ppn
    BY <2>2, Flags DEF Descends, PteInvalid, Pte
  <2>4. Walk(c, DataAddr, "Load", RamPage, has, "none") = 5
    BY <1>6, <2>3, FaultCauses DEF Walk, WalkDenied
  <2> QED
    BY <1>6, <2>1, <2>4 DEF VmemEnds, VmemTrap, VmemMachine
<1>7. CASE /\ c.mode = "Sv39" /\ c.addr = DataAddr /\ c.access = "Load" /\ c.expect = 1
           /\ c.deny = "root"
  <2>1. Walk(c, RamPage, "Fetch", RamPage, has, "none") = 1
    BY <1>7, FaultCauses DEF Walk, WalkDenied
  <2> QED
    BY <1>7, <2>1 DEF VmemEnds, VmemTrap, VmemMachine
<1> HIDE DEF Deep
<1> QED
  BY <1>1, <1>2, <1>5, <1>6, <1>7

(* The four families of translation cases are lists.                       *)
LEMMA PermCasesList == ASSUME NEW m PROVE IsList(PermCases(m))
BY WrittenOut, Zenon DEF PermCases

(* The cases of the walk.                                                  *)
LEMMA WalkCasesList == ASSUME NEW m PROVE IsList(WalkCases(m))
BY WrittenOut, Zenon DEF WalkCases

(* The cases of a mode.                                                    *)
LEMMA ModeCasesList == ASSUME NEW m, NEW mode PROVE IsList(ModeCases(mode, m))
<1>1. \/ ModeCases(mode, m) = <<>>
      \/ \E a : ModeCases(mode, m) = <<a>>
      \/ \E a, b : ModeCases(mode, m) = <<a, b>>
  BY Zenon DEF ModeCases
<1> QED
  BY <1>1, Couple

(* The cases of the invalid entries.                                       *)
LEMMA InvalidCasesList == ASSUME NEW m PROVE IsList(InvalidCases(m))
BY WrittenOut, Zenon DEF InvalidCases

(* The corpus joins them.                                                  *)
LEMMA VmemLists ==
    ASSUME NEW m
    PROVE  Range(VmemCorpus(m)) = Range(ModeCases("Bare", m)) \cup Range(ModeCases("Sv39", m))
              \cup Range(ModeCases("Sv48", m)) \cup Range(ModeCases("Sv57", m))
              \cup Range(InvalidCases(m)) \cup Range(PermCases(m)) \cup Range(WalkCases(m))
BY ModeCasesList, InvalidCasesList, PermCasesList, WalkCasesList, Joined DEF VmemCorpus

(* Every translation case ends as it expects.                              *)
LEMMA VmemEnd ==
    ASSUME NEW m, VmemMachine(m), NEW c \in Range(VmemCorpus(m)), NEW has,
           "adue" \in c.bits => "Svadu" \in has
    PROVE  VmemEnds(c, m, has)
BY VmemLists, ModeCasesEnd, InvalidCasesEnd, PermCasesEnd, WalkCasesEnd

(***************************************************************************)
(* Scenarios.                                                              *)
(***************************************************************************)
EndsAt(xlen, s) == ScenarioTrap(s, RunConfig(s), xlen, "none") = s.expect
AsPinned(xlen, s) ==
    /\ ~Refused(RunConfig(s))
    /\ \/ s.passes = TRUE /\ ~IllegalAt(xlen, s) /\ EndsAt(xlen, s)
       \/ s.passes = TRUE /\ IllegalAt(xlen, s) /\ ~EndsAt(xlen, s)
       \/ s.passes = FALSE /\ ~EndsAt(xlen, s)

(* Which of the regions a scenario declares.                               *)
LEMMA Allowances ==
    \A f : f \cap {"pmp_allow", "pmp_deny", "pmp_deny_elsewhere"} # {} <=>
             "pmp_allow" \in f \/ "pmp_deny" \in f \/ "pmp_deny_elsewhere" \in f
OBVIOUS

(* The scenarios of the privilege modes end as pinned.                     *)
LEMMA PrivilegePinned == \A i \in DOMAIN Privilege : AsPinned(64, Privilege[i]) /\ AsPinned(32, Privilege[i])
<1>1. \A i \in DOMAIN Privilege : AsPinned(64, Privilege[i])
  BY Allowances DEF Privilege, AsPinned, EndsAt, IllegalAt, Refused, RunConfig, Disables,
     Guarantees, ScenarioTrap, Good, Control, Scenario
<1>2. \A i \in DOMAIN Privilege : AsPinned(32, Privilege[i])
  BY Allowances DEF Privilege, AsPinned, EndsAt, IllegalAt, Refused, RunConfig, Disables,
     Guarantees, ScenarioTrap, Good, Control, Scenario
<1> QED
  BY <1>1, <1>2

(* So do those of memory protection.                                       *)
LEMMA ProtectionPinned == \A i \in DOMAIN Protection : AsPinned(64, Protection[i]) /\ AsPinned(32, Protection[i])
<1>1. \A i \in DOMAIN Protection : AsPinned(64, Protection[i])
  BY Allowances DEF Protection, AsPinned, EndsAt, IllegalAt, Refused, RunConfig, Disables,
     Guarantees, ScenarioTrap, Good, Control, Scenario
<1>2. \A i \in DOMAIN Protection : AsPinned(32, Protection[i])
  BY Allowances DEF Protection, AsPinned, EndsAt, IllegalAt, Refused, RunConfig, Disables,
     Guarantees, ScenarioTrap, Good, Control, Scenario
<1> QED
  BY <1>1, <1>2

(* So do those of trap delivery.                                           *)
LEMMA DeliveryPinned == \A i \in DOMAIN Delivery : AsPinned(64, Delivery[i]) /\ AsPinned(32, Delivery[i])
<1>1. \A i \in DOMAIN Delivery : AsPinned(64, Delivery[i])
  BY Allowances DEF Delivery, AsPinned, EndsAt, IllegalAt, Refused, RunConfig, Disables,
     Guarantees, ScenarioTrap, Good, Control, Scenario
<1>2. \A i \in DOMAIN Delivery : AsPinned(32, Delivery[i])
  BY Allowances DEF Delivery, AsPinned, EndsAt, IllegalAt, Refused, RunConfig, Disables,
     Guarantees, ScenarioTrap, Good, Control, Scenario
<1> QED
  BY <1>1, <1>2

(* So do those of address translation.                                     *)
LEMMA PagingPinned == \A i \in DOMAIN Paging : AsPinned(64, Paging[i]) /\ AsPinned(32, Paging[i])
<1>1. \A i \in DOMAIN Paging : AsPinned(64, Paging[i])
  BY Allowances DEF Paging, AsPinned, EndsAt, IllegalAt, Refused, RunConfig, Disables,
     Guarantees, ScenarioTrap, Good, Control, Scenario
<1>2. \A i \in DOMAIN Paging : AsPinned(32, Paging[i])
  BY Allowances DEF Paging, AsPinned, EndsAt, IllegalAt, Refused, RunConfig, Disables,
     Guarantees, ScenarioTrap, Good, Control, Scenario
<1> QED
  BY <1>1, <1>2

(* So do those of memory attributes.                                       *)
LEMMA AttributesPinned == \A i \in DOMAIN Attributes : AsPinned(64, Attributes[i]) /\ AsPinned(32, Attributes[i])
<1>1. \A i \in DOMAIN Attributes : AsPinned(64, Attributes[i])
  BY Allowances DEF Attributes, AsPinned, EndsAt, IllegalAt, Refused, RunConfig, Disables,
     Guarantees, ScenarioTrap, Good, Control, Scenario
<1>2. \A i \in DOMAIN Attributes : AsPinned(32, Attributes[i])
  BY Allowances DEF Attributes, AsPinned, EndsAt, IllegalAt, Refused, RunConfig, Disables,
     Guarantees, ScenarioTrap, Good, Control, Scenario
<1> QED
  BY <1>1, <1>2

(* Every pinned scenario ends as it says, a control otherwise, and so does *)
(* a positive one whose shifts are illegal.                                *)
LEMMA AllPinned ==
    ASSUME NEW s \in Range(Scenarios), NEW xlen \in {64, 32} PROVE AsPinned(xlen, s)
<1>1. IsList(Delivery) /\ IsList(Paging) /\ IsList(Attributes) /\ IsList(Privilege) /\ IsList(Protection)
  BY WrittenOut, Zenon DEF Delivery, Paging, Attributes, Privilege, Protection
<1>2. s \in Range(Privilege) \cup Range(Protection) \cup Range(Delivery) \cup Range(Paging)
             \cup Range(Attributes)
  BY <1>1, Joined DEF Scenarios
<1> QED
  BY <1>2, PrivilegePinned, ProtectionPinned, DeliveryPinned, PagingPinned, AttributesPinned
     DEF Range

(***************************************************************************)
(* PMP: what the registers of a case select.                               *)
(***************************************************************************)

(* Powers of two up to the width of a register.                            *)
LEMMA PowersAreNumbers ==
    /\ PmpAddrBits \in Nat /\ PmpAddrBits > 9
    /\ \A n \in 0 .. PmpAddrBits + 1 : 2 ^ n \in Nat \ {0}
<1> DEFINE S == {n \in Nat : n <= PmpAddrBits + 1 => 2 ^ n \in Nat \ {0}}
<1>0. PmpAddrBits \in Nat /\ PmpAddrBits > 9
  BY PowersAssumption
<1>1. 0 \in S
  <2>1. 2 ^ 0 = 1
    OBVIOUS
  <2> QED
    BY <2>1
<1>2. ASSUME NEW n \in Nat, n \in S PROVE n + 1 \in S
  <2> SUFFICES ASSUME n + 1 <= PmpAddrBits + 1 PROVE 2 ^ (n + 1) \in Nat \ {0}
    OBVIOUS
  <2>1. 2 ^ n \in Nat \ {0} /\ n \in 0 .. PmpAddrBits
    BY <1>0, <1>2
  <2>2. 2 ^ (n + 1) = 2 * 2 ^ n
    BY <2>1, PowersAssumption
  <2> QED
    BY <2>1, <2>2
<1> HIDE DEF S
<1>3. Nat \subseteq S
  BY <1>1, <1>2, AllNumbers
<1> QED
  BY <1>0, <1>3 DEF S

(* Exponents add.                                                          *)
LEMMA PowersMultiply ==
    ASSUME NEW t \in Nat, NEW u \in Nat, t + u <= PmpAddrBits + 1
    PROVE  2 ^ (t + u) = 2 ^ t * 2 ^ u
<1> DEFINE S == {n \in Nat : t + n <= PmpAddrBits + 1 => 2 ^ (t + n) = 2 ^ t * 2 ^ n}
<1>1. 0 \in S
  <2>1. 2 ^ 0 = 1
    OBVIOUS
  <2>2. 2 ^ t \in Nat /\ t + 0 = t
    BY PowersAreNumbers
  <2> QED
    BY <2>1, <2>2
<1>2. ASSUME NEW n \in Nat, n \in S PROVE n + 1 \in S
  <2> SUFFICES ASSUME t + (n + 1) <= PmpAddrBits + 1 PROVE 2 ^ (t + (n + 1)) = 2 ^ t * 2 ^ (n + 1)
    OBVIOUS
  <2>1. 2 ^ (t + n) = 2 ^ t * 2 ^ n /\ n \in 0 .. PmpAddrBits /\ t + n \in 0 .. PmpAddrBits
    BY <1>2, PowersAreNumbers
  <2>2. 2 ^ (n + 1) = 2 * 2 ^ n /\ 2 ^ ((t + n) + 1) = 2 * 2 ^ (t + n)
    BY <2>1, PowersAssumption
  <2>3. (t + n) + 1 = t + (n + 1) /\ 2 ^ n \in Nat /\ 2 ^ t \in Nat
    BY <2>1, PowersAreNumbers
  <2> QED
    BY <2>1, <2>2, <2>3
<1> HIDE DEF S
<1>3. Nat \subseteq S
  BY <1>1, <1>2, AllNumbers
<1> QED
  BY <1>3 DEF S

(* A remainder of zero is a multiple.                                      *)
LEMMA Divides ==
    ASSUME NEW x \in Nat, NEW d \in Nat \ {0}
    PROVE  x % d = 0 <=> \E j \in Nat : x = d * j
<1>1. x = d * (x \div d) + (x % d) /\ x \div d \in Nat /\ x % d \in 0 .. d - 1
  OBVIOUS
<1>2. ASSUME NEW j \in Nat, x = d * j PROVE x % d = 0
  BY <1>1, <1>2
<1>3. ASSUME x % d = 0 PROVE \E j \in Nat : x = d * j
  <2>1. x = d * (x \div d)
    BY <1>1, <1>3
  <2> QED
    BY <1>1, <2>1
<1> QED
  BY <1>2, <1>3

(* The register whose successor is an odd multiple of 2^t ends in t ones.  *)
LEMMA OnesAre ==
    ASSUME NEW a \in Nat, NEW t \in 0 .. PmpAddrBits, NEW k \in Nat, a + 1 = 2 ^ t * (2 * k + 1)
    PROVE  Ones(a) = t
<1> DEFINE P(u) == /\ (a + 1) % 2 ^ u = 0
                   /\ u < PmpAddrBits => (a + 1) % 2 ^ (u + 1) # 0
<1>1. PmpAddrBits \in Nat /\ t \in Nat
  BY PowersAssumption
<1>2. \A u \in 0 .. PmpAddrBits : /\ 2 ^ u \in Nat \ {0} /\ 2 ^ (u + 1) \in Nat \ {0}
                                  /\ 2 ^ (u + 1) = 2 * 2 ^ u
  BY PowersAreNumbers, PowersAssumption
<1>3. P(t)
  <2>1. (a + 1) % 2 ^ t = 0
    BY <1>2, Divides
  <2>2. ASSUME NEW j \in Nat, a + 1 = 2 ^ (t + 1) * j PROVE FALSE
    <3>1. 2 ^ t * (2 * k + 1) = 2 ^ t * (2 * j) /\ 2 ^ t \in Nat \ {0}
      BY <1>2, <2>2
    <3>2. 2 * k + 1 = 2 * j
      BY <3>1
    <3> QED
      BY <3>2
  <2> QED
    BY <1>2, <2>1, <2>2, Divides
<1>4. ASSUME NEW u \in 0 .. PmpAddrBits, P(u) PROVE u = t
  <2>1. CASE u < t
    <3>1. 2 ^ ((u + 1) + (t - (u + 1))) = 2 ^ (u + 1) * 2 ^ (t - (u + 1))
      BY <1>1, <2>1, PowersMultiply
    <3>2. (u + 1) + (t - (u + 1)) = t /\ t - (u + 1) \in 0 .. PmpAddrBits
      BY <1>1, <2>1
    <3> DEFINE d == 2 ^ (u + 1)
               e == 2 ^ (t - (u + 1))
    <3>3. d \in Nat \ {0} /\ e \in Nat /\ 2 ^ t = d * e
      BY <1>2, <3>1, <3>2
    <3> HIDE DEF d, e
    <3>4. a + 1 = d * (e * (2 * k + 1)) /\ e * (2 * k + 1) \in Nat
      BY <3>3
    <3>4a. \E j \in Nat : a + 1 = d * j
      BY <3>4
    <3>4b. a + 1 \in Nat
      OBVIOUS
    <3>5. (a + 1) % d = 0
      BY <3>3, <3>4a, <3>4b, Divides, Zenon
    <3> QED
      BY <1>1, <1>4, <2>1, <3>5 DEF d
  <2>2. CASE u > t
    <3>1. 2 ^ ((t + 1) + (u - (t + 1))) = 2 ^ (t + 1) * 2 ^ (u - (t + 1))
      BY <1>1, <2>2, PowersMultiply
    <3>2. (t + 1) + (u - (t + 1)) = u /\ u - (t + 1) \in 0 .. PmpAddrBits
      BY <1>1, <2>2
    <3> DEFINE d == 2 ^ t
               e == 2 ^ (u - (t + 1))
    <3>3. d \in Nat \ {0} /\ e \in Nat /\ 2 ^ u = 2 * d * e
      BY <1>2, <3>1, <3>2
    <3>4. \E j \in Nat : a + 1 = 2 ^ u * j
      BY <1>2, <1>4, Divides
    <3> HIDE DEF d, e
    <3>5. PICK j \in Nat : a + 1 = 2 * d * e * j
      BY <3>3, <3>4
    <3>5a. a + 1 = d * (2 * k + 1)
      BY DEF d
    <3>5b. e * j \in Nat /\ 2 * d * e * j = d * (2 * (e * j))
      BY <3>3
    <3>6. d * (2 * k + 1) = d * (2 * (e * j)) /\ e * j \in Nat
      BY <3>5, <3>5a, <3>5b
    <3>7. 2 * k + 1 = 2 * (e * j)
      BY <3>3, <3>6
    <3> QED
      BY <3>6, <3>7
  <2> QED
    BY <1>1, <2>1, <2>2
<1>5. Ones(a) = CHOOSE u \in 0 .. PmpAddrBits : P(u)
  BY DEF Ones
<1> HIDE DEF P
<1> QED
  BY <1>3, <1>4, <1>5

(* The mode and the permissions that a configuration byte holds.           *)
LEMMA ModeIndices ==
    /\ ModeIndex("OFF") = 0 /\ ModeIndex("TOR") = 1 /\ ModeIndex("NA4") = 2
    /\ ModeIndex("NAPOT") = 3
<1>1. Modes[1] = "OFF" /\ Modes[2] = "TOR" /\ Modes[3] = "NA4" /\ Modes[4] = "NAPOT"
  BY DEF Modes
<1>2. ASSUME NEW n \in 0 .. 3 PROVE ModeIndex(Modes[n + 1]) = n
  <2>1. \A i \in 0 .. 3 : Modes[i + 1] = Modes[n + 1] => i = n
    BY <1>1
  <2> QED
    BY <2>1 DEF ModeIndex
<1> QED
  BY <1>1, <1>2

(* The fields of a configuration byte can be read back from their sum.     *)
LEMMA ByteHolds ==
    ASSUME NEW m \in 0 .. 3, NEW r \in {0, 1}, NEW w \in {0, 2}, NEW x \in {0, 4}, NEW l \in {0, 128}
    PROVE  LET b == 8 * m + r + w + x + l
           IN  /\ (b \div 8) % 4 = m
               /\ Bit(b, 0) <=> r # 0
               /\ Bit(b, 1) <=> w # 0
               /\ Bit(b, 2) <=> x # 0
               /\ Bit(b, 7) <=> l # 0
<1> DEFINE b == 8 * m + r + w + x + l
<1>1. 2 ^ 0 = 1 /\ 2 ^ 1 = 2 /\ 2 ^ 2 = 4 /\ 2 ^ 7 = 128
  OBVIOUS
<1>2. /\ (Bit(b, 0) <=> (b \div 1) % 2 = 1) /\ (Bit(b, 1) <=> (b \div 2) % 2 = 1)
      /\ (Bit(b, 2) <=> (b \div 4) % 2 = 1) /\ (Bit(b, 7) <=> (b \div 128) % 2 = 1)
  BY <1>1 DEF Bit
<1> QED
  BY <1>2

ModeNames == {"OFF", "TOR", "NA4", "NAPOT"}
(* W without R is cleared on the write.                                    *)
Held(perms) == IF "W" \in perms /\ "R" \notin perms THEN {} ELSE perms

(* So the byte of an entry holds its mode, its permissions and its lock    *)
(* (pmp_cases.py, the pmpcfg byte).                                        *)
LEMMA ByteRead ==
    ASSUME NEW mode \in ModeNames, NEW perms \in SUBSET RWX, NEW locked \in BOOLEAN
    PROVE  LET b == CfgByte(mode, perms, locked)
           IN  /\ EntryMode(b) = mode
               /\ Perms(b) = Held(perms)
               /\ Locked(b, "none") <=> locked
<1> DEFINE m == ModeIndex(mode)
           r == IF "R" \in perms THEN 1 ELSE 0
           w == IF "W" \in perms THEN 2 ELSE 0
           x == IF "X" \in perms THEN 4 ELSE 0
           l == IF locked THEN 128 ELSE 0
           b == 8 * m + r + w + x + l
<1>1. m \in 0 .. 3 /\ Modes[1 + m] = mode
  BY ModeIndices DEF ModeNames, Modes
<1>2. /\ (b \div 8) % 4 = m
      /\ Bit(b, 0) <=> "R" \in perms
      /\ Bit(b, 1) <=> "W" \in perms
      /\ Bit(b, 2) <=> "X" \in perms
      /\ Bit(b, 7) <=> locked
  <2>1. r \in {0, 1} /\ w \in {0, 2} /\ x \in {0, 4} /\ l \in {0, 128}
    OBVIOUS
  <2> HIDE DEF m
  <2>2. /\ (b \div 8) % 4 = m
        /\ Bit(b, 0) <=> r # 0
        /\ Bit(b, 1) <=> w # 0
        /\ Bit(b, 2) <=> x # 0
        /\ Bit(b, 7) <=> l # 0
    <3> HIDE DEF r, w, x, l
    <3> QED
      BY <1>1, <2>1, ByteHolds
  <2> HIDE DEF b
  <2> QED
    BY <2>2
<1>3. CfgByte(mode, perms, locked) = b
  BY DEF CfgByte
<1> HIDE DEF b, m
<1>4. EntryMode(b) = mode
  BY <1>1, <1>2 DEF EntryMode
<1>5. {y \in RWX : Bit(b, CASE y = "R" -> 0 [] y = "W" -> 1 [] y = "X" -> 2)} = perms
  <2>1. \A y \in RWX : Bit(b, CASE y = "R" -> 0 [] y = "W" -> 1 [] y = "X" -> 2) <=> y \in perms
    <3> SUFFICES ASSUME NEW y \in RWX
                 PROVE Bit(b, CASE y = "R" -> 0 [] y = "W" -> 1 [] y = "X" -> 2) <=> y \in perms
      OBVIOUS
    <3> DEFINE k == CASE y = "R" -> 0 [] y = "W" -> 1 [] y = "X" -> 2
    <3>1. /\ y = "R" => k = 0
          /\ y = "W" => k = 1
          /\ y = "X" => k = 2
      BY Zenon
    <3>2. y = "R" \/ y = "W" \/ y = "X"
      BY DEF RWX
    <3> HIDE DEF k
    <3>3. Bit(b, k) <=> y \in perms
      BY <1>2, <3>1, <3>2
    <3> QED
      BY <3>3 DEF k
  <2> QED
    BY <2>1
<1>6. Perms(b) = Held(perms)
  BY <1>5, Zenon DEF Perms, Held
<1>7. Locked(b, "none") <=> locked
  BY <1>2 DEF Locked
<1> QED
  BY <1>3, <1>4, <1>6, <1>7

(* The range of an entry, by its mode.                                     *)
LEMMA Ranges ==
    ASSUME NEW addrs, NEW bytes, NEW i, NEW grain
    PROVE  /\ EntryMode(bytes[i]) = "OFF" =>
                 EntryRange(addrs, bytes, i, grain, "none") = <<0, 0>>
           /\ EntryMode(bytes[i]) = "TOR" =>
                 EntryRange(addrs, bytes, i, grain, "none")
                   = <<IF i = 1 THEN 0 ELSE Bound(addrs[i - 1], grain), Bound(addrs[i], grain)>>
           /\ EntryMode(bytes[i]) = "NA4" =>
                 EntryRange(addrs, bytes, i, grain, "none") = <<4 * addrs[i], 4 * addrs[i] + 4>>
           /\ EntryMode(bytes[i]) = "NAPOT" =>
                 EntryRange(addrs, bytes, i, grain, "none") = NapotRange(addrs[i])
BY Zenon DEF EntryRange

(* With no granularity a bound is four times the register.                 *)
LEMMA FullBound == ASSUME NEW a \in Nat PROVE Bound(a, 0) = 4 * a
<1>1. 2 ^ 0 = 1
  OBVIOUS
<1> QED
  BY <1>1 DEF Bound

(* The range of a register whose successor is an odd multiple of a power   *)
(* of two.                                                                 *)
LEMMA NapotRanges ==
    ASSUME NEW a \in Nat, NEW t \in 0 .. PmpAddrBits, NEW k \in Nat, NEW d, d = 2 ^ t,
           a + 1 = d * (2 * k + 1)
    PROVE  NapotRange(a) = <<4 * (a + 1 - d), 4 * (a + 1 - d) + 8 * d>>
<1>1. Ones(a) = t
  BY OnesAre
<1> QED
  BY <1>1 DEF NapotRange

(* A page of RAM ...                                                       *)
LEMMA PageRange ==
    ASSUME NEW base \in Nat, base % 4096 = 0
    PROVE  /\ Napot(base, 4096) \in Nat
           /\ NapotRange(Napot(base, 4096)) = <<base, base + 4096>>
<1> DEFINE j == base \div 4096
           a == Napot(base, 4096)
<1>1. j \in Nat /\ base = 4096 * j
  OBVIOUS
<1> HIDE DEF j
<1>2. base \div 4 = 1024 * j /\ 4096 \div 8 = 512
  BY <1>1
<1>3. a = 1024 * j + 511
  BY <1>1, <1>2 DEF Napot
<1> HIDE DEF a
<1> DEFINE t == 9
           d == 512
<1>4. d = 2 ^ t /\ t \in 0 .. PmpAddrBits
  BY PowersAreNumbers
<1>5. a \in Nat /\ a + 1 = d * (2 * j + 1)
  BY <1>1, <1>3
<1> HIDE DEF d, t
<1>6. NapotRange(a) = <<4 * (a + 1 - d), 4 * (a + 1 - d) + 8 * d>>
  BY <1>1, <1>4, <1>5, NapotRanges, SMT
<1> QED
  BY <1>1, <1>3, <1>5, <1>6 DEF a, d

(* ... and everything.                                                     *)
LEMMA AllRange ==
    /\ Everything \in Nat /\ 2 ^ PmpAddrBits \in Nat
    /\ NapotRange(Everything) = <<0, 8 * 2 ^ PmpAddrBits>>
<1> DEFINE d == 2 ^ PmpAddrBits
<1>1. d \in Nat \ {0} /\ PmpAddrBits \in 0 .. PmpAddrBits
  BY PowersAreNumbers
<1>2. Everything = d - 1
  BY DEF Everything
<1>2a. d = 2 ^ PmpAddrBits /\ 0 \in Nat
  OBVIOUS
<1> HIDE DEF d
<1>2b. Everything \in Nat
  BY <1>1, <1>2
<1>3. Everything + 1 = d * (2 * 0 + 1)
  BY <1>1, <1>2
<1>4. NapotRange(Everything)
        = <<4 * (Everything + 1 - d), 4 * (Everything + 1 - d) + 8 * d>>
  BY <1>1, <1>2a, <1>2b, <1>3, NapotRanges, Zenon
<1>5. 4 * (Everything + 1 - d) = 0
  BY <1>1, <1>2
<1> QED
  BY <1>1, <1>2a, <1>2b, <1>4, <1>5

(* The last entry of every case permits everything and is not locked.      *)
LEMMA PermitAllIs ==
    EntryMode(PermitAll) = "NAPOT" /\ Perms(PermitAll) = RWX /\ ~Locked(PermitAll, "none")
<1>1. "NAPOT" \in ModeNames /\ RWX \in SUBSET RWX /\ FALSE \in BOOLEAN /\ Held(RWX) = RWX
  BY DEF ModeNames, Held, RWX
<1> QED
  BY <1>1, ByteRead DEF PermitAll

(* The bits that the arm of an access asks for.                            *)
LEMMA ArmsAreNamed == \A n \in DOMAIN Arms : NeedsOf(Arms[n].kind) = Arms[n].needs
<1>1. /\ Arms[1].kind = "Load" /\ Arms[2].kind = "LR" /\ Arms[3].kind = "Store"
      /\ Arms[4].kind = "SC" /\ Arms[5].kind = "AMO" /\ Arms[6].kind = "CB_manage"
      /\ Arms[7].kind = "CB_zero" /\ Arms[8].kind = "PREFETCH_I"
      /\ Arms[9].kind = "PREFETCH_R" /\ Arms[10].kind = "PREFETCH_W"
      /\ Arms[11].kind = "Vector" /\ Len(Arms) = 11 /\ DOMAIN Arms = 1 .. 11
  BY DEF Arms
<1>2. \A k \in 1 .. 11 : k = 1 \/ k = 2 \/ k = 3 \/ k = 4 \/ k = 5 \/ k = 6 \/ k = 7
                         \/ k = 8 \/ k = 9 \/ k = 10 \/ k = 11
  OBVIOUS
<1>3. \A n, k \in 1 .. 11 : Arms[k].kind = Arms[n].kind => k = n
  BY <1>1, <1>2
<1>4. ASSUME NEW n \in 1 .. 11 PROVE NeedsOf(Arms[n].kind) = Arms[n].needs
  <2>1. (CHOOSE k \in 1 .. Len(Arms) : Arms[k].kind = Arms[n].kind) = n
    BY <1>1, <1>3
  <2> QED
    BY <2>1 DEF NeedsOf
<1> QED
  BY <1>1, <1>4

(* The permissions each access needs.                                      *)
LEMMA ArmNeeds ==
    /\ NeedsOf("Load") = {"R"} /\ NeedsOf("LR") = {"R"} /\ NeedsOf("CB_manage") = {"R"}
    /\ NeedsOf("PREFETCH_R") = {"R"}
    /\ NeedsOf("Store") = {"W"} /\ NeedsOf("SC") = {"W"} /\ NeedsOf("CB_zero") = {"W"}
    /\ NeedsOf("PREFETCH_W") = {"W"}
    /\ NeedsOf("AMO") = {"R", "W"}
    /\ NeedsOf("PREFETCH_I") = {"X"}
<1>1. /\ Arms[1].kind = "Load" /\ Arms[2].kind = "LR" /\ Arms[3].kind = "Store"
      /\ Arms[4].kind = "SC" /\ Arms[5].kind = "AMO" /\ Arms[6].kind = "CB_manage"
      /\ Arms[7].kind = "CB_zero" /\ Arms[8].kind = "PREFETCH_I"
      /\ Arms[9].kind = "PREFETCH_R" /\ Arms[10].kind = "PREFETCH_W"
      /\ DOMAIN Arms = 1 .. 11
  BY DEF Arms
<1>2. /\ Arms[1].needs = {"R"} /\ Arms[2].needs = {"R"} /\ Arms[3].needs = {"W"}
      /\ Arms[4].needs = {"W"} /\ Arms[5].needs = {"R", "W"} /\ Arms[6].needs = {"R"}
      /\ Arms[7].needs = {"W"} /\ Arms[8].needs = {"X"} /\ Arms[9].needs = {"R"}
      /\ Arms[10].needs = {"W"}
  BY DEF Arms
<1>3. 1 \in 1 .. 11 /\ 2 \in 1 .. 11 /\ 3 \in 1 .. 11 /\ 4 \in 1 .. 11 /\ 5 \in 1 .. 11
      /\ 6 \in 1 .. 11 /\ 7 \in 1 .. 11 /\ 8 \in 1 .. 11 /\ 9 \in 1 .. 11 /\ 10 \in 1 .. 11
  OBVIOUS
<1> QED
  BY <1>1, <1>2, <1>3, ArmsAreNamed

(* The first entry that an access touches decides.                         *)
LEMMA FirstEntry ==
    ASSUME NEW c, NEW addr, NEW width, NEW kind, NEW grain, NEW bug, Len(c.pmpaddr) \in Nat,
           NEW i \in 1 .. Len(c.pmpaddr),
           MatchAt(c, i, addr, width, grain, bug) # "NoMatch",
           \A j \in 1 .. Len(c.pmpaddr) :
               j < i => MatchAt(c, j, addr, width, grain, bug) = "NoMatch"
    PROVE  PmpAllows(c, addr, width, kind, grain, bug) <=>
              /\ MatchAt(c, i, addr, width, grain, bug) = "Match"
              /\ \/ NeedsOf(kind) \subseteq Perms(c.pmpcfg[i])
                 \/ c.priv = "M" /\ ~Locked(c.pmpcfg[i], bug) /\ bug # "unlocked_binds"
                 \/ bug = "writes_unchecked" /\ kind \in {"Store", "SC", "AMO"}
<1> DEFINE hit == Hits(c, addr, width, grain, bug)
<1>1. i \in hit /\ \A j \in hit : i <= j
  BY DEF Hits
<1>2. hit \subseteq Nat
  BY DEF Hits
<1> HIDE DEF hit
<1>2a. \A x \in hit : (\A y \in hit : x <= y) => x = i
  <2> SUFFICES ASSUME NEW x \in hit, \A y \in hit : x <= y PROVE x = i
    OBVIOUS
  <2>1. x <= i /\ i <= x /\ x \in Nat /\ i \in Nat
    BY <1>1, <1>2
  <2> QED
    BY <2>1
<1>3. Least(hit) = i /\ hit # {}
  BY <1>1, <1>2a, Zenon DEF Least
<1> QED
  BY <1>3 DEF PmpAllows, hit

(* ... on a conforming hart by its permissions and its lock.               *)
LEMMA FirstDecides ==
    ASSUME NEW c, NEW addr, NEW width, NEW kind, NEW grain, Len(c.pmpaddr) \in Nat,
           NEW i \in 1 .. Len(c.pmpaddr),
           MatchAt(c, i, addr, width, grain, "none") # "NoMatch",
           \A j \in 1 .. Len(c.pmpaddr) :
               j < i => MatchAt(c, j, addr, width, grain, "none") = "NoMatch"
    PROVE  PmpAllows(c, addr, width, kind, grain, "none") <=>
              /\ MatchAt(c, i, addr, width, grain, "none") = "Match"
              /\ \/ NeedsOf(kind) \subseteq Perms(c.pmpcfg[i])
                 \/ c.priv = "M" /\ ~Locked(c.pmpcfg[i], "none")
BY FirstEntry

(* On a conforming hart an entry matches as its range says.                *)
LEMMA Conforming ==
    ASSUME NEW c, NEW i, NEW addr, NEW width, NEW grain
    PROVE  MatchAt(c, i, addr, width, grain, "none")
             = RangeMatch(EntryRange(c.pmpaddr, c.pmpcfg, i, grain, "none"), addr, width)
BY DEF MatchAt

PmpMachine(m) ==
    /\ m.grain \in Nat /\ m.ram \in Nat /\ m.ram % 4096 = 0
    /\ PmpTop(m) <= WordSize - 2049 /\ PmpTop(m) <= 8 * 2 ^ PmpAddrBits
    /\ m.tor => m.grain = 0
PmpEnds(c, grain, has) ==
    Needs(c.access) \in has \cup {NoExtension} =>
        PmpTrap(c, c.addr, Insn(c), grain, has, "none") = c.expect
Claims(c, grain) ==
    c.id # <<"NA4", "inside">> =>
        RangeMatch(EntryRange(c.pmpaddr, c.pmpcfg, Len(c.pmpaddr) - 1, grain, "none"),
                   c.addr + Insn(c).disp, Insn(c).width) = c.claim
Arrives(c) == c.addr \in Nat /\ c.addr <= WordSize - 2049
(* What holds of every case: its address is one x2 can hold, the entry its *)
(* registers encode lies where it claims, and it ends as expected.         *)
PmpRight(c, grain, has) == Arrives(c) /\ Claims(c, grain) /\ PmpEnds(c, grain, has)

(* The base of the cases is a page that x2 can be given.                   *)
LEMMA BaseIs ==
    ASSUME NEW m, PmpMachine(m)
    PROVE  /\ Base(m) \in Nat /\ Base(m) % 4096 = 0
           /\ Base(m) + 131072 <= WordSize - 2049 /\ Base(m) + 131072 <= 8 * 2 ^ PmpAddrBits
           /\ WordSize \in Nat
<1>1. WordSize \in Nat
  BY CorporaAssumption
<1>2. Base(m) = m.ram + 131072 /\ PmpTop(m) = m.ram + 262144 /\ m.ram \in Nat /\ m.ram % 4096 = 0
  BY DEF Base, PmpTop, PmpMachine
<1>3. Base(m) + 131072 = PmpTop(m)
  BY <1>2
<1> QED
  BY <1>1, <1>2, <1>3 DEF PmpMachine

(* The cause of an access that is not allowed is its arm's.                *)
LEMMA TrapIs ==
    ASSUME NEW c, NEW x2, NEW insn, NEW grain, NEW has, NEW bug,
           Needs(c.access) \in has \cup {NoExtension}
    PROVE  PmpTrap(c, x2, insn, grain, has, bug)
             = IF PmpAllows(c, x2 + insn.disp, insn.width, c.access, grain, bug) THEN 0
               ELSE FaultCause(c.access)
<1>1. CASE PmpAllows(c, x2 + insn.disp, insn.width, c.access, grain, bug)
  BY <1>1 DEF PmpTrap
<1>2. CASE ~PmpAllows(c, x2 + insn.disp, insn.width, c.access, grain, bug)
  <2>1. PmpTrap(c, x2, insn, grain, has, bug)
          = CASE c.access \in {"PREFETCH_I", "PREFETCH_R", "PREFETCH_W"} -> 0
              [] c.access \in {"Load", "LR"} -> 5
              [] OTHER -> 7
    BY <1>2 DEF PmpTrap
  <2> QED
    BY <1>2, <2>1 DEF FaultCause, Allow
<1> QED
  BY <1>1, <1>2

(* An access lies outside of a range, in it, or across its end.            *)
LEMMA ThreeAnswers ==
    \A range, addr, width : RangeMatch(range, addr, width) \in {"NoMatch", "Match", "PartialMatch"}
BY DEF RangeMatch

(* The last entry of every case matches every access.                      *)
LEMMA LastPermits ==
    ASSUME NEW c, NEW n, c.pmpaddr[n] = Everything, c.pmpcfg[n] = PermitAll,
           NEW addr \in Nat, NEW width \in Nat \ {0}, addr + width <= 8 * 2 ^ PmpAddrBits, NEW grain
    PROVE  MatchAt(c, n, addr, width, grain, "none") = "Match"
<1> DEFINE top == 8 * 2 ^ PmpAddrBits
           range == EntryRange(c.pmpaddr, c.pmpcfg, n, grain, "none")
<1>1. range = <<0, top>>
  BY Ranges, AllRange, PermitAllIs
<1>2. top \in Nat
  BY AllRange
<1>3. range[1] = 0 /\ range[2] = top /\ addr + width <= top
  BY <1>1
<1> HIDE DEF top, range
<1>4. RangeMatch(range, addr, width) = "Match"
  BY <1>2, <1>3 DEF RangeMatch
<1> QED
  BY <1>4, Conforming DEF range

(* An entry with the permissions of a byte lets an access through.         *)
Lets(c, kind, byte) ==
    NeedsOf(kind) \subseteq Perms(byte) \/ (c.priv = "M" /\ ~Locked(byte, "none"))

(* Read, write and execute are all an access can need.                     *)
LEMMA AllNeeds == \A kind \in Emitters : NeedsOf(kind) \subseteq RWX
BY ArmNeeds DEF Emitters, RWX

(* With one entry before the last, the entry decides of what it touches.   *)
LEMMA OneRegister ==
    ASSUME NEW c, NEW a, NEW b, c.pmpaddr = <<a, Everything>>, c.pmpcfg = <<b, PermitAll>>,
           NEW addr \in Nat, NEW width \in Nat \ {0}, addr + width <= 8 * 2 ^ PmpAddrBits, NEW grain,
           NEW kind \in Emitters
    PROVE  LET match == RangeMatch(EntryRange(c.pmpaddr, c.pmpcfg, 1, grain, "none"), addr, width)
           IN  PmpAllows(c, addr, width, kind, grain, "none") <=>
                  match = "NoMatch" \/ (match = "Match" /\ Lets(c, kind, b))
<1> DEFINE match == RangeMatch(EntryRange(c.pmpaddr, c.pmpcfg, 1, grain, "none"), addr, width)
<1>1. /\ Len(c.pmpaddr) = 2 /\ 1 \in 1 .. Len(c.pmpaddr) /\ 2 \in 1 .. Len(c.pmpaddr)
      /\ c.pmpcfg[1] = b /\ c.pmpcfg[2] = PermitAll
      /\ c.pmpaddr[2] = Everything
  OBVIOUS
<1>2. MatchAt(c, 2, addr, width, grain, "none") = "Match"
  BY <1>1, LastPermits
<1>3. MatchAt(c, 1, addr, width, grain, "none") = match
  BY Conforming
<1>4. match \in {"NoMatch", "Match", "PartialMatch"}
  BY ThreeAnswers
<1> HIDE DEF match
<1>5. CASE match = "NoMatch"
  <2>1. \A j \in 1 .. Len(c.pmpaddr) : j < 2 => MatchAt(c, j, addr, width, grain, "none") = "NoMatch"
    BY <1>1, <1>3, <1>5
  <2>2. PmpAllows(c, addr, width, kind, grain, "none") <=>
           \/ NeedsOf(kind) \subseteq Perms(PermitAll)
           \/ c.priv = "M" /\ ~Locked(PermitAll, "none")
    BY <1>1, <1>2, <2>1, FirstDecides
  <2> QED
    BY <1>5, <2>2, PermitAllIs, AllNeeds DEF match
<1>6. CASE match # "NoMatch"
  <2>1. \A j \in 1 .. Len(c.pmpaddr) : j < 1 => MatchAt(c, j, addr, width, grain, "none") = "NoMatch"
    BY <1>1
  <2>2. PmpAllows(c, addr, width, kind, grain, "none") <=> match = "Match" /\ Lets(c, kind, b)
    BY <1>1, <1>3, <1>6, <2>1, FirstDecides DEF Lets
  <2> QED
    BY <1>6, <2>2 DEF match
<1> QED
  BY <1>5, <1>6

TwoDecide(c, b1, b2, addr, width, kind, grain) ==
    LET match(i) == RangeMatch(EntryRange(c.pmpaddr, c.pmpcfg, i, grain, "none"), addr, width)
    IN  PmpAllows(c, addr, width, kind, grain, "none") <=>
           \/ match(1) = "Match" /\ Lets(c, kind, b1)
           \/ /\ match(1) = "NoMatch"
              /\ match(2) = "NoMatch" \/ (match(2) = "Match" /\ Lets(c, kind, b2))

(* With two entries before the last, the first of them touched decides.    *)
LEMMA TwoRegisters ==
    ASSUME NEW c, NEW a1, NEW a2, NEW b1, NEW b2, c.pmpaddr = <<a1, a2, Everything>>,
           c.pmpcfg = <<b1, b2, PermitAll>>,
           NEW addr \in Nat, NEW width \in Nat \ {0}, addr + width <= 8 * 2 ^ PmpAddrBits, NEW grain,
           NEW kind \in Emitters
    PROVE  TwoDecide(c, b1, b2, addr, width, kind, grain)
<1> DEFINE match(i) == RangeMatch(EntryRange(c.pmpaddr, c.pmpcfg, i, grain, "none"), addr, width)
<1>1. /\ Len(c.pmpaddr) = 3 /\ 1 \in 1 .. Len(c.pmpaddr) /\ 2 \in 1 .. Len(c.pmpaddr)
      /\ 3 \in 1 .. Len(c.pmpaddr)
      /\ c.pmpcfg[1] = b1 /\ c.pmpcfg[2] = b2 /\ c.pmpcfg[3] = PermitAll
      /\ c.pmpaddr[3] = Everything
  OBVIOUS
<1>2. MatchAt(c, 3, addr, width, grain, "none") = "Match"
  BY <1>1, LastPermits
<1>3. /\ MatchAt(c, 1, addr, width, grain, "none") = match(1)
      /\ MatchAt(c, 2, addr, width, grain, "none") = match(2)
  BY Conforming
<1>4. match(1) \in {"NoMatch", "Match", "PartialMatch"} /\ match(2) \in {"NoMatch", "Match", "PartialMatch"}
  BY ThreeAnswers
<1> DEFINE m1 == match(1)
           m2 == match(2)
<1> HIDE DEF m1, m2
<1>3a. /\ MatchAt(c, 1, addr, width, grain, "none") = m1
       /\ MatchAt(c, 2, addr, width, grain, "none") = m2
       /\ m1 \in {"NoMatch", "Match", "PartialMatch"} /\ m2 \in {"NoMatch", "Match", "PartialMatch"}
  BY <1>3, <1>4 DEF m1, m2
<1> HIDE DEF match
<1>5. CASE m1 = "NoMatch" /\ m2 = "NoMatch"
  <2>1. \A j \in 1 .. Len(c.pmpaddr) : j < 3 => MatchAt(c, j, addr, width, grain, "none") = "NoMatch"
    BY <1>1, <1>3a, <1>5
  <2>2. PmpAllows(c, addr, width, kind, grain, "none") <=>
           \/ NeedsOf(kind) \subseteq Perms(PermitAll)
           \/ c.priv = "M" /\ ~Locked(PermitAll, "none")
    <3>1. MatchAt(c, 3, addr, width, grain, "none") # "NoMatch" /\ Len(c.pmpaddr) \in Nat
      BY <1>1, <1>2
    <3>2. 3 \in 1 .. Len(c.pmpaddr) /\ c.pmpcfg[3] = PermitAll
      BY <1>1
    <3>3. PmpAllows(c, addr, width, kind, grain, "none") <=>
             /\ MatchAt(c, 3, addr, width, grain, "none") = "Match"
             /\ \/ NeedsOf(kind) \subseteq Perms(c.pmpcfg[3])
                \/ c.priv = "M" /\ ~Locked(c.pmpcfg[3], "none")
      BY <2>1, <3>1, <3>2, FirstDecides
    <3> QED
      BY <1>2, <3>2, <3>3
  <2> QED
    BY <1>5, <2>2, PermitAllIs, AllNeeds DEF m1, m2, match, TwoDecide
<1>6. CASE m1 = "NoMatch" /\ m2 # "NoMatch"
  <2>1. \A j \in 1 .. Len(c.pmpaddr) : j < 2 => MatchAt(c, j, addr, width, grain, "none") = "NoMatch"
    BY <1>1, <1>3a, <1>6
  <2>2. PmpAllows(c, addr, width, kind, grain, "none") <=> m2 = "Match" /\ Lets(c, kind, b2)
    BY <1>1, <1>3a, <1>6, <2>1, FirstDecides DEF Lets
  <2> QED
    BY <1>6, <2>2 DEF m1, m2, match, TwoDecide
<1>7. CASE m1 # "NoMatch"
  <2>1. \A j \in 1 .. Len(c.pmpaddr) : j < 1 => MatchAt(c, j, addr, width, grain, "none") = "NoMatch"
    BY <1>1
  <2>2. PmpAllows(c, addr, width, kind, grain, "none") <=> m1 = "Match" /\ Lets(c, kind, b1)
    BY <1>1, <1>3a, <1>7, <2>1, FirstDecides DEF Lets
  <2> QED
    BY <1>7, <2>2 DEF m1, m2, match, TwoDecide
<1> QED
  BY <1>5, <1>6, <1>7

(* A case of one register.                                                 *)
LEMMA Permitting == ASSUME NEW a, NEW z PROVE Append(<<a>>, z) = <<a, z>>
<1>1. <<a>> \in Seq({a, z}) /\ z \in {a, z}
  OBVIOUS
<1>2. /\ Append(<<a>>, z) \in Seq({a, z}) /\ Len(Append(<<a>>, z)) = 2
      /\ Append(<<a>>, z)[1] = a /\ Append(<<a>>, z)[2] = z
  BY <1>1, AppendProperties
<1> DEFINE s == Append(<<a>>, z)
           t == <<a, z>>
<1>3. t \in Seq({a, z}) /\ Len(t) = 2 /\ t[1] = a /\ t[2] = z
  OBVIOUS
<1> HIDE DEF s, t
<1>4. s \in Seq({a, z}) /\ Len(s) = 2 /\ s[1] = a /\ s[2] = z
  BY <1>2 DEF s
<1>5. Len(s) = Len(t) /\ \A i \in 1 .. Len(s) : s[i] = t[i]
  BY <1>3, <1>4
<1>6. s = t
  BY <1>3, <1>4, <1>5, SeqEqual
<1> QED
  BY <1>6 DEF s, t

(* The entry that permits everything comes after two others.               *)
LEMMA PermittingTwo == ASSUME NEW a, NEW b, NEW z PROVE Append(<<a, b>>, z) = <<a, b, z>>
<1>1. <<a, b>> \in Seq({a, b, z}) /\ z \in {a, b, z} /\ Len(<<a, b>>) = 2
  OBVIOUS
<1>2. /\ Append(<<a, b>>, z) \in Seq({a, b, z}) /\ Len(Append(<<a, b>>, z)) = 3
      /\ Append(<<a, b>>, z)[1] = a /\ Append(<<a, b>>, z)[2] = b /\ Append(<<a, b>>, z)[3] = z
  BY <1>1, AppendProperties
<1> DEFINE s == Append(<<a, b>>, z)
           t == <<a, b, z>>
<1>3. t \in Seq({a, b, z}) /\ Len(t) = 3 /\ t[1] = a /\ t[2] = b /\ t[3] = z
  OBVIOUS
<1> HIDE DEF s, t
<1>4. s \in Seq({a, b, z}) /\ Len(s) = 3 /\ s[1] = a /\ s[2] = b /\ s[3] = z
  BY <1>2 DEF s
<1>5. Len(s) = Len(t) /\ \A i \in 1 .. Len(s) : s[i] = t[i]
  BY <1>3, <1>4
<1>6. s = t
  BY <1>3, <1>4, <1>5, SeqEqual
<1> QED
  BY <1>6 DEF s, t
OneEntry(c, a, b, access, addr, expect, claim) ==
    /\ c.pmpaddr = <<a, Everything>> /\ c.pmpcfg = <<b, PermitAll>>
    /\ c.access = access /\ c.addr = addr /\ c.expect = expect /\ c.claim = claim

(* What a case with one register holds.                                    *)
LEMMA CaseOfOne ==
    ASSUME NEW c, NEW id, NEW a, NEW b, NEW access, NEW addr, NEW expect, NEW claim,
           c = Case(id, <<a>>, <<b>>, access, addr, expect, claim)
    PROVE  /\ OneEntry(c, a, b, access, addr, expect, claim)
           /\ c.id = id /\ c.priv = "M" /\ c.opcode = "default"
<1> DEFINE aa == <<a, Everything>>
           bb == <<b, PermitAll>>
<1>1. aa = Append(<<a>>, Everything) /\ bb = Append(<<b>>, PermitAll)
  BY Permitting
<1> HIDE DEF aa, bb
<1>2. c = [id |-> id, pmpaddr |-> aa, pmpcfg |-> bb, access |-> access,
           addr |-> addr, expect |-> expect, claim |-> claim, priv |-> "M", opcode |-> "default"]
  BY <1>1 DEF Case
<1>3. c.pmpaddr = aa /\ c.pmpcfg = bb
  BY <1>2
<1>4. c.access = access /\ c.addr = addr /\ c.expect = expect /\ c.claim = claim
  BY <1>2
<1>5. c.id = id /\ c.priv = "M" /\ c.opcode = "default"
  BY <1>2
<1> QED
  BY <1>3, <1>4, <1>5 DEF OneEntry, aa, bb
Opcodes == {"default", "lbu_disp1", "ld_disp4"}
WidthsOf(c) ==
    /\ Insn(c).width \in {1, 4, 8} /\ Insn(c).disp \in {0, 1, 4}
    /\ c.opcode = "default" => Insn(c).disp = 0
    /\ c.opcode = "default" /\ c.access = "Load" => Insn(c).width = 4
    /\ c.opcode = "default" /\ c.access = "LR" => Insn(c).width = 8
    /\ c.opcode = "lbu_disp1" => Insn(c).width = 1 /\ Insn(c).disp = 1
    /\ c.opcode = "ld_disp4" => Insn(c).width = 8 /\ Insn(c).disp = 4

(* The width and the displacement of the instruction of a case.            *)
LEMMA Widths ==
    ASSUME NEW c, c.opcode \in Opcodes, c.access \in Emitters
    PROVE  WidthsOf(c)
<1>1. CASE c.opcode = "default"
  <2>1. c.access \in {"Load", "Store"} => Insn(c) = [width |-> 4, disp |-> 0]
    BY <1>1, Zenon DEF Insn
  <2>2. c.access \in {"LR", "SC", "AMO"} => Insn(c) = [width |-> 8, disp |-> 0]
    BY <1>1, Zenon DEF Insn
  <2>3. c.access \notin {"Load", "Store", "LR", "SC", "AMO"} => Insn(c) = [width |-> 1, disp |-> 0]
    BY <1>1, Zenon DEF Insn
  <2> QED
    BY <1>1, <2>1, <2>2, <2>3 DEF WidthsOf
<1>2. CASE c.opcode # "default"
  BY <1>2 DEF Insn, Opcodes, WidthsOf
<1> QED
  BY <1>1, <1>2

(* Both are small.                                                         *)
LEMMA WidthBounds ==
    ASSUME NEW c, c.opcode \in Opcodes, c.access \in Emitters
    PROVE  Insn(c).width \in {1, 4, 8} /\ Insn(c).disp \in {0, 1, 4}
BY Widths, Zenon DEF WidthsOf

(* What is decided of an access of a case with one entry.                  *)
OneDecides(c, b, addr, width, kind, grain) ==
    LET match == RangeMatch(EntryRange(c.pmpaddr, c.pmpcfg, 1, grain, "none"), addr, width)
    IN  PmpAllows(c, addr, width, kind, grain, "none") <=>
           match = "NoMatch" \/ (match = "Match" /\ Lets(c, kind, b))
Reachable(addr, width) ==
    addr \in Nat /\ width \in Nat \ {0} /\ addr + width <= 8 * 2 ^ PmpAddrBits

(* The entry of a case with one decides of what its access touches.        *)
LEMMA OneEntryDecides ==
    ASSUME NEW c, NEW a, NEW b, NEW kind \in Emitters, NEW x, NEW expect, NEW claim,
           OneEntry(c, a, b, kind, x, expect, claim),
           NEW addr, NEW width, Reachable(addr, width), NEW grain
    PROVE  OneDecides(c, b, addr, width, kind, grain)
<1>1. c.pmpaddr = <<a, Everything>> /\ c.pmpcfg = <<b, PermitAll>>
  BY DEF OneEntry
<1>2. addr \in Nat /\ width \in Nat \ {0} /\ addr + width <= 8 * 2 ^ PmpAddrBits
  BY DEF Reachable
<1> QED
  BY <1>1, <1>2, OneRegister DEF OneDecides

(* A case with one entry, of which the entry's range and byte are known.   *)
LEMMA OneEntryRight ==
    ASSUME NEW c, NEW a, NEW b, NEW kind \in Emitters, NEW x \in Nat, NEW expect, NEW claim,
           OneEntry(c, a, b, kind, x, expect, claim), c.opcode \in Opcodes,
           x <= WordSize - 2049, Reachable(x + Insn(c).disp, Insn(c).width),
           NEW grain, NEW has, NEW range,
           EntryRange(c.pmpaddr, c.pmpcfg, 1, grain, "none") = range,
           c.id # <<"NA4", "inside">> => RangeMatch(range, x + Insn(c).disp, Insn(c).width) = claim,
           NEW match, RangeMatch(range, x + Insn(c).disp, Insn(c).width) = match,
           expect = IF match = "NoMatch" \/ (match = "Match" /\ Lets(c, kind, b)) THEN 0
                    ELSE FaultCause(kind)
    PROVE  PmpRight(c, grain, has)
<1> DEFINE at == x + Insn(c).disp
           width == Insn(c).width
<1>1. c.access = kind /\ c.addr = x /\ c.expect = expect /\ c.claim = claim
      /\ c.pmpaddr = <<a, Everything>>
  BY DEF OneEntry
<1>2. OneDecides(c, b, at, width, kind, grain)
  BY OneEntryDecides
<1>3. PmpAllows(c, at, width, kind, grain, "none") <=>
         match = "NoMatch" \/ (match = "Match" /\ Lets(c, kind, b))
  BY <1>2 DEF OneDecides
<1>4. PmpEnds(c, grain, has)
  BY <1>1, <1>3, TrapIs DEF PmpEnds
<1>5. Claims(c, grain)
  <2>1. Len(c.pmpaddr) - 1 = 1
    BY <1>1
  <2> QED
    BY <1>1, <2>1 DEF Claims
<1>6. Arrives(c)
  BY <1>1 DEF Arrives
<1> QED
  BY <1>4, <1>5, <1>6 DEF PmpRight

(* The page: what lies in it matches, and the byte of its entry decides.   *)
PageAt(m) == Napot(Base(m) + 4096, 4096)
InPage(m, x) == x \in Base(m) + 4096 .. Base(m) + 8000
Answer(c, kind, perms, locked) ==
    IF NeedsOf(kind) \subseteq Held(perms) \/ (c.priv = "M" /\ ~locked) THEN 0 ELSE FaultCause(kind)

(* The range of the page's register is the page.                           *)
LEMMA PageIs ==
    ASSUME NEW m, PmpMachine(m)
    PROVE  NapotRange(PageAt(m)) = <<Base(m) + 4096, Base(m) + 8192>>
<1>1. Base(m) \in Nat /\ Base(m) % 4096 = 0
  BY BaseIs
<1>2. Base(m) + 4096 \in Nat /\ (Base(m) + 4096) % 4096 = 0 /\ (Base(m) + 4096) + 4096 = Base(m) + 8192
  BY <1>1
<1> QED
  BY <1>2, PageRange DEF PageAt

(* A case whose access lies in the page is right.                          *)
LEMMA PageCase ==
    ASSUME NEW m, PmpMachine(m), NEW c, NEW grain, NEW has,
           NEW perms \in SUBSET RWX, NEW locked \in BOOLEAN, NEW kind \in Emitters,
           NEW x, InPage(m, x), NEW expect, expect = Answer(c, kind, perms, locked),
           OneEntry(c, PageAt(m), CfgByte("NAPOT", perms, locked), kind, x, expect, "Match"),
           c.opcode \in Opcodes
    PROVE  PmpRight(c, grain, has)
<1> DEFINE b == CfgByte("NAPOT", perms, locked)
           at == x + Insn(c).disp
           width == Insn(c).width
           begin == Base(m) + 4096
           end == Base(m) + 8192
<1>1. /\ Base(m) \in Nat /\ Base(m) % 4096 = 0 /\ WordSize \in Nat
      /\ Base(m) + 131072 <= WordSize - 2049 /\ Base(m) + 131072 <= 8 * 2 ^ PmpAddrBits
      /\ 2 ^ PmpAddrBits \in Nat
  BY BaseIs, AllRange
<1>2. EntryMode(b) = "NAPOT" /\ Perms(b) = Held(perms) /\ (Locked(b, "none") <=> locked)
  BY ByteRead DEF ModeNames
<1> HIDE DEF b
<1>3. c.pmpaddr[1] = PageAt(m) /\ c.pmpcfg[1] = b /\ c.access = kind
  BY DEF OneEntry, b
<1>4. EntryRange(c.pmpaddr, c.pmpcfg, 1, grain, "none") = <<begin, end>>
  BY <1>2, <1>3, PageIs, Ranges
<1>5. width \in {1, 4, 8} /\ Insn(c).disp \in {0, 1, 4}
  <2>1. c.opcode \in Opcodes /\ c.access \in Emitters
    BY <1>3
  <2> QED
    BY <2>1, WidthBounds, SMT
<1>6. x \in Nat /\ x <= Base(m) + 8000 /\ Base(m) + 4096 <= x
  BY <1>1, SMT DEF InPage
<1>7. /\ at \in Nat /\ width \in Nat \ {0} /\ at + width <= 8 * 2 ^ PmpAddrBits
      /\ begin <= at /\ at + width <= end /\ x <= WordSize - 2049 /\ begin \in Nat /\ end \in Nat
      /\ begin < end
  BY <1>1, <1>5, <1>6, SMT
<1>8. Reachable(at, width)
  BY <1>7 DEF Reachable
<1> HIDE DEF at, width, begin, end
<1>9. RangeMatch(<<begin, end>>, at, width) = "Match"
  BY <1>7, SMT DEF RangeMatch
<1>10. expect = IF Lets(c, kind, b) THEN 0 ELSE FaultCause(kind)
  BY <1>2, SMT DEF Lets, Answer
<1>11. OneEntry(c, PageAt(m), b, kind, x, expect, "Match")
  BY DEF b
<1> QED
  BY <1>4, <1>6, <1>7, <1>8, <1>9, <1>10, <1>11, OneEntryRight, SMT DEF at, width

Plain(c) == c.access \in {"Load", "LR"}

(* The case of the entry that is off is right.                             *)
LEMMA OffCaseRight ==
    ASSUME NEW m, PmpMachine(m), NEW c \in Range(OffCase(m)), NEW grain, NEW has
    PROVE  PmpRight(c, grain, has) /\ Plain(c)
<1> DEFINE b == CfgByte("OFF", RWX, FALSE)
           x == Base(m) + 8
<1>1. c = Case(<<"OFF", "n/a">>, <<PageAt(m)>>, <<b>>, "Load", x, 0, "NoMatch")
  BY DEF OffCase, Range, Page, PageAt, Allow
<1>2. EntryMode(b) = "OFF"
  BY ByteRead DEF ModeNames
<1>3. /\ Base(m) \in Nat /\ WordSize \in Nat
      /\ Base(m) + 131072 <= WordSize - 2049 /\ Base(m) + 131072 <= 8 * 2 ^ PmpAddrBits
      /\ 2 ^ PmpAddrBits \in Nat
  BY BaseIs, AllRange
<1>4. x \in Nat /\ x + 4 <= 8 * 2 ^ PmpAddrBits /\ x <= WordSize - 2049
  BY <1>3, SMT
<1> HIDE DEF b, x
<1>5. OneEntry(c, PageAt(m), b, "Load", x, 0, "NoMatch") /\ c.opcode = "default"
  BY <1>1, CaseOfOne
<1>6. c.opcode \in Opcodes /\ "Load" \in Emitters /\ c.access = "Load"
  BY <1>5 DEF Opcodes, Emitters, OneEntry
<1>7. EntryRange(c.pmpaddr, c.pmpcfg, 1, grain, "none") = <<0, 0>>
  <2>1. c.pmpcfg[1] = b
    BY <1>5 DEF OneEntry
  <2> QED
    BY <1>2, <2>1, Ranges
<1>8. Insn(c).width = 4 /\ Insn(c).disp = 0 /\ x + 0 = x
  <2>1. WidthsOf(c)
    BY <1>6, Widths
  <2> QED
    BY <1>4, <1>5, <1>6, <2>1 DEF WidthsOf
<1>9. Reachable(x + Insn(c).disp, Insn(c).width)
  BY <1>4, <1>8 DEF Reachable
<1>10. RangeMatch(<<0, 0>>, x + Insn(c).disp, Insn(c).width) = "NoMatch"
  BY DEF RangeMatch
<1> QED
  BY <1>4, <1>5, <1>6, <1>7, <1>9, <1>10, OneEntryRight, SMT DEF Plain

(* An arm with an emitter asks for some of the bits.                       *)
LEMMA EmittedArms ==
    ASSUME NEW m
    PROVE  /\ IsList(Emitted(m))
           /\ \A arm \in Range(Emitted(m)) :
                 /\ arm.kind \in Emitters /\ arm.needs = NeedsOf(arm.kind)
                 /\ arm.needs \in SUBSET RWX /\ arm.needs # {}
                 /\ Needs(arm.kind) \in m.ext \cup {NoExtension}
<1> DEFINE I == {i \in DOMAIN Arms : ~Arms[i].nested}
           J == {i \in DOMAIN AccessArms :
                   /\ AccessArms[i].kind \in Emitters
                   /\ Needs(AccessArms[i].kind) \in m.ext \cup {NoExtension}}
<1>1. IsList(Arms)
  BY WrittenOut, Zenon DEF Arms
<1>2. IsList(AccessArms) /\ Range(AccessArms) = {Arms[i] : i \in I}
  BY <1>1, ThoseAsked DEF AccessArms
<1>3. IsList(Emitted(m)) /\ Range(Emitted(m)) = {AccessArms[j] : j \in J}
  BY <1>2, ThoseAsked DEF Emitted, EmittedOf
<1>4. ASSUME NEW arm \in Range(Emitted(m))
      PROVE  /\ arm.kind \in Emitters /\ arm.needs = NeedsOf(arm.kind)
             /\ arm.needs \in SUBSET RWX /\ arm.needs # {}
             /\ Needs(arm.kind) \in m.ext \cup {NoExtension}
  <2>1. PICK j \in J : arm = AccessArms[j]
    BY <1>3
  <2>2. arm \in Range(AccessArms)
    BY <2>1 DEF Range
  <2>3. PICK i \in DOMAIN Arms : arm = Arms[i]
    BY <1>2, <2>2
  <2>4. arm.kind \in Emitters /\ Needs(arm.kind) \in m.ext \cup {NoExtension}
    BY <2>1
  <2>5. arm.needs = NeedsOf(arm.kind)
    BY <2>3, ArmsAreNamed
  <2>6. arm.needs \in SUBSET RWX /\ arm.needs # {}
    BY <2>3 DEF Arms, RWX
  <2> QED
    BY <2>4, <2>5, <2>6
<1> QED
  BY <1>3, <1>4

(* The cases of the permissions are those of the arms with an emitter.     *)
LEMMA PermissionCasesAre ==
    ASSUME NEW m
    PROVE  /\ IsList(PermissionCases(m))
           /\ \A c \in Range(PermissionCases(m)) :
                 \E arm \in Range(Emitted(m)), granted \in BOOLEAN : c = ArmCase(m, arm, granted)
           /\ \A arm \in Range(Emitted(m)) : ArmCase(m, arm, FALSE) \in Range(PermissionCases(m))
<1> DEFINE arms == Emitted(m)
           N == 2 * Len(arms)
           Nth(i) == ArmCase(m, arms[(i + 1) \div 2], i % 2 = 1)
<1>1. IsList(arms)
  BY EmittedArms
<1>2. Len(arms) \in Nat /\ DOMAIN arms = 1 .. Len(arms)
  BY <1>1, LenProperties DEF IsList
<1>3. PermissionCases(m) = [i \in 1 .. N |-> Nth(i)]
  BY Zenon DEF PermissionCases, ArmCase
<1>4. N \in Nat
  BY <1>2
<1> HIDE DEF arms, N, Nth
<1>5. DOMAIN PermissionCases(m) = 1 .. N /\ \A i \in 1 .. N : PermissionCases(m)[i] = Nth(i)
  BY <1>3
<1>6. IsList(PermissionCases(m))
  <2>1. PermissionCases(m) = [i \in 1 .. N |-> PermissionCases(m)[i]]
    BY <1>3, <1>5
  <2> QED
    BY <1>4, <1>5, <2>1, ListIsFunction
<1>7. ASSUME NEW c \in Range(PermissionCases(m))
      PROVE  \E arm \in Range(arms), granted \in BOOLEAN : c = ArmCase(m, arm, granted)
  <2>1. PICK i \in 1 .. N : c = Nth(i)
    BY <1>5 DEF Range
  <2>2. (i + 1) \div 2 \in 1 .. Len(arms)
    BY <1>2 DEF N
  <2>3. arms[(i + 1) \div 2] \in Range(arms)
    BY <1>2, <2>2 DEF Range
  <2>4. (i % 2 = 1) \in BOOLEAN
    OBVIOUS
  <2> QED
    BY <2>1, <2>3, <2>4, Zenon DEF Nth
<1>8. ASSUME NEW arm \in Range(arms) PROVE ArmCase(m, arm, FALSE) \in Range(PermissionCases(m))
  <2>1. PICK k \in 1 .. Len(arms) : arms[k] = arm
    BY <1>2 DEF Range
  <2>2. 2 * k \in 1 .. N /\ (2 * k + 1) \div 2 = k /\ (2 * k) % 2 # 1
    BY <1>2 DEF N
  <2>3. Nth(2 * k) = ArmCase(m, arm, FALSE)
    BY <2>1, <2>2 DEF Nth
  <2> QED
    BY <1>5, <2>2, <2>3 DEF Range
<1> QED
  BY <1>6, <1>7, <1>8 DEF arms

(* They are right.                                                         *)
LEMMA PermissionCasesRight ==
    ASSUME NEW m, PmpMachine(m), NEW c \in Range(PermissionCases(m)), NEW grain, NEW has
    PROVE  PmpRight(c, grain, has) /\ Needs(c.access) \in m.ext \cup {NoExtension}
<1>1. PICK arm \in Range(Emitted(m)), granted \in BOOLEAN : c = ArmCase(m, arm, granted)
  BY PermissionCasesAre
<1> DEFINE perms == IF granted THEN LegalPerms(arm.needs) ELSE {}
           x == Base(m) + 4096 + 16
           expect == IF granted THEN 0 ELSE FaultCause(arm.kind)
           b == CfgByte("NAPOT", perms, TRUE)
           id == <<arm.kind, IF granted THEN "granted" ELSE "denied">>
<1>2. c = Case(id, <<PageAt(m)>>, <<b>>, arm.kind, x, expect, "Match")
  BY <1>1 DEF ArmCase, Page, PageAt, Allow
<1>3. arm.kind \in Emitters /\ arm.needs = NeedsOf(arm.kind) /\ arm.needs \in SUBSET RWX /\ arm.needs # {}
  BY EmittedArms
<1>4. /\ perms \in SUBSET RWX
      /\ granted => arm.needs \subseteq Held(perms)
      /\ ~granted => ~(arm.needs \subseteq Held(perms))
  BY <1>3 DEF LegalPerms, Held, RWX
<1>5. InPage(m, x)
  BY BaseIs DEF InPage
<1> HIDE DEF perms, x, b, id
<1>6. OneEntry(c, PageAt(m), b, arm.kind, x, expect, "Match") /\ c.opcode = "default"
  BY <1>2, CaseOfOne
<1>7. c.opcode \in Opcodes
  BY <1>6 DEF Opcodes
<1>8. expect = Answer(c, arm.kind, perms, TRUE)
  BY <1>3, <1>4 DEF Answer
<1> HIDE DEF expect
<1> QED
  <2>1. PmpRight(c, grain, has)
    BY <1>3, <1>4, <1>5, <1>6, <1>7, <1>8, PageCase DEF b
  <2>2. c.access = arm.kind
    BY <1>6 DEF OneEntry
  <2> QED
    BY <2>1, <2>2, EmittedArms

(* What the byte with all permissions grants, and the one with none.       *)
LEMMA Granted == /\ RWX \in SUBSET RWX /\ {} \in SUBSET RWX /\ FALSE \in BOOLEAN /\ "Load" \in Emitters
                 /\ NeedsOf("Load") \subseteq Held(RWX) /\ ~(NeedsOf("Load") \subseteq Held({}))
                 /\ FaultCause("Load") = 5
BY ArmNeeds DEF Held, RWX, Emitters, FaultCause

WithOpcode(d, o) == [d EXCEPT !.opcode = o]
WithPriv(d, o) == [d EXCEPT !.priv = o]
HasOpcode(c, id, a, b, access, addr, expect, claim, o) ==
    c = WithOpcode(Case(id, <<a>>, <<b>>, access, addr, expect, claim), o)

(* A case of one register with an opcode of its own.                       *)
LEMMA CaseWithOpcode ==
    ASSUME NEW c, NEW id, NEW a, NEW b, NEW access, NEW addr, NEW expect, NEW claim, NEW o,
           HasOpcode(c, id, a, b, access, addr, expect, claim, o)
    PROVE  OneEntry(c, a, b, access, addr, expect, claim) /\ c.id = id /\ c.priv = "M" /\ c.opcode = o
<1> DEFINE aa == <<a, Everything>>
           bb == <<b, PermitAll>>
<1>1. aa = Append(<<a>>, Everything) /\ bb = Append(<<b>>, PermitAll)
  BY Permitting
<1> HIDE DEF aa, bb
<1>2. c = [id |-> id, pmpaddr |-> aa, pmpcfg |-> bb, access |-> access,
           addr |-> addr, expect |-> expect, claim |-> claim, priv |-> "M", opcode |-> o]
  BY <1>1 DEF Case, WithOpcode, HasOpcode
<1>3. c.pmpaddr = aa /\ c.pmpcfg = bb
  BY <1>2
<1>4. c.access = access /\ c.addr = addr /\ c.expect = expect /\ c.claim = claim
  BY <1>2
<1>5. c.id = id /\ c.priv = "M" /\ c.opcode = o
  BY <1>2
<1> QED
  BY <1>3, <1>4, <1>5 DEF OneEntry, aa, bb

(* A case of one register at a privilege of its own.                       *)
LEMMA CaseWithPriv ==
    ASSUME NEW c, NEW id, NEW a, NEW b, NEW access, NEW addr, NEW expect, NEW claim, NEW o,
           c = WithPriv(Case(id, <<a>>, <<b>>, access, addr, expect, claim), o)
    PROVE  OneEntry(c, a, b, access, addr, expect, claim) /\ c.id = id /\ c.priv = o
           /\ c.opcode = "default"
<1> DEFINE aa == <<a, Everything>>
           bb == <<b, PermitAll>>
<1>1. aa = Append(<<a>>, Everything) /\ bb = Append(<<b>>, PermitAll)
  BY Permitting
<1> HIDE DEF aa, bb
<1>2. c = [id |-> id, pmpaddr |-> aa, pmpcfg |-> bb, access |-> access,
           addr |-> addr, expect |-> expect, claim |-> claim, priv |-> o, opcode |-> "default"]
  BY <1>1 DEF Case, WithPriv
<1>3. c.pmpaddr = aa /\ c.pmpcfg = bb
  BY <1>2
<1>4. c.access = access /\ c.addr = addr /\ c.expect = expect /\ c.claim = claim
  BY <1>2
<1>5. c.id = id /\ c.priv = o /\ c.opcode = "default"
  BY <1>2
<1> QED
  BY <1>3, <1>4, <1>5 DEF OneEntry, aa, bb

(* The misaligned cases are right.                                         *)
LEMMA MisalignedCasesRight ==
    ASSUME NEW m, PmpMachine(m), NEW c \in Range(MisalignedCases(m)), NEW grain, NEW has
    PROVE  PmpRight(c, grain, has) /\ Plain(c)
<1> DEFINE W(id, x, o) == WithOpcode(Case(id, Page(m), <<CfgByte("NAPOT", RWX, FALSE)>>, "Load", x, Allow, "Match"), o)
           V(id, x, o) ==
             HasOpcode(c, id, PageAt(m), CfgByte("NAPOT", RWX, FALSE), "Load", x, 0, "Match", o)
           one == W(<<"misaligned", "byte">>, Base(m) + 4096 + 1, "lbu_disp1")
           two == W(<<"misaligned", "dword">>, Base(m) + 4096 + 4, "ld_disp4")
<1>0. MisalignedCases(m) = <<one, two>>
  BY DEF MisalignedCases, WithOpcode
<1>0a. Page(m) = <<PageAt(m)>> /\ Allow = 0
  BY DEF Page, PageAt, Allow
<1>1. \/ V(<<"misaligned", "byte">>, Base(m) + 4096 + 1, "lbu_disp1")
      \/ V(<<"misaligned", "dword">>, Base(m) + 4096 + 4, "ld_disp4")
  <2>1. c = one \/ c = two
    <3> HIDE DEF one, two
    <3> QED
      BY <1>0 DEF Range
  <2> QED
    BY <1>0a, <2>1, SMT DEF HasOpcode
<1>2. ASSUME NEW id, NEW x, NEW op, V(id, x, op), op \in Opcodes, InPage(m, x) PROVE PmpRight(c, grain, has) /\ Plain(c)
  <2>1. OneEntry(c, PageAt(m), CfgByte("NAPOT", RWX, FALSE), "Load", x, 0, "Match") /\ c.opcode = op
    BY <1>2, CaseWithOpcode
  <2>2. 0 = Answer(c, "Load", RWX, FALSE)
    BY Granted DEF Answer
  <2> QED
    BY <1>2, <2>1, <2>2, Granted, PageCase DEF Plain, OneEntry
<1> HIDE DEF V
<1>3. InPage(m, Base(m) + 4096 + 1) /\ InPage(m, Base(m) + 4096 + 4)
  BY BaseIs DEF InPage
<1>4. "lbu_disp1" \in Opcodes /\ "ld_disp4" \in Opcodes
  BY DEF Opcodes
<1> QED
  BY <1>1, <1>2, <1>3, <1>4

(* The cases of the lock and of machine mode are right.                    *)
LEMMA OverrideCasesRight ==
    ASSUME NEW m, PmpMachine(m), NEW c \in Range(OverrideCases(m)), NEW grain, NEW has
    PROVE  PmpRight(c, grain, has) /\ Plain(c)
<1> DEFINE x == Base(m) + 4096 + 8
           W(locked, priv) ==
             WithPriv(Case(<<IF locked THEN "locked" ELSE "unlocked", priv>>, Page(m),
                           <<CfgByte("NAPOT", {}, locked)>>, "Load", x,
                           IF ~locked /\ priv = "M" THEN Allow ELSE 5, "Match"), priv)
           V(id, locked, priv, expect) ==
             c = WithPriv(Case(id, <<PageAt(m)>>, <<CfgByte("NAPOT", {}, locked)>>, "Load", x,
                               expect, "Match"), priv)
           one == W(TRUE, "M")
           two == W(FALSE, "M")
           three == W(TRUE, "S")
           four == W(FALSE, "S")
<1>0. OverrideCases(m) = <<one, two, three, four>>
  BY Zenon DEF OverrideCases, WithPriv
<1>0a. Page(m) = <<PageAt(m)>> /\ Allow = 0
  BY DEF Page, PageAt, Allow
<1>0b. c = one \/ c = two \/ c = three \/ c = four
  <2> HIDE DEF one, two, three, four
  <2> QED
    BY <1>0 DEF Range
<1>1. \/ V(<<"locked", "M">>, TRUE, "M", 5) \/ V(<<"unlocked", "M">>, FALSE, "M", 0)
      \/ V(<<"locked", "S">>, TRUE, "S", 5) \/ V(<<"unlocked", "S">>, FALSE, "S", 5)
  BY <1>0a, <1>0b, SMT
<1>2. InPage(m, x)
  BY BaseIs DEF InPage
<1> HIDE DEF x
<1>3. ASSUME NEW id, NEW locked \in BOOLEAN, NEW priv, NEW expect, V(id, locked, priv, expect),
             expect = IF ~locked /\ priv = "M" THEN 0 ELSE 5
      PROVE  PmpRight(c, grain, has) /\ Plain(c)
  <2>1. /\ OneEntry(c, PageAt(m), CfgByte("NAPOT", {}, locked), "Load", x, expect, "Match")
        /\ c.opcode = "default" /\ c.priv = priv
    BY <1>3, CaseWithPriv
  <2>2. expect = Answer(c, "Load", {}, locked) /\ c.opcode \in Opcodes
    BY <1>3, <2>1, Granted DEF Answer, Opcodes
  <2> QED
    BY <1>2, <2>1, <2>2, Granted, PageCase DEF Plain, OneEntry
<1> HIDE DEF V
<1> QED
  BY <1>1, <1>3

(* Two entries before the one that permits everything.                     *)
TwoEntries(c, a1, a2, b1, b2, access, addr, expect, claim) ==
    /\ c.pmpaddr = <<a1, a2, Everything>> /\ c.pmpcfg = <<b1, b2, PermitAll>>
    /\ c.access = access /\ c.addr = addr /\ c.expect = expect /\ c.claim = claim
IsCaseOfTwo(c, id, a1, a2, b1, b2, access, addr, expect, claim) ==
    c = Case(id, <<a1, a2>>, <<b1, b2>>, access, addr, expect, claim)

(* What a case with two registers holds.                                   *)
LEMMA CaseOfTwo ==
    ASSUME NEW c, NEW id, NEW a1, NEW a2, NEW b1, NEW b2, NEW access, NEW addr, NEW expect, NEW claim,
           IsCaseOfTwo(c, id, a1, a2, b1, b2, access, addr, expect, claim)
    PROVE  /\ TwoEntries(c, a1, a2, b1, b2, access, addr, expect, claim)
           /\ c.id = id /\ c.priv = "M" /\ c.opcode = "default"
<1> DEFINE aa == <<a1, a2, Everything>>
           bb == <<b1, b2, PermitAll>>
<1>1. aa = Append(<<a1, a2>>, Everything) /\ bb = Append(<<b1, b2>>, PermitAll)
  BY PermittingTwo
<1> HIDE DEF aa, bb
<1>2. c = [id |-> id, pmpaddr |-> aa, pmpcfg |-> bb, access |-> access,
           addr |-> addr, expect |-> expect, claim |-> claim, priv |-> "M", opcode |-> "default"]
  BY <1>1 DEF Case, IsCaseOfTwo
<1>3. c.pmpaddr = aa /\ c.pmpcfg = bb
  BY <1>2
<1>4. c.access = access /\ c.addr = addr /\ c.expect = expect /\ c.claim = claim
  BY <1>2
<1>5. c.id = id /\ c.priv = "M" /\ c.opcode = "default"
  BY <1>2
<1> QED
  BY <1>3, <1>4, <1>5 DEF TwoEntries, aa, bb

(* The first touched of the entries of a case with two decides.            *)
LEMMA TwoEntriesDecide ==
    ASSUME NEW c, NEW a1, NEW a2, NEW b1, NEW b2, NEW kind \in Emitters, NEW x, NEW expect, NEW claim,
           TwoEntries(c, a1, a2, b1, b2, kind, x, expect, claim),
           NEW addr, NEW width, Reachable(addr, width), NEW grain
    PROVE  TwoDecide(c, b1, b2, addr, width, kind, grain)
<1>1. c.pmpaddr = <<a1, a2, Everything>> /\ c.pmpcfg = <<b1, b2, PermitAll>>
  BY DEF TwoEntries
<1>2. addr \in Nat /\ width \in Nat \ {0} /\ addr + width <= 8 * 2 ^ PmpAddrBits
  BY DEF Reachable
<1> QED
  BY <1>1, <1>2, TwoRegisters

(* What an access that meets two entries so ends with.                     *)
TwoAnswer(c, kind, b1, b2, match1, match2) ==
    IF \/ match1 = "Match" /\ Lets(c, kind, b1)
       \/ match1 = "NoMatch" /\ (match2 = "NoMatch" \/ (match2 = "Match" /\ Lets(c, kind, b2)))
    THEN 0 ELSE FaultCause(kind)

(* A case with two entries, of which both ranges and bytes are known.      *)
LEMMA TwoEntriesRight ==
    ASSUME NEW c, NEW a1, NEW a2, NEW b1, NEW b2, NEW kind \in Emitters, NEW x \in Nat, NEW expect, NEW claim,
           TwoEntries(c, a1, a2, b1, b2, kind, x, expect, claim), c.opcode \in Opcodes,
           x <= WordSize - 2049, Reachable(x + Insn(c).disp, Insn(c).width),
           NEW grain, NEW has, NEW match1, NEW match2,
           RangeMatch(EntryRange(c.pmpaddr, c.pmpcfg, 1, grain, "none"),
                      x + Insn(c).disp, Insn(c).width) = match1,
           RangeMatch(EntryRange(c.pmpaddr, c.pmpcfg, 2, grain, "none"),
                      x + Insn(c).disp, Insn(c).width) = match2,
           match2 = claim, expect = TwoAnswer(c, kind, b1, b2, match1, match2)
    PROVE  PmpRight(c, grain, has)
<1> DEFINE at == x + Insn(c).disp
           width == Insn(c).width
<1>1. c.access = kind /\ c.addr = x /\ c.expect = expect /\ c.claim = claim
      /\ c.pmpaddr = <<a1, a2, Everything>>
  BY DEF TwoEntries
<1>2. TwoDecide(c, b1, b2, at, width, kind, grain)
  BY TwoEntriesDecide
<1>3. PmpAllows(c, at, width, kind, grain, "none") <=>
         \/ match1 = "Match" /\ Lets(c, kind, b1)
         \/ match1 = "NoMatch" /\ (match2 = "NoMatch" \/ (match2 = "Match" /\ Lets(c, kind, b2)))
  BY <1>2 DEF TwoDecide
<1>4. PmpEnds(c, grain, has)
  BY <1>1, <1>3, TrapIs DEF PmpEnds, TwoAnswer
<1>5. Claims(c, grain)
  <2>1. Len(c.pmpaddr) - 1 = 2
    BY <1>1
  <2> QED
    BY <1>1, <2>1 DEF Claims
<1>6. Arrives(c)
  BY <1>1 DEF Arrives
<1> QED
  BY <1>4, <1>5, <1>6 DEF PmpRight

(***************************************************************************)
(* The positions around the region of a mode.                              *)
(***************************************************************************)
PositionCase(mode, m, p) ==
    LET r == Region(mode, m)
    IN  Case(<<mode, p>>, r.addrs,
             [j \in 1 .. Len(r.addrs) |-> CfgByte(mode, RWX, FALSE)],
             IF Width(p) = 4 THEN "Load" ELSE "LR", Place(p, r),
             IF Outcome(p) = "PartialMatch" THEN 5 ELSE Allow, Outcome(p))

(* The cases of a mode are those of its positions; one that is expected    *)
(* to straddle does.                                                       *)
LEMMA PositionCasesAre ==
    ASSUME NEW m, NEW mode
    PROVE  /\ IsList(PositionCases(mode, m))
           /\ \A c \in Range(PositionCases(mode, m)) : \E p \in Range(Positions) :
                 /\ c = PositionCase(mode, m, p)
                 /\ Outcome(p) = "PartialMatch" => Straddles(p, Region(mode, m))
           /\ \A p \in Range(Positions) :
                 (Outcome(p) = "PartialMatch" => Straddles(p, Region(mode, m)))
                 => PositionCase(mode, m, p) \in Range(PositionCases(mode, m))
<1> DEFINE I == {i \in DOMAIN Positions :
                   Outcome(Positions[i]) = "PartialMatch" => Straddles(Positions[i], Region(mode, m))}
           built == Those(Positions, I)
           N == Len(built)
           Nth(i) == PositionCase(mode, m, built[i])
<1>1. IsList(Positions)
  BY WrittenOut, Zenon DEF Positions
<1>2. IsList(built) /\ Range(built) = {Positions[i] : i \in I}
  BY <1>1, ThoseAsked
<1>3. N \in Nat /\ DOMAIN built = 1 .. N
  BY <1>2, LenProperties DEF IsList
<1>4. PositionCases(mode, m) = [i \in 1 .. N |-> Nth(i)]
  BY Zenon DEF PositionCases, PositionCase
<1>5. \A p : p \in Range(built) <=> /\ p \in Range(Positions)
                                    /\ Outcome(p) = "PartialMatch" => Straddles(p, Region(mode, m))
  BY <1>2 DEF Range
<1> HIDE DEF I, built, N, Nth
<1>6. DOMAIN PositionCases(mode, m) = 1 .. N /\ \A i \in 1 .. N : PositionCases(mode, m)[i] = Nth(i)
  BY <1>4
<1>7. IsList(PositionCases(mode, m))
  <2>1. PositionCases(mode, m) = [i \in 1 .. N |-> PositionCases(mode, m)[i]]
    BY <1>4, <1>6
  <2> QED
    BY <1>3, <1>6, <2>1, ListIsFunction
<1>8. ASSUME NEW c \in Range(PositionCases(mode, m))
      PROVE  \E p \in Range(built) : c = PositionCase(mode, m, p)
  <2>1. PICK i \in 1 .. N : c = Nth(i)
    BY <1>6 DEF Range
  <2>2. built[i] \in Range(built)
    BY <1>3 DEF Range
  <2> QED
    BY <2>1, <2>2, Zenon DEF Nth
<1>9. ASSUME NEW p \in Range(built) PROVE PositionCase(mode, m, p) \in Range(PositionCases(mode, m))
  <2>1. PICK i \in 1 .. N : built[i] = p
    BY <1>3 DEF Range
  <2>2. Nth(i) = PositionCase(mode, m, p)
    BY <2>1 DEF Nth
  <2> QED
    BY <1>6, <2>1, <2>2 DEF Range
<1> QED
  BY <1>5, <1>7, <1>8, <1>9

(* Where an access of a position begins.                                   *)
AtPlace(p, r) == CASE p = "below" -> r.begin - Width(p)
                   [] p = "straddle_low" -> r.begin - Width(p) \div 2
                   [] p = "inside" -> r.begin + Width(p)
                   [] p = "straddle_high" -> r.end - Width(p) \div 2
                   [] p = "above" -> r.end

(* The positions, what is expected at each and how wide its access is.     *)
LEMMA PositionNames ==
    /\ Range(Positions) = {"below", "straddle_low", "inside", "straddle_high", "above"}
    /\ Outcome("below") = "NoMatch" /\ Outcome("above") = "NoMatch" /\ Outcome("inside") = "Match"
    /\ Outcome("straddle_low") = "PartialMatch" /\ Outcome("straddle_high") = "PartialMatch"
    /\ Width("below") = 4 /\ Width("above") = 4 /\ Width("inside") = 4
    /\ Width("straddle_low") = 8 /\ Width("straddle_high") = 8
<1>1. Range(Positions) = {"below", "straddle_low", "inside", "straddle_high", "above"}
  BY DEF Positions, Range
<1>2. /\ Outcome("below") = "NoMatch" /\ Outcome("above") = "NoMatch" /\ Outcome("inside") = "Match"
      /\ Outcome("straddle_low") = "PartialMatch" /\ Outcome("straddle_high") = "PartialMatch"
  BY DEF Outcome
<1> QED
  BY <1>1, <1>2 DEF Width

(* Where the access of each position begins.                               *)
LEMMA Places ==
    ASSUME NEW r
    PROVE  /\ Place("below", r) = (r.begin - 4) - ((r.begin - 4) % 4)
           /\ Place("straddle_low", r) = (r.begin - 8 \div 2) - ((r.begin - 8 \div 2) % 8)
           /\ Place("inside", r) = (r.begin + 4) - ((r.begin + 4) % 4)
           /\ Place("straddle_high", r) = (r.end - 8 \div 2) - ((r.end - 8 \div 2) % 8)
           /\ Place("above", r) = r.end - (r.end % 4)
<1>1. \A p : Place(p, r) = AtPlace(p, r) - (AtPlace(p, r) % Width(p))
  BY Zenon DEF Place, AtPlace
<1>2. /\ AtPlace("below", r) = r.begin - Width("below")
      /\ AtPlace("straddle_low", r) = r.begin - Width("straddle_low") \div 2
      /\ AtPlace("inside", r) = r.begin + Width("inside")
      /\ AtPlace("straddle_high", r) = r.end - Width("straddle_high") \div 2
      /\ AtPlace("above", r) = r.end
  BY Zenon DEF AtPlace
<1> QED
  BY <1>1, <1>2, PositionNames, Zenon

(* The positions around a region that begins half a doubleword into one or *)
(* on one, the base being on one.                                          *)
LEMMA PlacesAround ==
    ASSUME NEW r, NEW base \in Nat, base % 8 = 0
    PROVE  /\ r.begin = base + 4 => /\ Place("below", r) = base /\ Place("straddle_low", r) = base
                                    /\ Place("inside", r) = base + 8
           /\ r.end = base + 8 => Place("straddle_high", r) = base /\ Place("above", r) = base + 8
           /\ r.end = base + 12 => Place("straddle_high", r) = base + 8 /\ Place("above", r) = base + 12
           /\ r.begin = base + 4096 => /\ Place("below", r) = base + 4092
                                       /\ Place("straddle_low", r) = base + 4088
                                       /\ Place("inside", r) = base + 4100
           /\ r.end = base + 8192 => /\ Place("straddle_high", r) = base + 8184
                                     /\ Place("above", r) = base + 8192
<1>1. PICK k \in Nat : base = 8 * k
  <2>1. base \div 8 \in Nat /\ base = 8 * (base \div 8)
    OBVIOUS
  <2> QED
    BY <2>1
<1>2. r.begin = base + 4 => /\ Place("below", r) = base /\ Place("straddle_low", r) = base
                            /\ Place("inside", r) = base + 8
  BY <1>1, Places, SMT
<1>3. r.end = base + 8 => Place("straddle_high", r) = base /\ Place("above", r) = base + 8
  BY <1>1, Places, SMT
<1>4. r.end = base + 12 => Place("straddle_high", r) = base + 8 /\ Place("above", r) = base + 12
  BY <1>1, Places, SMT
<1>5. r.begin = base + 4096 => /\ Place("below", r) = base + 4092
                               /\ Place("straddle_low", r) = base + 4088
                               /\ Place("inside", r) = base + 4100
  BY <1>1, Places, SMT
<1>6. r.end = base + 8192 => /\ Place("straddle_high", r) = base + 8184
                             /\ Place("above", r) = base + 8192
  BY <1>1, Places, SMT
<1> QED
  BY <1>2, <1>3, <1>4, <1>5, <1>6, SMT

(* The region of each mode.                                                *)
LEMMA Regions ==
    ASSUME NEW m
    PROVE  /\ LET r == Region("NAPOT", m)
              IN  r.begin = Base(m) + 4096 /\ r.end = (Base(m) + 4096) + 4096
                  /\ r.addrs = <<Napot(Base(m) + 4096, 4096)>>
           /\ LET r == Region("NA4", m)
              IN  r.begin = Base(m) + 4 /\ r.end = (Base(m) + 4) + 4 /\ r.addrs = <<(Base(m) + 4) \div 4>>
           /\ LET r == Region("TOR", m)
              IN  r.begin = Base(m) + 4 /\ r.end = (Base(m) + 4) + 8
                  /\ r.addrs = <<(Base(m) + 4) \div 4, ((Base(m) + 4) + 8) \div 4>>
<1> DEFINE page == 4096
           offset(mode) == IF mode = "NAPOT" THEN page ELSE 4
           size(mode) == CASE mode = "NAPOT" -> page [] mode = "NA4" -> 4 [] mode = "TOR" -> 8
           begin(mode) == Base(m) + offset(mode)
           addrs(mode) == CASE mode = "NAPOT" -> <<Napot(begin(mode), size(mode))>>
                     [] mode = "NA4" -> <<begin(mode) \div 4>>
                     [] mode = "TOR" -> <<begin(mode) \div 4, (begin(mode) + size(mode)) \div 4>>
<1>1. \A mode : Region(mode, m) = [begin |-> begin(mode), end |-> begin(mode) + size(mode),
                                   addrs |-> addrs(mode)]
  BY DEF Region
<1>2. page = 4096
  OBVIOUS
<1> HIDE DEF page
<1>3. size("NAPOT") = page /\ size("NA4") = 4 /\ size("TOR") = 8
  BY Zenon
<1>4. offset("NAPOT") = page /\ offset("NA4") = 4 /\ offset("TOR") = 4
  OBVIOUS
<1> HIDE DEF size, offset
<1>5. /\ addrs("NAPOT") = <<Napot(begin("NAPOT"), size("NAPOT"))>>
      /\ addrs("NA4") = <<begin("NA4") \div 4>>
      /\ addrs("TOR") = <<begin("TOR") \div 4, (begin("TOR") + size("TOR")) \div 4>>
  BY Zenon
<1> HIDE DEF addrs
<1> QED
  BY <1>1, <1>2, <1>3, <1>4, <1>5

(* A byte with all permissions lets every access through.                  *)
LEMMA RwxLets ==
    ASSUME NEW c, NEW mode \in ModeNames, NEW kind \in Emitters
    PROVE  Lets(c, kind, CfgByte(mode, RWX, FALSE))
<1>1. RWX \in SUBSET RWX /\ FALSE \in BOOLEAN /\ Held(RWX) = RWX
  BY DEF Held, RWX
<1>2. Perms(CfgByte(mode, RWX, FALSE)) = RWX
  BY <1>1, ByteRead
<1> QED
  BY <1>2, AllNeeds DEF Lets

Accessed(p) == IF Width(p) = 4 THEN "Load" ELSE "LR"
Expected(p) == IF Outcome(p) = "PartialMatch" THEN 5 ELSE 0

(* The access of a position.                                               *)
LEMMA PositionAccess ==
    ASSUME NEW p \in Range(Positions), NEW c, c.access = Accessed(p), c.opcode = "default"
    PROVE  /\ Insn(c).width = Width(p) /\ Insn(c).disp = 0 /\ Width(p) \in {4, 8}
           /\ Accessed(p) \in Emitters /\ FaultCause(Accessed(p)) = 5 /\ c.opcode \in Opcodes
<1>1. Width(p) \in {4, 8}
  BY DEF Width
<1>2. c.opcode \in Opcodes
  BY DEF Opcodes
<1>3. "Load" \in Emitters /\ "LR" \in Emitters
  BY DEF Emitters
<1>4. Accessed(p) \in Emitters /\ FaultCause(Accessed(p)) = 5
  BY <1>3 DEF Accessed, FaultCause
<1>5. WidthsOf(c)
  BY <1>2, <1>4, Widths
<1>6. Insn(c).disp = 0 /\ (c.access = "Load" => Insn(c).width = 4) /\ (c.access = "LR" => Insn(c).width = 8)
  BY <1>5 DEF WidthsOf
<1>7. Insn(c).width = Width(p)
  BY <1>1, <1>6 DEF Accessed
<1> QED
  BY <1>1, <1>2, <1>4, <1>6, <1>7

(* An access near the region can be reached, and its address built.        *)
LEMMA Fits ==
    ASSUME NEW m, PmpMachine(m), NEW x \in Nat, x <= Base(m) + 8192, NEW width \in {4, 8}
    PROVE  Reachable(x, width) /\ x <= WordSize - 2049 /\ x + 0 = x
<1>1. /\ Base(m) \in Nat /\ WordSize \in Nat
      /\ Base(m) + 131072 <= WordSize - 2049 /\ Base(m) + 131072 <= 8 * 2 ^ PmpAddrBits
      /\ 2 ^ PmpAddrBits \in Nat
  BY BaseIs, AllRange
<1> QED
  BY <1>1, SMT DEF Reachable

(* The bytes of one and of two registers.                                  *)
LEMMA Copies ==
    ASSUME NEW b
    PROVE  [j \in 1 .. 1 |-> b] = <<b>> /\ [j \in 1 .. 2 |-> b] = <<b, b>>
<1>1. [j \in 1 .. 1 |-> b] = <<b>>
  <2> DEFINE s == [j \in 1 .. 1 |-> b]
             t == <<b>>
  <2>1. s \in Seq({b}) /\ Len(s) = 1 /\ s[1] = b
    <3>1. s \in [1 .. 1 -> {b}]
      OBVIOUS
    <3> QED
      BY <3>1
  <2>2. t \in Seq({b}) /\ Len(t) = 1 /\ t[1] = b
    OBVIOUS
  <2> HIDE DEF s, t
  <2>3. Len(s) = Len(t) /\ \A i \in 1 .. Len(s) : s[i] = t[i]
    BY <2>1, <2>2
  <2>4. s = t
    BY <2>1, <2>2, <2>3, SeqEqual
  <2> QED
    BY <2>4 DEF s, t
<1>2. [j \in 1 .. 2 |-> b] = <<b, b>>
  <2> DEFINE s == [j \in 1 .. 2 |-> b]
             t == <<b, b>>
  <2>1. s \in Seq({b}) /\ Len(s) = 2 /\ s[1] = b /\ s[2] = b
    <3>1. s \in [1 .. 2 -> {b}]
      OBVIOUS
    <3> QED
      BY <3>1
  <2>2. t \in Seq({b}) /\ Len(t) = 2 /\ t[1] = b /\ t[2] = b
    OBVIOUS
  <2> HIDE DEF s, t
  <2>3. Len(s) = Len(t) /\ \A i \in 1 .. Len(s) : s[i] = t[i]
    BY <2>1, <2>2
  <2>4. s = t
    BY <2>1, <2>2, <2>3, SeqEqual
  <2> QED
    BY <2>4 DEF s, t
<1> QED
  BY <1>1, <1>2

(* The case of a position, taken apart.                                    *)
RwxByte(mode) == CfgByte(mode, RWX, FALSE)

(* What the case of a position is made of.                                 *)
LEMMA PositionParts ==
    ASSUME NEW m, NEW mode, NEW p, NEW c, c = PositionCase(mode, m, p)
    PROVE  LET r == Region(mode, m)
           IN  c = Case(<<mode, p>>, r.addrs, [j \in 1 .. Len(r.addrs) |-> RwxByte(mode)],
                        Accessed(p), Place(p, r), Expected(p), Outcome(p))
BY Zenon DEF PositionCase, Accessed, Expected, Allow, RwxByte

(* The byte of a position's case holds the mode.                           *)
LEMMA RwxMode == ASSUME NEW mode \in ModeNames PROVE EntryMode(RwxByte(mode)) = mode
<1>1. RWX \in SUBSET RWX /\ FALSE \in BOOLEAN
  OBVIOUS
<1> QED
  BY <1>1, ByteRead DEF RwxByte

(* The case of a position in a mode with one register.                     *)
LEMMA OnePositionIs ==
    ASSUME NEW m, NEW mode, NEW p, NEW c, c = PositionCase(mode, m, p),
           NEW a, Region(mode, m).addrs = <<a>>, NEW x, Place(p, Region(mode, m)) = x
    PROVE  /\ OneEntry(c, a, RwxByte(mode), Accessed(p), x, Expected(p), Outcome(p))
           /\ c.id = <<mode, p>> /\ c.opcode = "default"
<1> DEFINE id == <<mode, p>>
           b == RwxByte(mode)
           addrs == Region(mode, m).addrs
<1>1. c = Case(id, addrs, [j \in 1 .. Len(addrs) |-> b], Accessed(p), x, Expected(p), Outcome(p))
  BY PositionParts
<1>2. addrs = <<a>>
  OBVIOUS
<1> HIDE DEF id, b, addrs
<1>3. Len(addrs) = 1
  BY <1>2
<1>4. [j \in 1 .. Len(addrs) |-> b] = <<b>>
  BY <1>3, Copies
<1>5. c = Case(id, <<a>>, <<b>>, Accessed(p), x, Expected(p), Outcome(p))
  BY <1>1, <1>2, <1>4
<1> DEFINE access == Accessed(p)
           expect == Expected(p)
           claim == Outcome(p)
<1> HIDE DEF access, expect, claim
<1>6. c = Case(id, <<a>>, <<b>>, access, x, expect, claim)
  BY <1>5 DEF access, expect, claim
<1>7. OneEntry(c, a, b, access, x, expect, claim) /\ c.id = id /\ c.opcode = "default"
  BY <1>6, CaseOfOne
<1> QED
  BY <1>7 DEF access, expect, claim, id, b

(* The case of a position in a mode with two.                              *)
LEMMA TwoPositionsIs ==
    ASSUME NEW m, NEW mode, NEW p, NEW c, c = PositionCase(mode, m, p),
           NEW a1, NEW a2, Region(mode, m).addrs = <<a1, a2>>, NEW x, Place(p, Region(mode, m)) = x
    PROVE  /\ TwoEntries(c, a1, a2, RwxByte(mode), RwxByte(mode), Accessed(p), x, Expected(p), Outcome(p))
           /\ c.id = <<mode, p>> /\ c.opcode = "default"
<1> DEFINE id == <<mode, p>>
           b == RwxByte(mode)
           addrs == Region(mode, m).addrs
<1>1. c = Case(id, addrs, [j \in 1 .. Len(addrs) |-> b], Accessed(p), x, Expected(p), Outcome(p))
  BY PositionParts
<1>2. addrs = <<a1, a2>>
  OBVIOUS
<1> HIDE DEF id, b, addrs
<1>3. Len(addrs) = 2
  BY <1>2
<1>4. [j \in 1 .. Len(addrs) |-> b] = <<b, b>>
  BY <1>3, Copies
<1>5. c = Case(id, <<a1, a2>>, <<b, b>>, Accessed(p), x, Expected(p), Outcome(p))
  BY <1>1, <1>2, <1>4
<1> DEFINE access == Accessed(p)
           expect == Expected(p)
           claim == Outcome(p)
<1> HIDE DEF access, expect, claim
<1>6. IsCaseOfTwo(c, id, a1, a2, b, b, access, x, expect, claim)
  BY <1>5 DEF access, expect, claim, IsCaseOfTwo
<1>7. TwoEntries(c, a1, a2, b, b, access, x, expect, claim) /\ c.id = id /\ c.opcode = "default"
  BY <1>6, CaseOfTwo
<1> QED
  BY <1>7 DEF access, expect, claim, id, b

(* A mode with one register: the range of its entry, and where the access  *)
(* lies.                                                                   *)
Encodes(mode, a, grain, range) ==
    \A addrs, bytes : addrs[1] = a /\ EntryMode(bytes[1]) = mode =>
        EntryRange(addrs, bytes, 1, grain, "none") = range
Lies(mode, p, range, x, match) ==
    /\ RangeMatch(range, x, Width(p)) = match /\ match \in {"NoMatch", "Match", "PartialMatch"}
    /\ match = "PartialMatch" <=> Outcome(p) = "PartialMatch"
    /\ <<mode, p>> # <<"NA4", "inside">> => match = Outcome(p)
Near(m, x) == x \in Nat /\ x <= Base(m) + 8192
Fit(x, width) == Reachable(x, width) /\ x <= WordSize - 2049 /\ x + 0 = x /\ x \in Nat

(* What is near fits.                                                      *)
LEMMA NearFits ==
    ASSUME NEW m, PmpMachine(m), NEW x, Near(m, x), NEW width \in {4, 8}
    PROVE  Fit(x, width)
BY Fits DEF Near, Fit

(* A case of a mode with one register is right where its access lies as    *)
(* claimed.                                                                *)
LEMMA OnePosition ==
    ASSUME NEW m, PmpMachine(m), NEW mode \in ModeNames, NEW p \in Range(Positions), NEW c,
           c = PositionCase(mode, m, p), NEW a, Region(mode, m).addrs = <<a>>,
           NEW x, Place(p, Region(mode, m)) = x, Near(m, x),
           NEW grain, NEW has, NEW range, Encodes(mode, a, grain, range),
           NEW match, Lies(mode, p, range, x, match)
    PROVE  PmpRight(c, grain, has) /\ Plain(c)
<1> DEFINE b == RwxByte(mode)
           kind == Accessed(p)
           expect == Expected(p)
           claim == Outcome(p)
           id == <<mode, p>>
<1>1. OneEntry(c, a, b, kind, x, expect, claim) /\ c.id = id /\ c.opcode = "default"
  BY OnePositionIs
<1>2. c.access = kind /\ c.pmpaddr[1] = a /\ c.pmpcfg[1] = b
  BY <1>1 DEF OneEntry
<1>3. /\ Insn(c).width = Width(p) /\ Insn(c).disp = 0 /\ Width(p) \in {4, 8}
      /\ kind \in Emitters /\ FaultCause(kind) = 5 /\ c.opcode \in Opcodes
  BY <1>1, <1>2, PositionAccess
<1>4. EntryRange(c.pmpaddr, c.pmpcfg, 1, grain, "none") = range
  BY <1>2, RwxMode DEF Encodes
<1>5. Reachable(x, Width(p)) /\ x <= WordSize - 2049 /\ x + 0 = x /\ x \in Nat
  <2>1. Width(p) \in {4, 8}
    BY <1>3
  <2>2. Fit(x, Width(p))
    BY <2>1, NearFits
  <2> QED
    BY <2>2 DEF Fit
<1>6. Lets(c, kind, b)
  BY <1>3, RwxLets DEF RwxByte
<1>7. expect = IF match = "NoMatch" \/ (match = "Match" /\ Lets(c, kind, b)) THEN 0
               ELSE FaultCause(kind)
  BY <1>3, <1>6 DEF Expected, Lies
<1>8. /\ RangeMatch(range, x + Insn(c).disp, Insn(c).width) = match
      /\ Reachable(x + Insn(c).disp, Insn(c).width)
  BY <1>3, <1>5 DEF Lies
<1>9. c.id # <<"NA4", "inside">> => match = claim
  BY <1>1 DEF Lies
<1>10. Plain(c)
  BY <1>2 DEF Plain, Accessed
<1> HIDE DEF kind, expect, claim, b, id
<1> QED
  BY <1>10, <1>1, <1>3, <1>4, <1>5, <1>7, <1>8, <1>9, OneEntryRight

(* The positions around a power-of-two region are right.                   *)
LEMMA NapotCasesRight ==
    ASSUME NEW m, PmpMachine(m), NEW c \in Range(PositionCases("NAPOT", m)), NEW grain, NEW has
    PROVE  PmpRight(c, grain, has) /\ Plain(c)
<1> DEFINE r == Region("NAPOT", m)
           base == Base(m)
           range == <<base + 4096, base + 8192>>
<1>1. PICK p \in Range(Positions) : /\ c = PositionCase("NAPOT", m, p)
                                    /\ Outcome(p) = "PartialMatch" => Straddles(p, r)
  BY PositionCasesAre
<1>2. base \in Nat /\ base % 8 = 0
  <2>1. base \in Nat /\ base % 4096 = 0
    BY BaseIs
  <2> QED
    BY <2>1, SMT
<1>3. r.begin = base + 4096 /\ r.end = base + 8192 /\ r.addrs = <<PageAt(m)>>
  <2>1. r.begin = base + 4096 /\ r.end = (base + 4096) + 4096 /\ r.addrs = <<Napot(base + 4096, 4096)>>
    BY Regions
  <2> QED
    BY <1>2, <2>1, SMT DEF PageAt
<1> HIDE DEF r
<1>4. /\ Place("below", r) = base + 4092 /\ Place("straddle_low", r) = base + 4088
      /\ Place("inside", r) = base + 4100 /\ Place("straddle_high", r) = base + 8184
      /\ Place("above", r) = base + 8192
  BY <1>2, <1>3, PlacesAround
<1>5. Encodes("NAPOT", PageAt(m), grain, range)
  BY PageIs, Ranges DEF Encodes
<1>6. "NAPOT" \in ModeNames
  BY DEF ModeNames
<1> HIDE DEF base
<1>7. p # "straddle_low" /\ p # "straddle_high"
  BY <1>1, <1>2, <1>3, <1>4, PositionNames, SMT DEF Straddles
<1>8. p = "below" \/ p = "inside" \/ p = "above"
  BY <1>7, PositionNames
<1> DEFINE x == Place(p, r)
<1>9. Near(m, x) /\ Lies("NAPOT", p, range, x, Outcome(p))
  <2>1. CASE p = "below"
    BY <1>2, <1>4, <2>1, PositionNames, SMT DEF Near, Lies, RangeMatch, base
  <2>2. CASE p = "inside"
    BY <1>2, <1>4, <2>2, PositionNames, SMT DEF Near, Lies, RangeMatch, base
  <2>3. CASE p = "above"
    BY <1>2, <1>4, <2>3, PositionNames, SMT DEF Near, Lies, RangeMatch, base
  <2> QED
    BY <1>8, <2>1, <2>2, <2>3
<1> HIDE DEF range
<1> DEFINE match == Outcome(p)
           a == PageAt(m)
<1>10. x = Place(p, Region("NAPOT", m)) /\ Region("NAPOT", m).addrs = <<a>>
  BY <1>3 DEF r
<1>11. Near(m, x) /\ Lies("NAPOT", p, range, x, match) /\ Encodes("NAPOT", a, grain, range)
  BY <1>5, <1>9
<1> HIDE DEF x, match, a
<1> QED
  BY <1>1, <1>6, <1>10, <1>11, OnePosition

(* The positions around a region of four bytes are right, the one named    *)
(* inside lying past it.                                                   *)
LEMMA Na4CasesRight ==
    ASSUME NEW m, PmpMachine(m), NEW c \in Range(PositionCases("NA4", m)), NEW grain, NEW has
    PROVE  PmpRight(c, grain, has) /\ Plain(c)
<1> DEFINE r == Region("NA4", m)
           base == Base(m)
           a == (base + 4) \div 4
           range == <<base + 4, base + 8>>
<1>1. PICK p \in Range(Positions) : /\ c = PositionCase("NA4", m, p)
                                    /\ Outcome(p) = "PartialMatch" => Straddles(p, r)
  BY PositionCasesAre
<1>2. base \in Nat /\ base % 8 = 0
  <2>1. base \in Nat /\ base % 4096 = 0
    BY BaseIs
  <2> QED
    BY <2>1, SMT
<1>3. r.begin = base + 4 /\ r.end = base + 8 /\ r.addrs = <<a>>
  BY <1>2, Regions
<1>3a. 4 * a = base + 4 /\ 4 * a + 4 = base + 8
  BY <1>2, SMT
<1> HIDE DEF r, a
<1>4. /\ Place("below", r) = base /\ Place("straddle_low", r) = base
      /\ Place("inside", r) = base + 8 /\ Place("straddle_high", r) = base
      /\ Place("above", r) = base + 8
  BY <1>2, <1>3, PlacesAround
<1>5. Encodes("NA4", a, grain, range)
  BY <1>3a, Ranges DEF Encodes
<1>6. "NA4" \in ModeNames
  BY DEF ModeNames
<1> HIDE DEF base
<1>7. p # "straddle_high"
  BY <1>1, <1>2, <1>3, <1>4, PositionNames, SMT DEF Straddles
<1>8. p = "below" \/ p = "inside" \/ p = "above" \/ p = "straddle_low"
  BY <1>7, PositionNames
<1> DEFINE x == Place(p, r)
           match == IF p = "straddle_low" THEN "PartialMatch" ELSE "NoMatch"
<1>9. Near(m, x) /\ Lies("NA4", p, range, x, match)
  <2>1. CASE p = "below"
    BY <1>2, <1>4, <2>1, PositionNames, SMT DEF Near, Lies, RangeMatch, base
  <2>2. CASE p = "inside"
    BY <1>2, <1>4, <2>2, PositionNames, SMT DEF Near, Lies, RangeMatch, base
  <2>3. CASE p = "above"
    BY <1>2, <1>4, <2>3, PositionNames, SMT DEF Near, Lies, RangeMatch, base
  <2>4. CASE p = "straddle_low"
    BY <1>2, <1>4, <2>4, PositionNames, SMT DEF Near, Lies, RangeMatch, base
  <2> QED
    BY <1>8, <2>1, <2>2, <2>3, <2>4
<1> HIDE DEF range
<1>10. x = Place(p, Region("NA4", m)) /\ Region("NA4", m).addrs = <<a>>
  BY <1>3 DEF r
<1> HIDE DEF x, match
<1> QED
  BY <1>1, <1>5, <1>6, <1>9, <1>10, OnePosition

(* The two entries of the top-of-range region.                             *)
LEMMA TorRanges ==
    ASSUME NEW addrs, NEW bytes, NEW a1 \in Nat, NEW a2 \in Nat, addrs[1] = a1, addrs[2] = a2
    PROVE  /\ EntryMode(bytes[1]) = "TOR" => EntryRange(addrs, bytes, 1, 0, "none") = <<0, 4 * a1>>
           /\ EntryMode(bytes[1]) = "OFF" => EntryRange(addrs, bytes, 1, 0, "none") = <<0, 0>>
           /\ EntryMode(bytes[2]) = "TOR" => EntryRange(addrs, bytes, 2, 0, "none") = <<4 * a1, 4 * a2>>
<1>1. Bound(addrs[1], 0) = 4 * a1 /\ Bound(addrs[2], 0) = 4 * a2
  BY FullBound
<1>2. EntryMode(bytes[1]) = "TOR" => EntryRange(addrs, bytes, 1, 0, "none") = <<0, 4 * a1>>
  <2>1. EntryMode(bytes[1]) = "TOR" =>
           EntryRange(addrs, bytes, 1, 0, "none")
             = <<IF 1 = 1 THEN 0 ELSE Bound(addrs[1 - 1], 0), Bound(addrs[1], 0)>>
    BY Ranges
  <2> QED
    BY <1>1, <2>1
<1>3. EntryMode(bytes[2]) = "TOR" => EntryRange(addrs, bytes, 2, 0, "none") = <<4 * a1, 4 * a2>>
  <2>1. EntryMode(bytes[2]) = "TOR" =>
           EntryRange(addrs, bytes, 2, 0, "none")
             = <<IF 2 = 1 THEN 0 ELSE Bound(addrs[2 - 1], 0), Bound(addrs[2], 0)>>
    BY Ranges
  <2>2. 2 # 1 /\ 2 - 1 = 1
    OBVIOUS
  <2> QED
    BY <1>1, <2>1, <2>2
<1> QED
  BY <1>2, <1>3, Ranges

(* Where an access lies that meets two entries.                            *)
LiesInTwo(c, grain, p, x, match1, match2) ==
    /\ RangeMatch(EntryRange(c.pmpaddr, c.pmpcfg, 1, grain, "none"), x, Width(p)) = match1
    /\ RangeMatch(EntryRange(c.pmpaddr, c.pmpcfg, 2, grain, "none"), x, Width(p)) = match2

(* The positions around a top-of-range region are right.                   *)
LEMMA TorCasesRight ==
    ASSUME NEW m, PmpMachine(m), NEW c \in Range(PositionCases("TOR", m)), NEW has
    PROVE  PmpRight(c, 0, has) /\ Plain(c)
<1> DEFINE r == Region("TOR", m)
           base == Base(m)
           a1 == (base + 4) \div 4
           a2 == (base + 12) \div 4
           b == RwxByte("TOR")
<1>1. PICK p \in Range(Positions) : c = PositionCase("TOR", m, p)
  BY PositionCasesAre
<1>2. base \in Nat /\ base % 8 = 0
  <2>1. base \in Nat /\ base % 4096 = 0
    BY BaseIs
  <2> QED
    BY <2>1, SMT
<1>3. r.begin = base + 4 /\ r.end = base + 12 /\ r.addrs = <<a1, a2>>
  <2>1. r.begin = base + 4 /\ r.end = (base + 4) + 8 /\ r.addrs = <<(base + 4) \div 4, ((base + 4) + 8) \div 4>>
    BY Regions
  <2>2. (base + 4) + 8 = base + 12
    BY <1>2
  <2> QED
    BY <2>1, <2>2
<1>4. 4 * a1 = base + 4 /\ 4 * a2 = base + 12 /\ a1 \in Nat /\ a2 \in Nat
  BY <1>2, SMT
<1> DEFINE x == Place(p, r)
           kind == Accessed(p)
           expect == Expected(p)
           claim == Outcome(p)
<1>5. TwoEntries(c, a1, a2, b, b, kind, x, expect, claim) /\ c.opcode = "default"
  <2>1. Region("TOR", m).addrs = <<a1, a2>> /\ x = Place(p, Region("TOR", m))
    BY <1>3
  <2> HIDE DEF a1, a2, x, b
  <2> QED
    BY <1>1, <2>1, TwoPositionsIs DEF b
<1> HIDE DEF r, a1, a2, b
<1>6. /\ Place("below", r) = base /\ Place("straddle_low", r) = base
      /\ Place("inside", r) = base + 8 /\ Place("straddle_high", r) = base + 8
      /\ Place("above", r) = base + 12
  BY <1>2, <1>3, PlacesAround
<1>7. EntryMode(b) = "TOR"
  BY RwxMode DEF b, ModeNames
<1>8. c.access = kind /\ c.pmpaddr[1] = a1 /\ c.pmpaddr[2] = a2 /\ c.pmpcfg[1] = b /\ c.pmpcfg[2] = b
  BY <1>5 DEF TwoEntries
<1>9. /\ EntryRange(c.pmpaddr, c.pmpcfg, 1, 0, "none") = <<0, base + 4>>
      /\ EntryRange(c.pmpaddr, c.pmpcfg, 2, 0, "none") = <<base + 4, base + 12>>
  <2>1. EntryMode(c.pmpcfg[1]) = "TOR" /\ EntryMode(c.pmpcfg[2]) = "TOR"
    BY <1>7, <1>8
  <2>2. /\ EntryRange(c.pmpaddr, c.pmpcfg, 1, 0, "none") = <<0, 4 * a1>>
        /\ EntryRange(c.pmpaddr, c.pmpcfg, 2, 0, "none") = <<4 * a1, 4 * a2>>
    <3> DEFINE as == c.pmpaddr
               bs == c.pmpcfg
    <3>1. as[1] = a1 /\ as[2] = a2 /\ a1 \in Nat /\ a2 \in Nat
      BY <1>4, <1>8
    <3>2. EntryMode(bs[1]) = "TOR" /\ EntryMode(bs[2]) = "TOR"
      BY <2>1
    <3> HIDE DEF as, bs
    <3>3. EntryMode(bs[1]) = "TOR" => EntryRange(as, bs, 1, 0, "none") = <<0, 4 * a1>>
      BY <3>1, TorRanges
    <3>4. EntryMode(bs[2]) = "TOR" => EntryRange(as, bs, 2, 0, "none") = <<4 * a1, 4 * a2>>
      BY <3>1, TorRanges
    <3> QED
      BY <3>2, <3>3, <3>4 DEF as, bs
  <2> QED
    BY <1>4, <2>2
<1>10. /\ Insn(c).width = Width(p) /\ Insn(c).disp = 0 /\ Width(p) \in {4, 8}
       /\ kind \in Emitters /\ FaultCause(kind) = 5 /\ c.opcode \in Opcodes
  BY <1>5, <1>8, PositionAccess
<1> HIDE DEF base
<1> DEFINE match1 == IF p = "below" THEN "Match" ELSE IF p = "straddle_low" THEN "PartialMatch" ELSE "NoMatch"
<1>11. Near(m, x) /\ LiesInTwo(c, 0, p, x, match1, claim)
  <2>0. p = "below" \/ p = "inside" \/ p = "above" \/ p = "straddle_low" \/ p = "straddle_high"
    BY PositionNames
  <2>1. CASE p = "below"
    BY <1>2, <1>6, <1>9, <2>1, PositionNames, SMT DEF Near, LiesInTwo, RangeMatch, base
  <2>2. CASE p = "inside"
    BY <1>2, <1>6, <1>9, <2>2, PositionNames, SMT DEF Near, LiesInTwo, RangeMatch, base
  <2>3. CASE p = "above"
    BY <1>2, <1>6, <1>9, <2>3, PositionNames, SMT DEF Near, LiesInTwo, RangeMatch, base
  <2>4. CASE p = "straddle_low"
    BY <1>2, <1>6, <1>9, <2>4, PositionNames, SMT DEF Near, LiesInTwo, RangeMatch, base
  <2>5. CASE p = "straddle_high"
    BY <1>2, <1>6, <1>9, <2>5, PositionNames, SMT DEF Near, LiesInTwo, RangeMatch, base
  <2> QED
    BY <2>0, <2>1, <2>2, <2>3, <2>4, <2>5
<1>12. Lets(c, kind, b)
  <2>1. "TOR" \in ModeNames
    BY DEF ModeNames
  <2> QED
    BY <1>10, <2>1, RwxLets DEF RwxByte, b
<1>13. expect = TwoAnswer(c, kind, b, b, match1, claim)
  <2>0. p = "below" \/ p = "inside" \/ p = "above" \/ p = "straddle_low" \/ p = "straddle_high"
    BY PositionNames
  <2> QED
    BY <1>10, <1>12, <2>0, PositionNames DEF TwoAnswer, Expected
<1>14. Fit(x, Width(p))
  <2>1. Width(p) \in {4, 8} /\ Near(m, x)
    BY <1>10, <1>11
  <2> QED
    BY <2>1, NearFits
<1>15. /\ RangeMatch(EntryRange(c.pmpaddr, c.pmpcfg, 1, 0, "none"), x + Insn(c).disp, Insn(c).width) = match1
       /\ RangeMatch(EntryRange(c.pmpaddr, c.pmpcfg, 2, 0, "none"), x + Insn(c).disp, Insn(c).width) = claim
       /\ Reachable(x + Insn(c).disp, Insn(c).width) /\ x \in Nat /\ x <= WordSize - 2049
  BY <1>10, <1>11, <1>14 DEF LiesInTwo, Fit
<1>16. Plain(c)
  BY <1>8 DEF Plain, Accessed
<1> HIDE DEF x, kind, expect, claim, match1
<1> QED
  BY <1>16, <1>5, <1>10, <1>13, <1>15, TwoEntriesRight

(* The region that ends before it begins matches nothing.                  *)
LEMMA NullRegionRight ==
    ASSUME NEW m, PmpMachine(m), NEW c \in Range(NullRegion(m)), NEW has
    PROVE  PmpRight(c, 0, has) /\ Plain(c) /\ m.tor
<1> DEFINE base == Base(m)
           a1 == (base + 4096) \div 4
           a2 == base \div 4
           b1 == CfgByte("OFF", {}, FALSE)
           b2 == CfgByte("TOR", {}, FALSE)
           x == base + 8
           id == <<"TOR", "null">>
           Null == Case(id, <<a1, a2>>, <<b1, b2>>, "Load", x, Allow, "NoMatch")
<1>1. m.tor /\ c = Null
  <2>1. NullRegion(m) = IF ~m.tor THEN <<>> ELSE <<Null>>
    BY DEF NullRegion
  <2> HIDE DEF Null
  <2> QED
    BY <2>1 DEF Range
<1>2. base \in Nat /\ base % 4096 = 0
  BY BaseIs
<1>3. 4 * a1 = base + 4096 /\ 4 * a2 = base /\ a1 \in Nat /\ a2 \in Nat
  BY <1>2, SMT
<1>4. EntryMode(b1) = "OFF" /\ EntryMode(b2) = "TOR"
  <2>1. {} \in SUBSET RWX /\ FALSE \in BOOLEAN /\ "OFF" \in ModeNames /\ "TOR" \in ModeNames
    BY DEF ModeNames
  <2> QED
    BY <2>1, ByteRead
<1>5. Near(m, x)
  BY <1>2, SMT DEF Near
<1>6. IsCaseOfTwo(c, id, a1, a2, b1, b2, "Load", x, 0, "NoMatch")
  BY <1>1 DEF IsCaseOfTwo, Allow
<1> HIDE DEF a1, a2, b1, b2, id, Null
<1>7. TwoEntries(c, a1, a2, b1, b2, "Load", x, 0, "NoMatch") /\ c.opcode = "default"
  <2> HIDE DEF x
  <2> QED
    BY <1>6, CaseOfTwo
<1>8. c.access = "Load" /\ c.pmpaddr[1] = a1 /\ c.pmpaddr[2] = a2 /\ c.pmpcfg[1] = b1 /\ c.pmpcfg[2] = b2
  BY <1>7 DEF TwoEntries
<1>9. /\ EntryRange(c.pmpaddr, c.pmpcfg, 1, 0, "none") = <<0, 0>>
      /\ EntryRange(c.pmpaddr, c.pmpcfg, 2, 0, "none") = <<base + 4096, base>>
  BY <1>3, <1>4, <1>8, TorRanges
<1>10. c.opcode \in Opcodes /\ "Load" \in Emitters
  BY <1>7 DEF Opcodes, Emitters
<1>11. Insn(c).disp = 0 /\ Insn(c).width = 4
  <2>1. WidthsOf(c)
    BY <1>8, <1>10, Widths
  <2> QED
    BY <1>7, <1>8, <2>1 DEF WidthsOf
<1>12. /\ RangeMatch(<<0, 0>>, x, 4) = "NoMatch"
       /\ RangeMatch(<<base + 4096, base>>, x, 4) = "NoMatch"
  BY <1>2, SMT DEF RangeMatch
<1>13. Fit(x, 4)
  <2> HIDE DEF x
  <2> QED
    BY <1>5, NearFits
<1>14. 0 = TwoAnswer(c, "Load", b1, b2, "NoMatch", "NoMatch")
  BY DEF TwoAnswer
<1> HIDE DEF x
<1>15. /\ RangeMatch(EntryRange(c.pmpaddr, c.pmpcfg, 1, 0, "none"), x + Insn(c).disp, Insn(c).width) = "NoMatch"
       /\ RangeMatch(EntryRange(c.pmpaddr, c.pmpcfg, 2, 0, "none"), x + Insn(c).disp, Insn(c).width) = "NoMatch"
       /\ Reachable(x + Insn(c).disp, Insn(c).width) /\ x \in Nat /\ x <= WordSize - 2049
  BY <1>9, <1>11, <1>12, <1>13 DEF Fit
<1>16. PmpRight(c, 0, has)
  BY <1>7, <1>10, <1>14, <1>15, TwoEntriesRight
<1> QED
  BY <1>1, <1>8, <1>16 DEF Plain

Supported(c, m) == Needs(c.access) \in m.ext \cup {NoExtension}

(* A plain access needs no extension.                                      *)
LEMMA PlainIsSupported == ASSUME NEW m, NEW c, Plain(c) PROVE Supported(c, m)
<1>1. Needs("Load") = NoExtension /\ Needs("LR") = NoExtension
  BY DEF Needs
<1> QED
  BY <1>1 DEF Supported, Plain

(* The top-of-range mode is selected only where the machine has it.        *)
LEMMA SelectedModes ==
    ASSUME NEW m
    PROVE  Selectable("TOR", m) => m.tor
BY Zenon DEF Selectable

(* The lists of which the corpus consists.                                 *)
LEMMA PmpLists ==
    ASSUME NEW m
    PROVE  /\ IsList(OffCase(m)) /\ IsList(NullRegion(m)) /\ IsList(MisalignedCases(m))
           /\ IsList(OverrideCases(m)) /\ IsList(PermissionCases(m))
           /\ \A mode : IsList(PositionCases(mode, m))
<1>1. IsList(OffCase(m))
  BY Couple, Zenon DEF OffCase
<1>2. IsList(NullRegion(m))
  <2> DEFINE null == Case(<<"TOR", "null">>, <<(Base(m) + 4096) \div 4, Base(m) \div 4>>,
                          <<CfgByte("OFF", {}, FALSE), CfgByte("TOR", {}, FALSE)>>,
                          "Load", Base(m) + 8, Allow, "NoMatch")
  <2>1. NullRegion(m) = IF ~m.tor THEN <<>> ELSE <<null>>
    BY DEF NullRegion
  <2> HIDE DEF null
  <2> QED
    BY <2>1, Couple
<1>3. IsList(MisalignedCases(m))
  <2> DEFINE M(id, x, o) ==
               WithOpcode(Case(id, Page(m), <<CfgByte("NAPOT", RWX, FALSE)>>, "Load", x, Allow, "Match"), o)
             byte == M(<<"misaligned", "byte">>, Base(m) + 4096 + 1, "lbu_disp1")
             dword == M(<<"misaligned", "dword">>, Base(m) + 4096 + 4, "ld_disp4")
  <2>1. MisalignedCases(m) = <<byte, dword>>
    BY DEF MisalignedCases, WithOpcode
  <2> HIDE DEF byte, dword
  <2> QED
    BY <2>1, Couple
<1>4. IsList(OverrideCases(m))
  <2> DEFINE x == Base(m) + 4096 + 8
             O(locked, priv) ==
               WithPriv(Case(<<IF locked THEN "locked" ELSE "unlocked", priv>>, Page(m),
                             <<CfgByte("NAPOT", {}, locked)>>, "Load", x,
                             IF ~locked /\ priv = "M" THEN Allow ELSE 5, "Match"), priv)
             a == O(TRUE, "M")
             b == O(FALSE, "M")
             c == O(TRUE, "S")
             d == O(FALSE, "S")
  <2>1. OverrideCases(m) = <<a, b, c, d>>
    BY Zenon DEF OverrideCases, WithPriv
  <2> HIDE DEF a, b, c, d
  <2> QED
    BY <2>1, WrittenOut
<1> QED
  BY <1>1, <1>2, <1>3, <1>4, PermissionCasesAre, PositionCasesAre

(* A PMP case is of one of the lists, and each of theirs is one.           *)
LEMMA PmpSplit ==
    ASSUME NEW m, NEW c
    PROVE  c \in Range(PmpCorpus(m)) <=>
           \/ c \in Range(OffCase(m))
           \/ c \in Range(PositionCases("TOR", m)) /\ Selectable("TOR", m)
           \/ c \in Range(PositionCases("NA4", m)) /\ Selectable("NA4", m)
           \/ c \in Range(PositionCases("NAPOT", m)) /\ Selectable("NAPOT", m)
           \/ c \in Range(NullRegion(m))
           \/ c \in Range(PermissionCases(m))
           \/ c \in Range(MisalignedCases(m))
           \/ c \in Range(OverrideCases(m))
<1> DEFINE Of(mode) == IF Selectable(mode, m) THEN PositionCases(mode, m) ELSE <<>>
           off == OffCase(m)
           tor == Of("TOR")
           na4 == Of("NA4")
           napot == Of("NAPOT")
           null == NullRegion(m)
           permission == PermissionCases(m)
           misaligned == MisalignedCases(m)
           override == OverrideCases(m)
<1>1. \A mode : IsList(Of(mode)) /\ \A x : x \in Range(Of(mode)) <=>
                   Selectable(mode, m) /\ x \in Range(PositionCases(mode, m))
  <2> SUFFICES ASSUME NEW mode
               PROVE  IsList(Of(mode)) /\ \A x : x \in Range(Of(mode)) <=>
                         Selectable(mode, m) /\ x \in Range(PositionCases(mode, m))
    OBVIOUS
  <2>1. CASE Selectable(mode, m)
    BY <2>1, PmpLists
  <2>2. CASE ~Selectable(mode, m)
    <3>1. Of(mode) = <<>>
      BY <2>2
    <3>2. Range(<<>>) = {}
      BY DEF Range
    <3> HIDE DEF Of
    <3> QED
      BY <2>2, <3>1, <3>2, Couple
  <2> QED
    BY <2>1, <2>2
<1>2. PmpCorpus(m) = (off \o tor \o na4 \o napot) \o null \o permission \o misaligned \o override
  BY DEF PmpCorpus, AddressCases
<1>3. /\ IsList(off) /\ IsList(tor) /\ IsList(na4) /\ IsList(napot) /\ IsList(null)
      /\ IsList(permission) /\ IsList(misaligned) /\ IsList(override)
  BY <1>1, PmpLists
<1>4. /\ \A x : x \in Range(tor) <=> Selectable("TOR", m) /\ x \in Range(PositionCases("TOR", m))
      /\ \A x : x \in Range(na4) <=> Selectable("NA4", m) /\ x \in Range(PositionCases("NA4", m))
      /\ \A x : x \in Range(napot) <=> Selectable("NAPOT", m) /\ x \in Range(PositionCases("NAPOT", m))
  BY <1>1
<1> HIDE DEF Of, off, tor, na4, napot, null, permission, misaligned, override
<1>5. /\ IsList(off \o tor \o na4 \o napot)
      /\ Range(off \o tor \o na4 \o napot) = Range(off) \cup Range(tor) \cup Range(na4) \cup Range(napot)
  BY <1>3, Joined
<1> DEFINE addresses == off \o tor \o na4 \o napot
<1> HIDE DEF addresses
<1>6. Range(addresses \o null \o permission \o misaligned \o override)
        = Range(addresses) \cup Range(null) \cup Range(permission) \cup Range(misaligned) \cup Range(override)
  BY <1>3, <1>5, Joined DEF addresses
<1>7. c \in Range(PmpCorpus(m)) <=>
         c \in Range(off) \cup Range(tor) \cup Range(na4) \cup Range(napot) \cup Range(null)
            \cup Range(permission) \cup Range(misaligned) \cup Range(override)
  BY <1>2, <1>5, <1>6 DEF addresses
<1> QED
  BY <1>4, <1>7 DEF off, null, permission, misaligned, override

(* Every PMP case is right, on both simulators.                            *)
LEMMA PmpEnd ==
    ASSUME NEW m, PmpMachine(m), NEW c \in Range(PmpCorpus(m)), NEW grain \in {m.grain, 0}, NEW has
    PROVE  PmpRight(c, grain, has) /\ Supported(c, m)
<1>1. m.tor => grain = 0
  BY DEF PmpMachine
<1>2. CASE c \in Range(OffCase(m))
  BY <1>2, OffCaseRight, PlainIsSupported
<1>3. CASE c \in Range(PositionCases("TOR", m)) /\ Selectable("TOR", m)
  BY <1>1, <1>3, SelectedModes, TorCasesRight, PlainIsSupported
<1>4. CASE c \in Range(PositionCases("NA4", m))
  BY <1>4, Na4CasesRight, PlainIsSupported
<1>5. CASE c \in Range(PositionCases("NAPOT", m))
  BY <1>5, NapotCasesRight, PlainIsSupported
<1>6. CASE c \in Range(NullRegion(m))
  BY <1>1, <1>6, NullRegionRight, PlainIsSupported
<1>7. CASE c \in Range(PermissionCases(m))
  BY <1>7, PermissionCasesRight DEF Supported
<1>8. CASE c \in Range(MisalignedCases(m))
  BY <1>8, MisalignedCasesRight, PlainIsSupported
<1>9. CASE c \in Range(OverrideCases(m))
  BY <1>9, OverrideCasesRight, PlainIsSupported
<1> QED
  BY <1>2, <1>3, <1>4, <1>5, <1>6, <1>7, <1>8, <1>9, PmpSplit

(***************************************************************************)
(* The runner.                                                             *)
(***************************************************************************)

(* An ELF this run made is of the case file at hand.                       *)
FreshIsOfFile == pc # "idle" => \A id \in fresh : elf[id] = file
VerdictInv == FreshIsOfFile /\ NoFalseAlarm

(* The case of an id is the one that has it.                               *)
LEMMA CaseOfId ==
    ASSUME WorldTyped, pos \in 1 .. Len(Corpus)
    PROVE  CaseIn(Current.id, file) = Current /\ Current \in Range(Corpora[prog][file])
<1> DEFINE s == Corpora[prog][file]
<1>1. /\ DOMAIN s = 1 .. Len(s) /\ \A j, k \in DOMAIN s : s[j].id = s[k].id => j = k
  BY CorporaAssumption DEF WorldTyped
<1>2. pos \in DOMAIN s /\ Current = s[pos]
  BY <1>1 DEF Current, Corpus
<1>3. (CHOOSE k \in DOMAIN s : s[k].id = Current.id) = pos
  BY <1>1, <1>2
<1> QED
  BY <1>2, <1>3 DEF CaseIn, Named, Range

(* The machine of a configuration whose extensions a derivation assumes.   *)
LEMMA MachineAssumed ==
    ASSUME NEW i \in DOMAIN Configs, Assumed(Configs[i])
    PROVE  VmemMachine(Configs[i]) /\ TrapMachine(Configs[i])
BY MachinesAssumption DEF Assumed, VmemMachine, TrapMachine

(* Every configuration is a machine that the PMP cases fit.                *)
LEMMA PmpMachineOf ==
    ASSUME NEW i \in DOMAIN Configs, Configs[i].tor => Configs[i].grain = 0
    PROVE  PmpMachine(Configs[i])
BY MachinesAssumption DEF PmpMachine

(* The test of a case passes on both simulators.                           *)
LEMMA PmpVerdict ==
    ASSUME WorldTyped, prog = "pmp", defect = "none", file = config, Assumed(Configs[config]),
           NEW c \in Range(Corpora[prog][file])
    PROVE  SailPasses(c) /\ SpikePasses(c)
<1> DEFINE m == Configs[config]
<1>1. c \in Range(PmpCorpus(m)) /\ PmpMachine(m)
  BY PmpMachineOf DEF WorldTyped, Corpora, Assumed
<1>2. ASSUME NEW grain \in {m.grain, 0}, NEW has, Needs(c.access) \in has \cup {NoExtension}
      PROVE  PmpTrap(c, Materialise(c.addr), Insn(c), grain, has, "none") = c.expect
  <2>1. PmpRight(c, grain, has)
    BY <1>1, PmpEnd
  <2>2. Materialise(c.addr) = c.addr
    BY <2>1, AddressesArrive DEF PmpRight, Arrives
  <2> QED
    BY <1>2, <2>1, <2>2 DEF PmpRight, PmpEnds
<1>3. Needs(c.access) \in m.ext \cup {NoExtension}
  BY <1>1, PmpEnd DEF Supported
<1>4. EndsAsExpected(c, m.ext, m.grain)
  BY <1>2, <1>3 DEF EndsAsExpected
<1>5. EndsAsExpected(c, SpikeHas(c), 0)
  BY <1>2 DEF EndsAsExpected, SpikeHas
<1> QED
  BY <1>4, <1>5 DEF SailPasses, SpikePasses, IsScenario, CasePrograms

(* So does that of a translation case ...                                  *)
LEMMA VmemVerdict ==
    ASSUME WorldTyped, prog = "vmem", defect = "none", file = config, Assumed(Configs[config]),
           NEW c \in Range(Corpora[prog][file])
    PROVE  SailPasses(c) /\ SpikePasses(c)
<1> DEFINE m == Configs[config]
<1>1. c \in Range(VmemCorpus(m)) /\ VmemMachine(m) /\ "Svadu" \in m.ext
  BY MachineAssumed DEF WorldTyped, Corpora, Assumed
<1>2. VmemEnds(c, m, m.ext)
  BY <1>1, VmemEnd
<1>3. VmemEnds(c, m, SpikeHas(c))
  <2>1. "adue" \in c.bits => "Svadu" \in SpikeHas(c)
    BY DEF SpikeHas
  <2> QED
    BY <1>1, <2>1, VmemEnd
<1> QED
  BY <1>2, <1>3 DEF SailPasses, SpikePasses, EndsAsExpected, VmemEnds, IsScenario, CasePrograms

(* ... and of a trap case.                                                 *)
LEMMA TrapVerdict ==
    ASSUME WorldTyped, prog = "trap", defect = "none", file = config, Assumed(Configs[config]),
           NEW c \in Range(Corpora[prog][file])
    PROVE  SailPasses(c) /\ SpikePasses(c)
<1> DEFINE m == Configs[config]
<1>1. c \in Range(TrapCorpus(m)) /\ TrapMachine(m) /\ "Sscofpmf" \in m.ext
  BY MachineAssumed DEF WorldTyped, Corpora, Assumed
<1>2. TrapEnds(c, m, m.ext)
  BY <1>1, TrapsEnd
<1>3. TrapEnds(c, m, SpikeHas(c))
  <2>1. "LCOFI" \in {c.id[i] : i \in DOMAIN c.id} => "Sscofpmf" \in SpikeHas(c)
    BY DEF SpikeHas
  <2> QED
    BY <1>1, <2>1, TrapsEnd
<1> QED
  BY <1>2, <1>3 DEF SailPasses, SpikePasses, EndsAsExpected, TrapEnds, IsScenario, CasePrograms

(* Two simulators that answer alike are reported unless they answer as the *)
(* scenario says.                                                          *)
LEMMA Judged ==
    ASSUME NEW s, NEW sail \in BOOLEAN, NEW spike \in BOOLEAN, NEW v \in BOOLEAN,
           NEW u \in BOOLEAN, s.passes = v, sail = u, spike = u
    PROVE  Judgement(s, sail, spike) = "ok" <=> u = v
<1>1. (IF IsPma(s) THEN sail ELSE sail /\ spike) = u
  OBVIOUS
<1> QED
  BY <1>1 DEF Judgement

(* A case of the list at hand that must pass and whose code is illegal.    *)
Alarms(c) == IsScenario(prog) /\ IllegalAt(Xlen, c) /\ c.passes

(* A scenario is judged ok, but for those.                                 *)
LEMMA ScenarioVerdict ==
    ASSUME WorldTyped, IsScenario(prog), defect = "none", NEW c \in Range(Corpora[prog][file])
    PROVE  Judgement(c, SailPasses(c), SpikePasses(c)) = "ok" <=> ~Alarms(c)
<1>1. c \in Range(Scenarios) /\ Xlen \in {64, 32}
  BY DEF WorldTyped, Corpora, IsScenario, CasePrograms, Xlen
<1>2. AsPinned(Xlen, c)
  BY <1>1, AllPinned
<1> DEFINE ends == EndsAt(Xlen, c)
<1>3. (SailPasses(c) <=> ends) /\ (SpikePasses(c) <=> ends)
  BY <1>2 DEF SailPasses, SpikePasses, EndsAsExpected, AsPinned, EndsAt, IsScenario, CasePrograms
<1>4. \/ c.passes = TRUE /\ ~Alarms(c) /\ ends
      \/ c.passes = TRUE /\ Alarms(c) /\ ~ends
      \/ c.passes = FALSE /\ ~Alarms(c) /\ ~ends
  BY <1>2 DEF AsPinned, Alarms
<1>5. SailPasses(c) \in BOOLEAN /\ SpikePasses(c) \in BOOLEAN
  BY DEF SailPasses, SpikePasses, EndsAsExpected
<1> HIDE DEF ends
<1>6. CASE ends
  <2>1. c.passes = TRUE /\ SailPasses(c) = TRUE /\ SpikePasses(c) = TRUE /\ ~Alarms(c)
    BY <1>3, <1>4, <1>5, <1>6
  <2> QED
    BY <1>5, <2>1, Judged
<1>7. CASE ~ends
  <2>1. SailPasses(c) = FALSE /\ SpikePasses(c) = FALSE
    BY <1>3, <1>5, <1>7
  <2>2. (c.passes = TRUE /\ Alarms(c)) \/ (c.passes = FALSE /\ ~Alarms(c))
    BY <1>4, <1>7
  <2>3. CASE c.passes = TRUE /\ Alarms(c)
    BY <1>5, <2>1, <2>3, Judged
  <2>4. CASE c.passes = FALSE /\ ~Alarms(c)
    BY <1>5, <2>1, <2>4, Judged
  <2> QED
    BY <2>2, <2>3, <2>4
<1> QED
  BY <1>6, <1>7

(* The false alarms are the ids of those.                                  *)
LEMMA AlarmOfId ==
    ASSUME WorldTyped, pos \in 1 .. Len(Corpus)
    PROVE  Current.id \in FalseAlarms <=> Alarms(Current)
<1>1. DOMAIN Corpus = 1 .. Len(Corpus) /\ \A j, k \in DOMAIN Corpus : Corpus[j].id = Corpus[k].id => j = k
  BY CorporaAssumption DEF WorldTyped, Corpus
<1>2. Current.id \in FalseAlarms <=> \E j \in DOMAIN Corpus : Alarms(Corpus[j]) /\ Corpus[j].id = Current.id
  BY DEF FalseAlarms, Alarms
<1> QED
  BY <1>1, <1>2 DEF Current

(* The ELF of the case at hand, made of the file at hand, is judged good   *)
(* unless it is one of them.                                               *)
LEMMA GoodOfFresh ==
    ASSUME WorldTyped, pos \in 1 .. Len(Corpus), defect = "none", file = config,
           ~IsScenario(prog) => Assumed(Configs[config]), elf[Current.id] = file
    PROVE  GoodVerdict(Current.id) <=> Current.id \notin FalseAlarms
<1>1. CaseIn(Current.id, file) = Current /\ Current \in Range(Corpora[prog][file])
  BY CaseOfId
<1>2. file # 0
  BY CorporaAssumption DEF WorldTyped
<1>3. IsScenario(prog) \/ prog = "pmp" \/ prog = "vmem" \/ prog = "trap"
  BY DEF WorldTyped, IsScenario, Programs, CasePrograms
<1>4. Current.id \in FalseAlarms <=> Alarms(Current)
  BY AlarmOfId
<1>5. CASE IsScenario(prog)
  BY <1>1, <1>2, <1>4, <1>5, ScenarioVerdict DEF GoodVerdict
<1>6. CASE ~IsScenario(prog)
  <2>1. ~Alarms(Current)
    BY <1>6 DEF Alarms
  <2> QED
    BY <1>1, <1>2, <1>3, <1>4, <1>6, <2>1, PmpVerdict, VmemVerdict, TrapVerdict DEF GoodVerdict
<1> QED
  BY <1>5, <1>6

(* At first no ELF is fresh and none is bad.                               *)
LEMMA InitVerdictInv == Init => VerdictInv
BY DEF Init, VerdictInv, FreshIsOfFile, NoFalseAlarm

(* While the program and its list stay, so do the false alarms.            *)
LEMMA AlarmsStay == UNCHANGED <<prog, file>> => FalseAlarms' = FalseAlarms
BY DEF FalseAlarms, Corpus, Xlen, IsScenario

(* Every step keeps the invariant.                                         *)
LEMMA NextVerdictInv == IInv /\ VerdictInv /\ [Next]_vars => VerdictInv'
<1> SUFFICES ASSUME IInv, VerdictInv, [Next]_vars PROVE VerdictInv'
  OBVIOUS
<1> USE DEF world, tally, history
<1>1. CASE pc' = "idle"
  BY <1>1 DEF VerdictInv, FreshIsOfFile, NoFalseAlarm
<1>2. CASE UNCHANGED vars
  BY <1>2, AlarmsStay DEF vars, VerdictInv, FreshIsOfFile, NoFalseAlarm, Assumed, IsScenario
<1>3. CASE \E filter \in {"all", "first"} : Begin(filter)
  BY <1>3 DEF Begin, VerdictInv, FreshIsOfFile, NoFalseAlarm
<1>4. CASE Skip \/ GenerateFails \/ GeneratesNothing
  <2>1. UNCHANGED <<prog, defect, config, file, elf, passed, bad, fresh>> /\ pc = "case"
    BY <1>4 DEF Skip, GenerateFails, GeneratesNothing, AtCase
  <2> QED
    BY <2>1, AlarmsStay DEF VerdictInv, FreshIsOfFile, NoFalseAlarm, Assumed, IsScenario
<1>5. CASE Generate
  <2>1. /\ UNCHANGED <<prog, defect, config, file, passed, bad>> /\ pc = "case"
        /\ elf' = [elf EXCEPT ![Current.id] = file] /\ fresh' = fresh \cup {Current.id}
        /\ pos \in 1 .. Len(Corpus)
    BY <1>5, LenCorpus DEF Generate, AtCase, IInv, InRange
  <2>2. Current.id \in Ids[prog] /\ Current.id \notin Behind
    BY <2>1, CurrentIsKnown DEF IInv
  <2>3. Current.id \notin bad \cup passed
    BY <2>1, <2>2 DEF IInv, TallyIsBehind
  <2>4. FreshIsOfFile'
    BY <2>1, <2>2 DEF VerdictInv, FreshIsOfFile, IInv, ElfTyped, Known
  <2>5. NoFalseAlarm'
    BY <2>1, <2>3, AlarmsStay DEF VerdictInv, NoFalseAlarm, Assumed, IsScenario
  <2> QED
    BY <2>4, <2>5 DEF VerdictInv
<1>6. CASE Judge
  <2>1. /\ UNCHANGED <<prog, defect, config, file, elf, fresh>> /\ pc = "judge"
        /\ IF GoodVerdict(Current.id) THEN bad' = bad /\ passed' = passed \cup {Current.id}
           ELSE bad' = bad \cup {Current.id} /\ passed' = passed
    BY <1>6 DEF Judge
  <2>2. WorldTyped /\ pos \in 1 .. Len(Corpus)
    BY <2>1 DEF IInv, InRange
  <2>3. FreshIsOfFile'
    BY <2>1 DEF VerdictInv, FreshIsOfFile
  <2>4. NoFalseAlarm'
    <3> SUFFICES ASSUME defect = "none", file = config,
                        ~IsScenario(prog) => Assumed(Configs[config])
                 PROVE  bad' \cap fresh \subseteq FalseAlarms /\ passed' \cap fresh \cap FalseAlarms = {}
      BY <2>1, AlarmsStay DEF NoFalseAlarm, Assumed, IsScenario
    <3>1. bad \cap fresh \subseteq FalseAlarms /\ passed \cap fresh \cap FalseAlarms = {}
      BY <2>1 DEF VerdictInv, NoFalseAlarm
    <3>2. Current.id \in fresh => (GoodVerdict(Current.id) <=> Current.id \notin FalseAlarms)
      BY <2>1, <2>2, GoodOfFresh DEF VerdictInv, FreshIsOfFile
    <3> QED
      BY <2>1, <3>1, <3>2
  <2> QED
    BY <2>3, <2>4 DEF VerdictInv
<1>7. CASE (\E c \in DOMAIN Configs : Reconfigure(c)) \/ Derive \/ Clean \/ Finish \/ Die
  <2>1. pc' = "idle"
    BY <1>7 DEF Reconfigure, Derive, Clean, Finish, Die
  <2> QED
    BY <1>1, <2>1
<1> QED
  BY <1>2, <1>3, <1>4, <1>5, <1>6, <1>7 DEF Next

(* A run over the cases derived for its own configuration, of a machine    *)
(* with the extensions the derivation assumes, on simulators that          *)
(* deviate nowhere, reports no failure: no ELF it made is called bad, but  *)
(* for the scenarios whose shifts RV32 does not have, which are called bad *)
(* each time (run_cases.py, scenario_tests.py).                            *)
THEOREM NoFalseAlarms == Spec => []NoFalseAlarm
<1>1. VerdictInv => NoFalseAlarm
  BY DEF VerdictInv
<1> QED
  BY <1>1, Invariance, InitVerdictInv, NextVerdictInv, PTL DEF Spec

(* The case that a PMP run is at claims the truth: the address the         *)
(* opcodes build is the one meant, and the access lies to the range that   *)
(* the registers encode as the case says (pmp_cases.py).                   *)
THEOREM PositionsAreTrue == Spec => []ClaimsHold
<1>1. IInv => ClaimsHold
  <2> SUFFICES ASSUME IInv, prog = "pmp", AtCase, Configs[file].tor => Configs[file].grain = 0
               PROVE  LET c == Current
                          entry == Len(c.pmpaddr) - 1
                          bytes == EntryRange(c.pmpaddr, c.pmpcfg, entry, Configs[file].grain, "none")
                          x2 == Materialise(c.addr)
                      IN  /\ x2 = c.addr
                          /\ c.id # <<"NA4", "inside">> =>
                                RangeMatch(bytes, x2 + Insn(c).disp, Insn(c).width) = c.claim
    BY DEF ClaimsHold
  <2>1. pos \in 1 .. Len(Corpus) /\ WorldTyped
    BY LenCorpus DEF IInv, InRange, AtCase
  <2> DEFINE m == Configs[file]
             c == Current
  <2>2. c \in Range(PmpCorpus(m)) /\ PmpMachine(m)
    BY <2>1, CaseOfId, PmpMachineOf DEF WorldTyped, Corpora
  <2>3. PmpRight(c, m.grain, {})
    BY <2>2, PmpEnd
  <2>4. Materialise(c.addr) = c.addr
    BY <2>3, AddressesArrive DEF PmpRight, Arrives
  <2> QED
    BY <2>3, <2>4 DEF PmpRight, Claims
<1> QED
  BY <1>1, Invariance, PTL DEF Spec

(* The runners report every case of a complete run that ends otherwise     *)
(* than it expects, on the simulators as they are.                         *)
Passes(c) ==
    IF IsScenario(prog) THEN Judgement(c, SailPasses(c), SpikePasses(c)) = "ok"
    ELSE SailPasses(c) /\ SpikePasses(c)
Settled(c) == \/ IsScenario(prog) /\ SkippedAt(Xlen, c)
              \/ Passes(c)
              \/ c.id \in bad
SeenInv == defect # "none" =>
    /\ faults = MaxFaults
    /\ pc = "judge" => elf[Current.id] = file
    /\ pc # "idle" /\ only = "all" => \A k \in 1 .. pos - 1 : Settled(Corpus[k])

(* A case that is settled stays so for the run.                            *)
LEMMA StaysSettled ==
    ASSUME UNCHANGED world, bad \subseteq bad', NEW k, Settled(Corpus[k])
    PROVE  Settled(Corpus[k])'
<1>1. UNCHANGED <<prog, defect, config, file>>
  BY DEF world
<1>2. Corpus' = Corpus /\ Xlen' = Xlen /\ (IsScenario(prog) <=> IsScenario(prog'))
  BY <1>1 DEF Corpus, Xlen, IsScenario
<1>3. Passes(Corpus[k])' <=> Passes(Corpus[k])
  BY <1>1, <1>2 DEF Passes, SailPasses, SpikePasses, EndsAsExpected, SpikeHas
<1> QED
  BY <1>1, <1>2, <1>3 DEF Settled

(* So a run that moves on by one has all but the last one settled already. *)
LEMMA SettledMovesOn ==
    ASSUME IInv, SeenInv, defect # "none", pc # "idle", pos \in 1 .. Len(Corpus),
           UNCHANGED <<world, only>>, pos' = pos + 1, bad \subseteq bad',
           only = "all" => \A k \in {pos} : Settled(Corpus[k])'
    PROVE  only' = "all" => \A k \in 1 .. pos' - 1 : Settled(Corpus[k])'
<1> SUFFICES ASSUME only = "all", NEW k \in 1 .. pos' - 1 PROVE Settled(Corpus[k])'
  OBVIOUS
<1>1. pos \in Nat
  BY LenCorpus DEF IInv
<1>2. Len(Corpus) \in Nat
  BY LenCorpus DEF IInv
<1>3. CASE k = pos
  BY <1>3
<1>4. CASE k # pos
  <2>1. k \in 1 .. pos - 1
    BY <1>1, <1>4
  <2> QED
    BY <2>1, StaysSettled DEF SeenInv
<1> QED
  BY <1>3, <1>4

(* At first nothing is past.                                               *)
LEMMA InitSeenInv == Init => SeenInv
BY DEF Init, SeenInv

(* Every step keeps it: only a judgement moves past a case that is not     *)
(* skipped, as a hart that deviates gets a run without faults.             *)
LEMMA NextSeenInv == IInv /\ SeenInv /\ [Next]_vars => SeenInv'
<1> SUFFICES ASSUME IInv, SeenInv, [Next]_vars, defect' # "none" PROVE SeenInv'
  BY DEF SeenInv
<1> USE DEF tally, history
<1>1. CASE (\E c \in DOMAIN Configs : Reconfigure(c)) \/ Derive \/ Clean
  BY <1>1 DEF Reconfigure, Derive, Clean, SeenInv, world
<1>2. CASE \E filter \in {"all", "first"} : Begin(filter)
  BY <1>2 DEF Begin, SeenInv, world
<1>3. CASE Skip
  <2>1. /\ pc = "case" /\ pc' = pc /\ pos \in 1 .. Len(Corpus) /\ pos' = pos + 1 /\ bad' = bad
        /\ UNCHANGED <<world, only>> /\ faults' = faults /\ defect' = defect /\ Skipped
    BY <1>3, LenCorpus DEF Skip, AtCase, IInv, InRange, world
  <2>2. only = "all" => Settled(Corpus[pos])
    BY <2>1 DEF Skipped, Wanted, Settled, Current
  <2>3. only' = "all" => \A k \in 1 .. pos' - 1 : Settled(Corpus[k])'
    BY <2>1, <2>2, SettledMovesOn, StaysSettled
  <2> QED
    BY <2>1, <2>3 DEF SeenInv
<1>4. CASE Generate
  <2>1. /\ pc = "case" /\ pos' = pos /\ bad' = bad /\ UNCHANGED <<world, only>>
        /\ faults' = faults /\ defect' = defect /\ file' = file
        /\ elf' = [elf EXCEPT ![Current.id] = file] /\ pos \in 1 .. Len(Corpus)
    BY <1>4, LenCorpus DEF Generate, AtCase, IInv, InRange, world
  <2>2. Current.id \in Ids[prog]
    BY <2>1, CurrentIsKnown DEF IInv
  <2>3. Current' = Current
    BY <2>1 DEF Current, Corpus, world
  <2>4. elf'[Current'.id] = file'
    BY <2>1, <2>2, <2>3 DEF IInv, ElfTyped
  <2>5. only' = "all" => \A k \in 1 .. pos' - 1 : Settled(Corpus[k])'
    BY <2>1, StaysSettled DEF SeenInv
  <2> QED
    BY <2>1, <2>4, <2>5 DEF SeenInv
<1>5. CASE Judge
  <2>1. /\ pc = "judge" /\ pc' = "case" /\ pos' = pos + 1 /\ pos \in 1 .. Len(Corpus)
        /\ UNCHANGED <<world, only>> /\ faults' = faults /\ defect' = defect /\ bad \subseteq bad'
        /\ ~GoodVerdict(Current.id) => Current.id \in bad'
    BY <1>5 DEF Judge, IInv, InRange, world
  <2>2. elf[Current.id] = file /\ CaseIn(Current.id, file) = Current
    BY <2>1, CaseOfId DEF SeenInv, IInv
  <2>3. GoodVerdict(Current.id) => Passes(Current)
    BY <2>2 DEF GoodVerdict, Passes
  <2>4. Current = Corpus[pos]
    BY DEF Current
  <2>5. ASSUME NEW k \in {pos} PROVE Settled(Corpus[k])'
    <3>1. CASE GoodVerdict(Current.id)
      <4>1. Settled(Corpus[k])
        BY <2>3, <2>4, <3>1 DEF Settled
      <4> QED
        BY <2>1, <4>1, StaysSettled
    <3>2. CASE ~GoodVerdict(Current.id)
      BY <2>1, <2>4, <3>2 DEF Settled, Corpus, world
    <3> QED
      BY <3>1, <3>2
  <2>6. only' = "all" => \A k \in 1 .. pos' - 1 : Settled(Corpus[k])'
    BY <2>1, <2>5, SettledMovesOn
  <2> QED
    BY <2>1, <2>6 DEF SeenInv
<1>6. CASE GenerateFails \/ GeneratesNothing \/ Die
  <2>1. faults < MaxFaults /\ defect' = defect
    BY <1>6 DEF GenerateFails, GeneratesNothing, Die, world
  <2>2. faults \in 0 .. MaxFaults /\ MaxFaults \in Nat
    BY CorporaAssumption DEF IInv, Counted
  <2> QED
    BY <2>1, <2>2 DEF SeenInv
<1>7. CASE Finish
  BY <1>7 DEF Finish, SeenInv, world
<1>8. CASE UNCHANGED vars
  <2>1. UNCHANGED <<world, pc, pos, only, elf, bad, faults>> /\ defect' = defect /\ file' = file
    BY <1>8 DEF vars, world
  <2>2. Current' = Current
    BY <2>1 DEF Current, Corpus, world
  <2>3. pc # "idle" /\ only = "all" => \A k \in 1 .. pos - 1 : Settled(Corpus[k])'
    BY <2>1, StaysSettled DEF SeenInv
  <2> QED
    BY <2>1, <2>2, <2>3 DEF SeenInv
<1> QED
  BY <1>1, <1>2, <1>3, <1>4, <1>5, <1>6, <1>7, <1>8 DEF Next

(* What the cases of a program aim at.                                     *)
LEMMA AimedAt ==
    /\ Aimed["pmp"] = {"lock_ignored", "partial_matches", "unlocked_binds", "writes_unchecked"}
    /\ Aimed["vmem"] = {"sum_ignored", "mxr_ignored", "misaligned_ok", "walk_skips_pmp",
                        "denied_walk_page_faults"}
    /\ Aimed["trap"] = {"mideleg_ignored", "delegates_from_m", "lowest_first"}
    /\ Aimed["scenario64"] = {"pmp_default_allows", "xret_keeps_privilege", "satp_ignored",
                              "interrupts_lost", "handler_ignores_cause"}
    /\ Aimed["scenario32"] = {"pmp_default_allows", "xret_keeps_privilege", "interrupts_lost",
                              "handler_ignores_cause"}
<1>1. {"pmp", "vmem", "trap", "scenario64", "scenario32"} \subseteq Programs
  BY DEF Programs, CasePrograms
<1> QED
  BY <1>1, Zenon DEF Aimed

(***************************************************************************)
(* Traps: a case that a deviation ends otherwise.                          *)
(***************************************************************************)
Knows(c, has) == "LCOFI" \in {c.id[i] : i \in DOMAIN c.id} => "Sscofpmf" \in has
TrapSees(m, bug) == \E c \in Range(TrapCorpus(m)) : \A has :
    Knows(c, has) => TrapTaken(c, m, has, bug) # <<c.expect, c.handler>>

(* On a machine without supervisor mode no call from it traps.             *)
LEMMA NoSupervisor == ASSUME NEW m, "S" \notin m.ext, NEW bug PROVE TrapSees(m, bug)
<1> DEFINE c == TCase(<<"xtval", "s_ecall">>, "exception", "ecall", "S", "M", 9)
<1>1. c \in Range(XtvalCases)
  <2>1. XtvalCases[2] = c /\ 2 \in DOMAIN XtvalCases
    BY DEF XtvalCases, PrivOf, ExcCode
  <2> QED
    BY <2>1 DEF Range
<1>2. c.priv = "S" /\ c.expect = 9
  BY DEF TCase
<1> HIDE DEF c
<1>3. \A has : TrapTaken(c, m, has, bug) = <<0, "M">>
  BY <1>2 DEF TrapTaken
<1> QED
  BY <1>1, <1>2, <1>3, TrapLists DEF TrapSees

(* A breakpoint of M that is delegated goes to S on a hart that delegates  *)
(* from there.                                                             *)
LEMMA DelegatesSeen == ASSUME NEW m, "S" \in m.ext PROVE TrapSees(m, "delegates_from_m")
<1> DEFINE c == [TCase(<<"deleg", "from_m">>, "exception", "ebreak", "M", "M", 3)
                 EXCEPT !.medeleg = {3}]
<1>1. c \in Range(DelegationCases(m))
  <2> DEFINE d == [TCase(<<"deleg", "to_s">>, "exception", "ebreak", "S", "S", 3)
                   EXCEPT !.medeleg = {3}]
  <2>1. DelegationCases(m) = <<d, c>>
    BY DEF DelegationCases
  <2> HIDE DEF c, d
  <2> QED
    BY <2>1 DEF Range
<1>2. /\ c.priv = "M" /\ c.kind = "exception" /\ c.insn = "ebreak" /\ c.medeleg = {3}
      /\ c.handler = "M"
  BY DEF TCase
<1> HIDE DEF c
<1>3. \A has : TrapTaken(c, m, has, "delegates_from_m") = <<3, "S">>
  BY <1>2 DEF TrapTaken
<1> QED
  BY <1>1, <1>2, <1>3, TrapLists DEF TrapSees

(* An interrupt that can be delegated, and can be made pending, goes to M  *)
(* on a hart that does not delegate.                                       *)
LEMMA MidelegSeen ==
    ASSUME NEW m, "S" \in m.ext, NEW i \in DOMAIN Priority, Priority[i] \notin NoDeleg
    PROVE  TrapSees(m, "mideleg_ignored")
<1> DEFINE b == Priority[i]
           c == Interrupt(<<"deleg", b>>, {IBit(b)}, {IBit(b)}, "S", IntrCode(b))
           I == {j \in DOMAIN Priority : Priority[j] \notin NoDeleg /\ "S" \in m.ext}
           bits == Those(Priority, I)
<1>1. c \in Range(InterruptDelegation(m))
  <2>1. IsList(bits) /\ b \in Range(bits)
    BY Chain, ThoseAsked
  <2>2. PICK k \in 1 .. Len(bits) : bits[k] = b
    BY <2>1, LenProperties DEF IsList, Range
  <2>3. InterruptDelegation(m) =
           [j \in 1 .. Len(bits) |->
              Interrupt(<<"deleg", bits[j]>>, {IBit(bits[j])}, {IBit(bits[j])}, "S",
                        IntrCode(bits[j]))]
    BY DEF InterruptDelegation
  <2> HIDE DEF bits
  <2>4. k \in DOMAIN InterruptDelegation(m) /\ InterruptDelegation(m)[k] = c
    BY <2>2, <2>3
  <2> HIDE DEF c
  <2> QED
    BY <2>4 DEF Range
<1>2. b \in Interrupts /\ b \in Writable
  BY Chain
<1>3. /\ c.kind = "interrupt" /\ c.priv = "S" /\ c.handler = "S"
      /\ c.id = <<"deleg", b>> /\ c.mip = {IntrCode(b)} /\ c.mie = c.mip
  BY <1>2, Codes DEF Interrupt, TCase
<1> HIDE DEF c
<1>4. ASSUME NEW has, Knows(c, has)
      PROVE  TrapTaken(c, m, has, "mideleg_ignored")[2] = "M"
  <2>1. b \in {c.id[k] : k \in DOMAIN c.id}
    <3>1. DOMAIN c.id = 1 .. 2 /\ c.id[2] = b
      BY <1>3
    <3> QED
      BY <3>1
  <2>2. IntrCode(b) \in Settable(has)
    BY <1>2, <1>4, <2>1 DEF Settable, Knows
  <2>3. (c.mip \cap c.mie \cap Settable(has)) \ {} # {}
    BY <1>3, <2>2
  <2> QED
    BY <1>3, <2>3 DEF TrapTaken, Settable
<1> QED
  BY <1>1, <1>3, <1>4, TrapLists DEF TrapSees

(* Of two neighbours that are pending, the other one is taken.             *)
LEMMA LowestSeen ==
    ASSUME NEW m, NEW i \in 1 .. Len(Priority) - 1, {Priority[i], Priority[i + 1]} \subseteq Writable
    PROVE  TrapSees(m, "lowest_first")
<1> DEFINE a == Priority[i]
           b == Priority[i + 1]
           c == Interrupt(<<"prio", a, b>>, {IBit(a), IBit(b)}, {}, "M", IntrCode(a))
           I == {j \in DOMAIN Adjacent : Adjacent[j][1] \in Writable /\ Adjacent[j][2] \in Writable}
           pairs == Those(Adjacent, I)
<1>1. c \in Range(PriorityCases)
  <2>1. i \in DOMAIN Adjacent /\ Adjacent[i] = <<a, b>>
    BY DEF Adjacent
  <2>2. i \in I
    BY <2>1
  <2>3. IsList(pairs) /\ <<a, b>> \in Range(pairs)
    BY <2>1, <2>2, AdjacentIsList, ThoseAsked
  <2>4. PICK k \in 1 .. Len(pairs) : pairs[k] = <<a, b>>
    BY <2>3, LenProperties DEF IsList, Range
  <2>5. PriorityCases =
           [j \in 1 .. Len(pairs) |->
              Interrupt(<<"prio", pairs[j][1], pairs[j][2]>>,
                        {IBit(pairs[j][1]), IBit(pairs[j][2])}, {}, "M", IntrCode(pairs[j][1]))]
    BY DEF PriorityCases
  <2> HIDE DEF pairs
  <2>6. pairs[k][1] = a /\ pairs[k][2] = b
    BY <2>4
  <2>7. k \in DOMAIN PriorityCases /\ PriorityCases[k] = c
    BY <2>4, <2>5, <2>6, Zenon
  <2> HIDE DEF c
  <2> QED
    BY <2>7 DEF Range
<1>2. /\ a \in Interrupts /\ b \in Interrupts /\ a # b /\ a \in Writable /\ b \in Writable
      /\ i \in DOMAIN Priority /\ i + 1 \in DOMAIN Priority /\ i \in Nat
  BY Chain
<1>3. /\ c.kind = "interrupt" /\ c.priv = "M" /\ c.expect = IntrCode(a)
      /\ c.id = <<"prio", a, b>> /\ c.mip = {IntrCode(a), IntrCode(b)} /\ c.mie = c.mip
      /\ c.mideleg = {}
  BY <1>2, Codes DEF Interrupt, TCase
<1> HIDE DEF c
<1>4. ASSUME NEW has, Knows(c, has)
      PROVE  TrapTaken(c, m, has, "lowest_first")[1] # IntrCode(a)
  <2>1. a \in {c.id[k] : k \in DOMAIN c.id} /\ b \in {c.id[k] : k \in DOMAIN c.id}
    <3>1. DOMAIN c.id = 1 .. 3 /\ c.id[2] = a /\ c.id[3] = b
      BY <1>3
    <3> QED
      BY <3>1
  <2>2. IntrCode(a) \in Settable(has) /\ IntrCode(b) \in Settable(has)
    BY <1>2, <1>4, <2>1 DEF Settable, Knows
  <2> DEFINE pending == c.mip \cap c.mie \cap Settable(has)
             Other(x) == x # IntrCode(Taken(pending)) \/ pending = {x}
  <2>3. pending = {IntrCode(a), IntrCode(b)} /\ IntrCode(a) # IntrCode(b)
    BY <1>2, <1>3, <2>2, Codes
  <2>4. Taken(pending) = a
    <3>1. ASSUME NEW j \in DOMAIN Priority, IntrCode(Priority[j]) \in pending PROVE i <= j
      <4>1. Priority[j] = a \/ Priority[j] = b
        BY <1>2, <2>3, <3>1, Codes, Chain
      <4>2. j = i \/ j = i + 1
        BY <1>2, <4>1, Chain
      <4> QED
        BY <1>2, <4>2
    <3>2. IntrCode(Priority[i]) \in pending
      BY <2>3
    <3> HIDE DEF pending
    <3> QED
      BY <1>2, <3>1, <3>2, FirstIsTaken
  <2>5. pending \ (c.mideleg \ {IntrCode(x) : x \in NoDeleg}) # {}
    BY <1>3, <2>3
  <2>6. TrapTaken(c, m, has, "lowest_first")[1] = CHOOSE x \in pending : Other(x)
    BY <1>3, <2>5 DEF TrapTaken, Settable
  <2>7. Other(IntrCode(b)) /\ IntrCode(b) \in pending /\ ~Other(IntrCode(a))
    BY <2>3, <2>4
  <2> HIDE DEF pending, Other
  <2> QED
    BY <2>6, <2>7
<1> QED
  BY <1>1, <1>3, <1>4, TrapLists DEF TrapSees

(* Each deviation of the routing is seen.                                  *)
LEMMA TrapsSeen == ASSUME NEW m, NEW bug \in Bugs["trap"] PROVE TrapSees(m, bug)
<1>1. /\ bug \in {"mideleg_ignored", "delegates_from_m", "lowest_first"}
      /\ bug = "mideleg_ignored" => \E i \in DOMAIN Priority : Priority[i] \notin NoDeleg
      /\ bug = "lowest_first" =>
            \E i \in 1 .. Len(Priority) - 1 : {Priority[i], Priority[i + 1]} \subseteq Writable
  <2>1. "trap" \in Programs
    BY DEF Programs, CasePrograms
  <2> QED
    BY <2>1, AimedAt, DeviationsAssumption
<1> QED
  BY <1>1, NoSupervisor, DelegatesSeen, MidelegSeen, LowestSeen

(***************************************************************************)
(* Translation: a case that a deviation ends otherwise.                    *)
(***************************************************************************)
VmemSees(m, bug) ==
    \E c \in Range(VmemCorpus(m)) : \A has : VmemTrap(c, c.addr, m, has, bug) # c.expect

(* The cases that show one, which every machine has.                       *)
Shows(m, c) == c \in Range(VmemCorpus(m)) /\ c.mode = "Sv39" /\ c.addr = DataAddr

(* The user page without SUM, and the executable page under MXR.           *)
LEMMA Showing ==
    ASSUME NEW m, m.ramPage = RamPage
    PROVE  /\ LET c == Alias(<<"sum", "clear">>, m, FRWX \cup {"U"}, "Load", 13, {}) IN
                Shows(m, c) /\ c.expect = 13 /\ c.access = "Load" /\ c.bits = {} /\ c.deny = "none"
                /\ 1 \in DOMAIN c.table /\ c.table[1] = Pte(RamPage, FRWX \cup {"U"}, 0)
           /\ LET c == Alias(<<"mxr", "set">>, m, FXO, "Load", 0, {"mxr"}) IN
                Shows(m, c) /\ c.expect = 0 /\ c.access = "Load" /\ c.bits = {"mxr"} /\ c.deny = "none"
                /\ 1 \in DOMAIN c.table /\ c.table[1] = Pte(RamPage, FXO, 0)
<1>1. /\ 7 \in DOMAIN PermCases(m) /\ 5 \in DOMAIN PermCases(m)
      /\ PermCases(m)[7] = Alias(<<"sum", "clear">>, m, FRWX \cup {"U"}, "Load", 13, {})
      /\ PermCases(m)[5] = Alias(<<"mxr", "set">>, m, FXO, "Load", VNoTrap, {"mxr"})
  BY DEF PermCases
<1>2. \A k \in DOMAIN PermCases(m) : PermCases(m)[k] \in Range(VmemCorpus(m))
  BY VmemLists DEF Range
<1>3. ASSUME NEW id, NEW flags, NEW expect, NEW bits
      PROVE  LET c == Alias(id, m, flags, "Load", expect, bits) IN
                /\ c.mode = "Sv39" /\ c.addr = DataAddr /\ c.expect = expect /\ c.access = "Load"
                /\ c.bits = bits /\ c.deny = "none" /\ c.table = BaseMap(m, flags, 0)
  BY DEF Alias, VCase
<1> QED
  BY <1>1, <1>2, <1>3, Tables DEF Shows, VNoTrap

(* ... and the two of the walk.                                            *)
LEMMA ShowingWalks ==
    ASSUME NEW m, m.ramPage = RamPage
    PROVE  /\ \E c : Shows(m, c) /\ c.expect = 13 /\ c.access = "Load" /\ c.bits = {}
                /\ c.deny = "none"
                /\ 1 \in DOMAIN c.table /\ c.table[1] = Pte(RamPage + 1, FRWX, 0)
           /\ \E c : Shows(m, c) /\ c.expect = 1 /\ c.access = "Load" /\ c.deny = "root"
                /\ 2 \in DOMAIN c.table /\ c.table[2] = Pte(RamPage, FRWX, 0)
<1> DEFINE c == VCase(<<"superpage", "misaligned">>, "Sv39",
                      [Identity(m) EXCEPT ![1] = Pte(m.ramPage + 1, FRWX, 0)], DataAddr, "Load", 13)
           d == [VCase(<<"pmp_denies", "table">>, "Sv39", Identity(m), DataAddr, "Load", 1)
                 EXCEPT !.deny = "root"]
<1>1. 1 \in DOMAIN WalkCases(m) /\ 6 \in DOMAIN WalkCases(m)
  BY DEF WalkCases
<1>1a. WalkCases(m)[1] = c /\ WalkCases(m)[6] = d
  BY DEF WalkCases
<1>2. \A k \in DOMAIN WalkCases(m) : WalkCases(m)[k] \in Range(VmemCorpus(m))
  BY VmemLists DEF Range
<1>3. /\ c.mode = "Sv39" /\ c.addr = DataAddr /\ c.expect = 13 /\ c.access = "Load"
      /\ c.bits = {} /\ c.deny = "none"
      /\ c.table = [Identity(m) EXCEPT ![1] = Pte(m.ramPage + 1, FRWX, 0)]
  BY DEF VCase
<1>4. /\ d.mode = "Sv39" /\ d.addr = DataAddr /\ d.expect = 1 /\ d.access = "Load"
      /\ d.deny = "root" /\ d.table = Identity(m)
  BY DEF VCase
<1> HIDE DEF c, d
<1>5. 1 \in DOMAIN c.table /\ c.table[1] = Pte(RamPage + 1, FRWX, 0)
  BY <1>3, Tables DEF Identity
<1>6. 2 \in DOMAIN d.table /\ d.table[2] = Pte(RamPage, FRWX, 0)
  BY <1>4, Tables DEF Identity
<1> QED
  BY <1>1, <1>1a, <1>2, <1>3, <1>4, <1>5, <1>6 DEF Shows

(* Without translation they end in an access fault.                        *)
LEMMA NoTranslation ==
    ASSUME NEW m, m.ramPage = RamPage, "Sv39" \notin m.ext, NEW c, Shows(m, c), c.expect \in {0, 1, 13},
           NEW bug
    PROVE  VmemSees(m, bug)
<1>1. \A has : VmemTrap(c, c.addr, m, has, bug) = 5
  BY DEF VmemTrap, Shows, DataAddr, DataVa, RamPage
<1> QED
  BY <1>1 DEF VmemSees, Shows

(* A walk ends in no fault, or in one of those of the access.              *)
LEMMA WalkAnswers ==
    ASSUME NEW c, NEW page, NEW has, NEW bug
    PROVE  /\ Walk(c, page, "Fetch", RamPage, has, bug) \in {0, 1, 12}
           /\ Walk(c, page, "Load", RamPage, has, bug) \in {0, 5, 13}
<1>1. ASSUME NEW p, NEW level
      PROVE  /\ Lands(p, level, page, "Fetch", c.bits, RamPage, has, bug) \in {0, 1, 12}
             /\ Lands(p, level, page, "Load", c.bits, RamPage, has, bug) \in {0, 5, 13}
  BY FaultCauses DEF Lands
<1> QED
  BY <1>1, FaultCauses DEF Walk

(* What a case ends in, once it is translated.                             *)
LEMMA Translated ==
    ASSUME NEW m, m.ramPage = RamPage, "Sv39" \in m.ext, NEW c, Shows(m, c), c.access = "Load",
           NEW has, NEW bug
    PROVE  VmemTrap(c, c.addr, m, has, bug)
             \in {1, 12, Walk(c, DataAddr, "Load", RamPage, has, bug)}
BY WalkAnswers DEF VmemTrap, Shows

(* Supervisor access to a user page.                                       *)
LEMMA SumSeen == ASSUME NEW m, m.ramPage = RamPage, "Sv39" \in m.ext PROVE VmemSees(m, "sum_ignored")
<1> DEFINE p == Pte(RamPage, FRWX \cup {"U"}, 0)
<1>1. PICK c : /\ Shows(m, c) /\ c.expect = 13 /\ c.access = "Load" /\ c.bits = {}
               /\ c.deny = "none" /\ 1 \in DOMAIN c.table /\ c.table[1] = p
  BY Showing
<1>2. /\ p.flags = FRWX \cup {"U"} /\ p.ppn = RamPage /\ p.ext = 0
      /\ "R" \in p.flags /\ "V" \in p.flags /\ "A" \in p.flags
  BY DEF Pte, FRWX
<1> HIDE DEF p
<1>3. ASSUME NEW has PROVE Lands(p, 2, DataAddr, "Load", {}, RamPage, has, "sum_ignored") = 0
  <2>1. ~PteInvalid(p, "sum_ignored") /\ p.flags \cap {"R", "W", "X"} # {}
    BY <1>2 DEF PteInvalid
  <2>2. Permitted(p, "Load", {}, "sum_ignored")
    BY <1>2, Zenon DEF Permitted
  <2>3. p.ppn % Span(2) = 0 /\ ~(p.ppn + (DataAddr % Span(2)) < RamPage)
    BY <1>2, Pages
  <2>4. ~LeafFaults(p, 2, "Load", {}, has, "sum_ignored")
    BY <1>2, <2>2, <2>3 DEF LeafFaults
  <2> QED
    BY <2>1, <2>3, <2>4 DEF Lands
<1>4. ASSUME NEW has PROVE Walk(c, DataAddr, "Load", RamPage, has, "sum_ignored") = 0
  BY <1>1, <1>2, <1>3, DataWalk DEF Shows
<1> QED
  BY <1>1, <1>4, Translated DEF VmemSees, Shows

(* A load from a page that is executable, under mxr.                       *)
LEMMA MxrSeen == ASSUME NEW m, m.ramPage = RamPage, "Sv39" \in m.ext PROVE VmemSees(m, "mxr_ignored")
<1> DEFINE p == Pte(RamPage, FXO, 0)
<1>1. PICK c : /\ Shows(m, c) /\ c.expect = 0 /\ c.access = "Load" /\ c.bits = {"mxr"}
               /\ c.deny = "none" /\ 1 \in DOMAIN c.table /\ c.table[1] = p
  BY Showing
<1>2. "R" \notin p.flags /\ "X" \in p.flags
  BY DEF Pte, FXO
<1> HIDE DEF p
<1>3. ASSUME NEW has PROVE Lands(p, 2, DataAddr, "Load", {"mxr"}, RamPage, has, "mxr_ignored") = 13
  <2>1. ~Permitted(p, "Load", {"mxr"}, "mxr_ignored")
    BY <1>2, Zenon DEF Permitted
  <2> QED
    BY <2>1, FaultCauses DEF Lands, LeafFaults
<1>4. ASSUME NEW has PROVE Walk(c, DataAddr, "Load", RamPage, has, "mxr_ignored") = 13
  BY <1>1, <1>2, <1>3, DataWalk DEF Shows
<1> QED
  BY <1>1, <1>4, Translated DEF VmemSees, Shows

(* A superpage that is not aligned.                                        *)
LEMMA MisalignedSeen ==
    ASSUME NEW m, m.ramPage = RamPage, "Sv39" \in m.ext PROVE VmemSees(m, "misaligned_ok")
<1> DEFINE p == Pte(RamPage + 1, FRWX, 0)
<1>1. PICK c : /\ Shows(m, c) /\ c.expect = 13 /\ c.access = "Load" /\ c.bits = {}
               /\ c.deny = "none" /\ 1 \in DOMAIN c.table /\ c.table[1] = p
  BY ShowingWalks
<1>2. /\ p.ppn = RamPage + 1 /\ p.ext = 0 /\ "U" \notin p.flags
      /\ "R" \in p.flags /\ "V" \in p.flags /\ "A" \in p.flags
  BY DEF Pte, FRWX
<1> HIDE DEF p
<1>3. ASSUME NEW has PROVE Lands(p, 2, DataAddr, "Load", {}, RamPage, has, "misaligned_ok") = 0
  <2>1. ~PteInvalid(p, "misaligned_ok") /\ p.flags \cap {"R", "W", "X"} # {}
    BY <1>2 DEF PteInvalid
  <2>2. Permitted(p, "Load", {}, "misaligned_ok")
    BY <1>2, Zenon DEF Permitted
  <2>3. ~(p.ppn + (DataAddr % Span(2)) < RamPage)
    BY <1>2, Pages
  <2>4. ~LeafFaults(p, 2, "Load", {}, has, "misaligned_ok")
    BY <1>2, <2>2 DEF LeafFaults
  <2> QED
    BY <2>1, <2>3, <2>4 DEF Lands
<1>4. ASSUME NEW has PROVE Walk(c, DataAddr, "Load", RamPage, has, "misaligned_ok") = 0
  BY <1>1, <1>2, <1>3, DataWalk DEF Shows
<1> QED
  BY <1>1, <1>4, Translated DEF VmemSees, Shows

(* A table that PMP denies: the fetch of the code faults on the walk, with *)
(* an access fault.  Where the walk is not checked the code is fetched or  *)
(* not mapped, and the data is a load.                                     *)
LEMMA DeniedSeen ==
    ASSUME NEW m, m.ramPage = RamPage, "Sv39" \in m.ext,
           NEW bug \in {"walk_skips_pmp", "denied_walk_page_faults"}
    PROVE  VmemSees(m, bug)
<1> DEFINE p == Pte(RamPage, FRWX, 0)
<1>1. PICK c : /\ Shows(m, c) /\ c.expect = 1 /\ c.access = "Load" /\ c.deny = "root"
               /\ 2 \in DOMAIN c.table /\ c.table[2] = p
  BY ShowingWalks
<1>2. p.ppn = RamPage /\ "R" \in p.flags
  BY DEF Pte, FRWX
<1> HIDE DEF p
<1>3. ASSUME NEW has PROVE Walk(c, RamPage, "Fetch", RamPage, has, bug) \in {0, 12}
  <2>1. CASE bug = "walk_skips_pmp"
    <3>1. WalkLevels(c.mode) = 2 /\ RootPte(c, RamPage) = p
      BY <1>1, Pages, Sv39Levels DEF RootPte, At, Shows
    <3>2. ~Descends(c, RamPage, bug)
      BY <1>2, <3>1 DEF Descends
    <3>3. ~(p.ppn + (RamPage % Span(2)) < RamPage)
      BY <1>2, Pages
    <3>4. Lands(p, 2, RamPage, "Fetch", c.bits, RamPage, has, bug) \in {0, 12}
      BY <3>3, FaultCauses DEF Lands
    <3> QED
      BY <2>1, <3>1, <3>2, <3>4 DEF Walk
  <2>2. CASE bug = "denied_walk_page_faults"
    BY <1>1, <2>2, FaultCauses DEF Walk, WalkDenied
  <2> QED
    BY <2>1, <2>2
<1>4. ASSUME NEW has PROVE VmemTrap(c, c.addr, m, has, bug) # 1
  BY <1>1, <1>3, WalkAnswers DEF VmemTrap, Shows
<1> QED
  BY <1>1, <1>4 DEF VmemSees, Shows

(* Each deviation of translation is seen.                                  *)
LEMMA WalksSeen ==
    ASSUME NEW m, m.ramPage = RamPage, NEW bug \in Aimed["vmem"] PROVE VmemSees(m, bug)
<1>1. CASE "Sv39" \notin m.ext
  BY <1>1, Showing, NoTranslation
<1>2. CASE "Sv39" \in m.ext
  BY <1>2, AimedAt, SumSeen, MxrSeen, MisalignedSeen, DeniedSeen
<1> QED
  BY <1>1, <1>2

(***************************************************************************)
(* Scenarios: one whose verdict a deviation turns.                         *)
(***************************************************************************)
ScenarioEnds(c, xlen, bug) ==
    IF bug = "handler_ignores_cause"
    THEN (ScenarioTrap(c, RunConfig(c), xlen, bug) # 0) = (c.expect # 0)
    ELSE ScenarioTrap(c, RunConfig(c), xlen, bug) = c.expect
Turned(c, bug) ==
    /\ c \in Range(Scenarios)
    /\ c.pma = "stock" /\ c.insn # "lw_ram"
    /\ \A xlen : \/ c.passes = TRUE /\ ~ScenarioEnds(c, xlen, bug)
                 \/ c.passes = FALSE /\ ScenarioEnds(c, xlen, bug)

(* A scenario of a group is one of the program's.                          *)
LEMMA ScenarioLists ==
    Range(Scenarios) = Range(Privilege) \cup Range(Protection) \cup Range(Delivery)
                       \cup Range(Paging) \cup Range(Attributes)
<1>1. IsList(Delivery) /\ IsList(Paging) /\ IsList(Attributes) /\ IsList(Privilege) /\ IsList(Protection)
  BY WrittenOut, Zenon DEF Delivery, Paging, Attributes, Privilege, Protection
<1> QED
  BY <1>1, Joined DEF Scenarios

(* Each deviation turns the verdict of one, at either XLEN, that a 32-bit  *)
(* run does not skip unless the deviation is of the translation.           *)
LEMMA ScenariosSeen ==
    ASSUME NEW bug \in Aimed["scenario64"]
    PROVE  \E c : Turned(c, bug) /\ ("sv39" \in c.flags => bug = "satp_ignored")
<1> USE DEF Turned, ScenarioEnds, ScenarioTrap, RunConfig
<1>1. CASE bug = "pmp_default_allows"
  <2> DEFINE c == Control("m0_NEG_mret_to_user_no_pmp", "xret", {"pp_u"}, 0)
  <2>1. 9 \in DOMAIN Privilege /\ Privilege[9] = c
    BY DEF Privilege
  <2>2. c \in Range(Scenarios)
    BY <2>1, ScenarioLists DEF Range
  <2>3. /\ c.insn = "xret" /\ c.flags = {"pp_u"} /\ c.expect = 0 /\ c.passes = FALSE
        /\ c.pma = "stock"
    BY DEF Control, Scenario
  <2> HIDE DEF c
  <2> QED
    BY <1>1, <2>2, <2>3
<1>2. CASE bug = "xret_keeps_privilege"
  <2> DEFINE c == Control("m0_NEG_mret_to_user_no_pmp", "xret", {"pp_u"}, 0)
  <2>1. 9 \in DOMAIN Privilege /\ Privilege[9] = c
    BY DEF Privilege
  <2>2. c \in Range(Scenarios)
    BY <2>1, ScenarioLists DEF Range
  <2>3. /\ c.insn = "xret" /\ c.flags = {"pp_u"} /\ c.expect = 0 /\ c.passes = FALSE
        /\ c.pma = "stock"
    BY DEF Control, Scenario
  <2> HIDE DEF c
  <2> QED
    BY <1>2, <2>2, <2>3
<1>3. CASE bug = "interrupts_lost"
  <2> DEFINE c == Good("m5_interrupt_delivered", "wfi", {"deliver"}, 3)
  <2>1. 1 \in DOMAIN Delivery /\ Delivery[1] = c
    BY DEF Delivery
  <2>2. c \in Range(Scenarios)
    BY <2>1, ScenarioLists DEF Range
  <2>3. /\ c.insn = "wfi" /\ c.flags = {"deliver"} /\ c.expect = 3 /\ c.passes = TRUE
        /\ c.pma = "stock"
    BY DEF Good, Scenario
  <2> HIDE DEF c
  <2> QED
    BY <1>3, <2>2, <2>3
<1>4. CASE bug = "handler_ignores_cause"
  <2> DEFINE c == Control("m5_NEG_interrupt_wrong_cause", "wfi", {"deliver"}, 7)
  <2>1. 3 \in DOMAIN Delivery /\ Delivery[3] = c
    BY DEF Delivery
  <2>2. c \in Range(Scenarios)
    BY <2>1, ScenarioLists DEF Range
  <2>3. /\ c.insn = "wfi" /\ c.flags = {"deliver"} /\ c.expect = 7 /\ c.passes = FALSE
        /\ c.pma = "stock"
    BY DEF Control, Scenario
  <2> HIDE DEF c
  <2> QED
    BY <1>4, <2>2, <2>3
<1>5. CASE bug = "satp_ignored"
  <2> DEFINE c == Good("m3_sv39_page_fault", "lw_hole", {"supervisor", "pmp_allow", "sv39"}, 13)
  <2>1. 3 \in DOMAIN Paging /\ Paging[3] = c
    BY DEF Paging
  <2>2. c \in Range(Scenarios)
    BY <2>1, ScenarioLists DEF Range
  <2>3. /\ c.insn = "lw_hole" /\ c.flags = {"supervisor", "pmp_allow", "sv39"} /\ c.expect = 13
        /\ c.passes = TRUE /\ c.pma = "stock"
    BY DEF Good, Scenario
  <2> HIDE DEF c
  <2> QED
    BY <1>5, <2>2, <2>3
<1> QED
  BY <1>1, <1>2, <1>3, <1>4, <1>5, AimedAt

(***************************************************************************)
(* PMP: a case that a deviation ends otherwise.                            *)
(***************************************************************************)
PmpSees(m, bug) == \E c \in Range(PmpCorpus(m)) :
    /\ Arrives(c) /\ Needs(c.access) = NoExtension
    /\ \A grain, has : PmpTrap(c, c.addr, Insn(c), grain, has, bug) # c.expect

(* A machine that the cases fit, whatever its granularity.                 *)
Placed(m) == /\ m.grain \in Nat /\ m.ram \in Nat /\ m.ram % 4096 = 0
             /\ PmpTop(m) <= WordSize - 2049 /\ PmpTop(m) <= 8 * 2 ^ PmpAddrBits

(* The base of its cases is a page, and their entry is the one after.      *)
LEMMA PlacedIs ==
    ASSUME NEW m, Placed(m)
    PROVE  /\ Base(m) \in Nat /\ Base(m) % 4096 = 0 /\ Base(m) + 131072 <= WordSize - 2049
           /\ WordSize \in Nat
           /\ NapotRange(PageAt(m)) = <<Base(m) + 4096, Base(m) + 8192>>
<1> DEFINE n == [ram |-> m.ram, grain |-> m.grain, tor |-> FALSE]
<1>1. n.ram = m.ram /\ n.grain = m.grain /\ n.tor = FALSE
  OBVIOUS
<1> HIDE DEF n
<1>2. PmpTop(n) = PmpTop(m) /\ Base(n) = Base(m) /\ PageAt(n) = PageAt(m)
  BY <1>1 DEF PmpTop, Base, PageAt
<1>3. PmpMachine(n)
  BY <1>1, <1>2 DEF PmpMachine, Placed
<1> QED
  BY <1>2, <1>3, BaseIs, PageIs

(* What the entry of the page answers, on a hart that may deviate.         *)
AnswerWith(c, kind, perms, locked, bug) ==
    IF \/ NeedsOf(kind) \subseteq Held(perms)
       \/ c.priv = "M" /\ ~(locked /\ bug # "lock_ignored") /\ bug # "unlocked_binds"
       \/ bug = "writes_unchecked" /\ kind \in {"Store", "SC", "AMO"}
    THEN 0 ELSE FaultCause(kind)
OnPage(m, c, perms, locked, kind, expect) ==
    /\ Placed(m) /\ perms \in SUBSET RWX /\ locked \in BOOLEAN
    /\ kind \in Emitters /\ Needs(kind) = NoExtension /\ c.opcode \in Opcodes
    /\ \E x : /\ InPage(m, x)
              /\ OneEntry(c, PageAt(m), CfgByte("NAPOT", perms, locked), kind, x, expect, "Match")
MeetsEntry(c, perms, locked, kind, expect) ==
    /\ Arrives(c) /\ c.access = kind /\ c.expect = expect
    /\ \A grain, has, bug :
          PmpTrap(c, c.addr, Insn(c), grain, has, bug) = AnswerWith(c, kind, perms, locked, bug)

(* An access to the page meets its entry first, on every hart.             *)
LEMMA PageDecides ==
    ASSUME NEW m, NEW c, NEW perms, NEW locked, NEW kind, NEW expect,
           OnPage(m, c, perms, locked, kind, expect)
    PROVE  MeetsEntry(c, perms, locked, kind, expect)
<1>0. /\ Placed(m) /\ perms \in SUBSET RWX /\ locked \in BOOLEAN
      /\ kind \in Emitters /\ Needs(kind) = NoExtension /\ c.opcode \in Opcodes
  BY DEF OnPage
<1> PICK x : /\ InPage(m, x)
             /\ OneEntry(c, PageAt(m), CfgByte("NAPOT", perms, locked), kind, x, expect, "Match")
  BY DEF OnPage
<1> SUFFICES ASSUME NEW grain, NEW has, NEW bug
             PROVE  /\ Arrives(c) /\ c.access = kind /\ c.expect = expect
                    /\ PmpTrap(c, c.addr, Insn(c), grain, has, bug)
                          = AnswerWith(c, kind, perms, locked, bug)
  BY DEF MeetsEntry
<1> DEFINE b == CfgByte("NAPOT", perms, locked)
           at == x + Insn(c).disp
           width == Insn(c).width
           begin == Base(m) + 4096
           end == Base(m) + 8192
<1>1. EntryMode(b) = "NAPOT" /\ Perms(b) = Held(perms) /\ (Locked(b, "none") <=> locked)
  BY <1>0, ByteRead DEF ModeNames
<1>2. Locked(b, bug) <=> locked /\ bug # "lock_ignored"
  BY <1>1 DEF Locked
<1> HIDE DEF b
<1>3. /\ c.pmpaddr = <<PageAt(m), Everything>> /\ c.pmpcfg = <<b, PermitAll>> /\ c.access = kind
      /\ c.addr = x /\ c.expect = expect
  BY DEF OneEntry, b
<1>4. c.pmpaddr[1] = PageAt(m) /\ c.pmpcfg[1] = b /\ Len(c.pmpaddr) = 2
  BY <1>3
<1>5. EntryRange(c.pmpaddr, c.pmpcfg, 1, grain, bug) = <<begin, end>>
  <2>1. EntryRange(c.pmpaddr, c.pmpcfg, 1, grain, bug) = NapotRange(c.pmpaddr[1])
    BY <1>1, <1>4, Zenon DEF EntryRange
  <2> QED
    BY <1>0, <1>4, <2>1, PlacedIs
<1>6. width \in {1, 4, 8} /\ Insn(c).disp \in {0, 1, 4}
  BY <1>0, <1>3, WidthBounds, Zenon
<1>7. Base(m) \in Nat /\ Base(m) + 131072 <= WordSize - 2049 /\ WordSize \in Nat
  BY <1>0, PlacedIs
<1>8. x \in Nat /\ x <= Base(m) + 8000 /\ Base(m) + 4096 <= x
  BY <1>7 DEF InPage
<1>9. /\ begin <= at /\ at + width <= end /\ begin < end /\ width > 0
      /\ begin \in Nat /\ end \in Nat /\ at \in Nat /\ width \in Nat
  BY <1>6, <1>7, <1>8
<1> HIDE DEF at, width, begin, end
<1>10. RangeMatch(<<begin, end>>, at, width) = "Match"
  BY <1>9 DEF RangeMatch
<1>11. MatchAt(c, 1, at, width, grain, bug) = "Match"
  BY <1>5, <1>10 DEF MatchAt
<1>12. PmpAllows(c, at, width, kind, grain, bug) <=>
          \/ NeedsOf(kind) \subseteq Perms(b)
          \/ c.priv = "M" /\ ~Locked(b, bug) /\ bug # "unlocked_binds"
          \/ bug = "writes_unchecked" /\ kind \in {"Store", "SC", "AMO"}
  <2>1. 1 \in 1 .. Len(c.pmpaddr) /\ Len(c.pmpaddr) \in Nat /\ \A j \in 1 .. Len(c.pmpaddr) : ~(j < 1)
    BY <1>4
  <2> QED
    BY <1>4, <1>11, <2>1, FirstEntry
<1>13. PmpTrap(c, c.addr, Insn(c), grain, has, bug)
         = IF PmpAllows(c, at, width, kind, grain, bug) THEN 0 ELSE FaultCause(kind)
  BY <1>0, <1>3, TrapIs DEF at, width
<1>14. Arrives(c)
  BY <1>3, <1>7, <1>8 DEF Arrives
<1> QED
  BY <1>1, <1>2, <1>3, <1>12, <1>13, <1>14 DEF AnswerWith

(* What a load needs of the machine, and a store.                          *)
LEMMA PlainNeeds ==
    /\ Needs("Load") = NoExtension /\ Needs("LR") = NoExtension /\ Needs("Store") = NoExtension
    /\ FaultCause("Load") = 5 /\ FaultCause("LR") = 5 /\ FaultCause("Store") = 7
    /\ {"Load", "LR", "Store"} \subseteq Emitters
    /\ ~(NeedsOf("Load") \subseteq Held({})) /\ ~(NeedsOf("Store") \subseteq Held({}))
BY ArmNeeds DEF Needs, FaultCause, Emitters, Held

(* The first two cases of the override.                                    *)
LEMMA Overriding ==
    ASSUME NEW m, NEW locked \in BOOLEAN
    PROVE  \E c \in Range(PmpCorpus(m)) :
              /\ OneEntry(c, PageAt(m), CfgByte("NAPOT", {}, locked), "Load", Base(m) + 4096 + 8,
                          IF locked THEN 5 ELSE 0, "Match")
              /\ c.priv = "M" /\ c.opcode = "default"
<1> DEFINE W(lock, priv) ==
             WithPriv(Case(<<IF lock THEN "locked" ELSE "unlocked", priv>>, Page(m),
                           <<CfgByte("NAPOT", {}, lock)>>, "Load", Base(m) + 4096 + 8,
                           IF ~lock /\ priv = "M" THEN Allow ELSE 5, "Match"), priv)
           one == W(TRUE, "M")
           two == W(FALSE, "M")
           three == W(TRUE, "S")
           four == W(FALSE, "S")
<1>1. OverrideCases(m) = <<one, two, three, four>>
  BY Zenon DEF OverrideCases, WithPriv
<1>2. one \in Range(OverrideCases(m)) /\ two \in Range(OverrideCases(m))
  <2> HIDE DEF one, two, three, four
  <2> QED
    BY <1>1 DEF Range
<1>3. Page(m) = <<PageAt(m)>> /\ Allow = 0
  BY DEF Page, PageAt, Allow
<1> DEFINE x == Base(m) + 4096 + 8
           Is(c, id, lock, expect) ==
             c = WithPriv(Case(id, <<PageAt(m)>>, <<CfgByte("NAPOT", {}, lock)>>, "Load", x,
                               expect, "Match"), "M")
<1>4. Is(one, <<"locked", "M">>, TRUE, 5) /\ Is(two, <<"unlocked", "M">>, FALSE, 0)
  BY <1>3
<1> HIDE DEF x, one, two
<1>5. ASSUME NEW c, NEW id, NEW lock, NEW expect, Is(c, id, lock, expect)
      PROVE  /\ OneEntry(c, PageAt(m), CfgByte("NAPOT", {}, lock), "Load", x, expect, "Match")
             /\ c.priv = "M" /\ c.opcode = "default"
  BY <1>5, CaseWithPriv
<1> HIDE DEF Is
<1>6. one \in Range(PmpCorpus(m)) /\ two \in Range(PmpCorpus(m))
  BY <1>2, PmpSplit
<1>7. CASE locked = TRUE
  <2>1. /\ OneEntry(one, PageAt(m), CfgByte("NAPOT", {}, TRUE), "Load", x, 5, "Match")
        /\ one.priv = "M" /\ one.opcode = "default"
    BY <1>4, <1>5
  <2>2. (IF locked THEN 5 ELSE 0) = 5
    BY <1>7
  <2>3. OneEntry(one, PageAt(m), CfgByte("NAPOT", {}, locked), "Load", x, IF locked THEN 5 ELSE 0, "Match")
    BY <1>7, <2>1, <2>2, Zenon
  <2>4. \E c \in Range(PmpCorpus(m)) :
           /\ OneEntry(c, PageAt(m), CfgByte("NAPOT", {}, locked), "Load", x,
                       IF locked THEN 5 ELSE 0, "Match")
           /\ c.priv = "M" /\ c.opcode = "default"
    BY <1>6, <2>1, <2>3, Zenon
  <2> QED
    BY <2>4, Zenon DEF x
<1>8. CASE locked = FALSE
  <2>1. /\ OneEntry(two, PageAt(m), CfgByte("NAPOT", {}, FALSE), "Load", x, 0, "Match")
        /\ two.priv = "M" /\ two.opcode = "default"
    BY <1>4, <1>5
  <2>2. (IF locked THEN 5 ELSE 0) = 0
    BY <1>8
  <2>3. OneEntry(two, PageAt(m), CfgByte("NAPOT", {}, locked), "Load", x, IF locked THEN 5 ELSE 0, "Match")
    BY <1>8, <2>1, <2>2, Zenon
  <2>4. \E c \in Range(PmpCorpus(m)) :
           /\ OneEntry(c, PageAt(m), CfgByte("NAPOT", {}, locked), "Load", x,
                       IF locked THEN 5 ELSE 0, "Match")
           /\ c.priv = "M" /\ c.opcode = "default"
    BY <1>6, <2>1, <2>3, Zenon
  <2> QED
    BY <2>4, Zenon DEF x
<1> QED
  BY <1>7, <1>8

(* A hart that ignores the lock loads from a locked page in M; one on      *)
(* which every entry binds does not load from an unlocked one.             *)
LEMMA LocksSeen ==
    ASSUME NEW m, Placed(m), NEW bug \in {"lock_ignored", "unlocked_binds"} PROVE PmpSees(m, bug)
<1> DEFINE locked == bug = "lock_ignored"
           x == Base(m) + 4096 + 8
           expect == IF locked THEN 5 ELSE 0
<1>0. locked \in BOOLEAN /\ (locked <=> bug = "lock_ignored") /\ (~locked => bug = "unlocked_binds")
  OBVIOUS
<1> HIDE DEF locked
<1>1. PICK c \in Range(PmpCorpus(m)) :
         /\ OneEntry(c, PageAt(m), CfgByte("NAPOT", {}, locked), "Load", x, expect, "Match")
         /\ c.priv = "M" /\ c.opcode = "default"
  BY <1>0, Overriding
<1>2. InPage(m, x)
  BY PlacedIs DEF InPage
<1>3. c.opcode \in Opcodes /\ {} \in SUBSET RWX /\ locked \in BOOLEAN
  BY <1>0, <1>1 DEF Opcodes
<1> HIDE DEF x, expect
<1>4. MeetsEntry(c, {}, locked, "Load", expect)
  <2>1. OnPage(m, c, {}, locked, "Load", expect)
    BY <1>1, <1>2, <1>3, PlainNeeds DEF OnPage
  <2> QED
    BY <2>1, PageDecides
<1>5. ASSUME NEW grain, NEW has
      PROVE  PmpTrap(c, c.addr, Insn(c), grain, has, bug) # c.expect
  BY <1>0, <1>1, <1>4, PlainNeeds DEF expect, AnswerWith, MeetsEntry
<1> QED
  BY <1>4, <1>5, PlainNeeds DEF PmpSees, MeetsEntry

(* The arm of a store has an emitter on every machine.                     *)
LEMMA StoresEmitted ==
    ASSUME NEW m PROVE \E arm \in Range(Emitted(m)) : arm.kind = "Store"
<1> DEFINE I == {i \in DOMAIN Arms : ~Arms[i].nested}
           J == {i \in DOMAIN AccessArms :
                   /\ AccessArms[i].kind \in Emitters
                   /\ Needs(AccessArms[i].kind) \in m.ext \cup {NoExtension}}
<1>1. IsList(Arms)
  BY WrittenOut, Zenon DEF Arms
<1>2. IsList(AccessArms) /\ Range(AccessArms) = {Arms[i] : i \in I}
  BY <1>1, ThoseAsked DEF AccessArms
<1>3. Range(Emitted(m)) = {AccessArms[j] : j \in J}
  BY <1>2, ThoseAsked DEF Emitted, EmittedOf
<1>4. 3 \in I /\ Arms[3].kind = "Store"
  BY DEF Arms
<1>5. PICK j \in DOMAIN AccessArms : AccessArms[j] = Arms[3]
  BY <1>2, <1>4 DEF Range
<1>6. j \in J
  BY <1>4, <1>5, PlainNeeds
<1> QED
  BY <1>3, <1>4, <1>5, <1>6

(* A hart that does not check stores stores to a page that denies it.      *)
LEMMA StoresSeen == ASSUME NEW m, Placed(m) PROVE PmpSees(m, "writes_unchecked")
<1>1. PICK arm \in Range(Emitted(m)) : arm.kind = "Store"
  BY StoresEmitted
<1> DEFINE c == ArmCase(m, arm, FALSE)
           x == Base(m) + 4096 + 16
           b == CfgByte("NAPOT", {}, TRUE)
<1>2. c \in Range(PmpCorpus(m))
  BY <1>1, PermissionCasesAre, PmpSplit
<1>3. c = Case(<<"Store", "denied">>, <<PageAt(m)>>, <<b>>, "Store", x, 7, "Match")
  BY <1>1, PlainNeeds DEF ArmCase, Page, PageAt
<1>4. InPage(m, x)
  BY PlacedIs DEF InPage
<1> HIDE DEF c, x, b
<1>5. OneEntry(c, PageAt(m), b, "Store", x, 7, "Match") /\ c.opcode = "default"
  BY <1>3, CaseOfOne
<1>6. c.opcode \in Opcodes /\ {} \in SUBSET RWX /\ TRUE \in BOOLEAN
  BY <1>5 DEF Opcodes
<1>7. MeetsEntry(c, {}, TRUE, "Store", 7)
  <2>1. OnPage(m, c, {}, TRUE, "Store", 7)
    BY <1>4, <1>5, <1>6, PlainNeeds DEF OnPage, b
  <2> QED
    BY <2>1, PageDecides
<1> QED
  BY <1>2, <1>7, PlainNeeds DEF PmpSees, MeetsEntry, AnswerWith

(* Entries that grant everything, or nothing at all, let machine mode      *)
(* through where a part of a match counts as one.                          *)
LEMMA PartsAllow ==
    ASSUME NEW c, NEW n \in 1 .. 3, Len(c.pmpaddr) = n, c.priv = "M",
           \A i \in 1 .. n : Perms(c.pmpcfg[i]) = RWX, NEW addr, NEW width, NEW grain
    PROVE  PmpAllows(c, addr, width, "LR", grain, "partial_matches")
<1> DEFINE bug == "partial_matches"
           hit == Hits(c, addr, width, grain, bug)
<1>3. \A i : MatchAt(c, i, addr, width, grain, bug) \in {"NoMatch", "Match"}
  BY ThreeAnswers DEF MatchAt
<1>6. NeedsOf("LR") \subseteq RWX
  BY ArmNeeds DEF RWX
<1>7. ASSUME NEW i \in 1 .. n PROVE NeedsOf("LR") \subseteq Perms(c.pmpcfg[i])
  BY <1>6
<1>7a. hit \subseteq 1 .. n
  BY DEF Hits
<1>8. hit \subseteq 1 .. 3 /\ \A i \in hit : MatchAt(c, i, addr, width, grain, bug) = "Match"
  BY <1>3, <1>7a DEF Hits
<1>9. CASE hit = {}
  BY <1>9 DEF PmpAllows
<1>10. CASE hit # {}
  <2> HIDE DEF hit
  <2>1. \E x1 \in hit : \A y \in hit : x1 <= y
    <3>1. CASE 1 \in hit
      BY <1>8, <3>1
    <3>2. CASE 1 \notin hit /\ 2 \in hit
      BY <1>8, <3>2
    <3>3. CASE 1 \notin hit /\ 2 \notin hit
      <4>1. \A y \in hit : y = 3
        BY <1>8, <3>3
      <4> QED
        BY <1>10, <4>1
    <3> QED
      BY <3>1, <3>2, <3>3
  <2>2. Least(hit) \in hit
    BY <2>1, Zenon DEF Least
  <2>3. MatchAt(c, Least(hit), addr, width, grain, bug) = "Match" /\ Least(hit) \in 1 .. n
    BY <1>7a, <1>8, <2>2
  <2> QED
    BY <1>7, <1>10, <2>3 DEF PmpAllows, hit
<1> QED
  BY <1>9, <1>10

(* The permissions of a case that straddles a bound.                       *)
LEMMA PartsGrant ==
    ASSUME NEW mode \in {"TOR", "NA4"} PROVE Perms(RwxByte(mode)) = RWX /\ Perms(PermitAll) = RWX
<1>1. "NAPOT" \in ModeNames /\ mode \in ModeNames /\ RWX \in SUBSET RWX /\ FALSE \in BOOLEAN
      /\ Held(RWX) = RWX
  BY DEF ModeNames, Held, RWX
<1> QED
  BY <1>1, ByteRead DEF RwxByte, PermitAll

(* The case that straddles the lower bound of a TOR region: a load that is *)
(* half in it faults, unless that half counts.                             *)
LEMMA PartsSeen ==
    ASSUME NEW m, Placed(m), Selectable("TOR", m) PROVE PmpSees(m, "partial_matches")
<1> DEFINE r == Region("TOR", m)
           p == "straddle_low"
           base == Base(m)
           a1 == (base + 4) \div 4
           a2 == ((base + 4) + 8) \div 4
           c == PositionCase("TOR", m, p)
<1>1. base \in Nat /\ base % 4096 = 0 /\ base + 131072 <= WordSize - 2049 /\ WordSize \in Nat
  BY PlacedIs
<1>1a. base % 8 = 0
  BY <1>1
<1>2. r.begin = base + 4 /\ r.addrs = <<a1, a2>>
  BY Regions
<1>3. Place(p, r) = base
  <2> HIDE DEF r
  <2> QED
    BY <1>1, <1>1a, <1>2, PlacesAround
<1>4. /\ p \in Range(Positions) /\ Outcome(p) = "PartialMatch" /\ Width(p) = 8
      /\ Accessed(p) = "LR" /\ Expected(p) = 5
  BY PositionNames DEF Accessed, Expected
<1>5. Straddles(p, r)
  BY <1>1, <1>2, <1>3, <1>4 DEF Straddles
<1>6. c \in Range(PmpCorpus(m))
  <2>1. c \in Range(PositionCases("TOR", m))
    BY <1>4, <1>5, PositionCasesAre
  <2> QED
    BY <2>1, PmpSplit
<1>7. c.priv = "M"
  BY Zenon DEF PositionCase, Case
<1> HIDE DEF c, r, a1, a2
<1>8. /\ TwoEntries(c, a1, a2, RwxByte("TOR"), RwxByte("TOR"), "LR", base, 5, "PartialMatch")
      /\ c.opcode = "default"
  BY <1>2, <1>3, <1>4, TwoPositionsIs DEF c, r
<1>9. c.access = "LR" /\ c.addr = base /\ c.expect = 5
  BY <1>8 DEF TwoEntries
<1>10. ASSUME NEW grain, NEW has
       PROVE  PmpTrap(c, c.addr, Insn(c), grain, has, "partial_matches") = 0
  <2>1. Len(c.pmpaddr) = 3 /\ \A i \in 1 .. 3 : Perms(c.pmpcfg[i]) = RWX
    BY <1>8, PartsGrant DEF TwoEntries
  <2> QED
    BY <1>7, <1>9, <2>1, PartsAllow, TrapIs, PlainNeeds
<1>11. Arrives(c)
  BY <1>1, <1>9 DEF Arrives
<1> QED
  BY <1>6, <1>9, <1>10, <1>11, PlainNeeds DEF PmpSees

(* The case that straddles the lower bound of an NA4 region: a load that is *)
(* half in it faults, unless that half counts.                             *)
LEMMA PartsSeenByFour ==
    ASSUME NEW m, Placed(m), Selectable("NA4", m) PROVE PmpSees(m, "partial_matches")
<1> DEFINE r == Region("NA4", m)
           p == "straddle_low"
           base == Base(m)
           a1 == (base + 4) \div 4
           c == PositionCase("NA4", m, p)
<1>1. base \in Nat /\ base % 4096 = 0 /\ base + 131072 <= WordSize - 2049 /\ WordSize \in Nat
  BY PlacedIs
<1>1a. base % 8 = 0
  BY <1>1
<1>2. r.begin = base + 4 /\ r.addrs = <<a1>>
  BY Regions
<1>3. Place(p, r) = base
  <2> HIDE DEF r
  <2> QED
    BY <1>1, <1>1a, <1>2, PlacesAround
<1>4. /\ p \in Range(Positions) /\ Outcome(p) = "PartialMatch" /\ Width(p) = 8
      /\ Accessed(p) = "LR" /\ Expected(p) = 5
  BY PositionNames DEF Accessed, Expected
<1>5. Straddles(p, r)
  BY <1>1, <1>2, <1>3, <1>4 DEF Straddles
<1>6. c \in Range(PmpCorpus(m))
  <2>1. c \in Range(PositionCases("NA4", m))
    BY <1>4, <1>5, PositionCasesAre
  <2> QED
    BY <2>1, PmpSplit
<1>7. c.priv = "M"
  BY Zenon DEF PositionCase, Case
<1> HIDE DEF c, r, a1
<1>8. /\ OneEntry(c, a1, RwxByte("NA4"), "LR", base, 5, "PartialMatch")
      /\ c.opcode = "default"
  BY <1>2, <1>3, <1>4, OnePositionIs DEF c, r
<1>9. c.access = "LR" /\ c.addr = base /\ c.expect = 5
  BY <1>8 DEF OneEntry
<1>10. ASSUME NEW grain, NEW has
       PROVE  PmpTrap(c, c.addr, Insn(c), grain, has, "partial_matches") = 0
  <2>1. Len(c.pmpaddr) = 2 /\ \A i \in 1 .. 2 : Perms(c.pmpcfg[i]) = RWX
    BY <1>8, PartsGrant DEF OneEntry
  <2> QED
    BY <1>7, <1>9, <2>1, PartsAllow, TrapIs, PlainNeeds
<1>11. Arrives(c)
  BY <1>1, <1>9 DEF Arrives
<1> QED
  BY <1>6, <1>9, <1>10, <1>11, PlainNeeds DEF PmpSees

(* Each deviation of PMP is seen.                                          *)
LEMMA LocksAndPartsSeen ==
    ASSUME NEW m, Placed(m), NEW bug \in Aimed["pmp"],
           bug = "partial_matches" => \E mode \in {"TOR", "NA4"} : Selectable(mode, m)
    PROVE  PmpSees(m, bug)
BY AimedAt, LocksSeen, StoresSeen, PartsSeen, PartsSeenByFour

(***************************************************************************)
(* The runs of a hart that deviates.                                       *)
(***************************************************************************)
Telling(c) ==
    /\ c \in Range(Corpora[prog][file])
    /\ ~(IsScenario(prog) /\ (SkippedAt(Xlen, c) \/ IllegalAt(Xlen, c)))
    /\ ~Passes(c)
Deviates ==
    /\ WorldTyped /\ file = config /\ defect # "none"
    /\ defect = "partial_matches" => \E mode \in {"TOR", "NA4"} : Selectable(mode, Configs[config])

(* Its deviation is one of those that the cases of the program aim at.     *)
LEMMA DeviationIsAimed == ASSUME Deviates PROVE defect \in Aimed[prog] /\ defect \in Bugs[prog]
BY DeviationsAssumption DEF Deviates, WorldTyped

(* A PMP case tells it ...                                                 *)
LEMMA PmpTells == ASSUME Deviates, prog = "pmp" PROVE \E c : Telling(c)
<1> DEFINE m == Configs[config]
<1>1. Placed(m)
  BY MachinesAssumption DEF Placed, Deviates, WorldTyped
<1>2. PmpSees(m, defect)
  BY <1>1, DeviationIsAimed, LocksAndPartsSeen DEF Deviates
<1>3. PICK c \in Range(PmpCorpus(m)) :
         /\ Arrives(c)
         /\ \A grain, has : PmpTrap(c, c.addr, Insn(c), grain, has, defect) # c.expect
  BY <1>2 DEF PmpSees
<1>4. Materialise(c.addr) = c.addr
  BY <1>3, AddressesArrive DEF Arrives
<1>5. ~SpikePasses(c)
  BY <1>3, <1>4 DEF SpikePasses, EndsAsExpected
<1>6. c \in Range(Corpora[prog][file])
  BY DEF Deviates, WorldTyped, Corpora
<1> QED
  BY <1>5, <1>6 DEF Telling, Passes, IsScenario, CasePrograms

(* ... a translation case ...                                              *)
LEMMA VmemTells == ASSUME Deviates, prog = "vmem" PROVE \E c : Telling(c)
<1> DEFINE m == Configs[config]
<1>1. VmemSees(m, defect)
  BY DeviationIsAimed, WalksSeen, MachinesAssumption DEF Deviates, WorldTyped
<1>2. PICK c \in Range(VmemCorpus(m)) : \A has : VmemTrap(c, c.addr, m, has, defect) # c.expect
  BY <1>1 DEF VmemSees
<1>3. ~SpikePasses(c)
  BY <1>2 DEF SpikePasses, EndsAsExpected
<1>4. c \in Range(Corpora[prog][file])
  BY DEF Deviates, WorldTyped, Corpora
<1> QED
  BY <1>3, <1>4 DEF Telling, Passes, IsScenario, CasePrograms

(* ... a trap case ...                                                     *)
LEMMA TrapTells == ASSUME Deviates, prog = "trap" PROVE \E c : Telling(c)
<1> DEFINE m == Configs[config]
<1>1. TrapSees(m, defect)
  BY DeviationIsAimed, TrapsSeen
<1>2. PICK c \in Range(TrapCorpus(m)) :
         \A has : Knows(c, has) => TrapTaken(c, m, has, defect) # <<c.expect, c.handler>>
  BY <1>1 DEF TrapSees
<1>3. Knows(c, SpikeHas(c))
  BY DEF Knows, SpikeHas
<1>4. ~SpikePasses(c)
  BY <1>2, <1>3 DEF SpikePasses, EndsAsExpected
<1>5. c \in Range(Corpora[prog][file])
  BY DEF Deviates, WorldTyped, Corpora
<1> QED
  BY <1>4, <1>5 DEF Telling, Passes, IsScenario, CasePrograms

(* ... or a scenario, which is no scenario of memory attributes.           *)
LEMMA ScenarioTells == ASSUME Deviates, IsScenario(prog) PROVE \E c : Telling(c)
<1>1. prog \in {"scenario64", "scenario32"} /\ prog \notin CasePrograms
  BY DEF Deviates, WorldTyped, IsScenario, Programs
<1>2. defect \in Aimed["scenario64"] /\ (prog = "scenario32" => defect # "satp_ignored")
  BY <1>1, DeviationIsAimed, AimedAt
<1>3. PICK c : Turned(c, defect) /\ ("sv39" \in c.flags => defect = "satp_ignored")
  BY <1>2, ScenariosSeen
<1>4. c \in Range(Corpora[prog][file])
  BY <1>1, <1>3 DEF Deviates, WorldTyped, Corpora, Turned, CasePrograms
<1>5. ~SkippedAt(Xlen, c) /\ ~IllegalAt(Xlen, c)
  BY <1>1, <1>2, <1>3 DEF SkippedAt, IllegalAt, IsPma, Xlen, Turned
<1>6. /\ EndsAsExpected(c, Configs[config].ext, Configs[config].grain) <=> ScenarioEnds(c, Xlen, defect)
      /\ EndsAsExpected(c, SpikeHas(c), 0) <=> ScenarioEnds(c, Xlen, defect)
  BY <1>1 DEF EndsAsExpected, ScenarioEnds, CasePrograms
<1>7. ~Refused(RunConfig(c))
  BY <1>3 DEF Refused, RunConfig, Guarantees, Turned
<1>8. (SailPasses(c) <=> ScenarioEnds(c, Xlen, defect)) /\ (SpikePasses(c) <=> ScenarioEnds(c, Xlen, defect))
  BY <1>6, <1>7 DEF SailPasses, SpikePasses
<1>9. Judgement(c, SailPasses(c), SpikePasses(c)) # "ok"
  BY <1>3, <1>8 DEF Judgement, IsPma, Turned
<1> QED
  BY <1>4, <1>5, <1>9 DEF Telling, Passes

(* So a complete run reports something.                                    *)
LEMMA TellingIsReported == IInv /\ SeenInv => DefectsAreSeen
<1> SUFFICES ASSUME IInv, SeenInv, defect # "none", file = config, pc = "case", only = "all",
                    pos > Len(Corpus), defect = "partial_matches" =>
                       \E mode \in {"TOR", "NA4"} : Selectable(mode, Configs[config])
             PROVE  bad \ FalseAlarms # {}
  BY DEF DefectsAreSeen
<1>1. Deviates
  BY DEF Deviates, IInv
<1>2. prog \in {"pmp", "vmem", "trap"} \/ IsScenario(prog)
  BY DEF IsScenario, CasePrograms
<1>3. PICK c : Telling(c)
  BY <1>1, <1>2, PmpTells, VmemTells, TrapTells, ScenarioTells
<1>4. DOMAIN Corpus = 1 .. Len(Corpus) /\ Len(Corpus) \in Nat
  BY CorporaAssumption DEF Corpus, IInv, WorldTyped
<1>5. PICK k \in 1 .. Len(Corpus) : Corpus[k] = c
  BY <1>3, <1>4 DEF Telling, Range, Corpus
<1>6. pos \in Nat
  BY <1>4 DEF IInv, InRange
<1>6a. c.id \notin FalseAlarms
  <2>1. \A j, l \in DOMAIN Corpus : Corpus[j].id = Corpus[l].id => j = l
    BY CorporaAssumption DEF Corpus, IInv, WorldTyped
  <2>2. c.id \in FalseAlarms => \E j \in DOMAIN Corpus : Alarms(Corpus[j]) /\ Corpus[j].id = Corpus[k].id
    BY <1>5 DEF FalseAlarms, Alarms
  <2>3. ~Alarms(Corpus[k])
    BY <1>3, <1>5 DEF Telling, Alarms
  <2> QED
    BY <1>4, <1>5, <2>1, <2>2, <2>3
<1>7. Settled(Corpus[k])
  <2>1. k \in 1 .. pos - 1
    BY <1>4, <1>5, <1>6
  <2> QED
    BY <2>1 DEF SeenInv
<1> QED
  BY <1>3, <1>5, <1>6a, <1>7 DEF Settled, Telling

(* A complete run reports a hart that deviates in any of the ways the      *)
(* cases of the program aim at: each has a case that ends otherwise, on    *)
(* every machine, and no run passes it by (pmp_cases.py, vmem_cases.py,    *)
(* trap_cases.py, scenario_tests.py and their runners).                    *)
THEOREM DefectsAreReported == Spec => []DefectsAreSeen
BY Invariance, InitSeenInv, NextSeenInv, TellingIsReported, PTL DEF Spec
==============================================================================
