-------------------------- MODULE OpcodeSweepProofs --------------------------
(***************************************************************************)
(* Theorems about one sweep, for any list of mnemonics, whatever they      *)
(* encode for, and any machines: the types, what a verdict rests on, the   *)
(* summary, the directory the sweep leaves, and that the process is the    *)
(* SweepChild its driver takes it for.  Then about what it gives to        *)
(* isla-testgen, for any instructions of the kinds that clauses have; and  *)
(* about the layouts of operands these are read from, of any length.       *)
(***************************************************************************)
EXTENDS RenderedSweep, TLAPS, FiniteSetTheorems, WellFoundedInduction, SequenceTheorems

(* Entries of a sequence that are in P.                                    *)
Where(s, P) == {i \in DOMAIN s : s[i] \in P}
Count(s, P) == Cardinality(Where(s, P))

AnswerWords == {"pass", "fail", "na"}
Trying == {<<>>, <<"fail">>}
Settled == {<<"pass">>, <<"na">>, <<"fail", "pass">>, <<"fail", "fail">>, <<"fail", "na">>}
Rows == [gen : BOOLEAN, clean : BOOLEAN]
PassRow == [gen |-> TRUE, clean |-> TRUE]

Working == {"annotate", "sail", "spike", "qemu", "verdict"}

(* The types, in parts.                                                    *)
RunTyped ==
    /\ pc \in {"idle", "insn", "annotate", "sail", "spike", "qemu", "verdict",
               "manifest", "exited"}
    /\ xlen \in Xlens /\ setup \in Setups
    /\ pos \in 0 .. Len(Order) + 1
    /\ listed \subseteq Mnemonics /\ fresh \subseteq Mnemonics
FlagsTyped == gen \in BOOLEAN /\ torn \in BOOLEAN
TextTyped == printed \in Seq(Words) /\ results \in Seq(Rows)
DiskTyped ==
    /\ asm \in [Mnemonics -> [body : {0, 32, 64}, header : {0, 32, 64}]]
    /\ elf \in [Mnemonics -> {0, 32, 64}]
    /\ index \in [xlen : {0, 32, 64}, tests : SUBSET Mnemonics]

InRange == /\ pc \in Working => pos \in 1 .. Len(Order)
           /\ pc = "insn" => pos \in 1 .. Len(Order) + 1

(* What is worked on past generation was generated by this run.            *)
JudgesOwn ==
    /\ pc \in {"annotate"} \cup Sims => gen /\ Current \in fresh
    /\ pc = "annotate" => asm[Current].body = xlen
    /\ pc = "insn" => ~gen
FreshIsOurs == \A m \in fresh : elf[m] = xlen

(* The list for the index is what was built, but for the test at hand.     *)
ListedAreBuilt ==
    /\ listed \subseteq fresh
    /\ pc \notin {"idle", "exited"} =>
          fresh \subseteq listed \cup (IF pc = "annotate" THEN {Current} ELSE {})

(* An index holds until this run rebuilds a test of it.                    *)
IndexStands ==
    ~torn => \A m \in index.tests :
                elf[m] = index.xlen \/ (m \in fresh /\ pc \notin {"idle", "exited"})

(* A simulator is asked again only after one failure.                      *)
AttemptsAreFew ==
    /\ attempts \in [Sims -> Trying \cup Settled]
    /\ pc \in {"insn", "annotate"} => attempts = NoAttempts
    /\ pc = "sail" => /\ attempts["sail"] \in Trying
                      /\ attempts["spike"] = <<>> /\ attempts["qemu"] = <<>>
    /\ pc = "spike" => /\ attempts["sail"] \in Settled /\ attempts["spike"] \in Trying
                       /\ attempts["qemu"] = <<>>
    /\ pc = "qemu" => /\ attempts["sail"] \in Settled /\ attempts["spike"] \in Settled
                      /\ attempts["qemu"] = <<>>
    /\ pc = "verdict" /\ gen => attempts["sail"] \in Settled /\ attempts["spike"] \in Settled

(* One line per mnemonic passed, and the list agrees with the lines.       *)
LinesAgree ==
    /\ Len(printed) = IF pos = 0 THEN 0 ELSE pos - 1
    /\ Count(results, {PassRow}) = Count(printed, {"PASS"})
    /\ Len(results) = Count(printed, {"PASS"}) + Count(printed, {"FAIL"})

NoSummaryYet == pc \in {"insn"} \cup Working => summary = <<>>

IInv ==
    /\ RunTyped
    /\ FlagsTyped
    /\ TextTyped
    /\ DiskTyped
    /\ InRange
    /\ JudgesOwn
    /\ FreshIsOurs
    /\ ListedAreBuilt
    /\ IndexStands
    /\ HeaderIsTrue
    /\ AttemptsAreFew
    /\ LinesAgree
    /\ NoSummaryYet
    /\ SummaryAgrees

-----------------------------------------------------------------------------

LEMMA LenOrder == Len(Order) \in Nat
BY SweepAssumption

LEMMA CurrentIsMnemonic ==
    ASSUME pos \in 1 .. Len(Order)
    PROVE  Current \in Mnemonics
BY DEF Current, Mnemonics

(* The positions of a sequence's entries in a set are finitely many.       *)
LEMMA WhereFinite ==
    ASSUME NEW S, NEW s \in Seq(S), NEW P
    PROVE  IsFiniteSet(Where(s, P)) /\ Count(s, P) \in Nat
<1>1. IsFiniteSet(1 .. Len(s))
  BY FS_Interval
<1>2. Where(s, P) \in SUBSET (1 .. Len(s))
  BY DEF Where
<1>3. IsFiniteSet(Where(s, P))
  BY <1>1, <1>2, FS_Subset
<1> QED
  BY <1>3, FS_CardinalityType DEF Count

(* Appending an entry counts it, if it is in the set.                      *)
LEMMA CountAppend ==
    ASSUME NEW S, NEW s \in Seq(S), NEW x \in S, NEW P
    PROVE  Count(Append(s, x), P) = Count(s, P) + (IF x \in P THEN 1 ELSE 0)
<1> DEFINE n == Len(s) + 1
<1>1. Len(s) \in Nat /\ DOMAIN s = 1 .. Len(s) /\ DOMAIN Append(s, x) = 1 .. n
  OBVIOUS
<1>2. Append(s, x)[n] = x /\ \A i \in 1 .. Len(s) : Append(s, x)[i] = s[i]
  OBVIOUS
<1>3. n \notin Where(s, P)
  BY <1>1 DEF Where
<1>4. IsFiniteSet(Where(s, P)) /\ Count(s, P) \in Nat
  BY WhereFinite
<1>5. CASE x \in P
  <2>1. Where(Append(s, x), P) = Where(s, P) \cup {n}
    BY <1>1, <1>2, <1>5 DEF Where
  <2>2. Cardinality(Where(s, P) \cup {n}) = Cardinality(Where(s, P)) + 1
    BY <1>3, <1>4, FS_AddElement
  <2> QED
    BY <1>5, <2>1, <2>2 DEF Count
<1>6. CASE x \notin P
  <2>1. Where(Append(s, x), P) = Where(s, P)
    BY <1>1, <1>2, <1>6 DEF Where
  <2> QED
    BY <1>4, <1>6, <2>1 DEF Count
<1> QED
  BY <1>5, <1>6

LEMMA CountEmpty == ASSUME NEW P PROVE Count(<<>>, P) = 0
<1>1. Where(<<>>, P) = {}
  BY DEF Where
<1> QED
  BY <1>1, FS_EmptySet DEF Count

(* What the summary counts is what the lines count.                        *)
LEMMA CountsAreCounts ==
    ASSUME results \in Seq(Rows)
    PROVE  /\ Cardinality({i \in DOMAIN results : results[i].gen /\ results[i].clean})
                = Count(results, {PassRow})
           /\ \A w : Cardinality({i \in DOMAIN printed : printed[i] = w}) = Count(printed, {w})
<1>1. \A i \in DOMAIN results : results[i] \in Rows
  OBVIOUS
<1>2. \A r \in Rows : (r.gen /\ r.clean) <=> r \in {PassRow}
  BY DEF Rows, PassRow
<1>3. {i \in DOMAIN results : results[i].gen /\ results[i].clean} = Where(results, {PassRow})
  BY <1>1, <1>2 DEF Where
<1>4. ASSUME NEW w PROVE {i \in DOMAIN printed : printed[i] = w} = Where(printed, {w})
  BY DEF Where
<1> QED
  BY <1>3, <1>4 DEF Count

LEMMA AttemptsAreTyped ==
    Trying \cup Settled \subseteq {<<>>} \cup [1 .. 1 -> AnswerWords] \cup [1 .. 2 -> AnswerWords]
BY DEF Trying, Settled, AnswerWords

(* The last answer is a failure only of a simulator that failed twice.     *)
LEMMA LastAnswer ==
    ASSUME NEW a \in Settled
    PROVE  (a[Len(a)] = "fail") <=> (a = <<"fail", "fail">>)
BY DEF Settled

LEMMA TypesFollow == IInv => TypeOK
<1> SUFFICES ASSUME IInv PROVE TypeOK
  OBVIOUS
<1>1. attempts \in [Sims -> {<<>>} \cup [1 .. 1 -> AnswerWords] \cup [1 .. 2 -> AnswerWords]]
  BY AttemptsAreTyped DEF IInv, AttemptsAreFew
<1> QED
  BY <1>1 DEF IInv, RunTyped, FlagsTyped, TextTyped, DiskTyped, TypeOK, Rows, AnswerWords

LEMMA InitIInv == Init => IInv
<1> SUFFICES ASSUME Init PROVE IInv
  OBVIOUS
<1> USE DEF Init
<1>1. RunTyped /\ TextTyped
  <2>1. RunTyped
    BY LenOrder DEF RunTyped, Xlens
  <2>2. TextTyped
    BY DEF TextTyped
  <2> QED
    BY <2>1, <2>2
<1>6. DiskTyped /\ FlagsTyped
  BY DEF DiskTyped, FlagsTyped, NoTest, NoIndex
<1>2. InRange /\ JudgesOwn /\ FreshIsOurs /\ ListedAreBuilt /\ IndexStands /\ NoSummaryYet
  BY DEF InRange, JudgesOwn, FreshIsOurs, ListedAreBuilt, IndexStands, NoSummaryYet,
         Working, Sims, NoIndex
<1>3. HeaderIsTrue /\ SummaryAgrees
  BY DEF HeaderIsTrue, SummaryAgrees, NoTest
<1>4. AttemptsAreFew
  BY DEF AttemptsAreFew, NoAttempts, Trying
<1>5. LinesAgree
  BY CountEmpty DEF LinesAgree
<1> QED
  BY <1>1, <1>2, <1>3, <1>4, <1>5, <1>6 DEF IInv

(* A step to an unfinished run: its summary is still to come.              *)
LEMMA BeginIInv ==
    ASSUME IInv, NEW x \in Xlens, NEW how \in Setups, Begin(x, how)
    PROVE  IInv'
<1> USE DEF IInv, Begin, diskVars
<1>1. RunTyped' /\ TextTyped'
  <2>1. RunTyped'
    BY LenOrder DEF RunTyped
  <2>2. TextTyped'
    BY DEF TextTyped
  <2> QED
    BY <2>1, <2>2
<1>2. DiskTyped' /\ FlagsTyped'
  BY DEF DiskTyped, FlagsTyped
<1>3. InRange' /\ JudgesOwn' /\ FreshIsOurs' /\ ListedAreBuilt' /\ NoSummaryYet'
  BY LenOrder DEF InRange, JudgesOwn, FreshIsOurs, ListedAreBuilt, NoSummaryYet, Working, Sims
<1>4. IndexStands' /\ HeaderIsTrue' /\ SummaryAgrees'
  BY DEF IndexStands, HeaderIsTrue, SummaryAgrees
<1>5. AttemptsAreFew'
  BY DEF AttemptsAreFew, NoAttempts, Trying
<1>6. LinesAgree'
  BY CountEmpty DEF LinesAgree
<1> QED
  BY <1>1, <1>2, <1>3, <1>4, <1>5, <1>6

(* One more line, and one more row if it is a verdict on a test.           *)
LEMMA LineIInv ==
    ASSUME IInv, NEW word \in Words, pc \in {"insn", "verdict"}, pos \in 1 .. Len(Order),
           PrintLine(word), UNCHANGED <<xlen, setup, listed, summary, diskVars, ghosts>>,
           \/ word \in {"SKIP", "NOENC"} /\ results' = results
           \/ \E r \in Rows : /\ results' = Append(results, r)
                             /\ word = IF r.gen /\ r.clean THEN "PASS" ELSE "FAIL"
    PROVE  IInv'
<1> USE DEF IInv, PrintLine, diskVars, ghosts
<1>1. RunTyped' /\ TextTyped'
  <2>1. printed' \in Seq(Words)
    BY DEF TextTyped
  <2>2. results' \in Seq(Rows)
    BY DEF TextTyped
  <2>3. RunTyped'
    BY LenOrder DEF RunTyped
  <2> QED
    BY <2>1, <2>2, <2>3 DEF TextTyped
<1>2. DiskTyped' /\ FreshIsOurs' /\ IndexStands' /\ HeaderIsTrue' /\ FlagsTyped'
  BY DEF DiskTyped, FreshIsOurs, IndexStands, HeaderIsTrue, FlagsTyped
<1>3. InRange' /\ JudgesOwn' /\ ListedAreBuilt'
  BY LenOrder DEF InRange, JudgesOwn, ListedAreBuilt, Working, Sims
<1>4. AttemptsAreFew'
  BY DEF AttemptsAreFew, NoAttempts, Trying
<1>5. summary = <<>> /\ summary' = <<>>
  BY DEF NoSummaryYet, Working
<1>6. NoSummaryYet' /\ SummaryAgrees'
  BY <1>5 DEF NoSummaryYet, SummaryAgrees
<1>7. LinesAgree'
  <2>1. /\ printed \in Seq(Words) /\ printed' = Append(printed, word)
        /\ results \in Seq(Rows) /\ Len(printed) = pos - 1 /\ pos' = pos + 1 /\ pos \in Nat \ {0}
        /\ Count(results, {PassRow}) = Count(printed, {"PASS"})
        /\ Len(results) = Count(printed, {"PASS"}) + Count(printed, {"FAIL"})
    BY LenOrder DEF TextTyped, LinesAgree
  <2>2. /\ Count(printed, {"PASS"})' = Count(printed, {"PASS"}) + (IF word = "PASS" THEN 1 ELSE 0)
        /\ Count(printed, {"FAIL"})' = Count(printed, {"FAIL"}) + (IF word = "FAIL" THEN 1 ELSE 0)
    <3>1. ASSUME NEW w PROVE Count(printed', {w}) = Count(printed, {w}) + (IF word \in {w} THEN 1 ELSE 0)
      BY <2>1, CountAppend
    <3> QED
      BY <3>1 DEF Count, Where
  <2>3. Count(printed, {"PASS"}) \in Nat /\ Count(printed, {"FAIL"}) \in Nat
    BY <2>1, WhereFinite
  <2>4. Len(printed') = pos
    BY <2>1
  <2>5. CASE word \in {"SKIP", "NOENC"} /\ results' = results
    <3>1. Count(results, {PassRow})' = Count(results, {PassRow})
      BY <2>5 DEF Count, Where
    <3> QED
      BY <2>1, <2>2, <2>3, <2>4, <2>5, <3>1 DEF LinesAgree
  <2>6. ASSUME NEW r \in Rows, results' = Append(results, r),
               word = IF r.gen /\ r.clean THEN "PASS" ELSE "FAIL"
        PROVE  LinesAgree'
    <3>1. r \in {PassRow} <=> word = "PASS"
      BY <2>6 DEF Rows, PassRow
    <3>2. Count(results', {PassRow}) = Count(results, {PassRow}) + (IF r \in {PassRow} THEN 1 ELSE 0)
      BY <2>1, <2>6, CountAppend
    <3>3. Count(results, {PassRow})' = Count(results', {PassRow})
      BY DEF Count, Where
    <3>4. Len(results') = Len(results) + 1 /\ Len(results) \in Nat
      BY <2>1, <2>6
    <3>5. word = "PASS" \/ word = "FAIL"
      BY <2>6
    <3> QED
      BY <2>1, <2>2, <2>3, <2>4, <3>1, <3>2, <3>3, <3>4, <3>5 DEF LinesAgree
  <2> QED
    BY <2>5, <2>6
<1> QED
  BY <1>1, <1>2, <1>3, <1>4, <1>6, <1>7

LEMMA SkipIInv == ASSUME IInv, SkipWrongXlen PROVE IInv'
BY LineIInv DEF SkipWrongXlen, AtInsn, IInv, InRange, Words

LEMMA NoEncodingIInv == ASSUME IInv, NoEncoding PROVE IInv'
BY LineIInv DEF NoEncoding, AtInsn, IInv, InRange, Words

LEMMA AssembleFailsIInv == ASSUME IInv, AssembleFails PROVE IInv'
<1> DEFINE row == [gen |-> FALSE, clean |-> TRUE]
<1>1. row \in Rows /\ ~(row.gen /\ row.clean)
  BY DEF Rows
<1>2. results' = Append(results, row) /\ PrintLine("FAIL")
      /\ UNCHANGED <<xlen, setup, listed, summary, diskVars, ghosts>>
  BY DEF AssembleFails
<1>3. pc \in {"insn", "verdict"} /\ pos \in 1 .. Len(Order)
  BY LenOrder DEF AssembleFails, AtInsn, IInv, InRange
<1> QED
  BY <1>1, <1>2, <1>3, LineIInv DEF Words

LEMMA VerdictIInv == ASSUME IInv, PrintVerdict PROVE IInv'
<1> DEFINE row == [gen |-> gen, clean |-> Clean]
           word == IF gen /\ Clean THEN "PASS" ELSE "FAIL"
<1>1. row \in Rows /\ ((row.gen /\ row.clean) <=> (gen /\ Clean))
  BY DEF Rows, IInv, FlagsTyped, Clean
<1>2. results' = Append(results, row) /\ PrintLine(word)
      /\ UNCHANGED <<xlen, setup, listed, summary, diskVars, ghosts>>
  BY DEF PrintVerdict
<1>3. pc \in {"insn", "verdict"} /\ pos \in 1 .. Len(Order)
  BY DEF PrintVerdict, IInv, InRange, Working
<1>4. word \in Words /\ word = IF row.gen /\ row.clean THEN "PASS" ELSE "FAIL"
  BY <1>1 DEF Words
<1> HIDE DEF row, word
<1> QED
  BY <1>1, <1>2, <1>3, <1>4, LineIInv

(* A test is built: it belongs to this run, and is not yet listed.         *)
LEMMA GenerateIInv == ASSUME IInv, Generate PROVE IInv'
<1> USE DEF IInv, Generate, AtInsn
<1>1. pos \in 1 .. Len(Order) /\ Current \in Mnemonics /\ Current' = Current
  BY LenOrder, CurrentIsMnemonic DEF InRange, Current
<1>2. RunTyped' /\ xlen \in {32, 64}
  BY <1>1 DEF RunTyped, Xlens
<1>3. FlagsTyped' /\ TextTyped'
  BY DEF FlagsTyped, TextTyped
<1>4. /\ asm'[Current] = [body |-> xlen, header |-> 0] /\ elf'[Current] = xlen
      /\ \A m \in Mnemonics \ {Current} : asm'[m] = asm[m] /\ elf'[m] = elf[m]
  BY <1>1 DEF DiskTyped
<1>5. DiskTyped'
  BY <1>1, <1>2 DEF DiskTyped
<1>6. InRange' /\ JudgesOwn' /\ NoSummaryYet' /\ AttemptsAreFew'
  BY <1>1, <1>4 DEF InRange, JudgesOwn, NoSummaryYet, AttemptsAreFew, Working, Sims
<1>7. FreshIsOurs' /\ ListedAreBuilt'
  BY <1>1, <1>4 DEF FreshIsOurs, ListedAreBuilt, RunTyped
<1>8. IndexStands'
  <2> SUFFICES ASSUME ~torn, NEW m \in index.tests
               PROVE  elf'[m] = index.xlen \/ m \in fresh'
    BY DEF IndexStands
  <2>1. m \in Mnemonics
    BY DEF DiskTyped
  <2> QED
    BY <1>4, <2>1 DEF IndexStands
<1>9. HeaderIsTrue'
  BY <1>1, <1>4 DEF HeaderIsTrue
<1>10. LinesAgree' /\ SummaryAgrees'
  <2>1. printed' = printed /\ results' = results /\ summary' = summary /\ pos' = pos
    OBVIOUS
  <2> QED
    BY <2>1 DEF LinesAgree, SummaryAgrees, Count, Where
<1> QED
  BY <1>2, <1>3, <1>5, <1>6, <1>7, <1>8, <1>9, <1>10

(* Nothing is built, and the simulators are not asked.                     *)
LEMMA GenerateFailsIInv == ASSUME IInv, GenerateFails PROVE IInv'
<1> USE DEF IInv, GenerateFails, AtInsn
<1>1. pos \in 1 .. Len(Order) /\ Current \in Mnemonics /\ Current' = Current
  BY LenOrder, CurrentIsMnemonic DEF InRange, Current
<1>2. RunTyped' /\ xlen \in {32, 64}
  BY <1>1 DEF RunTyped, Xlens, ghosts
<1>3. FlagsTyped' /\ TextTyped' /\ ~gen
  BY DEF FlagsTyped, TextTyped, JudgesOwn, ghosts
<1>4. DiskTyped'
  BY <1>1, <1>2 DEF DiskTyped
<1>5. \A m \in Mnemonics : asm'[m] \in {asm[m], [body |-> xlen, header |-> 0]}
  BY <1>1 DEF DiskTyped
<1>6. InRange' /\ JudgesOwn' /\ NoSummaryYet'
  BY <1>1, <1>3 DEF InRange, JudgesOwn, NoSummaryYet, Working, Sims
<1>7. AttemptsAreFew'
  BY <1>3 DEF AttemptsAreFew, Trying
<1>8. FreshIsOurs' /\ ListedAreBuilt' /\ IndexStands'
  BY DEF FreshIsOurs, ListedAreBuilt, IndexStands, ghosts
<1>9. HeaderIsTrue'
  BY <1>5 DEF HeaderIsTrue
<1>10. LinesAgree' /\ SummaryAgrees'
  <2>1. printed' = printed /\ results' = results /\ summary' = summary /\ pos' = pos
    OBVIOUS
  <2> QED
    BY <2>1 DEF LinesAgree, SummaryAgrees, Count, Where
<1> QED
  BY <1>2, <1>3, <1>4, <1>6, <1>7, <1>8, <1>9, <1>10

(* The header is written, and the test enters the list.                    *)
LEMMA AnnotateIInv == ASSUME IInv, Annotate PROVE IInv'
<1> USE DEF IInv, Annotate
<1>1. pos \in 1 .. Len(Order) /\ Current \in Mnemonics /\ Current' = Current
  BY CurrentIsMnemonic DEF InRange, Working, Current
<1>2. RunTyped' /\ xlen \in {32, 64}
  BY <1>1 DEF RunTyped, Xlens, ghosts
<1>3. FlagsTyped' /\ TextTyped'
  BY DEF FlagsTyped, TextTyped, ghosts
<1>4. /\ asm'[Current].body = asm[Current].body
      /\ asm'[Current].header = IF asm[Current].header = 0 THEN xlen ELSE asm[Current].header
      /\ \A m \in Mnemonics \ {Current} : asm'[m] = asm[m]
  BY <1>1 DEF DiskTyped
<1>5. DiskTyped'
  BY <1>1, <1>2 DEF DiskTyped
<1>6. InRange' /\ JudgesOwn' /\ NoSummaryYet' /\ AttemptsAreFew'
  BY <1>1 DEF InRange, JudgesOwn, NoSummaryYet, AttemptsAreFew, Working, Sims, NoAttempts,
              Trying, ghosts
<1>7. FreshIsOurs' /\ ListedAreBuilt' /\ IndexStands'
  BY <1>1 DEF FreshIsOurs, ListedAreBuilt, IndexStands, JudgesOwn, ghosts
<1>8. HeaderIsTrue'
  BY <1>1, <1>4 DEF HeaderIsTrue, JudgesOwn
<1>9. LinesAgree' /\ SummaryAgrees'
  <2>1. printed' = printed /\ results' = results /\ summary' = summary /\ pos' = pos
    OBVIOUS
  <2> QED
    BY <2>1 DEF LinesAgree, SummaryAgrees, Count, Where
<1> QED
  BY <1>2, <1>3, <1>5, <1>6, <1>7, <1>8, <1>9

LEMMA AppendFacts ==
    ASSUME NEW S, NEW s \in Seq(S), NEW a \in S
    PROVE  /\ Append(s, a) \in Seq(S)
           /\ Len(Append(s, a)) = Len(s) + 1
           /\ \A i \in 1 .. Len(s) : Append(s, a)[i] = s[i]
           /\ Append(s, a)[Len(s) + 1] = a
<1>1. Append(s, a) \in Seq(S)
  OBVIOUS
<1>2. Len(Append(s, a)) = Len(s) + 1
  OBVIOUS
<1>3. \A i \in 1 .. Len(s) : Append(s, a)[i] = s[i]
  OBVIOUS
<1>4. Append(s, a)[Len(s) + 1] = a
  OBVIOUS
<1> QED
  BY <1>1, <1>2, <1>3, <1>4

LEMMA SameEntries ==
    ASSUME NEW S, NEW s \in Seq(S), NEW t \in Seq(S), Len(s) = Len(t),
           \A i \in 1 .. Len(s) : s[i] = t[i]
    PROVE  s = t
OBVIOUS

LEMMA AppendSecond ==
    ASSUME NEW a \in AnswerWords PROVE Append(<<"fail">>, a) = <<"fail", a>>
<1> DEFINE one == <<"fail">>
           two == <<"fail", a>>
<1>1. one \in Seq(AnswerWords) /\ Len(one) = 1 /\ one[1] = "fail"
  BY DEF AnswerWords
<1>2. two \in Seq(AnswerWords) /\ Len(two) = 2 /\ two[1] = "fail" /\ two[2] = a
  BY DEF AnswerWords
<1> HIDE DEF one, two
<1> DEFINE more == Append(one, a)
<1>6. a \in AnswerWords
  OBVIOUS
<1>3. /\ more \in Seq(AnswerWords) /\ Len(more) = Len(one) + 1
      /\ \A i \in 1 .. Len(one) : more[i] = one[i]
      /\ more[Len(one) + 1] = a
  BY <1>1, <1>6, AppendFacts, ZenonT(60)
<1> HIDE DEF more
<1>4. Len(more) = Len(two) /\ more[1] = two[1] /\ more[2] = two[2]
  BY <1>1, <1>2, <1>3
<1>5. more = two
  <2>1. \A i \in 1 .. Len(more) : more[i] = two[i]
    BY <1>2, <1>4
  <2> QED
    BY <1>2, <1>3, <1>4, <2>1, SameEntries
<1> QED
  BY <1>5 DEF one, two, more

(* A simulator answers: what it has said so far is settled, unless it is   *)
(* to be asked again.                                                      *)
LEMMA AnswerSettles ==
    ASSUME NEW s \in Sims, NEW answer \in Answers(s), attempts[s] \in Trying
    PROVE  /\ Append(attempts[s], answer) \in Trying \cup Settled
           /\ Retries(s, answer) => Append(attempts[s], answer) \in Trying
           /\ ~Retries(s, answer) => Append(attempts[s], answer) \in Settled
<1>1. answer \in AnswerWords
  BY DEF Answers, AnswerWords
<1>2. CASE attempts[s] = <<>>
  <2>1. Append(attempts[s], answer) = <<answer>>
    BY <1>2
  <2> QED
    BY <1>1, <1>2, <2>1 DEF Trying, Settled, AnswerWords, Retries
<1>3. CASE attempts[s] = <<"fail">>
  <2>1. Append(attempts[s], answer) = <<"fail", answer>>
    BY <1>1, <1>3, AppendSecond
  <2> QED
    BY <1>1, <1>3, <2>1 DEF Trying, Settled, AnswerWords, Retries
<1> QED
  BY <1>2, <1>3 DEF Trying

LEMMA SimulateFrame ==
    ASSUME IInv, pc \in Sims, pc' \in {"sail", "spike", "qemu", "verdict"},
           UNCHANGED <<xlen, setup, gen, printed, results, listed, summary, pos, diskVars, ghosts>>,
           AttemptsAreFew'
    PROVE  IInv'
<1> USE DEF IInv, diskVars, ghosts
<1>1. pos \in 1 .. Len(Order) /\ Current' = Current
  BY DEF InRange, Working, Sims, Current
<1>2. RunTyped'
  BY DEF RunTyped
<1>3. FlagsTyped' /\ TextTyped' /\ DiskTyped'
  BY DEF FlagsTyped, TextTyped, DiskTyped
<1>4. InRange' /\ JudgesOwn' /\ NoSummaryYet'
  BY <1>1 DEF InRange, JudgesOwn, NoSummaryYet, Working, Sims
<1>5. FreshIsOurs' /\ ListedAreBuilt' /\ IndexStands' /\ HeaderIsTrue'
  BY DEF FreshIsOurs, ListedAreBuilt, IndexStands, HeaderIsTrue, Sims
<1>6. LinesAgree' /\ SummaryAgrees'
  <2>1. printed' = printed /\ results' = results /\ summary' = summary /\ pos' = pos
    OBVIOUS
  <2> QED
    BY <2>1 DEF LinesAgree, SummaryAgrees, Count, Where
<1> QED
  BY <1>2, <1>3, <1>4, <1>5, <1>6

LEMMA SailIInv == ASSUME IInv, RunSail PROVE IInv'
<1>1. PICK answer \in Answers("sail") :
         /\ attempts' = [attempts EXCEPT !["sail"] = Append(@, answer)]
         /\ pc' = IF Retries("sail", answer) THEN "sail" ELSE "spike"
  BY DEF RunSail, Simulate
<1>2. /\ pc = "sail" /\ attempts \in [Sims -> Trying \cup Settled]
      /\ attempts["sail"] \in Trying /\ attempts["spike"] = <<>> /\ attempts["qemu"] = <<>>
  BY DEF RunSail, Simulate, IInv, AttemptsAreFew
<1>3. /\ Append(attempts["sail"], answer) \in Trying \cup Settled
      /\ Retries("sail", answer) => Append(attempts["sail"], answer) \in Trying
      /\ ~Retries("sail", answer) => Append(attempts["sail"], answer) \in Settled
  BY <1>2, AnswerSettles DEF Sims, Retries
<1>4. AttemptsAreFew'
  BY <1>1, <1>2, <1>3 DEF AttemptsAreFew, Sims, Trying
<1> QED
  BY <1>1, <1>4, SimulateFrame DEF RunSail, Simulate, Sims

LEMMA SpikeIInv == ASSUME IInv, RunSpike PROVE IInv'
<1>1. PICK answer \in Answers("spike") :
         /\ attempts' = [attempts EXCEPT !["spike"] = Append(@, answer)]
         /\ pc' = IF Retries("spike", answer) THEN "spike" ELSE "qemu"
  BY DEF RunSpike, Simulate
<1>2. /\ pc = "spike" /\ attempts \in [Sims -> Trying \cup Settled]
      /\ attempts["sail"] \in Settled /\ attempts["spike"] \in Trying /\ attempts["qemu"] = <<>>
  BY DEF RunSpike, Simulate, IInv, AttemptsAreFew
<1>3. /\ Append(attempts["spike"], answer) \in Trying \cup Settled
      /\ Retries("spike", answer) => Append(attempts["spike"], answer) \in Trying
      /\ ~Retries("spike", answer) => Append(attempts["spike"], answer) \in Settled
  BY <1>2, AnswerSettles DEF Sims, Retries
<1>4. AttemptsAreFew'
  BY <1>1, <1>2, <1>3 DEF AttemptsAreFew, Sims
<1> QED
  BY <1>1, <1>4, SimulateFrame DEF RunSpike, Simulate, Sims

LEMMA QemuIInv == ASSUME IInv, RunQemu PROVE IInv'
<1>1. PICK answer \in Answers("qemu") :
         attempts' = [attempts EXCEPT !["qemu"] = Append(@, answer)]
  BY DEF RunQemu, Simulate
<1>2. /\ pc = "qemu" /\ pc' = "verdict" /\ attempts \in [Sims -> Trying \cup Settled]
      /\ attempts["sail"] \in Settled /\ attempts["spike"] \in Settled
      /\ attempts["qemu"] \in Trying
  BY DEF RunQemu, Simulate, IInv, AttemptsAreFew, Trying
<1>3. Append(attempts["qemu"], answer) \in Trying \cup Settled
  BY <1>2, AnswerSettles DEF Sims
<1>4. AttemptsAreFew'
  BY <1>1, <1>2, <1>3 DEF AttemptsAreFew, Sims
<1> QED
  BY <1>2, <1>4, SimulateFrame DEF RunQemu, Simulate, Sims

(* What the summary counts in the list is what the lines say.              *)
LEMMA SummaryIInv == ASSUME IInv, PrintSummary PROVE IInv'
<1> USE DEF IInv, PrintSummary, diskVars, ghosts
<1>1. pos = Len(Order) + 1 /\ pc = "insn"
  BY LenOrder DEF InRange
<1>2. RunTyped'
  BY DEF RunTyped
<1>3. FlagsTyped' /\ TextTyped' /\ DiskTyped'
  BY DEF FlagsTyped, TextTyped, DiskTyped
<1>4. InRange' /\ JudgesOwn' /\ NoSummaryYet' /\ AttemptsAreFew'
  BY DEF InRange, JudgesOwn, NoSummaryYet, AttemptsAreFew, Working, Sims
<1>5. FreshIsOurs' /\ ListedAreBuilt' /\ IndexStands' /\ HeaderIsTrue'
  BY DEF FreshIsOurs, ListedAreBuilt, IndexStands, HeaderIsTrue
<1>6. LinesAgree'
  BY DEF LinesAgree, Count, Where
<1>7. SummaryAgrees'
  <2>1. /\ summary'.passed = Count(printed, {"PASS"})
        /\ summary'.total = Count(printed, {"PASS"}) + Count(printed, {"FAIL"})
    BY CountsAreCounts DEF TextTyped, LinesAgree
  <2>2. Len(printed) = Len(Order)
    BY <1>1, LenOrder DEF LinesAgree
  <2>3. \A w : Cardinality({i \in DOMAIN printed : printed[i] = w}) = Count(printed, {w})
    BY CountsAreCounts DEF TextTyped
  <2> QED
    BY <2>1, <2>2, <2>3 DEF SummaryAgrees
<1> QED
  BY <1>2, <1>3, <1>4, <1>5, <1>6, <1>7

LEMMA WriteIndexIInv == ASSUME IInv, WriteIndex PROVE IInv'
<1> USE DEF IInv, WriteIndex, runVars
<1>1. RunTyped'
  BY DEF RunTyped
<1>2. FlagsTyped' /\ TextTyped'
  BY DEF FlagsTyped, TextTyped
<1>3. DiskTyped'
  BY DEF DiskTyped, RunTyped, Xlens
<1>4. InRange' /\ JudgesOwn' /\ NoSummaryYet' /\ AttemptsAreFew'
  BY DEF InRange, JudgesOwn, NoSummaryYet, AttemptsAreFew, Working, Sims
<1>5. FreshIsOurs' /\ ListedAreBuilt' /\ HeaderIsTrue'
  BY DEF FreshIsOurs, ListedAreBuilt, HeaderIsTrue
<1>6. IndexStands'
  <2>1. CASE listed = {}
    BY <2>1 DEF IndexStands, ListedAreBuilt
  <2>2. CASE listed # {}
    BY <2>2 DEF IndexStands, ListedAreBuilt, FreshIsOurs
  <2> QED
    BY <2>1, <2>2
<1>7. LinesAgree' /\ SummaryAgrees'
  <2>1. printed' = printed /\ results' = results /\ summary' = summary /\ pos' = pos
    OBVIOUS
  <2> QED
    BY <2>1 DEF LinesAgree, SummaryAgrees, Count, Where
<1> QED
  BY <1>1, <1>2, <1>3, <1>4, <1>5, <1>6, <1>7

LEMMA DieIInv == ASSUME IInv, Die PROVE IInv'
<1> USE DEF IInv, Die, runVars
<1>1. RunTyped'
  BY DEF RunTyped
<1>2. FlagsTyped' /\ TextTyped'
  BY DEF FlagsTyped, TextTyped
<1>3. DiskTyped'
  BY DEF DiskTyped, NoTest, NoIndex
<1>4. InRange' /\ JudgesOwn' /\ NoSummaryYet' /\ AttemptsAreFew'
  BY DEF InRange, JudgesOwn, NoSummaryYet, AttemptsAreFew, Working, Sims
<1>5. FreshIsOurs' /\ ListedAreBuilt' /\ IndexStands'
  BY DEF FreshIsOurs, ListedAreBuilt, IndexStands
<1>6. HeaderIsTrue'
  BY DEF HeaderIsTrue, DiskTyped, NoTest
<1>7. LinesAgree' /\ SummaryAgrees'
  <2>1. printed' = printed /\ results' = results /\ summary' = summary /\ pos' = pos
    OBVIOUS
  <2> QED
    BY <2>1 DEF LinesAgree, SummaryAgrees, Count, Where
<1> QED
  BY <1>1, <1>2, <1>3, <1>4, <1>5, <1>6, <1>7

(* The process is gone, or nothing happens.                                *)
LEMMA RestIInv == ASSUME IInv, Reaped \/ UNCHANGED vars PROVE IInv'
<1> USE DEF IInv, Reaped, runVars, diskVars, ghosts, vars
<1>1. RunTyped'
  BY DEF RunTyped
<1>2. FlagsTyped' /\ TextTyped' /\ DiskTyped'
  BY DEF FlagsTyped, TextTyped, DiskTyped
<1>3. Current' = Current
  BY DEF Current
<1>4. InRange' /\ JudgesOwn' /\ NoSummaryYet' /\ AttemptsAreFew'
  BY <1>3 DEF InRange, JudgesOwn, NoSummaryYet, AttemptsAreFew, Working, Sims
<1>5. FreshIsOurs' /\ ListedAreBuilt' /\ HeaderIsTrue' /\ IndexStands'
  BY <1>3 DEF FreshIsOurs, ListedAreBuilt, HeaderIsTrue, IndexStands
<1>6. LinesAgree' /\ SummaryAgrees'
  <2>1. printed' = printed /\ results' = results /\ summary' = summary /\ pos' = pos
    OBVIOUS
  <2> QED
    BY <2>1 DEF LinesAgree, SummaryAgrees, Count, Where
<1> QED
  BY <1>1, <1>2, <1>4, <1>5, <1>6

LEMMA NextIInv == IInv /\ [Next]_vars => IInv'
<1> SUFFICES ASSUME IInv, [Next]_vars PROVE IInv'
  OBVIOUS
<1>1. CASE \E x \in Xlens, how \in Setups : Begin(x, how)
  BY <1>1, BeginIInv
<1>2. CASE SkipWrongXlen \/ NoEncoding \/ AssembleFails \/ PrintVerdict
  BY <1>2, SkipIInv, NoEncodingIInv, AssembleFailsIInv, VerdictIInv
<1>3. CASE Generate \/ GenerateFails \/ Annotate
  BY <1>3, GenerateIInv, GenerateFailsIInv, AnnotateIInv
<1>4. CASE RunSail \/ RunSpike \/ RunQemu
  BY <1>4, SailIInv, SpikeIInv, QemuIInv
<1>5. CASE PrintSummary \/ WriteIndex
  BY <1>5, SummaryIInv, WriteIndexIInv
<1>6. CASE Die \/ Reaped \/ UNCHANGED vars
  BY <1>6, DieIInv, RestIInv
<1> QED
  BY <1>1, <1>2, <1>3, <1>4, <1>5, <1>6 DEF Next, Step

(***************************************************************************)
(* The theorems.                                                           *)
(***************************************************************************)

(* The inductive invariant, in every reachable state.                      *)
THEOREM Invariance == Spec => []IInv
<1> QED
  BY InitIInv, NextIInv, PTL DEF Spec

(* Type correctness of the sweep and of the directory it works in.         *)
THEOREM TypeCorrect == Spec => []TypeOK
<1> QED
  BY Invariance, TypesFollow, PTL

(* What a simulator judges was generated by this run, at its XLEN.         *)
THEOREM VerdictsAreFresh == Spec => []JudgedFresh
<1>1. IInv => JudgedFresh
  BY DEF IInv, JudgesOwn, FreshIsOurs, JudgedFresh
<1> QED
  BY Invariance, <1>1, PTL

(* A generated test fails on Sail or on Spike only after two failures.     *)
THEOREM FailuresAreRepeated == Spec => []OneBadRunIsNoVerdict
<1>1. IInv => OneBadRunIsNoVerdict
  <2> SUFFICES ASSUME IInv, pc = "verdict", gen
               PROVE  \A s \in {"sail", "spike"} :
                         (Verdict(s) = "fail") <=> (attempts[s] = <<"fail", "fail">>)
    BY DEF OneBadRunIsNoVerdict
  <2>1. attempts["sail"] \in Settled /\ attempts["spike"] \in Settled
    BY DEF IInv, AttemptsAreFew
  <2> QED
    BY <2>1, LastAnswer DEF Verdict
<1> QED
  BY Invariance, <1>1, PTL

(* The summary agrees with the lines its readers count.                    *)
THEOREM SummaryIsTrue == Spec => []SummaryAgrees
<1>1. IInv => SummaryAgrees
  BY DEF IInv
<1> QED
  BY Invariance, <1>1, PTL

(* What the index lists is there, at the XLEN it names.                    *)
THEOREM IndexIsTrue == Spec => []IndexDescribesCorpus
<1>1. IInv => IndexDescribesCorpus
  BY DEF IInv, IndexStands, IndexDescribesCorpus
<1> QED
  BY Invariance, <1>1, PTL

(* No header names another XLEN than that of the code below it.            *)
THEOREM HeadersAreTrue == Spec => []HeaderIsTrue
<1>1. IInv => HeaderIsTrue
  BY DEF IInv
<1> QED
  BY Invariance, <1>1, PTL

-----------------------------------------------------------------------------
(* The sweep as its driver sees it.                                        *)
Tallied == [w \in Words |-> Cardinality({i \in DOMAIN printed : printed[i] = w})]

LEMMA TallyIsCounts == Tallied = [w \in Words |-> Count(printed, {w})]
<1>1. ASSUME NEW w PROVE {i \in DOMAIN printed : printed[i] = w} = Where(printed, {w})
  BY DEF Where
<1> QED
  BY <1>1 DEF Count, Tallied

LEMMA CountUp ==
    ASSUME NEW W, NEW f \in [W -> Nat], NEW g \in [W -> Nat], NEW x \in W,
           \A w \in W : g[w] = f[w] + (IF w = x THEN 1 ELSE 0)
    PROVE  g = [f EXCEPT ![x] = @ + 1]
OBVIOUS

LEMMA FieldUp ==
    ASSUME NEW f, NEW x
    PROVE  [[lines |-> f, end |-> "cut"] EXCEPT !.lines[x] = @ + 1]
           = [lines |-> [f EXCEPT ![x] = @ + 1], end |-> "cut"]
OBVIOUS

LEMMA FieldEnd ==
    ASSUME NEW f
    PROVE  [[lines |-> f, end |-> "cut"] EXCEPT !.end = "summary"]
           = [lines |-> f, end |-> "summary"]
OBVIOUS

LEMMA ChildInitially == Init => Child!ChildInit
<1> SUFFICES ASSUME Init PROVE Child!ChildInit
  OBVIOUS
<1>1. Tallied = [w \in Words |-> 0]
  BY TallyIsCounts, CountEmpty DEF Init
<1> QED
  BY <1>1 DEF Init, Child!ChildInit, Child!Empty, Child!NoLines, Tallied

(* A line that is printed is one more in the tally.                        *)
LEMMA ChildPrints ==
    ASSUME IInv, NEW word \in Words, pc \in {"insn", "verdict"}, pos \in 1 .. Len(Order),
           PrintLine(word), summary' = summary
    PROVE  Child!PrintVerdict(word)
<1>1. /\ printed \in Seq(Words) /\ printed' = Append(printed, word)
      /\ summary = <<>> /\ summary' = <<>> /\ pos' = pos + 1 /\ pc' = "insn"
  BY DEF IInv, TextTyped, NoSummaryYet, Working, PrintLine
<1>2. Tallied' = [w \in Words |-> Count(printed', {w})]
  <2>1. ASSUME NEW w PROVE {i \in DOMAIN printed' : printed'[i] = w} = Where(printed', {w})
    BY DEF Where
  <2> QED
    BY <2>1 DEF Count, Tallied
<1>3. \A w \in Words : Count(printed', {w}) = Count(printed, {w}) + (IF w = word THEN 1 ELSE 0)
  <2>1. ASSUME NEW w \in Words
        PROVE  Count(printed', {w}) = Count(printed, {w}) + (IF word \in {w} THEN 1 ELSE 0)
    BY <1>1, CountAppend
  <2> QED
    BY <2>1
<1>4. \A w \in Words : Count(printed, {w}) \in Nat
  BY <1>1, WhereFinite
<1>8. Tallied \in [Words -> Nat] /\ Tallied' \in [Words -> Nat]
  BY <1>2, <1>3, <1>4, TallyIsCounts
<1>9. \A w \in Words : Tallied'[w] = Tallied[w] + (IF w = word THEN 1 ELSE 0)
  BY <1>2, <1>3, TallyIsCounts
<1>5. Tallied' = [Tallied EXCEPT ![word] = @ + 1]
  BY <1>8, <1>9, CountUp
<1>6. [[lines |-> Tallied, end |-> "cut"] EXCEPT !.lines[word] = @ + 1]
      = [lines |-> [Tallied EXCEPT ![word] = @ + 1], end |-> "cut"]
  BY FieldUp, Zenon
<1>7. pos # 0 /\ pos' # 0 /\ Len(Order) + 1 - pos > 0
      /\ Len(Order) + 1 - pos' = (Len(Order) + 1 - pos) - 1
  BY <1>1, LenOrder
<1> QED
  BY <1>1, <1>5, <1>6, <1>7 DEF Child!PrintVerdict, Tallied

LEMMA ChildStep == IInv /\ IInv' /\ [Next]_vars => [Child!ChildNext]_(Child!childVars)
<1> SUFFICES ASSUME IInv, IInv', [Next]_vars
             PROVE  [Child!ChildNext]_(Child!childVars)
  OBVIOUS
<1>1. ASSUME UNCHANGED <<printed, summary, pos>>,
             pc' = pc \/ (pc \notin {"idle", "exited"} /\ pc' \notin {"idle", "exited"})
      PROVE  UNCHANGED Child!childVars
  BY <1>1 DEF Child!childVars
<1>2. ASSUME NEW x \in Xlens, NEW how \in Setups, Begin(x, how)
      PROVE  Child!ChildNext
  <2>1. Tallied' = [w \in Words |-> 0]
    <3>1. ASSUME NEW w PROVE {i \in DOMAIN printed' : printed'[i] = w} = Where(<<>>, {w})
      BY <1>2 DEF Where, Begin
    <3>2. ASSUME NEW w PROVE Cardinality(Where(<<>>, {w})) = 0
      BY CountEmpty DEF Count
    <3> QED
      BY <3>1, <3>2 DEF Tallied
  <2>2. pc = "idle" /\ pc' = "insn" /\ pos' = 1 /\ summary' = <<>>
    BY <1>2 DEF Begin
  <2>3. Len(Order) + 1 - pos' \in Nat /\ pos' # 0
    BY <2>2, LenOrder
  <2> QED
    BY <2>1, <2>2, <2>3 DEF Child!ChildNext, Child!Spawn, Child!Empty, Child!NoLines, Tallied
<1>3. ASSUME SkipWrongXlen \/ NoEncoding \/ AssembleFails \/ PrintVerdict
      PROVE  Child!ChildNext
  <2>1. PICK word \in Words : PrintLine(word)
    BY <1>3 DEF SkipWrongXlen, NoEncoding, AssembleFails, PrintVerdict, Words
  <2>2. pc \in {"insn", "verdict"} /\ pos \in 1 .. Len(Order) /\ summary' = summary
    BY <1>3, LenOrder DEF SkipWrongXlen, NoEncoding, AssembleFails, PrintVerdict, AtInsn,
                          IInv, InRange, Working
  <2>3. Child!PrintVerdict(word)
    BY <2>1, <2>2, ChildPrints
  <2> QED
    BY <2>3 DEF Child!ChildNext, Child!ChildProgress
<1>4. ASSUME Generate \/ GenerateFails \/ Annotate \/ RunSail \/ RunSpike \/ RunQemu
      PROVE  UNCHANGED Child!childVars
  <2>1. UNCHANGED <<printed, summary, pos>>
    BY <1>4 DEF Generate, GenerateFails, Annotate, RunSail, RunSpike, RunQemu, Simulate
  <2>2. pc \notin {"idle", "exited"} /\ pc' \notin {"idle", "exited"}
    BY <1>4 DEF Generate, GenerateFails, Annotate, RunSail, RunSpike, RunQemu, Simulate, AtInsn
  <2> QED
    BY <1>1, <2>1, <2>2
<1>5. ASSUME PrintSummary PROVE Child!ChildNext
  <2>1. /\ pos = Len(Order) + 1 /\ pos' = pos /\ pc = "insn" /\ pc' = "manifest"
        /\ printed' = printed /\ summary = <<>>
    BY <1>5, LenOrder DEF PrintSummary, IInv, InRange, NoSummaryYet
  <2>2. summary' # <<>>
    BY <1>5 DEF PrintSummary
  <2>3. Len(Order) + 1 - pos = 0 /\ pos # 0
    BY <2>1, LenOrder
  <2>4. [[lines |-> Tallied, end |-> "cut"] EXCEPT !.end = "summary"]
        = [lines |-> Tallied, end |-> "summary"]
    BY FieldEnd, Zenon
  <2>6. Tallied' = Tallied
    BY <2>1 DEF Tallied
  <2>5. Child!PrintSummary
    BY <2>1, <2>2, <2>3, <2>4, <2>6 DEF Child!PrintSummary, Tallied
  <2> QED
    BY <2>5 DEF Child!ChildNext, Child!ChildProgress
<1>6. ASSUME WriteIndex \/ Die PROVE Child!ChildNext
  <2>1. /\ pc \notin {"idle", "exited"} /\ pc' = "exited" /\ UNCHANGED <<printed, summary, pos>>
    BY <1>6 DEF WriteIndex, Die, runVars
  <2>2. Child!CloseOutput
    BY <2>1 DEF Child!CloseOutput
  <2> QED
    BY <2>2 DEF Child!ChildNext, Child!ChildProgress
<1>7. ASSUME Reaped PROVE Child!ChildNext
  <2>1. pc = "exited" /\ pc' = "idle" /\ UNCHANGED <<printed, summary, pos>>
    BY <1>7 DEF Reaped, runVars
  <2>2. Child!Reaped
    BY <2>1 DEF Child!Reaped
  <2> QED
    BY <2>2 DEF Child!ChildNext
<1>8. CASE UNCHANGED vars
  BY <1>1, <1>8 DEF vars
<1> QED
  BY <1>2, <1>3, <1>4, <1>5, <1>6, <1>7, <1>8 DEF Next, Step

(* One sweep is what its driver takes it for: one line per instruction,    *)
(* then the summary, and it may stop anywhere.                             *)
THEOREM SweepIsAChild == Spec => ImplementsChild
<1> QED
  BY ChildInitially, ChildStep, InitIInv, Invariance, PTL
     DEF Spec, ImplementsChild, Child!ChildSpec
-----------------------------------------------------------------------------
(***************************************************************************)
(* What the sweep gives to isla-testgen, from here on.                     *)
(***************************************************************************)

(* A set with zero and the successor of each of its numbers has them all.  *)
LEMMA NumbersBySuccession ==
    ASSUME NEW S, 0 \in S, \A n \in Nat : n \in S => n + 1 \in S
    PROVE  Nat \subseteq S
<1> SUFFICES ASSUME Nat \ S # {} PROVE FALSE
  OBVIOUS
<1>1. PICK m \in Nat \ S : \A n \in Nat \ S : ~(<<n, m>> \in OpToRel(<, Nat))
  BY WFMin, NatLessThanWellFounded, Zenon
<1>2. m # 0 /\ m \in Nat /\ m - 1 \in Nat /\ (m - 1) + 1 = m /\ m - 1 < m
  OBVIOUS
<1>3. m - 1 \in Nat \ S
  BY <1>2
<1>4. <<m - 1, m>> \in OpToRel(<, Nat)
  <2>1. <<m - 1, m>> \in Nat \X Nat /\ <<m - 1, m>>[1] < <<m - 1, m>>[2]
    BY <1>2
  <2> QED
    BY <2>1, Zenon DEF OpToRel
<1> QED
  BY <1>1, <1>3, <1>4

(* Rendering, operand by operand. *)
LEMMA RenderingStepwise ==
    ASSUME NEW insn, NEW xl, NEW kinds, Len(kinds) \in Nat
    PROVE  /\ Rendering(insn, xl, kinds)[0] = Prelude(insn)
           /\ \A n \in 1 .. Len(kinds) :
                 Rendering(insn, xl, kinds)[n] = RenderOne(Rendering(insn, xl, kinds)[n - 1], insn, kinds[n], xl)
<1> DEFINE N == Len(kinds)
           Base == Prelude(insn)
           Next1(n, old) == RenderOne(old, insn, kinds[n], xl)
           Unfold(f) == [n \in 0 .. N |-> IF n = 0 THEN Base ELSE Next1(n, f[n - 1])]
           F == CHOOSE f : f = Unfold(f)
           First(m, g) == \A n \in 0 .. m : g[n] = IF n = 0 THEN Base ELSE Next1(n, g[n - 1])
           Reached == {m \in Nat : \E g : g = [n \in 0 .. m |-> g[n]] /\ First(m, g)}
<1>1. Rendering(insn, xl, kinds) = F
  BY DEF Rendering
<1>2. F = Unfold(F) => F[0] = Base /\ \A n \in 1 .. N : F[n] = Next1(n, F[n - 1])
  <2> SUFFICES ASSUME F = Unfold(F)
               PROVE  F[0] = Base /\ \A n \in 1 .. N : F[n] = Next1(n, F[n - 1])
    OBVIOUS
  <2> HIDE DEF F
  <2> DEFINE OneStep(n) == IF n = 0 THEN Base ELSE Next1(n, F[n - 1])
  <2>1. F = [n \in 0 .. N |-> OneStep(n)]
    OBVIOUS
  <2> HIDE DEF OneStep
  <2>2. \A n \in 0 .. N : F[n] = OneStep(n)
    BY <2>1
  <2>3. 0 \in 0 .. N /\ \A n \in 1 .. N : n \in 0 .. N /\ n # 0
    OBVIOUS
  <2> QED
    BY <2>2, <2>3 DEF OneStep
<1> HIDE DEF Next1, Base
<1>3. 0 \in Reached
  <2> DEFINE g == [n \in 0 .. 0 |-> Base]
  <2>1. g = [n \in 0 .. 0 |-> g[n]] /\ First(0, g)
    OBVIOUS
  <2> HIDE DEF g
  <2> QED
    BY <2>1
<1>4. ASSUME NEW m \in Nat, m \in Reached PROVE m + 1 \in Reached
  <2>1. PICK g : g = [n \in 0 .. m |-> g[n]] /\ First(m, g)
    BY <1>4
  <2> DEFINE h == [n \in 0 .. m + 1 |-> IF n = m + 1 THEN Next1(m + 1, g[m]) ELSE g[n]]
  <2>2. h = [n \in 0 .. m + 1 |-> h[n]]
    OBVIOUS
  <2>3. /\ h[m + 1] = Next1(m + 1, h[m])
        /\ \A n \in 0 .. m : h[n] = g[n] /\ (n # 0 => h[n - 1] = g[n - 1])
    OBVIOUS
  <2> HIDE DEF h
  <2>4. ASSUME NEW n \in 0 .. m + 1
        PROVE  h[n] = IF n = 0 THEN Base ELSE Next1(n, h[n - 1])
    <3>1. CASE n = m + 1
      <4>1. n # 0 /\ n - 1 = m
        BY <3>1
      <4> QED
        BY <2>3, <3>1, <4>1
    <3>2. CASE n \in 0 .. m
      BY <2>1, <2>3, <3>2
    <3> QED
      BY <3>1, <3>2
  <2>5. First(m + 1, h)
    BY <2>4
  <2> HIDE DEF First
  <2> QED
    BY <2>2, <2>5
<1>5. \E f : f = Unfold(f)
  <2> HIDE DEF Reached
  <2>1. N \in Reached
    BY <1>3, <1>4, NumbersBySuccession
  <2>2. PICK g : g = [n \in 0 .. N |-> g[n]] /\ First(N, g)
    BY <2>1 DEF Reached
  <2>3. g = Unfold(g)
    BY <2>2
  <2> HIDE DEF Unfold
  <2> QED
    BY <2>3
<1>6. F = Unfold(F)
  <2> HIDE DEF Unfold
  <2> QED
    BY <1>5
<1> HIDE DEF F
<1> QED
  BY <1>1, <1>2, <1>6 DEF Next1, Base

(* Leaving out kinds, member by member. *)
LEMMA KeepingStepwise ==
    ASSUME NEW s, NEW ks, Len(s) \in Nat
    PROVE  /\ Keeping(s, ks)[0] = <<>>
           /\ \A n \in 1 .. Len(s) :
                 Keeping(s, ks)[n] = IF s[n].k \in ks THEN Keeping(s, ks)[n - 1]
                 ELSE Append(Keeping(s, ks)[n - 1], s[n])
<1> DEFINE N == Len(s)
           Base == <<>>
           Next1(n, old) == IF s[n].k \in ks THEN old ELSE Append(old, s[n])
           Unfold(f) == [n \in 0 .. N |-> IF n = 0 THEN Base ELSE Next1(n, f[n - 1])]
           F == CHOOSE f : f = Unfold(f)
           First(m, g) == \A n \in 0 .. m : g[n] = IF n = 0 THEN Base ELSE Next1(n, g[n - 1])
           Reached == {m \in Nat : \E g : g = [n \in 0 .. m |-> g[n]] /\ First(m, g)}
<1>1. Keeping(s, ks) = F
  BY DEF Keeping
<1>2. F = Unfold(F) => F[0] = Base /\ \A n \in 1 .. N : F[n] = Next1(n, F[n - 1])
  <2> SUFFICES ASSUME F = Unfold(F)
               PROVE  F[0] = Base /\ \A n \in 1 .. N : F[n] = Next1(n, F[n - 1])
    OBVIOUS
  <2> HIDE DEF F
  <2> DEFINE OneStep(n) == IF n = 0 THEN Base ELSE Next1(n, F[n - 1])
  <2>1. F = [n \in 0 .. N |-> OneStep(n)]
    OBVIOUS
  <2> HIDE DEF OneStep
  <2>2. \A n \in 0 .. N : F[n] = OneStep(n)
    BY <2>1
  <2>3. 0 \in 0 .. N /\ \A n \in 1 .. N : n \in 0 .. N /\ n # 0
    OBVIOUS
  <2> QED
    BY <2>2, <2>3 DEF OneStep
<1> HIDE DEF Next1, Base
<1>3. 0 \in Reached
  <2> DEFINE g == [n \in 0 .. 0 |-> Base]
  <2>1. g = [n \in 0 .. 0 |-> g[n]] /\ First(0, g)
    OBVIOUS
  <2> HIDE DEF g
  <2> QED
    BY <2>1
<1>4. ASSUME NEW m \in Nat, m \in Reached PROVE m + 1 \in Reached
  <2>1. PICK g : g = [n \in 0 .. m |-> g[n]] /\ First(m, g)
    BY <1>4
  <2> DEFINE h == [n \in 0 .. m + 1 |-> IF n = m + 1 THEN Next1(m + 1, g[m]) ELSE g[n]]
  <2>2. h = [n \in 0 .. m + 1 |-> h[n]]
    OBVIOUS
  <2>3. /\ h[m + 1] = Next1(m + 1, h[m])
        /\ \A n \in 0 .. m : h[n] = g[n] /\ (n # 0 => h[n - 1] = g[n - 1])
    OBVIOUS
  <2> HIDE DEF h
  <2>4. ASSUME NEW n \in 0 .. m + 1
        PROVE  h[n] = IF n = 0 THEN Base ELSE Next1(n, h[n - 1])
    <3>1. CASE n = m + 1
      <4>1. n # 0 /\ n - 1 = m
        BY <3>1
      <4> QED
        BY <2>3, <3>1, <4>1
    <3>2. CASE n \in 0 .. m
      BY <2>1, <2>3, <3>2
    <3> QED
      BY <3>1, <3>2
  <2>5. First(m + 1, h)
    BY <2>4
  <2> HIDE DEF First
  <2> QED
    BY <2>2, <2>5
<1>5. \E f : f = Unfold(f)
  <2> HIDE DEF Reached
  <2>1. N \in Reached
    BY <1>3, <1>4, NumbersBySuccession
  <2>2. PICK g : g = [n \in 0 .. N |-> g[n]] /\ First(N, g)
    BY <2>1 DEF Reached
  <2>3. g = Unfold(g)
    BY <2>2
  <2> HIDE DEF Unfold
  <2> QED
    BY <2>3
<1>6. F = Unfold(F)
  <2> HIDE DEF Unfold
  <2> QED
    BY <1>5
<1> HIDE DEF F
<1> QED
  BY <1>1, <1>2, <1>6 DEF Next1, Base

(* Executing a prelude, instruction by instruction. *)
LEMMA ExecutingStepwise ==
    ASSUME NEW prelude, NEW xl, Len(prelude) \in Nat
    PROVE  /\ Executing(prelude, xl)[0] = Unset
           /\ \A n \in 1 .. Len(prelude) :
                 Executing(prelude, xl)[n] = After(prelude[n], xl, Executing(prelude, xl)[n - 1])
<1> DEFINE N == Len(prelude)
           Base == Unset
           Next1(n, old) == After(prelude[n], xl, old)
           Unfold(f) == [n \in 0 .. N |-> IF n = 0 THEN Base ELSE Next1(n, f[n - 1])]
           F == CHOOSE f : f = Unfold(f)
           First(m, g) == \A n \in 0 .. m : g[n] = IF n = 0 THEN Base ELSE Next1(n, g[n - 1])
           Reached == {m \in Nat : \E g : g = [n \in 0 .. m |-> g[n]] /\ First(m, g)}
<1>1. Executing(prelude, xl) = F
  BY DEF Executing
<1>2. F = Unfold(F) => F[0] = Base /\ \A n \in 1 .. N : F[n] = Next1(n, F[n - 1])
  <2> SUFFICES ASSUME F = Unfold(F)
               PROVE  F[0] = Base /\ \A n \in 1 .. N : F[n] = Next1(n, F[n - 1])
    OBVIOUS
  <2> HIDE DEF F
  <2> DEFINE OneStep(n) == IF n = 0 THEN Base ELSE Next1(n, F[n - 1])
  <2>1. F = [n \in 0 .. N |-> OneStep(n)]
    OBVIOUS
  <2> HIDE DEF OneStep
  <2>2. \A n \in 0 .. N : F[n] = OneStep(n)
    BY <2>1
  <2>3. 0 \in 0 .. N /\ \A n \in 1 .. N : n \in 0 .. N /\ n # 0
    OBVIOUS
  <2> QED
    BY <2>2, <2>3 DEF OneStep
<1> HIDE DEF Next1, Base
<1>3. 0 \in Reached
  <2> DEFINE g == [n \in 0 .. 0 |-> Base]
  <2>1. g = [n \in 0 .. 0 |-> g[n]] /\ First(0, g)
    OBVIOUS
  <2> HIDE DEF g
  <2> QED
    BY <2>1
<1>4. ASSUME NEW m \in Nat, m \in Reached PROVE m + 1 \in Reached
  <2>1. PICK g : g = [n \in 0 .. m |-> g[n]] /\ First(m, g)
    BY <1>4
  <2> DEFINE h == [n \in 0 .. m + 1 |-> IF n = m + 1 THEN Next1(m + 1, g[m]) ELSE g[n]]
  <2>2. h = [n \in 0 .. m + 1 |-> h[n]]
    OBVIOUS
  <2>3. /\ h[m + 1] = Next1(m + 1, h[m])
        /\ \A n \in 0 .. m : h[n] = g[n] /\ (n # 0 => h[n - 1] = g[n - 1])
    OBVIOUS
  <2> HIDE DEF h
  <2>4. ASSUME NEW n \in 0 .. m + 1
        PROVE  h[n] = IF n = 0 THEN Base ELSE Next1(n, h[n - 1])
    <3>1. CASE n = m + 1
      <4>1. n # 0 /\ n - 1 = m
        BY <3>1
      <4> QED
        BY <2>3, <3>1, <4>1
    <3>2. CASE n \in 0 .. m
      BY <2>1, <2>3, <3>2
    <3> QED
      BY <3>1, <3>2
  <2>5. First(m + 1, h)
    BY <2>4
  <2> HIDE DEF First
  <2> QED
    BY <2>2, <2>5
<1>5. \E f : f = Unfold(f)
  <2> HIDE DEF Reached
  <2>1. N \in Reached
    BY <1>3, <1>4, NumbersBySuccession
  <2>2. PICK g : g = [n \in 0 .. N |-> g[n]] /\ First(N, g)
    BY <2>1 DEF Reached
  <2>3. g = Unfold(g)
    BY <2>2
  <2> HIDE DEF Unfold
  <2> QED
    BY <2>3
<1>6. F = Unfold(F)
  <2> HIDE DEF Unfold
  <2> QED
    BY <1>5
<1> HIDE DEF F
<1> QED
  BY <1>1, <1>2, <1>6 DEF Next1, Base

(* The types of what an instruction is rendered to.                        *)
OpNames == {"vsetvli", "li", "lui", "slli", "srli", "stride"}
Files == {"x", "f", "v", "imm", "label", "mem", "lit", "csr"}
PreludeOps == [op : OpNames, rd : 0 .. 31, arg : Int \cup (Int \X Int)]
Operands == [file : Files, n : Int, text : STRING \cup {"", "0"}]
IsRendering(n, st) ==
    /\ DOMAIN st = {"x", "f", "cx", "cf", "v", "prelude", "parts", "trailer"}
    /\ st.x \in 1 .. n + 2 /\ st.f \in 1 .. n + 1
    /\ st.cx \in 8 .. n + 8 /\ st.cf \in 8 .. n + 8 /\ st.v \in 0 .. n
    /\ st.prelude \in Seq(PreludeOps) /\ st.parts \in Seq(Operands)
IsRegisters(regs) == DOMAIN regs = 0 .. 31 /\ regs = [r \in 0 .. 31 |-> regs[r]]

(* One instruction more of the prelude is one step more of it.             *)
LEMMA ExecutedAppend ==
    ASSUME NEW prelude \in Seq(PreludeOps), NEW op \in PreludeOps, NEW xl
    PROVE  Executed(Append(prelude, op), xl) = After(op, xl, Executed(prelude, xl))
<1> DEFINE more == Append(prelude, op)
           A == Executing(prelude, xl)
           B == Executing(more, xl)
           Same == {n \in Nat : n <= Len(prelude) => B[n] = A[n]}
<1>1. /\ Len(prelude) \in Nat /\ Len(more) \in Nat /\ Len(more) = Len(prelude) + 1
      /\ \A n \in 1 .. Len(prelude) : more[n] = prelude[n]
      /\ more[Len(more)] = op
  OBVIOUS
<1> HIDE DEF more
<1>2. /\ A[0] = Unset
      /\ \A n \in 1 .. Len(prelude) : A[n] = After(prelude[n], xl, A[n - 1])
  BY <1>1, ExecutingStepwise
<1>3. /\ B[0] = Unset
      /\ \A n \in 1 .. Len(more) : B[n] = After(more[n], xl, B[n - 1])
  BY <1>1, ExecutingStepwise
<1> HIDE DEF A, B
<1>4. 0 \in Same
  BY <1>2, <1>3
<1>5. ASSUME NEW n \in Nat, n \in Same PROVE n + 1 \in Same
  <2> SUFFICES ASSUME n + 1 <= Len(prelude) PROVE B[n + 1] = A[n + 1]
    OBVIOUS
  <2>1. n + 1 \in 1 .. Len(prelude) /\ n + 1 \in 1 .. Len(more) /\ (n + 1) - 1 = n /\ B[n] = A[n]
    BY <1>1, <1>5
  <2>2. A[n + 1] = After(prelude[n + 1], xl, A[n])
    BY <1>2, <2>1
  <2>3. B[n + 1] = After(more[n + 1], xl, B[n])
    BY <1>3, <2>1
  <2> QED
    BY <1>1, <2>1, <2>2, <2>3
<1> HIDE DEF Same
<1>6. Len(prelude) \in Same
  BY <1>1, <1>4, <1>5, NumbersBySuccession
<1>7. B[Len(prelude)] = A[Len(prelude)]
  BY <1>1, <1>6 DEF Same
<1>8. Len(more) \in 1 .. Len(more) /\ Len(more) - 1 = Len(prelude)
  BY <1>1
<1>9. B[Len(more)] = After(more[Len(more)], xl, B[Len(more) - 1])
  BY <1>3, <1>8
<1> QED
  BY <1>1, <1>7, <1>8, <1>9 DEF more, A, B, Executed

(* What precedes an instruction is well typed.                             *)
LEMMA OpTyped ==
    ASSUME NEW name \in OpNames, NEW rd \in 0 .. 31, NEW arg \in Int \cup (Int \X Int)
    PROVE  Op(name, rd, arg) \in PreludeOps /\ Op(name, rd, arg).rd = rd
BY DEF Op, PreludeOps

(* An instruction of the prelude leaves all registers but its own.         *)
LEMMA AfterFrame ==
    ASSUME NEW op \in PreludeOps, NEW xl, NEW regs, IsRegisters(regs)
    PROVE  /\ IsRegisters(After(op, xl, regs))
           /\ After(op, xl, regs)[op.rd] = Value(op, xl, regs[op.rd])
           /\ \A r \in 0 .. 31 : r # op.rd => After(op, xl, regs)[r] = regs[r]
<1>1. op.rd \in 0 .. 31
  BY DEF PreludeOps
<1> QED
  BY <1>1 DEF IsRegisters, After

(* What loading the address leaves, at each step.                          *)
LEMMA Lui ==
    ASSUME NEW rd, NEW xl, NEW old
    PROVE  Value(Op("lui", rd, SAFE_PAGE), xl, old)
             = <<"known", IF xl = 64 /\ SAFE_PAGE >= 2 ^ 19 THEN -1 ELSE 0, SAFE_PAGE>>
BY SMT DEF Value, Op

LEMMA Shifts ==
    ASSUME NEW rd, NEW xl, NEW a, NEW b, NEW c
    PROVE  /\ Value(Op("slli", rd, 32), xl, <<a, b, c>>) = <<a, c, 0>>
           /\ Value(Op("srli", rd, 32), xl, <<a, b, c>>) = <<a, 0, b>>
BY SMT DEF Value, Op

LEMMA Constants ==
    ASSUME NEW rd, NEW xl, NEW old, NEW arg
    PROVE  /\ Value(Op("li", rd, arg), xl, old) = <<"known", 0, arg>>
           /\ Value(Op("stride", rd, arg), xl, old) = Bounded
BY SMT DEF Value, Op

(* A longer prelude, of which the addition leaves a value in rd.           *)
Extends(prelude, more, rd, value, xl) ==
    /\ more \in Seq(PreludeOps)
    /\ IsRegisters(Executed(more, xl))
    /\ Executed(more, xl)[rd] = value
    /\ \A r \in 0 .. 31 : r # rd => Executed(more, xl)[r] = Executed(prelude, xl)[r]
    /\ prelude # <<>> => more # <<>> /\ more[1] = prelude[1]

LEMMA ExtendsOn ==
    ASSUME NEW a, NEW b, NEW c, NEW rd \in 0 .. 31, NEW u, NEW v, NEW xl,
           Extends(a, b, rd, u, xl), Extends(b, c, rd, v, xl)
    PROVE  Extends(a, c, rd, v, xl)
BY DEF Extends

(* One instruction more: its register changes, the others do not.          *)
LEMMA OneMore ==
    ASSUME NEW prelude \in Seq(PreludeOps), NEW op \in PreludeOps, NEW xl,
           IsRegisters(Executed(prelude, xl))
    PROVE  Extends(prelude, Append(prelude, op), op.rd,
                   Value(op, xl, Executed(prelude, xl)[op.rd]), xl)
<1>1. /\ Append(prelude, op) \in Seq(PreludeOps)
      /\ prelude # <<>> => Append(prelude, op) # <<>> /\ Append(prelude, op)[1] = prelude[1]
  OBVIOUS
<1>2. Executed(Append(prelude, op), xl) = After(op, xl, Executed(prelude, xl))
  BY ExecutedAppend
<1> QED
  BY <1>1, <1>2, AfterFrame DEF Extends

(* The base register is loaded with the region's address at both XLENs.    *)
LEMMA SafeAddressLoads ==
    ASSUME NEW prelude \in Seq(PreludeOps), NEW rd \in 0 .. 31, NEW xl \in Xlens,
           IsRegisters(Executed(prelude, xl))
    PROVE  Extends(prelude, prelude \o SafeAddress(rd, xl), rd, Region, xl)
<1>1. SAFE_PAGE \in Int \cup (Int \X Int) /\ 32 \in Int \cup (Int \X Int)
  BY SMT DEF SAFE_PAGE
<1> DEFINE lui == Op("lui", rd, SAFE_PAGE)
           slli == Op("slli", rd, 32)
           srli == Op("srli", rd, 32)
           p1 == Append(prelude, lui)
           p2 == Append(p1, slli)
           p3 == Append(p2, srli)
           upper == IF xl = 64 /\ SAFE_PAGE >= 2 ^ 19 THEN -1 ELSE 0
<1>2. /\ lui \in PreludeOps /\ lui.rd = rd
      /\ slli \in PreludeOps /\ slli.rd = rd
      /\ srli \in PreludeOps /\ srli.rd = rd
  <2>1. "lui" \in OpNames /\ "slli" \in OpNames /\ "srli" \in OpNames
    BY DEF OpNames
  <2> QED
    BY <1>1, <2>1, OpTyped
<1>3. Value(lui, xl, Executed(prelude, xl)[rd]) = <<"known", upper, SAFE_PAGE>>
  BY Lui
<1>4. /\ Value(slli, xl, <<"known", upper, SAFE_PAGE>>) = <<"known", SAFE_PAGE, 0>>
      /\ Value(srli, xl, <<"known", SAFE_PAGE, 0>>) = <<"known", 0, SAFE_PAGE>>
  BY Shifts
<1>5. /\ xl = 64 => SafeAddress(rd, xl) = <<lui, slli, srli>>
      /\ xl # 64 => SafeAddress(rd, xl) = <<lui>>
  BY DEF SafeAddress
<1>6. xl # 64 => upper = 0
  OBVIOUS
<1> HIDE DEF lui, slli, srli, upper
<1>7. prelude \o <<lui, slli, srli>> = p3 /\ prelude \o <<lui>> = p1
  BY <1>2
<1>8. Extends(prelude, p1, rd, <<"known", upper, SAFE_PAGE>>, xl)
  BY <1>2, <1>3, OneMore
<1> HIDE DEF p1
<1>9. p1 \in Seq(PreludeOps) /\ IsRegisters(Executed(p1, xl))
      /\ Executed(p1, xl)[rd] = <<"known", upper, SAFE_PAGE>>
  BY <1>8 DEF Extends
<1>10. Extends(p1, p2, rd, <<"known", SAFE_PAGE, 0>>, xl)
  BY <1>2, <1>4, <1>9, OneMore
<1> HIDE DEF p2
<1>11. p2 \in Seq(PreludeOps) /\ IsRegisters(Executed(p2, xl))
       /\ Executed(p2, xl)[rd] = <<"known", SAFE_PAGE, 0>>
  BY <1>10 DEF Extends
<1>12. Extends(p2, p3, rd, <<"known", 0, SAFE_PAGE>>, xl)
  BY <1>2, <1>4, <1>11, OneMore
<1> HIDE DEF p3
<1>13. Extends(prelude, p3, rd, <<"known", 0, SAFE_PAGE>>, xl)
  BY <1>8, <1>10, <1>12, ExtendsOn
<1>14. CASE xl = 64
  BY <1>5, <1>7, <1>13, <1>14 DEF Region
<1>15. CASE xl # 64
  BY <1>5, <1>6, <1>7, <1>8, <1>15 DEF Region
<1> QED
  BY <1>14, <1>15

(***************************************************************************)
(* What rendering keeps, operand by operand.                               *)
(***************************************************************************)
Vregs(kinds, n) == {q \in 1 .. n : kinds[q].k = "vreg"}

(* The assembler takes the operand rendered for this kind.                 *)
Fits(insn, kind, part) ==
    /\ part \in Operands
    /\ kind.k # "lit" => TakesOperand(insn, kind, part)
    /\ part.file = "v" <=> kind.k = "vreg"
    /\ part.file = "mem" <=> kind.k = "mem"
    /\ kind.k = "reg" => part.file = "x"

(* Operands that an instruction can be rendered with.                      *)
Renderable(insn, kinds) ==
    /\ Len(kinds) \in 0 .. 8
    /\ \A p \in 1 .. Len(kinds) : IsOperand(kinds[p])
    /\ \A p, q \in 1 .. Len(kinds) : kinds[p].k = "mem" /\ kinds[q].k = "mem" => p = q
    /\ insn.union \in DOMAIN IMM_OVERRIDE =>
          \A p \in 1 .. Len(kinds) : kinds[p].k = "imm" => kinds[p].bits > 4
    /\ insn.union \in STRIDED_UNIONS =>
          \A p \in 1 .. Len(kinds) : kinds[p].k = "mem" => kinds[p].base = "reg"

PartsFit(insn, kinds, n, st) ==
    /\ Len(st.parts) = n
    /\ \A q \in 1 .. n : Fits(insn, kinds[q], st.parts[q])
VregsInOrder(kinds, n, st) ==
    /\ st.v = Cardinality(Vregs(kinds, n))
    /\ \A q \in Vregs(kinds, n) : st.parts[q].n = Vreg(Cardinality(Vregs(kinds, q)) - 1)
VtypeIsSet(insn, st) ==
    At(insn.kinds, "vreg") # {} =>
        /\ st.prelude # <<>>
        /\ st.prelude[1] = Op("vsetvli", 1, <<Sew(insn.mnemonic), Lmul(insn.mnemonic)>>)

(* The prelude so far leaves the region's address in each base, and the    *)
(* stride in each register of a strided access but its destination.        *)
PointersAreSet(insn, kinds, n, st, xl) ==
    /\ IsRegisters(Executed(st.prelude, xl))
    /\ insn.union \notin CODE_MEM_UNIONS =>
          \A q \in 1 .. n : kinds[q].k = "mem" =>
              Executed(st.prelude, xl)[st.parts[q].n] = Region /\ st.parts[q].n \in 0 .. 31
    /\ insn.union \in STRIDED_UNIONS =>
          \A q \in 1 .. n : kinds[q].k \in {"mem", "reg"} =>
              /\ st.parts[q].n \in 1 .. st.x - 1
              /\ kinds[q].k = "reg" /\ q > 1 =>
                    Executed(st.prelude, xl)[st.parts[q].n] = Bounded

Rendered(insn, kinds, n, st, xl) ==
    /\ IsRendering(n, st)
    /\ PartsFit(insn, kinds, n, st)
    /\ VregsInOrder(kinds, n, st)
    /\ VtypeIsSet(insn, st)
    /\ PointersAreSet(insn, kinds, n, st, xl)

LEMMA VregsFinite ==
    ASSUME NEW kinds, NEW n \in Nat
    PROVE  IsFiniteSet(Vregs(kinds, n)) /\ Cardinality(Vregs(kinds, n)) \in Nat
           /\ Cardinality(Vregs(kinds, n)) <= n
<1>1. IsFiniteSet(1 .. n) /\ Cardinality(1 .. n) = n
  BY FS_Interval
<1>2. Vregs(kinds, n) \subseteq 1 .. n
  BY DEF Vregs
<1> QED
  BY <1>1, <1>2, FS_Subset, FS_CardinalityType

LEMMA VregsNext ==
    ASSUME NEW kinds, NEW n \in Nat
    PROVE  Cardinality(Vregs(kinds, n + 1)) =
              IF kinds[n + 1].k = "vreg" THEN Cardinality(Vregs(kinds, n)) + 1
              ELSE Cardinality(Vregs(kinds, n))
<1>1. CASE kinds[n + 1].k = "vreg"
  <2>1. Vregs(kinds, n + 1) = Vregs(kinds, n) \cup {n + 1} /\ n + 1 \notin Vregs(kinds, n)
    BY <1>1 DEF Vregs
  <2> QED
    BY <1>1, <2>1, VregsFinite, FS_AddElement
<1>2. CASE kinds[n + 1].k # "vreg"
  <2>1. Vregs(kinds, n + 1) = Vregs(kinds, n)
    BY <1>2 DEF Vregs
  <2> QED
    BY <1>2, <2>1
<1> QED
  BY <1>1, <1>2

(* The operands before n + 1 are as they were.                             *)
LEMMA PartsGrow ==
    ASSUME NEW insn, NEW kinds, NEW n \in Nat, NEW old, NEW new, NEW part \in Operands,
           old.parts \in Seq(Operands), PartsFit(insn, kinds, n, old),
           new.parts = Append(old.parts, part), Fits(insn, kinds[n + 1], part)
    PROVE  PartsFit(insn, kinds, n + 1, new)
<1>1. Len(old.parts) = n /\ \A q \in 1 .. n : Fits(insn, kinds[q], old.parts[q])
  BY DEF PartsFit
<1>2. /\ Len(new.parts) = n + 1 /\ new.parts[n + 1] = part
      /\ \A q \in 1 .. n : new.parts[q] = old.parts[q]
  BY <1>1
<1>3. \A q \in 1 .. n + 1 : q \in 1 .. n \/ q = n + 1
  OBVIOUS
<1> QED
  BY <1>1, <1>2, <1>3 DEF PartsFit

LEMMA VregsGrow ==
    ASSUME NEW kinds, NEW n \in Nat, NEW old, NEW new,
           VregsInOrder(kinds, n, old),
           \A q \in 1 .. n : new.parts[q] = old.parts[q],
           kinds[n + 1].k = "vreg" => new.v = old.v + 1 /\ new.parts[n + 1].n = Vreg(old.v),
           kinds[n + 1].k # "vreg" => new.v = old.v
    PROVE  VregsInOrder(kinds, n + 1, new)
<1>1. /\ old.v = Cardinality(Vregs(kinds, n)) /\ old.v \in Nat
      /\ new.v = Cardinality(Vregs(kinds, n + 1))
  BY VregsFinite, VregsNext DEF VregsInOrder
<1>2. ASSUME NEW q \in Vregs(kinds, n + 1)
      PROVE  new.parts[q].n = Vreg(Cardinality(Vregs(kinds, q)) - 1)
  <2>1. CASE q = n + 1
    <3>1. kinds[n + 1].k = "vreg"
      BY <2>1 DEF Vregs
    <3>2. Cardinality(Vregs(kinds, q)) - 1 = old.v
      BY <1>1, <2>1, <3>1
    <3> QED
      BY <2>1, <3>1, <3>2
  <2>2. CASE q # n + 1
    <3>1. q \in Vregs(kinds, n) /\ q \in 1 .. n
      BY <2>2 DEF Vregs
    <3> QED
      BY <3>1 DEF VregsInOrder
  <2> QED
    BY <2>1, <2>2
<1> QED
  BY <1>1, <1>2 DEF VregsInOrder

(* An operand for which nothing is set up.                                 *)
LEMMA PointersStay ==
    ASSUME NEW insn, NEW kinds, NEW n \in Nat, NEW old, NEW new, NEW xl,
           PointersAreSet(insn, kinds, n, old, xl),
           \A q \in 1 .. n : new.parts[q] = old.parts[q],
           old.x \in Nat, new.x \in Nat, new.x >= old.x,
           new.prelude = old.prelude,
           kinds[n + 1].k = "mem" => insn.union \in CODE_MEM_UNIONS,
           insn.union \in STRIDED_UNIONS /\ kinds[n + 1].k = "reg" =>
               n = 0 /\ new.parts[n + 1].n \in 1 .. new.x - 1
    PROVE  PointersAreSet(insn, kinds, n + 1, new, xl)
<1>1. IsRegisters(Executed(new.prelude, xl))
  BY DEF PointersAreSet
<1>2. ASSUME insn.union \notin CODE_MEM_UNIONS, NEW q \in 1 .. n + 1, kinds[q].k = "mem"
      PROVE  Executed(new.prelude, xl)[new.parts[q].n] = Region /\ new.parts[q].n \in 0 .. 31
  <2>1. q \in 1 .. n
    BY <1>2
  <2> QED
    BY <1>2, <2>1 DEF PointersAreSet
<1>3. ASSUME insn.union \in STRIDED_UNIONS, NEW q \in 1 .. n + 1, kinds[q].k \in {"mem", "reg"}
      PROVE  /\ new.parts[q].n \in 1 .. new.x - 1
             /\ kinds[q].k = "reg" /\ q > 1 => Executed(new.prelude, xl)[new.parts[q].n] = Bounded
  <2>1. CASE q \in 1 .. n
    <3>1. /\ old.parts[q].n \in 1 .. old.x - 1
          /\ kinds[q].k = "reg" /\ q > 1 => Executed(old.prelude, xl)[old.parts[q].n] = Bounded
      BY <1>3, <2>1 DEF PointersAreSet
    <3> QED
      BY <2>1, <3>1
  <2>2. CASE q = n + 1
    <3>1. kinds[n + 1].k = "reg"
      BY <1>3, <2>2 DEF STRIDED_UNIONS, CODE_MEM_UNIONS
    <3> QED
      BY <1>3, <2>2, <3>1
  <2> QED
    BY <2>1, <2>2
<1> QED
  BY <1>1, <1>2, <1>3 DEF PointersAreSet

(* An operand for which a register is set up that was not in use.          *)
LEMMA PointersGrow ==
    ASSUME NEW insn, NEW kinds, NEW n \in Nat, NEW old, NEW new, NEW xl, NEW value,
           PointersAreSet(insn, kinds, n, old, xl),
           \A q \in 1 .. n : new.parts[q] = old.parts[q],
           old.x \in Nat, new.x \in Nat, new.x >= old.x, old.x <= 32,
           Extends(old.prelude, new.prelude, new.parts[n + 1].n, value, xl),
           new.parts[n + 1].n \in 0 .. 31,
           kinds[n + 1].k \in {"mem", "reg"},
           kinds[n + 1].k = "mem" => value = Region /\ \A q \in 1 .. n : kinds[q].k # "mem",
           kinds[n + 1].k = "reg" => value = Bounded /\ insn.union \in STRIDED_UNIONS,
           insn.union \in STRIDED_UNIONS => new.parts[n + 1].n = old.x /\ new.x = old.x + 1
                                            /\ old.x > 0
    PROVE  PointersAreSet(insn, kinds, n + 1, new, xl)
<1> DEFINE rd == new.parts[n + 1].n
<1>1. /\ IsRegisters(Executed(new.prelude, xl))
      /\ Executed(new.prelude, xl)[rd] = value
      /\ \A r \in 0 .. 31 : r # rd =>
            Executed(new.prelude, xl)[r] = Executed(old.prelude, xl)[r]
  BY DEF Extends
<1>2. ASSUME insn.union \notin CODE_MEM_UNIONS, NEW q \in 1 .. n + 1, kinds[q].k = "mem"
      PROVE  Executed(new.prelude, xl)[new.parts[q].n] = Region /\ new.parts[q].n \in 0 .. 31
  <2>1. CASE q = n + 1
    BY <1>1, <1>2, <2>1
  <2>2. CASE q \in 1 .. n
    <3>1. kinds[n + 1].k = "reg" /\ insn.union \in STRIDED_UNIONS
      BY <1>2, <2>2
    <3>2. /\ old.parts[q].n \in 1 .. old.x - 1
          /\ Executed(old.prelude, xl)[old.parts[q].n] = Region /\ old.parts[q].n \in 0 .. 31
      BY <1>2, <2>2, <3>1 DEF PointersAreSet
    <3>3. old.parts[q].n # rd
      BY <3>1, <3>2
    <3> QED
      BY <1>1, <2>2, <3>2, <3>3
  <2> QED
    BY <2>1, <2>2
<1>3. ASSUME insn.union \in STRIDED_UNIONS, NEW q \in 1 .. n + 1, kinds[q].k \in {"mem", "reg"}
      PROVE  /\ new.parts[q].n \in 1 .. new.x - 1
             /\ kinds[q].k = "reg" /\ q > 1 => Executed(new.prelude, xl)[new.parts[q].n] = Bounded
  <2>1. CASE q \in 1 .. n
    <3>1. /\ old.parts[q].n \in 1 .. old.x - 1
          /\ kinds[q].k = "reg" /\ q > 1 => Executed(old.prelude, xl)[old.parts[q].n] = Bounded
      BY <1>3, <2>1 DEF PointersAreSet
    <3>2. old.parts[q].n # rd /\ old.parts[q].n \in 0 .. 31
      BY <1>3, <3>1
    <3>3. new.parts[q] = old.parts[q] /\ new.parts[q].n \in 1 .. new.x - 1
      BY <2>1, <3>1
    <3>4. Executed(new.prelude, xl)[old.parts[q].n] = Executed(old.prelude, xl)[old.parts[q].n]
      BY <1>1, <3>2
    <3> QED
      BY <3>1, <3>3, <3>4
  <2>2. CASE q = n + 1
    <3>1. new.parts[q].n \in 1 .. new.x - 1
      BY <1>3, <2>2
    <3> QED
      BY <1>1, <2>2, <3>1
  <2> QED
    BY <2>1, <2>2
<1> QED
  BY <1>1, <1>2, <1>3 DEF PointersAreSet

(* What is known of the powers of two that immediates are bounded by.      *)
Two(n) == 2 ^ n
LEMMA Powers ==
    \A b \in 0 .. 30 : /\ Two(b) \in Nat /\ Two(b) >= 1
                       /\ b > 4 => Two(b) > 16
                       /\ b >= 1 => Two(b) = 2 * Two(b - 1) /\ Two(b - 1) \in Nat
                                    /\ Two(b - 1) >= 1
<1>1. /\ Two(0) = 1
      /\ \A n \in 0 .. 29 : Two(n + 1) = 2 * Two(n)
  <2>1. 2 ^ 0 = 1
    OBVIOUS
  <2> QED
    BY <2>1, InstancesAssumption DEF Two
<1> DEFINE S == {n \in Nat : n <= 30 => Two(n) \in Nat /\ Two(n) >= 1 /\ (n > 4 => Two(n) > 16)}
<1>2. 0 \in S
  BY <1>1
<1>3. Two(4) = 16
  <2>1. /\ Two(0 + 1) = 2 * Two(0) /\ Two(1 + 1) = 2 * Two(1)
        /\ Two(2 + 1) = 2 * Two(2) /\ Two(3 + 1) = 2 * Two(3)
    BY <1>1
  <2>2. 0 + 1 = 1 /\ 1 + 1 = 2 /\ 2 + 1 = 3 /\ 3 + 1 = 4
    OBVIOUS
  <2>3. Two(1) = 2 /\ Two(2) = 2 * Two(1) /\ Two(3) = 2 * Two(2) /\ Two(4) = 2 * Two(3)
    BY <1>1, <2>1, <2>2
  <2> QED
    BY <2>3
<1>4. ASSUME NEW n \in Nat, n \in S PROVE n + 1 \in S
  <2> SUFFICES ASSUME n + 1 <= 30
               PROVE  Two(n + 1) \in Nat /\ Two(n + 1) >= 1 /\ (n + 1 > 4 => Two(n + 1) > 16)
    OBVIOUS
  <2>1. Two(n + 1) = 2 * Two(n)
    BY <1>1
  <2>2. Two(n) \in Nat /\ Two(n) >= 1 /\ (n > 4 => Two(n) > 16)
    BY <1>4
  <2>3. n + 1 > 4 => n > 4 \/ n = 4
    OBVIOUS
  <2> QED
    BY <1>3, <2>1, <2>2, <2>3
<1> HIDE DEF S
<1>5. Nat \subseteq S
  BY <1>2, <1>4, NumbersBySuccession
<1>6. \A b \in 0 .. 30 : Two(b) \in Nat /\ Two(b) >= 1 /\ (b > 4 => Two(b) > 16)
  BY <1>5 DEF S
<1>7. ASSUME NEW b \in 1 .. 30 PROVE Two(b) = 2 * Two(b - 1)
  <2>1. b - 1 \in 0 .. 29 /\ (b - 1) + 1 = b
    OBVIOUS
  <2> QED
    BY <1>1, <2>1
<1>8. \A b \in 1 .. 30 : b - 1 \in 0 .. 30
  OBVIOUS
<1> QED
  BY <1>6, <1>7, <1>8

(* The immediate is one its field has room for.                            *)
LEMMA ImmFits ==
    ASSUME NEW insn, NEW kind, kind.bits \in 1 .. 30,
           insn.union \in DOMAIN IMM_OVERRIDE => kind.bits > 4
    PROVE  /\ ImmValue(insn, kind) \in Int
           /\ ImmValue(insn, kind) > 0 /\ ImmValue(insn, kind) < 2 ^ kind.bits
           /\ insn.union \in DOMAIN IMM_OVERRIDE => ImmValue(insn, kind) % 16 = 0
<1>1. /\ Two(kind.bits) \in Nat /\ Two(kind.bits - 1) \in Nat /\ Two(kind.bits - 1) >= 1
      /\ Two(kind.bits) = 2 * Two(kind.bits - 1)
      /\ kind.bits > 4 => Two(kind.bits) > 16
  BY Powers
<1>0. 2 ^ kind.bits = Two(kind.bits) /\ 2 ^ (kind.bits - 1) = Two(kind.bits - 1)
  BY DEF Two
<1>2. CASE insn.union \in DOMAIN IMM_OVERRIDE
  <2>1. ImmValue(insn, kind) = 16
    BY <1>2 DEF ImmValue, IMM_OVERRIDE
  <2> QED
    BY <1>0, <1>1, <1>2, <2>1
<1>3. CASE insn.union \notin DOMAIN IMM_OVERRIDE
  <2> DEFINE cap == IF kind.signed THEN Two(kind.bits - 1) - 1 ELSE Two(kind.bits) - 1
             most == IF cap > 1 THEN cap ELSE 1
  <2>1. ImmValue(insn, kind) = IF 4 < most THEN 4 ELSE most
    BY <1>0, <1>3, SMT DEF ImmValue
  <2>2. cap \in Int /\ cap < Two(kind.bits)
    BY <1>1
  <2>3. most \in Int /\ most > 0 /\ most < Two(kind.bits)
    <3> HIDE DEF cap
    <3> QED
      BY <1>1, <2>2
  <2> HIDE DEF most
  <2> QED
    BY <1>0, <1>1, <1>3, <2>1, <2>3
<1> QED
  BY <1>2, <1>3

LEMMA CompressedRegister == \A n \in 8 .. 16 : Compressed(n) \in 8 .. 15
BY SMT DEF Compressed

LEMMA VtypeTyped ==
    ASSUME NEW mnemonic
    PROVE  Sew(mnemonic) \in {8, 16, 32, 64} /\ Lmul(mnemonic) \in {1, 2}
<1>1. VmemEew(mnemonic) \in {0, 8, 16, 32, 64}
  BY SMT DEF VmemEew
<1>2. Lmul(mnemonic) \in {1, 2}
  BY SMT DEF Lmul
<1>3. Sew(mnemonic) \in {8, 16, 32, 64}
  BY <1>1, SMT DEF Sew
<1> QED
  BY <1>2, <1>3

(* Before the first operand.                                               *)
LEMMA NothingRendered ==
    ASSUME NEW insn, NEW kinds, NEW xl
    PROVE  Rendered(insn, kinds, 0, Prelude(insn), xl)
<1> DEFINE vtype == <<Sew(insn.mnemonic), Lmul(insn.mnemonic)>>
           vset == Op("vsetvli", 1, vtype)
           st == Prelude(insn)
<1>1. vset \in PreludeOps
  <2>1. "vsetvli" \in OpNames /\ 1 \in 0 .. 31
    BY DEF OpNames
  <2>2. vtype \in Int \X Int
    BY VtypeTyped
  <2> HIDE DEF vtype
  <2> QED
    BY <2>1, <2>2, OpTyped
<1>2. /\ At(insn.kinds, "vreg") # {} => st = [Fresh EXCEPT !.x = 2, !.prelude = <<vset>>]
      /\ At(insn.kinds, "vreg") = {} => st = Fresh
  BY DEF Prelude, At
<1> HIDE DEF vset, st
<1>3. /\ DOMAIN Fresh = {"x", "f", "cx", "cf", "v", "prelude", "parts", "trailer"}
      /\ Fresh.x = 1 /\ Fresh.f = 1 /\ Fresh.cx = 8 /\ Fresh.cf = 8 /\ Fresh.v = 0
      /\ Fresh.prelude = <<>> /\ Fresh.parts = <<>>
  BY SMT DEF Fresh
<1>4. /\ DOMAIN st = DOMAIN Fresh
      /\ st.x \in {1, 2} /\ st.f = 1 /\ st.cx = 8 /\ st.cf = 8 /\ st.v = 0 /\ st.parts = <<>>
      /\ st.prelude = IF At(insn.kinds, "vreg") # {} THEN <<vset>> ELSE <<>>
  <2>1. CASE At(insn.kinds, "vreg") = {}
    BY <1>2, <1>3, <2>1
  <2>2. CASE At(insn.kinds, "vreg") # {}
    <3>1. st = [Fresh EXCEPT !.x = 2, !.prelude = <<vset>>]
      BY <1>2, <2>2
    <3>2. DOMAIN st = DOMAIN Fresh
      BY <3>1
    <3>3. st.x = 2 /\ st.prelude = <<vset>>
      BY <1>3, <3>1
    <3>4. st.f = Fresh.f /\ st.cx = Fresh.cx /\ st.cf = Fresh.cf
      BY <1>3, <3>1
    <3>5. st.v = Fresh.v /\ st.parts = Fresh.parts
      BY <1>3, <3>1
    <3> QED
      BY <1>3, <2>2, <3>2, <3>3, <3>4, <3>5
  <2> QED
    BY <2>1, <2>2
<1>9. IsRendering(0, st)
  BY <1>1, <1>3, <1>4 DEF IsRendering
<1>5. PartsFit(insn, kinds, 0, st)
  BY <1>4 DEF PartsFit
<1>6. VregsInOrder(kinds, 0, st)
  <2>1. Vregs(kinds, 0) = {}
    BY DEF Vregs
  <2> QED
    BY <1>4, <2>1, FS_EmptySet DEF VregsInOrder
<1>7. VtypeIsSet(insn, st)
  <2> SUFFICES ASSUME At(insn.kinds, "vreg") # {} PROVE st.prelude = <<vset>>
    BY DEF VtypeIsSet, vset
  <2> QED
    BY <1>4
<1>8. PointersAreSet(insn, kinds, 0, st, xl)
  <2>1. IsRegisters(Executed(<<>>, xl))
    <3>1. Len(<<>>) = 0 /\ Len(<<>>) \in Nat
      OBVIOUS
    <3>2. Executed(<<>>, xl) = Unset
      BY <3>1, ExecutingStepwise DEF Executed
    <3> QED
      BY <3>2 DEF IsRegisters, Unset
  <2>2. IsRegisters(Executed(<<vset>>, xl))
    <3>1. <<>> \in Seq(PreludeOps) /\ Append(<<>>, vset) = <<vset>>
      BY <1>1
    <3> QED
      BY <1>1, <2>1, <3>1, OneMore DEF Extends
  <2>3. IsRegisters(Executed(st.prelude, xl))
    BY <1>4, <2>1, <2>2
  <2> QED
    BY <2>3 DEF PointersAreSet
<1> QED
  BY <1>5, <1>6, <1>7, <1>8, <1>9 DEF Rendered, st

(***************************************************************************)
(* One operand, by kind.                                                   *)
(***************************************************************************)
Counters == {"x", "f", "cx", "cf", "v"}
Fields == Counters \cup {"prelude", "parts", "trailer"}

(* One operand more, for which counters move up by one at most.            *)
Advances(old, new, part) ==
    /\ DOMAIN new = Fields
    /\ \A c \in Counters : new[c] \in {old[c], old[c] + 1}
    /\ new.parts = Append(old.parts, part)

LEMMA OneRendered ==
    ASSUME NEW insn, NEW kinds, NEW n \in 0 .. 7, NEW old, NEW new, NEW part, NEW xl,
           Rendered(insn, kinds, n, old, xl),
           Advances(old, new, part), Fits(insn, kinds[n + 1], part),
           kinds[n + 1].k = "vreg" => new.v = old.v + 1 /\ part.n = Vreg(old.v),
           kinds[n + 1].k # "vreg" => new.v = old.v,
           new.prelude \in Seq(PreludeOps),
           old.prelude # <<>> => new.prelude # <<>> /\ new.prelude[1] = old.prelude[1],
           /\ new.parts[n + 1] = part
           /\ \A q \in 1 .. n : new.parts[q] = old.parts[q]
           => PointersAreSet(insn, kinds, n + 1, new, xl)
    PROVE  Rendered(insn, kinds, n + 1, new, xl)
<1>0. n \in Nat
  OBVIOUS
<1>1. /\ IsRendering(n, old) /\ PartsFit(insn, kinds, n, old)
      /\ VregsInOrder(kinds, n, old) /\ VtypeIsSet(insn, old)
  BY DEF Rendered
<1>2. part \in Operands /\ old.parts \in Seq(Operands) /\ new.parts = Append(old.parts, part)
  BY <1>1 DEF Fits, IsRendering, Advances
<1>3. /\ PartsFit(insn, kinds, n + 1, new)
      /\ new.parts[n + 1] = part /\ \A q \in 1 .. n : new.parts[q] = old.parts[q]
  <2>1. Fits(insn, kinds[n + 1], part) /\ PartsFit(insn, kinds, n, old)
    BY <1>1
  <2>2. PartsFit(insn, kinds, n + 1, new)
    BY <1>0, <1>2, <2>1, PartsGrow
  <2>3. Len(old.parts) = n
    BY <2>1 DEF PartsFit
  <2>4. new.parts[n + 1] = part /\ \A q \in 1 .. n : new.parts[q] = old.parts[q]
    BY <1>0, <1>2, <2>3
  <2> QED
    BY <2>2, <2>4
<1>4. VregsInOrder(kinds, n + 1, new)
  BY <1>0, <1>1, <1>3, VregsGrow
<1>5. VtypeIsSet(insn, new)
  BY <1>1 DEF VtypeIsSet
<1>6. PointersAreSet(insn, kinds, n + 1, new, xl)
  BY <1>3
<1>7. IsRendering(n + 1, new)
  <2>1. /\ new.x \in {old.x, old.x + 1} /\ new.f \in {old.f, old.f + 1}
        /\ new.cx \in {old.cx, old.cx + 1} /\ new.cf \in {old.cf, old.cf + 1}
        /\ new.v \in {old.v, old.v + 1}
    BY DEF Advances, Counters
  <2>2. /\ old.x \in 1 .. n + 2 /\ old.f \in 1 .. n + 1 /\ old.cx \in 8 .. n + 8
        /\ old.cf \in 8 .. n + 8 /\ old.v \in 0 .. n
    BY <1>1 DEF IsRendering
  <2>3. /\ new.x \in 1 .. (n + 1) + 2 /\ new.f \in 1 .. (n + 1) + 1 /\ new.v \in 0 .. n + 1
        /\ new.cx \in 8 .. (n + 1) + 8 /\ new.cf \in 8 .. (n + 1) + 8
    <3>1. \A low, high \in Nat : \A a \in low .. high :
             a \in low .. high + 1 /\ a + 1 \in low .. high + 1
      OBVIOUS
    <3>2. /\ (n + 2) + 1 = (n + 1) + 2 /\ (n + 8) + 1 = (n + 1) + 8
          /\ n + 2 \in Nat /\ n + 1 \in Nat /\ n + 8 \in Nat /\ n \in Nat
          /\ 0 \in Nat /\ 1 \in Nat /\ 8 \in Nat
      BY <1>0
    <3>3. new.x \in 1 .. (n + 1) + 2
      BY <2>1, <2>2, <3>1, <3>2
    <3>4. new.f \in 1 .. (n + 1) + 1
      BY <2>1, <2>2, <3>1, <3>2
    <3>5. new.v \in 0 .. n + 1
      BY <2>1, <2>2, <3>1, <3>2
    <3>6. new.cx \in 8 .. (n + 1) + 8
      BY <2>1, <2>2, <3>1, <3>2
    <3>7. new.cf \in 8 .. (n + 1) + 8
      BY <2>1, <2>2, <3>1, <3>2
    <3> QED
      BY <3>3, <3>4, <3>5, <3>6, <3>7
  <2>4. new.parts \in Seq(Operands)
    BY <1>2
  <2>5. DOMAIN new = {"x", "f", "cx", "cf", "v", "prelude", "parts", "trailer"}
    BY DEF Advances, Fields, Counters
  <2> QED
    BY <2>3, <2>4, <2>5 DEF IsRendering
<1> QED
  BY <1>3, <1>4, <1>5, <1>6, <1>7 DEF Rendered

(* An operand for which nothing is set up.                                 *)
LEMMA PlainRendered ==
    ASSUME NEW insn, NEW kinds, NEW n \in 0 .. 7, NEW old, NEW new, NEW part, NEW xl,
           Rendered(insn, kinds, n, old, xl),
           Advances(old, new, part), Fits(insn, kinds[n + 1], part),
           kinds[n + 1].k = "vreg" => new.v = old.v + 1 /\ part.n = Vreg(old.v),
           kinds[n + 1].k # "vreg" => new.v = old.v,
           new.prelude = old.prelude,
           kinds[n + 1].k = "mem" => insn.union \in CODE_MEM_UNIONS,
           insn.union \in STRIDED_UNIONS /\ kinds[n + 1].k = "reg" =>
               n = 0 /\ part.n \in 1 .. new.x - 1
    PROVE  Rendered(insn, kinds, n + 1, new, xl)
<1>0. n \in Nat
  OBVIOUS
<1>1. IsRendering(n, old) /\ PointersAreSet(insn, kinds, n, old, xl)
  BY DEF Rendered
<1>2. new.prelude \in Seq(PreludeOps)
  BY <1>1 DEF IsRendering
<1>3. old.x \in Nat /\ new.x \in Nat /\ new.x >= old.x
  <2>1. old.x \in 1 .. n + 2 /\ new.x \in {old.x, old.x + 1}
    BY <1>1 DEF IsRendering, Advances, Counters
  <2> QED
    BY <2>1
<1>4. ASSUME new.parts[n + 1] = part, \A q \in 1 .. n : new.parts[q] = old.parts[q]
      PROVE  PointersAreSet(insn, kinds, n + 1, new, xl)
  BY <1>0, <1>1, <1>3, <1>4, PointersStay
<1> QED
  BY <1>2, <1>4, OneRendered

(* An operand for which a register is set up that was not in use.          *)
LEMMA SetUpRendered ==
    ASSUME NEW insn, NEW kinds, NEW n \in 0 .. 7, NEW old, NEW new, NEW part, NEW xl, NEW value,
           Rendered(insn, kinds, n, old, xl),
           Advances(old, new, part), Fits(insn, kinds[n + 1], part),
           new.v = old.v,
           Extends(old.prelude, new.prelude, part.n, value, xl), part.n \in 0 .. 31,
           kinds[n + 1].k \in {"mem", "reg"},
           kinds[n + 1].k = "mem" => value = Region /\ \A q \in 1 .. n : kinds[q].k # "mem",
           kinds[n + 1].k = "reg" => value = Bounded /\ insn.union \in STRIDED_UNIONS,
           insn.union \in STRIDED_UNIONS => part.n = old.x /\ new.x = old.x + 1
    PROVE  Rendered(insn, kinds, n + 1, new, xl)
<1>0. n \in Nat
  OBVIOUS
<1>1. IsRendering(n, old) /\ PointersAreSet(insn, kinds, n, old, xl)
  BY DEF Rendered
<1>2. /\ new.prelude \in Seq(PreludeOps)
      /\ old.prelude # <<>> => new.prelude # <<>> /\ new.prelude[1] = old.prelude[1]
  BY DEF Extends
<1>3. old.x \in Nat /\ new.x \in Nat /\ new.x >= old.x /\ old.x <= 32 /\ old.x > 0
  <2>1. old.x \in 1 .. n + 2 /\ new.x \in {old.x, old.x + 1}
    BY <1>1 DEF IsRendering, Advances, Counters
  <2> QED
    BY <2>1
<1>4. ASSUME new.parts[n + 1] = part, \A q \in 1 .. n : new.parts[q] = old.parts[q]
      PROVE  PointersAreSet(insn, kinds, n + 1, new, xl)
  BY <1>0, <1>1, <1>3, <1>4, PointersGrow
<1>5. kinds[n + 1].k # "vreg"
  OBVIOUS
<1> QED
  BY <1>2, <1>4, <1>5, OneRendered

(* What Add leaves as it was.                                              *)
LEMMA Added ==
    ASSUME NEW n, NEW st, IsRendering(n, st), NEW part
    PROVE  /\ DOMAIN Add(st, part) = Fields
           /\ \A c \in Counters : Add(st, part)[c] = st[c]
           /\ Add(st, part).prelude = st.prelude
           /\ Add(st, part).parts = Append(st.parts, part)
<1>1. DOMAIN st = Fields
  BY DEF IsRendering, Fields, Counters
<1> QED
  BY <1>1 DEF Add, Fields, Counters

(* An operand that takes the next of the numbers c counts.                 *)
Numbered(st, part, c) == [Add(st, part) EXCEPT ![c] = @ + 1]

LEMMA Taking ==
    ASSUME NEW n \in Nat, NEW st, IsRendering(n, st), NEW part, NEW c \in Counters
    PROVE  /\ Advances(st, Numbered(st, part, c), part)
           /\ Numbered(st, part, c).prelude = st.prelude
           /\ Numbered(st, part, c)[c] = st[c] + 1
           /\ c # "v" => Numbered(st, part, c).v = st.v
<1> DEFINE mid == Add(st, part)
           new == [mid EXCEPT ![c] = mid[c] + 1]
<1>1. /\ DOMAIN mid = Fields /\ \A d \in Counters : mid[d] = st[d]
      /\ mid.prelude = st.prelude /\ mid.parts = Append(st.parts, part)
  BY Added
<1> HIDE DEF mid
<1>2. /\ DOMAIN new = Fields /\ new[c] = mid[c] + 1
      /\ \A d \in Fields : d # c => new[d] = mid[d]
  <2>1. c \in DOMAIN mid
    BY <1>1 DEF Fields
  <2> QED
    BY <1>1, <2>1
<1>3. "prelude" # c /\ "parts" # c /\ "prelude" \in Fields /\ "parts" \in Fields
      /\ Counters \subseteq Fields
  BY DEF Counters, Fields
<1>4. new.prelude = st.prelude /\ new.parts = Append(st.parts, part)
  BY <1>1, <1>2, <1>3
<1>5. \A d \in Counters : new[d] = IF d = c THEN st[d] + 1 ELSE st[d]
  BY <1>1, <1>2, <1>3
<1> HIDE DEF new
<1>6. Advances(st, new, part)
  BY <1>2, <1>4, <1>5 DEF Advances
<1>7. new[c] = st[c] + 1 /\ (c # "v" => new.v = st.v)
  <2>1. "v" \in Counters
    BY DEF Counters
  <2> QED
    BY <1>5, <2>1
<1> QED
  BY <1>4, <1>6, <1>7 DEF new, mid, Numbered

(* An operand that takes none.                                             *)
LEMMA TakingNone ==
    ASSUME NEW n \in Nat, NEW st, IsRendering(n, st), NEW part
    PROVE  /\ Advances(st, Add(st, part), part)
           /\ Add(st, part).prelude = st.prelude /\ Add(st, part).v = st.v
<1>1. "v" \in Counters
  BY DEF Counters
<1> QED
  BY <1>1, Added DEF Advances

LEMMA CounterNames == /\ "x" \in Counters /\ "f" \in Counters /\ "cx" \in Counters
                      /\ "cf" \in Counters /\ "v" \in Counters
BY DEF Counters

LEMMA FileNames == /\ "x" \in Files /\ "f" \in Files /\ "v" \in Files /\ "imm" \in Files
                   /\ "label" \in Files /\ "mem" \in Files /\ "lit" \in Files /\ "csr" \in Files
BY DEF Files

(* Registers of a file of their own.                                       *)
LEMMA RegisterRendered ==
    ASSUME NEW insn, NEW kinds, NEW n \in 0 .. 7, NEW old, NEW xl,
           Rendered(insn, kinds, n, old, xl),
           kinds[n + 1].k \in {"freg", "creg", "cfreg", "vreg"}
    PROVE  Rendered(insn, kinds, n + 1, RenderOne(old, insn, kinds[n + 1], xl), xl)
<1> DEFINE kind == kinds[n + 1]
<1>0. PICK new : new = RenderOne(old, insn, kind, xl)
  OBVIOUS
<1>1. /\ n \in Nat /\ IsRendering(n, old)
      /\ old.x \in 1 .. n + 2 /\ old.f \in 1 .. n + 1
      /\ old.cx \in 8 .. n + 8 /\ old.cf \in 8 .. n + 8 /\ old.v \in 0 .. n
      /\ old.x \in Int /\ old.f \in Int /\ old.v \in Int
  BY DEF Rendered, IsRendering
<1>2. CASE kind.k = "freg"
  <2> DEFINE part == Operand("f", old.f)
  <2>1. new = Numbered(old, part, "f")
    BY <1>0, <1>2, SMT DEF RenderOne, Numbered
  <2>2. part \in Operands /\ part.file = "f" /\ part.n = old.f
    BY <1>1 DEF Operand, Operands, Files
  <2>3. Fits(insn, kind, part)
    BY <1>1, <1>2, <2>2 DEF Fits, TakesOperand
  <2> HIDE DEF part
  <2>4. Advances(old, new, part) /\ new.prelude = old.prelude /\ new.v = old.v
    BY <1>1, <2>1, CounterNames, Taking
  <2>6. kind.k # "vreg" /\ kind.k # "mem" /\ kind.k # "reg"
    BY <1>2
  <2> QED
    BY <2>3, <2>4, <2>6, <1>0, PlainRendered
<1>3. CASE kind.k = "creg"
  <2> DEFINE part == Operand("x", Compressed(old.cx))
  <2>1. new = Numbered(old, part, "cx")
    BY <1>0, <1>3, SMT DEF RenderOne, Numbered
  <2>2. Compressed(old.cx) \in 8 .. 15
    BY <1>1, CompressedRegister
  <2>3. part \in Operands /\ part.file = "x" /\ part.n \in 8 .. 15
    <3>1. Compressed(old.cx) \in Int
      BY <2>2
    <3> QED
      BY <2>2, <3>1 DEF Operand, Operands, Files
  <2>4. Fits(insn, kind, part)
    BY <1>3, <2>3 DEF Fits, TakesOperand
  <2> HIDE DEF part
  <2>5. Advances(old, new, part) /\ new.prelude = old.prelude /\ new.v = old.v
    BY <1>1, <2>1, CounterNames, Taking
  <2>6. kind.k # "vreg" /\ kind.k # "mem" /\ kind.k # "reg"
    BY <1>3
  <2> QED
    BY <2>4, <2>5, <2>6, <1>0, PlainRendered
<1>4. CASE kind.k = "cfreg"
  <2> DEFINE part == Operand("f", Compressed(old.cf))
  <2>1. new = Numbered(old, part, "cf")
    BY <1>0, <1>4, SMT DEF RenderOne, Numbered
  <2>2. Compressed(old.cf) \in 8 .. 15
    BY <1>1, CompressedRegister
  <2>3. part \in Operands /\ part.file = "f" /\ part.n \in 8 .. 15
    <3>1. Compressed(old.cf) \in Int
      BY <2>2
    <3> QED
      BY <2>2, <3>1 DEF Operand, Operands, Files
  <2>4. Fits(insn, kind, part)
    BY <1>4, <2>3 DEF Fits, TakesOperand
  <2> HIDE DEF part
  <2>5. Advances(old, new, part) /\ new.prelude = old.prelude /\ new.v = old.v
    BY <1>1, <2>1, CounterNames, Taking
  <2>6. kind.k # "vreg" /\ kind.k # "mem" /\ kind.k # "reg"
    BY <1>4
  <2> QED
    BY <2>4, <2>5, <2>6, <1>0, PlainRendered
<1>5. CASE kind.k = "vreg"
  <2> DEFINE part == Operand("v", Vreg(old.v))
  <2>1. new = Numbered(old, part, "v")
    BY <1>0, <1>5, SMT DEF RenderOne, Numbered
  <2>2. Vreg(old.v) \in 0 .. 31
    BY <1>1 DEF Vreg
  <2>3. part \in Operands /\ part.file = "v" /\ part.n = Vreg(old.v)
    <3>1. Vreg(old.v) \in Int
      BY <2>2
    <3> QED
      BY <3>1 DEF Operand, Operands, Files
  <2>4. Fits(insn, kind, part)
    BY <1>5, <2>2, <2>3 DEF Fits, TakesOperand
  <2> HIDE DEF part
  <2>5. Advances(old, new, part) /\ new.prelude = old.prelude /\ new.v = old.v + 1
    <3>1. "v" \in Counters
      BY CounterNames
    <3>2. Advances(old, new, part) /\ new.prelude = old.prelude
      BY <1>1, <2>1, <3>1, Taking
    <3>3. Numbered(old, part, "v")["v"] = old["v"] + 1
      BY <1>1, <3>1, Taking
    <3> QED
      BY <2>1, <3>2, <3>3
  <2>6. kind.k # "mem" /\ kind.k # "reg"
    BY <1>5
  <2> QED
    BY <1>5, <2>3, <2>4, <2>5, <2>6, <1>0, PlainRendered
<1> QED
  BY <1>0, <1>2, <1>3, <1>4, <1>5


LEMMA OperandOf ==
    ASSUME NEW Texts, NEW file \in Files, NEW m \in Int, NEW text \in Texts
    PROVE  [file |-> file, n |-> m, text |-> text] \in [file : Files, n : Int, text : Texts]
OBVIOUS

LEMMA FieldsOf ==
    ASSUME NEW n, NEW st, IsRendering(n, st)
    PROVE  DOMAIN st = Fields
BY DEF IsRendering, Fields, Counters

LEMMA RenderingFacts ==
    ASSUME NEW insn, NEW kinds, NEW n \in 0 .. 7, NEW st, NEW xl, Rendered(insn, kinds, n, st, xl)
    PROVE  /\ n \in Nat /\ IsRendering(n, st) /\ PartsFit(insn, kinds, n, st)
           /\ st.x \in 1 .. n + 2 /\ st.x \in Int /\ st.x \in 0 .. 31 /\ st.cx \in 8 .. 16
           /\ IsRegisters(Executed(st.prelude, xl)) /\ st.prelude \in Seq(PreludeOps)
<1>1. IsRendering(n, st) /\ PartsFit(insn, kinds, n, st) /\ PointersAreSet(insn, kinds, n, st, xl)
  BY DEF Rendered
<1>2. IsRegisters(Executed(st.prelude, xl))
  BY <1>1 DEF PointersAreSet
<1>3. st.prelude \in Seq(PreludeOps) /\ st.x \in 1 .. n + 2 /\ st.cx \in 8 .. n + 8
  BY <1>1 DEF IsRendering
<1>4. \A m \in 0 .. 7 : 1 .. m + 2 \subseteq 0 .. 31 /\ 8 .. m + 8 \subseteq 8 .. 16
  OBVIOUS
<1>5. st.x \in 0 .. 31 /\ st.cx \in 8 .. 16
  BY <1>3, <1>4
<1>6. n \in Nat /\ st.x \in Int
  BY <1>5
<1> QED
  BY <1>1, <1>2, <1>3, <1>5, <1>6

(* Operands that take no register.                                         *)
LEMMA ValueRendered ==
    ASSUME NEW insn, NEW kinds, NEW n \in 0 .. 7, NEW old, NEW xl,
           Rendered(insn, kinds, n, old, xl), IsOperand(kinds[n + 1]),
           insn.union \in DOMAIN IMM_OVERRIDE /\ kinds[n + 1].k = "imm" => kinds[n + 1].bits > 4,
           kinds[n + 1].k \in {"imm", "lit", "csr"}
    PROVE  Rendered(insn, kinds, n + 1, RenderOne(old, insn, kinds[n + 1], xl), xl)
<1> DEFINE kind == kinds[n + 1]
<1>0. PICK new : new = RenderOne(old, insn, kind, xl)
  OBVIOUS
<1>1. n \in Nat /\ IsRendering(n, old)
  BY DEF Rendered
<1>2. kind.k # "vreg" /\ kind.k # "mem" /\ kind.k # "reg"
  OBVIOUS
<1>3. ASSUME NEW part, Fits(insn, kind, part), new = Add(old, part)
      PROVE  Rendered(insn, kinds, n + 1, new, xl)
  <2>1. Advances(old, new, part) /\ new.prelude = old.prelude /\ new.v = old.v
    BY <1>1, <1>3, TakingNone
  <2> QED
    BY <1>2, <1>3, <2>1, PlainRendered
<1>4. CASE kind.k = "imm" /\ insn.union \in BRANCH_LIKE
  <2> DEFINE part == Operand("label", 0)
             mid == Add(old, part)
  <2>1. new = [mid EXCEPT !.trailer = TRUE]
    BY <1>0, <1>4, SMT DEF RenderOne
  <2>2. part \in Operands /\ part.file = "label"
    BY DEF Operand, Operands, Files
  <2>3. Fits(insn, kind, part)
    BY <1>4, <2>2 DEF Fits, TakesOperand
  <2> HIDE DEF part
  <2>4. Advances(old, mid, part) /\ mid.prelude = old.prelude /\ mid.v = old.v
    BY <1>1, TakingNone
  <2> HIDE DEF mid
  <2>5. /\ DOMAIN new = DOMAIN mid /\ \A f \in DOMAIN mid : f # "trailer" => new[f] = mid[f]
        /\ "trailer" \notin Counters /\ Counters \subseteq DOMAIN mid
        /\ "prelude" \in DOMAIN mid /\ "parts" \in DOMAIN mid /\ "v" \in DOMAIN mid
    BY <2>1, <2>4 DEF Advances, Fields, Counters
  <2>6. /\ new.prelude = old.prelude /\ new.v = old.v /\ new.parts = mid.parts
        /\ \A c \in Counters : new[c] = mid[c]
    BY <2>4, <2>5
  <2>7. Advances(old, new, part)
    BY <2>4, <2>5, <2>6 DEF Advances
  <2> QED
    BY <1>0, <1>2, <2>3, <2>6, <2>7, PlainRendered
<1>5. CASE kind.k = "imm" /\ insn.union \notin BRANCH_LIKE
  <2>0. kind.bits \in 1 .. 30
    BY <1>5 DEF IsOperand
  <2>1. PICK m : m = ImmValue(insn, kind)
    OBVIOUS
  <2>2. /\ m \in Int /\ m > 0 /\ m < 2 ^ kind.bits
        /\ insn.union \in DOMAIN IMM_OVERRIDE => m % 16 = 0
    BY <1>5, <2>0, <2>1, ImmFits
  <2> DEFINE part == Operand("imm", m)
  <2>3. new = Add(old, part)
    BY <1>0, <1>5, <2>1, SMT DEF RenderOne
  <2>4. part \in Operands /\ part.file = "imm" /\ part.n = m
    BY <2>2 DEF Operand, Operands, Files
  <2> HIDE DEF part
  <2>5. Fits(insn, kind, part)
    <3>1. TakesOperand(insn, kind, part)
      BY <1>5, <2>2, <2>4 DEF TakesOperand
    <3> QED
      BY <1>5, <2>4, <3>1 DEF Fits
  <2> QED
    BY <1>0, <1>3, <2>3, <2>5
<1>6. CASE kind.k = "lit"
  <2>0. PICK part : part = [Operand("lit", 0) EXCEPT !.text = kind.text]
    OBVIOUS
  <2>1. new = Add(old, part)
    BY <1>0, <1>6, <2>0, SMT DEF RenderOne
  <2>2. part = [file |-> "lit", n |-> 0, text |-> kind.text]
    BY <2>0 DEF Operand
  <2>3. kind.text \in STRING \cup {"", "0"} /\ 0 \in Int
    <3>1. kind.text \in STRING
      BY <1>6 DEF IsOperand
    <3>2. kind.text \in STRING \cup {"", "0"}
      BY <3>1
    <3>3. 0 \in Int
      OBVIOUS
    <3> QED
      BY <3>2, <3>3
  <2>4. part \in Operands /\ part.file = "lit"
    <3>1. part \in Operands
      BY <2>2, <2>3, FileNames, OperandOf DEF Operands
    <3> QED
      BY <2>2, <3>1
  <2>5. Fits(insn, kind, part)
    BY <1>6, <2>4 DEF Fits
  <2> QED
    BY <1>0, <1>3, <2>1, <2>5
<1>7. CASE kind.k = "csr"
  <2> DEFINE part == Operand("csr", CSR_ADDR)
  <2>1. new = Add(old, part)
    BY <1>0, <1>7, SMT DEF RenderOne
  <2>2. part \in Operands /\ part.file = "csr"
    BY SMT DEF Operand, Operands, Files, CSR_ADDR
  <2> HIDE DEF part
  <2>3. Fits(insn, kind, part)
    BY <1>7, <2>2 DEF Fits, TakesOperand
  <2> QED
    BY <1>0, <1>3, <2>1, <2>3
<1> QED
  BY <1>0, <1>4, <1>5, <1>6, <1>7

(* A scalar register: in a strided access, what is not its first operand   *)
(* is the stride.                                                          *)
LEMMA ScalarRendered ==
    ASSUME NEW insn, NEW kinds, NEW n \in 0 .. 7, NEW old, NEW xl,
           Rendered(insn, kinds, n, old, xl), kinds[n + 1].k = "reg"
    PROVE  Rendered(insn, kinds, n + 1, RenderOne(old, insn, kinds[n + 1], xl), xl)
<1> DEFINE kind == kinds[n + 1]
           part == Operand("x", old.x)
<1>0. PICK new : new = RenderOne(old, insn, kind, xl)
  OBVIOUS
<1>1. /\ n \in Nat /\ IsRendering(n, old) /\ PartsFit(insn, kinds, n, old)
      /\ old.x \in 1 .. n + 2 /\ old.x \in Int /\ old.x \in 0 .. 31
      /\ IsRegisters(Executed(old.prelude, xl)) /\ old.prelude \in Seq(PreludeOps)
  BY RenderingFacts
<1>d. DOMAIN old = Fields
  <2>1. IsRendering(n, old)
    BY <1>1
  <2> QED
    BY <2>1, FieldsOf
<1>2. part \in Operands /\ part.file = "x" /\ part.n = old.x
  BY <1>1 DEF Operand, Operands, Files
<1>3. Fits(insn, kind, part)
  BY <1>1, <1>2 DEF Fits, TakesOperand
<1>4. new = [Add(Stride(old, insn), part) EXCEPT !.x = @ + 1]
  BY <1>0, SMT DEF RenderOne
<1> HIDE DEF part
<1>5. kind.k # "vreg" /\ kind.k # "mem"
  OBVIOUS
<1>6. old.parts = <<>> <=> n = 0
  <2>1. Len(old.parts) = n /\ old.parts \in Seq(Operands)
    BY <1>1 DEF PartsFit, IsRendering
  <2> QED
    BY <2>1
<1>7. CASE ~(insn.union \in STRIDED_UNIONS /\ n > 0)
  <2>1. Stride(old, insn) = old
    BY <1>1, <1>6, <1>7 DEF Stride
  <2>2. /\ Advances(old, new, part) /\ new.prelude = old.prelude /\ new.v = old.v
        /\ new["x"] = old["x"] + 1
    <3>0. n \in Nat /\ IsRendering(n, old)
      BY <1>1
    <3>1. "x" \in Counters /\ "x" # "v"
      BY CounterNames
    <3>2. new = Numbered(old, part, "x")
      BY <1>4, <2>1 DEF Numbered
    <3>3. /\ Advances(old, new, part) /\ new.prelude = old.prelude /\ new.v = old.v
          /\ new["x"] = old["x"] + 1
      BY <3>0, <3>1, <3>2, Taking
    <3> QED
      BY <3>2, <3>3
  <2>3. insn.union \in STRIDED_UNIONS => n = 0 /\ part.n \in 1 .. new.x - 1
    BY <1>1, <1>2, <1>7, <2>2
  <2> QED
    BY <1>0, <1>3, <1>5, <2>2, <2>3, PlainRendered
<1>8. CASE insn.union \in STRIDED_UNIONS /\ n > 0
  <2> DEFINE op == Op("stride", old.x, 8)
             more == Append(old.prelude, op)
             mid == [old EXCEPT !.prelude = more]
  <2>1. Stride(old, insn) = mid
    BY <1>1, <1>6, <1>8 DEF Stride
  <2>2. op \in PreludeOps /\ op.rd = old.x
    <3>1. "stride" \in OpNames /\ 8 \in Int \cup (Int \X Int)
      BY DEF OpNames
    <3> QED
      BY <1>1, <3>1, OpTyped
  <2>3. Value(op, xl, Executed(old.prelude, xl)[op.rd]) = Bounded
    BY Constants
  <2> HIDE DEF op
  <2>4. Extends(old.prelude, more, old.x, Bounded, xl)
    BY <1>1, <2>2, <2>3, OneMore
  <2> HIDE DEF more
  <2>5. /\ DOMAIN mid = Fields /\ mid["prelude"] = more
        /\ \A f \in Fields : f # "prelude" => mid[f] = old[f]
    BY <1>d DEF Fields
  <2>6. /\ \A c \in Counters : mid[c] = old[c]
        /\ mid.x = old.x /\ mid.f = old.f /\ mid.cx = old.cx /\ mid.cf = old.cf /\ mid.v = old.v
        /\ mid.parts = old.parts
    BY <2>5 DEF Fields, Counters
  <2> HIDE DEF mid
  <2>7. IsRendering(n, mid)
    <3>1. more \in Seq(PreludeOps)
      BY <2>4 DEF Extends
    <3>2. DOMAIN mid = {"x", "f", "cx", "cf", "v", "prelude", "parts", "trailer"}
      BY <2>5 DEF Fields, Counters
    <3> QED
      BY <1>1, <2>5, <2>6, <3>1, <3>2 DEF IsRendering
  <2>8. /\ Advances(mid, new, part) /\ new.prelude = more /\ new.v = old.v
        /\ new["x"] = old["x"] + 1
    <3>0. n \in Nat /\ IsRendering(n, mid)
      BY <1>1, <2>7
    <3>1. "x" \in Counters /\ "x" # "v"
      BY CounterNames
    <3>2. new = Numbered(mid, part, "x")
      BY <1>4, <2>1 DEF Numbered
    <3>3. /\ Advances(mid, new, part) /\ new.prelude = mid.prelude /\ new.v = mid.v
          /\ new["x"] = mid["x"] + 1
      BY <3>0, <3>1, <3>2, Taking
    <3> QED
      BY <2>5, <2>6, <3>2, <3>3
  <2>9. Advances(old, new, part)
    BY <2>6, <2>8 DEF Advances
  <2>10. Extends(old.prelude, new.prelude, part.n, Bounded, xl) /\ part.n \in 0 .. 31
    BY <1>1, <1>2, <2>4, <2>8
  <2>11. part.n = old.x /\ new.x = old.x + 1
    BY <1>2, <2>8
  <2>12. kinds[n + 1].k \in {"mem", "reg"}
    OBVIOUS
  <2> QED
    BY <1>0, <1>3, <1>5, <1>8, <2>8, <2>9, <2>10, <2>11, <2>12, SetUpRendered
<1> QED
  BY <1>7, <1>8

(* A memory operand, whose base is set up where it is not one of code.     *)
LEMMA MemRendered ==
    ASSUME NEW insn, NEW kinds, NEW n \in 0 .. 7, NEW old, NEW xl \in Xlens,
           Rendered(insn, kinds, n, old, xl), IsOperand(kinds[n + 1]),
           kinds[n + 1].k = "mem", \A q \in 1 .. n : kinds[q].k # "mem",
           insn.union \in STRIDED_UNIONS => kinds[n + 1].base = "reg"
    PROVE  Rendered(insn, kinds, n + 1, RenderOne(old, insn, kinds[n + 1], xl), xl)
<1> DEFINE kind == kinds[n + 1]
<1>0. PICK new : new = RenderOne(old, insn, kind, xl)
  OBVIOUS
<1>1. /\ n \in Nat /\ IsRendering(n, old)
      /\ old.x \in 1 .. n + 2 /\ old.x \in Int /\ old.x \in 0 .. 31 /\ old.cx \in 8 .. 16
      /\ IsRegisters(Executed(old.prelude, xl)) /\ old.prelude \in Seq(PreludeOps)
  BY RenderingFacts
<1>d. DOMAIN old = Fields
  <2>1. IsRendering(n, old)
    BY <1>1
  <2> QED
    BY <2>1, FieldsOf
<1>2. kind.base \in {"reg", "creg", "sp"} /\ kind.bits \in Int
  BY DEF IsOperand
<1>3. PICK base : base = CASE kind.base = "reg" -> old.x
                           [] kind.base = "creg" -> Compressed(old.cx) [] OTHER -> 2
  OBVIOUS
<1>4. /\ base \in 0 .. 31 /\ base \in Int
      /\ kind.base = "reg" => base = old.x
      /\ kind.base = "creg" => base \in 8 .. 15
      /\ kind.base = "sp" => base = 2
  <2>2. Compressed(old.cx) \in 8 .. 15
    BY <1>1, CompressedRegister
  <2> QED
    BY <1>1, <1>2, <1>3, <2>2
<1>5. PICK load : load = IF kind.base = "sp" THEN <<Op("li", 2, SAFE_PAGE)>>
                 ELSE IF insn.union \in CODE_MEM_UNIONS THEN <<>> ELSE SafeAddress(base, xl)
  OBVIOUS
<1>6. PICK part : part = [Operand("mem", base) EXCEPT !.text = IF kind.bits >= 0 THEN "0" ELSE ""]
  OBVIOUS
<1>7. new = [old EXCEPT !.x = IF kind.base = "reg" THEN @ + 1 ELSE @,
                        !.cx = IF kind.base = "creg" THEN @ + 1 ELSE @,
                        !.prelude = @ \o load,
                        !.parts = Append(@, part)]
  <2>1. new = Mem(old, insn, kind, xl)
    BY <1>0, SMT DEF RenderOne
  <2> QED
    BY <2>1, <1>3, <1>5, <1>6 DEF Mem
<1>8. /\ DOMAIN new = Fields
      /\ new.x = IF kind.base = "reg" THEN old.x + 1 ELSE old.x
      /\ new.cx = IF kind.base = "creg" THEN old.cx + 1 ELSE old.cx
      /\ new.f = old.f /\ new.cf = old.cf /\ new.v = old.v
      /\ new.prelude = old.prelude \o load
      /\ new.parts = Append(old.parts, part)
  <2>1. DOMAIN new = Fields
    BY <1>d, <1>7
  <2>2. new.x = IF kind.base = "reg" THEN old.x + 1 ELSE old.x
    BY <1>d, <1>7 DEF Fields, Counters
  <2>3. new.cx = IF kind.base = "creg" THEN old.cx + 1 ELSE old.cx
    BY <1>d, <1>7 DEF Fields, Counters
  <2>4. new.f = old.f /\ new.cf = old.cf /\ new.v = old.v
    BY <1>d, <1>7 DEF Fields, Counters
  <2>5. new.prelude = old.prelude \o load
    BY <1>d, <1>7 DEF Fields, Counters
  <2>6. new.parts = Append(old.parts, part)
    BY <1>d, <1>7 DEF Fields, Counters
  <2> QED
    BY <2>1, <2>2, <2>3, <2>4, <2>5, <2>6
<1>9. Advances(old, new, part)
  <2>1. \A c \in Counters : c \in {"x", "f", "cx", "cf", "v"}
    BY DEF Counters
  <2>2. /\ new.x \in {old.x, old.x + 1} /\ new.f \in {old.f, old.f + 1}
        /\ new.cx \in {old.cx, old.cx + 1} /\ new.cf \in {old.cf, old.cf + 1}
        /\ new.v \in {old.v, old.v + 1}
    BY <1>8
  <2>3. \A c \in Counters : new[c] \in {old[c], old[c] + 1}
    BY <2>1, <2>2
  <2> QED
    BY <1>8, <2>3 DEF Advances
<1>10. /\ part.file = "mem" /\ part.n = base /\ part \in Operands
       /\ part.text = IF kind.bits >= 0 THEN "0" ELSE ""
  <2>1. part = [file |-> "mem", n |-> base, text |-> IF kind.bits >= 0 THEN "0" ELSE ""]
    BY <1>6 DEF Operand
  <2>2. (IF kind.bits >= 0 THEN "0" ELSE "") \in STRING \cup {"", "0"}
    OBVIOUS
  <2>3. part.file = "mem" /\ part.n = base /\ part.text = IF kind.bits >= 0 THEN "0" ELSE ""
    BY <2>1
  <2>4. part \in Operands
    BY <1>4, <2>1, <2>2, FileNames, OperandOf DEF Operands
  <2> QED
    BY <2>3, <2>4
<1>11. Fits(insn, kind, part)
  <2>1. part.text = "0" <=> kind.bits >= 0
    <3>1. PICK none : none = ""
      OBVIOUS
    <3>2. none # "0"
      BY <3>1
    <3>3. part.text = IF kind.bits >= 0 THEN "0" ELSE none
      BY <1>10, <3>1
    <3> QED
      BY <3>2, <3>3
  <2>2. TakesOperand(insn, kind, part)
    BY <1>4, <1>10, <2>1 DEF TakesOperand
  <2> QED
    BY <1>10, <2>2 DEF Fits
<1>12. CASE kind.base = "sp"
  <2>1. PICK op : op = Op("li", 2, SAFE_PAGE)
    OBVIOUS
  <2>2. op \in PreludeOps /\ op.rd = 2
    <3>1. "li" \in OpNames /\ 2 \in 0 .. 31
      BY DEF OpNames
    <3>2. SAFE_PAGE \in Int \cup (Int \X Int)
      BY SMT DEF SAFE_PAGE
    <3> QED
      BY <2>1, <3>1, <3>2, OpTyped
  <2>3. Value(op, xl, Executed(old.prelude, xl)[op.rd]) = Region
    BY <2>1, Constants DEF Region
  <2>4. old.prelude \o load = Append(old.prelude, op)
    <3>1. load = <<op>>
      BY <1>5, <1>12, <2>1
    <3> QED
      BY <1>1, <2>2, <3>1
  <2>5. Extends(old.prelude, new.prelude, part.n, Region, xl)
    BY <1>1, <1>4, <1>8, <1>10, <1>12, <2>2, <2>3, <2>4, OneMore
  <2>6. insn.union \notin STRIDED_UNIONS
    BY <1>12
  <2> QED
    BY <1>0, <1>4, <1>8, <1>9, <1>10, <1>11, <2>5, <2>6, SetUpRendered
<1>13. CASE kind.base # "sp" /\ insn.union \in CODE_MEM_UNIONS
  <2>1. new.prelude = old.prelude
    <3>1. load = <<>>
      BY <1>5, <1>13
    <3> QED
      BY <1>1, <1>8, <3>1
  <2> QED
    BY <1>0, <1>8, <1>9, <1>11, <1>13, <2>1, PlainRendered
<1>14. CASE kind.base # "sp" /\ insn.union \notin CODE_MEM_UNIONS
  <2>1. new.prelude = old.prelude \o SafeAddress(base, xl)
    BY <1>5, <1>8, <1>14
  <2>2. Extends(old.prelude, new.prelude, part.n, Region, xl)
    BY <1>1, <1>4, <1>10, <2>1, SafeAddressLoads
  <2>3. insn.union \in STRIDED_UNIONS => part.n = old.x /\ new.x = old.x + 1
    BY <1>4, <1>8, <1>10
  <2> QED
    BY <1>0, <1>4, <1>8, <1>9, <1>10, <1>11, <2>2, <2>3, SetUpRendered
<1> QED
  BY <1>12, <1>13, <1>14

LEMMA OperandRendered ==
    ASSUME NEW insn, NEW kinds, Renderable(insn, kinds), NEW n \in Nat, n + 1 <= Len(kinds),
           NEW old, NEW xl \in Xlens, Rendered(insn, kinds, n, old, xl)
    PROVE  Rendered(insn, kinds, n + 1, RenderOne(old, insn, kinds[n + 1], xl), xl)
<1> DEFINE kind == kinds[n + 1]
<1>1. n \in 0 .. 7 /\ n + 1 \in 1 .. Len(kinds)
  BY DEF Renderable
<1>2. IsOperand(kind)
  BY <1>1 DEF Renderable
<1>3. kind.k \in {"reg", "freg", "creg", "cfreg", "vreg", "csr", "lit", "imm", "mem"}
  BY <1>2 DEF IsOperand
<1>4. CASE kind.k = "reg"
  BY <1>1, <1>4, ScalarRendered
<1>5. CASE kind.k \in {"freg", "creg", "cfreg", "vreg"}
  BY <1>1, <1>5, RegisterRendered
<1>6. CASE kind.k \in {"imm", "lit", "csr"}
  <2>1. insn.union \in DOMAIN IMM_OVERRIDE /\ kind.k = "imm" => kind.bits > 4
    BY <1>1 DEF Renderable
  <2> QED
    BY <1>1, <1>2, <1>6, <2>1, ValueRendered
<1>7. CASE kind.k = "mem"
  <2>1. \A q \in 1 .. n : kinds[q].k # "mem"
    <3> SUFFICES ASSUME NEW q \in 1 .. n, kinds[q].k = "mem" PROVE FALSE
      OBVIOUS
    <3>1. q \in 1 .. Len(kinds) /\ q # n + 1
      BY <1>1 DEF Renderable
    <3> QED
      BY <1>1, <1>7, <3>1 DEF Renderable
  <2>2. insn.union \in STRIDED_UNIONS => kind.base = "reg"
    BY <1>1, <1>7 DEF Renderable
  <2> QED
    BY <1>1, <1>2, <1>7, <2>1, <2>2, MemRendered
<1> QED
  BY <1>3, <1>4, <1>5, <1>6, <1>7

(* All the operands of an instruction.                                     *)
LEMMA OperandsRendered ==
    ASSUME NEW insn, NEW kinds, Renderable(insn, kinds), NEW xl \in Xlens
    PROVE  Rendered(insn, kinds, Len(kinds), Rendering(insn, xl, kinds)[Len(kinds)], xl)
<1> DEFINE R == Rendering(insn, xl, kinds)
           S == {n \in Nat : n <= Len(kinds) => Rendered(insn, kinds, n, R[n], xl)}
<1>1. Len(kinds) \in Nat
  BY DEF Renderable
<1>2. R[0] = Prelude(insn) /\ \A n \in 1 .. Len(kinds) : R[n] = RenderOne(R[n - 1], insn, kinds[n], xl)
  BY <1>1, RenderingStepwise
<1> HIDE DEF R
<1>3. 0 \in S
  BY <1>2, NothingRendered
<1>4. ASSUME NEW n \in Nat, n \in S PROVE n + 1 \in S
  <2> SUFFICES ASSUME n + 1 <= Len(kinds) PROVE Rendered(insn, kinds, n + 1, R[n + 1], xl)
    OBVIOUS
  <2>1. n <= Len(kinds) /\ n + 1 \in 1 .. Len(kinds) /\ (n + 1) - 1 = n
    BY <1>1
  <2>2. Rendered(insn, kinds, n, R[n], xl)
    BY <1>4, <2>1
  <2>3. R[n + 1] = RenderOne(R[n], insn, kinds[n + 1], xl)
    BY <1>2, <2>1
  <2> QED
    BY <2>2, <2>3, OperandRendered
<1> HIDE DEF S
<1>5. Len(kinds) \in S
  BY <1>1, <1>3, <1>4, NumbersBySuccession
<1> QED
  BY <1>1, <1>5 DEF S, R

(***************************************************************************)
(* What isla-testgen is given for an instruction.                          *)
(***************************************************************************)
Others(kinds) == {kinds[q] : q \in {r \in 1 .. Len(kinds) : kinds[r].k # "lit"}}

LEMMA OthersAreKept ==
    ASSUME NEW kinds, Len(kinds) \in Nat
    PROVE  /\ Without(kinds, OPTIONAL_KINDS) \in Seq(Others(kinds))
           /\ Len(Without(kinds, OPTIONAL_KINDS)) <= Len(kinds)
<1> DEFINE W == Keeping(kinds, OPTIONAL_KINDS)
           S == {n \in Nat : n <= Len(kinds) => W[n] \in Seq(Others(kinds)) /\ Len(W[n]) <= n}
<1>1. /\ W[0] = <<>>
      /\ \A n \in 1 .. Len(kinds) :
            W[n] = IF kinds[n].k = "lit" THEN W[n - 1] ELSE Append(W[n - 1], kinds[n])
  BY KeepingStepwise DEF OPTIONAL_KINDS
<1> HIDE DEF W
<1>2. 0 \in S
  <2>1. W[0] = <<>>
    BY <1>1
  <2>2. <<>> \in Seq(Others(kinds)) /\ Len(<<>>) <= 0 /\ 0 \in Nat
    OBVIOUS
  <2> QED
    BY <2>1, <2>2
<1>3. ASSUME NEW n \in Nat, n \in S PROVE n + 1 \in S
  <2> SUFFICES ASSUME n + 1 <= Len(kinds)
               PROVE  W[n + 1] \in Seq(Others(kinds)) /\ Len(W[n + 1]) <= n + 1
    OBVIOUS
  <2>1. n <= Len(kinds) /\ n + 1 \in 1 .. Len(kinds) /\ (n + 1) - 1 = n
    OBVIOUS
  <2>2. W[n] \in Seq(Others(kinds)) /\ Len(W[n]) <= n
    BY <1>3, <2>1
  <2>3. W[n + 1] = IF kinds[n + 1].k = "lit" THEN W[n] ELSE Append(W[n], kinds[n + 1])
    BY <1>1, <2>1
  <2>4. CASE kinds[n + 1].k = "lit"
    BY <2>2, <2>3, <2>4
  <2>5. CASE kinds[n + 1].k # "lit"
    <3>1. kinds[n + 1] \in Others(kinds)
      BY <2>1, <2>5 DEF Others
    <3>2. W[n + 1] = Append(W[n], kinds[n + 1])
      BY <2>3, <2>5
    <3> QED
      BY <2>2, <3>1, <3>2
  <2> QED
    BY <2>4, <2>5
<1> HIDE DEF S
<1>4. Len(kinds) \in S
  BY <1>2, <1>3, NumbersBySuccession
<1> QED
  BY <1>4 DEF S, W, Without

LEMMA InstructionsRenderable ==
    ASSUME NEW i, IsInstruction(i)
    PROVE  /\ Renderable(i, i.kinds)
           /\ i.clause.exact => Renderable(i, Without(i.kinds, OPTIONAL_KINDS))
<1>1. Len(i.kinds) \in 0 .. 8 /\ Len(i.kinds) \in Nat /\ DOMAIN i.kinds = 1 .. Len(i.kinds)
  BY DEF IsInstruction
<1>2. Renderable(i, i.kinds)
  BY <1>1 DEF Renderable, IsInstruction, At
<1>3. ASSUME i.clause.exact PROVE Renderable(i, Without(i.kinds, OPTIONAL_KINDS))
  <2>1. PICK fewer : fewer = Without(i.kinds, OPTIONAL_KINDS)
    OBVIOUS
  <2>2. fewer \in Seq(Others(i.kinds)) /\ Len(fewer) <= Len(i.kinds)
    BY <1>1, <2>1, OthersAreKept
  <2>3. Len(fewer) \in 0 .. 8 /\ \A p \in 1 .. Len(fewer) : fewer[p] \in Others(i.kinds)
    <3>1. Len(fewer) \in Nat /\ \A p \in 1 .. Len(fewer) : fewer[p] \in Others(i.kinds)
      BY <2>2
    <3>2. Len(i.kinds) \in 0 .. 8
      BY <1>1
    <3>4. Len(fewer) <= Len(i.kinds)
      BY <2>2
    <3>5. \A a \in Nat : \A b \in 0 .. 8 : a <= b => a \in 0 .. 8
      OBVIOUS
    <3>3. Len(fewer) \in 0 .. 8
      BY <3>1, <3>2, <3>4, <3>5
    <3> QED
      BY <3>1, <3>3
  <2>4. \A kind \in Others(i.kinds) : \E q \in 1 .. Len(i.kinds) : kind = i.kinds[q]
    BY DEF Others
  <2>5. \A p \in 1 .. Len(fewer) : IsOperand(fewer[p])
    BY <1>1, <2>3, <2>4 DEF IsInstruction
  <2>6. \A q \in 1 .. Len(i.kinds) : i.kinds[q].k # "mem"
    BY <1>1, <1>3 DEF IsInstruction, At
  <2>7. \A p \in 1 .. Len(fewer) : fewer[p].k # "mem"
    BY <2>3, <2>4, <2>6
  <2>8. i.union \in DOMAIN IMM_OVERRIDE =>
           \A p \in 1 .. Len(fewer) : fewer[p].k = "imm" => fewer[p].bits > 4
    <3>1. i.union \in DOMAIN IMM_OVERRIDE =>
             \A p \in 1 .. Len(i.kinds) : i.kinds[p].k = "imm" => i.kinds[p].bits > 4
      BY <1>2 DEF Renderable
    <3> QED
      BY <2>3, <2>4, <3>1
  <2> QED
    BY <2>1, <2>3, <2>5, <2>7, <2>8 DEF Renderable
<1> QED
  BY <1>2, <1>3

(* The program of these operands.                                          *)
IsProgramOf(program, insn, kinds, xl) ==
    /\ program.ok
    /\ program.prelude = Rendering(insn, xl, kinds)[Len(kinds)].prelude
    /\ program.parts = Rendering(insn, xl, kinds)[Len(kinds)].parts

LEMMA Tried ==
    ASSUME NEW insn, NEW kinds, Renderable(insn, kinds), NEW xl \in Xlens,
           DOMAIN kinds = 1 .. Len(kinds)
    PROVE  /\ Try(insn, xl, kinds).ok \in BOOLEAN
           /\ Try(insn, xl, kinds).ok => IsProgramOf(Try(insn, xl, kinds), insn, kinds, xl)
           /\ (~insn.clause.exact \/ \A p \in 1 .. Len(kinds) : kinds[p].k # "lit")
              => Try(insn, xl, kinds).ok
<1>1. PICK end : end = Rendering(insn, xl, kinds)[Len(kinds)]
  OBVIOUS
<1>2. PartsFit(insn, kinds, Len(kinds), end)
  BY <1>1, OperandsRendered DEF Rendered
<1> DEFINE program == Render(insn, xl, kinds)
           taken == \A p \in DOMAIN kinds : TakesOperand(insn, kinds[p], program.parts[p])
           try == Try(insn, xl, kinds)
<1>3. program = [prelude |-> end.prelude, parts |-> end.parts, trailer |-> end.trailer]
  BY <1>1 DEF Render
<1>4. program.prelude = end.prelude /\ program.parts = end.parts
  BY <1>3
<1>5. /\ taken => try = [prelude |-> program.prelude, parts |-> program.parts,
                         trailer |-> program.trailer, kinds |-> kinds, ok |-> TRUE]
      /\ ~taken => try = NoProgram
  BY DEF Try
<1> HIDE DEF program
<1>6. ASSUME ~insn.clause.exact \/ \A p \in 1 .. Len(kinds) : kinds[p].k # "lit" PROVE taken
  <2> SUFFICES ASSUME NEW p \in 1 .. Len(kinds) PROVE TakesOperand(insn, kinds[p], end.parts[p])
    BY <1>4
  <2>1. kinds[p].k # "lit" => TakesOperand(insn, kinds[p], end.parts[p])
    BY <1>2 DEF PartsFit, Fits
  <2>2. CASE kinds[p].k = "lit"
    <3>1. ~insn.clause.exact
      BY <1>6, <2>2
    <3> QED
      BY <2>2, <3>1 DEF TakesOperand
  <2> QED
    BY <2>1, <2>2
<1> HIDE DEF taken
<1>7. CASE taken
  <2>1. try = [prelude |-> program.prelude, parts |-> program.parts,
               trailer |-> program.trailer, kinds |-> kinds, ok |-> TRUE]
    BY <1>5, <1>7
  <2>2. try.ok = TRUE /\ try.prelude = program.prelude /\ try.parts = program.parts
    BY <2>1
  <2> QED
    BY <1>1, <1>4, <2>2 DEF IsProgramOf
<1>8. CASE ~taken
  <2>1. try.ok = FALSE
    BY <1>5, <1>8 DEF NoProgram
  <2> QED
    BY <1>6, <1>8, <2>1
<1> QED
  BY <1>7, <1>8

(* An instruction that exists is assembled: with all its operands, or with *)
(* what a rounding mode leaves of scalar ones.                             *)
LEMMA InstructionsAreGiven ==
    ASSUME NEW i, IsInstruction(i), NEW xl \in Xlens
    PROVE  /\ ~Exists(i, xl) => ~OpcodesFor(i, xl).ok
           /\ Exists(i, xl) =>
                 \E kinds : /\ Renderable(i, kinds)
                            /\ IsProgramOf(OpcodesFor(i, xl), i, kinds, xl)
                            /\ \/ kinds = i.kinds
                               \/ /\ At(i.kinds, "vreg") = {}
                                  /\ \A p \in 1 .. Len(kinds) : kinds[p].k \notin {"mem", "vreg"}
<1>1. /\ Len(i.kinds) \in Nat /\ DOMAIN i.kinds = 1 .. Len(i.kinds)
      /\ i.clause.exact => At(i.kinds, "mem") = {} /\ At(i.kinds, "vreg") = {}
  BY DEF IsInstruction
<1>2. PICK fewer : fewer = Without(i.kinds, OPTIONAL_KINDS)
  OBVIOUS
<1>3. PICK first : first = Try(i, xl, i.kinds)
  OBVIOUS
<1>4. OpcodesFor(i, xl) = IF ~Exists(i, xl) THEN NoProgram ELSE IF first.ok THEN first
                          ELSE IF fewer # i.kinds THEN Try(i, xl, fewer) ELSE NoProgram
  BY <1>2, <1>3 DEF OpcodesFor
<1>5. Renderable(i, i.kinds) /\ (i.clause.exact => Renderable(i, fewer))
  BY <1>2, InstructionsRenderable
<1>6. /\ first.ok \in BOOLEAN
      /\ first.ok => IsProgramOf(first, i, i.kinds, xl)
      /\ (~i.clause.exact \/ \A p \in 1 .. Len(i.kinds) : i.kinds[p].k # "lit") => first.ok
  BY <1>1, <1>3, <1>5, Tried
<1>7. CASE ~Exists(i, xl)
  <2>1. OpcodesFor(i, xl) = NoProgram
    BY <1>4, <1>7
  <2>2. NoProgram.ok = FALSE
    BY DEF NoProgram
  <2> QED
    BY <1>7, <2>1, <2>2
<1>8. CASE Exists(i, xl) /\ first.ok
  BY <1>4, <1>5, <1>6, <1>8
<1>9. CASE Exists(i, xl) /\ ~first.ok
  <2>1. i.clause.exact /\ \E p \in 1 .. Len(i.kinds) : i.kinds[p].k = "lit"
    BY <1>6, <1>9
  <2>2. fewer \in Seq(Others(i.kinds))
    BY <1>1, <1>2, OthersAreKept
  <2>3. /\ DOMAIN fewer = 1 .. Len(fewer)
        /\ \A p \in 1 .. Len(fewer) : \E q \in 1 .. Len(i.kinds) :
              fewer[p] = i.kinds[q] /\ i.kinds[q].k # "lit"
    <3>1. DOMAIN fewer = 1 .. Len(fewer) /\ \A p \in 1 .. Len(fewer) : fewer[p] \in Others(i.kinds)
      BY <2>2
    <3>2. \A kind \in Others(i.kinds) :
             \E q \in 1 .. Len(i.kinds) : kind = i.kinds[q] /\ i.kinds[q].k # "lit"
      BY DEF Others
    <3> QED
      BY <3>1, <3>2
  <2>4. fewer # i.kinds
    BY <2>1, <2>3
  <2>5. OpcodesFor(i, xl) = Try(i, xl, fewer)
    BY <1>4, <1>9, <2>4
  <2>6. \A p \in 1 .. Len(fewer) : fewer[p].k # "lit"
    BY <2>3
  <2>7. IsProgramOf(OpcodesFor(i, xl), i, fewer, xl)
    BY <1>5, <2>1, <2>3, <2>5, <2>6, Tried
  <2>8. At(i.kinds, "vreg") = {} /\ At(i.kinds, "mem") = {}
    BY <1>1, <2>1
  <2>9. \A q \in 1 .. Len(i.kinds) : i.kinds[q].k \notin {"mem", "vreg"}
    BY <1>1, <2>8 DEF At
  <2>10. \A p \in 1 .. Len(fewer) : fewer[p].k \notin {"mem", "vreg"}
    BY <2>3, <2>9
  <2> QED
    BY <1>5, <1>9, <2>1, <2>7, <2>8, <2>10
<1> QED
  BY <1>6, <1>7, <1>8, <1>9

(***************************************************************************)
(* Vector operands.                                                        *)
(***************************************************************************)
Widths == {8, 16, 32, 64}

LEMMA GroupSizes ==
    \A e \in Widths, s \in Widths, l \in {1, 2} :
        /\ (8 * l * e) \div s \in {1, 2, 4, 8, 16, 32, 64, 128}
        /\ (256 * l) \div s \in {4, 8, 16, 32, 64}
        /\ e \div 8 \in {1, 2, 4, 8}
<1>1. \A e \in Widths : 8 * 1 * e \in {64, 128, 256, 512} /\ 8 * 2 * e \in {128, 256, 512, 1024}
  BY DEF Widths
<1>2. \A e \in Widths, l \in {1, 2} : 8 * l * e \in {64, 128, 256, 512, 1024}
  <2> SUFFICES ASSUME NEW e \in Widths, NEW l \in {1, 2}
               PROVE  8 * l * e \in {64, 128, 256, 512, 1024}
    OBVIOUS
  <2>1. CASE l = 1
    BY <1>1, <2>1
  <2>2. CASE l = 2
    BY <1>1, <2>2
  <2> QED
    BY <2>1, <2>2
<1>3. \A x \in {64, 128, 256, 512, 1024} :
         /\ x \div 8 \in {1, 2, 4, 8, 16, 32, 64, 128} /\ x \div 16 \in {1, 2, 4, 8, 16, 32, 64, 128}
         /\ x \div 32 \in {1, 2, 4, 8, 16, 32, 64, 128} /\ x \div 64 \in {1, 2, 4, 8, 16, 32, 64, 128}
  OBVIOUS
<1>4. \A x \in {64, 128, 256, 512, 1024}, s \in Widths :
         x \div s \in {1, 2, 4, 8, 16, 32, 64, 128}
  BY <1>3 DEF Widths
<1>5. \A l \in {1, 2} :
         /\ (256 * l) \div 8 \in {4, 8, 16, 32, 64} /\ (256 * l) \div 16 \in {4, 8, 16, 32, 64}
         /\ (256 * l) \div 32 \in {4, 8, 16, 32, 64} /\ (256 * l) \div 64 \in {4, 8, 16, 32, 64}
  OBVIOUS
<1>6. \A l \in {1, 2}, s \in Widths : (256 * l) \div s \in {4, 8, 16, 32, 64}
  BY <1>5 DEF Widths
<1>7. \A e \in Widths : e \div 8 \in {1, 2, 4, 8}
  BY DEF Widths
<1> QED
  BY <1>2, <1>4, <1>6, <1>7

(* Groups are of one, two, four or eight registers.                        *)
LEMMA GroupsOfRegisters ==
    ASSUME NEW width, NEW sew \in Widths, NEW lmul \in {1, 2},
           Eew(width, sew) \in Widths, Eighths(width, sew, lmul) \in 1 .. 64
    PROVE  Regs(width, sew, lmul) \in {1, 2, 4, 8}
<1>1. PICK e \in Widths : e = Eew(width, sew)
  OBVIOUS
<1>2. PICK x : x = Eighths(width, sew, lmul)
  OBVIOUS
<1>3. x = (8 * lmul * e) \div sew
  BY <1>1, <1>2 DEF Eighths
<1>4. x \in {1, 2, 4, 8, 16, 32, 64, 128}
  BY <1>3, GroupSizes
<1>5. x \in {1, 2, 4, 8, 16, 32, 64}
  BY <1>2, <1>4
<1>6. Regs(width, sew, lmul) = IF x <= 8 THEN 1 ELSE x \div 8
  BY <1>2 DEF Regs
<1> QED
  BY <1>5, <1>6

(* Of two vector operands, the later one has the higher place.             *)
LEMMA PlacesGrow ==
    ASSUME NEW kinds, NEW p \in Nat, NEW q \in Nat, p < q, q \in Vregs(kinds, q)
    PROVE  Cardinality(Vregs(kinds, p)) < Cardinality(Vregs(kinds, q))
<1>1. /\ IsFiniteSet(Vregs(kinds, q)) /\ Cardinality(Vregs(kinds, q)) \in Nat
      /\ Cardinality(Vregs(kinds, p)) \in Nat
  BY VregsFinite
<1>2. Vregs(kinds, p) \subseteq Vregs(kinds, q)
  BY DEF Vregs
<1>3. q \notin Vregs(kinds, p)
  BY DEF Vregs
<1>4. /\ Cardinality(Vregs(kinds, p)) <= Cardinality(Vregs(kinds, q))
      /\ Cardinality(Vregs(kinds, q)) = Cardinality(Vregs(kinds, p))
         => Vregs(kinds, q) = Vregs(kinds, p)
  BY <1>1, <1>2, FS_Subset
<1> QED
  BY <1>1, <1>3, <1>4

(* The vector operands of a program, and their vtype.                      *)
LEMMA VectorOperands ==
    ASSUME NEW insn, NEW end, NEW program, NEW xl,
           Len(insn.kinds) \in Nat, DOMAIN insn.kinds = 1 .. Len(insn.kinds),
           Rendered(insn, insn.kinds, Len(insn.kinds), end, xl),
           program.parts = end.parts, program.prelude = end.prelude
    PROVE  /\ VregsOf(program) = At(insn.kinds, "vreg")
           /\ \A p \in VregsOf(program) :
                 /\ p \in 1 .. Len(insn.kinds) /\ p \in Vregs(insn.kinds, p)
                 /\ Place(program, p) = Cardinality(Vregs(insn.kinds, p))
                 /\ program.parts[p].n = Vreg(Place(program, p) - 1)
           /\ At(insn.kinds, "vreg") # {} =>
                 VtypeOf(program) = <<Sew(insn.mnemonic), Lmul(insn.mnemonic)>>
<1> DEFINE kinds == insn.kinds
           N == Len(insn.kinds)
<1>1. /\ PartsFit(insn, kinds, N, end) /\ VregsInOrder(kinds, N, end) /\ VtypeIsSet(insn, end)
      /\ IsRendering(N, end)
  BY DEF Rendered
<1>2. Len(end.parts) = N /\ DOMAIN end.parts = 1 .. N
  <2>1. end.parts \in Seq(Operands)
    BY <1>1 DEF IsRendering
  <2>2. Len(end.parts) = N
    BY <1>1 DEF PartsFit
  <2> QED
    BY <2>1, <2>2
<1>3. \A q \in 1 .. N : end.parts[q].file = "v" <=> kinds[q].k = "vreg"
  BY <1>1 DEF PartsFit, Fits
<1>4. VregsOf(program) = {q \in 1 .. N : kinds[q].k = "vreg"}
  BY <1>2, <1>3 DEF VregsOf
<1>5. VregsOf(program) = At(kinds, "vreg")
  BY <1>4 DEF At
<1>6. ASSUME NEW p \in VregsOf(program)
      PROVE  /\ p \in 1 .. N /\ p \in Vregs(kinds, p)
             /\ Place(program, p) = Cardinality(Vregs(kinds, p))
             /\ program.parts[p].n = Vreg(Place(program, p) - 1)
  <2>1. p \in 1 .. N /\ kinds[p].k = "vreg"
    BY <1>4, <1>6
  <2>2. p \in Vregs(kinds, p) /\ p \in Vregs(kinds, N)
    BY <2>1 DEF Vregs
  <2>3. {q \in VregsOf(program) : q <= p} = Vregs(kinds, p)
    BY <1>4, <2>1 DEF Vregs
  <2>4. Place(program, p) = Cardinality(Vregs(kinds, p))
    BY <2>3 DEF Place
  <2>5. end.parts[p].n = Vreg(Cardinality(Vregs(kinds, p)) - 1)
    BY <1>1, <2>2 DEF VregsInOrder
  <2> QED
    BY <2>1, <2>2, <2>4, <2>5
<1>7. ASSUME At(kinds, "vreg") # {}
      PROVE  VtypeOf(program) = <<Sew(insn.mnemonic), Lmul(insn.mnemonic)>>
  <2>1. end.prelude[1] = Op("vsetvli", 1, <<Sew(insn.mnemonic), Lmul(insn.mnemonic)>>)
    BY <1>1, <1>7 DEF VtypeIsSet
  <2> QED
    BY <2>1 DEF VtypeOf, Op
<1> QED
  BY <1>5, <1>6, <1>7

(* The groups of two places, one above the other.                          *)
LEMMA GroupsApart ==
    ASSUME NEW a \in 1 .. 3, NEW b \in 1 .. 3, a < b, NEW m \in 1 .. 8, NEW n \in 1 .. 8
    PROVE  (8 * a .. 8 * a + m - 1) \cap (8 * b .. 8 * b + n - 1) = {}
<1>1. 8 * a + m - 1 < 8 * b
  OBVIOUS
<1> QED
  BY <1>1

LEMMA FirstRegisters == \A k \in 1 .. 3 : Vreg(k - 1) = 8 * k
BY DEF Vreg

LEMMA Aligned ==
    /\ \A k \in 1 .. 3, r \in {1, 2, 4, 8} : (8 * k) % r = 0
    /\ \A k \in 1 .. 3, m \in 1 .. 8 : 8 * k .. 8 * k + m - 1 \subseteq 1 .. 31
<1>1. /\ \A r \in {1, 2, 4, 8} : 8 % r = 0 /\ 16 % r = 0 /\ 24 % r = 0
  OBVIOUS
<1>2. \A k \in 1 .. 3 : k = 1 \/ k = 2 \/ k = 3
  OBVIOUS
<1>3. 8 * 1 = 8 /\ 8 * 2 = 16 /\ 8 * 3 = 24
  OBVIOUS
<1>4. ASSUME NEW k \in 1 .. 3, NEW r \in {1, 2, 4, 8} PROVE (8 * k) % r = 0
  <2>1. CASE k = 1
    BY <1>1, <1>3, <2>1
  <2>2. CASE k = 2
    BY <1>1, <1>3, <2>2
  <2>3. CASE k = 3
    BY <1>1, <1>3, <2>3
  <2> QED
    BY <1>2, <2>1, <2>2, <2>3
<1>5. \A k \in 1 .. 3, m \in 1 .. 8 : 8 * k .. 8 * k + m - 1 \subseteq 1 .. 31
  OBVIOUS
<1> QED
  BY <1>4, <1>5

(* Registers of a field times its fields: eight at most.                   *)
LEMMA GroupsOfFields ==
    \A r \in {1, 2, 4, 8}, n \in Nat \ {0} : r * n <= 8 => r * n \in 1 .. 8 /\ n \in 1 .. 8
<1> SUFFICES ASSUME NEW r \in {1, 2, 4, 8}, NEW n \in Nat \ {0}, r * n <= 8
             PROVE  r * n \in 1 .. 8 /\ n \in 1 .. 8
  OBVIOUS
<1>1. CASE r = 1
  BY <1>1
<1>2. CASE r = 2
  BY <1>2
<1>3. CASE r = 4
  BY <1>3
<1>4. CASE r = 8
  BY <1>4
<1> QED
  BY <1>1, <1>2, <1>3, <1>4

(* What is known of the vector operand at place k.                         *)
LEMMA FieldsFit ==
    ASSUME NEW vector, NEW mnemonic, NEW operands, IsVector(vector, mnemonic, operands),
           NEW k \in 1 .. Len(vector.widths)
    PROVE  LET sew == Sew(mnemonic)
               lmul == Lmul(mnemonic)
           IN  /\ sew \in Widths /\ lmul \in {1, 2}
               /\ Eew(vector.widths[k], sew) \in Widths
               /\ Regs(vector.widths[k], sew, lmul) \in {1, 2, 4, 8}
               /\ Regs(vector.widths[k], sew, lmul) * vector.nf[k] \in 1 .. 8
               /\ vector.nf[k] \in 1 .. 8
<1> DEFINE sew == Sew(mnemonic)
           lmul == Lmul(mnemonic)
<1>1. sew \in Widths /\ lmul \in {1, 2}
  BY VtypeTyped DEF Widths
<1> HIDE DEF sew, lmul
<1>2. VtypeFits(vector, sew, lmul) /\ k \in DOMAIN vector.widths /\ vector.nf[k] \in Nat \ {0}
  BY DEF IsVector, sew, lmul
<1>3. /\ Eew(vector.widths[k], sew) \in Widths
      /\ Eighths(vector.widths[k], sew, lmul) \in 1 .. 64
      /\ Regs(vector.widths[k], sew, lmul) * vector.nf[k] <= 8
  BY <1>2 DEF VtypeFits, Widths
<1>4. Regs(vector.widths[k], sew, lmul) \in {1, 2, 4, 8}
  BY <1>1, <1>3, GroupsOfRegisters
<1>5. Regs(vector.widths[k], sew, lmul) * vector.nf[k] \in 1 .. 8 /\ vector.nf[k] \in 1 .. 8
  BY <1>2, <1>3, <1>4, GroupsOfFields
<1> QED
  BY <1>1, <1>3, <1>4, <1>5 DEF sew, lmul

(* The places of up to three vector operands.                              *)
LEMMA PlacesInRange ==
    ASSUME NEW kinds, NEW p, NEW N \in Nat, p \in 1 .. N, p \in Vregs(kinds, p),
           NEW count, count = Cardinality(Vregs(kinds, N)), count <= 3
    PROVE  Cardinality(Vregs(kinds, p)) \in 1 .. count /\ count \in Nat
           /\ Cardinality(Vregs(kinds, p)) \in 1 .. 3
<1>1. /\ IsFiniteSet(Vregs(kinds, N)) /\ Cardinality(Vregs(kinds, N)) \in Nat
      /\ IsFiniteSet(Vregs(kinds, p)) /\ Cardinality(Vregs(kinds, p)) \in Nat
  BY VregsFinite
<1>2. Vregs(kinds, p) \subseteq Vregs(kinds, N)
  BY DEF Vregs
<1>3. Cardinality(Vregs(kinds, p)) <= Cardinality(Vregs(kinds, N))
  BY <1>1, <1>2, FS_Subset
<1>4. Cardinality(Vregs(kinds, p)) # 0
  BY <1>1, FS_EmptySet
<1> QED
  BY <1>1, <1>3, <1>4

(* A vector instruction is legal under the vtype set for it.               *)
LEMMA VectorsAreLegal ==
    ASSUME NEW i, IsInstruction(i), At(i.kinds, "vreg") # {}, NEW end, NEW program, NEW xl,
           Rendered(i, i.kinds, Len(i.kinds), end, xl),
           program.parts = end.parts, program.prelude = end.prelude
    PROVE  VectorIsLegal(i.clause.vector, program)
<1> DEFINE kinds == i.kinds
           N == Len(i.kinds)
           operands == At(i.kinds, "vreg")
           vector == i.clause.vector
           sew == Sew(i.mnemonic)
           lmul == Lmul(i.mnemonic)
           place(p) == Place(program, p)
           regs(p) == Regs(vector.widths[place(p)], sew, lmul)
           first(p) == program.parts[p].n
           size(p) == regs(p) * vector.nf[place(p)]
           group(p) == first(p) .. first(p) + size(p) - 1
<1>1. N \in Nat /\ DOMAIN kinds = 1 .. N /\ IsVector(vector, i.mnemonic, operands)
  BY DEF IsInstruction
<1>2. /\ VregsOf(program) = operands
      /\ \A p \in operands : /\ p \in 1 .. N /\ p \in Vregs(kinds, p)
                             /\ place(p) = Cardinality(Vregs(kinds, p))
                             /\ first(p) = Vreg(place(p) - 1)
      /\ VtypeOf(program) = <<sew, lmul>>
  BY <1>1, VectorOperands
<1>3. operands = Vregs(kinds, N)
  BY <1>1 DEF At, Vregs
<1>4. /\ Cardinality(operands) <= 3 /\ Len(vector.widths) = Cardinality(operands)
      /\ VtypeFits(vector, sew, lmul)
  BY <1>1 DEF IsVector
<1>5. ASSUME NEW p \in operands
      PROVE  /\ place(p) \in 1 .. 3 /\ first(p) = 8 * place(p)
             /\ regs(p) \in {1, 2, 4, 8} /\ size(p) \in 1 .. 8
  <2>1. Cardinality(Vregs(kinds, p)) \in 1 .. Len(vector.widths)
        /\ Cardinality(Vregs(kinds, p)) \in 1 .. 3
    BY <1>1, <1>2, <1>3, <1>4, PlacesInRange
  <2>2. place(p) \in 1 .. Len(vector.widths) /\ place(p) \in 1 .. 3
    BY <1>2, <2>1
  <2>3. first(p) = 8 * place(p)
    BY <1>2, <2>2, FirstRegisters
  <2>4. regs(p) \in {1, 2, 4, 8} /\ size(p) \in 1 .. 8
    BY <1>1, <2>2, FieldsFit
  <2> QED
    BY <2>2, <2>3, <2>4
<1>6. ASSUME NEW p \in operands, NEW q \in operands, p < q PROVE place(p) < place(q)
  <2>1. p \in Nat /\ q \in Nat /\ q \in Vregs(kinds, q)
    BY <1>1, <1>2
  <2> QED
    BY <1>2, <1>6, <2>1, PlacesGrow
<1> HIDE DEF place, regs, first, size
<1>7. ASSUME NEW p \in operands
      PROVE  first(p) % regs(p) = 0 /\ group(p) \subseteq 1 .. 31
  <2>1. PICK k \in 1 .. 3 : k = place(p)
    BY <1>5
  <2> QED
    BY <1>5, <2>1, Aligned
<1>8. ASSUME NEW p \in operands, NEW q \in operands, p # q PROVE group(p) \cap group(q) = {}
  <2>1. p \in Int /\ q \in Int
    BY <1>1, <1>2
  <2>2. CASE p < q
    BY <1>5, <1>6, <2>2, GroupsApart
  <2>3. CASE q < p
    <3>1. group(q) \cap group(p) = {}
      BY <1>5, <1>6, <2>3, GroupsApart
    <3> QED
      BY <3>1
  <2> QED
    BY <1>8, <2>1, <2>2, <2>3
<1>9. GroupsAreLegal(vector, program, sew, lmul)
  BY <1>2, <1>4, <1>7, <1>8 DEF GroupsAreLegal, place, regs, first, size
<1>10. VtypeOf(program)[1] = sew /\ VtypeOf(program)[2] = lmul
  BY <1>2
<1> QED
  BY <1>4, <1>9, <1>10 DEF VectorIsLegal

(* The largest access of an instruction fits the region exactly if it is   *)
(* not indexed by more than the region holds.                              *)
LEMMA ReachFits ==
    ASSUME NEW i, IsInstruction(i), NEW end, NEW program, NEW xl,
           Rendered(i, i.kinds, Len(i.kinds), end, xl),
           program.parts = end.parts, program.prelude = end.prelude
    PROVE  Reach(i, program) <= RegionBytes <=>
              ~/\ Indexed(i)
               /\ \/ IndexWidth(i, program) > 16
                  \/ IndexWidth(i, program) = 16 /\ Record(i, program) > 1
<1> DEFINE kinds == i.kinds
           N == Len(i.kinds)
           operands == At(i.kinds, "vreg")
           vector == i.clause.vector
<1>1. N \in Nat /\ DOMAIN kinds = 1 .. N
      /\ (operands # {} => IsVector(vector, i.mnemonic, operands))
  BY DEF IsInstruction
<1>2. /\ VregsOf(program) = operands
      /\ operands # {} => VtypeOf(program) = <<Sew(i.mnemonic), Lmul(i.mnemonic)>>
  BY <1>1, VectorOperands
<1>3. RegionBytes = 65536
  BY SMT DEF RegionBytes
<1>4. CASE operands = {}
  <2>1. Reach(i, program) = 8
    BY <1>2, <1>4 DEF Reach
  <2>2. ~Indexed(i)
    <3>1. Cardinality({}) = 0
      BY FS_EmptySet
    <3>2. ~(Cardinality(operands) > 1)
      BY <1>4, <3>1
    <3> QED
      BY <3>2, Zenon DEF Indexed
  <2> QED
    BY <1>3, <2>1, <2>2
<1>5. CASE operands # {}
  <2> DEFINE sew == VtypeOf(program)[1]
             lmul == VtypeOf(program)[2]
             eew == Eew(vector.widths[1], sew)
             nf == vector.nf[1]
             vlmax == (256 * lmul) \div sew
             record == Record(i, program)
  <2>1. sew = Sew(i.mnemonic) /\ lmul = Lmul(i.mnemonic)
    BY <1>2, <1>5
  <2>2. 1 \in 1 .. Len(vector.widths)
    <3>1. operands = Vregs(kinds, N)
      BY <1>1 DEF At, Vregs
    <3>2. IsFiniteSet(operands) /\ Cardinality(operands) \in Nat
      BY <1>1, <3>1, VregsFinite
    <3>3. Cardinality(operands) # 0
      BY <1>5, <3>2, FS_EmptySet
    <3>4. Len(vector.widths) = Cardinality(operands)
      BY <1>1, <1>5 DEF IsVector
    <3> QED
      BY <3>2, <3>3, <3>4
  <2>5. sew \in Widths /\ lmul \in {1, 2} /\ eew \in Widths /\ nf \in 1 .. 8
    BY <1>1, <1>5, <2>1, <2>2, FieldsFit
  <2>3. ASSUME Indexed(i) PROVE IndexWidth(i, program) \in Widths
    <3>1. operands = Vregs(kinds, N)
      BY <1>1 DEF At, Vregs
    <3>2. Cardinality(operands) \in Nat /\ Cardinality(operands) > 1
      BY <1>1, <2>3, <3>1, VregsFinite DEF Indexed
    <3>3. Len(vector.widths) = Cardinality(operands)
      BY <1>1, <1>5 DEF IsVector
    <3>4. 2 \in 1 .. Len(vector.widths)
      BY <3>2, <3>3
    <3>5. Eew(vector.widths[2], sew) \in Widths
      BY <1>1, <1>5, <2>1, <3>4, FieldsFit
    <3>6. Eew(vector.widths[2], sew) = IndexWidth(i, program)
      BY DEF IndexWidth
    <3> QED
      BY <3>5, <3>6
  <2>10. Reach(i, program) =
             CASE i.union \in STRIDED_UNIONS -> (vlmax - 1) * 8 + record
               [] Indexed(i) -> LargestIndex(IndexWidth(i, program)) + record
               [] OTHER -> vlmax * record
    <3>1. VregsOf(program) # {}
      BY <1>2, <1>5
    <3> QED
      BY <3>1, Zenon DEF Reach
  <2>14. record = (eew \div 8) * nf
    BY Zenon DEF Record
  <2> HIDE DEF sew, lmul, eew, nf, record
  <2>8. vlmax \in {4, 8, 16, 32, 64} /\ eew \div 8 \in {1, 2, 4, 8}
    BY <2>5, GroupSizes
  <2>9. record \in 1 .. 64
    <3>1. PICK bytes : bytes = eew \div 8
      OBVIOUS
    <3>2. \A b \in {1, 2, 4, 8}, n \in 1 .. 8 : b * n \in 1 .. 64
      <4> SUFFICES ASSUME NEW b \in {1, 2, 4, 8}, NEW n \in 1 .. 8 PROVE b * n \in 1 .. 64
        OBVIOUS
      <4>1. CASE b = 1
        BY <4>1
      <4>2. CASE b = 2
        BY <4>2
      <4>3. CASE b = 4
        BY <4>3
      <4>4. CASE b = 8
        BY <4>4
      <4> QED
        BY <4>1, <4>2, <4>3, <4>4
    <3>3. record = bytes * nf /\ bytes \in {1, 2, 4, 8}
      BY <2>8, <2>14, <3>1
    <3> QED
      BY <2>5, <3>2, <3>3
  <2> HIDE DEF vlmax
  <2>11. (vlmax - 1) * 8 + record <= 65536
    BY <2>8, <2>9
  <2>12. vlmax * record <= 65536
    <3>1. CASE vlmax = 4
      BY <2>9, <3>1
    <3>2. CASE vlmax = 8
      BY <2>9, <3>2
    <3>3. CASE vlmax = 16
      BY <2>9, <3>3
    <3>4. CASE vlmax = 32
      BY <2>9, <3>4
    <3>5. CASE vlmax = 64
      BY <2>9, <3>5
    <3> QED
      BY <2>8, <3>1, <3>2, <3>3, <3>4, <3>5
  <2>13. ASSUME Indexed(i)
         PROVE  LargestIndex(IndexWidth(i, program)) + record <= 65536 <=>
                   ~(\/ IndexWidth(i, program) > 16
                     \/ IndexWidth(i, program) = 16 /\ record > 1)
    <3>1. PICK width : width = IndexWidth(i, program)
      OBVIOUS
    <3>2. /\ LargestIndex(8) = 255 /\ LargestIndex(16) = 65535
          /\ LargestIndex(32) = 16777216 /\ LargestIndex(64) = 16777216
      BY SMT DEF LargestIndex, Anywhere
    <3>3. width \in Widths
      BY <2>3, <2>13, <3>1
    <3>4. LargestIndex(width) + record <= 65536 <=> ~(width > 16 \/ (width = 16 /\ record > 1))
      <4>1. CASE width = 8
        BY <2>9, <3>2, <4>1
      <4>2. CASE width = 16
        BY <2>9, <3>2, <4>2
      <4>3. CASE width \in {32, 64}
        BY <2>9, <3>2, <4>3
      <4> QED
        BY <3>3, <4>1, <4>2, <4>3 DEF Widths
    <3> QED
      BY <3>1, <3>4
  <2>15. Indexed(i) => i.union \notin STRIDED_UNIONS
    BY DEF Indexed
  <2>16. CASE Indexed(i)
    <3>1. Reach(i, program) = LargestIndex(IndexWidth(i, program)) + record
      BY <2>10, <2>15, <2>16
    <3> QED
      BY <1>3, <2>13, <2>16, <3>1 DEF record
  <2>17. CASE ~Indexed(i)
    BY <1>3, <2>10, <2>11, <2>12, <2>17
  <2> QED
    BY <2>16, <2>17
<1> QED
  BY <1>4, <1>5

(* The sweep, at an instruction it generates: what it gives to             *)
(* isla-testgen is the program of the instruction's operands.              *)
LEMMA InstructionAtHand ==
    ASSUME IInv, AtInsn, NEW i \in Instances[Current]
    PROVE  IsInstruction(i) /\ xlen \in Xlens /\ Given(i) = OpcodesFor(i, xlen)
<1>1. Current \in Mnemonics /\ xlen \in Xlens
  <2>1. pos \in 1 .. Len(Order)
    BY LenOrder DEF IInv, InRange, AtInsn
  <2> QED
    BY <2>1, CurrentIsMnemonic DEF IInv, RunTyped
<1>2. IsInstruction(i)
  BY <1>1, InstancesAssumption
<1>3. Programs[Current] = [j \in Instances[Current] |-> [x \in Xlens |-> OpcodesFor(j, x)]]
  BY <1>1 DEF Programs
<1>4. Programs[Current][i] = [x \in Xlens |-> OpcodesFor(i, x)]
  BY <1>3
<1> QED
  BY <1>1, <1>2, <1>4 DEF Given

LEMMA OperandsLegalHere == ASSUME IInv PROVE OperandsAreLegal
<1> SUFFICES ASSUME AtInsn, Applicable, NEW i \in Instances[Current], Exists(i, xlen)
             PROVE  /\ Given(i).ok
                    /\ (\E k \in DOMAIN i.kinds : i.kinds[k].k = "vreg")
                       => VectorIsLegal(i.clause.vector, Given(i))
  BY DEF OperandsAreLegal
<1>1. IsInstruction(i) /\ xlen \in Xlens /\ Given(i) = OpcodesFor(i, xlen)
  BY InstructionAtHand
<1>2. PICK kinds : /\ Renderable(i, kinds)
                   /\ IsProgramOf(Given(i), i, kinds, xlen)
                   /\ \/ kinds = i.kinds
                      \/ At(i.kinds, "vreg") = {}
  BY <1>1, InstructionsAreGiven
<1>3. Given(i).ok
  BY <1>2 DEF IsProgramOf
<1>4. ASSUME NEW k \in DOMAIN i.kinds, i.kinds[k].k = "vreg"
      PROVE  VectorIsLegal(i.clause.vector, Given(i))
  <2>1. At(i.kinds, "vreg") # {}
    BY <1>4 DEF At
  <2>2. kinds = i.kinds
    BY <1>2, <2>1
  <2>3. PICK end : end = Rendering(i, xlen, i.kinds)[Len(i.kinds)]
    OBVIOUS
  <2>4. Rendered(i, i.kinds, Len(i.kinds), end, xlen)
    BY <1>1, <1>2, <2>2, <2>3, OperandsRendered
  <2>5. Given(i).parts = end.parts /\ Given(i).prelude = end.prelude
    BY <1>2, <2>2, <2>3 DEF IsProgramOf
  <2> QED
    BY <1>1, <2>1, <2>4, <2>5, VectorsAreLegal
<1> QED
  BY <1>3, <1>4

(* Nothing left to the solver leaves the region.                           *)
LEMMA AccessesStayHere ==
    ASSUME IInv, AtInsn, Applicable, NEW i \in DataAccesses, ~LeftToSolver(i)
    PROVE  StaysInRegion(i)
<1> SUFFICES ASSUME NEW p \in {q \in Range(Given(i).parts) : q.file = "mem"}
             PROVE  /\ Executed(Given(i).prelude, xlen)[p.n] = Region
                    /\ Reach(i, Given(i)) <= RegionBytes
                    /\ i.union \in STRIDED_UNIONS =>
                          \E q \in Range(Given(i).parts) :
                              q.file = "x" /\ Executed(Given(i).prelude, xlen)[q.n] = Bounded
  BY DEF StaysInRegion
<1>0. i \in Instances[Current] /\ Given(i).ok /\ i.union \notin CODE_MEM_UNIONS
  BY DEF DataAccesses
<1>1. IsInstruction(i) /\ xlen \in Xlens /\ Given(i) = OpcodesFor(i, xlen)
  BY <1>0, InstructionAtHand
<1>2. Exists(i, xlen)
  BY <1>0, <1>1, InstructionsAreGiven
<1>3. PICK kinds : /\ Renderable(i, kinds)
                   /\ IsProgramOf(Given(i), i, kinds, xlen)
                   /\ \/ kinds = i.kinds
                      \/ \A q \in 1 .. Len(kinds) : kinds[q].k \notin {"mem", "vreg"}
  BY <1>1, <1>2, InstructionsAreGiven
<1>4. PICK end : end = Rendering(i, xlen, kinds)[Len(kinds)]
  OBVIOUS
<1>5. PICK N : N = Len(kinds)
  OBVIOUS
<1>6. Rendered(i, kinds, N, end, xlen) /\ N \in Nat
  <2>1. Rendered(i, kinds, Len(kinds), end, xlen)
    BY <1>1, <1>3, <1>4, OperandsRendered
  <2>2. Len(kinds) \in Nat
    BY <1>3 DEF Renderable
  <2> QED
    BY <1>5, <2>1, <2>2
<1>7. /\ PartsFit(i, kinds, N, end) /\ PointersAreSet(i, kinds, N, end, xlen)
      /\ IsRendering(N, end)
  BY <1>6 DEF Rendered
<1>8. Given(i).parts = end.parts /\ Given(i).prelude = end.prelude
  BY <1>3, <1>4 DEF IsProgramOf
<1>9. DOMAIN end.parts = 1 .. N
  <2>1. end.parts \in Seq(Operands)
    BY <1>7 DEF IsRendering
  <2>2. Len(end.parts) = N
    BY <1>7 DEF PartsFit
  <2> QED
    BY <2>1, <2>2
<1>10. PICK at \in 1 .. N : p = end.parts[at]
  BY <1>8, <1>9 DEF Range
<1>11. kinds[at].k = "mem"
  <2>1. p.file = "mem"
    OBVIOUS
  <2>2. Fits(i, kinds[at], end.parts[at])
    BY <1>7 DEF PartsFit
  <2> QED
    BY <1>10, <2>1, <2>2 DEF Fits
<1>12. Executed(Given(i).prelude, xlen)[p.n] = Region
  BY <1>0, <1>7, <1>8, <1>10, <1>11 DEF PointersAreSet
<1>13. kinds = i.kinds
  BY <1>3, <1>5, <1>11
<1>14. Reach(i, Given(i)) <= RegionBytes
  BY <1>1, <1>5, <1>6, <1>8, <1>13, ReachFits, Zenon DEF LeftToSolver
<1>15. ASSUME i.union \in STRIDED_UNIONS
       PROVE  \E q \in Range(Given(i).parts) :
                  q.file = "x" /\ Executed(Given(i).prelude, xlen)[q.n] = Bounded
  <2>1. DOMAIN kinds = 1 .. N /\ at \in At(kinds, "mem")
    BY <1>1, <1>5, <1>11, <1>13 DEF IsInstruction, At
  <2>2. PICK next \in At(kinds, "reg") : next > at
    BY <1>1, <1>13, <1>15, <2>1 DEF IsInstruction
  <2>3. next \in 1 .. N /\ kinds[next].k = "reg" /\ next > 1
    BY <2>1, <2>2 DEF At
  <2>4. Executed(end.prelude, xlen)[end.parts[next].n] = Bounded
    BY <1>7, <1>15, <2>3 DEF PointersAreSet
  <2>5. end.parts[next].file = "x"
    <3>1. Fits(i, kinds[next], end.parts[next])
      BY <1>7, <2>3 DEF PartsFit
    <3> QED
      BY <2>3, <3>1 DEF Fits
  <2>6. end.parts[next] \in Range(Given(i).parts)
    BY <1>8, <1>9, <2>3 DEF Range
  <2> QED
    BY <1>8, <2>4, <2>5, <2>6
<1> QED
  BY <1>12, <1>14, <1>15

(* What is left to the solver may leave it.                                *)
LEMMA IndicesLeave ==
    ASSUME IInv, AtInsn, Applicable, NEW i \in DataAccesses, LeftToSolver(i)
    PROVE  ~StaysInRegion(i)
<1>0. i \in Instances[Current] /\ Given(i).ok
  BY DEF DataAccesses
<1>1. IsInstruction(i) /\ xlen \in Xlens /\ Given(i) = OpcodesFor(i, xlen)
  BY <1>0, InstructionAtHand
<1>2. Exists(i, xlen)
  BY <1>0, <1>1, InstructionsAreGiven
<1>3. PICK kinds : /\ Renderable(i, kinds)
                   /\ IsProgramOf(Given(i), i, kinds, xlen)
                   /\ \/ kinds = i.kinds
                      \/ At(i.kinds, "vreg") = {}
  BY <1>1, <1>2, InstructionsAreGiven
<1>4. At(i.kinds, "vreg") # {} /\ At(i.kinds, "mem") # {}
  <2>1. Indexed(i)
    BY DEF LeftToSolver
  <2> QED
    BY <2>1, FS_EmptySet DEF Indexed
<1>5. PICK end : end = Rendering(i, xlen, i.kinds)[Len(i.kinds)]
  OBVIOUS
<1>6. kinds = i.kinds /\ Rendered(i, i.kinds, Len(i.kinds), end, xlen)
  BY <1>1, <1>3, <1>4, <1>5, OperandsRendered
<1>7. Given(i).parts = end.parts /\ Given(i).prelude = end.prelude
  BY <1>3, <1>5, <1>6 DEF IsProgramOf
<1>8. ~(Reach(i, Given(i)) <= RegionBytes)
  BY <1>1, <1>6, <1>7, ReachFits, Zenon DEF LeftToSolver
<1>9. PICK at \in DOMAIN i.kinds : i.kinds[at].k = "mem"
  BY <1>4 DEF At
<1>10. end.parts[at].file = "mem" /\ end.parts[at] \in Range(Given(i).parts)
  <2>1. /\ PartsFit(i, i.kinds, Len(i.kinds), end) /\ IsRendering(Len(i.kinds), end)
        /\ DOMAIN i.kinds = 1 .. Len(i.kinds) /\ Len(i.kinds) \in Nat
    BY <1>1, <1>6 DEF Rendered, IsInstruction
  <2>2. DOMAIN end.parts = 1 .. Len(i.kinds)
    <3>1. end.parts \in Seq(Operands) /\ Len(end.parts) = Len(i.kinds)
      BY <2>1 DEF IsRendering, PartsFit
    <3> QED
      BY <3>1
  <2>3. Fits(i, i.kinds[at], end.parts[at])
    BY <1>9, <2>1 DEF PartsFit
  <2> QED
    BY <1>7, <1>9, <2>1, <2>2, <2>3 DEF Fits, Range
<1> QED
  BY <1>8, <1>10 DEF StaysInRegion

LEMMA AccessesStayOrLeave == ASSUME IInv PROVE AccessesStayInRegion
BY AccessesStayHere, IndicesLeave DEF AccessesStayInRegion

(* An instruction that exists at the XLEN of the run is assembled, with    *)
(* operands its encoding has room for, and a vector instruction is legal   *)
(* under the vtype the prelude sets: render_asm and opcodes_for in         *)
(* model_opcodes.py, for any instructions of the kinds they know.          *)
THEOREM OperandsLegal == Spec => []OperandsAreLegal
<1>1. IInv => OperandsAreLegal
  BY OperandsLegalHere
<1> QED
  BY <1>1, Invariance, PTL

(* A data access stays in the sweep's memory region, whatever the operands *)
(* before it and at either XLEN, exactly if no vector of elements too wide *)
(* indexes it: the prelude that mem_operand and the stride of render_asm   *)
(* add, executed.                                                          *)
THEOREM AccessesInRegion == Spec => []AccessesStayInRegion
<1>1. IInv => AccessesStayInRegion
  BY AccessesStayOrLeave
<1> QED
  BY <1>1, Invariance, PTL
(* Printing, kind by kind. *)
LEMMA PrintingStepwise ==
    ASSUME NEW kinds, Len(kinds) \in Nat
    PROVE  /\ Printing(kinds)[0] = <<>>
           /\ \A n \in 1 .. Len(kinds) :
                 Printing(kinds)[n] = Printing(kinds)[n - 1] \o Printed(kinds[n])
<1> DEFINE N == Len(kinds)
           Base == <<>>
           Next1(n, old) == old \o Printed(kinds[n])
           Unfold(f) == [n \in 0 .. N |-> IF n = 0 THEN Base ELSE Next1(n, f[n - 1])]
           F == CHOOSE f : f = Unfold(f)
           First(m, g) == \A n \in 0 .. m : g[n] = IF n = 0 THEN Base ELSE Next1(n, g[n - 1])
           Reached == {m \in Nat : \E g : g = [n \in 0 .. m |-> g[n]] /\ First(m, g)}
<1>1. Printing(kinds) = F
  BY DEF Printing
<1>2. F = Unfold(F) => F[0] = Base /\ \A n \in 1 .. N : F[n] = Next1(n, F[n - 1])
  <2> SUFFICES ASSUME F = Unfold(F)
               PROVE  F[0] = Base /\ \A n \in 1 .. N : F[n] = Next1(n, F[n - 1])
    OBVIOUS
  <2> HIDE DEF F
  <2> DEFINE OneStep(n) == IF n = 0 THEN Base ELSE Next1(n, F[n - 1])
  <2>1. F = [n \in 0 .. N |-> OneStep(n)]
    OBVIOUS
  <2> HIDE DEF OneStep
  <2>2. \A n \in 0 .. N : F[n] = OneStep(n)
    BY <2>1
  <2>3. 0 \in 0 .. N /\ \A n \in 1 .. N : n \in 0 .. N /\ n # 0
    OBVIOUS
  <2> QED
    BY <2>2, <2>3 DEF OneStep
<1> HIDE DEF Next1, Base
<1>3. 0 \in Reached
  <2> DEFINE g == [n \in 0 .. 0 |-> Base]
  <2>1. g = [n \in 0 .. 0 |-> g[n]] /\ First(0, g)
    OBVIOUS
  <2> HIDE DEF g
  <2> QED
    BY <2>1
<1>4. ASSUME NEW m \in Nat, m \in Reached PROVE m + 1 \in Reached
  <2>1. PICK g : g = [n \in 0 .. m |-> g[n]] /\ First(m, g)
    BY <1>4
  <2> DEFINE h == [n \in 0 .. m + 1 |-> IF n = m + 1 THEN Next1(m + 1, g[m]) ELSE g[n]]
  <2>2. h = [n \in 0 .. m + 1 |-> h[n]]
    OBVIOUS
  <2>3. /\ h[m + 1] = Next1(m + 1, h[m])
        /\ \A n \in 0 .. m : h[n] = g[n] /\ (n # 0 => h[n - 1] = g[n - 1])
    OBVIOUS
  <2> HIDE DEF h
  <2>4. ASSUME NEW n \in 0 .. m + 1
        PROVE  h[n] = IF n = 0 THEN Base ELSE Next1(n, h[n - 1])
    <3>1. CASE n = m + 1
      <4>1. n # 0 /\ n - 1 = m
        BY <3>1
      <4> QED
        BY <2>3, <3>1, <4>1
    <3>2. CASE n \in 0 .. m
      BY <2>1, <2>3, <3>2
    <3> QED
      BY <3>1, <3>2
  <2>5. First(m + 1, h)
    BY <2>4
  <2> HIDE DEF First
  <2> QED
    BY <2>2, <2>5
<1>5. \E f : f = Unfold(f)
  <2> HIDE DEF Reached
  <2>1. N \in Reached
    BY <1>3, <1>4, NumbersBySuccession
  <2>2. PICK g : g = [n \in 0 .. N |-> g[n]] /\ First(N, g)
    BY <2>1 DEF Reached
  <2>3. g = Unfold(g)
    BY <2>2
  <2> HIDE DEF Unfold
  <2> QED
    BY <2>3
<1>6. F = Unfold(F)
  <2> HIDE DEF Unfold
  <2> QED
    BY <1>5
<1> HIDE DEF F
<1> QED
  BY <1>1, <1>2, <1>6 DEF Next1, Base

(* Reading the kinds from the last fragment to the first. *)
PieceOf(rest, i, after4, after3, after1) ==
    IF i > Len(rest) THEN <<>>
    ELSE IF rest[i].k = "imm" /\ ParenBase(rest, i + 1) # "none"
    THEN <<MemKind(rest[i].bits, rest[i].signed, ParenBase(rest, i + 1))>> \o after4
    ELSE IF ParenBase(rest, i) # "none" THEN <<BareKind(ParenBase(rest, i))>> \o after3
    ELSE <<Single(rest[i])>> \o after1

LEMMA KindsFromStepwise ==
    ASSUME NEW rest, Len(rest) \in Nat
    PROVE  \A i \in 1 .. Len(rest) + 4 :
              KindsFrom(rest)[i] = PieceOf(rest, i, KindsFrom(rest)[i + 4], KindsFrom(rest)[i + 3],
                                           KindsFrom(rest)[i + 1])
<1> DEFINE N == Len(rest)
           Unfold(f) == [i \in 1 .. N + 4 |-> PieceOf(rest, i, f[i + 4], f[i + 3], f[i + 1])]
           F == CHOOSE f : f = Unfold(f)
           Rest(m, g) == \A i \in N + 1 - m .. N + 4 :
                            g[i] = PieceOf(rest, i, g[i + 4], g[i + 3], g[i + 1])
           Reached == {m \in Nat : \E g : g = [i \in N + 1 - m .. N + 4 |-> g[i]] /\ Rest(m, g)}
<1>1. KindsFrom(rest) = F
  BY DEF KindsFrom, PieceOf
<1>2. F = Unfold(F) => \A i \in 1 .. N + 4 : F[i] = PieceOf(rest, i, F[i + 4], F[i + 3], F[i + 1])
  <2> SUFFICES ASSUME F = Unfold(F)
               PROVE  \A i \in 1 .. N + 4 : F[i] = PieceOf(rest, i, F[i + 4], F[i + 3], F[i + 1])
    OBVIOUS
  <2> HIDE DEF F
  <2> DEFINE OneStep(i) == PieceOf(rest, i, F[i + 4], F[i + 3], F[i + 1])
  <2>1. F = [i \in 1 .. N + 4 |-> OneStep(i)]
    OBVIOUS
  <2> HIDE DEF OneStep
  <2>2. \A i \in 1 .. N + 4 : F[i] = OneStep(i)
    BY <2>1
  <2> QED
    BY <2>2 DEF OneStep
<1>3. \A i \in Int : \A a, b, c, d, e, f :
         i > N \/ (a = d /\ b = e /\ c = f) => PieceOf(rest, i, a, b, c) = PieceOf(rest, i, d, e, f)
  BY DEF PieceOf
<1>4. 0 \in Reached
  <2> DEFINE g == [i \in N + 1 .. N + 4 |-> <<>>]
  <2>1. \A i \in N + 1 .. N + 4 : i > N /\ g[i] = <<>>
    OBVIOUS
  <2>2. g = [i \in N + 1 .. N + 4 |-> g[i]]
    OBVIOUS
  <2> HIDE DEF g
  <2>3. \A i \in N + 1 .. N + 4 : g[i] = PieceOf(rest, i, g[i + 4], g[i + 3], g[i + 1])
    BY <2>1 DEF PieceOf
  <2>4. N + 1 - 0 = N + 1
    OBVIOUS
  <2>5. g = [i \in N + 1 - 0 .. N + 4 |-> g[i]] /\ Rest(0, g)
    BY <2>2, <2>3, <2>4
  <2> QED
    BY <2>5
<1>5. ASSUME NEW m \in Nat, m \in Reached PROVE m + 1 \in Reached
  <2>1. PICK g : g = [i \in N + 1 - m .. N + 4 |-> g[i]] /\ Rest(m, g)
    BY <1>5
  <2>2. PICK k \in Int : k = N + 1 - (m + 1)
    OBVIOUS
  <2>3. k <= N /\ N + 1 - m = k + 1
    BY <2>2
  <2> DEFINE new == PieceOf(rest, k, g[k + 4], g[k + 3], g[k + 1])
             h == [i \in k .. N + 4 |-> IF i = k THEN new ELSE g[i]]
  <2> HIDE DEF new
  <2>4. h = [i \in k .. N + 4 |-> h[i]] /\ h[k] = new /\ \A i \in k + 1 .. N + 4 : h[i] = g[i]
    BY <2>3
  <2> HIDE DEF h
  <2>5. ASSUME NEW i \in k .. N + 4
        PROVE  h[i] = PieceOf(rest, i, h[i + 4], h[i + 3], h[i + 1])
    <3>1. i > N \/ (h[i + 4] = g[i + 4] /\ h[i + 3] = g[i + 3] /\ h[i + 1] = g[i + 1])
      <4>1. i > N \/ (i + 4 \in k + 1 .. N + 4 /\ i + 3 \in k + 1 .. N + 4 /\ i + 1 \in k + 1 .. N + 4)
        OBVIOUS
      <4> QED
        BY <2>4, <4>1
    <3>2. PieceOf(rest, i, h[i + 4], h[i + 3], h[i + 1]) = PieceOf(rest, i, g[i + 4], g[i + 3], g[i + 1])
      BY <1>3, <3>1
    <3>3. CASE i = k
      BY <2>4, <3>2, <3>3 DEF new
    <3>4. CASE i \in k + 1 .. N + 4
      BY <2>1, <2>3, <2>4, <3>2, <3>4
    <3> QED
      BY <3>3, <3>4
  <2>6. Rest(m + 1, h) /\ h = [i \in N + 1 - (m + 1) .. N + 4 |-> h[i]]
    BY <2>2, <2>4, <2>5
  <2> HIDE DEF Rest
  <2> QED
    BY <2>6
<1>6. \E f : f = Unfold(f)
  <2> HIDE DEF Reached
  <2>1. N \in Reached
    BY <1>4, <1>5, NumbersBySuccession
  <2>2. PICK g : g = [i \in N + 1 - N .. N + 4 |-> g[i]] /\ Rest(N, g)
    BY <2>1 DEF Reached
  <2>3. N + 1 - N = 1
    OBVIOUS
  <2>4. g = Unfold(g)
    BY <2>2, <2>3
  <2> HIDE DEF Unfold
  <2> QED
    BY <2>4
<1>7. F = Unfold(F)
  <2> HIDE DEF Unfold
  <2> QED
    BY <1>6
<1> HIDE DEF F
<1> QED
  BY <1>1, <1>2, <1>7

(***************************************************************************)
(* The layouts of operands, of any length.  What the clauses of the model  *)
(* can print behind their mnemonic with these texts: registers, the number *)
(* of a CSR, immediates, texts, parentheses; and the kinds these stand for.*)
(***************************************************************************)
NAMES == {"reg", "freg", "creg", "cfreg", "vreg", "csr"}
BASES == {"reg", "creg", "sp"}

PlainFragments(texts) ==
    {Mark(k) : k \in NAMES} \cup {Imm(b, s) : b \in Nat, s \in BOOLEAN} \cup {Str(<<t>>) : t \in texts}

OffsetKinds == {MemKind(b, s, base) : b \in Nat, s \in BOOLEAN, base \in BASES}
BareKinds == {BareKind(base) : base \in BASES}
SingleKinds(texts) ==
    {Kind(k) : k \in NAMES} \cup {LitKind(t) : t \in texts \ Punctuation}
    \cup {ImmKind(b, s) : b \in Nat, s \in BOOLEAN}
LayoutKinds(texts) == SingleKinds(texts) \cup OffsetKinds \cup BareKinds

LEMMA FragmentFields ==
    /\ \A k : Mark(k) = [k |-> k, texts |-> <<>>, bits |-> 0, signed |-> FALSE]
    /\ \A b, s : Imm(b, s) = [k |-> "imm", texts |-> <<>>, bits |-> b, signed |-> s]
    /\ \A ts : Str(ts) = [k |-> "str", texts |-> ts, bits |-> 0, signed |-> FALSE]
<1>1. \A k : Mark(k) = [k |-> k, texts |-> <<>>, bits |-> 0, signed |-> FALSE]
  BY DEF Mark
<1>2. \A b, s : Imm(b, s) = [k |-> "imm", texts |-> <<>>, bits |-> b, signed |-> s]
  <2> SUFFICES ASSUME NEW b, NEW s
               PROVE  Imm(b, s) = [k |-> "imm", texts |-> <<>>, bits |-> b, signed |-> s]
    OBVIOUS
  <2>1. PICK none : none = Mark("imm")
    OBVIOUS
  <2>2. none = [k |-> "imm", texts |-> <<>>, bits |-> 0, signed |-> FALSE]
    BY <1>1, <2>1
  <2>3. Imm(b, s) = [none EXCEPT !.bits = b, !.signed = s]
    BY <2>1 DEF Imm
  <2> QED
    BY <2>2, <2>3
<1>3. \A ts : Str(ts) = [k |-> "str", texts |-> ts, bits |-> 0, signed |-> FALSE]
  <2> SUFFICES ASSUME NEW ts
               PROVE  Str(ts) = [k |-> "str", texts |-> ts, bits |-> 0, signed |-> FALSE]
    OBVIOUS
  <2>1. PICK none : none = Mark("str")
    OBVIOUS
  <2>2. none = [k |-> "str", texts |-> <<>>, bits |-> 0, signed |-> FALSE]
    BY <1>1, <2>1
  <2>3. Str(ts) = [none EXCEPT !.texts = ts]
    BY <2>1 DEF Str
  <2> QED
    BY <2>2, <2>3
<1> QED
  BY <1>1, <1>2, <1>3

LEMMA FragmentParts ==
    /\ \A k : Mark(k).k = k
    /\ \A b, s : Imm(b, s).k = "imm" /\ Imm(b, s).bits = b /\ Imm(b, s).signed = s
    /\ \A ts : Str(ts).k = "str" /\ Str(ts).texts = ts
    /\ Opening.k = "str" /\ Opening.texts = <<"(">>
    /\ Closing.k = "str" /\ Closing.texts = <<")">>
    /\ StackPointer.k = "str" /\ StackPointer.texts = <<"sp">>
<1>1. \A k : Mark(k).k = k
  BY FragmentFields
<1>2. \A b, s : Imm(b, s).k = "imm" /\ Imm(b, s).bits = b /\ Imm(b, s).signed = s
  BY FragmentFields
<1>3. \A ts : Str(ts).k = "str" /\ Str(ts).texts = ts
  BY FragmentFields
<1> QED
  BY <1>1, <1>2, <1>3 DEF Opening, Closing, StackPointer

LEMMA KindParts ==
    /\ \A k : Kind(k).k = k
    /\ \A t : LitKind(t).k = "lit" /\ LitKind(t).text = t
    /\ \A b, s : ImmKind(b, s).k = "imm" /\ ImmKind(b, s).bits = b /\ ImmKind(b, s).signed = s
    /\ \A b, s, base : /\ MemKind(b, s, base).k = "mem" /\ MemKind(b, s, base).bits = b
                       /\ MemKind(b, s, base).signed = s /\ MemKind(b, s, base).base = base
    /\ \A base : /\ BareKind(base).k = "mem" /\ BareKind(base).bits = -1
                 /\ BareKind(base).base = base
<1>1. PICK none : none = ""
  BY Zenon
<1>2. \A k : Kind(k) = [k |-> k, bits |-> 0, signed |-> FALSE, base |-> none, text |-> none]
  BY <1>1, Zenon DEF Kind
<1>3. \A k : Kind(k).k = k
  BY <1>2
<1>4. \A t : LitKind(t) = [k |-> "lit", bits |-> 0, signed |-> FALSE, base |-> none, text |-> t]
  <2> SUFFICES ASSUME NEW t
               PROVE  LitKind(t) = [k |-> "lit", bits |-> 0, signed |-> FALSE, base |-> none, text |-> t]
    OBVIOUS
  <2>1. PICK bare : bare = Kind("lit")
    OBVIOUS
  <2>2. bare = [k |-> "lit", bits |-> 0, signed |-> FALSE, base |-> none, text |-> none]
    BY <1>2, <2>1
  <2>3. LitKind(t) = [bare EXCEPT !.text = t]
    BY <2>1 DEF LitKind
  <2> QED
    BY <2>2, <2>3
<1>5. \A b, s : ImmKind(b, s) = [k |-> "imm", bits |-> b, signed |-> s, base |-> none, text |-> none]
  <2> SUFFICES ASSUME NEW b, NEW s
               PROVE  ImmKind(b, s) = [k |-> "imm", bits |-> b, signed |-> s, base |-> none, text |-> none]
    OBVIOUS
  <2>1. PICK bare : bare = Kind("imm")
    OBVIOUS
  <2>2. bare = [k |-> "imm", bits |-> 0, signed |-> FALSE, base |-> none, text |-> none]
    BY <1>2, <2>1
  <2>3. ImmKind(b, s) = [bare EXCEPT !.bits = b, !.signed = s]
    BY <2>1 DEF ImmKind
  <2> QED
    BY <2>2, <2>3
<1>6. \A b, s, base :
         MemKind(b, s, base) = [k |-> "mem", bits |-> b, signed |-> s, base |-> base, text |-> none]
  <2> SUFFICES ASSUME NEW b, NEW s, NEW base
               PROVE  MemKind(b, s, base) = [k |-> "mem", bits |-> b, signed |-> s, base |-> base, text |-> none]
    OBVIOUS
  <2>1. PICK bare : bare = Kind("mem")
    OBVIOUS
  <2>2. bare = [k |-> "mem", bits |-> 0, signed |-> FALSE, base |-> none, text |-> none]
    BY <1>2, <2>1
  <2>3. MemKind(b, s, base) = [bare EXCEPT !.bits = b, !.signed = s, !.base = base]
    BY <2>1 DEF MemKind
  <2> QED
    BY <2>2, <2>3
<1>7. \A t : LitKind(t).k = "lit" /\ LitKind(t).text = t
  BY <1>4
<1>8. \A b, s : ImmKind(b, s).k = "imm" /\ ImmKind(b, s).bits = b /\ ImmKind(b, s).signed = s
  BY <1>5
<1>9. \A b, s, base : /\ MemKind(b, s, base).k = "mem" /\ MemKind(b, s, base).bits = b
                      /\ MemKind(b, s, base).signed = s /\ MemKind(b, s, base).base = base
  BY <1>6
<1>10. \A base : /\ BareKind(base).k = "mem" /\ BareKind(base).bits = -1
                 /\ BareKind(base).base = base
  <2> SUFFICES ASSUME NEW base
               PROVE  /\ BareKind(base).k = "mem" /\ BareKind(base).bits = -1
                      /\ BareKind(base).base = base
    OBVIOUS
  <2>1. PICK n : n = -1
    OBVIOUS
  <2>2. PICK s : s = FALSE
    OBVIOUS
  <2>3. BareKind(base) = MemKind(n, s, base)
    BY <2>1, <2>2, Zenon DEF BareKind
  <2>4. /\ MemKind(n, s, base).k = "mem" /\ MemKind(n, s, base).bits = n
        /\ MemKind(n, s, base).base = base
    BY <1>9
  <2> QED
    BY <2>1, <2>3, <2>4, Zenon
<1> QED
  BY <1>3, <1>7, <1>8, <1>9, <1>10

(* How a base reads between its parentheses, and that nothing else does.   *)
LEMMA BasesRead ==
    ASSUME NEW rest, NEW i \in Nat, Len(rest) \in Nat
    PROVE  /\ \A base \in BASES :
                 i + 2 <= Len(rest) /\ rest[i] = Opening /\ rest[i + 1] = BaseText(base)
                 /\ rest[i + 2] = Closing => ParenBase(rest, i) = base
           /\ rest[i] # Opening \/ i + 2 > Len(rest) => ParenBase(rest, i) = "none"
           /\ ParenBase(rest, i) # "none" =>
                 /\ i + 2 <= Len(rest) /\ rest[i] = Opening /\ rest[i + 2] = Closing
                 /\ \/ rest[i + 1].k \in {"reg", "creg"} /\ ParenBase(rest, i) = rest[i + 1].k
                    \/ rest[i + 1] = StackPointer /\ ParenBase(rest, i) = "sp"
<1>1. ASSUME NEW base \in BASES, i + 2 <= Len(rest), rest[i] = Opening,
             rest[i + 1] = BaseText(base), rest[i + 2] = Closing
      PROVE  ParenBase(rest, i) = base
  <2>1. ParenBase(rest, i) = CASE rest[i + 1].k \in {"reg", "creg"} -> rest[i + 1].k
                               [] rest[i + 1] = StackPointer -> "sp"
                               [] OTHER -> "none"
    BY <1>1 DEF ParenBase
  <2>2. CASE base = "sp"
    <3>1. rest[i + 1] = StackPointer /\ rest[i + 1].k = "str"
      BY <1>1, <2>2, FragmentParts DEF BaseText
    <3> QED
      BY <2>1, <2>2, <3>1
  <2>3. CASE base \in {"reg", "creg"}
    <3>1. rest[i + 1].k = base /\ rest[i + 1] # StackPointer
      BY <1>1, <2>3, FragmentParts DEF BaseText
    <3> QED
      BY <2>1, <2>3, <3>1
  <2> QED
    BY <2>2, <2>3 DEF BASES
<1>2. rest[i] # Opening \/ i + 2 > Len(rest) => ParenBase(rest, i) = "none"
  BY DEF ParenBase
<1>3. ASSUME ParenBase(rest, i) # "none"
      PROVE  /\ i + 2 <= Len(rest) /\ rest[i] = Opening /\ rest[i + 2] = Closing
             /\ \/ rest[i + 1].k \in {"reg", "creg"} /\ ParenBase(rest, i) = rest[i + 1].k
                \/ rest[i + 1] = StackPointer /\ ParenBase(rest, i) = "sp"
  BY <1>3 DEF ParenBase
<1> QED
  BY <1>1, <1>2, <1>3

(* What each kind is printed as, and what reading it alone gives.          *)
LEMMA SinglesPrinted ==
    /\ \A k \in NAMES : Printed(Kind(k)) = <<Mark(k)>> /\ Single(Mark(k)) = Kind(k)
    /\ \A t : t \notin Punctuation =>
          Printed(LitKind(t)) = <<Str(<<t>>)>> /\ Single(Str(<<t>>)) = LitKind(t)
    /\ \A b, s : Printed(ImmKind(b, s)) = <<Imm(b, s)>> /\ Single(Imm(b, s)) = ImmKind(b, s)
<1>1. ASSUME NEW k \in NAMES
      PROVE  Printed(Kind(k)) = <<Mark(k)>> /\ Single(Mark(k)) = Kind(k)
  <2>1. Kind(k).k = k /\ Mark(k).k = k
    BY KindParts, FragmentParts
  <2>2. Printed(Kind(k)) = <<Mark(k)>>
    BY <2>1 DEF Printed, NAMES
  <2>3. Single(Mark(k)) = Kind(k)
    BY <2>1 DEF Single, NAMES
  <2> QED
    BY <2>2, <2>3
<1>2. ASSUME NEW t, t \notin Punctuation
      PROVE  Printed(LitKind(t)) = <<Str(<<t>>)>> /\ Single(Str(<<t>>)) = LitKind(t)
  <2>1. LitKind(t).k = "lit" /\ LitKind(t).text = t
    BY KindParts
  <2>2. Str(<<t>>).k = "str" /\ Str(<<t>>).texts = <<t>> /\ <<t>>[1] = t
    BY FragmentParts
  <2>3. Printed(LitKind(t)) = <<Str(<<t>>)>>
    BY <2>1 DEF Printed
  <2>4. Single(Str(<<t>>)) = LitKind(t)
    BY <1>2, <2>2 DEF Single
  <2> QED
    BY <2>3, <2>4
<1>3. ASSUME NEW b, NEW s
      PROVE  Printed(ImmKind(b, s)) = <<Imm(b, s)>> /\ Single(Imm(b, s)) = ImmKind(b, s)
  <2>1. /\ ImmKind(b, s).k = "imm" /\ ImmKind(b, s).bits = b /\ ImmKind(b, s).signed = s
        /\ Imm(b, s).k = "imm" /\ Imm(b, s).bits = b /\ Imm(b, s).signed = s
    BY KindParts, FragmentParts
  <2>2. Printed(ImmKind(b, s)) = <<Imm(b, s)>>
    BY <2>1 DEF Printed
  <2>3. Single(Imm(b, s)) = ImmKind(b, s)
    BY <2>1 DEF Single
  <2> QED
    BY <2>2, <2>3
<1> QED
  BY <1>1, <1>2, <1>3

LEMMA MemsPrinted ==
    ASSUME NEW base \in BASES
    PROVE  /\ \A b \in Nat, s \in BOOLEAN :
                 Printed(MemKind(b, s, base)) = <<Imm(b, s), Opening, BaseText(base), Closing>>
           /\ Printed(BareKind(base)) = <<Opening, BaseText(base), Closing>>
<1>1. ASSUME NEW b \in Nat, NEW s \in BOOLEAN
      PROVE  Printed(MemKind(b, s, base)) = <<Imm(b, s), Opening, BaseText(base), Closing>>
  <2>1. PICK kind : kind = MemKind(b, s, base)
    OBVIOUS
  <2>2. kind.k = "mem" /\ kind.bits = b /\ kind.signed = s /\ kind.base = base /\ ~(b < 0)
    BY <2>1, KindParts
  <2>3. ASSUME NEW w, NEW x, NEW y, NEW z PROVE <<w>> \o <<x, y, z>> = <<w, x, y, z>>
    <3> DEFINE S == {w, x, y, z}
               s1 == <<w>>
               s3 == <<x, y, z>>
               s4 == <<w, x, y, z>>
    <3>1. s1 \in Seq(S) /\ s3 \in Seq(S) /\ s4 \in Seq(S) /\ Len(s1) = 1 /\ Len(s3) = 3 /\ Len(s4) = 4
      OBVIOUS
    <3>2. s1[1] = w /\ s3[1] = x /\ s3[2] = y /\ s3[3] = z
      OBVIOUS
    <3>3. s4[1] = w /\ s4[2] = x /\ s4[3] = y /\ s4[4] = z
      OBVIOUS
    <3> HIDE DEF S, s1, s3, s4
    <3>4. /\ s1 \o s3 \in Seq(S) /\ Len(s1 \o s3) = 4
          /\ \A i \in 1 .. 4 : (s1 \o s3)[i] = IF i <= 1 THEN s1[i] ELSE s3[i - 1]
      <4>1. /\ s1 \o s3 \in Seq(S) /\ Len(s1 \o s3) = Len(s1) + Len(s3)
            /\ \A i \in 1 .. Len(s1) + Len(s3) :
                  (s1 \o s3)[i] = IF i <= Len(s1) THEN s1[i] ELSE s3[i - Len(s1)]
        BY <3>1, ConcatProperties, Zenon
      <4> QED
        BY <3>1, <4>1
    <3>5. (s1 \o s3)[1] = w /\ (s1 \o s3)[2] = x /\ (s1 \o s3)[3] = y /\ (s1 \o s3)[4] = z
      BY <3>2, <3>4
    <3>6. \A i \in 1 .. 4 : (s1 \o s3)[i] = s4[i]
      <4>1. \A i \in 1 .. 4 : i = 1 \/ i = 2 \/ i = 3 \/ i = 4
        OBVIOUS
      <4> QED
        BY <3>3, <3>5, <4>1, Zenon
    <3> QED
      BY <3>1, <3>4, <3>6, SeqEqual DEF s1, s3, s4
  <2>4. Printed(kind) = <<Imm(b, s)>> \o <<Opening, BaseText(base), Closing>>
    BY <2>2 DEF Printed
  <2> QED
    BY <2>1, <2>3, <2>4
<1>2. Printed(BareKind(base)) = <<Opening, BaseText(base), Closing>>
  <2>1. PICK kind : kind = BareKind(base)
    OBVIOUS
  <2>2. kind.k = "mem" /\ kind.bits = -1 /\ kind.base = base
    BY <2>1, KindParts
  <2>3. Printed(kind) = <<>> \o <<Opening, BaseText(base), Closing>>
    BY <2>2 DEF Printed
  <2> QED
    BY <2>1, <2>3
<1> QED
  BY <1>1, <1>2

LEMMA KindsPrinted ==
    ASSUME NEW texts, NEW kind \in LayoutKinds(texts)
    PROVE  \/ \E f \in PlainFragments(texts) :
                 /\ Printed(kind) = <<f>> /\ Single(f) = kind /\ f # Opening
                 /\ f.k = "imm" <=> kind.k = "imm"
                 /\ kind.k \notin {"mem", "stray"}
           \/ \E b \in Nat, s \in BOOLEAN, base \in BASES :
                 /\ kind = MemKind(b, s, base) /\ kind.k = "mem" /\ kind.bits = b
                 /\ Printed(kind) = <<Imm(b, s), Opening, BaseText(base), Closing>>
           \/ \E base \in BASES :
                 /\ kind = BareKind(base) /\ kind.k = "mem" /\ kind.bits = -1
                 /\ Printed(kind) = <<Opening, BaseText(base), Closing>>
<1> DEFINE IsSingle(f) == /\ Printed(kind) = <<f>> /\ Single(f) = kind /\ f # Opening
                          /\ f.k = "imm" <=> kind.k = "imm"
                          /\ kind.k \notin {"mem", "stray"}
<1>1. ASSUME NEW k \in NAMES, kind = Kind(k) PROVE \E f \in PlainFragments(texts) : IsSingle(f)
  <2>1. kind.k = k /\ Mark(k).k = k /\ Opening.k = "str"
    BY <1>1, KindParts, FragmentParts
  <2>2. Printed(kind) = <<Mark(k)>> /\ Single(Mark(k)) = kind
    BY <1>1, SinglesPrinted
  <2>3. Mark(k) \in PlainFragments(texts)
    BY DEF PlainFragments
  <2> QED
    BY <2>1, <2>2, <2>3 DEF NAMES
<1>2. ASSUME NEW t \in texts \ Punctuation, kind = LitKind(t)
      PROVE  \E f \in PlainFragments(texts) : IsSingle(f)
  <2>1. kind.k = "lit"
    BY <1>2, KindParts
  <2>2. /\ Str(<<t>>).k = "str" /\ Str(<<t>>).texts = <<t>> /\ <<t>>[1] = t
        /\ Opening.texts[1] = "("
    BY FragmentParts
  <2>3. Printed(kind) = <<Str(<<t>>)>> /\ Single(Str(<<t>>)) = kind
    BY <1>2, SinglesPrinted
  <2>4. Str(<<t>>) \in PlainFragments(texts)
    BY DEF PlainFragments
  <2>5. "(" \in Punctuation
    BY Zenon DEF Punctuation
  <2>6. Str(<<t>>) # Opening
    BY <2>2, <2>5
  <2> QED
    BY <2>1, <2>2, <2>3, <2>4, <2>6
<1>3. ASSUME NEW b \in Nat, NEW s \in BOOLEAN, kind = ImmKind(b, s)
      PROVE  \E f \in PlainFragments(texts) : IsSingle(f)
  <2>1. kind.k = "imm" /\ Imm(b, s).k = "imm" /\ Opening.k = "str"
    BY <1>3, KindParts, FragmentParts
  <2>2. Printed(kind) = <<Imm(b, s)>> /\ Single(Imm(b, s)) = kind
    BY <1>3, SinglesPrinted
  <2>3. Imm(b, s) \in PlainFragments(texts)
    BY DEF PlainFragments
  <2> QED
    BY <2>1, <2>2, <2>3
<1>4. ASSUME NEW b \in Nat, NEW s \in BOOLEAN, NEW base \in BASES, kind = MemKind(b, s, base)
      PROVE  /\ kind.k = "mem" /\ kind.bits = b
             /\ Printed(kind) = <<Imm(b, s), Opening, BaseText(base), Closing>>
  BY <1>4, KindParts, MemsPrinted
<1>5. ASSUME NEW base \in BASES, kind = BareKind(base)
      PROVE  /\ kind.k = "mem" /\ kind.bits = -1
             /\ Printed(kind) = <<Opening, BaseText(base), Closing>>
  BY <1>5, KindParts, MemsPrinted
<1> QED
  BY <1>1, <1>2, <1>3, <1>4, <1>5 DEF LayoutKinds, SingleKinds, OffsetKinds, BareKinds

(* Where a kind is printed, that kind is read.                             *)
PrintedAt(rest, i, kind) ==
    /\ i + Len(Printed(kind)) <= Len(rest) + 1
    /\ \A m \in 1 .. Len(Printed(kind)) : rest[i + m - 1] = Printed(kind)[m]
ReadAt(rest, i, kind, w) ==
    /\ w \in {1, 3, 4}
    /\ \A after4, after3, after1 :
          PieceOf(rest, i, after4, after3, after1)
          = <<kind>> \o (IF w = 4 THEN after4 ELSE IF w = 3 THEN after3 ELSE after1)

LEMMA KindsRead ==
    ASSUME NEW texts, NEW kind \in LayoutKinds(texts), NEW rest, Len(rest) \in Nat,
           NEW i \in Nat, PrintedAt(rest, i, kind),
           kind.k = "imm" => ParenBase(rest, i + 1) = "none"
    PROVE  ReadAt(rest, i, kind, Len(Printed(kind)))
<1>1. /\ i + Len(Printed(kind)) <= Len(rest) + 1
      /\ \A m \in 1 .. Len(Printed(kind)) : rest[i + m - 1] = Printed(kind)[m]
  BY DEF PrintedAt
<1>2. ASSUME NEW f \in PlainFragments(texts), Printed(kind) = <<f>>, Single(f) = kind, f # Opening,
             f.k = "imm" <=> kind.k = "imm"
      PROVE  /\ Len(Printed(kind)) = 1
             /\ \A after4, after3, after1 :
                   PieceOf(rest, i, after4, after3, after1) = <<kind>> \o after1
  <2>1. Len(Printed(kind)) = 1 /\ Printed(kind)[1] = f
    BY <1>2
  <2>2. rest[i] = f /\ ~(i > Len(rest))
    <3>1. i + 1 - 1 = i /\ 1 \in 1 .. 1
      OBVIOUS
    <3> QED
      BY <1>1, <2>1, <3>1
  <2>3. ParenBase(rest, i) = "none"
    BY <1>2, <2>2, BasesRead
  <2>4. ~(rest[i].k = "imm" /\ ParenBase(rest, i + 1) # "none")
    BY <1>2, <2>2
  <2> QED
    BY <1>2, <2>1, <2>2, <2>3, <2>4 DEF PieceOf
<1>3. ASSUME NEW b \in Nat, NEW s \in BOOLEAN, NEW base \in BASES, kind = MemKind(b, s, base),
             Printed(kind) = <<Imm(b, s), Opening, BaseText(base), Closing>>
      PROVE  /\ Len(Printed(kind)) = 4
             /\ \A after4, after3, after1 :
                   PieceOf(rest, i, after4, after3, after1) = <<kind>> \o after4
  <2>1. /\ Len(Printed(kind)) = 4 /\ Printed(kind)[1] = Imm(b, s) /\ Printed(kind)[2] = Opening
        /\ Printed(kind)[3] = BaseText(base) /\ Printed(kind)[4] = Closing
    BY <1>3
  <2>2. /\ rest[i] = Imm(b, s) /\ rest[i + 1] = Opening /\ rest[i + 2] = BaseText(base)
        /\ rest[i + 3] = Closing /\ i + 3 <= Len(rest)
    <3>1. /\ i + 1 - 1 = i /\ i + 2 - 1 = i + 1 /\ i + 3 - 1 = i + 2 /\ i + 4 - 1 = i + 3
          /\ 1 \in 1 .. 4 /\ 2 \in 1 .. 4 /\ 3 \in 1 .. 4 /\ 4 \in 1 .. 4
      OBVIOUS
    <3> QED
      BY <1>1, <2>1, <3>1
  <2>3. ParenBase(rest, i + 1) = base
    <3>1. i + 1 \in Nat /\ (i + 1) + 1 = i + 2 /\ (i + 1) + 2 = i + 3
      OBVIOUS
    <3> QED
      BY <2>2, <3>1, BasesRead
  <2>4. base # "none" /\ ~(i > Len(rest))
    BY <2>2 DEF BASES
  <2>5. rest[i].k = "imm" /\ rest[i].bits = b /\ rest[i].signed = s
    BY <2>2, FragmentParts
  <2> QED
    BY <1>3, <2>1, <2>3, <2>4, <2>5 DEF PieceOf
<1>4. ASSUME NEW base \in BASES, kind = BareKind(base),
             Printed(kind) = <<Opening, BaseText(base), Closing>>
      PROVE  /\ Len(Printed(kind)) = 3
             /\ \A after4, after3, after1 :
                   PieceOf(rest, i, after4, after3, after1) = <<kind>> \o after3
  <2>1. /\ Len(Printed(kind)) = 3 /\ Printed(kind)[1] = Opening
        /\ Printed(kind)[2] = BaseText(base) /\ Printed(kind)[3] = Closing
    BY <1>4
  <2>2. /\ rest[i] = Opening /\ rest[i + 1] = BaseText(base)
        /\ rest[i + 2] = Closing /\ i + 2 <= Len(rest)
    <3>1. /\ i + 1 - 1 = i /\ i + 2 - 1 = i + 1 /\ i + 3 - 1 = i + 2
          /\ 1 \in 1 .. 3 /\ 2 \in 1 .. 3 /\ 3 \in 1 .. 3
      OBVIOUS
    <3> QED
      BY <1>1, <2>1, <3>1
  <2>3. ParenBase(rest, i) = base
    BY <2>2, BasesRead
  <2>4. base # "none" /\ ~(i > Len(rest))
    BY <2>2 DEF BASES
  <2>5. rest[i].k # "imm"
    BY <2>2, FragmentParts
  <2> QED
    BY <1>4, <2>1, <2>3, <2>4, <2>5 DEF PieceOf
<1>5. CASE \E f \in PlainFragments(texts) :
               /\ Printed(kind) = <<f>> /\ Single(f) = kind /\ f # Opening
               /\ f.k = "imm" <=> kind.k = "imm"
               /\ kind.k \notin {"mem", "stray"}
  <2>1. /\ Len(Printed(kind)) = 1
        /\ \A after4, after3, after1 :
              PieceOf(rest, i, after4, after3, after1) = <<kind>> \o after1
    BY <1>2, <1>5
  <2> QED
    BY <2>1 DEF ReadAt
<1>6. CASE \E b \in Nat, s \in BOOLEAN, base \in BASES :
               /\ kind = MemKind(b, s, base) /\ kind.k = "mem" /\ kind.bits = b
               /\ Printed(kind) = <<Imm(b, s), Opening, BaseText(base), Closing>>
  <2>1. /\ Len(Printed(kind)) = 4
        /\ \A after4, after3, after1 :
              PieceOf(rest, i, after4, after3, after1) = <<kind>> \o after4
    BY <1>3, <1>6
  <2> QED
    BY <2>1 DEF ReadAt
<1>7. CASE \E base \in BASES :
               /\ kind = BareKind(base) /\ kind.k = "mem" /\ kind.bits = -1
               /\ Printed(kind) = <<Opening, BaseText(base), Closing>>
  <2>1. /\ Len(Printed(kind)) = 3
        /\ \A after4, after3, after1 :
              PieceOf(rest, i, after4, after3, after1) = <<kind>> \o after3
    BY <1>4, <1>7
  <2> QED
    BY <2>1 DEF ReadAt
<1> QED
  BY <1>5, <1>6, <1>7, KindsPrinted

(* Only a base without an offset is printed with a parenthesis in front.   *)
LEMMA PrintedFirst ==
    ASSUME NEW texts, NEW kind \in LayoutKinds(texts)
    PROVE  /\ Printed(kind) \in Seq(PlainFragments(texts \cup {"(", ")", "sp"}))
           /\ Len(Printed(kind)) \in Nat \ {0}
           /\ ~(kind.k = "mem" /\ kind.bits < 0) => Printed(kind)[1] # Opening
<1>1. PICK more : more = texts \cup {"(", ")", "sp"}
  OBVIOUS
<1>2. PICK P : P = PlainFragments(more)
  OBVIOUS
<1> SUFFICES /\ Printed(kind) \in Seq(P)
             /\ Len(Printed(kind)) \in Nat \ {0}
             /\ ~(kind.k = "mem" /\ kind.bits < 0) => Printed(kind)[1] # Opening
  BY <1>1, <1>2
<1>3. /\ PlainFragments(texts) \subseteq P
      /\ Opening \in P /\ Closing \in P /\ StackPointer \in P
      /\ \A b \in Nat, s \in BOOLEAN : Imm(b, s) \in P
      /\ \A k \in NAMES : Mark(k) \in P
  <2>1. "(" \in more /\ ")" \in more /\ "sp" \in more /\ texts \subseteq more
    BY <1>1
  <2>2. Opening \in P /\ Closing \in P /\ StackPointer \in P
    BY <1>2, <2>1 DEF PlainFragments, Opening, Closing, StackPointer
  <2>3. PlainFragments(texts) \subseteq P
    BY <1>2, <2>1 DEF PlainFragments
  <2>4. \A b \in Nat, s \in BOOLEAN : Imm(b, s) \in P
    BY <1>2 DEF PlainFragments
  <2>5. \A k \in NAMES : Mark(k) \in P
    BY <1>2 DEF PlainFragments
  <2> QED
    BY <2>2, <2>3, <2>4, <2>5
<1>4. \A base \in BASES : BaseText(base) \in P
  BY <1>3 DEF BASES, NAMES, BaseText
<1>5. ASSUME NEW f \in PlainFragments(texts), Printed(kind) = <<f>>, f # Opening
      PROVE  Printed(kind) \in Seq(P) /\ Len(Printed(kind)) = 1 /\ Printed(kind)[1] # Opening
  <2>1. f \in P
    BY <1>3
  <2>2. <<f>> \in Seq(P) /\ Len(<<f>>) = 1 /\ <<f>>[1] = f
    BY <2>1
  <2> QED
    BY <1>5, <2>2
<1>6. ASSUME NEW b \in Nat, NEW s \in BOOLEAN, NEW base \in BASES,
             Printed(kind) = <<Imm(b, s), Opening, BaseText(base), Closing>>
      PROVE  Printed(kind) \in Seq(P) /\ Len(Printed(kind)) = 4 /\ Printed(kind)[1] # Opening
  <2>1. Imm(b, s) \in P /\ Opening \in P /\ BaseText(base) \in P /\ Closing \in P
    BY <1>3, <1>4
  <2>2. Printed(kind) \in Seq(P) /\ Len(Printed(kind)) = 4 /\ Printed(kind)[1] = Imm(b, s)
    BY <1>6, <2>1
  <2> QED
    BY <2>2, FragmentParts
<1>7. ASSUME NEW base \in BASES, Printed(kind) = <<Opening, BaseText(base), Closing>>
      PROVE  Printed(kind) \in Seq(P) /\ Len(Printed(kind)) = 3
  <2>1. Opening \in P /\ BaseText(base) \in P /\ Closing \in P
    BY <1>3, <1>4
  <2> QED
    BY <1>7, <2>1
<1>8. CASE \E f \in PlainFragments(texts) :
               /\ Printed(kind) = <<f>> /\ Single(f) = kind /\ f # Opening
               /\ f.k = "imm" <=> kind.k = "imm"
               /\ kind.k \notin {"mem", "stray"}
  BY <1>5, <1>8
<1>9. CASE \E b \in Nat, s \in BOOLEAN, base \in BASES :
               /\ kind = MemKind(b, s, base) /\ kind.k = "mem" /\ kind.bits = b
               /\ Printed(kind) = <<Imm(b, s), Opening, BaseText(base), Closing>>
  BY <1>6, <1>9
<1>10. CASE \E base \in BASES :
               /\ kind = BareKind(base) /\ kind.k = "mem" /\ kind.bits = -1
               /\ Printed(kind) = <<Opening, BaseText(base), Closing>>
  <2>1. kind.k = "mem" /\ kind.bits < 0
    BY <1>10
  <2> QED
    BY <1>7, <1>10, <2>1
<1> QED
  BY <1>8, <1>9, <1>10, KindsPrinted

LEMMA ImmediatesPrinted ==
    ASSUME NEW texts, NEW kind \in LayoutKinds(texts), kind.k = "imm"
    PROVE  Len(Printed(kind)) = 1
<1>1. PICK f : Printed(kind) = <<f>>
  BY KindsPrinted
<1> QED
  BY <1>1

(* What the first kinds print stays at the front of what they all print.   *)
Grows(kinds, P, n, fragments) ==
    /\ P[0] = <<>>
    /\ \A j \in 0 .. n : P[j] \in Seq(fragments)
    /\ \A j \in 1 .. n : /\ P[j] = P[j - 1] \o Printed(kinds[j])
                         /\ Len(P[j]) = Len(P[j - 1]) + Len(Printed(kinds[j]))
    /\ \A l \in 0 .. n : \A j \in 0 .. l :
          Len(P[j]) <= Len(P[l]) /\ \A m \in 1 .. Len(P[j]) : P[l][m] = P[j][m]

LEMMA PrintingGrows ==
    ASSUME NEW texts, NEW kinds \in Seq(LayoutKinds(texts))
    PROVE  Grows(kinds, Printing(kinds), Len(kinds), PlainFragments(texts \cup {"(", ")", "sp"}))
<1>1. PICK P : P = Printing(kinds)
  OBVIOUS
<1>2. PICK fragments : fragments = PlainFragments(texts \cup {"(", ")", "sp"})
  OBVIOUS
<1> SUFFICES Grows(kinds, P, Len(kinds), fragments)
  BY <1>1, <1>2
<1>3. Len(kinds) \in Nat /\ \A j \in 1 .. Len(kinds) : kinds[j] \in LayoutKinds(texts)
  OBVIOUS
<1>4. P[0] = <<>> /\ \A j \in 1 .. Len(kinds) : P[j] = P[j - 1] \o Printed(kinds[j])
  BY <1>1, <1>3, PrintingStepwise
<1>5. \A j \in 1 .. Len(kinds) : Printed(kinds[j]) \in Seq(fragments) /\ Len(Printed(kinds[j])) \in Nat
  BY <1>2, <1>3, PrintedFirst
<1> DEFINE S == {l \in Nat : l <= Len(kinds) => P[l] \in Seq(fragments)}
<1>6. 0 \in S
  <2>1. <<>> \in Seq(fragments)
    OBVIOUS
  <2> QED
    BY <1>4, <2>1
<1>7. ASSUME NEW l \in Nat, l \in S PROVE l + 1 \in S
  <2> SUFFICES ASSUME l + 1 <= Len(kinds) PROVE P[l + 1] \in Seq(fragments)
    OBVIOUS
  <2>1. l + 1 \in 1 .. Len(kinds) /\ (l + 1) - 1 = l /\ l <= Len(kinds)
    BY <1>3
  <2>2. P[l + 1] = P[l] \o Printed(kinds[l + 1])
    BY <1>4, <2>1
  <2>3. P[l] \in Seq(fragments) /\ Printed(kinds[l + 1]) \in Seq(fragments)
    BY <1>5, <1>7, <2>1
  <2> QED
    BY <2>2, <2>3
<1>8. \A j \in 0 .. Len(kinds) : P[j] \in Seq(fragments)
  <2> HIDE DEF S
  <2>1. Nat \subseteq S
    BY <1>6, <1>7, NumbersBySuccession
  <2>2. \A j \in 0 .. Len(kinds) : j \in Nat /\ j <= Len(kinds)
    OBVIOUS
  <2> QED
    BY <2>1, <2>2 DEF S
<1> HIDE DEF S
<1>9. ASSUME NEW j \in 1 .. Len(kinds)
      PROVE  /\ Len(P[j]) = Len(P[j - 1]) + Len(Printed(kinds[j]))
             /\ Len(P[j - 1]) \in Nat /\ Len(P[j - 1]) <= Len(P[j])
             /\ \A m \in 1 .. Len(P[j - 1]) : P[j][m] = P[j - 1][m]
  <2>1. j - 1 \in 0 .. Len(kinds)
    BY <1>3
  <2>2. PICK s \in Seq(fragments), t \in Seq(fragments) : s = P[j - 1] /\ t = Printed(kinds[j])
    BY <1>5, <1>8, <2>1
  <2>3. P[j] = s \o t
    BY <1>4, <2>2
  <2>4. /\ Len(s \o t) = Len(s) + Len(t) /\ Len(s) \in Nat /\ Len(t) \in Nat
        /\ \A m \in 1 .. Len(s) : (s \o t)[m] = s[m]
    OBVIOUS
  <2>5. Len(s) <= Len(s \o t)
    BY <2>4
  <2> QED
    BY <2>2, <2>3, <2>4, <2>5
<1> DEFINE Kept(l) == \A j \in 0 .. l :
                 Len(P[j]) <= Len(P[l]) /\ \A m \in 1 .. Len(P[j]) : P[l][m] = P[j][m]
           T == {l \in Nat : l <= Len(kinds) => Kept(l)}
<1>10. 0 \in T
  <2>1. Len(P[0]) \in Nat
    BY <1>3, <1>8
  <2>2. \A j \in 0 .. 0 : j = 0
    OBVIOUS
  <2> QED
    BY <2>1, <2>2
<1>11. ASSUME NEW l \in Nat, l \in T PROVE l + 1 \in T
  <2> SUFFICES ASSUME l + 1 <= Len(kinds) PROVE Kept(l + 1)
    OBVIOUS
  <2>1. l + 1 \in 1 .. Len(kinds) /\ (l + 1) - 1 = l /\ l <= Len(kinds)
    BY <1>3
  <2>2. Kept(l)
    BY <1>11, <2>1
  <2>3. /\ Len(P[l]) \in Nat /\ Len(P[l]) <= Len(P[l + 1])
        /\ \A m \in 1 .. Len(P[l]) : P[l + 1][m] = P[l][m]
    BY <1>9, <2>1
  <2> SUFFICES ASSUME NEW j \in 0 .. l + 1
               PROVE  /\ Len(P[j]) <= Len(P[l + 1])
                      /\ \A m \in 1 .. Len(P[j]) : P[l + 1][m] = P[j][m]
    OBVIOUS
  <2>4. Len(P[j]) \in Nat /\ Len(P[l + 1]) \in Nat
    <3>1. j \in 0 .. Len(kinds) /\ l + 1 \in 0 .. Len(kinds)
      BY <1>3
    <3> QED
      BY <1>8, <3>1
  <2>5. CASE j = l + 1
    BY <2>4, <2>5
  <2>6. CASE j \in 0 .. l
    <3>1. Len(P[j]) <= Len(P[l]) /\ \A m \in 1 .. Len(P[j]) : P[l][m] = P[j][m]
      BY <2>2, <2>6
    <3>2. Len(P[j]) <= Len(P[l + 1])
      BY <2>3, <2>4, <3>1
    <3>3. \A m \in 1 .. Len(P[j]) : m \in 1 .. Len(P[l])
      BY <2>3, <2>4, <3>1
    <3>4. \A m \in 1 .. Len(P[j]) : P[l + 1][m] = P[j][m]
      BY <2>3, <3>1, <3>3
    <3> QED
      BY <3>2, <3>4
  <2> QED
    BY <2>5, <2>6
<1>12. \A l \in 0 .. Len(kinds) : Kept(l)
  <2> HIDE DEF T, Kept
  <2>1. Nat \subseteq T
    BY <1>10, <1>11, NumbersBySuccession
  <2>2. \A j \in 0 .. Len(kinds) : j \in Nat /\ j <= Len(kinds)
    OBVIOUS
  <2> QED
    BY <2>1, <2>2 DEF T
<1> QED
  BY <1>4, <1>8, <1>9, <1>12 DEF Grows

(* The kinds that print a layout are the ones it is read as: from the last *)
(* kind to the first, what is read from where a kind starts is that kind   *)
(* and the ones behind it.                                                 *)
LEMMA LayoutsAreRead ==
    ASSUME NEW texts, NEW kinds \in Seq(LayoutKinds(texts)), Plain(kinds)
    PROVE  OperandKinds(PrintedAll(kinds)) = kinds
<1>1. PICK n \in Nat : n = Len(kinds)
  OBVIOUS
<1>2. \A j \in 1 .. n : kinds[j] \in LayoutKinds(texts)
  BY <1>1
<1>3. PICK P : P = Printing(kinds)
  OBVIOUS
<1>4. PICK fragments : fragments = PlainFragments(texts \cup {"(", ")", "sp"})
  OBVIOUS
<1>5. PICK rest : rest = PrintedAll(kinds)
  OBVIOUS
<1>6. rest = P[n]
  BY <1>1, <1>3, <1>5 DEF PrintedAll
<1>7. PICK F : F = KindsFrom(rest)
  OBVIOUS
<1>8. Grows(kinds, P, n, fragments)
  BY <1>1, <1>3, <1>4, PrintingGrows
<1>9. /\ P[0] = <<>>
      /\ \A j \in 0 .. n : P[j] \in Seq(fragments)
      /\ \A j \in 1 .. n : /\ P[j] = P[j - 1] \o Printed(kinds[j])
                           /\ Len(P[j]) = Len(P[j - 1]) + Len(Printed(kinds[j]))
      /\ \A l \in 0 .. n : \A j \in 0 .. l :
            Len(P[j]) <= Len(P[l]) /\ \A m \in 1 .. Len(P[j]) : P[l][m] = P[j][m]
  BY <1>8 DEF Grows
<1>10. \A j \in 0 .. n : Len(P[j]) \in Nat
  BY <1>9
<1>11. Len(rest) \in Nat /\ rest = P[n] /\ n \in 0 .. n
  BY <1>6, <1>10
<1>12. \A i \in 1 .. Len(rest) + 4 : F[i] = PieceOf(rest, i, F[i + 4], F[i + 3], F[i + 1])
  BY <1>7, <1>11, KindsFromStepwise
<1>13. \A j \in 1 .. n : /\ Printed(kinds[j]) \in Seq(fragments)
                         /\ Len(Printed(kinds[j])) \in Nat \ {0}
                         /\ ~(kinds[j].k = "mem" /\ kinds[j].bits < 0) => Printed(kinds[j])[1] # Opening
  BY <1>2, <1>4, PrintedFirst
(* Where each kind is printed. *)
<1>14. ASSUME NEW j \in 1 .. n
       PROVE  /\ Len(P[j - 1]) \in Nat /\ Len(P[j - 1]) + Len(Printed(kinds[j])) <= Len(rest)
              /\ \A m \in 1 .. Len(Printed(kinds[j])) :
                    rest[Len(P[j - 1]) + m] = Printed(kinds[j])[m]
  <2>1. j - 1 \in 0 .. n /\ j \in 0 .. n
    OBVIOUS
  <2>2. PICK s \in Seq(fragments), t \in Seq(fragments) : s = P[j - 1] /\ t = Printed(kinds[j])
    BY <1>9, <1>13, <2>1
  <2>3. P[j] = s \o t
    BY <1>9, <2>2
  <2>4. /\ Len(s) \in Nat /\ Len(t) \in Nat /\ Len(s \o t) = Len(s) + Len(t)
        /\ \A m \in 1 .. Len(t) : (s \o t)[Len(s) + m] = t[m] /\ Len(s) + m \in 1 .. Len(s) + Len(t)
    OBVIOUS
  <2>5. Len(P[j]) <= Len(rest) /\ \A m \in 1 .. Len(P[j]) : rest[m] = P[j][m]
    BY <1>9, <1>11, <2>1
  <2>6. Len(s) + Len(t) <= Len(rest)
    BY <2>3, <2>4, <2>5
  <2>7. \A m \in 1 .. Len(t) : rest[Len(s) + m] = t[m]
    BY <2>3, <2>4, <2>5
  <2> QED
    BY <2>2, <2>4, <2>6, <2>7
(* No base follows an immediate. *)
<1>15. ASSUME NEW j \in 1 .. n, kinds[j].k = "imm"
       PROVE  ParenBase(rest, Len(P[j]) + 1) = "none"
  <2>1. j \in 0 .. n /\ Len(P[j]) \in Nat /\ Len(P[j]) + 1 \in Nat
    BY <1>10
  <2>2. CASE j = n
    <3>1. (Len(P[j]) + 1) + 2 > Len(rest)
      BY <1>11, <2>1, <2>2
    <3> QED
      BY <1>11, <2>1, <3>1, BasesRead
  <2>3. CASE j < n
    <3>1. j + 1 \in 1 .. n /\ j \in 1 .. n - 1 /\ (j + 1) - 1 = j
      BY <2>3
    <3>2. ~(kinds[j + 1].k = "mem" /\ kinds[j + 1].bits < 0)
      BY <1>1, <1>15, <3>1 DEF Plain
    <3>3. Printed(kinds[j + 1])[1] # Opening
      BY <1>13, <3>1, <3>2
    <3>4. 1 \in 1 .. Len(Printed(kinds[j + 1]))
      <4>1. Len(Printed(kinds[j + 1])) \in Nat \ {0}
        BY <1>13, <3>1
      <4> QED
        BY <4>1
    <3>5. rest[Len(P[j]) + 1] # Opening
      BY <1>14, <3>1, <3>3, <3>4
    <3> QED
      BY <1>11, <2>1, <3>5, BasesRead
  <2> QED
    BY <2>2, <2>3
<1>16. ASSUME NEW j \in 1 .. n PROVE F[Len(P[j - 1]) + 1] = <<kinds[j]>> \o F[Len(P[j]) + 1]
  <2>1. PICK kind : kind = kinds[j]
    OBVIOUS
  <2>2. PICK a \in Nat : a = Len(P[j - 1])
    BY <1>14
  <2>3. PICK w \in Nat \ {0} : w = Len(Printed(kind))
    BY <1>13, <2>1
  <2>4. kind \in LayoutKinds(texts)
    BY <1>2, <2>1
  <2>5. PICK i \in Nat : i = a + 1
    OBVIOUS
  <2>6. a + w <= Len(rest) /\ Len(rest) \in Nat /\ \A m \in 1 .. w : rest[a + m] = Printed(kind)[m]
    BY <1>11, <1>14, <2>1, <2>2, <2>3, Zenon
  <2>7. Len(P[j]) = a + w
    BY <1>9, <2>1, <2>2, <2>3, Zenon
  <2>8. i + w <= Len(rest) + 1
    BY <2>5, <2>6
  <2>9. \A m \in 1 .. w : rest[i + m - 1] = Printed(kind)[m]
    <3>1. \A m \in 1 .. w : i + m - 1 = a + m
      BY <2>5
    <3> QED
      BY <2>6, <3>1
  <2>10. Len(P[j]) + 1 = i + w
    BY <2>5, <2>7
  <2>11. kind.k = "imm" => ParenBase(rest, i + 1) = "none"
    <3> SUFFICES ASSUME kind.k = "imm" PROVE ParenBase(rest, i + 1) = "none"
      OBVIOUS
    <3>1. ParenBase(rest, i + w) = "none"
      BY <1>15, <2>1, <2>10
    <3>2. w = 1
      BY <2>1, <2>3, <2>4, ImmediatesPrinted
    <3> QED
      BY <3>1, <3>2
  <2>12. ReadAt(rest, i, kind, w)
    <3>1. PrintedAt(rest, i, kind)
      BY <2>3, <2>8, <2>9, Zenon DEF PrintedAt
    <3> QED
      BY <1>11, <2>3, <2>4, <2>11, <3>1, KindsRead
  <2>13. i \in 1 .. Len(rest) + 4
    BY <2>8, <2>5, <2>6, <2>3
  <2>14. F[i] = PieceOf(rest, i, F[i + 4], F[i + 3], F[i + 1])
    BY <1>12, <2>13
  <2>15. F[i] = <<kind>> \o F[i + w]
    <3>1. F[i] = <<kind>> \o (IF w = 4 THEN F[i + 4] ELSE IF w = 3 THEN F[i + 3] ELSE F[i + 1])
      BY <2>12, <2>14, Zenon DEF ReadAt
    <3>2. w \in {1, 3, 4}
      BY <2>12 DEF ReadAt
    <3> QED
      BY <3>1, <3>2
  <2> QED
    BY <2>1, <2>2, <2>10, <2>15, <2>5
<1> DEFINE Behind(d) == F[Len(P[n - d]) + 1] = SubSeq(kinds, n - d + 1, n)
           S == {d \in Nat : d <= n => Behind(d)}
<1>17. 0 \in S
  <2>1. F[Len(rest) + 1] = <<>>
    <3>1. Len(rest) + 1 \in 1 .. Len(rest) + 4 /\ Len(rest) + 1 > Len(rest)
      BY <1>11
    <3> QED
      BY <1>12, <3>1 DEF PieceOf
  <2>2. SubSeq(kinds, n + 1, n) = <<>>
    BY <1>1, SubSeqEmpty
  <2>3. n - 0 = n
    OBVIOUS
  <2> QED
    BY <1>11, <2>1, <2>2, <2>3
<1>18. ASSUME NEW d \in Nat, d \in S PROVE d + 1 \in S
  <2> SUFFICES ASSUME d + 1 <= n PROVE Behind(d + 1)
    OBVIOUS
  <2>1. PICK j \in 1 .. n : j = n - d
    OBVIOUS
  <2>2. n - (d + 1) = j - 1 /\ (j - 1) + 1 = j /\ d <= n
    BY <2>1
  <2>3. F[Len(P[j]) + 1] = SubSeq(kinds, j + 1, n)
    BY <1>18, <2>1, <2>2
  <2>4. F[Len(P[j - 1]) + 1] = <<kinds[j]>> \o SubSeq(kinds, j + 1, n)
    BY <1>16, <2>3
  <2>5. SubSeq(kinds, j, n) = <<kinds[j]>> \o SubSeq(kinds, j + 1, n)
    <3>1. j \in 1 .. Len(kinds) /\ n \in j .. Len(kinds)
      BY <1>1
    <3> QED
      BY <3>1, SubSeqRecursiveFirst
  <2> QED
    BY <2>2, <2>4, <2>5
<1>19. Behind(n)
  <2> HIDE DEF S
  <2>1. n \in S
    BY <1>17, <1>18, NumbersBySuccession
  <2> QED
    BY <2>1 DEF S
<1>20. F[1] = kinds
  <2>1. n - n = 0 /\ Len(<<>>) = 0 /\ 0 + 1 = 1
    OBVIOUS
  <2>2. F[1] = SubSeq(kinds, 1, n)
    BY <1>9, <1>19, <2>1
  <2> QED
    BY <1>1, <2>2, SubSeqFull
<1> QED
  BY <1>5, <1>7, <1>20 DEF OperandKinds

(* What is read is printed back: of a fragment on its own, ...             *)
Stray == Kind("stray")
Segment(rest, i, w) == SubSeq(rest, i, i + w - 1)
(* ... and of what is read at a place of the fragments.                    *)
ReadsBack(texts, rest, i, w, kind) ==
    /\ w \in {1, 3, 4} /\ i + w <= Len(rest) + 1
    /\ kind = Stray \/ (kind \in LayoutKinds(texts) /\ Printed(kind) = Segment(rest, i, w))

LEMMA FragmentCases ==
    ASSUME NEW texts, NEW f \in PlainFragments(texts)
    PROVE  \/ \E k \in NAMES : f = Mark(k)
           \/ \E b \in Nat, s \in BOOLEAN : f = Imm(b, s)
           \/ \E t \in texts : f = Str(<<t>>)
<1>1. \/ f \in {Mark(k) : k \in NAMES}
      \/ f \in {Imm(b, s) : b \in Nat, s \in BOOLEAN}
      \/ f \in {Str(<<t>>) : t \in texts}
  BY DEF PlainFragments
<1>2. f \in {Mark(k) : k \in NAMES} => \E k \in NAMES : f = Mark(k)
  BY Zenon
<1>3. f \in {Imm(b, s) : b \in Nat, s \in BOOLEAN} => \E b \in Nat, s \in BOOLEAN : f = Imm(b, s)
  BY SMT
<1>4. f \in {Str(<<t>>) : t \in texts} => \E t \in texts : f = Str(<<t>>)
  BY Zenon
<1> QED
  BY <1>1, <1>2, <1>3, <1>4

LEMMA FragmentsRead ==
    ASSUME NEW texts, NEW f \in PlainFragments(texts)
    PROVE  Single(f) = Stray \/ (Single(f) \in LayoutKinds(texts) /\ Printed(Single(f)) = <<f>>)
<1>1. ASSUME NEW k \in NAMES, f = Mark(k)
      PROVE  Single(f) \in LayoutKinds(texts) /\ Printed(Single(f)) = <<f>>
  BY <1>1, SinglesPrinted DEF LayoutKinds, SingleKinds
<1>2. ASSUME NEW b \in Nat, NEW s \in BOOLEAN, f = Imm(b, s)
      PROVE  Single(f) \in LayoutKinds(texts) /\ Printed(Single(f)) = <<f>>
  BY <1>2, SinglesPrinted DEF LayoutKinds, SingleKinds
<1>3. ASSUME NEW t \in texts, f = Str(<<t>>), t \notin Punctuation
      PROVE  Single(f) \in LayoutKinds(texts) /\ Printed(Single(f)) = <<f>>
  BY <1>3, SinglesPrinted DEF LayoutKinds, SingleKinds
<1>4. ASSUME NEW t \in texts, f = Str(<<t>>), t \in Punctuation PROVE Single(f) = Stray
  <2>1. f.k = "str" /\ f.texts = <<t>> /\ <<t>>[1] = t
    BY <1>4, FragmentParts
  <2> QED
    BY <1>4, <2>1 DEF Single, Stray
<1> QED
  BY <1>1, <1>2, <1>3, <1>4, FragmentCases, Zenon

(* The fragment of a base, from what is read of it.                        *)
LEMMA BasesPrinted ==
    ASSUME NEW texts, NEW f \in PlainFragments(texts), NEW base,
           (f.k \in {"reg", "creg"} /\ base = f.k) \/ (f = StackPointer /\ base = "sp")
    PROVE  base \in BASES /\ BaseText(base) = f /\ base # "none"
<1>1. CASE f.k \in {"reg", "creg"} /\ base = f.k
  <2>1. ~ \E b \in Nat, s \in BOOLEAN : f = Imm(b, s)
    BY <1>1, FragmentParts
  <2>2. \A t : f # Str(<<t>>)
    BY <1>1, FragmentParts
  <2>3. PICK k \in NAMES : f = Mark(k)
    <3>1. f \in PlainFragments(texts)
      OBVIOUS
    <3> QED
      BY <2>1, <2>2, <3>1, FragmentCases, Zenon
  <2>4. f = Mark(base)
    BY <1>1, <2>3, FragmentParts
  <2> QED
    BY <1>1, <2>4 DEF BASES, BaseText
<1>2. CASE f = StackPointer /\ base = "sp"
  BY <1>2 DEF BASES, BaseText
<1> QED
  BY <1>1, <1>2

LEMMA SegmentsOf ==
    ASSUME NEW S, NEW rest \in Seq(S), NEW i \in Nat, i > 0
    PROVE  /\ i <= Len(rest) => Segment(rest, i, 1) = <<rest[i]>>
           /\ i + 2 <= Len(rest) => Segment(rest, i, 3) = <<rest[i], rest[i + 1], rest[i + 2]>>
           /\ i + 3 <= Len(rest) =>
                 Segment(rest, i, 4) = <<rest[i], rest[i + 1], rest[i + 2], rest[i + 3]>>
<1>1. /\ i + 1 - 1 = i /\ i + 3 - 1 = i + 2 /\ i + 4 - 1 = i + 3
      /\ Len(rest) \in Nat
  OBVIOUS
<1>2. ASSUME i <= Len(rest) PROVE Segment(rest, i, 1) = <<rest[i]>>
  <2>1. \A m \in i .. i : rest[m] \in S
    BY <1>1, <1>2
  <2>2. /\ SubSeq(rest, i, i) \in Seq(S) /\ Len(SubSeq(rest, i, i)) = 1
        /\ \A m \in 1 .. i - i + 1 : SubSeq(rest, i, i)[m] = rest[i + m - 1]
    BY <2>1, SubSeqProperties
  <2>3. <<rest[i]>> \in Seq(S) /\ Len(<<rest[i]>>) = 1 /\ <<rest[i]>>[1] = rest[i]
    BY <1>2
  <2>4. SubSeq(rest, i, i)[1] = rest[i]
    <3>1. 1 \in 1 .. i - i + 1 /\ i + 1 - 1 = i
      OBVIOUS
    <3> QED
      BY <2>2, <3>1
  <2>5. \A m \in 1 .. 1 : m = 1
    OBVIOUS
  <2>6. SubSeq(rest, i, i) = <<rest[i]>>
    BY <2>2, <2>3, <2>4, <2>5, SeqEqual
  <2> QED
    BY <1>1, <2>6 DEF Segment
<1>3. ASSUME i + 2 <= Len(rest)
      PROVE  Segment(rest, i, 3) = <<rest[i], rest[i + 1], rest[i + 2]>>
  <2>1. PICK t : t = <<rest[i], rest[i + 1], rest[i + 2]>>
    OBVIOUS
  <2>2. rest[i] \in S /\ rest[i + 1] \in S /\ rest[i + 2] \in S
    BY <1>1, <1>3
  <2>3. t \in Seq(S) /\ Len(t) = 3 /\ t[1] = rest[i] /\ t[2] = rest[i + 1] /\ t[3] = rest[i + 2]
    BY <2>1, <2>2
  <2>4. \A m \in i .. i + 2 : rest[m] \in S
    BY <1>1, <1>3
  <2>5. PICK u : u = SubSeq(rest, i, i + 2)
    OBVIOUS
  <2>6. /\ u \in Seq(S) /\ Len(u) = 3
        /\ \A m \in 1 .. (i + 2) - i + 1 : u[m] = rest[i + m - 1]
    BY <2>4, <2>5, SubSeqProperties
  <2>7. u[1] = rest[i] /\ u[2] = rest[i + 1] /\ u[3] = rest[i + 2]
    <3>1. /\ 1 \in 1 .. (i + 2) - i + 1 /\ 2 \in 1 .. (i + 2) - i + 1 /\ 3 \in 1 .. (i + 2) - i + 1
          /\ i + 1 - 1 = i /\ i + 2 - 1 = i + 1 /\ i + 3 - 1 = i + 2
      OBVIOUS
    <3> QED
      BY <2>6, <3>1
  <2>8. \A m \in 1 .. 3 : m = 1 \/ m = 2 \/ m = 3
    OBVIOUS
  <2>9. \A m \in 1 .. Len(u) : u[m] = t[m]
    BY <2>3, <2>6, <2>7, <2>8, Zenon
  <2>10. u = t
    BY <2>3, <2>6, <2>9, SeqEqual
  <2> QED
    BY <1>1, <2>1, <2>5, <2>10 DEF Segment
<1>4. ASSUME i + 3 <= Len(rest)
      PROVE  Segment(rest, i, 4) = <<rest[i], rest[i + 1], rest[i + 2], rest[i + 3]>>
  <2>1. PICK t : t = <<rest[i], rest[i + 1], rest[i + 2], rest[i + 3]>>
    OBVIOUS
  <2>2. rest[i] \in S /\ rest[i + 1] \in S /\ rest[i + 2] \in S /\ rest[i + 3] \in S
    BY <1>1, <1>4
  <2>3. /\ t \in Seq(S) /\ Len(t) = 4
        /\ t[1] = rest[i] /\ t[2] = rest[i + 1] /\ t[3] = rest[i + 2] /\ t[4] = rest[i + 3]
    BY <2>1, <2>2
  <2>4. \A m \in i .. i + 3 : rest[m] \in S
    BY <1>1, <1>4
  <2>5. PICK u : u = SubSeq(rest, i, i + 3)
    OBVIOUS
  <2>6. /\ u \in Seq(S) /\ Len(u) = 4
        /\ \A m \in 1 .. (i + 3) - i + 1 : u[m] = rest[i + m - 1]
    BY <2>4, <2>5, SubSeqProperties
  <2>7. u[1] = rest[i] /\ u[2] = rest[i + 1] /\ u[3] = rest[i + 2] /\ u[4] = rest[i + 3]
    <3>1. /\ 1 \in 1 .. (i + 3) - i + 1 /\ 2 \in 1 .. (i + 3) - i + 1
          /\ 3 \in 1 .. (i + 3) - i + 1 /\ 4 \in 1 .. (i + 3) - i + 1
          /\ i + 1 - 1 = i /\ i + 2 - 1 = i + 1 /\ i + 3 - 1 = i + 2 /\ i + 4 - 1 = i + 3
      OBVIOUS
    <3> QED
      BY <2>6, <3>1
  <2>8. \A m \in 1 .. 4 : m = 1 \/ m = 2 \/ m = 3 \/ m = 4
    OBVIOUS
  <2>9. \A m \in 1 .. Len(u) : u[m] = t[m]
    BY <2>3, <2>6, <2>7, <2>8, Zenon
  <2>10. u = t
    BY <2>3, <2>6, <2>9, SeqEqual
  <2> QED
    BY <1>1, <2>1, <2>5, <2>10 DEF Segment
<1> QED
  BY <1>2, <1>3, <1>4

LEMMA PiecesReadBack ==
    ASSUME NEW texts, NEW rest \in Seq(PlainFragments(texts)), NEW i \in 1 .. Len(rest)
    PROVE  \E w, kind : ReadAt(rest, i, kind, w) /\ ReadsBack(texts, rest, i, w, kind)
<1>1. /\ i \in Nat /\ i > 0 /\ i <= Len(rest) /\ Len(rest) \in Nat /\ ~(i > Len(rest))
      /\ \A m \in 1 .. Len(rest) : rest[m] \in PlainFragments(texts)
  OBVIOUS
<1>2. CASE rest[i].k = "imm" /\ ParenBase(rest, i + 1) # "none"
  <2>1. PICK b \in Nat, s \in BOOLEAN : rest[i] = Imm(b, s)
    <3>1. rest[i] \in PlainFragments(texts)
      BY <1>1
    <3>2. \A k \in NAMES : rest[i] # Mark(k)
      BY <1>2, FragmentParts DEF NAMES
    <3>3. \A t : rest[i] # Str(<<t>>)
      BY <1>2, FragmentParts
    <3> QED
      BY <3>1, <3>2, <3>3, FragmentCases, Zenon
  <2>2. PICK base : base = ParenBase(rest, i + 1)
    OBVIOUS
  <2>3. /\ i + 3 <= Len(rest) /\ rest[i + 1] = Opening /\ rest[i + 3] = Closing
        /\ \/ rest[i + 2].k \in {"reg", "creg"} /\ base = rest[i + 2].k
           \/ rest[i + 2] = StackPointer /\ base = "sp"
    <3>1. i + 1 \in Nat /\ (i + 1) + 1 = i + 2 /\ (i + 1) + 2 = i + 3
      OBVIOUS
    <3> QED
      BY <1>1, <1>2, <2>2, <3>1, BasesRead
  <2>4. base \in BASES /\ BaseText(base) = rest[i + 2]
    <3>1. rest[i + 2] \in PlainFragments(texts)
      BY <1>1, <2>3
    <3> QED
      BY <2>3, <3>1, BasesPrinted
  <2>5. PICK kind : kind = MemKind(b, s, base)
    OBVIOUS
  <2>6. kind \in LayoutKinds(texts)
    BY <2>4, <2>5 DEF LayoutKinds, OffsetKinds
  <2>7. Printed(kind) = <<rest[i], rest[i + 1], rest[i + 2], rest[i + 3]>>
    BY <2>1, <2>3, <2>4, <2>5, MemsPrinted
  <2>8. Printed(kind) = Segment(rest, i, 4)
    BY <1>1, <2>3, <2>7, SegmentsOf
  <2>9. ReadsBack(texts, rest, i, 4, kind)
    BY <1>1, <2>3, <2>6, <2>8 DEF ReadsBack
  <2>10. rest[i].bits = b /\ rest[i].signed = s
    BY <2>1, FragmentParts
  <2>11. \A after4, after3, after1 : PieceOf(rest, i, after4, after3, after1) = <<kind>> \o after4
    BY <1>1, <1>2, <2>2, <2>5, <2>10 DEF PieceOf
  <2> QED
    BY <2>9, <2>11 DEF ReadAt
<1>3. CASE ~(rest[i].k = "imm" /\ ParenBase(rest, i + 1) # "none") /\ ParenBase(rest, i) # "none"
  <2>1. PICK base : base = ParenBase(rest, i)
    OBVIOUS
  <2>2. /\ i + 2 <= Len(rest) /\ rest[i] = Opening /\ rest[i + 2] = Closing
        /\ \/ rest[i + 1].k \in {"reg", "creg"} /\ base = rest[i + 1].k
           \/ rest[i + 1] = StackPointer /\ base = "sp"
    BY <1>1, <1>3, <2>1, BasesRead
  <2>3. base \in BASES /\ BaseText(base) = rest[i + 1]
    <3>1. rest[i + 1] \in PlainFragments(texts)
      BY <1>1, <2>2
    <3> QED
      BY <2>2, <3>1, BasesPrinted
  <2>4. PICK kind : kind = BareKind(base)
    OBVIOUS
  <2>5. kind \in LayoutKinds(texts)
    BY <2>3, <2>4 DEF LayoutKinds, BareKinds
  <2>6. Printed(kind) = <<rest[i], rest[i + 1], rest[i + 2]>>
    BY <2>2, <2>3, <2>4, MemsPrinted
  <2>7. Printed(kind) = Segment(rest, i, 3)
    BY <1>1, <2>2, <2>6, SegmentsOf
  <2>8. ReadsBack(texts, rest, i, 3, kind)
    BY <1>1, <2>2, <2>5, <2>7 DEF ReadsBack
  <2>9. \A after4, after3, after1 : PieceOf(rest, i, after4, after3, after1) = <<kind>> \o after3
    BY <1>1, <1>3, <2>1, <2>4 DEF PieceOf
  <2> QED
    BY <2>8, <2>9 DEF ReadAt
<1>4. CASE ~(rest[i].k = "imm" /\ ParenBase(rest, i + 1) # "none") /\ ~(ParenBase(rest, i) # "none")
  <2>1. PICK kind : kind = Single(rest[i])
    OBVIOUS
  <2>2. kind = Stray \/ (kind \in LayoutKinds(texts) /\ Printed(kind) = <<rest[i]>>)
    BY <1>1, <2>1, FragmentsRead
  <2>3. Segment(rest, i, 1) = <<rest[i]>>
    BY <1>1, SegmentsOf
  <2>4. ReadsBack(texts, rest, i, 1, kind)
    BY <1>1, <2>2, <2>3 DEF ReadsBack
  <2>5. \A after4, after3, after1 : PieceOf(rest, i, after4, after3, after1) = <<kind>> \o after1
    BY <1>1, <1>4, <2>1 DEF PieceOf
  <2> QED
    BY <2>4, <2>5 DEF ReadAt
<1> QED
  BY <1>2, <1>3, <1>4

(* Printing a kind and the ones behind it. *)
LEMMA ConsPrinted ==
    ASSUME NEW texts, NEW x \in LayoutKinds(texts), NEW s \in Seq(LayoutKinds(texts))
    PROVE  PrintedAll(<<x>> \o s) = Printed(x) \o PrintedAll(s)
<1>1. PICK fragments : fragments = PlainFragments(texts \cup {"(", ")", "sp"})
  OBVIOUS
<1>2. PICK n \in Nat : n = Len(s)
  OBVIOUS
<1>3. PICK all : all = <<x>> \o s
  OBVIOUS
<1>4. /\ all \in Seq(LayoutKinds(texts)) /\ Len(all) = n + 1 /\ all[1] = x
      /\ \A m \in 1 .. n : all[m + 1] = s[m]
  <2>1. <<x>> \in Seq(LayoutKinds(texts)) /\ Len(<<x>>) = 1 /\ <<x>>[1] = x
    OBVIOUS
  <2>2. PICK one \in Seq(LayoutKinds(texts)) : one = <<x>>
    BY <2>1
  <2>3. /\ one \o s \in Seq(LayoutKinds(texts)) /\ Len(one \o s) = 1 + n
        /\ (one \o s)[1] = x /\ \A m \in 1 .. n : (one \o s)[1 + m] = s[m]
    BY <1>2, <2>1, <2>2
  <2>4. 1 + n = n + 1 /\ \A m \in 1 .. n : 1 + m = m + 1
    OBVIOUS
  <2> QED
    BY <1>3, <2>2, <2>3, <2>4
<1>5. PICK P : P = Printing(s)
  OBVIOUS
<1>6. PICK Q : Q = Printing(all)
  OBVIOUS
<1>7. /\ P[0] = <<>> /\ \A m \in 0 .. n : P[m] \in Seq(fragments)
      /\ \A m \in 1 .. n : P[m] = P[m - 1] \o Printed(s[m])
  <2>1. Grows(s, P, n, fragments)
    BY <1>1, <1>2, <1>5, PrintingGrows
  <2> QED
    BY <2>1 DEF Grows
<1>8. Q[0] = <<>> /\ \A m \in 1 .. n + 1 : Q[m] = Q[m - 1] \o Printed(all[m])
  <2>1. Grows(all, Q, n + 1, fragments)
    BY <1>1, <1>4, <1>6, PrintingGrows
  <2> QED
    BY <2>1 DEF Grows
<1>9. Printed(x) \in Seq(fragments) /\ \A m \in 1 .. n : Printed(s[m]) \in Seq(fragments)
  <2>1. \A m \in 1 .. n : s[m] \in LayoutKinds(texts)
    BY <1>2
  <2> QED
    BY <1>1, <2>1, PrintedFirst
<1> DEFINE S == {m \in Nat : m <= n => Q[m + 1] = Printed(x) \o P[m]}
<1>10. 0 \in S
  <2>1. 0 + 1 \in 1 .. n + 1 /\ (0 + 1) - 1 = 0 /\ 0 + 1 = 1
    OBVIOUS
  <2>2. Q[0 + 1] = <<>> \o Printed(x)
    BY <1>4, <1>8, <2>1
  <2>3. <<>> \o Printed(x) = Printed(x) /\ Printed(x) \o <<>> = Printed(x)
    BY <1>9, ConcatEmptySeq
  <2> QED
    BY <1>7, <2>2, <2>3
<1>11. ASSUME NEW m \in Nat, m \in S PROVE m + 1 \in S
  <2> SUFFICES ASSUME m + 1 <= n PROVE Q[(m + 1) + 1] = Printed(x) \o P[m + 1]
    OBVIOUS
  <2>1. /\ m + 1 \in 1 .. n /\ m \in 0 .. n /\ m <= n /\ (m + 1) - 1 = m
        /\ (m + 1) + 1 \in 1 .. n + 1 /\ ((m + 1) + 1) - 1 = m + 1
    OBVIOUS
  <2>2. Q[(m + 1) + 1] = Q[m + 1] \o Printed(s[m + 1])
    BY <1>4, <1>8, <2>1
  <2>3. Q[m + 1] = Printed(x) \o P[m]
    BY <1>11, <2>1
  <2>4. P[m + 1] = P[m] \o Printed(s[m + 1])
    BY <1>7, <2>1
  <2>5. (Printed(x) \o P[m]) \o Printed(s[m + 1]) = Printed(x) \o (P[m] \o Printed(s[m + 1]))
    <3>1. P[m] \in Seq(fragments) /\ Printed(s[m + 1]) \in Seq(fragments)
      BY <1>7, <1>9, <2>1
    <3>2. \A a, b, c \in Seq(fragments) : (a \o b) \o c = a \o (b \o c)
      BY ConcatAssociative
    <3> QED
      BY <1>9, <3>1, <3>2, Zenon
  <2> QED
    BY <2>2, <2>3, <2>4, <2>5
<1>12. Q[n + 1] = Printed(x) \o P[n]
  <2> HIDE DEF S
  <2>1. n \in S
    BY <1>10, <1>11, NumbersBySuccession
  <2> QED
    BY <2>1 DEF S
<1> QED
  BY <1>2, <1>3, <1>4, <1>5, <1>6, <1>12 DEF PrintedAll

(* A clause of which nothing is stray prints back as it was: from the last *)
(* fragment to the first, what is read from there on prints what is there. *)
PrintsBack(texts, rest, kinds, i) ==
    /\ kinds \in Seq(LayoutKinds(texts) \cup {Stray})
    /\ (\A p \in DOMAIN kinds : kinds[p].k # "stray") =>
          /\ kinds \in Seq(LayoutKinds(texts))
          /\ PrintedAll(kinds) = SubSeq(rest, i, Len(rest))

LEMMA NothingPrints == PrintedAll(<<>>) = <<>>
<1>1. Len(<<>>) = 0 /\ Len(<<>>) \in Nat
  OBVIOUS
<1>2. Printing(<<>>)[0] = <<>>
  BY <1>1, PrintingStepwise
<1> QED
  BY <1>1, <1>2 DEF PrintedAll

LEMMA PieceAndRestPrintBack ==
    ASSUME NEW texts, NEW rest \in Seq(PlainFragments(texts)), NEW i \in 1 .. Len(rest),
           NEW w, NEW kind, ReadsBack(texts, rest, i, w, kind),
           NEW behind, PrintsBack(texts, rest, behind, i + w)
    PROVE  PrintsBack(texts, rest, <<kind>> \o behind, i)
<1>1. /\ w \in {1, 3, 4} /\ i + w <= Len(rest) + 1
      /\ kind = Stray \/ (kind \in LayoutKinds(texts) /\ Printed(kind) = Segment(rest, i, w))
  BY DEF ReadsBack
<1>2. PICK All : All = LayoutKinds(texts) \cup {Stray}
  OBVIOUS
<1>3. behind \in Seq(All) /\ kind \in All /\ <<kind>> \in Seq(All)
  BY <1>1, <1>2 DEF PrintsBack
<1>4. PICK new : new = <<kind>> \o behind
  OBVIOUS
<1>5. /\ new \in Seq(All) /\ Len(new) = 1 + Len(behind) /\ new[1] = kind
      /\ \A p \in 1 .. Len(behind) : new[p + 1] = behind[p]
  <2>1. PICK one \in Seq(All) : one = <<kind>>
    BY <1>3
  <2>2. Len(one) = 1 /\ one[1] = kind
    BY <2>1
  <2>3. \A p \in 1 .. Len(behind) : p + 1 = 1 + p
    OBVIOUS
  <2>4. /\ one \o behind \in Seq(All) /\ Len(one \o behind) = 1 + Len(behind)
        /\ (one \o behind)[1] = kind
        /\ \A p \in 1 .. Len(behind) : (one \o behind)[1 + p] = behind[p]
    <3>1. PICK b \in Seq(All) : b = behind
      BY <1>3
    <3>2. /\ one \o b \in Seq(All) /\ Len(one \o b) = 1 + Len(b) /\ (one \o b)[1] = one[1]
          /\ \A p \in 1 .. Len(b) : (one \o b)[1 + p] = b[p]
      <4>1. \A a, c \in Seq(All) : a \o c \in Seq(All) /\ Len(a \o c) = Len(a) + Len(c)
        BY ConcatProperties
      <4>2. one \o b \in Seq(All) /\ Len(one \o b) = 1 + Len(b)
        BY <2>2, <4>1
      <4>3. Len(b) \in Nat /\ 1 \in 1 .. 1 + Len(b)
        OBVIOUS
      <4>4. (one \o b)[1] = one[1]
        BY <2>2, <4>2, <4>3
      <4>5. \A p \in 1 .. Len(b) : (one \o b)[1 + p] = b[p]
        BY <2>2, <4>2, <4>3
      <4> QED
        BY <4>2, <4>4, <4>5
    <3> QED
      BY <2>2, <3>1, <3>2, Zenon
  <2> QED
    BY <1>4, <2>1, <2>3, <2>4
<1>6. ASSUME \A p \in DOMAIN new : new[p].k # "stray"
      PROVE  new \in Seq(LayoutKinds(texts)) /\ PrintedAll(new) = SubSeq(rest, i, Len(rest))
  <2>1. /\ Len(behind) \in Nat /\ 1 \in DOMAIN new
        /\ \A p \in 1 .. Len(behind) : p + 1 \in DOMAIN new
        /\ DOMAIN behind = 1 .. Len(behind)
    BY <1>3, <1>5
  <2>2. kind.k # "stray" /\ \A p \in DOMAIN behind : behind[p].k # "stray"
    BY <1>5, <1>6, <2>1
  <2>3. Stray.k = "stray"
    BY KindParts DEF Stray
  <2>4. kind \in LayoutKinds(texts) /\ Printed(kind) = Segment(rest, i, w)
    BY <1>1, <2>2, <2>3
  <2>5. behind \in Seq(LayoutKinds(texts)) /\ PrintedAll(behind) = SubSeq(rest, i + w, Len(rest))
    BY <2>2 DEF PrintsBack
  <2>6. new \in Seq(LayoutKinds(texts))
    BY <1>4, <2>4, <2>5
  <2>7. PrintedAll(new) = Segment(rest, i, w) \o SubSeq(rest, i + w, Len(rest))
    BY <1>4, <2>4, <2>5, ConsPrinted
  <2>8. PICK k \in Nat : k = i + w - 1
    BY <1>1
  <2>9. /\ k + 1 = i + w /\ i \in 1 .. Len(rest) + 1 /\ k \in i - 1 .. Len(rest)
        /\ Len(rest) \in k .. Len(rest)
    BY <1>1, <2>8
  <2>10. SubSeq(rest, i, k) \o SubSeq(rest, k + 1, Len(rest)) = SubSeq(rest, i, Len(rest))
    BY <2>9, ConcatAdjacentSubSeq
  <2> QED
    BY <2>6, <2>7, <2>8, <2>9, <2>10 DEF Segment
<1> QED
  BY <1>2, <1>4, <1>5, <1>6 DEF PrintsBack

LEMMA ClausesPrintBack ==
    ASSUME NEW texts, NEW rest \in Seq(PlainFragments(texts))
    PROVE  PrintsBack(texts, rest, OperandKinds(rest), 1)
<1>1. PICK N \in Nat : N = Len(rest)
  OBVIOUS
<1>2. PICK F : F = KindsFrom(rest)
  OBVIOUS
<1>3. \A i \in 1 .. N + 4 : F[i] = PieceOf(rest, i, F[i + 4], F[i + 3], F[i + 1])
  BY <1>1, <1>2, KindsFromStepwise
<1> DEFINE Ok(i) == PrintsBack(texts, rest, F[i], i)
           S == {d \in Nat : \A i \in 1 .. N + 4 : i > N - d => Ok(i)}
<1>4. 0 \in S
  <2> SUFFICES ASSUME NEW i \in 1 .. N + 4, i > N PROVE Ok(i)
    OBVIOUS
  <2>1. F[i] = <<>>
    BY <1>1, <1>3 DEF PieceOf
  <2>2. SubSeq(rest, i, N) = <<>>
    BY SubSeqEmpty
  <2>3. <<>> \in Seq(LayoutKinds(texts)) /\ <<>> \in Seq(LayoutKinds(texts) \cup {Stray})
    OBVIOUS
  <2> QED
    BY <1>1, <2>1, <2>2, <2>3, NothingPrints DEF PrintsBack
<1>5. ASSUME NEW d \in Nat, d \in S PROVE d + 1 \in S
  <2> SUFFICES ASSUME NEW i \in 1 .. N + 4, i > N - (d + 1) PROVE Ok(i)
    OBVIOUS
  <2>1. CASE i > N - d
    BY <1>5, <2>1
  <2>2. CASE i = N - d
    <3>1. i \in 1 .. Len(rest)
      BY <1>1, <2>2
    <3>2. PICK w, kind : ReadAt(rest, i, kind, w) /\ ReadsBack(texts, rest, i, w, kind)
      BY <3>1, PiecesReadBack
    <3>3. F[i] = PieceOf(rest, i, F[i + 4], F[i + 3], F[i + 1])
      BY <1>3
    <3>4. F[i] = <<kind>> \o (IF w = 4 THEN F[i + 4] ELSE IF w = 3 THEN F[i + 3] ELSE F[i + 1])
      BY <3>2, <3>3, Zenon DEF ReadAt
    <3>5. w \in {1, 3, 4} /\ i + w <= Len(rest) + 1
      BY <3>2 DEF ReadsBack
    <3>6. F[i] = <<kind>> \o F[i + w]
      BY <3>4, <3>5
    <3>7. i + w \in 1 .. N + 4 /\ i + w > N - d
      BY <1>1, <2>2, <3>5
    <3>8. PrintsBack(texts, rest, F[i + w], i + w)
      BY <1>5, <3>7
    <3>9. PrintsBack(texts, rest, <<kind>> \o F[i + w], i)
      BY <3>1, <3>2, <3>8, PieceAndRestPrintBack
    <3> QED
      BY <3>6, <3>9
  <2> QED
    BY <2>1, <2>2
<1>6. Ok(1)
  <2> HIDE DEF S
  <2>1. N \in S
    BY <1>4, <1>5, NumbersBySuccession
  <2>2. 1 \in 1 .. N + 4 /\ 1 > N - N
    OBVIOUS
  <2> QED
    BY <2>1, <2>2 DEF S
<1> QED
  BY <1>2, <1>6 DEF OperandKinds

(* What has none of the kinds is kept whole. *)
LEMMA AllIsKept ==
    ASSUME NEW S, NEW s \in Seq(S), NEW ks, \A x \in S : x.k \notin ks
    PROVE  Without(s, ks) = s
<1>1. PICK N \in Nat : N = Len(s)
  OBVIOUS
<1>2. PICK K : K = Keeping(s, ks)
  OBVIOUS
<1>3. /\ K[0] = <<>>
      /\ \A n \in 1 .. N : K[n] = IF s[n].k \in ks THEN K[n - 1] ELSE Append(K[n - 1], s[n])
  BY <1>1, <1>2, KeepingStepwise
<1> DEFINE T == {n \in Nat : n <= N => K[n] = SubSeq(s, 1, n)}
<1>4. 0 \in T
  <2>1. SubSeq(s, 1, 0) = <<>>
    BY SubSeqEmpty
  <2> QED
    BY <1>3, <2>1
<1>5. ASSUME NEW n \in Nat, n \in T PROVE n + 1 \in T
  <2> SUFFICES ASSUME n + 1 <= N PROVE K[n + 1] = SubSeq(s, 1, n + 1)
    OBVIOUS
  <2>1. n + 1 \in 1 .. N /\ (n + 1) - 1 = n /\ n <= N
    OBVIOUS
  <2>2. s[n + 1] \in S
    BY <1>1, <2>1
  <2>3. K[n + 1] = Append(K[n], s[n + 1])
    BY <1>3, <2>1, <2>2
  <2>4. K[n] = SubSeq(s, 1, n)
    BY <1>5, <2>1
  <2>5. SubSeq(s, 1, n) \in Seq(S)
    <3>1. \A i \in 1 .. n : s[i] \in S
      BY <1>1, <2>1
    <3> QED
      BY <3>1, SubSeqProperties
  <2>6. SubSeq(s, 1, n + 1) = SubSeq(s, 1, n) \o <<s[n + 1]>>
    <3>1. 1 \in 1 .. Len(s) /\ n + 1 \in 1 .. Len(s)
      BY <1>1, <2>1
    <3>2. SubSeq(s, 1, n + 1) = SubSeq(s, 1, (n + 1) - 1) \o <<s[n + 1]>>
      BY <3>1, SubSeqRecursiveSecond
    <3> QED
      BY <2>1, <3>2
  <2>7. \A t \in Seq(S) : Append(t, s[n + 1]) = t \o <<s[n + 1]>>
    BY <2>2, AppendIsConcat
  <2> QED
    BY <2>3, <2>4, <2>5, <2>6, <2>7
<1>6. K[N] = SubSeq(s, 1, N)
  <2> HIDE DEF T
  <2>1. N \in T
    BY <1>4, <1>5, NumbersBySuccession
  <2> QED
    BY <2>1 DEF T
<1>7. SubSeq(s, 1, Len(s)) = s
  BY SubSeqFull
<1> QED
  BY <1>1, <1>2, <1>6, <1>7 DEF Without

LEMMA PlainFragmentsMarkNothing ==
    ASSUME NEW texts, NEW f \in PlainFragments(texts)
    PROVE  f.k \notin {"spc", "sep", "unmodelled"}
<1>1. \A k \in NAMES : Mark(k).k \notin {"spc", "sep", "unmodelled"}
  BY FragmentParts DEF NAMES
<1>2. \A b, s : Imm(b, s).k \notin {"spc", "sep", "unmodelled"}
  BY FragmentParts
<1>3. \A t : Str(<<t>>).k \notin {"spc", "sep", "unmodelled"}
  BY FragmentParts
<1>4. CASE \E k \in NAMES : f = Mark(k)
  BY <1>1, <1>4
<1>5. CASE \E b \in Nat, s \in BOOLEAN : f = Imm(b, s)
  BY <1>2, <1>5
<1>6. CASE \E t \in texts : f = Str(<<t>>)
  BY <1>3, <1>6
<1> QED
  BY <1>4, <1>5, <1>6, FragmentCases

(* A clause with these fragments behind its mnemonic: what is read of it,  *)
(* and when it is taken.                                                   *)
LEMMA ClausesRead ==
    ASSUME NEW texts, NEW rest \in Seq(PlainFragments(texts))
    PROVE  /\ KindsOf(Clause(rest)) = OperandKinds(rest)
           /\ Taken(Clause(rest)) <=>
                 \A p \in DOMAIN OperandKinds(rest) : OperandKinds(rest)[p].k # "stray"
<1>1. PICK N \in Nat : N = Len(rest)
  OBVIOUS
<1>2. PICK c : c = Clause(rest)
  OBVIOUS
<1>3. PICK m : m = Str(<<"m">>)
  OBVIOUS
<1>4. PICK space : space = Mark("spc")
  OBVIOUS
<1>5. m.k = "str" /\ space.k = "spc"
  BY <1>3, <1>4, FragmentParts
<1>6. PICK D : D = PlainFragments(texts) \cup {m, space}
  OBVIOUS
<1>7. /\ c \in Seq(D) /\ Len(c) = N + 2 /\ c[1] = m /\ c[2] = space
      /\ \A n \in 1 .. N : c[n + 2] = rest[n]
  <2>1. c = <<m, space>> \o rest
    BY <1>2, <1>3, <1>4 DEF Clause
  <2>2. m \in D /\ space \in D /\ rest \in Seq(D)
    BY <1>6
  <2>3. \A a, b \in D : <<a, b>> \in Seq(D)
    OBVIOUS
  <2>4. PICK two \in Seq(D) : two = <<m, space>>
    BY <2>2, <2>3, Zenon
  <2>5. Len(two) = 2 /\ two[1] = m /\ two[2] = space
    BY <2>4
  <2>6. \A a, b \in Seq(D) : a \o b \in Seq(D) /\ Len(a \o b) = Len(a) + Len(b)
    BY ConcatProperties
  <2>7. two \o rest \in Seq(D) /\ Len(two \o rest) = 2 + N
    BY <1>1, <2>2, <2>5, <2>6
  <2>8. \A i \in 1 .. 2 + N : (two \o rest)[i] = IF i <= 2 THEN two[i] ELSE rest[i - 2]
    BY <1>1, <2>2, <2>5, <2>7
  <2>9. /\ 1 \in 1 .. 2 + N /\ 2 \in 1 .. 2 + N /\ 2 + N = N + 2
        /\ \A n \in 1 .. N : n + 2 \in 1 .. 2 + N /\ ~(n + 2 <= 2) /\ (n + 2) - 2 = n
    OBVIOUS
  <2> QED
    BY <2>1, <2>4, <2>5, <2>7, <2>8, <2>9
<1>8. DOMAIN c = 1 .. N + 2
  BY <1>7
<1>9. \A n \in 1 .. N : rest[n] \in PlainFragments(texts)
  BY <1>1
<1>10. Boundary(c) = 2
  <2>1. 2 \in DOMAIN c /\ c[2].k = "spc" /\ \A j \in 1 .. 2 - 1 : c[j].k # "spc"
    <3>1. \A j \in 1 .. 2 - 1 : j = 1
      OBVIOUS
    <3> QED
      BY <1>5, <1>7, <1>8, <3>1
  <2>2. ASSUME NEW i \in DOMAIN c, c[i].k = "spc", \A j \in 1 .. i - 1 : c[j].k # "spc" PROVE i = 2
    <3>1. i # 1
      BY <1>5, <1>7, <2>2
    <3>2. ~(i > 2)
      <4>1. i > 2 => 2 \in 1 .. i - 1
        BY <1>8
      <4> QED
        BY <1>5, <1>7, <2>2, <4>1
    <3> QED
      BY <1>8, <3>1, <3>2
  <2>3. Boundary(c) = CHOOSE i \in DOMAIN c : c[i].k = "spc" /\ \A j \in 1 .. i - 1 : c[j].k # "spc"
    BY <2>1 DEF Boundary
  <2> QED
    BY <2>1, <2>2, <2>3
<1>11. SubSeq(c, 3, N + 2) = rest
  <2>1. PICK u : u = SubSeq(c, 3, N + 2)
    OBVIOUS
  <2>2. \A i \in 3 .. N + 2 : c[i] \in PlainFragments(texts)
    <3>1. \A i \in 3 .. N + 2 : i - 2 \in 1 .. N /\ (i - 2) + 2 = i
      OBVIOUS
    <3> QED
      BY <1>7, <1>9, <3>1
  <2>3. /\ u \in Seq(PlainFragments(texts))
        /\ Len(u) = IF 3 <= N + 2 THEN N + 2 - 3 + 1 ELSE 0
        /\ \A i \in 1 .. N + 2 - 3 + 1 : u[i] = c[3 + i - 1]
    BY <2>1, <2>2, SubSeqProperties
  <2>4. Len(u) = N
    BY <2>3
  <2>5. \A i \in 1 .. N : i \in 1 .. N + 2 - 3 + 1 /\ 3 + i - 1 = i + 2
    OBVIOUS
  <2>6. \A i \in 1 .. N : u[i] = rest[i]
    BY <1>7, <2>3, <2>5
  <2>7. u = rest
    BY <1>1, <2>3, <2>4, <2>6, SeqEqual
  <2> QED
    BY <2>1, <2>7
<1>12. KindsOf(c) = OperandKinds(rest)
  <2>1. Without(rest, {"sep", "spc"}) = rest
    <3>1. \A f \in PlainFragments(texts) : f.k \notin {"sep", "spc"}
      BY PlainFragmentsMarkNothing
    <3> QED
      BY <3>1, AllIsKept
  <2>2. SubSeq(c, Boundary(c) + 1, Len(c)) = rest
    BY <1>7, <1>10, <1>11
  <2> QED
    BY <2>1, <2>2 DEF KindsOf
<1>13. /\ \A i \in DOMAIN c : c[i].k # "unmodelled"
       /\ Boundary(c) > 1 /\ \A i \in 1 .. Boundary(c) - 1 : c[i].k = "str"
  <2>1. ASSUME NEW i \in DOMAIN c PROVE c[i].k # "unmodelled"
    <3>1. i = 1 \/ i = 2 \/ (i - 2 \in 1 .. N /\ (i - 2) + 2 = i)
      BY <1>8
    <3>2. i - 2 \in 1 .. N /\ (i - 2) + 2 = i => c[i] \in PlainFragments(texts)
      BY <1>7, <1>9
    <3> QED
      BY <1>5, <1>7, <3>1, <3>2, PlainFragmentsMarkNothing
  <2>2. 2 > 1 /\ \A i \in 1 .. 2 - 1 : i = 1
    OBVIOUS
  <2> QED
    BY <1>5, <1>7, <1>10, <2>1, <2>2
<1> QED
  BY <1>2, <1>12, <1>13 DEF Taken

(* Every layout that can be told is: the clause its kinds print is taken,  *)
(* and read as these kinds.                                                *)
THEOREM LayoutsReadBack ==
    ASSUME NEW texts, NEW kinds \in Seq(LayoutKinds(texts)), Plain(kinds)
    PROVE  Taken(Clause(PrintedAll(kinds))) /\ KindsOf(Clause(PrintedAll(kinds))) = kinds
<1>1. PICK more : more = texts \cup {"(", ")", "sp"}
  OBVIOUS
<1>2. PICK rest : rest = PrintedAll(kinds)
  OBVIOUS
<1>3. rest \in Seq(PlainFragments(more))
  <2>1. PICK P : P = Printing(kinds)
    OBVIOUS
  <2>2. PICK n \in Nat : n = Len(kinds)
    OBVIOUS
  <2>3. Grows(kinds, P, n, PlainFragments(more))
    BY <1>1, <2>1, <2>2, PrintingGrows
  <2>4. P[n] \in Seq(PlainFragments(more))
    BY <2>3 DEF Grows
  <2> QED
    BY <1>2, <2>1, <2>2, <2>4 DEF PrintedAll
<1>4. OperandKinds(rest) = kinds
  BY <1>2, LayoutsAreRead
<1>5. \A p \in DOMAIN kinds : kinds[p].k # "stray"
  <2>1. \A kind \in LayoutKinds(texts) : kind.k # "stray"
    <3> SUFFICES ASSUME NEW kind \in LayoutKinds(texts) PROVE kind.k # "stray"
      OBVIOUS
    <3> QED
      BY KindsPrinted
  <2>2. \A p \in DOMAIN kinds : kinds[p] \in LayoutKinds(texts)
    OBVIOUS
  <2> QED
    BY <2>1, <2>2
<1> QED
  BY <1>2, <1>3, <1>4, <1>5, ClausesRead

(* No clause is taken for another one: with these fragments behind its     *)
(* mnemonic, what it is read as prints it.                                 *)
THEOREM ClausesAreWhatTheyPrint ==
    ASSUME NEW texts, NEW rest \in Seq(PlainFragments(texts)), Taken(Clause(rest))
    PROVE  PrintedAll(KindsOf(Clause(rest))) = rest
<1>1. KindsOf(Clause(rest)) = OperandKinds(rest)
  BY ClausesRead
<1>2. \A p \in DOMAIN OperandKinds(rest) : OperandKinds(rest)[p].k # "stray"
  BY ClausesRead
<1>3. PrintedAll(OperandKinds(rest)) = SubSeq(rest, 1, Len(rest))
  BY <1>2, ClausesPrintBack DEF PrintsBack
<1> QED
  BY <1>1, <1>3, SubSeqFull

LEMMA SomeAreLayouts ==
    /\ SomeKinds \subseteq LayoutKinds({"rne"})
    /\ SomeFragments \subseteq PlainFragments({"(", ")", "sp"})
<1>1. "rne" \notin Punctuation
  BY Zenon DEF Punctuation
<1>2. /\ \A k \in NAMES : Kind(k) \in LayoutKinds({"rne"})
      /\ \A t \in {"rne"} \ Punctuation : LitKind(t) \in LayoutKinds({"rne"})
      /\ \A b \in Nat, s \in BOOLEAN : ImmKind(b, s) \in LayoutKinds({"rne"})
      /\ \A b \in Nat, s \in BOOLEAN, base \in BASES : MemKind(b, s, base) \in LayoutKinds({"rne"})
      /\ \A base \in BASES : BareKind(base) \in LayoutKinds({"rne"})
  BY DEF LayoutKinds, SingleKinds, OffsetKinds, BareKinds
<1>3. 12 \in Nat /\ 5 \in Nat /\ 6 \in Nat /\ TRUE \in BOOLEAN /\ FALSE \in BOOLEAN
  OBVIOUS
<1>4. /\ "reg" \in NAMES /\ "vreg" \in NAMES /\ "csr" \in NAMES
      /\ "reg" \in BASES /\ "creg" \in BASES /\ "sp" \in BASES /\ "rne" \in {"rne"} \ Punctuation
  BY <1>1, Zenon DEF NAMES, BASES
<1>5. SomeKinds \subseteq LayoutKinds({"rne"})
  <2>1. /\ Kind("reg") \in LayoutKinds({"rne"}) /\ Kind("vreg") \in LayoutKinds({"rne"})
        /\ Kind("csr") \in LayoutKinds({"rne"}) /\ LitKind("rne") \in LayoutKinds({"rne"})
        /\ BareKind("reg") \in LayoutKinds({"rne"}) /\ BareKind("creg") \in LayoutKinds({"rne"})
    BY <1>2, <1>4, Zenon
  <2>2. ImmKind(12, TRUE) \in LayoutKinds({"rne"})
    BY <1>2, <1>3, Zenon
  <2>3. MemKind(12, TRUE, "reg") \in LayoutKinds({"rne"})
    BY <1>2, <1>3, <1>4, Zenon
  <2>4. MemKind(5, FALSE, "creg") \in LayoutKinds({"rne"})
    BY <1>2, <1>3, <1>4, Zenon
  <2>5. MemKind(6, FALSE, "sp") \in LayoutKinds({"rne"})
    BY <1>2, <1>3, <1>4, Zenon
  <2> QED
    BY <2>1, <2>2, <2>3, <2>4, <2>5, Zenon DEF SomeKinds
<1>6. SomeFragments \subseteq PlainFragments({"(", ")", "sp"})
  <2>1. /\ \A k \in NAMES : Mark(k) \in PlainFragments({"(", ")", "sp"})
        /\ \A b \in Nat, s \in BOOLEAN : Imm(b, s) \in PlainFragments({"(", ")", "sp"})
        /\ \A t \in {"(", ")", "sp"} : Str(<<t>>) \in PlainFragments({"(", ")", "sp"})
    BY DEF PlainFragments
  <2>2. Mark("reg") \in PlainFragments({"(", ")", "sp"})
    BY <1>4, <2>1, Zenon
  <2>3. Imm(12, TRUE) \in PlainFragments({"(", ")", "sp"})
    BY <1>3, <2>1, Zenon
  <2>4. /\ Opening \in PlainFragments({"(", ")", "sp"}) /\ Closing \in PlainFragments({"(", ")", "sp"})
        /\ StackPointer \in PlainFragments({"(", ")", "sp"})
    BY <2>1, Zenon DEF Opening, Closing, StackPointer
  <2> QED
    BY <2>2, <2>3, <2>4, Zenon DEF SomeFragments
<1> QED
  BY <1>5, <1>6

LEMMA AllRecovered == Recovered
<1>1. \A S, n : \A s \in UpTo(S, n) : \E k \in 0 .. n : s \in [1 .. k -> S]
  BY DEF UpTo
<1>2. ASSUME NEW kinds \in UpTo(SomeKinds, 3), Plain(kinds)
      PROVE  Taken(Clause(PrintedAll(kinds))) /\ KindsOf(Clause(PrintedAll(kinds))) = kinds
  <2>1. kinds \in Seq(LayoutKinds({"rne"}))
    <3>1. PICK k \in 0 .. 3 : kinds \in [1 .. k -> SomeKinds]
      BY <1>1
    <3> QED
      BY <3>1, SomeAreLayouts
  <2> QED
    BY <1>2, <2>1, LayoutsReadBack
<1>3. ASSUME NEW rest \in UpTo(SomeFragments, 5), Taken(Clause(rest))
      PROVE  PrintedAll(KindsOf(Clause(rest))) = rest
  <2>1. rest \in Seq(PlainFragments({"(", ")", "sp"}))
    <3>1. PICK k \in 0 .. 5 : rest \in [1 .. k -> SomeFragments]
      BY <1>1
    <3> QED
      BY <3>1, SomeAreLayouts
  <2> QED
    BY <1>3, <2>1, ClausesAreWhatTheyPrint
<1> QED
  BY <1>2, <1>3 DEF Recovered

(* "A plausible but wrong instruction instead of a visible skip" is never  *)
(* what a clause is read as.                                               *)
THEOREM LayoutsRecovered == Spec => []LayoutIsRecovered
<1>1. LayoutIsRecovered
  BY AllRecovered DEF LayoutIsRecovered
<1>2. [Next]_vars => LayoutIsRecovered'
  BY AllRecovered DEF LayoutIsRecovered
<1> QED
  BY <1>1, <1>2, PTL DEF Spec

=============================================================================
