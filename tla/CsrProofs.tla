------------------------------- MODULE CsrProofs -------------------------------
(***************************************************************************)
(* Theorems about the CSR sweep, for any model, bank of counters, filters, *)
(* simulators and bounds: a row that counts as passing was earned, at its  *)
(* XLEN; interruptions cost at most one finished CSR each; a cached result *)
(* is replaced only when the sweep was asked not to resume; and a row      *)
(* passes exactly if the hart treats the register as it should.            *)
(***************************************************************************)
EXTENDS CsrProps, TLAPS, FiniteSetTheorems

InRange == /\ pc = "row" => pos \in 1 .. Size(fromModel) + 1
           /\ pc = "save" => pos \in 1 .. Size(fromModel)

(* An output that is reported, stored or about to be is of a child that    *)
(* ended, or there was a fault and it has no verdict of six.               *)
Earned(name, width, output) ==
    \/ <<name, width, output>> \in ended
    \/ faults > 0 /\ output \in {"text", "partial"}
CacheIsEarned == \A n \in Names, w \in Xlens :
    cache[<<n, w>>] # "absent" => Earned(n, w, cache[<<n, w>>])
OutIsEarned == pc = "save" => Earned(Current.name, xlen, out)

AskedToRun == pc = "save" => ~resume \/ cache[Key] = "absent"

(* What was finished and is not in the cache, and how much of it there is. *)
Lost == {k \in Finished : cache[k] \in {"absent", "text"}}
LossIsCounted ==
    /\ IsFiniteSet(Lost)
    /\ IF pc = "save" THEN Cardinality(Lost \ {Key}) + (IF out = "text" THEN 1 ELSE 0) <= faults
       ELSE Cardinality(Lost) <= faults

IInv ==
    /\ TypeOK
    /\ InRange
    /\ RowsAreEarned
    /\ CacheIsEarned
    /\ OutIsEarned
    /\ AskedToRun
    /\ LossIsCounted

(***************************************************************************)
(* The table and the positions in it.                                      *)
(***************************************************************************)

LEMMA LeastNumber ==
    ASSUME NEW S \in SUBSET Nat, S # {}
    PROVE  \E m \in S : \A n \in S : m <= n
<1>1. PICK m \in S : \A n \in S : ~(<<n, m>> \in OpToRel(<, Nat))
  BY WFMin, NatLessThanWellFounded, Zenon
<1>2. ASSUME NEW n \in S PROVE ~(n < m)
  <2> SUFFICES ASSUME n < m PROVE <<n, m>> \in OpToRel(<, Nat)
    BY <1>1
  <2>1. <<n, m>> \in Nat \X Nat
    OBVIOUS
  <2>2. <<n, m>>[1] < <<n, m>>[2]
    OBVIOUS
  <2> QED
    BY <2>1, <2>2, Zenon DEF OpToRel
<1> QED
  BY <1>2

LEMMA SizeIsNat == ASSUME NEW f \in BOOLEAN PROVE Size(f) \in Nat
<1>1. Len(CSRS) = 37
  BY DEF CSRS
<1>2. Len(ModelCsrs) \in Nat
  BY ModelCsrsAssumption
<1> QED
  BY <1>1, <1>2 DEF Size

LEMMA RowNames ==
    ASSUME NEW w \in Xlens, NEW f \in BOOLEAN, NEW i \in 1 .. Size(f)
    PROVE  Tables[w][f][i].name \in Names
<1>1. Len(CSRS) = 37 /\ DOMAIN CSRS = 1 .. 37
  BY DEF CSRS
<1>2. Tables[w][f] = Csrs(w, f)
  BY DEF Tables
<1>3. Csrs(w, f)[i].name = RowAt(i, w).name
  BY DEF Csrs, Row
<1>4. CASE i <= 37
  <2>1. i \in DOMAIN CSRS /\ RowAt(i, w) = CSRS[i]
    BY <1>1, <1>4, SizeIsNat DEF RowAt
  <2>2. CSRS[i].name \in Curated
    BY <2>1 DEF Curated
  <2> QED
    BY <1>2, <1>3, <2>1, <2>2 DEF Names
<1>5. CASE ~(i <= 37)
  <2>1. i - 37 \in DOMAIN ModelCsrs
    BY <1>1, <1>5, SizeIsNat, ModelCsrsAssumption DEF Size
  <2>2. RowAt(i, w).name = ModelCsrs[i - 37][2]
    BY <1>1, <1>5 DEF RowAt, FromModel, Row
  <2> QED
    BY <1>2, <1>3, <2>1, <2>2 DEF Names, ModelNames
<1> QED
  BY <1>4, <1>5

LEMMA FollowingIsAhead ==
    ASSUME NEW f \in BOOLEAN, NEW filter \in Filters, NEW k \in 0 .. Size(f)
    PROVE  /\ Following[f][filter][k] \in k + 1 .. Size(f) + 1
           /\ Following[f][filter][k] \in Visits[f][filter] \cup {Size(f) + 1}
<1> DEFINE rest == {j \in Visits[f][filter] \cup {Size(f) + 1} : j > k}
<1>1. Size(f) \in Nat
  BY SizeIsNat
<1>2. Visits[f][filter] \subseteq 1 .. Size(f)
  BY DEF Visits
<1>3. /\ rest \in SUBSET Nat /\ rest # {} /\ rest \subseteq k + 1 .. Size(f) + 1
      /\ rest \subseteq Visits[f][filter] \cup {Size(f) + 1}
  BY <1>1, <1>2
<1>4. Following[f][filter][k] = CHOOSE j \in rest : \A i \in rest : j <= i
  BY DEF Following
<1>5. \E j \in rest : \A i \in rest : j <= i
  <2> HIDE DEF rest
  <2> QED
    BY <1>3, LeastNumber
<1> HIDE DEF rest
<1>6. Following[f][filter][k] \in rest
  BY <1>4, <1>5
<1> QED
  BY <1>3, <1>6

LEMMA KeyIsKey ==
    ASSUME TypeOK, pos \in 1 .. Size(fromModel)
    PROVE  Current.name \in Names /\ xlen \in Xlens /\ Key = <<Current.name, xlen>> /\ Key \in Keys
BY RowNames DEF TypeOK, Current, Key, Keys

LEMMA AnswerIsOutput ==
    ASSUME NEW row, NEW w, NEW h
    PROVE  /\ Answer(row, w, h) \in {"full", "sail", "none", "partial"}
           /\ Answer(row, w, h) = "partial" => row.name \in Legalised
BY DEF Answer

(***************************************************************************)
(* The invariant holds at first and is kept by every step.                 *)
(***************************************************************************)

LEMMA InitIInv == Init => IInv
<1> SUFFICES ASSUME Init PROVE IInv
  OBVIOUS
<1> USE DEF Init
<1>1. DOMAIN report = {}
  OBVIOUS
<1>2. Size(fromModel) \in Nat
  BY SizeIsNat
<1>3. TypeOK
  <2>1. pc \in {"idle", "row", "save"} /\ out \in Outputs /\ xlen \in Xlens /\ only \in Filters
    BY RunsAssumption DEF Outputs, Xlens
  <2>2. cache \in [Keys -> Outputs \cup {"absent"}]
    OBVIOUS
  <2>3. runs \in 0 .. MaxRuns /\ faults \in 0 .. MaxFaults /\ pos \in 0 .. Size(fromModel) + 1
    BY <1>2, RunsAssumption
  <2> QED
    BY <1>1, <2>1, <2>2, <2>3 DEF TypeOK
<1>4. CacheIsEarned
  BY DEF CacheIsEarned, Keys
<1>5. LossIsCounted
  <2>1. Lost = {}
    BY DEF Lost, Finished
  <2>2. IsFiniteSet({}) /\ Cardinality({}) = 0
    BY FS_EmptySet
  <2>3. faults \in Nat
    BY RunsAssumption
  <2> QED
    BY <2>1, <2>2, <2>3 DEF LossIsCounted
<1> QED
  BY <1>1, <1>3, <1>4, <1>5 DEF IInv, InRange, RowsAreEarned, OutIsEarned, AskedToRun

(* What only grows keeps what was earned.                                  *)
LEMMA EarnedStays ==
    ASSUME NEW n, NEW w, NEW o, Earned(n, w, o), ended \subseteq ended',
           faults \in Nat, faults' \in Nat, faults <= faults'
    PROVE  Earned(n, w, o)'
BY DEF Earned

(* Between two rows nothing is lost that was there.                        *)
LEMMA LossStays ==
    ASSUME LossIsCounted, pc # "save", pc' # "save", UNCHANGED <<cache, ended, faults>>
    PROVE  LossIsCounted'
BY DEF LossIsCounted, Lost, Finished

LEMMA RebuildIInv == ASSUME IInv, Rebuild PROVE IInv'
<1> USE DEF IInv, Rebuild, arguments
<1>1. TypeOK'
  BY RunsAssumption DEF TypeOK, Keys, Names, Size
<1>2. InRange' /\ RowsAreEarned' /\ CacheIsEarned' /\ OutIsEarned' /\ AskedToRun'
  BY DEF InRange, RowsAreEarned, CacheIsEarned, OutIsEarned, AskedToRun, Earned
<1>3. LossIsCounted'
  BY LossStays
<1> QED
  BY <1>1, <1>2, <1>3

LEMMA BeginIInv ==
    ASSUME IInv, NEW w \in Xlens, NEW f \in BOOLEAN, NEW filter \in Filters,
           NEW r \in BOOLEAN, Begin(w, f, filter, r)
    PROVE  IInv'
<1> USE DEF IInv, Begin, arguments
<1>1. pos' \in 1 .. Size(fromModel') + 1 /\ Size(f) \in Nat
  BY FollowingIsAhead, SizeIsNat
<1>2. DOMAIN report' = {}
  OBVIOUS
<1>3. TypeOK'
  <2>1. pos' \in 0 .. Size(fromModel') + 1 /\ runs' \in 0 .. MaxRuns
    BY <1>1, RunsAssumption DEF TypeOK
  <2> QED
    BY <1>2, <2>1 DEF TypeOK
<1>4. InRange' /\ RowsAreEarned' /\ OutIsEarned' /\ AskedToRun'
  BY <1>1, <1>2 DEF InRange, RowsAreEarned, OutIsEarned, AskedToRun
<1>6. CacheIsEarned'
  BY DEF CacheIsEarned, Earned
<1>5. LossIsCounted'
  BY LossStays
<1> QED
  BY <1>3, <1>4, <1>5, <1>6

(* The row reached next, and the report with this row in it.               *)
LEMMA Onwards ==
    ASSUME TypeOK, pos \in 1 .. Size(fromModel), Onward
    PROVE  pos' \in 1 .. Size(fromModel) + 1
<1>1. Size(fromModel) \in Nat /\ pos \in 0 .. Size(fromModel)
  BY SizeIsNat DEF TypeOK
<1>2. pos' \in pos + 1 .. Size(fromModel) + 1
  BY <1>1, FollowingIsAhead DEF Onward, TypeOK
<1> QED
  BY <1>1, <1>2

LEMMA Counted ==
    ASSUME NEW o, Count(o)
    PROVE  /\ DOMAIN report' = DOMAIN report \cup {Current.name}
           /\ report'[Current.name] = o
           /\ \A n \in DOMAIN report \ {Current.name} : report'[n] = report[n]
BY DEF Count

LEMMA ReadCacheIInv == ASSUME IInv, ReadCache PROVE IInv'
<1> USE DEF IInv, ReadCache, arguments
<1>1. pos \in 1 .. Size(fromModel) /\ Size(fromModel) \in Nat
  BY SizeIsNat DEF InRange, AtRow, TypeOK
<1>2. Current.name \in Names /\ xlen \in Xlens /\ Key = <<Current.name, xlen>> /\ Key \in Keys
  BY <1>1, KeyIsKey
<1>3. pos' \in 1 .. Size(fromModel) + 1
  BY <1>1, Onwards
<1>4. cache[Key] \in Outputs /\ Earned(Current.name, xlen, cache[Key])
  BY <1>2 DEF TypeOK, CacheIsEarned
<1>5. TypeOK'
  <2>1. pos' \in 0 .. Size(fromModel') + 1
    BY <1>1, <1>3
  <2>2. \A n \in DOMAIN report' : report'[n] \in Outputs
    BY <1>4, Counted DEF TypeOK
  <2> QED
    BY <2>1, <2>2 DEF TypeOK
<1>6. RowsAreEarned'
  <2> SUFFICES ASSUME NEW n \in DOMAIN report' PROVE Earned(n, xlen, report'[n])
    BY DEF RowsAreEarned, Earned
  <2>1. CASE n = Current.name
    BY <1>4, <2>1, Counted
  <2>2. CASE n # Current.name
    BY <2>2, Counted DEF RowsAreEarned, Earned
  <2> QED
    BY <2>1, <2>2
<1>7. InRange' /\ OutIsEarned' /\ AskedToRun'
  BY <1>3 DEF InRange, OutIsEarned, AskedToRun, AtRow
<1>9. CacheIsEarned'
  BY DEF CacheIsEarned, Earned
<1>8. LossIsCounted'
  BY LossStays DEF AtRow
<1> QED
  BY <1>5, <1>6, <1>7, <1>8, <1>9

(* A set that is within S but for k.                                       *)
LEMMA ButForOne ==
    ASSUME NEW S, IsFiniteSet(S), NEW T, NEW k, T \ {k} \subseteq S
    PROVE  /\ IsFiniteSet(T)
           /\ Cardinality(T) \in Nat /\ Cardinality(T \ {k}) \in Nat /\ Cardinality(S) \in Nat
           /\ Cardinality(T \ {k}) <= Cardinality(S)
           /\ Cardinality(T) <= Cardinality(T \ {k}) + 1
<1>1. IsFiniteSet(T \ {k}) /\ Cardinality(T \ {k}) <= Cardinality(S)
  BY FS_Subset
<1>2. Cardinality(T \ {k}) \in Nat /\ Cardinality(S) \in Nat
  BY <1>1, FS_CardinalityType
<1>3. /\ IsFiniteSet((T \ {k}) \cup {k})
      /\ Cardinality((T \ {k}) \cup {k}) = Cardinality(T \ {k}) + 1
  BY <1>1, FS_AddElement
<1>4. T \subseteq (T \ {k}) \cup {k}
  OBVIOUS
<1>5. IsFiniteSet(T) /\ Cardinality(T) <= Cardinality((T \ {k}) \cup {k})
  BY <1>3, <1>4, FS_Subset
<1>6. Cardinality(T) \in Nat
  BY <1>5, FS_CardinalityType
<1> QED
  BY <1>1, <1>2, <1>3, <1>5, <1>6

LEMMA RunChildIInv == ASSUME IInv, RunChild PROVE IInv'
<1> USE DEF IInv, RunChild, MustRun, AtRow, arguments
<1>1. pos \in 1 .. Size(fromModel) /\ Size(fromModel) \in Nat
  BY SizeIsNat DEF InRange, TypeOK
<1>2. Current.name \in Names /\ xlen \in Xlens /\ Key = <<Current.name, xlen>> /\ Key \in Keys
  BY <1>1, KeyIsKey
<1>3. out' \in {"full", "sail", "none", "partial"}
  BY AnswerIsOutput
<1>4. Current' = Current /\ Key' = Key
  BY DEF Current, Key
<1>5. TypeOK'
  <2>1. out' \in Outputs
    BY <1>3 DEF Outputs
  <2>2. ASSUME NEW e \in ended' PROVE <<e[1], e[2]>> \in Keys /\ e[3] \in Outputs
    <3>1. CASE e \in ended
      BY <3>1 DEF TypeOK
    <3>2. CASE e = <<Current.name, xlen, out'>>
      <4>1. <<e[1], e[2]>> = Key /\ e[3] = out'
        BY <1>2, <3>2
      <4> QED
        BY <1>2, <2>1, <4>1
    <3> QED
      BY <3>1, <3>2
  <2> QED
    BY <2>1, <2>2 DEF TypeOK
<1>6. InRange' /\ AskedToRun'
  BY <1>1, <1>4 DEF InRange, AskedToRun
<1>7. RowsAreEarned' /\ CacheIsEarned'
  BY DEF RowsAreEarned, CacheIsEarned, Earned
<1>8. OutIsEarned'
  BY <1>4 DEF OutIsEarned, Earned
<1>9. LossIsCounted'
  <2>1. Lost' \ {Key} \subseteq Lost
    BY <1>2 DEF Lost, Finished
  <2>2. /\ IsFiniteSet(Lost') /\ Cardinality(Lost' \ {Key}) \in Nat /\ Cardinality(Lost) \in Nat
        /\ Cardinality(Lost' \ {Key}) <= Cardinality(Lost)
    BY <2>1, ButForOne DEF LossIsCounted
  <2>3. Cardinality(Lost) <= faults /\ faults \in Nat
    BY RunsAssumption DEF LossIsCounted, TypeOK
  <2> QED
    BY <1>3, <1>4, <2>2, <2>3 DEF LossIsCounted
<1> QED
  BY <1>5, <1>6, <1>7, <1>8, <1>9

LEMMA ChildFailsIInv ==
    ASSUME IInv, NEW o \in {"text", "partial"}, ChildFails(o)
    PROVE  IInv'
<1> USE DEF IInv, ChildFails, MustRun, AtRow, arguments
<1>1. pos \in 1 .. Size(fromModel) /\ Size(fromModel) \in Nat
  BY SizeIsNat DEF InRange, TypeOK
<1>2. Current' = Current /\ Key' = Key
  BY DEF Current, Key
<1>3. faults \in Nat /\ faults' = faults + 1 /\ faults' \in 0 .. MaxFaults
  BY RunsAssumption DEF TypeOK
<1>4. TypeOK'
  <2>1. out' \in Outputs
    BY DEF Outputs
  <2> QED
    BY <1>3, <2>1 DEF TypeOK
<1>5. InRange' /\ AskedToRun'
  BY <1>1, <1>2 DEF InRange, AskedToRun
<1>6. RowsAreEarned' /\ CacheIsEarned'
  BY <1>3 DEF RowsAreEarned, CacheIsEarned, Earned
<1>7. OutIsEarned'
  BY <1>3 DEF OutIsEarned, Earned
<1>8. LossIsCounted'
  <2>1. Lost' = Lost /\ Lost' \ {Key} \subseteq Lost
    BY DEF Lost, Finished
  <2>2. /\ IsFiniteSet(Lost') /\ Cardinality(Lost' \ {Key}) \in Nat /\ Cardinality(Lost) \in Nat
        /\ Cardinality(Lost' \ {Key}) <= Cardinality(Lost)
    BY <2>1, ButForOne DEF LossIsCounted
  <2>3. Cardinality(Lost) <= faults
    BY DEF LossIsCounted
  <2> QED
    BY <1>2, <1>3, <2>2, <2>3 DEF LossIsCounted
<1> QED
  BY <1>4, <1>5, <1>6, <1>7, <1>8

LEMMA SaveIInv == ASSUME IInv, Save PROVE IInv'
<1> USE DEF IInv, Save, arguments
<1>1. pos \in 1 .. Size(fromModel) /\ Size(fromModel) \in Nat
  BY SizeIsNat DEF InRange, TypeOK
<1>2. Current.name \in Names /\ xlen \in Xlens /\ Key = <<Current.name, xlen>> /\ Key \in Keys
  BY <1>1, KeyIsKey
<1>3. pos' \in 1 .. Size(fromModel) + 1
  BY <1>1, Onwards
<1>4. out \in Outputs /\ Earned(Current.name, xlen, out) /\ out # "absent"
  BY DEF TypeOK, OutIsEarned, Outputs
<1>5. cache'[Key] = out /\ \A k \in Keys \ {Key} : cache'[k] = cache[k]
  BY <1>2 DEF TypeOK
<1>6. TypeOK'
  <2>1. pos' \in 0 .. Size(fromModel') + 1
    BY <1>1, <1>3
  <2>2. \A n \in DOMAIN report' : report'[n] \in Outputs
    BY <1>4, Counted DEF TypeOK
  <2>3. cache' \in [Keys -> Outputs \cup {"absent"}]
    BY <1>2, <1>4 DEF TypeOK
  <2> QED
    BY <2>1, <2>2, <2>3 DEF TypeOK
<1>7. RowsAreEarned'
  <2> SUFFICES ASSUME NEW n \in DOMAIN report' PROVE Earned(n, xlen, report'[n])
    BY DEF RowsAreEarned, Earned
  <2>1. CASE n = Current.name
    BY <1>4, <2>1, Counted
  <2>2. CASE n # Current.name
    BY <2>2, Counted DEF RowsAreEarned, Earned
  <2> QED
    BY <2>1, <2>2
<1>8. CacheIsEarned'
  <2> SUFFICES ASSUME NEW n \in Names, NEW w \in Xlens, cache'[<<n, w>>] # "absent"
               PROVE  Earned(n, w, cache'[<<n, w>>])
    BY DEF CacheIsEarned, Earned
  <2>1. CASE <<n, w>> = Key
    BY <1>2, <1>4, <1>5, <2>1
  <2>2. CASE <<n, w>> # Key
    BY <1>5, <2>2 DEF CacheIsEarned, Keys
  <2> QED
    BY <2>1, <2>2
<1>9. InRange' /\ OutIsEarned' /\ AskedToRun'
  BY <1>3 DEF InRange, OutIsEarned, AskedToRun
<1>10. LossIsCounted'
  <2>1. Finished \subseteq Keys
    BY DEF Finished, TypeOK
  <2>2. Lost' \ {Key} \subseteq Lost \ {Key}
    BY <1>5, <2>1 DEF Lost, Finished
  <2>3. IsFiniteSet(Lost \ {Key})
    BY FS_Subset DEF LossIsCounted
  <2>4. /\ IsFiniteSet(Lost') /\ Cardinality(Lost') \in Nat
        /\ Cardinality(Lost' \ {Key}) \in Nat /\ Cardinality(Lost \ {Key}) \in Nat
        /\ Cardinality(Lost' \ {Key}) <= Cardinality(Lost \ {Key})
        /\ Cardinality(Lost') <= Cardinality(Lost' \ {Key}) + 1
    BY <2>2, <2>3, ButForOne
  <2>5. Cardinality(Lost \ {Key}) + (IF out = "text" THEN 1 ELSE 0) <= faults /\ faults \in Nat
    BY RunsAssumption DEF LossIsCounted, TypeOK
  <2>6. CASE out = "text"
    BY <2>4, <2>5, <2>6 DEF LossIsCounted
  <2>7. CASE out # "text"
    <3>1. Key \notin Lost'
      BY <1>4, <1>5, <2>7 DEF Lost
    <3>2. Lost' \ {Key} = Lost'
      BY <3>1
    <3>3. Cardinality(Lost') <= Cardinality(Lost \ {Key})
      BY <2>4, <3>2
    <3>4. Cardinality(Lost \ {Key}) <= faults
      BY <2>4, <2>5, <2>7
    <3>5. Cardinality(Lost') <= faults
      BY <2>4, <2>5, <3>3, <3>4
    <3> QED
      BY <2>4, <3>5 DEF LossIsCounted
  <2> QED
    BY <2>6, <2>7
<1> QED
  BY <1>6, <1>7, <1>8, <1>9, <1>10

LEMMA ExitIInv ==
    ASSUME IInv, Exit, UNCHANGED <<hart, runs, ended>>, faults' \in 0 .. MaxFaults,
           faults <= faults', cache' \in [Keys -> Outputs \cup {"absent"}],
           CacheIsEarned', LossIsCounted'
    PROVE  IInv'
<1> USE DEF IInv, Exit
<1>1. DOMAIN report' = {}
  OBVIOUS
<1>2. Size(fromModel') \in Nat
  BY SizeIsNat
<1>3. TypeOK'
  <2>1. pc' \in {"idle", "row", "save"} /\ out' \in Outputs /\ xlen' \in Xlens
        /\ only' \in Filters /\ fromModel' \in BOOLEAN /\ resume' \in BOOLEAN
    BY RunsAssumption DEF Outputs, Xlens
  <2>2. pos' \in 0 .. Size(fromModel') + 1
    BY <1>2
  <2> QED
    BY <1>1, <2>1, <2>2 DEF TypeOK
<1> QED
  BY <1>1, <1>3 DEF InRange, RowsAreEarned, OutIsEarned, AskedToRun

LEMMA DieIInv == ASSUME IInv, Die PROVE IInv'
<1> USE DEF IInv, Die
<1>1. faults \in Nat /\ faults' = faults + 1 /\ faults' \in 0 .. MaxFaults
  BY RunsAssumption DEF TypeOK
<1>2. pc' = "idle"
  BY DEF Exit
<1>3. CASE UNCHANGED cache
  <2>1. CacheIsEarned'
    BY <1>1, <1>3 DEF CacheIsEarned, Earned
  <2>2. Lost' = Lost
    BY <1>3 DEF Lost, Finished
  <2>3. Cardinality(Lost) <= faults + 1 /\ IsFiniteSet(Lost)
    <3>1. CASE pc = "save"
      <4>1. IsFiniteSet(Lost) /\ IsFiniteSet(Lost \ {Key})
        BY FS_Subset DEF LossIsCounted
      <4>2. /\ Cardinality(Lost) <= Cardinality(Lost \ {Key}) + 1
            /\ Cardinality(Lost) \in Nat /\ Cardinality(Lost \ {Key}) \in Nat
        BY <4>1, ButForOne
      <4>3. Cardinality(Lost \ {Key}) <= faults
        BY <1>1, <3>1, <4>2 DEF LossIsCounted
      <4> QED
        BY <1>1, <4>1, <4>2, <4>3
    <3>2. CASE pc # "save"
      <4>1. IsFiniteSet(Lost) /\ Cardinality(Lost) <= faults
        BY <3>2 DEF LossIsCounted
      <4>2. Cardinality(Lost) \in Nat
        BY <4>1, FS_CardinalityType
      <4> QED
        BY <1>1, <4>1, <4>2
    <3> QED
      BY <3>1, <3>2
  <2>4. LossIsCounted'
    BY <1>1, <1>2, <2>2, <2>3 DEF LossIsCounted
  <2>5. cache' \in [Keys -> Outputs \cup {"absent"}]
    BY <1>3 DEF TypeOK
  <2> QED
    BY <1>1, <2>1, <2>4, <2>5, ExitIInv
<1>4. CASE pc = "save" /\ cache' = [cache EXCEPT ![Key] = "text"]
  <2>1. pos \in 1 .. Size(fromModel)
    BY <1>4 DEF InRange
  <2>2. Current.name \in Names /\ xlen \in Xlens /\ Key = <<Current.name, xlen>> /\ Key \in Keys
    BY <2>1, KeyIsKey
  <2>3. cache'[Key] = "text" /\ \A k \in Keys \ {Key} : cache'[k] = cache[k]
    BY <1>4, <2>2 DEF TypeOK
  <2>4. cache' \in [Keys -> Outputs \cup {"absent"}]
    <3>1. "text" \in Outputs
      BY DEF Outputs
    <3> QED
      BY <1>4, <2>2, <3>1 DEF TypeOK
  <2>5. CacheIsEarned'
    <3> SUFFICES ASSUME NEW n \in Names, NEW w \in Xlens, cache'[<<n, w>>] # "absent"
                 PROVE  \/ <<n, w, cache'[<<n, w>>]>> \in ended
                        \/ faults' > 0 /\ cache'[<<n, w>>] \in {"text", "partial"}
      BY DEF CacheIsEarned, Earned
    <3>1. CASE <<n, w>> = Key
      BY <1>1, <2>3, <3>1
    <3>2. CASE <<n, w>> # Key
      BY <1>1, <2>3, <3>2 DEF CacheIsEarned, Keys, Earned
    <3> QED
      BY <3>1, <3>2
  <2>6. LossIsCounted'
    <3>1. Finished \subseteq Keys
      BY DEF Finished, TypeOK
    <3>2. Lost' \ {Key} \subseteq Lost \ {Key}
      BY <2>3, <3>1 DEF Lost, Finished
    <3>3. IsFiniteSet(Lost \ {Key})
      BY FS_Subset DEF LossIsCounted
    <3>4. /\ IsFiniteSet(Lost') /\ Cardinality(Lost') \in Nat
          /\ Cardinality(Lost' \ {Key}) \in Nat /\ Cardinality(Lost \ {Key}) \in Nat
          /\ Cardinality(Lost' \ {Key}) <= Cardinality(Lost \ {Key})
          /\ Cardinality(Lost') <= Cardinality(Lost' \ {Key}) + 1
      BY <3>2, <3>3, ButForOne
    <3>5. Cardinality(Lost \ {Key}) <= faults
      BY <1>1, <1>4, <3>4 DEF LossIsCounted
    <3>6. Cardinality(Lost') <= faults'
      BY <1>1, <3>4, <3>5
    <3> QED
      BY <1>2, <3>4, <3>6 DEF LossIsCounted
  <2> QED
    BY <1>1, <2>4, <2>5, <2>6, ExitIInv
<1> QED
  BY <1>3, <1>4

LEMMA SummariseIInv == ASSUME IInv, Summarise PROVE IInv'
<1> USE DEF IInv, Summarise
<1>1. pc' = "idle"
  BY DEF Exit
<1>2. faults \in Nat /\ faults' = faults /\ faults' \in 0 .. MaxFaults
  BY RunsAssumption DEF TypeOK
<1>3. CacheIsEarned' /\ LossIsCounted'
  <2>1. CacheIsEarned'
    BY DEF CacheIsEarned, Earned
  <2>2. LossIsCounted'
    BY <1>1, LossStays
  <2> QED
    BY <2>1, <2>2
<1>4. cache' \in [Keys -> Outputs \cup {"absent"}]
  BY DEF TypeOK
<1> QED
  BY <1>2, <1>3, <1>4, ExitIInv

LEMMA NextIInv == IInv /\ [Next]_vars => IInv'
<1> SUFFICES ASSUME IInv, [Next]_vars PROVE IInv'
  OBVIOUS
<1>1. CASE Rebuild
  BY <1>1, RebuildIInv
<1>2. ASSUME NEW w \in Xlens, NEW f \in BOOLEAN, NEW filter \in Filters, NEW r \in BOOLEAN,
             Begin(w, f, filter, r)
      PROVE  IInv'
  BY <1>2, BeginIInv
<1>3. CASE ReadCache
  BY <1>3, ReadCacheIInv
<1>4. CASE RunChild
  BY <1>4, RunChildIInv
<1>5. ASSUME NEW o \in {"text", "partial"}, ChildFails(o) PROVE IInv'
  BY <1>5, ChildFailsIInv
<1>6. CASE Save
  BY <1>6, SaveIInv
<1>7. CASE Die
  BY <1>7, DieIInv
<1>8. CASE Summarise
  BY <1>8, SummariseIInv
<1>9. CASE UNCHANGED vars
  <2> USE <1>9 DEF vars, arguments, IInv
  <2>1. TypeOK'
    BY DEF TypeOK
  <2>2. Current' = Current /\ Key' = Key /\ Finished' = Finished /\ Lost' = Lost
    BY DEF Current, Key, Finished, Lost
  <2>3. InRange' /\ RowsAreEarned' /\ AskedToRun' /\ LossIsCounted'
    BY <2>2 DEF InRange, RowsAreEarned, AskedToRun, LossIsCounted
  <2>4. CacheIsEarned' /\ OutIsEarned'
    BY <2>2 DEF CacheIsEarned, OutIsEarned, Earned
  <2> QED
    BY <2>1, <2>3, <2>4
<1> QED
  BY <1>1, <1>2, <1>3, <1>4, <1>5, <1>6, <1>7, <1>8, <1>9 DEF Next

(***************************************************************************)
(* What a row expects, and what a conforming hart answers.                 *)
(***************************************************************************)

(* A row of the table, or of the model, expects a trap at a read-only      *)
(* address and nowhere else, before the XLEN is looked at.                 *)
Right(row) ==
    /\ row.traps \in BOOLEAN
    /\ row.traps <=> row.addr \div 1024 = 3

(* A row that expects its write to be kept is right at a writable          *)
(* address,                                                                *)
LEMMA Writable ==
    ASSUME NEW ext, NEW name, NEW addr \in Nat, NEW isa, addr \div 1024 # 3
    PROVE  Right(RW(ext, name, addr, isa))
BY DEF RW, Row, Right

(* and one that expects it to trap at a read-only one.                     *)
LEMMA ReadOnly ==
    ASSUME NEW ext, NEW name, NEW addr \in Nat, NEW isa, addr \div 1024 = 3
    PROVE  Right(RO(ext, name, addr, isa))
BY DEF RO, Row, Right

(* Each of the 37 rows written by hand is right.                           *)
LEMMA CuratedAreRight == \A i \in DOMAIN CSRS : Right(CSRS[i])
BY Writable, ReadOnly DEF CSRS

(* A row a sweep visits expects a trap exactly of a read-only address and  *)
(* of a high half at RV64, whichever list it comes from.                   *)
Absent(row, w) == w = 64 /\ IsHighHalf(row.name)
Expects(row, w) ==
    /\ row.traps \in BOOLEAN
    /\ row.traps <=> row.addr \div 1024 = 3 \/ Absent(row, w)
(* Each visited row of a table expects what a conforming hart does.        *)
LEMMA RowsExpect ==
    ASSUME NEW w \in Xlens, NEW f \in BOOLEAN, NEW i \in 1 .. Size(f), ~Left(i)
    PROVE  Expects(Tables[w][f][i], w)
<1> DEFINE row == Tables[w][f][i]
           first == RowAt(i, w)
<1>1. Len(CSRS) = 37 /\ DOMAIN CSRS = 1 .. 37 /\ Size(f) \in Nat
  BY SizeIsNat DEF CSRS
<1>2. /\ row.addr = first.addr /\ row.name = first.name
      /\ row.traps = (first.traps \/ (w = 64 /\ IsHighHalf(first.name)))
  BY DEF Tables, Csrs, Row
<1>3. /\ first.traps \in BOOLEAN
      /\ first.traps \/ Absent(first, w) <=> first.addr \div 1024 = 3 \/ Absent(first, w)
  <2>1. CASE i <= 37
    <3>1. first = CSRS[i] /\ i \in DOMAIN CSRS
      BY <1>1, <2>1 DEF RowAt
    <3> QED
      BY <3>1, CuratedAreRight DEF Right
  <2>2. CASE ~(i <= 37)
    <3> DEFINE k == i - 37
    <3>1. k \in DOMAIN ModelCsrs /\ Unknown(k)
      BY <1>1, <2>2, ModelCsrsAssumption DEF Size, Left, Kept
    <3>2. first = FromModel(k, w)
      BY <1>1, <2>2 DEF RowAt
    <3>3. /\ first.addr = ModelCsrs[k][1] /\ first.name = ModelCsrs[k][2]
          /\ first.traps = MustTrap(ModelCsrs[k][1], ModelCsrs[k][2], w)
      BY <3>2 DEF FromModel, Row
    <3>4. ModelCsrs[k][1] \div 1024 = 3 <=>
            \/ \hc00 <= ModelCsrs[k][1] /\ ModelCsrs[k][1] <= \hc9f
            \/ ModelCsrs[k][2] \in READ_ONLY_CSRS
      BY <3>1, ConventionAssumption
    <3> HIDE DEF k
    <3> QED
      BY <3>3, <3>4 DEF MustTrap, Absent
  <2> QED
    BY <2>1, <2>2
<1> HIDE DEF row, first
<1>4. Absent(row, w) <=> Absent(first, w)
  BY <1>2 DEF Absent
<1>5. row.traps \in BOOLEAN /\ (row.traps <=> first.traps \/ Absent(first, w))
  <2>1. row.traps = (first.traps \/ Absent(first, w))
    BY <1>2 DEF Absent
  <2> QED
    BY <2>1, Zenon
<1>6. row.addr \div 1024 = 3 <=> first.addr \div 1024 = 3
  BY <1>2
<1>7. row.traps <=> row.addr \div 1024 = 3 \/ Absent(row, w)
  <2> DEFINE top == row.addr \div 1024 = 3
             firstTop == first.addr \div 1024 = 3
  <2>1. top <=> firstTop
    BY <1>6
  <2>2. first.traps \/ Absent(first, w) <=> firstTop \/ Absent(first, w)
    BY <1>3
  <2> HIDE DEF top, firstTop
  <2>3. row.traps <=> top \/ Absent(row, w)
    BY <1>4, <1>5, <2>1, <2>2, Zenon
  <2> QED
    BY <2>3 DEF top
<1>8. Expects(row, w)
  BY <1>5, <1>7, Zenon DEF Expects
<1> QED
  BY <1>8 DEF row

(* A register that RV64 lacks without its name saying so expects no trap.  *)
LEMMA Unannounced ==
    ASSUME NEW w \in Xlens, NEW f \in BOOLEAN, NEW i \in 1 .. Size(f), ~Left(i),
           Tables[w][f][i].name \in Rv32Only
    PROVE  Tables[w][f][i].addr \div 1024 # 3 /\ ~IsHighHalf(Tables[w][f][i].name)
<1> DEFINE row == Tables[w][f][i]
           k == i - 37
<1>1. Len(CSRS) = 37 /\ DOMAIN CSRS = 1 .. 37 /\ Size(f) \in Nat
  BY SizeIsNat DEF CSRS
<1>2. row.addr = RowAt(i, w).addr /\ row.name = RowAt(i, w).name
  BY DEF Tables, Csrs, Row
<1>3. ~(i <= 37)
  <2> SUFFICES ASSUME i <= 37 PROVE FALSE
    OBVIOUS
  <2>1. i \in DOMAIN CSRS /\ RowAt(i, w) = CSRS[i]
    BY <1>1 DEF RowAt
  <2>2. row.name \in Curated
    BY <1>2, <2>1 DEF Curated
  <2> QED
    BY <2>2, Rv32OnlyAssumption
<1>4. k \in DOMAIN ModelCsrs
  BY <1>1, <1>3, ModelCsrsAssumption DEF Size
<1>5. RowAt(i, w).addr = ModelCsrs[k][1] /\ RowAt(i, w).name = ModelCsrs[k][2]
  BY <1>1, <1>3 DEF RowAt, FromModel, Row
<1>6. row.addr \div 1024 # 3
  BY <1>2, <1>4, <1>5, Rv32OnlyAssumption
<1>7. ~IsHighHalf(row.name)
  BY Rv32OnlyAssumption DEF IsHighHalf
<1> QED
  BY <1>6, <1>7

(* Of a row that expects what it should, Sail passes what is testable and  *)
(* the hart does not get wrong.                                            *)
LEMMA PassesUnlessWrong ==
    ASSUME NEW row, NEW w \in Xlens, Expects(row, w),
           row.name \in Rv32Only => row.addr \div 1024 # 3 /\ ~IsHighHalf(row.name)
    PROVE  SailPasses(row, w, hart) <=> Testable(row, w) /\ ~Wrong(row, w)
<1> DEFINE top == row.addr \div 1024 = 3
           high == w = 64 /\ IsHighHalf(row.name)
           absent == w = 64 /\ row.name \in Rv32Only
<1>1. row.traps \in BOOLEAN /\ (row.traps <=> top \/ high)
  BY DEF Expects, Absent
<1>2. WriteTraps(row, w, hart) <=> \/ top /\ hart # "read_only_writable"
                                   \/ high /\ hart # "high_half_exists"
                                   \/ absent
  BY DEF WriteTraps, Switches
<1>3. /\ WriteTraps(row, w, hart) \in BOOLEAN
      /\ row.name \in SELF_UPDATING => "inhibit" \in Switches(row)
  BY DEF WriteTraps, Switches
<1>4. SailPasses(row, w, hart) <=> /\ WriteTraps(row, w, hart) <=> row.traps
                                   /\ ReadsBack(row)
                                   /\ ~(hart = "writes_dropped" /\ ~row.traps)
  BY <1>1, <1>3 DEF SailPasses
<1>5. Wrong(row, w) <=> \/ hart = "read_only_writable" /\ top /\ ~high
                        \/ hart = "high_half_exists" /\ high /\ ~top
                        \/ hart = "writes_dropped" /\ ~top /\ ~high
  BY DEF Wrong
<1>6. absent => ~top /\ ~high
  OBVIOUS
<1>7. Testable(row, w) <=> ReadsBack(row) /\ ~absent
  BY DEF Testable
<1> HIDE DEF top, high, absent
<1> QED
  BY <1>1, <1>2, <1>4, <1>5, <1>6, <1>7

(* A sweep stands at rows it visits; what a child that ended is about to   *)
(* hand over is the answer of the hart at hand; and a child that ends      *)
(* passes a part of the six of a legalised register alone.                 *)
AtVisited == pc # "idle" /\ pos <= Size(fromModel) => pos \in Visits[fromModel][only]
OutIsAnswer == pc = "save" => out \in {"text", "partial"} \/ out = Answer(Current, xlen, hart)
IsAnswer(name, o) ==
    o \in {"full", "sail", "none"} \/ (o = "partial" /\ name \in Legalised)
AnswersOnly == \A e \in ended : IsAnswer(e[1], e[3])
TruthInv == AtVisited /\ OutIsAnswer /\ AnswersOnly

(* Every step keeps TruthInv.                                              *)
LEMMA KeepsTruthInv == IInv /\ TruthInv /\ [Next]_vars => TruthInv'
<1> SUFFICES ASSUME IInv, TruthInv, [Next]_vars PROVE TruthInv'
  OBVIOUS
<1>0. TypeOK /\ InRange /\ Size(fromModel) \in Nat
  BY SizeIsNat DEF IInv, TypeOK
<1> USE DEF TruthInv
<1>1. CASE Rebuild
  BY <1>1 DEF Rebuild, arguments, AtVisited, OutIsAnswer, AnswersOnly
<1>2. ASSUME NEW w \in Xlens, NEW f \in BOOLEAN, NEW filter \in Filters, NEW r \in BOOLEAN,
             Begin(w, f, filter, r)
      PROVE  TruthInv'
  <2>1. Size(f) \in Nat
    BY SizeIsNat
  <2>2. pos' \in Visits[f][filter] \cup {Size(f) + 1}
    BY <1>2, <2>1, FollowingIsAhead DEF Begin
  <2>3. AtVisited'
    BY <1>2, <2>1, <2>2 DEF AtVisited, Begin
  <2> QED
    BY <1>2, <2>3 DEF Begin, OutIsAnswer, AnswersOnly
<1>3. ASSUME Onward, UNCHANGED <<arguments, ended>>, pc' = "row", pos \in 1 .. Size(fromModel)
      PROVE  TruthInv'
  <2>1. pos' \in Visits[fromModel][only] \cup {Size(fromModel) + 1}
    BY <1>0, <1>3, FollowingIsAhead DEF Onward, TypeOK
  <2>2. AtVisited'
    BY <1>0, <1>3, <2>1 DEF AtVisited, arguments
  <2> QED
    BY <1>3, <2>2 DEF OutIsAnswer, AnswersOnly
<1>4. CASE ReadCache
  BY <1>0, <1>3, <1>4 DEF ReadCache, AtRow, InRange, arguments
<1>5. CASE Save
  BY <1>0, <1>3, <1>5 DEF Save, InRange, arguments
<1>6. CASE RunChild
  <2>1. Current' = Current /\ out' = Answer(Current, xlen, hart) /\ UNCHANGED <<xlen, hart>>
    BY <1>6 DEF RunChild, Current, arguments
  <2>2. IsAnswer(Current.name, out')
    BY <2>1, AnswerIsOutput DEF IsAnswer
  <2>3. AnswersOnly'
    BY <1>6, <2>2 DEF AnswersOnly, RunChild
  <2>4. AtVisited'
    BY <1>6 DEF AtVisited, RunChild, MustRun, AtRow, arguments
  <2>5. OutIsAnswer'
    BY <2>1 DEF OutIsAnswer
  <2> QED
    BY <2>3, <2>4, <2>5
<1>7. ASSUME NEW o \in {"text", "partial"}, ChildFails(o) PROVE TruthInv'
  BY <1>7 DEF ChildFails, MustRun, AtRow, arguments, AtVisited, OutIsAnswer, AnswersOnly
<1>8. CASE Die \/ Summarise
  BY <1>8 DEF Die, Summarise, Exit, AtVisited, OutIsAnswer, AnswersOnly
<1>9. CASE UNCHANGED vars
  <2>1. Current' = Current
    BY <1>9 DEF vars, arguments, Current
  <2> QED
    BY <1>9, <2>1 DEF vars, arguments, AtVisited, OutIsAnswer, AnswersOnly
<1> QED
  BY <1>1, <1>2, <1>4, <1>5, <1>6, <1>7, <1>8, <1>9 DEF Next

(***************************************************************************)
(* The theorems.                                                           *)
(***************************************************************************)

(* The inductive invariant: what the cache and the report say was earned,  *)
(* and the losses are counted by the faults, in every reachable state.     *)
THEOREM Invariance == Spec => []IInv
<1> QED
  BY InitIInv, NextIInv, PTL DEF Spec

(* Type correctness of the sweep, its cache and its report.                *)
THEOREM TypeCorrect == Spec => []TypeOK
<1>1. IInv => TypeOK
  BY DEF IInv
<1> QED
  BY Invariance, <1>1, PTL

(* A reported row is the output of a child that swept that CSR at that     *)
(* XLEN to its end, or, after a fault, one without six results.            *)
THEOREM PassesAreEarned == Spec => []RowsAreEarned
<1>1. IInv => RowsAreEarned
  BY DEF IInv
<1> QED
  BY Invariance, <1>1, PTL

(* However often a sweep is interrupted, each interruption costs at most   *)
(* one CSR that was finished, beside the one about to be written.          *)
THEOREM CostsOneEach == Spec => []InterruptionCostsOne
<1>1. IInv => InterruptionCostsOne
  <2> SUFFICES ASSUME IInv PROVE InterruptionCostsOne
    OBVIOUS
  <2> USE DEF IInv
  <2>1. faults \in Nat
    BY RunsAssumption DEF TypeOK
  <2>2. IsFiniteSet(Lost) /\ Cardinality(Lost) \in Nat
    BY FS_CardinalityType DEF LossIsCounted
  <2>3. CASE pc = "save"
    <3>1. IsFiniteSet(Lost \ {Key})
      BY <2>2, FS_Subset
    <3>2. /\ Cardinality(Lost) <= Cardinality(Lost \ {Key}) + 1
          /\ Cardinality(Lost \ {Key}) \in Nat
      BY <3>1, ButForOne
    <3>3. Cardinality(Lost \ {Key}) <= faults
      BY <2>1, <2>3, <3>2 DEF LossIsCounted
    <3>4. Cardinality(Lost) <= faults + 1
      BY <2>1, <2>2, <3>2, <3>3
    <3> QED
      BY <2>3, <3>4 DEF InterruptionCostsOne, Lost
  <2>4. CASE pc # "save"
    <3>1. Cardinality(Lost) <= faults
      BY <2>4 DEF LossIsCounted
    <3> QED
      BY <2>1, <2>2, <2>4, <3>1 DEF InterruptionCostsOne, Lost
  <2> QED
    BY <2>3, <2>4
<1> QED
  BY Invariance, <1>1, PTL

(* No step replaces a cached result unless the run was asked not to        *)
(* resume, and then only that of the row it is at.                         *)
THEOREM CacheIsKept == Spec => OnlyNoResumeReplaces
<1> DEFINE Respected == cache' # cache => \A k \in Keys :
                     cache[k] # "absent" /\ cache'[k] # cache[k] => ~resume /\ k = Key
<1>1. IInv /\ [Next]_vars => [Respected]_vars
  <2> SUFFICES ASSUME IInv, Next PROVE Respected
    OBVIOUS
  <2>1. ASSUME cache' # cache PROVE pc = "save" /\ \E o : cache' = [cache EXCEPT ![Key] = o]
    BY <2>1 DEF Next, Rebuild, Begin, ReadCache, RunChild, ChildFails, Save, Die, Summarise
  <2>2. ASSUME cache' # cache, NEW k \in Keys, cache[k] # "absent", cache'[k] # cache[k]
        PROVE  ~resume /\ k = Key
    <3>1. k = Key
      BY <2>1, <2>2 DEF IInv, TypeOK
    <3> QED
      BY <2>1, <2>2, <3>1 DEF IInv, AskedToRun
  <2> QED
    BY <2>2
<1> QED
  BY Invariance, <1>1, PTL DEF Spec, OnlyNoResumeReplaces

(* What a row says is what the hart does: of a row a child ran to the end  *)
(* for, Sail passes exactly if its register is testable by a static value  *)
(* and the hart gets it right, for whatever list the row is from and at    *)
(* either XLEN.                                                            *)
THEOREM RowsAreTrue == Spec => []RowsTellTheTruth
<1>1. Init => TruthInv
  BY DEF Init, TruthInv, AtVisited, OutIsAnswer, AnswersOnly
<1>2. IInv /\ TruthInv => RowsTellTheTruth
  <2> SUFFICES ASSUME IInv, TruthInv, pc = "save", <<Current.name, xlen, out>> \in ended,
                      Current.name \notin Ungeneratable
               PROVE  out \in {"full", "sail"}
                        <=> Testable(Current, xlen) /\ ~Wrong(Current, xlen)
    BY DEF RowsTellTheTruth
  <2>1. pos \in 1 .. Size(fromModel) /\ xlen \in Xlens /\ fromModel \in BOOLEAN /\ only \in Filters
    BY DEF IInv, InRange, TypeOK
  <2>2. pos \in Visits[fromModel][only]
    BY <2>1, SizeIsNat DEF TruthInv, AtVisited
  <2>3. ~Left(pos)
    BY <2>1, <2>2 DEF Visits
  <2>4. Expects(Current, xlen)
    BY <2>1, <2>3, RowsExpect DEF Current
  <2>5. Current.name \in Rv32Only => Current.addr \div 1024 # 3 /\ ~IsHighHalf(Current.name)
    BY <2>1, <2>3, Unannounced DEF Current
  <2>6. SailPasses(Current, xlen, hart) <=> Testable(Current, xlen) /\ ~Wrong(Current, xlen)
    BY <2>1, <2>4, <2>5, PassesUnlessWrong
  <2>7. /\ <<Current.name, xlen, out>>[3] = out
        /\ <<Current.name, xlen, out>>[1] = Current.name
    OBVIOUS
  <2>8. IsAnswer(Current.name, out)
    BY <2>7 DEF TruthInv, AnswersOnly
  <2>9. CASE out = "partial"
    BY <2>8, <2>9 DEF IsAnswer, Testable, ReadsBack
  <2>10. CASE out # "partial"
    <3>1. out = Answer(Current, xlen, hart)
      BY <2>8, <2>10 DEF IsAnswer, TruthInv, OutIsAnswer
    <3>2. out \in {"full", "sail"} <=> SailPasses(Current, xlen, hart)
      BY <2>10, <3>1 DEF Answer, SailPasses, ReadsBack
    <3> QED
      BY <2>6, <3>2
  <2> QED
    BY <2>9, <2>10
<1> QED
  BY Invariance, <1>1, <1>2, KeepsTruthInv, PTL DEF Spec
=============================================================================
