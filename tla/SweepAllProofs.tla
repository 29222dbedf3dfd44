---------------------------- MODULE SweepAllProofs ----------------------------
(***************************************************************************)
(* Theorems about the batch driver, for any labels, any argument lists and *)
(* any number of instructions: the types, the invariant that ties the      *)
(* totals to the stored files, and what follows from it - the summary is   *)
(* true, finished work survives, a finished file accounts for each         *)
(* instruction once, and the driver implements ResumableBatch.             *)
(***************************************************************************)
EXTENDS SweepAllProps, TLAPS, FiniteSetTheorems

Behind == {jobs[i] : i \in 1 .. k - 1}

(* The driver is at a target while it sweeps one.                          *)
AtTarget ==
    drv \in {"stream", "wait", "open", "write"} => k <= Len(jobs)

(* A process that is not there remembers nothing.                          *)
DownIsBlank ==
    drv = "down" => jobs = <<>> /\ k = 1 /\ resume = TRUE /\ totals = <<>>

AllBehindWhenDone == drv = "done" => k = Len(jobs) + 1

TotalsAreBehind == DOMAIN totals = Behind

(* What was counted is still what is stored, unless the target is being    *)
(* written again at this moment because the arguments named it twice.      *)
TotalsAreStored ==
    \A job \in DOMAIN totals :
        /\ Stored(job)
        /\ \/ drv = "write" /\ job = Current
           \/ totals[job] = file[job].lines

(* A target that is swept while resuming had nothing to resume.            *)
OnlyAbsentSwept ==
    /\ drv \in {"stream", "wait", "open"} /\ resume => ~Stored(Current)
    /\ drv = "write" => file[Current] = Empty

(* What a child printed is never mistaken for a file that is not there.    *)
AbsentIsBlank ==
    /\ out.end # "absent"
    /\ \A job \in Jobs : ~Stored(job) => file[job] = Absent

IInv ==
    /\ TypeOK
    /\ AtTarget
    /\ DownIsBlank
    /\ AllBehindWhenDone
    /\ TotalsAreBehind
    /\ TotalsAreStored
    /\ OnlyAbsentSwept
    /\ AbsentIsBlank

-----------------------------------------------------------------------------

(* The two jobs of every argument are jobs: JobsOf builds a job list.      *)
LEMMA JobsOfIsJobList ==
    ASSUME NEW request \in Requests
    PROVE  JobsOf(request) \in Seq(Jobs)
<1> DEFINE n == Len(request)
<1>1. request \in Seq(Labels) /\ n \in Nat
  BY RequestsAssumption
<1>2. ASSUME NEW i \in 1 .. 2 * n
      PROVE  <<request[(i + 1) \div 2], IF i % 2 = 1 THEN 32 ELSE 64>> \in Jobs
  <2>1. (i + 1) \div 2 \in 1 .. n
    BY <1>1
  <2>2. request[(i + 1) \div 2] \in Labels
    BY <1>1, <2>1
  <2> QED
    BY <2>2 DEF Jobs, Xlens
<1>3. JobsOf(request) \in [1 .. 2 * n -> Jobs]
  BY <1>2 DEF JobsOf
<1> QED
  BY <1>1, <1>3

(* What a new text is made of has the type of a text.                      *)
LEMMA TextTypes ==
    /\ Empty \in Text /\ Empty.end = "cut"
    /\ Absent \in Text /\ Absent.end = "absent"
BY DEF Empty, Absent, Text, Tally, NoLines

(* Each step of the child keeps its variables in their types and its text  *)
(* the text of a process that has been started.                            *)
LEMMA ChildProgressType ==
    ASSUME ChildTypeOK, ChildProgress
    PROVE  ChildTypeOK'
<1>1. ASSUME NEW v \in Verdicts, PrintVerdict(v) PROVE ChildTypeOK'
  BY <1>1 DEF ChildTypeOK, PrintVerdict, Text, Tally
<1>2. CASE PrintSummary
  BY <1>2 DEF ChildTypeOK, PrintSummary, Text
<1>3. CASE CloseOutput
  BY <1>3 DEF ChildTypeOK, CloseOutput
<1> QED
  BY <1>1, <1>2, <1>3 DEF ChildProgress

LEMMA ChildProgressEnd ==
    ASSUME ChildTypeOK, ChildProgress, out.end # "absent"
    PROVE  out'.end # "absent"
BY DEF ChildTypeOK, ChildProgress, PrintVerdict, PrintSummary, CloseOutput, Text

(* Adding the counts of a text to the totals adds the target's row.        *)
LEMMA AddTotalType ==
    ASSUME TypeOK, NEW job \in Jobs, NEW text \in Text, AddTotal(job, text)
    PROVE  /\ DOMAIN totals' = DOMAIN totals \cup {job}
           /\ totals' \in [DOMAIN totals' -> Tally]
           /\ totals'[job] = text.lines
           /\ \A j \in DOMAIN totals \ {job} : totals'[j] = totals[j]
BY DEF AddTotal, TypeOK, Text

LEMMA CurrentIsJob ==
    ASSUME TypeOK, k <= Len(jobs)
    PROVE  /\ k \in 1 .. Len(jobs)
           /\ Current \in Jobs
           /\ Current[1] \in Labels
           /\ Insns[Current[1]] \in Nat
<1>1. k \in 1 .. Len(jobs) /\ jobs \in Seq(Jobs)
  BY DEF TypeOK
<1>2. Current \in Jobs
  BY <1>1 DEF Current
<1> QED
  BY <1>1, <1>2, InsnsAssumption DEF Jobs

(* The initial state satisfies the invariant: nothing is stored, and no    *)
(* process is there to remember anything.                                  *)
LEMMA InitIInv == Init => IInv
<1> SUFFICES ASSUME Init PROVE IInv
  OBVIOUS
<1>1. file \in [Jobs -> Text] /\ \A job \in Jobs : ~Stored(job)
  BY TextTypes DEF Init, Stored
<1>2. totals = <<>> /\ DOMAIN totals = {} /\ totals \in [DOMAIN totals -> Tally]
  BY DEF Init
<1>3. TypeOK
  BY <1>1, <1>2, TextTypes DEF Init, TypeOK, ChildInit, ChildTypeOK
<1> QED
  BY <1>1, <1>2, <1>3, TextTypes
     DEF Init, ChildInit, IInv, AtTarget, DownIsBlank, AllBehindWhenDone, TotalsAreBehind,
         TotalsAreStored, OnlyAbsentSwept, AbsentIsBlank, Behind

(* A step of the loop keeps the types.                                     *)
LEMMA TypeStep == TypeOK /\ AtTarget /\ [Next]_vars => TypeOK'
<1> SUFFICES ASSUME TypeOK, AtTarget, [Next]_vars PROVE TypeOK'
  OBVIOUS
<1>1. ASSUME NEW request \in Requests, NEW again \in BOOLEAN, Start(request, again)
      PROVE  TypeOK'
  <2>1. jobs' \in Seq(Jobs) /\ k' \in 1 .. Len(jobs') + 1
    BY <1>1, JobsOfIsJobList DEF Start
  <2>2. totals' \in [DOMAIN totals' -> Tally] /\ DOMAIN totals' = {}
    BY <1>1 DEF Start
  <2> QED
    BY <1>1, <2>1, <2>2 DEF Start, TypeOK, ChildTypeOK, childVars
<1>2. CASE ResumeTarget
  <2>1. Current \in Jobs /\ file[Current] \in Text
    BY <1>2, CurrentIsJob DEF ResumeTarget, TypeOK
  <2>2. DOMAIN totals' \subseteq Jobs /\ totals' \in [DOMAIN totals' -> Tally]
    BY <1>2, <2>1, AddTotalType DEF ResumeTarget, TypeOK
  <2> QED
    BY <1>2, <2>2 DEF ResumeTarget, TypeOK, ChildTypeOK, childVars
<1>3. CASE RunTarget
  <2>1. Insns[Current[1]] \in Nat
    BY <1>3, CurrentIsJob DEF RunTarget
  <2> QED
    BY <1>3, <2>1, TextTypes DEF RunTarget, Spawn, TypeOK, ChildTypeOK
<1>4. CASE ChildStep
  BY <1>4, ChildProgressType DEF ChildStep, TypeOK, driverVars
<1>5. CASE StreamEnds
  BY <1>5 DEF StreamEnds, TypeOK, ChildTypeOK, childVars
<1>6. CASE WaitReturns
  BY <1>6 DEF WaitReturns, Reaped, TypeOK, ChildTypeOK
<1>7. CASE OpenFile
  BY <1>7, TextTypes DEF OpenFile, TypeOK, ChildTypeOK, childVars
<1>8. CASE CloseFile
  <2>1. Current \in Jobs /\ out \in Text /\ k \in 1 .. Len(jobs)
    BY <1>8, CurrentIsJob DEF CloseFile, AtTarget, TypeOK, ChildTypeOK
  <2>2. DOMAIN totals' \subseteq Jobs /\ totals' \in [DOMAIN totals' -> Tally]
    BY <1>8, <2>1, AddTotalType DEF CloseFile, TypeOK
  <2> QED
    BY <1>8, <2>1, <2>2 DEF CloseFile, TypeOK, ChildTypeOK, childVars
<1>9. CASE Summarise
  BY <1>9 DEF Summarise, TypeOK, ChildTypeOK, childVars
<1>10. ASSUME Gone, file' \in [Jobs -> Text] PROVE TypeOK'
  <2>1. totals' \in [DOMAIN totals' -> Tally] /\ DOMAIN totals' = {}
    BY <1>10 DEF Gone
  <2> QED
    BY <1>10, <2>1, TextTypes DEF Gone, TypeOK, ChildTypeOK
<1>11. CASE Exit \/ Crash
  BY <1>10, <1>11 DEF Exit, Crash, TypeOK
<1>12. CASE CrashWriting
  <2>1. Insns[Current[1]] \in Nat
    BY <1>12, CurrentIsJob DEF CrashWriting, AtTarget
  <2>2. CutShort(out) \subseteq Text
    BY <2>1 DEF CutShort, Text, Tally
  <2>3. file' \in [Jobs -> Text]
    BY <1>12, <2>2 DEF CrashWriting, TypeOK
  <2> QED
    BY <1>10, <1>12, <2>3 DEF CrashWriting
<1>13. CASE UNCHANGED vars
  BY <1>13 DEF vars, TypeOK, ChildTypeOK
<1> QED
  BY <1>1, <1>2, <1>3, <1>4, <1>5, <1>6, <1>7, <1>8, <1>9, <1>11, <1>12, <1>13
     DEF Next, DriverStep

(* Going on to the next target puts the current one behind.                *)
LEMMA BehindGrows ==
    ASSUME TypeOK, k <= Len(jobs), k' = k + 1, jobs' = jobs
    PROVE  Behind' = Behind \cup {Current}
<1>1. k \in 1 .. Len(jobs) /\ Len(jobs) \in Nat
  BY DEF TypeOK
<1>2. \A i : i \in 1 .. k' - 1 <=> i \in 1 .. k - 1 \/ i = k
  BY <1>1
<1> QED
  BY <1>1, <1>2 DEF Behind, Current

(* A step of the loop keeps the invariant.                                 *)
LEMMA InvStep == IInv /\ [Next]_vars => IInv'
<1> SUFFICES ASSUME IInv, [Next]_vars PROVE IInv'
  OBVIOUS
<1> USE DEF IInv
<1>0. TypeOK'
  BY TypeStep
<1>1. ASSUME NEW request \in Requests, NEW again \in BOOLEAN, Start(request, again)
      PROVE  IInv'
  <2>1. DOMAIN totals' = {} /\ Behind' = {}
    BY <1>1 DEF Start, Behind
  <2> QED
    BY <1>0, <1>1, <2>1
       DEF Start, childVars, AtTarget, DownIsBlank, AllBehindWhenDone, TotalsAreBehind,
           TotalsAreStored, OnlyAbsentSwept, AbsentIsBlank, Stored
<1>2. CASE ResumeTarget
  <2>1. Current \in Jobs /\ file[Current] \in Text /\ Stored(Current)
    BY <1>2, CurrentIsJob DEF ResumeTarget, TypeOK, Resumable
  <2>2. /\ DOMAIN totals' = DOMAIN totals \cup {Current}
        /\ totals'[Current] = file[Current].lines
        /\ \A j \in DOMAIN totals \ {Current} : totals'[j] = totals[j]
    BY <1>2, <2>1, AddTotalType DEF ResumeTarget
  <2>3. TotalsAreBehind'
    BY <1>2, <2>2, BehindGrows DEF ResumeTarget, TotalsAreBehind
  <2>4. TotalsAreStored'
    BY <1>2, <2>1, <2>2 DEF ResumeTarget, TotalsAreStored, Stored
  <2> QED
    BY <1>0, <1>2, <2>3, <2>4
       DEF ResumeTarget, childVars, AtTarget, DownIsBlank, AllBehindWhenDone,
           OnlyAbsentSwept, AbsentIsBlank, Stored
<1>3. CASE RunTarget
  BY <1>0, <1>3, TextTypes
     DEF RunTarget, Spawn, Resumable, AtTarget, DownIsBlank, AllBehindWhenDone, Behind,
         TotalsAreBehind, TotalsAreStored, OnlyAbsentSwept, AbsentIsBlank,
         Stored, Current
<1>4. CASE ChildStep \/ StreamEnds \/ WaitReturns
  <2>1. out'.end # "absent"
    BY <1>4, ChildProgressEnd
       DEF ChildStep, StreamEnds, WaitReturns, Reaped, childVars, TypeOK, AbsentIsBlank
  <2>2. /\ UNCHANGED <<jobs, k, resume, totals, file>>
        /\ drv \in {"stream", "wait"} /\ drv' \in {"stream", "wait", "open"}
    BY <1>4 DEF ChildStep, StreamEnds, WaitReturns, driverVars
  <2> QED
    BY <1>0, <2>1, <2>2
       DEF AtTarget, DownIsBlank, AllBehindWhenDone, Behind, TotalsAreBehind,
           TotalsAreStored, OnlyAbsentSwept, AbsentIsBlank, Stored, Current
<1>5. CASE OpenFile
  <2>1. Current \in Jobs /\ Current' = Current
    BY <1>5, CurrentIsJob DEF OpenFile, AtTarget, Current
  <2>2. /\ file'[Current] = Empty
        /\ \A job \in Jobs \ {Current} : file'[job] = file[job]
    BY <1>5, <2>1 DEF OpenFile, TypeOK
  <2>3. TotalsAreStored'
    <3> SUFFICES ASSUME NEW job \in DOMAIN totals
                 PROVE  /\ Stored(job)'
                        /\ job = Current \/ totals[job] = file'[job].lines
      BY <1>5, <2>1 DEF OpenFile, TotalsAreStored
    <3>1. job \in Jobs
      BY DEF TypeOK
    <3> QED
      BY <1>5, <2>2, <3>1, TextTypes DEF OpenFile, TotalsAreStored, Stored
  <2>4. AbsentIsBlank'
    BY <1>5, <2>2, TextTypes DEF OpenFile, childVars, AbsentIsBlank, Stored
  <2> QED
    BY <1>0, <1>5, <2>1, <2>2, <2>3, <2>4
       DEF OpenFile, AtTarget, DownIsBlank, AllBehindWhenDone, Behind,
           TotalsAreBehind, OnlyAbsentSwept
<1>6. CASE CloseFile
  <2>1. Current \in Jobs /\ out \in Text /\ k <= Len(jobs)
    BY <1>6, CurrentIsJob DEF CloseFile, AtTarget, TypeOK, ChildTypeOK
  <2>2. /\ DOMAIN totals' = DOMAIN totals \cup {Current}
        /\ totals'[Current] = out.lines
        /\ \A j \in DOMAIN totals \ {Current} : totals'[j] = totals[j]
    BY <1>6, <2>1, AddTotalType DEF CloseFile
  <2>3. /\ file'[Current] = out
        /\ \A job \in Jobs \ {Current} : file'[job] = file[job]
    BY <1>6, <2>1 DEF CloseFile, TypeOK
  <2>4. TotalsAreBehind'
    BY <1>6, <2>1, <2>2, BehindGrows DEF CloseFile, TotalsAreBehind
  <2>5. out.end # "absent"
    BY DEF AbsentIsBlank
  <2>6. TotalsAreStored'
    <3> SUFFICES ASSUME NEW job \in DOMAIN totals'
                 PROVE  Stored(job)' /\ totals'[job] = file'[job].lines
      BY DEF TotalsAreStored
    <3>1. CASE job = Current
      BY <2>2, <2>3, <2>5, <3>1 DEF Stored
    <3>2. CASE job # Current
      <4>1. job \in DOMAIN totals /\ job \in Jobs
        BY <2>2, <3>2 DEF TypeOK
      <4> QED
        BY <2>2, <2>3, <3>2, <4>1 DEF TotalsAreStored, Stored
    <3> QED
      BY <3>1, <3>2
  <2>7. AbsentIsBlank'
    BY <1>6, <2>3, <2>5 DEF CloseFile, childVars, AbsentIsBlank, Stored
  <2> QED
    BY <1>0, <1>6, <2>4, <2>6, <2>7
       DEF CloseFile, AtTarget, DownIsBlank, AllBehindWhenDone, OnlyAbsentSwept
<1>7. CASE Summarise
  <2>1. k = Len(jobs) + 1
    BY <1>7 DEF Summarise, TypeOK
  <2> QED
    BY <1>0, <1>7, <2>1
       DEF Summarise, childVars, AtTarget, DownIsBlank, AllBehindWhenDone, Behind,
           TotalsAreBehind, TotalsAreStored, OnlyAbsentSwept, AbsentIsBlank, Stored
<1>8. ASSUME Gone, \A job \in Jobs : file'[job].end = "absent" => file'[job] = Absent
      PROVE  IInv'
  <2>1. DOMAIN totals' = {} /\ Behind' = {}
    BY <1>8 DEF Gone, Behind
  <2> QED
    BY <1>0, <1>8, <2>1, TextTypes
       DEF Gone, AtTarget, DownIsBlank, AllBehindWhenDone, TotalsAreBehind,
           TotalsAreStored, OnlyAbsentSwept, AbsentIsBlank, Stored
<1>9. CASE Exit \/ Crash
  BY <1>8, <1>9 DEF Exit, Crash, AbsentIsBlank, Stored
<1>10. CASE CrashWriting
  <2>1. \A text \in CutShort(out) : text.end = "cut"
    BY DEF CutShort
  <2>2. \A job \in Jobs : file'[job] = file[job] \/ file'[job].end = "cut"
    BY <1>10, <2>1 DEF CrashWriting, TypeOK
  <2> QED
    BY <1>8, <1>10, <2>2 DEF CrashWriting, AbsentIsBlank, Stored
<1>11. CASE UNCHANGED vars
  BY <1>0, <1>11
     DEF vars, AtTarget, DownIsBlank, AllBehindWhenDone, Behind, TotalsAreBehind,
         TotalsAreStored, OnlyAbsentSwept, AbsentIsBlank, Stored, Current
<1> QED
  BY <1>1, <1>2, <1>3, <1>4, <1>5, <1>6, <1>7, <1>9, <1>10, <1>11
     DEF Next, DriverStep

(* At every moment of every run, and after any crash, the state is typed   *)
(* and the totals are those of the stored files of the targets behind.     *)
THEOREM Invariance == Spec => []IInv
<1>1. Init => IInv
  BY InitIInv
<1>2. IInv /\ [Next]_vars => IInv'
  BY InvStep
<1> QED
  BY <1>1, <1>2, PTL DEF Spec

(* Every variable of the driver, the child and the directory keeps its     *)
(* type, for any labels, argument lists and numbers of instructions.       *)
THEOREM TypeCorrect == Spec => []TypeOK
<1>1. IInv => TypeOK
  BY DEF IInv
<1> QED
  BY <1>1, Invariance, PTL

(* The SUMMARY that sweep_all.py prints has exactly the rows it was asked  *)
(* for, and each says what the file of that target holds.                  *)
THEOREM SummaryIsTrue == Spec => []ReportMatchesFiles
<1>1. IInv => ReportMatchesFiles
  <2> SUFFICES ASSUME IInv, drv = "done"
               PROVE  /\ DOMAIN totals = {jobs[i] : i \in 1 .. Len(jobs)}
                      /\ \A job \in DOMAIN totals : totals[job] = file[job].lines
    BY DEF ReportMatchesFiles
  <2>1. k - 1 = Len(jobs)
    BY DEF IInv, AllBehindWhenDone, TypeOK
  <2> QED
    BY <2>1 DEF IInv, TotalsAreBehind, TotalsAreStored, Behind
<1> QED
  BY <1>1, Invariance, PTL

(* While runs resume, a finished target's file is never touched again: not *)
(* by the loop, not by a crash, not while another target is written.       *)
THEOREM FinishedWorkIsKept == Spec => FinishedWorkSurvives
<1> DEFINE Kept == \A job \in Jobs :
                      resume /\ Finished(file[job]) => file'[job] = file[job]
<1>1. IInv /\ [Next]_vars => [Kept]_vars
  <2> SUFFICES ASSUME IInv, Next, NEW job \in Jobs, resume, Finished(file[job])
               PROVE  file'[job] = file[job]
    BY DEF vars
  <2> USE DEF IInv
  <2>1. CASE UNCHANGED file
    BY <2>1
  <2>2. CASE OpenFile
    <3>1. Current \in Jobs /\ ~Stored(Current)
      BY <2>2, CurrentIsJob DEF OpenFile, AtTarget, OnlyAbsentSwept
    <3>2. job # Current
      BY <3>1 DEF Finished, Stored
    <3> QED
      BY <2>2, <3>2 DEF OpenFile, TypeOK
  <2>3. CASE CloseFile \/ CrashWriting
    <3>1. Current \in Jobs /\ file[Current] = Empty
      BY <2>3, CurrentIsJob DEF CloseFile, CrashWriting, AtTarget, OnlyAbsentSwept
    <3>2. job # Current
      BY <3>1, TextTypes DEF Finished
    <3> QED
      BY <2>3, <3>2 DEF CloseFile, CrashWriting, TypeOK
  <2> QED
    BY <2>1, <2>2, <2>3
       DEF Next, DriverStep, Start, ResumeTarget, RunTarget, ChildStep, StreamEnds,
           WaitReturns, Summarise, Exit, Crash
<1> QED
  BY <1>1, Invariance, PTL DEF Spec, FinishedWorkSurvives
-----------------------------------------------------------------------------
(* The refinement.  What the batch sees of the driver's state:             *)
stored == [job \in Jobs |->
              IF drv = "write" /\ job = Current THEN Absent ELSE file[job]]
wanted == {jobs[i] : i \in 1 .. Len(jobs)}
published == IF drv = "done" THEN totals ELSE <<>>

(* The driver starts where the batch starts, and each of its steps is a    *)
(* step of the batch or none.                                              *)
LEMMA BatchInitially == IInv /\ Init => Batch!BatchInit
<1> SUFFICES ASSUME IInv, Init PROVE Batch!BatchInit
  OBVIOUS
<1>1. wanted = {}
  BY DEF Init, wanted
<1> QED
  BY <1>1 DEF Init, Batch!BatchInit, wanted

LEMMA BatchStep == IInv /\ IInv' /\ [Next]_vars => [Batch!BatchNext]_(Batch!batchVars)
<1> SUFFICES ASSUME IInv, IInv', [Next]_vars
             PROVE  [Batch!BatchNext]_(Batch!batchVars)
  OBVIOUS
<1> USE DEF IInv
<1>1. ASSUME UNCHANGED <<stored, wanted, resume, published>>
      PROVE  [Batch!BatchNext]_(Batch!batchVars)
  BY <1>1 DEF Batch!batchVars, stored, wanted, published
<1>2. ASSUME NEW request \in Requests, NEW again \in BOOLEAN, Start(request, again)
      PROVE  Batch!Ask
  <2>1. wanted = {} /\ wanted' \subseteq Jobs
    BY <1>2 DEF Start, DownIsBlank, TypeOK, wanted
  <2>2. UNCHANGED stored /\ UNCHANGED published
    BY <1>2 DEF Start, stored, published
  <2> QED
    BY <1>2, <2>1, <2>2 DEF Start, Batch!Ask, wanted, stored, published
<1>3. CASE ResumeTarget \/ RunTarget \/ ChildStep \/ StreamEnds \/ WaitReturns
  BY <1>1, <1>3
     DEF ResumeTarget, RunTarget, ChildStep, StreamEnds, WaitReturns, driverVars,
         stored, wanted, published
<1>4. CASE OpenFile
  <2>1. Current \in Jobs /\ Current \in wanted /\ Current' = Current
    BY <1>4, CurrentIsJob DEF OpenFile, AtTarget, Current, wanted
  <2>2. stored' = [stored EXCEPT ![Current] = Absent]
    BY <1>4, <2>1 DEF OpenFile, stored, TypeOK
  <2>3. UNCHANGED <<wanted, resume, published>>
    BY <1>4 DEF OpenFile, wanted, published
  <2>4. CASE resume
    <3>1. stored[Current] = Absent
      BY <1>4, <2>1, <2>4 DEF OpenFile, OnlyAbsentSwept, AbsentIsBlank, stored
    <3>2. UNCHANGED stored
      BY <2>2, <3>1 DEF stored
    <3> QED
      BY <1>1, <2>3, <3>2
  <2>5. CASE ~resume
    BY <2>1, <2>2, <2>3, <2>5
       DEF Batch!BatchNext, Batch!Discard, stored, wanted, published
  <2> QED
    BY <2>4, <2>5
<1>5. CASE CloseFile
  <2>1. Current \in Jobs /\ Current \in wanted /\ out \in Text
    BY <1>5, CurrentIsJob DEF CloseFile, AtTarget, Current, wanted, TypeOK, ChildTypeOK
  <2>2. stored[Current] = Absent /\ stored'[Current] = out
    BY <1>5, <2>1 DEF CloseFile, stored, TypeOK
  <2>3. stored' = [stored EXCEPT ![Current] = out]
    BY <1>5, <2>1 DEF CloseFile, stored, TypeOK
  <2>4. UNCHANGED <<wanted, resume, published>>
    BY <1>5 DEF CloseFile, wanted, published
  <2>5. \E job \in wanted : Batch!Stores(job)
    BY <2>1, <2>2, <2>3 DEF Batch!Stores, stored
  <2>6. Batch!Record
    BY <2>4, <2>5 DEF Batch!Record, wanted, published
  <2> QED
    BY <2>6 DEF Batch!BatchNext
<1>6. CASE Summarise
  <2>1. wanted = DOMAIN totals
    BY <1>6 DEF Summarise, TypeOK, TotalsAreBehind, Behind, wanted
  <2>2. \A job \in wanted : stored[job] = file[job] /\ stored[job] # Absent
                            /\ totals[job] = file[job].lines
    BY <1>6, <2>1, TextTypes DEF Summarise, TotalsAreStored, Stored, stored, TypeOK
  <2>3. totals = [job \in wanted |-> stored[job].lines]
    BY <2>1, <2>2 DEF TypeOK
  <2>4. published = <<>> /\ published' = totals
    BY <1>6 DEF Summarise, published
  <2>5. UNCHANGED <<stored, wanted, resume>>
    BY <1>6 DEF Summarise, stored, wanted
  <2> QED
    BY <2>2, <2>3, <2>4, <2>5
       DEF Batch!BatchNext, Batch!Publish, stored, wanted, published
<1>7. ASSUME Gone
      PROVE  wanted' = {} /\ (~resume)' = FALSE /\ published' = <<>>
             /\ stored' = file'
  BY <1>7 DEF Gone, wanted, published, stored, TypeOK
<1>8. CASE Exit \/ Crash
  <2>1. stored = file
    BY <1>8 DEF Exit, Crash, stored, TypeOK
  <2> QED
    BY <1>7, <1>8, <2>1
       DEF Exit, Crash, Batch!BatchNext, Batch!Leave, stored, wanted, published
<1>9. CASE CrashWriting
  <2>1. Current \in Jobs /\ Current \in wanted
    BY <1>9, CurrentIsJob DEF CrashWriting, AtTarget, Current, wanted
  <2>2. PICK text \in CutShort(out) : file' = [file EXCEPT ![Current] = text]
    BY <1>9 DEF CrashWriting
  <2>3. stored[Current] = Absent /\ stored'[Current] \in Text
    BY <1>7, <1>9, <2>1 DEF CrashWriting, stored, TypeOK
  <2>4. stored' = [stored EXCEPT ![Current] = stored'[Current]]
    BY <1>7, <1>9, <2>1, <2>2 DEF CrashWriting, stored, TypeOK
  <2>5. \E job \in wanted : Batch!Stores(job)
    BY <2>1, <2>3, <2>4 DEF Batch!Stores, stored
  <2>6. Batch!Leave
    BY <1>7, <1>9, <2>5 DEF CrashWriting, Batch!Leave, wanted, published
  <2> QED
    BY <2>6 DEF Batch!BatchNext
<1>10. CASE UNCHANGED vars
  BY <1>1, <1>10 DEF vars, stored, wanted, published, Current
<1> QED
  BY <1>2, <1>3, <1>4, <1>5, <1>6, <1>8, <1>9, <1>10
     DEF Next, DriverStep, Batch!BatchNext

(* The driver, its child and its files implement the resumable batch: what *)
(* is stored stays, and what is published is what is stored.               *)
THEOREM DriverImplementsBatch == Spec => ImplementsBatch
<1> QED
  BY BatchInitially, BatchStep, InitIInv, Invariance, PTL
     DEF Spec, ImplementsBatch, Batch!BatchSpec

(***************************************************************************)
(* The number of verdict lines of a text.                                  *)
(***************************************************************************)

(* The lines of the verdicts of S, numbered: as many as the counts add up  *)
(* to, which the fold of FinishedAccountsForAll is shown to be.            *)
Block(lines, v) == {v} \X (1 .. lines[v])
Entries(lines, S) == UNION {Block(lines, v) : v \in S}
Sum(lines) == Cardinality(Entries(lines, Verdicts))

(* A set of numbers with a member has a least one.                         *)
LEMMA LeastNumber ==
    ASSUME NEW S \in SUBSET Nat, S # {}
    PROVE  \E m \in S : \A n \in S : m <= n
<1>1. PICK m \in S : \A n \in S : ~(<<n, m>> \in OpToRel(<, Nat))
  BY WFMin, NatLessThanWellFounded, Zenon
<1>2. ASSUME NEW n \in S PROVE ~(n < m)
  <2> SUFFICES ASSUME n < m PROVE <<n, m>> \in OpToRel(<, Nat)
    BY <1>1
  <2>1. <<n, m>> \in Nat \X Nat
    OBVIOUS
  <2>2. <<n, m>>[1] < <<n, m>>[2]
    OBVIOUS
  <2> QED
    BY <2>1, <2>2, Zenon DEF OpToRel
<1> QED
  BY <1>2

(* The entries of a verdict are as many as its lines.                      *)
LEMMA BlockSize ==
    ASSUME NEW lines \in Tally, NEW v \in Verdicts
    PROVE  IsFiniteSet(Block(lines, v)) /\ Cardinality(Block(lines, v)) = lines[v]
<1> DEFINE n == lines[v]
           numbered == [i \in 1 .. n |-> <<v, i>>]
<1>1. n \in Nat
  BY DEF Tally
<1>2. numbered \in Bijection(1 .. n, Block(lines, v))
  <2>1. \A i, j \in 1 .. n : <<v, i>> = <<v, j>> => i = j
    OBVIOUS
  <2>2. \A i \in 1 .. n : <<v, i>> \in Block(lines, v)
    BY DEF Block
  <2>3. \A p \in Block(lines, v) : \E i \in 1 .. n : p = <<v, i>>
    BY DEF Block
  <2> HIDE DEF n
  <2>4. numbered \in Injection(1 .. n, Block(lines, v))
    BY <2>1, <2>2, Zenon DEF Injection, IsInjective
  <2>5. numbered \in Surjection(1 .. n, Block(lines, v))
    BY <2>2, <2>3, Zenon DEF Surjection
  <2> QED
    BY <2>4, <2>5 DEF Bijection
<1>3. IsFiniteSet(1 .. n) /\ Cardinality(1 .. n) = n
  BY <1>1, FS_Interval
<1>4. ExistsBijection(1 .. n, Block(lines, v))
  BY <1>2 DEF ExistsBijection
<1> QED
  BY <1>3, <1>4, FS_Bijection

(* There are finitely many entries.                                        *)
LEMMA EntriesFinite ==
    ASSUME NEW lines \in Tally, NEW S \in SUBSET Verdicts
    PROVE  IsFiniteSet(Entries(lines, S)) /\ Cardinality(Entries(lines, S)) \in Nat
<1> DEFINE blocks == {Block(lines, v) : v \in S}
           blockOf == [v \in S |-> Block(lines, v)]
<1>1. IsFiniteSet(S)
  BY VerdictsAssumption, FS_Subset
<1>2. blockOf \in Surjection(S, blocks)
  BY DEF Surjection
<1>3. IsFiniteSet(blocks)
  BY <1>1, <1>2, FS_Surjection
<1>4. \A T \in blocks : IsFiniteSet(T)
  BY BlockSize
<1>5. IsFiniteSet(Entries(lines, S))
  BY <1>3, <1>4, FS_UNION DEF Entries
<1> QED
  BY <1>5, FS_CardinalityType

(* Taking a verdict out takes its entries away.                            *)
LEMMA EntriesSplit ==
    ASSUME NEW lines \in Tally, NEW S \in SUBSET Verdicts, NEW v \in S
    PROVE  Cardinality(Entries(lines, S)) = lines[v] + Cardinality(Entries(lines, S \ {v}))
<1> DEFINE one == Block(lines, v)
           rest == Entries(lines, S \ {v})
<1>1. one \cup rest = Entries(lines, S)
  BY DEF Entries
<1>2. one \cap rest = {}
  BY DEF Entries, Block
<1>3. IsFiniteSet(one) /\ Cardinality(one) = lines[v] /\ lines[v] \in Nat
  BY BlockSize DEF Tally
<1>4. IsFiniteSet(rest) /\ Cardinality(rest) \in Nat
  BY EntriesFinite
<1>5. Cardinality(one \cup rest) = Cardinality(one) + Cardinality(rest) - Cardinality(one \cap rest)
  BY <1>3, <1>4, FS_Union
<1>6. Cardinality(one \cap rest) = 0
  BY <1>2, FS_EmptySet
<1> HIDE DEF one, rest
<1>7. Cardinality(one \cup rest) = lines[v] + Cardinality(rest)
  BY <1>3, <1>4, <1>5, <1>6
<1> QED
  BY <1>1, <1>7 DEF rest

(* The fold over the verdicts is that sum: the one function that satisfies *)
(* its recursion, by least counterexample.                                 *)
LEMMA FoldIsSum ==
    ASSUME NEW lines \in Tally
    PROVE  MapThenSumSet(LAMBDA v : lines[v], Verdicts) = Sum(lines)
<1> DEFINE Pick(s) == CHOOSE v \in s : TRUE
           Unfold(f) == [s \in SUBSET Verdicts |->
                           IF s = {} THEN 0 ELSE lines[Pick(s)] + f[s \ {Pick(s)}]]
           iter == CHOOSE f : f = Unfold(f)
           sum == [s \in SUBSET Verdicts |-> Cardinality(Entries(lines, s))]
<1>1. MapThenSumSet(LAMBDA v : lines[v], Verdicts) = iter[Verdicts]
  BY DEF MapThenSumSet, MapThenFoldSet
<1>2. \A s \in SUBSET Verdicts : s # {} => Pick(s) \in s
  OBVIOUS
<1>3. sum[{}] = 0
  <2>1. Entries(lines, {}) = {}
    BY DEF Entries
  <2> QED
    BY <2>1, FS_EmptySet
<1> HIDE DEF Pick
<1>4. \A s \in SUBSET Verdicts : s # {} => sum[s] = lines[Pick(s)] + sum[s \ {Pick(s)}]
  BY <1>2, EntriesSplit
<1>5. sum = Unfold(sum)
  BY <1>3, <1>4
<1>6. iter = Unfold(iter)
  <2> HIDE DEF Unfold
  <2> QED
    BY <1>5
<1>7. ASSUME NEW t \in SUBSET Verdicts, iter[t] # sum[t] PROVE FALSE
  <2> DEFINE wrong == {n \in Nat : \E s \in SUBSET Verdicts : Cardinality(s) = n /\ iter[s] # sum[s]}
  <2> HIDE DEF iter, sum
  <2>1. \A s \in SUBSET Verdicts : IsFiniteSet(s) /\ Cardinality(s) \in Nat
    BY VerdictsAssumption, FS_Subset, FS_CardinalityType
  <2>2. wrong # {} /\ wrong \in SUBSET Nat
    BY <1>7, <2>1
  <2>3. PICK m \in wrong : \A n \in wrong : m <= n
    BY <2>2, LeastNumber
  <2>4. PICK s \in SUBSET Verdicts : Cardinality(s) = m /\ iter[s] # sum[s]
    BY <2>3
  <2>5. s # {}
    BY <1>3, <1>6, <2>4
  <2>6. Cardinality(s \ {Pick(s)}) = m - 1 /\ m \in Nat
    BY <1>2, <2>1, <2>4, <2>5, FS_RemoveElement
  <2>7. s \ {Pick(s)} \in SUBSET Verdicts /\ Cardinality(s \ {Pick(s)}) \in Nat
    BY <2>1
  <2>8. m - 1 \notin wrong
    BY <2>3, <2>6
  <2>9. iter[s \ {Pick(s)}] = sum[s \ {Pick(s)}]
    BY <2>6, <2>7, <2>8
  <2> QED
    BY <1>4, <1>6, <2>4, <2>5, <2>9
<1>8. sum[Verdicts] = Sum(lines)
  BY DEF Sum
<1> HIDE DEF iter, sum
<1> QED
  BY <1>1, <1>7, <1>8

(***************************************************************************)
(* Every instruction of a target is counted.                               *)
(***************************************************************************)

(* While the driver is at a target, the lines printed and the instructions *)
(* left make up the target, until the output stops: after the summary      *)
(* there is nothing left.                                                  *)
OutAccounts ==
    drv \in {"stream", "wait", "open", "write"} =>
        /\ child = "running" => Sum(out.lines) + left = Insns[Current[1]]
        /\ Finished(out) => Sum(out.lines) = Insns[Current[1]] /\ left = 0
FilesAccount ==
    \A job \in Jobs : Finished(file[job]) => Sum(file[job].lines) = Insns[job[1]]
CountInv == OutAccounts /\ FilesAccount

(* No lines add up to nothing, and one more line to one more.              *)
LEMMA SumOfNone == Sum(NoLines) = 0
<1>1. Entries(NoLines, Verdicts) = {}
  BY DEF Entries, Block, NoLines
<1> QED
  BY <1>1, FS_EmptySet DEF Sum

(* One more line makes the sum one larger.                                 *)
LEMMA SumOfOneMore ==
    ASSUME NEW lines \in Tally, NEW v \in Verdicts
    PROVE  /\ Sum(lines) \in Nat
           /\ Sum([lines EXCEPT ![v] = @ + 1]) = Sum(lines) + 1
<1> DEFINE more == [lines EXCEPT ![v] = @ + 1]
<1>1. more \in Tally /\ more[v] = lines[v] + 1 /\ lines[v] \in Nat
  BY DEF Tally
<1>2. \A w \in Verdicts \ {v} : more[w] = lines[w]
  BY DEF Tally
<1> HIDE DEF more
<1>3. Entries(more, Verdicts \ {v}) = Entries(lines, Verdicts \ {v})
  BY <1>2 DEF Entries, Block
<1>4. /\ Cardinality(Entries(more, Verdicts)) = more[v] + Cardinality(Entries(more, Verdicts \ {v}))
      /\ Cardinality(Entries(lines, Verdicts)) = lines[v] + Cardinality(Entries(lines, Verdicts \ {v}))
  BY <1>1, EntriesSplit
<1>5. Cardinality(Entries(lines, Verdicts \ {v})) \in Nat
  BY EntriesFinite
<1>6. Sum(lines) \in Nat /\ Sum(more) = Sum(lines) + 1
  BY <1>1, <1>3, <1>4, <1>5 DEF Sum
<1> QED
  BY <1>6 DEF more

(* Every step keeps CountInv.                                              *)
LEMMA KeepsCountInv == IInv /\ CountInv /\ [Next]_vars => CountInv'
<1> SUFFICES ASSUME IInv, CountInv, [Next]_vars PROVE CountInv'
  OBVIOUS
<1> USE DEF CountInv
<1>0. TypeOK /\ AtTarget /\ out \in Text /\ left \in Nat
  BY DEF IInv, TypeOK, ChildTypeOK
<1>1. ASSUME NEW request \in Requests, NEW again \in BOOLEAN, Start(request, again)
      PROVE  CountInv'
  BY <1>1 DEF Start, OutAccounts, FilesAccount
<1>2. CASE ResumeTarget \/ Summarise \/ Exit \/ Crash
  BY <1>2 DEF ResumeTarget, Summarise, Exit, Crash, Gone, OutAccounts, FilesAccount
<1>3. CASE RunTarget
  <2>1. Current' = Current /\ Insns[Current[1]] \in Nat
    BY <1>0, <1>3, CurrentIsJob DEF RunTarget, Current
  <2>2. Sum(out'.lines) + left' = Insns[Current[1]] /\ ~Finished(out')
    BY <1>3, <2>1, SumOfNone DEF RunTarget, Spawn, Empty, Finished
  <2> QED
    BY <1>3, <2>1, <2>2 DEF RunTarget, OutAccounts, FilesAccount
<1>4. CASE ChildStep
  <2>1. UNCHANGED <<drv, jobs, k, file>> /\ drv = "stream" /\ Current' = Current
    BY <1>4 DEF ChildStep, driverVars, Current
  <2>2. ASSUME NEW v \in Verdicts, PrintVerdict(v) PROVE OutAccounts'
    <3>1. /\ out'.lines = [out.lines EXCEPT ![v] = @ + 1] /\ out'.end = out.end
          /\ child = "running" /\ child' = "running" /\ left' = left - 1 /\ left > 0
      BY <1>0, <2>2 DEF PrintVerdict, Text
    <3>2. out.lines \in Tally
      BY <1>0 DEF Text
    <3>3. Sum(out.lines) \in Nat /\ Sum(out'.lines) = Sum(out.lines) + 1
      BY <3>1, <3>2, SumOfOneMore
    <3>4. Sum(out'.lines) + left' = Insns[Current[1]] /\ ~Finished(out')
      BY <1>0, <2>1, <3>1, <3>3 DEF OutAccounts, Finished
    <3> QED
      BY <2>1, <3>4 DEF OutAccounts
  <2>3. ASSUME PrintSummary PROVE OutAccounts'
    <3>1. /\ out'.lines = out.lines /\ child = "running" /\ left = 0 /\ left' = 0
      BY <1>0, <2>3 DEF PrintSummary, Text
    <3>2. Sum(out.lines) \in Nat
      BY <1>0, EntriesFinite DEF Text, Sum
    <3> QED
      BY <2>1, <3>1, <3>2 DEF OutAccounts
  <2>4. ASSUME CloseOutput PROVE OutAccounts'
    BY <2>1, <2>4 DEF CloseOutput, OutAccounts
  <2>5. OutAccounts'
    BY <1>4, <2>2, <2>3, <2>4 DEF ChildStep, ChildProgress
  <2> QED
    BY <2>1, <2>5 DEF FilesAccount
<1>5. CASE StreamEnds \/ WaitReturns
  BY <1>5 DEF StreamEnds, WaitReturns, Reaped, childVars, Current, OutAccounts, FilesAccount
<1>6. ASSUME NEW text \in Text, k <= Len(jobs), file' = [file EXCEPT ![Current] = text],
             Finished(text) => Sum(text.lines) = Insns[Current[1]]
      PROVE  FilesAccount'
  <2>1. \A job \in Jobs : file'[job] = (IF job = Current THEN text ELSE file[job])
    BY <1>0, <1>6 DEF TypeOK
  <2> QED
    BY <1>6, <2>1 DEF FilesAccount
<1>7. CASE OpenFile
  <2>1. FilesAccount'
    BY <1>0, <1>6, <1>7, TextTypes DEF OpenFile, AtTarget, Finished
  <2> QED
    BY <1>7, <2>1 DEF OpenFile, childVars, Current, OutAccounts
<1>8. CASE CloseFile
  <2>1. FilesAccount'
    BY <1>0, <1>6, <1>8 DEF CloseFile, AtTarget, OutAccounts
  <2> QED
    BY <1>8, <2>1 DEF CloseFile, OutAccounts
<1>9. CASE CrashWriting
  <2>1. PICK text \in CutShort(out) : file' = [file EXCEPT ![Current] = text]
    BY <1>9 DEF CrashWriting
  <2>2. k <= Len(jobs) /\ Insns[Current[1]] \in Nat
    BY <1>0, <1>9, CurrentIsJob DEF CrashWriting, AtTarget
  <2>3. text \in Text /\ ~Finished(text)
    BY <2>1, <2>2 DEF CutShort, Text, Tally, Finished
  <2>4. FilesAccount'
    BY <1>6, <2>1, <2>2, <2>3
  <2> QED
    BY <1>9, <2>4 DEF CrashWriting, Gone, OutAccounts
<1>10. CASE UNCHANGED vars
  BY <1>10 DEF vars, Current, OutAccounts, FilesAccount
<1> QED
  BY <1>1, <1>2, <1>3, <1>4, <1>5, <1>7, <1>8, <1>9, <1>10 DEF Next, DriverStep

(* A finished target accounts for each of its instructions exactly once,   *)
(* whatever came before it: earlier targets, killed attempts, crashes.     *)
THEOREM FinishedIsWhole == Spec => []FinishedAccountsForAll
<1>1. Init => CountInv
  BY DEF Init, CountInv, OutAccounts, FilesAccount, Finished, Absent
<1>2. IInv /\ CountInv => FinishedAccountsForAll
  <2> SUFFICES ASSUME IInv, CountInv, NEW job \in Jobs, Finished(file[job])
               PROVE  MapThenSumSet(LAMBDA v : file[job].lines[v], Verdicts) = Insns[job[1]]
    BY DEF FinishedAccountsForAll
  <2>1. file[job].lines \in Tally
    BY DEF IInv, TypeOK, Text
  <2>2. MapThenSumSet(LAMBDA v : file[job].lines[v], Verdicts) = Sum(file[job].lines)
    BY <2>1, FoldIsSum
  <2> QED
    BY <2>2 DEF CountInv, FilesAccount
<1> QED
  BY Invariance, <1>1, <1>2, KeepsCountInv, PTL DEF Spec
=============================================================================
