---------------------------- MODULE SweepAllProps ----------------------------
(***************************************************************************)
(* What sweep_all.py is meant to guarantee, stated over module SweepAll.   *)
(***************************************************************************)
EXTENDS SweepAll, FiniteSetsExt

TypeOK ==
    /\ drv \in {"down", "next", "stream", "wait", "open", "write", "done"}
    /\ jobs \in Seq(Jobs)
    /\ k \in 1 .. Len(jobs) + 1
    /\ resume \in BOOLEAN
    /\ DOMAIN totals \subseteq Jobs
    /\ totals \in [DOMAIN totals -> Tally]
    /\ file \in [Jobs -> Text]
    /\ ChildTypeOK

(* The printed SUMMARY has a row for every target that was asked for, and  *)
(* each row counts the verdict lines of the file that is on disk for it,   *)
(* whether this run swept the target or resumed it, and in whatever order  *)
(* or however often the arguments name it.                                 *)
ReportMatchesFiles ==
    drv = "done" =>
        /\ DOMAIN totals = {jobs[i] : i \in 1 .. Len(jobs)}
        /\ \A job \in DOMAIN totals : totals[job] = file[job].lines

(* A finished target accounts for each of its instructions exactly once:   *)
(* no line of an earlier target, of a killed attempt or of a resumed file  *)
(* is counted into it, and none of its own is lost.                        *)
FinishedAccountsForAll ==
    \A job \in Jobs :
        Finished(file[job]) =>
            MapThenSumSet(LAMBDA v : file[job].lines[v], Verdicts) = Insns[job[1]]

(* "A full sweep is hours of work and has now been lost twice": while runs *)
(* resume, no step changes the file of a target that finished, and that    *)
(* includes a crash at any point of any other target.                      *)
FinishedWorkSurvives ==
    [][\A job \in Jobs :
          resume /\ Finished(file[job]) => file'[job] = file[job]]_vars

(* The driver implements the resumable batch.  A file that has been opened *)
(* and not yet closed is a result that is not stored yet.                  *)
Batch == INSTANCE ResumableBatch WITH
    AllJobs <- Jobs,
    Results <- Text,
    Nothing <- Absent,
    store <- [job \in Jobs |->
                 IF drv = "write" /\ job = Current THEN Absent ELSE file[job]],
    asked <- {jobs[i] : i \in 1 .. Len(jobs)},
    anew <- ~resume,
    report <- IF drv = "done" THEN totals ELSE <<>>

ImplementsBatch == Batch!BatchSpec

(* A run that starts comes to its SUMMARY unless it is killed: the driver  *)
(* and the child never wait for each other forever.                        *)
EveryRunEnds == (drv = "next") ~> (drv \in {"done", "down"})

(***************************************************************************)
(* Claims of the source that the program does not keep.                    *)
(***************************************************************************)

(* sweep_all.py:149: a result file is "written only after the target       *)
(* completes, so a target interrupted half-way is re-run rather than       *)
(* resumed with partial results": whatever a run resumes is finished.      *)
ResumesOnlyFinished ==
    drv = "next" /\ k <= Len(jobs) /\ Resumable => Finished(file[Current])

(* SWEEP_TIMEOUT is a wall clock "for this extension/XLEN": whatever the   *)
(* child does, the driver stops streaming its output at some point.        *)
WallClockEndsStream == (drv = "stream") ~> (drv # "stream")
=============================================================================
