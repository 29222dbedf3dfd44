------------------------------- MODULE SweepAll -------------------------------
(***************************************************************************)
(* python-isla/sweep_all.py: the batch driver.  For every requested        *)
(* extension, at RV32 and then at RV64, it starts one opcode_sweep.py,     *)
(* streams its output, stores the text in _results/<label>-rv<xlen>.txt    *)
(* and adds the counts of its verdict lines to the totals that the final   *)
(* summary prints.  The stored files outlive the driver: a later run reads *)
(* the file of a target instead of sweeping it again (SWEEP_RESUME, on     *)
(* unless set to 0).                                                       *)
(*                                                                         *)
(* The driver and its child are two processes; the files are the only      *)
(* state that survives the death of both.  Opening a file for writing      *)
(* truncates it and the text arrives when the file is closed, so the two   *)
(* are steps of their own, and the driver can die between them.            *)
(***************************************************************************)
EXTENDS SweepChild, Sequences

CONSTANTS
    Labels,      \* extension labels of GROUPS
    Requests,    \* the argument lists a run may be started with
    Insns        \* Insns[label]: instructions parsed from the label's files

ASSUME RequestsAssumption == Requests \subseteq Seq(Labels)
ASSUME InsnsAssumption == Insns \in [Labels -> Nat]

VARIABLES
    drv,      \* where the driver is
    jobs,     \* the targets this run was asked for, in order
    k,        \* the target the loop is at
    resume,   \* SWEEP_RESUME of this run
    totals,   \* what the summary will print, for the targets behind k
    file      \* _results: what each target's file holds

driverVars == <<drv, jobs, k, resume, totals>>
vars == <<drv, jobs, k, resume, totals, file, child, left, out>>

Xlens == {32, 64}
Jobs == Labels \X Xlens
Absent == [lines |-> NoLines, end |-> "absent"]

(* The targets of an argument list: every label at both widths, in order.  *)
JobsOf(request) ==
    [i \in 1 .. 2 * Len(request) |->
        <<request[(i + 1) \div 2], IF i % 2 = 1 THEN 32 ELSE 64>>]

Current == jobs[k]
Stored(job) == file[job].end # "absent"
Finished(text) == text.end = "summary"
Resumable == resume /\ Stored(Current)

Init ==
    /\ drv = "down"
    /\ jobs = <<>>
    /\ k = 1
    /\ resume = TRUE
    /\ totals = <<>>
    /\ file = [job \in Jobs |-> Absent]
    /\ ChildInit

(* Mutant of AddTotal: the text itself is kept, not the counts.            *)
AddTotalText(job, text) ==
    totals' = [j \in DOMAIN totals \cup {job} |->
                  IF j = job THEN text ELSE totals[j]]

(* totals[key] = dict(...)                                                 *)
AddTotal(job, text) ==
    totals' = [j \in DOMAIN totals \cup {job} |->
                  IF j = job THEN text.lines ELSE totals[j]]

Start(request, again) ==
    /\ drv = "down"
    /\ drv' = "next"
    /\ jobs' = JobsOf(request)
    /\ k' = 1
    /\ resume' = again
    /\ totals' = <<>>
    /\ UNCHANGED <<file, childVars>>

(* Mutant of ResumeTarget: the counts are taken from the variable that     *)
(* still holds the last child's output.                                    *)
ResumeCountsLastOutput ==
    /\ drv = "next"
    /\ k <= Len(jobs)
    /\ Resumable
    /\ AddTotal(Current, out)
    /\ k' = k + 1
    /\ UNCHANGED <<drv, jobs, resume, file, childVars>>

ResumeTarget ==
    /\ drv = "next"
    /\ k <= Len(jobs)
    /\ Resumable
    /\ AddTotal(Current, file[Current])
    /\ k' = k + 1
    /\ UNCHANGED <<drv, jobs, resume, file, childVars>>

(* Mutants of RunTarget: the missing `continue`, which sweeps a target     *)
(* that was resumable; and a result file opened before the sweep starts.   *)
RunTargetAlways ==
    /\ drv = "next"
    /\ k <= Len(jobs)
    /\ drv' = "stream"
    /\ Spawn(Insns[Current[1]])
    /\ UNCHANGED <<jobs, k, resume, totals, file>>

RunTargetOpensFile ==
    /\ drv = "next"
    /\ k <= Len(jobs)
    /\ ~Resumable
    /\ drv' = "stream"
    /\ Spawn(Insns[Current[1]])
    /\ file' = [file EXCEPT ![Current] = Empty]
    /\ UNCHANGED <<jobs, k, resume, totals>>

RunTarget ==
    /\ drv = "next"
    /\ k <= Len(jobs)
    /\ ~Resumable
    /\ drv' = "stream"
    /\ Spawn(Insns[Current[1]])
    /\ UNCHANGED <<jobs, k, resume, totals, file>>

(* The child's own steps.  Each line is collected as it is printed; a line *)
(* still in the pipe when the driver dies is lost with what it had         *)
(* collected, so the pipe needs no state.                                  *)
ChildStep ==
    /\ drv = "stream"
    /\ ChildProgress
    /\ UNCHANGED <<driverVars, file>>

(* Mutant of StreamEnds: the driver reads until it has seen the summary.   *)
StreamEndsAtSummary ==
    /\ drv = "stream"
    /\ child = "exiting"
    /\ Finished(out)
    /\ drv' = "wait"
    /\ UNCHANGED <<jobs, k, resume, totals, file, childVars>>

(* `for line in proc.stdout` ends only when the output closes: nothing     *)
(* else leaves the loop, the timeout included.                             *)
StreamEnds ==
    /\ drv = "stream"
    /\ child = "exiting"
    /\ drv' = "wait"
    /\ UNCHANGED <<jobs, k, resume, totals, file, childVars>>

(* proc.wait(timeout) returns, or times out and the child is killed: its   *)
(* exit code is not looked at, and the line the timeout appends is no      *)
(* verdict, so the two leave the same state.                               *)
WaitReturns ==
    /\ drv = "wait"
    /\ drv' = "open"
    /\ Reaped
    /\ UNCHANGED <<jobs, k, resume, totals, file>>

OpenFile ==
    /\ drv = "open"
    /\ drv' = "write"
    /\ file' = [file EXCEPT ![Current] = Empty]
    /\ UNCHANGED <<jobs, k, resume, totals, childVars>>

CloseFile ==
    /\ drv = "write"
    /\ drv' = "next"
    /\ file' = [file EXCEPT ![Current] = out]
    /\ AddTotal(Current, out)
    /\ k' = k + 1
    /\ UNCHANGED <<jobs, resume, childVars>>

(* The loop is over and the SUMMARY table is printed.                      *)
Summarise ==
    /\ drv = "next"
    /\ k > Len(jobs)
    /\ drv' = "done"
    /\ UNCHANGED <<jobs, k, resume, totals, file, childVars>>

(* What is left of both processes once they are gone: nothing.             *)
Gone ==
    /\ drv' = "down"
    /\ jobs' = <<>>
    /\ k' = 1
    /\ resume' = TRUE
    /\ totals' = <<>>
    /\ child' = "none"
    /\ left' = 0
    /\ out' = Empty

Exit ==
    /\ drv = "done"
    /\ Gone
    /\ UNCHANGED file

(* The texts a file can hold when its writer dies before closing it.       *)
CutShort(text) ==
    {[lines |-> l, end |-> "cut"] :
        l \in {m \in [Verdicts -> 0 .. Insns[Current[1]]] :
                  \A v \in Verdicts : m[v] <= text.lines[v]}}

(* The machine goes down, or driver and child are killed together.         *)
Crash ==
    /\ drv \notin {"down", "done", "write"}
    /\ Gone
    /\ UNCHANGED file

CrashWriting ==
    /\ drv = "write"
    /\ Gone
    /\ \E text \in CutShort(out) : file' = [file EXCEPT ![Current] = text]

DriverStep ==
    \/ ResumeTarget
    \/ RunTarget
    \/ StreamEnds
    \/ WaitReturns
    \/ OpenFile
    \/ CloseFile
    \/ Summarise
    \/ Exit

Next ==
    \/ \E request \in Requests, again \in BOOLEAN : Start(request, again)
    \/ DriverStep
    \/ ChildStep
    \/ Crash
    \/ CrashWriting

Spec == Init /\ [][Next]_vars

(* The driver is an ordinary running process.  The child is one too: every *)
(* simulator and generator call it makes carries a timeout of its own.     *)
(* Nothing makes a user start a run, and nothing makes a crash happen.     *)
DriverFair == Spec /\ WF_vars(DriverStep)
FairSpec == DriverFair /\ WF_vars(ChildStep)
=============================================================================
