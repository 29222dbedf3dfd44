------------------------------ MODULE SweepChild ------------------------------
(***************************************************************************)
(* What one opcode_sweep.py process looks like to the driver that started  *)
(* it: it prints one verdict line for each instruction it was asked to     *)
(* sweep, then its summary, and then its standard output closes.  It may   *)
(* also die, and then its output simply stops short.                       *)
(*                                                                         *)
(* Output is abstracted to what its readers tell apart: how many lines of  *)
(* each verdict it holds, and whether the summary was reached.  Module     *)
(* OpcodeSweep is the detailed process that implements this one.           *)
(***************************************************************************)
EXTENDS Naturals, FiniteSets

CONSTANT Verdicts   \* the words a verdict line starts with

ASSUME VerdictsAssumption == IsFiniteSet(Verdicts)

VARIABLES
    child,   \* "none", "running", or "exiting": output closed, not yet reaped
    left,    \* instructions the process has still to print a verdict for
    out      \* the text it has printed so far

childVars == <<child, left, out>>

Tally == [Verdicts -> Nat]
NoLines == [v \in Verdicts |-> 0]

(* "absent" is the text of a file that is not there; "cut" a text that     *)
(* stops before the summary; "summary" the text of a sweep that finished.  *)
Text == [lines: Tally, end: {"absent", "cut", "summary"}]
Empty == [lines |-> NoLines, end |-> "cut"]

ChildTypeOK ==
    /\ child \in {"none", "running", "exiting"}
    /\ left \in Nat
    /\ out \in Text

ChildInit ==
    /\ child = "none"
    /\ left = 0
    /\ out = Empty

(* Mutant of Spawn: `lines` is not emptied for a new child.                *)
SpawnKeepsLines(n) ==
    /\ child = "none"
    /\ child' = "running"
    /\ left' = n
    /\ UNCHANGED out

Spawn(n) ==
    /\ child = "none"
    /\ child' = "running"
    /\ left' = n
    /\ out' = Empty

PrintVerdict(v) ==
    /\ child = "running"
    /\ left > 0
    /\ left' = left - 1
    /\ out' = [out EXCEPT !.lines[v] = @ + 1]
    /\ UNCHANGED child

PrintSummary ==
    /\ child = "running"
    /\ left = 0
    /\ out.end = "cut"
    /\ out' = [out EXCEPT !.end = "summary"]
    /\ UNCHANGED <<child, left>>

(* The process ends and its output closes: normally after the summary, at  *)
(* any other point because it was killed, ran out of memory or raised.     *)
CloseOutput ==
    /\ child = "running"
    /\ child' = "exiting"
    /\ UNCHANGED <<left, out>>

Reaped ==
    /\ child = "exiting"
    /\ child' = "none"
    /\ UNCHANGED <<left, out>>

ChildProgress == (\E v \in Verdicts : PrintVerdict(v)) \/ PrintSummary \/ CloseOutput

ChildNext == (left' \in Nat /\ Spawn(left')) \/ ChildProgress \/ Reaped

ChildSpec == ChildInit /\ [][ChildNext]_childVars
=============================================================================
