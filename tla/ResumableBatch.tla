---------------------------- MODULE ResumableBatch ----------------------------
(***************************************************************************)
(* What a batch that can be resumed promises, whatever it runs: a stored   *)
(* result stays until a run that was told to start anew discards it, and a *)
(* report is published only when every job that was asked for has a stored *)
(* result, and says exactly what is stored.                                *)
(***************************************************************************)
CONSTANTS
    AllJobs,
    Results,
    Nothing      \* the value of a job with no stored result

VARIABLES
    store,       \* the stored result of each job
    asked,       \* the jobs of the active run, {} when there is none
    anew,        \* the active run does not resume
    report       \* what the active run has published, <<>> before that

batchVars == <<store, asked, anew, report>>

BatchInit ==
    /\ store = [job \in AllJobs |-> Nothing]
    /\ asked = {}
    /\ anew = FALSE
    /\ report = <<>>

Ask ==
    /\ asked = {}
    /\ asked' \subseteq AllJobs
    /\ anew' \in BOOLEAN
    /\ UNCHANGED <<store, report>>

Stores(job) ==
    /\ store[job] = Nothing
    /\ store'[job] \in Results
    /\ store' = [store EXCEPT ![job] = store'[job]]

Record == 
    /\ \E job \in asked : Stores(job)
    /\ UNCHANGED <<asked, anew, report>>

Discard ==
    /\ anew
    /\ \E job \in asked : store' = [store EXCEPT ![job] = Nothing]
    /\ UNCHANGED <<asked, anew, report>>

Publish ==
    /\ report = <<>>
    /\ \A job \in asked : store[job] # Nothing
    /\ report' = [job \in asked |-> store[job].lines]
    /\ UNCHANGED <<store, asked, anew>>

(* The run is over.  One that is killed may leave one more result behind.  *)
Leave ==
    /\ asked' = {}
    /\ anew' = FALSE
    /\ report' = <<>>
    /\ \/ UNCHANGED store
       \/ \E job \in asked : Stores(job)

BatchNext == Ask \/ Record \/ Discard \/ Publish \/ Leave

BatchSpec == BatchInit /\ [][BatchNext]_batchVars
=============================================================================
