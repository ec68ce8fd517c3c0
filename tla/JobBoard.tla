------------------------------ MODULE JobBoard ------------------------------
(***************************************************************************)
(* What the conversion pipeline promises, with no queue, cache, handler or *)
(* process in sight: a submitted job is worked on, possibly several times, *)
(* and ends once, as a success that has a gif or as a failure.             *)
(***************************************************************************)
CONSTANT Jobs

VARIABLES
    state,    \* of each job
    results   \* the gifs recorded, each <<job, attempt>>

boardVars == <<state, results>>

States == {"absent", "pending", "running", "succeeded", "failed"}

BoardInit ==
    /\ state = [j \in Jobs |-> "absent"]
    /\ results = {}

\* One job changes state; what was recorded stays.
Move(j, from, to) ==
    /\ state[j] = from
    /\ state' = [state EXCEPT ![j] = to]
    /\ UNCHANGED results

Submit(j) == Move(j, "absent", "pending")
Begin(j)  == Move(j, "pending", "running")
Fail(j)   == Move(j, "running", "failed")

Succeed(j) ==
    /\ \E r \in results : r[1] = j
    /\ Move(j, "running", "succeeded")

\* A worker goes away and the jobs it was running are pending again.
Interrupt ==
    /\ \E J \in SUBSET {j \in Jobs : state[j] = "running"} :
          state' = [j \in Jobs |-> IF j \in J THEN "pending" ELSE state[j]]
    /\ UNCHANGED results

\* A job that was submitted records more gifs, maybe after it has ended: a
\* worker that lost its connection does not know.
Record(j) ==
    /\ state[j] # "absent"
    /\ results \subseteq results' /\ results' # results
    /\ \A r \in results' \ results : r[1] = j
    /\ UNCHANGED state

BoardNext ==
    \/ \E j \in Jobs : Submit(j) \/ Begin(j) \/ Succeed(j) \/ Fail(j) \/ Record(j)
    \/ Interrupt

BoardSpec == BoardInit /\ [][BoardNext]_boardVars
=============================================================================
