---------------------------- MODULE JobLifecycle ----------------------------
(***************************************************************************)
(* What the queue promises of each job, with no index, clock, lease or     *)
(* compare-and-swap: a job is taken once at most, a cancel that was taken  *)
(* is never answered with a result, and an end is an end (wire/jobs.go's   *)
(* states; worker/jobs.go keeps the promise, see JobQueue).                *)
(***************************************************************************)
EXTENDS Integers

CONSTANT Jobs

VARIABLES
  phase,     \* the job's state, "none" before it is submitted
  stopping,  \* its caller asked a running job to stop
  runs       \* how many Macs it was given to

jobVars == <<phase, stopping, runs>>

Ends   == {"finished", "cancelled", "expired", "lost", "timed-out"}
Phases == {"none", "uploading", "queued", "running"} \cup Ends

PhaseOK ==
  /\ phase \in [Jobs -> Phases]
  /\ stopping \in [Jobs -> BOOLEAN]
  /\ runs \in [Jobs -> Nat]

Start ==
  /\ phase = [id \in Jobs |-> "none"]
  /\ stopping = [id \in Jobs |-> FALSE]
  /\ runs = [id \in Jobs |-> 0]

Stays(id) == /\ phase'[id] = phase[id]
             /\ stopping'[id] = stopping[id]
             /\ runs'[id] = runs[id]

\* One job goes from one phase to another, with nothing else told of it.
Goes(id, from, to) == /\ phase[id] = from /\ phase'[id] = to
                      /\ stopping'[id] = stopping[id] /\ runs'[id] = runs[id]

\* Time ends it.
Deadline(id) == \/ Goes(id, "uploading", "expired")
                \/ Goes(id, "queued", "expired")
                \/ Goes(id, "running", "lost")
                \/ Goes(id, "running", "timed-out")

\* Its caller or its Mac moves it.
Taken(id) == /\ phase[id] = "queued" /\ phase'[id] = "running"
             /\ runs[id] = 0 /\ runs'[id] = 1
             /\ stopping'[id] = stopping[id]

AskedToStop(id) == /\ phase[id] = "running" /\ phase'[id] = "running"
                   /\ stopping'[id] = TRUE /\ runs'[id] = runs[id]

Moved(id) ==
  \/ Goes(id, "none", "uploading")
  \/ Goes(id, "uploading", "queued")
  \/ Goes(id, "uploading", "cancelled")
  \/ Goes(id, "queued", "cancelled")
  \/ Taken(id)
  \/ AskedToStop(id)
  \/ ~stopping[id] /\ Goes(id, "running", "finished")
  \/ stopping[id] /\ Goes(id, "running", "cancelled")

\* One write moves one job, and ends any others whose time has come.
Step ==
  /\ \E id \in Jobs :
       /\ Moved(id) \/ Deadline(id)
       /\ \A o \in Jobs \ {id} : Stays(o) \/ Deadline(o)
  /\ PhaseOK'

Lifecycle == Start /\ [][Step]_jobVars
=============================================================================
