------------------------------ MODULE JobQueue ------------------------------
(***************************************************************************)
(* The remote job queue of the Worker (worker/jobs.go).                    *)
(*                                                                         *)
(* Every live job is in one object, jobs/index.json, changed only by a     *)
(* compare-and-swap.  A request to the Worker that changes it (mutate)     *)
(* reads the clock, loads the index, ends what time has ended (sweep),     *)
(* archives what leaves the index, applies its handler and stores the      *)
(* result only if nobody stored first; otherwise it starts again.          *)
(*                                                                         *)
(* Slots are the requests in flight.  The clock is one number every        *)
(* request reads; MaxHold bounds how far it moves between a request's      *)
(* reading of it and its swap, and MaxClock bounds it for TLC.             *)
(***************************************************************************)
EXTENDS Integers, FiniteSets

CONSTANTS
  Jobs,          \* job ids: newJobID draws them at random, so never twice
  Callers,       \* names of the callers' tokens
  None,          \* no job, no caller
  Slots,         \* requests the Worker serves at once
  Timeouts,      \* the timeouts a spec may ask for
  LeaseFor, UploadTTL, QueueTTL, Overhead, KeepFor,
  MaxQueued,     \* live jobs per caller
  MaxIndexJobs,  \* jobs in the index
  MaxAttempts,   \* swaps a request tries (16)
  MaxHold,       \* bound: ticks between a request's clock and its swap
  MaxClock       \* bound: the last tick

ASSUME NoneAssumption == None \notin Jobs \cup Callers
ASSUME FiniteJobs == IsFiniteSet(Jobs)
ASSUME TimeAssumption ==
  /\ Timeouts \subseteq Nat
  /\ {LeaseFor, UploadTTL, QueueTTL, Overhead, KeepFor} \subseteq Nat
ASSUME BoundAssumption ==
  {MaxQueued, MaxIndexJobs, MaxAttempts, MaxHold, MaxClock} \subseteq Nat

VARIABLES
  clock,     \* env.Now()
  index,     \* jobs/index.json
  archive,   \* jobs/<id>/job.json
  blobs,     \* the stored objects of the jobs: <<id, name>>
  req,       \* the requests in flight
  granted,   \* history: how many claims were answered with each job
  cancelled  \* history: jobs whose cancel was stored before they ended

vars == <<clock, index, archive, blobs, req, granted, cancelled>>

-----------------------------------------------------------------------------
(* Jobs and the index.                                                     *)

Waiting == {"uploading", "queued"}
Live    == Waiting \cup {"running"}
Final   == {"finished", "cancelled", "expired", "lost", "timed-out"}

Names == {"input", "result"}   \* the binary, and one result file

Job == [state: Live \cup Final \cup {"absent"}, owner: Callers \cup {None},
        timeout: Nat, created: Nat, queued: Nat, started: Nat, lease: Nat,
        finished: Nat, cancel: BOOLEAN, files: SUBSET Names]

Absent == [state |-> "absent", owner |-> None, timeout |-> 0, created |-> 0,
           queued |-> 0, started |-> 0, lease |-> 0, finished |-> 0,
           cancel |-> FALSE, files |-> {}]

Index == [Jobs -> Job]

Present(ix)     == {id \in Jobs : ix[id].state # "absent"}
LiveOf(ix, who) == {id \in Jobs : ix[id].state \in Live /\ ix[id].owner = who}
Queued(ix)      == {id \in Jobs : ix[id].state = "queued"}

\* Mutant of Limit: every heartbeat moves the limit.
LimitFromLease(j) == j.lease + j.timeout + Overhead

\* When a running job ends however well its Mac reports.
Limit(j) == j.started + j.timeout + Overhead

Ended(j, state, at) == [j EXCEPT !.state = state, !.finished = at]

\* What time has made of one job: it ends at its deadline, not when noticed.
Swept(j, now) ==
  CASE j.state = "uploading" /\ now - j.created > UploadTTL ->
         Ended(j, "expired", j.created + UploadTTL)
    [] j.state = "queued" /\ now - j.queued > QueueTTL ->
         Ended(j, "expired", j.queued + QueueTTL)
    [] j.state = "running" /\ now > j.lease /\ j.lease < Limit(j) ->
         Ended(j, "lost", j.lease)
    [] j.state = "running" /\ now > Limit(j) /\ j.lease >= Limit(j) ->
         Ended(j, "timed-out", Limit(j))
    [] OTHER -> j

\* A job old enough to leave the index, once swept.
Gone(j, now) == Swept(j, now).state \in Final /\ now - Swept(j, now).finished > KeepFor

Sweep(ix, now) ==
  [id \in Jobs |-> IF Gone(ix[id], now) THEN Absent ELSE Swept(ix[id], now)]

\* Mutant of Archived: the record is written as stored, not as swept.
ArchivedUnswept(ar, ix, now) ==
  [id \in Jobs |-> IF Gone(ix[id], now) /\ ar[id].state = "absent" THEN ix[id] ELSE ar[id]]

\* Create-only: a record archived by an attempt that lost its swap stays.
Archived(ar, ix, now) ==
  [id \in Jobs |-> IF Gone(ix[id], now) /\ ar[id].state = "absent"
                   THEN Swept(ix[id], now) ELSE ar[id]]

\* What a reader is shown of a job: loadIndex sweeps without storing, and
\* findJob falls back to the archive.
Shown(id) == LET j == Sweep(index, clock)[id]
             IN  IF j.state = "absent" THEN archive[id] ELSE j
-----------------------------------------------------------------------------
(* Requests.                                                               *)

Ops == {"submit", "input", "cancel", "claim", "heartbeat", "file", "finish"}

\* put: storing a blob.  load: an attempt of mutate has read the clock.
\* swap: it has loaded the index and knows what to store.
Steps == {"idle", "put", "load", "swap"}

Request == [pc: Steps, op: Ops \cup {"none"}, job: Jobs \cup {None},
            owner: Callers \cup {None}, timeout: Nat, names: SUBSET Names,
            now: Nat, tries: Nat, loaded: Index]

NoIndex == [id \in Jobs |-> Absent]

Idle == [pc |-> "idle", op |-> "none", job |-> None, owner |-> None,
         timeout |-> 0, names |-> {}, now |-> 0, tries |-> 0,
         loaded |-> NoIndex]

\* Mutant of Submit: one job too many.
SubmitOneMore(r, ix) ==
  IF /\ Cardinality(LiveOf(ix, r.owner)) <= MaxQueued
     /\ Cardinality(Present(ix)) <= MaxIndexJobs
  THEN {[ix EXCEPT ![r.job] = [Absent EXCEPT !.state = "uploading", !.owner = r.owner,
                                 !.timeout = r.timeout, !.created = r.now]]}
  ELSE {}

\* The handlers: the indexes each may make of a swept one, none when it
\* refuses.
Submit(r, ix) ==
  IF /\ Cardinality(LiveOf(ix, r.owner)) < MaxQueued
     /\ Cardinality(Present(ix)) < MaxIndexJobs
  THEN {[ix EXCEPT ![r.job] = [Absent EXCEPT !.state = "uploading", !.owner = r.owner,
                                 !.timeout = r.timeout, !.created = r.now]]}
  ELSE {}

Input(r, ix) ==
  IF ix[r.job].state = "uploading"
  THEN {[ix EXCEPT ![r.job] = [@ EXCEPT !.state = "queued", !.queued = r.now]]}
  ELSE {}

\* Mutants of Cancel: a running job ended under its Mac; a state no sweep knows.
CancelAtOnce(r, ix) ==
  IF ix[r.job].state \in Live THEN {[ix EXCEPT ![r.job] = Ended(@, "cancelled", r.now)]}
  ELSE {ix}

CancelNewState(r, ix) ==
  IF ix[r.job].state \in Live THEN {[ix EXCEPT ![r.job].state = "cancelling"]} ELSE {ix}

Cancel(r, ix) ==
  CASE ix[r.job].state = "absent"  -> {}
    [] ix[r.job].state \in Waiting ->
         {[ix EXCEPT ![r.job] = Ended(@, "cancelled", r.now)]}
    [] ix[r.job].state = "running" -> {[ix EXCEPT ![r.job].cancel = TRUE]}
    [] OTHER                       -> {ix}

\* The oldest queued job.  Equal stamps go in the order of the index, which
\* is not kept here: either may go first.
Oldest(ix) == {id \in Queued(ix) : \A o \in Queued(ix) : ix[id].queued <= ix[o].queued}

Claim(r, ix) ==
  {[ix EXCEPT ![id] = [@ EXCEPT !.state = "running", !.started = r.now,
                         !.lease = r.now + LeaseFor]] : id \in Oldest(ix)}

\* Mutant of Heartbeat: it takes a lost job up again.
HeartbeatRevives(r, ix) ==
  IF ix[r.job].state \in {"running", "lost"}
  THEN {[ix EXCEPT ![r.job].state = "running", ![r.job].lease = r.now + LeaseFor]}
  ELSE {}

Heartbeat(r, ix) ==
  IF ix[r.job].state = "running"
  THEN {[ix EXCEPT ![r.job].lease = r.now + LeaseFor]}
  ELSE {}

\* Mutant of Finish: the result wins over a cancel.
FinishOverCancel(r, ix) ==
  IF ix[r.job].state = "running"
  THEN {[ix EXCEPT ![r.job] = [@ EXCEPT !.state = "finished", !.finished = r.now,
                                 !.files = r.names]]}
  ELSE {}

Finish(r, ix) ==
  IF ix[r.job].state = "running"
  THEN {[ix EXCEPT ![r.job] = [@ EXCEPT !.state = IF ix[r.job].cancel THEN "cancelled"
                                          ELSE "finished",
                                 !.finished = r.now, !.files = r.names]]}
  ELSE {}

Handle(r, ix) ==
  CASE r.op = "submit"    -> Submit(r, ix)
    [] r.op = "input"     -> Input(r, ix)
    [] r.op = "cancel"    -> Cancel(r, ix)
    [] r.op = "claim"     -> Claim(r, ix)
    [] r.op = "heartbeat" -> Heartbeat(r, ix)
    [] r.op = "finish"    -> Finish(r, ix)
    [] OTHER              -> {}
-----------------------------------------------------------------------------
Init ==
  /\ clock = 0
  /\ index = NoIndex
  /\ archive = NoIndex
  /\ blobs = {}
  /\ req = [s \in Slots |-> Idle]
  /\ granted = [id \in Jobs |-> 0]
  /\ cancelled = {}

Goto(s, r) == req' = [req EXCEPT ![s] = r]

\* An attempt of mutate begins by reading the clock.
Attempt(s, r) == Goto(s, [r EXCEPT !.pc = "load", !.now = clock, !.loaded = NoIndex])

\* An id newJobID may draw: one no request, record or index has.
Unused(id) ==
  /\ index[id].state = "absent" /\ archive[id].state = "absent"
  /\ \A s \in Slots : req[s].job # id /\ req[s].loaded[id].state = "absent"

\* POST /api/jobs: the spec is checked, an id drawn, and the index mutated.
SubmitArrives(s) ==
  /\ req[s].pc = "idle"
  /\ \E id \in Jobs, who \in Callers, t \in Timeouts :
       /\ Unused(id)
       /\ Attempt(s, [Idle EXCEPT !.op = "submit", !.job = id,
                      !.owner = who, !.timeout = t])
  /\ UNCHANGED <<clock, index, archive, blobs, granted, cancelled>>

\* PUT /api/jobs/{id}/input: refused unless a reader sees the job uploading.
InputArrives(s) ==
  /\ req[s].pc = "idle"
  /\ \E id \in Jobs :
       /\ Shown(id).state = "uploading"
       /\ Goto(s, [Idle EXCEPT !.pc = "put", !.op = "input", !.job = id,
                      !.names = {"input"}])
  /\ UNCHANGED <<clock, index, archive, blobs, granted, cancelled>>

\* POST /api/jobs/{id}/cancel: refused unless the caller has such a job.
CancelArrives(s) ==
  /\ req[s].pc = "idle"
  /\ \E id \in Jobs :
       /\ Shown(id).state # "absent"
       /\ Attempt(s, [Idle EXCEPT !.op = "cancel", !.job = id])
  /\ UNCHANGED <<clock, index, archive, blobs, granted, cancelled>>

\* POST /api/runner/claim.
ClaimArrives(s) ==
  /\ req[s].pc = "idle"
  /\ Attempt(s, [Idle EXCEPT !.op = "claim"])
  /\ UNCHANGED <<clock, index, archive, blobs, granted, cancelled>>

\* POST /api/runner/jobs/{id}/heartbeat, from a Mac that was given the job.
HeartbeatArrives(s) ==
  /\ req[s].pc = "idle"
  /\ \E id \in Jobs :
       /\ granted[id] > 0
       /\ Attempt(s, [Idle EXCEPT !.op = "heartbeat", !.job = id])
  /\ UNCHANGED <<clock, index, archive, blobs, granted, cancelled>>

\* PUT /api/runner/jobs/{id}/files/{name}: refused unless a reader sees the
\* job running; then the file is stored, whatever the job has become.
FileArrives(s) ==
  /\ req[s].pc = "idle"
  /\ \E id \in Jobs :
       /\ granted[id] > 0
       /\ Sweep(index, clock)[id].state = "running"
       /\ Goto(s, [Idle EXCEPT !.pc = "put", !.op = "file", !.job = id,
                      !.names = {"result"}])
  /\ UNCHANGED <<clock, index, archive, blobs, granted, cancelled>>

\* Mutant of FinishArrives: the files it names are not looked up.
FinishUnchecked(s) ==
  /\ req[s].pc = "idle"
  /\ \E id \in Jobs, names \in SUBSET {"result"} :
       /\ granted[id] > 0
       /\ Attempt(s, [Idle EXCEPT !.op = "finish", !.job = id, !.names = names])
  /\ UNCHANGED <<clock, index, archive, blobs, granted, cancelled>>

\* POST /api/runner/jobs/{id}/finish: refused unless each file it names is
\* stored.
FinishArrives(s) ==
  /\ req[s].pc = "idle"
  /\ \E id \in Jobs, names \in SUBSET {"result"} :
       /\ granted[id] > 0
       /\ \A n \in names : <<id, n>> \in blobs
       /\ Attempt(s, [Idle EXCEPT !.op = "finish", !.job = id,
                      !.names = names])
  /\ UNCHANGED <<clock, index, archive, blobs, granted, cancelled>>

\* Put: R2 checks the digest as the bytes arrive and stores all or nothing.
PutBlob(s) ==
  /\ req[s].pc = "put"
  /\ blobs' = blobs \cup ({req[s].job} \X req[s].names)
  /\ IF req[s].op = "input" THEN Attempt(s, [req[s] EXCEPT !.names = {}])
     ELSE Goto(s, Idle)
  /\ UNCHANGED <<clock, index, archive, granted, cancelled>>

\* The attempt loads the index, sweeps it, archives what leaves, and runs its
\* handler: a refusal is answered at once, with what was archived kept.
Load(s) ==
  /\ req[s].pc = "load"
  /\ archive' = Archived(archive, index, req[s].now)
  /\ Goto(s, IF Handle(req[s], Sweep(index, req[s].now)) = {} THEN Idle
              ELSE [req[s] EXCEPT !.pc = "swap", !.loaded = index])
  /\ UNCHANGED <<clock, index, blobs, granted, cancelled>>

\* Mutant of Store: a plain put, whatever was stored since the load.
StorePlain(s) ==
  LET r     == req[s]
      swept == Sweep(r.loaded, r.now)
  IN  /\ r.pc = "swap"
      /\ index' \in Handle(r, swept)
      /\ Goto(s, Idle)
      /\ granted' = [id \in Jobs |-> IF r.op = "claim" /\ index'[id] # swept[id]
                                     THEN granted[id] + 1 ELSE granted[id]]
      /\ cancelled' = IF r.op = "cancel" /\ swept[r.job].state \in Live
                      THEN cancelled \cup {r.job} ELSE cancelled
      /\ UNCHANGED <<clock, archive, blobs>>

\* The swap finds the index as it was loaded, and stores.
Store(s) ==
  LET r     == req[s]
      swept == Sweep(r.loaded, r.now)
  IN  /\ r.pc = "swap"
      /\ index = r.loaded
      /\ index' \in Handle(r, swept)
      /\ Goto(s, Idle)
      /\ granted' = [id \in Jobs |-> IF r.op = "claim" /\ index'[id] # swept[id]
                                     THEN granted[id] + 1 ELSE granted[id]]
      /\ cancelled' = IF r.op = "cancel" /\ swept[r.job].state \in Live
                      THEN cancelled \cup {r.job} ELSE cancelled
      /\ UNCHANGED <<clock, archive, blobs>>

\* Someone stored first: after a pause, again from the clock; or, attempts
\* spent, errContention.
LoseSwap(s) ==
  /\ req[s].pc = "swap"
  /\ index # req[s].loaded
  /\ IF req[s].tries + 1 >= MaxAttempts THEN Goto(s, Idle)
     ELSE Attempt(s, [req[s] EXCEPT !.tries = @ + 1])
  /\ UNCHANGED <<clock, index, archive, blobs, granted, cancelled>>

\* The bucket fails, the body stops arriving or does not hash, or the Worker
\* is evicted: the request ends where it is.
Fail(s) ==
  /\ req[s].pc # "idle"
  /\ Goto(s, Idle)
  /\ UNCHANGED <<clock, index, archive, blobs, granted, cancelled>>

\* A request on its way from the clock it read to its swap, or to the end of the
\* pause after a lost one.  Whether the index is still the one it loaded says
\* nothing here: a heartbeat with an older clock brings an earlier index back.
Holds(s) == req[s].pc \in {"load", "swap"}

Tick ==
  /\ clock < MaxClock
  /\ \A s \in Slots : Holds(s) => clock < req[s].now + MaxHold
  /\ clock' = clock + 1
  /\ UNCHANGED <<index, archive, blobs, req, granted, cancelled>>

Next ==
  \/ \E s \in Slots :
       \/ SubmitArrives(s) \/ InputArrives(s) \/ CancelArrives(s)
       \/ ClaimArrives(s) \/ HeartbeatArrives(s) \/ FileArrives(s) \/ FinishArrives(s)
       \/ PutBlob(s) \/ Load(s) \/ Store(s) \/ LoseSwap(s) \/ Fail(s)
  \/ Tick

Spec == Init /\ [][Next]_vars
-----------------------------------------------------------------------------
(* Properties.                                                             *)

TypeOK ==
  /\ clock \in Nat
  /\ index \in Index
  /\ archive \in Index
  /\ blobs \subseteq Jobs \X Names
  /\ req \in [Slots -> Request]
  /\ granted \in [Jobs -> Nat]
  /\ cancelled \subseteq Jobs

\* A job is given to at most one Mac, however many claims, heartbeats and
\* retries race for it.
GrantedOnce == \A id \in Jobs : granted[id] <= 1

\* No caller has more than MaxQueued live jobs, nor the index more than
\* MaxIndexJobs, although every submit counted before it stored.
WithinLimits ==
  /\ \A who \in Callers : Cardinality(LiveOf(index, who)) <= MaxQueued
  /\ Cardinality(Present(index)) <= MaxIndexJobs

\* A job whose cancel was stored while it was live is never reported as
\* finished; one cancelled before it was claimed is never given to a Mac.
CancelHonoured ==
  \A id \in cancelled :
    /\ index[id].state # "finished" /\ archive[id].state # "finished"
    /\ index[id].state = "cancelled" /\ ~index[id].cancel => granted[id] = 0

\* A job waiting for a Mac, or with one, has its binary stored; a record
\* lists only result files that are stored.
StoredBeforeUse ==
  \A id \in Jobs :
    /\ index[id].state \in {"queued", "running", "finished"} => <<id, "input">> \in blobs
    /\ \A n \in index[id].files \cup archive[id].files : <<id, n>> \in blobs

\* However its requests are delayed, no job is shown as live past the sum of
\* its deadlines.
EndsInTime ==
  \A id \in Jobs :
    clock > Shown(id).created + UploadTTL + QueueTTL + Shown(id).timeout + Overhead
      => Shown(id).state \notin Live

\* A job leaves the index only into the archive, as it last was.
LeavesArchived ==
  [][\A id \in Jobs :
       index[id].state # "absent" /\ index'[id].state = "absent" =>
         /\ archive'[id].state \in Final
         /\ index[id].state \in Final => archive'[id] = index[id]]_vars

\* What a reader is shown as the end of a job stands once every request that
\* read its clock before then has stored or given up; until then a late write
\* may still change it, so a reader asking sooner may be told otherwise.
ShownEndSettles ==
  [][\A id \in Jobs :
       Shown(id).state \in Final /\ clock > Shown(id).finished + MaxHold
         => Shown(id)' \in {Shown(id), Absent}]_vars

\* A job the index took is always shown, from the index or from its archive.
AlwaysShown ==
  \A id \in Jobs : index[id].state # "absent" \/ archive[id].state # "absent"
                     => Shown(id).state # "absent"

\* What is stored of a job, in the index or after it left.
Kept(id) == IF index[id].state = "absent" THEN archive[id] ELSE index[id]

Jobwise == INSTANCE JobLifecycle WITH
  phase    <- [id \in Jobs |-> IF Kept(id).state = "absent" THEN "none" ELSE Kept(id).state],
  stopping <- [id \in Jobs |-> Kept(id).cancel],
  runs     <- granted

\* The queue keeps the lifecycle: whatever requests race, lose their swap,
\* retry or die, what is stored of each job moves as JobLifecycle says.
KeepsLifecycle == Jobwise!Lifecycle
=============================================================================
