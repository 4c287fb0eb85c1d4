--------------------------- MODULE JobQueueProofs ---------------------------
(***************************************************************************)
(* Proofs about JobQueue, for every number of jobs, callers and requests   *)
(* and every limit: types, one Mac per job, cancels honoured, files stored *)
(* before they are used, and every job over in time.  While no request is  *)
(* held up for as long as an ended job is kept in the index, also that a   *)
(* job leaves the index only into the archive, that an end a reader was    *)
(* shown stands, and that the queue implements JobLifecycle.               *)
(***************************************************************************)
EXTENDS JobQueue, FiniteSetTheorems, TLAPS

\* A request in flight has an operation, and all but a claim name a job.
RequestsOK ==
  \A s \in Slots :
    req[s].pc # "idle" => /\ req[s].op \in Ops
                          /\ req[s].op # "claim" => req[s].job \in Jobs
                          /\ req[s].pc = "put" =>
                               \/ req[s].op = "input" /\ req[s].names = {"input"}
                               \/ req[s].op = "file"

\* No claim was answered with a job still waiting, or with one unknown.
WaitingUngranted ==
  \A id \in Jobs :
    /\ index[id].state \in Waiting => granted[id] = 0
    /\ index[id].state = "absent" /\ archive[id].state = "absent"
         => granted[id] = 0 /\ id \notin cancelled

\* A submit in flight has its job to itself.
SubmitFresh ==
  \A s \in Slots :
    req[s].pc # "idle" /\ req[s].op = "submit" =>
      /\ index[req[s].job].state = "absent"
      /\ archive[req[s].job].state = "absent"
      /\ \A t \in Slots \ {s} : req[t].job # req[s].job

\* What an attempt is about to drop from the index, it has archived.
DropsArchived ==
  \A s \in Slots : \A id \in Jobs :
    req[s].pc = "swap" /\ Gone(req[s].loaded[id], req[s].now)
      => archive[id].state # "absent"

\* A job archived as finished, maybe by an attempt that lost its swap, is
\* finished in the index for as long as it is there.
ArchivedEnded ==
  \A id \in Jobs : archive[id].state = "finished"
                     => index[id].state \in {"finished", "absent"}

\* A cancel leaves a job that can only end cancelled, lost or timed out.
CancelSticks ==
  \A id \in Jobs :
    /\ id \in cancelled => /\ index[id].state \notin Waiting \cup {"finished"}
                           /\ index[id].state = "running" => index[id].cancel
                           /\ archive[id].state # "finished"
    /\ index[id].state = "cancelled" /\ ~index[id].cancel => granted[id] = 0

\* What a request is about to promise is stored already.
PromisesStored ==
  \A s \in Slots :
    req[s].pc \in {"load", "swap"} =>
      /\ req[s].op = "input" => <<req[s].job, "input">> \in blobs
      /\ \A n \in req[s].names : <<req[s].job, n>> \in blobs

Inv ==
  /\ TypeOK /\ RequestsOK
  /\ WaitingUngranted /\ SubmitFresh /\ DropsArchived /\ GrantedOnce
  /\ ArchivedEnded /\ CancelSticks
  /\ PromisesStored /\ StoredBeforeUse
-----------------------------------------------------------------------------
(* What sweeping and the handlers do to one job.                           *)

LEMMA TimesAreNat ==
  /\ LeaseFor \in Nat /\ UploadTTL \in Nat /\ QueueTTL \in Nat
  /\ Overhead \in Nat /\ KeepFor \in Nat
BY TimeAssumption

LEMMA EndedIsJob ==
  ASSUME NEW j \in Job, NEW state \in Final, NEW at \in Nat
  PROVE  /\ Ended(j, state, at) \in Job
         /\ Ended(j, state, at).state = state
         /\ Ended(j, state, at).owner = j.owner
         /\ Ended(j, state, at).cancel = j.cancel
         /\ Ended(j, state, at).files = j.files
BY DEF Ended, Job

LEMMA BoundsAreNat == MaxQueued \in Nat /\ MaxIndexJobs \in Nat
BY BoundAssumption

\* Time changes a live job only, ends it, and leaves the rest of it alone.
LEMMA SweptEnds ==
  ASSUME NEW j \in Job, NEW now \in Nat
  PROVE  /\ Swept(j, now) \in Job
         /\ \/ Swept(j, now) = j
            \/ /\ j.state \in Live
               /\ Swept(j, now).state \in {"expired", "lost", "timed-out"}
         /\ Swept(j, now).owner = j.owner
         /\ Swept(j, now).cancel = j.cancel
         /\ Swept(j, now).files = j.files
<1>0. /\ Limit(j) \in Nat /\ j.lease \in Nat
      /\ j.created + UploadTTL \in Nat /\ j.queued + QueueTTL \in Nat
  BY TimesAreNat DEF Limit, Job
<1>1. CASE j.state = "uploading" /\ now - j.created > UploadTTL
  <2>1. Swept(j, now) = Ended(j, "expired", j.created + UploadTTL)
    BY <1>1 DEF Swept
  <2>2. "expired" \in Final
    BY DEF Final
  <2> DEFINE e == Ended(j, "expired", j.created + UploadTTL)
  <2>3. /\ e \in Job /\ e.state = "expired"
        /\ e.owner = j.owner /\ e.cancel = j.cancel /\ e.files = j.files
    BY <1>0, <2>2, EndedIsJob
  <2> HIDE DEF e
  <2>4. Swept(j, now) = e
    BY <2>1 DEF e
  <2> QED BY <1>1, <2>3, <2>4 DEF Live, Waiting
<1>2. CASE j.state = "queued" /\ now - j.queued > QueueTTL
  <2>1. Swept(j, now) = Ended(j, "expired", j.queued + QueueTTL)
    BY <1>2 DEF Swept
  <2>2. "expired" \in Final
    BY DEF Final
  <2> DEFINE e == Ended(j, "expired", j.queued + QueueTTL)
  <2>3. /\ e \in Job /\ e.state = "expired"
        /\ e.owner = j.owner /\ e.cancel = j.cancel /\ e.files = j.files
    BY <1>0, <2>2, EndedIsJob
  <2> HIDE DEF e
  <2>4. Swept(j, now) = e
    BY <2>1 DEF e
  <2> QED BY <1>2, <2>3, <2>4 DEF Live, Waiting
<1>3. CASE j.state = "running" /\ now > j.lease /\ j.lease < Limit(j)
  <2>1. Swept(j, now) = Ended(j, "lost", j.lease)
    BY <1>0, <1>3 DEF Swept
  <2>2. "lost" \in Final
    BY DEF Final
  <2> DEFINE e == Ended(j, "lost", j.lease)
  <2>3. /\ e \in Job /\ e.state = "lost"
        /\ e.owner = j.owner /\ e.cancel = j.cancel /\ e.files = j.files
    BY <1>0, <2>2, EndedIsJob
  <2> HIDE DEF e
  <2>4. Swept(j, now) = e
    BY <2>1 DEF e
  <2> QED BY <1>3, <2>3, <2>4 DEF Live, Waiting
<1>4. CASE j.state = "running" /\ now > Limit(j) /\ j.lease >= Limit(j)
  <2>1. Swept(j, now) = Ended(j, "timed-out", Limit(j))
    BY <1>0, <1>4 DEF Swept
  <2>2. "timed-out" \in Final
    BY DEF Final
  <2> DEFINE e == Ended(j, "timed-out", Limit(j))
  <2>3. /\ e \in Job /\ e.state = "timed-out"
        /\ e.owner = j.owner /\ e.cancel = j.cancel /\ e.files = j.files
    BY <1>0, <2>2, EndedIsJob
  <2> HIDE DEF e
  <2>4. Swept(j, now) = e
    BY <2>1 DEF e
  <2> QED BY <1>4, <2>3, <2>4 DEF Live, Waiting
<1>5. CASE /\ ~(j.state = "uploading" /\ now - j.created > UploadTTL)
           /\ ~(j.state = "queued" /\ now - j.queued > QueueTTL)
           /\ ~(j.state = "running" /\ now > j.lease /\ j.lease < Limit(j))
           /\ ~(j.state = "running" /\ now > Limit(j) /\ j.lease >= Limit(j))
  <2>1. Swept(j, now) = j
    BY <1>5 DEF Swept
  <2> QED BY <2>1
<1> QED BY <1>1, <1>2, <1>3, <1>4, <1>5

LEMMA AbsentIsJob == Absent \in Job /\ NoIndex \in Index
BY DEF Absent, Job, Index, NoIndex, Final, Live, Waiting

\* Sweeping the index drops jobs that ended, and otherwise sweeps each.
LEMMA SweepEach ==
  ASSUME NEW ix \in Index, NEW now \in Nat
  PROVE  /\ Sweep(ix, now) \in Index
         /\ \A id \in Jobs :
              \/ /\ Sweep(ix, now)[id] = Absent
                 /\ Gone(ix[id], now)
                 /\ ix[id].state # "absent"
              \/ /\ Sweep(ix, now)[id] = Swept(ix[id], now)
                 /\ ~Gone(ix[id], now)
<1>1. ASSUME NEW id \in Jobs
      PROVE  /\ Sweep(ix, now)[id] \in Job
             /\ \/ /\ Sweep(ix, now)[id] = Absent
                   /\ Gone(ix[id], now)
                   /\ ix[id].state # "absent"
                \/ /\ Sweep(ix, now)[id] = Swept(ix[id], now)
                   /\ ~Gone(ix[id], now)
  <2>1. ix[id] \in Job
    BY DEF Index
  <2>2. Sweep(ix, now)[id] = IF Gone(ix[id], now) THEN Absent ELSE Swept(ix[id], now)
    BY DEF Sweep
  <2>3. CASE Gone(ix[id], now)
    <3>1. Swept(ix[id], now).state \in Final
      BY <2>3 DEF Gone
    <3>2. ix[id].state # "absent"
      BY <2>1, <3>1, SweptEnds DEF Final, Live, Waiting
    <3> QED BY <2>2, <2>3, <3>2, AbsentIsJob
  <2>4. CASE ~Gone(ix[id], now)
    BY <2>1, <2>2, <2>4, SweptEnds
  <2> QED BY <2>3, <2>4
<1>2. Sweep(ix, now) = [id \in Jobs |-> Sweep(ix, now)[id]]
  BY DEF Sweep
<1> QED BY <1>1, <1>2 DEF Index

\* What one handler does to one job of a swept index.
Move(r, id, old, new) ==
  \/ new = old
  \/ /\ r.op = "submit" /\ id = r.job
     /\ new.state = "uploading" /\ new.owner = r.owner /\ new.files = {} /\ ~new.cancel
  \/ /\ \/ /\ r.op = "input" /\ id = r.job
           /\ old.state = "uploading" /\ new.state = "queued"
           /\ new.files = old.files /\ new.cancel = old.cancel
        \/ /\ r.op = "cancel" /\ id = r.job
           /\ old.state \in Waiting /\ new.state = "cancelled"
           /\ new.files = old.files /\ new.cancel = old.cancel
        \/ /\ r.op = "cancel" /\ id = r.job
           /\ old.state = "running" /\ new.state = "running"
           /\ new.files = old.files /\ new.cancel
        \/ /\ r.op = "claim"
           /\ old.state = "queued" /\ new.state = "running"
           /\ new.files = old.files /\ new.cancel = old.cancel
        \/ /\ r.op = "heartbeat" /\ id = r.job
           /\ old.state = "running" /\ new.state = "running"
           /\ new.files = old.files /\ new.cancel = old.cancel
        \/ /\ r.op = "finish" /\ id = r.job
           /\ old.state = "running"
           /\ new.state = IF old.cancel THEN "cancelled" ELSE "finished"
           /\ new.files = r.names /\ new.cancel = old.cancel
     /\ new.owner = old.owner

\* A claim moves at most one job; any other handler, the one it names; and a
\* cancel that is taken leaves its job neither waiting nor free to finish.
LEMMA HandlerMoves ==
  ASSUME NEW r \in Request, NEW ix \in Index, NEW new \in Handle(r, ix),
         r.op \in Ops, r.op # "claim" => r.job \in Jobs
  PROVE  /\ new \in Index
         /\ \A id \in Jobs : Move(r, id, ix[id], new[id])
         /\ r.op = "cancel" =>
              /\ ix[r.job].state \in Waiting => new[r.job].state = "cancelled"
              /\ ix[r.job].state = "running" => new[r.job].cancel
<1>0. /\ \A id \in Jobs : ix[id] \in Job
      /\ r.now \in Nat /\ r.timeout \in Nat /\ r.names \subseteq Names
      /\ r.owner \in Callers \cup {None} /\ r.now + LeaseFor \in Nat
  BY TimesAreNat DEF Index, Request
<1>1. CASE r.op = "submit"
  <2> DEFINE j == [Absent EXCEPT !.state = "uploading",
                 !.owner = r.owner, !.timeout = r.timeout, !.created = r.now]
  <2>1. r.job \in Jobs /\ new = [ix EXCEPT ![r.job] = j]
    BY <1>1 DEF Handle, Submit
  <2>2. /\ j \in Job /\ j.state = "uploading" /\ j.owner = r.owner
        /\ j.files = {} /\ ~j.cancel
    BY <1>0 DEF Job, Absent, Live, Waiting
  <2> HIDE DEF j
  <2>3. /\ new \in Index /\ new[r.job] = j
        /\ \A o \in Jobs \ {r.job} : new[o] = ix[o]
    BY <2>1, <2>2 DEF Index
  <2> QED BY <1>1, <2>1, <2>2, <2>3 DEF Move
<1>2. CASE r.op = "input"
  <2> DEFINE j == [ix[r.job] EXCEPT !.state = "queued", !.queued = r.now]
  <2>1. /\ r.job \in Jobs /\ ix[r.job].state = "uploading"
        /\ new = [ix EXCEPT ![r.job] = j]
    BY <1>2 DEF Handle, Input
  <2>2. /\ j \in Job /\ j.state = "queued" /\ j.owner = ix[r.job].owner
        /\ j.files = ix[r.job].files
        /\ j.cancel = ix[r.job].cancel
    <3>1. ix[r.job] \in Job
      BY <1>0, <2>1
    <3> QED BY <1>0, <3>1 DEF Job, Live, Waiting
  <2> HIDE DEF j
  <2>3. /\ new \in Index /\ new[r.job] = j
        /\ \A o \in Jobs \ {r.job} : new[o] = ix[o]
    BY <2>1, <2>2 DEF Index
  <2> QED BY <1>2, <2>1, <2>2, <2>3 DEF Move
<1>3. CASE r.op = "cancel"
  <2>1. new \in Cancel(r, ix) /\ r.job \in Jobs
    BY <1>3 DEF Handle
  <2>2. CASE ix[r.job].state \in Waiting
    <3> DEFINE j == Ended(ix[r.job], "cancelled", r.now)
    <3>1. new = [ix EXCEPT ![r.job] = j]
      BY <2>1, <2>2 DEF Cancel, Waiting
    <3>2. "cancelled" \in Final 
      BY DEF Final
    <3>3. /\ j \in Job /\ j.state = "cancelled" /\ j.owner = ix[r.job].owner
          /\ j.files = ix[r.job].files
          /\ j.cancel = ix[r.job].cancel
      BY <1>0, <2>1, <3>2, EndedIsJob
    <3> HIDE DEF j
    <3>4. /\ new \in Index /\ new[r.job] = j
          /\ \A o \in Jobs \ {r.job} : new[o] = ix[o]
      BY <2>1, <3>1, <3>3 DEF Index
    <3> QED BY <1>3, <2>1, <2>2, <3>3, <3>4 DEF Move, Waiting
  <2>3. CASE ix[r.job].state = "running"
    <3> DEFINE j == [ix[r.job] EXCEPT !.cancel = TRUE]
    <3>1. new = [ix EXCEPT ![r.job] = j]
      BY <2>1, <2>3 DEF Cancel, Waiting
    <3>2. /\ j \in Job /\ j.state = "running" /\ j.owner = ix[r.job].owner
          /\ j.files = ix[r.job].files /\ j.cancel
      <4>1. ix[r.job] \in Job
        BY <1>0, <2>1
      <4> QED BY <2>3, <4>1 DEF Job
    <3> HIDE DEF j
    <3>3. /\ new \in Index /\ new[r.job] = j
          /\ \A o \in Jobs \ {r.job} : new[o] = ix[o]
      BY <2>1, <3>1, <3>2 DEF Index
    <3> QED BY <1>3, <2>1, <2>3, <3>2, <3>3 DEF Move, Waiting
  <2>4. CASE ix[r.job].state \notin Live
    <3>1. new = ix
      BY <2>1, <2>4 DEF Cancel, Live, Waiting
    <3> QED BY <1>3, <2>4, <3>1 DEF Move, Live, Waiting
  <2> QED BY <2>2, <2>3, <2>4 DEF Live
<1>4. CASE r.op = "claim"
  <2>1. PICK id \in Oldest(ix) :
          new = [ix EXCEPT ![id] = [@ EXCEPT !.state = "running", !.started = r.now,
                              !.lease = r.now + LeaseFor]]
    BY <1>4 DEF Handle, Claim
  <2>2. id \in Jobs /\ ix[id].state = "queued"
    BY <2>1 DEF Oldest, Queued
  <2> DEFINE j == [ix[id] EXCEPT !.state = "running", !.started = r.now,
                     !.lease = r.now + LeaseFor]
  <2>3. /\ j \in Job /\ j.state = "running" /\ j.owner = ix[id].owner
        /\ j.files = ix[id].files
        /\ j.cancel = ix[id].cancel
    BY <1>0, <2>2, TimesAreNat DEF Job, Live
  <2>4. new = [ix EXCEPT ![id] = j]
    BY <2>1
  <2> HIDE DEF j
  <2>5. new \in Index /\ new[id] = j /\ \A o \in Jobs \ {id} : new[o] = ix[o]
    BY <2>2, <2>3, <2>4 DEF Index
  <2> QED BY <1>4, <2>2, <2>3, <2>5 DEF Move
<1>5. CASE r.op = "heartbeat"
  <2> DEFINE j == [ix[r.job] EXCEPT !.lease = r.now + LeaseFor]
  <2>1. /\ r.job \in Jobs /\ ix[r.job].state = "running"
        /\ new = [ix EXCEPT ![r.job] = j]
    BY <1>5 DEF Handle, Heartbeat
  <2>2. /\ j \in Job /\ j.state = "running" /\ j.owner = ix[r.job].owner
        /\ j.files = ix[r.job].files
        /\ j.cancel = ix[r.job].cancel
    BY <1>0, <2>1, TimesAreNat DEF Job
  <2> HIDE DEF j
  <2>3. /\ new \in Index /\ new[r.job] = j
        /\ \A o \in Jobs \ {r.job} : new[o] = ix[o]
    BY <2>1, <2>2 DEF Index
  <2> QED BY <1>5, <2>1, <2>2, <2>3 DEF Move
<1>6. CASE r.op = "finish"
  <2> DEFINE j == [ix[r.job] EXCEPT
                     !.state = IF ix[r.job].cancel THEN "cancelled" ELSE "finished",
                     !.finished = r.now, !.files = r.names]
  <2>1. /\ r.job \in Jobs /\ ix[r.job].state = "running"
        /\ new = [ix EXCEPT ![r.job] = j]
    BY <1>6 DEF Handle, Finish
  <2>2. /\ j \in Job /\ j.owner = ix[r.job].owner /\ j.files = r.names
        /\ j.cancel = ix[r.job].cancel
        /\ j.state = IF ix[r.job].cancel THEN "cancelled" ELSE "finished"
    <3>1. ix[r.job] \in Job
      BY <1>0, <2>1
    <3> QED BY <1>0, <3>1 DEF Job, Final
  <2> HIDE DEF j
  <2>3. /\ new \in Index /\ new[r.job] = j
        /\ \A o \in Jobs \ {r.job} : new[o] = ix[o]
    BY <2>1, <2>2 DEF Index
  <2> QED BY <1>6, <2>1, <2>2, <2>3 DEF Move
<1>7. CASE r.op = "file"
  BY <1>7 DEF Handle
<1> QED BY <1>1, <1>2, <1>3, <1>4, <1>5, <1>6, <1>7 DEF Ops
-----------------------------------------------------------------------------
(* Types.                                                                  *)

LEMMA IdleIsRequest == Idle \in Request
BY AbsentIsJob DEF Idle, Request, Steps

LEMMA GotoChanges ==
  ASSUME req \in [Slots -> Request], NEW s \in Slots, NEW r \in Request, Goto(s, r)
  PROVE  /\ req' \in [Slots -> Request]
         /\ req'[s] = r
         /\ \A t \in Slots \ {s} : req'[t] = req[t]
BY DEF Goto

\* A new attempt is at "load", and is the request it was in all else.
LEMMA AttemptChanges ==
  ASSUME req \in [Slots -> Request], clock \in Nat,
         NEW s \in Slots, NEW r \in Request, Attempt(s, r)
  PROVE  /\ req' \in [Slots -> Request]
         /\ req'[s].pc = "load" /\ req'[s].op = r.op /\ req'[s].job = r.job
         /\ req'[s].names = r.names /\ req'[s].now = clock
         /\ \A t \in Slots \ {s} : req'[t] = req[t]
<1> DEFINE q == [r EXCEPT !.pc = "load", !.now = clock, !.loaded = NoIndex]
<1>1. /\ q \in Request /\ q.pc = "load" /\ q.op = r.op /\ q.job = r.job
      /\ q.names = r.names /\ q.now = clock
  BY AbsentIsJob DEF Request, Steps
<1>2. Goto(s, q)
  BY DEF Attempt
<1> HIDE DEF q
<1> QED BY <1>1, <1>2, GotoChanges

\* What an arriving request brings.
Arrives(s) ==
  /\ req[s].pc = "idle"
  /\ req' \in [Slots -> Request]
  /\ req'[s].pc \in {"put", "load"} /\ req'[s].op \in Ops
  /\ IF req'[s].op = "claim" THEN req'[s].job = None ELSE req'[s].job \in Jobs
  /\ req'[s].pc = "put" => \/ req'[s].op = "input" /\ req'[s].names = {"input"}
                           \/ req'[s].op = "file"
  /\ req'[s].pc = "load" => req'[s].op \notin {"input", "file"} /\ req'[s].now = clock
  /\ \A n \in req'[s].names : req'[s].pc = "load" => <<req'[s].job, n>> \in blobs
  /\ \A t \in Slots \ {s} : req'[t] = req[t]
  /\ UNCHANGED <<clock, index, archive, blobs, granted, cancelled>>

\* It brings a job of its own if it submits one, and otherwise one a reader
\* was shown or a Mac was given.
BringsJob(s) ==
  /\ req'[s].op = "submit" => Unused(req'[s].job)
  /\ req'[s].op \notin {"submit", "claim"} =>
       \/ Shown(req'[s].job).state # "absent"
       \/ granted[req'[s].job] > 0

LEMMA Arrivals ==
  ASSUME TypeOK, NEW s \in Slots,
         \/ SubmitArrives(s) \/ InputArrives(s) \/ CancelArrives(s)
         \/ ClaimArrives(s) \/ HeartbeatArrives(s) \/ FileArrives(s) \/ FinishArrives(s)
  PROVE  Arrives(s) /\ BringsJob(s)
<1> USE DEF Arrives, BringsJob, Ops
<1>0. req \in [Slots -> Request] /\ clock \in Nat
  BY DEF TypeOK
<1>1. CASE SubmitArrives(s)
  <2>1. PICK id \in Jobs, who \in Callers, t \in Timeouts :
          /\ Unused(id)
          /\ Attempt(s, [Idle EXCEPT !.op = "submit", !.job = id,
                      !.owner = who, !.timeout = t])
    BY <1>1 DEF SubmitArrives
  <2> DEFINE r == [Idle EXCEPT !.op = "submit", !.job = id, !.owner = who, !.timeout = t]
  <2>2. r \in Request /\ r.op = "submit" /\ r.job = id /\ r.names = {}
    BY IdleIsRequest, TimeAssumption DEF Request, Idle
  <2>3. Attempt(s, r)
    BY <2>1
  <2> HIDE DEF r
  <2> QED BY <1>0, <1>1, <2>1, <2>2, <2>3, AttemptChanges DEF SubmitArrives
<1>2. CASE InputArrives(s)
  <2>1. PICK id \in Jobs :
          /\ Shown(id).state = "uploading"
          /\ Goto(s, [Idle EXCEPT !.pc = "put", !.op = "input", !.job = id,
                      !.names = {"input"}])
    BY <1>2 DEF InputArrives
  <2> DEFINE r == [Idle EXCEPT !.pc = "put", !.op = "input", !.job = id,
                      !.names = {"input"}]
  <2>2. r \in Request /\ r.pc = "put" /\ r.op = "input" /\ r.job = id /\ r.names = {"input"}
    BY IdleIsRequest DEF Request, Idle, Steps, Names
  <2>3. Goto(s, r)
    BY <2>1
  <2> HIDE DEF r
  <2> QED BY <1>0, <1>2, <2>1, <2>2, <2>3, GotoChanges DEF InputArrives
<1>3. CASE CancelArrives(s)
  <2>1. PICK id \in Jobs :
          /\ Shown(id).state # "absent"
          /\ Attempt(s, [Idle EXCEPT !.op = "cancel", !.job = id])
    BY <1>3 DEF CancelArrives
  <2> DEFINE r == [Idle EXCEPT !.op = "cancel", !.job = id]
  <2>2. r \in Request /\ r.op = "cancel" /\ r.job = id /\ r.names = {}
    BY IdleIsRequest DEF Request, Idle
  <2>3. Attempt(s, r)
    BY <2>1
  <2> HIDE DEF r
  <2> QED BY <1>0, <1>3, <2>1, <2>2, <2>3, AttemptChanges DEF CancelArrives
<1>4. CASE ClaimArrives(s)
  <2> DEFINE r == [Idle EXCEPT !.op = "claim"]
  <2>2. r \in Request /\ r.op = "claim" /\ r.job = None /\ r.names = {}
    BY IdleIsRequest DEF Request, Idle
  <2>3. Attempt(s, r)
    BY <1>4 DEF ClaimArrives
  <2> HIDE DEF r
  <2> QED BY <1>0, <1>4, <2>2, <2>3, AttemptChanges DEF ClaimArrives
<1>5. CASE HeartbeatArrives(s)
  <2>1. PICK id \in Jobs :
          /\ granted[id] > 0
          /\ Attempt(s, [Idle EXCEPT !.op = "heartbeat", !.job = id])
    BY <1>5 DEF HeartbeatArrives
  <2> DEFINE r == [Idle EXCEPT !.op = "heartbeat", !.job = id]
  <2>2. r \in Request /\ r.op = "heartbeat" /\ r.job = id /\ r.names = {}
    BY IdleIsRequest DEF Request, Idle
  <2>3. Attempt(s, r)
    BY <2>1
  <2> HIDE DEF r
  <2> QED BY <1>0, <1>5, <2>1, <2>2, <2>3, AttemptChanges DEF HeartbeatArrives
<1>6. CASE FileArrives(s)
  <2>1. PICK id \in Jobs :
          /\ granted[id] > 0
          /\ Goto(s, [Idle EXCEPT !.pc = "put", !.op = "file", !.job = id,
                      !.names = {"result"}])
    BY <1>6 DEF FileArrives
  <2> DEFINE r == [Idle EXCEPT !.pc = "put", !.op = "file", !.job = id,
                      !.names = {"result"}]
  <2>2. r \in Request /\ r.pc = "put" /\ r.op = "file" /\ r.job = id
    BY IdleIsRequest DEF Request, Idle, Steps, Names
  <2>3. Goto(s, r)
    BY <2>1
  <2> HIDE DEF r
  <2> QED BY <1>0, <1>6, <2>1, <2>2, <2>3, GotoChanges DEF FileArrives
<1>7. CASE FinishArrives(s)
  <2>1. PICK id \in Jobs, names \in SUBSET {"result"} :
          /\ granted[id] > 0
          /\ \A n \in names : <<id, n>> \in blobs
          /\ Attempt(s, [Idle EXCEPT !.op = "finish", !.job = id, !.names = names])
    BY <1>7 DEF FinishArrives
  <2> DEFINE r == [Idle EXCEPT !.op = "finish", !.job = id, !.names = names]
  <2>2. r \in Request /\ r.op = "finish" /\ r.job = id /\ r.names = names
    BY IdleIsRequest DEF Request, Idle, Names
  <2>3. Attempt(s, r)
    BY <2>1
  <2> HIDE DEF r
  <2> QED BY <1>0, <1>7, <2>1, <2>2, <2>3, AttemptChanges DEF FinishArrives
<1> QED BY <1>1, <1>2, <1>3, <1>4, <1>5, <1>6, <1>7
-----------------------------------------------------------------------------
(* The steps of a request.                                                 *)

\* A request that ends, or starts another attempt of what it was doing,
\* without storing anything.
Continues(s) ==
  /\ req[s].pc # "idle"
  /\ req' \in [Slots -> Request]
  /\ \/ req'[s] = Idle
     \/ /\ req[s].pc = "swap" /\ req'[s].pc = "load"
        /\ req'[s].op = req[s].op /\ req'[s].job = req[s].job
        /\ req'[s].names = req[s].names /\ req'[s].now = clock
  /\ \A t \in Slots \ {s} : req'[t] = req[t]
  /\ UNCHANGED <<clock, index, archive, blobs, granted, cancelled>>

LEMMA Continuations ==
  ASSUME TypeOK, NEW s \in Slots, LoseSwap(s) \/ Fail(s)
  PROVE  Continues(s)
<1>0. req \in [Slots -> Request] /\ clock \in Nat /\ req[s] \in Request
  BY DEF TypeOK
<1>1. CASE Goto(s, Idle) /\ req[s].pc # "idle"
  BY <1>0, <1>1, IdleIsRequest, GotoChanges DEF Continues, LoseSwap, Fail
<1>2. CASE LoseSwap(s) /\ ~Goto(s, Idle)
  <2> DEFINE r == [req[s] EXCEPT !.tries = @ + 1]
  <2>1. /\ req[s].pc = "swap" /\ Attempt(s, r)
        /\ UNCHANGED <<clock, index, archive, blobs, granted, cancelled>>
    BY <1>2 DEF LoseSwap
  <2>2. r \in Request /\ r.op = req[s].op /\ r.job = req[s].job /\ r.names = req[s].names
    BY <1>0 DEF Request
  <2> HIDE DEF r
  <2> QED BY <1>0, <2>1, <2>2, AttemptChanges DEF Continues
<1> QED BY <1>1, <1>2 DEF Fail, LoseSwap

\* Load keeps the request and the clock it read, with the index as it is.
LEMMA LoadChanges ==
  ASSUME TypeOK, NEW s \in Slots, Load(s)
  PROVE  /\ req[s].pc = "load"
         /\ req' \in [Slots -> Request]
         /\ \/ req'[s] = Idle
            \/ /\ req'[s].pc = "swap" /\ req'[s].op = req[s].op
               /\ req'[s].job = req[s].job /\ req'[s].names = req[s].names
               /\ req'[s].now = req[s].now /\ req'[s].loaded = index
         /\ \A t \in Slots \ {s} : req'[t] = req[t]
<1> DEFINE r == [req[s] EXCEPT !.pc = "swap", !.loaded = index]
<1>0. req \in [Slots -> Request] /\ req[s] \in Request /\ index \in Index
  BY DEF TypeOK
<1>1. /\ r \in Request /\ r.pc = "swap" /\ r.op = req[s].op /\ r.job = req[s].job
      /\ r.names = req[s].names /\ r.now = req[s].now /\ r.loaded = index
  BY <1>0 DEF Request, Steps
<1>2. req[s].pc = "load" /\ (Goto(s, Idle) \/ Goto(s, r))
  BY DEF Load
<1> HIDE DEF r
<1> QED BY <1>0, <1>1, <1>2, IdleIsRequest, GotoChanges

\* It archives, once, what it found old enough; nothing leaves the archive.
LEMMA LoadArchives ==
  ASSUME TypeOK, NEW s \in Slots, Load(s)
  PROVE  /\ archive' \in Index
         /\ \A id \in Jobs :
              \/ /\ archive'[id] = archive[id]
                 /\ archive[id].state # "absent" \/ ~Gone(index[id], req[s].now)
              \/ /\ archive[id].state = "absent"
                 /\ Gone(index[id], req[s].now)
                 /\ archive'[id] = Swept(index[id], req[s].now)
                 /\ archive'[id].state # "absent"
         /\ UNCHANGED <<clock, index, blobs, granted, cancelled>>
<1>1. /\ archive' = Archived(archive, index, req[s].now)
      /\ UNCHANGED <<clock, index, blobs, granted, cancelled>>
  BY DEF Load
<1>2. archive \in Index /\ index \in Index /\ req[s].now \in Nat
  BY DEF TypeOK, Request
<1>3. ASSUME NEW id \in Jobs
      PROVE  /\ archive'[id] \in Job
             /\ \/ /\ archive'[id] = archive[id]
                   /\ archive[id].state # "absent" \/ ~Gone(index[id], req[s].now)
                \/ /\ archive[id].state = "absent"
                   /\ Gone(index[id], req[s].now)
                   /\ archive'[id] = Swept(index[id], req[s].now)
                   /\ archive'[id].state # "absent"
  <2>1. archive[id] \in Job /\ index[id] \in Job
    BY <1>2 DEF Index
  <2>2. archive'[id] = IF Gone(index[id], req[s].now) /\ archive[id].state = "absent"
                       THEN Swept(index[id], req[s].now) ELSE archive[id]
    BY <1>1 DEF Archived
  <2>3. Swept(index[id], req[s].now) \in Job
    BY <1>2, <2>1, SweptEnds
  <2>4. Gone(index[id], req[s].now) => Swept(index[id], req[s].now).state # "absent"
    BY DEF Gone, Final
  <2> QED BY <2>1, <2>2, <2>3, <2>4
<1>4. archive' = [id \in Jobs |-> archive'[id]]
  BY <1>1 DEF Archived
<1> QED BY <1>1, <1>3, <1>4 DEF Index


\* What a store makes of one job: j is what its attempt made of it in time.
StoresOne(r, id, j) ==
  /\ \/ j = index[id]
     \/ /\ index[id].state \in Live
        /\ j.state \in {"expired", "lost", "timed-out"}
  /\ j.cancel = index[id].cancel /\ j.files = index[id].files
  /\ Move(r, id, j, index'[id])
  /\ granted'[id] = IF r.op = "claim" /\ index'[id] # j THEN granted[id] + 1
                    ELSE granted[id]
  /\ id \in cancelled' => \/ id \in cancelled
                          \/ j.state \in Waiting /\ index'[id].state = "cancelled"
                          \/ j.state = "running" /\ index'[id].cancel

\* A store drops a job, makes the one it submits, or moves one on.
LEMMA StoreMoves ==
  ASSUME TypeOK, RequestsOK, NEW s \in Slots, Store(s)
  PROVE  /\ index' \in Index
         /\ \A id \in Jobs :
              \/ /\ index'[id] = Absent
                 /\ Gone(req[s].loaded[id], req[s].now)
                 /\ granted'[id] = granted[id]
                 /\ id \in cancelled' => id \in cancelled
              \/ /\ req[s].op = "submit" /\ id = req[s].job
                 /\ index'[id].state = "uploading" /\ index'[id].files = {}
                 /\ granted'[id] = granted[id]
                 /\ id \in cancelled' => id \in cancelled
              \/ \E j \in Job : StoresOne(req[s], id, j)
<1> DEFINE r == req[s]
           swept == Sweep(r.loaded, r.now)
<1>1. /\ r \in Request /\ r.now \in Nat /\ index \in Index /\ granted \in [Jobs -> Nat]
      /\ r.pc = "swap" /\ index = r.loaded
      /\ r.op \in Ops /\ (r.op # "claim" => r.job \in Jobs)
  BY DEF TypeOK, Request, Store, RequestsOK
<1>2. /\ index' \in Handle(r, swept)
      /\ granted' = [id \in Jobs |-> IF r.op = "claim" /\ index'[id] # swept[id]
                                     THEN granted[id] + 1 ELSE granted[id]]
      /\ cancelled' = IF r.op = "cancel" /\ swept[r.job].state \in Live
                      THEN cancelled \cup {r.job} ELSE cancelled
  BY DEF Store
<1>3. /\ swept \in Index
      /\ \A id \in Jobs :
           \/ swept[id] = Absent /\ Gone(index[id], r.now)
           \/ swept[id] = Swept(index[id], r.now)
  BY <1>1, SweepEach
<1> HIDE DEF r, swept
<1>4. /\ index' \in Index
      /\ \A id \in Jobs : Move(r, id, swept[id], index'[id])
      /\ r.op = "cancel" =>
           /\ swept[r.job].state \in Waiting => index'[r.job].state = "cancelled"
           /\ swept[r.job].state = "running" => index'[r.job].cancel
  BY <1>1, <1>2, <1>3, HandlerMoves
<1>5. ASSUME NEW id \in Jobs
      PROVE  \/ /\ index'[id] = Absent
                /\ Gone(r.loaded[id], r.now)
                /\ granted'[id] = granted[id]
                /\ id \in cancelled' => id \in cancelled
             \/ /\ r.op = "submit" /\ id = r.job
                /\ index'[id].state = "uploading" /\ index'[id].files = {}
                /\ granted'[id] = granted[id]
                /\ id \in cancelled' => id \in cancelled
             \/ \E j \in Job : StoresOne(r, id, j)
  <2>1. /\ granted'[id] = IF r.op = "claim" /\ index'[id] # swept[id]
                          THEN granted[id] + 1 ELSE granted[id]
        /\ id \in cancelled' => \/ id \in cancelled
                                \/ r.op = "cancel" /\ id = r.job /\ swept[id].state \in Live
    BY <1>2
  <2>2. Move(r, id, swept[id], index'[id])
    BY <1>4
  <2>3. CASE r.op = "submit" /\ id = r.job /\ index'[id] # swept[id]
    BY <2>1, <2>2, <2>3 DEF Move
  <2>4. CASE swept[id] = Absent /\ Gone(index[id], r.now) /\ index'[id] = swept[id]
    BY <1>1, <2>1, <2>4 DEF Absent, Live, Waiting
  <2>5. CASE swept[id] = Absent /\ index'[id] # swept[id]
    BY <2>2, <2>3, <2>5 DEF Move, Absent, Waiting
  <2>6. CASE swept[id] = Swept(index[id], r.now)
    <3>1. index[id] \in Job /\ swept[id] \in Job
      BY <1>1, <1>3 DEF Index
    <3>2. /\ \/ swept[id] = index[id]
             \/ /\ index[id].state \in Live
                /\ swept[id].state \in {"expired", "lost", "timed-out"}
          /\ swept[id].cancel = index[id].cancel /\ swept[id].files = index[id].files
      <4> DEFINE j == Swept(index[id], r.now)
      <4>1. /\ \/ j = index[id]
               \/ /\ index[id].state \in Live
                  /\ j.state \in {"expired", "lost", "timed-out"}
            /\ j.cancel = index[id].cancel /\ j.files = index[id].files
        BY <1>1, <3>1, SweptEnds
      <4> HIDE DEF j
      <4>2. swept[id] = j
        BY <2>6 DEF j
      <4> QED BY <4>1, <4>2
    <3>3. id \in cancelled' => \/ id \in cancelled
                               \/ swept[id].state \in Waiting /\ index'[id].state = "cancelled"
                               \/ swept[id].state = "running" /\ index'[id].cancel
      BY <1>4, <2>1 DEF Live
    <3>4. StoresOne(r, id, swept[id])
      BY <2>1, <2>2, <3>2, <3>3 DEF StoresOne
    <3> QED BY <3>1, <3>4
  <2> QED BY <1>3, <2>3, <2>4, <2>5, <2>6
<1> QED BY <1>4, <1>5 DEF r
-----------------------------------------------------------------------------
(* Every step keeps the invariant.                                         *)

LEMMA ShowsNothing ==
  ASSUME index \in Index, clock \in Nat, NEW id \in Jobs,
         index[id].state = "absent", archive[id].state = "absent"
  PROVE  Shown(id).state = "absent"
<1>1. index[id] \in Job
  BY DEF Index
<1>2. Swept(index[id], clock).state = "absent"
  BY <1>1, SweptEnds DEF Live, Waiting
<1>3. Sweep(index, clock)[id].state = "absent"
  BY <1>2, SweepEach DEF Absent
<1> QED BY <1>3 DEF Shown

LEMMA ArrivalKeeps ==
  ASSUME Inv, NEW s \in Slots, Arrives(s), BringsJob(s)
  PROVE  Inv'
<1> USE DEF Arrives
<1>0. /\ \A t \in Slots : req[t] \in Request /\ req'[t] \in Request
      /\ s \in Slots
  BY DEF Inv, TypeOK
<1>1. TypeOK'
  BY DEF Inv, TypeOK
<1>2. RequestsOK'
  BY DEF Inv, RequestsOK
<1>3. WaitingUngranted' /\ GrantedOnce' /\ ArchivedEnded' /\ CancelSticks' /\ StoredBeforeUse'
  BY DEF Inv, WaitingUngranted, GrantedOnce, ArchivedEnded, CancelSticks, StoredBeforeUse
<1>4. SubmitFresh'
  <2>1. ASSUME NEW t \in Slots, req'[t].pc # "idle", req'[t].op = "submit"
        PROVE  /\ index[req'[t].job].state = "absent"
               /\ archive[req'[t].job].state = "absent"
               /\ \A u \in Slots \ {t} : req'[u].job # req'[t].job
    <3>1. CASE t = s
      BY <2>1, <3>1 DEF BringsJob, Unused
    <3>2. CASE t # s
      <4>1. req'[t] = req[t] /\ t \in Slots \ {s}
        BY <3>2
      <4>2. /\ index[req[t].job].state = "absent"
            /\ archive[req[t].job].state = "absent"
            /\ \A u \in Slots \ {t} : req[u].job # req[t].job
        BY <2>1, <4>1 DEF Inv, SubmitFresh
      <4>3. req[t].job \in Jobs
        BY <2>1, <4>1 DEF Inv, RequestsOK
      <4>4. req'[s].job # req[t].job
        <5>1. CASE req'[s].op = "submit"
          BY <4>1, <5>1 DEF BringsJob, Unused
        <5>2. CASE req'[s].op = "claim"
          BY <4>3, <5>2, NoneAssumption
        <5>3. CASE req'[s].op \notin {"submit", "claim"}
          <6>1. granted[req[t].job] = 0
            BY <4>2, <4>3 DEF Inv, WaitingUngranted
          <6>2. Shown(req[t].job).state = "absent"
            BY <4>2, <4>3, ShowsNothing DEF Inv, TypeOK
          <6> QED BY <5>3, <6>1, <6>2 DEF BringsJob
        <5> QED BY <5>1, <5>2, <5>3
      <4> QED BY <4>1, <4>2, <4>4
    <3> QED BY <3>1, <3>2
  <2> QED BY <2>1 DEF SubmitFresh
<1>5. DropsArchived'
  BY DEF Inv, DropsArchived
<1>6. PromisesStored'
  BY DEF Inv, PromisesStored
<1> QED BY <1>1, <1>2, <1>3, <1>4, <1>5, <1>6 DEF Inv

LEMMA ContinuationKeeps ==
  ASSUME Inv, NEW s \in Slots, Continues(s)
  PROVE  Inv'
<1> USE DEF Continues
<1>0. Idle.pc = "idle" /\ Idle.job = None
  BY DEF Idle
<1>1. TypeOK'
  BY DEF Inv, TypeOK
<1>2. RequestsOK'
  BY <1>0 DEF Inv, RequestsOK
<1>3. WaitingUngranted' /\ GrantedOnce' /\ ArchivedEnded' /\ CancelSticks' /\ StoredBeforeUse'
  BY DEF Inv, WaitingUngranted, GrantedOnce, ArchivedEnded, CancelSticks, StoredBeforeUse
<1>4. SubmitFresh'
  <2>1. ASSUME NEW t \in Slots, req'[t].pc # "idle", req'[t].op = "submit"
        PROVE  /\ index[req'[t].job].state = "absent"
               /\ archive[req'[t].job].state = "absent"
               /\ \A u \in Slots \ {t} : req'[u].job # req'[t].job
    <3>1. /\ req[t].pc # "idle" /\ req[t].op = "submit" /\ req'[t].job = req[t].job
          /\ req[t].job \in Jobs
      BY <1>0, <2>1 DEF Inv, RequestsOK
    <3>2. \A u \in Slots : req'[u].job \in {req[u].job, None}
      BY <1>0
    <3> QED BY <3>1, <3>2, NoneAssumption DEF Inv, SubmitFresh
  <2> QED BY <2>1 DEF SubmitFresh
<1>5. DropsArchived'
  BY <1>0 DEF Inv, DropsArchived
<1>6. PromisesStored'
  BY <1>0 DEF Inv, PromisesStored
<1> QED BY <1>1, <1>2, <1>3, <1>4, <1>5, <1>6 DEF Inv

LEMMA TickKeeps ==
  ASSUME Inv, Tick
  PROVE  Inv'
<1> USE DEF Tick
<1>1. TypeOK'
  BY DEF Inv, TypeOK
<1>2. RequestsOK' /\ SubmitFresh' /\ DropsArchived' /\ PromisesStored'
  BY DEF Inv, RequestsOK, SubmitFresh, DropsArchived, PromisesStored
<1>3. WaitingUngranted' /\ GrantedOnce' /\ ArchivedEnded' /\ CancelSticks' /\ StoredBeforeUse'
  BY DEF Inv, WaitingUngranted, GrantedOnce, ArchivedEnded, CancelSticks, StoredBeforeUse
<1> QED BY <1>1, <1>2, <1>3 DEF Inv

LEMMA PutBlobKeeps ==
  ASSUME Inv, NEW s \in Slots, PutBlob(s)
  PROVE  Inv'
<1>0. /\ TypeOK /\ RequestsOK /\ req \in [Slots -> Request] /\ clock \in Nat
      /\ req[s] \in Request /\ req[s].pc = "put"
      /\ req[s].job \in Jobs /\ req[s].op \in {"input", "file"}
      /\ Idle.pc = "idle" /\ Idle.job = None
      /\ blobs' = blobs \cup ({req[s].job} \X req[s].names)
      /\ UNCHANGED <<clock, index, archive, granted, cancelled>>
  BY DEF Inv, TypeOK, RequestsOK, PutBlob, Idle, Ops
<1>1. /\ req' \in [Slots -> Request]
      /\ \A t \in Slots \ {s} : req'[t] = req[t]
      /\ \/ req'[s] = Idle
         \/ /\ req[s].op = "input" /\ req'[s].op = "input"
            /\ req'[s].pc = "load" /\ req'[s].job = req[s].job /\ req'[s].names = {}
  <2>1. CASE req[s].op = "input"
    <3> DEFINE r == [req[s] EXCEPT !.names = {}]
    <3>1. r \in Request /\ r.op = "input" /\ r.job = req[s].job /\ r.names = {}
      BY <1>0, <2>1 DEF Request
    <3>2. Attempt(s, r)
      BY <2>1 DEF PutBlob
    <3> HIDE DEF r
    <3> QED BY <1>0, <2>1, <3>1, <3>2, AttemptChanges
  <2>2. CASE req[s].op # "input"
    BY <1>0, <2>2, IdleIsRequest, GotoChanges DEF PutBlob
  <2> QED BY <2>1, <2>2
<1>2. TypeOK'
  BY <1>0, <1>1 DEF TypeOK, Request
<1>3. RequestsOK'
  BY <1>0, <1>1 DEF RequestsOK, Ops
<1>4. /\ WaitingUngranted' /\ GrantedOnce' /\ ArchivedEnded' /\ CancelSticks'
      /\ StoredBeforeUse'
  BY <1>0 DEF Inv, WaitingUngranted, GrantedOnce, ArchivedEnded, CancelSticks, StoredBeforeUse
<1>5. SubmitFresh'
  <2>1. ASSUME NEW t \in Slots, req'[t].pc # "idle", req'[t].op = "submit"
        PROVE  /\ index[req'[t].job].state = "absent"
               /\ archive[req'[t].job].state = "absent"
               /\ \A u \in Slots \ {t} : req'[u].job # req'[t].job
    <3>1. req'[t] = req[t] /\ req[t].job \in Jobs
      BY <1>0, <1>1, <2>1 DEF RequestsOK
    <3>2. \A u \in Slots : req'[u].job \in {req[u].job, None}
      BY <1>0, <1>1
    <3> QED BY <2>1, <3>1, <3>2, NoneAssumption DEF Inv, SubmitFresh
  <2> QED BY <1>0, <2>1 DEF SubmitFresh
<1>6. DropsArchived'
  BY <1>0, <1>1 DEF Inv, DropsArchived
<1>7. PromisesStored'
  <2>1. ASSUME NEW t \in Slots \ {s}, req'[t].pc \in {"load", "swap"}
        PROVE  /\ req'[t].op = "input" => <<req'[t].job, "input">> \in blobs'
               /\ \A n \in req'[t].names : <<req'[t].job, n>> \in blobs'
    BY <1>0, <1>1, <2>1 DEF Inv, PromisesStored
  <2>2. req'[s].op = "input" => <<req[s].job, "input">> \in blobs'
    BY <1>0, <1>1 DEF Idle, RequestsOK
  <2> QED BY <1>0, <1>1, <2>1, <2>2 DEF PromisesStored
<1> QED BY <1>2, <1>3, <1>4, <1>5, <1>6, <1>7 DEF Inv

LEMMA LoadKeeps ==
  ASSUME Inv, NEW s \in Slots, Load(s)
  PROVE  Inv'
<1>0. /\ TypeOK /\ RequestsOK /\ index \in Index /\ archive \in Index
      /\ req[s] \in Request /\ req[s].now \in Nat
      /\ Idle.pc = "idle" /\ Idle.job = None
  BY DEF Inv, TypeOK, Request, Idle
<1>1. /\ req[s].pc = "load"
      /\ req' \in [Slots -> Request]
      /\ \/ req'[s] = Idle
         \/ /\ req'[s].pc = "swap" /\ req'[s].op = req[s].op
            /\ req'[s].job = req[s].job /\ req'[s].names = req[s].names
            /\ req'[s].now = req[s].now /\ req'[s].loaded = index
      /\ \A t \in Slots \ {s} : req'[t] = req[t]
  BY <1>0, LoadChanges
<1>2. /\ archive' \in Index
      /\ \A id \in Jobs :
           \/ /\ archive'[id] = archive[id]
              /\ archive[id].state # "absent" \/ ~Gone(index[id], req[s].now)
           \/ /\ archive[id].state = "absent"
              /\ Gone(index[id], req[s].now)
              /\ archive'[id] = Swept(index[id], req[s].now)
              /\ archive'[id].state # "absent"
      /\ UNCHANGED <<clock, index, blobs, granted, cancelled>>
  BY <1>0, LoadArchives
<1>3. \A id \in Jobs :
        \/ archive'[id] = archive[id]
        \/ /\ index[id].state # "absent" /\ archive'[id].state # "absent"
           /\ archive'[id].files = index[id].files
           /\ archive'[id].state = "finished" => index[id].state = "finished"
  <2>1. ASSUME NEW id \in Jobs, archive'[id] = Swept(index[id], req[s].now),
               archive'[id].state # "absent"
        PROVE  /\ index[id].state # "absent"
               /\ archive'[id].files = index[id].files
               /\ archive'[id].state = "finished" => index[id].state = "finished"
    <3>1. index[id] \in Job
      BY <1>0 DEF Index
    <3> QED BY <1>0, <2>1, <3>1, SweptEnds DEF Live, Waiting
  <2> QED BY <1>2, <2>1
<1>4. TypeOK'
  BY <1>0, <1>1, <1>2 DEF TypeOK
<1>5. RequestsOK'
  BY <1>0, <1>1 DEF RequestsOK
<1>6. WaitingUngranted' /\ GrantedOnce'
  BY <1>2 DEF Inv, WaitingUngranted, GrantedOnce
<1>7. ArchivedEnded' /\ CancelSticks'
  BY <1>2, <1>3 DEF Inv, ArchivedEnded, CancelSticks
<1>8. StoredBeforeUse'
  BY <1>2, <1>3 DEF Inv, StoredBeforeUse
<1>9. SubmitFresh'
  <2>1. ASSUME NEW t \in Slots, req'[t].pc # "idle", req'[t].op = "submit"
        PROVE  /\ index[req'[t].job].state = "absent"
               /\ archive'[req'[t].job].state = "absent"
               /\ \A u \in Slots \ {t} : req'[u].job # req'[t].job
    <3>1. /\ req[t].pc # "idle" /\ req[t].op = "submit" /\ req'[t].job = req[t].job
          /\ req[t].job \in Jobs
      BY <1>0, <1>1, <2>1 DEF RequestsOK
    <3>2. \A u \in Slots : req'[u].job \in {req[u].job, None}
      BY <1>0, <1>1
    <3>3. /\ index[req[t].job].state = "absent"
          /\ archive[req[t].job].state = "absent"
          /\ \A u \in Slots \ {t} : req[u].job # req[t].job
      BY <3>1 DEF Inv, SubmitFresh
    <3>4. archive'[req[t].job] = archive[req[t].job]
      BY <1>3, <3>1, <3>3
    <3> QED BY <3>1, <3>2, <3>3, <3>4, NoneAssumption
  <2> QED BY <1>2, <2>1 DEF SubmitFresh
<1>10. DropsArchived'
  <2>1. ASSUME NEW t \in Slots, NEW id \in Jobs, req'[t].pc = "swap",
               Gone(req'[t].loaded[id], req'[t].now)
        PROVE  archive'[id].state # "absent"
    <3>1. CASE t = s
      BY <1>0, <1>1, <1>2, <2>1, <3>1
    <3>2. CASE t # s
      <4>1. req'[t] = req[t]
        BY <1>1, <3>2
      <4>2. archive[id].state # "absent"
        BY <2>1, <4>1 DEF Inv, DropsArchived
      <4> QED BY <1>2, <4>2
    <3> QED BY <3>1, <3>2
  <2> QED BY <2>1 DEF DropsArchived, Gone
<1>11. PromisesStored'
  BY <1>0, <1>1, <1>2 DEF Inv, PromisesStored
<1> QED BY <1>4, <1>5, <1>6, <1>7, <1>8, <1>9, <1>10, <1>11 DEF Inv

LEMMA StoreKeeps ==
  ASSUME Inv, NEW s \in Slots, Store(s)
  PROVE  Inv'
<1> DEFINE Drop(id) == /\ index'[id] = Absent
                       /\ Gone(req[s].loaded[id], req[s].now)
                       /\ granted'[id] = granted[id]
                       /\ id \in cancelled' => id \in cancelled
           Make(id) == /\ req[s].op = "submit" /\ id = req[s].job
                       /\ index'[id].state = "uploading" /\ index'[id].files = {}
                       /\ granted'[id] = granted[id]
                       /\ id \in cancelled' => id \in cancelled
           MoveOn(id) == \E j \in Job : StoresOne(req[s], id, j)
<1>0. /\ TypeOK /\ RequestsOK /\ index \in Index /\ granted \in [Jobs -> Nat]
      /\ req \in [Slots -> Request] /\ req[s].pc = "swap" /\ Goto(s, Idle)
      /\ req[s].op \in Ops /\ (req[s].op # "claim" => req[s].job \in Jobs)
      /\ Idle.pc = "idle" /\ Idle.job = None
      /\ UNCHANGED <<clock, archive, blobs>>
  BY DEF Inv, TypeOK, RequestsOK, Store, Idle
<1>1. /\ req' \in [Slots -> Request] /\ req'[s] = Idle
      /\ \A t \in Slots \ {s} : req'[t] = req[t]
  BY <1>0, IdleIsRequest, GotoChanges
<1>2. /\ index' \in Index
      /\ \A id \in Jobs : Drop(id) \/ Make(id) \/ MoveOn(id)
  BY <1>0, StoreMoves
<1>3. ASSUME NEW id \in Jobs, Make(id)
      PROVE  /\ index[id].state = "absent" /\ archive[id].state = "absent"
             /\ granted[id] = 0 /\ id \notin cancelled
  BY <1>0, <1>3 DEF Inv, SubmitFresh, WaitingUngranted
<1>4. ASSUME NEW id \in Jobs, Drop(id)
      PROVE  archive[id].state # "absent"
  BY <1>0, <1>4 DEF Inv, DropsArchived
<1> HIDE DEF Drop, Make, MoveOn
<1>5. TypeOK'
  <2>1. granted' \in [Jobs -> Nat]
    BY <1>0 DEF Store
  <2>2. cancelled' \subseteq Jobs
    BY <1>0 DEF Store, TypeOK
  <2> QED BY <1>0, <1>1, <1>2, <2>1, <2>2 DEF TypeOK
<1>6. RequestsOK'
  BY <1>0, <1>1 DEF RequestsOK
<1>7. WaitingUngranted' /\ GrantedOnce'
  <2>1. ASSUME NEW id \in Jobs
        PROVE  /\ index'[id].state \in Waiting => granted'[id] = 0
               /\ index'[id].state = "absent" /\ archive[id].state = "absent"
                    => granted'[id] = 0 /\ id \notin cancelled'
               /\ granted'[id] <= 1
    <3>0. /\ granted[id] \in Nat /\ granted[id] <= 1
          /\ index[id].state \in Waiting => granted[id] = 0
          /\ index[id].state = "absent" /\ archive[id].state = "absent"
               => granted[id] = 0 /\ id \notin cancelled
      BY <1>0 DEF Inv, WaitingUngranted, GrantedOnce
    <3>1. CASE Drop(id)
      BY <1>4, <3>0, <3>1 DEF Drop, Absent, Waiting
    <3>2. CASE Make(id)
      BY <1>3, <3>0, <3>2 DEF Make
    <3>3. CASE MoveOn(id)
      <4>1. PICK j \in Job : StoresOne(req[s], id, j)
        BY <3>3 DEF MoveOn
      <4>2. CASE req[s].op = "claim" /\ index'[id] # j
        <5>1. j.state = "queued" /\ index'[id].state = "running"
          BY <4>1, <4>2 DEF StoresOne, Move
        <5>2. index[id].state = "queued"
          BY <4>1, <5>1 DEF StoresOne
        <5>3. granted[id] = 0 /\ granted'[id] = 1
          BY <3>0, <4>1, <4>2, <5>2 DEF StoresOne, Waiting
        <5> QED BY <5>1, <5>3 DEF Waiting
      <4>3. CASE ~(req[s].op = "claim" /\ index'[id] # j)
        <5>1. granted'[id] = granted[id]
          BY <4>1, <4>3 DEF StoresOne
        <5>2. CASE req[s].op = "submit" /\ id = req[s].job
          <6>1. index[id].state = "absent" /\ archive[id].state = "absent"
            BY <1>0, <5>2 DEF Inv, SubmitFresh
          <6>2. id \in cancelled' => j.state \in Live
            BY <3>0, <4>1, <6>1 DEF StoresOne, Live
          <6>3. j.state = "absent"
            BY <4>1, <6>1 DEF StoresOne, Live, Waiting
          <6> QED BY <3>0, <5>1, <6>1, <6>2, <6>3 DEF Live, Waiting
        <5>3. CASE ~(req[s].op = "submit" /\ id = req[s].job)
          <6>1. index'[id].state \in Waiting => j.state \in Waiting
            BY <4>1, <5>3 DEF StoresOne, Move, Waiting
          <6>2. j.state \in Waiting => index[id].state \in Waiting
            BY <4>1 DEF StoresOne, Waiting
          <6>3. index'[id].state = "absent" => j.state = "absent"
            BY <4>1, <5>3 DEF StoresOne, Move
          <6>4. j.state = "absent" => index[id].state = "absent"
            BY <4>1 DEF StoresOne
          <6>5. index'[id].state = "absent" /\ id \in cancelled' => id \in cancelled
            BY <4>1, <6>3 DEF StoresOne, Waiting
          <6> QED BY <3>0, <5>1, <6>1, <6>2, <6>3, <6>4, <6>5
        <5> QED BY <5>2, <5>3
      <4> QED BY <4>2, <4>3
    <3> QED BY <1>2, <3>1, <3>2, <3>3
  <2> QED BY <1>0, <2>1 DEF WaitingUngranted, GrantedOnce
<1>8. ArchivedEnded'
  <2>1. ASSUME NEW id \in Jobs, archive[id].state = "finished"
        PROVE  index'[id].state \in {"finished", "absent"}
    <3>0. index[id].state \in {"finished", "absent"}
      BY <2>1 DEF Inv, ArchivedEnded
    <3>1. CASE Drop(id)
      BY <3>1 DEF Drop, Absent
    <3>2. CASE Make(id)
      BY <1>3, <2>1, <3>2
    <3>3. CASE MoveOn(id)
      <4>1. PICK j \in Job : StoresOne(req[s], id, j)
        BY <3>3 DEF MoveOn
      <4>2. j = index[id]
        BY <3>0, <4>1 DEF StoresOne, Live, Waiting
      <4>3. ~(req[s].op = "submit" /\ id = req[s].job)
        BY <1>0, <2>1 DEF Inv, SubmitFresh
      <4> QED BY <3>0, <4>1, <4>2, <4>3 DEF StoresOne, Move, Waiting
    <3> QED BY <1>2, <3>1, <3>2, <3>3
  <2> QED BY <1>0, <2>1 DEF ArchivedEnded
<1>9. CancelSticks'
  <2>1. ASSUME NEW id \in Jobs
        PROVE  /\ id \in cancelled' =>
                    /\ index'[id].state \notin Waiting \cup {"finished"}
                    /\ index'[id].state = "running" => index'[id].cancel
                    /\ archive[id].state # "finished"
               /\ index'[id].state = "cancelled" /\ ~index'[id].cancel => granted'[id] = 0
    <3>0. /\ id \in cancelled => /\ index[id].state \notin Waiting \cup {"finished"}
                                 /\ index[id].state = "running" => index[id].cancel
                                 /\ archive[id].state # "finished"
          /\ index[id].state = "cancelled" /\ ~index[id].cancel => granted[id] = 0
          /\ index[id].state \in Waiting => granted[id] = 0
          /\ archive[id].state = "finished" => index[id].state \in {"finished", "absent"}
          /\ index[id].cancel \in BOOLEAN
      BY <1>0 DEF Inv, CancelSticks, WaitingUngranted, ArchivedEnded, Index, Job
    <3>1. CASE Drop(id)
      BY <3>0, <3>1 DEF Drop, Absent, Waiting
    <3>2. CASE Make(id)
      BY <1>3, <3>2 DEF Make
    <3>3. CASE MoveOn(id)
      <4>1. PICK j \in Job : StoresOne(req[s], id, j)
        BY <3>3 DEF MoveOn
      <4>2. \/ j = index[id]
            \/ index[id].state \in Live /\ j.state \in {"expired", "lost", "timed-out"}
        BY <4>1 DEF StoresOne
      <4>3. j.cancel = index[id].cancel /\ Move(req[s], id, j, index'[id])
        BY <4>1 DEF StoresOne
      <4>4. CASE req[s].op = "submit" /\ id = req[s].job
        <5>1. index[id].state = "absent" /\ archive[id].state = "absent" /\ id \notin cancelled
          BY <1>0, <4>4 DEF Inv, SubmitFresh, WaitingUngranted
        <5>2. j.state = "absent" /\ id \notin cancelled'
          BY <4>1, <4>2, <5>1 DEF StoresOne, Live, Waiting
        <5>3. index'[id].state \in {"absent", "uploading"}
          BY <4>3, <4>4, <5>2 DEF Move
        <5> QED BY <5>2, <5>3
      <4>5. CASE ~(req[s].op = "submit" /\ id = req[s].job)
        <5>1. id \in cancelled =>
                /\ index'[id].state \notin Waiting \cup {"finished"}
                /\ index'[id].state = "running" => index'[id].cancel
                /\ archive[id].state # "finished"
          BY <3>0, <4>2, <4>3, <4>5 DEF Move, Live, Waiting
        <5>2. id \in cancelled' /\ id \notin cancelled =>
                /\ index'[id].state \notin Waiting \cup {"finished"}
                /\ index'[id].state = "running" => index'[id].cancel
                /\ archive[id].state # "finished"
          <6> SUFFICES ASSUME id \in cancelled', id \notin cancelled
                       PROVE  /\ index'[id].state \notin Waiting \cup {"finished"}
                              /\ index'[id].state = "running" => index'[id].cancel
                              /\ archive[id].state # "finished"
            OBVIOUS
          <6>1. \/ j.state \in Waiting /\ index'[id].state = "cancelled"
                \/ j.state = "running" /\ index'[id].cancel
            BY <4>1 DEF StoresOne
          <6>2. archive[id].state # "finished"
            BY <3>0, <4>2, <6>1 DEF Waiting
          <6>3. j.state = "running" /\ index'[id].cancel
                  => index'[id].state \notin Waiting \cup {"finished"}
            <7>1. CASE req[s].op = "cancel" \/ index'[id] = j
              BY <4>3, <7>1 DEF Move, Waiting
            <7>2. CASE req[s].op # "cancel" /\ index'[id] # j
              <8>1. id \in cancelled
                BY <7>2 DEF Store
              <8> QED BY <8>1
            <7> QED BY <7>1, <7>2
          <6> QED BY <6>1, <6>2, <6>3 DEF Waiting
        <5>3. index'[id].state = "cancelled" /\ ~index'[id].cancel => granted'[id] = 0
          <6>1. ASSUME index'[id].state = "cancelled", ~index'[id].cancel
                PROVE  /\ index[id].state \in Waiting \/ index'[id] = index[id]
                       /\ granted'[id] = granted[id]
            <7>1. \/ index'[id] = j
                  \/ j.state \in Waiting /\ req[s].op = "cancel"
              BY <4>3, <4>5, <6>1 DEF Move
            <7>2. granted'[id] = granted[id]
              BY <4>1, <7>1 DEF StoresOne
            <7> QED BY <4>2, <6>1, <7>1, <7>2 DEF Waiting
          <6> QED BY <3>0, <6>1
        <5> QED BY <5>1, <5>2, <5>3
      <4> QED BY <4>4, <4>5
    <3> QED BY <1>2, <3>1, <3>2, <3>3
  <2> QED BY <1>0, <2>1 DEF CancelSticks
<1>10. StoredBeforeUse'
  <2>1. ASSUME NEW id \in Jobs
        PROVE  /\ index'[id].state \in {"queued", "running", "finished"} => <<id, "input">> \in blobs
               /\ \A n \in index'[id].files : <<id, n>> \in blobs
    <3>0. /\ index[id].state \in {"queued", "running", "finished"} => <<id, "input">> \in blobs
          /\ \A n \in index[id].files : <<id, n>> \in blobs
      BY DEF Inv, StoredBeforeUse
    <3>1. CASE Drop(id)
      BY <3>1 DEF Drop, Absent
    <3>2. CASE Make(id)
      BY <3>2 DEF Make
    <3>3. CASE MoveOn(id)
      <4>1. PICK j \in Job : StoresOne(req[s], id, j)
        BY <3>3 DEF MoveOn
      <4>2. /\ \/ j = index[id]
               \/ /\ index[id].state \in Live
                  /\ j.state \in {"expired", "lost", "timed-out"}
            /\ j.files = index[id].files
            /\ Move(req[s], id, j, index'[id])
        BY <4>1 DEF StoresOne
      <4>3. /\ req[s].op = "input" => <<req[s].job, "input">> \in blobs
            /\ \A n \in req[s].names : <<req[s].job, n>> \in blobs
        BY <1>0 DEF Inv, PromisesStored
      <4>4. index'[id].state \in {"queued", "running", "finished"} => <<id, "input">> \in blobs
        BY <3>0, <4>2, <4>3 DEF Move
      <4>5. \A n \in index'[id].files : <<id, n>> \in blobs
        BY <3>0, <4>2, <4>3 DEF Move
      <4> QED BY <4>4, <4>5
    <3> QED BY <1>2, <3>1, <3>2, <3>3
  <2> QED BY <1>0, <2>1 DEF Inv, StoredBeforeUse
<1>11. SubmitFresh'
  <2>1. ASSUME NEW t \in Slots, req'[t].pc # "idle", req'[t].op = "submit"
        PROVE  /\ index'[req'[t].job].state = "absent"
               /\ archive[req'[t].job].state = "absent"
               /\ \A u \in Slots \ {t} : req'[u].job # req'[t].job
    <3>1. t # s /\ req'[t] = req[t] /\ req[t].job \in Jobs
      BY <1>0, <1>1, <2>1 DEF RequestsOK
    <3>2. \A u \in Slots : req'[u].job \in {req[u].job, None}
      BY <1>0, <1>1
    <3>3. /\ index[req[t].job].state = "absent"
          /\ archive[req[t].job].state = "absent"
          /\ \A u \in Slots \ {t} : req[u].job # req[t].job
      BY <2>1, <3>1 DEF Inv, SubmitFresh
    <3>4. index'[req[t].job].state = "absent"
      <4>1. CASE Drop(req[t].job)
        BY <4>1 DEF Drop, Absent
      <4>2. CASE Make(req[t].job)
        BY <3>1, <3>3, <4>2 DEF Make
      <4>3. CASE MoveOn(req[t].job)
        BY <3>1, <3>3, <4>3 DEF MoveOn, StoresOne, Move, Live, Waiting
      <4> QED BY <1>2, <3>1, <4>1, <4>2, <4>3
    <3> QED BY <3>1, <3>2, <3>3, <3>4, NoneAssumption
  <2> QED BY <1>0, <2>1 DEF SubmitFresh
<1>12. DropsArchived' /\ PromisesStored'
  BY <1>0, <1>1 DEF Inv, DropsArchived, PromisesStored, Gone
<1> QED BY <1>5, <1>6, <1>7, <1>8, <1>9, <1>10, <1>11, <1>12 DEF Inv
-----------------------------------------------------------------------------
(* The limits.                                                             *)

LEMMA FewerJobs ==
  ASSUME NEW S \in SUBSET Jobs, NEW T \in SUBSET S
  PROVE  /\ IsFiniteSet(S)
         /\ Cardinality(S) \in Nat /\ Cardinality(T) \in Nat
         /\ Cardinality(T) <= Cardinality(S)
<1>1. IsFiniteSet(S) /\ IsFiniteSet(T)
  BY FiniteJobs, FS_Subset
<1> QED BY <1>1, FS_Subset, FS_CardinalityType

\* Sweeping makes no job live, and brings none into the index.
LEMMA SweepFrees ==
  ASSUME NEW ix \in Index, NEW now \in Nat
  PROVE  /\ Present(Sweep(ix, now)) \subseteq Present(ix)
         /\ \A who : LiveOf(Sweep(ix, now), who) \subseteq LiveOf(ix, who)
<1>1. ASSUME NEW id \in Jobs
      PROVE  /\ Sweep(ix, now)[id].state # "absent" => ix[id].state # "absent"
             /\ Sweep(ix, now)[id].state \in Live =>
                  /\ ix[id].state \in Live
                  /\ Sweep(ix, now)[id].owner = ix[id].owner
  <2>1. ix[id] \in Job
    BY DEF Index
  <2>2. Sweep(ix, now)[id] \in {Absent, Swept(ix[id], now)}
    BY SweepEach
  <2>3. /\ \/ Swept(ix[id], now) = ix[id]
           \/ /\ ix[id].state \in Live
              /\ Swept(ix[id], now).state \in {"expired", "lost", "timed-out"}
        /\ Swept(ix[id], now).owner = ix[id].owner
    BY <2>1, SweptEnds
  <2> QED BY <2>2, <2>3 DEF Absent, Live, Waiting
<1> QED BY <1>1 DEF Present, LiveOf

LEMMA StoreWithinLimits ==
  ASSUME TypeOK, RequestsOK, WithinLimits, NEW s \in Slots, Store(s)
  PROVE  WithinLimits'
<1> DEFINE r == req[s]
           swept == Sweep(r.loaded, r.now)
<1>1. /\ r \in Request /\ r.now \in Nat /\ index \in Index
      /\ r.pc = "swap" /\ index = r.loaded /\ index' \in Handle(r, swept)
      /\ r.op \in Ops /\ (r.op # "claim" => r.job \in Jobs)
  BY DEF TypeOK, Request, Store, RequestsOK
<1>2. /\ swept \in Index
      /\ Present(swept) \subseteq Present(index)
      /\ \A who : LiveOf(swept, who) \subseteq LiveOf(index, who)
  BY <1>1, SweepEach, SweepFrees
<1> HIDE DEF r, swept
<1>3. /\ Cardinality(Present(swept)) <= MaxIndexJobs
      /\ \A who \in Callers : Cardinality(LiveOf(swept, who)) <= MaxQueued
  <2>1. Present(index) \in SUBSET Jobs /\ \A who : LiveOf(index, who) \in SUBSET Jobs
    BY DEF Present, LiveOf
  <2>2. /\ Cardinality(Present(swept)) <= Cardinality(Present(index))
        /\ Cardinality(Present(swept)) \in Nat /\ Cardinality(Present(index)) \in Nat
    BY <1>2, <2>1, FewerJobs
  <2>3. ASSUME NEW who \in Callers
        PROVE  Cardinality(LiveOf(swept, who)) <= MaxQueued
    <3>1. /\ Cardinality(LiveOf(swept, who)) <= Cardinality(LiveOf(index, who))
          /\ Cardinality(LiveOf(swept, who)) \in Nat
          /\ Cardinality(LiveOf(index, who)) \in Nat
      BY <1>2, <2>1, FewerJobs
    <3>2. Cardinality(LiveOf(index, who)) <= MaxQueued
      BY DEF WithinLimits
    <3> QED BY <3>1, <3>2, BoundsAreNat
  <2>4. Cardinality(Present(index)) <= MaxIndexJobs
    BY DEF WithinLimits
  <2> QED BY <2>2, <2>3, <2>4, BoundsAreNat
<1>4. index' \in Index /\ \A id \in Jobs : Move(r, id, swept[id], index'[id])
  BY <1>1, <1>2, HandlerMoves
<1>5. CASE r.op = "submit"
  <2>1. /\ Cardinality(LiveOf(swept, r.owner)) < MaxQueued
        /\ Cardinality(Present(swept)) < MaxIndexJobs
        /\ r.job \in Jobs
    BY <1>1, <1>5 DEF Handle, Submit
  <2>2. /\ Present(index') \subseteq Present(swept) \cup {r.job}
        /\ \A who : LiveOf(index', who) \subseteq LiveOf(swept, who) \cup {r.job}
    BY <1>4, <1>5 DEF Move, Present, LiveOf, Live, Waiting
  <2>3. /\ IsFiniteSet(Present(swept)) /\ Present(swept) \cup {r.job} \in SUBSET Jobs
        /\ \A who : /\ IsFiniteSet(LiveOf(swept, who))
                    /\ LiveOf(swept, who) \cup {r.job} \in SUBSET Jobs
                    /\ Cardinality(LiveOf(swept, who)) \in Nat
        /\ Cardinality(Present(swept)) \in Nat
    <3>1. /\ Present(swept) \in SUBSET Jobs /\ \A who : LiveOf(swept, who) \in SUBSET Jobs
      BY DEF Present, LiveOf
    <3> QED BY <2>1, <3>1, FewerJobs
  <2>4. Cardinality(Present(index')) <= MaxIndexJobs
    <3>1. Cardinality(Present(swept) \cup {r.job}) <= Cardinality(Present(swept)) + 1
      BY <2>3, FS_AddElement
    <3>2. /\ Cardinality(Present(index')) <= Cardinality(Present(swept) \cup {r.job})
          /\ Cardinality(Present(index')) \in Nat
          /\ Cardinality(Present(swept) \cup {r.job}) \in Nat
      BY <2>2, <2>3, FewerJobs
    <3> QED BY <2>1, <2>3, <3>1, <3>2, BoundsAreNat
  <2>5. ASSUME NEW who \in Callers
        PROVE  Cardinality(LiveOf(index', who)) <= MaxQueued
    <3>1. CASE who = r.owner
      <4>0. IsFiniteSet(LiveOf(swept, who)) /\ Cardinality(LiveOf(swept, who)) \in Nat
        BY <2>3
      <4>1. Cardinality(LiveOf(swept, who) \cup {r.job}) <= Cardinality(LiveOf(swept, who)) + 1
        <5>1. Cardinality(LiveOf(swept, who) \cup {r.job})
                = IF r.job \in LiveOf(swept, who) THEN Cardinality(LiveOf(swept, who))
                  ELSE Cardinality(LiveOf(swept, who)) + 1
          BY <4>0, FS_AddElement, Zenon
        <5> QED BY <4>0, <5>1
      <4>2. /\ Cardinality(LiveOf(index', who)) <= Cardinality(LiveOf(swept, who) \cup {r.job})
            /\ Cardinality(LiveOf(index', who)) \in Nat
            /\ Cardinality(LiveOf(swept, who) \cup {r.job}) \in Nat
        BY <2>2, <2>3, FewerJobs
      <4>3. Cardinality(LiveOf(swept, who)) < MaxQueued /\ Cardinality(LiveOf(swept, who)) \in Nat
        BY <2>1, <2>3, <3>1
      <4> QED BY <4>1, <4>2, <4>3, BoundsAreNat
    <3>2. CASE who # r.owner
      <4>1. LiveOf(index', who) \subseteq LiveOf(swept, who)
        BY <1>4, <1>5, <3>2 DEF Move, LiveOf
      <4>2. LiveOf(swept, who) \in SUBSET Jobs
        BY DEF LiveOf
      <4>3. /\ Cardinality(LiveOf(index', who)) <= Cardinality(LiveOf(swept, who))
            /\ Cardinality(LiveOf(index', who)) \in Nat
            /\ Cardinality(LiveOf(swept, who)) \in Nat
        BY <4>1, <4>2, FewerJobs
      <4> QED BY <1>3, <4>3, BoundsAreNat
    <3> QED BY <3>1, <3>2
  <2> QED BY <2>4, <2>5 DEF WithinLimits
<1>6. CASE r.op # "submit"
  <2>1. /\ Present(index') \subseteq Present(swept)
        /\ \A who : LiveOf(index', who) \subseteq LiveOf(swept, who)
    <3>1. ASSUME NEW id \in Jobs
          PROVE  /\ index'[id].state # "absent" => swept[id].state # "absent"
                 /\ index'[id].state \in Live => /\ swept[id].state \in Live
                                                 /\ index'[id].owner = swept[id].owner
      BY <1>4, <1>6 DEF Move, Live, Waiting
    <3> QED BY <3>1 DEF Present, LiveOf
  <2>2. Present(swept) \in SUBSET Jobs /\ \A who : LiveOf(swept, who) \in SUBSET Jobs
    BY DEF Present, LiveOf
  <2>3. /\ Cardinality(Present(index')) <= Cardinality(Present(swept))
        /\ Cardinality(Present(index')) \in Nat /\ Cardinality(Present(swept)) \in Nat
    BY <2>1, <2>2, FewerJobs
  <2>4. ASSUME NEW who \in Callers
        PROVE  Cardinality(LiveOf(index', who)) <= MaxQueued
    <3>1. /\ Cardinality(LiveOf(index', who)) <= Cardinality(LiveOf(swept, who))
          /\ Cardinality(LiveOf(index', who)) \in Nat
          /\ Cardinality(LiveOf(swept, who)) \in Nat
      BY <2>1, <2>2, FewerJobs
    <3> QED BY <1>3, <3>1, BoundsAreNat
  <2> QED BY <1>3, <2>3, <2>4, BoundsAreNat DEF WithinLimits
<1> QED BY <1>5, <1>6

-----------------------------------------------------------------------------
(* The theorems.                                                           *)

LEMMA StartsKept == Init => Inv
<1> SUFFICES ASSUME Init PROVE Inv
  OBVIOUS
<1>0. /\ \A s \in Slots : req[s] = Idle
      /\ \A id \in Jobs : index[id] = Absent /\ archive[id] = Absent /\ granted[id] = 0
      /\ cancelled = {} /\ blobs = {}
      /\ Idle.pc = "idle" /\ Absent.state = "absent" /\ Absent.files = {}
  BY DEF Init, NoIndex, Idle, Absent
<1>1. TypeOK
  BY AbsentIsJob, IdleIsRequest DEF Init, TypeOK
<1>2. RequestsOK /\ SubmitFresh /\ DropsArchived /\ PromisesStored
  BY <1>0 DEF RequestsOK, SubmitFresh, DropsArchived, PromisesStored
<1>3. WaitingUngranted /\ GrantedOnce /\ ArchivedEnded /\ CancelSticks /\ StoredBeforeUse
  BY <1>0 DEF WaitingUngranted, GrantedOnce, ArchivedEnded, CancelSticks, StoredBeforeUse
<1> QED BY <1>1, <1>2, <1>3 DEF Inv

LEMMA StepKeeps == Inv /\ [Next]_vars => Inv'
<1> SUFFICES ASSUME Inv, [Next]_vars PROVE Inv'
  OBVIOUS
<1>1. ASSUME NEW s \in Slots,
             \/ SubmitArrives(s) \/ InputArrives(s) \/ CancelArrives(s)
             \/ ClaimArrives(s) \/ HeartbeatArrives(s) \/ FileArrives(s) \/ FinishArrives(s)
      PROVE  Inv'
  <2>1. Arrives(s) /\ BringsJob(s)
    BY <1>1, Arrivals DEF Inv
  <2> QED BY <2>1, ArrivalKeeps
<1>2. ASSUME NEW s \in Slots, LoseSwap(s) \/ Fail(s)
      PROVE  Inv'
  <2>1. Continues(s)
    BY <1>2, Continuations DEF Inv
  <2> QED BY <2>1, ContinuationKeeps
<1>3. ASSUME NEW s \in Slots, PutBlob(s)
      PROVE  Inv'
  BY <1>3, PutBlobKeeps
<1>4. ASSUME NEW s \in Slots, Load(s)
      PROVE  Inv'
  BY <1>4, LoadKeeps
<1>5. ASSUME NEW s \in Slots, Store(s)
      PROVE  Inv'
  BY <1>5, StoreKeeps
<1>6. CASE Tick
  BY <1>6, TickKeeps
<1>7. CASE UNCHANGED vars
  BY <1>7 DEF vars, Inv, TypeOK, RequestsOK, WaitingUngranted, SubmitFresh, DropsArchived,
              Gone, GrantedOnce, ArchivedEnded, CancelSticks, PromisesStored, StoredBeforeUse
<1> QED BY <1>1, <1>2, <1>3, <1>4, <1>5, <1>6, <1>7 DEF Next

LEMMA LimitsKept == TypeOK /\ RequestsOK /\ WithinLimits /\ [Next]_vars => WithinLimits'
<1> SUFFICES ASSUME TypeOK, RequestsOK, WithinLimits, [Next]_vars PROVE WithinLimits'
  OBVIOUS
<1>1. CASE UNCHANGED index
  BY <1>1 DEF WithinLimits, LiveOf, Present
<1>2. ASSUME NEW s \in Slots, Store(s)
      PROVE  WithinLimits'
  BY <1>2, StoreWithinLimits
<1>3. UNCHANGED index \/ \E s \in Slots : Store(s)
  BY DEF Next, vars, SubmitArrives, InputArrives, CancelArrives, ClaimArrives, HeartbeatArrives,
         FileArrives, FinishArrives, PutBlob, Load, LoseSwap, Fail, Tick
<1> QED BY <1>1, <1>2, <1>3

LEMMA LimitsAtStart == Init => WithinLimits
<1> SUFFICES ASSUME Init PROVE WithinLimits
  OBVIOUS
<1>1. Present(index) = {} /\ \A who : LiveOf(index, who) = {}
  BY DEF Init, NoIndex, Absent, Present, LiveOf, Live, Waiting
<1> QED BY <1>1, FS_EmptySet, BoundsAreNat DEF WithinLimits

\* The invariant behind the theorems holds in every behaviour of the queue.
THEOREM InvHolds == Spec => []Inv
BY StartsKept, StepKeeps, PTL DEF Spec

\* The index, the archive, the requests and the histories keep their types.
THEOREM Types == Spec => []TypeOK
<1>1. Inv => TypeOK
  BY DEF Inv
<1> QED BY <1>1, InvHolds, PTL

\* However many claims, retries and heartbeats race, at most one claim is
\* answered with a job (runnerClaim under mutate).
THEOREM OneMacPerJob == Spec => []GrantedOnce
<1>1. Inv => GrantedOnce
  BY DEF Inv
<1> QED BY <1>1, InvHolds, PTL

\* A job whose cancel was stored never finishes, and one cancelled before it
\* was claimed is never given to a Mac (jobCancel, runnerFinish).
THEOREM CancelsHold == Spec => []CancelHonoured
<1>1. Inv => CancelHonoured
  BY DEF Inv, TypeOK, CancelSticks, CancelHonoured
<1> QED BY <1>1, InvHolds, PTL

\* Nothing is queued, run or listed before its bytes are in the bucket
\* (jobInput, runnerFile, runnerFinish).
THEOREM BytesBeforeUse == Spec => []StoredBeforeUse
<1>1. Inv => StoredBeforeUse
  BY DEF Inv
<1> QED BY <1>1, InvHolds, PTL

\* No race of submits takes a caller, or the index, past its limit
\* (jobSubmit).
THEOREM LimitsHold == Spec => []WithinLimits
<1>1. Inv => TypeOK /\ RequestsOK
  BY DEF Inv
<1> QED BY <1>1, InvHolds, LimitsAtStart, LimitsKept, PTL DEF Spec
-----------------------------------------------------------------------------
(* Time: how a job ends, and what its readers are shown of it.             *)

\* An attempt holds a clock no older than MaxHold.
ClocksHeld ==
  \A s \in Slots :
    req[s].pc \in {"load", "swap"} => /\ req[s].now <= clock
                                      /\ clock <= req[s].now + MaxHold

\* A job that waits or runs got there before its deadlines.
StampsInTime ==
  \A id \in Jobs :
    /\ index[id].state = "queued" => index[id].queued <= index[id].created + UploadTTL
    /\ index[id].state = "running" =>
         index[id].started <= index[id].created + UploadTTL + QueueTTL

\* Only ended jobs are archived.
ArchiveFinal == \A id \in Jobs : archive[id] = Absent \/ archive[id].state \in Final

\* A job in the archive that is still in the index has been over for KeepFor, and
\* whatever clock a request still holds makes of it what is archived.
ArchiveSettled ==
  \A id \in Jobs :
    archive[id].state # "absent" /\ index[id].state # "absent" =>
      /\ archive[id].finished + KeepFor < clock
      /\ \A n \in Nat : n > archive[id].finished => Swept(index[id], n) = archive[id]

\* When a job ended, and what it was, is kept by its end.
LEMMA EndedTells ==
  ASSUME NEW j \in Job, NEW state, NEW at
  PROVE  /\ Ended(j, state, at).state = state /\ Ended(j, state, at).finished = at
         /\ Ended(j, state, at).cancel = j.cancel
BY DEF Ended, Job

\* What a sweep makes of a job, deadline by deadline.
LEMMA SweptTells ==
  ASSUME NEW j \in Job, NEW n \in Nat
  PROVE  \/ /\ j.state = "uploading" /\ n > j.created + UploadTTL
            /\ Swept(j, n) = Ended(j, "expired", j.created + UploadTTL)
         \/ /\ j.state = "queued" /\ n > j.queued + QueueTTL
            /\ Swept(j, n) = Ended(j, "expired", j.queued + QueueTTL)
         \/ /\ j.state = "running" /\ n > j.lease /\ j.lease < Limit(j)
            /\ Swept(j, n) = Ended(j, "lost", j.lease)
         \/ /\ j.state = "running" /\ n > Limit(j) /\ j.lease >= Limit(j)
            /\ Swept(j, n) = Ended(j, "timed-out", Limit(j))
         \/ /\ Swept(j, n) = j
            /\ j.state = "uploading" => n <= j.created + UploadTTL
            /\ j.state = "queued" => n <= j.queued + QueueTTL
            /\ j.state = "running" => n <= Limit(j) /\ (j.lease < Limit(j) => n <= j.lease)
<1>0. /\ Limit(j) \in Nat /\ j.lease \in Nat /\ j.created \in Nat /\ j.queued \in Nat
      /\ UploadTTL \in Nat /\ QueueTTL \in Nat
  BY TimesAreNat DEF Limit, Job
<1>1. CASE j.state = "uploading" /\ n - j.created > UploadTTL
  BY <1>0, <1>1 DEF Swept
<1>2. CASE j.state = "queued" /\ n - j.queued > QueueTTL
  BY <1>0, <1>2 DEF Swept
<1>3. CASE j.state = "running" /\ n > j.lease /\ j.lease < Limit(j)
  BY <1>0, <1>3 DEF Swept
<1>4. CASE j.state = "running" /\ n > Limit(j) /\ j.lease >= Limit(j)
  BY <1>0, <1>4 DEF Swept
<1>5. CASE /\ ~(j.state = "uploading" /\ n - j.created > UploadTTL)
           /\ ~(j.state = "queued" /\ n - j.queued > QueueTTL)
           /\ ~(j.state = "running" /\ n > j.lease /\ j.lease < Limit(j))
           /\ ~(j.state = "running" /\ n > Limit(j) /\ j.lease >= Limit(j))
  <2>1. Swept(j, n) = j  BY <1>5 DEF Swept
  <2> QED  BY <1>0, <1>5, <2>1
<1> QED  BY <1>1, <1>2, <1>3, <1>4, <1>5

\* An end is the same for every clock past it.
LEMMA EndStands ==
  ASSUME NEW j \in Job, NEW n \in Nat, NEW m \in Nat,
         Swept(j, n).state \in Final, m > Swept(j, n).finished
  PROVE  Swept(j, m) = Swept(j, n)
<1>0. /\ Limit(j) \in Nat /\ j.lease \in Nat
      /\ j.created + UploadTTL \in Nat /\ j.queued + QueueTTL \in Nat
  BY TimesAreNat DEF Limit, Job
<1>1. CASE j.state \in Final
  BY <1>1, SweptEnds DEF Final, Live, Waiting
<1>2. CASE j.state \notin Final
  <2>1. Swept(j, n) # j  BY <1>2
  <2>2. CASE j.state = "uploading"
    <3>1. Swept(j, n) = Ended(j, "expired", j.created + UploadTTL)  BY <2>1, <2>2, SweptTells
    <3>2. m > j.created + UploadTTL  BY <3>1, EndedTells
    <3> QED  BY <1>0, <2>2, <3>1, <3>2, SweptTells
  <2>3. CASE j.state = "queued"
    <3>1. Swept(j, n) = Ended(j, "expired", j.queued + QueueTTL)  BY <2>1, <2>3, SweptTells
    <3>2. m > j.queued + QueueTTL  BY <3>1, EndedTells
    <3> QED  BY <1>0, <2>3, <3>1, <3>2, SweptTells
  <2>4. CASE j.state = "running" /\ j.lease < Limit(j)
    <3>1. Swept(j, n) = Ended(j, "lost", j.lease)  BY <1>0, <2>1, <2>4, SweptTells
    <3>2. m > j.lease  BY <3>1, EndedTells
    <3> QED  BY <1>0, <2>4, <3>1, <3>2, SweptTells
  <2>5. CASE j.state = "running" /\ ~(j.lease < Limit(j))
    <3>1. Swept(j, n) = Ended(j, "timed-out", Limit(j))  BY <1>0, <2>1, <2>5, SweptTells
    <3>2. m > Limit(j)  BY <3>1, EndedTells
    <3> QED  BY <1>0, <2>5, <3>1, <3>2, SweptTells
  <2> QED  BY <1>2, <2>1, <2>2, <2>3, <2>4, <2>5, SweptTells
<1> QED  BY <1>1, <1>2

\* What a job was before a sweep that left it live.
LEMMA SweptLive ==
  ASSUME NEW j \in Job, NEW n \in Nat, Swept(j, n).state \in Live
  PROVE  /\ Swept(j, n) = j
         /\ j.state = "uploading" => n <= j.created + UploadTTL
         /\ j.state = "queued" => n <= j.queued + QueueTTL
         /\ j.state = "running" => n <= Limit(j)
BY SweptTells, EndedTells DEF Live, Waiting

\* What a reader is shown.
LEMMA ShownIs ==
  ASSUME NEW id \in Jobs
  PROVE  Shown(id) = IF Gone(index[id], clock) \/ Swept(index[id], clock).state = "absent"
                     THEN archive[id] ELSE Swept(index[id], clock)
<1>1. Absent.state = "absent"  BY DEF Absent
<1> QED  BY <1>1 DEF Shown, Sweep

\* A handler moves one job at most, and with it go the stamps of its deadlines.
HandlerTimes(r, ix, new, id) ==
  \/ new[id] = ix[id]
  \/ r.op = "submit" /\ id = r.job /\ new[id].state = "uploading"
  \/ /\ ix[id].state \in Live /\ new[id].created = ix[id].created
     /\ \/ new[id].state = "queued" /\ ix[id].state = "uploading" /\ new[id].queued = r.now
        \/ new[id].state = "running" /\ ix[id].state = "queued" /\ new[id].started = r.now
        \/ new[id].state = "running" /\ ix[id].state = "running" /\ new[id].started = ix[id].started
        \/ new[id].state \in Final

LEMMA HandlerMovesOne ==
  ASSUME NEW r \in Request, NEW ix \in Index, NEW new \in Handle(r, ix),
         r.op \in Ops, r.op # "claim" => r.job \in Jobs
  PROVE  \E k \in Jobs : /\ HandlerTimes(r, ix, new, k)
                         /\ \A o \in Jobs \ {k} : new[o] = ix[o]
<1>0. \A id \in Jobs : ix[id] \in Job  BY DEF Index
<1>1. CASE r.op = "submit"
  <2> DEFINE j == [Absent EXCEPT !.state = "uploading",
                 !.owner = r.owner, !.timeout = r.timeout, !.created = r.now]
  <2>1. r.job \in Jobs /\ new = [ix EXCEPT ![r.job] = j]
    BY <1>1 DEF Handle, Submit
  <2>2. j.state = "uploading"  BY DEF Absent
  <2> HIDE DEF j
  <2> QED  BY <1>1, <2>1, <2>2 DEF Index, HandlerTimes
<1>2. CASE r.op = "input"
  <2> DEFINE j == [ix[r.job] EXCEPT !.state = "queued", !.queued = r.now]
  <2>1. /\ r.job \in Jobs /\ ix[r.job].state = "uploading"
        /\ new = [ix EXCEPT ![r.job] = j]
    BY <1>2 DEF Handle, Input
  <2>2. j.state = "queued" /\ j.queued = r.now /\ j.created = ix[r.job].created
    BY <1>0, <2>1 DEF Job
  <2> HIDE DEF j
  <2> QED  BY <2>1, <2>2 DEF Index, HandlerTimes, Live, Waiting
<1>3. CASE r.op = "cancel"
  <2>1. r.job \in Jobs  BY <1>3
  <2>2. CASE ix[r.job].state \in Waiting
    <3> DEFINE j == Ended(ix[r.job], "cancelled", r.now)
    <3>1. new = [ix EXCEPT ![r.job] = j]  BY <1>3, <2>2 DEF Handle, Cancel, Waiting
    <3>2. j.state \in Final /\ j.created = ix[r.job].created
      BY <1>0, <2>1 DEF Ended, Job, Final
    <3> HIDE DEF j
    <3> QED  BY <2>1, <2>2, <3>1, <3>2 DEF Index, HandlerTimes, Live
  <2>3. CASE ix[r.job].state = "running"
    <3> DEFINE j == [ix[r.job] EXCEPT !.cancel = TRUE]
    <3>1. new = [ix EXCEPT ![r.job] = j]
      <4>1. new = [ix EXCEPT ![r.job].cancel = TRUE]
        BY <1>3, <2>3 DEF Handle, Cancel, Waiting
      <4> QED  BY <4>1 DEF Index
    <3>2. j.state = "running" /\ j.started = ix[r.job].started /\ j.created = ix[r.job].created
      BY <1>0, <2>1, <2>3 DEF Job
    <3> HIDE DEF j
    <3> QED  BY <2>1, <2>3, <3>1, <3>2 DEF Index, HandlerTimes, Live
  <2>4. CASE ix[r.job].state \notin Waiting \cup {"running"}
    <3>1. new = ix  BY <1>3, <2>4 DEF Handle, Cancel
    <3> QED  BY <2>1, <3>1 DEF HandlerTimes
  <2> QED  BY <2>2, <2>3, <2>4
<1>4. CASE r.op = "claim"
  <2>1. PICK k \in Oldest(ix) :
          new = [ix EXCEPT ![k] = [ix[k] EXCEPT !.state = "running", !.started = r.now,
                                     !.lease = r.now + LeaseFor]]
    BY <1>4 DEF Handle, Claim
  <2> DEFINE j == [ix[k] EXCEPT !.state = "running", !.started = r.now,
                     !.lease = r.now + LeaseFor]
  <2>2. k \in Jobs /\ ix[k].state = "queued"  BY DEF Oldest, Queued
  <2>3. j.state = "running" /\ j.started = r.now /\ j.created = ix[k].created
    BY <1>0, <2>2 DEF Job
  <2>4. new = [ix EXCEPT ![k] = j]  BY <2>1
  <2> HIDE DEF j
  <2> QED  BY <2>2, <2>3, <2>4 DEF Index, HandlerTimes, Live, Waiting
<1>5. CASE r.op = "heartbeat"
  <2> DEFINE j == [ix[r.job] EXCEPT !.lease = r.now + LeaseFor]
  <2>1. r.job \in Jobs /\ ix[r.job].state = "running"  BY <1>5 DEF Handle, Heartbeat
  <2>2. new = [ix EXCEPT ![r.job] = j]
    <3>1. new = [ix EXCEPT ![r.job].lease = r.now + LeaseFor]  BY <1>5 DEF Handle, Heartbeat
    <3> QED  BY <3>1 DEF Index
  <2>3. j.state = "running" /\ j.started = ix[r.job].started /\ j.created = ix[r.job].created
    BY <1>0, <2>1 DEF Job
  <2> HIDE DEF j
  <2> QED  BY <2>1, <2>2, <2>3 DEF Index, HandlerTimes, Live
<1>6. CASE r.op = "finish"
  <2> DEFINE j == [ix[r.job] EXCEPT !.state = IF ix[r.job].cancel THEN "cancelled"
                                                ELSE "finished",
                                     !.finished = r.now, !.files = r.names]
  <2>1. /\ r.job \in Jobs /\ ix[r.job].state = "running"
        /\ new = [ix EXCEPT ![r.job] = j]
    BY <1>6 DEF Handle, Finish
  <2>2. j.state \in Final /\ j.created = ix[r.job].created
    BY <1>0, <2>1 DEF Job, Final
  <2> HIDE DEF j
  <2> QED  BY <2>1, <2>2 DEF Index, HandlerTimes, Live
<1> QED  BY <1>1, <1>2, <1>3, <1>4, <1>5, <1>6 DEF Handle, Ops

\* A store sweeps every job, drops those that are archived, and moves one on.
LEMMA StoreSweeps ==
  ASSUME Inv, NEW s \in Slots, Store(s)
  PROVE  /\ UNCHANGED <<clock, archive, blobs>> /\ req[s].pc = "swap" /\ req[s].now \in Nat
         /\ \A id \in Jobs :
              /\ index[id] \in Job /\ archive[id] \in Job
              /\ Sweep(index, req[s].now)[id] =
                   IF Gone(index[id], req[s].now) THEN Absent ELSE Swept(index[id], req[s].now)
              /\ Gone(index[id], req[s].now) => archive[id].state # "absent"
         /\ \E k \in Jobs :
              /\ HandlerTimes(req[s], Sweep(index, req[s].now), index', k)
              /\ \A o \in Jobs \ {k} : index'[o] = Sweep(index, req[s].now)[o]
<1> DEFINE r == req[s]
           swept == Sweep(r.loaded, r.now)
<1>1. /\ r \in Request /\ r.now \in Nat /\ index \in Index /\ archive \in Index
      /\ r.pc = "swap" /\ index = r.loaded /\ index' \in Handle(r, swept)
      /\ r.op \in Ops /\ (r.op # "claim" => r.job \in Jobs)
      /\ UNCHANGED <<clock, archive, blobs>>
  BY DEF Inv, TypeOK, Request, Store, RequestsOK
<1>2. swept \in Index  BY <1>1, SweepEach
<1>3. \E k \in Jobs : /\ HandlerTimes(r, swept, index', k)
                      /\ \A o \in Jobs \ {k} : index'[o] = swept[o]
  <2> HIDE DEF r, swept
  <2> QED  BY <1>1, <1>2, HandlerMovesOne
<1>4. \A id \in Jobs : Gone(index[id], r.now) => archive[id].state # "absent"
  BY <1>1 DEF Inv, DropsArchived
<1> QED  BY <1>1, <1>3, <1>4 DEF Sweep, Index

\* What a step can do to the index, the archive and the clock.
LEMMA FourSteps ==
  [Next]_vars => \/ UNCHANGED <<clock, index, archive>>
                 \/ Tick
                 \/ \E s \in Slots : Load(s)
                 \/ \E s \in Slots : Store(s)
BY DEF Next, vars, SubmitArrives, InputArrives, CancelArrives, ClaimArrives, HeartbeatArrives,
       FileArrives, FinishArrives, PutBlob, LoseSwap, Fail

EndsInv == StampsInTime /\ ArchiveFinal

LEMMA StampsKept ==
  ASSUME Inv, StampsInTime, NEW s \in Slots, Store(s)
  PROVE  StampsInTime'
<1> DEFINE now == req[s].now
           swept == Sweep(index, now)
<1>1. /\ now \in Nat
      /\ \A id \in Jobs :
           /\ index[id] \in Job
           /\ swept[id] = IF Gone(index[id], now) THEN Absent ELSE Swept(index[id], now)
           /\ \/ index'[id] = swept[id]
              \/ HandlerTimes(req[s], swept, index', id)
  BY StoreSweeps
<1> SUFFICES ASSUME NEW id \in Jobs
             PROVE  /\ index'[id].state = "queued" =>
                         index'[id].queued <= index'[id].created + UploadTTL
                    /\ index'[id].state = "running" =>
                         index'[id].started <= index'[id].created + UploadTTL + QueueTTL
  BY DEF StampsInTime
<1>2. /\ index[id].created \in Nat /\ index[id].queued \in Nat /\ index[id].started \in Nat
      /\ UploadTTL \in Nat /\ QueueTTL \in Nat
  BY <1>1, TimesAreNat DEF Job
<1>3. swept[id].state \in Live => swept[id] = Swept(index[id], now)
  BY <1>1 DEF Absent, Live, Waiting
<1>4. swept[id].state \in Live =>
        /\ swept[id] = index[id]
        /\ index[id].state = "uploading" => now <= index[id].created + UploadTTL
        /\ index[id].state = "queued" => now <= index[id].queued + QueueTTL
  BY <1>1, <1>3, SweptLive
<1> HIDE DEF swept, now
<1>5. CASE index'[id] = swept[id]
  BY <1>4, <1>5 DEF StampsInTime, Live, Waiting
<1>6. CASE HandlerTimes(req[s], swept, index', id)
  <2>1. CASE index'[id].state = "queued" /\ index'[id] # swept[id]
    BY <1>2, <1>4, <1>6, <2>1 DEF HandlerTimes, Final, now
  <2>2. CASE index'[id].state = "running" /\ index'[id] # swept[id]
    <3>1. /\ swept[id].state \in Live /\ index'[id].created = swept[id].created
          /\ \/ swept[id].state = "queued" /\ index'[id].started = now
             \/ swept[id].state = "running" /\ index'[id].started = swept[id].started
      BY <1>6, <2>2 DEF HandlerTimes, Final, now
    <3>2. /\ swept[id] = index[id]
          /\ index[id].state = "queued" => now <= index[id].queued + QueueTTL
      BY <1>4, <3>1
    <3>3. /\ index[id].state = "queued" =>
               index[id].queued <= index[id].created + UploadTTL
          /\ index[id].state = "running" =>
               index[id].started <= index[id].created + UploadTTL + QueueTTL
      BY DEF StampsInTime
    <3>4. now \in Nat  BY <1>1 DEF now
    <3> QED  BY <1>2, <2>2, <3>1, <3>2, <3>3, <3>4
  <2> QED  BY <1>5, <2>1, <2>2
<1> QED  BY <1>1, <1>5, <1>6 DEF swept, now

LEMMA EndsStep == Inv /\ EndsInv /\ [Next]_vars => EndsInv'
<1> SUFFICES ASSUME Inv, EndsInv, [Next]_vars PROVE EndsInv'  OBVIOUS
<1>1. CASE UNCHANGED <<clock, index, archive>> \/ Tick
  BY <1>1 DEF EndsInv, StampsInTime, ArchiveFinal, Tick
<1>2. ASSUME NEW s \in Slots, Load(s) PROVE EndsInv'
  <2>1. /\ UNCHANGED index
        /\ \A id \in Jobs : \/ archive'[id] = archive[id]
                            \/ /\ Gone(index[id], req[s].now)
                               /\ archive'[id] = Swept(index[id], req[s].now)
    BY <1>2, LoadArchives DEF Inv
  <2>2. ArchiveFinal'  BY <2>1 DEF ArchiveFinal, EndsInv, Gone
  <2> QED  BY <2>1, <2>2 DEF EndsInv, StampsInTime
<1>3. ASSUME NEW s \in Slots, Store(s) PROVE EndsInv'
  <2>1. UNCHANGED archive  BY <1>3, StoreSweeps
  <2> QED  BY <1>3, <2>1, StampsKept DEF EndsInv, ArchiveFinal
<1> QED  BY <1>1, <1>2, <1>3, FourSteps

LEMMA EndsHold == Spec => [](Inv /\ EndsInv)
<1>1. Init => EndsInv
  BY DEF Init, NoIndex, Absent, EndsInv, StampsInTime, ArchiveFinal
<1>2. EndsInv /\ Inv /\ [Next]_vars => EndsInv'  BY EndsStep
<1> QED  BY <1>1, <1>2, InvHolds, PTL DEF Spec

\* No job is shown live past the sum of its deadlines, whatever its requests and
\* its Mac do, and with nobody writing (sweep).
THEOREM JobsEndInTime == Spec => []EndsInTime
<1>1. Inv /\ EndsInv => EndsInTime
  <2> SUFFICES ASSUME Inv, EndsInv PROVE EndsInTime  OBVIOUS
  <2>0. /\ UploadTTL \in Nat /\ QueueTTL \in Nat /\ Overhead \in Nat /\ clock \in Nat
        /\ \A i \in Jobs : Shown(i).created \in Nat /\ Shown(i).timeout \in Nat
    <3>1. index \in Index /\ archive \in Index /\ clock \in Nat  BY DEF Inv, TypeOK
    <3>2. \A i \in Jobs : Shown(i) \in Job  BY <3>1, ShownIs, SweptEnds DEF Index
    <3> QED  BY <3>1, <3>2, TimesAreNat DEF Job
  <2> SUFFICES ASSUME NEW id \in Jobs, Shown(id).state \in Live
               PROVE  clock <= Shown(id).created + UploadTTL + QueueTTL + Shown(id).timeout
                                 + Overhead
    BY <2>0 DEF EndsInTime
  <2>1. index[id] \in Job /\ clock \in Nat  BY DEF Inv, TypeOK, Index
  <2>2. archive[id].state \notin Live
    BY DEF EndsInv, ArchiveFinal, Absent, Final, Live, Waiting
  <2>3. Shown(id) = Swept(index[id], clock)  BY <2>2, ShownIs
  <2>4. /\ Shown(id) = index[id]
        /\ index[id].state = "uploading" => clock <= index[id].created + UploadTTL
        /\ index[id].state = "queued" => clock <= index[id].queued + QueueTTL
        /\ index[id].state = "running" =>
             clock <= index[id].started + index[id].timeout + Overhead
    BY <2>1, <2>3, SweptLive DEF Limit
  <2>5. /\ index[id].created \in Nat /\ index[id].queued \in Nat /\ index[id].started \in Nat
        /\ index[id].timeout \in Nat
        /\ UploadTTL \in Nat /\ QueueTTL \in Nat /\ Overhead \in Nat
    BY <2>1, TimesAreNat DEF Job
  <2>6. /\ index[id].state = "queued" => index[id].queued <= index[id].created + UploadTTL
        /\ index[id].state = "running" =>
             index[id].started <= index[id].created + UploadTTL + QueueTTL
    BY DEF EndsInv, StampsInTime
  <2>7. index[id].state \in {"uploading", "queued", "running"}  BY <2>4 DEF Live, Waiting
  <2> QED  BY <2>1, <2>4, <2>5, <2>6, <2>7
<1> QED  BY <1>1, EndsHold, PTL

\* How an attempt comes by its clock.
LEMMA ClockSteps ==
  ASSUME Inv, [Next]_vars, NEW t \in Slots
  PROVE  \/ req'[t] = req[t]
         \/ req'[t].pc \in {"idle", "put"}
         \/ req'[t].pc = "load" /\ req'[t].now = clock
         \/ req[t].pc = "load" /\ req'[t].now = req[t].now
<1>0. /\ TypeOK /\ req \in [Slots -> Request] /\ clock \in Nat /\ Idle.pc = "idle"
  BY DEF Inv, TypeOK, Idle
<1>1. ASSUME NEW s \in Slots,
             \/ SubmitArrives(s) \/ InputArrives(s) \/ CancelArrives(s)
             \/ ClaimArrives(s) \/ HeartbeatArrives(s) \/ FileArrives(s) \/ FinishArrives(s)
      PROVE  \/ req'[t] = req[t]
             \/ req'[t].pc \in {"idle", "put"}
             \/ req'[t].pc = "load" /\ req'[t].now = clock
  BY <1>0, <1>1, Arrivals DEF Arrives
<1>2. ASSUME NEW s \in Slots, LoseSwap(s) \/ Fail(s)
      PROVE  \/ req'[t] = req[t]
             \/ req'[t].pc \in {"idle", "put"}
             \/ req'[t].pc = "load" /\ req'[t].now = clock
  BY <1>0, <1>2, Continuations DEF Continues
<1>3. ASSUME NEW s \in Slots, PutBlob(s)
      PROVE  \/ req'[t] = req[t]
             \/ req'[t].pc \in {"idle", "put"}
             \/ req'[t].pc = "load" /\ req'[t].now = clock
  <2> DEFINE r == [req[s] EXCEPT !.names = {}]
  <2>1. req[s] \in Request /\ (Attempt(s, r) \/ Goto(s, Idle))
    BY <1>0, <1>3 DEF PutBlob
  <2>2. r \in Request  BY <2>1 DEF Request
  <2> HIDE DEF r
  <2> QED  BY <1>0, <2>1, <2>2, IdleIsRequest, AttemptChanges, GotoChanges
<1>4. ASSUME NEW s \in Slots, Load(s)
      PROVE  \/ req'[t] = req[t]
             \/ req'[t].pc = "idle"
             \/ req[t].pc = "load" /\ req'[t].now = req[t].now
  BY <1>0, <1>4, LoadChanges
<1>5. ASSUME NEW s \in Slots, Store(s)
      PROVE  req'[t] = req[t] \/ req'[t].pc = "idle"
  <2>1. Goto(s, Idle)  BY <1>5 DEF Store
  <2> QED  BY <1>0, <2>1, IdleIsRequest, GotoChanges
<1>6. CASE Tick \/ UNCHANGED vars
  BY <1>6 DEF Tick, vars
<1> QED  BY <1>1, <1>2, <1>3, <1>4, <1>5, <1>6 DEF Next

LEMMA ClocksKept ==
  ASSUME Inv, ClocksHeld, [Next]_vars
  PROVE  ClocksHeld'
<1>0. clock \in Nat /\ MaxHold \in Nat /\ \A t \in Slots : req[t].now \in Nat
  BY BoundAssumption DEF Inv, TypeOK, Request
<1>1. CASE Tick
  <2>1. ASSUME NEW t \in Slots, req[t].pc \in {"load", "swap"}
        PROVE  req[t].now <= clock + 1 /\ clock + 1 <= req[t].now + MaxHold
    <3>1. clock < req[t].now + MaxHold  BY <1>1, <2>1 DEF Tick, Holds
    <3>2. req[t].now <= clock  BY <2>1 DEF ClocksHeld
    <3> QED  BY <1>0, <3>1, <3>2
  <2>2. clock' = clock + 1 /\ req' = req  BY <1>1 DEF Tick
  <2> QED  BY <2>1, <2>2 DEF ClocksHeld
<1>2. CASE clock' = clock
  <2> SUFFICES ASSUME NEW t \in Slots, req'[t].pc \in {"load", "swap"}
               PROVE  req'[t].now <= clock /\ clock <= req'[t].now + MaxHold
    BY <1>2 DEF ClocksHeld
  <2>1. \/ req'[t].now = clock
        \/ req'[t].now = req[t].now /\ req[t].pc \in {"load", "swap"}
    BY ClockSteps
  <2>2. req[t].pc \in {"load", "swap"} => req[t].now <= clock /\ clock <= req[t].now + MaxHold
    BY DEF ClocksHeld
  <2> QED  BY <1>0, <2>1, <2>2
<1>3. clock' = clock \/ Tick  BY FourSteps DEF Load, Store
<1> QED  BY <1>1, <1>2, <1>3

SettleInv == ClocksHeld /\ ArchiveSettled

\* What a request at its swap makes of a job that was archived is what was archived.
LEMMA SettledSweep ==
  ASSUME MaxHold <= KeepFor, Inv, SettleInv, NEW s \in Slots, req[s].pc = "swap",
         NEW id \in Jobs, archive[id].state # "absent", index[id].state # "absent"
  PROVE  Swept(index[id], req[s].now) = archive[id]
<1>1. /\ req[s].now \in Nat /\ clock \in Nat /\ archive[id] \in Job
      /\ MaxHold \in Nat /\ KeepFor \in Nat
  BY TimesAreNat, BoundAssumption DEF Inv, TypeOK, Request, Index
<1>2. clock <= req[s].now + MaxHold  BY DEF SettleInv, ClocksHeld
<1>3. /\ archive[id].finished + KeepFor < clock
      /\ \A n \in Nat : n > archive[id].finished => Swept(index[id], n) = archive[id]
  BY DEF SettleInv, ArchiveSettled
<1>4. archive[id].finished \in Nat  BY <1>1 DEF Job
<1>5. req[s].now > archive[id].finished  BY <1>1, <1>2, <1>3, <1>4
<1> QED  BY <1>1, <1>3, <1>5

LEMMA FinalStays ==
  ASSUME NEW j \in Job, j.state \in Final
  PROVE  \A n \in Nat : Swept(j, n) = j
BY SweptEnds DEF Final, Live, Waiting

\* A sweep's deadlines are constants: only the job it sweeps is of the next state.
LEMMA SweptPrimed ==
  \A id \in Jobs : \A n \in Nat : Swept(index[id], n)' = Swept(index'[id], n)
BY DEF Swept, Limit, Ended

LEMMA SettledKept ==
  ASSUME MaxHold <= KeepFor, Inv, EndsInv, SettleInv, [Next]_vars
  PROVE  ArchiveSettled'
<1>0. /\ clock \in Nat /\ index \in Index /\ archive \in Index
      /\ KeepFor \in Nat
      /\ \A id \in Jobs : index[id] \in Job /\ archive[id] \in Job /\ archive[id].finished \in Nat
  BY TimesAreNat DEF Inv, TypeOK, Index, Job
<1>1. CASE UNCHANGED <<clock, index, archive>>
  BY <1>1, SweptPrimed DEF SettleInv, ArchiveSettled
<1>2. CASE Tick
  <2>1. clock' = clock + 1 /\ index' = index /\ archive' = archive  BY <1>2 DEF Tick
  <2>2. \A id \in Jobs : archive[id].finished + KeepFor < clock
                           => archive[id].finished + KeepFor < clock + 1
    BY <1>0
  <2> QED  BY <2>1, <2>2, SweptPrimed DEF SettleInv, ArchiveSettled
<1>3. ASSUME NEW s \in Slots, Load(s) PROVE ArchiveSettled'
  <2>1. /\ UNCHANGED <<clock, index>>
        /\ \A id \in Jobs : \/ archive'[id] = archive[id]
                            \/ /\ Gone(index[id], req[s].now)
                               /\ archive'[id] = Swept(index[id], req[s].now)
    BY <1>3, LoadArchives DEF Inv
  <2>2. req[s].now \in Nat /\ req[s].now <= clock
    BY <1>3 DEF Load, SettleInv, ClocksHeld, Inv, TypeOK, Request
  <2> SUFFICES ASSUME NEW id \in Jobs, archive'[id].state # "absent",
                      index[id].state # "absent"
               PROVE  /\ archive'[id].finished + KeepFor < clock
                      /\ \A n \in Nat : n > archive'[id].finished
                                          => Swept(index[id], n) = archive'[id]
    BY <2>1, SweptPrimed DEF ArchiveSettled
  <2>3. CASE archive'[id] = archive[id]
    BY <2>3 DEF SettleInv, ArchiveSettled
  <2>4. CASE Gone(index[id], req[s].now) /\ archive'[id] = Swept(index[id], req[s].now)
    <3> DEFINE a == Swept(index[id], req[s].now)
    <3>1. /\ a \in Job /\ a.state \in Final /\ req[s].now - a.finished > KeepFor
      BY <1>0, <2>2, <2>4, SweptEnds DEF Gone
    <3>2. a.finished \in Nat  BY <3>1 DEF Job
    <3>3. a.finished + KeepFor < clock  BY <1>0, <2>2, <3>1, <3>2
    <3>4. \A n \in Nat : n > a.finished => Swept(index[id], n) = a
      BY <1>0, <2>2, <3>1, EndStands
    <3> QED  BY <2>4, <3>3, <3>4
  <2> QED  BY <2>1, <2>3, <2>4
<1>4. ASSUME NEW s \in Slots, Store(s) PROVE ArchiveSettled'
  <2> DEFINE now == req[s].now
             swept == Sweep(index, now)
  <2>1. /\ UNCHANGED <<clock, archive>> /\ req[s].pc = "swap" /\ now \in Nat
        /\ \A id \in Jobs :
             /\ swept[id] = IF Gone(index[id], now) THEN Absent ELSE Swept(index[id], now)
             /\ index'[id] = swept[id] \/ HandlerTimes(req[s], swept, index', id)
    BY <1>4, StoreSweeps
  <2> HIDE DEF swept, now
  <2>2. ASSUME NEW id \in Jobs, archive[id].state # "absent", index'[id].state # "absent"
        PROVE  /\ index[id].state # "absent" /\ index'[id] = archive[id]
    <3>1. archive[id].state \in Final /\ archive[id].state \notin Live
      BY <2>2 DEF EndsInv, ArchiveFinal, Absent, Final, Live, Waiting
    <3>2. ~(req[s].op = "submit" /\ id = req[s].job)
      BY <2>1, <2>2 DEF Inv, SubmitFresh
    <3>3. CASE index[id].state # "absent"
      <4>1. Swept(index[id], now) = archive[id]
        BY <2>1, <2>2, <3>3, SettledSweep DEF now
      <4>2. swept[id] \in {Absent, archive[id]}  BY <2>1, <4>1
      <4>3. HandlerTimes(req[s], swept, index', id) => index'[id] = swept[id]
        BY <3>1, <3>2, <4>2 DEF HandlerTimes, Absent, Live, Waiting
      <4> QED  BY <2>1, <2>2, <3>3, <4>2, <4>3 DEF Absent
    <3>4. CASE index[id].state = "absent"
      <4>1. swept[id].state = "absent"
        <5>1. Swept(index[id], now).state = "absent"
          BY <1>0, <2>1, <3>4, SweptEnds DEF Live, Waiting
        <5> QED  BY <2>1, <5>1 DEF Absent
      <4>2. HandlerTimes(req[s], swept, index', id) => index'[id] = swept[id]
        BY <3>2, <4>1 DEF HandlerTimes, Live, Waiting
      <4> QED  BY <2>1, <2>2, <4>1, <4>2
    <3> QED  BY <3>3, <3>4
  <2>3. ASSUME NEW id \in Jobs, archive[id].state # "absent", index'[id].state # "absent"
        PROVE  /\ archive[id].finished + KeepFor < clock
               /\ \A n \in Nat : n > archive[id].finished => Swept(index'[id], n) = archive[id]
    <3>1. index[id].state # "absent" /\ index'[id] = archive[id]  BY <2>2, <2>3
    <3>2. archive[id].state \in Final
      BY <2>3 DEF EndsInv, ArchiveFinal, Absent
    <3>3. \A n \in Nat : Swept(archive[id], n) = archive[id]
      BY <1>0, <3>2, FinalStays
    <3> QED  BY <2>3, <3>1, <3>3 DEF SettleInv, ArchiveSettled
  <2> QED  BY <2>1, <2>3, SweptPrimed DEF ArchiveSettled
<1> QED  BY <1>1, <1>2, <1>3, <1>4, FourSteps

\* While no request is held up for as long as an ended job is kept, what the archive
\* and the index say of a job agrees.
SettledInv == Inv /\ EndsInv /\ SettleInv

LEMMA SettledHolds == ASSUME MaxHold <= KeepFor PROVE Spec => []SettledInv
<1>1. Init => SettledInv
  <2> SUFFICES ASSUME Init PROVE EndsInv /\ SettleInv
    BY StartsKept DEF SettledInv
  <2> QED  BY DEF Init, NoIndex, Absent, Idle, EndsInv, StampsInTime, ArchiveFinal, SettleInv,
                 ClocksHeld, ArchiveSettled
<1>2. SettledInv /\ [Next]_vars => SettledInv'
  BY StepKeeps, EndsStep, ClocksKept, SettledKept DEF SettledInv, SettleInv
<1> QED  BY <1>1, <1>2, PTL DEF Spec

\* What a store leaves of a job that is archived, or over.
LEMMA StoreSettles ==
  ASSUME MaxHold <= KeepFor, SettledInv, NEW s \in Slots, Store(s), NEW id \in Jobs
  PROVE  /\ archive[id].state # "absent" /\ index[id].state # "absent" =>
              index'[id] \in {Absent, archive[id]}
         /\ archive[id].state # "absent" /\ index[id].state = "absent" =>
              index'[id].state = "absent"
         /\ index[id].state # "absent" /\ Swept(index[id], req[s].now).state \in Final =>
              \/ Gone(index[id], req[s].now)
              \/ index'[id] = Swept(index[id], req[s].now)
         /\ index[id].state # "absent" /\ index'[id].state = "absent" =>
              archive[id].state # "absent" /\ Gone(index[id], req[s].now)
<1> DEFINE now == req[s].now
           swept == Sweep(index, now)
<1>1. /\ req[s].pc = "swap" /\ now \in Nat /\ index[id] \in Job /\ archive[id] \in Job
      /\ swept[id] = IF Gone(index[id], now) THEN Absent ELSE Swept(index[id], now)
      /\ index'[id] = swept[id] \/ HandlerTimes(req[s], swept, index', id)
      /\ Gone(index[id], now) => archive[id].state # "absent"
  BY StoreSweeps DEF SettledInv
<1>2. /\ req[s].op = "submit" /\ id = req[s].job =>
           index[id].state = "absent" /\ archive[id].state = "absent"
      /\ archive[id] = Absent \/ archive[id].state \in Final
  BY <1>1 DEF SettledInv, Inv, SubmitFresh, EndsInv, ArchiveFinal
<1>3. index[id].state = "absent" => Swept(index[id], now).state = "absent"
  BY <1>1, SweptEnds DEF Live, Waiting
<1>4. archive[id].state # "absent" /\ index[id].state # "absent" =>
        Swept(index[id], now) = archive[id]
  BY <1>1, SettledSweep DEF now, SettledInv
<1> HIDE DEF now, swept
<1>5. HandlerTimes(req[s], swept, index', id) =>
        /\ index'[id].state # "absent" \/ index'[id] = swept[id]
        /\ \/ index'[id] = swept[id] \/ swept[id].state \in Live
           \/ req[s].op = "submit" /\ id = req[s].job
  BY DEF HandlerTimes, Final
<1>6. /\ Absent.state = "absent" /\ "absent" \notin Live /\ "absent" \notin Final
      /\ \A state \in Final : state \notin Live
  BY DEF Absent, Live, Waiting, Final
<1>7. archive[id].state # "absent" => index'[id] = swept[id]
  BY <1>1, <1>2, <1>3, <1>4, <1>5, <1>6
<1>8. archive[id].state # "absent" /\ index[id].state # "absent" =>
        index'[id] \in {Absent, archive[id]}
  BY <1>1, <1>4, <1>7
<1>9. archive[id].state # "absent" /\ index[id].state = "absent" => index'[id].state = "absent"
  BY <1>1, <1>3, <1>6, <1>7
<1>10. index[id].state # "absent" /\ Swept(index[id], now).state \in Final =>
         Gone(index[id], now) \/ index'[id] = Swept(index[id], now)
  BY <1>1, <1>2, <1>5, <1>6
<1>11. index[id].state # "absent" /\ index'[id].state = "absent" => Gone(index[id], now)
  <2>1. index[id].state # "absent" => Swept(index[id], now).state # "absent"
    BY <1>1, SweptEnds
  <2> QED  BY <1>1, <1>5, <2>1
<1>12. Gone(index[id], now) => archive[id].state # "absent"  BY <1>1
<1> QED  BY <1>8, <1>9, <1>10, <1>11, <1>12 DEF now

\* A job that leaves the index is in the archive by then, as it last was (mutate
\* archives before it swaps).
THEOREM JobsLeaveArchived == ASSUME MaxHold <= KeepFor PROVE Spec => LeavesArchived
<1>1. ASSUME SettledInv, [Next]_vars, NEW id \in Jobs,
             index[id].state # "absent", index'[id].state = "absent"
      PROVE  /\ archive'[id].state \in Final
             /\ index[id].state \in Final => archive'[id] = index[id]
  <2>1. PICK s \in Slots : Store(s)
    BY <1>1, FourSteps, LoadArchives DEF Tick, SettledInv, Inv
  <2>2. /\ archive' = archive /\ req[s].pc = "swap" /\ req[s].now \in Nat
        /\ index[id] \in Job
    BY <1>1, <2>1, StoreSweeps DEF SettledInv
  <2>3. archive[id].state # "absent"
    BY <1>1, <2>1, StoreSettles
  <2>4. archive[id].state \in Final
    BY <1>1, <2>3 DEF SettledInv, EndsInv, ArchiveFinal, Absent
  <2>5. Swept(index[id], req[s].now) = archive[id]
    BY <1>1, <2>2, <2>3, SettledSweep DEF SettledInv
  <2>6. index[id].state \in Final => Swept(index[id], req[s].now) = index[id]
    BY <2>2, FinalStays
  <2> QED  BY <2>2, <2>4, <2>5, <2>6
<1>2. SettledInv /\ [Next]_vars =>
        [\A id \in Jobs :
           index[id].state # "absent" /\ index'[id].state = "absent" =>
             /\ archive'[id].state \in Final
             /\ index[id].state \in Final => archive'[id] = index[id]]_vars
  BY <1>1
<1> QED  BY <1>2, SettledHolds, PTL DEF Spec, LeavesArchived

\* What a reader is shown, by what is stored and the clock.
ShownOf(ix, ar, n, id) == LET j == Sweep(ix, n)[id]
                          IN  IF j.state = "absent" THEN ar[id] ELSE j

LEMMA ShownBoth ==
  ASSUME NEW id \in Jobs
  PROVE  /\ Shown(id) = ShownOf(index, archive, clock, id)
         /\ Shown(id)' = ShownOf(index', archive', clock', id)
<1>1. Shown(id) = ShownOf(index, archive, clock, id)
  BY DEF Shown, ShownOf
<1>2. Shown(id)' = ShownOf(index', archive', clock', id)
  BY DEF Shown, ShownOf, Sweep, Gone, Swept, Limit, Ended
<1> QED  BY <1>1, <1>2

LEMMA ShownTells ==
  ASSUME NEW ix, NEW ar, NEW n, NEW id \in Jobs
  PROVE  ShownOf(ix, ar, n, id) = IF Gone(ix[id], n) \/ Swept(ix[id], n).state = "absent"
                                  THEN ar[id] ELSE Swept(ix[id], n)
<1>1. Absent.state = "absent"  BY DEF Absent
<1>2. Sweep(ix, n)[id] = IF Gone(ix[id], n) THEN Absent ELSE Swept(ix[id], n)  BY DEF Sweep
<1> QED  BY <1>1, <1>2 DEF ShownOf

LEMMA ShownSettles ==
  ASSUME MaxHold <= KeepFor, SettledInv, [Next]_vars, NEW id \in Jobs,
         Shown(id).state \in Final, clock > Shown(id).finished + MaxHold
  PROVE  Shown(id)' \in {Shown(id), Absent}
<1> DEFINE was == Shown(id)
           j == index[id]
           a == archive[id]
<1>0. /\ clock \in Nat /\ MaxHold \in Nat /\ KeepFor \in Nat /\ j \in Job /\ a \in Job
      /\ Absent.state = "absent" /\ "absent" \notin Final
  BY TimesAreNat, BoundAssumption DEF SettledInv, Inv, TypeOK, Index, Absent, Final
<1>1. /\ was = IF Gone(j, clock) \/ Swept(j, clock).state = "absent" THEN a ELSE Swept(j, clock)
      /\ Shown(id)' = IF Gone(index'[id], clock') \/ Swept(index'[id], clock').state = "absent"
                      THEN archive'[id] ELSE Swept(index'[id], clock')
  BY ShownBoth, ShownTells
<1>2. was \in Job /\ was.state \in Final /\ was.finished \in Nat
      /\ clock > was.finished + MaxHold
  <2>1. was \in Job  BY <1>0, <1>1, SweptEnds
  <2> QED  BY <2>1 DEF Job
<1>3. /\ a = Absent \/ a.state \in Final
      /\ j.state # "absent" /\ a.state # "absent" =>
           /\ a.finished + KeepFor < clock
           /\ \A n \in Nat : n > a.finished => Swept(j, n) = a
  BY DEF SettledInv, EndsInv, ArchiveFinal, SettleInv, ArchiveSettled
<1>4. /\ j.state = "absent" => \A n \in Nat : Swept(j, n).state = "absent" /\ ~Gone(j, n)
      /\ j.state # "absent" => Swept(j, clock).state # "absent"
  <2>1. ASSUME j.state = "absent", NEW n \in Nat PROVE Swept(j, n).state = "absent"
    BY <1>0, <2>1, SweptEnds DEF Live, Waiting
  <2>2. j.state # "absent" => Swept(j, clock).state # "absent"
    BY <1>0, SweptEnds
  <2> QED  BY <1>0, <2>1, <2>2 DEF Gone
<1> HIDE DEF was, j, a
<1>5. CASE UNCHANGED <<clock, index, archive>>
  BY <1>1, <1>5 DEF was, j, a
<1>6. ASSUME Tick PROVE Shown(id)' \in {was, Absent}
  <2> DEFINE n == clock'
             e == Swept(j, clock)
  <2>0. clock' = clock + 1 /\ index' = index /\ archive' = archive  BY <1>6 DEF Tick
  <2>1. /\ n \in Nat /\ n > clock /\ e \in Job
        /\ Shown(id)' = IF Gone(j, n) \/ Swept(j, n).state = "absent" THEN a ELSE Swept(j, n)
    <3>1. n \in Nat /\ n > clock /\ e \in Job  BY <1>0, <2>0, SweptEnds
    <3>2. index'[id] = j /\ archive'[id] = a  BY <2>0 DEF j, a
    <3> QED  BY <1>1, <3>1, <3>2
  <2> HIDE DEF n
  <2>2. CASE j.state = "absent"
    BY <1>0, <1>1, <1>4, <2>1, <2>2
  <2>3. CASE j.state # "absent" /\ Gone(j, clock)
    <3>1. e.state \in Final /\ clock - e.finished > KeepFor /\ e.finished \in Nat
      BY <2>1, <2>3 DEF Gone, Job
    <3>2. n > e.finished /\ n - e.finished > KeepFor  BY <1>0, <2>1, <3>1
    <3>3. Swept(j, n) = e  BY <1>0, <2>1, <3>1, <3>2, EndStands
    <3>4. Gone(j, n)  BY <3>1, <3>2, <3>3 DEF Gone
    <3> QED  BY <1>1, <2>1, <2>3, <3>4
  <2>4. CASE j.state # "absent" /\ ~Gone(j, clock)
    <3>1. was = e  BY <1>1, <1>4, <2>4
    <3>2. n > e.finished  BY <1>0, <1>2, <2>1, <3>1
    <3>3. Swept(j, n) = e
      <4>1. e.state \in Final  BY <1>2, <3>1
      <4> QED  BY <1>0, <2>1, <3>2, <4>1, EndStands
    <3>4. a = Absent \/ a = e
      <4>1. a.state \in Final => a.finished \in Nat /\ a.finished + KeepFor < clock
        BY <1>0, <1>3, <2>4 DEF Job
      <4>2. a.state \in Final => clock > a.finished  BY <1>0, <4>1
      <4> QED  BY <1>0, <1>3, <2>4, <4>2
    <3> QED  BY <2>1, <3>1, <3>3, <3>4
  <2> QED  BY <2>2, <2>3, <2>4
<1>7. ASSUME NEW s \in Slots, Load(s) PROVE Shown(id)' = was
  <2> DEFINE now == req[s].now
             e == Swept(j, now)
  <2>1. /\ UNCHANGED <<clock, index>> /\ now \in Nat /\ now <= clock
        /\ \/ archive'[id] = a
           \/ a.state = "absent" /\ Gone(j, now)
    BY <1>7, LoadArchives DEF Load, SettledInv, SettleInv, ClocksHeld, Inv, TypeOK, Request, j, a
  <2>2. archive'[id] = a
    <3> SUFFICES ASSUME a.state = "absent", Gone(j, now) PROVE FALSE
      BY <2>1
    <3>1. e \in Job /\ e.state \in Final /\ now - e.finished > KeepFor
      BY <1>0, <2>1, SweptEnds DEF Gone
    <3>2. e.finished \in Nat  BY <3>1 DEF Job
    <3>3. clock > e.finished /\ clock - e.finished > KeepFor  BY <1>0, <2>1, <3>1, <3>2
    <3>4. Swept(j, clock) = e  BY <1>0, <2>1, <3>1, <3>3, EndStands
    <3>5. Gone(j, clock)  BY <3>1, <3>3, <3>4 DEF Gone
    <3> QED  BY <1>0, <1>1, <1>2, <3>5
  <2> QED  BY <1>1, <2>1, <2>2 DEF j, a
<1>8. ASSUME NEW s \in Slots, Store(s) PROVE Shown(id)' = was
  <2> DEFINE now == req[s].now
             k == index'[id]
             e == Swept(j, clock)
  <2>1. /\ UNCHANGED <<clock, archive>> /\ now \in Nat /\ k \in Job /\ e \in Job
        /\ now <= clock /\ clock <= now + MaxHold
    <3>1. index' \in Index /\ req[s].pc = "swap"
      BY <1>8, StoreMoves DEF Store, SettledInv, Inv
    <3>2. UNCHANGED <<clock, archive>> /\ now \in Nat
      BY <1>8, StoreSweeps DEF SettledInv
    <3> QED  BY <1>0, <3>1, <3>2, SweptEnds DEF SettledInv, SettleInv, ClocksHeld, Index
  <2>2. /\ a.state # "absent" /\ j.state # "absent" => k \in {Absent, a}
        /\ a.state # "absent" /\ j.state = "absent" => k.state = "absent"
        /\ j.state # "absent" /\ Swept(j, now).state \in Final =>
             Gone(j, now) \/ k = Swept(j, now)
    BY <1>8, StoreSettles DEF j, a
  <2>3. Shown(id)' = IF Gone(k, clock) \/ Swept(k, clock).state = "absent"
                     THEN a ELSE Swept(k, clock)
    BY <1>1, <2>1 DEF a
  <2> HIDE DEF now, k
  <2>4. k.state = "absent" => Shown(id)' = a
    <3>1. k.state = "absent" => Swept(k, clock).state = "absent"
      BY <1>0, <2>1, SweptEnds DEF Live, Waiting
    <3> QED  BY <2>3, <3>1
  <2>5. CASE j.state = "absent"
    BY <1>0, <1>1, <1>2, <1>4, <2>2, <2>4, <2>5
  <2>6. CASE j.state # "absent" /\ Gone(j, clock)
    <3>1. was = a /\ a.state \in Final /\ a.state # "absent"  BY <1>0, <1>1, <1>2, <2>6
    <3>2. Swept(a, clock) = a  BY <1>0, <3>1, FinalStays
    <3>3. k = a => Shown(id)' = a  BY <2>3, <3>2
    <3> QED  BY <1>0, <2>2, <2>4, <2>6, <3>1, <3>3
  <2>7. CASE j.state # "absent" /\ ~Gone(j, clock)
    <3>1. was = e /\ e.state \in Final /\ e.finished \in Nat  BY <1>1, <1>2, <1>4, <2>7
    <3>2. now > e.finished  BY <1>0, <1>2, <2>1, <3>1
    <3>3. Swept(j, now) = e  BY <1>0, <2>1, <3>1, <3>2, EndStands
    <3>4. ~(clock - e.finished > KeepFor)  BY <2>7, <3>1 DEF Gone
    <3>5. ~Gone(j, now)  BY <1>0, <2>1, <3>1, <3>3, <3>4 DEF Gone
    <3>6. k = e  BY <2>2, <2>7, <3>1, <3>3, <3>5
    <3>7. Swept(e, clock) = e  BY <1>0, <2>1, <3>1, FinalStays
    <3>8. ~Gone(e, clock)  BY <3>4, <3>7 DEF Gone
    <3> QED  BY <1>0, <2>3, <3>1, <3>6, <3>7, <3>8
  <2> QED  BY <2>5, <2>6, <2>7
<1> QED  BY <1>5, <1>6, <1>7, <1>8, FourSteps DEF was

\* What a reader is shown as an end stands once no request holds a clock of before
\* it (sweep, loadIndex and findJob).
THEOREM ShownEndsSettle == ASSUME MaxHold <= KeepFor PROVE Spec => ShownEndSettles
<1>1. SettledInv /\ [Next]_vars =>
        [\A id \in Jobs :
           Shown(id).state \in Final /\ clock > Shown(id).finished + MaxHold
             => Shown(id)' \in {Shown(id), Absent}]_vars
  BY ShownSettles
<1> QED  BY <1>1, SettledHolds, PTL DEF Spec, ShownEndSettles

-----------------------------------------------------------------------------
(* The queue keeps the lifecycle.                                          *)

PhaseOf(k) == IF k.state = "absent" THEN "none" ELSE k.state

\* What one write does to one job, in the lifecycle's words: from was, granted g
\* times, to is, granted h times.
PhaseStays(was, is, g, h) == PhaseOf(is) = PhaseOf(was) /\ is.cancel = was.cancel /\ h = g

PhaseEnds(was, is, g, h) ==
  /\ is.cancel = was.cancel /\ h = g
  /\ \/ was.state \in Waiting /\ is.state = "expired"
     \/ was.state = "running" /\ is.state \in {"lost", "timed-out"}

PhaseMoves(was, is, g, h) ==
  \/ /\ is.cancel = was.cancel /\ h = g
     /\ \/ was.state = "absent" /\ is.state = "uploading"
        \/ was.state = "uploading" /\ is.state = "queued"
        \/ was.state \in Waiting /\ is.state = "cancelled"
        \/ ~was.cancel /\ was.state = "running" /\ is.state = "finished"
        \/ was.cancel /\ was.state = "running" /\ is.state = "cancelled"
  \/ /\ was.state = "queued" /\ is.state = "running" /\ is.cancel = was.cancel
     /\ g = 0 /\ h = 1
  \/ /\ was.state = "running" /\ is.state = "running" /\ is.cancel = TRUE /\ h = g

\* A sweep ends a job, or leaves it alone.
LEMMA SweepPhase ==
  ASSUME NEW j \in Job, NEW n \in Nat, NEW g
  PROVE  PhaseStays(j, Swept(j, n), g, g) \/ PhaseEnds(j, Swept(j, n), g, g)
<1>1. CASE Swept(j, n) = j
  BY <1>1 DEF PhaseStays
<1>2. CASE Swept(j, n) # j
  BY <1>2, SweptTells, EndedTells DEF PhaseEnds, Waiting
<1> QED  BY <1>1, <1>2

\* A store moves one job at most, and ends others whose time has come.
LEMMA StorePhases ==
  ASSUME MaxHold <= KeepFor, SettledInv, NEW s \in Slots, Store(s)
  PROVE  \E k \in Jobs :
           /\ \/ PhaseStays(Kept(k), Kept(k)', granted[k], granted'[k])
              \/ PhaseEnds(Kept(k), Kept(k)', granted[k], granted'[k])
              \/ PhaseMoves(Kept(k), Kept(k)', granted[k], granted'[k])
           /\ \A o \in Jobs \ {k} :
                \/ PhaseStays(Kept(o), Kept(o)', granted[o], granted'[o])
                \/ PhaseEnds(Kept(o), Kept(o)', granted[o], granted'[o])
<1> DEFINE r == req[s]
           swept == Sweep(index, r.now)
           Mid(id) == IF swept[id].state = "absent" THEN archive[id] ELSE swept[id]
<1>1. /\ r \in Request /\ r.now \in Nat /\ index \in Index /\ archive \in Index
      /\ granted \in [Jobs -> Nat]
      /\ r.pc = "swap" /\ index' \in Handle(r, swept)
      /\ r.op \in Ops /\ (r.op # "claim" => r.job \in Jobs)
      /\ granted' = [id \in Jobs |-> IF r.op = "claim" /\ index'[id] # swept[id]
                                     THEN granted[id] + 1 ELSE granted[id]]
      /\ UNCHANGED archive
  BY DEF SettledInv, Inv, TypeOK, Request, Store, RequestsOK
<1>2. /\ swept \in Index
      /\ \A id \in Jobs :
           \/ /\ swept[id] = Absent /\ Gone(index[id], r.now) /\ index[id].state # "absent"
           \/ /\ swept[id] = Swept(index[id], r.now) /\ ~Gone(index[id], r.now)
  BY <1>1, SweepEach
<1>3. PICK k \in Jobs : /\ HandlerTimes(r, swept, index', k)
                        /\ \A o \in Jobs \ {k} : index'[o] = swept[o]
  BY StoreSweeps DEF SettledInv
<1>4. \A id \in Jobs : Move(r, id, swept[id], index'[id])
  <2> HIDE DEF r, swept
  <2> QED  BY <1>1, <1>2, HandlerMoves
<1>5. \A id \in Jobs :
        /\ Kept(id) = IF index[id].state = "absent" THEN archive[id] ELSE index[id]
        /\ Kept(id)' = IF index'[id].state = "absent" THEN archive[id] ELSE index'[id]
  BY <1>1 DEF Kept
<1>6. ASSUME NEW id \in Jobs
      PROVE  \/ PhaseStays(Kept(id), Mid(id), granted[id], granted[id])
             \/ PhaseEnds(Kept(id), Mid(id), granted[id], granted[id])
  <2>1. index[id] \in Job  BY <1>1 DEF Index
  <2>2. CASE index[id].state = "absent"
    <3>1. Swept(index[id], r.now).state = "absent"
      BY <1>1, <2>1, <2>2, SweptEnds DEF Live, Waiting
    <3>2. Mid(id) = Kept(id)  BY <1>2, <1>5, <2>2, <3>1
    <3> QED  BY <3>2 DEF PhaseStays
  <2>3. CASE index[id].state # "absent"
    <3>1. Swept(index[id], r.now).state # "absent"  BY <1>1, <2>1, <2>3, SweptEnds
    <3>2. Gone(index[id], r.now) => archive[id] = Swept(index[id], r.now)
      <4>1. Gone(index[id], r.now) => archive[id].state # "absent"
        BY StoreSweeps DEF SettledInv
      <4> QED  BY <1>1, <2>3, <4>1, SettledSweep DEF SettledInv
    <3>3. Mid(id) = Swept(index[id], r.now)  BY <1>2, <3>1, <3>2 DEF Absent
    <3>4. Kept(id) = index[id]  BY <1>5, <2>3
    <3> QED  BY <1>1, <2>1, <3>3, <3>4, SweepPhase
  <2> QED  BY <2>2, <2>3
<1>7. ASSUME NEW id \in Jobs, index'[id] = swept[id]
      PROVE  \/ PhaseStays(Kept(id), Kept(id)', granted[id], granted'[id])
             \/ PhaseEnds(Kept(id), Kept(id)', granted[id], granted'[id])
  <2>1. Kept(id)' = Mid(id)  BY <1>5, <1>7
  <2>2. granted'[id] = granted[id]  BY <1>1, <1>7
  <2> QED  BY <1>6, <2>1, <2>2
<1>8. ASSUME index'[k] # swept[k]
      PROVE  PhaseMoves(Kept(k), Kept(k)', granted[k], granted'[k])
             \/ PhaseStays(Kept(k), Kept(k)', granted[k], granted'[k])
  <2>1. /\ index[k] \in Job /\ granted[k] \in Nat
        /\ granted'[k] = IF r.op = "claim" THEN granted[k] + 1 ELSE granted[k]
    BY <1>1, <1>8 DEF Index
  <2>2. CASE r.op = "submit" /\ k = r.job
    <3>1. /\ index[k].state = "absent" /\ archive[k] = Absent
          /\ index'[k].state = "uploading" /\ ~index'[k].cancel
      <4>1. index[k].state = "absent" /\ archive[k].state = "absent"
        BY <1>1, <2>2 DEF SettledInv, Inv, SubmitFresh
      <4>2. archive[k] = Absent
        BY <4>1 DEF SettledInv, EndsInv, ArchiveFinal, Final
      <4>3. index'[k].state = "uploading" /\ ~index'[k].cancel
        BY <1>4, <1>8, <2>2 DEF Move
      <4> QED  BY <4>1, <4>2, <4>3
    <3>2. index' \in Index  BY <1>1, <1>2, HandlerMoves
    <3>3. index'[k].cancel = FALSE /\ Absent.cancel = FALSE /\ Absent.state = "absent"
      BY <3>1, <3>2 DEF Index, Job, Absent
    <3>4. Kept(k) = Absent /\ Kept(k)' = index'[k] /\ granted'[k] = granted[k]
      BY <1>5, <2>1, <2>2, <3>1
    <3> QED  BY <3>1, <3>3, <3>4 DEF PhaseMoves
  <2>3. CASE ~(r.op = "submit" /\ k = r.job)
    <3>1. swept[k].state \in Live /\ index'[k].state # "absent"
      BY <1>3, <1>8, <2>3 DEF HandlerTimes, Final
    <3>2. swept[k] = index[k]
      <4>1. swept[k] = Swept(index[k], r.now)  BY <1>2, <3>1 DEF Absent, Live, Waiting
      <4> QED  BY <1>1, <2>1, <3>1, <4>1, SweptLive
    <3>3. Move(r, k, index[k], index'[k])  BY <1>4, <3>2
    <3>4. Kept(k) = index[k] /\ Kept(k)' = index'[k]
      BY <1>5, <3>1, <3>2 DEF Live, Waiting
    <3>5. index[k].state \in Waiting => granted[k] = 0
      BY DEF SettledInv, Inv, WaitingUngranted
    <3>6. index'[k].cancel \in BOOLEAN /\ index[k].cancel \in BOOLEAN
      <4>1. index' \in Index  BY <1>1, <1>2, HandlerMoves
      <4> QED  BY <2>1, <4>1 DEF Index, Job
    <3> HIDE DEF r, swept
    <3> QED  BY <1>8, <2>1, <2>3, <3>2, <3>3, <3>4, <3>5, <3>6
             DEF Move, PhaseMoves, PhaseStays, PhaseOf, Waiting
  <2> QED  BY <2>2, <2>3
<1> QED  BY <1>3, <1>7, <1>8

\* The lifecycle's variables, job by job, before and after a step.
LEMMA PhasesAre ==
  ASSUME NEW id \in Jobs
  PROVE  /\ PhaseStays(Kept(id), Kept(id)', granted[id], granted'[id]) => Jobwise!Stays(id)
         /\ PhaseEnds(Kept(id), Kept(id)', granted[id], granted'[id]) => Jobwise!Deadline(id)
         /\ PhaseMoves(Kept(id), Kept(id)', granted[id], granted'[id]) => Jobwise!Moved(id)
<1>1. PhaseStays(Kept(id), Kept(id)', granted[id], granted'[id]) => Jobwise!Stays(id)
  BY DEF PhaseStays, PhaseOf, Jobwise!Stays
<1>2. PhaseEnds(Kept(id), Kept(id)', granted[id], granted'[id]) => Jobwise!Deadline(id)
  BY DEF PhaseEnds, Waiting, Jobwise!Deadline, Jobwise!Goes
<1>3. PhaseMoves(Kept(id), Kept(id)', granted[id], granted'[id]) => Jobwise!Moved(id)
  BY DEF PhaseMoves, Waiting, Jobwise!Moved, Jobwise!Goes, Jobwise!Taken, Jobwise!AskedToStop
<1> QED  BY <1>1, <1>2, <1>3

LEMMA PhasesTyped == TypeOK => Jobwise!PhaseOK
<1> SUFFICES ASSUME TypeOK PROVE Jobwise!PhaseOK  OBVIOUS
<1>1. \A id \in Jobs : Kept(id) \in Job  BY DEF TypeOK, Index, Kept
<1>2. \A id \in Jobs : /\ PhaseOf(Kept(id)) \in Jobwise!Phases
                       /\ Kept(id).cancel \in BOOLEAN
  BY <1>1 DEF Job, PhaseOf, Live, Waiting, Final, Jobwise!Phases, Jobwise!Ends
<1>3. granted \in [Jobs -> Nat]  BY DEF TypeOK
<1> QED  BY <1>2, <1>3 DEF PhaseOf, Jobwise!PhaseOK

\* Nothing but a store moves a job.
LEMMA OthersStay ==
  ASSUME Inv, [Next]_vars, ~\E s \in Slots : Store(s)
  PROVE  /\ granted' = granted
         /\ \A id \in Jobs : Kept(id)' = Kept(id)
<1>1. \/ UNCHANGED <<index, archive, granted>>
      \/ \E s \in Slots : Load(s)
  BY DEF Next, vars, SubmitArrives, InputArrives, CancelArrives, ClaimArrives, HeartbeatArrives,
         FileArrives, FinishArrives, PutBlob, LoseSwap, Fail, Tick
<1>2. CASE UNCHANGED <<index, archive, granted>>
  BY <1>2 DEF Kept
<1>3. ASSUME NEW s \in Slots, Load(s)
      PROVE  granted' = granted /\ \A id \in Jobs : Kept(id)' = Kept(id)
  <2>1. /\ UNCHANGED <<index, granted>> /\ req[s].now \in Nat /\ index \in Index
        /\ \A id \in Jobs : archive'[id] = archive[id] \/ Gone(index[id], req[s].now)
    BY <1>3, LoadArchives DEF Inv, TypeOK, Request
  <2>2. \A id \in Jobs : Gone(index[id], req[s].now) => index[id].state # "absent"
    BY <2>1, SweptEnds DEF Index, Gone, Final, Live, Waiting
  <2> QED  BY <2>1, <2>2 DEF Kept
<1> QED  BY <1>1, <1>2, <1>3

LEMMA StepRefines ==
  ASSUME MaxHold <= KeepFor, SettledInv, [Next]_vars
  PROVE  [Jobwise!Step]_(Jobwise!jobVars)
<1>1. TypeOK'  BY StepKeeps DEF SettledInv, Inv
<1>2. Jobwise!PhaseOK'  BY <1>1, PhasesTyped, PTL
<1>3. granted \in [Jobs -> Nat] /\ granted' \in [Jobs -> Nat]
  BY <1>1 DEF TypeOK, SettledInv, Inv
<1>4. ASSUME \A id \in Jobs : Jobwise!Stays(id) PROVE UNCHANGED Jobwise!jobVars
  BY <1>3, <1>4 DEF Jobwise!Stays, Jobwise!jobVars
<1>5. CASE \E s \in Slots : Store(s)
  <2>1. PICK k \in Jobs :
           /\ Jobwise!Stays(k) \/ Jobwise!Deadline(k) \/ Jobwise!Moved(k)
           /\ \A o \in Jobs \ {k} : Jobwise!Stays(o) \/ Jobwise!Deadline(o)
    BY <1>5, StorePhases, PhasesAre
  <2>2. CASE Jobwise!Deadline(k) \/ Jobwise!Moved(k)
    BY <1>2, <2>1, <2>2 DEF Jobwise!Step
  <2>3. CASE Jobwise!Stays(k) /\ \E d \in Jobs \ {k} : Jobwise!Deadline(d)
    BY <1>2, <2>1, <2>3 DEF Jobwise!Step
  <2>4. CASE \A id \in Jobs : Jobwise!Stays(id)
    BY <1>4, <2>4
  <2> QED  BY <2>1, <2>2, <2>3, <2>4
<1>6. CASE ~\E s \in Slots : Store(s)
  <2>1. granted' = granted /\ \A id \in Jobs : Kept(id)' = Kept(id)
    BY <1>6, OthersStay DEF SettledInv
  <2>2. \A id \in Jobs : Jobwise!Stays(id)
    BY <2>1, PhasesAre DEF PhaseStays
  <2> QED  BY <1>4, <2>2
<1> QED  BY <1>5, <1>6

\* The queue implements JobLifecycle: whatever requests race, lose their swap, retry
\* or die, what is stored of each job moves as its lifecycle says (mutate and the
\* handlers it runs).
THEOREM QueueKeepsLifecycle == ASSUME MaxHold <= KeepFor PROVE Spec => KeepsLifecycle
<1>1. Init => Jobwise!Start
  BY DEF Init, NoIndex, Absent, Kept, Jobwise!Start
<1>2. SettledInv /\ [Next]_vars => [Jobwise!Step]_(Jobwise!jobVars)
  BY StepRefines
<1> QED  BY <1>1, <1>2, SettledHolds, PTL DEF Spec, KeepsLifecycle, Jobwise!Lifecycle

=============================================================================
