----------------------------- MODULE RemoteRun ------------------------------
(***************************************************************************)
(* A remote job from its caller's command line to a clone on a Mac and     *)
(* back (cmd/irgo-winvm/remote.go, serve.go and internal/remote).          *)
(*                                                                         *)
(* The caller submits, uploads and waits; irgo-winvm serve claims a job,   *)
(* runs it on a clone made for it, under a goroutine that uploads the log  *)
(* and beats, then reports.  The two meet only at the Worker, whose jobs   *)
(* are here as any request sees them, already swept: JobQueue says how the *)
(* index gets there.  A request is applied and answered, applied and       *)
(* unanswered, or lost, and the client retries it (workerclient.send).     *)
(*                                                                         *)
(* Time is counted in ticks left: of the lease, and of what a job may take *)
(* in its state.                                                           *)
(***************************************************************************)
EXTENDS Integers, FiniteSets

CONSTANTS
  Jobs,
  Waiters,      \* jobs submitted with -wait
  None,
  LeaseTicks,   \* ticks a lease lasts (leaseFor)
  LimitTicks,   \* ticks a job may wait, or run
  MaxLog,       \* lines the log keeps; what is written after is dropped
  MaxFailures   \* status requests in a row that may fail (30)

ASSUME RemoteAssumption ==
  /\ None \notin Jobs /\ Waiters \subseteq Jobs /\ IsFiniteSet(Jobs)
  /\ {LeaseTicks, LimitTicks, MaxLog, MaxFailures} \subseteq Nat

VARIABLES
  job,      \* the Worker's jobs, swept
  mac,      \* serve: its step, its job, why it stops, the result so far
  beater,   \* RunJob's goroutine
  wrote,    \* lines of each job's log on the Mac
  clone,    \* jobs whose VM UTM has
  record,   \* the owner record of each job's VM
  caller,   \* remote-submit, for each job
  ran,      \* history: jobs whose program exited 0 in its guest
  unsent,   \* history: jobs with a log upload that failed
  undeleted \* history: jobs whose clone could not be deleted, or serve died

remoteVars == <<job, mac, beater, wrote, clone, record, caller, ran, unsent, undeleted>>
-----------------------------------------------------------------------------
Waits  == {"uploading", "queued", "running"}
Overs  == {"finished", "cancelled", "expired", "lost", "timed-out"}
Codes  == {"ok", "failed", "not-run"}
Files  == {"result.json", "stdout.txt"}

NoJob  == [state |-> "none", cancel |-> FALSE, lease |-> 0, left |-> 0, log |-> 0,
           stored |-> {}, files |-> {}, code |-> "not-run"]
Asleep == [pc |-> "claim", job |-> None, stop |-> FALSE, code |-> "not-run",
           made |-> {}, up |-> {}, sent |-> 0]
AtHome == [pc |-> "submit", off |-> 0, fails |-> 0, final |-> FALSE, missed |-> FALSE,
           saved |-> {}, exit |-> "none"]

MacSteps == {"claim", "input", "admit", "clone", "ready", "run", "shots", "delete",
             "release", "stopped", "join", "files", "summary", "lastlog", "finish", "ended"}

RemoteTypeOK ==
  /\ \A j \in Jobs : /\ job[j].state \in Waits \cup Overs \cup {"none"}
                     /\ job[j].lease \in 0..LeaseTicks /\ job[j].left \in 0..LimitTicks
                     /\ job[j].files \subseteq job[j].stored /\ job[j].stored \subseteq Files
                     /\ job[j].log \in 0..wrote[j] /\ wrote[j] \in 0..MaxLog
                     /\ record[j] \in {"none", "creating", "made"}
  /\ mac.pc \in MacSteps /\ mac.job \in Jobs \cup {None}
  /\ mac.pc \notin {"claim", "ended"} => mac.job \in Jobs
  /\ beater \in {"off", "idle", "hung", "over"}

RemoteInit ==
  /\ job = [j \in Jobs |-> NoJob]
  /\ mac = Asleep
  /\ beater = "off"
  /\ wrote = [j \in Jobs |-> 0]
  /\ clone = {}
  /\ record = [j \in Jobs |-> "none"]
  /\ caller = [j \in Jobs |-> AtHome]
  /\ ran = {} /\ unsent = {} /\ undeleted = {}

workerOnly == <<mac, beater, wrote, clone, record, ran, unsent, undeleted>>
macOnly    == <<job, beater, caller, ran, unsent>>
-----------------------------------------------------------------------------
(* The caller.                                                             *)

Calls(j, c) == caller' = [caller EXCEPT ![j] = c]

\* Submit creates the job; a refusal ends the command.
RemoteSubmit(j) ==
  /\ caller[j].pc = "submit"
  /\ job' = [job EXCEPT ![j] = [NoJob EXCEPT !.state = "uploading", !.left = LimitTicks]]
  /\ Calls(j, [caller[j] EXCEPT !.pc = "upload"])
  /\ UNCHANGED workerOnly

\* Upload queues it; one that fails ends the command, and the job expires.
RemoteUpload(j) ==
  /\ caller[j].pc = "upload"
  /\ \/ /\ job[j].state = "uploading"
        /\ job' = [job EXCEPT ![j].state = "queued", ![j].left = LimitTicks]
        /\ Calls(j, [caller[j] EXCEPT !.pc = IF j \in Waiters THEN "status" ELSE "left",
                                      !.exit = IF j \in Waiters THEN "none" ELSE "queued"])
     \/ /\ Calls(j, [caller[j] EXCEPT !.pc = "told", !.exit = "error"])
        /\ UNCHANGED job
  /\ UNCHANGED workerOnly

\* remote-cancel, from any terminal of the caller.
RemoteCancel(j) ==
  /\ caller[j].pc # "submit"
  /\ job[j].state \in Waits
  /\ job' = [job EXCEPT ![j].state  = IF @ = "running" THEN @ ELSE "cancelled",
                        ![j].cancel = job[j].state = "running"]
  /\ UNCHANGED <<caller, workerOnly>>

\* Wait asks for the job's state.
WaitStatus(j) ==
  /\ caller[j].pc = "status"
  /\ \/ Calls(j, [caller[j] EXCEPT !.pc = "log", !.fails = 0, !.final = job[j].state \in Overs])
     \/ Calls(j, IF caller[j].fails < MaxFailures THEN [caller[j] EXCEPT !.fails = @ + 1]
                 ELSE [caller[j] EXCEPT !.pc = "told", !.exit = "error"])
  /\ UNCHANGED <<job, workerOnly>>

\* Then it prints what the log has grown by.  A read that fails is passed over,
\* and the next one starts from the same place; after the last there is none.
WaitLog(j) ==
  /\ caller[j].pc = "log"
  /\ \E got \in BOOLEAN :
       Calls(j, [caller[j] EXCEPT !.pc = IF caller[j].final THEN "fetch" ELSE "status",
                                  !.off = IF got THEN job[j].log ELSE @,
                                  !.missed = ~got])
  /\ UNCHANGED <<job, workerOnly>>

\* What the tool's table says of a final job: anything but a result never ran.
ExitOf(w) == IF w.state = "finished" THEN w.code ELSE "not-run"

\* File: each is renamed into place only once it hashes to its digest, so what
\* is saved is some of the files, each whole.
Saves(j) == SUBSET job[j].files

\* Fetch saves the files, and the command exits with the job's code; a file
\* that does not arrive is its error.
FetchAndReport(j) ==
  /\ caller[j].pc = "fetch"
  /\ \E some \in Saves(j) :
       Calls(j, [caller[j] EXCEPT !.pc = "told", !.saved = some,
                                  !.exit = IF some = job[j].files THEN ExitOf(job[j]) ELSE "error"])
  /\ UNCHANGED <<job, workerOnly>>
-----------------------------------------------------------------------------
(* The Mac.                                                                *)

At(step) == mac.pc = step
Mine     == mac.job
Next2(step) == mac' = [mac EXCEPT !.pc = step]

\* Mutant of Takes: the lease counts from the tick after.
TakesLater(j) ==
  [job EXCEPT ![j].state = "running", ![j].lease = LeaseTicks + 1, ![j].left = LimitTicks]

\* The oldest is any: the order of the queue is JobQueue's.
Takes(j) == [job EXCEPT ![j].state = "running", ![j].lease = LeaseTicks, ![j].left = LimitTicks]

\* A line of the log, dropped once the log is full.
Logs(n) == wrote' = [wrote EXCEPT ![Mine] = IF @ + n > MaxLog THEN @ ELSE @ + n]

\* Serve: a job claimed is run.
ServeClaim ==
  /\ At("claim")
  /\ \E j \in Jobs :
       /\ job[j].state = "queued"
       /\ job' = Takes(j)
       /\ mac' = [Asleep EXCEPT !.pc = "input", !.job = j]
       /\ wrote' = [wrote EXCEPT ![j] = IF MaxLog > 0 THEN 1 ELSE 0]
  /\ beater' = "idle"
  /\ UNCHANGED <<clone, record, caller, ran, unsent, undeleted>>

\* The claim was applied and its answer lost: the retry claims another job,
\* and this one is left to its lease.
ServeClaimUnanswered ==
  /\ At("claim")
  /\ \E j \in Jobs : job[j].state = "queued" /\ job' = Takes(j)
  /\ UNCHANGED <<mac, beater, wrote, clone, record, caller, ran, unsent, undeleted>>

\* ErrAuth ends serve; so does a signal between jobs.
ServeEnds ==
  /\ At("claim")
  /\ Next2("ended")
  /\ UNCHANGED <<macOnly, wrote, clone, record, undeleted>>

\* serve dies at any step: the lock goes with it, the clone stays.
ServeDies ==
  /\ ~At("claim") /\ ~At("ended")
  /\ mac' = Asleep
  /\ beater' = "off"
  /\ undeleted' = undeleted \cup {Mine}
  /\ UNCHANGED <<job, wrote, clone, record, caller, ran, unsent>>

\* runOne: the binary down and checked, or the job is not run.
RunInput ==
  /\ At("input")
  /\ \/ job[Mine].state = "running" /\ Next2("admit")
     \/ Next2("stopped")
  /\ Logs(1)
  /\ UNCHANGED <<macOnly, clone, record, undeleted>>

\* The clone's lock and BeginCreate: room for it, and its record.
RunAdmit ==
  /\ At("admit")
  /\ \/ Next2("clone") /\ record' = [record EXCEPT ![Mine] = "creating"]
     \/ Next2("stopped") /\ UNCHANGED record
  /\ UNCHANGED <<macOnly, wrote, clone, undeleted>>

\* Mutant of RunClone: the deletion is deferred only once the clone answers.
RunCloneDeferLater ==
  /\ At("clone")
  /\ \/ Next2("ready") /\ clone' = clone \cup {Mine}
     \/ Next2("release") /\ clone' \in {clone, clone \cup {Mine}}
  /\ UNCHANGED <<macOnly, wrote, record, undeleted>>

\* CloneFromGolden: it may fail before the clone is made, or to boot it.  The
\* deletion is deferred from here on.
RunClone ==
  /\ At("clone")
  /\ \/ Next2("ready") /\ clone' = clone \cup {Mine}
     \/ Next2("delete") /\ clone' \in {clone, clone \cup {Mine}}
  /\ UNCHANGED <<macOnly, wrote, record, undeleted>>

\* A run stopped meanwhile is not started; nor one whose clone UTM lost.
RunReady ==
  /\ At("ready")
  /\ \/ ~mac.stop /\ Next2("run")
     \/ Next2("delete")
  /\ Logs(1)
  /\ UNCHANGED <<macOnly, clone, record, undeleted>>

\* Mutant of RunApp: an error is not looked at, and the exit code reads 0.
RunAppErrorIgnored ==
  /\ At("run")
  /\ \E code \in Codes, made \in SUBSET {"stdout.txt"} :
       /\ mac' = [mac EXCEPT !.pc = "delete", !.code = IF code = "not-run" THEN "ok" ELSE code,
                             !.made = made]
       /\ ran' = IF code = "ok" THEN ran \cup {Mine} ELSE ran
  /\ Logs(1)
  /\ UNCHANGED <<job, beater, clone, record, caller, unsent, undeleted>>

\* AppCreate, tried again while the desktop is not there and nobody stopped
\* it: the program's exit code, or an error, with or without output.
RunApp ==
  /\ At("run")
  /\ \E code \in Codes, made \in SUBSET {"stdout.txt"} :
       /\ mac' = [mac EXCEPT !.pc = "delete", !.code = code, !.made = made]
       /\ ran' = IF code = "ok" THEN ran \cup {Mine} ELSE ran
  /\ Logs(1)
  /\ UNCHANGED <<job, beater, clone, record, caller, unsent, undeleted>>

\* deleteVM: nothing to delete; or deleted, seen gone, and forgotten; or it
\* fails, which is said, and the record stays for vm-reap.
RunDelete ==
  /\ At("delete")
  /\ Next2("release")
  /\ \/ /\ clone' = clone \ {Mine}
        /\ record' \in {record, IF Mine \in clone THEN [record EXCEPT ![Mine] = "none"] ELSE record}
        /\ UNCHANGED undeleted
     \/ /\ Mine \in clone
        /\ undeleted' = undeleted \cup {Mine}
        /\ UNCHANGED <<clone, record>>
  /\ UNCHANGED <<macOnly, wrote>>

\* Then finishCreate: the record goes if no VM came of it, or has no creator
\* any more; and the lock is released.
RunRelease ==
  /\ At("release")
  /\ Next2("stopped")
  /\ record' = [record EXCEPT ![Mine] = IF Mine \notin clone THEN "none"
                                        ELSE IF @ = "creating" THEN "made" ELSE @]
  /\ UNCHANGED <<macOnly, wrote, clone, undeleted>>

\* RunJob: a run that was stopped is no success, whatever the program said.
RunStopped ==
  /\ At("stopped")
  /\ mac' = [mac EXCEPT !.pc = "join", !.code = IF mac.stop /\ @ = "ok" THEN "not-run" ELSE @]
  /\ IF mac.stop THEN Logs(1) ELSE UNCHANGED wrote
  /\ UNCHANGED <<macOnly, clone, record, undeleted>>

\* wg.Wait: the goroutine ends, when its request has.
RunJoins ==
  /\ At("join")
  /\ beater = "over"
  /\ beater' = "off"
  /\ Next2("files")
  /\ UNCHANGED <<job, wrote, clone, record, caller, ran, unsent, undeleted>>

\* report: the files, each stored while the job still runs there, or said to
\* be missing.
RunFiles ==
  /\ At("files")
  /\ \/ /\ job[Mine].state = "running"
        /\ job' = [job EXCEPT ![Mine].stored = @ \cup mac.made]
        /\ mac' = [mac EXCEPT !.pc = "summary", !.up = mac.made]
     \/ Next2("summary") /\ UNCHANGED job
  /\ Logs(1)
  /\ UNCHANGED <<beater, clone, record, caller, ran, unsent, undeleted>>

\* result.json goes last, and is named if it was stored.
RunSummary ==
  /\ At("summary")
  /\ \/ /\ job[Mine].state = "running"
        /\ job' = [job EXCEPT ![Mine].stored = @ \cup {"result.json"}]
        /\ mac' = [mac EXCEPT !.pc = "lastlog", !.up = @ \cup {"result.json"}]
     \/ Next2("lastlog") /\ UNCHANGED job
  /\ Logs(1)
  /\ UNCHANGED <<beater, clone, record, caller, ran, unsent, undeleted>>

\* PutLog: what the log holds now replaces what the Worker has of it, while
\* the job runs there; else, or if it fails, it is said and not sent again.
Uploads ==
  \/ /\ job[Mine].state = "running"
     /\ job' = [job EXCEPT ![Mine].log = wrote[Mine]]
     /\ UNCHANGED unsent
  \/ /\ unsent' = unsent \cup {Mine}
     /\ UNCHANGED job

\* Mutant of RunLastLog: the log is left as the goroutine last sent it.
RunNoLastLog ==
  /\ At("lastlog")
  /\ Next2("finish")
  /\ UNCHANGED <<macOnly, wrote, clone, record, undeleted>>

\* The last upload, if the log grew since the one before.
RunLastLog ==
  /\ At("lastlog")
  /\ mac' = [mac EXCEPT !.pc = "finish", !.sent = wrote[Mine]]
  /\ IF wrote[Mine] # mac.sent THEN Uploads ELSE UNCHANGED <<job, unsent>>
  /\ UNCHANGED <<beater, wrote, clone, record, caller, ran, undeleted>>

\* Finish: refused unless the job still runs and every file named is stored.
\* An answer that is lost is asked for again and refused; either way serve
\* goes back to the queue.
RunFinish ==
  /\ At("finish")
  /\ mac' = Asleep
  /\ \/ /\ job[Mine].state = "running" /\ mac.up \subseteq job[Mine].stored
        /\ job' = [job EXCEPT ![Mine].state = IF job[Mine].cancel THEN "cancelled" ELSE "finished",
                              ![Mine].files = mac.up, ![Mine].code = mac.code]
     \/ UNCHANGED job
  /\ UNCHANGED <<beater, wrote, clone, record, caller, ran, unsent, undeleted>>
-----------------------------------------------------------------------------
(* The goroutine under the run.                                            *)

beatVars == <<wrote, clone, record, caller, ran, undeleted>>

\* Its ticker for the log.
BeaterFlush ==
  /\ beater = "idle"
  /\ wrote[Mine] # mac.sent
  /\ mac' = [mac EXCEPT !.sent = wrote[Mine]]
  /\ Uploads
  /\ UNCHANGED <<beater, beatVars>>

\* Its ticker for the heartbeat: the lease is renewed, and a run whose job is
\* cancelled, or over, is told to stop; a request that fails is only said.
BeaterBeat ==
  /\ beater = "idle"
  /\ \/ /\ job[Mine].state = "running"
        /\ job' = [job EXCEPT ![Mine].lease = LeaseTicks]
        /\ mac' = [mac EXCEPT !.stop = @ \/ job[Mine].cancel]
     \/ /\ job[Mine].state # "running"
        /\ mac' = [mac EXCEPT !.stop = TRUE]
        /\ UNCHANGED job
  /\ UNCHANGED <<beater, unsent, beatVars>>

\* A request may hang: the client sets no timeout.  One day it ends.
BeaterHangs ==
  /\ beater = "idle" /\ beater' = "hung"
  /\ UNCHANGED <<job, mac, unsent, beatVars>>
BeaterAnswered ==
  /\ beater = "hung" /\ beater' = "idle"
  /\ UNCHANGED <<job, mac, unsent, beatVars>>

\* Mutant of BeaterEnds: it waits for a beat that tells it to stop.
BeaterEndsStopped ==
  /\ beater = "idle" /\ At("join") /\ mac.stop
  /\ beater' = "over"
  /\ UNCHANGED <<job, mac, unsent, beatVars>>

\* done is closed, and it sees that.
BeaterEnds ==
  /\ beater = "idle" /\ At("join")
  /\ beater' = "over"
  /\ UNCHANGED <<job, mac, unsent, beatVars>>

\* Mutant of Passed: a queued job waits for a Mac as long as it takes.
PassedNotQueued(w) ==
  IF w.state \notin {"uploading", "running"} THEN w
  ELSE IF w.left = 0
  THEN [w EXCEPT !.state = IF w.state = "running" THEN "timed-out" ELSE "expired"]
  ELSE IF w.state = "uploading" THEN [w EXCEPT !.left = @ - 1]
  ELSE IF w.lease = 0 THEN [w EXCEPT !.state = "lost"]
  ELSE [w EXCEPT !.lease = @ - 1, !.left = @ - 1]

\* A tick of the Worker's clock: a lease, or a limit, that is past ends its job.
Passed(w) ==
  IF w.state \notin Waits THEN w
  ELSE IF w.left = 0
  THEN [w EXCEPT !.state = IF w.state = "running" THEN "timed-out" ELSE "expired"]
  ELSE IF w.state # "running" THEN [w EXCEPT !.left = @ - 1]
  ELSE IF w.lease = 0 THEN [w EXCEPT !.state = "lost"]
  ELSE [w EXCEPT !.lease = @ - 1, !.left = @ - 1]

RemoteTick ==
  /\ \E j \in Jobs : job[j].state \in Waits
  /\ job' = [j \in Jobs |-> Passed(job[j])]
  /\ UNCHANGED <<mac, beater, wrote, clone, record, caller, ran, unsent, undeleted>>

CallerStep(j) == WaitStatus(j) \/ WaitLog(j) \/ FetchAndReport(j)

MacStep ==
  \/ RunInput \/ RunAdmit \/ RunClone \/ RunReady \/ RunApp \/ RunDelete \/ RunRelease
  \/ RunStopped \/ RunJoins \/ RunFiles \/ RunSummary \/ RunLastLog \/ RunFinish

BeaterWorks == BeaterAnswered \/ BeaterEnds

RemoteNext ==
  \/ \E j \in Jobs : RemoteSubmit(j) \/ RemoteUpload(j) \/ RemoteCancel(j) \/ CallerStep(j)
  \/ ServeClaim \/ ServeClaimUnanswered \/ ServeEnds \/ ServeDies
  \/ MacStep
  \/ BeaterFlush \/ BeaterBeat \/ BeaterHangs \/ BeaterWorks
  \/ RemoteTick

\* Time passes, a command that was started goes on, serve goes on with its
\* job, and a hung request ends (the kernel gives the connection up): the
\* goroutine is then seen idle at the join again and again, so it ends too.
RemoteFairness ==
  /\ WF_remoteVars(RemoteTick)
  /\ \A j \in Jobs : WF_remoteVars(CallerStep(j))
  /\ WF_remoteVars(MacStep)
  /\ WF_remoteVars(BeaterAnswered) /\ SF_remoteVars(BeaterEnds)

RemoteSpec == RemoteInit /\ [][RemoteNext]_remoteVars /\ RemoteFairness
-----------------------------------------------------------------------------
(* Properties.                                                             *)

\* The caller's command exits 0 only for a program that exited 0 in the guest
\* of a clone made for it, with every file the job lists saved: an error, a
\* stop, a lost Mac or a file that did not come is never a success.
ExitTold ==
  \A j \in Jobs : caller[j].exit = "ok" =>
    j \in ran /\ job[j].state = "finished" /\ ~job[j].cancel /\ caller[j].saved = job[j].files

\* Between jobs serve leaves no clone, unless deleting it failed or serve
\* died; and a clone always has the record by which vm-reap finds its owner.
NoCloneLeft ==
  /\ mac.pc \in {"claim", "ended"} => clone \subseteq undeleted
  /\ \A j \in clone : record[j] # "none"

\* What the caller is shown of the log is the whole of it, each line once,
\* when neither the last read nor an upload failed.
LogWhole ==
  \A j \in Jobs :
    /\ caller[j].pc \in {"fetch", "told"} /\ caller[j].final /\ ~caller[j].missed
       /\ job[j].state = "finished" => caller[j].off = job[j].log
    /\ job[j].state = "finished" /\ j \notin unsent => job[j].log = wrote[j]

\* A caller that waits is told in the end, whatever becomes of the Mac.
CallerTold == \A j \in Jobs : caller[j].pc = "status" ~> caller[j].pc = "told"

\* Serve comes back to the queue from every job it took.
ServesAgain == ~At("claim") ~> (At("claim") \/ At("ended"))
=============================================================================
