-------------------------- MODULE RemoteRunProofs --------------------------
(***************************************************************************)
(* A remote job for any number of callers and any limits: exit 0 is told   *)
(* only of a program that exited 0, no clone outlives its job unsaid, and  *)
(* the log a caller is shown is the log there was.                         *)
(*                                                                         *)
(* The caller and the Mac never meet, so the argument is by what each says *)
(* at the Worker: a job that is over never changes again, a job is claimed *)
(* once, and only the Mac that claimed it writes its log and its files.    *)
(***************************************************************************)
EXTENDS RemoteRun, TLAPS

JobRecords ==
  [state : Waits \cup Overs \cup {"none"}, cancel : BOOLEAN, lease : 0..LeaseTicks,
   left : 0..LimitTicks, log : 0..MaxLog, stored : SUBSET Files, files : SUBSET Files,
   code : Codes]
MacRecords ==
  [pc : MacSteps, job : Jobs \cup {None}, stop : BOOLEAN, code : Codes,
   made : SUBSET Files, up : SUBSET Files, sent : 0..MaxLog]
CallerRecords ==
  [pc : {"submit", "upload", "status", "log", "fetch", "told", "left"}, off : 0..MaxLog,
   fails : Nat, final : BOOLEAN, missed : BOOLEAN, saved : SUBSET Files,
   exit : {"none", "queued", "error", "ok", "failed", "not-run"}]

RemoteTypes ==
  /\ job \in [Jobs -> JobRecords]
  /\ mac \in MacRecords
  /\ beater \in {"off", "idle", "hung", "over"}
  /\ wrote \in [Jobs -> 0..MaxLog]
  /\ clone \subseteq Jobs
  /\ record \in [Jobs -> {"none", "creating", "made"}]
  /\ caller \in [Jobs -> CallerRecords]
  /\ unsent \subseteq Jobs

Busy == mac.pc \notin {"claim", "ended"}

\* Serve runs one job, which it claimed and nobody else can: at the Worker it
\* runs, or was given up, until Finish.
OneJobAtATime == Busy => Mine \in Jobs /\ job[Mine].state \in {"running", "lost", "timed-out"}

\* The goroutine lives under a run, from its claim to the join.
BeaterUnderRun ==
  /\ beater = "off" => mac.pc \in {"claim", "ended", "files", "summary", "lastlog", "finish"}
  /\ beater \in {"idle", "hung"} =>
       mac.pc \notin {"claim", "ended", "files", "summary", "lastlog", "finish"}
  /\ beater = "over" => At("join")

\* What nobody has claimed has no log, and only what was submitted is there.
UnclaimedBare ==
  \A j \in Jobs :
    /\ caller[j].pc = "submit" => job[j].state = "none" /\ caller[j].exit = "none"
    /\ job[j].state \in {"none", "uploading", "queued"} => job[j].log = 0

\* The files a job lists are stored, and its log is no longer than the Mac's.
ListsStored ==
  \A j \in Jobs : job[j].files \subseteq job[j].stored /\ job[j].log <= wrote[j]

\* A job's exit code is its program's: serve has it from the guest, and a
\* finished job has it from serve and was not cancelled.
CodeEarned ==
  /\ Busy /\ mac.code = "ok" => Mine \in ran
  /\ \A j \in Jobs : job[j].state = "finished" =>
       ~job[j].cancel /\ (job[j].code = "ok" => j \in ran)

\* The clone of the job in hand is deleted at the end of its run; any other
\* clone is one that could not be.
CloneInHand ==
  /\ \A j \in clone : j \in undeleted \/
       (j = Mine /\ mac.pc \in {"clone", "ready", "run", "shots", "delete"})
  /\ \A j \in clone : record[j] # "none"
  /\ mac.pc \in {"clone", "ready", "run", "shots", "delete"} => record[Mine] # "none"

\* Unless an upload failed, the Worker has the log as far as serve counts it
\* sent, and all of it when the job is reported.
SentIsThere ==
  /\ Busy /\ Mine \notin unsent => job[Mine].log = mac.sent
  /\ At("finish") => mac.sent = wrote[Mine]
  /\ \A j \in Jobs : job[j].state = "finished" /\ j \notin unsent => job[j].log = wrote[j]

\* A caller that has seen its job over reads the rest of the log, which does
\* not grow any more.
ReadsToTheEnd ==
  \A j \in Jobs :
    /\ caller[j].final => job[j].state \in Overs /\ caller[j].pc \in {"log", "fetch", "told"}
    /\ caller[j].pc = "fetch" => caller[j].final
    /\ caller[j].pc \in {"fetch", "told"} /\ caller[j].final /\ ~caller[j].missed
         => caller[j].off = job[j].log

RemoteInv ==
  /\ RemoteTypes /\ OneJobAtATime /\ BeaterUnderRun /\ UnclaimedBare /\ ListsStored
  /\ CodeEarned /\ CloneInHand /\ SentIsThere /\ ReadsToTheEnd /\ ExitTold
-----------------------------------------------------------------------------
(* What a step does to one job, one caller, or the log.                    *)

USE DEF At, Mine, Next2, Busy, Calls

LEMMA JobBecomes ==
  ASSUME job \in [Jobs -> JobRecords], NEW j \in Jobs, NEW r \in JobRecords,
         job' = [job EXCEPT ![j] = r]
  PROVE  /\ job' \in [Jobs -> JobRecords] /\ job'[j] = r
         /\ \A k \in Jobs : k # j => job'[k] = job[k]
OBVIOUS

LEMMA CallerBecomes ==
  ASSUME caller \in [Jobs -> CallerRecords], NEW j \in Jobs, NEW c \in CallerRecords,
         Calls(j, c)
  PROVE  /\ caller' \in [Jobs -> CallerRecords] /\ caller'[j] = c
         /\ \A k \in Jobs : k # j => caller'[k] = caller[k]
OBVIOUS

\* The log of the job in hand grows, or is full; no other does.
LEMMA LogGrows ==
  ASSUME wrote \in [Jobs -> 0..MaxLog], Mine \in Jobs, Logs(1)
  PROVE  /\ wrote' \in [Jobs -> 0..MaxLog]
         /\ \A k \in Jobs : wrote[k] <= wrote'[k] /\ (k # Mine => wrote'[k] = wrote[k])
<1>1. MaxLog \in Nat  BY RemoteAssumption
<1> DEFINE n == IF wrote[Mine] + 1 > MaxLog THEN wrote[Mine] ELSE wrote[Mine] + 1
<1>2. n \in 0..MaxLog /\ wrote[Mine] <= n  BY <1>1
<1>3. wrote' = [wrote EXCEPT ![Mine] = n]  BY DEF Logs
<1> HIDE DEF n
<1> QED  BY <1>1, <1>2, <1>3

\* Claiming a job starts its lease and changes nothing else of it.
LEMMA TakesEffect ==
  ASSUME job \in [Jobs -> JobRecords], NEW j \in Jobs, job' = Takes(j)
  PROVE  /\ job' \in [Jobs -> JobRecords]
         /\ \A k \in Jobs : k # j => job'[k] = job[k]
         /\ job'[j].state = "running" /\ job'[j].cancel = job[j].cancel
         /\ job'[j].log = job[j].log /\ job'[j].stored = job[j].stored
         /\ job'[j].files = job[j].files /\ job'[j].code = job[j].code
<1> DEFINE r == [job[j] EXCEPT !.state = "running", !.lease = LeaseTicks, !.left = LimitTicks]
<1>1. LeaseTicks \in 0..LeaseTicks /\ LimitTicks \in 0..LimitTicks  BY RemoteAssumption
<1>2. r \in JobRecords  BY <1>1 DEF JobRecords, Waits
<1>3. /\ r.state = "running" /\ r.cancel = job[j].cancel
      /\ r.log = job[j].log /\ r.stored = job[j].stored /\ r.files = job[j].files
      /\ r.code = job[j].code
  BY DEF JobRecords
<1>4. job' = [job EXCEPT ![j] = r]  BY DEF Takes
<1> HIDE DEF r
<1> QED  BY <1>2, <1>3, <1>4, JobBecomes

\* What the Worker's clock leaves of a job: one that is over stays as it is,
\* one that runs is given up at most, and nothing it holds is touched.
LEMMA PassedEffect ==
  ASSUME NEW w \in JobRecords
  PROVE  /\ Passed(w) \in JobRecords
         /\ Passed(w).log = w.log /\ Passed(w).stored = w.stored /\ Passed(w).files = w.files
         /\ Passed(w).code = w.code /\ Passed(w).cancel = w.cancel
         /\ w.state \in Overs \cup {"none"} => Passed(w) = w
         /\ w.state = "running" => Passed(w).state \in {"running", "lost", "timed-out"}
         /\ w.state \in {"uploading", "queued"} => Passed(w).state \in {w.state, "expired"}
<1> DEFINE left == w.left - 1
           lease == w.lease - 1
<1>1. CASE w.state \in {"uploading", "queued"} /\ w.left = 0
  <2>1. Passed(w) = [w EXCEPT !.state = "expired"]  BY <1>1 DEF Passed, Waits
  <2> QED  BY <1>1, <2>1 DEF JobRecords, Waits, Overs
<1>2. CASE w.state \in {"uploading", "queued"} /\ w.left # 0
  <2>1. Passed(w) = [w EXCEPT !.left = left]  BY <1>2 DEF Passed, Waits
  <2>2. left \in 0..LimitTicks  BY <1>2, RemoteAssumption DEF JobRecords
  <2> HIDE DEF left
  <2> QED  BY <1>2, <2>1, <2>2 DEF JobRecords, Waits, Overs
<1>3. CASE w.state = "running" /\ w.left = 0
  <2>1. Passed(w) = [w EXCEPT !.state = "timed-out"]  BY <1>3 DEF Passed, Waits
  <2> QED  BY <1>3, <2>1 DEF JobRecords, Waits, Overs
<1>4. CASE w.state = "running" /\ w.left # 0 /\ w.lease = 0
  <2>1. Passed(w) = [w EXCEPT !.state = "lost"]  BY <1>4 DEF Passed, Waits
  <2> QED  BY <1>4, <2>1 DEF JobRecords, Waits, Overs
<1>5. CASE w.state = "running" /\ w.left # 0 /\ w.lease # 0
  <2>1. Passed(w) = [w EXCEPT !.lease = lease, !.left = left]  BY <1>5 DEF Passed, Waits
  <2>2. left \in 0..LimitTicks /\ lease \in 0..LeaseTicks
    BY <1>5, RemoteAssumption DEF JobRecords
  <2> HIDE DEF left, lease
  <2> QED  BY <1>5, <2>1, <2>2 DEF JobRecords, Waits, Overs
<1>6. CASE w.state \in Overs \cup {"none"}
  BY <1>6 DEF Passed, JobRecords, Waits, Overs
<1> QED  BY <1>1, <1>2, <1>3, <1>4, <1>5, <1>6 DEF JobRecords, Waits, Overs

\* An upload makes the Worker's log the Mac's, or is remembered as failed.
LEMMA UploadsEffect ==
  ASSUME job \in [Jobs -> JobRecords], Mine \in Jobs, wrote \in [Jobs -> 0..MaxLog], Uploads
  PROVE  /\ job' \in [Jobs -> JobRecords]
         /\ \A k \in Jobs :
              /\ job'[k].state = job[k].state /\ job'[k].cancel = job[k].cancel
              /\ job'[k].stored = job[k].stored /\ job'[k].files = job[k].files
              /\ job'[k].code = job[k].code
              /\ k # Mine \/ job[k].state # "running" => job'[k] = job[k]
         /\ \/ job'[Mine].log = wrote[Mine] /\ unsent' = unsent
            \/ job' = job /\ unsent' = unsent \cup {Mine}
<1>1. CASE job' = job /\ unsent' = unsent \cup {Mine}  BY <1>1
<1>2. CASE job[Mine].state = "running" /\ unsent' = unsent
           /\ job' = [job EXCEPT ![Mine].log = wrote[Mine]]
  <2> DEFINE r == [job[Mine] EXCEPT !.log = wrote[Mine]]
  <2>1. /\ r \in JobRecords /\ r.state = job[Mine].state /\ r.cancel = job[Mine].cancel
        /\ r.log = wrote[Mine] /\ r.stored = job[Mine].stored /\ r.files = job[Mine].files
        /\ r.code = job[Mine].code
    BY DEF JobRecords
  <2>2. job' = [job EXCEPT ![Mine] = r]  BY <1>2
  <2> HIDE DEF r
  <2>3. job' \in [Jobs -> JobRecords] /\ job'[Mine] = r
        /\ \A k \in Jobs : k # Mine => job'[k] = job[k]
    BY <2>1, <2>2, JobBecomes
  <2> QED  BY <1>2, <2>1, <2>3
<1> QED  BY <1>1, <1>2 DEF Uploads

-----------------------------------------------------------------------------
(* The caller's steps.                                                     *)

LEMMA RemoteSubmitKeeps ==
  ASSUME RemoteInv, NEW j \in Jobs, RemoteSubmit(j)
  PROVE  RemoteInv'
<1> DEFINE r == [NoJob EXCEPT !.state = "uploading", !.left = LimitTicks]
           c == [caller[j] EXCEPT !.pc = "upload"]
<1>a. /\ r \in JobRecords /\ r.state = "uploading" /\ r.log = 0 /\ r.files = {} /\ r.stored = {}
      /\ c \in CallerRecords /\ c.pc = "upload" /\ c.exit = caller[j].exit
      /\ c.final = caller[j].final
  <2>1. 0 \in 0..LeaseTicks /\ LimitTicks \in 0..LimitTicks /\ 0 \in 0..MaxLog
    BY RemoteAssumption
  <2>2. caller[j] \in CallerRecords  BY DEF RemoteInv, RemoteTypes
  <2>3. r \in JobRecords  BY <2>1 DEF JobRecords, NoJob, Waits, Codes
  <2>4. c \in CallerRecords  BY <2>2 DEF CallerRecords
  <2> QED  BY <2>2, <2>3, <2>4 DEF NoJob, CallerRecords
<1> HIDE DEF r, c
<1>b. /\ job \in [Jobs -> JobRecords] /\ caller \in [Jobs -> CallerRecords]
      /\ job' = [job EXCEPT ![j] = r] /\ Calls(j, c)
      /\ job[j].state = "none" /\ caller[j].exit = "none" /\ caller[j].pc = "submit"
  BY DEF RemoteInv, RemoteTypes, UnclaimedBare, RemoteSubmit, r, c
<1>c. /\ job' \in [Jobs -> JobRecords] /\ job'[j] = r
      /\ \A k \in Jobs : k # j => job'[k] = job[k]
      /\ caller' \in [Jobs -> CallerRecords] /\ caller'[j] = c
      /\ \A k \in Jobs : k # j => caller'[k] = caller[k]
  BY <1>a, <1>b, JobBecomes, CallerBecomes
<1>d. UNCHANGED workerOnly  BY DEF RemoteSubmit
<1>1. RemoteTypes'  BY <1>c, <1>d DEF RemoteInv, RemoteTypes, workerOnly
<1>2. OneJobAtATime'
  BY <1>a, <1>b, <1>c, <1>d DEF RemoteInv, RemoteTypes, OneJobAtATime,
     workerOnly, Overs
<1>3. BeaterUnderRun'
  BY <1>a, <1>b, <1>c, <1>d DEF RemoteInv, RemoteTypes, BeaterUnderRun,
     OneJobAtATime, workerOnly, Overs
<1>4. UnclaimedBare'
  BY <1>a, <1>b, <1>c, <1>d DEF RemoteInv, RemoteTypes, UnclaimedBare,
     OneJobAtATime, workerOnly, Overs
<1>5. ListsStored'
  BY <1>a, <1>b, <1>c, <1>d DEF RemoteInv, RemoteTypes, ListsStored,
     OneJobAtATime, workerOnly, Overs
<1>6. CodeEarned'
  BY <1>a, <1>b, <1>c, <1>d DEF RemoteInv, RemoteTypes, CodeEarned,
     OneJobAtATime, workerOnly, Overs
<1>7. CloneInHand'
  BY <1>a, <1>b, <1>c, <1>d DEF RemoteInv, RemoteTypes, CloneInHand,
     OneJobAtATime, workerOnly, Overs
<1>8. SentIsThere'
  BY <1>a, <1>b, <1>c, <1>d DEF RemoteInv, RemoteTypes, SentIsThere,
     OneJobAtATime, BeaterUnderRun, workerOnly, Overs
<1>9. ReadsToTheEnd'
  BY <1>a, <1>b, <1>c, <1>d DEF RemoteInv, RemoteTypes, ReadsToTheEnd,
     workerOnly, Overs
<1>10. ExitTold'
  BY <1>a, <1>b, <1>c, <1>d DEF RemoteInv, RemoteTypes, ExitTold, CodeEarned,
     UnclaimedBare, workerOnly, Overs
<1> QED  BY <1>1, <1>2, <1>3, <1>4, <1>5, <1>6, <1>7, <1>8, <1>9, <1>10 DEF RemoteInv

\* What the upload leaves for the caller, whether it waits or not.
LEMMA RemoteUploadKeeps ==
  ASSUME RemoteInv, NEW j \in Jobs, RemoteUpload(j)
  PROVE  RemoteInv'
<1> DEFINE r == [job[j] EXCEPT !.state = "queued", !.left = LimitTicks]
           pc == IF j \in Waiters THEN "status" ELSE "left"
           exit == IF j \in Waiters THEN "none" ELSE "queued"
           c == [caller[j] EXCEPT !.pc = pc, !.exit = exit]
           d == [caller[j] EXCEPT !.pc = "told", !.exit = "error"]
<1>a. job[j] \in JobRecords /\ caller[j] \in CallerRecords /\ caller[j].pc = "upload"
  BY DEF RemoteInv, RemoteTypes, RemoteUpload
<1>b. /\ job \in [Jobs -> JobRecords] /\ caller \in [Jobs -> CallerRecords]
      /\ ~caller[j].final
  BY <1>a DEF RemoteInv, RemoteTypes, ReadsToTheEnd
<1>c. UNCHANGED workerOnly  BY DEF RemoteUpload
<1>d. CASE job[j].state = "uploading" /\ job' = [job EXCEPT ![j] = r] /\ Calls(j, c)
  <2>1. r \in JobRecords
    <3>1. LimitTicks \in 0..LimitTicks  BY RemoteAssumption
    <3> QED  BY <1>a, <3>1 DEF JobRecords, Waits
  <2>2. /\ r.state = "queued" /\ r.log = job[j].log /\ r.files = job[j].files
        /\ r.stored = job[j].stored
    BY <1>a DEF JobRecords
  <2>3. pc \in {"status", "left"} /\ exit \in {"none", "queued"}  OBVIOUS
  <2> HIDE DEF pc, exit
  <2>4. /\ c \in CallerRecords /\ c.pc \in {"status", "left"} /\ c.exit \in {"none", "queued"}
        /\ c.final = caller[j].final
    BY <1>a, <2>3 DEF CallerRecords
  <2> HIDE DEF r, c
  <2>5. /\ job' \in [Jobs -> JobRecords] /\ job'[j] = r
        /\ \A k \in Jobs : k # j => job'[k] = job[k]
    BY <1>b, <1>d, <2>1, JobBecomes
  <2>6. /\ caller' \in [Jobs -> CallerRecords] /\ caller'[j] = c
        /\ \A k \in Jobs : k # j => caller'[k] = caller[k]
    BY <1>b, <1>d, <2>4, CallerBecomes
  <2>11. OneJobAtATime'
    BY <1>a, <1>b, <1>c, <1>d, <2>2, <2>4, <2>5, <2>6 DEF RemoteInv,
       RemoteTypes, OneJobAtATime, workerOnly, Overs
  <2>12. BeaterUnderRun'
    BY <1>a, <1>b, <1>c, <1>d, <2>2, <2>4, <2>5, <2>6 DEF RemoteInv,
       RemoteTypes, BeaterUnderRun, OneJobAtATime, workerOnly, Overs
  <2>13. UnclaimedBare'
    BY <1>a, <1>b, <1>c, <1>d, <2>2, <2>4, <2>5, <2>6 DEF RemoteInv,
       RemoteTypes, UnclaimedBare, OneJobAtATime, workerOnly, Overs
  <2>14. ListsStored'
    BY <1>a, <1>b, <1>c, <1>d, <2>2, <2>4, <2>5, <2>6 DEF RemoteInv,
       RemoteTypes, ListsStored, OneJobAtATime, workerOnly, Overs
  <2>15. CodeEarned'
    BY <1>a, <1>b, <1>c, <1>d, <2>2, <2>4, <2>5, <2>6 DEF RemoteInv,
       RemoteTypes, CodeEarned, OneJobAtATime, workerOnly, Overs
  <2>16. CloneInHand'
    BY <1>a, <1>b, <1>c, <1>d, <2>2, <2>4, <2>5, <2>6 DEF RemoteInv,
       RemoteTypes, CloneInHand, OneJobAtATime, workerOnly, Overs
  <2>17. SentIsThere'
    BY <1>a, <1>b, <1>c, <1>d, <2>2, <2>4, <2>5, <2>6 DEF RemoteInv,
       RemoteTypes, SentIsThere, OneJobAtATime, BeaterUnderRun, workerOnly,
       Overs
  <2>18. ReadsToTheEnd'
    BY <1>a, <1>b, <1>c, <1>d, <2>2, <2>4, <2>5, <2>6 DEF RemoteInv,
       RemoteTypes, ReadsToTheEnd, workerOnly, Overs
  <2>19. ExitTold'
    BY <1>a, <1>b, <1>c, <1>d, <2>2, <2>4, <2>5, <2>6 DEF RemoteInv,
       RemoteTypes, ExitTold, CodeEarned, UnclaimedBare, workerOnly, Overs
  <2>9. RemoteTypes'  BY <1>c, <2>5, <2>6 DEF RemoteInv, RemoteTypes, workerOnly
  <2> QED  BY <2>9, <2>11, <2>12, <2>13, <2>14, <2>15, <2>16, <2>17, <2>18, <2>19 DEF RemoteInv
<1>e. CASE job' = job /\ Calls(j, d)
  <2>1. d \in CallerRecords /\ d.pc = "told" /\ d.exit = "error" /\ d.final = caller[j].final
    BY <1>a DEF CallerRecords
  <2> HIDE DEF d
  <2>2. /\ caller' \in [Jobs -> CallerRecords] /\ caller'[j] = d
        /\ \A k \in Jobs : k # j => caller'[k] = caller[k]
    BY <1>b, <1>e, <2>1, CallerBecomes
  <2>11. OneJobAtATime'
    BY <1>a, <1>b, <1>c, <1>e, <2>1, <2>2 DEF RemoteInv, RemoteTypes,
       OneJobAtATime, workerOnly
  <2>12. BeaterUnderRun'
    BY <1>a, <1>b, <1>c, <1>e, <2>1, <2>2 DEF RemoteInv, RemoteTypes,
       BeaterUnderRun, OneJobAtATime, workerOnly
  <2>13. UnclaimedBare'
    BY <1>a, <1>b, <1>c, <1>e, <2>1, <2>2 DEF RemoteInv, RemoteTypes,
       UnclaimedBare, OneJobAtATime, workerOnly
  <2>14. ListsStored'
    BY <1>a, <1>b, <1>c, <1>e, <2>1, <2>2 DEF RemoteInv, RemoteTypes,
       ListsStored, OneJobAtATime, workerOnly
  <2>15. CodeEarned'
    BY <1>a, <1>b, <1>c, <1>e, <2>1, <2>2 DEF RemoteInv, RemoteTypes,
       CodeEarned, OneJobAtATime, workerOnly
  <2>16. CloneInHand'
    BY <1>a, <1>b, <1>c, <1>e, <2>1, <2>2 DEF RemoteInv, RemoteTypes,
       CloneInHand, OneJobAtATime, workerOnly
  <2>17. SentIsThere'
    BY <1>a, <1>b, <1>c, <1>e, <2>1, <2>2 DEF RemoteInv, RemoteTypes,
       SentIsThere, OneJobAtATime, BeaterUnderRun, workerOnly
  <2>18. ReadsToTheEnd'
    BY <1>a, <1>b, <1>c, <1>e, <2>1, <2>2 DEF RemoteInv, RemoteTypes,
       ReadsToTheEnd, workerOnly
  <2>19. ExitTold'
    BY <1>a, <1>b, <1>c, <1>e, <2>1, <2>2 DEF RemoteInv, RemoteTypes, ExitTold,
       CodeEarned, UnclaimedBare, workerOnly
  <2>9. RemoteTypes'  BY <1>c, <1>e, <2>2 DEF RemoteInv, RemoteTypes, workerOnly
  <2> QED  BY <2>9, <2>11, <2>12, <2>13, <2>14, <2>15, <2>16, <2>17, <2>18, <2>19 DEF RemoteInv
<1> QED  BY <1>d, <1>e DEF RemoteUpload

LEMMA RemoteCancelKeeps ==
  ASSUME RemoteInv, NEW j \in Jobs, RemoteCancel(j)
  PROVE  RemoteInv'
<1> DEFINE st == IF job[j].state = "running" THEN "running" ELSE "cancelled"
           r == [job[j] EXCEPT !.state = st, !.cancel = job[j].state = "running"]
<1>a. /\ job \in [Jobs -> JobRecords] /\ job[j] \in JobRecords /\ job[j].state \in Waits
      /\ caller[j].pc # "submit" /\ UNCHANGED <<caller, workerOnly>>
      /\ job' = [job EXCEPT ![j] = r]
  BY DEF RemoteInv, RemoteTypes, RemoteCancel, JobRecords
<1>b. /\ r \in JobRecords /\ r.state \in {"running", "cancelled"} /\ r.log = job[j].log
      /\ r.files = job[j].files /\ r.stored = job[j].stored
      /\ job[j].state = "running" => r.state = "running"
  <2>1. /\ st \in {"running", "cancelled"} /\ (job[j].state = "running" => st = "running")
        /\ (job[j].state = "running") \in BOOLEAN
    OBVIOUS
  <2> HIDE DEF st
  <2> QED  BY <1>a, <2>1 DEF JobRecords, Waits, Overs
<1> HIDE DEF r, st
<1>c. /\ job' \in [Jobs -> JobRecords] /\ job'[j] = r
      /\ \A k \in Jobs : k # j => job'[k] = job[k]
  BY <1>a, <1>b, JobBecomes
<1>1. RemoteTypes'  BY <1>a, <1>c DEF RemoteInv, RemoteTypes, workerOnly
<1>2. OneJobAtATime'
  BY <1>a, <1>b, <1>c DEF RemoteInv, RemoteTypes, OneJobAtATime, workerOnly,
     Waits, Overs
<1>3. BeaterUnderRun'
  BY <1>a, <1>b, <1>c DEF RemoteInv, RemoteTypes, BeaterUnderRun,
     OneJobAtATime, workerOnly, Waits, Overs
<1>4. UnclaimedBare'
  BY <1>a, <1>b, <1>c DEF RemoteInv, RemoteTypes, UnclaimedBare,
     OneJobAtATime, workerOnly, Waits, Overs
<1>5. ListsStored'
  BY <1>a, <1>b, <1>c DEF RemoteInv, RemoteTypes, ListsStored, OneJobAtATime,
     workerOnly, Waits, Overs
<1>6. CodeEarned'
  BY <1>a, <1>b, <1>c DEF RemoteInv, RemoteTypes, CodeEarned, OneJobAtATime,
     workerOnly, Waits, Overs
<1>7. CloneInHand'
  BY <1>a, <1>b, <1>c DEF RemoteInv, RemoteTypes, CloneInHand, OneJobAtATime,
     workerOnly, Waits, Overs
<1>8. SentIsThere'
  BY <1>a, <1>b, <1>c DEF RemoteInv, RemoteTypes, SentIsThere, OneJobAtATime,
     BeaterUnderRun, workerOnly, Waits, Overs
<1>9. ReadsToTheEnd'
  BY <1>a, <1>b, <1>c DEF RemoteInv, RemoteTypes, ReadsToTheEnd, workerOnly,
     Waits, Overs
<1>10. ExitTold'
  BY <1>a, <1>b, <1>c DEF RemoteInv, RemoteTypes, ExitTold, CodeEarned,
     UnclaimedBare, workerOnly, Waits, Overs
<1> QED  BY <1>1, <1>2, <1>3, <1>4, <1>5, <1>6, <1>7, <1>8, <1>9, <1>10 DEF RemoteInv

\* A caller who only reads leaves the Mac's side as it is.
LEMMA ReadingKeeps ==
  ASSUME RemoteInv, NEW j \in Jobs, NEW c \in CallerRecords, Calls(j, c),
         UNCHANGED <<job, workerOnly>>, c.pc # "submit",
         c.final => job[j].state \in Overs /\ c.pc \in {"log", "fetch", "told"},
         c.pc = "fetch" => c.final,
         c.pc \in {"fetch", "told"} /\ c.final /\ ~c.missed => c.off = job[j].log,
         c.exit = "ok" => j \in ran /\ job[j].state = "finished" /\ ~job[j].cancel
                            /\ c.saved = job[j].files
  PROVE  RemoteInv'
<1>a. caller' \in [Jobs -> CallerRecords] /\ caller'[j] = c
      /\ \A k \in Jobs : k # j => caller'[k] = caller[k]
  BY CallerBecomes DEF RemoteInv, RemoteTypes
<1>b. UNCHANGED <<job, mac, beater, wrote, clone, record, ran, unsent, undeleted>>
  BY DEF workerOnly
<1>1. RemoteTypes'  BY <1>a, <1>b DEF RemoteInv, RemoteTypes
<1>2. OneJobAtATime'
  BY <1>a, <1>b DEF RemoteInv, RemoteTypes, OneJobAtATime
<1>3. BeaterUnderRun'
  BY <1>a, <1>b DEF RemoteInv, RemoteTypes, BeaterUnderRun, OneJobAtATime
<1>4. UnclaimedBare'
  BY <1>a, <1>b DEF RemoteInv, RemoteTypes, UnclaimedBare, OneJobAtATime
<1>5. ListsStored'
  BY <1>a, <1>b DEF RemoteInv, RemoteTypes, ListsStored, OneJobAtATime
<1>6. CodeEarned'
  BY <1>a, <1>b DEF RemoteInv, RemoteTypes, CodeEarned, OneJobAtATime
<1>7. CloneInHand'
  BY <1>a, <1>b DEF RemoteInv, RemoteTypes, CloneInHand, OneJobAtATime
<1>8. SentIsThere'
  BY <1>a, <1>b DEF RemoteInv, RemoteTypes, SentIsThere, OneJobAtATime,
     BeaterUnderRun
<1>9. ReadsToTheEnd'
  BY <1>a, <1>b DEF RemoteInv, RemoteTypes, ReadsToTheEnd
<1>10. ExitTold'
  BY <1>a, <1>b DEF RemoteInv, RemoteTypes, ExitTold, CodeEarned,
     UnclaimedBare
<1> QED  BY <1>1, <1>2, <1>3, <1>4, <1>5, <1>6, <1>7, <1>8, <1>9, <1>10 DEF RemoteInv

LEMMA WaitStatusKeeps ==
  ASSUME RemoteInv, NEW j \in Jobs, WaitStatus(j)
  PROVE  RemoteInv'
<1> DEFINE over == job[j].state \in Overs
           c == [caller[j] EXCEPT !.pc = "log", !.fails = 0, !.final = over]
           d == [caller[j] EXCEPT !.fails = @ + 1]
           e == [caller[j] EXCEPT !.pc = "told", !.exit = "error"]
<1>a. caller[j] \in CallerRecords /\ caller[j].pc = "status" /\ ~caller[j].final
  BY DEF RemoteInv, RemoteTypes, ReadsToTheEnd, WaitStatus
<1>b. UNCHANGED <<job, workerOnly>>  BY DEF WaitStatus
<1>c. over \in BOOLEAN  OBVIOUS
<1>d. caller[j].exit = "ok" => j \in ran /\ job[j].state = "finished" /\ ~job[j].cancel
                                  /\ caller[j].saved = job[j].files
  BY DEF RemoteInv, ExitTold
<1>1. CASE Calls(j, c)
  <2> HIDE DEF over
  <2>1. /\ c \in CallerRecords /\ c.pc = "log" /\ c.final = over /\ c.exit = caller[j].exit
        /\ c.saved = caller[j].saved
    BY <1>a, <1>c DEF CallerRecords
  <2>2. c.final => job[j].state \in Overs /\ c.pc \in {"log", "fetch", "told"}
    BY <2>1 DEF over
  <2>3. c.exit = "ok" => j \in ran /\ job[j].state = "finished" /\ ~job[j].cancel
                           /\ c.saved = job[j].files
    BY <1>d, <2>1
  <2> HIDE DEF c
  <2> QED  BY <1>1, <1>b, <2>1, <2>2, <2>3, ReadingKeeps
<1>2. CASE Calls(j, d)
  <2>1. /\ d \in CallerRecords /\ d.pc = "status" /\ ~d.final /\ d.exit = caller[j].exit
        /\ d.saved = caller[j].saved
    BY <1>a DEF CallerRecords
  <2>2. d.exit = "ok" => j \in ran /\ job[j].state = "finished" /\ ~job[j].cancel
                           /\ d.saved = job[j].files
    BY <1>d, <2>1
  <2> HIDE DEF d
  <2> QED  BY <1>2, <1>b, <2>1, <2>2, ReadingKeeps
<1>3. CASE Calls(j, e)
  <2>1. e \in CallerRecords /\ e.pc = "told" /\ ~e.final /\ e.exit = "error"
    BY <1>a DEF CallerRecords
  <2> HIDE DEF e
  <2> QED  BY <1>3, <1>b, <2>1, ReadingKeeps
<1> QED  BY <1>1, <1>2, <1>3 DEF WaitStatus

\* The last read of the log is made after the job is seen over.
LEMMA WaitLogKeeps ==
  ASSUME RemoteInv, NEW j \in Jobs, WaitLog(j)
  PROVE  RemoteInv'
<1>a. caller[j] \in CallerRecords /\ job[j] \in JobRecords /\ caller[j].pc = "log"
  BY DEF RemoteInv, RemoteTypes, WaitLog
<1>b. UNCHANGED <<job, workerOnly>>  BY DEF WaitLog
<1>c. /\ caller[j].final => job[j].state \in Overs
      /\ caller[j].exit = "ok" => j \in ran /\ job[j].state = "finished" /\ ~job[j].cancel
                                     /\ caller[j].saved = job[j].files
  BY DEF RemoteInv, ReadsToTheEnd, ExitTold
<1>d. PICK got \in BOOLEAN :
        Calls(j, [caller[j] EXCEPT !.pc = IF caller[j].final THEN "fetch" ELSE "status",
                                   !.off = IF got THEN job[j].log ELSE @,
                                   !.missed = ~got])
  BY DEF WaitLog
<1> DEFINE pc == IF caller[j].final THEN "fetch" ELSE "status"
           off == IF got THEN job[j].log ELSE caller[j].off
           missed == ~got
           c == [caller[j] EXCEPT !.pc = pc, !.off = off, !.missed = missed]
<1>1. /\ pc \in {"status", "fetch"} /\ (pc = "fetch" <=> caller[j].final)
      /\ off \in 0..MaxLog /\ missed \in BOOLEAN /\ (~missed => off = job[j].log)
  BY <1>a DEF CallerRecords, JobRecords
<1> HIDE DEF pc, off, missed
<1>2. /\ c \in CallerRecords /\ c.pc = pc /\ c.off = off /\ c.missed = missed
      /\ c.final = caller[j].final /\ c.exit = caller[j].exit /\ c.saved = caller[j].saved
  BY <1>a, <1>1 DEF CallerRecords
<1>3. Calls(j, c)  BY <1>d DEF pc, off, missed
<1> HIDE DEF c
<1>4. /\ c.pc # "submit"
      /\ c.final => job[j].state \in Overs /\ c.pc \in {"log", "fetch", "told"}
      /\ c.pc = "fetch" => c.final
      /\ c.pc \in {"fetch", "told"} /\ c.final /\ ~c.missed => c.off = job[j].log
      /\ c.exit = "ok" => j \in ran /\ job[j].state = "finished" /\ ~job[j].cancel
                             /\ c.saved = job[j].files
  BY <1>1, <1>2, <1>c
<1> QED  BY <1>b, <1>2, <1>3, <1>4, ReadingKeeps

\* Exit 0 needs the result of a finished job, and all its files.
LEMMA FetchAndReportKeeps ==
  ASSUME RemoteInv, NEW j \in Jobs, FetchAndReport(j)
  PROVE  RemoteInv'
<1>a. /\ caller[j] \in CallerRecords /\ job[j] \in JobRecords /\ caller[j].pc = "fetch"
      /\ caller[j].final /\ job[j].state \in Overs
      /\ ~caller[j].missed => caller[j].off = job[j].log
  BY DEF RemoteInv, RemoteTypes, ReadsToTheEnd, FetchAndReport
<1>b. UNCHANGED <<job, workerOnly>>  BY DEF FetchAndReport
<1>c. job[j].state = "finished" => ~job[j].cancel /\ (job[j].code = "ok" => j \in ran)
  BY DEF RemoteInv, CodeEarned
<1>d. PICK some \in Saves(j) :
        Calls(j, [caller[j] EXCEPT !.pc = "told", !.saved = some,
                     !.exit = IF some = job[j].files THEN ExitOf(job[j]) ELSE "error"])
  BY DEF FetchAndReport
<1> DEFINE exit == IF some = job[j].files THEN ExitOf(job[j]) ELSE "error"
           c == [caller[j] EXCEPT !.pc = "told", !.saved = some, !.exit = exit]
<1>1. some \in SUBSET Files  BY <1>a DEF Saves, JobRecords
<1>2. /\ exit \in {"error", "ok", "failed", "not-run"}
      /\ exit = "ok" => job[j].state = "finished" /\ job[j].code = "ok" /\ some = job[j].files
  BY <1>a DEF ExitOf, JobRecords, Codes
<1> HIDE DEF exit
<1>3. /\ c \in CallerRecords /\ c.pc = "told" /\ c.saved = some /\ c.exit = exit
      /\ c.final = caller[j].final /\ c.missed = caller[j].missed /\ c.off = caller[j].off
  BY <1>a, <1>1, <1>2 DEF CallerRecords
<1>4. Calls(j, c)  BY <1>d DEF exit
<1> HIDE DEF c
<1>5. /\ c.pc # "submit"
      /\ c.final => job[j].state \in Overs /\ c.pc \in {"log", "fetch", "told"}
      /\ c.pc = "fetch" => c.final
      /\ c.pc \in {"fetch", "told"} /\ c.final /\ ~c.missed => c.off = job[j].log
      /\ c.exit = "ok" => j \in ran /\ job[j].state = "finished" /\ ~job[j].cancel
                             /\ c.saved = job[j].files
  BY <1>a, <1>c, <1>2, <1>3
<1> QED  BY <1>b, <1>3, <1>4, <1>5, ReadingKeeps

-----------------------------------------------------------------------------
(* The Mac's steps.                                                        *)

\* A claim starts at the first step of a run, with nothing made or sent.
LEMMA ServeClaimKeeps ==
  ASSUME RemoteInv, ServeClaim
  PROVE  RemoteInv'
<1>a. PICK j \in Jobs :
        /\ job[j].state = "queued" /\ job' = Takes(j)
        /\ mac' = [Asleep EXCEPT !.pc = "input", !.job = j]
        /\ wrote' = [wrote EXCEPT ![j] = IF MaxLog > 0 THEN 1 ELSE 0]
  BY DEF ServeClaim
<1>b. /\ job' \in [Jobs -> JobRecords]
      /\ \A k \in Jobs : k # j => job'[k] = job[k]
      /\ job'[j].state = "running" /\ job'[j].cancel = job[j].cancel
      /\ job'[j].log = 0 /\ job'[j].stored = job[j].stored
      /\ job'[j].files = job[j].files /\ job'[j].code = job[j].code
  BY <1>a, TakesEffect DEF RemoteInv, RemoteTypes, UnclaimedBare
<1>c. /\ mac'.pc = "input" /\ mac'.job = j /\ mac'.code = "not-run" /\ mac'.sent = 0
      /\ mac' \in MacRecords
  <2>1. 0 \in 0..MaxLog  BY RemoteAssumption
  <2>2. mac' = [pc |-> "input", job |-> j, stop |-> FALSE, code |-> "not-run",
                made |-> {}, up |-> {}, sent |-> 0]
    BY <1>a DEF Asleep
  <2> QED  BY <2>1, <2>2 DEF MacRecords, MacSteps, Codes
<1>d. wrote' \in [Jobs -> 0..MaxLog] /\ \A k \in Jobs : k # j => wrote'[k] = wrote[k]
  <2>1. (IF MaxLog > 0 THEN 1 ELSE 0) \in 0..MaxLog  BY RemoteAssumption
  <2> QED  BY <1>a, <2>1 DEF RemoteInv, RemoteTypes
<1>e. /\ At("claim") /\ beater' = "idle" /\ job[j].state = "queued"
      /\ UNCHANGED <<clone, record, caller, ran, unsent, undeleted>>
  BY <1>a DEF ServeClaim
<1>1. RemoteTypes'  BY <1>b, <1>c, <1>d, <1>e DEF RemoteInv, RemoteTypes
<1>2. OneJobAtATime'
  BY <1>b, <1>c, <1>d, <1>e DEF RemoteInv, RemoteTypes, OneJobAtATime, Overs
<1>3. BeaterUnderRun'
  BY <1>b, <1>c, <1>d, <1>e DEF RemoteInv, RemoteTypes, BeaterUnderRun,
     OneJobAtATime, Overs
<1>4. UnclaimedBare'
  BY <1>b, <1>c, <1>d, <1>e DEF RemoteInv, RemoteTypes, UnclaimedBare,
     OneJobAtATime, Overs
<1>5. ListsStored'
  BY <1>b, <1>c, <1>d, <1>e DEF RemoteInv, RemoteTypes, ListsStored,
     OneJobAtATime, Overs
<1>6. CodeEarned'
  BY <1>b, <1>c, <1>d, <1>e DEF RemoteInv, RemoteTypes, CodeEarned,
     OneJobAtATime, Overs
<1>7. CloneInHand'
  BY <1>b, <1>c, <1>d, <1>e DEF RemoteInv, RemoteTypes, CloneInHand,
     OneJobAtATime, Overs
<1>8. SentIsThere'
  BY <1>b, <1>c, <1>d, <1>e DEF RemoteInv, RemoteTypes, SentIsThere,
     OneJobAtATime, BeaterUnderRun, Overs
<1>9. ReadsToTheEnd'
  BY <1>b, <1>c, <1>d, <1>e DEF RemoteInv, RemoteTypes, ReadsToTheEnd, Overs
<1>10. ExitTold'
  BY <1>b, <1>c, <1>d, <1>e DEF RemoteInv, RemoteTypes, ExitTold, CodeEarned,
     UnclaimedBare, Overs
<1> QED  BY <1>1, <1>2, <1>3, <1>4, <1>5, <1>6, <1>7, <1>8, <1>9, <1>10 DEF RemoteInv

\* A claim nobody heard of starts a lease and nothing else.
LEMMA ServeClaimUnansweredKeeps ==
  ASSUME RemoteInv, ServeClaimUnanswered
  PROVE  RemoteInv'
<1>a. PICK j \in Jobs : job[j].state = "queued" /\ job' = Takes(j)
  BY DEF ServeClaimUnanswered
<1>b. /\ job' \in [Jobs -> JobRecords]
      /\ \A k \in Jobs : k # j => job'[k] = job[k]
      /\ job'[j].state = "running" /\ job'[j].cancel = job[j].cancel
      /\ job'[j].log = job[j].log /\ job'[j].stored = job[j].stored
      /\ job'[j].files = job[j].files /\ job'[j].code = job[j].code
  BY <1>a, TakesEffect DEF RemoteInv, RemoteTypes
<1>c. /\ At("claim") /\ job[j].state = "queued"
      /\ UNCHANGED <<mac, beater, wrote, clone, record, caller, ran, unsent, undeleted>>
  BY <1>a DEF ServeClaimUnanswered
<1>1. RemoteTypes'  BY <1>b, <1>c DEF RemoteInv, RemoteTypes
<1>2. OneJobAtATime'
  BY <1>b, <1>c DEF RemoteInv, RemoteTypes, OneJobAtATime, Overs
<1>3. BeaterUnderRun'
  BY <1>b, <1>c DEF RemoteInv, RemoteTypes, BeaterUnderRun, OneJobAtATime,
     Overs
<1>4. UnclaimedBare'
  BY <1>b, <1>c DEF RemoteInv, RemoteTypes, UnclaimedBare, OneJobAtATime,
     Overs
<1>5. ListsStored'
  BY <1>b, <1>c DEF RemoteInv, RemoteTypes, ListsStored, OneJobAtATime, Overs
<1>6. CodeEarned'
  BY <1>b, <1>c DEF RemoteInv, RemoteTypes, CodeEarned, OneJobAtATime, Overs
<1>7. CloneInHand'
  BY <1>b, <1>c DEF RemoteInv, RemoteTypes, CloneInHand, OneJobAtATime, Overs
<1>8. SentIsThere'
  BY <1>b, <1>c DEF RemoteInv, RemoteTypes, SentIsThere, OneJobAtATime,
     BeaterUnderRun, Overs
<1>9. ReadsToTheEnd'
  BY <1>b, <1>c DEF RemoteInv, RemoteTypes, ReadsToTheEnd, Overs
<1>10. ExitTold'
  BY <1>b, <1>c DEF RemoteInv, RemoteTypes, ExitTold, CodeEarned,
     UnclaimedBare, Overs
<1> QED  BY <1>1, <1>2, <1>3, <1>4, <1>5, <1>6, <1>7, <1>8, <1>9, <1>10 DEF RemoteInv

\* A log that grew is no shorter than what the Worker has of it.
LEMMA ListsStoredGrows ==
  ASSUME RemoteInv, UNCHANGED job, wrote' \in [Jobs -> 0..MaxLog],
         \A k \in Jobs : wrote[k] <= wrote'[k]
  PROVE  ListsStored'
<1>1. SUFFICES ASSUME NEW k \in Jobs
               PROVE  job[k].files \subseteq job[k].stored /\ job[k].log <= wrote'[k]
  BY DEF ListsStored
<1>2. job[k].log \in 0..MaxLog /\ wrote[k] \in 0..MaxLog /\ wrote'[k] \in 0..MaxLog
  BY DEF RemoteInv, RemoteTypes, JobRecords
<1>3. MaxLog \in Nat  BY RemoteAssumption
<1> QED  BY <1>2, <1>3 DEF RemoteInv, ListsStored

LEMMA ServeEndsKeeps ==
  ASSUME RemoteInv, ServeEnds
  PROVE  RemoteInv'
<1>a. mac' \in MacRecords
  BY DEF RemoteInv, RemoteTypes, MacRecords, MacSteps, Codes, ServeEnds
<1>1. RemoteTypes'
  BY <1>a DEF RemoteInv, RemoteTypes, OneJobAtATime, ServeEnds, macOnly
<1>2. OneJobAtATime'
  BY <1>a DEF RemoteInv, RemoteTypes, OneJobAtATime, ServeEnds, MacRecords,
     macOnly
<1>3. BeaterUnderRun'
  BY <1>a DEF RemoteInv, RemoteTypes, BeaterUnderRun, OneJobAtATime,
     ServeEnds, MacRecords, macOnly
<1>4. UnclaimedBare'
  BY <1>a DEF RemoteInv, RemoteTypes, UnclaimedBare, OneJobAtATime, ServeEnds,
     MacRecords, macOnly
<1>5. ListsStored'
  BY <1>a DEF RemoteInv, RemoteTypes, ListsStored, OneJobAtATime, ServeEnds,
     MacRecords, macOnly
<1>6. CodeEarned'
  BY <1>a DEF RemoteInv, RemoteTypes, CodeEarned, OneJobAtATime, ServeEnds,
     MacRecords, macOnly
<1>7. CloneInHand'
  BY <1>a DEF RemoteInv, RemoteTypes, CloneInHand, OneJobAtATime, ServeEnds,
     MacRecords, macOnly
<1>8. SentIsThere'
  BY <1>a DEF RemoteInv, RemoteTypes, SentIsThere, OneJobAtATime,
     BeaterUnderRun, ServeEnds, MacRecords, macOnly
<1>9. ReadsToTheEnd'
  BY <1>a DEF RemoteInv, RemoteTypes, ReadsToTheEnd, ServeEnds, MacRecords,
     macOnly
<1>10. ExitTold'
  BY <1>a DEF RemoteInv, RemoteTypes, ExitTold, CodeEarned, UnclaimedBare,
     ServeEnds, MacRecords, macOnly
<1> QED  BY <1>1, <1>2, <1>3, <1>4, <1>5, <1>6, <1>7, <1>8, <1>9, <1>10 DEF RemoteInv

LEMMA ServeDiesKeeps ==
  ASSUME RemoteInv, ServeDies
  PROVE  RemoteInv'
<1>a. mac' \in MacRecords
  <2>1. 0 \in 0..MaxLog  BY RemoteAssumption
  <2> QED  BY <2>1 DEF ServeDies, Asleep, MacRecords, MacSteps, Codes
<1>1. RemoteTypes'
  BY <1>a DEF RemoteInv, RemoteTypes, OneJobAtATime, ServeDies, Asleep
<1>2. OneJobAtATime'
  BY <1>a DEF RemoteInv, RemoteTypes, OneJobAtATime, ServeDies, MacRecords,
     Asleep
<1>3. BeaterUnderRun'
  BY <1>a DEF RemoteInv, RemoteTypes, BeaterUnderRun, OneJobAtATime,
     ServeDies, MacRecords, Asleep
<1>4. UnclaimedBare'
  BY <1>a DEF RemoteInv, RemoteTypes, UnclaimedBare, OneJobAtATime, ServeDies,
     MacRecords, Asleep
<1>5. ListsStored'
  BY <1>a DEF RemoteInv, RemoteTypes, ListsStored, OneJobAtATime, ServeDies,
     MacRecords, Asleep
<1>6. CodeEarned'
  BY <1>a DEF RemoteInv, RemoteTypes, CodeEarned, OneJobAtATime, ServeDies,
     MacRecords, Asleep
<1>7. CloneInHand'
  BY <1>a DEF RemoteInv, RemoteTypes, CloneInHand, OneJobAtATime, ServeDies,
     MacRecords, Asleep
<1>8. SentIsThere'
  BY <1>a DEF RemoteInv, RemoteTypes, SentIsThere, OneJobAtATime,
     BeaterUnderRun, ServeDies, MacRecords, Asleep
<1>9. ReadsToTheEnd'
  BY <1>a DEF RemoteInv, RemoteTypes, ReadsToTheEnd, ServeDies, MacRecords,
     Asleep
<1>10. ExitTold'
  BY <1>a DEF RemoteInv, RemoteTypes, ExitTold, CodeEarned, UnclaimedBare,
     ServeDies, MacRecords, Asleep
<1> QED  BY <1>1, <1>2, <1>3, <1>4, <1>5, <1>6, <1>7, <1>8, <1>9, <1>10 DEF RemoteInv

LEMMA RunInputKeeps ==
  ASSUME RemoteInv, RunInput
  PROVE  RemoteInv'
<1>a. mac' \in MacRecords
  BY DEF RemoteInv, RemoteTypes, MacRecords, MacSteps, Codes, RunInput
<1>b. Mine \in Jobs  BY DEF RemoteInv, OneJobAtATime, RunInput
<1>c. /\ wrote' \in [Jobs -> 0..MaxLog]
      /\ \A k \in Jobs : wrote[k] <= wrote'[k] /\ (k # Mine => wrote'[k] = wrote[k])
  BY <1>b, LogGrows DEF RemoteInv, RemoteTypes, RunInput
<1>1. RemoteTypes'
  BY <1>a, <1>b, <1>c DEF RemoteInv, RemoteTypes, OneJobAtATime, RunInput, macOnly
<1>2. OneJobAtATime'
  BY <1>a, <1>b, <1>c DEF RemoteInv, RemoteTypes, OneJobAtATime, RunInput,
     MacRecords, macOnly
<1>3. BeaterUnderRun'
  BY <1>a, <1>b, <1>c DEF RemoteInv, RemoteTypes, BeaterUnderRun,
     OneJobAtATime, RunInput, MacRecords, macOnly
<1>4. UnclaimedBare'
  BY <1>a, <1>b, <1>c DEF RemoteInv, RemoteTypes, UnclaimedBare,
     OneJobAtATime, RunInput, MacRecords, macOnly
<1>5. ListsStored'
  BY <1>a, <1>b, <1>c, ListsStoredGrows DEF RemoteInv, RemoteTypes,
     ListsStored, OneJobAtATime, RunInput, MacRecords, macOnly
<1>6. CodeEarned'
  BY <1>a, <1>b, <1>c DEF RemoteInv, RemoteTypes, CodeEarned, OneJobAtATime,
     RunInput, MacRecords, macOnly
<1>7. CloneInHand'
  BY <1>a, <1>b, <1>c DEF RemoteInv, RemoteTypes, CloneInHand, OneJobAtATime,
     RunInput, MacRecords, macOnly
<1>8. SentIsThere'
  BY <1>a, <1>b, <1>c DEF RemoteInv, RemoteTypes, SentIsThere, OneJobAtATime,
     BeaterUnderRun, RunInput, MacRecords, macOnly
<1>9. ReadsToTheEnd'
  BY <1>a, <1>b, <1>c DEF RemoteInv, RemoteTypes, ReadsToTheEnd, RunInput,
     MacRecords, macOnly
<1>10. ExitTold'
  BY <1>a, <1>b, <1>c DEF RemoteInv, RemoteTypes, ExitTold, CodeEarned,
     UnclaimedBare, RunInput, MacRecords, macOnly
<1> QED  BY <1>1, <1>2, <1>3, <1>4, <1>5, <1>6, <1>7, <1>8, <1>9, <1>10 DEF RemoteInv

LEMMA RunAdmitKeeps ==
  ASSUME RemoteInv, RunAdmit
  PROVE  RemoteInv'
<1>a. mac' \in MacRecords
  BY DEF RemoteInv, RemoteTypes, MacRecords, MacSteps, Codes, RunAdmit
<1>1. RemoteTypes'
  BY <1>a DEF RemoteInv, RemoteTypes, OneJobAtATime, RunAdmit, macOnly
<1>2. OneJobAtATime'
  BY <1>a DEF RemoteInv, RemoteTypes, OneJobAtATime, RunAdmit, MacRecords,
     macOnly
<1>3. BeaterUnderRun'
  BY <1>a DEF RemoteInv, RemoteTypes, BeaterUnderRun, OneJobAtATime, RunAdmit,
     MacRecords, macOnly
<1>4. UnclaimedBare'
  BY <1>a DEF RemoteInv, RemoteTypes, UnclaimedBare, OneJobAtATime, RunAdmit,
     MacRecords, macOnly
<1>5. ListsStored'
  BY <1>a DEF RemoteInv, RemoteTypes, ListsStored, OneJobAtATime, RunAdmit,
     MacRecords, macOnly
<1>6. CodeEarned'
  BY <1>a DEF RemoteInv, RemoteTypes, CodeEarned, OneJobAtATime, RunAdmit,
     MacRecords, macOnly
<1>7. CloneInHand'
  BY <1>a DEF RemoteInv, RemoteTypes, CloneInHand, OneJobAtATime, RunAdmit,
     MacRecords, macOnly
<1>8. SentIsThere'
  BY <1>a DEF RemoteInv, RemoteTypes, SentIsThere, OneJobAtATime,
     BeaterUnderRun, RunAdmit, MacRecords, macOnly
<1>9. ReadsToTheEnd'
  BY <1>a DEF RemoteInv, RemoteTypes, ReadsToTheEnd, RunAdmit, MacRecords,
     macOnly
<1>10. ExitTold'
  BY <1>a DEF RemoteInv, RemoteTypes, ExitTold, CodeEarned, UnclaimedBare,
     RunAdmit, MacRecords, macOnly
<1> QED  BY <1>1, <1>2, <1>3, <1>4, <1>5, <1>6, <1>7, <1>8, <1>9, <1>10 DEF RemoteInv

LEMMA RunCloneKeeps ==
  ASSUME RemoteInv, RunClone
  PROVE  RemoteInv'
<1>a. mac' \in MacRecords
  BY DEF RemoteInv, RemoteTypes, MacRecords, MacSteps, Codes, RunClone
<1>1. RemoteTypes'
  BY <1>a DEF RemoteInv, RemoteTypes, OneJobAtATime, RunClone, macOnly
<1>2. OneJobAtATime'
  BY <1>a DEF RemoteInv, RemoteTypes, OneJobAtATime, RunClone, MacRecords,
     macOnly
<1>3. BeaterUnderRun'
  BY <1>a DEF RemoteInv, RemoteTypes, BeaterUnderRun, OneJobAtATime, RunClone,
     MacRecords, macOnly
<1>4. UnclaimedBare'
  BY <1>a DEF RemoteInv, RemoteTypes, UnclaimedBare, OneJobAtATime, RunClone,
     MacRecords, macOnly
<1>5. ListsStored'
  BY <1>a DEF RemoteInv, RemoteTypes, ListsStored, OneJobAtATime, RunClone,
     MacRecords, macOnly
<1>6. CodeEarned'
  BY <1>a DEF RemoteInv, RemoteTypes, CodeEarned, OneJobAtATime, RunClone,
     MacRecords, macOnly
<1>7. CloneInHand'
  BY <1>a DEF RemoteInv, RemoteTypes, CloneInHand, OneJobAtATime, RunClone,
     MacRecords, macOnly
<1>8. SentIsThere'
  BY <1>a DEF RemoteInv, RemoteTypes, SentIsThere, OneJobAtATime,
     BeaterUnderRun, RunClone, MacRecords, macOnly
<1>9. ReadsToTheEnd'
  BY <1>a DEF RemoteInv, RemoteTypes, ReadsToTheEnd, RunClone, MacRecords,
     macOnly
<1>10. ExitTold'
  BY <1>a DEF RemoteInv, RemoteTypes, ExitTold, CodeEarned, UnclaimedBare,
     RunClone, MacRecords, macOnly
<1> QED  BY <1>1, <1>2, <1>3, <1>4, <1>5, <1>6, <1>7, <1>8, <1>9, <1>10 DEF RemoteInv

LEMMA RunReadyKeeps ==
  ASSUME RemoteInv, RunReady
  PROVE  RemoteInv'
<1>a. mac' \in MacRecords
  BY DEF RemoteInv, RemoteTypes, MacRecords, MacSteps, Codes, RunReady
<1>b. Mine \in Jobs  BY DEF RemoteInv, OneJobAtATime, RunReady
<1>c. /\ wrote' \in [Jobs -> 0..MaxLog]
      /\ \A k \in Jobs : wrote[k] <= wrote'[k] /\ (k # Mine => wrote'[k] = wrote[k])
  BY <1>b, LogGrows DEF RemoteInv, RemoteTypes, RunReady
<1>1. RemoteTypes'
  BY <1>a, <1>b, <1>c DEF RemoteInv, RemoteTypes, OneJobAtATime, RunReady, macOnly
<1>2. OneJobAtATime'
  BY <1>a, <1>b, <1>c DEF RemoteInv, RemoteTypes, OneJobAtATime, RunReady,
     MacRecords, macOnly
<1>3. BeaterUnderRun'
  BY <1>a, <1>b, <1>c DEF RemoteInv, RemoteTypes, BeaterUnderRun,
     OneJobAtATime, RunReady, MacRecords, macOnly
<1>4. UnclaimedBare'
  BY <1>a, <1>b, <1>c DEF RemoteInv, RemoteTypes, UnclaimedBare,
     OneJobAtATime, RunReady, MacRecords, macOnly
<1>5. ListsStored'
  BY <1>a, <1>b, <1>c, ListsStoredGrows DEF RemoteInv, RemoteTypes,
     ListsStored, OneJobAtATime, RunReady, MacRecords, macOnly
<1>6. CodeEarned'
  BY <1>a, <1>b, <1>c DEF RemoteInv, RemoteTypes, CodeEarned, OneJobAtATime,
     RunReady, MacRecords, macOnly
<1>7. CloneInHand'
  BY <1>a, <1>b, <1>c DEF RemoteInv, RemoteTypes, CloneInHand, OneJobAtATime,
     RunReady, MacRecords, macOnly
<1>8. SentIsThere'
  BY <1>a, <1>b, <1>c DEF RemoteInv, RemoteTypes, SentIsThere, OneJobAtATime,
     BeaterUnderRun, RunReady, MacRecords, macOnly
<1>9. ReadsToTheEnd'
  BY <1>a, <1>b, <1>c DEF RemoteInv, RemoteTypes, ReadsToTheEnd, RunReady,
     MacRecords, macOnly
<1>10. ExitTold'
  BY <1>a, <1>b, <1>c DEF RemoteInv, RemoteTypes, ExitTold, CodeEarned,
     UnclaimedBare, RunReady, MacRecords, macOnly
<1> QED  BY <1>1, <1>2, <1>3, <1>4, <1>5, <1>6, <1>7, <1>8, <1>9, <1>10 DEF RemoteInv

LEMMA RunAppKeeps ==
  ASSUME RemoteInv, RunApp
  PROVE  RemoteInv'
<1>a. mac' \in MacRecords
  <2>1. PICK code \in Codes, made \in SUBSET {"stdout.txt"} :
          mac' = [mac EXCEPT !.pc = "delete", !.code = code, !.made = made]
    BY DEF RunApp
  <2>2. mac \in MacRecords /\ made \in SUBSET Files  BY DEF RemoteInv, RemoteTypes, Files
  <2> QED  BY <2>1, <2>2 DEF MacRecords, MacSteps
<1>b. Mine \in Jobs  BY DEF RemoteInv, OneJobAtATime, RunApp
<1>c. /\ wrote' \in [Jobs -> 0..MaxLog]
      /\ \A k \in Jobs : wrote[k] <= wrote'[k] /\ (k # Mine => wrote'[k] = wrote[k])
  BY <1>b, LogGrows DEF RemoteInv, RemoteTypes, RunApp
<1>1. RemoteTypes'
  BY <1>a, <1>b, <1>c DEF RemoteInv, RemoteTypes, OneJobAtATime, RunApp
<1>2. OneJobAtATime'
  BY <1>a, <1>b, <1>c DEF RemoteInv, RemoteTypes, OneJobAtATime, RunApp,
     MacRecords
<1>3. BeaterUnderRun'
  BY <1>a, <1>b, <1>c DEF RemoteInv, RemoteTypes, BeaterUnderRun,
     OneJobAtATime, RunApp, MacRecords
<1>4. UnclaimedBare'
  BY <1>a, <1>b, <1>c DEF RemoteInv, RemoteTypes, UnclaimedBare,
     OneJobAtATime, RunApp, MacRecords
<1>5. ListsStored'
  BY <1>a, <1>b, <1>c, ListsStoredGrows DEF RemoteInv, RemoteTypes,
     ListsStored, OneJobAtATime, RunApp, MacRecords
<1>6. CodeEarned'
  BY <1>a, <1>b, <1>c DEF RemoteInv, RemoteTypes, CodeEarned, OneJobAtATime,
     RunApp, MacRecords
<1>7. CloneInHand'
  BY <1>a, <1>b, <1>c DEF RemoteInv, RemoteTypes, CloneInHand, OneJobAtATime,
     RunApp, MacRecords
<1>8. SentIsThere'
  BY <1>a, <1>b, <1>c DEF RemoteInv, RemoteTypes, SentIsThere, OneJobAtATime,
     BeaterUnderRun, RunApp, MacRecords
<1>9. ReadsToTheEnd'
  BY <1>a, <1>b, <1>c DEF RemoteInv, RemoteTypes, ReadsToTheEnd, RunApp,
     MacRecords
<1>10. ExitTold'
  BY <1>a, <1>b, <1>c DEF RemoteInv, RemoteTypes, ExitTold, CodeEarned,
     UnclaimedBare, RunApp, MacRecords
<1> QED  BY <1>1, <1>2, <1>3, <1>4, <1>5, <1>6, <1>7, <1>8, <1>9, <1>10 DEF RemoteInv

LEMMA RunDeleteKeeps ==
  ASSUME RemoteInv, RunDelete
  PROVE  RemoteInv'
<1>a. mac' \in MacRecords
  BY DEF RemoteInv, RemoteTypes, MacRecords, MacSteps, Codes, RunDelete
<1>1. RemoteTypes'
  BY <1>a DEF RemoteInv, RemoteTypes, OneJobAtATime, RunDelete, macOnly
<1>2. OneJobAtATime'
  BY <1>a DEF RemoteInv, RemoteTypes, OneJobAtATime, RunDelete, MacRecords,
     macOnly
<1>3. BeaterUnderRun'
  BY <1>a DEF RemoteInv, RemoteTypes, BeaterUnderRun, OneJobAtATime,
     RunDelete, MacRecords, macOnly
<1>4. UnclaimedBare'
  BY <1>a DEF RemoteInv, RemoteTypes, UnclaimedBare, OneJobAtATime, RunDelete,
     MacRecords, macOnly
<1>5. ListsStored'
  BY <1>a DEF RemoteInv, RemoteTypes, ListsStored, OneJobAtATime, RunDelete,
     MacRecords, macOnly
<1>6. CodeEarned'
  BY <1>a DEF RemoteInv, RemoteTypes, CodeEarned, OneJobAtATime, RunDelete,
     MacRecords, macOnly
<1>7. CloneInHand'
  BY <1>a DEF RemoteInv, RemoteTypes, CloneInHand, OneJobAtATime, RunDelete,
     MacRecords, macOnly
<1>8. SentIsThere'
  BY <1>a DEF RemoteInv, RemoteTypes, SentIsThere, OneJobAtATime,
     BeaterUnderRun, RunDelete, MacRecords, macOnly
<1>9. ReadsToTheEnd'
  BY <1>a DEF RemoteInv, RemoteTypes, ReadsToTheEnd, RunDelete, MacRecords,
     macOnly
<1>10. ExitTold'
  BY <1>a DEF RemoteInv, RemoteTypes, ExitTold, CodeEarned, UnclaimedBare,
     RunDelete, MacRecords, macOnly
<1> QED  BY <1>1, <1>2, <1>3, <1>4, <1>5, <1>6, <1>7, <1>8, <1>9, <1>10 DEF RemoteInv

LEMMA RunReleaseKeeps ==
  ASSUME RemoteInv, RunRelease
  PROVE  RemoteInv'
<1>a. mac' \in MacRecords
  BY DEF RemoteInv, RemoteTypes, MacRecords, MacSteps, Codes, RunRelease
<1>1. RemoteTypes'
  BY <1>a DEF RemoteInv, RemoteTypes, OneJobAtATime, RunRelease, macOnly
<1>2. OneJobAtATime'
  BY <1>a DEF RemoteInv, RemoteTypes, OneJobAtATime, RunRelease, MacRecords,
     macOnly
<1>3. BeaterUnderRun'
  BY <1>a DEF RemoteInv, RemoteTypes, BeaterUnderRun, OneJobAtATime,
     RunRelease, MacRecords, macOnly
<1>4. UnclaimedBare'
  BY <1>a DEF RemoteInv, RemoteTypes, UnclaimedBare, OneJobAtATime,
     RunRelease, MacRecords, macOnly
<1>5. ListsStored'
  BY <1>a DEF RemoteInv, RemoteTypes, ListsStored, OneJobAtATime, RunRelease,
     MacRecords, macOnly
<1>6. CodeEarned'
  BY <1>a DEF RemoteInv, RemoteTypes, CodeEarned, OneJobAtATime, RunRelease,
     MacRecords, macOnly
<1>7. CloneInHand'
  BY <1>a DEF RemoteInv, RemoteTypes, CloneInHand, OneJobAtATime, RunRelease,
     MacRecords, macOnly
<1>8. SentIsThere'
  BY <1>a DEF RemoteInv, RemoteTypes, SentIsThere, OneJobAtATime,
     BeaterUnderRun, RunRelease, MacRecords, macOnly
<1>9. ReadsToTheEnd'
  BY <1>a DEF RemoteInv, RemoteTypes, ReadsToTheEnd, RunRelease, MacRecords,
     macOnly
<1>10. ExitTold'
  BY <1>a DEF RemoteInv, RemoteTypes, ExitTold, CodeEarned, UnclaimedBare,
     RunRelease, MacRecords, macOnly
<1> QED  BY <1>1, <1>2, <1>3, <1>4, <1>5, <1>6, <1>7, <1>8, <1>9, <1>10 DEF RemoteInv

LEMMA RunStoppedKeeps ==
  ASSUME RemoteInv, RunStopped
  PROVE  RemoteInv'
<1>a. mac' \in MacRecords
  BY DEF RemoteInv, RemoteTypes, MacRecords, MacSteps, Codes, RunStopped
<1>b. Mine \in Jobs  BY DEF RemoteInv, OneJobAtATime, RunStopped
<1>c. /\ wrote' \in [Jobs -> 0..MaxLog]
      /\ \A k \in Jobs : wrote[k] <= wrote'[k] /\ (k # Mine => wrote'[k] = wrote[k])
  BY <1>b, LogGrows DEF RemoteInv, RemoteTypes, RunStopped
<1>1. RemoteTypes'
  BY <1>a, <1>b, <1>c DEF RemoteInv, RemoteTypes, OneJobAtATime, RunStopped, macOnly
<1>2. OneJobAtATime'
  BY <1>a, <1>b, <1>c DEF RemoteInv, RemoteTypes, OneJobAtATime, RunStopped,
     MacRecords, macOnly
<1>3. BeaterUnderRun'
  BY <1>a, <1>b, <1>c DEF RemoteInv, RemoteTypes, BeaterUnderRun,
     OneJobAtATime, RunStopped, MacRecords, macOnly
<1>4. UnclaimedBare'
  BY <1>a, <1>b, <1>c DEF RemoteInv, RemoteTypes, UnclaimedBare,
     OneJobAtATime, RunStopped, MacRecords, macOnly
<1>5. ListsStored'
  BY <1>a, <1>b, <1>c, ListsStoredGrows DEF RemoteInv, RemoteTypes,
     ListsStored, OneJobAtATime, RunStopped, MacRecords, macOnly
<1>6. CodeEarned'
  BY <1>a, <1>b, <1>c DEF RemoteInv, RemoteTypes, CodeEarned, OneJobAtATime,
     RunStopped, MacRecords, macOnly
<1>7. CloneInHand'
  BY <1>a, <1>b, <1>c DEF RemoteInv, RemoteTypes, CloneInHand, OneJobAtATime,
     RunStopped, MacRecords, macOnly
<1>8. SentIsThere'
  BY <1>a, <1>b, <1>c DEF RemoteInv, RemoteTypes, SentIsThere, OneJobAtATime,
     BeaterUnderRun, RunStopped, MacRecords, macOnly
<1>9. ReadsToTheEnd'
  BY <1>a, <1>b, <1>c DEF RemoteInv, RemoteTypes, ReadsToTheEnd, RunStopped,
     MacRecords, macOnly
<1>10. ExitTold'
  BY <1>a, <1>b, <1>c DEF RemoteInv, RemoteTypes, ExitTold, CodeEarned,
     UnclaimedBare, RunStopped, MacRecords, macOnly
<1> QED  BY <1>1, <1>2, <1>3, <1>4, <1>5, <1>6, <1>7, <1>8, <1>9, <1>10 DEF RemoteInv

LEMMA RunJoinsKeeps ==
  ASSUME RemoteInv, RunJoins
  PROVE  RemoteInv'
<1>a. mac' \in MacRecords
  BY DEF RemoteInv, RemoteTypes, MacRecords, MacSteps, Codes, RunJoins
<1>1. RemoteTypes'
  BY <1>a DEF RemoteInv, RemoteTypes, OneJobAtATime, RunJoins
<1>2. OneJobAtATime'
  BY <1>a DEF RemoteInv, RemoteTypes, OneJobAtATime, RunJoins, MacRecords
<1>3. BeaterUnderRun'
  BY <1>a DEF RemoteInv, RemoteTypes, BeaterUnderRun, OneJobAtATime, RunJoins,
     MacRecords
<1>4. UnclaimedBare'
  BY <1>a DEF RemoteInv, RemoteTypes, UnclaimedBare, OneJobAtATime, RunJoins,
     MacRecords
<1>5. ListsStored'
  BY <1>a DEF RemoteInv, RemoteTypes, ListsStored, OneJobAtATime, RunJoins,
     MacRecords
<1>6. CodeEarned'
  BY <1>a DEF RemoteInv, RemoteTypes, CodeEarned, OneJobAtATime, RunJoins,
     MacRecords
<1>7. CloneInHand'
  BY <1>a DEF RemoteInv, RemoteTypes, CloneInHand, OneJobAtATime, RunJoins,
     MacRecords
<1>8. SentIsThere'
  BY <1>a DEF RemoteInv, RemoteTypes, SentIsThere, OneJobAtATime,
     BeaterUnderRun, RunJoins, MacRecords
<1>9. ReadsToTheEnd'
  BY <1>a DEF RemoteInv, RemoteTypes, ReadsToTheEnd, RunJoins, MacRecords
<1>10. ExitTold'
  BY <1>a DEF RemoteInv, RemoteTypes, ExitTold, CodeEarned, UnclaimedBare,
     RunJoins, MacRecords
<1> QED  BY <1>1, <1>2, <1>3, <1>4, <1>5, <1>6, <1>7, <1>8, <1>9, <1>10 DEF RemoteInv

\* A file that is stored is added to the job's; the job is otherwise the same.
LEMMA StoresEffect ==
  ASSUME job \in [Jobs -> JobRecords], Mine \in Jobs, NEW n \in SUBSET Files,
         \/ job' = [job EXCEPT ![Mine].stored = @ \cup n]
         \/ job' = job
  PROVE  /\ job' \in [Jobs -> JobRecords]
         /\ \A k \in Jobs :
              /\ job'[k].state = job[k].state /\ job'[k].cancel = job[k].cancel
              /\ job'[k].log = job[k].log /\ job'[k].files = job[k].files
              /\ job'[k].code = job[k].code /\ job[k].stored \subseteq job'[k].stored
<1>1. CASE job' = job  BY <1>1
<1>2. CASE job' = [job EXCEPT ![Mine].stored = @ \cup n]
  <2> DEFINE r == [job[Mine] EXCEPT !.stored = @ \cup n]
  <2>1. /\ r \in JobRecords /\ r.state = job[Mine].state /\ r.cancel = job[Mine].cancel
        /\ r.log = job[Mine].log /\ r.files = job[Mine].files /\ r.code = job[Mine].code
        /\ job[Mine].stored \subseteq r.stored
    BY DEF JobRecords
  <2>2. job' = [job EXCEPT ![Mine] = r]  BY <1>2
  <2> HIDE DEF r
  <2>3. job' \in [Jobs -> JobRecords] /\ job'[Mine] = r
        /\ \A k \in Jobs : k # Mine => job'[k] = job[k]
    BY <2>1, <2>2, JobBecomes
  <2> QED  BY <2>1, <2>3
<1> QED  BY <1>1, <1>2

LEMMA RunFilesKeeps ==
  ASSUME RemoteInv, RunFiles
  PROVE  RemoteInv'
<1>a. mac \in MacRecords /\ Mine \in Jobs /\ At("files") /\ beater = "off"
  BY DEF RemoteInv, RemoteTypes, OneJobAtATime, BeaterUnderRun, RunFiles
<1>b. /\ mac' \in MacRecords /\ mac'.pc = "summary" /\ mac'.job = Mine
      /\ mac'.code = mac.code /\ mac'.sent = mac.sent
  <2>1. CASE mac' = [mac EXCEPT !.pc = "summary", !.up = mac.made]
    BY <1>a, <2>1 DEF MacRecords, MacSteps, Files
  <2>2. CASE Next2("summary")  BY <1>a, <2>2 DEF MacRecords, MacSteps
  <2> QED  BY <2>1, <2>2 DEF RunFiles
<1>c. /\ job' \in [Jobs -> JobRecords]
      /\ \A k \in Jobs :
           /\ job'[k].state = job[k].state /\ job'[k].cancel = job[k].cancel
           /\ job'[k].log = job[k].log /\ job'[k].files = job[k].files
           /\ job'[k].code = job[k].code /\ job[k].stored \subseteq job'[k].stored
  <2>1. mac.made \in SUBSET Files  BY <1>a DEF MacRecords, Files
  <2> QED  BY <1>a, <2>1, StoresEffect DEF RemoteInv, RemoteTypes, RunFiles
<1>d. /\ wrote' \in [Jobs -> 0..MaxLog]
      /\ \A k \in Jobs : wrote[k] <= wrote'[k] /\ (k # Mine => wrote'[k] = wrote[k])
  BY <1>a, LogGrows DEF RemoteInv, RemoteTypes, RunFiles
<1>e. UNCHANGED <<beater, clone, record, caller, ran, unsent, undeleted>>  BY DEF RunFiles
<1>1. RemoteTypes'  BY <1>b, <1>c, <1>d, <1>e DEF RemoteInv, RemoteTypes
<1>2. OneJobAtATime'
  BY <1>a, <1>b, <1>c, <1>d, <1>e DEF RemoteInv, RemoteTypes, OneJobAtATime,
     JobRecords
<1>3. BeaterUnderRun'
  BY <1>a, <1>b, <1>c, <1>d, <1>e DEF RemoteInv, RemoteTypes, BeaterUnderRun,
     OneJobAtATime, JobRecords
<1>4. UnclaimedBare'
  BY <1>a, <1>b, <1>c, <1>d, <1>e DEF RemoteInv, RemoteTypes, UnclaimedBare,
     OneJobAtATime, JobRecords
<1>5. ListsStored'
  BY <1>a, <1>b, <1>c, <1>d, <1>e DEF RemoteInv, RemoteTypes, ListsStored,
     OneJobAtATime, JobRecords
<1>6. CodeEarned'
  BY <1>a, <1>b, <1>c, <1>d, <1>e DEF RemoteInv, RemoteTypes, CodeEarned,
     OneJobAtATime, JobRecords
<1>7. CloneInHand'
  BY <1>a, <1>b, <1>c, <1>d, <1>e DEF RemoteInv, RemoteTypes, CloneInHand,
     OneJobAtATime, JobRecords
<1>8. SentIsThere'
  BY <1>a, <1>b, <1>c, <1>d, <1>e DEF RemoteInv, RemoteTypes, SentIsThere,
     OneJobAtATime, BeaterUnderRun, JobRecords
<1>9. ReadsToTheEnd'
  BY <1>a, <1>b, <1>c, <1>d, <1>e DEF RemoteInv, RemoteTypes, ReadsToTheEnd,
     JobRecords
<1>10. ExitTold'
  BY <1>a, <1>b, <1>c, <1>d, <1>e DEF RemoteInv, RemoteTypes, ExitTold,
     CodeEarned, UnclaimedBare, JobRecords
<1> QED  BY <1>1, <1>2, <1>3, <1>4, <1>5, <1>6, <1>7, <1>8, <1>9, <1>10 DEF RemoteInv

LEMMA RunSummaryKeeps ==
  ASSUME RemoteInv, RunSummary
  PROVE  RemoteInv'
<1>a. mac \in MacRecords /\ Mine \in Jobs /\ At("summary") /\ beater = "off"
  BY DEF RemoteInv, RemoteTypes, OneJobAtATime, BeaterUnderRun, RunSummary
<1>b. /\ mac' \in MacRecords /\ mac'.pc = "lastlog" /\ mac'.job = Mine
      /\ mac'.code = mac.code /\ mac'.sent = mac.sent
  <2>1. CASE mac' = [mac EXCEPT !.pc = "lastlog", !.up = @ \cup {"result.json"}]
    BY <1>a, <2>1 DEF MacRecords, MacSteps, Files
  <2>2. CASE Next2("lastlog")  BY <1>a, <2>2 DEF MacRecords, MacSteps
  <2> QED  BY <2>1, <2>2 DEF RunSummary
<1>c. /\ job' \in [Jobs -> JobRecords]
      /\ \A k \in Jobs :
           /\ job'[k].state = job[k].state /\ job'[k].cancel = job[k].cancel
           /\ job'[k].log = job[k].log /\ job'[k].files = job[k].files
           /\ job'[k].code = job[k].code /\ job[k].stored \subseteq job'[k].stored
  <2>1. {"result.json"} \in SUBSET Files  BY <1>a DEF MacRecords, Files
  <2> QED  BY <1>a, <2>1, StoresEffect DEF RemoteInv, RemoteTypes, RunSummary
<1>d. /\ wrote' \in [Jobs -> 0..MaxLog]
      /\ \A k \in Jobs : wrote[k] <= wrote'[k] /\ (k # Mine => wrote'[k] = wrote[k])
  BY <1>a, LogGrows DEF RemoteInv, RemoteTypes, RunSummary
<1>e. UNCHANGED <<beater, clone, record, caller, ran, unsent, undeleted>>  BY DEF RunSummary
<1>1. RemoteTypes'  BY <1>b, <1>c, <1>d, <1>e DEF RemoteInv, RemoteTypes
<1>2. OneJobAtATime'
  BY <1>a, <1>b, <1>c, <1>d, <1>e DEF RemoteInv, RemoteTypes, OneJobAtATime,
     JobRecords
<1>3. BeaterUnderRun'
  BY <1>a, <1>b, <1>c, <1>d, <1>e DEF RemoteInv, RemoteTypes, BeaterUnderRun,
     OneJobAtATime, JobRecords
<1>4. UnclaimedBare'
  BY <1>a, <1>b, <1>c, <1>d, <1>e DEF RemoteInv, RemoteTypes, UnclaimedBare,
     OneJobAtATime, JobRecords
<1>5. ListsStored'
  BY <1>a, <1>b, <1>c, <1>d, <1>e DEF RemoteInv, RemoteTypes, ListsStored,
     OneJobAtATime, JobRecords
<1>6. CodeEarned'
  BY <1>a, <1>b, <1>c, <1>d, <1>e DEF RemoteInv, RemoteTypes, CodeEarned,
     OneJobAtATime, JobRecords
<1>7. CloneInHand'
  BY <1>a, <1>b, <1>c, <1>d, <1>e DEF RemoteInv, RemoteTypes, CloneInHand,
     OneJobAtATime, JobRecords
<1>8. SentIsThere'
  BY <1>a, <1>b, <1>c, <1>d, <1>e DEF RemoteInv, RemoteTypes, SentIsThere,
     OneJobAtATime, BeaterUnderRun, JobRecords
<1>9. ReadsToTheEnd'
  BY <1>a, <1>b, <1>c, <1>d, <1>e DEF RemoteInv, RemoteTypes, ReadsToTheEnd,
     JobRecords
<1>10. ExitTold'
  BY <1>a, <1>b, <1>c, <1>d, <1>e DEF RemoteInv, RemoteTypes, ExitTold,
     CodeEarned, UnclaimedBare, JobRecords
<1> QED  BY <1>1, <1>2, <1>3, <1>4, <1>5, <1>6, <1>7, <1>8, <1>9, <1>10 DEF RemoteInv

\* The last upload, with the goroutine gone: the log does not grow after it.
LEMMA RunLastLogKeeps ==
  ASSUME RemoteInv, RunLastLog
  PROVE  RemoteInv'
<1>a. /\ mac \in MacRecords /\ Mine \in Jobs /\ At("lastlog") /\ beater = "off"
      /\ job \in [Jobs -> JobRecords] /\ wrote \in [Jobs -> 0..MaxLog]
      /\ Mine \notin unsent => job[Mine].log = mac.sent
  BY DEF RemoteInv, RemoteTypes, OneJobAtATime, BeaterUnderRun, SentIsThere, RunLastLog
<1>b. /\ mac' \in MacRecords /\ mac'.pc = "finish" /\ mac'.job = Mine
      /\ mac'.code = mac.code /\ mac'.sent = wrote[Mine]
  BY <1>a DEF RunLastLog, MacRecords, MacSteps
<1>c. /\ job' \in [Jobs -> JobRecords]
      /\ \A k \in Jobs :
           /\ job'[k].state = job[k].state /\ job'[k].cancel = job[k].cancel
           /\ job'[k].stored = job[k].stored /\ job'[k].files = job[k].files
           /\ job'[k].code = job[k].code
           /\ k # Mine \/ job[k].state # "running" => job'[k] = job[k]
      /\ unsent \subseteq unsent' /\ unsent' \subseteq unsent \cup {Mine}
      /\ Mine \in unsent' \/ job'[Mine].log = wrote[Mine]
      /\ job'[Mine].log \in {job[Mine].log, wrote[Mine]}
  <2>1. CASE wrote[Mine] # mac.sent  BY <1>a, <2>1, UploadsEffect DEF RunLastLog
  <2>2. CASE wrote[Mine] = mac.sent  BY <1>a, <2>2 DEF RunLastLog
  <2> QED  BY <2>1, <2>2
<1>d. UNCHANGED <<beater, wrote, clone, record, caller, ran, undeleted>>  BY DEF RunLastLog
<1>1. RemoteTypes'  BY <1>a, <1>b, <1>c, <1>d DEF RemoteInv, RemoteTypes
<1>2. OneJobAtATime'
  BY <1>a, <1>b, <1>c, <1>d DEF RemoteInv, RemoteTypes, OneJobAtATime, Overs
<1>3. BeaterUnderRun'
  BY <1>a, <1>b, <1>c, <1>d DEF RemoteInv, RemoteTypes, BeaterUnderRun,
     OneJobAtATime, Overs
<1>4. UnclaimedBare'
  BY <1>a, <1>b, <1>c, <1>d DEF RemoteInv, RemoteTypes, UnclaimedBare,
     OneJobAtATime, Overs
<1>5. ListsStored'
  BY <1>a, <1>b, <1>c, <1>d DEF RemoteInv, RemoteTypes, ListsStored,
     OneJobAtATime, Overs
<1>6. CodeEarned'
  BY <1>a, <1>b, <1>c, <1>d DEF RemoteInv, RemoteTypes, CodeEarned,
     OneJobAtATime, Overs
<1>7. CloneInHand'
  BY <1>a, <1>b, <1>c, <1>d DEF RemoteInv, RemoteTypes, CloneInHand,
     OneJobAtATime, Overs
<1>8. SentIsThere'
  BY <1>a, <1>b, <1>c, <1>d DEF RemoteInv, RemoteTypes, SentIsThere,
     OneJobAtATime, BeaterUnderRun, Overs
<1>9. ReadsToTheEnd'
  BY <1>a, <1>b, <1>c, <1>d DEF RemoteInv, RemoteTypes, ReadsToTheEnd, Overs
<1>10. ExitTold'
  BY <1>a, <1>b, <1>c, <1>d DEF RemoteInv, RemoteTypes, ExitTold, CodeEarned,
     UnclaimedBare, Overs
<1> QED  BY <1>1, <1>2, <1>3, <1>4, <1>5, <1>6, <1>7, <1>8, <1>9, <1>10 DEF RemoteInv

\* Finish is taken only while the job runs at the Worker.
LEMMA RunFinishKeeps ==
  ASSUME RemoteInv, RunFinish
  PROVE  RemoteInv'
<1>a. /\ mac \in MacRecords /\ Mine \in Jobs /\ At("finish") /\ beater = "off"
      /\ job \in [Jobs -> JobRecords] /\ mac.sent = wrote[Mine]
      /\ Mine \notin unsent => job[Mine].log = mac.sent
      /\ mac.code = "ok" => Mine \in ran
  BY DEF RemoteInv, RemoteTypes, OneJobAtATime, BeaterUnderRun, SentIsThere, CodeEarned,
     RunFinish
<1>b. mac' \in MacRecords /\ mac'.pc = "claim"
  <2>1. 0 \in 0..MaxLog  BY RemoteAssumption
  <2> QED  BY <2>1 DEF RunFinish, Asleep, MacRecords, MacSteps, Codes
<1> DEFINE st == IF job[Mine].cancel THEN "cancelled" ELSE "finished"
           r == [job[Mine] EXCEPT !.state = st, !.files = mac.up, !.code = mac.code]
<1>c. /\ job' \in [Jobs -> JobRecords]
      /\ \A k \in Jobs : k # Mine \/ job[k].state # "running" => job'[k] = job[k]
      /\ \/ job'[Mine] = job[Mine]
         \/ /\ job[Mine].state = "running"
            /\ job'[Mine].state \in {"cancelled", "finished"}
            /\ job'[Mine].state = "finished" => ~job'[Mine].cancel
            /\ job'[Mine].log = job[Mine].log /\ job'[Mine].files \subseteq job'[Mine].stored
            /\ job'[Mine].code = mac.code
  <2>1. CASE job' = job  BY <1>a, <2>1
  <2>2. CASE /\ job[Mine].state = "running" /\ mac.up \subseteq job[Mine].stored
             /\ job' = [job EXCEPT ![Mine] = r]
    <3>1. st \in {"cancelled", "finished"} /\ (st = "finished" => ~job[Mine].cancel)  OBVIOUS
    <3> HIDE DEF st
    <3>2. job[Mine] \in JobRecords /\ mac.up \in SUBSET Files /\ mac.code \in Codes
      BY <1>a DEF MacRecords
    <3>3. /\ r \in JobRecords /\ r.state = st /\ r.cancel = job[Mine].cancel
          /\ r.log = job[Mine].log /\ r.files = mac.up /\ r.stored = job[Mine].stored
          /\ r.code = mac.code
      BY <3>1, <3>2 DEF JobRecords, Overs
    <3> HIDE DEF r
    <3>4. /\ job' \in [Jobs -> JobRecords] /\ job'[Mine] = r
          /\ \A k \in Jobs : k # Mine => job'[k] = job[k]
      BY <1>a, <2>2, <3>3, JobBecomes
    <3> QED  BY <2>2, <3>1, <3>3, <3>4
  <2> QED  BY <2>1, <2>2 DEF RunFinish
<1>d. UNCHANGED <<beater, wrote, clone, record, caller, ran, unsent, undeleted>>
  BY DEF RunFinish
<1>1. RemoteTypes'  BY <1>b, <1>c, <1>d DEF RemoteInv, RemoteTypes
<1>2. OneJobAtATime'
  BY <1>a, <1>b, <1>c, <1>d DEF RemoteInv, RemoteTypes, OneJobAtATime, Overs
<1>3. BeaterUnderRun'
  BY <1>a, <1>b, <1>c, <1>d DEF RemoteInv, RemoteTypes, BeaterUnderRun,
     OneJobAtATime, Overs
<1>4. UnclaimedBare'
  BY <1>a, <1>b, <1>c, <1>d DEF RemoteInv, RemoteTypes, UnclaimedBare,
     OneJobAtATime, Overs
<1>5. ListsStored'
  BY <1>a, <1>b, <1>c, <1>d DEF RemoteInv, RemoteTypes, ListsStored,
     OneJobAtATime, Overs
<1>6. CodeEarned'
  BY <1>a, <1>b, <1>c, <1>d DEF RemoteInv, RemoteTypes, CodeEarned,
     OneJobAtATime, Overs
<1>7. CloneInHand'
  BY <1>a, <1>b, <1>c, <1>d DEF RemoteInv, RemoteTypes, CloneInHand,
     OneJobAtATime, Overs
<1>8. SentIsThere'
  BY <1>a, <1>b, <1>c, <1>d DEF RemoteInv, RemoteTypes, SentIsThere,
     OneJobAtATime, BeaterUnderRun, Overs
<1>9. ReadsToTheEnd'
  BY <1>a, <1>b, <1>c, <1>d DEF RemoteInv, RemoteTypes, ReadsToTheEnd, Overs
<1>10. ExitTold'
  BY <1>a, <1>b, <1>c, <1>d DEF RemoteInv, RemoteTypes, ExitTold, CodeEarned,
     UnclaimedBare, Overs
<1> QED  BY <1>1, <1>2, <1>3, <1>4, <1>5, <1>6, <1>7, <1>8, <1>9, <1>10 DEF RemoteInv

-----------------------------------------------------------------------------
(* The goroutine under the run, and the Worker's clock.                     *)

LEMMA BeaterFlushKeeps ==
  ASSUME RemoteInv, BeaterFlush
  PROVE  RemoteInv'
<1>a. /\ mac \in MacRecords /\ Mine \in Jobs /\ beater = "idle"
      /\ mac.pc \notin {"claim", "ended", "files", "summary", "lastlog", "finish"}
      /\ job \in [Jobs -> JobRecords] /\ wrote \in [Jobs -> 0..MaxLog]
      /\ Mine \notin unsent => job[Mine].log = mac.sent
  BY DEF RemoteInv, RemoteTypes, OneJobAtATime, BeaterUnderRun, SentIsThere, BeaterFlush
<1>b. /\ mac' \in MacRecords /\ mac'.pc = mac.pc /\ mac'.job = Mine
      /\ mac'.code = mac.code /\ mac'.sent = wrote[Mine]
  BY <1>a DEF BeaterFlush, MacRecords
<1>c. /\ job' \in [Jobs -> JobRecords]
      /\ \A k \in Jobs :
           /\ job'[k].state = job[k].state /\ job'[k].cancel = job[k].cancel
           /\ job'[k].stored = job[k].stored /\ job'[k].files = job[k].files
           /\ job'[k].code = job[k].code
           /\ k # Mine \/ job[k].state # "running" => job'[k] = job[k]
      /\ unsent \subseteq unsent' /\ unsent' \subseteq unsent \cup {Mine}
      /\ Mine \in unsent' \/ job'[Mine].log = wrote[Mine]
      /\ job'[Mine].log \in {job[Mine].log, wrote[Mine]}
  BY <1>a, UploadsEffect DEF BeaterFlush
<1>d. UNCHANGED <<beater, wrote, clone, record, caller, ran, undeleted>>
  BY DEF BeaterFlush, beatVars
<1>1. RemoteTypes'  BY <1>a, <1>b, <1>c, <1>d DEF RemoteInv, RemoteTypes
<1>2. OneJobAtATime'
  BY <1>a, <1>b, <1>c, <1>d DEF RemoteInv, RemoteTypes, OneJobAtATime, Overs
<1>3. BeaterUnderRun'
  BY <1>a, <1>b, <1>c, <1>d DEF RemoteInv, RemoteTypes, BeaterUnderRun,
     OneJobAtATime, Overs
<1>4. UnclaimedBare'
  BY <1>a, <1>b, <1>c, <1>d DEF RemoteInv, RemoteTypes, UnclaimedBare,
     OneJobAtATime, Overs
<1>5. ListsStored'
  BY <1>a, <1>b, <1>c, <1>d DEF RemoteInv, RemoteTypes, ListsStored,
     OneJobAtATime, Overs
<1>6. CodeEarned'
  BY <1>a, <1>b, <1>c, <1>d DEF RemoteInv, RemoteTypes, CodeEarned,
     OneJobAtATime, Overs
<1>7. CloneInHand'
  BY <1>a, <1>b, <1>c, <1>d DEF RemoteInv, RemoteTypes, CloneInHand,
     OneJobAtATime, Overs
<1>8. SentIsThere'
  BY <1>a, <1>b, <1>c, <1>d DEF RemoteInv, RemoteTypes, SentIsThere,
     OneJobAtATime, BeaterUnderRun, Overs
<1>9. ReadsToTheEnd'
  BY <1>a, <1>b, <1>c, <1>d DEF RemoteInv, RemoteTypes, ReadsToTheEnd, Overs
<1>10. ExitTold'
  BY <1>a, <1>b, <1>c, <1>d DEF RemoteInv, RemoteTypes, ExitTold, CodeEarned,
     UnclaimedBare, Overs
<1> QED  BY <1>1, <1>2, <1>3, <1>4, <1>5, <1>6, <1>7, <1>8, <1>9, <1>10 DEF RemoteInv

LEMMA BeaterBeatKeeps ==
  ASSUME RemoteInv, BeaterBeat
  PROVE  RemoteInv'
<1>a. /\ mac \in MacRecords /\ Mine \in Jobs /\ job \in [Jobs -> JobRecords]
      /\ job[Mine].cancel \in BOOLEAN
  BY DEF RemoteInv, RemoteTypes, OneJobAtATime, BeaterUnderRun, BeaterBeat, JobRecords
<1>b. /\ mac' \in MacRecords /\ mac'.pc = mac.pc /\ mac'.job = Mine
      /\ mac'.code = mac.code /\ mac'.sent = mac.sent
  <2>1. \E s \in BOOLEAN : mac' = [mac EXCEPT !.stop = s]
    <3>1. (mac.stop \/ job[Mine].cancel) \in BOOLEAN  BY <1>a DEF MacRecords
    <3> QED  BY <3>1 DEF BeaterBeat
  <2> QED  BY <1>a, <2>1 DEF MacRecords
<1>c. /\ job' \in [Jobs -> JobRecords]
      /\ \A k \in Jobs :
           /\ job'[k].state = job[k].state /\ job'[k].cancel = job[k].cancel
           /\ job'[k].log = job[k].log /\ job'[k].files = job[k].files
           /\ job'[k].code = job[k].code /\ job'[k].stored = job[k].stored
  <2> DEFINE r == [job[Mine] EXCEPT !.lease = LeaseTicks]
  <2>1. /\ r \in JobRecords /\ r.state = job[Mine].state /\ r.cancel = job[Mine].cancel
        /\ r.log = job[Mine].log /\ r.files = job[Mine].files /\ r.code = job[Mine].code
        /\ r.stored = job[Mine].stored
    <3>1. LeaseTicks \in 0..LeaseTicks /\ job[Mine] \in JobRecords  BY <1>a, RemoteAssumption
    <3> QED  BY <3>1 DEF JobRecords
  <2>2. job' = [job EXCEPT ![Mine] = r] \/ job' = job  BY DEF BeaterBeat
  <2> HIDE DEF r
  <2>3. CASE job' = [job EXCEPT ![Mine] = r]
    <3>1. job' \in [Jobs -> JobRecords] /\ job'[Mine] = r
          /\ \A k \in Jobs : k # Mine => job'[k] = job[k]
      BY <1>a, <2>1, <2>3, JobBecomes
    <3> QED  BY <2>1, <3>1
  <2>4. CASE job' = job  BY <1>a, <2>4
  <2> QED  BY <2>2, <2>3, <2>4
<1>d. UNCHANGED <<beater, wrote, clone, record, caller, ran, unsent, undeleted>>
  BY DEF BeaterBeat, beatVars
<1>1. RemoteTypes'  BY <1>b, <1>c, <1>d DEF RemoteInv, RemoteTypes
<1>2. OneJobAtATime'
  BY <1>a, <1>b, <1>c, <1>d DEF RemoteInv, RemoteTypes, OneJobAtATime,
     JobRecords
<1>3. BeaterUnderRun'
  BY <1>a, <1>b, <1>c, <1>d DEF RemoteInv, RemoteTypes, BeaterUnderRun,
     OneJobAtATime, JobRecords
<1>4. UnclaimedBare'
  BY <1>a, <1>b, <1>c, <1>d DEF RemoteInv, RemoteTypes, UnclaimedBare,
     OneJobAtATime, JobRecords
<1>5. ListsStored'
  BY <1>a, <1>b, <1>c, <1>d DEF RemoteInv, RemoteTypes, ListsStored,
     OneJobAtATime, JobRecords
<1>6. CodeEarned'
  BY <1>a, <1>b, <1>c, <1>d DEF RemoteInv, RemoteTypes, CodeEarned,
     OneJobAtATime, JobRecords
<1>7. CloneInHand'
  BY <1>a, <1>b, <1>c, <1>d DEF RemoteInv, RemoteTypes, CloneInHand,
     OneJobAtATime, JobRecords
<1>8. SentIsThere'
  BY <1>a, <1>b, <1>c, <1>d DEF RemoteInv, RemoteTypes, SentIsThere,
     OneJobAtATime, BeaterUnderRun, JobRecords
<1>9. ReadsToTheEnd'
  BY <1>a, <1>b, <1>c, <1>d DEF RemoteInv, RemoteTypes, ReadsToTheEnd,
     JobRecords
<1>10. ExitTold'
  BY <1>a, <1>b, <1>c, <1>d DEF RemoteInv, RemoteTypes, ExitTold, CodeEarned,
     UnclaimedBare, JobRecords
<1> QED  BY <1>1, <1>2, <1>3, <1>4, <1>5, <1>6, <1>7, <1>8, <1>9, <1>10 DEF RemoteInv

\* The goroutine's request hangs or is answered, or it ends at the join.
LEMMA BeaterMovesKeep ==
  ASSUME RemoteInv, BeaterHangs \/ BeaterAnswered \/ BeaterEnds
  PROVE  RemoteInv'
<1>a. /\ UNCHANGED <<job, mac, unsent, wrote, clone, record, caller, ran, undeleted>>
      /\ \/ beater \in {"idle", "hung"} /\ beater' \in {"idle", "hung"}
         \/ beater = "idle" /\ At("join") /\ beater' = "over"
  BY DEF BeaterHangs, BeaterAnswered, BeaterEnds, beatVars
<1>1. RemoteTypes'  BY <1>a DEF RemoteInv, RemoteTypes
<1>2. OneJobAtATime'
  BY <1>a DEF RemoteInv, RemoteTypes, OneJobAtATime
<1>3. BeaterUnderRun'
  BY <1>a DEF RemoteInv, RemoteTypes, BeaterUnderRun, OneJobAtATime
<1>4. UnclaimedBare'
  BY <1>a DEF RemoteInv, RemoteTypes, UnclaimedBare, OneJobAtATime
<1>5. ListsStored'
  BY <1>a DEF RemoteInv, RemoteTypes, ListsStored, OneJobAtATime
<1>6. CodeEarned'
  BY <1>a DEF RemoteInv, RemoteTypes, CodeEarned, OneJobAtATime
<1>7. CloneInHand'
  BY <1>a DEF RemoteInv, RemoteTypes, CloneInHand, OneJobAtATime
<1>8. SentIsThere'
  BY <1>a DEF RemoteInv, RemoteTypes, SentIsThere, OneJobAtATime,
     BeaterUnderRun
<1>9. ReadsToTheEnd'
  BY <1>a DEF RemoteInv, RemoteTypes, ReadsToTheEnd
<1>10. ExitTold'
  BY <1>a DEF RemoteInv, RemoteTypes, ExitTold, CodeEarned, UnclaimedBare
<1> QED  BY <1>1, <1>2, <1>3, <1>4, <1>5, <1>6, <1>7, <1>8, <1>9, <1>10 DEF RemoteInv

LEMMA RemoteTickKeeps ==
  ASSUME RemoteInv, RemoteTick
  PROVE  RemoteInv'
<1>a. /\ job \in [Jobs -> JobRecords] /\ job' = [j \in Jobs |-> Passed(job[j])]
      /\ UNCHANGED <<mac, beater, wrote, clone, record, caller, ran, unsent, undeleted>>
  BY DEF RemoteInv, RemoteTypes, RemoteTick
<1>b. \A k \in Jobs :
        /\ job'[k] \in JobRecords /\ job'[k].cancel = job[k].cancel
        /\ job'[k].log = job[k].log /\ job'[k].files = job[k].files
        /\ job'[k].code = job[k].code /\ job'[k].stored = job[k].stored
        /\ job[k].state \in Overs \cup {"none"} => job'[k] = job[k]
        /\ job[k].state = "running" => job'[k].state \in {"running", "lost", "timed-out"}
        /\ job[k].state \in {"uploading", "queued"} => job'[k].state \in {job[k].state, "expired"}
        /\ job[k].state \in Waits \cup Overs \cup {"none"}
  <2>1. SUFFICES ASSUME NEW k \in Jobs
                 PROVE  /\ job[k] \in JobRecords /\ job'[k] = Passed(job[k])
                        /\ job[k].state \in Waits \cup Overs \cup {"none"}
    BY <2>1, PassedEffect
  <2> QED  BY <1>a DEF JobRecords
<1>c. job' \in [Jobs -> JobRecords]  BY <1>a, <1>b
<1>1. RemoteTypes'  BY <1>a, <1>c DEF RemoteInv, RemoteTypes
<1>2. OneJobAtATime'
  BY <1>a, <1>b DEF RemoteInv, RemoteTypes, OneJobAtATime, Overs, Waits
<1>3. BeaterUnderRun'
  BY <1>a, <1>b DEF RemoteInv, RemoteTypes, BeaterUnderRun, OneJobAtATime,
     Overs, Waits
<1>4. UnclaimedBare'
  BY <1>a, <1>b DEF RemoteInv, RemoteTypes, UnclaimedBare, OneJobAtATime,
     Overs, Waits
<1>5. ListsStored'
  BY <1>a, <1>b DEF RemoteInv, RemoteTypes, ListsStored, OneJobAtATime, Overs,
     Waits
<1>6. CodeEarned'
  BY <1>a, <1>b DEF RemoteInv, RemoteTypes, CodeEarned, OneJobAtATime, Overs,
     Waits
<1>7. CloneInHand'
  BY <1>a, <1>b DEF RemoteInv, RemoteTypes, CloneInHand, OneJobAtATime, Overs,
     Waits
<1>8. SentIsThere'
  BY <1>a, <1>b DEF RemoteInv, RemoteTypes, SentIsThere, OneJobAtATime,
     BeaterUnderRun, Overs, Waits
<1>9. ReadsToTheEnd'
  BY <1>a, <1>b DEF RemoteInv, RemoteTypes, ReadsToTheEnd, Overs, Waits
<1>10. ExitTold'
  BY <1>a, <1>b DEF RemoteInv, RemoteTypes, ExitTold, CodeEarned,
     UnclaimedBare, Overs, Waits
<1> QED  BY <1>1, <1>2, <1>3, <1>4, <1>5, <1>6, <1>7, <1>8, <1>9, <1>10 DEF RemoteInv

-----------------------------------------------------------------------------
(* The theorems.                                                           *)

LEMMA RemoteInitInv == RemoteInit => RemoteInv
<1> SUFFICES ASSUME RemoteInit PROVE RemoteInv  OBVIOUS
<1>1. 0 \in 0..LeaseTicks /\ 0 \in 0..LimitTicks /\ 0 \in 0..MaxLog  BY RemoteAssumption
<1>2. NoJob \in JobRecords  BY <1>1 DEF NoJob, JobRecords, Codes, Waits, Overs
<1>3. Asleep \in MacRecords  BY <1>1 DEF Asleep, MacRecords, MacSteps, Codes
<1>4. AtHome \in CallerRecords  BY <1>1 DEF AtHome, CallerRecords
<1>5. RemoteTypes  BY <1>1, <1>2, <1>3, <1>4 DEF RemoteInit, RemoteTypes
<1>6. OneJobAtATime /\ BeaterUnderRun /\ CodeEarned /\ CloneInHand /\ SentIsThere
  BY DEF RemoteInit, Asleep, NoJob, OneJobAtATime, BeaterUnderRun, CodeEarned, CloneInHand,
     SentIsThere
<1>7. UnclaimedBare /\ ListsStored /\ ReadsToTheEnd /\ ExitTold
  BY DEF RemoteInit, NoJob, AtHome, UnclaimedBare, ListsStored, ReadsToTheEnd, ExitTold
<1> QED  BY <1>5, <1>6, <1>7 DEF RemoteInv

LEMMA RemoteStep == RemoteInv /\ [RemoteNext]_remoteVars => RemoteInv'
<1> SUFFICES ASSUME RemoteInv, [RemoteNext]_remoteVars PROVE RemoteInv'  OBVIOUS
<1>1. ASSUME NEW j \in Jobs,
             RemoteSubmit(j) \/ RemoteUpload(j) \/ RemoteCancel(j) \/ CallerStep(j)
      PROVE  RemoteInv'
  BY <1>1, RemoteSubmitKeeps, RemoteUploadKeeps, RemoteCancelKeeps, WaitStatusKeeps,
     WaitLogKeeps, FetchAndReportKeeps DEF CallerStep
<1>2. ASSUME ServeClaim \/ ServeClaimUnanswered \/ ServeEnds \/ ServeDies PROVE RemoteInv'
  BY <1>2, ServeClaimKeeps, ServeClaimUnansweredKeeps, ServeEndsKeeps, ServeDiesKeeps
<1>3. ASSUME RunInput \/ RunAdmit \/ RunClone \/ RunReady \/ RunApp \/ RunDelete PROVE RemoteInv'
  BY <1>3, RunInputKeeps, RunAdmitKeeps, RunCloneKeeps, RunReadyKeeps, RunAppKeeps,
     RunDeleteKeeps
<1>4. ASSUME RunRelease \/ RunStopped \/ RunJoins \/ RunFiles \/ RunSummary
             \/ RunLastLog \/ RunFinish
      PROVE  RemoteInv'
  BY <1>4, RunReleaseKeeps, RunStoppedKeeps, RunJoinsKeeps, RunFilesKeeps, RunSummaryKeeps,
     RunLastLogKeeps, RunFinishKeeps
<1>5. ASSUME BeaterFlush \/ BeaterBeat \/ BeaterHangs \/ BeaterWorks PROVE RemoteInv'
  BY <1>5, BeaterFlushKeeps, BeaterBeatKeeps, BeaterMovesKeep DEF BeaterWorks
<1>6. ASSUME RemoteTick PROVE RemoteInv'  BY <1>6, RemoteTickKeeps
<1>7. ASSUME UNCHANGED remoteVars PROVE RemoteInv'
  BY <1>7 DEF remoteVars, RemoteInv, RemoteTypes, OneJobAtATime, BeaterUnderRun, UnclaimedBare,
     ListsStored, CodeEarned, CloneInHand, SentIsThere, ReadsToTheEnd, ExitTold
<1> QED  BY <1>1, <1>2, <1>3, <1>4, <1>5, <1>6, <1>7 DEF RemoteNext, MacStep

LEMMA RemoteInvHolds == RemoteSpec => []RemoteInv
<1> QED  BY RemoteInitInv, RemoteStep, PTL DEF RemoteSpec

\* A job's record at the Worker, and what the Mac holds of it, are always one
\* of the shapes the code has for them: what is listed is stored, and the
\* Worker's log is no longer than the Mac's.
THEOREM RemoteTypesHold == RemoteSpec => []RemoteTypeOK
<1>1. RemoteInv => RemoteTypeOK
  <2> SUFFICES ASSUME RemoteInv PROVE RemoteTypeOK  OBVIOUS
  <2>1. ASSUME NEW j \in Jobs
        PROVE  /\ job[j].state \in Waits \cup Overs \cup {"none"}
               /\ job[j].lease \in 0..LeaseTicks /\ job[j].left \in 0..LimitTicks
               /\ job[j].files \subseteq job[j].stored /\ job[j].stored \subseteq Files
               /\ job[j].log \in 0..wrote[j] /\ wrote[j] \in 0..MaxLog
               /\ record[j] \in {"none", "creating", "made"}
    <3>1. job[j] \in JobRecords /\ wrote[j] \in 0..MaxLog /\ job[j].log <= wrote[j]
          /\ job[j].files \subseteq job[j].stored /\ record[j] \in {"none", "creating", "made"}
      BY DEF RemoteInv, RemoteTypes, ListsStored
    <3> QED  BY <3>1 DEF JobRecords
  <2>2. /\ mac.pc \in MacSteps /\ mac.job \in Jobs \cup {None}
        /\ (mac.pc \notin {"claim", "ended"} => mac.job \in Jobs)
        /\ beater \in {"off", "idle", "hung", "over"}
    BY DEF RemoteInv, RemoteTypes, OneJobAtATime, MacRecords
  <2> QED  BY <2>1, <2>2 DEF RemoteTypeOK
<1> QED  BY RemoteInvHolds, <1>1, PTL

\* remote-submit exits 0 only for a program that exited 0 in the guest of a
\* clone made for it, whose files were all saved, however requests are lost
\* and retried, leases run out, and the Mac stops or dies.
THEOREM ExitIsEarned == RemoteSpec => []ExitTold
<1>1. RemoteInv => ExitTold  BY DEF RemoteInv
<1> QED  BY RemoteInvHolds, <1>1, PTL

\* Back at the queue serve has no clone left but one it could not delete, and
\* no clone is ever without the record vm-reap finds it by.
THEOREM ClonesAreDeleted == RemoteSpec => []NoCloneLeft
<1>1. RemoteInv => NoCloneLeft  BY DEF RemoteInv, CloneInHand, NoCloneLeft
<1> QED  BY RemoteInvHolds, <1>1, PTL

\* What the caller is shown of a finished job's log is all the Worker has, and
\* the Worker has all the Mac wrote, unless a read or an upload failed.
THEOREM LogIsWhole == RemoteSpec => []LogWhole
<1>1. RemoteInv => LogWhole  BY DEF RemoteInv, SentIsThere, ReadsToTheEnd, LogWhole
<1> QED  BY RemoteInvHolds, <1>1, PTL
=============================================================================
