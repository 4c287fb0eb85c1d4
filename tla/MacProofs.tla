------------------------------ MODULE MacProofs ------------------------------
(***************************************************************************)
(* Programs put on guests and run there, the detached jobs of the MCP      *)
(* server and the binaries staged on a Mac, for any number of runs, guests *)
(* and records.                                                            *)
(*                                                                         *)
(* The three share no variable, and each has its part below.               *)
(***************************************************************************)
EXTENDS Apps, DetachedJobs, Staging, FiniteSetTheorems, WellFoundedInduction, TLAPS

(***************************************************************************)
(* Programs in the guests.                                                 *)
(***************************************************************************)
Stages == [content : SUBSET AppRuns, open : SUBSET AppRuns, there : BOOLEAN]

\* Each VM is held by one run.
OneRunPerGuest ==
  \A q, r \in AppRuns : Active(q) /\ Active(r) /\ on[q] = on[r] => q = r

\* From the hash, or the archive, to the launch the program is the run's own:
\* by whatever address others were sent astray, they moved nothing into place.
ReadyToLaunch == \A r \in AppRuns : at[r] = "launch" => program[on[r]] = {r}

AppInv == AppsTypeOK /\ OneRunPerGuest /\ ReadyToLaunch /\ RunsWhatWasGiven

(***************************************************************************)
(* Detached jobs.                                                          *)
(***************************************************************************)
CallRecords  == [pc : {"idle", "find", "name", "spawn", "look", "prune", "write"},
                 req : Requests \cup {"none"}, id : Ids, pid : 0..MaxChildren, old : SUBSET Ids]
ChildRecords == [req : Requests \cup {"none"}, at : {"unborn", "begun", "works", "ended", "gone"},
                 ours : BOOLEAN]
JobRecords   == [pid : 0..MaxChildren, req : Requests \cup {"none"}, started : 0..MaxChildren]

DetachedTypes ==
  /\ asker \in [Askers -> CallRecords] /\ children \in [Pids -> ChildRecords]
  /\ records \in [Ids -> JobRecords] /\ second \in 0..MaxSeconds
  /\ answered \subseteq Ids \X Pids /\ clashed \subseteq Ids

Born(p) == children[p].at # "unborn"

\* A call past spawning has a child of its own, which no record has.
HasChild(c) == asker[c].pc \in {"look", "prune", "write"}
CallsApart ==
  /\ \A c \in Askers : HasChild(c) =>
       /\ asker[c].pid \in Pids /\ Born(asker[c].pid)
       /\ \A i \in Ids : records[i].pid # asker[c].pid
  /\ \A c, d \in Askers : HasChild(c) /\ HasChild(d) /\ asker[c].pid = asker[d].pid => c = d

\* A record is of a child that was made, which has no other record.
RecordsApart ==
  /\ \A i \in Recorded : records[i].pid \in Pids /\ Born(records[i].pid)
  /\ \A i, j \in Recorded : records[i].pid = records[j].pid => i = j

\* An id two calls have drawn, one that is drawn and has a record, and one that
\* is drawn and to be removed have clashed; and what is to be removed is the
\* record of a job that does not run, or its id has clashed.
IdsClash ==
  /\ \A c, d \in Askers : Drawn(c) /\ Drawn(d) /\ asker[c].id = asker[d].id =>
       c = d \/ asker[c].id \in clashed
  /\ \A c \in Askers : Drawn(c) => records[asker[c].id] = NoJob \/ asker[c].id \in clashed
  /\ \A c, d \in Askers : Drawn(c) /\ asker[c].id \in asker[d].old => asker[c].id \in clashed
  /\ \A c \in Askers : \A i \in asker[c].old :
       records[i] = NoJob \/ ~Runs(records[i].pid) \/ i \in clashed
  /\ \A c \in Askers : asker[c].old # {} => Drawn(c)

\* The id a caller was given is of a child that was made.
AnswersBorn == \A a \in answered : Born(a[2])

DetachedInv ==
  /\ DetachedTypes /\ CallsApart /\ RecordsApart /\ IdsClash /\ AnswersBorn /\ RunningAnswerable
-----------------------------------------------------------------------------
(* Programs in the guests.                                                 *)

USE DEF Active, Goes, AppEnds

\* What the steps make of a staged file.
LEMMA StagesKept ==
  ASSUME staged \in [Guests -> Stages]
  PROVE  /\ \A s \in Stages, c \in SUBSET AppRuns, o \in SUBSET AppRuns :
              /\ [s EXCEPT !.open = o] \in Stages
              /\ [s EXCEPT !.content = c, !.open = o] \in Stages
         /\ \A r \in AppRuns :
              [v \in Guests |-> [staged[v] EXCEPT !.open = @ \ {r}]] \in [Guests -> Stages]
BY DEF Stages

\* Every step keeps every variable in its type.
LEMMA AppsTypesKept == AppsTypeOK /\ [AppsNext]_appVars => AppsTypeOK'
<1> SUFFICES ASSUME AppsTypeOK, [AppsNext]_appVars PROVE AppsTypeOK'  OBVIOUS
<1> USE AppsAssumption DEF Up
<1>1. ASSUME NEW r \in AppRuns, NEW v \in Guests, AppBegins(r, v) PROVE AppsTypeOK'
  <2>1. at' \in [AppRuns -> {"idle", "dial", "create", "copying", "move", "utm", "launch",
     "wait", "ended"}]
    BY <1>1 DEF AppsTypeOK, AppBegins
  <2>2. on' \in [AppRuns -> Guests]  BY <1>1 DEF AppsTypeOK, AppBegins
  <2> QED  BY <1>1, <2>1, <2>2 DEF AppsTypeOK, Stages, AppBegins
<1>2. ASSUME NEW r \in AppRuns, DialsCached(r) PROVE AppsTypeOK'
  <2>1. at' \in [AppRuns -> {"idle", "dial", "create", "copying", "move", "utm", "launch",
     "wait", "ended"}]
    BY <1>2 DEF AppsTypeOK, DialsCached
  <2>2. reached' \in [AppRuns -> Guests]  BY <1>2 DEF AppsTypeOK, DialsCached
  <2> QED  BY <1>2, <2>1, <2>2 DEF AppsTypeOK, Stages, DialsCached
<1>3. ASSUME NEW r \in AppRuns, DialsAsked(r) PROVE AppsTypeOK'
  <2>1. at' \in [AppRuns -> {"idle", "dial", "create", "copying", "move", "utm", "launch",
     "wait", "ended"}]
    BY <1>3 DEF AppsTypeOK, DialsAsked
  <2>2. cached' \in [Guests -> Addresses \cup {NoAddress}]  BY <1>3 DEF AppsTypeOK, DialsAsked
  <2>3. reached' \in [AppRuns -> Guests]  BY <1>3 DEF AppsTypeOK, DialsAsked
  <2> QED  BY <1>3, <2>1, <2>2, <2>3 DEF AppsTypeOK, Stages, DialsAsked
<1>4. ASSUME NEW r \in AppRuns, DialFails(r) PROVE AppsTypeOK'
  <2>1. at' \in [AppRuns -> {"idle", "dial", "create", "copying", "move", "utm", "launch",
     "wait", "ended"}]
    BY <1>4 DEF AppsTypeOK, DialFails
  <2>2. cached' \in [Guests -> Addresses \cup {NoAddress}]  BY <1>4 DEF AppsTypeOK, DialFails
  <2> QED  BY <1>4, <2>1, <2>2 DEF AppsTypeOK, Stages, DialFails
<1>5. ASSUME NEW r \in AppRuns, CopyBegins(r) PROVE AppsTypeOK'
  <2>1. at' \in [AppRuns -> {"idle", "dial", "create", "copying", "move", "utm", "launch",
     "wait", "ended"}]
    BY <1>5 DEF AppsTypeOK, CopyBegins
  <2>2. staged' \in [Guests -> Stages]  BY <1>5 DEF AppsTypeOK, CopyBegins, Stages, NoFile
  <2> QED  BY <1>5, <2>1, <2>2 DEF AppsTypeOK, Stages, CopyBegins
<1>6. ASSUME NEW r \in AppRuns, CopyEnds(r) PROVE AppsTypeOK'
  <2>1. at' \in [AppRuns -> {"idle", "dial", "create", "copying", "move", "utm", "launch",
     "wait", "ended"}]
    BY <1>6 DEF AppsTypeOK, CopyEnds
  <2>2. staged' \in [Guests -> Stages]
    <3>1. staged \in [Guests -> Stages] /\ reached[r] \in Guests  BY DEF AppsTypeOK, Stages
    <3> DEFINE s == staged[reached[r]]
               f == [s EXCEPT !.content = s.content \cup {r}, !.open = s.open \ {r}]
    <3>2. f \in Stages
      <4>1. s \in Stages /\ s.content \cup {r} \in SUBSET AppRuns /\ s.open \ {r} \in SUBSET AppRuns
        BY <3>1 DEF Stages
      <4> QED  BY <3>1, <4>1, StagesKept
    <3>3. staged' = [staged EXCEPT ![reached[r]] = f]  BY <1>6, <3>1 DEF CopyEnds
    <3> HIDE DEF f
    <3> QED  BY <3>1, <3>2, <3>3
  <2> QED  BY <1>6, <2>1, <2>2 DEF AppsTypeOK, Stages, CopyEnds
<1>7. ASSUME NEW r \in AppRuns, CopyFails(r) PROVE AppsTypeOK'
  <2>1. at' \in [AppRuns -> {"idle", "dial", "create", "copying", "move", "utm", "launch",
     "wait", "ended"}]
    BY <1>7 DEF AppsTypeOK, CopyFails
  <2>2. staged' \in [Guests -> Stages]
    <3>1. staged \in [Guests -> Stages] /\ reached[r] \in Guests  BY DEF AppsTypeOK, Stages
    <3> DEFINE s == staged[reached[r]]
               f == IF address[reached[r]] # NoAddress /\ at[r] = "copying" THEN NoFile
                    ELSE [s EXCEPT !.open = s.open \ {r}]
    <3>2. f \in Stages
      <4>1. s \in Stages /\ s.open \ {r} \in SUBSET AppRuns  BY <3>1 DEF Stages
      <4>2. NoFile \in Stages  BY DEF Stages, NoFile
      <4> QED  BY <3>1, <4>1, <4>2, StagesKept
    <3>3. staged' = [staged EXCEPT ![reached[r]] = f]  BY <1>7, <3>1 DEF CopyFails
    <3> HIDE DEF f
    <3> QED  BY <3>1, <3>2, <3>3
  <2> QED  BY <1>7, <2>1, <2>2 DEF AppsTypeOK, Stages, CopyFails
<1>8. ASSUME NEW r \in AppRuns, Moves(r) PROVE AppsTypeOK'
  <2>1. at' \in [AppRuns -> {"idle", "dial", "create", "copying", "move", "utm", "launch",
     "wait", "ended"}]
    BY <1>8 DEF AppsTypeOK, Moves
  <2>2. staged' \in [Guests -> Stages]  BY <1>8 DEF AppsTypeOK, Moves, Stages, NoFile
  <2>3. program' \in [Guests -> SUBSET AppRuns]  BY <1>8 DEF AppsTypeOK, Moves
  <2> QED  BY <1>8, <2>1, <2>2, <2>3 DEF AppsTypeOK, Stages, Moves
<1>9. ASSUME NEW r \in AppRuns, MoveFails(r) PROVE AppsTypeOK'
  <2>1. at' \in [AppRuns -> {"idle", "dial", "create", "copying", "move", "utm", "launch",
     "wait", "ended"}]
    BY <1>9 DEF AppsTypeOK, MoveFails
  <2>2. staged' \in [Guests -> Stages]  BY <1>9 DEF AppsTypeOK, MoveFails, Stages, NoFile
  <2> QED  BY <1>9, <2>1, <2>2 DEF AppsTypeOK, Stages, MoveFails
<1>10. ASSUME NEW r \in AppRuns, PushesThroughUTM(r) PROVE AppsTypeOK'
  <2>1. at' \in [AppRuns -> {"idle", "dial", "create", "copying", "move", "utm", "launch",
     "wait", "ended"}]
    BY <1>10 DEF AppsTypeOK, PushesThroughUTM
  <2>2. program' \in [Guests -> SUBSET AppRuns]  BY <1>10 DEF AppsTypeOK, PushesThroughUTM
  <2> QED  BY <1>10, <2>1, <2>2 DEF AppsTypeOK, Stages, PushesThroughUTM
<1>11. ASSUME NEW r \in AppRuns, PushFails(r) PROVE AppsTypeOK'
  <2>1. at' \in [AppRuns -> {"idle", "dial", "create", "copying", "move", "utm", "launch",
     "wait", "ended"}]
    BY <1>11 DEF AppsTypeOK, PushFails, AppEnds
  <2>2. staged' \in [Guests -> Stages]
    <3>1. staged \in [Guests -> Stages]  BY DEF AppsTypeOK, Stages
    <3> QED  BY <1>11, <3>1, StagesKept DEF PushFails, AppEnds
  <2>3. program' \in [Guests -> SUBSET AppRuns]  BY <1>11 DEF AppsTypeOK, PushFails
  <2> QED  BY <1>11, <2>1, <2>2, <2>3 DEF AppsTypeOK, Stages, PushFails, AppEnds
<1>12. ASSUME NEW r \in AppRuns, Launches(r) PROVE AppsTypeOK'
  <2>1. at' \in [AppRuns -> {"idle", "dial", "create", "copying", "move", "utm", "launch",
     "wait", "ended"}]
    <3>1. at' \in {[at EXCEPT ![r] = "ended"], [at EXCEPT ![r] = "wait"]}
      BY <1>12 DEF Launches, AppEnds
    <3> QED  BY <3>1 DEF AppsTypeOK
  <2>2. running' \in [Guests -> SUBSET AppRuns]
    <3>1. CASE running' = [running EXCEPT ![on[r]] = @ \cup {r}]  BY <3>1 DEF AppsTypeOK
    <3>2. CASE UNCHANGED running  BY <3>2 DEF AppsTypeOK
    <3> QED  BY <1>12, <3>1, <3>2 DEF Launches
  <2>3. started' \in [AppRuns -> SUBSET AppRuns]  BY <1>12 DEF AppsTypeOK, Launches
  <2>4. staged' \in [Guests -> Stages]
    <3>1. staged \in [Guests -> Stages]  BY DEF AppsTypeOK, Stages
    <3>2. CASE staged' = [v \in Guests |-> [staged[v] EXCEPT !.open = @ \ {r}]]
      BY <3>1, <3>2, StagesKept
    <3>3. CASE staged' = staged  BY <3>1, <3>3
    <3> QED  BY <1>12, <3>2, <3>3 DEF Launches, AppEnds
  <2> QED  BY <1>12, <2>1, <2>2, <2>3, <2>4 DEF AppsTypeOK, Stages, Launches, AppEnds
<1>13. ASSUME NEW r \in AppRuns, ProgramEnds(r) PROVE AppsTypeOK'
  <2>1. running' \in [Guests -> SUBSET AppRuns]  BY <1>13 DEF AppsTypeOK, ProgramEnds
  <2>2. codes' \in [Guests -> SUBSET AppRuns]  BY <1>13 DEF AppsTypeOK, ProgramEnds
  <2> QED  BY <1>13, <2>1, <2>2 DEF AppsTypeOK, Stages, ProgramEnds
<1>14. ASSUME NEW r \in AppRuns, Collects(r) PROVE AppsTypeOK'
  <2>1. at' \in [AppRuns -> {"idle", "dial", "create", "copying", "move", "utm", "launch",
     "wait", "ended"}]
    BY <1>14 DEF AppsTypeOK, Collects, AppEnds
  <2>2. staged' \in [Guests -> Stages]
    <3>1. staged \in [Guests -> Stages]  BY DEF AppsTypeOK, Stages
    <3> QED  BY <1>14, <3>1, StagesKept DEF Collects, AppEnds
  <2>4. codes' \in [Guests -> SUBSET AppRuns]  BY <1>14 DEF AppsTypeOK, Collects
  <2> QED  BY <1>14, <2>1, <2>2, <2>4 DEF AppsTypeOK, Stages, Collects, AppEnds
<1>15. ASSUME NEW r \in AppRuns, GivesUp(r) PROVE AppsTypeOK'
  <2>1. at' \in [AppRuns -> {"idle", "dial", "create", "copying", "move", "utm", "launch",
     "wait", "ended"}]
    BY <1>15 DEF AppsTypeOK, GivesUp, AppEnds
  <2>2. staged' \in [Guests -> Stages]
    <3>1. staged \in [Guests -> Stages]  BY DEF AppsTypeOK, Stages
    <3> QED  BY <1>15, <3>1, StagesKept DEF GivesUp, AppEnds
  <2> QED  BY <1>15, <2>1, <2>2 DEF AppsTypeOK, Stages, GivesUp, AppEnds
<1>16. ASSUME NEW v \in Guests, AppDelete(v) PROVE AppsTypeOK'
  <2>1. codes' \in [Guests -> SUBSET AppRuns]  BY <1>16 DEF AppsTypeOK, AppDelete
  <2>2. program' \in [Guests -> SUBSET AppRuns]  BY <1>16 DEF AppsTypeOK, AppDelete
  <2> QED  BY <1>16, <2>1, <2>2 DEF AppsTypeOK, Stages, AppDelete
<1>17. ASSUME NEW v \in Guests, GuestComesUp(v) PROVE AppsTypeOK'
  <2>1. address' \in [Guests -> Addresses \cup {NoAddress}]  BY <1>17 DEF AppsTypeOK, GuestComesUp
  <2>2. boots' \in 0 .. MaxBoots  BY <1>17 DEF AppsTypeOK, GuestComesUp
  <2> QED  BY <1>17, <2>1, <2>2 DEF AppsTypeOK, Stages, GuestComesUp
<1>18. ASSUME NEW v \in Guests, GuestGoesDown(v) PROVE AppsTypeOK'
  <2>1. address' \in [Guests -> Addresses \cup {NoAddress}]
    BY <1>18 DEF AppsTypeOK, GuestGoesDown
  <2>2. session' \in [Guests -> BOOLEAN]  BY <1>18 DEF AppsTypeOK, GuestGoesDown
  <2>3. running' \in [Guests -> SUBSET AppRuns]  BY <1>18 DEF AppsTypeOK, GuestGoesDown
  <2>4. staged' \in [Guests -> Stages]
    <3>1. staged \in [Guests -> Stages]  BY DEF AppsTypeOK, Stages
    <3> DEFINE f == [staged[v] EXCEPT !.open = {}]
    <3>2. f \in Stages  BY <3>1, StagesKept
    <3>3. staged' = [staged EXCEPT ![v] = f]  BY <1>18 DEF GuestGoesDown
    <3> HIDE DEF f
    <3> QED  BY <3>1, <3>2, <3>3
  <2> QED  BY <1>18, <2>1, <2>2, <2>3, <2>4 DEF AppsTypeOK, Stages, GuestGoesDown
<1>19. ASSUME NEW v \in Guests, SessionOpens(v) PROVE AppsTypeOK'
  <2>1. session' \in [Guests -> BOOLEAN]  BY <1>19 DEF AppsTypeOK, SessionOpens
  <2> QED  BY <1>19, <2>1 DEF AppsTypeOK, Stages, SessionOpens
<1>20. CASE UNCHANGED appVars  BY <1>20 DEF appVars, AppsTypeOK
<1> QED  BY <1>1, <1>2, <1>3, <1>4, <1>5, <1>6, <1>7, <1>8, <1>9, <1>10, <1>11, <1>12, <1>13,
   <1>14, <1>15, <1>16, <1>17, <1>18, <1>19, <1>20 DEF AppsNext

\* A step of one run that only moves it on, to anywhere but its launch, or ends
\* it, changes nothing of what runs.
LEMMA RunMoves ==
  ASSUME AppInv, AppsTypeOK', NEW r \in AppRuns, Active(r), NEW s, s # "launch", Goes(r, s),
         UNCHANGED <<on, running, started>>,
         \A v \in Guests : v # on[r] => program'[v] = program[v]
  PROVE  AppInv'
<1>2. \A q \in AppRuns : at'[q] = IF q = r THEN s ELSE at[q]  BY DEF AppInv, AppsTypeOK
<1>3. OneRunPerGuest'  BY <1>2 DEF AppInv, OneRunPerGuest
<1>4. ReadyToLaunch'
  <2> SUFFICES ASSUME NEW q \in AppRuns, at'[q] = "launch" PROVE program'[on[q]] = {q}
    BY DEF ReadyToLaunch
  <2>1. q # r /\ at[q] = "launch"  BY <1>2
  <2>2. on[q] # on[r] /\ on[q] \in Guests  BY <2>1 DEF AppInv, AppsTypeOK, OneRunPerGuest
  <2> QED  BY <2>1, <2>2 DEF AppInv, ReadyToLaunch
<1>5. RunsWhatWasGiven'  BY DEF AppInv, RunsWhatWasGiven
<1> QED  BY <1>3, <1>4, <1>5 DEF AppInv

\* A run comes to its launch with its own program in place.
LEMMA RunIsReady ==
  ASSUME AppInv, AppsTypeOK', NEW r \in AppRuns, Active(r), Goes(r, "launch"),
         UNCHANGED <<on, running, started>>,
         program' = [program EXCEPT ![on[r]] = {r}]
  PROVE  AppInv'
<1>2. \A q \in AppRuns : at'[q] = IF q = r THEN "launch" ELSE at[q]  BY DEF AppInv, AppsTypeOK
<1>3. OneRunPerGuest'  BY <1>2 DEF AppInv, OneRunPerGuest
<1>4. ReadyToLaunch'
  <2> SUFFICES ASSUME NEW q \in AppRuns, at'[q] = "launch" PROVE program'[on[q]] = {q}
    BY DEF ReadyToLaunch
  <2>1. CASE q = r  BY <2>1 DEF AppInv, AppsTypeOK
  <2>2. CASE q # r
    <3>1. at[q] = "launch"  BY <1>2, <2>2
    <3>2. on[q] # on[r] /\ on[q] \in Guests  BY <2>2, <3>1 DEF AppInv, AppsTypeOK, OneRunPerGuest
    <3> QED  BY <3>1, <3>2 DEF AppInv, AppsTypeOK, ReadyToLaunch
  <2> QED  BY <2>1, <2>2
<1>5. RunsWhatWasGiven'  BY DEF AppInv, RunsWhatWasGiven
<1> QED  BY <1>3, <1>4, <1>5 DEF AppInv

LEMMA AppBeginsKeeps ==
  ASSUME AppInv, AppsTypeOK', NEW r \in AppRuns, NEW v \in Guests, AppBegins(r, v)
  PROVE  AppInv'
<1>1. /\ on' = [on EXCEPT ![r] = v] /\ \A q \in AppRuns : Active(q) => on[q] # v
      /\ at[r] = "idle" /\ UNCHANGED <<program, running, started>>
  BY DEF AppBegins
<1>2. PICK s \in {"ended", "dial"} : at' = [at EXCEPT ![r] = s]  BY DEF AppBegins
<1>4. \A q \in AppRuns : /\ at'[q] = IF q = r THEN s ELSE at[q]
                         /\ on'[q] = IF q = r THEN v ELSE on[q]
  BY <1>1, <1>2 DEF AppInv, AppsTypeOK
<1>5. OneRunPerGuest'  BY <1>1, <1>4 DEF AppInv, OneRunPerGuest
<1>6. ReadyToLaunch'  BY <1>1, <1>2, <1>4 DEF AppInv, ReadyToLaunch
<1>7. RunsWhatWasGiven'  BY <1>1 DEF AppInv, RunsWhatWasGiven
<1> QED  BY <1>5, <1>6, <1>7 DEF AppInv

\* Nothing is moved into place over a program that another run is to launch, and
\* what was moved is hashed before the run's own is.
LEMMA MovesKeeps ==
  ASSUME AppInv, AppsTypeOK', NEW r \in AppRuns, Moves(r)
  PROVE  AppInv'
<1>1. /\ Active(r) /\ program' = [program EXCEPT ![on[r]] = staged[on[r]].content]
      /\ UNCHANGED <<on, running, started>>
      /\ Goes(r, IF program'[on[r]] = {r} THEN "launch" ELSE "utm")
  BY DEF Moves
<1>2. program \in [Guests -> SUBSET AppRuns] /\ on[r] \in Guests  BY DEF AppInv, AppsTypeOK
<1>3. /\ program'[on[r]] = staged[on[r]].content
      /\ \A v \in Guests : v # on[r] => program'[v] = program[v]
  BY <1>1, <1>2
<1>4. CASE program'[on[r]] = {r}
  <2>1. program' = [program EXCEPT ![on[r]] = {r}]  BY <1>1, <1>3, <1>4
  <2> QED  BY <1>1, <1>4, <2>1, RunIsReady
<1>5. CASE program'[on[r]] # {r}
  <2>1. Goes(r, "utm")  BY <1>1, <1>5
  <2> QED  BY <1>1, <1>3, <2>1, RunMoves
<1> QED  BY <1>4, <1>5

\* What is started is what is in place.
LEMMA LaunchesKeeps ==
  ASSUME AppInv, AppsTypeOK', NEW r \in AppRuns, Launches(r)
  PROVE  AppInv'
<1>1. at[r] = "launch" /\ program[on[r]] = {r} /\ UNCHANGED <<on, program>>
  BY DEF Launches, AppInv, ReadyToLaunch
<1>2. PICK s \in {"ended", "wait"} : at' = [at EXCEPT ![r] = s]  BY DEF Launches
<1>3. \A q \in AppRuns : at'[q] = IF q = r THEN s ELSE at[q]  BY <1>2 DEF AppInv, AppsTypeOK
<1>4. OneRunPerGuest'  BY <1>1, <1>2, <1>3 DEF AppInv, OneRunPerGuest
<1>5. ReadyToLaunch'  BY <1>1, <1>2, <1>3 DEF AppInv, ReadyToLaunch
<1>6. RunsWhatWasGiven'
  <2>1. CASE /\ running' = [running EXCEPT ![on[r]] = @ \cup {r}]
             /\ started' = [started EXCEPT ![r] = program[on[r]]]
    <3> SUFFICES ASSUME NEW q \in AppRuns, NEW v \in Guests, q \in running'[v]
                 PROVE  started'[q] = {q}
      BY DEF RunsWhatWasGiven
    <3>1. CASE q = r  BY <1>1, <2>1, <3>1 DEF AppInv, AppsTypeOK
    <3>2. CASE q # r  BY <2>1, <3>2 DEF AppInv, AppsTypeOK, RunsWhatWasGiven
    <3> QED  BY <3>1, <3>2
  <2>2. CASE UNCHANGED <<running, started>>  BY <2>2 DEF AppInv, RunsWhatWasGiven
  <2> QED  BY <2>1, <2>2 DEF Launches
<1> QED  BY <1>4, <1>5, <1>6 DEF AppInv

LEMMA CollectsKeeps ==
  ASSUME AppInv, AppsTypeOK', NEW r \in AppRuns, Collects(r)
  PROVE  AppInv'
<1>1. /\ at[r] = "wait" /\ at' = [at EXCEPT ![r] = "ended"]
      /\ UNCHANGED <<on, program, running, started>>
  BY DEF Collects
<1>3. \A q \in AppRuns : at'[q] = IF q = r THEN "ended" ELSE at[q]
  BY <1>1 DEF AppInv, AppsTypeOK
<1>4. OneRunPerGuest'  BY <1>1, <1>3 DEF AppInv, OneRunPerGuest
<1>5. ReadyToLaunch'  BY <1>1, <1>3 DEF AppInv, ReadyToLaunch
<1>6. RunsWhatWasGiven'  BY <1>1 DEF AppInv, RunsWhatWasGiven
<1> QED  BY <1>4, <1>5, <1>6 DEF AppInv

\* Programs that end, guests that go down, and app-delete, which waits its turn.
LEMMA GuestsKeep ==
  ASSUME AppInv, AppsTypeOK', UNCHANGED <<at, on, started>>,
         \A v \in Guests : running'[v] \subseteq running[v],
         \A v \in Guests : program'[v] = program[v] \/ \A r \in AppRuns : Active(r) => on[r] # v
  PROVE  AppInv'
<1>1. OneRunPerGuest'  BY DEF AppInv, OneRunPerGuest
<1>2. ReadyToLaunch'
  <2> SUFFICES ASSUME NEW r \in AppRuns, at[r] = "launch" PROVE program'[on[r]] = {r}
    BY DEF ReadyToLaunch
  <2>1. Active(r) /\ on[r] \in Guests /\ program[on[r]] = {r}
    BY DEF AppInv, AppsTypeOK, ReadyToLaunch
  <2> QED  BY <2>1
<1>3. RunsWhatWasGiven'  BY DEF AppInv, RunsWhatWasGiven
<1> QED  BY <1>1, <1>2, <1>3 DEF AppInv

LEMMA AppStep == AppInv /\ [AppsNext]_appVars => AppInv'
<1> SUFFICES ASSUME AppInv, [AppsNext]_appVars PROVE AppInv'  OBVIOUS
<1>1. AppsTypeOK /\ AppsTypeOK'  BY AppsTypesKept DEF AppInv
<1>2. ASSUME NEW r \in AppRuns, NEW v \in Guests, AppBegins(r, v) PROVE AppInv'
  BY <1>1, <1>2, AppBeginsKeeps
<1>3. ASSUME NEW r \in AppRuns, DialsCached(r) \/ DialsAsked(r) PROVE AppInv'
  <2>1. Active(r) /\ Goes(r, "create") /\ UNCHANGED <<on, program, running, started>>
    BY <1>3 DEF DialsCached, DialsAsked
  <2> QED  BY <1>1, <2>1, RunMoves
<1>4. ASSUME NEW r \in AppRuns, DialFails(r) \/ CopyFails(r) \/ MoveFails(r) PROVE AppInv'
  <2>1. Active(r) /\ Goes(r, "utm") /\ UNCHANGED <<on, program, running, started>>
    BY <1>4 DEF DialFails, CopyFails, MoveFails
  <2> QED  BY <1>1, <2>1, RunMoves
<1>5. ASSUME NEW r \in AppRuns, CopyBegins(r) PROVE AppInv'
  <2>1. Active(r) /\ Goes(r, "copying") /\ UNCHANGED <<on, program, running, started>>
    BY <1>5 DEF CopyBegins
  <2> QED  BY <1>1, <2>1, RunMoves
<1>6. ASSUME NEW r \in AppRuns, CopyEnds(r) PROVE AppInv'
  <2>1. Active(r) /\ Goes(r, "move") /\ UNCHANGED <<on, program, running, started>>
    BY <1>6 DEF CopyEnds
  <2> QED  BY <1>1, <2>1, RunMoves
<1>7. ASSUME NEW r \in AppRuns, Moves(r) PROVE AppInv'  BY <1>1, <1>7, MovesKeeps
<1>8. ASSUME NEW r \in AppRuns, PushesThroughUTM(r) PROVE AppInv'
  BY <1>1, <1>8, RunIsReady DEF PushesThroughUTM
<1>9. ASSUME NEW r \in AppRuns, PushFails(r) PROVE AppInv'
  <2>1. Active(r) /\ Goes(r, "ended") /\ UNCHANGED <<on, running, started>>
    BY <1>9 DEF PushFails
  <2>2. \A v \in Guests : v # on[r] => program'[v] = program[v]
    BY <1>1, <1>9 DEF PushFails, AppsTypeOK
  <2> QED  BY <1>1, <2>1, <2>2, RunMoves
<1>10. ASSUME NEW r \in AppRuns, Launches(r) PROVE AppInv'  BY <1>1, <1>10, LaunchesKeeps
<1>11. ASSUME NEW r \in AppRuns, ProgramEnds(r) PROVE AppInv'
  <2>1. \A v \in Guests : running'[v] \subseteq running[v]
    BY <1>1, <1>11 DEF ProgramEnds, AppsTypeOK
  <2> QED  BY <1>1, <1>11, <2>1, GuestsKeep DEF ProgramEnds
<1>12. ASSUME NEW r \in AppRuns, Collects(r) PROVE AppInv'  BY <1>1, <1>12, CollectsKeeps
<1>13. ASSUME NEW r \in AppRuns, GivesUp(r) PROVE AppInv'
  BY <1>1, <1>13, RunMoves DEF GivesUp
<1>14. ASSUME NEW v \in Guests, AppDelete(v) PROVE AppInv'
  <2>1. \A w \in Guests : program'[w] = program[w] \/ \A r \in AppRuns : Active(r) => on[r] # w
    BY <1>1, <1>14 DEF AppDelete, AppsTypeOK
  <2> QED  BY <1>1, <1>14, <2>1, GuestsKeep DEF AppDelete
<1>15. ASSUME NEW v \in Guests, GuestComesUp(v) \/ SessionOpens(v) PROVE AppInv'
  BY <1>1, <1>15, GuestsKeep DEF GuestComesUp, SessionOpens
<1>16. ASSUME NEW v \in Guests, GuestGoesDown(v) PROVE AppInv'
  <2>1. \A w \in Guests : running'[w] \subseteq running[w]
    BY <1>1, <1>16 DEF GuestGoesDown, AppsTypeOK
  <2> QED  BY <1>1, <1>16, <2>1, GuestsKeep DEF GuestGoesDown
<1>17. CASE UNCHANGED appVars  BY <1>1, <1>17, GuestsKeep DEF appVars
<1> QED  BY <1>2, <1>3, <1>4, <1>5, <1>6, <1>7, <1>8, <1>9, <1>10, <1>11, <1>12, <1>13, <1>14,
            <1>15, <1>16, <1>17 DEF AppsNext

LEMMA AppInitInv == AppsInit => AppInv
<1> SUFFICES ASSUME AppsInit PROVE AppInv  OBVIOUS
<1>1. AppsTypeOK
  <2>1. NoFile \in [content : SUBSET AppRuns, open : SUBSET AppRuns, there : BOOLEAN]
    BY DEF NoFile
  <2> QED  BY <2>1, AppsAssumption DEF AppsInit, AppsTypeOK
<1>2. OneRunPerGuest /\ ReadyToLaunch /\ RunsWhatWasGiven
  BY DEF AppsInit, OneRunPerGuest, ReadyToLaunch, RunsWhatWasGiven
<1> QED  BY <1>1, <1>2 DEF AppInv

LEMMA AppInvHolds == AppsSpec => []AppInv
<1> QED  BY AppInitInv, AppStep, PTL DEF AppsSpec

\* A program's run, the guests and what is remembered of them keep their types.
THEOREM AppTypesHold == AppsSpec => []AppsTypeOK
<1>1. AppInv => AppsTypeOK  BY DEF AppInv
<1> QED  BY AppInvHolds, <1>1, PTL

\* What runs as a run's program is that run's build, through stale addresses,
\* torn copies, and programs and files that earlier runs left.
THEOREM RunsItsOwn == AppsSpec => []RunsWhatWasGiven
<1>1. AppInv => RunsWhatWasGiven  BY DEF AppInv
<1> QED  BY AppInvHolds, <1>1, PTL

-----------------------------------------------------------------------------
(* Staged binaries.                                                        *)

\* The steps of the uploads and removals keep what is staged whole.
LEMMA StagedKept == StagedWhole /\ [StagingNext]_stagingVars => StagedWhole'
<1> SUFFICES ASSUME StagedWhole, [StagingNext]_stagingVars PROVE StagedWhole'  OBVIOUS
<1> USE DEF StagedWhole
<1>1. ASSUME NEW b, Kept(b) PROVE StagedWhole'  BY <1>1 DEF Kept
<1>2. ASSUME NEW b, Committed(b) PROVE StagedWhole'  BY <1>2 DEF Committed
<1>3. ASSUME NEW k \in 0 .. (Chunks - 1), NEW good \in BOOLEAN, Uploads(k, good)
      PROVE  StagedWhole'
  BY <1>1, <1>2, <1>3 DEF Uploads
<1>4. ASSUME NEW k \in 0 .. (Chunks - 1), NEW good \in BOOLEAN, UploadDies(k, good)
      PROVE  StagedWhole'
  BY <1>1, <1>4 DEF UploadDies
<1>5. CASE Clears  BY <1>5 DEF Clears
<1>6. CASE PrunePlans  BY <1>6 DEF PrunePlans
<1>7. CASE PruneRemoves  BY <1>7 DEF PruneRemoves
<1>8. CASE DayPasses  BY <1>8 DEF DayPasses
<1>9. CASE UNCHANGED stagingVars  BY <1>9 DEF stagingVars
<1> QED  BY <1>3, <1>4, <1>5, <1>6, <1>7, <1>8, <1>9 DEF StagingNext

\* What app-create is given under a digest is the binary of that digest, for any
\* size of the binary and of its chunks.
THEOREM StagedIsWhole == StagingSpec => []StagedWhole
<1>1. StagingInit => StagedWhole  BY DEF StagingInit, StagedWhole
<1> QED  BY <1>1, StagedKept, PTL DEF StagingSpec

-----------------------------------------------------------------------------
(* Detached jobs.                                                          *)

\* A set of naturals that has a member has a least one.
LEMMA LeastOf ==
  ASSUME NEW T \in SUBSET Nat, T # {}
  PROVE  \E x \in T : \A y \in T : x <= y
<1>1. PICK x \in T : \A y \in T : ~(<<y, x>> \in OpToRel(<, Nat))
  BY Zenon, NatLessThanWellFounded, WFMin
<1>2. \A y \in T : ~(y < x)  BY <1>1 DEF OpToRel
<1> QED  BY <1>2

\* There are more ids of a second than children, and each record has a child of
\* its own, so one of them is free.
LEMMA OneIsFree ==
  ASSUME DetachedTypes, RecordsApart
  PROVE  \E n \in 1 .. (MaxChildren + 1) : records[<<second, n>>] = NoJob
<1> USE DetachedAssumption
<1> SUFFICES ASSUME \A n \in 1 .. (MaxChildren + 1) : records[<<second, n>>] # NoJob
             PROVE  FALSE
  OBVIOUS
<1> DEFINE S == 1 .. (MaxChildren + 1)
           f == [n \in S |-> records[<<second, n>>].pid]
<1>1. \A n \in S : <<second, n>> \in Recorded  BY DEF Recorded, Ids, DetachedTypes
<1>2. f \in [S -> Pids]  BY <1>1 DEF RecordsApart
<1>3. /\ IsFiniteSet(S) /\ IsFiniteSet(Pids)
      /\ Cardinality(Pids) < Cardinality(S)
  <2>1. IsFiniteSet(1 .. MaxChildren) /\ Cardinality(1 .. MaxChildren) = MaxChildren
    <3>1. CASE MaxChildren = 0
      <4>1. 1 .. MaxChildren = {}  BY <3>1
      <4> QED  BY <3>1, <4>1, FS_EmptySet
    <3>2. CASE MaxChildren > 0  BY <3>2, FS_Interval
    <3> QED  BY <3>1, <3>2
  <2>2. IsFiniteSet(S) /\ Cardinality(S) = MaxChildren + 1
    BY FS_Interval
  <2> QED  BY <2>1, <2>2 DEF Pids
<1>4. PICK m \in S, n \in S : m # n /\ f[m] = f[n]
  <2> HIDE DEF f, S
  <2> QED  BY <1>2, <1>3, FS_PigeonHole
<1>5. <<second, m>> = <<second, n>>  BY <1>1, <1>4 DEF RecordsApart
<1> QED  BY <1>4, <1>5

\* The id a call finds is one no record has.
LEMMA UniqueIDFree ==
  ASSUME DetachedTypes, RecordsApart
  PROVE  UniqueID(Recorded) \in Ids /\ records[UniqueID(Recorded)] = NoJob
<1> DEFINE T == {n \in 1 .. (MaxChildren + 1) : <<second, n>> \notin Recorded}
<1>1. T \in SUBSET Nat /\ T # {}
  <2>1. PICK n \in 1 .. (MaxChildren + 1) : records[<<second, n>>] = NoJob  BY OneIsFree
  <2>2. <<second, n>> \notin Recorded  BY <2>1 DEF Recorded
  <2>3. n \in T  BY <2>2
  <2>4. T \in SUBSET Nat  BY DetachedAssumption
  <2> HIDE DEF T
  <2> QED  BY <2>3, <2>4
<1>2. PICK x \in T : \A y \in T : x <= y
  <2> HIDE DEF T
  <2> QED  BY <1>1, LeastOf
<1>3. <<second, x>> \in Ids  BY <1>2 DEF Ids, DetachedTypes
<1>4. \A j \in Ids : j[1] = second /\ j \notin Recorded => x <= j[2]
  <2> SUFFICES ASSUME NEW j \in Ids, j[1] = second, j \notin Recorded PROVE x <= j[2]
    OBVIOUS
  <2>1. j = <<second, j[2]>> /\ j[2] \in 1 .. (MaxChildren + 1)  BY DEF Ids
  <2> QED  BY <1>2, <2>1
<1>5. /\ <<second, x>>[1] = second /\ <<second, x>> \notin Recorded
      /\ \A j \in Ids : j[1] = second /\ j \notin Recorded => <<second, x>>[2] <= j[2]
  BY <1>2, <1>4
<1>6. UniqueID(Recorded) \in Ids /\ UniqueID(Recorded) \notin Recorded
  BY <1>3, <1>5 DEF UniqueID
<1> QED  BY <1>6 DEF Recorded

-----------------------------------------------------------------------------
\* A call goes on: what its record becomes.
LEMMA CallBecomes ==
  ASSUME DetachedTypes, NEW c \in Askers, NEW x \in CallRecords,
         asker' = [asker EXCEPT ![c] = x]
  PROVE  /\ asker' \in [Askers -> CallRecords] /\ asker'[c] = x
         /\ \A d \in Askers \ {c} : asker'[d] = asker[d]
BY DEF DetachedTypes

LEMMA CalmIsCall == Calm \in CallRecords /\ Calm.pc = "idle" /\ Calm.old = {}
BY DetachedAssumption DEF Calm, CallRecords, Ids

\* A call that draws no id, gets no child and has nothing to remove disturbs no
\* other, while records and the ids that clashed stay.
LEMMA CallLeaves ==
  ASSUME DetachedInv, NEW c \in Askers, UNCHANGED <<children, records, second, clashed>>,
         asker' \in [Askers -> CallRecords],
         \A d \in Askers \ {c} : asker'[d] = asker[d],
         asker'[c].pc \in {"idle", "find", "name"}, asker'[c].old = {},
         \A a \in answered' : a \in answered \/ \E i \in Recorded : a = <<i, records[i].pid>>
  PROVE  DetachedInv'
<1>1. answered' \subseteq Ids \X Pids
  <2> SUFFICES ASSUME NEW a \in answered' PROVE a \in Ids \X Pids
    OBVIOUS
  <2> QED BY DEF DetachedInv, DetachedTypes, RecordsApart, Recorded
<1>2. DetachedTypes'
  BY <1>1 DEF DetachedInv, DetachedTypes
<1>3. CallsApart' /\ RecordsApart'
  BY DEF DetachedInv, CallsApart, RecordsApart, Recorded, HasChild, Born
<1>4. IdsClash'
  BY DEF DetachedInv, IdsClash, Drawn, Runs
<1>5. AnswersBorn' /\ RunningAnswerable'
  BY DEF DetachedInv, AnswersBorn, RunningAnswerable, RecordsApart, Born, Runs
<1> QED BY <1>2, <1>3, <1>4, <1>5 DEF DetachedInv

\* The lemma's calls: one that asks, one that finds its job running or does not,
\* and one that ends in an error.
LEMMA EarlyKeeps ==
  ASSUME DetachedInv, NEW c \in Askers,
         (\E r \in Requests : Asks(c, r)) \/ FindsRunning(c) \/ StartErrs(c)
  PROVE  DetachedInv'
<1>1. DetachedTypes /\ asker[c] \in CallRecords
  BY DEF DetachedInv, DetachedTypes
<1>2. UNCHANGED <<children, records, second, clashed>>
  BY DEF Asks, FindsRunning, StartErrs
<1>3. CASE \E r \in Requests : Asks(c, r)
  <2>1. PICK r \in Requests : Asks(c, r)
    BY <1>3
  <2> DEFINE x == [Calm EXCEPT !.pc = "find", !.req = r]
  <2>2. x \in CallRecords /\ x.pc = "find" /\ x.old = {}
    BY CalmIsCall DEF CallRecords
  <2>3. asker' = [asker EXCEPT ![c] = x] /\ answered' = answered
    BY <2>1 DEF Asks
  <2> HIDE DEF x
  <2> QED BY <1>1, <1>2, <2>2, <2>3, CallBecomes, CallLeaves
<1>4. CASE FindsRunning(c)
  <2>1. CASE Proceeds(c, "find", "name") /\ UNCHANGED answered
    <3> DEFINE x == [asker[c] EXCEPT !.pc = "name"]
    <3>1. x \in CallRecords /\ x.pc = "name" /\ x.old = asker[c].old
      BY <1>1 DEF CallRecords
    <3>2. asker' = [asker EXCEPT ![c] = x] /\ asker[c].pc = "find"
      BY <2>1 DEF Proceeds
    <3>3. asker[c].old = {}
      BY <3>2 DEF DetachedInv, IdsClash, Drawn
    <3> HIDE DEF x
    <3> QED BY <1>1, <1>2, <2>1, <3>1, <3>2, <3>3, CallBecomes, CallLeaves
  <2>2. CASE \E i \in Recorded : Answers(c, i)
    <3>1. PICK i \in Recorded : Answers(c, i)
      BY <2>2
    <3>2. /\ asker' = [asker EXCEPT ![c] = Calm]
          /\ answered' = answered \union {<<i, records[i].pid>>}
      BY <1>2, <3>1 DEF Answers
    <3> QED BY <1>1, <1>2, <3>2, CalmIsCall, CallBecomes, CallLeaves
  <2> QED BY <1>4, <2>1, <2>2 DEF FindsRunning
<1>5. CASE StartErrs(c)
  <2>1. asker' = [asker EXCEPT ![c] = Calm] /\ answered' = answered
    BY <1>5 DEF StartErrs
  <2> QED BY <1>1, <1>2, <2>1, CalmIsCall, CallBecomes, CallLeaves
<1> QED BY <1>3, <1>4, <1>5

\* The id found has no record; if another call has drawn it, or is to remove its
\* record, it clashes from now on.
LEMMA NamesKeeps ==
  ASSUME DetachedInv, NEW c \in Askers, Names(c)
  PROVE  DetachedInv'
<1> DEFINE id == UniqueID(Recorded)
           half == [asker[c] EXCEPT !.pc = "spawn"]
           x == [half EXCEPT !.id = id]
<1>1. /\ id \in Ids /\ records[id] = NoJob /\ asker[c] \in CallRecords /\ asker[c].pc = "name"
      /\ UNCHANGED <<children, records, second, answered>>
  BY UniqueIDFree DEF DetachedInv, DetachedTypes, Names
<1>2. /\ clashed \subseteq clashed' /\ clashed' \subseteq clashed \union {id}
      /\ \A d \in Askers \ {c} : Drawn(d) /\ (asker[d].id = id \/ id \in asker[d].old) => id \in clashed'
  BY DEF Names
<1>3. asker' = [asker EXCEPT ![c] = x]
  BY <1>1 DEF Names, CallRecords
<1> HIDE DEF id
<1>4. half \in CallRecords /\ half.pc = "spawn" /\ half.old = asker[c].old
  BY <1>1 DEF CallRecords
<1> HIDE DEF half
<1>5. x \in CallRecords /\ x.pc = "spawn" /\ x.old = asker[c].old /\ x.id = id
  BY <1>1, <1>4 DEF CallRecords
<1> HIDE DEF x
<1>6. /\ asker' \in [Askers -> CallRecords] /\ asker'[c] = x
      /\ \A d \in Askers \ {c} : asker'[d] = asker[d]
  BY <1>3, <1>5, CallBecomes DEF DetachedInv
<1>7. x.old = {}
  BY <1>1, <1>5 DEF DetachedInv, IdsClash, Drawn
<1>8. DetachedTypes'
  BY <1>1, <1>2, <1>6 DEF DetachedInv, DetachedTypes
<1>9. CallsApart' /\ RecordsApart'
  BY <1>1, <1>5, <1>6 DEF DetachedInv, CallsApart, RecordsApart, Recorded, HasChild, Born
<1>10. IdsClash'
  BY <1>1, <1>2, <1>5, <1>6, <1>7 DEF DetachedInv, IdsClash, Drawn, Runs
<1>11. AnswersBorn' /\ RunningAnswerable'
  BY <1>1, <1>2 DEF DetachedInv, AnswersBorn, RunningAnswerable, Born, Runs
<1> QED BY <1>8, <1>9, <1>10, <1>11 DEF DetachedInv

\* A child is new: nothing is recorded of it and nobody was told of it.
LEMMA SpawnsKeeps ==
  ASSUME DetachedInv, NEW c \in Askers, Spawns(c)
  PROVE  DetachedInv'
<1> DEFINE half == [asker[c] EXCEPT !.pc = "look"]
           child == [req |-> asker[c].req, at |-> "begun", ours |-> TRUE]
<1>1. PICK p \in Pids :
        /\ children[p] = NoChild
        /\ children' = [children EXCEPT ![p] = child]
        /\ asker' = [asker EXCEPT ![c].pc = "look", ![c].pid = p]
  BY DEF Spawns
<1> DEFINE x == [half EXCEPT !.pid = p]
<1>2. /\ asker[c].pc = "spawn" /\ UNCHANGED <<records, second, answered, clashed>>
      /\ asker[c] \in CallRecords /\ DetachedTypes
  BY DEF Spawns, DetachedInv, DetachedTypes
<1>3. asker' = [asker EXCEPT ![c] = x]
  BY <1>1, <1>2 DEF CallRecords
<1>4. half \in CallRecords /\ half.pc = "look" /\ half.old = asker[c].old /\ half.id = asker[c].id
  BY <1>2 DEF CallRecords
<1> HIDE DEF half
<1>5. /\ x \in CallRecords /\ x.pc = "look" /\ x.old = asker[c].old /\ x.id = asker[c].id
      /\ x.pid = p
  BY <1>4, DetachedAssumption DEF CallRecords, Pids
<1> HIDE DEF x
<1>6. /\ asker' \in [Askers -> CallRecords] /\ asker'[c] = x
      /\ \A d \in Askers \ {c} : asker'[d] = asker[d]
  BY <1>2, <1>3, <1>5, CallBecomes
<1>7. child \in ChildRecords /\ child.at = "begun"
  BY <1>2 DEF ChildRecords, CallRecords
<1> HIDE DEF child
<1>8. /\ children' \in [Pids -> ChildRecords] /\ ~Born(p)
      /\ \A q \in Pids : children'[q] = IF q = p THEN child ELSE children[q]
  BY <1>1, <1>2, <1>7 DEF DetachedTypes, Born, NoChild
<1>9. DetachedTypes'
  BY <1>2, <1>6, <1>8 DEF DetachedTypes
<1>10. \A q \in Pids : /\ Born(q) => q # p /\ Born(q)' /\ (Runs(q)' <=> Runs(q))
                       /\ Born(p)'
  BY <1>7, <1>8 DEF Born, Runs
<1>11. \A i \in Ids : records[i].pid # p
  <2> SUFFICES ASSUME NEW i \in Ids, records[i].pid = p PROVE FALSE
    OBVIOUS
  <2>1. i \in Recorded
    BY DetachedAssumption DEF Recorded, NoJob, Pids
  <2> QED BY <1>8, <2>1 DEF RecordsApart, DetachedInv
<1>12. CallsApart'
  <2>1. \A d \in Askers \ {c} : HasChild(d)' => HasChild(d) /\ asker[d].pid # p
    BY <1>6, <1>8 DEF DetachedInv, CallsApart, HasChild
  <2> QED BY <1>1, <1>2, <1>5, <1>6, <1>10, <1>11, <2>1 DEF DetachedInv, CallsApart, HasChild
<1>13. RecordsApart' /\ AnswersBorn'
  BY <1>2, <1>10 DEF RecordsApart, Recorded, AnswersBorn, DetachedInv, DetachedTypes
<1>14. IdsClash'
  <2>1. \A d \in Askers : /\ asker'[d].id = asker[d].id /\ asker'[d].old = asker[d].old
                          /\ Drawn(d)' <=> Drawn(d)
    BY <1>2, <1>5, <1>6 DEF Drawn
  <2>2. \A i \in Ids : records[i] # NoJob => (Runs(records[i].pid)' <=> Runs(records[i].pid))
    BY <1>2, <1>10 DEF DetachedInv, RecordsApart, Recorded
  <2>3. \A d \in Askers : asker[d].old \subseteq Ids
    BY <1>2 DEF DetachedTypes, CallRecords
  <2> QED BY <1>2, <2>1, <2>2, <2>3 DEF DetachedInv, IdsClash
<1>15. RunningAnswerable'
  BY <1>2, <1>10 DEF RunningAnswerable, DetachedInv, DetachedTypes, AnswersBorn
<1> QED BY <1>9, <1>12, <1>13, <1>14, <1>15 DEF DetachedInv

\* What a call is to remove, as it looks, is of jobs that do not run.
LEMMA PruneLooksKeeps ==
  ASSUME DetachedInv, NEW c \in Askers, PruneLooks(c)
  PROVE  DetachedInv'
<1> DEFINE half == [asker[c] EXCEPT !.pc = "prune"]
           x == [half EXCEPT !.old = Pruned]
<1>1. /\ asker[c].pc = "look" /\ UNCHANGED <<children, records, second, answered, clashed>>
      /\ asker[c] \in CallRecords /\ DetachedTypes
  BY DEF PruneLooks, DetachedInv, DetachedTypes
<1>2. asker' = [asker EXCEPT ![c] = x]
  BY <1>1 DEF PruneLooks, CallRecords
<1>3. Pruned \in SUBSET Ids /\ \A i \in Pruned : i \in Recorded /\ ~Alive(i)
  BY DEF Pruned, Recorded
<1>4. half \in CallRecords /\ half.pc = "prune" /\ half.id = asker[c].id /\ half.pid = asker[c].pid
  BY <1>1 DEF CallRecords
<1> HIDE DEF half
<1>5. /\ x \in CallRecords /\ x.pc = "prune" /\ x.id = asker[c].id /\ x.pid = asker[c].pid
      /\ x.old = Pruned
  BY <1>3, <1>4 DEF CallRecords
<1> HIDE DEF x
<1>6. /\ asker' \in [Askers -> CallRecords] /\ asker'[c] = x
      /\ \A d \in Askers \ {c} : asker'[d] = asker[d]
  BY <1>1, <1>2, <1>5, CallBecomes
<1>7. DetachedTypes' /\ RecordsApart' /\ AnswersBorn' /\ RunningAnswerable'
  BY <1>1, <1>6 DEF DetachedTypes, RecordsApart, Recorded, AnswersBorn, RunningAnswerable,
                    DetachedInv, Born, Runs
<1>8. CallsApart'
  BY <1>1, <1>5, <1>6 DEF DetachedInv, CallsApart, HasChild, Born
<1>9. IdsClash'
  <2>1. \A d \in Askers : /\ asker'[d].id = asker[d].id /\ (Drawn(d)' <=> Drawn(d))
                          /\ d # c => asker'[d].old = asker[d].old
    BY <1>1, <1>5, <1>6 DEF Drawn
  <2>2. \A i \in Pruned : records[i] # NoJob /\ ~Runs(records[i].pid)
    BY <1>3 DEF Recorded, Alive, Runs
  <2>3. Drawn(c) /\ asker'[c].old = Pruned
    BY <1>1, <1>5, <1>6 DEF Drawn
  <2>4. \A p \in Pids : Runs(p)' <=> Runs(p)
    BY <1>1 DEF Runs
  <2>5. \A i \in Recorded : Runs(records[i].pid)' <=> Runs(records[i].pid)
    BY <1>1 DEF Runs
  <2>6. \A d \in Askers, i \in Ids : i \in asker'[d].old =>
          records[i] = NoJob \/ ~Runs(records[i].pid)' \/ i \in clashed
    <3> SUFFICES ASSUME NEW d \in Askers, NEW i \in Ids, i \in asker'[d].old, i \in Recorded
                 PROVE  ~Runs(records[i].pid)' \/ i \in clashed
      BY DEF Recorded
    <3>1. d = c => i \in Pruned
      BY <2>3
    <3>2. d # c => i \in asker[d].old
      BY <2>1
    <3>3. CASE d = c
      BY <2>2, <2>5, <3>1, <3>3
    <3>4. CASE d # c
      <4>1. records[i] # NoJob
        BY DEF Recorded
      <4>2. ~Runs(records[i].pid) \/ i \in clashed
        BY <3>2, <3>4, <4>1 DEF DetachedInv, IdsClash
      <4> QED BY <2>5, <4>2
    <3> QED BY <3>3, <3>4
  <2>7. \A d, e \in Askers : Drawn(d) /\ asker[d].id \in asker'[e].old => asker[d].id \in clashed
    BY <2>1, <2>2, <2>3 DEF DetachedInv, IdsClash
  <2>8. \A d \in Askers : asker'[d].old \subseteq Ids
    BY <1>6 DEF CallRecords
  <2>9. /\ \A d, e \in Askers : Drawn(d)' /\ Drawn(e)' /\ asker'[d].id = asker'[e].id =>
               d = e \/ asker'[d].id \in clashed
        /\ \A d \in Askers : Drawn(d)' => records[asker'[d].id] = NoJob \/ asker'[d].id \in clashed
        /\ \A d \in Askers : asker'[d].old # {} => Drawn(d)'
    BY <2>1, <2>3 DEF DetachedInv, IdsClash
  <2>10. \A d \in Askers : \A i \in asker'[d].old :
           records[i] = NoJob \/ ~Runs(records[i].pid)' \/ i \in clashed
    BY <2>6, <2>8
  <2>11. \A d, e \in Askers : Drawn(d)' /\ asker'[d].id \in asker'[e].old => asker'[d].id \in clashed
    BY <2>1, <2>7
  <2> QED BY <1>1, <2>9, <2>10, <2>11 DEF IdsClash
<1> QED BY <1>7, <1>8, <1>9 DEF DetachedInv

\* A record that goes is of a job that does not run, or its id has clashed.
LEMMA PrunesKeeps ==
  ASSUME DetachedInv, NEW c \in Askers, Prunes(c)
  PROVE  DetachedInv'
<1> USE DetachedAssumption
<1> DEFINE half == [asker[c] EXCEPT !.pc = "write"]
           x == [half EXCEPT !.old = {}]
<1>1. /\ asker[c].pc = "prune" /\ UNCHANGED <<children, second, answered, clashed>>
      /\ asker[c] \in CallRecords /\ DetachedTypes
  BY DEF Prunes, DetachedInv, DetachedTypes
<1>2. asker' = [asker EXCEPT ![c] = x]
  BY <1>1 DEF Prunes, CallRecords
<1>3. half \in CallRecords /\ half.pc = "write" /\ half.id = asker[c].id /\ half.pid = asker[c].pid
  BY <1>1 DEF CallRecords
<1> HIDE DEF half
<1>4. /\ x \in CallRecords /\ x.pc = "write" /\ x.id = asker[c].id /\ x.pid = asker[c].pid
      /\ x.old = {}
  BY <1>3 DEF CallRecords
<1> HIDE DEF x
<1>5. /\ asker' \in [Askers -> CallRecords] /\ asker'[c] = x
      /\ \A d \in Askers \ {c} : asker'[d] = asker[d]
  BY <1>1, <1>2, <1>4, CallBecomes
<1>6. NoJob \in JobRecords /\ NoJob.pid = 0
  BY DEF NoJob, JobRecords
<1>7. /\ records' \in [Ids -> JobRecords]
      /\ \A i \in Ids : records'[i] = IF i \in asker[c].old THEN NoJob ELSE records[i]
  BY <1>1, <1>6 DEF Prunes, DetachedTypes
<1>8. DetachedTypes'
  BY <1>1, <1>5, <1>7 DEF DetachedTypes
<1>9. CallsApart'
  BY <1>1, <1>4, <1>5, <1>6, <1>7 DEF DetachedInv, CallsApart, HasChild, Born, Pids
<1>10. Recorded' \subseteq Recorded /\ \A i \in Recorded' : records'[i] = records[i]
  BY <1>7 DEF Recorded
<1>11. RecordsApart' /\ AnswersBorn'
  BY <1>1, <1>10 DEF DetachedInv, RecordsApart, AnswersBorn, Born
<1>12. \A p \in Pids : Runs(p)' <=> Runs(p)
  BY <1>1 DEF Runs
<1>13. \A i \in Ids : records'[i] # NoJob =>
         records'[i] = records[i] /\ (Runs(records[i].pid)' <=> Runs(records[i].pid))
  BY <1>1, <1>10 DEF Recorded, Runs
<1>14. IdsClash'
  <2>1. \A d \in Askers : /\ asker'[d].id = asker[d].id /\ (Drawn(d)' <=> Drawn(d))
                          /\ d # c => asker'[d].old = asker[d].old
    BY <1>1, <1>4, <1>5 DEF Drawn
  <2>2. asker'[c].old = {} /\ \A d \in Askers : asker[d].id \in Ids /\ asker[d].old \subseteq Ids
    BY <1>1, <1>4, <1>5 DEF DetachedTypes, CallRecords
  <2>3. \A d, e \in Askers : Drawn(d)' /\ Drawn(e)' /\ asker'[d].id = asker'[e].id =>
          d = e \/ asker'[d].id \in clashed
    BY <2>1 DEF DetachedInv, IdsClash
  <2>4. \A d \in Askers : Drawn(d)' => records'[asker'[d].id] = NoJob \/ asker'[d].id \in clashed
    BY <1>13, <2>1, <2>2 DEF DetachedInv, IdsClash
  <2>5. \A d, e \in Askers : Drawn(d)' /\ asker'[d].id \in asker'[e].old => asker'[d].id \in clashed
    BY <2>1, <2>2 DEF DetachedInv, IdsClash
  <2>6. \A d \in Askers : \A i \in asker'[d].old :
          records'[i] = NoJob \/ ~Runs(records[i].pid)' \/ i \in clashed
    <3> SUFFICES ASSUME NEW d \in Askers, NEW i \in asker'[d].old, records'[i] # NoJob
                 PROVE  ~Runs(records[i].pid)' \/ i \in clashed
      OBVIOUS
    <3>1. i \in asker[d].old /\ i \in Ids
      BY <2>1, <2>2
    <3> QED BY <1>13, <3>1 DEF DetachedInv, IdsClash
  <2>7. \A d \in Askers : asker'[d].old # {} => Drawn(d)'
    BY <2>1, <2>2 DEF DetachedInv, IdsClash
  <2> QED BY <1>1, <2>3, <2>4, <2>5, <2>6, <2>7 DEF IdsClash
<1>15. RunningAnswerable'
  <2> SUFFICES ASSUME NEW a \in answered, Runs(a[2])
               PROVE  records'[a[1]].pid = a[2] \/ a[1] \in clashed
    BY <1>1 DEF RunningAnswerable, Runs
  <2>1. a[1] \in Ids /\ a[2] \in Pids /\ a[2] # 0
    BY <1>1 DEF DetachedTypes, Pids
  <2>2. records[a[1]].pid = a[2] \/ a[1] \in clashed
    BY DEF DetachedInv, RunningAnswerable
  <2>3. a[1] \in asker[c].old => records[a[1]] = NoJob \/ ~Runs(records[a[1]].pid) \/ a[1] \in clashed
    BY DEF DetachedInv, IdsClash
  <2> QED BY <1>6, <1>7, <2>1, <2>2, <2>3
<1> QED BY <1>8, <1>9, <1>11, <1>14, <1>15 DEF DetachedInv

\* The record takes an id that no other call holds and none is to remove, or one
\* that has clashed.
LEMMA WritesKeeps ==
  ASSUME DetachedInv, NEW c \in Askers, Writes(c)
  PROVE  DetachedInv'
<1> USE DetachedAssumption
<1> DEFINE id == asker[c].id
           p == asker[c].pid
           job == [pid |-> asker[c].pid, req |-> asker[c].req, started |-> asker[c].pid]
<1>1. /\ asker[c].pc = "write" /\ UNCHANGED <<children, second, clashed>>
      /\ asker[c] \in CallRecords /\ DetachedTypes
      /\ asker' = [asker EXCEPT ![c] = Calm] /\ records' = [records EXCEPT ![id] = job]
      /\ answered' = answered \union {<<id, records'[id].pid>>}
  BY DEF Writes, Answers, DetachedInv, DetachedTypes
<1>2. Drawn(c) /\ HasChild(c) /\ id \in Ids /\ p \in Pids /\ Born(p)
      /\ \A i \in Ids : records[i].pid # p
  BY <1>1 DEF Drawn, HasChild, CallRecords, DetachedInv, CallsApart
<1>3. job \in JobRecords /\ job.pid = p /\ job # NoJob
  BY <1>1, <1>2 DEF JobRecords, CallRecords, NoJob, Pids
<1>4. /\ records' \in [Ids -> JobRecords]
      /\ \A i \in Ids : records'[i] = IF i = id THEN job ELSE records[i]
  BY <1>1, <1>2, <1>3 DEF DetachedTypes
<1> HIDE DEF job
<1>5. /\ asker' \in [Askers -> CallRecords] /\ asker'[c] = Calm
      /\ \A d \in Askers \ {c} : asker'[d] = asker[d]
  BY <1>1, CalmIsCall, CallBecomes
<1>6. answered' = answered \union {<<id, p>>}
  BY <1>1, <1>2, <1>3, <1>4
<1>7. DetachedTypes'
  BY <1>1, <1>2, <1>4, <1>5, <1>6 DEF DetachedTypes
<1>8. \A d \in Askers : /\ HasChild(d)' => d # c /\ HasChild(d)
                        /\ Drawn(d)' => d # c /\ Drawn(d)
  BY <1>5, CalmIsCall DEF HasChild, Drawn
<1>9. \A q \in Pids : (Born(q)' <=> Born(q)) /\ (Runs(q)' <=> Runs(q))
  BY <1>1 DEF Born, Runs
<1>10. CallsApart'
  BY <1>2, <1>3, <1>4, <1>5, <1>8, <1>9 DEF DetachedInv, CallsApart
<1>11. RecordsApart' /\ AnswersBorn'
  <2>1. \A i \in Recorded' : i = id \/ i \in Recorded
    BY <1>4 DEF Recorded
  <2>2. \A i \in Recorded' : i # id => records'[i] = records[i]
    BY <1>4 DEF Recorded
  <2>3. records'[id].pid = p
    BY <1>2, <1>3, <1>4
  <2>4. \A i \in Recorded : i \in Ids /\ records[i].pid \in Pids /\ Born(records[i].pid)
    BY DEF DetachedInv, RecordsApart, Recorded
  <2>5. \A i, j \in Recorded' : records'[i].pid = records'[j].pid => i = j
    BY <1>2, <2>1, <2>2, <2>3, <2>4 DEF DetachedInv, RecordsApart
  <2>6. \A i \in Recorded' : records'[i].pid \in Pids /\ Born(records[i].pid)'
    <3> SUFFICES ASSUME NEW i \in Recorded' PROVE records'[i].pid \in Pids /\ Born(records[i].pid)'
      OBVIOUS
    <3>1. records'[i].pid = p \/ (i \in Recorded /\ records'[i] = records[i])
      BY <2>1, <2>2, <2>3
    <3>2. records'[i].pid \in Pids /\ Born(records'[i].pid)
      BY <1>2, <2>4, <3>1
    <3> QED BY <1>1, <3>2 DEF Born
  <2>7. AnswersBorn'
    BY <1>2, <1>6, <1>9 DEF DetachedInv, DetachedTypes, AnswersBorn
  <2> QED BY <2>5, <2>6, <2>7 DEF RecordsApart
<1>12. IdsClash'
  <2>1. \A d \in Askers \ {c} : Drawn(d) /\ asker[d].id = id => id \in clashed
    BY <1>2 DEF DetachedInv, IdsClash
  <2>2. \A d \in Askers : id \in asker[d].old => id \in clashed
    BY <1>2 DEF DetachedInv, IdsClash
  <2>3. \A i \in Ids : i # id /\ records[i] # NoJob => (Runs(records[i].pid)' <=> Runs(records[i].pid))
    BY <1>1, <1>4 DEF Runs
  <2>4. \A d \in Askers : asker[d].id \in Ids /\ asker[d].old \subseteq Ids
    BY <1>1 DEF DetachedTypes, CallRecords
  <2>5. \A d, e \in Askers : Drawn(d)' /\ Drawn(e)' /\ asker'[d].id = asker'[e].id =>
          d = e \/ asker'[d].id \in clashed
    BY <1>5, <1>8 DEF DetachedInv, IdsClash
  <2>6. \A d \in Askers : Drawn(d)' => records'[asker'[d].id] = NoJob \/ asker'[d].id \in clashed
    BY <1>4, <1>5, <1>8, <2>1, <2>4 DEF DetachedInv, IdsClash
  <2>7. \A d, e \in Askers : Drawn(d)' /\ asker'[d].id \in asker'[e].old => asker'[d].id \in clashed
    BY <1>5, <1>8, CalmIsCall DEF DetachedInv, IdsClash
  <2>8. \A d \in Askers : \A i \in asker'[d].old :
          records'[i] = NoJob \/ ~Runs(records[i].pid)' \/ i \in clashed
    <3> SUFFICES ASSUME NEW d \in Askers, NEW i \in asker'[d].old, records'[i] # NoJob
                 PROVE  ~Runs(records[i].pid)' \/ i \in clashed
      OBVIOUS
    <3>1. d # c /\ i \in asker[d].old /\ i \in Ids
      BY <1>5, <2>4, CalmIsCall
    <3>2. i # id => records[i] # NoJob
      BY <1>4, <3>1
    <3> QED BY <2>2, <2>3, <3>1, <3>2 DEF DetachedInv, IdsClash
  <2>9. \A d \in Askers : asker'[d].old # {} => Drawn(d)'
    <3> SUFFICES ASSUME NEW d \in Askers, asker'[d].old # {} PROVE Drawn(d)'
      OBVIOUS
    <3>1. d # c /\ asker'[d] = asker[d]
      BY <1>5, CalmIsCall
    <3> QED BY <3>1 DEF Drawn, DetachedInv, IdsClash
  <2> QED BY <1>1, <2>5, <2>6, <2>7, <2>8, <2>9 DEF IdsClash
<1>13. RunningAnswerable'
  <2> SUFFICES ASSUME NEW a \in answered', Runs(a[2])'
               PROVE  records'[a[1]].pid = a[2] \/ a[1] \in clashed
    BY <1>1 DEF RunningAnswerable
  <2>1. CASE a = <<id, p>>
    BY <1>2, <1>3, <1>4, <2>1
  <2>2. CASE a \in answered
    <3>1. a[1] \in Ids /\ a[2] \in Pids /\ a[2] # 0 /\ Runs(a[2])
      BY <1>1, <1>9, <2>2 DEF DetachedTypes, Pids
    <3>2. records[a[1]].pid = a[2] \/ a[1] \in clashed
      BY <2>2, <3>1 DEF DetachedInv, RunningAnswerable
    <3>3. a[1] = id => records[a[1]].pid = 0 \/ a[1] \in clashed
      BY <1>2 DEF DetachedInv, IdsClash, NoJob
    <3> QED BY <1>4, <3>1, <3>2, <3>3
  <2> QED BY <1>6, <2>1, <2>2
<1> QED BY <1>7, <1>10, <1>11, <1>12, <1>13 DEF DetachedInv

\* Children only get on, and the calls stay as they are or are forgotten.
LEMMA ChildrenKeep ==
  ASSUME DetachedInv, UNCHANGED <<records, answered, clashed>>, second' \in 0 .. MaxSeconds,
         children' \in [Pids -> ChildRecords],
         \A p \in Pids : (Born(p)' <=> Born(p)) /\ (Runs(p)' => Runs(p)),
         asker' = asker \/ asker' = [c \in Askers |-> Calm]
  PROVE  DetachedInv'
<1>1. asker' \in [Askers -> CallRecords]
  BY CalmIsCall DEF DetachedInv, DetachedTypes
<1>2. \A c \in Askers : asker'[c] = asker[c] \/ (asker'[c].pc = "idle" /\ asker'[c].old = {})
  BY CalmIsCall
<1>3. DetachedTypes'
  BY <1>1 DEF DetachedInv, DetachedTypes
<1>4. CallsApart' /\ RecordsApart' /\ AnswersBorn'
  BY <1>2 DEF DetachedInv, DetachedTypes, CallsApart, RecordsApart, Recorded, AnswersBorn, HasChild
<1>5. IdsClash'
  <2>1. \A c \in Askers : Drawn(c)' => Drawn(c) /\ asker'[c] = asker[c]
    BY <1>2 DEF Drawn
  <2>2. \A c \in Askers : asker'[c].old # {} => asker'[c] = asker[c]
    BY <1>2
  <2>3. \A i \in Recorded : Runs(records[i].pid)' => Runs(records[i].pid)
    BY DEF DetachedInv, RecordsApart
  <2>4. \A c \in Askers : asker'[c].old \subseteq Ids
    BY <1>1 DEF CallRecords
  <2>5. \A c \in Askers : \A i \in asker'[c].old :
          records[i] = NoJob \/ ~Runs(records[i].pid)' \/ i \in clashed
    BY <2>2, <2>3, <2>4 DEF DetachedInv, IdsClash, Recorded
  <2>6. \A c \in Askers : asker'[c].old # {} => Drawn(c)'
    BY <2>2 DEF DetachedInv, IdsClash, Drawn
  <2>7. \A c, d \in Askers : Drawn(c)' /\ asker'[c].id \in asker'[d].old => asker'[c].id \in clashed
    BY <2>1, <2>2 DEF DetachedInv, IdsClash
  <2> QED BY <2>1, <2>5, <2>6, <2>7 DEF DetachedInv, IdsClash
<1>6. RunningAnswerable'
  BY DEF DetachedInv, DetachedTypes, RunningAnswerable
<1> QED BY <1>3, <1>4, <1>5, <1>6 DEF DetachedInv

\* A child that leaves has been born, and does not run.
LEMMA LeavesKeeps ==
  ASSUME DetachedTypes, NEW p \in Pids, Leaves(p), Born(p)
  PROVE  /\ children' \in [Pids -> ChildRecords]
         /\ \A q \in Pids : (Born(q)' <=> Born(q)) /\ (Runs(q)' => Runs(q))
<1> DEFINE end == IF children[p].ours THEN "ended" ELSE "gone"
           x == [children[p] EXCEPT !.at = end]
<1>1. end \in {"ended", "gone"} /\ children[p] \in ChildRecords
  BY DEF DetachedTypes
<1>2. children' = [children EXCEPT ![p] = x]
  BY DEF Leaves
<1> HIDE DEF end
<1>3. x \in ChildRecords /\ x.at = end
  BY <1>1 DEF ChildRecords
<1> HIDE DEF x
<1>4. /\ children' \in [Pids -> ChildRecords]
      /\ \A q \in Pids : children'[q] = IF q = p THEN x ELSE children[q]
  BY <1>2, <1>3 DEF DetachedTypes
<1> QED BY <1>1, <1>3, <1>4 DEF Born, Runs

LEMMA DetachedStep == DetachedInv /\ [DetachedNext]_jobVars => DetachedInv'
<1> SUFFICES ASSUME DetachedInv, [DetachedNext]_jobVars PROVE DetachedInv'
  OBVIOUS
<1>1. DetachedTypes
  BY DEF DetachedInv
<1>2. ASSUME NEW c \in Askers, AskerSteps(c) \/ \E r \in Requests : Asks(c, r)
      PROVE  DetachedInv'
  BY <1>2, EarlyKeeps, NamesKeeps, SpawnsKeeps, PruneLooksKeeps, PrunesKeeps, WritesKeeps
     DEF AskerSteps
<1>3. ASSUME NEW p \in Pids, ChildLocks(p) PROVE DetachedInv'
  <2>1. UNCHANGED <<asker, records, second, answered, clashed>> /\ Born(p) /\ Runs(p)
    BY <1>3 DEF ChildLocks, Born, Runs
  <2>2. CASE children' = [children EXCEPT ![p].at = "works"]
    <3>1. children' \in [Pids -> ChildRecords]
      BY <1>1, <2>2 DEF DetachedTypes, ChildRecords
    <3>2. \A q \in Pids : (Born(q)' <=> Born(q)) /\ (Runs(q)' => Runs(q))
      BY <1>1, <2>1, <2>2 DEF DetachedTypes, Born, Runs, ChildRecords
    <3> QED BY <1>1, <2>1, <3>1, <3>2, ChildrenKeep DEF DetachedTypes
  <2>3. CASE Leaves(p)
    BY <1>1, <2>1, <2>3, LeavesKeeps, ChildrenKeep DEF DetachedTypes
  <2> QED BY <1>3, <2>2, <2>3 DEF ChildLocks
<1>4. ASSUME NEW p \in Pids, ChildEnds(p) PROVE DetachedInv'
  <2>1. UNCHANGED <<asker, records, second, answered, clashed>> /\ Born(p) /\ Leaves(p)
    BY <1>4 DEF ChildEnds, Born
  <2> QED BY <1>1, <2>1, LeavesKeeps, ChildrenKeep DEF DetachedTypes
<1>5. CASE ServerRestarts
  <2>1. \A p \in Pids : /\ children[p] \in ChildRecords
                        /\ children'[p] = [children[p] EXCEPT !.ours = FALSE,
                                            !.at = IF children[p].at = "ended" THEN "gone" ELSE children[p].at]
    BY <1>1, <1>5 DEF ServerRestarts, DetachedTypes
  <2>2. \A p \in Pids : /\ children'[p] \in ChildRecords
                        /\ children'[p].at = IF children[p].at = "ended" THEN "gone" ELSE children[p].at
    BY <2>1 DEF ChildRecords
  <2>3. children' \in [Pids -> ChildRecords]
    BY <1>5, <2>2 DEF ServerRestarts
  <2>4. \A p \in Pids : (Born(p)' <=> Born(p)) /\ (Runs(p)' => Runs(p))
    BY <2>2 DEF Born, Runs
  <2>5. asker' = [c \in Askers |-> Calm] /\ UNCHANGED <<records, second, answered, clashed>>
    BY <1>5 DEF ServerRestarts
  <2> QED BY <1>1, <2>3, <2>4, <2>5, ChildrenKeep DEF DetachedTypes
<1>6. CASE SecondPasses
  <2>1. second' \in 0 .. MaxSeconds
    BY <1>1, <1>6, DetachedAssumption DEF SecondPasses, DetachedTypes
  <2>2. UNCHANGED <<asker, children, records, answered, clashed>>
    BY <1>6 DEF SecondPasses
  <2>3. \A p \in Pids : (Born(p)' <=> Born(p)) /\ (Runs(p)' => Runs(p))
    BY <2>2 DEF Born, Runs
  <2> QED BY <1>1, <2>1, <2>2, <2>3, ChildrenKeep DEF DetachedTypes
<1>7. CASE UNCHANGED jobVars
  <2>1. UNCHANGED <<asker, children, records, second, answered, clashed>>
    BY <1>7 DEF jobVars
  <2>2. \A p \in Pids : (Born(p)' <=> Born(p)) /\ (Runs(p)' => Runs(p))
    BY <2>1 DEF Born, Runs
  <2> QED BY <1>1, <2>1, <2>2, ChildrenKeep DEF DetachedTypes
<1> QED BY <1>2, <1>3, <1>4, <1>5, <1>6, <1>7 DEF DetachedNext

LEMMA DetachedInitInv == DetachedInit => DetachedInv
<1> SUFFICES ASSUME DetachedInit PROVE DetachedInv
  OBVIOUS
<1> USE DetachedAssumption
<1>1. \A c \in Askers : asker[c] = Calm /\ asker[c].pc = "idle" /\ asker[c].old = {}
  BY CalmIsCall DEF DetachedInit
<1>2. NoJob \in JobRecords /\ NoChild \in ChildRecords
  BY DEF NoJob, JobRecords, NoChild, ChildRecords
<1>3. DetachedTypes
  BY <1>2, CalmIsCall DEF DetachedInit, DetachedTypes
<1>4. \A i \in Ids : records[i] = NoJob
  BY DEF DetachedInit
<1>5. CallsApart /\ RecordsApart /\ IdsClash
  BY <1>1, <1>4 DEF CallsApart, HasChild, RecordsApart, Recorded, IdsClash, Drawn
<1>6. AnswersBorn /\ RunningAnswerable
  BY DEF DetachedInit, AnswersBorn, RunningAnswerable
<1> QED BY <1>3, <1>5, <1>6 DEF DetachedInv

\* A job that runs is the one its caller's id is of, for any number of calls at
\* once, children and records, and a server that goes and comes at any point:
\* but for the ids two calls drew, or one drew while another was to remove it.
THEOREM JobsStayAnswerable == DetachedSpec => []RunningAnswerable
<1>1. DetachedInv => RunningAnswerable
  BY DEF DetachedInv
<1> QED BY DetachedInitInv, DetachedStep, <1>1, PTL DEF DetachedSpec
=============================================================================
