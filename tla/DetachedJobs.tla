---------------------------- MODULE DetachedJobs ----------------------------
(***************************************************************************)
(* Long commands started by the MCP server as detached jobs                *)
(* (internal/job/job.go, cmd/irgo-winvm/mcp.go, mcpserver/server.go):      *)
(* whether the command's locks are free is asked, a job already running    *)
(* the same command line is looked for, an id is found, this binary is run *)
(* again as a child in a process group of its own, old records are pruned, *)
(* and the record is written.  The child takes the locks for itself.  A    *)
(* record says a pid, and whether the pid lives is asked when status is.   *)
(***************************************************************************)
EXTENDS Naturals, FiniteSets

CONSTANTS
  Requests,      \* command lines, all of which take one VM's lock
  Askers,        \* tool calls the server works on at once
  KeepFinished,  \* records of ended jobs kept (keepFinished)
  MaxChildren,   \* bound on children started
  MaxSeconds     \* bound on the clock the ids are made from

ASSUME DetachedAssumption == MaxChildren \in Nat /\ MaxSeconds \in Nat

VARIABLES
  asker,     \* per call: its step, its request, the id and the child it made
  children,  \* per pid: the request and how far the process is, and
             \* whether the server that started it still runs
  records,   \* jobs/<id>.json
  vmLock,    \* who holds the lock of the VM
  second,    \* the time an id is made from
  answered,  \* history: the ids callers were given, with the child each means
  clashed    \* history: ids drawn while another call had drawn them, or was
             \* about to remove their record

jobVars == <<asker, children, records, vmLock, second, answered, clashed>>

Pids     == 1..MaxChildren
Ids      == (0..MaxSeconds) \X (1..(MaxChildren + 1))
NoJob == [pid |-> 0, req |-> "none", started |-> 0]
NoChild  == [req |-> "none", at |-> "unborn", ours |-> FALSE]
Calm     == [pc |-> "idle", req |-> "none", id |-> <<0, 1>>, pid |-> 0, old |-> {}]

DetachedInit ==
  /\ asker = [c \in Askers |-> Calm]
  /\ children = [p \in Pids |-> NoChild] /\ records = [i \in Ids |-> NoJob]
  /\ vmLock = 0 /\ second = 0 /\ answered = {} /\ clashed = {}

Runs(p)     == children[p].at \in {"begun", "works"}
\* Signal 0 finds a process that ended as long as nobody has waited for it.
Alive(i)    == records[i] # NoJob /\ children[records[i].pid].at # "gone"
Recorded    == {i \in Ids : records[i] # NoJob}
Proceeds(c, from, to) == asker[c].pc = from /\ asker' = [asker EXCEPT ![c].pc = to]
Answers(c, i) ==
  /\ asker' = [asker EXCEPT ![c] = Calm]
  /\ answered' = answered \union {<<i, records'[i].pid>>}
-----------------------------------------------------------------------------
(* StartJob and job.Start.                                                 *)

\* A call of a tool, its arguments made a command line (readArgs, argv).  The
\* locks are taken and let go again, to answer "busy" at once.
Asks(c, r) ==
  /\ asker[c].pc = "idle" /\ vmLock = 0
  /\ asker' = [asker EXCEPT ![c] = [Calm EXCEPT !.pc = "find", !.req = r]]
  /\ UNCHANGED <<children, records, vmLock, second, answered, clashed>>

\* findRunning: a live job of the same command line is the answer.
FindsRunning(c) ==
  LET same == {i \in Recorded : Alive(i) /\ records[i].req = asker[c].req}
  IN  /\ asker[c].pc = "find"
      /\ IF same = {} THEN Proceeds(c, "find", "name") /\ UNCHANGED <<records, answered, clashed>>
         ELSE UNCHANGED records /\ \E i \in same : Answers(c, i)
      /\ UNCHANGED <<children, vmLock, second, clashed>>

\* Mutant of UniqueID: the second alone.
UniqueIDPlain(taken) == <<second, 1>>

\* The second, and a counter no record has.
UniqueID(taken) ==
  CHOOSE i \in Ids : /\ i[1] = second /\ i \notin taken
                     /\ \A j \in Ids : j[1] = second /\ j \notin taken => i[2] <= j[2]

\* Past naming, a call has an id whose record it has not written.
Drawn(c) == asker[c].pc \in {"spawn", "look", "prune", "write"}

\* The name is looked for among the records, and nothing keeps it.
Names(c) ==
  /\ asker[c].pc = "name"
  /\ LET id   == UniqueID(Recorded)
         both == \E d \in Askers \ {c} : Drawn(d) /\ (asker[d].id = id \/ id \in asker[d].old)
     IN  /\ asker' = [asker EXCEPT ![c].pc = "spawn", ![c].id = id]
         /\ clashed' = IF both THEN clashed \union {id} ELSE clashed
  /\ UNCHANGED <<children, records, vmLock, second, answered>>

Spawns(c) ==
  /\ asker[c].pc = "spawn"
  /\ \E p \in Pids :
       /\ children[p] = NoChild /\ \A q \in Pids : q < p => children[q] # NoChild
       /\ children' = [children EXCEPT ![p] = [req |-> asker[c].req, at |-> "begun", ours |-> TRUE]]
       /\ asker' = [asker EXCEPT ![c].pc = "look", ![c].pid = p]
  /\ UNCHANGED <<records, vmLock, second, answered, clashed>>

\* Ended jobs that KeepFinished newer ended ones push out.
Pruned ==
  {i \in Recorded : /\ ~Alive(i)
                    /\ Cardinality({j \in Recorded : ~Alive(j) /\ records[j].started > records[i].started})
                         >= KeepFinished}

PruneLooks(c) ==
  /\ asker[c].pc = "look"
  /\ asker' = [asker EXCEPT ![c].pc = "prune", ![c].old = Pruned]
  /\ UNCHANGED <<children, records, vmLock, second, answered, clashed>>

\* By their names, whatever is there by now.
Prunes(c) ==
  /\ asker[c].pc = "prune"
  /\ asker' = [asker EXCEPT ![c].pc = "write", ![c].old = {}]
  /\ records' = [i \in Ids |-> IF i \in asker[c].old THEN NoJob ELSE records[i]]
  /\ UNCHANGED <<children, vmLock, second, answered, clashed>>

Writes(c) ==
  /\ asker[c].pc = "write"
  /\ records' = [records EXCEPT ![asker[c].id] =
                   [pid |-> asker[c].pid, req |-> asker[c].req, started |-> asker[c].pid]]
  /\ Answers(c, asker[c].id)
  /\ UNCHANGED <<children, vmLock, second, clashed>>

\* No log, no child, or no record: an error is the answer, and a child that was
\* started runs on unrecorded.
StartErrs(c) ==
  /\ asker[c].pc \in {"name", "spawn", "write"} /\ asker' = [asker EXCEPT ![c] = Calm]
  /\ UNCHANGED <<children, records, vmLock, second, answered, clashed>>

AskerSteps(c) ==
  \/ FindsRunning(c) \/ Names(c) \/ Spawns(c)
  \/ PruneLooks(c) \/ Prunes(c) \/ Writes(c) \/ StartErrs(c)

\* The server goes, at any point, and another comes: the calls are forgotten,
\* the children run on, and those that ended are waited for at last, by launchd.
ServerRestarts ==
  /\ asker' = [c \in Askers |-> Calm]
  /\ children' = [p \in Pids |-> [children[p] EXCEPT !.ours = FALSE,
                                                     !.at = IF @ = "ended" THEN "gone" ELSE @]]
  /\ UNCHANGED <<records, vmLock, second, answered, clashed>>
-----------------------------------------------------------------------------
(* The child, runTool.                                                     *)

\* Nobody waits for it while the server that started it runs (Release).
Leaves(p) == children' = [children EXCEPT ![p].at = IF children[p].ours THEN "ended" ELSE "gone"]

\* It takes the locks, or ends, busy.
ChildLocks(p) ==
  /\ children[p].at = "begun"
  /\ IF vmLock = 0
     THEN vmLock' = p /\ children' = [children EXCEPT ![p].at = "works"]
     ELSE UNCHANGED vmLock /\ Leaves(p)
  /\ UNCHANGED <<asker, records, second, answered, clashed>>

\* It ends, or dies.
ChildEnds(p) ==
  /\ children[p].at = "works" /\ Leaves(p)
  /\ vmLock' = IF vmLock = p THEN 0 ELSE vmLock
  /\ UNCHANGED <<asker, records, second, answered, clashed>>

SecondPasses ==
  /\ second < MaxSeconds /\ second' = second + 1
  /\ UNCHANGED <<asker, children, records, vmLock, answered, clashed>>

DetachedNext ==
  \/ \E c \in Askers : AskerSteps(c) \/ \E r \in Requests : Asks(c, r)
  \/ \E p \in Pids : ChildLocks(p) \/ ChildEnds(p)
  \/ ServerRestarts \/ SecondPasses

\* A child gets on, and a call does.
DetachedFairness ==
  /\ \A p \in Pids : WF_jobVars(ChildLocks(p) \/ ChildEnds(p))
  /\ \A c \in Askers : WF_jobVars(AskerSteps(c))

DetachedSpec == DetachedInit /\ [][DetachedNext]_jobVars /\ DetachedFairness
-----------------------------------------------------------------------------
(* Properties.                                                             *)

\* An id a caller was given goes on meaning the job it was given for, for as
\* long as that job runs: no other job's record takes its name, and no call's
\* pruning takes its record.  The exception is an id that a call drew (uniqueID)
\* while another call held it, drawn or to be removed: the last write has it.
RunningAnswerable ==
  \A a \in answered : Runs(a[2]) => records[a[1]].pid = a[2] \/ a[1] \in clashed

\* A job that ended is at last reported dead (job/doc.go: "Report that a
\* process is dead").
DeathReported == \A i \in Ids, p \in Pids :
  (records[i].pid = p /\ children[p].at = "ended") ~> (~Alive(i) \/ records[i].pid # p)
=============================================================================
