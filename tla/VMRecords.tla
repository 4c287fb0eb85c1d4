----------------------------- MODULE VMRecords -----------------------------
(***************************************************************************)
(* One Mac's VMs, the records of whose they are, and the commands on them  *)
(* (internal/utmvm: vm_lease.go, vm_capacity.go, vm_keep.go, vm_delete.go, *)
(* lock.go; cmd/irgo-winvm: main.go, vm.go, keeper.go, capacity.go).       *)
(*                                                                         *)
(* A command is a process.  It takes a VM's lock, or is refused; reads and *)
(* writes records as whole files; and asks UTM.  Each of those is a step,  *)
(* so commands interleave between any two.  A process that dies drops its  *)
(* locks and leaves its records.                                           *)
(*                                                                         *)
(* Time is kept only as far as the rule of vm-reap needs it: whether a     *)
(* record's last use is older than the lease.  Memory is counted in VMs.   *)
(***************************************************************************)
EXTENDS Integers, FiniteSets

CONSTANTS
  VMs,       \* names of VMs that are not protected
  Procs,     \* commands at once, each a process of its own
  None,      \* no process, no VM
  Dead,      \* the pid of a process that is gone
  Commands,  \* the commands that are run, of those below
  Room       \* VMs this Mac has memory for

AllCommands == {"create", "delete", "use", "keep", "unkeep", "screen", "reap"}

ASSUME CommandsAssumption == Commands \subseteq AllCommands
ASSUME RoomAssumption == Room \in Nat
ASSUME NamesAssumption == /\ None \notin Procs \cup VMs /\ Dead \notin Procs \cup {None}
                          /\ IsFiniteSet(VMs)

VARIABLES
  vm,      \* what UTM has of each name
  record,  \* vms/<name>.json
  lock,    \* VMLock(name): its holder
  cap,     \* CapacityLock: its holder
  proc,    \* the commands running
  marked,       \* history: VMs reported marked keep-running, and not unmarked since
  uncounted,    \* history: VMs that run and that a vm-create may have missed
  overwritten   \* history: VMs whose record vm-screen put back to an older one

history == <<uncounted, overwritten>>
vars == <<vm, record, lock, cap, proc, marked, history>>

-----------------------------------------------------------------------------
(* Records.  creator is CreatingPID; stale, that the lease has run out.    *)

Record == [creator: Procs \cup {None, Dead}, keep: BOOLEAN, stale: BOOLEAN]
NoRecord == [creator |-> None, keep |-> FALSE, stale |-> TRUE, none |-> TRUE]

Records == [VMs -> Record \cup {NoRecord}]
NoRecords == [v \in VMs |-> NoRecord]

Fresh(p) == [creator |-> p, keep |-> FALSE, stale |-> FALSE]

Running == {v \in VMs : vm[v] = "running"}
Has(records) == {v \in VMs : records[v] # NoRecord}

(* Commands.                                                               *)

Steps == {"idle", "cap", "find", "table", "room", "make", "start", "wait",
          "finish", "clear", "touch", "touched", "work", "mark", "write",
          "back", "reap", "remove", "forget"}

\* vm: the VM it works on, whose lock it holds.  copy: the record it read
\* last.  seen: the VMs UTM listed as holding memory.  made: it wrote the
\* record as its creator.  todo, list: the records vm-reap read and has still
\* to decide.  at: the VM it decides.  reaped: how far reaping for room came.
Command == [step: Steps, op: Commands \cup {"none"}, vm: VMs \cup {None},
            copy: Record \cup {NoRecord}, seen: SUBSET VMs, made: BOOLEAN,
            todo: SUBSET VMs, list: Records, at: VMs \cup {None},
            reaped: {"not", "none", "some"}]

Idle == [step |-> "idle", op |-> "none", vm |-> None, copy |-> NoRecord,
         seen |-> {}, made |-> FALSE, todo |-> {}, list |-> NoRecords,
         at |-> None, reaped |-> "not"]

Init ==
  /\ vm = [v \in VMs |-> "none"]
  /\ record = NoRecords
  /\ lock = [v \in VMs |-> None]
  /\ cap = None
  /\ proc = [p \in Procs |-> Idle]
  /\ marked = {} /\ uncounted = {} /\ overwritten = {}

At(p, step)   == proc[p].step = step
Become(p, c)  == proc' = [proc EXCEPT ![p] = c]
Go(p, step)   == Become(p, [proc[p] EXCEPT !.step = step])
Mine(p)       == proc[p].vm

\* What is left is the command's own work, on its VM and on no record.
Works(p)      == Become(p, [Idle EXCEPT !.step = "work", !.op = proc[p].op, !.vm = Mine(p)])

\* Acquire: refused, never queued, while another holds it.
Take(p, v)    == lock[v] = None /\ lock' = [lock EXCEPT ![v] = p]
LetGo(v)      == lock' = [lock EXCEPT ![v] = None]

\* p stops being the creator of a VM that runs by now, and another command
\* decides by a table from before that: it sees the VM neither here nor there.
Missed(p) ==
  IF /\ proc[p].made /\ vm[Mine(p)] = "running"
     /\ \E q \in Procs \ {p} : At(q, "room") /\ Mine(p) \notin proc[q].seen
  THEN {Mine(p)} ELSE {}

\* The process is gone: its locks with it, and its pid names nobody.
Buried(r, p)  == IF r.creator = p THEN [r EXCEPT !.creator = Dead] ELSE r
Ends(p) ==
  /\ proc' = [q \in Procs |->
       IF q = p THEN Idle
       ELSE [proc[q] EXCEPT !.copy = Buried(@, p),
                            !.list = [v \in VMs |-> Buried(@[v], p)]]]
  /\ lock' = [v \in VMs |-> IF lock[v] = p THEN None ELSE lock[v]]
  /\ cap' = IF cap = p THEN None ELSE cap
  /\ record' = [v \in VMs |-> Buried(record[v], p)]
  /\ uncounted' = uncounted \cup Missed(p)
  /\ UNCHANGED <<vm, marked, overwritten>>

-----------------------------------------------------------------------------
(* Every command: runToolFor takes the locks, then renews the lease.       *)

\* Mutant of Begins: vm-keep-create takes no lock.
BeginsUnlocked(p, op, v) ==
  /\ At(p, "idle")
  /\ IF op \in {"screen", "keep"} THEN UNCHANGED lock ELSE Take(p, v)
  /\ Become(p, [Idle EXCEPT !.op = op, !.vm = v,
                  !.step = CASE op = "create" -> "cap"
                             [] op = "delete" -> "remove"
                             [] OTHER -> "touch"])
  /\ UNCHANGED <<vm, record, cap, marked, history>>

\* A command on one VM.  vm-screen takes no lock; vm-create and vm-delete see
\* to the record themselves.
Begins(p, op, v) ==
  /\ At(p, "idle")
  /\ IF op = "screen" THEN UNCHANGED lock ELSE Take(p, v)
  /\ Become(p, [Idle EXCEPT !.op = op, !.vm = v,
                  !.step = CASE op = "create" -> "cap"
                             [] op = "delete" -> "remove"
                             [] OTHER -> "touch"])
  /\ UNCHANGED <<vm, record, cap, marked, history>>

\* Where TouchVM returns to.
GoesOn(p) ==
  CASE proc[p].op = "create" -> Become(p, [Idle EXCEPT !.step = "start", !.op = "create", !.vm = Mine(p)])
    [] proc[p].op \in {"keep", "unkeep"} ->
         Become(p, [proc[p] EXCEPT !.step = "mark", !.copy = NoRecord])
    [] OTHER -> Works(p)

\* Mutant of TouchReads: a VM with no record is given one.
TouchReadsAny(p) ==
  /\ At(p, "touch")
  /\ Become(p, [proc[p] EXCEPT !.step = "touched", !.copy = record[Mine(p)]])
  /\ UNCHANGED <<vm, record, lock, cap, marked, history>>

\* TouchVM reads the record: with none, there is nothing to renew.
TouchReads(p) ==
  /\ At(p, "touch")
  /\ IF record[Mine(p)] = NoRecord
     THEN /\ GoesOn(p)
          /\ cap' = IF cap = p THEN None ELSE cap
     ELSE /\ Become(p, [proc[p] EXCEPT !.step = "touched", !.copy = record[Mine(p)]])
          /\ UNCHANGED cap
  /\ UNCHANGED <<vm, record, lock, marked, history>>

\* vm-screen holds no lock: what another command wrote since, it undoes.
Undoes(p) ==
  LET now == record[Mine(p)]
  IN  /\ proc[p].op = "screen"
      /\ now = NoRecord \/ now # [proc[p].copy EXCEPT !.stale = now.stale]

\* and writes it back whole.
TouchWrites(p) ==
  /\ At(p, "touched")
  /\ record' = [record EXCEPT ![Mine(p)] = [proc[p].copy EXCEPT !.stale = FALSE]]
  /\ GoesOn(p)
  /\ cap' = IF cap = p THEN None ELSE cap
  /\ overwritten' = IF Undoes(p) THEN overwritten \cup {Mine(p)} ELSE overwritten
  /\ UNCHANGED <<vm, lock, marked, uncounted>>

-----------------------------------------------------------------------------
(* vm-keep-create and vm-keep-delete.                                      *)

\* setKeep, SetKeepRunning: a mark wants the VM and its record; one already
\* as asked is success.
MarkReads(p) ==
  LET r == record[Mine(p)]
      keep == proc[p].op = "keep"
  IN  /\ At(p, "mark")
      /\ keep => vm[Mine(p)] # "none"
      /\ r # NoRecord
      /\ IF r.keep = keep
         THEN /\ Works(p)
              /\ marked' = IF keep THEN marked \cup {Mine(p)} ELSE marked
         ELSE /\ Become(p, [proc[p] EXCEPT !.step = "write", !.copy = r])
              /\ UNCHANGED marked
      /\ UNCHANGED <<vm, record, lock, cap, history>>

\* The record is written back with the mark, or without it.
MarkWrites(p) ==
  /\ At(p, "write")
  /\ record' = [record EXCEPT ![Mine(p)] = [proc[p].copy EXCEPT !.keep = (proc[p].op = "keep")]]
  /\ marked' = IF proc[p].op = "keep" THEN marked ELSE marked \ {Mine(p)}
  /\ Become(p, [proc[p] EXCEPT !.step = "back", !.copy = NoRecord])
  /\ UNCHANGED <<vm, lock, cap, history>>

\* It reads the record back, and reports the mark it finds.
MarkReadsBack(p) ==
  /\ At(p, "back")
  /\ marked' = IF proc[p].op = "keep" /\ record[Mine(p)] # NoRecord /\ record[Mine(p)].keep
                THEN marked \cup {Mine(p)} ELSE marked
  /\ Works(p)
  /\ UNCHANGED <<vm, record, lock, cap, history>>

-----------------------------------------------------------------------------
(* vm-create.                                                              *)

TakesCapacity(p) ==
  /\ At(p, "cap")
  /\ cap = None /\ cap' = p
  /\ Go(p, "find")
  /\ UNCHANGED <<vm, record, lock, marked, history>>

\* BeginCreate: the VM is looked up; one that runs already needs no room.
Finds(p) ==
  /\ At(p, "find")
  /\ Go(p, IF vm[Mine(p)] = "running" THEN "touch" ELSE "table")
  /\ UNCHANGED <<vm, record, lock, cap, marked, history>>

\* CheckCapacity asks UTM which VMs hold memory.
ReadsTable(p) ==
  /\ At(p, "table")
  /\ Become(p, [proc[p] EXCEPT !.step = "room", !.seen = Running])
  /\ UNCHANGED <<vm, record, lock, cap, marked, history>>

\* Mutant of Pending: a VM counts only once UTM has made it.
PendingIfMade(p, seen) ==
  {v \in VMs \ seen : record[v].creator \in Procs \ {p} /\ vm[v] # "none"}

\* pendingCreates: what other live vm-creates are making, not yet in seen.
Pending(p, seen) == {v \in VMs \ seen : record[v].creator \in Procs \ {p}}

HasRoom(p) ==
  LET seen == proc[p].seen
  IN  \/ Mine(p) \in seen
      \/ Cardinality(seen) + Cardinality(Pending(p, seen)) + 1 <= Room

\* There is room.  A VM that exists is only touched; of one that does not,
\* the record says from now on who is making it.
Admits(p) ==
  /\ At(p, "room") /\ HasRoom(p)
  /\ IF vm[Mine(p)] # "none"
     THEN /\ Become(p, [Idle EXCEPT !.step = "touch", !.op = "create", !.vm = Mine(p)])
          /\ UNCHANGED <<record, cap, marked, overwritten>>
     ELSE /\ record' = [record EXCEPT ![Mine(p)] = Fresh(p)]
          /\ marked' = marked \ {Mine(p)}
          /\ overwritten' = overwritten \ {Mine(p)}
          /\ cap' = None
          /\ Become(p, [Idle EXCEPT !.step = "make", !.op = "create", !.vm = Mine(p),
                          !.made = TRUE])
  /\ UNCHANGED <<vm, lock, uncounted>>

\* CheckCapacity refuses for memory, for disk that is promised, for an owner's
\* quota, and whenever it cannot tell: the last three may happen at any time.
MayBeRefused(p) == At(p, "find") \/ At(p, "room")

\* Refused, beginCreateReaping runs Reap for room, once.  A refusal with
\* nothing reaped ends the command (Stops).
Refuses(p) ==
  /\ MayBeRefused(p)
  /\ proc[p].reaped = "not"
  /\ cap' = None
  /\ Become(p, [proc[p] EXCEPT !.step = "reap", !.seen = {}, !.reaped = "none",
                  !.list = record, !.todo = Has(record)])
  /\ UNCHANGED <<vm, record, lock, marked, history>>

Makes(p) ==
  /\ At(p, "make")
  /\ vm' = [vm EXCEPT ![Mine(p)] = "stopped"]
  /\ Go(p, "start")
  /\ UNCHANGED <<record, lock, cap, marked, history>>

\* VMCreate boots what is stopped.  A VM that existed has no creator in its
\* record: until UTM lists it, no other vm-create counts it.
Starts(p) ==
  /\ At(p, "start")
  /\ vm' = [vm EXCEPT ![Mine(p)] = IF @ = "stopped" THEN "running" ELSE @]
  /\ uncounted' = IF vm[Mine(p)] = "stopped" /\ ~proc[p].made
                   THEN uncounted \cup {Mine(p)} ELSE uncounted
  /\ Go(p, "wait")
  /\ UNCHANGED <<record, lock, cap, marked, overwritten>>

\* VMCreate returns, having made the VM or failed at any stage.
Returns(p) ==
  /\ At(p, "make") \/ At(p, "start") \/ At(p, "wait")
  /\ IF proc[p].made THEN Go(p, "finish") ELSE Works(p)
  /\ UNCHANGED <<vm, record, lock, cap, marked, history>>

\* finishCreate: no VM came of it, so no record; else, or when UTM cannot be
\* asked, the record is read
Finishes(p) ==
  /\ At(p, "finish")
  /\ \/ /\ vm[Mine(p)] = "none"
        /\ record' = [record EXCEPT ![Mine(p)] = NoRecord]
        /\ marked' = marked \ {Mine(p)}
        /\ Works(p)
     \/ /\ Become(p, [proc[p] EXCEPT !.step = "clear", !.copy = record[Mine(p)]])
        /\ UNCHANGED <<record, marked>>
  /\ UNCHANGED <<vm, lock, cap, history>>

\* and written back with no creator.
Clears(p) ==
  /\ At(p, "clear")
  /\ record' = [record EXCEPT ![Mine(p)] =
                  IF proc[p].copy = NoRecord THEN @ ELSE [proc[p].copy EXCEPT !.creator = None]]
  /\ uncounted' = uncounted \cup Missed(p)
  /\ Works(p)
  /\ UNCHANGED <<vm, lock, cap, marked, overwritten>>

-----------------------------------------------------------------------------
(* vm-reap -force, and the removal it shares with vm-delete.               *)

\* Reap reads every record first, and decides by what it read.
ReapBegins(p) ==
  /\ At(p, "idle")
  /\ Become(p, [Idle EXCEPT !.op = "reap", !.step = "reap",
                  !.list = record, !.todo = Has(record)])
  /\ UNCHANGED <<vm, record, lock, cap, marked, history>>

Decided(c, v) == [c EXCEPT !.todo = @ \ {v}, !.list = [@ EXCEPT ![v] = NoRecord]]

\* In lease, marked, being made, in use, or UTM cannot be asked: kept.
Keeps(p, v) ==
  /\ At(p, "reap") /\ v \in proc[p].todo
  /\ Become(p, Decided(proc[p], v))
  /\ UNCHANGED <<vm, record, lock, cap, marked, history>>

\* decideReap: not one marked, nor one another live vm-create is making.
MayGo(p, r, v) == /\ ~r.keep /\ r.creator \notin Procs \ {p}
                  /\ vm[v] # "none" => r.stale

\* Mutant of Condemns: a busy lock does not stop it.
CondemnsBusy(p, v) ==
  /\ At(p, "reap") /\ v \in proc[p].todo
  /\ MayGo(p, proc[p].list[v], v)
  /\ lock' = [lock EXCEPT ![v] = p]
  /\ Become(p, [Decided(proc[p], v) EXCEPT !.at = v,
                  !.step = IF vm[v] = "none" THEN "forget" ELSE "remove"])
  /\ UNCHANGED <<vm, record, cap, marked, history>>

\* decideOne: the verdict is to act, with its lock held.
Condemns(p, v) ==
  /\ At(p, "reap") /\ v \in proc[p].todo
  /\ MayGo(p, proc[p].list[v], v)
  /\ Take(p, v)
  /\ Become(p, [Decided(proc[p], v) EXCEPT !.at = v,
                  !.step = IF vm[v] = "none" THEN "forget" ELSE "remove"])
  /\ UNCHANGED <<vm, record, cap, marked, history>>

\* The VM that a step of vm-delete or of a reaping command is about.
Target(p) == IF proc[p].at = None THEN Mine(p) ELSE proc[p].at

\* Delete: a VM UTM does not have is nothing to undo.
Removes(p) ==
  /\ At(p, "remove")
  /\ vm' = [vm EXCEPT ![Target(p)] = "none"]
  /\ Become(p, [proc[p] EXCEPT !.step = "forget",
                  !.reaped = IF proc[p].at = None THEN @ ELSE "some"])
  /\ uncounted' = uncounted \ {Target(p)}
  /\ UNCHANGED <<record, lock, cap, marked, overwritten>>

\* UTM left the bundle, and so did the tool: the next record is decided.
FailsToRemove(p) ==
  /\ At(p, "remove") /\ proc[p].at # None
  /\ LetGo(proc[p].at)
  /\ Become(p, [proc[p] EXCEPT !.step = "reap", !.at = None])
  /\ UNCHANGED <<vm, record, cap, marked, history>>

\* ForgetVM; a reaping command lets go of the lock and goes on.
Forgets(p) ==
  /\ At(p, "forget")
  /\ record' = [record EXCEPT ![Target(p)] = NoRecord]
  /\ marked' = marked \ {Target(p)}
  /\ IF proc[p].at = None THEN Works(p) /\ UNCHANGED lock
     ELSE /\ LetGo(proc[p].at)
          /\ Become(p, [proc[p] EXCEPT !.step = "reap", !.at = None])
  /\ UNCHANGED <<vm, cap, history>>

\* Something was reaped for room: vm-create asks once more.
TriesAgain(p) ==
  /\ At(p, "reap") /\ proc[p].todo = {}
  /\ proc[p].op = "create" /\ proc[p].reaped = "some"
  /\ Become(p, [proc[p] EXCEPT !.step = "cap", !.reaped = "none"])
  /\ UNCHANGED <<vm, record, lock, cap, marked, history>>

-----------------------------------------------------------------------------
\* The command returns, with whatever answer, or is killed where it stands.
Stops(p) == ~At(p, "idle") /\ Ends(p)

\* Somebody shuts the guest down.
GuestStops(v) ==
  /\ vm[v] = "running"
  /\ vm' = [vm EXCEPT ![v] = "stopped"]
  /\ uncounted' = uncounted \ {v}
  /\ UNCHANGED <<record, lock, cap, proc, marked, overwritten>>

\* A lease is hours: it does not pass between a record's read and its write.
LeasePasses(v) ==
  /\ record[v] # NoRecord /\ ~record[v].stale
  /\ \A p \in Procs : proc[p].step \notin {"touched", "write", "clear"}
  /\ record' = [record EXCEPT ![v].stale = TRUE]
  /\ UNCHANGED <<vm, lock, cap, proc, marked, history>>

Next ==
  \/ \E p \in Procs :
       \/ \E op \in Commands \ {"reap"}, v \in VMs : Begins(p, op, v)
       \/ "reap" \in Commands /\ ReapBegins(p)
       \/ TouchReads(p) \/ TouchWrites(p)
       \/ MarkReads(p) \/ MarkWrites(p) \/ MarkReadsBack(p)
       \/ TakesCapacity(p) \/ Finds(p) \/ ReadsTable(p) \/ Admits(p) \/ Refuses(p)
       \/ Makes(p) \/ Starts(p) \/ Returns(p) \/ Finishes(p) \/ Clears(p)
       \/ \E v \in VMs : Keeps(p, v) \/ Condemns(p, v)
       \/ Removes(p) \/ FailsToRemove(p) \/ Forgets(p) \/ TriesAgain(p)
       \/ Stops(p)
  \/ \E v \in VMs : GuestStops(v) \/ LeasePasses(v)

Spec == Init /\ [][Next]_vars
-----------------------------------------------------------------------------
(* Properties.                                                             *)

TypeOK ==
  /\ vm \in [VMs -> {"none", "stopped", "running"}]
  /\ record \in Records
  /\ lock \in [VMs -> Procs \cup {None}]
  /\ cap \in Procs \cup {None}
  /\ proc \in [Procs -> Command]
  /\ marked \subseteq VMs /\ uncounted \subseteq VMs /\ overwritten \subseteq VMs

\* However many vm-creates decide at once, reap for room or die half-way, the
\* VMs that run are never more than the Mac has memory for: but for one that
\* was stopped and is booted again, one whose creator was done with it after
\* another had read UTM's table, and one whose record vm-screen put back.
RoomKept == Cardinality(Running \ (uncounted \cup overwritten)) <= Room

\* A mark that vm-keep-create reported is in the record until vm-keep-delete
\* clears it or the VM goes, whatever else rewrites the record; but not when
\* vm-screen, which takes no lock, read the record before.
MarkStays ==
  \A v \in marked \ overwritten : record[v] # NoRecord /\ record[v].keep

\* A VM vm-create made is never without a record: one would have no owner and
\* never be reaped.
Owned == \A v \in VMs : vm[v] # "none" => record[v] # NoRecord

\* Nothing removes a VM while another command that took its lock is at it.
UsedStays ==
  [][\A v \in VMs : vm[v] # "none" /\ vm'[v] = "none" =>
       Cardinality({p \in Procs : \/ proc[p].vm = v /\ proc[p].op # "screen"
                                  \/ proc[p].at = v}) = 1]_vars

\* vm-reap never removes a VM that was reported marked.
ReapSparesMarked ==
  [][\A v \in marked : vm[v] # "none" /\ vm'[v] = "none" =>
       \E p \in Procs : At(p, "remove") /\ proc[p].op = "delete" /\ proc[p].vm = v]_vars
=============================================================================
