------------------------------- MODULE Ledger -------------------------------
(***************************************************************************)
(* The ledger: what each command did, spooled on its Mac and sent to the   *)
(* Worker (internal/ledger, cmd/irgo-winvm/ledger.go, worker/ledger.go).   *)
(*                                                                         *)
(* Every process of the tool appends to one spool.  A flush, in the        *)
(* background after each event and once more before the process exits,     *)
(* moves the spool to inflight.jsonl and posts it a batch at a time, under *)
(* a lock that dies with its process.  The Worker inserts each event by    *)
(* its id, once.  A process runs one command, which is one op.             *)
(***************************************************************************)
EXTENDS Integers, FiniteSets, Sequences, Functions

CONSTANTS
  Ops,       \* one process each
  Nobody,
  Odd,       \* ops whose events the Worker refuses (a clock far off)
  MaxSpool,  \* events the spool takes (4 MiB)
  MaxBatch,  \* events in a post (25)
  Rounds     \* rounds of a flush (4)

ASSUME LedgerAssumption ==
  /\ Nobody \notin Ops /\ Odd \subseteq Ops
  /\ MaxSpool \in Nat /\ {MaxBatch, Rounds} \subseteq Nat \ {0}

VARIABLES
  spool,     \* spool.jsonl
  inflight,  \* inflight.jsonl, empty when there is none
  torn,      \* the spool ends in a line cut short
  offline,   \* a send failed within the last minute
  flushing,  \* who holds flush.lock
  tool,      \* each process: what it does, and its flush
  rows,      \* the events table: how many rows each event has
  said,      \* history: every event recorded, in order
  dropped    \* history: ops with an event that found the spool full or torn

ledgerVars == <<spool, inflight, torn, offline, flushing, tool, rows, said, dropped>>

\* late: an end that has another millisecond than its start.
Events == [op: Ops, kind: {"start", "end"}, late: BOOLEAN]

Event(op, kind, late) == [op |-> op, kind |-> kind, late |-> late]

Lesser(a, b) == IF a < b THEN a ELSE b

LedgerInit ==
  /\ spool = <<>> /\ inflight = <<>> /\ torn = FALSE
  /\ offline = FALSE
  /\ flushing = Nobody
  /\ tool = [p \in Ops |-> [pc |-> "start", flush |-> "off", left |-> <<>>, rounds |-> 0]]
  /\ rows = [e \in Events |-> 0] /\ said = <<>> /\ dropped = {}

Sets(p, t) == tool' = [tool EXCEPT ![p] = t]
-----------------------------------------------------------------------------
(* Recording.                                                              *)

\* The line written after one that was cut short is one line with it, which
\* no flush can read.
Appends(e) ==
  IF Len(spool) >= MaxSpool
  THEN dropped' = dropped \cup {e.op} /\ UNCHANGED <<spool, torn, said>>
  ELSE /\ torn' = FALSE
       /\ IF torn THEN dropped' = dropped \cup {e.op} /\ UNCHANGED <<spool, said>>
          ELSE /\ spool' = Append(spool, e) /\ said' = Append(said, e)
               /\ UNCHANGED dropped

\* Emit: the event is appended under spool.lock, then sent in the background
\* unless this process is sending already.
Emits(p, event, step) ==
  /\ Appends(event)
  /\ Sets(p, [tool[p] EXCEPT !.pc = step, !.flush = IF @ = "off" THEN "wants" ELSE @])
  /\ UNCHANGED <<inflight, offline, flushing, rows>>

CommandStarts(p) ==
  tool[p].pc = "start" /\ Emits(p, Event(p, "start", FALSE), "work")
CommandEnds(p) ==
  tool[p].pc = "work" /\ \E late \in BOOLEAN : Emits(p, Event(p, "end", late), "drain")

\* The disk fills as a line is written: part of it stays.
AppendTears(p) ==
  /\ tool[p].pc = "start" /\ ~torn /\ Len(spool) < MaxSpool
  /\ torn' = TRUE
  /\ dropped' = dropped \cup {p}
  /\ Sets(p, [tool[p] EXCEPT !.pc = "work"])
  /\ UNCHANGED <<spool, inflight, offline, flushing, rows, said>>

\* Drain: the background send is waited for, and one flush more is made.
DrainFlushes(p) ==
  /\ tool[p].pc = "drain" /\ tool[p].flush = "off"
  /\ Sets(p, [tool[p] EXCEPT !.pc = "drained", !.flush = "wants"])
  /\ UNCHANGED <<spool, inflight, torn, offline, flushing, rows, said, dropped>>

\* Mutant of LetGo: the flush lock outlives its process.
LetGoNot(p) == UNCHANGED flushing

\* flock: the lock goes with its process.
LetGo(p) == flushing' = IF flushing = p THEN Nobody ELSE flushing

\* The process ends, its flush done; or its budget is spent, or it is killed,
\* and a flush under way ends with it.
Exits(p) ==
  /\ tool[p].pc \in {"drain", "drained"}
  /\ Sets(p, [tool[p] EXCEPT !.pc = "gone", !.flush = "off", !.left = <<>>])
  /\ LetGo(p)
  /\ UNCHANGED <<spool, inflight, torn, offline, rows, said, dropped>>

\* It is killed before it recorded its end.
Killed(p) ==
  /\ tool[p].pc = "work"
  /\ Sets(p, [tool[p] EXCEPT !.pc = "killed", !.flush = "off", !.left = <<>>])
  /\ LetGo(p)
  /\ UNCHANGED <<spool, inflight, torn, offline, rows, said, dropped>>
-----------------------------------------------------------------------------
(* Flushing.                                                               *)

recording == <<torn, said, dropped>>

\* Nothing is tried within a minute of a failure, nor under another's lock.
FlushBegins(p) ==
  /\ tool[p].flush = "wants"
  /\ IF offline \/ flushing # Nobody
     THEN Sets(p, [tool[p] EXCEPT !.flush = "off"]) /\ UNCHANGED flushing
     ELSE /\ flushing' = p
          /\ Sets(p, [tool[p] EXCEPT !.flush = "round", !.rounds = Rounds])
  /\ UNCHANGED <<recording, spool, inflight, offline, rows>>

FlushDone(p) == Sets(p, [tool[p] EXCEPT !.flush = "off", !.left = <<>>]) /\ flushing' = Nobody

\* Mutant of FlushTakes: the spool is moved whatever is in flight.
FlushOverwrites(p) ==
  /\ tool[p].flush = "round"
  /\ IF (spool = <<>> /\ ~torn) \/ tool[p].rounds = 0
     THEN FlushDone(p) /\ UNCHANGED <<spool, inflight, torn>>
     ELSE /\ inflight' = spool /\ spool' = <<>> /\ torn' = FALSE
          /\ Sets(p, [tool[p] EXCEPT !.flush = "post", !.left = spool, !.rounds = @ - 1])
          /\ UNCHANGED flushing
  /\ UNCHANGED <<said, dropped, offline, rows>>

\* A round: what a flush that died left goes first; else the spool is moved.
FlushTakes(p) ==
  /\ tool[p].flush = "round"
  /\ IF (inflight = <<>> /\ spool = <<>> /\ ~torn) \/ tool[p].rounds = 0
     THEN FlushDone(p) /\ UNCHANGED <<spool, inflight, torn>>
     ELSE LET moved == inflight = <<>>
              file  == IF moved THEN spool ELSE inflight
          IN  /\ inflight' = file
              /\ spool' = IF moved THEN <<>> ELSE spool
              /\ torn' = (torn /\ ~moved)
              /\ Sets(p, [tool[p] EXCEPT !.flush = "post", !.left = file, !.rounds = @ - 1])
              /\ UNCHANGED flushing
  /\ UNCHANGED <<said, dropped, offline, rows>>

Batch(p) == SubSeq(tool[p].left, 1, Lesser(MaxBatch, Len(tool[p].left)))

\* INSERT OR IGNORE: what is refused is never stored, and what is there stays.
LedgerPost(batch) ==
  [e \in Events |-> IF e \in Range(batch) /\ e.op \notin Odd /\ rows[e] = 0 THEN 1 ELSE rows[e]]

\* The Worker stores the batch, or the part of it before D1 failed.
Stores(batch) == \E n \in 0..Len(batch) : rows' = LedgerPost(SubSeq(batch, 1, n))

PostSucceeds(p) ==
  /\ tool[p].flush = "post" /\ tool[p].left # <<>>
  /\ rows' = LedgerPost(Batch(p))
  /\ Sets(p, [tool[p] EXCEPT !.left = SubSeq(@, Len(Batch(p)) + 1, Len(@))])
  /\ UNCHANGED <<recording, spool, inflight, offline, flushing>>

\* It fails, or its answer is lost or too late: what is left is kept, and
\* nothing is tried for a minute.
PostFails(p) ==
  /\ tool[p].flush = "post" /\ tool[p].left # <<>>
  /\ Stores(Batch(p))
  /\ offline' = TRUE
  /\ inflight' = tool[p].left
  /\ FlushDone(p)
  /\ UNCHANGED <<recording, spool>>

\* All of it was taken.
FlushRemoves(p) ==
  /\ tool[p].flush = "post" /\ tool[p].left = <<>>
  /\ inflight' = <<>> /\ offline' = FALSE
  /\ Sets(p, [tool[p] EXCEPT !.flush = "round"])
  /\ UNCHANGED <<recording, spool, flushing, rows>>

OfflineMarkAges ==
  /\ offline /\ offline' = FALSE
  /\ UNCHANGED <<recording, spool, inflight, flushing, tool, rows>>

\* Later commands flush what the ones before them left.  One that records
\* nothing itself stands for them.
LaterCommand(p) ==
  /\ tool[p].pc \in {"gone", "killed"} /\ tool[p].flush = "off"
  /\ spool # <<>> \/ inflight # <<>>
  /\ Sets(p, [tool[p] EXCEPT !.flush = "wants"])
  /\ UNCHANGED <<recording, spool, inflight, offline, flushing, rows>>

FlushSteps(p) == FlushBegins(p) \/ FlushTakes(p) \/ FlushRemoves(p)

LedgerNext ==
  \/ \E p \in Ops :
       \/ CommandStarts(p) \/ CommandEnds(p) \/ AppendTears(p) \/ DrainFlushes(p)
       \/ Exits(p) \/ Killed(p) \/ LaterCommand(p)
       \/ FlushSteps(p) \/ PostSucceeds(p) \/ PostFails(p)
  \/ OfflineMarkAges

\* The minute passes, commands are run and end, a flush goes on, and a post that is
\* made again and again is taken in the end.
LedgerFairness ==
  /\ WF_ledgerVars(OfflineMarkAges)
  /\ \A p \in Ops : /\ WF_ledgerVars(CommandEnds(p) \/ DrainFlushes(p) \/ Exits(p))
                    /\ WF_ledgerVars(LaterCommand(p)) /\ WF_ledgerVars(FlushSteps(p))
                    /\ SF_ledgerVars(PostSucceeds(p))

LedgerSpec == LedgerInit /\ [][LedgerNext]_ledgerVars /\ LedgerFairness
-----------------------------------------------------------------------------
(* The view the Worker builds of the rows.                                 *)

InTable == {e \in Events : rows[e] > 0}

Stored(kind) == {e.op : e \in {r \in InTable : r.kind = kind}}

\* Mutant of OpenOps: rows are read once, in the order of time and id.
OpenOpsInOrder ==
  {op \in Stored("start") : \A e \in InTable : e.op = op /\ e.kind = "end" => ~e.late}

\* buildView: what closed an op is worked out first, so an end that sorts
\* before its start, in the millisecond of both, still closes it.
OpenOps == Stored("start") \ Stored("end")
-----------------------------------------------------------------------------
(* Properties.                                                             *)

\* No event that was recorded is lost: it is in the spool, in flight or
\* stored, whichever processes are killed and whichever posts fail.
NothingLost ==
  Range(said) \subseteq
    Range(spool) \cup Range(inflight) \cup InTable \cup {e \in Range(said) : e.op \in Odd}

\* An event is stored once, however often it is sent.
StoredOnce == \A e \in Events : rows[e] <= 1

\* Events are stored in the order they were recorded: the ledger never holds
\* an end whose start is still on the Mac.
OlderFirst ==
  \A i, j \in DOMAIN said :
    i < j /\ said[j] \in InTable => said[i] \in InTable \/ said[i].op \in Odd

\* Between the command that recorded it and the Worker's table an event is
\* neither lost, nor doubled, nor overtaken.
EachOnceInOrder == NothingLost /\ StoredOnce /\ OlderFirst

\* Once all is sent, the ledger shows no work open but what was killed, or
\* whose end was dropped.
ViewTrue ==
  spool = <<>> /\ inflight = <<>> =>
    \A p \in OpenOps : tool[p].pc \in {"work", "killed"} \/ p \in dropped

\* Whatever was recorded reaches the ledger in the end, if commands are run
\* and the Worker comes back.
Arrives == [](spool # <<>> \/ inflight # <<>> => <>(spool = <<>> /\ inflight = <<>>))
=============================================================================
