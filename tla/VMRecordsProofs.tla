--------------------------- MODULE VMRecordsProofs ---------------------------
(***************************************************************************)
(* One Mac's VMs and their records, for any number of VMs and of commands  *)
(* at once, each of which may die anywhere.                                *)
(*                                                                         *)
(* What a command knows of its VM it knows because it holds that VM's      *)
(* lock: Own says what that is, and OthersOwn that no step of another      *)
(* changes it.  vm-screen writes a record and holds no lock; what others    *)
(* know of that record is excused by overwritten.                          *)
(***************************************************************************)
EXTENDS VMRecords, FiniteSetTheorems, TLAPS

\* Two records that say the same, but for when the VM was last used.
Agree(r, s) == r.keep = s.keep /\ r.creator = s.creator

\* What a command knows, of itself, its locks and what they guard.
Own(p) ==
  LET c == proc[p]
  IN  /\ c.op = "screen" => c.step \in {"touch", "touched", "work"} /\ c.at = None
      /\ c.step = "idle" => c.op = "none" /\ c.vm = None /\ c.at = None
      /\ c.op \notin {"none", "reap"} => c.vm # None
      /\ c.op = "reap" => c.vm = None /\ c.step \in {"reap", "remove", "forget"}
      /\ c.step \in {"remove", "forget"} => c.at # None \/ c.vm # None
      /\ c.step \notin {"idle", "reap", "remove", "forget"} => c.vm # None
      /\ c.vm # None => c.op = "screen" \/ lock[c.vm] = p
      /\ c.at # None => lock[c.at] = p /\ c.at # c.vm
      /\ c.step \in {"cap", "find", "table", "room"} => c.op = "create"
      /\ c.step \in {"find", "table", "room"} => cap = p
      /\ c.step \in {"touched", "write", "clear"} =>
           /\ c.copy # NoRecord
           /\ c.op = "screen" \/ c.vm \in overwritten \/ Agree(c.copy, record[c.vm])
      /\ c.made => /\ c.step \in {"make", "start", "wait", "finish", "clear"}
                   /\ record[c.vm] # NoRecord
                   /\ c.vm \in overwritten \/ record[c.vm].creator = p
      /\ c.step \in {"make", "finish", "clear"} => c.made
      /\ c.made /\ c.step \in {"make", "start"} => vm[c.vm] # "running"
      /\ c.step = "forget" => vm[Target(p)] = "none"
      /\ c.step \in {"table", "room"} => vm[c.vm] # "running"
      /\ c.step = "room" => c.vm \notin c.seen

\* A pid in a record is that of the command that is making its VM.
Creators ==
  \A v \in VMs \ overwritten : record[v].creator \in Procs =>
    proc[record[v].creator].made /\ proc[record[v].creator].vm = v

\* VMs that are being made and have not run yet.
Making == {v \in VMs : \E p \in Procs : /\ proc[p].made /\ proc[p].vm = v
                                        /\ proc[p].step \in {"make", "start"}}

\* Those that run and those that will, but for what RoomKept excuses.
Using == (Running \union Making) \ (uncounted \union overwritten)

\* What a command with a table of UTM's does not see there it will count as
\* pending.
Counted ==
  \A p \in Procs : At(p, "room") =>
    \A v \in Using : v \in proc[p].seen \/ record[v].creator \in Procs

Fits == Cardinality(Using) <= Room

VMInv ==
  /\ TypeOK /\ (\A p \in Procs : Own(p)) /\ Owned /\ MarkStays
  /\ Creators /\ Counted /\ Fits /\ uncounted \subseteq Running
-----------------------------------------------------------------------------
(* Lemmas.                                                                 *)

\* A missing record is none.
LEMMA NoRecordApart == NoRecord \notin Record
<1>1. "none" \in DOMAIN NoRecord
  BY DEF NoRecord
<1>2. \A r \in Record : DOMAIN r = {"creator", "keep", "stale"}
  BY DEF Record
<1> QED BY <1>1, <1>2

\* What one command's step does to the table of commands.
LEMMA Becoming ==
  ASSUME TypeOK, NEW p \in Procs, NEW c \in Command, Become(p, c)
  PROVE  /\ proc' \in [Procs -> Command] /\ proc'[p] = c
         /\ \A q \in Procs \ {p} : proc'[q] = proc[q]
BY DEF TypeOK, Become

\* A step that changes VMs and records only under the locks of p, and takes or
\* drops locks of p only, leaves what another command knows.
LEMMA OthersOwn ==
  ASSUME TypeOK, NEW p \in Procs, NEW q \in Procs, q # p, Own(q),
         proc'[q] = proc[q],
         \A v \in VMs : lock[v] = q =>
           /\ lock'[v] = q /\ vm'[v] = vm[v]
           /\ v \in overwritten => v \in overwritten'
           /\ record[v] # NoRecord => record'[v] # NoRecord
           /\ v \in overwritten' \/ Agree(record'[v], record[v]),
         cap = q => cap' = q
  PROVE  Own(q)'
<1>1. proc[q].vm \in VMs \union {None} /\ proc[q].at \in VMs \union {None}
  BY DEF TypeOK, Command
<1>2. /\ Target(q)' = Target(q) /\ (proc[q].step = "forget" => Target(q) \in VMs /\ lock[Target(q)] = q)
      /\ proc[q].step \in {"table", "room"} => lock[proc[q].vm] = q /\ proc[q].vm \in VMs
      /\ proc[q].made => lock[proc[q].vm] = q /\ proc[q].vm \in VMs
  BY <1>1, NamesAssumption DEF Own, Target, Mine
<1>3. proc[q].step \in {"touched", "write", "clear"} =>
        /\ proc[q].copy # NoRecord
        /\ proc[q].op = "screen" \/ proc[q].vm \in overwritten' \/ Agree(proc[q].copy, record'[proc[q].vm])
  BY <1>1, NamesAssumption DEF Own, Agree
<1>4. proc[q].made =>
        record'[proc[q].vm] # NoRecord /\ (proc[q].vm \in overwritten' \/ record'[proc[q].vm].creator = q)
  BY <1>1, <1>2 DEF Own, Agree
<1> QED BY <1>1, <1>2, <1>3, <1>4, NamesAssumption DEF Own

\* When no more VMs use memory than before, they still fit.
LEMMA LessFits ==
  ASSUME Fits, Using' \subseteq Using
  PROVE  Fits'
<1>1. IsFiniteSet(Using)
  BY NamesAssumption, FS_Subset DEF Using, Running, Making
<1>2. /\ Cardinality(Using') <= Cardinality(Using)
      /\ Cardinality(Using) \in Nat /\ Cardinality(Using') \in Nat
  BY <1>1, FS_Subset, FS_CardinalityType
<1> QED BY <1>2, RoomAssumption DEF Fits

\* A step that writes no VM and no record keeps the invariant if the command
\* knows afterwards what Own says, and forgets of nothing it is making.
LEMMA QuietKeeps ==
  ASSUME VMInv, NEW p \in Procs, NEW c \in Command, Become(p, c), UNCHANGED <<vm, record, history>>,
         lock' \in [VMs -> Procs \cup {None}], cap' \in Procs \cup {None}, marked' \subseteq VMs,
         \A v \in VMs : lock[v] \notin {None, p} => lock'[v] = lock[v],
         cap \notin {None, p} => cap' = cap,
         MarkStays', Own(p)',
         proc[p].made => c.made /\ c.vm = proc[p].vm,
         c.made /\ c.step \in {"make", "start"} =>
           proc[p].made /\ proc[p].step \in {"make", "start"} /\ c.vm = proc[p].vm,
         c.step = "room" => \A v \in Using : v \in c.seen \/ record[v].creator \in Procs
  PROVE  VMInv'
<1>1. /\ TypeOK /\ proc' \in [Procs -> Command] /\ proc'[p] = c
      /\ \A q \in Procs \ {p} : proc'[q] = proc[q]
  BY Becoming DEF VMInv
<1>2. TypeOK'
  BY <1>1 DEF TypeOK, history
<1>3. \A q \in Procs : Own(q)'
  <2>1. ASSUME NEW q \in Procs, q # p PROVE Own(q)'
    <3>1. /\ Own(q) /\ proc'[q] = proc[q] /\ q # None
          /\ \A v \in VMs : lock[v] = q =>
               /\ lock'[v] = q /\ vm'[v] = vm[v] /\ record'[v] = record[v]
               /\ v \in overwritten => v \in overwritten'
          /\ cap = q => cap' = q
      BY <1>1, <2>1, NamesAssumption DEF VMInv, history
    <3> QED BY <1>1, <2>1, <3>1, OthersOwn DEF Agree
  <2> QED BY <2>1
<1>4. Owned' /\ MarkStays'
  BY DEF VMInv, Owned
<1>5. Creators'
  BY <1>1 DEF VMInv, Creators, history
<1>6. Running' = Running /\ Using' \subseteq Using /\ (uncounted \subseteq Running)'
  <2>1. Running' = Running /\ Making' \subseteq Making
    BY <1>1 DEF Running, Making
  <2> QED BY <2>1 DEF VMInv, Using, history
<1>7. Counted'
  BY <1>1, <1>6 DEF VMInv, Counted, At
<1>8. Fits'
  BY <1>6, LessFits DEF VMInv
<1> QED BY <1>2, <1>3, <1>4, <1>5, <1>6, <1>7, <1>8 DEF VMInv

\* What the invariant says of one command.
LEMMA Known ==
  ASSUME VMInv, NEW p \in Procs
  PROVE  /\ TypeOK /\ Own(p) /\ proc[p] \in Command /\ p # None /\ None \notin VMs
         /\ proc[p].vm \in VMs \union {None} /\ proc[p].at \in VMs \union {None}
BY NamesAssumption DEF VMInv, TypeOK, Command

\* What is left to a command that works on: its VM, and nothing it is making.
LEMMA WorksTo ==
  ASSUME VMInv, NEW p \in Procs, Works(p)
  PROVE  \E c \in Command : /\ Become(p, c)
                            /\ c.step = "work" /\ c.op = proc[p].op /\ c.vm = proc[p].vm
                            /\ c.at = None /\ c.made = FALSE
<1> DEFINE c == [Idle EXCEPT !.step = "work", !.op = proc[p].op, !.vm = proc[p].vm]
<1>1. proc[p] \in Command
  BY Known
<1>2. NoRecords \in Records
  BY DEF NoRecords, Records
<1>3. /\ c \in Command
      /\ c.step = "work" /\ c.op = proc[p].op /\ c.vm = proc[p].vm
      /\ c.at = None /\ c.made = FALSE
  BY <1>1, <1>2 DEF Command, Idle, Steps
<1>4. Become(p, c)
  BY DEF Works, Mine
<1> HIDE DEF c
<1> QED BY <1>3, <1>4

\* The same of a command whose lease is renewed.
LEMMA GoesOnTo ==
  ASSUME VMInv, NEW p \in Procs, GoesOn(p), proc[p].step \in {"touch", "touched"}
  PROVE  \E c \in Command : /\ Become(p, c)
                            /\ c.step \in {"start", "mark", "work"}
                            /\ c.op = proc[p].op /\ c.vm = proc[p].vm
                            /\ c.at \in {None, proc[p].at} /\ c.made = FALSE
                            /\ c.step = "start" => c.op = "create"
                            /\ c.step = "mark" => c.op \in {"keep", "unkeep"}
<1>1. proc[p] \in Command /\ proc[p].made = FALSE
  BY Known DEF Own, Command
<1>2. NoRecords \in Records
  BY DEF NoRecords, Records
<1>3. CASE proc[p].op = "create"
  <2> DEFINE c == [Idle EXCEPT !.step = "start", !.op = "create", !.vm = proc[p].vm]
  <2>1. /\ c \in Command
        /\ c.step = "start" /\ c.op = proc[p].op /\ c.vm = proc[p].vm
        /\ c.at = None /\ c.made = FALSE
    BY <1>1, <1>2, <1>3 DEF Command, Idle, Steps
  <2>2. Become(p, c)
    BY <1>3 DEF GoesOn, Mine
  <2> HIDE DEF c
  <2> QED BY <1>3, <2>1, <2>2
<1>4. CASE proc[p].op \in {"keep", "unkeep"}
  <2> DEFINE c == [proc[p] EXCEPT !.step = "mark", !.copy = NoRecord]
  <2>1. /\ c \in Command
        /\ c.step = "mark" /\ c.op = proc[p].op /\ c.vm = proc[p].vm
        /\ c.at = proc[p].at /\ c.made = FALSE
    BY <1>1 DEF Command, Steps
  <2>2. Become(p, c)
    BY <1>4 DEF GoesOn
  <2> HIDE DEF c
  <2> QED BY <1>4, <2>1, <2>2
<1>5. CASE proc[p].op \notin {"create", "keep", "unkeep"}
  <2>1. Works(p)
    BY <1>5 DEF GoesOn
  <2> QED BY <2>1, WorksTo
<1> QED BY <1>3, <1>4, <1>5
-----------------------------------------------------------------------------
(* Steps that write no VM and no record.                                   *)

LEMMA BeginsKeeps ==
  ASSUME VMInv, NEW p \in Procs, NEW op \in Commands \ {"reap"}, NEW v \in VMs,
         Begins(p, op, v)
  PROVE  VMInv'
<1> DEFINE step == IF op = "create" THEN "cap" ELSE IF op = "delete" THEN "remove" ELSE "touch"
           c == [Idle EXCEPT !.op = op, !.vm = v, !.step = step]
<1>1. /\ c \in Command
      /\ c.step = step /\ c.op = op /\ c.vm = v /\ c.at = None /\ c.made = FALSE
  BY DEF Command, Idle, Steps, NoRecords, Records
<1>2. /\ Become(p, c) /\ UNCHANGED <<vm, record, cap, marked, history>>
      /\ op # "screen" => Take(p, v)
      /\ op = "screen" => lock' = lock
  BY DEF Begins
<1>3. /\ step \in {"cap", "remove", "touch"} /\ (step = "cap" => op = "create")
      /\ op \notin {"none", "reap"} /\ (op = "screen" => step = "touch")
  BY CommandsAssumption DEF AllCommands
<1> HIDE DEF c, step
<1>4. /\ proc'[p] = c /\ TypeOK /\ Own(p) /\ proc[p].step = "idle" /\ p # None /\ None \notin VMs
  BY <1>1, <1>2, Known, Becoming DEF Begins, At
<1>5. /\ lock' \in [VMs -> Procs \cup {None}] /\ (op # "screen" => lock'[v] = p)
      /\ \A u \in VMs : lock[u] \notin {None, p} => lock'[u] = lock[u]
  BY <1>2, <1>4 DEF Take, TypeOK
<1>6. Own(p)'
  BY <1>1, <1>3, <1>4, <1>5 DEF Own
<1>7. MarkStays' /\ marked' \subseteq VMs /\ cap' \in Procs \cup {None} /\ cap' = cap
  BY <1>2, <1>4 DEF VMInv, MarkStays, TypeOK, history
<1>8. /\ proc[p].made = FALSE /\ c.step \notin {"make", "start", "room"}
  BY <1>1, <1>3, <1>4 DEF Own, TypeOK, Command
<1> QED BY <1>1, <1>2, <1>5, <1>6, <1>7, <1>8, QuietKeeps

LEMMA TouchReadsKeeps ==
  ASSUME VMInv, NEW p \in Procs, TouchReads(p)
  PROVE  VMInv'
<1>1. /\ UNCHANGED <<vm, record, lock, marked, history>> /\ TypeOK /\ Own(p) /\ proc[p] \in Command
      /\ proc[p].step = "touch" /\ proc[p].vm \in VMs /\ proc[p].made = FALSE
      /\ p # None /\ proc[p].at \in VMs \union {None}
  BY Known DEF TouchReads, At, Own, Command
<1>2. /\ lock \in [VMs -> Procs \cup {None}] /\ cap' \in Procs \cup {None}
      /\ cap \notin {None, p} => cap' = cap
  BY <1>1 DEF TouchReads, TypeOK
<1>3. MarkStays' /\ marked' \subseteq VMs
  BY <1>1 DEF VMInv, MarkStays, TypeOK, history
<1>4. PICK c \in Command :
         /\ Become(p, c) /\ c.op = proc[p].op /\ c.vm = proc[p].vm
         /\ c.at \in {None, proc[p].at} /\ c.made = FALSE
         /\ \/ c.step \in {"start", "mark", "work"}
            \/ c.step = "touched" /\ c.copy = record[c.vm] /\ c.copy # NoRecord
         /\ c.step = "start" => c.op = "create"
         /\ c.step = "mark" => c.op \in {"keep", "unkeep"}
  <2>1. CASE record[Mine(p)] = NoRecord
    <3>1. GoesOn(p)
      BY <2>1 DEF TouchReads
    <3> QED BY <1>1, <3>1, GoesOnTo
  <2>2. CASE record[Mine(p)] # NoRecord
    <3> DEFINE c == [proc[p] EXCEPT !.step = "touched", !.copy = record[Mine(p)]]
    <3>1. record[Mine(p)] \in Record \union {NoRecord}
      BY <1>1 DEF TypeOK, Records, Mine
    <3>2. /\ c \in Command /\ c.op = proc[p].op /\ c.vm = proc[p].vm
          /\ c.at = proc[p].at /\ c.made = FALSE
          /\ c.step = "touched" /\ c.copy = record[c.vm] /\ c.copy # NoRecord
      BY <1>1, <2>2, <3>1 DEF Command, Steps, Mine
    <3>3. Become(p, c)
      BY <2>2 DEF TouchReads
    <3> HIDE DEF c
    <3> QED BY <3>2, <3>3
  <2> QED BY <2>1, <2>2
<1>5. proc'[p] = c
  BY <1>1, <1>4, Becoming
<1>6. Own(p)'
  BY <1>1, <1>4, <1>5 DEF Own, Agree
<1> QED BY <1>1, <1>2, <1>3, <1>4, <1>6, QuietKeeps

LEMMA MarkReadsKeeps ==
  ASSUME VMInv, NEW p \in Procs, MarkReads(p)
  PROVE  VMInv'
<1>1. /\ UNCHANGED <<vm, record, lock, cap, history>> /\ TypeOK /\ Own(p) /\ proc[p] \in Command
      /\ proc[p].step = "mark" /\ proc[p].vm \in VMs /\ proc[p].made = FALSE
      /\ p # None /\ proc[p].at \in VMs \union {None} /\ record[proc[p].vm] # NoRecord
  BY Known DEF MarkReads, At, Own, Command, Mine
<1>2. lock \in [VMs -> Procs \cup {None}] /\ cap' \in Procs \cup {None}
  BY <1>1 DEF TypeOK
<1>3. MarkStays' /\ marked' \subseteq VMs
  <2>1. \/ marked' = marked
        \/ marked' = marked \cup {proc[p].vm} /\ record[proc[p].vm].keep
    BY DEF MarkReads, Mine
  <2> QED BY <1>1, <2>1 DEF VMInv, MarkStays, TypeOK, history
<1>4. PICK c \in Command :
         /\ Become(p, c) /\ c.op = proc[p].op /\ c.vm = proc[p].vm
         /\ c.at \in {None, proc[p].at} /\ c.made = FALSE
         /\ \/ c.step = "work"
            \/ c.step = "write" /\ c.copy = record[c.vm]
  <2>1. CASE Works(p)
    BY <2>1, WorksTo
  <2>2. CASE Become(p, [proc[p] EXCEPT !.step = "write", !.copy = record[Mine(p)]])
    <3> DEFINE c == [proc[p] EXCEPT !.step = "write", !.copy = record[Mine(p)]]
    <3>1. record[Mine(p)] \in Record \union {NoRecord}
      BY <1>1 DEF TypeOK, Records, Mine
    <3>2. /\ c \in Command /\ c.op = proc[p].op /\ c.vm = proc[p].vm
          /\ c.at = proc[p].at /\ c.made = FALSE
          /\ c.step = "write" /\ c.copy = record[c.vm]
      BY <1>1, <3>1 DEF Command, Steps, Mine
    <3>3. Become(p, c)
      BY <2>2
    <3> HIDE DEF c
    <3> QED BY <3>2, <3>3
  <2> QED BY <2>1, <2>2 DEF MarkReads
<1>5. proc'[p] = c
  BY <1>1, <1>4, Becoming
<1>6. Own(p)'
  BY <1>1, <1>4, <1>5 DEF Own, Agree
<1> QED BY <1>1, <1>2, <1>3, <1>4, <1>6, QuietKeeps

LEMMA MarkReadsBackKeeps ==
  ASSUME VMInv, NEW p \in Procs, MarkReadsBack(p)
  PROVE  VMInv'
<1>1. /\ UNCHANGED <<vm, record, lock, cap, history>> /\ TypeOK /\ Own(p)
      /\ proc[p].step = "back" /\ proc[p].vm \in VMs /\ proc[p].made = FALSE /\ p # None
  BY Known DEF MarkReadsBack, At, Own, Command
<1>2. lock \in [VMs -> Procs \cup {None}] /\ cap' \in Procs \cup {None}
  BY <1>1 DEF TypeOK
<1>3. MarkStays' /\ marked' \subseteq VMs
  <2>1. \/ marked' = marked
        \/ marked' = marked \cup {proc[p].vm} /\ record[proc[p].vm] # NoRecord /\ record[proc[p].vm].keep
    BY DEF MarkReadsBack, Mine
  <2> QED BY <1>1, <2>1 DEF VMInv, MarkStays, TypeOK, history
<1>4. PICK c \in Command :
         /\ Become(p, c) /\ c.step = "work" /\ c.op = proc[p].op /\ c.vm = proc[p].vm
         /\ c.at = None /\ c.made = FALSE
  BY WorksTo DEF MarkReadsBack
<1>5. proc'[p] = c
  BY <1>1, <1>4, Becoming
<1>6. Own(p)'
  BY <1>1, <1>4, <1>5 DEF Own
<1> QED BY <1>1, <1>2, <1>3, <1>4, <1>6, QuietKeeps

LEMMA TakesCapacityKeeps ==
  ASSUME VMInv, NEW p \in Procs, TakesCapacity(p)
  PROVE  VMInv'
<1> DEFINE c == [proc[p] EXCEPT !.step = "find"]
<1>1. /\ UNCHANGED <<vm, record, lock, marked, history>> /\ cap = None /\ cap' = p /\ Become(p, c)
      /\ TypeOK /\ Own(p) /\ proc[p] \in Command /\ p # None
      /\ proc[p].step = "cap" /\ proc[p].vm \in VMs /\ proc[p].made = FALSE
  BY Known DEF TakesCapacity, At, Go, Own, Command
<1>2. /\ c \in Command /\ c.step = "find" /\ c.op = proc[p].op /\ c.vm = proc[p].vm
      /\ c.at = proc[p].at /\ c.made = FALSE
  BY <1>1 DEF Command, Steps
<1> HIDE DEF c
<1>3. lock \in [VMs -> Procs \cup {None}] /\ MarkStays' /\ marked' \subseteq VMs
  BY <1>1 DEF VMInv, MarkStays, TypeOK, history
<1>4. proc'[p] = c
  BY <1>1, <1>2, Becoming
<1>5. Own(p)'
  BY <1>1, <1>2, <1>4 DEF Own
<1> QED BY <1>1, <1>2, <1>3, <1>5, QuietKeeps

LEMMA FindsKeeps ==
  ASSUME VMInv, NEW p \in Procs, Finds(p)
  PROVE  VMInv'
<1> DEFINE step == IF vm[Mine(p)] = "running" THEN "touch" ELSE "table"
           c == [proc[p] EXCEPT !.step = step]
<1>1. /\ UNCHANGED <<vm, record, lock, cap, marked, history>> /\ Become(p, c)
      /\ TypeOK /\ Own(p) /\ proc[p] \in Command /\ p # None
      /\ proc[p].step = "find" /\ proc[p].vm \in VMs /\ proc[p].made = FALSE
  BY Known DEF Finds, At, Go, Own, Command
<1>2. /\ c \in Command /\ c.step = step /\ c.op = proc[p].op /\ c.vm = proc[p].vm
      /\ c.at = proc[p].at /\ c.made = FALSE
  BY <1>1 DEF Command, Steps
<1>3. step = "touch" \/ (step = "table" /\ vm[proc[p].vm] # "running")
  BY DEF Mine
<1> HIDE DEF c, step
<1>4. /\ lock \in [VMs -> Procs \cup {None}] /\ cap \in Procs \cup {None}
      /\ MarkStays' /\ marked' \subseteq VMs
  BY <1>1 DEF VMInv, MarkStays, TypeOK, history
<1>5. proc'[p] = c
  BY <1>1, <1>2, Becoming
<1>6. Own(p)'
  BY <1>1, <1>2, <1>3, <1>5 DEF Own
<1> QED BY <1>1, <1>2, <1>3, <1>4, <1>6, QuietKeeps

LEMMA ReadsTableKeeps ==
  ASSUME VMInv, NEW p \in Procs, ReadsTable(p)
  PROVE  VMInv'
<1> DEFINE c == [proc[p] EXCEPT !.step = "room", !.seen = Running]
<1>1. /\ UNCHANGED <<vm, record, lock, cap, marked, history>> /\ Become(p, c)
      /\ TypeOK /\ Own(p) /\ proc[p] \in Command /\ p # None
      /\ proc[p].step = "table" /\ proc[p].vm \in VMs /\ proc[p].made = FALSE
      /\ vm[proc[p].vm] # "running"
  BY Known DEF ReadsTable, At, Own, Command
<1>2. Running \in SUBSET VMs
  BY DEF Running
<1>3. /\ c \in Command /\ c.step = "room" /\ c.op = proc[p].op /\ c.vm = proc[p].vm
      /\ c.at = proc[p].at /\ c.made = FALSE /\ c.seen = Running
  BY <1>1, <1>2 DEF Command, Steps
<1> HIDE DEF c
<1>4. /\ lock \in [VMs -> Procs \cup {None}] /\ cap \in Procs \cup {None}
      /\ MarkStays' /\ marked' \subseteq VMs
  BY <1>1 DEF VMInv, MarkStays, TypeOK, history
<1>5. proc'[p] = c /\ proc[p].vm \notin Running
  BY <1>1, <1>3, Becoming DEF Running
<1>6. Own(p)'
  BY <1>1, <1>3, <1>5 DEF Own
<1>7. \A v \in Using : v \in c.seen \/ record[v].creator \in Procs
  <2>1. \A v \in Making \ overwritten : record[v].creator \in Procs
    BY DEF VMInv, Own, Making
  <2> QED BY <1>3, <2>1 DEF Using
<1> QED BY <1>1, <1>3, <1>4, <1>6, <1>7, QuietKeeps

LEMMA RefusesKeeps ==
  ASSUME VMInv, NEW p \in Procs, Refuses(p)
  PROVE  VMInv'
<1> DEFINE c == [proc[p] EXCEPT !.step = "reap", !.seen = {}, !.reaped = "none",
                  !.list = record, !.todo = Has(record)]
<1>1. /\ UNCHANGED <<vm, record, lock, marked, history>> /\ cap' = None /\ Become(p, c)
      /\ TypeOK /\ Own(p) /\ proc[p] \in Command /\ p # None
      /\ proc[p].step \in {"find", "room"} /\ proc[p].vm \in VMs /\ proc[p].made = FALSE /\ cap = p
  BY Known DEF Refuses, MayBeRefused, At, Own, Command
<1>2. record \in Records /\ Has(record) \in SUBSET VMs
  BY <1>1 DEF TypeOK, Has
<1>3. /\ c \in Command /\ c.step = "reap" /\ c.op = proc[p].op /\ c.vm = proc[p].vm
      /\ c.at = proc[p].at /\ c.made = FALSE
  BY <1>1, <1>2 DEF Command, Steps
<1> HIDE DEF c
<1>4. lock \in [VMs -> Procs \cup {None}] /\ MarkStays' /\ marked' \subseteq VMs
  BY <1>1 DEF VMInv, MarkStays, TypeOK, history
<1>5. proc'[p] = c /\ c.op # "reap"
  BY <1>1, <1>3, Becoming DEF Own
<1>6. Own(p)'
  BY <1>1, <1>3, <1>5 DEF Own
<1> QED BY <1>1, <1>3, <1>4, <1>6, QuietKeeps

LEMMA ReturnsKeeps ==
  ASSUME VMInv, NEW p \in Procs, Returns(p)
  PROVE  VMInv'
<1>1. /\ UNCHANGED <<vm, record, lock, cap, marked, history>>
      /\ TypeOK /\ Own(p) /\ proc[p] \in Command /\ p # None
      /\ proc[p].step \in {"make", "start", "wait"} /\ proc[p].vm \in VMs
      /\ proc[p].at \in VMs \union {None}
  BY Known DEF Returns, At, Own
<1>2. PICK c \in Command :
         /\ Become(p, c) /\ c.op = proc[p].op /\ c.vm = proc[p].vm
         /\ c.at \in {None, proc[p].at} /\ c.made = proc[p].made
         /\ IF proc[p].made THEN c.step = "finish" ELSE c.step = "work"
  <2>1. CASE proc[p].made
    <3> DEFINE c == [proc[p] EXCEPT !.step = "finish"]
    <3>1. /\ c \in Command /\ c.op = proc[p].op /\ c.vm = proc[p].vm
          /\ c.at = proc[p].at /\ c.made = proc[p].made /\ c.step = "finish"
      BY <1>1 DEF Command, Steps
    <3>2. Become(p, c)
      BY <2>1 DEF Returns, Go
    <3> HIDE DEF c
    <3> QED BY <2>1, <3>1, <3>2
  <2>2. CASE ~proc[p].made
    <3>1. Works(p) /\ proc[p].made = FALSE
      BY <1>1, <2>2 DEF Returns, Command
    <3> QED BY <3>1, WorksTo
  <2> QED BY <2>1, <2>2
<1>3. /\ lock \in [VMs -> Procs \cup {None}] /\ cap \in Procs \cup {None}
      /\ MarkStays' /\ marked' \subseteq VMs
  BY <1>1 DEF VMInv, MarkStays, TypeOK, history
<1>4. proc'[p] = c
  BY <1>1, <1>2, Becoming
<1>5. Own(p)'
  <2>1. CASE proc[p].made
    <3>1. c.step = "finish" /\ c.made
      BY <1>2, <2>1
    <3> QED BY <1>1, <1>2, <1>4, <2>1, <3>1 DEF Own, history
  <2>2. CASE ~proc[p].made
    <3>1. c.step = "work" /\ ~c.made
      BY <1>2, <2>2
    <3> QED BY <1>1, <1>2, <1>4, <2>2, <3>1 DEF Own
  <2> QED BY <2>1, <2>2
<1> QED BY <1>1, <1>2, <1>3, <1>5, QuietKeeps

LEMMA ReapBeginsKeeps ==
  ASSUME VMInv, NEW p \in Procs, ReapBegins(p), "reap" \in Commands
  PROVE  VMInv'
<1> DEFINE c == [Idle EXCEPT !.op = "reap", !.step = "reap", !.list = record, !.todo = Has(record)]
<1>1. /\ UNCHANGED <<vm, record, lock, cap, marked, history>> /\ Become(p, c)
      /\ TypeOK /\ Own(p) /\ proc[p] \in Command /\ p # None
      /\ proc[p].step = "idle" /\ proc[p].made = FALSE
  BY Known DEF ReapBegins, At, Own, Command
<1>2. record \in Records /\ Has(record) \in SUBSET VMs
  BY <1>1 DEF TypeOK, Has
<1>3. /\ c \in Command /\ c.step = "reap" /\ c.op = "reap" /\ c.vm = None
      /\ c.at = None /\ c.made = FALSE
  BY <1>2 DEF Command, Steps, Idle
<1> HIDE DEF c
<1>4. /\ lock \in [VMs -> Procs \cup {None}] /\ cap \in Procs \cup {None}
      /\ MarkStays' /\ marked' \subseteq VMs
  BY <1>1 DEF VMInv, MarkStays, TypeOK, history
<1>5. proc'[p] = c
  BY <1>1, <1>3, Becoming
<1>6. Own(p)'
  BY <1>1, <1>3, <1>5 DEF Own
<1> QED BY <1>1, <1>3, <1>4, <1>6, QuietKeeps

\* A record decided is one less to decide.
LEMMA DecidedOne ==
  ASSUME NEW d \in Command, NEW v \in VMs
  PROVE  /\ Decided(d, v) \in Command
         /\ Decided(d, v).step = d.step /\ Decided(d, v).op = d.op /\ Decided(d, v).vm = d.vm
         /\ Decided(d, v).at = d.at /\ Decided(d, v).made = d.made
<1>1. d.todo \ {v} \in SUBSET VMs
  BY DEF Command
<1>2. [d.list EXCEPT ![v] = NoRecord] \in Records
  BY DEF Command, Records
<1> DEFINE l == [d.list EXCEPT ![v] = NoRecord]
           e == [d EXCEPT !.todo = d.todo \ {v}, !.list = l]
<1>3. Decided(d, v) = e
  BY DEF Decided, Command
<1>4. l \in Records
  BY <1>2
<1> HIDE DEF l
<1>5. /\ e \in Command /\ e.step = d.step /\ e.op = d.op /\ e.vm = d.vm
      /\ e.at = d.at /\ e.made = d.made
  BY <1>1, <1>4 DEF Command
<1> QED BY <1>3, <1>5

LEMMA KeepsKeeps ==
  ASSUME VMInv, NEW p \in Procs, NEW v \in VMs, Keeps(p, v)
  PROVE  VMInv'
<1> DEFINE c == Decided(proc[p], v)
<1>1. /\ UNCHANGED <<vm, record, lock, cap, marked, history>> /\ Become(p, c)
      /\ TypeOK /\ Own(p) /\ proc[p] \in Command /\ p # None
      /\ proc[p].step = "reap" /\ proc[p].made = FALSE
  BY Known DEF Keeps, At, Own, Command
<1>2. /\ c \in Command /\ c.step = "reap" /\ c.op = proc[p].op /\ c.vm = proc[p].vm
      /\ c.at = proc[p].at /\ c.made = FALSE
  BY <1>1, DecidedOne
<1> HIDE DEF c
<1>3. /\ lock \in [VMs -> Procs \cup {None}] /\ cap \in Procs \cup {None}
      /\ MarkStays' /\ marked' \subseteq VMs
  BY <1>1 DEF VMInv, MarkStays, TypeOK, history
<1>4. proc'[p] = c
  BY <1>1, <1>2, Becoming
<1>5. Own(p)'
  BY <1>1, <1>2, <1>4 DEF Own
<1> QED BY <1>1, <1>2, <1>3, <1>5, QuietKeeps

LEMMA CondemnsKeeps ==
  ASSUME VMInv, NEW p \in Procs, NEW v \in VMs, Condemns(p, v)
  PROVE  VMInv'
<1> DEFINE d == Decided(proc[p], v)
           step == IF vm[v] = "none" THEN "forget" ELSE "remove"
           c == [d EXCEPT !.at = v, !.step = step]
<1>1. /\ UNCHANGED <<vm, record, cap, marked, history>> /\ Become(p, c) /\ Take(p, v)
      /\ TypeOK /\ Own(p) /\ proc[p] \in Command /\ p # None /\ None \notin VMs
      /\ proc[p].step = "reap" /\ proc[p].made = FALSE
  BY Known DEF Condemns, At, Own, Command
<1>2. d \in Command /\ d.op = proc[p].op /\ d.vm = proc[p].vm /\ d.made = FALSE
  BY <1>1, DecidedOne
<1>3. step = "remove" \/ (step = "forget" /\ vm[v] = "none")
  OBVIOUS
<1> HIDE DEF d, step
<1>4. /\ c \in Command /\ c.step = step /\ c.op = proc[p].op /\ c.vm = proc[p].vm
      /\ c.at = v /\ c.made = FALSE
  BY <1>2, <1>3 DEF Command, Steps
<1> HIDE DEF c
<1>5. /\ cap \in Procs \cup {None} /\ MarkStays' /\ marked' \subseteq VMs
  BY <1>1 DEF VMInv, MarkStays, TypeOK, history
<1>6. lock' \in [VMs -> Procs \cup {None}] /\ lock'[v] = p /\ lock[v] = None
      /\ \A u \in VMs \ {v} : lock'[u] = lock[u]
  BY <1>1 DEF Take, TypeOK
<1>7. proc'[p] = c /\ proc[p].vm # v /\ proc[p].vm \in VMs \union {None}
  BY <1>1, <1>4, <1>6, Becoming, Known DEF Own
<1>8. Own(p)'
  BY <1>1, <1>3, <1>4, <1>6, <1>7 DEF Own, Target, Mine
<1> QED BY <1>1, <1>3, <1>4, <1>5, <1>6, <1>8, QuietKeeps

LEMMA FailsToRemoveKeeps ==
  ASSUME VMInv, NEW p \in Procs, FailsToRemove(p)
  PROVE  VMInv'
<1> DEFINE c == [proc[p] EXCEPT !.step = "reap", !.at = None]
<1>1. /\ UNCHANGED <<vm, record, cap, marked, history>> /\ Become(p, c) /\ LetGo(proc[p].at)
      /\ TypeOK /\ Own(p) /\ proc[p] \in Command /\ p # None
      /\ proc[p].step = "remove" /\ proc[p].made = FALSE
      /\ proc[p].at \in VMs /\ lock[proc[p].at] = p /\ proc[p].at # proc[p].vm
      /\ proc[p].vm \in VMs \union {None}
  BY Known DEF FailsToRemove, At, Own, Command
<1>2. /\ c \in Command /\ c.step = "reap" /\ c.op = proc[p].op /\ c.vm = proc[p].vm
      /\ c.at = None /\ c.made = FALSE
  BY <1>1 DEF Command, Steps
<1> HIDE DEF c
<1>3. /\ cap \in Procs \cup {None} /\ MarkStays' /\ marked' \subseteq VMs
  BY <1>1 DEF VMInv, MarkStays, TypeOK, history
<1>4. lock' \in [VMs -> Procs \cup {None}] /\ \A u \in VMs \ {proc[p].at} : lock'[u] = lock[u]
  BY <1>1 DEF LetGo, TypeOK
<1>5. proc'[p] = c
  BY <1>1, <1>2, Becoming
<1>6. Own(p)'
  BY <1>1, <1>2, <1>4, <1>5 DEF Own
<1> QED BY <1>1, <1>2, <1>3, <1>4, <1>6, QuietKeeps

LEMMA TriesAgainKeeps ==
  ASSUME VMInv, NEW p \in Procs, TriesAgain(p)
  PROVE  VMInv'
<1> DEFINE c == [proc[p] EXCEPT !.step = "cap", !.reaped = "none"]
<1>1. /\ UNCHANGED <<vm, record, lock, cap, marked, history>> /\ Become(p, c)
      /\ TypeOK /\ Own(p) /\ proc[p] \in Command /\ p # None
      /\ proc[p].step = "reap" /\ proc[p].made = FALSE /\ proc[p].op = "create"
  BY Known DEF TriesAgain, At, Own, Command
<1>2. /\ c \in Command /\ c.step = "cap" /\ c.op = proc[p].op /\ c.vm = proc[p].vm
      /\ c.at = proc[p].at /\ c.made = FALSE
  BY <1>1 DEF Command, Steps
<1> HIDE DEF c
<1>3. /\ lock \in [VMs -> Procs \cup {None}] /\ cap \in Procs \cup {None}
      /\ MarkStays' /\ marked' \subseteq VMs
  BY <1>1 DEF VMInv, MarkStays, TypeOK, history
<1>4. proc'[p] = c
  BY <1>1, <1>2, Becoming
<1>5. Own(p)'
  BY <1>1, <1>2, <1>4 DEF Own
<1> QED BY <1>1, <1>2, <1>3, <1>5, QuietKeeps
-----------------------------------------------------------------------------
(* Steps that write one VM, or its record, with its lock held.             *)

\* Such a step keeps the invariant if the command knows afterwards what Own
\* says, VM and record still agree, and who counts the VM still does.
LEMMA LockedKeeps ==
  ASSUME VMInv, NEW p \in Procs, NEW c \in Command, Become(p, c), NEW v \in VMs, lock[v] = p,
         vm' \in [VMs -> {"none", "stopped", "running"}], record' \in Records,
         uncounted' \subseteq VMs, overwritten' \subseteq VMs,
         \A u \in VMs \ {v} :
           /\ vm'[u] = vm[u] /\ record'[u] = record[u]
           /\ u \in uncounted' <=> u \in uncounted
           /\ u \in overwritten' <=> u \in overwritten,
         lock' \in [VMs -> Procs \cup {None}], cap' \in Procs \cup {None}, marked' \subseteq VMs,
         \A u \in VMs : lock[u] \notin {None, p} => lock'[u] = lock[u],
         cap \notin {None, p} => cap' = cap,
         marked' \ {v} \subseteq marked,
         v \in marked' => v \in overwritten' \/ (record'[v] # NoRecord /\ record'[v].keep),
         vm'[v] # "none" => record'[v] # NoRecord,
         v \in uncounted' => vm'[v] = "running",
         Own(p)',
         v \in overwritten' \/ record'[v].creator \notin Procs
           \/ (record'[v].creator = p /\ c.made /\ c.vm = v),
         proc[p].made => proc[p].vm = v,
         c.made => c.vm = v,
         c.step # "room",
         \/ v \in uncounted' \union overwritten'
         \/ vm'[v] # "running" /\ ~(c.made /\ c.step \in {"make", "start"})
         \/ /\ v \in Using
            /\ \/ record'[v].creator \in Procs
               \/ \A q \in Procs \ {p} : At(q, "room") => v \in proc[q].seen
  PROVE  VMInv'
<1>1. /\ TypeOK /\ proc' \in [Procs -> Command] /\ proc'[p] = c
      /\ \A q \in Procs \ {p} : proc'[q] = proc[q]
  BY Becoming DEF VMInv
<1>2. TypeOK'
  BY <1>1 DEF TypeOK
<1>3. \A q \in Procs : Own(q)'
  <2>1. ASSUME NEW q \in Procs, q # p PROVE Own(q)'
    <3>1. /\ Own(q) /\ proc'[q] = proc[q] /\ q # None
          /\ \A u \in VMs : lock[u] = q =>
               /\ lock'[u] = q /\ vm'[u] = vm[u] /\ record'[u] = record[u]
               /\ u \in overwritten => u \in overwritten'
          /\ cap = q => cap' = q
      BY <1>1, <2>1, NamesAssumption DEF VMInv
    <3> QED BY <1>1, <2>1, <3>1, OthersOwn DEF Agree
  <2> QED BY <2>1
<1>4. Owned' /\ MarkStays'
  BY DEF VMInv, Owned, MarkStays
<1>5. Creators'
  BY <1>1 DEF VMInv, Creators
<1>6. \A q \in Procs \ {p} : proc[q].made => proc[q].vm # v
  BY NamesAssumption DEF VMInv, Own
<1>7. /\ v \in (Running \union Making)' =>
           vm'[v] = "running" \/ (c.made /\ c.step \in {"make", "start"})
      /\ \A u \in VMs \ {v} : u \in (Running \union Making)' => u \in Running \union Making
  BY <1>1, <1>6 DEF Running, Making
<1>8. Using' \subseteq Using
  BY <1>7 DEF Using, Running, Making
<1>9. Counted'
  <2> SUFFICES ASSUME NEW q \in Procs, At(q, "room")', NEW u \in Using'
               PROVE  u \in proc'[q].seen \/ record'[u].creator \in Procs
    BY DEF Counted
  <2>1. q # p /\ At(q, "room") /\ proc'[q] = proc[q] /\ u \in Using /\ u \in VMs
    BY <1>1, <1>8 DEF At, Using, Running, Making
  <2>2. CASE u # v
    BY <2>1, <2>2 DEF VMInv, Counted
  <2>3. CASE u = v
    BY <1>7, <2>1, <2>3 DEF Using
  <2> QED BY <2>2, <2>3
<1>10. Fits' /\ (uncounted \subseteq Running)'
  BY <1>8, LessFits DEF VMInv, Running
<1> QED BY <1>2, <1>3, <1>4, <1>5, <1>9, <1>10 DEF VMInv

\* A whole record with one field changed is a record.
LEMMA RecordChanged ==
  ASSUME NEW r \in Record
  PROVE  /\ [r EXCEPT !.stale = FALSE] \in Record /\ [r EXCEPT !.stale = FALSE].keep = r.keep
         /\ [r EXCEPT !.stale = FALSE].creator = r.creator
         /\ [r EXCEPT !.stale = TRUE] \in Record /\ [r EXCEPT !.stale = TRUE].keep = r.keep
         /\ [r EXCEPT !.stale = TRUE].creator = r.creator
         /\ \A b \in BOOLEAN : /\ [r EXCEPT !.keep = b] \in Record /\ [r EXCEPT !.keep = b].keep = b
                               /\ [r EXCEPT !.keep = b].creator = r.creator
         /\ \A q \in Procs \union {None, Dead} :
              /\ [r EXCEPT !.creator = q] \in Record /\ [r EXCEPT !.creator = q].keep = r.keep
              /\ [r EXCEPT !.creator = q].creator = q
BY DEF Record

\* The record of a VM written as r, and no other.
LEMMA Written ==
  ASSUME TypeOK, NEW v \in VMs, NEW r \in Record \union {NoRecord}, record' = [record EXCEPT ![v] = r]
  PROVE  record' \in Records /\ record'[v] = r /\ \A u \in VMs \ {v} : record'[u] = record[u]
BY DEF TypeOK, Records

LEMMA LockedTouch ==
  ASSUME VMInv, NEW p \in Procs, TouchWrites(p), proc[p].op # "screen"
  PROVE  VMInv'
<1> DEFINE v == proc[p].vm
           r == [proc[p].copy EXCEPT !.stale = FALSE]
<1>1. /\ UNCHANGED <<vm, lock, marked, history>> /\ TypeOK /\ Own(p) /\ proc[p] \in Command
      /\ proc[p].step = "touched" /\ v \in VMs /\ lock[v] = p /\ proc[p].made = FALSE
      /\ p # None /\ proc[p].at \in VMs \union {None}
      /\ proc[p].copy # NoRecord /\ (v \in overwritten \/ Agree(proc[p].copy, record[v]))
  BY Known DEF TouchWrites, At, Own, Command, Undoes, Mine, history
<1>2. proc[p].copy \in Record
  BY <1>1 DEF Command
<1>3. r \in Record /\ (v \in overwritten \/ Agree(r, record[v]))
  BY <1>1, <1>2, RecordChanged DEF Agree
<1>4. record' = [record EXCEPT ![v] = r]
  BY DEF TouchWrites, Mine
<1>5. PICK c \in Command :
         /\ Become(p, c) /\ c.step \in {"start", "mark", "work"}
         /\ c.op = proc[p].op /\ c.vm = proc[p].vm
         /\ c.at \in {None, proc[p].at} /\ c.made = FALSE
         /\ c.step = "start" => c.op = "create"
         /\ c.step = "mark" => c.op \in {"keep", "unkeep"}
  BY <1>1, GoesOnTo DEF TouchWrites
<1> HIDE DEF r
<1>6. /\ record' \in Records /\ record'[v] = r /\ r # NoRecord
      /\ \A u \in VMs \ {v} : record'[u] = record[u]
  BY <1>1, <1>3, <1>4, Written, NoRecordApart
<1>7. proc'[p] = c
  BY <1>1, <1>5, Becoming
<1>8. Own(p)'
  BY <1>1, <1>5, <1>7 DEF Own
<1>9. /\ vm' \in [VMs -> {"none", "stopped", "running"}] /\ lock' \in [VMs -> Procs \union {None}]
      /\ cap' \in Procs \union {None} /\ marked' \subseteq VMs
      /\ cap \notin {None, p} => cap' = cap
      /\ v \in marked => v \in overwritten \/ record[v].keep
      /\ UNCHANGED <<uncounted, overwritten>> /\ uncounted \subseteq VMs /\ overwritten \subseteq VMs
      /\ v \in uncounted => vm[v] = "running"
  BY <1>1 DEF TouchWrites, TypeOK, VMInv, MarkStays, Running, history
<1>10. v \in overwritten \/ r.creator \notin Procs
  BY <1>1, <1>2, <1>3 DEF VMInv, Creators, Own, Agree
<1>11. \/ v \in uncounted \union overwritten
       \/ vm[v] # "running"
       \/ v \in Using /\ \A q \in Procs \ {p} : At(q, "room") => v \in proc[q].seen
  BY <1>1, <1>3, <1>10 DEF VMInv, Counted, Running, Using, Agree
<1>12. /\ \A u \in VMs \ {v} : /\ vm'[u] = vm[u] /\ record'[u] = record[u]
                               /\ u \in uncounted' <=> u \in uncounted
                               /\ u \in overwritten' <=> u \in overwritten
       /\ uncounted' \subseteq VMs /\ overwritten' \subseteq VMs
       /\ v \in uncounted' => vm'[v] = "running"
       /\ \A u \in VMs : lock[u] \notin {None, p} => lock'[u] = lock[u]
       /\ cap \notin {None, p} => cap' = cap
       /\ marked' \ {v} \subseteq marked
       /\ v \in marked' => v \in overwritten' \/ (record'[v] # NoRecord /\ record'[v].keep)
       /\ vm'[v] # "none" => record'[v] # NoRecord
  BY <1>1, <1>3, <1>6, <1>9 DEF Agree
<1>13. /\ v \in overwritten' \/ record'[v].creator \notin Procs
            \/ (record'[v].creator = p /\ c.made /\ c.vm = v)
       /\ proc[p].made => proc[p].vm = v
       /\ c.made => c.vm = v
       /\ c.step # "room"
       /\ \/ v \in uncounted' \union overwritten'
          \/ vm'[v] # "running" /\ ~(c.made /\ c.step \in {"make", "start"})
          \/ /\ v \in Using
             /\ \/ record'[v].creator \in Procs
                \/ \A q \in Procs \ {p} : At(q, "room") => v \in proc[q].seen
  BY <1>1, <1>5, <1>6, <1>9, <1>10, <1>11
<1> HIDE DEF v
<1> QED
  BY <1>1, <1>5, <1>6, <1>8, <1>9, <1>12, <1>13, LockedKeeps

\* vm-screen's write: others know of the record what they knew, or it is
\* overwritten.
LEMMA UnlockedTouch ==
  ASSUME VMInv, NEW p \in Procs, TouchWrites(p), proc[p].op = "screen"
  PROVE  VMInv'
<1> DEFINE v == proc[p].vm
           r == [proc[p].copy EXCEPT !.stale = FALSE]
<1>1. /\ UNCHANGED <<vm, lock, marked, uncounted>> /\ TypeOK /\ Own(p) /\ proc[p] \in Command
      /\ proc[p].step = "touched" /\ v \in VMs /\ proc[p].made = FALSE
      /\ p # None /\ proc[p].at = None /\ proc[p].copy # NoRecord
  BY Known DEF TouchWrites, At, Own, Command
<1>2. proc[p].copy \in Record
  BY <1>1 DEF Command
<1>3. r \in Record /\ r.keep = proc[p].copy.keep /\ r.creator = proc[p].copy.creator
  BY <1>2, RecordChanged
<1>4. record' = [record EXCEPT ![v] = r]
  BY DEF TouchWrites, Mine
<1>5. PICK c \in Command :
         /\ Become(p, c) /\ c.step = "work" /\ c.op = "screen" /\ c.vm = v
         /\ c.at = None /\ c.made = FALSE
  BY <1>1, WorksTo DEF TouchWrites, GoesOn
<1> HIDE DEF r
<1>6. /\ record' \in Records /\ record'[v] = r /\ r # NoRecord
      /\ \A u \in VMs \ {v} : record'[u] = record[u]
  BY <1>1, <1>3, <1>4, Written, NoRecordApart
<1>7. overwritten \subseteq overwritten' /\ overwritten' \subseteq overwritten \union {v}
  BY DEF TouchWrites, Mine
<1>8. v \in overwritten' \/ (record[v] # NoRecord /\ Agree(r, record[v]))
  <2>1. CASE Undoes(p)
    BY <2>1 DEF TouchWrites, Mine
  <2>2. CASE ~Undoes(p)
    <3> DEFINE now == record[v]
    <3>1. now # NoRecord /\ now = [proc[p].copy EXCEPT !.stale = now.stale]
      BY <2>2 DEF Undoes, Mine
    <3>2. now \in Record
      BY <1>1, <3>1 DEF TypeOK, Records
    <3>3. now.stale \in BOOLEAN
      BY <3>2 DEF Record
    <3>4. now.keep = proc[p].copy.keep /\ now.creator = proc[p].copy.creator
      <4> DEFINE b == now.stale
      <4>1. now = [proc[p].copy EXCEPT !.stale = b]
        BY <3>1
      <4> HIDE DEF b, now
      <4> QED BY <1>2, <4>1 DEF Record
    <3> QED BY <1>3, <3>1, <3>4 DEF Agree
  <2> QED BY <2>1, <2>2
<1>9. /\ proc' \in [Procs -> Command] /\ proc'[p] = c
      /\ \A q \in Procs \ {p} : proc'[q] = proc[q]
  BY <1>1, <1>5, Becoming
<1>10. /\ cap' \in Procs \union {None} /\ \A q \in Procs \ {p} : cap = q => cap' = q
  BY <1>1 DEF TouchWrites, TypeOK
<1>11. TypeOK'
  BY <1>1, <1>6, <1>7, <1>9, <1>10 DEF TypeOK
<1>12. \A q \in Procs : Own(q)'
  <2>1. Own(p)'
    BY <1>1, <1>5, <1>9 DEF Own
  <2>2. ASSUME NEW q \in Procs, q # p PROVE Own(q)'
    <3>1. /\ Own(q) /\ proc'[q] = proc[q] /\ (cap = q => cap' = q)
          /\ \A u \in VMs : lock[u] = q =>
               /\ lock'[u] = q /\ vm'[u] = vm[u]
               /\ u \in overwritten => u \in overwritten'
               /\ record[u] # NoRecord => record'[u] # NoRecord
               /\ u \in overwritten' \/ Agree(record'[u], record[u])
      BY <1>1, <1>6, <1>7, <1>8, <1>9, <1>10, <2>2 DEF VMInv, Agree
    <3> QED BY <1>1, <2>2, <3>1, OthersOwn
  <2> QED BY <2>1, <2>2
<1>13. Owned' /\ MarkStays' /\ Creators'
  <2>1. \A u \in VMs \ overwritten' : u \notin overwritten /\ Agree(record'[u], record[u])
    BY <1>6, <1>7, <1>8 DEF Agree
  <2>2. \A u \in VMs : record[u] # NoRecord => record'[u] # NoRecord
    BY <1>6
  <2>3. Owned' /\ MarkStays'
    BY <1>1, <2>1, <2>2 DEF VMInv, TypeOK, Owned, MarkStays, Agree
  <2>4. Creators'
    BY <1>1, <1>9, <2>1 DEF VMInv, Creators, Agree
  <2> QED BY <2>3, <2>4
<1>14. Running' = Running /\ Making' = Making
  BY <1>1, <1>5, <1>9 DEF Running, Making
<1>15. Using' \subseteq Using /\ (uncounted \subseteq Running)'
  BY <1>1, <1>7, <1>14 DEF Using, VMInv
<1>16. Counted'
  <2> SUFFICES ASSUME NEW q \in Procs, At(q, "room")', NEW u \in Using'
               PROVE  u \in proc'[q].seen \/ record'[u].creator \in Procs
    BY DEF Counted
  <2>1. At(q, "room") /\ proc'[q].seen = proc[q].seen
    BY <1>5, <1>9 DEF At
  <2>2. u \in VMs /\ u \notin overwritten' /\ u \in Using
    BY <1>15 DEF Using, Running, Making
  <2>3. Agree(record'[u], record[u])
    BY <1>6, <1>8, <2>2 DEF Agree
  <2> QED BY <2>1, <2>2, <2>3 DEF VMInv, Counted, Agree
<1>17. Fits'
  BY <1>15, LessFits DEF VMInv
<1> QED BY <1>11, <1>12, <1>13, <1>15, <1>16, <1>17 DEF VMInv

LEMMA TouchWritesKeeps ==
  ASSUME VMInv, NEW p \in Procs, TouchWrites(p)
  PROVE  VMInv'
BY LockedTouch, UnlockedTouch

LEMMA MarkWritesKeeps ==
  ASSUME VMInv, NEW p \in Procs, MarkWrites(p)
  PROVE  VMInv'
<1> DEFINE v == proc[p].vm
           b == proc[p].op = "keep"
           r == [proc[p].copy EXCEPT !.keep = b]
           c == [proc[p] EXCEPT !.step = "back", !.copy = NoRecord]
<1>1. /\ UNCHANGED <<vm, lock, cap, history>> /\ TypeOK /\ Own(p) /\ proc[p] \in Command /\ Become(p, c)
      /\ proc[p].step = "write" /\ v \in VMs /\ lock[v] = p /\ proc[p].made = FALSE
      /\ p # None /\ proc[p].at \in VMs \union {None}
      /\ proc[p].copy # NoRecord /\ (v \in overwritten \/ Agree(proc[p].copy, record[v]))
  BY Known DEF MarkWrites, At, Own, Command
<1>2. proc[p].copy \in Record
  BY <1>1 DEF Command
<1>3. b \in BOOLEAN
  OBVIOUS
<1>4. r \in Record /\ r.keep = b /\ (v \in overwritten \/ r.creator = record[v].creator)
  <2> HIDE DEF b
  <2> QED BY <1>1, <1>2, <1>3, RecordChanged DEF Agree
<1>5. record' = [record EXCEPT ![v] = r]
  BY DEF MarkWrites, Mine
<1>6. /\ c \in Command /\ c.step = "back" /\ c.op = proc[p].op /\ c.vm = proc[p].vm
      /\ c.at = proc[p].at /\ c.made = FALSE
  BY <1>1 DEF Command, Steps
<1> HIDE DEF r, c
<1>7. /\ record' \in Records /\ record'[v] = r /\ r # NoRecord
      /\ \A u \in VMs \ {v} : record'[u] = record[u]
  BY <1>1, <1>4, <1>5, Written, NoRecordApart
<1>8. proc'[p] = c
  BY <1>1, <1>6, Becoming
<1>9. Own(p)'
  BY <1>1, <1>6, <1>8 DEF Own
<1>10. /\ vm' \in [VMs -> {"none", "stopped", "running"}] /\ lock' \in [VMs -> Procs \union {None}]
       /\ cap' \in Procs \union {None} /\ marked \subseteq VMs
       /\ UNCHANGED <<uncounted, overwritten>> /\ uncounted \subseteq VMs /\ overwritten \subseteq VMs
       /\ v \in uncounted => vm[v] = "running"
  BY <1>1 DEF TypeOK, VMInv, Running, history
<1>11. marked' \subseteq marked /\ (v \in marked' => b)
  BY DEF MarkWrites, Mine
<1>12. v \in overwritten \/ r.creator \notin Procs
  BY <1>1, <1>2, <1>4 DEF VMInv, Creators, Own
<1>13. \/ v \in uncounted \union overwritten
       \/ vm[v] # "running"
       \/ v \in Using /\ \A q \in Procs \ {p} : At(q, "room") => v \in proc[q].seen
  BY <1>1, <1>4, <1>12 DEF VMInv, Counted, Running, Using
<1>14. /\ \A u \in VMs \ {v} : /\ vm'[u] = vm[u] /\ record'[u] = record[u]
                               /\ u \in uncounted' <=> u \in uncounted
                               /\ u \in overwritten' <=> u \in overwritten
       /\ uncounted' \subseteq VMs /\ overwritten' \subseteq VMs
       /\ v \in uncounted' => vm'[v] = "running"
       /\ \A u \in VMs : lock[u] \notin {None, p} => lock'[u] = lock[u]
       /\ cap \notin {None, p} => cap' = cap
       /\ marked' \ {v} \subseteq marked
       /\ v \in marked' => v \in overwritten' \/ (record'[v] # NoRecord /\ record'[v].keep)
       /\ vm'[v] # "none" => record'[v] # NoRecord
  BY <1>1, <1>4, <1>7, <1>10, <1>11
<1>15. /\ v \in overwritten' \/ record'[v].creator \notin Procs
            \/ (record'[v].creator = p /\ c.made /\ c.vm = v)
       /\ proc[p].made => proc[p].vm = v
       /\ c.made => c.vm = v
       /\ c.step # "room"
       /\ \/ v \in uncounted' \union overwritten'
          \/ vm'[v] # "running" /\ ~(c.made /\ c.step \in {"make", "start"})
          \/ /\ v \in Using
             /\ \/ record'[v].creator \in Procs
                \/ \A q \in Procs \ {p} : At(q, "room") => v \in proc[q].seen
  BY <1>1, <1>4, <1>6, <1>7, <1>10, <1>12, <1>13
<1> HIDE DEF b, v
<1> QED
  BY <1>1, <1>6, <1>7, <1>9, <1>10, <1>11, <1>14, <1>15, LockedKeeps

LEMMA MakesKeeps ==
  ASSUME VMInv, NEW p \in Procs, Makes(p)
  PROVE  VMInv'
<1> DEFINE v == proc[p].vm
           c == [proc[p] EXCEPT !.step = "start"]
<1>1. /\ UNCHANGED <<record, lock, cap, marked, history>> /\ TypeOK /\ Own(p) /\ proc[p] \in Command
      /\ Become(p, c) /\ proc[p].step = "make" /\ v \in VMs /\ lock[v] = p /\ proc[p].made
      /\ p # None /\ record[v] # NoRecord /\ (v \in overwritten \/ record[v].creator = p)
      /\ vm[v] # "running"
  BY Known DEF Makes, At, Go, Own
<1>2. /\ c \in Command /\ c.step = "start" /\ c.op = proc[p].op /\ c.vm = proc[p].vm
      /\ c.at = proc[p].at /\ c.made = proc[p].made
  BY <1>1 DEF Command, Steps
<1> HIDE DEF c
<1>3. /\ vm' \in [VMs -> {"none", "stopped", "running"}] /\ vm'[v] = "stopped"
      /\ \A u \in VMs \ {v} : vm'[u] = vm[u]
  BY <1>1 DEF Makes, Mine, TypeOK
<1>4. proc'[p] = c
  BY <1>1, <1>2, Becoming
<1>5. Own(p)'
  BY <1>1, <1>2, <1>3, <1>4 DEF Own, history
<1>6. /\ record' \in Records /\ lock' \in [VMs -> Procs \union {None}]
      /\ cap' \in Procs \union {None} /\ marked' \subseteq VMs
      /\ v \in marked => v \in overwritten \/ record[v].keep
      /\ UNCHANGED <<uncounted, overwritten>> /\ uncounted \subseteq VMs /\ overwritten \subseteq VMs
      /\ v \notin uncounted
  BY <1>1 DEF TypeOK, VMInv, MarkStays, Running, history
<1>7. /\ c.vm = v /\ c.made /\ (v \in overwritten \/ record'[v].creator = p)
      /\ v \in uncounted \union overwritten \/ v \in Using
  BY <1>1, <1>2 DEF Making, Using
<1>8. /\ \A u \in VMs \ {v} : /\ vm'[u] = vm[u] /\ record'[u] = record[u]
                              /\ u \in uncounted' <=> u \in uncounted
                              /\ u \in overwritten' <=> u \in overwritten
      /\ uncounted' \subseteq VMs /\ overwritten' \subseteq VMs
      /\ v \in uncounted' => vm'[v] = "running"
      /\ \A u \in VMs : lock[u] \notin {None, p} => lock'[u] = lock[u]
      /\ cap \notin {None, p} => cap' = cap
      /\ marked' \ {v} \subseteq marked
      /\ v \in marked' => v \in overwritten' \/ (record'[v] # NoRecord /\ record'[v].keep)
      /\ vm'[v] # "none" => record'[v] # NoRecord
  BY <1>1, <1>3, <1>6
<1>9. /\ v \in overwritten' \/ record'[v].creator \notin Procs
           \/ (record'[v].creator = p /\ c.made /\ c.vm = v)
      /\ proc[p].made => proc[p].vm = v
      /\ c.made => c.vm = v
      /\ c.step # "room"
      /\ \/ v \in uncounted' \union overwritten'
         \/ vm'[v] # "running" /\ ~(c.made /\ c.step \in {"make", "start"})
         \/ /\ v \in Using
            /\ \/ record'[v].creator \in Procs
               \/ \A q \in Procs \ {p} : At(q, "room") => v \in proc[q].seen
  BY <1>1, <1>2, <1>3, <1>6, <1>7
<1> HIDE DEF v
<1> QED
  BY <1>1, <1>2, <1>3, <1>5, <1>6, <1>8, <1>9, LockedKeeps

LEMMA StartsKeeps ==
  ASSUME VMInv, NEW p \in Procs, Starts(p)
  PROVE  VMInv'
<1> DEFINE v == proc[p].vm
           s == IF vm[v] = "stopped" THEN "running" ELSE vm[v]
           c == [proc[p] EXCEPT !.step = "wait"]
<1>1. /\ UNCHANGED <<record, lock, cap, marked, overwritten>> /\ TypeOK /\ Own(p) /\ proc[p] \in Command
      /\ Become(p, c) /\ proc[p].step = "start" /\ v \in VMs /\ lock[v] = p
      /\ p # None /\ v \in VMs /\ vm[v] \in {"none", "stopped", "running"}
      /\ uncounted' = IF vm[v] = "stopped" /\ ~proc[p].made THEN uncounted \union {v} ELSE uncounted
  BY Known DEF Starts, At, Go, Own, Mine, TypeOK
<1>2. /\ c \in Command /\ c.step = "wait" /\ c.op = proc[p].op /\ c.vm = proc[p].vm
      /\ c.at = proc[p].at /\ c.made = proc[p].made
  BY <1>1 DEF Command, Steps
<1>3. /\ s \in {"none", "stopped", "running"} /\ (s # "none" => vm[v] # "none")
      /\ s = "running" => vm[v] = "running" \/ (vm[v] = "stopped" /\ proc[p].made) \/ v \in uncounted'
      /\ vm[v] \in {"running", "stopped"} => s = "running"
  BY <1>1
<1>4. vm' = [vm EXCEPT ![v] = s]
  BY <1>1 DEF Starts, Mine, TypeOK
<1> HIDE DEF c, s
<1>5. /\ vm' \in [VMs -> {"none", "stopped", "running"}] /\ vm'[v] = s
      /\ \A u \in VMs \ {v} : vm'[u] = vm[u]
  BY <1>1, <1>3, <1>4 DEF TypeOK
<1>6. proc'[p] = c
  BY <1>1, <1>2, Becoming
<1>7. Own(p)'
  BY <1>1, <1>2, <1>6 DEF Own
<1>8. /\ record' \in Records /\ lock' \in [VMs -> Procs \union {None}]
      /\ cap' \in Procs \union {None} /\ marked' \subseteq VMs
      /\ v \in marked => v \in overwritten \/ (record[v] # NoRecord /\ record[v].keep)
      /\ vm[v] # "none" => record[v] # NoRecord
      /\ uncounted' \subseteq VMs /\ overwritten' \subseteq VMs
      /\ v \in uncounted => vm[v] = "running"
  BY <1>1 DEF TypeOK, VMInv, MarkStays, Owned, Running
<1>9. v \in uncounted' \union overwritten' \/ s # "running" \/ v \in Using
  BY <1>1, <1>3 DEF Running, Making, Using
<1>10. \/ v \in uncounted' \union overwritten'
       \/ s # "running"
       \/ /\ v \in Using
          /\ \/ record[v].creator \in Procs
             \/ \A q \in Procs \ {p} : At(q, "room") => v \in proc[q].seen
  BY <1>1, <1>9 DEF VMInv, Counted
<1>11. /\ v \in overwritten \/ record[v].creator \notin Procs
            \/ (record[v].creator = p /\ c.made /\ c.vm = v)
  BY <1>1, <1>2, NamesAssumption DEF VMInv, Creators, Own
<1>12. /\ v \in uncounted' => vm'[v] = "running"
       /\ vm'[v] # "none" => record'[v] # NoRecord
       /\ \A u \in VMs \ {v} : /\ vm'[u] = vm[u] /\ record'[u] = record[u]
                               /\ u \in uncounted' <=> u \in uncounted
                               /\ u \in overwritten' <=> u \in overwritten
  BY <1>1, <1>3, <1>5, <1>8
<1>13. /\ \A u \in VMs : lock[u] \notin {None, p} => lock'[u] = lock[u]
       /\ cap \notin {None, p} => cap' = cap
       /\ marked' \ {v} \subseteq marked
       /\ v \in marked' => v \in overwritten' \/ (record'[v] # NoRecord /\ record'[v].keep)
       /\ v \in overwritten' \/ record'[v].creator \notin Procs
            \/ (record'[v].creator = p /\ c.made /\ c.vm = v)
       /\ proc[p].made => proc[p].vm = v
       /\ c.made => c.vm = v
       /\ c.step # "room"
       /\ \/ v \in uncounted' \union overwritten'
          \/ vm'[v] # "running" /\ ~(c.made /\ c.step \in {"make", "start"})
          \/ /\ v \in Using
             /\ \/ record'[v].creator \in Procs
                \/ \A q \in Procs \ {p} : At(q, "room") => v \in proc[q].seen
  BY <1>1, <1>2, <1>5, <1>8, <1>10, <1>11
<1> HIDE DEF v
<1> QED
  BY <1>1, <1>2, <1>5, <1>7, <1>8, <1>12, <1>13, LockedKeeps

LEMMA FinishesKeeps ==
  ASSUME VMInv, NEW p \in Procs, Finishes(p)
  PROVE  VMInv'
<1> DEFINE v == proc[p].vm
<1>1. /\ UNCHANGED <<vm, lock, cap, history>> /\ TypeOK /\ Own(p) /\ proc[p] \in Command
      /\ proc[p].step = "finish" /\ v \in VMs /\ lock[v] = p /\ p # None
  BY Known DEF Finishes, At, Own
<1>2. /\ vm \in [VMs -> {"none", "stopped", "running"}] /\ lock \in [VMs -> Procs \union {None}]
      /\ cap \in Procs \union {None} /\ marked \subseteq VMs /\ record \in Records
      /\ UNCHANGED <<uncounted, overwritten>> /\ uncounted \subseteq VMs /\ overwritten \subseteq VMs
      /\ v \in uncounted => vm[v] = "running"
  BY <1>1 DEF TypeOK, VMInv, Running, history
<1>3. CASE /\ vm[v] = "none" /\ record' = [record EXCEPT ![v] = NoRecord]
           /\ marked' = marked \ {v} /\ Works(p)
  <2>1. PICK c \in Command :
           /\ Become(p, c) /\ c.step = "work" /\ c.op = proc[p].op /\ c.vm = proc[p].vm
           /\ c.at = None /\ c.made = FALSE
    BY <1>3, WorksTo
  <2>2. /\ record' \in Records /\ record'[v] = NoRecord
        /\ \A u \in VMs \ {v} : record'[u] = record[u]
    BY <1>1, <1>3, Written
  <2>3. proc'[p] = c
    BY <1>1, <2>1, Becoming
  <2>4. Own(p)'
    BY <1>1, <2>1, <2>3 DEF Own
  <2>5. NoRecord.creator \notin Procs
    BY NamesAssumption DEF NoRecord
  <2>6. /\ \A u \in VMs \ {v} : /\ vm'[u] = vm[u] /\ record'[u] = record[u]
                                /\ u \in uncounted' <=> u \in uncounted
                                /\ u \in overwritten' <=> u \in overwritten
        /\ uncounted' \subseteq VMs /\ overwritten' \subseteq VMs
        /\ v \in uncounted' => vm'[v] = "running"
        /\ \A u \in VMs : lock[u] \notin {None, p} => lock'[u] = lock[u]
        /\ cap \notin {None, p} => cap' = cap
        /\ marked' \ {v} \subseteq marked
        /\ v \in marked' => v \in overwritten' \/ (record'[v] # NoRecord /\ record'[v].keep)
        /\ vm'[v] # "none" => record'[v] # NoRecord
    BY <1>1, <1>2, <1>3, <2>2
  <2>7. /\ v \in overwritten' \/ record'[v].creator \notin Procs
             \/ (record'[v].creator = p /\ c.made /\ c.vm = v)
        /\ proc[p].made => proc[p].vm = v
        /\ c.made => c.vm = v
        /\ c.step # "room"
        /\ \/ v \in uncounted' \union overwritten'
           \/ vm'[v] # "running" /\ ~(c.made /\ c.step \in {"make", "start"})
           \/ /\ v \in Using
              /\ \/ record'[v].creator \in Procs
                 \/ \A q \in Procs \ {p} : At(q, "room") => v \in proc[q].seen
    BY <1>1, <1>2, <1>3, <2>1, <2>2, <2>5
  <2> HIDE DEF v
  <2> QED
    BY <1>1, <1>2, <1>3, <2>1, <2>2, <2>4, <2>6, <2>7, LockedKeeps
<1>4. CASE Become(p, [proc[p] EXCEPT !.step = "clear", !.copy = record[Mine(p)]])
           /\ UNCHANGED <<record, marked>>
  <2> DEFINE c == [proc[p] EXCEPT !.step = "clear", !.copy = record[Mine(p)]]
  <2>1. Become(p, c) /\ record[Mine(p)] \in Record \union {NoRecord}
    BY <1>1, <1>2, <1>4 DEF Mine, Records
  <2>2. /\ c \in Command /\ c.step = "clear" /\ c.op = proc[p].op /\ c.vm = proc[p].vm
        /\ c.at = proc[p].at /\ c.made = proc[p].made /\ c.copy = record[v]
    BY <1>1, <2>1 DEF Command, Steps, Mine
  <2> HIDE DEF c
  <2>3. proc'[p] = c
    BY <1>1, <2>1, <2>2, Becoming
  <2>4. Own(p)'
    <3>1. proc[p].made /\ record[v] # NoRecord /\ c.copy # NoRecord
      BY <1>1, <2>2 DEF Own
    <3> QED BY <1>1, <1>2, <1>4, <2>2, <2>3, <3>1 DEF Own, Agree
  <2>5. MarkStays'
    BY <1>2, <1>4 DEF VMInv, MarkStays
  <2> QED BY <1>1, <1>2, <1>4, <2>1, <2>2, <2>4, <2>5, QuietKeeps
<1> QED BY <1>3, <1>4 DEF Finishes, Mine

LEMMA ClearsKeeps ==
  ASSUME VMInv, NEW p \in Procs, Clears(p)
  PROVE  VMInv'
<1> DEFINE v == proc[p].vm
           r == IF proc[p].copy = NoRecord THEN record[v] ELSE [proc[p].copy EXCEPT !.creator = None]
<1>1. /\ UNCHANGED <<vm, lock, cap, marked, overwritten>> /\ TypeOK /\ Own(p) /\ proc[p] \in Command
      /\ proc[p].step = "clear" /\ v \in VMs /\ lock[v] = p /\ p # None
      /\ proc[p].copy # NoRecord /\ (v \in overwritten \/ Agree(proc[p].copy, record[v]))
      /\ uncounted' = uncounted \union Missed(p) /\ proc[p].made
  BY Known DEF Clears, At, Own
<1>2. /\ vm \in [VMs -> {"none", "stopped", "running"}] /\ lock \in [VMs -> Procs \union {None}]
      /\ cap \in Procs \union {None} /\ marked \subseteq VMs
      /\ proc[p].copy \in Record
      /\ v \in marked => v \in overwritten \/ (record[v] # NoRecord /\ record[v].keep)
      /\ uncounted \subseteq VMs /\ overwritten \subseteq VMs
      /\ v \in uncounted => vm[v] = "running"
  BY <1>1 DEF TypeOK, VMInv, MarkStays, Running, Command
<1>3. record' = [record EXCEPT ![v] = r]
  BY <1>1 DEF Clears, Mine
<1>4. PICK c \in Command :
         /\ Become(p, c) /\ c.step = "work" /\ c.op = proc[p].op /\ c.vm = proc[p].vm
         /\ c.at = None /\ c.made = FALSE
  BY WorksTo DEF Clears
<1>5. /\ r \in Record /\ r.creator = None /\ r # NoRecord
      /\ v \in overwritten \/ r.keep = record[v].keep
  <2>1. r = [proc[p].copy EXCEPT !.creator = None]
    BY <1>1
  <2> DEFINE d == proc[p].copy
             t == [d EXCEPT !.creator = None]
  <2>2. d \in Record /\ (v \in overwritten \/ d.keep = record[v].keep)
    BY <1>1, <1>2 DEF Agree
  <2>3. r = t
    BY <2>1
  <2> HIDE DEF r, d
  <2>4. t \in Record /\ t.creator = None /\ t.keep = d.keep
    BY <2>2 DEF Record
  <2> HIDE DEF t
  <2> QED BY <2>2, <2>3, <2>4, NoRecordApart
<1> HIDE DEF r
<1>6. record' \in Records /\ record'[v] = r /\ \A u \in VMs \ {v} : record'[u] = record[u]
  BY <1>1, <1>3, <1>5, Written
<1>7. proc'[p] = c
  BY <1>1, <1>4, Becoming
<1>8. Own(p)'
  BY <1>1, <1>4, <1>7 DEF Own
<1>9. /\ \A u \in VMs \ {v} : u \in uncounted' <=> u \in uncounted
      /\ uncounted' \subseteq VMs /\ (v \in uncounted' => vm[v] = "running")
      /\ \/ v \in uncounted' \union overwritten'
         \/ vm[v] # "running"
         \/ v \in Using /\ \A q \in Procs \ {p} : At(q, "room") => v \in proc[q].seen
  BY <1>1, <1>2 DEF Missed, Mine, Using, Running
<1>10. /\ \A u \in VMs \ {v} : /\ vm'[u] = vm[u] /\ record'[u] = record[u]
                               /\ u \in uncounted' <=> u \in uncounted
                               /\ u \in overwritten' <=> u \in overwritten
       /\ uncounted' \subseteq VMs /\ overwritten' \subseteq VMs
       /\ v \in uncounted' => vm'[v] = "running"
       /\ \A u \in VMs : lock[u] \notin {None, p} => lock'[u] = lock[u]
       /\ cap \notin {None, p} => cap' = cap
       /\ marked' \ {v} \subseteq marked
       /\ v \in marked' => v \in overwritten' \/ (record'[v] # NoRecord /\ record'[v].keep)
       /\ vm'[v] # "none" => record'[v] # NoRecord
  BY <1>1, <1>2, <1>5, <1>6, <1>9
<1>11. /\ v \in overwritten' \/ record'[v].creator \notin Procs
            \/ (record'[v].creator = p /\ c.made /\ c.vm = v)
       /\ proc[p].made => proc[p].vm = v
       /\ c.made => c.vm = v
       /\ c.step # "room"
       /\ \/ v \in uncounted' \union overwritten'
          \/ vm'[v] # "running" /\ ~(c.made /\ c.step \in {"make", "start"})
          \/ /\ v \in Using
             /\ \/ record'[v].creator \in Procs
                \/ \A q \in Procs \ {p} : At(q, "room") => v \in proc[q].seen
  BY <1>1, <1>4, <1>5, <1>6, <1>9, NamesAssumption
<1> HIDE DEF v
<1> QED
  BY <1>1, <1>2, <1>4, <1>6, <1>8, <1>10, <1>11, LockedKeeps

LEMMA RemovesKeeps ==
  ASSUME VMInv, NEW p \in Procs, Removes(p)
  PROVE  VMInv'
<1> DEFINE v == Target(p)
           reaped == IF proc[p].at = None THEN proc[p].reaped ELSE "some"
           c == [proc[p] EXCEPT !.step = "forget", !.reaped = reaped]
<1>1. /\ UNCHANGED <<record, lock, cap, marked, overwritten>> /\ TypeOK /\ Own(p) /\ proc[p] \in Command
      /\ proc[p].step = "remove" /\ p # None /\ proc[p].made = FALSE
      /\ v \in VMs /\ lock[v] = p /\ uncounted' = uncounted \ {v}
  BY Known DEF Removes, At, Own, Target, Mine, Command
<1>2. reaped \in {"not", "none", "some"}
  BY <1>1 DEF Command
<1>3. Become(p, c)
  BY <1>1 DEF Removes, Command
<1> HIDE DEF reaped
<1>4. /\ c \in Command /\ c.step = "forget" /\ c.op = proc[p].op /\ c.vm = proc[p].vm
      /\ c.at = proc[p].at /\ c.made = FALSE
  BY <1>1, <1>2 DEF Command, Steps
<1> HIDE DEF c
<1>5. /\ vm' \in [VMs -> {"none", "stopped", "running"}] /\ vm'[v] = "none"
      /\ \A u \in VMs \ {v} : vm'[u] = vm[u]
  BY <1>1 DEF Removes, TypeOK
<1>6. proc'[p] = c
  BY <1>1, <1>3, <1>4, Becoming
<1>7. Target(p)' = Target(p)
  BY <1>4, <1>6 DEF Target, Mine
<1>8. Own(p)'
  BY <1>1, <1>4, <1>5, <1>6, <1>7 DEF Own
<1>9. /\ record' \in Records /\ lock' \in [VMs -> Procs \union {None}]
      /\ cap' \in Procs \union {None} /\ marked' \subseteq VMs
      /\ v \in marked => v \in overwritten \/ (record[v] # NoRecord /\ record[v].keep)
      /\ uncounted' \subseteq VMs /\ overwritten' \subseteq VMs
  BY <1>1 DEF TypeOK, VMInv, MarkStays
<1>10. v \in overwritten \/ record[v].creator \notin Procs
  BY <1>1, NamesAssumption DEF VMInv, Creators, Own
<1>11. /\ \A u \in VMs \ {v} : /\ vm'[u] = vm[u] /\ record'[u] = record[u]
                               /\ u \in uncounted' <=> u \in uncounted
                               /\ u \in overwritten' <=> u \in overwritten
       /\ uncounted' \subseteq VMs /\ overwritten' \subseteq VMs
       /\ v \in uncounted' => vm'[v] = "running"
       /\ \A u \in VMs : lock[u] \notin {None, p} => lock'[u] = lock[u]
       /\ cap \notin {None, p} => cap' = cap
       /\ marked' \ {v} \subseteq marked
       /\ v \in marked' => v \in overwritten' \/ (record'[v] # NoRecord /\ record'[v].keep)
       /\ vm'[v] # "none" => record'[v] # NoRecord
  BY <1>1, <1>5, <1>9
<1>12. /\ v \in overwritten' \/ record'[v].creator \notin Procs
            \/ (record'[v].creator = p /\ c.made /\ c.vm = v)
       /\ proc[p].made => proc[p].vm = v
       /\ c.made => c.vm = v
       /\ c.step # "room"
       /\ \/ v \in uncounted' \union overwritten'
          \/ vm'[v] # "running" /\ ~(c.made /\ c.step \in {"make", "start"})
          \/ /\ v \in Using
             /\ \/ record'[v].creator \in Procs
                \/ \A q \in Procs \ {p} : At(q, "room") => v \in proc[q].seen
  BY <1>1, <1>4, <1>5, <1>10
<1> HIDE DEF v
<1> QED
  BY <1>1, <1>3, <1>4, <1>5, <1>8, <1>9, <1>11, <1>12, LockedKeeps

LEMMA ForgetsKeeps ==
  ASSUME VMInv, NEW p \in Procs, Forgets(p)
  PROVE  VMInv'
<1> DEFINE v == Target(p)
<1>1. /\ UNCHANGED <<vm, cap, history>> /\ TypeOK /\ Own(p) /\ proc[p] \in Command
      /\ proc[p].step = "forget" /\ p # None /\ proc[p].made = FALSE
      /\ v \in VMs /\ lock[v] = p /\ vm[v] = "none"
      /\ proc[p].at \in VMs \union {None} /\ proc[p].vm \in VMs \union {None}
  BY Known DEF Forgets, At, Own, Target, Mine, Command
<1>2. PICK c \in Command :
         /\ Become(p, c) /\ c.op = proc[p].op /\ c.vm = proc[p].vm /\ c.at = None /\ c.made = FALSE
         /\ \/ c.step = "work" /\ lock' = lock /\ proc[p].at = None
            \/ c.step = "reap" /\ LetGo(proc[p].at) /\ proc[p].at # None
  <2>1. CASE proc[p].at = None
    BY <2>1, WorksTo DEF Forgets
  <2>2. CASE proc[p].at # None
    <3> DEFINE c == [proc[p] EXCEPT !.step = "reap", !.at = None]
    <3>1. Become(p, c) /\ LetGo(proc[p].at)
      BY <2>2 DEF Forgets
    <3>2. /\ c \in Command /\ c.op = proc[p].op /\ c.vm = proc[p].vm
          /\ c.at = None /\ c.made = FALSE /\ c.step = "reap"
      BY <1>1 DEF Command, Steps
    <3> HIDE DEF c
    <3> QED BY <2>2, <3>1, <3>2
  <2> QED BY <2>1, <2>2
<1>3. /\ record' = [record EXCEPT ![v] = NoRecord] /\ marked' = marked \ {v}
      /\ vm \in [VMs -> {"none", "stopped", "running"}] /\ cap \in Procs \union {None}
      /\ marked \subseteq VMs
      /\ UNCHANGED <<uncounted, overwritten>> /\ uncounted \subseteq VMs /\ overwritten \subseteq VMs
      /\ v \in uncounted => vm[v] = "running"
  BY <1>1 DEF Forgets, TypeOK, VMInv, Running, history
<1>4. /\ record' \in Records /\ record'[v] = NoRecord
      /\ \A u \in VMs \ {v} : record'[u] = record[u]
  BY <1>1, <1>3, Written
<1>5. /\ lock' \in [VMs -> Procs \union {None}] /\ \A u \in VMs \ {v} : lock'[u] = lock[u]
      /\ proc[p].at = None => lock' = lock
  BY <1>1, <1>2 DEF TypeOK, LetGo, Target, Mine
<1>6. proc'[p] = c /\ c.op # "screen"
  BY <1>1, <1>2, Becoming DEF Own
<1>7. c.vm # None => c.op = "screen" \/ lock'[c.vm] = p
  BY <1>1, <1>2, <1>5 DEF Own, Target, Mine
<1>8. Own(p)'
  BY <1>1, <1>2, <1>6, <1>7 DEF Own, Target
<1>9. NoRecord.creator \notin Procs
  BY NamesAssumption DEF NoRecord
<1>10. /\ \A u \in VMs \ {v} : /\ vm'[u] = vm[u] /\ record'[u] = record[u]
                               /\ u \in uncounted' <=> u \in uncounted
                               /\ u \in overwritten' <=> u \in overwritten
       /\ uncounted' \subseteq VMs /\ overwritten' \subseteq VMs
       /\ v \in uncounted' => vm'[v] = "running"
       /\ \A u \in VMs : lock[u] \notin {None, p} => lock'[u] = lock[u]
       /\ cap \notin {None, p} => cap' = cap
       /\ marked' \ {v} \subseteq marked
       /\ v \in marked' => v \in overwritten' \/ (record'[v] # NoRecord /\ record'[v].keep)
       /\ vm'[v] # "none" => record'[v] # NoRecord
  BY <1>1, <1>3, <1>4, <1>5
<1>11. /\ v \in overwritten' \/ record'[v].creator \notin Procs
            \/ (record'[v].creator = p /\ c.made /\ c.vm = v)
       /\ proc[p].made => proc[p].vm = v
       /\ c.made => c.vm = v
       /\ c.step # "room"
       /\ \/ v \in uncounted' \union overwritten'
          \/ vm'[v] # "running" /\ ~(c.made /\ c.step \in {"make", "start"})
          \/ /\ v \in Using
             /\ \/ record'[v].creator \in Procs
                \/ \A q \in Procs \ {p} : At(q, "room") => v \in proc[q].seen
  BY <1>1, <1>2, <1>3, <1>4, <1>9
<1> HIDE DEF v
<1> QED
  BY <1>1, <1>2, <1>3, <1>4, <1>5, <1>8, <1>10, <1>11, LockedKeeps

-----------------------------------------------------------------------------
(* Steps that are neither.                                                 *)

\* The room a command counts is enough for its VM beside every other that
\* runs or is being made.
LEMMA RoomCounted ==
  ASSUME VMInv, NEW p \in Procs, At(p, "room"), HasRoom(p)
  PROVE  Cardinality(Using \union {proc[p].vm}) <= Room
<1> DEFINE seen == proc[p].seen
           counted == seen \union Pending(p, seen)
<1>1. /\ TypeOK /\ Own(p) /\ seen \in SUBSET VMs /\ proc[p].vm \in VMs /\ proc[p].vm \notin seen
      /\ proc[p].made = FALSE
  BY Known DEF At, Own, Command
<1>2. Using \subseteq counted
  <2>1. \A v \in VMs \ overwritten : record[v].creator # p
    BY <1>1 DEF VMInv, Creators
  <2>2. Using \subseteq VMs \ overwritten
    BY DEF Using, Running, Making
  <2> QED BY <2>1, <2>2 DEF VMInv, Counted, Pending
<1>3. Cardinality(seen) + Cardinality(Pending(p, seen)) + 1 <= Room
  BY <1>1 DEF HasRoom, Mine
<1>4. Pending(p, seen) \subseteq VMs /\ seen \intersect Pending(p, seen) = {}
  BY DEF Pending
<1> HIDE DEF seen
<1>5. /\ IsFiniteSet(seen) /\ IsFiniteSet(Pending(p, seen))
      /\ Cardinality(seen) \in Nat /\ Cardinality(Pending(p, seen)) \in Nat
  BY <1>1, <1>4, NamesAssumption, FS_Subset, FS_CardinalityType
<1>6. IsFiniteSet(counted) /\ Cardinality(counted) = Cardinality(seen) + Cardinality(Pending(p, seen))
  <2>1. seen \intersect Pending(p, seen) = {}
    BY <1>4
  <2>2. Cardinality(seen \intersect Pending(p, seen)) = 0
    BY <2>1, FS_EmptySet
  <2>3. /\ IsFiniteSet(counted)
        /\ Cardinality(counted) =
             Cardinality(seen) + Cardinality(Pending(p, seen)) - Cardinality(seen \cap Pending(p, seen))
    <3> DEFINE pending == Pending(p, seen)
    <3>1. IsFiniteSet(seen) /\ IsFiniteSet(pending)
      BY <1>5
    <3> HIDE DEF pending
    <3>2. /\ IsFiniteSet(seen \union pending)
          /\ Cardinality(seen \union pending) =
               Cardinality(seen) + Cardinality(pending) - Cardinality(seen \cap pending)
      BY <3>1, FS_Union
    <3> QED BY <3>2 DEF pending
  <2> HIDE DEF counted
  <2> QED BY <1>5, <2>2, <2>3
<1> HIDE DEF counted
<1>7. /\ IsFiniteSet(counted \union {proc[p].vm})
      /\ Cardinality(counted \union {proc[p].vm}) <= Cardinality(counted) + 1
  <2>1. Cardinality(counted) \in Nat
    BY <1>6, FS_CardinalityType
  <2>2. /\ IsFiniteSet(counted \union {proc[p].vm})
        /\ Cardinality(counted \union {proc[p].vm}) =
             IF proc[p].vm \in counted THEN Cardinality(counted) ELSE Cardinality(counted) + 1
    BY <1>6, FS_AddElement
  <2> QED BY <2>1, <2>2
<1>8. Using \union {proc[p].vm} \subseteq counted \union {proc[p].vm}
  BY <1>2
<1>9. /\ Cardinality(Using \union {proc[p].vm}) <= Cardinality(counted \union {proc[p].vm})
      /\ Cardinality(Using \union {proc[p].vm}) \in Nat
      /\ Cardinality(counted \union {proc[p].vm}) \in Nat
  BY <1>7, <1>8, FS_Subset, FS_CardinalityType
<1> QED BY <1>3, <1>5, <1>6, <1>7, <1>9, RoomAssumption

LEMMA AdmitsKeeps ==
  ASSUME VMInv, NEW p \in Procs, Admits(p)
  PROVE  VMInv'
<1> DEFINE v == proc[p].vm
<1>1. /\ UNCHANGED <<vm, lock, uncounted>> /\ TypeOK /\ Own(p) /\ proc[p] \in Command
      /\ proc[p].step = "room" /\ v \in VMs /\ lock[v] = p /\ p # None /\ cap = p
      /\ proc[p].made = FALSE /\ proc[p].op = "create" /\ vm[v] # "running"
  BY Known DEF Admits, At, Own, Command
<1>2. /\ vm \in [VMs -> {"none", "stopped", "running"}] /\ lock \in [VMs -> Procs \union {None}]
      /\ cap \in Procs \union {None} /\ marked \subseteq VMs /\ record \in Records
      /\ uncounted \subseteq VMs /\ overwritten \subseteq VMs
  BY <1>1 DEF TypeOK
<1>3. CASE vm[v] # "none"
  <2> DEFINE c == [Idle EXCEPT !.step = "touch", !.op = "create", !.vm = v]
  <2>1. Become(p, c) /\ UNCHANGED <<record, cap, marked, history>>
    BY <1>3 DEF Admits, Mine, history
  <2>2. /\ c \in Command /\ c.step = "touch" /\ c.op = "create" /\ c.vm = v
        /\ c.at = None /\ c.made = FALSE
    BY <1>1 DEF Command, Steps, Idle, NoRecords, Records
  <2> HIDE DEF c
  <2>3. proc'[p] = c
    BY <1>1, <2>1, <2>2, Becoming
  <2>4. Own(p)'
    BY <1>1, <2>1, <2>2, <2>3 DEF Own
  <2>5. MarkStays'
    BY <2>1 DEF VMInv, MarkStays, history
  <2> QED BY <1>1, <1>2, <2>1, <2>2, <2>4, <2>5, QuietKeeps
<1>4. CASE vm[v] = "none"
  <2> DEFINE c == [Idle EXCEPT !.step = "make", !.op = "create", !.vm = v, !.made = TRUE]
             r == Fresh(p)
  <2>1. /\ Become(p, c) /\ record' = [record EXCEPT ![v] = r]
        /\ marked' = marked \ {v} /\ cap' = None /\ overwritten' = overwritten \ {v}
    BY <1>4 DEF Admits, Mine
  <2>2. /\ c \in Command /\ c.step = "make" /\ c.op = "create" /\ c.vm = v
        /\ c.at = None /\ c.made = TRUE
    BY <1>1 DEF Command, Steps, Idle, NoRecords, Records
  <2>3. r \in Record /\ r.creator = p
    BY DEF Fresh, Record
  <2> HIDE DEF c, r
  <2>4. /\ record' \in Records /\ record'[v] = r /\ r # NoRecord
        /\ \A u \in VMs \ {v} : record'[u] = record[u]
    BY <1>1, <2>1, <2>3, Written, NoRecordApart
  <2>5. /\ proc' \in [Procs -> Command] /\ proc'[p] = c
        /\ \A q \in Procs \ {p} : proc'[q] = proc[q]
    BY <1>1, <2>1, <2>2, Becoming
  <2>6. TypeOK'
    BY <1>1, <1>2, <2>1, <2>4, <2>5 DEF TypeOK
  <2>7. \A q \in Procs : Own(q)'
    <3>1. Own(p)'
      BY <1>1, <2>2, <2>3, <2>4, <2>5 DEF Own
    <3>2. ASSUME NEW q \in Procs, q # p PROVE Own(q)'
      <4>1. /\ Own(q) /\ proc'[q] = proc[q]
            /\ \A u \in VMs : lock[u] = q =>
                 /\ lock'[u] = q /\ vm'[u] = vm[u] /\ record'[u] = record[u]
                 /\ u \in overwritten => u \in overwritten'
            /\ cap = q => cap' = q
        BY <1>1, <2>1, <2>4, <2>5, <3>2 DEF VMInv
      <4> QED BY <1>1, <3>2, <4>1, OthersOwn DEF Agree
    <3> QED BY <3>1, <3>2
  <2>8. Owned' /\ MarkStays'
    BY <1>1, <2>1, <2>4 DEF VMInv, Owned, MarkStays
  <2>9. Creators'
    BY <1>1, <2>1, <2>2, <2>3, <2>4, <2>5 DEF VMInv, Creators
  <2>10. Counted'
    <3> SUFFICES ASSUME NEW q \in Procs, At(q, "room")' PROVE FALSE
      BY DEF Counted
    <3>1. q # p /\ proc[q].step = "room"
      BY <2>2, <2>5 DEF At
    <3>2. cap = q
      BY <3>1 DEF VMInv, Own
    <3> QED BY <1>1, <3>1, <3>2
  <2>11. Fits' /\ (uncounted \subseteq Running)'
    <3>1. Using' \subseteq Using \union {v}
      BY <1>1, <2>1, <2>2, <2>5 DEF Using, Running, Making
    <3>2. IsFiniteSet(Using \union {v})
      BY <1>1, NamesAssumption, FS_Subset, FS_AddElement DEF Using, Running, Making
    <3>3. /\ Cardinality(Using') <= Cardinality(Using \union {v})
          /\ Cardinality(Using \union {v}) \in Nat /\ Cardinality(Using') \in Nat
      BY <3>1, <3>2, FS_Subset, FS_CardinalityType
    <3>4. Cardinality(Using \union {v}) <= Room
      BY RoomCounted DEF Admits
    <3>5. (uncounted \subseteq Running)'
      BY <1>1 DEF VMInv, Running
    <3> QED BY <3>3, <3>4, <3>5, RoomAssumption DEF Fits
  <2> QED BY <2>6, <2>7, <2>8, <2>9, <2>10, <2>11 DEF VMInv
<1> QED BY <1>3, <1>4

\* A pid gone from a record leaves the rest of it.
LEMMA BuriedRecord ==
  ASSUME NEW p \in Procs, NEW r \in Record \union {NoRecord}
  PROVE  /\ Buried(r, p) \in Record \union {NoRecord}
         /\ Buried(r, p) = NoRecord <=> r = NoRecord
         /\ r # NoRecord => Buried(r, p).keep = r.keep
         /\ Buried(r, p).creator = IF r.creator = p THEN Dead ELSE r.creator
<1>1. CASE r = NoRecord
  <2>1. r.creator # p
    BY <1>1, NamesAssumption DEF NoRecord
  <2> QED BY <1>1, <2>1 DEF Buried
<1>2. CASE r \in Record /\ r.creator = p
  <2>1. Buried(r, p) = [r EXCEPT !.creator = Dead]
    BY <1>2 DEF Buried
  <2>2. /\ [r EXCEPT !.creator = Dead] \in Record /\ [r EXCEPT !.creator = Dead].keep = r.keep
        /\ [r EXCEPT !.creator = Dead].creator = Dead
    BY <1>2 DEF Record
  <2> QED BY <1>2, <2>1, <2>2, NoRecordApart
<1>3. CASE r \in Record /\ r.creator # p
  BY <1>3 DEF Buried
<1> QED BY <1>1, <1>2, <1>3

LEMMA StopsKeeps ==
  ASSUME VMInv, NEW p \in Procs, Stops(p)
  PROVE  VMInv'
<1>1. /\ UNCHANGED <<vm, marked, overwritten>> /\ TypeOK /\ Own(p) /\ proc[p] \in Command /\ p # None
      /\ uncounted' = uncounted \union Missed(p) /\ Ends(p)
  BY Known DEF Stops, Ends
<1>2. /\ vm \in [VMs -> {"none", "stopped", "running"}] /\ lock \in [VMs -> Procs \union {None}]
      /\ cap \in Procs \union {None} /\ marked \subseteq VMs /\ proc \in [Procs -> Command]
      /\ \A v \in VMs : record[v] \in Record \union {NoRecord}
      /\ uncounted \subseteq VMs /\ overwritten \subseteq VMs
  BY <1>1 DEF TypeOK, Records
<1>3. /\ record' = [v \in VMs |-> Buried(record[v], p)]
      /\ lock' = [v \in VMs |-> IF lock[v] = p THEN None ELSE lock[v]]
      /\ cap' = IF cap = p THEN None ELSE cap
  BY <1>1 DEF Ends
<1>4. \A v \in VMs : /\ record'[v] \in Record \union {NoRecord}
                     /\ record'[v] = NoRecord <=> record[v] = NoRecord
                     /\ record[v] # NoRecord => record'[v].keep = record[v].keep
                     /\ record'[v].creator = IF record[v].creator = p THEN Dead ELSE record[v].creator
  BY <1>2, <1>3, BuriedRecord
<1>5. /\ Idle \in Command /\ Idle.step = "idle" /\ Idle.op = "none" /\ Idle.vm = None
      /\ Idle.at = None /\ Idle.made = FALSE
  BY DEF Command, Steps, Idle, NoRecords, Records
<1>6. /\ proc' \in [Procs -> Command] /\ proc'[p] = Idle
      /\ \A q \in Procs \ {p} :
           /\ proc'[q].step = proc[q].step /\ proc'[q].op = proc[q].op /\ proc'[q].vm = proc[q].vm
           /\ proc'[q].at = proc[q].at /\ proc'[q].made = proc[q].made
           /\ proc'[q].seen = proc[q].seen /\ proc'[q].copy = Buried(proc[q].copy, p)
  <2> DEFINE list(q) == [v \in VMs |-> Buried(proc[q].list[v], p)]
             d(q) == [proc[q] EXCEPT !.copy = Buried(proc[q].copy, p), !.list = list(q)]
  <2>1. ASSUME NEW q \in Procs
        PROVE  /\ d(q) \in Command
               /\ d(q).step = proc[q].step /\ d(q).op = proc[q].op /\ d(q).vm = proc[q].vm
               /\ d(q).at = proc[q].at /\ d(q).made = proc[q].made
               /\ d(q).seen = proc[q].seen /\ d(q).copy = Buried(proc[q].copy, p)
    <3>1. /\ proc[q] \in Command /\ proc[q].copy \in Record \union {NoRecord}
          /\ \A v \in VMs : proc[q].list[v] \in Record \union {NoRecord}
      BY <1>2 DEF Command, Records
    <3>2. Buried(proc[q].copy, p) \in Record \union {NoRecord} /\ list(q) \in Records
      BY <3>1, BuriedRecord DEF Records
    <3> HIDE DEF list
    <3> QED BY <3>1, <3>2 DEF Command
  <2>2. proc' = [q \in Procs |-> IF q = p THEN Idle ELSE d(q)]
    BY <1>1, <1>2 DEF Ends, Command
  <2> HIDE DEF d
  <2> QED BY <1>5, <2>1, <2>2
<1>7. TypeOK'
  <2>1. Missed(p) \subseteq VMs
    <3>1. proc[p].made => proc[p].vm \in VMs
      BY <1>1, Known DEF Own
    <3> QED BY <3>1 DEF Missed, Mine
  <2> QED BY <1>1, <1>2, <1>3, <1>4, <1>6, <2>1 DEF TypeOK, Records
<1>8. \A q \in Procs : Own(q)'
  <2>1. Own(p)'
    BY <1>5, <1>6 DEF Own
  <2>2. ASSUME NEW q \in Procs, q # p PROVE Own(q)'
    <3>1. /\ Own(q) /\ proc[q].vm \in VMs \union {None} /\ proc[q].at \in VMs \union {None}
          /\ proc[q].copy \in Record \union {NoRecord} /\ q # None
      BY <1>2, NamesAssumption DEF VMInv, Command
    <3>2. /\ \A v \in VMs : lock[v] = q => lock'[v] = q
          /\ cap = q => cap' = q
      BY <1>3, <2>2
    <3>3. Target(q)' = Target(q)
      BY <1>6, <2>2 DEF Target, Mine
    <3>4. proc'[q].copy = NoRecord <=> proc[q].copy = NoRecord
      BY <1>6, <2>2, <3>1, BuriedRecord
    <3>5. proc[q].step \in {"touched", "write", "clear"} =>
            \/ proc[q].op = "screen" \/ proc[q].vm \in overwritten
            \/ Agree(proc'[q].copy, record'[proc[q].vm])
      <4> SUFFICES ASSUME proc[q].step \in {"touched", "write", "clear"}, proc[q].op # "screen",
                          proc[q].vm \notin overwritten
                   PROVE  Agree(proc'[q].copy, record'[proc[q].vm])
        OBVIOUS
      <4>1. proc[q].vm \in VMs /\ Agree(proc[q].copy, record[proc[q].vm])
        BY <3>1 DEF Own
      <4>2. Buried(proc[q].copy, p).keep = proc[q].copy.keep
        BY <3>1, BuriedRecord
      <4>3. record'[proc[q].vm].keep = record[proc[q].vm].keep
        BY <1>4, <4>1
      <4>4. record'[proc[q].vm].creator = Buried(proc[q].copy, p).creator
        BY <1>4, <3>1, <4>1, BuriedRecord DEF Agree
      <4> QED BY <1>6, <2>2, <4>1, <4>2, <4>3, <4>4 DEF Agree
    <3>6. proc[q].made => /\ record'[proc[q].vm] # NoRecord
                          /\ proc[q].vm \in overwritten \/ record'[proc[q].vm].creator = q
      BY <1>4, <2>2, <3>1 DEF Own
    <3> QED BY <1>1, <1>6, <2>2, <3>1, <3>2, <3>3, <3>4, <3>5, <3>6 DEF Own
  <2> QED BY <2>1, <2>2
<1>9. Owned' /\ MarkStays'
  BY <1>1, <1>2, <1>4 DEF VMInv, Owned, MarkStays
<1>10. Creators'
  BY <1>1, <1>4, <1>6, NamesAssumption DEF VMInv, Creators
<1>11. Using' \subseteq Using /\ (uncounted \subseteq Running)'
  <2>1. Running' = Running /\ Making' \subseteq Making
    BY <1>1, <1>5, <1>6 DEF Running, Making
  <2>2. uncounted \subseteq uncounted' /\ overwritten' = overwritten
    BY <1>1
  <2>3. proc[p].made => proc[p].vm \in VMs
    BY <1>1, Known DEF Own
  <2>4. Missed(p) \subseteq Running
    BY <2>3 DEF Missed, Mine, Running
  <2>5. uncounted' \subseteq Running'
    BY <1>1, <2>1, <2>4 DEF VMInv
  <2> QED BY <2>1, <2>2, <2>5 DEF Using
<1>12. Counted'
  <2> SUFFICES ASSUME NEW q \in Procs, At(q, "room")', NEW v \in Using'
               PROVE  v \in proc'[q].seen \/ record'[v].creator \in Procs
    BY DEF Counted
  <2>1. q # p /\ At(q, "room") /\ proc'[q].seen = proc[q].seen
    BY <1>5, <1>6 DEF At
  <2>2. /\ v \in VMs /\ v \notin uncounted' /\ v \notin overwritten /\ v \in Using
        /\ v \in proc[q].seen \/ record[v].creator \in Procs
    BY <1>1, <1>11, <2>1 DEF VMInv, Counted, Using, Running, Making
  <2>3. CASE record[v].creator = p
    <3>1. proc[p].made /\ proc[p].vm = v /\ lock[v] = p
      BY <1>1, <2>2, <2>3, NamesAssumption DEF VMInv, Creators, Own
    <3>2. v \notin Making'
      BY <1>5, <1>6, <3>1, NamesAssumption DEF Making, VMInv, Own
    <3>3. vm[v] = "running"
      BY <1>1, <3>2 DEF Using, Running
    <3> QED BY <1>1, <2>1, <2>2, <3>1, <3>3 DEF Missed, Mine
  <2>4. CASE record[v].creator # p
    BY <1>4, <2>1, <2>2, <2>4
  <2> QED BY <2>3, <2>4
<1>13. Fits'
  BY <1>11, LessFits DEF VMInv
<1> QED BY <1>7, <1>8, <1>9, <1>10, <1>11, <1>12, <1>13 DEF VMInv

LEMMA GuestStopsKeeps ==
  ASSUME VMInv, NEW v \in VMs, GuestStops(v)
  PROVE  VMInv'
<1>1. /\ UNCHANGED <<record, lock, cap, proc, marked, overwritten>> /\ TypeOK /\ vm[v] = "running"
      /\ uncounted' = uncounted \ {v}
      /\ vm' = [vm EXCEPT ![v] = "stopped"]
  BY DEF VMInv, GuestStops
<1>2. /\ vm' \in [VMs -> {"none", "stopped", "running"}] /\ vm'[v] = "stopped"
      /\ \A u \in VMs \ {v} : vm'[u] = vm[u]
  BY <1>1 DEF TypeOK
<1>3. TypeOK'
  BY <1>1, <1>2 DEF TypeOK
<1>4. \A p \in Procs : Own(p)'
  <2> SUFFICES ASSUME NEW p \in Procs PROVE Own(p)'
    OBVIOUS
  <2>1. /\ Own(p) /\ proc[p].vm \in VMs \union {None} /\ proc[p].at \in VMs \union {None}
    BY Known
  <2>2. Target(p)' = Target(p) /\ (proc[p].step = "forget" => Target(p) \in VMs)
    BY <1>1, <2>1 DEF Target, Mine, Own
  <2>3. proc[p].step = "forget" => vm'[Target(p)] = "none"
    BY <1>1, <1>2, <2>1, <2>2 DEF Own
  <2>4. /\ proc[p].step \in {"table", "room"} => vm'[proc[p].vm] # "running"
        /\ proc[p].made /\ proc[p].step \in {"make", "start"} => vm'[proc[p].vm] # "running"
    BY <1>1, <1>2, <2>1 DEF Own
  <2> QED BY <1>1, <2>1, <2>2, <2>3, <2>4 DEF Own
<1>5. Owned' /\ MarkStays' /\ Creators'
  BY <1>1, <1>2 DEF VMInv, Owned, MarkStays, Creators
<1>6. Using' \subseteq Using /\ (uncounted \subseteq Running)'
  <2>1. v \notin Making
    BY <1>1 DEF Making, VMInv, Own
  <2> QED BY <1>1, <1>2, <2>1 DEF Using, Running, Making, VMInv
<1>7. Counted'
  BY <1>1, <1>6 DEF VMInv, Counted, At
<1>8. Fits'
  BY <1>6, LessFits DEF VMInv
<1> QED BY <1>3, <1>4, <1>5, <1>6, <1>7, <1>8 DEF VMInv

LEMMA LeasePassesKeeps ==
  ASSUME VMInv, NEW v \in VMs, LeasePasses(v)
  PROVE  VMInv'
<1> DEFINE r == [record[v] EXCEPT !.stale = TRUE]
<1>1. /\ UNCHANGED <<vm, lock, cap, proc, marked, history>> /\ TypeOK /\ record[v] # NoRecord
      /\ \A p \in Procs : proc[p].step \notin {"touched", "write", "clear"}
      /\ record' = [record EXCEPT ![v] = r]
  BY DEF VMInv, LeasePasses
<1>2. record[v] \in Record
  BY <1>1 DEF TypeOK, Records
<1>3. r \in Record /\ r.keep = record[v].keep /\ r.creator = record[v].creator
  BY <1>2, RecordChanged
<1> HIDE DEF r
<1>4. /\ record' \in Records /\ record'[v] = r /\ r # NoRecord
      /\ \A u \in VMs \ {v} : record'[u] = record[u]
  BY <1>1, <1>3, Written, NoRecordApart
<1>5. TypeOK'
  BY <1>1, <1>4 DEF TypeOK, history
<1>6. \A u \in VMs : /\ record'[u].creator = record[u].creator
                     /\ record[u] # NoRecord => record'[u] # NoRecord
                     /\ record'[u].keep = record[u].keep
  BY <1>3, <1>4
<1>7. \A p \in Procs : Own(p)'
  <2> SUFFICES ASSUME NEW p \in Procs PROVE Own(p)'
    OBVIOUS
  <2>1. Own(p) /\ proc[p].vm \in VMs \union {None} /\ Target(p)' = Target(p)
    BY <1>1, Known DEF Target, Mine
  <2> QED BY <1>1, <1>6, <2>1 DEF Own, history
<1>8. Owned' /\ MarkStays' /\ Creators'
  BY <1>1, <1>2, <1>6 DEF VMInv, TypeOK, Owned, MarkStays, Creators, history
<1>9. Using' = Using /\ (uncounted \subseteq Running)'
  BY <1>1 DEF VMInv, Using, Running, Making, history
<1>10. Counted' /\ Fits'
  BY <1>1, <1>6, <1>9 DEF VMInv, Counted, Fits, At, Using, Running, Making
<1> QED BY <1>5, <1>7, <1>8, <1>9, <1>10 DEF VMInv

-----------------------------------------------------------------------------
(* The theorems.                                                           *)

LEMMA VMsInitInv == Init => VMInv
<1> SUFFICES ASSUME Init PROVE VMInv
  OBVIOUS
<1>1. /\ Idle \in Command /\ Idle.step = "idle" /\ Idle.op = "none" /\ Idle.vm = None
      /\ Idle.at = None /\ Idle.made = FALSE
  BY DEF Command, Steps, Idle, NoRecords, Records
<1>2. NoRecord.creator \notin Procs /\ NoRecords \in Records
  BY NamesAssumption DEF NoRecord, NoRecords, Records
<1>3. TypeOK /\ Owned /\ MarkStays
  BY <1>1, <1>2 DEF Init, TypeOK, Owned, MarkStays
<1>4. \A p \in Procs : proc[p] = Idle
  BY DEF Init
<1>5. (\A p \in Procs : Own(p)) /\ Counted
  BY <1>1, <1>4 DEF Own, Counted, At
<1>6. Creators
  BY <1>2 DEF Init, NoRecords, Creators
<1>7. Using = {} /\ uncounted \subseteq Running
  BY <1>1, <1>4 DEF Init, Using, Running, Making
<1>8. Fits
  BY <1>7, FS_EmptySet, RoomAssumption DEF Fits
<1> QED BY <1>3, <1>5, <1>6, <1>7, <1>8 DEF VMInv

LEMMA VMsStepInv ==
  ASSUME VMInv, [Next]_vars
  PROVE  VMInv'
<1>1. CASE UNCHANGED vars
  BY <1>1 DEF vars, VMInv, TypeOK, Own, Target, Mine, Owned, MarkStays, Creators, Counted, At,
              Fits, Using, Running, Making, Agree, history
<1>2. ASSUME NEW p \in Procs, NEW op \in Commands \ {"reap"}, NEW v \in VMs, Begins(p, op, v)
      PROVE VMInv'
  BY <1>2, BeginsKeeps
<1>3. ASSUME NEW p \in Procs, NEW v \in VMs, Keeps(p, v) \/ Condemns(p, v)
      PROVE VMInv'
  BY <1>3, KeepsKeeps, CondemnsKeeps
<1>4. ASSUME NEW p \in Procs, "reap" \in Commands, ReapBegins(p)
      PROVE VMInv'
  BY <1>4, ReapBeginsKeeps
<1>5. ASSUME NEW p \in Procs,
             TouchReads(p) \/ TouchWrites(p) \/ MarkReads(p) \/ MarkWrites(p) \/ MarkReadsBack(p)
      PROVE VMInv'
  BY <1>5, TouchReadsKeeps, TouchWritesKeeps, MarkReadsKeeps, MarkWritesKeeps, MarkReadsBackKeeps
<1>6. ASSUME NEW p \in Procs,
             \/ TakesCapacity(p) \/ Finds(p) \/ ReadsTable(p) \/ Admits(p) \/ Refuses(p)
             \/ Makes(p) \/ Starts(p) \/ Returns(p) \/ Finishes(p) \/ Clears(p)
      PROVE VMInv'
  BY <1>6, TakesCapacityKeeps, FindsKeeps, ReadsTableKeeps, AdmitsKeeps, RefusesKeeps,
     MakesKeeps, StartsKeeps, ReturnsKeeps, FinishesKeeps, ClearsKeeps
<1>7. ASSUME NEW p \in Procs,
             Removes(p) \/ FailsToRemove(p) \/ Forgets(p) \/ TriesAgain(p) \/ Stops(p)
      PROVE VMInv'
  BY <1>7, RemovesKeeps, FailsToRemoveKeeps, ForgetsKeeps, TriesAgainKeeps, StopsKeeps
<1>8. ASSUME NEW v \in VMs, GuestStops(v) \/ LeasePasses(v)
      PROVE VMInv'
  BY <1>8, GuestStopsKeeps, LeasePassesKeeps
<1> QED BY <1>1, <1>2, <1>3, <1>4, <1>5, <1>6, <1>7, <1>8 DEF Next

\* Whatever commands run at once and wherever they die, locks, records and the
\* VMs UTM has agree.
THEOREM VMInvHolds == Spec => []VMInv
<1>1. Init => VMInv
  BY VMsInitInv
<1>2. VMInv /\ [Next]_vars => VMInv'
  BY VMsStepInv
<1> QED BY <1>1, <1>2, PTL DEF Spec

\* However many vm-creates decide at once, the VMs that run are never more than
\* the Mac has memory for: but for those booted again, missed by a table, or
\* whose record vm-screen put back.
THEOREM RoomIsKept == Spec => []RoomKept
<1>1. VMInv => RoomKept
  <2> SUFFICES ASSUME VMInv PROVE RoomKept
    OBVIOUS
  <2>1. /\ IsFiniteSet(Using) /\ Running \ (uncounted \union overwritten) \subseteq Using
        /\ Using \subseteq VMs
    BY NamesAssumption, FS_Subset DEF Using, Running, Making
  <2>2. /\ Cardinality(Running \ (uncounted \union overwritten)) <= Cardinality(Using)
        /\ Cardinality(Using) \in Nat
        /\ Cardinality(Running \ (uncounted \union overwritten)) \in Nat
    BY <2>1, FS_Subset, FS_CardinalityType
  <2> QED BY <2>2, RoomAssumption DEF VMInv, Fits, RoomKept
<1> QED BY <1>1, VMInvHolds, PTL

\* A VM that vm-create made always has a record.
THEOREM VMsAreOwned == Spec => []Owned
<1>1. VMInv => Owned
  BY DEF VMInv
<1> QED BY <1>1, VMInvHolds, PTL

\* A mark that vm-keep-create reported stays in the record, unless vm-screen put
\* back one it had read before.
THEOREM MarksStay == Spec => []MarkStays
<1>1. VMInv => MarkStays
  BY DEF VMInv
<1> QED BY <1>1, VMInvHolds, PTL

\* Only a command's removal takes a VM away.
LEMMA OnlyRemoval ==
  ASSUME [Next]_vars, NEW v \in VMs, vm[v] # "none", vm'[v] = "none", TypeOK
  PROVE  \E p \in Procs : At(p, "remove") /\ Target(p) = v
<1>1. ~UNCHANGED vm
  OBVIOUS
<1>2. \/ \E p \in Procs : Makes(p) \/ Starts(p) \/ Removes(p)
      \/ \E u \in VMs : GuestStops(u)
  BY <1>1 DEF Next, vars, Begins, ReapBegins, TouchReads, TouchWrites, MarkReads, MarkWrites,
              MarkReadsBack, TakesCapacity, Finds, ReadsTable, Admits, Refuses, Returns, Finishes,
              Clears, Keeps, Condemns, FailsToRemove, Forgets, TriesAgain, Stops, Ends, LeasePasses
<1>3. ASSUME NEW p \in Procs, Makes(p) PROVE FALSE
  BY <1>3 DEF Makes, TypeOK
<1>4. ASSUME NEW p \in Procs, Starts(p) PROVE FALSE
  BY <1>4 DEF Starts, TypeOK
<1>5. ASSUME NEW u \in VMs, GuestStops(u) PROVE FALSE
  BY <1>5 DEF GuestStops, TypeOK
<1>6. ASSUME NEW p \in Procs, Removes(p) PROVE At(p, "remove") /\ Target(p) = v
  BY <1>6 DEF Removes, TypeOK
<1> QED BY <1>2, <1>3, <1>4, <1>5, <1>6

\* Nothing removes a VM while another command that took its lock is at it.
THEOREM UsedStay == Spec => UsedStays
<1> DEFINE Users(v) == {p \in Procs : \/ proc[p].vm = v /\ proc[p].op # "screen"
                                      \/ proc[p].at = v}
           A == \A v \in VMs : vm[v] # "none" /\ vm'[v] = "none" => Cardinality(Users(v)) = 1
<1>1. VMInv /\ [Next]_vars => A
  <2> SUFFICES ASSUME VMInv, [Next]_vars, NEW v \in VMs, vm[v] # "none", vm'[v] = "none"
               PROVE  Cardinality(Users(v)) = 1
    OBVIOUS
  <2>1. PICK p \in Procs : At(p, "remove") /\ Target(p) = v
    BY OnlyRemoval DEF VMInv
  <2>2. lock[v] = p /\ p \in Users(v)
    BY <2>1, NamesAssumption DEF VMInv, Own, At, Target, Mine
  <2>3. \A q \in Users(v) : lock[v] = q
    BY NamesAssumption DEF VMInv, Own
  <2>4. Users(v) = {p}
    BY <2>2, <2>3
  <2> HIDE DEF Users
  <2> QED BY <2>4, FS_Singleton
<1>2. A <=> \A v \in VMs : vm[v] # "none" /\ vm'[v] = "none" =>
             Cardinality({p \in Procs : \/ proc[p].vm = v /\ proc[p].op # "screen"
                                        \/ proc[p].at = v}) = 1
  OBVIOUS
<1> QED BY <1>1, <1>2, VMInvHolds, PTL DEF Spec, UsedStays

\* Records, locks, UTM's VMs and the commands on them keep their types.
THEOREM VMTypesHold == Spec => []TypeOK
<1>1. VMInv => TypeOK  BY DEF VMInv
<1> QED  BY <1>1, VMInvHolds, PTL
=============================================================================
