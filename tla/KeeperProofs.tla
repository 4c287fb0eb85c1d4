---------------------------- MODULE KeeperProofs ----------------------------
(***************************************************************************)
(* UTM shared by any number of commands and the keeper: what a restart of  *)
(* it can stop, and which requests can make it stop answering.             *)
(*                                                                         *)
(* Both rest on UTMLaunchLock: who holds it while UTM launches, and what   *)
(* others cannot do meanwhile.  A request that was let through before the  *)
(* lock was taken is in overtaken, and no other is on its way.             *)
(***************************************************************************)
EXTENDS Keeper, TLAPS

Pcs == {"idle", "check", "settle", "send", "hangs", "recover", "quit", "reopen"}
Asks == {"start", "name", "list", "reopen", "back", "pass", "again"}
Starters == [pc : Pcs, ask : Asks, vm : VMs \union {"none"}, named : BOOLEAN, held : BOOLEAN]

UTMTypes ==
  /\ utm \in {"closed", "launching", "open"}
  /\ power \in [VMs -> {"stopped", "started"}]
  /\ starter \in [Processes -> Starters]
  /\ launch \in Processes \union {Free}
  /\ keeper = [pc |-> keeper.pc, marks |-> keeper.marks, ac |-> keeper.ac,
               seen |-> keeper.seen, known |-> keeper.known, todo |-> keeper.todo]

\* The lock is held from opening UTM to the end of its settling, and from a
\* restart's beginning to the end of the start it was for; and only who holds
\* it for a restart quits UTM and opens it again.
Holds ==
  \A p \in Processes :
    /\ At(p, "settle") \/ starter[p].held => launch = p
    /\ starter[p].ask \in {"list", "reopen", "back"} \/ starter[p].pc \in {"quit", "reopen"} =>
         starter[p].held
    /\ At(p, "idle") => ~starter[p].held

\* The keeper asks UTM something in three steps of its pass only, and never
\* restarts it.
KeeperHolds ==
  /\ keeper.pc \notin {"list", "start", "relist"} => At(Warden, "idle")
  /\ ~starter[Warden].held /\ ~At(Warden, "recover")

\* While one holds the lock for a restart, what others have on its way was let
\* through before.
Overtakes ==
  \A p, q \in Processes : starter[p].held /\ At(q, "send") => p = q \/ q \in overtaken

\* While UTM launches somebody holds the lock who waits for that, unless UTM is
\* past answering or nobody of ours waits.
LaunchWatched ==
  utm = "launching" =>
    stuck \/ unwatched \/ \E p \in Processes : launch = p /\ At(p, "settle")

\* A request that is sent, and was not overtaken, meets a UTM that is open.
SendsToOpen ==
  \A p \in Processes : At(p, "send") => utm = "open" \/ stuck \/ unwatched \/ p \in overtaken

UTMInv ==
  /\ UTMTypes /\ QuitStopsOnlyRushed /\ Holds /\ KeeperHolds /\ Overtakes
  /\ LaunchWatched /\ SendsToOpen
-----------------------------------------------------------------------------
(* The steps.                                                              *)

\* The invariant holds of a UTM that is closed or open, with nobody at it.
LEMMA KeeperInitInv == KeeperInit => UTMInv
<1> SUFFICES ASSUME KeeperInit PROVE UTMInv
  OBVIOUS
<1>1. /\ IdleStarter \in Starters /\ IdleStarter.pc = "idle" /\ IdleStarter.ask = "start"
      /\ ~IdleStarter.held
  BY DEF IdleStarter, Starters, Pcs, Asks
<1>2. /\ \A p \in Processes : starter[p] = IdleStarter
      /\ starter \in [Processes -> Starters] /\ Warden \in Processes
  BY <1>1 DEF KeeperInit, UTMInit, Processes
<1>3. UTMTypes
  BY <1>2 DEF KeeperInit, UTMInit, UTMTypes, IdleKeeper, Free
<1> QED BY <1>1, <1>2, <1>3
        DEF KeeperInit, UTMInit, UTMInv, QuitStopsOnlyRushed, Holds, KeeperHolds, Overtakes,
            LaunchWatched, SendsToOpen, At

\* A process moves on, asks something else, or is done; the others stay.
LEMMA MovesOn ==
  ASSUME starter \in [Processes -> Starters], NEW p \in Processes, NEW x \in Pcs, To(p, x)
  PROVE  /\ starter' \in [Processes -> Starters]
         /\ \A q \in Processes \ {p} : starter'[q] = starter[q]
         /\ starter'[p].pc = x /\ starter'[p].ask = starter[p].ask
         /\ starter'[p].held = starter[p].held
BY DEF To, Starters

LEMMA AsksNext ==
  ASSUME starter \in [Processes -> Starters], NEW p \in Processes, NEW a \in Asks, Ask(p, a)
  PROVE  /\ starter' \in [Processes -> Starters]
         /\ \A q \in Processes \ {p} : starter'[q] = starter[q]
         /\ starter'[p].pc = "check" /\ starter'[p].ask = a
         /\ starter'[p].held = starter[p].held
BY DEF Ask, Starters, Pcs

LEMMA Begun ==
  ASSUME starter \in [Processes -> Starters], NEW p \in Processes, NEW s \in Starters,
         starter' = [starter EXCEPT ![p] = s]
  PROVE  /\ starter' \in [Processes -> Starters] /\ starter'[p] = s
         /\ \A q \in Processes \ {p} : starter'[q] = starter[q]
OBVIOUS

LEMMA IsOver ==
  ASSUME starter \in [Processes -> Starters], NEW p \in Processes, Over(p)
  PROVE  /\ starter' \in [Processes -> Starters]
         /\ \A q \in Processes \ {p} : starter'[q] = starter[q]
         /\ starter'[p].pc = "idle" /\ starter'[p].ask = "start" /\ starter'[p].held = FALSE
         /\ launch' = (IF launch = p THEN Free ELSE launch) /\ overtaken' = overtaken \ {p}
<1>1. /\ IdleStarter \in Starters /\ IdleStarter.pc = "idle" /\ IdleStarter.ask = "start"
      /\ IdleStarter.held = FALSE
  BY DEF IdleStarter, Starters, Pcs, Asks
<1>2. starter' = [starter EXCEPT ![p] = IdleStarter]
  BY DEF Over
<1>3. starter' \in [Processes -> Starters] /\ starter'[p] = IdleStarter
      /\ \A q \in Processes \ {p} : starter'[q] = starter[q]
  BY <1>1, <1>2, Begun
<1> QED BY <1>1, <1>3 DEF Over

\* What one process's step has to see to, of itself, its lock and UTM, for the
\* invariant to hold after it.
LEMMA OneMoves ==
  ASSUME UTMInv, NEW p \in Processes, UTMTypes',
         \A q \in Processes \ {p} : starter'[q] = starter[q],
         launch \notin {Free, p} => launch' = launch,
         overtaken \ {p} \subseteq overtaken',
         At(p, "settle")' \/ starter'[p].held => launch' = p,
         starter'[p].ask \in {"list", "reopen", "back"} \/ starter'[p].pc \in {"quit", "reopen"} =>
           starter'[p].held,
         At(p, "idle")' => ~starter'[p].held,
         keeper'.pc \notin {"list", "start", "relist"} => At(Warden, "idle")',
         ~starter'[Warden].held /\ ~At(Warden, "recover")',
         starter'[p].held => starter[p].held \/ \A q \in Processes : At(q, "send") => q \in overtaken',
         At(p, "send")' => launch \in {Free, p} \/ p \in overtaken',
         LaunchWatched', SendsToOpen', QuitStopsOnlyRushed'
  PROVE  UTMInv'
<1> USE DEF At
<1>1. p # Free /\ \A q \in Processes : q # Free
  BY UTMAssumption DEF Processes, Free
<1>2. Holds'
  BY <1>1 DEF UTMInv, Holds
<1>3. KeeperHolds'
  BY DEF KeeperHolds
<1>4. Overtakes'
  <2> SUFFICES ASSUME NEW r \in Processes, NEW q \in Processes, starter'[r].held, At(q, "send")',
                      r # q
               PROVE  q \in overtaken'
    BY DEF Overtakes
  <2>1. CASE q = p
    <3>1. starter[r].held /\ launch = r
      BY <2>1 DEF UTMInv, Holds
    <3> QED BY <1>1, <2>1, <3>1
  <2>2. CASE q # p
    <3>1. At(q, "send")
      BY <2>2
    <3>2. starter[r].held => q \in overtaken
      BY <3>1 DEF UTMInv, Overtakes
    <3> QED BY <2>2, <3>1, <3>2
  <2> QED BY <2>1, <2>2
<1> QED BY <1>2, <1>3, <1>4 DEF UTMInv

LEMMA FellBack ==
  ASSUME starter \in [Processes -> Starters], NEW p \in Processes, FallsBack(p)
  PROVE  /\ starter' \in [Processes -> Starters]
         /\ \A q \in Processes \ {p} : starter'[q] = starter[q]
         /\ \/ /\ starter'[p].pc = "idle" /\ starter'[p].ask = "start" /\ starter'[p].held = FALSE
               /\ launch' = (IF launch = p THEN Free ELSE launch)
            \/ /\ starter'[p].pc = "check" /\ starter'[p].ask = "name"
               /\ starter'[p].held = starter[p].held /\ launch' = launch
         /\ overtaken' = overtaken \ {p}
<1>1. CASE starter[p].named
  BY <1>1, IsOver DEF FallsBack
<1>2. CASE ~starter[p].named
  BY <1>2 DEF FallsBack, Starters, Pcs, Asks
<1> QED BY <1>1, <1>2

\* The steps of one start keep the invariant, whoever's they are.
LEMMA StarterKeeps ==
  ASSUME UTMInv, NEW p \in Processes, StarterSteps(p) \/ GivesUp(p), UNCHANGED keeperOnly
  PROVE  UTMInv'
<1> USE DEF At
<1>1. /\ starter \in [Processes -> Starters] /\ starter[p] \in Starters
      /\ power \in [VMs -> {"stopped", "started"}] /\ launch \in Processes \union {Free}
      /\ utm \in {"closed", "launching", "open"} /\ Free \notin Processes /\ Warden \in Processes
      /\ keeper' = keeper
  BY UTMAssumption DEF UTMInv, UTMTypes, Processes, keeperOnly, Free
<1>2. /\ At(p, "settle") \/ starter[p].held => launch = p
      /\ starter[p].ask \in {"list", "reopen", "back"} \/ starter[p].pc \in {"quit", "reopen"} =>
           starter[p].held
      /\ keeper.pc \notin {"list", "start", "relist"} => At(Warden, "idle")
      /\ ~starter[Warden].held /\ ~At(Warden, "recover")
      /\ At(p, "idle") => ~starter[p].held
  BY <1>1 DEF UTMInv, Holds, KeeperHolds
<1>3. CASE Checks(p)
  <2>1. /\ starter' \in [Processes -> Starters]
        /\ \A q \in Processes \ {p} : starter'[q] = starter[q]
        /\ starter'[p].ask = starter[p].ask /\ starter'[p].held = starter[p].held
        /\ \/ starter'[p].pc = "send" /\ utm # "closed" /\ UNCHANGED <<utm, launch>>
           \/ starter'[p].pc = "settle" /\ utm = "closed" /\ utm' = "launching" /\ launch' = p
    <3>1. CASE To(p, "send") /\ utm # "closed" /\ UNCHANGED <<utm, launch>>
      BY <1>1, <3>1, MovesOn DEF Pcs, Asks
    <3>2. CASE To(p, "settle") /\ utm = "closed" /\ utm' = "launching" /\ launch' = p
      BY <1>1, <3>2, MovesOn DEF Pcs, Asks
    <3> QED BY <1>3, <3>1, <3>2 DEF Checks
  <2>2. UTMTypes'
    BY <1>1, <1>3, <2>1 DEF Checks, Reaches, UTMEnds, appFrame, UTMInv, UTMTypes
  <2>3. LaunchWatched'
    BY <1>1, <1>2, <1>3, <2>1 DEF Checks, MayPass, Reaches, UTMEnds, appFrame, Orphans, UTMInv, history,
       LaunchWatched
  <2>4. SendsToOpen'
    BY <1>1, <1>2, <1>3, <2>1 DEF Checks, MayPass, Reaches, UTMEnds, appFrame, Orphans, UTMInv, history,
       SendsToOpen, LaunchWatched, Overtakes
  <2>5. QuitStopsOnlyRushed'
    BY <1>1, <1>2, <1>3, <2>1 DEF Checks, MayPass, Rushes, UTMEnds, appFrame, UTMInv, Holds,
       Overtakes, QuitStopsOnlyRushed
  <2>6. /\ launch \notin {Free, p} => launch' = launch
        /\ overtaken \ {p} \subseteq overtaken'
        /\ At(p, "settle")' \/ starter'[p].held => launch' = p
        /\ starter'[p].ask \in {"list", "reopen", "back"} \/ starter'[p].pc \in {"quit", "reopen"} =>
             starter'[p].held
        /\ At(p, "idle")' => ~starter'[p].held
        /\ keeper'.pc \notin {"list", "start", "relist"} => At(Warden, "idle")'
        /\ ~starter'[Warden].held /\ ~At(Warden, "recover")'
        /\ starter'[p].held => starter[p].held \/ \A q \in Processes : At(q, "send") => q \in overtaken'
        /\ At(p, "send")' => launch \in {Free, p} \/ p \in overtaken'
    BY <1>1, <1>2, <1>3, <2>1 DEF Checks, MayPass, Sending, Asking, history
  <2> QED BY <2>1, <2>2, <2>3, <2>4, <2>5, <2>6, OneMoves
<1>4. CASE Settles(p)
  <2>1. /\ starter' \in [Processes -> Starters]
        /\ \A q \in Processes \ {p} : starter'[q] = starter[q]
        /\ starter'[p].held = starter[p].held
        /\ \/ Asking(p, "reopen") /\ starter'[p].pc = "check" /\ starter'[p].ask = "back"
           \/ ~Asking(p, "reopen") /\ starter'[p].pc = "send" /\ starter'[p].ask = starter[p].ask
    <3>1. CASE Asking(p, "reopen") /\ Ask(p, "back")
      BY <1>1, <3>1, AsksNext DEF Pcs, Asks
    <3>2. CASE ~Asking(p, "reopen") /\ To(p, "send")
      BY <1>1, <3>2, MovesOn DEF Pcs, Asks
    <3> QED BY <1>4, <3>1, <3>2 DEF Settles
  <2>2. UTMTypes'
    BY <1>1, <1>4, <2>1 DEF Settles, Reaches, UTMEnds, appFrame, UTMInv, UTMTypes
  <2>3. LaunchWatched'
    BY <1>1, <1>2, <1>4, <2>1 DEF Settles, MayPass, Reaches, UTMEnds, appFrame, Orphans, UTMInv, history,
       LaunchWatched
  <2>4. SendsToOpen'
    BY <1>1, <1>2, <1>4, <2>1 DEF Settles, MayPass, Reaches, UTMEnds, appFrame, Orphans, UTMInv, history,
       SendsToOpen, LaunchWatched, Overtakes
  <2>5. QuitStopsOnlyRushed'
    BY <1>1, <1>2, <1>4, <2>1 DEF Settles, MayPass, Rushes, UTMEnds, appFrame, UTMInv, Holds,
       Overtakes, QuitStopsOnlyRushed
  <2>6. /\ launch \notin {Free, p} => launch' = launch
        /\ overtaken \ {p} \subseteq overtaken'
        /\ At(p, "settle")' \/ starter'[p].held => launch' = p
        /\ starter'[p].ask \in {"list", "reopen", "back"} \/ starter'[p].pc \in {"quit", "reopen"} =>
             starter'[p].held
        /\ At(p, "idle")' => ~starter'[p].held
        /\ keeper'.pc \notin {"list", "start", "relist"} => At(Warden, "idle")'
        /\ ~starter'[Warden].held /\ ~At(Warden, "recover")'
        /\ starter'[p].held => starter[p].held \/ \A q \in Processes : At(q, "send") => q \in overtaken'
        /\ At(p, "send")' => launch \in {Free, p} \/ p \in overtaken'
    BY <1>1, <1>2, <1>4, <2>1 DEF Settles, MayPass, Sending, Asking, history
  <2> QED BY <2>1, <2>2, <2>3, <2>4, <2>5, <2>6, OneMoves
<1>5. CASE SettlesToNothing(p)
  <2>1. /\ starter' \in [Processes -> Starters]
        /\ \A q \in Processes \ {p} : starter'[q] = starter[q]
        /\ starter'[p].pc = "idle" /\ starter'[p].ask = "start" /\ starter'[p].held = FALSE
        /\ launch' = (IF launch = p THEN Free ELSE launch) /\ overtaken' = overtaken \ {p}
    BY <1>1, <1>5, IsOver DEF SettlesToNothing, Pcs, Asks
  <2>2. UTMTypes'
    BY <1>1, <1>5, <2>1 DEF SettlesToNothing, Reaches, UTMEnds, appFrame, UTMInv, UTMTypes
  <2>3. LaunchWatched'
    BY <1>1, <1>2, <1>5, <2>1 DEF SettlesToNothing, MayPass, Reaches, UTMEnds, appFrame, Orphans, UTMInv, history,
       LaunchWatched
  <2>4. SendsToOpen'
    BY <1>1, <1>2, <1>5, <2>1 DEF SettlesToNothing, MayPass, Reaches, UTMEnds, appFrame, Orphans, UTMInv, history,
       SendsToOpen, LaunchWatched, Overtakes
  <2>5. QuitStopsOnlyRushed'
    BY <1>1, <1>2, <1>5, <2>1 DEF SettlesToNothing, MayPass, Rushes, UTMEnds, appFrame, UTMInv, Holds,
       Overtakes, QuitStopsOnlyRushed
  <2>6. /\ launch \notin {Free, p} => launch' = launch
        /\ overtaken \ {p} \subseteq overtaken'
        /\ At(p, "settle")' \/ starter'[p].held => launch' = p
        /\ starter'[p].ask \in {"list", "reopen", "back"} \/ starter'[p].pc \in {"quit", "reopen"} =>
             starter'[p].held
        /\ At(p, "idle")' => ~starter'[p].held
        /\ keeper'.pc \notin {"list", "start", "relist"} => At(Warden, "idle")'
        /\ ~starter'[Warden].held /\ ~At(Warden, "recover")'
        /\ starter'[p].held => starter[p].held \/ \A q \in Processes : At(q, "send") => q \in overtaken'
        /\ At(p, "send")' => launch \in {Free, p} \/ p \in overtaken'
    BY <1>1, <1>2, <1>5, <2>1 DEF SettlesToNothing, MayPass, Sending, Asking, history
  <2> QED BY <2>1, <2>2, <2>3, <2>4, <2>5, <2>6, OneMoves
<1>6. CASE SendsInVain(p)
  <2>1. /\ starter' \in [Processes -> Starters]
        /\ \A q \in Processes \ {p} : starter'[q] = starter[q]
        /\ starter'[p].pc = "hangs" /\ starter'[p].ask = starter[p].ask /\ starter'[p].held = starter[p].held
    BY <1>1, <1>6, MovesOn DEF SendsInVain, Pcs, Asks
  <2>2. UTMTypes'
    BY <1>1, <1>6, <2>1 DEF SendsInVain, Reaches, UTMEnds, appFrame, UTMInv, UTMTypes
  <2>3. LaunchWatched'
    BY <1>1, <1>2, <1>6, <2>1 DEF SendsInVain, MayPass, Reaches, UTMEnds, appFrame, Orphans, UTMInv, history,
       LaunchWatched
  <2>4. SendsToOpen'
    BY <1>1, <1>2, <1>6, <2>1 DEF SendsInVain, MayPass, Reaches, UTMEnds, appFrame, Orphans, UTMInv, history,
       SendsToOpen, LaunchWatched, Overtakes
  <2>5. QuitStopsOnlyRushed'
    BY <1>1, <1>2, <1>6, <2>1 DEF SendsInVain, MayPass, Rushes, UTMEnds, appFrame, UTMInv, Holds,
       Overtakes, QuitStopsOnlyRushed
  <2>6. /\ launch \notin {Free, p} => launch' = launch
        /\ overtaken \ {p} \subseteq overtaken'
        /\ At(p, "settle")' \/ starter'[p].held => launch' = p
        /\ starter'[p].ask \in {"list", "reopen", "back"} \/ starter'[p].pc \in {"quit", "reopen"} =>
             starter'[p].held
        /\ At(p, "idle")' => ~starter'[p].held
        /\ keeper'.pc \notin {"list", "start", "relist"} => At(Warden, "idle")'
        /\ ~starter'[Warden].held /\ ~At(Warden, "recover")'
        /\ starter'[p].held => starter[p].held \/ \A q \in Processes : At(q, "send") => q \in overtaken'
        /\ At(p, "send")' => launch \in {Free, p} \/ p \in overtaken'
    BY <1>1, <1>2, <1>6, <2>1 DEF SendsInVain, MayPass, Sending, Asking, history
  <2> QED BY <2>1, <2>2, <2>3, <2>4, <2>5, <2>6, OneMoves
<1>7. CASE Starts(p)
  <2>1. /\ starter' \in [Processes -> Starters]
        /\ \A q \in Processes \ {p} : starter'[q] = starter[q]
        /\ starter'[p].pc = "idle" /\ starter'[p].ask = "start" /\ starter'[p].held = FALSE
        /\ launch' = (IF launch = p THEN Free ELSE launch) /\ overtaken' = overtaken \ {p}
    BY <1>1, <1>7, IsOver DEF Starts, Pcs, Asks
  <2>2. UTMTypes'
    BY <1>1, <1>7, <2>1 DEF Starts, Reaches, UTMEnds, appFrame, UTMInv, UTMTypes
  <2>3. LaunchWatched'
    BY <1>1, <1>2, <1>7, <2>1 DEF Starts, MayPass, Reaches, UTMEnds, appFrame, Orphans, UTMInv, history,
       LaunchWatched
  <2>4. SendsToOpen'
    BY <1>1, <1>2, <1>7, <2>1 DEF Starts, MayPass, Reaches, UTMEnds, appFrame, Orphans, UTMInv, history,
       SendsToOpen, LaunchWatched, Overtakes
  <2>5. QuitStopsOnlyRushed'
    BY <1>1, <1>2, <1>7, <2>1 DEF Starts, MayPass, Rushes, UTMEnds, appFrame, UTMInv, Holds,
       Overtakes, QuitStopsOnlyRushed
  <2>6. /\ launch \notin {Free, p} => launch' = launch
        /\ overtaken \ {p} \subseteq overtaken'
        /\ At(p, "settle")' \/ starter'[p].held => launch' = p
        /\ starter'[p].ask \in {"list", "reopen", "back"} \/ starter'[p].pc \in {"quit", "reopen"} =>
             starter'[p].held
        /\ At(p, "idle")' => ~starter'[p].held
        /\ keeper'.pc \notin {"list", "start", "relist"} => At(Warden, "idle")'
        /\ ~starter'[Warden].held /\ ~At(Warden, "recover")'
        /\ starter'[p].held => starter[p].held \/ \A q \in Processes : At(q, "send") => q \in overtaken'
        /\ At(p, "send")' => launch \in {Free, p} \/ p \in overtaken'
    BY <1>1, <1>2, <1>7, <2>1 DEF Starts, MayPass, Sending, Asking, history
  <2> QED BY <2>1, <2>2, <2>3, <2>4, <2>5, <2>6, OneMoves
<1>8. CASE StartFails(p)
  <2>1. /\ starter' \in [Processes -> Starters]
        /\ \A q \in Processes \ {p} : starter'[q] = starter[q]
        /\ \/ /\ starter'[p].pc = "idle" /\ starter'[p].ask = "start" /\ starter'[p].held = FALSE
              /\ launch' = (IF launch = p THEN Free ELSE launch)
           \/ /\ starter'[p].pc = "check" /\ starter'[p].ask = "name"
              /\ starter'[p].held = starter[p].held /\ launch' = launch
        /\ overtaken' = overtaken \ {p}
    BY <1>1, <1>8, FellBack DEF StartFails
  <2>2. UTMTypes'
    BY <1>1, <1>8, <2>1 DEF StartFails, Reaches, UTMEnds, appFrame, UTMInv, UTMTypes
  <2>3. LaunchWatched'
    BY <1>1, <1>2, <1>8, <2>1 DEF StartFails, MayPass, Reaches, UTMEnds, appFrame, Orphans, UTMInv, history,
       LaunchWatched
  <2>4. SendsToOpen'
    BY <1>1, <1>2, <1>8, <2>1 DEF StartFails, MayPass, Reaches, UTMEnds, appFrame, Orphans, UTMInv, history,
       SendsToOpen, LaunchWatched, Overtakes
  <2>5. QuitStopsOnlyRushed'
    BY <1>1, <1>2, <1>8, <2>1 DEF StartFails, MayPass, Rushes, UTMEnds, appFrame, UTMInv, Holds,
       Overtakes, QuitStopsOnlyRushed
  <2>6. /\ launch \notin {Free, p} => launch' = launch
        /\ overtaken \ {p} \subseteq overtaken'
        /\ At(p, "settle")' \/ starter'[p].held => launch' = p
        /\ starter'[p].ask \in {"list", "reopen", "back"} \/ starter'[p].pc \in {"quit", "reopen"} =>
             starter'[p].held
        /\ At(p, "idle")' => ~starter'[p].held
        /\ keeper'.pc \notin {"list", "start", "relist"} => At(Warden, "idle")'
        /\ ~starter'[Warden].held /\ ~At(Warden, "recover")'
        /\ starter'[p].held => starter[p].held \/ \A q \in Processes : At(q, "send") => q \in overtaken'
        /\ At(p, "send")' => launch \in {Free, p} \/ p \in overtaken'
    BY <1>1, <1>2, <1>8, <2>1 DEF StartFails, MayPass, Sending, Asking, history
  <2> QED BY <2>1, <2>2, <2>3, <2>4, <2>5, <2>6, OneMoves
<1>9. CASE HangEnds(p)
  <2>1. /\ starter' \in [Processes -> Starters]
        /\ \A q \in Processes \ {p} : starter'[q] = starter[q]
        /\ \/ /\ starter'[p].pc = "idle" /\ starter'[p].ask = "start" /\ starter'[p].held = FALSE
              /\ launch' = (IF launch = p THEN Free ELSE launch) /\ overtaken' = overtaken \ {p}
           \/ /\ starter'[p].pc = "check" /\ starter'[p].ask = "name"
              /\ starter'[p].held = starter[p].held /\ launch' = launch
              /\ overtaken' = overtaken \ {p}
           \/ /\ starter'[p].pc = "recover" /\ p # Warden
              /\ starter'[p].ask = starter[p].ask /\ starter'[p].held = starter[p].held
              /\ UNCHANGED <<launch, overtaken>>
    <3>1. CASE FallsBack(p)
      BY <1>1, <3>1, FellBack DEF Pcs, Asks
    <3>2. CASE Over(p)
      BY <1>1, <3>2, IsOver DEF Pcs, Asks
    <3>3. CASE To(p, "recover") /\ p # Warden /\ UNCHANGED <<launch, overtaken>>
      BY <1>1, <3>3, MovesOn DEF Pcs, Asks
    <3> QED BY <1>9, <3>1, <3>2, <3>3 DEF HangEnds
  <2>2. UTMTypes'
    BY <1>1, <1>9, <2>1 DEF HangEnds, Reaches, UTMEnds, appFrame, UTMInv, UTMTypes
  <2>3. LaunchWatched'
    BY <1>1, <1>2, <1>9, <2>1 DEF HangEnds, MayPass, Reaches, UTMEnds, appFrame, Orphans, UTMInv, history,
       LaunchWatched
  <2>4. SendsToOpen'
    BY <1>1, <1>2, <1>9, <2>1 DEF HangEnds, MayPass, Reaches, UTMEnds, appFrame, Orphans, UTMInv, history,
       SendsToOpen, LaunchWatched, Overtakes
  <2>5. QuitStopsOnlyRushed'
    BY <1>1, <1>2, <1>9, <2>1 DEF HangEnds, MayPass, Rushes, UTMEnds, appFrame, UTMInv, Holds,
       Overtakes, QuitStopsOnlyRushed
  <2>6. /\ launch \notin {Free, p} => launch' = launch
        /\ overtaken \ {p} \subseteq overtaken'
        /\ At(p, "settle")' \/ starter'[p].held => launch' = p
        /\ starter'[p].ask \in {"list", "reopen", "back"} \/ starter'[p].pc \in {"quit", "reopen"} =>
             starter'[p].held
        /\ At(p, "idle")' => ~starter'[p].held
        /\ keeper'.pc \notin {"list", "start", "relist"} => At(Warden, "idle")'
        /\ ~starter'[Warden].held /\ ~At(Warden, "recover")'
        /\ starter'[p].held => starter[p].held \/ \A q \in Processes : At(q, "send") => q \in overtaken'
        /\ At(p, "send")' => launch \in {Free, p} \/ p \in overtaken'
    BY <1>1, <1>2, <1>9, <2>1 DEF HangEnds, MayPass, Sending, Asking, history
  <2> QED BY <2>1, <2>2, <2>3, <2>4, <2>5, <2>6, OneMoves
<1>10. CASE ListsName(p)
  <2>1. /\ starter' \in [Processes -> Starters]
        /\ \A q \in Processes \ {p} : starter'[q] = starter[q]
        /\ starter'[p].pc = "check" /\ starter'[p].ask = "start" /\ starter'[p].held = starter[p].held
    BY <1>1, <1>10, AsksNext DEF ListsName, Pcs, Asks
  <2>2. UTMTypes'
    BY <1>1, <1>10, <2>1 DEF ListsName, Reaches, UTMEnds, appFrame, UTMInv, UTMTypes
  <2>3. LaunchWatched'
    BY <1>1, <1>2, <1>10, <2>1 DEF ListsName, MayPass, Reaches, UTMEnds, appFrame, Orphans, UTMInv, history,
       LaunchWatched
  <2>4. SendsToOpen'
    BY <1>1, <1>2, <1>10, <2>1 DEF ListsName, MayPass, Reaches, UTMEnds, appFrame, Orphans, UTMInv, history,
       SendsToOpen, LaunchWatched, Overtakes
  <2>5. QuitStopsOnlyRushed'
    BY <1>1, <1>2, <1>10, <2>1 DEF ListsName, MayPass, Rushes, UTMEnds, appFrame, UTMInv, Holds,
       Overtakes, QuitStopsOnlyRushed
  <2>6. /\ launch \notin {Free, p} => launch' = launch
        /\ overtaken \ {p} \subseteq overtaken'
        /\ At(p, "settle")' \/ starter'[p].held => launch' = p
        /\ starter'[p].ask \in {"list", "reopen", "back"} \/ starter'[p].pc \in {"quit", "reopen"} =>
             starter'[p].held
        /\ At(p, "idle")' => ~starter'[p].held
        /\ keeper'.pc \notin {"list", "start", "relist"} => At(Warden, "idle")'
        /\ ~starter'[Warden].held /\ ~At(Warden, "recover")'
        /\ starter'[p].held => starter[p].held \/ \A q \in Processes : At(q, "send") => q \in overtaken'
        /\ At(p, "send")' => launch \in {Free, p} \/ p \in overtaken'
    BY <1>1, <1>2, <1>10, <2>1 DEF ListsName, MayPass, Sending, Asking, history
  <2> QED BY <2>1, <2>2, <2>3, <2>4, <2>5, <2>6, OneMoves
<1>11. CASE Recovers(p)
  <2>1. /\ starter' \in [Processes -> Starters]
        /\ \A q \in Processes \ {p} : starter'[q] = starter[q]
        /\ starter'[p].pc = "check" /\ starter'[p].ask = "list" /\ starter'[p].held = TRUE
    BY <1>1, <1>11 DEF Recovers, Starters, Pcs, Asks
  <2>2. UTMTypes'
    BY <1>1, <1>11, <2>1 DEF Recovers, Reaches, UTMEnds, appFrame, UTMInv, UTMTypes
  <2>3. LaunchWatched'
    BY <1>1, <1>2, <1>11, <2>1 DEF Recovers, MayPass, Reaches, UTMEnds, appFrame, Orphans, UTMInv, history,
       LaunchWatched
  <2>4. SendsToOpen'
    BY <1>1, <1>2, <1>11, <2>1 DEF Recovers, MayPass, Reaches, UTMEnds, appFrame, Orphans, UTMInv, history,
       SendsToOpen, LaunchWatched, Overtakes
  <2>5. QuitStopsOnlyRushed'
    BY <1>1, <1>2, <1>11, <2>1 DEF Recovers, MayPass, Rushes, UTMEnds, appFrame, UTMInv, Holds,
       Overtakes, QuitStopsOnlyRushed
  <2>6. /\ launch \notin {Free, p} => launch' = launch
        /\ overtaken \ {p} \subseteq overtaken'
        /\ At(p, "settle")' \/ starter'[p].held => launch' = p
        /\ starter'[p].ask \in {"list", "reopen", "back"} \/ starter'[p].pc \in {"quit", "reopen"} =>
             starter'[p].held
        /\ At(p, "idle")' => ~starter'[p].held
        /\ keeper'.pc \notin {"list", "start", "relist"} => At(Warden, "idle")'
        /\ ~starter'[Warden].held /\ ~At(Warden, "recover")'
        /\ starter'[p].held => starter[p].held \/ \A q \in Processes : At(q, "send") => q \in overtaken'
        /\ At(p, "send")' => launch \in {Free, p} \/ p \in overtaken'
    BY <1>1, <1>2, <1>11, <2>1 DEF Recovers, MayPass, Sending, Asking, history
  <2> QED BY <2>1, <2>2, <2>3, <2>4, <2>5, <2>6, OneMoves
<1>12. CASE Looks(p)
  <2>1. /\ starter' \in [Processes -> Starters]
        /\ \A q \in Processes \ {p} : starter'[q] = starter[q]
        /\ \/ /\ starter'[p].pc = "quit" /\ starter'[p].ask = starter[p].ask /\ starter'[p].held = starter[p].held
              /\ UNCHANGED <<launch, overtaken>> /\ rushed' = {}
              /\ \A v \in VMs : power[v] = "stopped"
           \/ /\ starter'[p].pc = "idle" /\ starter'[p].ask = "start" /\ starter'[p].held = FALSE
              /\ launch' = (IF launch = p THEN Free ELSE launch) /\ overtaken' = overtaken \ {p}
              /\ rushed' = rushed
    <3>1. CASE /\ To(p, "quit") /\ rushed' = {} /\ UNCHANGED <<launch, overtaken>>
              /\ \A v \in VMs : power[v] = "stopped"
      BY <1>1, <3>1, MovesOn DEF Pcs, Asks
    <3>2. CASE Over(p) /\ UNCHANGED rushed
      BY <1>1, <3>2, IsOver DEF Pcs, Asks
    <3> QED BY <1>12, <3>1, <3>2 DEF Looks
  <2>2. UTMTypes'
    BY <1>1, <1>12, <2>1 DEF Looks, Reaches, UTMEnds, appFrame, UTMInv, UTMTypes
  <2>3. LaunchWatched'
    BY <1>1, <1>2, <1>12, <2>1 DEF Looks, MayPass, Reaches, UTMEnds, appFrame, Orphans, UTMInv, history,
       LaunchWatched
  <2>4. SendsToOpen'
    BY <1>1, <1>2, <1>12, <2>1 DEF Looks, MayPass, Reaches, UTMEnds, appFrame, Orphans, UTMInv, history,
       SendsToOpen, LaunchWatched, Overtakes
  <2>5. QuitStopsOnlyRushed'
    BY <1>1, <1>2, <1>12, <2>1 DEF Looks, MayPass, Rushes, UTMEnds, appFrame, UTMInv, Holds,
       Overtakes, QuitStopsOnlyRushed
  <2>6. /\ launch \notin {Free, p} => launch' = launch
        /\ overtaken \ {p} \subseteq overtaken'
        /\ At(p, "settle")' \/ starter'[p].held => launch' = p
        /\ starter'[p].ask \in {"list", "reopen", "back"} \/ starter'[p].pc \in {"quit", "reopen"} =>
             starter'[p].held
        /\ At(p, "idle")' => ~starter'[p].held
        /\ keeper'.pc \notin {"list", "start", "relist"} => At(Warden, "idle")'
        /\ ~starter'[Warden].held /\ ~At(Warden, "recover")'
        /\ starter'[p].held => starter[p].held \/ \A q \in Processes : At(q, "send") => q \in overtaken'
        /\ At(p, "send")' => launch \in {Free, p} \/ p \in overtaken'
    BY <1>1, <1>2, <1>12, <2>1 DEF Looks, MayPass, Sending, Asking, history
  <2> QED BY <2>1, <2>2, <2>3, <2>4, <2>5, <2>6, OneMoves
<1>13. CASE Quits(p)
  <2>1. /\ starter' \in [Processes -> Starters]
        /\ \A q \in Processes \ {p} : starter'[q] = starter[q]
        /\ starter'[p].pc = "reopen" /\ starter'[p].ask = starter[p].ask /\ starter'[p].held = starter[p].held
    BY <1>1, <1>13, MovesOn DEF Quits, Pcs, Asks
  <2>2. UTMTypes'
    BY <1>1, <1>13, <2>1 DEF Quits, Reaches, UTMEnds, appFrame, UTMInv, UTMTypes
  <2>3. LaunchWatched'
    BY <1>1, <1>2, <1>13, <2>1 DEF Quits, MayPass, Reaches, UTMEnds, appFrame, Orphans, UTMInv, history,
       LaunchWatched
  <2>4. SendsToOpen'
    BY <1>1, <1>2, <1>13, <2>1 DEF Quits, MayPass, Reaches, UTMEnds, appFrame, Orphans, UTMInv, history,
       SendsToOpen, LaunchWatched, Overtakes
  <2>5. QuitStopsOnlyRushed'
    BY <1>1, <1>2, <1>13, <2>1 DEF Quits, MayPass, Rushes, UTMEnds, appFrame, UTMInv, Holds,
       Overtakes, QuitStopsOnlyRushed
  <2>6. /\ launch \notin {Free, p} => launch' = launch
        /\ overtaken \ {p} \subseteq overtaken'
        /\ At(p, "settle")' \/ starter'[p].held => launch' = p
        /\ starter'[p].ask \in {"list", "reopen", "back"} \/ starter'[p].pc \in {"quit", "reopen"} =>
             starter'[p].held
        /\ At(p, "idle")' => ~starter'[p].held
        /\ keeper'.pc \notin {"list", "start", "relist"} => At(Warden, "idle")'
        /\ ~starter'[Warden].held /\ ~At(Warden, "recover")'
        /\ starter'[p].held => starter[p].held \/ \A q \in Processes : At(q, "send") => q \in overtaken'
        /\ At(p, "send")' => launch \in {Free, p} \/ p \in overtaken'
    BY <1>1, <1>2, <1>13, <2>1 DEF Quits, MayPass, Sending, Asking, history
  <2> QED BY <2>1, <2>2, <2>3, <2>4, <2>5, <2>6, OneMoves
<1>14. CASE Reopens(p)
  <2>1. /\ starter' \in [Processes -> Starters]
        /\ \A q \in Processes \ {p} : starter'[q] = starter[q]
        /\ starter'[p].pc = "settle" /\ starter'[p].ask = "reopen"
        /\ starter'[p].held = starter[p].held
    BY <1>1, <1>14 DEF Reopens, Starters, Pcs, Asks
  <2>2. UTMTypes'
    BY <1>1, <1>14, <2>1 DEF Reopens, Reaches, UTMEnds, appFrame, UTMInv, UTMTypes
  <2>3. LaunchWatched'
    BY <1>1, <1>2, <1>14, <2>1 DEF Reopens, MayPass, Reaches, UTMEnds, appFrame, Orphans, UTMInv, history,
       LaunchWatched
  <2>4. SendsToOpen'
    BY <1>1, <1>2, <1>14, <2>1 DEF Reopens, MayPass, Reaches, UTMEnds, appFrame, Orphans, UTMInv, history,
       SendsToOpen, LaunchWatched, Overtakes
  <2>5. QuitStopsOnlyRushed'
    BY <1>1, <1>2, <1>14, <2>1 DEF Reopens, MayPass, Rushes, UTMEnds, appFrame, UTMInv, Holds,
       Overtakes, QuitStopsOnlyRushed
  <2>6. /\ launch \notin {Free, p} => launch' = launch
        /\ overtaken \ {p} \subseteq overtaken'
        /\ At(p, "settle")' \/ starter'[p].held => launch' = p
        /\ starter'[p].ask \in {"list", "reopen", "back"} \/ starter'[p].pc \in {"quit", "reopen"} =>
             starter'[p].held
        /\ At(p, "idle")' => ~starter'[p].held
        /\ keeper'.pc \notin {"list", "start", "relist"} => At(Warden, "idle")'
        /\ ~starter'[Warden].held /\ ~At(Warden, "recover")'
        /\ starter'[p].held => starter[p].held \/ \A q \in Processes : At(q, "send") => q \in overtaken'
        /\ At(p, "send")' => launch \in {Free, p} \/ p \in overtaken'
    BY <1>1, <1>2, <1>14, <2>1 DEF Reopens, MayPass, Sending, Asking, history
  <2> QED BY <2>1, <2>2, <2>3, <2>4, <2>5, <2>6, OneMoves
<1>15. CASE Relists(p)
  <2>1. /\ starter' \in [Processes -> Starters]
        /\ \A q \in Processes \ {p} : starter'[q] = starter[q]
        /\ starter'[p].pc = "check" /\ starter'[p].ask = "start" /\ starter'[p].held = starter[p].held
    BY <1>1, <1>15, AsksNext DEF Relists, Pcs, Asks
  <2>2. UTMTypes'
    BY <1>1, <1>15, <2>1 DEF Relists, Reaches, UTMEnds, appFrame, UTMInv, UTMTypes
  <2>3. LaunchWatched'
    BY <1>1, <1>2, <1>15, <2>1 DEF Relists, MayPass, Reaches, UTMEnds, appFrame, Orphans, UTMInv, history,
       LaunchWatched
  <2>4. SendsToOpen'
    BY <1>1, <1>2, <1>15, <2>1 DEF Relists, MayPass, Reaches, UTMEnds, appFrame, Orphans, UTMInv, history,
       SendsToOpen, LaunchWatched, Overtakes
  <2>5. QuitStopsOnlyRushed'
    BY <1>1, <1>2, <1>15, <2>1 DEF Relists, MayPass, Rushes, UTMEnds, appFrame, UTMInv, Holds,
       Overtakes, QuitStopsOnlyRushed
  <2>6. /\ launch \notin {Free, p} => launch' = launch
        /\ overtaken \ {p} \subseteq overtaken'
        /\ At(p, "settle")' \/ starter'[p].held => launch' = p
        /\ starter'[p].ask \in {"list", "reopen", "back"} \/ starter'[p].pc \in {"quit", "reopen"} =>
             starter'[p].held
        /\ At(p, "idle")' => ~starter'[p].held
        /\ keeper'.pc \notin {"list", "start", "relist"} => At(Warden, "idle")'
        /\ ~starter'[Warden].held /\ ~At(Warden, "recover")'
        /\ starter'[p].held => starter[p].held \/ \A q \in Processes : At(q, "send") => q \in overtaken'
        /\ At(p, "send")' => launch \in {Free, p} \/ p \in overtaken'
    BY <1>1, <1>2, <1>15, <2>1 DEF Relists, MayPass, Sending, Asking, history
  <2> QED BY <2>1, <2>2, <2>3, <2>4, <2>5, <2>6, OneMoves
<1>16. CASE GivesUp(p)
  <2>1. /\ starter' \in [Processes -> Starters]
        /\ \A q \in Processes \ {p} : starter'[q] = starter[q]
        /\ starter'[p].pc = "idle" /\ starter'[p].ask = "start" /\ starter'[p].held = FALSE
        /\ launch' = (IF launch = p THEN Free ELSE launch) /\ overtaken' = overtaken \ {p}
    BY <1>1, <1>16, IsOver DEF GivesUp, Pcs, Asks
  <2>2. UTMTypes'
    BY <1>1, <1>16, <2>1 DEF GivesUp, Reaches, UTMEnds, appFrame, UTMInv, UTMTypes
  <2>3. LaunchWatched'
    BY <1>1, <1>2, <1>16, <2>1 DEF GivesUp, MayPass, Reaches, UTMEnds, appFrame, Orphans, UTMInv, history,
       LaunchWatched
  <2>4. SendsToOpen'
    BY <1>1, <1>2, <1>16, <2>1 DEF GivesUp, MayPass, Reaches, UTMEnds, appFrame, Orphans, UTMInv, history,
       SendsToOpen, LaunchWatched, Overtakes
  <2>5. QuitStopsOnlyRushed'
    BY <1>1, <1>2, <1>16, <2>1 DEF GivesUp, MayPass, Rushes, UTMEnds, appFrame, UTMInv, Holds,
       Overtakes, QuitStopsOnlyRushed
  <2>6. /\ launch \notin {Free, p} => launch' = launch
        /\ overtaken \ {p} \subseteq overtaken'
        /\ At(p, "settle")' \/ starter'[p].held => launch' = p
        /\ starter'[p].ask \in {"list", "reopen", "back"} \/ starter'[p].pc \in {"quit", "reopen"} =>
             starter'[p].held
        /\ At(p, "idle")' => ~starter'[p].held
        /\ keeper'.pc \notin {"list", "start", "relist"} => At(Warden, "idle")'
        /\ ~starter'[Warden].held /\ ~At(Warden, "recover")'
        /\ starter'[p].held => starter[p].held \/ \A q \in Processes : At(q, "send") => q \in overtaken'
        /\ At(p, "send")' => launch \in {Free, p} \/ p \in overtaken'
    BY <1>1, <1>2, <1>16, <2>1 DEF GivesUp, MayPass, Sending, Asking, history
  <2> QED BY <2>1, <2>2, <2>3, <2>4, <2>5, <2>6, OneMoves
<1> QED BY <1>3, <1>4, <1>5, <1>6, <1>7, <1>8, <1>9, <1>10, <1>11, <1>12, <1>13, <1>14, <1>15, <1>16 DEF StarterSteps

\* UTM and the owner do what they do; a command takes its VM's lock.
LEMMA OthersKeep ==
  ASSUME UTMInv, UNCHANGED keeperOnly,
         \/ LaunchEnds \/ OwnerOpens \/ OwnerQuits
         \/ \E v \in VMs : OwnerStops(v) \/ OwnerStarts(v)
         \/ \E p \in Commands, v \in VMs : StartBegins(p, v)
  PROVE  UTMInv'
<1> USE DEF At
<1>1. /\ UTMTypes /\ Warden \in Processes /\ Commands \subseteq Processes
      /\ Warden \notin Commands /\ keeper' = keeper
  BY UTMAssumption DEF UTMInv, Processes, keeperOnly
<1>2. CASE LaunchEnds
  BY <1>1, <1>2 DEF LaunchEnds, UTMInv, UTMTypes, QuitStopsOnlyRushed, Holds, KeeperHolds,
     Overtakes, LaunchWatched, SendsToOpen
<1>3. CASE OwnerOpens
  BY <1>1, <1>3 DEF OwnerOpens, UTMInv, UTMTypes, QuitStopsOnlyRushed, Holds, KeeperHolds,
     Overtakes, LaunchWatched, SendsToOpen
<1>4. CASE OwnerQuits
  BY <1>1, <1>4 DEF OwnerQuits, UTMEnds, Sending, UTMInv, UTMTypes, QuitStopsOnlyRushed, Holds,
     KeeperHolds, Overtakes, LaunchWatched, SendsToOpen
<1>5. ASSUME NEW v \in VMs, OwnerStops(v) PROVE UTMInv'
  BY <1>1, <1>5 DEF OwnerStops, history, UTMInv, UTMTypes, QuitStopsOnlyRushed, Holds, KeeperHolds,
     Overtakes, LaunchWatched, SendsToOpen
<1>6. ASSUME NEW v \in VMs, OwnerStarts(v) PROVE UTMInv'
  BY <1>1, <1>6 DEF OwnerStarts, Rushes, UTMInv, UTMTypes, QuitStopsOnlyRushed, Holds, KeeperHolds,
     Overtakes, LaunchWatched, SendsToOpen
<1>7. ASSUME NEW p \in Commands, NEW v \in VMs, StartBegins(p, v) PROVE UTMInv'
  <2> DEFINE s == [IdleStarter EXCEPT !.pc = "check", !.vm = v]
  <2>1. s \in Starters /\ s.pc = "check" /\ s.ask = "start" /\ s.held = FALSE
    BY DEF IdleStarter, Starters, Pcs, Asks
  <2>2. /\ starter' = [starter EXCEPT ![p] = s] /\ starter[p].pc = "idle"
        /\ UNCHANGED <<appFrame, launch, overtaken>>
    BY <1>7 DEF StartBegins
  <2> HIDE DEF s
  <2>3. /\ starter' \in [Processes -> Starters] /\ starter'[p] = s
        /\ \A q \in Processes \ {p} : starter'[q] = starter[q]
    BY <1>1, <2>1, <2>2, Begun DEF UTMTypes
  <2>4. UTMTypes'
    BY <1>1, <2>2, <2>3 DEF appFrame, UTMTypes
  <2>5. LaunchWatched' /\ SendsToOpen' /\ QuitStopsOnlyRushed'
    BY <1>1, <2>1, <2>2, <2>3 DEF appFrame, UTMInv, LaunchWatched, SendsToOpen, QuitStopsOnlyRushed
  <2>6. KeeperHolds'
    BY <1>1, <1>7, <2>1, <2>3 DEF UTMInv, KeeperHolds
  <2> QED BY <1>1, <2>1, <2>2, <2>3, <2>4, <2>5, <2>6, OneMoves DEF appFrame, KeeperHolds
<1> QED BY <1>2, <1>3, <1>4, <1>5, <1>6, <1>7

\* The keeper's process is idle and begins a request.
LEMMA WardenBegins ==
  ASSUME UTMInv, NEW s \in Starters, s.pc = "check", s.ask \in {"start", "pass", "again"}, ~s.held,
         At(Warden, "idle"), starter' = [starter EXCEPT ![Warden] = s],
         UNCHANGED <<appFrame, launch, overtaken>>,
         keeper' = [pc |-> keeper'.pc, marks |-> keeper'.marks, ac |-> keeper'.ac,
                    seen |-> keeper'.seen, known |-> keeper'.known, todo |-> keeper'.todo],
         keeper'.pc \in {"list", "start", "relist"}
  PROVE  UTMInv'
<1> USE DEF At
<1>1. UTMTypes /\ Warden \in Processes
  BY DEF UTMInv, Processes
<1>2. /\ starter' \in [Processes -> Starters] /\ starter'[Warden] = s
      /\ \A q \in Processes \ {Warden} : starter'[q] = starter[q]
  BY <1>1, Begun DEF UTMTypes
<1>3. UTMTypes'
  BY <1>1, <1>2 DEF appFrame, UTMTypes
<1>4. LaunchWatched' /\ SendsToOpen' /\ QuitStopsOnlyRushed'
  BY <1>1, <1>2 DEF appFrame, UTMInv, LaunchWatched, SendsToOpen, QuitStopsOnlyRushed
<1> QED BY <1>1, <1>2, <1>3, <1>4, OneMoves DEF appFrame

\* The keeper's process has its answer, or is gone.
LEMMA WardenEnds ==
  ASSUME UTMInv, Over(Warden),
         \/ Reaches /\ At(Warden, "send") /\ UNCHANGED <<power, rushed, unwatched>>
         \/ Orphans(Warden) /\ UNCHANGED <<utm, stuck, power, rushed>>,
         keeper' = [pc |-> keeper'.pc, marks |-> keeper'.marks, ac |-> keeper'.ac,
                    seen |-> keeper'.seen, known |-> keeper'.known, todo |-> keeper'.todo]
  PROVE  UTMInv'
<1> USE DEF At
<1>1. UTMTypes /\ Warden \in Processes
  BY DEF UTMInv, Processes
<1>2. /\ starter' \in [Processes -> Starters]
      /\ \A q \in Processes \ {Warden} : starter'[q] = starter[q]
      /\ starter'[Warden].pc = "idle" /\ starter'[Warden].ask = "start"
      /\ starter'[Warden].held = FALSE
      /\ launch' = (IF launch = Warden THEN Free ELSE launch)
      /\ overtaken' = overtaken \ {Warden}
  BY <1>1, IsOver DEF UTMTypes
<1>3. UTMTypes'
  BY <1>1, <1>2 DEF Reaches, UTMTypes
<1>4. LaunchWatched' /\ SendsToOpen'
  <2>1. CASE Reaches /\ UNCHANGED <<power, rushed, unwatched>>
    BY <1>1, <1>2, <2>1 DEF Reaches, UTMInv, UTMTypes, LaunchWatched, SendsToOpen
  <2>2. CASE Orphans(Warden) /\ UNCHANGED <<utm, stuck, power, rushed>>
    <3>1. LaunchWatched'
      <4> SUFFICES ASSUME utm = "launching", ~stuck, ~unwatched, launch # Warden
                   PROVE  \E q \in Processes : launch' = q /\ starter'[q].pc = "settle"
        BY <2>2 DEF LaunchWatched, Orphans
      <4>1. PICK q \in Processes : launch = q /\ starter[q].pc = "settle"
        BY DEF UTMInv, LaunchWatched
      <4> QED BY <1>2, <4>1
    <3>2. SendsToOpen'
      BY <1>2, <2>2 DEF Orphans, UTMInv, SendsToOpen
    <3> QED BY <3>1, <3>2
  <2> QED BY <2>1, <2>2
<1>5. QuitStopsOnlyRushed'
  BY <1>1, <1>2 DEF UTMInv, QuitStopsOnlyRushed
<1> QED BY <1>1, <1>2, <1>3, <1>4, <1>5, OneMoves

\* A step of the keeper that asks UTM nothing.
LEMMA WardenRests ==
  ASSUME UTMInv, UNCHANGED utmVars,
         keeper' = [pc |-> keeper'.pc, marks |-> keeper'.marks, ac |-> keeper'.ac,
                    seen |-> keeper'.seen, known |-> keeper'.known, todo |-> keeper'.todo],
         keeper'.pc \notin {"list", "start", "relist"} => At(Warden, "idle")
  PROVE  UTMInv'
BY DEF UTMInv, UTMTypes, QuitStopsOnlyRushed, Holds, KeeperHolds, Overtakes, LaunchWatched,
       SendsToOpen, At, utmVars

\* The keeper's pass asks as every other process does.
LEMMA PassKeeps ==
  ASSUME UTMInv, PassSteps \/ KeeperStarts \/ KeeperStops
  PROVE  UTMInv'
<1> USE DEF KeeperAt, KeeperTo
<1>1. /\ UTMTypes
      /\ keeper.pc \notin {"list", "start", "relist"} => At(Warden, "idle")
      /\ starter[Warden].pc = "idle" <=> At(Warden, "idle")
  BY DEF UTMInv, KeeperHolds, At
<1>2. ASSUME NEW a \in {"pass", "again"}, KeeperAsks(a), At(Warden, "idle"),
             keeper' = [pc |-> keeper'.pc, marks |-> keeper'.marks, ac |-> keeper'.ac,
                        seen |-> keeper'.seen, known |-> keeper'.known, todo |-> keeper'.todo],
             keeper'.pc \in {"list", "relist"}
      PROVE  UTMInv'
  <2> DEFINE s == [IdleStarter EXCEPT !.pc = "check", !.ask = a]
  <2>1. s \in Starters /\ s.pc = "check" /\ s.ask = a /\ s.held = FALSE
    BY DEF IdleStarter, Starters, Pcs, Asks
  <2>2. starter' = [starter EXCEPT ![Warden] = s] /\ UNCHANGED <<appFrame, launch, overtaken>>
    BY <1>2 DEF KeeperAsks
  <2> HIDE DEF s
  <2> QED BY <1>2, <2>1, <2>2, WardenBegins
<1>3. CASE PassBegins
  <2>1. CASE UNCHANGED utmVars /\ keeper'.pc = "hold"
    BY <1>1, <1>3, <2>1, WardenRests DEF PassBegins, IdleKeeper
  <2>2. CASE KeeperAsks("pass") /\ keeper'.pc = "list"
    BY <1>1, <1>2, <1>3, <2>2 DEF PassBegins, IdleKeeper
  <2> QED BY <1>3, <2>1, <2>2 DEF PassBegins, IdleKeeper
<1>4. CASE PassLists
  <2>1. keeper' = [pc |-> keeper'.pc, marks |-> keeper'.marks, ac |-> keeper'.ac,
                   seen |-> keeper'.seen, known |-> keeper'.known, todo |-> keeper'.todo]
    BY <1>1, <1>4 DEF PassLists, UTMTypes
  <2> QED BY <1>4, <2>1, WardenEnds DEF PassLists, Answered
<1>5. CASE PassLearnsNothing
  BY <1>1, <1>5, WardenRests DEF PassLearnsNothing, UTMTypes, IdleKeeper
<1>6. ASSUME NEW v \in VMs, PassStarts(v) PROVE UTMInv'
  <2> DEFINE s == [IdleStarter EXCEPT !.pc = "check", !.vm = v]
  <2>1. s \in Starters /\ s.pc = "check" /\ s.ask = "start" /\ s.held = FALSE
    BY DEF IdleStarter, Starters, Pcs, Asks
  <2>2. starter' = [starter EXCEPT ![Warden] = s] /\ UNCHANGED <<appFrame, launch, overtaken>>
    BY <1>6 DEF PassStarts
  <2>3. /\ keeper' = [keeper EXCEPT !.todo = @ \ {v}] /\ At(Warden, "idle") /\ keeper.pc = "start"
    BY <1>6 DEF PassStarts
  <2>4. /\ keeper'.pc = "start"
        /\ keeper' = [pc |-> keeper'.pc, marks |-> keeper'.marks, ac |-> keeper'.ac,
                      seen |-> keeper'.seen, known |-> keeper'.known, todo |-> keeper'.todo]
    BY <1>1, <2>3 DEF UTMTypes
  <2> HIDE DEF s
  <2> QED BY <2>1, <2>2, <2>3, <2>4, WardenBegins
<1>7. ASSUME NEW v \in VMs, PassSkips(v) PROVE UTMInv'
  BY <1>1, <1>7, WardenRests DEF PassSkips, UTMTypes
<1>8. CASE PassRelists
  <2>1. /\ keeper' = [keeper EXCEPT !.pc = "relist"] /\ At(Warden, "idle") /\ KeeperAsks("again")
    BY <1>8 DEF PassRelists
  <2>2. /\ keeper'.pc = "relist"
        /\ keeper' = [pc |-> keeper'.pc, marks |-> keeper'.marks, ac |-> keeper'.ac,
                      seen |-> keeper'.seen, known |-> keeper'.known, todo |-> keeper'.todo]
    BY <1>1, <2>1 DEF UTMTypes
  <2> QED BY <1>2, <2>1, <2>2
<1>9. CASE PassSees
  <2>1. keeper' = [pc |-> keeper'.pc, marks |-> keeper'.marks, ac |-> keeper'.ac,
                   seen |-> keeper'.seen, known |-> keeper'.known, todo |-> keeper'.todo]
    BY <1>1, <1>9 DEF PassSees, UTMTypes
  <2> QED BY <1>9, <2>1, WardenEnds DEF PassSees, Answered
<1>10. CASE PassHolds \/ KeeperStarts
  BY <1>1, <1>10, WardenRests DEF PassHolds, KeeperStarts, IdleKeeper, UTMTypes
<1>11. CASE KeeperStops
  BY <1>11, WardenEnds DEF KeeperStops, IdleKeeper
<1> QED BY <1>3, <1>4, <1>5, <1>6, <1>7, <1>8, <1>9, <1>10, <1>11 DEF PassSteps
-----------------------------------------------------------------------------
(* The theorems.                                                           *)

\* The strengthening holds in every state of every behaviour.
THEOREM UTMInvHolds == KeeperSpec => []UTMInv
<1>1. UTMInv /\ [KeeperMoves(VMs, Commands)]_keeperVars => UTMInv'
  <2> SUFFICES ASSUME UTMInv, [KeeperMoves(VMs, Commands)]_keeperVars PROVE UTMInv'
    OBVIOUS
  <2>1. CASE Elsewhere(UTMMoves(VMs, Commands))
    BY <2>1, StarterKeeps, OthersKeep DEF Elsewhere, UTMMoves, Processes
  <2>2. CASE KeeperSteps
    BY <2>2, StarterKeeps, PassKeeps DEF Elsewhere, KeeperSteps, Processes
  <2>3. CASE KeeperStarts \/ KeeperStops
    BY <2>3, PassKeeps
  <2>4. CASE \/ OwnerPlugs \/ CaffeineDies \/ UNCHANGED keeperVars
             \/ \E v \in VMs : KeeperMayTryAgain(v) \/ OwnerMarks(v)
    <3>1. UNCHANGED <<utmVars, keeper>>
      BY <2>4 DEF OwnerPlugs, CaffeineDies, keeperVars, KeeperMayTryAgain, OwnerMarks
    <3> QED BY <3>1 DEF utmVars, UTMInv, UTMTypes, QuitStopsOnlyRushed, Holds, KeeperHolds,
               Overtakes, LaunchWatched, SendsToOpen, At
  <2> QED BY <2>1, <2>2, <2>3, <2>4 DEF KeeperMoves
<1> QED BY <1>1, KeeperInitInv, PTL DEF KeeperSpec

\* A restart of UTM (recoverUTM) stops no VM that was started through
\* ensureOpen after the restart took the launch lock, however many commands and
\* the keeper start VMs meanwhile: what its quit stops was started after its
\* list, by the owner or by a request that had passed ensureOpen before.
THEOREM QuitsStopOnlyRushed == KeeperSpec => []QuitStopsOnlyRushed
<1>1. UTMInv => QuitStopsOnlyRushed
  BY DEF UTMInv
<1> QED BY <1>1, UTMInvHolds, PTL

\* A request makes a UTM that answers starts stop answering them only if UTM was
\* taken for a restart or quit after the request passed ensureOpen, or if it
\* launches and nobody of ours waits for that.
THEOREM AnswersGoOn == KeeperSpec => StaysAnswering
<1> DEFINE A == stuck' => \/ stuck \/ unwatched
                          \/ \E p \in overtaken : starter'[p] # starter[p]
<1>1. UTMInv /\ [KeeperMoves(VMs, Commands)]_keeperVars => [A]_utmVars
  <2> SUFFICES ASSUME UTMInv, [KeeperMoves(VMs, Commands)]_keeperVars, stuck', ~stuck, ~unwatched
               PROVE  \E p \in overtaken : starter'[p] # starter[p]
    BY DEF utmVars
  <2>1. PICK p \in Processes : /\ At(p, "send") /\ Reaches
                               /\ starter'[p].pc \in {"idle", "check", "quit", "hangs"}
    <3>1. \A p \in Processes : starter \in [Processes -> Starters] /\ Warden \in Processes
      BY DEF UTMInv, UTMTypes, Processes
    <3>2. ASSUME NEW p \in Processes, StarterSteps(p) \/ GivesUp(p)
          PROVE  /\ At(p, "send") /\ Reaches
                 /\ starter'[p].pc \in {"idle", "check", "quit", "hangs"}
      <4>1. SendsInVain(p) \/ ListsName(p) \/ Looks(p) \/ Relists(p)
        BY <3>2 DEF StarterSteps, GivesUp, Checks, Settles, SettlesToNothing, Starts, StartFails,
           HangEnds, Recovers, Quits, UTMEnds, Reopens, appFrame
      <4>2. CASE SendsInVain(p)
        BY <3>1, <4>2 DEF SendsInVain, To, Starters
      <4>3. CASE ListsName(p) \/ Relists(p)
        BY <3>1, <4>3 DEF ListsName, Relists, Ask, Starters
      <4>4. CASE Looks(p)
        <5>1. At(p, "send") /\ Reaches /\ (To(p, "quit") \/ Over(p))
          BY <4>4 DEF Looks
        <5>2. "quit" \in Pcs
          BY DEF Pcs
        <5> QED BY <3>1, <5>1, <5>2, IsOver, MovesOn
      <4> QED BY <4>1, <4>2, <4>3, <4>4
    <3>3. ASSUME PassLists \/ PassSees
          PROVE  /\ At(Warden, "send") /\ Reaches /\ starter'[Warden].pc = "idle"
      BY <3>1, <3>3, IsOver DEF PassLists, PassSees, Answered, Processes
    <3>4. \/ \E p \in Processes : StarterSteps(p) \/ GivesUp(p)
          \/ PassLists \/ PassSees
      BY DEF KeeperMoves, Elsewhere, UTMMoves, KeeperSteps, Processes, PassSteps, PassBegins,
         PassLearnsNothing, PassStarts, PassSkips, PassRelists, PassHolds, KeeperAsks,
         KeeperStarts, KeeperStops, OwnerPlugs, CaffeineDies, KeeperMayTryAgain, OwnerMarks,
         keeperVars, utmVars, LaunchEnds, OwnerOpens, OwnerQuits, UTMEnds, OwnerStops, OwnerStarts,
         StartBegins, appFrame
    <3> QED BY <3>1, <3>2, <3>3, <3>4 DEF Processes
  <2>2. starter'[p] # starter[p]
    BY <2>1 DEF At
  <2>3. utm # "open"
    BY <2>1 DEF Reaches
  <2> QED BY <2>1, <2>2, <2>3 DEF UTMInv, SendsToOpen
<1> QED BY <1>1, UTMInvHolds, PTL DEF KeeperSpec, StaysAnswering
=============================================================================
