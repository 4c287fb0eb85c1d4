----------------------------- MODULE UTMLaunch ------------------------------
(***************************************************************************)
(* Opening UTM, starting a VM in it, and restarting a UTM that no longer   *)
(* answers (internal/utmvm/vm_utm_open.go, vm_start.go).                   *)
(*                                                                         *)
(* A request that launches UTM, or reaches it while it launches, leaves it *)
(* answering no start until it is quit and opened again, which stops every *)
(* VM it runs.  So a request first makes sure that UTM is open and has     *)
(* settled, under UTMLaunchLock; and a command whose start timed out       *)
(* restarts UTM under the same lock, if no VM runs, and keeps the lock     *)
(* until its own start has returned.                                       *)
(***************************************************************************)
EXTENDS FiniteSets

CONSTANTS
  VMs,
  Commands,  \* commands that start a VM
  Warden     \* the keeper's process (Keeper), or a process that does nothing

ASSUME UTMAssumption == Warden \notin Commands /\ "free" \notin Commands \union {Warden}

VARIABLES
  utm,       \* the application: closed, launching or open
  stuck,     \* it no longer answers a start
  power,     \* what UTM would list each VM as
  launch,    \* who holds UTMLaunchLock
  vmLocks,   \* who holds each VM's lock
  starter,   \* per process: its step, what it asks UTM, its VM, and how far it got
  overtaken, \* history: whose request was let through before UTM was taken for
             \* a restart, or quit
  rushed,    \* history: VMs started between the list of a restart and its quit,
             \* by such a request or by the owner
  unwatched  \* history: UTM launches and no process of ours waits for that

utmVars == <<utm, stuck, power, launch, vmLocks, starter, overtaken, rushed, unwatched>>
history == <<overtaken, rushed, unwatched>>

Processes == Commands \union {Warden}
Free == "free"

\* A process at one VM: what its next request asks, whether it asks by the
\* listed name, and whether it holds the launch lock for a restart.
IdleStarter == [pc |-> "idle", ask |-> "start", vm |-> "none", named |-> FALSE, held |-> FALSE]

UTMInit ==
  /\ utm \in {"closed", "open"} /\ stuck \in BOOLEAN /\ (stuck => utm = "open")
  /\ power = [v \in VMs |-> "stopped"]
  /\ launch = Free /\ vmLocks = [v \in VMs |-> Free]
  /\ starter = [p \in Processes |-> IdleStarter]
  /\ overtaken = {} /\ rushed = {} /\ unwatched = FALSE

At(p, pc)   == starter[p].pc = pc
Asking(p, a)  == starter[p].ask = a
To(p, pc)   == starter' = [starter EXCEPT ![p].pc = pc]
Ask(p, a)   == starter' = [starter EXCEPT ![p].pc = "check", ![p].ask = a]
Unlocked(p) == vmLocks' = [v \in VMs |-> IF vmLocks[v] = p THEN Free ELSE vmLocks[v]]
Sending     == {q \in Processes : At(q, "send")}
Rushes(v)   == rushed' = IF \E q \in Processes : At(q, "quit") THEN rushed \union {v} ELSE rushed

\* Mutant of Over: the VM's lock stays.
OverStillLocked(p) ==
  /\ starter' = [starter EXCEPT ![p] = IdleStarter]
  /\ launch' = (IF launch = p THEN Free ELSE launch) /\ overtaken' = overtaken \ {p}
  /\ UNCHANGED vmLocks

\* What a process did with UTM is over, however it went: its locks go.
Over(p) ==
  /\ starter' = [starter EXCEPT ![p] = IdleStarter]
  /\ Unlocked(p)
  /\ launch' = (IF launch = p THEN Free ELSE launch) /\ overtaken' = overtaken \ {p}

\* What passUTMLaunchLock lets by: nobody holds it, or this process does, for
\* a restart.
MayPass(p) == launch \in {Free, p}
-----------------------------------------------------------------------------
(* A request: its check, and then what goes to UTM.                        *)

appFrame == <<utm, stuck, power, rushed, unwatched>>

\* The command's lock on its VM, or a refusal.
StartBegins(p, v) ==
  /\ At(p, "idle") /\ vmLocks[v] = Free
  /\ vmLocks' = [vmLocks EXCEPT ![v] = p]
  /\ starter' = [starter EXCEPT ![p] = [IdleStarter EXCEPT !.pc = "check", !.vm = v]]
  /\ UNCHANGED <<appFrame, launch, overtaken>>

\* Mutant of Checks: an open UTM needs no lock.
ChecksLoosely(p) ==
  /\ At(p, "check")
  /\ \/ utm # "closed" /\ To(p, "send") /\ UNCHANGED <<utm, launch>>
     \/ utm = "closed" /\ MayPass(p) /\ utm' = "launching" /\ launch' = p /\ To(p, "settle")
  /\ overtaken' = overtaken \ {p}
  /\ UNCHANGED <<stuck, power, vmLocks, rushed, unwatched>>

\* ensureOpen, holding the lock from the question, which macOS answers, to
\* the end of the settle time.  A UTM that runs is let through and the lock
\* goes before anything is sent.
Checks(p) ==
  /\ At(p, "check") /\ MayPass(p)
  /\ \/ utm # "closed" /\ To(p, "send") /\ UNCHANGED <<utm, launch>>
     \/ utm = "closed" /\ utm' = "launching" /\ launch' = p /\ To(p, "settle")
  /\ overtaken' = overtaken \ {p}
  /\ UNCHANGED <<stuck, power, vmLocks, rushed, unwatched>>

\* The settle time is longer than a launch.  After a restart's own opening the
\* list is the next request, with a check of its own.
Settles(p) ==
  /\ At(p, "settle") /\ utm = "open"
  /\ launch' = (IF starter[p].held THEN launch ELSE Free)
  /\ IF Asking(p, "reopen") THEN Ask(p, "back") ELSE To(p, "send")
  /\ UNCHANGED <<appFrame, vmLocks, overtaken>>

\* UTM closed while it settled: nothing is sent.
SettlesToNothing(p) ==
  /\ At(p, "settle") /\ utm = "closed"
  /\ Over(p) /\ UNCHANGED appFrame

\* What any request does to the UTM it meets: one that is closed is launched
\* by it, and one that launches is harmed.
Reaches == IF utm = "open" THEN UNCHANGED <<utm, stuck>> ELSE utm' = "launching" /\ stuck' = TRUE

\* An error that is not -1712: the VM is listed, and asked for by its listed
\* name, if that is another.
FallsBack(p) ==
  IF starter[p].named
  THEN Over(p)
  ELSE /\ starter' = [starter EXCEPT ![p].pc = "check", ![p].ask = "name", ![p].named = TRUE]
       /\ overtaken' = overtaken \ {p} /\ UNCHANGED <<launch, vmLocks>>

\* No UTM, one that launches, or one that is stuck: no answer for two minutes.
SendsInVain(p) ==
  /\ At(p, "send") /\ Asking(p, "start") /\ (utm # "open" \/ stuck)
  /\ Reaches /\ To(p, "hangs") /\ overtaken' = overtaken \ {p}
  /\ UNCHANGED <<power, launch, vmLocks, rushed, unwatched>>

Starts(p) ==
  /\ At(p, "send") /\ Asking(p, "start") /\ utm = "open" /\ ~stuck
  /\ power' = [power EXCEPT ![starter[p].vm] = "started"]
  /\ IF p \in overtaken THEN Rushes(starter[p].vm) ELSE UNCHANGED rushed
  /\ Over(p) /\ UNCHANGED <<utm, stuck, unwatched>>

StartFails(p) ==
  /\ At(p, "send") /\ Asking(p, "start") /\ utm = "open" /\ ~stuck
  /\ FallsBack(p) /\ UNCHANGED appFrame

\* The request ends: UTM was quit under it; or -1712, which a command takes to
\* recoverUTM once, and the keeper (StartKeeping) never.
HangEnds(p) ==
  /\ At(p, "hangs")
  /\ \/ utm = "closed" /\ FallsBack(p)
     \/ utm # "closed" /\ (p = Warden \/ starter[p].held) /\ Over(p)
     \/ /\ utm # "closed" /\ p # Warden /\ ~starter[p].held
        /\ To(p, "recover") /\ UNCHANGED <<launch, vmLocks, overtaken>>
  /\ UNCHANGED appFrame

\* The list of a fallback names the VM.
ListsName(p) ==
  /\ At(p, "send") /\ Asking(p, "name") /\ Reaches
  /\ Ask(p, "start") /\ overtaken' = overtaken \ {p}
  /\ UNCHANGED <<power, launch, vmLocks, rushed, unwatched>>
-----------------------------------------------------------------------------
(* recoverUTM.                                                             *)

\* The lock, waited for; requests that passed their check before it are on
\* their way.
Recovers(p) ==
  /\ At(p, "recover") /\ launch = Free
  /\ launch' = p
  /\ starter' = [starter EXCEPT ![p].pc = "check", ![p].ask = "list", ![p].held = TRUE]
  /\ overtaken' = overtaken \union Sending
  /\ UNCHANGED <<utm, stuck, power, vmLocks, rushed, unwatched>>

\* Mutant of Looks: only the VM being started has to be stopped.
LooksAtItsOwn(p) ==
  /\ At(p, "send") /\ Asking(p, "list") /\ Reaches
  /\ IF power[starter[p].vm] = "stopped"
     THEN To(p, "quit") /\ rushed' = {} /\ UNCHANGED <<launch, vmLocks, overtaken>>
     ELSE Over(p) /\ UNCHANGED rushed
  /\ UNCHANGED <<power, unwatched>>

\* UTM's list: anything but stopped keeps UTM from being restarted.
Looks(p) ==
  /\ At(p, "send") /\ Asking(p, "list") /\ Reaches
  /\ IF \A v \in VMs : power[v] = "stopped"
     THEN To(p, "quit") /\ rushed' = {} /\ UNCHANGED <<launch, vmLocks, overtaken>>
     ELSE Over(p) /\ UNCHANGED rushed
  /\ UNCHANGED <<power, unwatched>>

UTMEnds ==
  /\ utm' = "closed" /\ stuck' = FALSE /\ power' = [v \in VMs |-> "stopped"]
  /\ unwatched' = FALSE

Quits(p) ==
  /\ At(p, "quit") /\ UTMEnds
  /\ To(p, "reopen") /\ rushed' = {}
  /\ UNCHANGED <<launch, vmLocks, overtaken>>

Reopens(p) ==
  /\ At(p, "reopen")
  /\ utm' = IF utm = "closed" THEN "launching" ELSE utm
  /\ starter' = [starter EXCEPT ![p].pc = "settle", ![p].ask = "reopen"]
  /\ UNCHANGED <<stuck, power, launch, vmLocks, history>>

\* It lists the VM again: the start is tried again, under the lock.
Relists(p) ==
  /\ At(p, "send") /\ Asking(p, "back") /\ Reaches
  /\ Ask(p, "start") /\ overtaken' = overtaken \ {p}
  /\ UNCHANGED <<power, launch, vmLocks, rushed, unwatched>>

\* The end of whoever may be waiting for UTM to launch: its lock goes too.
Orphans(p) == unwatched' = (unwatched \/ (utm = "launching" /\ launch = p))

\* A wait that ran out, a request that failed, a process that died.  A restart
\* half done leaves UTM as it is.
GivesUp(p) ==
  /\ ~At(p, "idle") /\ Over(p) /\ Orphans(p)
  /\ UNCHANGED <<utm, stuck, power, rushed>>

StarterSteps(p) ==
  \/ Checks(p) \/ Settles(p) \/ SettlesToNothing(p)
  \/ SendsInVain(p) \/ Starts(p) \/ StartFails(p) \/ HangEnds(p) \/ ListsName(p)
  \/ Recovers(p) \/ Looks(p) \/ Quits(p) \/ Reopens(p) \/ Relists(p)
-----------------------------------------------------------------------------
(* UTM, and the Mac's owner, who looks at none of our locks.               *)

LaunchEnds ==
  /\ utm = "launching" /\ utm' = "open" /\ unwatched' = FALSE
  /\ UNCHANGED <<stuck, power, launch, vmLocks, starter, overtaken, rushed>>

OwnerStops(v) ==
  /\ power[v] # "stopped" /\ power' = [power EXCEPT ![v] = "stopped"]
  /\ UNCHANGED <<utm, stuck, launch, vmLocks, starter, history>>
OwnerStarts(v) ==
  /\ utm = "open" /\ power[v] = "stopped"
  /\ power' = [power EXCEPT ![v] = "started"] /\ Rushes(v)
  /\ UNCHANGED <<utm, stuck, launch, vmLocks, starter, overtaken, unwatched>>

OwnerOpens ==
  /\ utm = "closed" /\ utm' = "launching" /\ unwatched' = TRUE
  /\ UNCHANGED <<stuck, power, launch, vmLocks, starter, overtaken, rushed>>
OwnerQuits ==
  /\ utm = "open" /\ UTMEnds /\ overtaken' = overtaken \union Sending
  /\ UNCHANGED <<launch, vmLocks, starter, rushed>>

\* What happens around the VMs vs, with the commands ps.
UTMMoves(vs, ps) ==
  \/ LaunchEnds \/ OwnerOpens \/ OwnerQuits
  \/ \E v \in vs : OwnerStops(v) \/ OwnerStarts(v)
  \/ \E p \in ps : StarterSteps(p) \/ GivesUp(p) \/ \E v \in vs : StartBegins(p, v)

UTMNext == UTMMoves(VMs, Commands)
-----------------------------------------------------------------------------
(* Properties.                                                             *)

\* A restart of UTM (recoverUTM) stops no VM that was started through
\* ensureOpen after the restart took the launch lock: what its quit stops was
\* started since its list, by the owner or by a request already let through.
QuitStopsOnlyRushed ==
  \A p \in Processes : At(p, "quit") => \A v \in VMs : power[v] = "stopped" \/ v \in rushed

\* Once UTM answers starts, a request makes it stop only if UTM was taken for a
\* restart or quit after the request's check, or if it launches and nobody of
\* ours waits for that: its owner opened it, or whoever did has died.
StaysAnswering ==
  [][stuck' => \/ stuck \/ unwatched
               \/ \E p \in overtaken : starter'[p] # starter[p]]_utmVars
=============================================================================
