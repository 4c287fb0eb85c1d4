------------------------------- MODULE Keeper --------------------------------
(***************************************************************************)
(* The keeper (internal/keeper/keeper.go, awake_darwin.go,                 *)
(* cmd/irgo-winvm/keeper.go): a process that passes every few seconds,     *)
(* starts each VM marked keep-running that UTM lists stopped, keeps the    *)
(* Mac awake while a VM runs on AC power.                                  *)
(* It shares UTM, the launch lock and the VM locks with the commands       *)
(* (UTMLaunch), and never restarts UTM.                                    *)
(***************************************************************************)
EXTENDS UTMLaunch

VARIABLES
  marked,    \* VMs marked keep-running
  ac,        \* the Mac is on AC power
  keeper,    \* its step, the marks, the power source and the list of this pass
  due,       \* VMs whose backoff has passed
  caffeine   \* a caffeinate child of it runs

keeperVars == <<utmVars, marked, ac, keeper, due, caffeine>>

IdleKeeper == [pc |-> "off", marks |-> {}, ac |-> FALSE, seen |-> [v \in VMs |-> "stopped"],
               known |-> FALSE, todo |-> {}]

KeeperInit ==
  /\ UTMInit
  /\ marked \in SUBSET VMs /\ ac \in BOOLEAN
  /\ keeper = IdleKeeper /\ due = VMs /\ caffeine = FALSE

KeeperAt(pc) == keeper.pc = pc
KeeperTo(pc) == keeper' = [keeper EXCEPT !.pc = pc]
Seen         == {v \in VMs : keeper.seen[v] = "started"}
-----------------------------------------------------------------------------
(* A pass.                                                                 *)

passFrame  == <<marked, ac, caffeine>>
keeperOnly == <<marked, ac, keeper, due, caffeine>>

\* One keeper per Mac (KeeperLock); pitchfork starts it again, with nothing
\* remembered.
KeeperStarts ==
  /\ KeeperAt("off") /\ KeeperTo("rest") /\ due' = VMs
  /\ UNCHANGED <<utmVars, passFrame>>

\* The keeper's own requests are made as every other (Checks, Settles).
KeeperAsks(a) ==
  /\ starter' = [starter EXCEPT ![Warden] = [IdleStarter EXCEPT !.pc = "check", !.ask = a]]
  /\ UNCHANGED <<appFrame, launch, vmLocks, overtaken>>
Answered(a) ==
  /\ At(Warden, "send") /\ Asking(Warden, a) /\ Reaches
  /\ Over(Warden) /\ UNCHANGED <<power, rushed, unwatched>>

\* The power source and the marks are read first; a closed UTM is opened for a
\* marked VM, and only then.
PassBegins ==
  /\ KeeperAt("rest")
  /\ LET k == [IdleKeeper EXCEPT !.pc = "list", !.marks = marked, !.ac = ac]
     IN  \/ /\ utm = "closed" /\ marked = {}
            /\ keeper' = [k EXCEPT !.pc = "hold", !.known = TRUE] /\ UNCHANGED utmVars
         \/ /\ utm # "closed" \/ marked # {}
            /\ keeper' = k /\ KeeperAsks("pass")
  /\ UNCHANGED <<due, passFrame>>

\* UTM's list, and what is to be started by it.
PassLists ==
  /\ KeeperAt("list") /\ Answered("pass")
  /\ LET todo == {v \in keeper.marks : power[v] = "stopped"} \cap due
     IN  keeper' = [keeper EXCEPT !.pc = IF todo = {} THEN "hold" ELSE "start",
                                  !.seen = power, !.known = TRUE, !.marks = {}, !.todo = todo]
  /\ UNCHANGED <<due, passFrame>>

\* Whether UTM runs cannot be told, or the list cannot be had.
PassLearnsNothing ==
  /\ \/ KeeperAt("rest") /\ keeper' = [IdleKeeper EXCEPT !.pc = "hold", !.ac = ac]
     \/ keeper.pc \in {"list", "relist"} /\ At(Warden, "idle") /\ KeeperTo("hold")
  /\ UNCHANGED <<utmVars, due, passFrame>>

\* A VM the list showed stopped is started (StartKeeping) under its lock, with
\* neither mark nor list read again; it backs off after.
PassStarts(v) ==
  /\ KeeperAt("start") /\ At(Warden, "idle") /\ v \in keeper.todo /\ vmLocks[v] = Free
  /\ keeper' = [keeper EXCEPT !.todo = @ \ {v}] /\ due' = due \ {v}
  /\ vmLocks' = [vmLocks EXCEPT ![v] = Warden]
  /\ starter' = [starter EXCEPT ![Warden] = [IdleStarter EXCEPT !.pc = "check", !.vm = v]]
  /\ UNCHANGED <<appFrame, launch, overtaken, passFrame>>

\* While a command holds that it is left to a later pass.
PassSkips(v) ==
  /\ KeeperAt("start") /\ At(Warden, "idle") /\ v \in keeper.todo /\ vmLocks[v] # Free
  /\ keeper' = [keeper EXCEPT !.todo = @ \ {v}]
  /\ UNCHANGED <<utmVars, due, passFrame>>

\* After its starts it asks for the list again.
PassRelists ==
  /\ KeeperAt("start") /\ At(Warden, "idle") /\ keeper.todo = {}
  /\ KeeperTo("relist") /\ KeeperAsks("again")
  /\ UNCHANGED <<due, passFrame>>
PassSees ==
  /\ KeeperAt("relist") /\ Answered("again")
  /\ keeper' = [keeper EXCEPT !.pc = "hold", !.seen = power]
  /\ UNCHANGED <<due, passFrame>>

\* The Mac is held awake if a VM runs, or may, and it is on AC power; then what
\* was seen is written for claude-rig (vms.json), which nothing here reads.
PassHolds ==
  /\ KeeperAt("hold")
  /\ caffeine' = (keeper.ac /\ (Seen # {} \/ ~keeper.known))
  /\ keeper' = [IdleKeeper EXCEPT !.pc = "rest"]
  /\ UNCHANGED <<utmVars, marked, ac, due>>

PassSteps ==
  \/ PassBegins \/ PassLists \/ PassLearnsNothing
  \/ (\E v \in VMs : PassStarts(v) \/ PassSkips(v))
  \/ PassRelists \/ PassSees \/ PassHolds

\* Stopped between passes it lets the Mac sleep; killed, caffeinate and its
\* locks go with it.
KeeperStops ==
  /\ ~KeeperAt("off")
  /\ keeper' = IdleKeeper /\ caffeine' = FALSE
  /\ Over(Warden) /\ Orphans(Warden)
  /\ UNCHANGED <<utm, stuck, power, rushed, due, marked, ac>>

KeeperMayTryAgain(v) ==
  /\ v \notin due /\ due' = due \union {v}
  /\ UNCHANGED <<utmVars, keeper, passFrame>>

\* vm-keep-create and vm-keep-delete.
OwnerMarks(v) ==
  /\ marked' \in {marked \union {v}, marked \ {v}}
  /\ UNCHANGED <<utmVars, ac, keeper, due, caffeine>>

\* The charger.
OwnerPlugs == ac' = ~ac /\ UNCHANGED <<utmVars, marked, keeper, due, caffeine>>

\* caffeinate is killed from outside: Held finds out at the next pass.
CaffeineDies ==
  /\ caffeine /\ caffeine' = FALSE
  /\ UNCHANGED <<utmVars, keeper, due, marked, ac>>

Elsewhere(A) == A /\ UNCHANGED keeperOnly
KeeperSteps  == PassSteps \/ Elsewhere(StarterSteps(Warden)) \/ Elsewhere(GivesUp(Warden))

KeeperMoves(vs, ps) ==
  \/ Elsewhere(UTMMoves(vs, ps))
  \/ KeeperSteps \/ KeeperStarts \/ KeeperStops \/ OwnerPlugs \/ CaffeineDies
  \/ \E v \in vs : KeeperMayTryAgain(v) \/ OwnerMarks(v)

\* The keeper passes on, and pitchfork starts it again; a launch ends; backoffs
\* pass; a command goes on or gives up.  A pass that can ask UTM again and
\* again at last does, a lock that is free again and again is at last had, and
\* a VM that UTM can start again and again at last starts.
KeeperFairness ==
  /\ WF_keeperVars(KeeperStarts) /\ WF_keeperVars(KeeperSteps)
  /\ WF_keeperVars(Elsewhere(LaunchEnds))
  /\ \A p \in Commands : WF_keeperVars(Elsewhere(StarterSteps(p) \/ GivesUp(p)))
  /\ SF_keeperVars(PassBegins) /\ SF_keeperVars(PassLists)
  /\ \A a \in {"pass", "start"} : SF_keeperVars(Elsewhere(Asking(Warden, a) /\ Checks(Warden)))
  /\ SF_keeperVars(Elsewhere(Starts(Warden)))
  /\ \A v \in VMs : WF_keeperVars(KeeperMayTryAgain(v)) /\ SF_keeperVars(PassStarts(v))

KeeperSpec == KeeperInit /\ [][KeeperMoves(VMs, Commands)]_keeperVars /\ KeeperFairness
-----------------------------------------------------------------------------
(* Properties.                                                             *)

\* A VM that stays marked does not stay stopped once no command uses it: the
\* keeper starts it, whatever came before and whatever the owner does, unless
\* the keeper keeps being killed, or UTM is closed or answers no start.
KeptUp ==
  \A v \in VMs :
    <>[](v \in marked /\ vmLocks[v] \in {Free, Warden} /\ ~KeeperAt("off") /\ ~stuck)
      => []<>(power[v] = "started" \/ utm = "closed")

\* The Mac is not kept awake for ever on battery.
SleepsOnBattery == <>[](~ac) => <>[](~caffeine)

\* What the keeper is there for: VMs run, and the Mac sleeps when it may.
KeeperKeeps == KeptUp /\ SleepsOnBattery
=============================================================================
