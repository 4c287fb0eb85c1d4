-------------------------------- MODULE MCVMs --------------------------------
(* What commands do with VMs, on small instances.  Records and locks appear *)
(* in two scenes: two processes that make, delete and reap two VMs where    *)
(* there is room for one, and three that do anything to one VM.  Programs   *)
(* on VMs and detached jobs share no variable with them; a behaviour moves  *)
(* one of the parts, chosen at the start, and the others rest.              *)
EXTENDS VMRecords, Apps, DetachedJobs, TLC

CONSTANT v1  \* the one VM of "marks"

VARIABLE part

mcVars == <<part, vars, appVars, jobVars>>

\* Apps, where it is not the part that moves, has one state.
VMsInit ==
  /\ Init /\ AppsInit /\ DetachedInit
  /\ part \in {"room", "marks", "apps", "jobs"}
  /\ part # "apps" => /\ cached = [v \in Guests |-> NoAddress]
                      /\ on = [r \in AppRuns |-> CHOOSE v \in Guests : TRUE]

RoomScene ==
  /\ part = "room" /\ Next
  /\ \E p \in Procs : proc'[p] = Idle
  /\ \A p \in Procs : proc'[p].op \in {"none", "create", "reap"}

MarksScene ==
  /\ part = "marks" /\ Next
  /\ \A p \in Procs : proc'[p].vm \in {None, v1}
  /\ \A op \in {"screen", "reap"} : Cardinality({p \in Procs : proc'[p].op = op}) <= 1

VMsNext ==
  /\ UNCHANGED part
  /\ \/ RoomScene                    /\ UNCHANGED <<appVars, jobVars>>
     \/ MarksScene                   /\ UNCHANGED <<appVars, jobVars>>
     \/ part = "apps" /\ AppsNext     /\ UNCHANGED <<vars, jobVars>>
     \/ part = "jobs" /\ DetachedNext /\ UNCHANGED <<vars, appVars>>

VMsSpec == VMsInit /\ [][VMsNext]_mcVars

\* Nothing above tells two processes apart.
Alike == Permutations(Procs)
==============================================================================
