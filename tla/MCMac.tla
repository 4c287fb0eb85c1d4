------------------------------- MODULE MCMac --------------------------------
(* The keeper and one command that starts VMs in UTM; the keeper and the    *)
(* charger; staged binaries.  They have no variable to quarrel about, so a  *)
(* behaviour moves one of them, chosen at the start, and the others rest.   *)
EXTENDS Keeper, Staging

CONSTANTS v1, p1  \* the VM that is marked, and the command beside the keeper

VARIABLE part

macVars == <<part, keeperVars, stagingVars>>

MacInit ==
  /\ KeeperInit /\ StagingInit
  /\ \/ part = "staging" /\ utm = "closed" /\ marked = {} /\ ac = TRUE
     \/ part = "keeper" /\ ac = FALSE /\ marked \subseteq {v1}
     \/ part = "battery" /\ marked \subseteq {v1}

OnlyKeeper == part \in {"keeper", "battery"} /\ UNCHANGED <<part, stagingVars>>
OnlyStages == part = "staging" /\ UNCHANGED <<part, keeperVars>>

MacNext ==
  \/ OnlyKeeper /\ part = "keeper" /\ ac' = ac /\ KeeperMoves({v1}, {p1})
  \/ OnlyKeeper /\ part = "battery" /\ KeeperMoves({v1}, {})
  \/ OnlyStages /\ StagingNext

\* KeeperFairness, for the part that moves.
KeeperWorks ==
  /\ WF_macVars(OnlyKeeper /\ KeeperStarts) /\ WF_macVars(OnlyKeeper /\ KeeperSteps)
  /\ WF_macVars(OnlyKeeper /\ Elsewhere(LaunchEnds))
  /\ WF_macVars(OnlyKeeper /\ Elsewhere(StarterSteps(p1) \/ GivesUp(p1)))
  /\ SF_macVars(OnlyKeeper /\ PassBegins) /\ SF_macVars(OnlyKeeper /\ PassLists)
  /\ \A a \in {"pass", "start"} :
       SF_macVars(OnlyKeeper /\ Elsewhere(Asking(Warden, a) /\ Checks(Warden)))
  /\ SF_macVars(OnlyKeeper /\ Elsewhere(Starts(Warden)))
  /\ WF_macVars(OnlyKeeper /\ KeeperMayTryAgain(v1)) /\ SF_macVars(OnlyKeeper /\ PassStarts(v1))

MacSpec == MacInit /\ [][MacNext]_macVars /\ KeeperWorks
=============================================================================
