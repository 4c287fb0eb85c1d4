------------------------------ MODULE MCImages ------------------------------
(* What VMs are made from, the checks of what was made, and what starts     *)
(* them, on small instances: the golden image's bucket, the golden image on *)
(* a Mac, the install media and an install from them, the Linux image, the  *)
(* suites that check a VM, and UTM with two commands that start VMs in it.  *)
(* They share no variable, so a behaviour moves one of them, chosen at the  *)
(* start, and the others rest.                                              *)
EXTENDS GoldenCache, GoldenImage, Install, LinuxImage, Verdicts, UTMLaunch, TLC

CONSTANTS i1, i2, a, b, c  \* two bundles, and three chunks, one in both

VARIABLE part

mcVars == <<part, cacheVars, imageVars, installVars, linuxVars, verdictVars, utmVars>>

OverlappingChunks == (i1 :> {a, b}) @@ (i2 :> {b, c})

\* Runs in which nothing goes wrong but what happens to the source.
Unremarkable(k) == /\ results[k] \subseteq {"ok"} /\ ~notRun[k] /\ ~unbuilt[k]
                   /\ ~truth[k].failing /\ ~truth[k].died
                   /\ truth[k].ran = truth[k].parts

ImagesInit ==
  /\ CacheInit /\ ImageInit /\ InstallInit /\ LinuxInit /\ VerdictInit /\ UTMInit
  /\ part \in {"cache", "image", "install", "linux", "verdicts", "sources", "utm"}
  /\ part # "install" => theirs = "none"
  /\ part \notin {"verdicts", "sources"} => checking = [k \in CheckRuns |-> CHOOSE t \in Targets : TRUE]
  /\ part # "verdicts" => suite = "vm"
  /\ part # "utm" => utm = "closed"

ImagesNext ==
  /\ UNCHANGED part
  /\ \/ /\ part = "cache" /\ CacheNext
        /\ UNCHANGED <<imageVars, installVars, linuxVars, verdictVars, utmVars>>
     \/ /\ part = "image" /\ ImageNext
        /\ UNCHANGED <<cacheVars, installVars, linuxVars, verdictVars, utmVars>>
     \/ /\ part = "install" /\ InstallNext
        /\ UNCHANGED <<cacheVars, imageVars, linuxVars, verdictVars, utmVars>>
     \/ /\ part = "linux" /\ LinuxNext
        /\ UNCHANGED <<cacheVars, imageVars, installVars, verdictVars, utmVars>>
     \/ /\ part \in {"verdicts", "sources"} /\ VerdictNext
        /\ part = "verdicts" => UNCHANGED sourceVars
        /\ part = "sources" => /\ UNCHANGED pictures /\ \A k \in CheckRuns : Unremarkable(k)'
                               /\ written = 0 \/ slipped = {}
                               /\ written' = 0 \/ ~tree'.extra
        /\ UNCHANGED <<cacheVars, imageVars, installVars, linuxVars, utmVars>>
     \/ /\ part = "utm" /\ UTMNext
        /\ UNCHANGED <<cacheVars, imageVars, installVars, linuxVars, verdictVars>>

ImagesSpec == ImagesInit /\ [][ImagesNext]_mcVars
=============================================================================
