-------------------------------- MODULE Media --------------------------------
(***************************************************************************)
(* The Windows install media (internal/utmvm/iso.go, iso_create.go,        *)
(* iso_delete.go, cmd/irgo-winvm/iso.go).                                  *)
(*                                                                         *)
(* iso-create uses the media that is there, or masters one from an .esd it *)
(* has or downloads.  iso-delete removes what can be made again.  Both     *)
(* hold the machine lock; vm-create looks at the media, and makes it       *)
(* immutable, holding nothing (Install).  The masterer writes under the    *)
(* final name, the download under a name of its own.                       *)
(***************************************************************************)
EXTENDS Integers, FiniteSets

CONSTANTS
  Releases,      \* builds of Windows the catalog may serve, one after another
  NoRelease,
  MaxBuilds      \* ISOs mastered: a bound of the model

ASSUME MediaAssumption == NoRelease \notin Releases /\ MaxBuilds \in Nat

VARIABLES
  mediaLock,  \* who holds the machine lock
  theirs,     \* what ISO somebody put at win11-arm64.iso: none, an ARM64 one, another
  built,      \* the ISO mastered here: which, whether whole, immutable, and
              \* what the verdict kept beside it says
  builds,     \* ISOs mastered so far
  esd,        \* the release of the .esd, and of what its .part holds, and how much
  iso,        \* iso-create: its step, the release it was told of
  erase,      \* iso-delete's step
  maimed      \* history: iso-create was killed while mastering, or could not
              \* remove what it had begun

mediaVars == <<mediaLock, theirs, built, builds, esd, iso, erase, maimed>>

NoBuilt == [id |-> 0, whole |-> FALSE, fixed |-> FALSE, verdict |-> "none"]
NoEsd   == [file |-> NoRelease, part |-> NoRelease, got |-> "none"]
IdleISO == [pc |-> "idle", release |-> NoRelease]

MediaInit ==
  /\ mediaLock = "free" /\ theirs \in {"none", "arm64", "other"}
  /\ built = NoBuilt /\ builds = 0 /\ esd = NoEsd
  /\ iso = IdleISO /\ erase = "idle" /\ maimed = FALSE

ISOAt(pc) == iso.pc = pc
ISOTo(pc) == iso' = [iso EXCEPT !.pc = pc]
ISOOver   == iso' = IdleISO /\ mediaLock' = "free"
isoFrame  == <<theirs, erase>>
-----------------------------------------------------------------------------
(* iso-create.                                                             *)

\* The file's verdict, read or worked out by a scan and kept: a scan never
\* finds that a medium boots itself.
Verdict == IF built.verdict = "none" THEN "plain" ELSE built.verdict

\* No ISO here, or one whose scan may not find the loader's name.
Unnamed == built.id = 0 \/ (~built.whole /\ built.verdict = "none")

ISOBegins ==
  /\ ISOAt("idle") /\ mediaLock = "free"
  /\ mediaLock' = "iso" /\ ISOTo("look")
  /\ UNCHANGED <<built, builds, esd, maimed, isoFrame>>

\* ISOGet: somebody's ISO, then the one built here, if a scan finds the ARM64
\* loader's name in it; then an .esd; then, with -fetch, the catalog's.
ISOLooks ==
  /\ ISOAt("look")
  /\ \/ /\ theirs = "arm64"
        /\ ISOOver /\ UNCHANGED built
     \/ /\ theirs # "arm64" /\ built.id # 0
        /\ ISOOver /\ built' = [built EXCEPT !.verdict = Verdict]
     \/ /\ theirs # "arm64" /\ Unnamed
        /\ IF esd.file # NoRelease THEN ISOTo("expand")
           ELSE iso' \in {[pc |-> "fetch", release |-> r] : r \in Releases}
        /\ UNCHANGED <<mediaLock, built>>
  /\ UNCHANGED <<builds, esd, maimed, isoFrame>>

\* isoDownload goes on where the .part ends, whatever release that was of.  A
\* server asked for what lies past the end refuses, and one that serves a longer
\* release than the .part's sends the rest of that.
ISOFetches ==
  /\ ISOAt("fetch")
  /\ LET mixed == esd.got # "none" /\ esd.part # iso.release
         of    == IF mixed THEN NoRelease ELSE iso.release
     IN  \/ /\ esd.got # "whole"
            /\ esd' = [esd EXCEPT !.part = of, !.got = "whole"]
            /\ ISOTo("digest") /\ UNCHANGED mediaLock
         \/ /\ esd.got # "whole"
            /\ esd' = [esd EXCEPT !.part = of, !.got = "some"]
            /\ ISOOver
         \/ /\ esd.got = "whole"
            /\ ISOOver /\ UNCHANGED esd
         \/ /\ esd.got = "whole" /\ mixed
            /\ esd' = [esd EXCEPT !.part = NoRelease]
            /\ ISOTo("digest") /\ UNCHANGED mediaLock
         \/ /\ esd.got # "none"
            /\ esd' = [esd EXCEPT !.part = iso.release, !.got = "whole"]
            /\ ISOTo("digest") /\ UNCHANGED mediaLock
  /\ UNCHANGED <<built, builds, maimed, isoFrame>>

\* Renamed only if it hashes to what the catalog said; else kept, and said.
ISODigests ==
  /\ ISOAt("digest")
  /\ IF esd.part = iso.release
     THEN /\ esd' = [file |-> esd.part, part |-> NoRelease, got |-> "none"]
          /\ ISOTo("expand") /\ UNCHANGED mediaLock
     ELSE ISOOver /\ UNCHANGED esd
  /\ UNCHANGED <<built, builds, maimed, isoFrame>>

\* isoExpandESD, in a directory that is emptied first.
ISOExpands ==
  /\ ISOAt("expand")
  /\ \/ ISOTo("master") /\ UNCHANGED mediaLock
     \/ ISOOver
  /\ UNCHANGED <<built, builds, esd, maimed, isoFrame>>

\* isoBuild: never over a file that is there.
ISOMasters ==
  /\ ISOAt("master") /\ builds < MaxBuilds
  /\ IF built.id = 0
     THEN /\ built' = [NoBuilt EXCEPT !.id = builds + 1] /\ builds' = builds + 1
          /\ ISOTo("mastering") /\ UNCHANGED mediaLock
     ELSE ISOOver /\ UNCHANGED <<built, builds>>
  /\ UNCHANGED <<esd, maimed, isoFrame>>

\* It is done; or it fails, and what it wrote is removed, unless somebody
\* has made it immutable meanwhile.
ISOMastered ==
  /\ ISOAt("mastering")
  /\ \/ /\ built' = [built EXCEPT !.whole = TRUE]
        /\ ISOTo("verdict") /\ UNCHANGED <<mediaLock, maimed>>
     \/ /\ ISOOver
        /\ built' = IF built.fixed THEN built ELSE NoBuilt
        /\ maimed' = (maimed \/ built.fixed)
  /\ UNCHANGED <<builds, esd, isoFrame>>

\* What no scan can find out is written down.
ISONotes ==
  /\ ISOAt("verdict")
  /\ built' = [built EXCEPT !.verdict = "self"] /\ ISOOver
  /\ UNCHANGED <<builds, esd, maimed, isoFrame>>

ISODies ==
  /\ ~ISOAt("idle") /\ ISOOver
  /\ maimed' = (maimed \/ ISOAt("mastering"))
  /\ UNCHANGED <<built, builds, esd, isoFrame>>

ISOSteps ==
  \/ ISOBegins \/ ISOLooks \/ ISOFetches \/ ISODigests \/ ISOExpands
  \/ ISOMasters \/ ISOMastered \/ ISONotes \/ ISODies
-----------------------------------------------------------------------------
(* iso-delete -force.                                                      *)

eraseFrame == <<builds, iso, maimed>>

EraseBegins ==
  /\ erase = "idle" /\ mediaLock = "free" /\ (theirs # "none" \/ built.id # 0)
  /\ mediaLock' = "erase" /\ erase' = "theirs"
  /\ UNCHANGED <<theirs, built, esd, eraseFrame>>

\* File by file, each made mutable first; -all takes the .esd too, never its
\* .part.
ErasesTheirs ==
  /\ erase = "theirs" /\ theirs' = "none" /\ erase' = "built"
  /\ UNCHANGED <<mediaLock, built, esd, eraseFrame>>
ErasesBuilt ==
  /\ erase = "built"
  /\ built' = NoBuilt
  /\ esd' \in {esd, [esd EXCEPT !.file = NoRelease]}
  /\ erase' = "idle" /\ mediaLock' = "free"
  /\ UNCHANGED <<theirs, eraseFrame>>

EraseDies ==
  /\ erase # "idle" /\ erase' = "idle" /\ mediaLock' = "free"
  /\ UNCHANGED <<theirs, built, esd, eraseFrame>>

EraseSteps == EraseBegins \/ ErasesTheirs \/ ErasesBuilt \/ EraseDies

MediaSteps == ISOSteps \/ EraseSteps
=============================================================================
