------------------------------- MODULE Install -------------------------------
(***************************************************************************)
(* vm-create making a Windows VM from the media (internal/utmvm/           *)
(* vm_create.go, vm.go, and finishInstall in vm_golden.go), the guest it   *)
(* installs, and iso-create and iso-delete beside it (Media).              *)
(*                                                                         *)
(* The driver sees the VM from outside: how much its disk holds, and       *)
(* whether the guest agent answers.  It types only at a VM whose disk      *)
(* stands still, since a key that lands in Setup spoils the install.  An   *)
(* install takes an hour, so a driver is often killed and run again, with  *)
(* the media on the Mac no longer what the VM was made from.               *)
(***************************************************************************)
EXTENDS Media

CONSTANT MaxTyped    \* times one driver types: 6 in the code

ASSUME InstallAssumption == MaxTyped \in Nat

VARIABLES
  guest,     \* what the VM is doing
  disk,      \* what its disk holds: nothing, under a gigabyte, or Windows
  firstLogon,\* the answer file's first-logon commands; their last writes the marker
  bundle,    \* the VM: whether it exists, its install CD, whether that is whole,
             \* for ARM64, and boots by itself
  driver,    \* vm-create: its step, the media it chose, whether it takes that
             \* to boot by itself, the most it saw on the disk, what it has typed,
             \* and whether the disk could not be read when it last looked
  installed, \* on what grounds runs said of the Windows on the disk that it is installed
  mistyped,  \* history: keys went to a Windows that is installed, by a driver
             \* that had read its disk
  halfway    \* history: an import failed after UTM had registered the VM

guestVars   == <<guest, disk, firstLogon, bundle>>
installVars == <<mediaVars, guestVars, driver, installed, mistyped, halfway>>

NoBundle   == [there |-> FALSE, cd |-> FALSE, whole |-> FALSE, arm |-> FALSE, self |-> FALSE]
IdleDriver == [pc |-> "idle", media |-> "none", self |-> FALSE, seen |-> "none", typed |-> 0,
               blind |-> FALSE]

InstallInit ==
  /\ MediaInit
  /\ guest = "off" /\ disk = "empty" /\ firstLogon = "due"
  /\ bundle = NoBundle /\ driver = IdleDriver /\ installed = {} /\ mistyped = FALSE
  /\ halfway = FALSE

AgentUp  == guest \in {"logon", "desktop"}
DriverAt(pc) == driver.pc = pc
DriverTo(pc) == driver' = [driver EXCEPT !.pc = pc]
DriverOver   == driver' = IdleDriver
-----------------------------------------------------------------------------
(* The guest: UTM's firmware, Windows Setup, Windows, and whoever uses it. *)

guestFrame == <<mediaVars, bundle, driver, installed, mistyped, halfway>>

\* The firmware starts the Windows on the disk, else a CD that boots by
\* itself, else waits in its shell.  Nothing as slow as a boot of Windows ends
\* while the driver types (seconds).
Boots ==
  /\ guest = "shell"
  /\ \/ /\ disk = "windows" /\ ~DriverAt("typing")
        /\ guest' = "windows"
     \/ /\ disk # "windows" /\ bundle.cd /\ bundle.whole /\ bundle.self
        /\ guest' = "setup"
  /\ UNCHANGED <<disk, firstLogon, guestFrame>>

\* Setup runs in memory for minutes, then wipes the disk (autounattend.xml:65)
\* and writes another Windows, then reboots.
SetupWrites ==
  /\ guest = "setup" /\ guest' = "copying" /\ disk' = "some"
  /\ firstLogon' = "due" /\ installed' = {}
  /\ UNCHANGED <<mediaVars, bundle, driver, mistyped, halfway>>
SetupReboots ==
  /\ guest = "copying" /\ ~DriverAt("typing")
  /\ guest' = "shell" /\ disk' = "windows"
  /\ UNCHANGED <<firstLogon, guestFrame>>

\* The commands run once: a logon they were cut off in is not repeated.
LogsOn ==
  /\ guest = "windows"
  /\ IF firstLogon = "due" THEN guest' = "logon" /\ firstLogon' = "running"
     ELSE guest' = "desktop" /\ UNCHANGED firstLogon
  /\ UNCHANGED <<disk, guestFrame>>
FirstLogonEnds ==
  /\ guest = "logon" /\ guest' = "desktop" /\ firstLogon' = "done"
  /\ UNCHANGED <<disk, guestFrame>>

\* Switched off or suspended by its owner, or rebooted by an update.
Stopped(how) ==
  /\ guest' = how
  /\ firstLogon' = IF firstLogon = "running" THEN "cut" ELSE firstLogon
OwnerActs ==
  /\ guest # "off"
  /\ \/ Stopped("off")
     \/ guest = "desktop" /\ guest' \in {"shell", "paused"} /\ UNCHANGED firstLogon
  /\ UNCHANGED <<disk, guestFrame>>

GuestSteps ==
  Boots \/ SetupWrites \/ SetupReboots \/ LogsOn \/ FirstLogonEnds \/ OwnerActs
-----------------------------------------------------------------------------
(* vm-create -install.                                                     *)

esdAndAll   == <<theirs, builds, esd, iso, erase, maimed>>
driverFrame == <<mediaVars, guestVars, mistyped, halfway>>

\* The built ISO before anybody else's, whatever iso-create is doing to it.
InstallBegins ==
  /\ DriverAt("idle") /\ (theirs # "none" \/ built.id # 0)
  /\ driver' = [IdleDriver EXCEPT !.pc = "protect",
                                  !.media = IF built.id # 0 THEN "built" ELSE "theirs"]
  /\ UNCHANGED <<driverFrame, installed>>

\* Made immutable by its name, if there is still a file of that name.
InstallProtects ==
  /\ DriverAt("protect") /\ DriverTo("bundle")
  /\ built' = [built EXCEPT !.fixed = @ \/ (driver.media = "built" /\ built.id # 0)]
  /\ UNCHANGED <<mediaLock, esdAndAll, guestVars, installed, mistyped, halfway>>

\* Mutant of InstallLocks: making a bundle only reads the media.
InstallLocksNothing ==
  /\ DriverAt("bundle")
  /\ IF bundle.there THEN DriverTo("ask") ELSE DriverTo("copy")
  /\ UNCHANGED <<driverFrame, installed>>

\* A VM of that name is used; else the machine lock, or a refusal.
InstallLocks ==
  /\ DriverAt("bundle")
  /\ \/ bundle.there /\ DriverTo("ask") /\ UNCHANGED mediaLock
     \/ ~bundle.there /\ mediaLock = "free" /\ DriverTo("copy") /\ mediaLock' = "install"
     \/ ~bundle.there /\ mediaLock # "free" /\ DriverOver /\ UNCHANGED mediaLock
  /\ UNCHANGED <<built, esdAndAll, guestVars, installed, mistyped, halfway>>

\* Create copies the medium in and UTM imports the bundle; the lock goes either
\* way.  UTM may have registered it, whole or not, and registerBundle fail all
\* the same: on its answer, its name, its path or a length.  The VM stays, and
\* the next run uses it.
InstallBundles ==
  /\ DriverAt("copy")
  /\ LET mine == driver.media = "built"
         gone == IF mine THEN built.id = 0 ELSE theirs = "none"
         made == [there |-> TRUE, cd |-> TRUE, whole |-> mine => built.whole,
                  arm |-> mine \/ theirs = "arm64", self |-> mine]
     IN  \/ DriverOver /\ UNCHANGED <<bundle, halfway>>
         \/ ~gone /\ DriverTo("ask") /\ bundle' = made /\ UNCHANGED halfway
         \/ /\ ~gone /\ DriverOver
            /\ bundle' \in {made, [made EXCEPT !.whole = FALSE]}
            /\ halfway' = TRUE
  /\ mediaLock' = IF mediaLock = "install" THEN "free" ELSE mediaLock
  /\ UNCHANGED <<built, esdAndAll, guest, disk, firstLogon, installed, mistyped>>

\* What Inspect reads of the disk.  One it cannot read, for that moment or
\* because the bundle is not where it looks, is an empty one to it.
DiskRead == {disk, "empty"}

\* Inspect: Setup registered its boot entry, read off how much the disk holds.
BootEntryWritten(read) == read = "windows"

\* EnsureReady starts or resumes a VM that is not running and waits for its
\* agent.  One that runs and does not answer may be a desktop: it is never typed
\* at, and the command fails.
EnsuresReady ==
  \/ guest = "off" /\ guest' = "shell" /\ DriverTo("wait")
  \/ guest = "paused" /\ guest' = "desktop" /\ DriverTo("wait")
  \/ guest \notin {"off", "paused"} /\ DriverOver /\ UNCHANGED guest

\* An agent that answers is Windows, said to be installed on that alone; one
\* that answers after a resume is ready.  An agent that is up may fail to answer.
InstallAsks ==
  /\ DriverAt("ask")
  /\ \/ /\ AgentUp /\ DriverOver
        /\ installed' = installed \cup {"agent"} /\ UNCHANGED guest
     \/ guest = "paused" /\ guest' = "desktop" /\ DriverOver /\ UNCHANGED installed
     \/ /\ DriverTo("inspect") /\ UNCHANGED installed
        /\ guest' = IF guest = "paused" THEN "desktop" ELSE guest
  /\ UNCHANGED <<mediaVars, disk, firstLogon, bundle, mistyped, halfway>>

\* Windows that is only not answering is made ready; else it is installed.
InstallInspects ==
  /\ DriverAt("inspect")
  /\ \E read \in DiskRead :
       \/ BootEntryWritten(read) /\ EnsuresReady
       \/ ~BootEntryWritten(read) /\ DriverTo("drive") /\ UNCHANGED guest
  /\ UNCHANGED <<mediaVars, disk, firstLogon, bundle, installed, mistyped, halfway>>

\* RunInstall asks the media there now whether the VM needs typing at.
InstallDrives ==
  /\ DriverAt("drive")
  /\ LET asks == driver.media = "built" /\ built.id # 0
     IN  /\ driver' = [driver EXCEPT !.pc = "sample", !.self = asks /\ Verdict = "self"]
         /\ built' = IF asks THEN [built EXCEPT !.verdict = Verdict] ELSE built
  /\ guest' = IF guest = "off" THEN "shell" ELSE IF guest = "paused" THEN "desktop" ELSE guest
  /\ UNCHANGED <<mediaLock, esdAndAll, disk, firstLogon, bundle, installed, mistyped, halfway>>

Reading  == [none |-> 0, empty |-> 1, some |-> 2, windows |-> 3]
Stalls(read) ==
  driver' = IF driver.typed < MaxTyped
            THEN [driver EXCEPT !.pc = "typing", !.typed = @ + 1, !.blind = read # disk]
            ELSE IdleDriver

\* Mutant of InstallSamples: stalled is stalled, whatever is on the disk.
InstallTypesAnyway ==
  /\ DriverAt("sample")
  /\ \/ AgentUp /\ DriverTo("finish")
     \/ \E read \in DiskRead :
          \/ Reading[read] > Reading[driver.seen] /\ driver' = [driver EXCEPT !.seen = read]
          \/ Reading[read] <= Reading[driver.seen] /\ ~driver.self /\ Stalls(read)
  /\ UNCHANGED <<driverFrame, installed>>

\* Every half minute: does the agent answer, has the disk grown; three quiet
\* samples are a stall, typed at unless something is on the disk or the medium
\* is said to boot by itself.
InstallSamples ==
  /\ DriverAt("sample")
  /\ \/ AgentUp /\ DriverTo("finish")
     \/ \E read \in DiskRead :
          \/ Reading[read] > Reading[driver.seen] /\ driver' = [driver EXCEPT !.seen = read]
          \/ /\ Reading[read] <= Reading[driver.seen] /\ read = "empty" /\ ~driver.self
             /\ Stalls(read)
  /\ UNCHANGED <<driverFrame, installed>>

\* The installer's path, typed where the keys land.
InstallTypes ==
  /\ DriverAt("typing") /\ DriverTo("sample")
  /\ mistyped' = \/ mistyped
                 \/ guest \in {"windows", "logon", "desktop", "paused"} /\ ~driver.blind
  /\ guest' = IF guest = "shell" /\ bundle.cd /\ bundle.whole /\ bundle.arm THEN "setup" ELSE guest
  /\ UNCHANGED <<mediaVars, disk, firstLogon, bundle, installed, halfway>>

\* Mutant of InstallFinishes: the agent answers, so Windows is installed.
InstallFinishesEarly ==
  /\ DriverAt("finish") /\ AgentUp /\ Stopped("off") /\ DriverTo("eject")
  /\ UNCHANGED <<mediaVars, disk, bundle, installed, mistyped, halfway>>

\* finishInstall: the marker, then a shutdown from inside,
InstallFinishes ==
  /\ DriverAt("finish") /\ AgentUp /\ firstLogon = "done"
  /\ Stopped("off") /\ DriverTo("eject")
  /\ UNCHANGED <<mediaVars, disk, bundle, installed, mistyped, halfway>>

\* then UTM takes the CD out of the stopped VM (or refuses), and it starts again.
InstallEjects ==
  /\ DriverAt("eject")
  /\ IF guest = "off"
     THEN guest' = "shell" /\ bundle' = [bundle EXCEPT !.cd = FALSE] /\ DriverTo("last")
     ELSE DriverOver /\ UNCHANGED <<guest, bundle>>
  /\ UNCHANGED <<mediaVars, disk, firstLogon, installed, mistyped, halfway>>

\* waitForAgentTicking: it polls, and returns once the agent has answered.
AgentAwaited(pc) == DriverAt(pc) /\ AgentUp /\ DriverOver

InstallAnswered ==
  /\ \/ AgentAwaited("last") /\ installed' = installed \cup {"finish"}
     \/ AgentAwaited("wait") /\ UNCHANGED installed
  /\ UNCHANGED driverFrame

\* A wait that ran out, an error, or the end of the process: its lock goes.
InstallStops ==
  /\ ~DriverAt("idle") /\ DriverOver
  /\ mediaLock' = IF mediaLock = "install" THEN "free" ELSE mediaLock
  /\ UNCHANGED <<built, esdAndAll, guestVars, installed, mistyped, halfway>>

DriverSteps ==
  \/ InstallBegins \/ InstallProtects \/ InstallLocks \/ InstallBundles \/ InstallAsks
  \/ InstallInspects \/ InstallDrives \/ InstallSamples \/ InstallTypes \/ InstallFinishes \/ InstallEjects
  \/ InstallAnswered \/ InstallStops

MediaMoves == MediaSteps /\ UNCHANGED <<guestVars, driver, installed, mistyped, halfway>>

InstallNext == MediaMoves \/ GuestSteps \/ DriverSteps

InstallSpec == InstallInit /\ [][InstallNext]_installVars
-----------------------------------------------------------------------------
(* Properties.                                                             *)

\* What an ISO is mastered from is all of one release, the one the catalog
\* named, however many downloads were cut short and resumed; and a VM's install
\* CD is a whole medium, whoever was mastering one while the VM was made.  Two
\* ways to less are apart: an iso-create that was killed or could not clean up
\* left half of one under the final name, and an import failed after UTM had
\* registered the VM, which nothing unregisters (vm.go:423-452).
InstalledFromWhole ==
  /\ ISOAt("expand") \/ ISOAt("master") => esd.file \in Releases
  /\ bundle.there => bundle.whole \/ maimed \/ halfway

\* A driver that can read the VM's disk never types at an installed Windows,
\* though it cannot see what the VM is doing and however often it is killed and
\* run again.  One that cannot read it takes it for empty, and does
\* (vm_create.go:902-905).
KeysBeforeWindows == ~mistyped

\* A VM that the run installing it said is installed has run every first-logon
\* command, and its install CD is out.  One that a later run says it of
\* (vm_create.go:292-295) has at least begun its first logon: the commands may
\* have been cut off, and the CD is in.
InstalledFinished ==
  /\ "finish" \in installed => firstLogon = "done" /\ ~bundle.cd
  /\ "agent" \in installed => firstLogon # "due"

=============================================================================
