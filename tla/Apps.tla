-------------------------------- MODULE Apps --------------------------------
(***************************************************************************)
(* app-create: putting a program on a VM and running it there              *)
(* (internal/utmvm/app.go, app_share.go, app_create.go, app_delete.go).    *)
(* Each run has its own build of one program, all under one file name.  A  *)
(* run holds the lock of its VM, but the way there is an IP address that   *)
(* was remembered from an earlier run, and by now another VM may have it;  *)
(* and what an earlier run left running, staged or written stays in the    *)
(* guest.  Content is a set of runs: {r} is all of r's build and nothing   *)
(* else, {} is no file, or a torn one.                                     *)
(*                                                                         *)
(* A guest is taken to finish a move or an unpacking within the minute the *)
(* caller waits for it, or never to start it.                              *)
(***************************************************************************)
EXTENDS Naturals, FiniteSets

CONSTANTS
  AppRuns,      \* the runs of app-create
  Guests,       \* the VMs
  Addresses,    \* the addresses DHCP hands out
  OnDesktop,    \* the runs with -gui
  LeftRunning,  \* the runs with -detach
  NoAddress,    \* a guest that is down; an empty cache file
  MaxBoots      \* how often the guests come up: a bound

ASSUME AppsAssumption == MaxBoots \in Nat

VARIABLES
  at,        \* at[r]: the step run r is at
  on,        \* on[r]: the VM r was told, whose lock it holds until it ends
  reached,   \* reached[r]: the guest whose share answered r
  address,   \* address[v]: the address v has now
  cached,    \* cached[v]: the address remembered for v, under net/
  session,   \* session[v]: somebody is logged in to v's desktop
  staged,    \* staged[v]: scratch-name.part on v's share: its content, and who has it open
  program,   \* program[v]: the content of the program's file in the guest
  running,   \* running[v]: the runs whose program is running in v
  started,   \* started[r]: what r's program was when it was started
  codes,     \* codes[v]: the runs whose exit-code file is in v
  boots

appVars == <<at, on, reached, address, cached, session, staged, program, running, started,
             codes, boots>>

NoFile == [content |-> {}, open |-> {}, there |-> FALSE]

AppsTypeOK ==
  /\ at \in [AppRuns -> {"idle", "dial", "create", "copying", "move", "utm", "launch", "wait",
                         "ended"}]
  /\ on \in [AppRuns -> Guests] /\ reached \in [AppRuns -> Guests]
  /\ address \in [Guests -> Addresses \cup {NoAddress}]
  /\ cached \in [Guests -> Addresses \cup {NoAddress}]
  /\ session \in [Guests -> BOOLEAN]
  /\ staged \in [Guests -> [content : SUBSET AppRuns, open : SUBSET AppRuns, there : BOOLEAN]]
  /\ program \in [Guests -> SUBSET AppRuns] /\ running \in [Guests -> SUBSET AppRuns]
  /\ started \in [AppRuns -> SUBSET AppRuns] /\ codes \in [Guests -> SUBSET AppRuns]
  /\ boots \in 0 .. MaxBoots

AppsInit ==
  /\ at = [r \in AppRuns |-> "idle"]
  /\ \E v \in Guests : on = [r \in AppRuns |-> v] /\ reached = on
  /\ address = [v \in Guests |-> NoAddress]
  /\ cached \in [Guests -> Addresses \cup {NoAddress}]
  /\ session = [v \in Guests |-> FALSE]
  /\ staged = [v \in Guests |-> NoFile]
  /\ program = [v \in Guests |-> {}] /\ running = program /\ codes = program
  /\ started = [r \in AppRuns |-> {}]
  /\ boots = 0

Up(v) == address[v] # NoAddress
Active(r) == at[r] \notin {"idle", "ended"}
Goes(r, step) == at' = [at EXCEPT ![r] = step]

\* The run ends, successfully or not: its lock is free, and the SMB session
\* it had is closed, with the file it was writing.
AppEnds(r) ==
  /\ Goes(r, "ended")
  /\ staged' = [v \in Guests |-> [staged[v] EXCEPT !.open = @ \ {r}]]

(***************************************************************************)
(* The push.                                                               *)
(***************************************************************************)

\* AppCreate: with -gui, only when somebody is logged in to the desktop.
AppBegins(r, v) ==
  /\ at[r] = "idle" /\ Up(v)
  /\ \A q \in AppRuns : Active(q) => on[q] # v
  /\ on' = [on EXCEPT ![r] = v]
  /\ IF r \in OnDesktop /\ ~session[v] THEN Goes(r, "ended") ELSE Goes(r, "dial")
  /\ UNCHANGED <<reached, address, cached, session, staged, program, running, started, codes, boots>>

\* dialShare: whoever answers at the remembered address is taken for the VM;
\* when nobody does it is forgotten, and the VM is asked.
DialsCached(r) ==
  /\ at[r] = "dial" /\ cached[on[r]] # NoAddress
  /\ \E v \in Guests :
       /\ address[v] = cached[on[r]]
       /\ reached' = [reached EXCEPT ![r] = v]
  /\ Goes(r, "create")
  /\ UNCHANGED <<on, address, cached, session, staged, program, running, started, codes, boots>>

DialsAsked(r) ==
  /\ at[r] = "dial" /\ Up(on[r])
  /\ cached[on[r]] # NoAddress => \A v \in Guests : address[v] # cached[on[r]]
  /\ cached' = [cached EXCEPT ![on[r]] = address[on[r]]]
  /\ reached' = [reached EXCEPT ![r] = on[r]]
  /\ Goes(r, "create")
  /\ UNCHANGED <<on, address, session, staged, program, running, started, codes, boots>>

\* No share answers: it was never opened, or the guest is busy.
DialFails(r) ==
  /\ at[r] = "dial"
  /\ cached' = [cached EXCEPT ![on[r]] = NoAddress]
  /\ Goes(r, "utm")
  /\ UNCHANGED <<on, reached, address, session, staged, program, running, started, codes, boots>>

\* copyToShare: the file is emptied and opened, then written.
CopyBegins(r) ==
  /\ at[r] = "create" /\ Up(reached[r])
  /\ staged' = [staged EXCEPT ![reached[r]] =
                  [content |-> {}, open |-> @.open \cup {r}, there |-> TRUE]]
  /\ Goes(r, "copying")
  /\ UNCHANGED <<on, reached, address, cached, session, program, running, started, codes, boots>>

CopyEnds(r) ==
  /\ at[r] = "copying" /\ r \in staged[reached[r]].open
  /\ LET file == staged[reached[r]] IN
       staged' = [staged EXCEPT ![reached[r]] =
                    [file EXCEPT !.content = @ \cup {r}, !.open = @ \ {r}]]
  /\ Goes(r, "move")
  /\ UNCHANGED <<on, reached, address, cached, session, program, running, started, codes, boots>>

\* The session breaks, or the guest it reached goes down.
CopyFails(r) ==
  /\ at[r] \in {"create", "copying"}
  /\ Goes(r, "utm")
  /\ LET file == staged[reached[r]] IN
       staged' = [staged EXCEPT ![reached[r]] =
                    IF Up(reached[r]) /\ at[r] = "copying" THEN NoFile
                    ELSE [file EXCEPT !.open = @ \ {r}]]
  /\ UNCHANGED <<on, reached, address, cached, session, program, running, started, codes, boots>>

\* A program that is running keeps its file from being replaced.
CanMove(v) == Up(v) /\ staged[v].there /\ running[v] = {}

\* Mutant of Moves: the move's exit code trusted, nothing hashed.
MovesUnhashed(r) ==
  /\ at[r] = "move" /\ CanMove(on[r])
  /\ program' = [program EXCEPT ![on[r]] = staged[on[r]].content]
  /\ staged' = [staged EXCEPT ![on[r]] = NoFile]
  /\ Goes(r, "launch")
  /\ UNCHANGED <<on, reached, address, cached, session, running, started, codes, boots>>

\* One batch in the VM moves the staged file into place and hashes the result;
\* only the hash of r's own build is success.
Moves(r) ==
  /\ at[r] = "move" /\ CanMove(on[r])
  /\ program' = [program EXCEPT ![on[r]] = staged[on[r]].content]
  /\ staged' = [staged EXCEPT ![on[r]] = NoFile]
  /\ Goes(r, IF program'[on[r]] = {r} THEN "launch" ELSE "utm")
  /\ UNCHANGED <<on, reached, address, cached, session, running, started, codes, boots>>

\* The move failed, so the staged file is removed, on the guest that was reached.
MoveFails(r) ==
  /\ at[r] = "move"
  /\ staged' = IF Up(reached[r]) THEN [staged EXCEPT ![reached[r]] = NoFile] ELSE staged
  /\ Goes(r, "utm")
  /\ UNCHANGED <<on, reached, address, cached, session, program, running, started, codes, boots>>

\* pushZipped, or pushRaw for a small file: utmctl reaches the VM by its UUID,
\* and the archive checks every byte.
PushesThroughUTM(r) ==
  /\ at[r] = "utm" /\ Up(on[r]) /\ running[on[r]] = {}
  /\ program' = [program EXCEPT ![on[r]] = {r}]
  /\ Goes(r, "launch")
  /\ UNCHANGED <<on, reached, address, cached, session, staged, running, started, codes, boots>>

\* It fails, and may leave half of it: the run is over.
PushFails(r) ==
  /\ at[r] = "utm"
  /\ program' \in {program, IF running[on[r]] = {} THEN [program EXCEPT ![on[r]] = {}] ELSE program}
  /\ AppEnds(r)
  /\ UNCHANGED <<on, reached, address, cached, session, running, started, codes, boots>>

(***************************************************************************)
(* The run.                                                                *)
(***************************************************************************)

\* A batch file runs the program by its path and writes its exit code to a
\* file stamped with the run.  -gui runs it as a task of the desktop session:
\* without one the task never starts.
Launches(r) ==
  /\ at[r] = "launch" /\ Up(on[r])
  /\ IF r \in OnDesktop => session[on[r]]
     THEN /\ running' = [running EXCEPT ![on[r]] = @ \cup {r}]
          /\ started' = [started EXCEPT ![r] = program[on[r]]]
     ELSE UNCHANGED <<running, started>>
  /\ IF r \in LeftRunning THEN AppEnds(r) ELSE Goes(r, "wait") /\ UNCHANGED staged
  /\ UNCHANGED <<on, reached, address, cached, session, program, codes, boots>>

ProgramEnds(r) ==
  /\ \E v \in Guests : /\ r \in running[v]
                       /\ running' = [running EXCEPT ![v] = @ \ {r}]
                       /\ codes' = [codes EXCEPT ![v] = @ \cup {r}]
  /\ UNCHANGED <<at, on, reached, address, cached, session, staged, program, started, boots>>

\* The exit code a run waits for is in the file with its stamp.
Collects(r) ==
  /\ at[r] = "wait" /\ Up(on[r])
  /\ r \in codes[on[r]]
  /\ codes' = [codes EXCEPT ![on[r]] = @ \ {r}]
  /\ AppEnds(r)
  /\ UNCHANGED <<on, reached, address, cached, session, program, running, started, boots>>

\* The timeout, a VM that went away, or the process dying at any step: the lock
\* is free, and the program runs on.
GivesUp(r) ==
  /\ Active(r) /\ AppEnds(r)
  /\ UNCHANGED <<on, reached, address, cached, session, program, running, started, codes, boots>>

\* app-delete, holding the VM's lock: it sweeps what runs left, and the
\* program it was named.
AppDelete(v) ==
  /\ Up(v) /\ \A r \in AppRuns : Active(r) => on[r] # v
  /\ codes' = [codes EXCEPT ![v] = {}]
  /\ program' \in {program, IF running[v] = {} THEN [program EXCEPT ![v] = {}] ELSE program}
  /\ UNCHANGED <<at, on, reached, address, cached, session, staged, running, started, boots>>

(***************************************************************************)
(* The guests.                                                             *)
(***************************************************************************)
GuestComesUp(v) ==
  /\ ~Up(v) /\ boots < MaxBoots
  /\ \E a \in Addresses : /\ \A w \in Guests : address[w] # a
                          /\ address' = [address EXCEPT ![v] = a]
  /\ boots' = boots + 1
  /\ UNCHANGED <<at, on, reached, cached, session, staged, program, running, started, codes>>

GuestGoesDown(v) ==
  /\ Up(v)
  /\ address' = [address EXCEPT ![v] = NoAddress]
  /\ session' = [session EXCEPT ![v] = FALSE]
  /\ running' = [running EXCEPT ![v] = {}]
  /\ staged' = [staged EXCEPT ![v].open = {}]
  /\ UNCHANGED <<at, on, reached, cached, program, started, codes, boots>>

SessionOpens(v) ==
  /\ Up(v) /\ ~session[v]
  /\ session' = [session EXCEPT ![v] = TRUE]
  /\ UNCHANGED <<at, on, reached, address, cached, staged, program, running, started, codes, boots>>

AppsNext ==
  \/ \E r \in AppRuns :
       \/ \E v \in Guests : AppBegins(r, v)
       \/ DialsCached(r) \/ DialsAsked(r) \/ DialFails(r)
       \/ CopyBegins(r) \/ CopyEnds(r) \/ CopyFails(r)
       \/ Moves(r) \/ MoveFails(r) \/ PushesThroughUTM(r) \/ PushFails(r)
       \/ Launches(r) \/ ProgramEnds(r) \/ Collects(r) \/ GivesUp(r)
  \/ \E v \in Guests : AppDelete(v) \/ GuestComesUp(v) \/ GuestGoesDown(v) \/ SessionOpens(v)

AppsSpec == AppsInit /\ [][AppsNext]_appVars

(***************************************************************************)
(* Properties.                                                             *)
(***************************************************************************)

\* What runs in the guest as a run's program is that run's own build, whole:
\* never one that an earlier run left, another VM's run wrote through a stale
\* address, or a torn copy (pushShared: success means the guest's hash).
RunsWhatWasGiven ==
  \A r \in AppRuns : (\E v \in Guests : r \in running[v]) => started[r] = {r}

=============================================================================
