---------------------------- MODULE Verdicts ------------------------------
(***************************************************************************)
(* glaze-check and vm-check (internal/glazecheck, cmd vmcheck.go and       *)
(* glaze.go): build a suite, run it in parts on a target, turn what it     *)
(* printed into results, the results into a verdict, and record that in a  *)
(* status file all targets share, with the pictures the run took and the   *)
(* commit that decides later whether the verdict still describes the tree. *)
(*                                                                         *)
(* vm-check runs under its VM's lock, in two parts, with checks of the     *)
(* host's before and after them.  glaze-check runs in one part; here it    *)
(* takes no lock, and in a VM it locks that VM, while its target is        *)
(* "windows" whichever VM it is.  A suite is three tests: a parent, its    *)
(* child, and another that runs after them.                                *)
(***************************************************************************)
EXTENDS Naturals, FiniteSets

CONSTANTS
  CheckRuns, \* the check processes
  Targets,   \* what has a section in the status file
  Native,    \* of glaze's, the target that is this machine
  MaxEdits,  \* how often new source is written: a bound
  NoCheck    \* no check

ASSUME VerdictAssumption == MaxEdits \in Nat /\ Native \subseteq Targets

VARIABLES
  suite,     \* "glaze" or "vm": they share no file
  doing,     \* doing[c]: the step check c is at
  checking,  \* checking[c]: its target
  seen,      \* seen[c]: the commit it read, if git saw nothing beside it
  binary,    \* binary[b]: the source the binary at b was built from, or none
  results,   \* results[c]: the results so far, as the verdict counts them
  notRun,    \* notRun[c]: the suite never got to run
  unbuilt,   \* unbuilt[c]: the suite did not build
  ranFrom,   \* ranFrom[c]: the sources of the binaries it ran
  truth,     \* truth[c]: what really happened in its parts so far
  tree,      \* the suite's source now: its tracked files, and if there are others
  written,   \* how many versions of the tracked files there have been
  head,      \* the version committed last
  sections,  \* sections[t]: the record of t in the status file
  readFile,  \* readFile[c]: the status file as c read it
  pictures,  \* pictures[t]: the checks whose pictures are in t's directory
  manifest,  \* manifest[t]: the check whose manifest is there
  undone,    \* history: the versions of the source that were gone back to
  slipped,   \* history: the checks during which an untracked file was added
  mixed      \* history: the targets whose directory two checks were filling

verdictHistory == <<undone, slipped, mixed>>
sourceVars == <<tree, written, head>>
perRun  == <<results, notRun, unbuilt, ranFrom, truth>>
verdictVars == <<suite, doing, checking, seen, binary, perRun, sourceVars, sections, readFile,
                 pictures, manifest, verdictHistory>>

Failed == {"fail", "unfinished"}
Fates  == {"ok", "fail", "unfinished", "absent"}  \* ok: it passed, or was skipped
Tests  == {"parent", "child", "other"}
NoVersion  == MaxEdits + 1
NoBinary   == [tracked |-> NoVersion, extra |-> FALSE]
Unrecorded == [by |-> NoCheck, verdict |-> "none", source |-> NoVersion, from |-> {}]

IsNative(c) == suite = "glaze" /\ checking[c] \in Native
SuiteParts  == IF suite = "vm" THEN 2 ELSE 1
\* KnownUpstream names one test, on Windows; KnownVM names none.
ChildKnown(c) == suite = "glaze" /\ ~IsNative(c)

\* What one run of the binary can do.  Tests run one after the other; a child
\* that fails fails its parent; message is the parent failing with something to
\* say of its own.  The binary may die, crashed or killed, in a test or between
\* two; told is whether what it printed ends with the package failing, which it
\* does when it ends by itself after a failure, and may when it dies.
SuiteRuns ==
  {h \in [parent : Fates, child : Fates, other : Fates,
          message : BOOLEAN, died : BOOLEAN, told : BOOLEAN] :
     /\ h.parent = "absent" => h.child = "absent"
     /\ h.child = "fail" => h.parent \in Failed
     /\ h.child = "unfinished" => h.parent = "unfinished"
     /\ h.parent = "unfinished" => h.other = "absent"
     /\ h.message => h.parent = "fail"
     /\ h.parent = "unfinished" \/ h.other = "unfinished" => h.died
     /\ ~h.died => h.told = (\E t \in Tests : h[t] \in Failed)}

AnyFailed(h)  == \E t \in Tests : h[t] \in Failed
NothingRan(h) == \A t \in Tests : h[t] = "absent"

\* A part that never reached the guest: the push failed, nobody was logged in.
NeverRan == [parent |-> "absent", child |-> "absent", other |-> "absent", message |-> FALSE,
             died |-> FALSE, told |-> FALSE]

\* A test failed that is not known to: one of its own, not its child's.
FailedAnew(h, known) ==
  \/ h.other \in Failed \/ h.parent = "unfinished" \/ h.message
  \/ h.parent = "fail" /\ h.child \notin Failed
  \/ h.child \in Failed /\ ~known

\* The binary died between tests and the parser does not say so: a test had
\* failed before, or the package's failure is not in what it printed.
DiedSilently(h) ==
  /\ h.died /\ "unfinished" \notin {h.parent, h.other} /\ ~NothingRan(h)
  /\ AnyFailed(h) \/ ~h.told

Nothing == [parts |-> 0, ran |-> 0, broken |-> FALSE, failing |-> FALSE, died |-> FALSE]
\* What part h adds to what happened, whether the guest was reached or not; died
\* is a death that ought to have been heard.
After(was, h, did, known) ==
  [parts |-> was.parts + 1, ran |-> was.ran + (IF did THEN 1 ELSE 0),
   broken |-> was.broken \/ FailedAnew(h, known) \/ NothingRan(h),
   failing |-> was.failing \/ AnyFailed(h),
   died |-> was.died \/ (h.died /\ ~DiedSilently(h))]

(***************************************************************************)
(* Results and verdict.                                                    *)
(***************************************************************************)
\* How the verdict counts a result: a test that failed or never ended, the
\* known one apart, and the known one when it did not.
Result(c, test, failed) ==
  IF test = "child" /\ ChildKnown(c) THEN IF failed THEN "known" ELSE "xpass"
  ELSE IF failed THEN "failed" ELSE "ok"

\* markInheritedFailures: a parent that failed with nothing of its own to say.
Inherited(h, t) ==
  t = "parent" /\ h.parent = "fail" /\ ~h.message /\ h.child \in Failed

\* Suite.parse: one result per test that started, the ones that only inherited
\* a failure not counted; a package that failed and no test that did is a
\* failure of its own.
Parsed(c, h) ==
  {Result(c, t, h[t] \in Failed) : t \in {u \in Tests : h[u] # "absent" /\ ~Inherited(h, u)}}
    \cup IF h.told /\ ~AnyFailed(h) THEN {Result(c, "package", TRUE)} ELSE {}

\* Mutant of Converted: no test, no result.
ConvertedParsed(c, h) == {r \in Parsed(c, h) : ~NothingRan(h)}

\* Suite.convert: output with no test in it is a failure named for the part.
Converted(c, h) == IF NothingRan(h) THEN {Result(c, "part", TRUE)} ELSE Parsed(c, h)

\* Section.Verdict.
VerdictOf(c) ==
  IF unbuilt[c] THEN "NO-BUILD"
  ELSE IF notRun[c] \/ results[c] = {} THEN "CANNOT-TELL"
  ELSE IF "failed" \in results[c] THEN "NO"
  ELSE IF "xpass" \in results[c] THEN "UNEXPECTED-PASS"
  ELSE IF "known" \in results[c] THEN "KNOWN-ONLY"
  ELSE "YES"

Versions == 0 .. NoVersion
Sources  == [tracked : Versions, extra : BOOLEAN]
VerdictTypeOK ==
  /\ suite \in {"glaze", "vm"}
  /\ doing \in [CheckRuns -> {"idle", "building", "before", "running", "after", "collecting",
                           "copying", "recording", "renaming", "ended"}]
  /\ checking \in [CheckRuns -> Targets]
  /\ seen \in [CheckRuns -> Versions]
  /\ binary \in [{"mac", "win"} -> Sources]
  /\ tree \in Sources /\ {tree.tracked, head} \subseteq 0 .. written /\ written \in 0 .. MaxEdits
  /\ \A c \in CheckRuns : truth[c].ran <= truth[c].parts /\ truth[c].parts <= SuiteParts
  /\ \A t \in Targets : sections[t].by \in CheckRuns \cup {NoCheck}
  /\ pictures \in [Targets -> SUBSET CheckRuns]
  /\ manifest \in [Targets -> CheckRuns \cup {NoCheck}]
  /\ undone \subseteq Versions /\ slipped \subseteq CheckRuns /\ mixed \subseteq Targets

VerdictInit ==
  /\ suite \in {"glaze", "vm"}
  /\ doing = [c \in CheckRuns |-> "idle"]
  /\ checking \in [CheckRuns -> Targets]
  /\ seen = [c \in CheckRuns |-> NoVersion]
  /\ tree = [tracked |-> 0, extra |-> FALSE] /\ written = 0 /\ head = 0
  /\ binary = [b \in {"mac", "win"} |-> NoBinary]
  /\ results = [c \in CheckRuns |-> {}] /\ ranFrom = results
  /\ notRun = [c \in CheckRuns |-> FALSE] /\ unbuilt = notRun
  /\ truth = [c \in CheckRuns |-> Nothing]
  /\ sections = [t \in Targets |-> Unrecorded]
  /\ readFile = [c \in CheckRuns |-> sections]
  /\ pictures = [t \in Targets |-> {}]
  /\ manifest = [t \in Targets |-> NoCheck]
  /\ undone = {} /\ slipped = {} /\ mixed = {}

DoingIs(c, s) == doing' = [doing EXCEPT ![c] = s]
Busy(c)   == doing[c] \notin {"idle", "ended"}
\* .bin/mac and .bin/win.
Bin(c)    == IF IsNative(c) THEN "mac" ELSE "win"

\* The process is gone, with what only it knew.
Gone(c) ==
  /\ DoingIs(c, "ended")
  /\ results' = [results EXCEPT ![c] = {}] /\ ranFrom' = [ranFrom EXCEPT ![c] = {}]
  /\ readFile' = [readFile EXCEPT ![c] = [t \in Targets |-> Unrecorded]]
  /\ seen' = [seen EXCEPT ![c] = NoVersion]
  /\ notRun' = [notRun EXCEPT ![c] = FALSE] /\ unbuilt' = [unbuilt EXCEPT ![c] = FALSE]

(***************************************************************************)
(* A check.                                                                *)
(***************************************************************************)

\* vm-check has its VM's lock; glaze-check has none that keeps another off its
\* target.  Then readTree: the commit, and whether git sees anything else,
\* untracked files too, before anything is built.
CheckBegins(c) ==
  /\ doing[c] = "idle"
  /\ suite = "vm" => \A d \in CheckRuns : Busy(d) => checking[d] # checking[c]
  /\ seen' = [seen EXCEPT ![c] = IF tree.tracked = head /\ ~tree.extra THEN head ELSE NoVersion]
  /\ DoingIs(c, "building")
  /\ UNCHANGED <<suite, checking, binary, perRun, sourceVars, sections, readFile, pictures,
                 manifest, verdictHistory>>

\* build: whatever binary is there is removed first.
Builds(c) ==
  /\ doing[c] = "building"
  /\ \/ /\ binary' = [binary EXCEPT ![Bin(c)] = tree]
        /\ DoingIs(c, IF suite = "vm" THEN "before" ELSE "running") /\ UNCHANGED unbuilt
     \/ /\ binary' = [binary EXCEPT ![Bin(c)] = NoBinary]
        /\ DoingIs(c, "collecting") /\ unbuilt' = [unbuilt EXCEPT ![c] = TRUE]
  /\ UNCHANGED <<suite, checking, seen, results, notRun, ranFrom, truth, sourceVars, sections,
                 readFile, pictures, manifest, verdictHistory>>

\* The host's own test: what it found is a result like the others.
HostTests(c, test) ==
  \E failed \in BOOLEAN :
    /\ results' = [results EXCEPT ![c] = @ \cup {Result(c, test, failed)}]
    /\ truth' = [truth EXCEPT ![c].broken = @ \/ failed, ![c].failing = @ \/ failed]

\* Before: the guest agent answers, at once, after recovering the VM while it
\* was running, which is a failure, or not at all.
AgentAnswers(c) ==
  /\ doing[c] = "before"
  /\ \/ HostTests(c, "agent") /\ DoingIs(c, "running") /\ UNCHANGED notRun
     \/ /\ notRun' = [notRun EXCEPT ![c] = TRUE] /\ DoingIs(c, "collecting")
        /\ UNCHANGED <<results, truth>>
  /\ UNCHANGED <<suite, checking, seen, binary, unbuilt, ranFrom, sourceVars, sections, readFile,
                 pictures, manifest, verdictHistory>>

\* What a run of the binary that is there now can come to.
Outcomes(c) ==
  {[truth |-> After(truth[c], h, TRUE, ChildKnown(c)), results |-> Converted(c, h)] : h \in SuiteRuns}

NextPart(c) ==
  DoingIs(c, IF truth'[c].parts < SuiteParts THEN "running"
             ELSE IF suite = "vm" THEN "after" ELSE "collecting")

\* runParts: the binary that is there now is pushed and run, and what it
\* printed is converted.
RunsPart(c) ==
  /\ doing[c] = "running" /\ binary[Bin(c)] # NoBinary
  /\ \E o \in Outcomes(c) :
       /\ truth' = [truth EXCEPT ![c] = o.truth]
       /\ results' = [results EXCEPT ![c] = @ \cup o.results]
  /\ ranFrom' = [ranFrom EXCEPT ![c] = @ \cup {binary[Bin(c)]}]
  /\ NextPart(c)
  /\ UNCHANGED <<suite, checking, seen, binary, notRun, unbuilt, sourceVars, sections, readFile,
                 pictures, manifest, verdictHistory>>

\* The part could not be run, for a reason NotRun does not name: the push
\* failed, nobody is logged in, another check's build removed the binary.
PartFails(c) ==
  /\ doing[c] = "running"
  /\ truth' = [truth EXCEPT ![c] = After(@, NeverRan, FALSE, ChildKnown(c))]
  /\ results' = [results EXCEPT ![c] = @ \cup Converted(c, NeverRan)]
  /\ NextPart(c)
  /\ UNCHANGED <<suite, checking, seen, binary, notRun, unbuilt, ranFrom, sourceVars, sections,
                 readFile, pictures, manifest, verdictHistory>>

\* ... or for one it does, in a VM: no agent, no VM, a lock that is held.
PartNotRun(c) ==
  /\ doing[c] = "running" /\ ~IsNative(c)
  /\ notRun' = [notRun EXCEPT ![c] = TRUE]
  /\ results' = [results EXCEPT ![c] = {}]
  /\ DoingIs(c, "collecting")
  /\ UNCHANGED <<suite, checking, seen, binary, unbuilt, ranFrom, truth, sourceVars, sections,
                 readFile, pictures, manifest, verdictHistory>>

\* After: nothing was left open on the desktop, or something was.
DesktopClean(c) ==
  /\ doing[c] = "after"
  /\ HostTests(c, "desktop") /\ DoingIs(c, "collecting")
  /\ UNCHANGED <<suite, checking, seen, binary, notRun, unbuilt, ranFrom, sourceVars, sections,
                 readFile, pictures, manifest, verdictHistory>>

\* Another check is filling c's directory.
Filled(c) == \E d \in CheckRuns \ {c} : doing[d] = "copying" /\ checking[d] = checking[c]
Mixes(c)  == mixed' = IF Filled(c) THEN mixed \cup {checking[c]} ELSE mixed \ {checking[c]}

\* Mutant of Empties: the directory is not emptied.
EmptiesNothing(c) ==
  /\ doing[c] = "collecting" /\ DoingIs(c, "copying") /\ Mixes(c)
  /\ UNCHANGED <<suite, checking, seen, binary, perRun, sourceVars, sections, readFile, pictures,
                 manifest, undone, slipped>>

\* collectShots: the target's pictures go, this run's are copied in, and the
\* manifest is written last.
Empties(c) ==
  /\ doing[c] = "collecting"
  /\ pictures' = [pictures EXCEPT ![checking[c]] = {}]
  /\ manifest' = [manifest EXCEPT ![checking[c]] = NoCheck]
  /\ DoingIs(c, "copying") /\ Mixes(c)
  /\ UNCHANGED <<suite, checking, seen, binary, perRun, sourceVars, sections, readFile, undone,
                 slipped>>

CopiesShot(c) ==
  /\ doing[c] = "copying" /\ results[c] # {}
  /\ c \notin pictures[checking[c]]
  /\ pictures' = [pictures EXCEPT ![checking[c]] = @ \cup {c}]
  /\ UNCHANGED <<suite, doing, checking, seen, binary, perRun, sourceVars, sections, readFile,
                 manifest, verdictHistory>>

WritesManifest(c) ==
  /\ doing[c] = "copying"
  /\ manifest' = [manifest EXCEPT ![checking[c]] = c]
  /\ DoingIs(c, "recording")
  /\ UNCHANGED <<suite, checking, seen, binary, perRun, sourceVars, sections, readFile, pictures,
                 verdictHistory>>

\* record: the file is read, this target's section replaced in it, and the
\* whole renamed into place.
ReadsFile(c) ==
  /\ doing[c] = "recording"
  /\ readFile' = [readFile EXCEPT ![c] = sections]
  /\ DoingIs(c, "renaming")
  /\ UNCHANGED <<suite, checking, seen, binary, perRun, sourceVars, sections, pictures, manifest,
                 verdictHistory>>

\* Mutant of RecordedSource: the commit as it is by then.
RecordedSourceLate(c) == head

\* The commit a record names, none if there was more than it.
RecordedSource(c) == seen[c]

RecordsVerdict(c) ==
  /\ doing[c] = "renaming"
  /\ sections' = [readFile[c] EXCEPT ![checking[c]] =
                    [by |-> c, verdict |-> VerdictOf(c), source |-> RecordedSource(c),
                     from |-> ranFrom[c]]]
  /\ Gone(c)
  /\ UNCHANGED <<suite, checking, binary, truth, sourceVars, pictures, manifest, verdictHistory>>

CheckDies(c) ==
  /\ Busy(c) /\ Gone(c)
  /\ truth' = [truth EXCEPT ![c] = Nothing]
  /\ UNCHANGED <<suite, checking, binary, sourceVars, sections, pictures, manifest, verdictHistory>>

(***************************************************************************)
(* Whoever works in the checkout.                                          *)
(***************************************************************************)
SourceOnly ==
  UNCHANGED <<suite, doing, checking, seen, binary, perRun, sections, readFile, pictures,
              manifest, mixed>>

Edits ==
  /\ written < MaxEdits /\ written' = written + 1
  /\ tree' = [tree EXCEPT !.tracked = written + 1]
  /\ UNCHANGED <<head, undone, slipped>> /\ SourceOnly

\* An edit, or a commit, is gone back on.
Undoes ==
  /\ \E v \in 0 .. written :
       /\ v # tree.tracked
       /\ tree' = [tree EXCEPT !.tracked = v] /\ undone' = undone \cup {v}
  /\ UNCHANGED <<written, head, slipped>> /\ SourceOnly

\* A file git does not track comes into the suite, or goes.
AddsFile ==
  /\ ~tree.extra /\ tree' = [tree EXCEPT !.extra = TRUE]
  /\ slipped' = slipped \cup {c \in CheckRuns : Busy(c)}
  /\ UNCHANGED <<written, head, undone>> /\ SourceOnly
RemovesFile ==
  /\ tree.extra /\ tree' = [tree EXCEPT !.extra = FALSE]
  /\ UNCHANGED <<written, head, undone, slipped>> /\ SourceOnly

Commits ==
  /\ head # tree.tracked /\ head' = tree.tracked
  /\ UNCHANGED <<tree, written, undone, slipped>> /\ SourceOnly

VerdictNext ==
  \/ \E c \in CheckRuns :
       \/ CheckBegins(c) \/ Builds(c) \/ AgentAnswers(c) \/ RunsPart(c) \/ PartFails(c)
       \/ PartNotRun(c) \/ DesktopClean(c) \/ Empties(c) \/ CopiesShot(c) \/ WritesManifest(c)
       \/ ReadsFile(c) \/ RecordsVerdict(c) \/ CheckDies(c)
  \/ Edits \/ Undoes \/ AddsFile \/ RemovesFile \/ Commits

VerdictSpec == VerdictInit /\ [][VerdictNext]_verdictVars

(***************************************************************************)
(* Properties.                                                             *)
(***************************************************************************)

\* A verdict that lets a gate through was earned: every part ran and printed
\* something, no test failed but the known one, none was left unfinished, and
\* a binary that died between two tests was not one that the parser can hear of
\* (Section.Passed, over parse and convert).  What it cannot hear of is a death
\* after a test had failed, the known one too, or one that the output does not
\* end with the package failing: results.go:87-90 promises a result for those,
\* and results.go:185 does not make it.
VerdictEarned ==
  \A t \in Targets : LET s == sections[t] IN
    s.verdict \in {"YES", "KNOWN-ONLY"} =>
      /\ truth[s.by].ran = SuiteParts /\ ~truth[s.by].broken /\ ~truth[s.by].died
      /\ s.verdict = "YES" => ~truth[s.by].failing

\* sourceChanged, git diff --quiet: the tracked files are what the recorded
\* commit has, which is when glaze-status and vm-status answer unchanged.
SaysUnchanged(t) == sections[t].source = tree.tracked

\* A record they say that of is of binaries built from exactly the commit it
\* names, although the source was edited and committed, and another check built
\* over the same file, while this one ran.  Two things git diff cannot see are
\* apart: an untracked file that came while the check ran, and a version of the
\* source that was left and gone back to.
CurrentTrue ==
  \A t \in Targets : LET s == sections[t] IN
    SaysUnchanged(t) => \/ s.from \subseteq {[tracked |-> s.source, extra |-> FALSE]}
                        \/ s.by \in slipped \/ s.source \in undone

\* The pictures beside a manifest are all of the run that wrote it
\* (shots.go:29: a picture a test did not take this time must not be shown
\* beside this run's result), unless two runs filled the directory at once,
\* since it was last emptied by one alone: two of glaze-check's can.
PicturesBelong ==
  \A t \in Targets : manifest[t] # NoCheck /\ t \notin mixed => pictures[t] \subseteq {manifest[t]}

=============================================================================
