# irgo-windows-vm in TLA+

`irgo-winvm` makes Windows and Linux VMs in UTM on a Mac, pushes programs into
them, runs them and brings the results back. It is used from a terminal, by
agents over MCP, and from any other machine through a Cloudflare Worker that
queues jobs for Macs to take. This directory holds TLA+ specifications of the
parts that are hard to get right, the configurations that model-check them, and
proofs about them.

Every definition is translated from the Go source; `PROJECT.json` names the
lines of each. Comments in the modules say what a definition is for; this file
says how they fit.

Run a check with `tlc -config MCJobQueueTime.cfg MCJobQueue.tla` (`PROJECT.json`
names the module each configuration is for), the proofs with
`tlapm JobQueueProofs.tla`, and so for each of the eight modules in `Proofs`.

## 1. The system

| Part | State it keeps | Operations | Source |
|---|---|---|---|
| Remote job queue | `jobs/index.json` (every live job), `jobs/<id>/job.json` (archive), job files, all in R2 | submit, input, view, cancel, claim, heartbeat, file, finish, list | `worker/jobs.go`, `worker/jobs_store.go`, `wire/jobs.go` |
| Runner and caller | the running job's log buffer, what was sent of it, whether the job is over | claim, run, flush log and beat, upload, finish; submit, wait, fetch | `internal/remote`, `cmd/irgo-winvm/{serve,remote}.go` |
| VM records and admission | `vms/<name>.json`: owner, creator pid, last use, keep mark | begin and finish a create, touch, mark, reap, delete | `internal/utmvm/vm_{lease,capacity,keep,delete}.go` |
| Mutation locks | `flock`ed files per VM, per caller, for capacity, for UTM's launch, for the machine | acquire at once or be refused; released at exit or death | `internal/utmvm/lock*.go`, `cmd/irgo-winvm/main.go` |
| Opening UTM | the launch lock's file time, UTM itself | open and leave it to settle; restart one that does not answer | `internal/utmvm/vm_{utm_open,start}.go` |
| Keeper | marks, a backoff per VM, an idle-sleep assertion | one pass every 15 s: start what is marked and stopped | `internal/keeper`, `cmd/irgo-winvm/keeper.go` |
| Golden image | a sealed VM and its verdict on the Mac | seal, verify, clone, delete | `internal/utmvm/vm_golden.go` |
| Golden cache | chunks, manifests, `latest` in R2 | push, pull, list, delete | `internal/utmvm/vm_golden_{cache,r2}.go`, `worker/golden.go` |
| Ledger | `spool.jsonl`, `inflight.jsonl`; rows in D1 | record, flush, resend; insert once, list | `internal/ledger`, `worker/ledger.go` |
| Glaze runs | pictures and `latest.json` in R2 | publish a run | `worker/api.go` |
| Detached jobs | a record and an output file per job | start or find, poll | `internal/job` |
| MCP server | none of its own | a tool call is a command | `internal/mcpserver`, `cmd/irgo-winvm/mcp.go` |
| Making a VM | disks, VM bundle, cloud-init | install, clone, boot, wait for the agent | `internal/utmvm/vm_create.go`, `linux_vm.go` |
| Media | ISOs, the flag on an ISO's inode | fetch, hand a hard link to UTM, delete | `internal/utmvm/iso*.go` |
| Pruning | what the tool wrote | select by age and size, remove | `internal/utmvm/prune.go` |
| Checks | a status file of all targets, pictures and a manifest per target | build, run in parts, parse, record | `internal/glazecheck`, `cmd/irgo-winvm/{glaze,vmcheck}.go` |
| Apps | staged binaries per caller | upload, push, run, list, delete | `internal/utmvm/app*.go` |

How they interact. A caller submits a job and uploads its binary to the
Worker; a Mac running `serve` claims it, runs `vm-create`, `app-create` and
`vm-delete` as commands of its own, beats, uploads and finishes. Every command
on a Mac, from the terminal, from an MCP call, from a job child or from `serve`,
goes through one function (`runToolFor`): it takes its locks or is refused,
renews the VM's lease, and works. Commands share the record files, UTM and the
locks, and nothing else. The keeper is a command that never ends, and reads the
marks others write. Every command records its start and end in the ledger.

What is hard, part by part, and what makes it correct:

- *Job queue.* Many requests change one object and none holds a lock: each reads
  the clock, loads, computes and swaps, and starts again when it lost. Time ends
  jobs in readers that store nothing and in writers that do. Requests fail
  anywhere and are repeated. Correct when a job is given to one Mac at most, a
  cancel is never answered with a result, limits hold although they are counted
  before the store, files exist before anything relies on them, every job ends,
  nothing leaves the index unarchived, and what was once shown as the end stays.
- *Runner.* One goroutine both uploads the log and beats. Correct when a healthy
  run never loses its lease, the whole log arrives, and a lost lease stops the
  run.
- *Records.* Files read, changed and written whole by processes that can be
  killed; a decision about memory that UTM reflects only later. Correct when the
  running VMs fit, no VM is without a record, no mark is lost, and nothing removes
  a VM somebody is using or has marked.
- *Opening UTM.* Two processes decide that UTM must be opened or restarted.
  Correct when a restart takes no guest with it that was started by its rules, and
  no request spoils a UTM that answers.
- *Keeper.* Marks and VMs listed, then acted on behind a backoff, two locks and a
  UTM that may not answer. Correct when a marked VM that nobody uses runs again
  and again, and a Mac on battery may sleep.
- *Golden cache.* Pushes from several Macs share chunks, and a delete computes
  from a listing. Correct when what `latest` names is complete.
- *Ledger.* A spool moved aside, sent and removed, with a crash anywhere. Correct
  when every recorded event that was not dropped at the limit arrives once.
- *Detached jobs.* Look, draw an id, write: three steps, no lock. Correct when
  the id a caller got goes on meaning its job, and a death is reported.
- *Golden image.* Registered before it is proved; looked for, then cloned. Correct
  when there is one, and clones are of a proved one only.
- *Making a VM.* An installer driven blind, by media that others download, master
  and delete, with every process killed and run again. Correct when a VM is made of
  whole media, no key reaches Windows, and installed means finished.
- *Apps.* An address remembered from an earlier run, a program that outlives its
  caller. Correct when what runs is what was given.
- *Checks.* A verdict made of what parts of a suite printed, on a tree that is
  edited meanwhile. Correct when a pass was earned and still describes the tree.

`PROJECT.json` lists each hazard with its line, and the property that covers it
or why none does yet.

## 2. The modules

| Module | What it is |
|---|---|
| `JobQueue` | the Worker's queue: requests as processes over the index, archive and files |
| `JobLifecycle` | what the queue promises of one job, with no index, clock or swap |
| `JobQueueProofs` | the inductive invariant of `JobQueue` and the theorems read from it |
| `RemoteRun` | one job from its caller's terminal to a clone on a Mac and back |
| `Ledger` | the spool, the flush, the Worker's insert and its view of open work |
| `UTMLaunch` | opening UTM, starting a VM in it, restarting one that does not answer |
| `Keeper` | the keeper; extends `UTMLaunch`, whose locks and UTM it shares |
| `DetachedJobs` | commands the MCP server starts as children, and their records |
| `Staging` | binaries uploaded in chunks to the Mac, and their pruning |
| `GoldenCache` | the golden image's bucket: push, remove, pull |
| `GoldenImage` | the golden image on one Mac: seal, prove, record, import, delete, clone |
| `Media` | the Windows media: download, master, judge, delete |
| `Install` | a driver that installs Windows from that media; extends `Media` |
| `LinuxImage` | the pinned Linux image, downloaded and made into VMs |
| `Verdicts` | a check: the suite it builds, what it makes of the output, what it records |
| `VMRecords` | one Mac's VMs, records, locks, and the commands on them |
| `Apps` | a program put on a VM and run there |
| `VMRecordsProofs`, `GoldenCacheProofs`, `KeeperProofs` | inductive invariants and theorems about `VMRecords`, `GoldenCache`, and `Keeper` with `UTMLaunch` |
| `RemoteRunProofs`, `LedgerProofs` | the same about `RemoteRun` and `Ledger` |
| `ImagesProofs` | the same about `GoldenImage`, `Install` with `Media`, `LinuxImage` and `Verdicts`, an invariant for each |
| `MacProofs` | the same about `Apps`, `DetachedJobs` and `Staging` |

The modules that begin with `MC` are the instances. Three of them hold several
components: `MCMac` (`Keeper`, `Staging`), `MCImages` (`GoldenCache`,
`GoldenImage`, `Install`, `LinuxImage`, `Verdicts`, `UTMLaunch` with commands
alone) and `MCVMs` (`VMRecords`, `Apps`, `DetachedJobs`). The components in one
of these share no variable, so interleaving them would multiply states and show
nothing; `part`, chosen in the first state, says which of them moves, and in
which of its scenes (section 3). Components that do share state are joined by
EXTENDS (`Keeper` with `UTMLaunch`, `Install` with `Media`) and do interleave.

Where the code lets something happen that breaks what it is meant to keep, the
model has that too, and a history variable notes it. The property then says what
holds apart from exactly those cases, so that an exception can be neither larger
than what the code does nor hidden in a bound:

| Variable | Notes | Property |
|---|---|---|
| `overtaken`, `rushed` | requests let through before UTM was taken for a restart or quit; VMs that they, or the owner, started between a restart's list and its quit | `StaysAnswering`, `QuitStopsOnlyRushed` |
| `unwatched` | UTM launches and no process of ours waits for that | `StaysAnswering` |
| `uncounted` | VMs booted again by a create, and ones whose creator was done between another's table and its count | `RoomKept` |
| `overwritten` | VMs whose record `vm-screen` put back to an older one | `MarkStays`, `RoomKept` |
| `clashed` | job ids drawn while another call had drawn them or was to remove them | `RunningAnswerable` |
| `shared` | Linux images two runs had to do with at once | `BundlesPinned` |
| `maimed`, `halfway` | half an ISO left under the final name; an import that failed after UTM registered the VM | `InstalledFromWhole` |
| `driver.blind` | the disk could not be read when the driver last looked | `KeysBeforeWindows` |
| `slipped`, `undone` | untracked files that came during a check; versions of the source gone back to | `CurrentTrue` |
| `mixed` | picture directories two checks filled at once | `PicturesBelong` |

What each exception costs is in "Traces" (section 3).

An operator whose name says what a bug would do (`UniqueIDPlain`,
`TakesLater`, `CommittedUnread`) and whose comment begins "Mutant of" is not part
of a specification: it is a form of a definition that would be wrong, by which
`PROJECT.json` shows that a property notices.

### JobQueue

A request in flight is a slot: `pc` says where in `mutate` it stands. `load` is
after the clock was read; `Load` is the read of the index, the sweep, the archive
writes and the handler; `swap` is between them and the compare-and-swap, which
is `Store` when the index is still what was loaded and `LoseSwap` when it is not.
`Handle` is the closure each handler gives `mutate`, as the set of indexes it may
make of a swept one: none when it refuses, more than one only for a claim among
equally old jobs. `put` is the upload of a file, which comes before `mutate` for
a binary and alone for a result. What a handler checks before `mutate` is the
guard of its `...Arrives` action, and reads what a reader is shown (`Shown`).
`Fail` is every way a request ends early: an error from R2, a body that stops or
does not hash, an eviction. A lost answer needs no action, because no answer is
state: the sender may send again in any case.

Abstractions, each of which keeps the order of the steps:

- An ETag is compared as the content it stands for, as in `memJobs`, whose ETag
  is a digest of the body.
- The clock is read with the arrival of a request or with its retry. `MaxHold`
  bounds how far time moves between that and the swap, or the end of the pause
  after a lost swap. In the code that is the time of a few requests to R2 and a
  pause of about a second; `keepFor`, which three of the theorems need to be no
  shorter, is a day. The other proofs hold for every bound.
- The archive writes of one attempt are one step with its load. They are
  create-only, and another attempt's step may come before or after; `Fail` before
  the swap covers an attempt that dies having archived.
- An id is never drawn twice (`newJobID` draws 128 random bits).
- Equal `Queued` stamps may be claimed in either order.
- Files are stored or not; logs, exit codes, the Mac's name and positions in the
  queue are not state.

### JobLifecycle

Three functions of a job: its phase, whether it was asked to stop, how many
times it was given out. One step moves one job along the arrows of
`wire/jobs.go`'s states and ends any others whose time came.
`JobQueue!KeepsLifecycle` instantiates it with what is stored of a job, in the
index or, once it left, in the archive: the refinement of the whole protocol. It needs `MaxHold <= KeepFor` (section 3).

### RemoteRun

`caller[j]` is `remote-submit`; `mac` is `serve` with the steps of `RunJob`
(`claim`, `input`, `admit`, `clone` .. `finish`); `beater` is the goroutine that
uploads the log and beats. They meet at `job`, the Worker's jobs as a request
finds them: already swept, one step a request. How the index gets there is
`JobQueue`'s. Time is ticks left of the lease and of the limit (`Passed`). A
request is applied and answered, applied and not answered
(`ServeClaimUnanswered`), lost, or hangs (`BeaterHangs`), since the client has no
timeout. `ServeDies` may come at any step; a cancel at any time.

### Ledger

`tool[p]` is a process of the tool: its command, and its flush. Both append to
`spool`; a flush takes `flush.lock`, moves the spool to `inflight`, posts batches
(`PostSucceeds`, or `PostFails` before or after the Worker stored it) and removes
what is done. `Killed` may come at any step and `AppendTears` leaves half a line.
`rows` counts the rows each event has in the table; `Stores` is the
insert-or-ignore by id, of the part of a post that D1 took. `OpenOps` is the view of work not ended.

### UTMLaunch and Keeper

`utm` is closed, launching or open; `stuck`, that it answers no start. A
`starter` is a process at one VM. Each thing it asks of UTM is two steps: `Checks`
is `ensureOpen`, under the launch lock, and what follows it (`Starts`, `Looks`,
`ListsName`, `Relists`) reaches UTM as it is by then (`Reaches`): closed, it is
launched by the request; launching, it is spoiled. The lock is not held between
the two, except by a restart. A start that hangs leads to `recoverUTM` once
(`Recovers` to `Relists`), one that fails to the list and another try by the
listed name (`FallsBack`). The owner starts and stops VMs, opens and quits UTM at
any time.

`Keeper` adds a pass: power source, marks, list, starts, hold on sleep. Its own
process is `Warden` in `UTMLaunch`: it asks as the others do and never restarts
UTM.

Assumption on UTM, from the waits of `vm_utm_open.go`: it settles within the
settle time.

### DetachedJobs, Staging

`asker` is a tool call on its way through `Start`: ask for locks, find a running
one, draw an id, spawn, look for what to prune, prune, write the record. Any
number are on their way at once; a call that errs on its way leaves its child
unrecorded (`StartErrs`), and a server that goes forgets them all. A child is
`begun`, `works`, `ended` (a zombie while the server that started it lives) or
`gone`. Pids are not used again.

`Staging` is one binary of one caller: `.part`, the committed file, a prune that
chose it. Each byte is right or wrong, which is all a digest tells.

### GoldenCache, GoldenImage

An image is its set of chunks. A push is a `head` per chunk, uploads of up to
`Par` at a time, the manifest, `latest`; a removal is the manifest, `latest`,
then the chunks of its plan, one request each; a pull is `latest`, chunks through
`.part` files, the bundle, its rename, record and marker. Any of them can die at
any step and be run again. A removal is not run beside a push: the comment on the
function forbids it (section 3, traces).

`GoldenImage` has one maker, one deleter, importers and creators on a Mac whose
machine lock most of their steps hold; an image is registered with UTM before it
is proved. A creator looks without the lock, then clones with it.

### Media, Install, LinuxImage

`Media` has the download of the `.esd` (resumed through a `.part`, as another
release comes out), the mastering under the final name, the verdict kept beside
it, and deletion. An ISO somebody put there is used if it is for ARM64 and passed
over by `iso-create` if not. `Install` adds a driver and a guest: the driver sees
how much the disk holds, or fails to and takes it for empty (`DiskRead`), and
whether the agent answers, never what the guest does (`guest`, `firstLogon`). It
types at a VM only while the disk stands still and reads empty. It can be killed
and run again at any step, over whatever there is, a VM of a failed import
included. A medium that boots by itself can start Setup again over a finished
Windows: Setup wipes the disk (`autounattend.xml:65`), and what was said of that
Windows (`installed`, as a set of the grounds it was said on) no longer is of
this one.

`LinuxImage` distinguishes names from files: a run writes on into the file it
opened after the name has moved. Any number of runs share the one `.part`.

### Verdicts

A check reads its commit, builds, runs the suite in parts, parses what each
printed, empties and refills its target's pictures, and writes the shared status
file. `suite` is vm-check, in two parts with the host's own tests before and after
them, under its VM's lock; or glaze-check, in one part, where nothing keeps two off
one target. A suite is a parent, a child that may be a known failure, and another:
the smallest in which each rule of the parser matters. A binary may die in a test
or between two, and `told` is whether its output ends with the package failing.
`truth` is what happened, kept apart from what the parser makes of it. The tree
is a version of the tracked files and whether there is an untracked one; it is
edited, committed and gone back on.

### Apps

A run dials the address remembered for its VM, or asks for it; stages through the
share or through UTM; moves, launches, waits, gives up. Guests go down and come up
with other addresses. What a file holds is the set of runs whose build it is.
A guest finishes a move or an unpacking within the minute its caller waits, or
never starts it.

### VMRecords

A command is a process (`proc[p]`), and its `step` names the next thing it does.
Each read and each write of a record is a step of its own, so commands interleave
where separate processes do; `copy` is the record a command holds between the two,
`seen` is UTM's table, `list` is what `vm-reap` read at its start. `Acquire` is
not a wait: a held VM lock refuses. `BeginCreate` does wait up to 10 s for
`CapacityLock`; the wait that runs out is `Stops`. `vm-screen` takes no lock
and touches its VM's record as the others do. A process that ends, by return
or by death at any step, lets go of its locks, keeps its records, and turns its
pid in them to `Dead`.

| In the module | In the code |
|---|---|
| `Begins`, `TouchReads`, `TouchWrites` | `runToolFor`, `TouchVM` |
| `TakesCapacity` .. `Admits` | `BeginCreate`, `CheckCapacity`, `pendingCreates` |
| `Refuses`, `TriesAgain` | `beginCreateReaping` |
| `Makes`, `Starts`, `Returns` | `CloneFromGolden`, `bootClone`, `VMCreate` |
| `Finishes`, `Clears` | `finishCreate` |
| `MarkReads`, `MarkWrites`, `MarkReadsBack` | `setKeep`, `SetKeepRunning` |
| `ReapBegins`, `Keeps`, `Condemns`, `Removes`, `FailsToRemove`, `Forgets` | `Reap`, `decideOne`, `carryOut`, `Delete`, `ForgetVM` |

Abstractions:

- Memory is counted in VMs (`Room`). A full disk, a quota or a UTM that cannot be
  asked is a refusal that may come at any time (`Refuses`).
- Of the clock there is one bit per record: whether its lease has run out. A
  lease is hours, so it does not run out between a record's read and its write.
- A `vm-create` of a VM that exists records no creator (`Admits`), and one that is
  done with its VM between another's table and its count is in neither
  (`Missed`); both can happen, and put the VM in `uncounted`.
- Records are decided by `vm-reap` in any order; protected VMs, overcommit, the
  keeper's starts and changes made by hand in UTM's window (but a guest shutting
  down) are left out. `RoomKept` is therefore about what `vm-create` starts.

## 3. What is checked

| Run | Instance | What it shows |
|---|---|---|
| `jobs_time` | 1 job, 2 requests in flight, every period 1 tick, 5 ticks, 2 attempts, `MaxHold` 1 | a job ends within the sum of its deadlines however much its Mac beats; a stored cancel is never answered with a result; files are stored before they are relied on; an end that was shown changes only by a request already under way |
| `jobs_archive` | 2 jobs one after the other, 2 requests, periods of 0 or 1, 3 ticks, `MaxHold` = `KeepFor` = 1, one attempt, room for one job | a job leaves the index only archived, as last stored; `JobLifecycle` is implemented; a job is granted once; limits counted before a store hold after it |
| `remote` | 1 job that is waited for, lease and limit of 1 tick, 2 lines of log | exit 0 only for a program that exited 0; no clone is forgotten; the log is whole; the caller is told; `serve` comes back |
| `ledger` | 2 commands, room for 2 events, posts of 1, 1 round | every event arrives, once, in order; the view of open work is true |
| `mac` | the keeper beside 1 command and the owner, 1 VM, on battery; the keeper and the charger; 2 chunks of 2 bytes | marked VMs run and the Mac sleeps when it may; a staged binary has its digest |
| `images` | 2 Macs, 2 bundles that share a chunk, 1 removal; 2 creators, 2 images; 2 releases, 1 mastering, 1 key; 2 Linux runs, 2 blocks, 2 files; 2 checks, 2 targets, 1 edit; 2 VMs, 2 commands in UTM | the bucket and a pulled bundle are whole; one image, and clones only of a proved one; VMs of whole media; no key reaches Windows; installed means finished; a Linux VM is of the pinned image; verdicts are earned, current and have their own pictures; a restart stops no VM but a rushed one, and UTM goes on answering |
| `vms` | 2 VMs, 2 commands, room for 1; 1 VM, 3 commands, `vm-screen` among them; 2 program runs on 2 VMs with 2 addresses; 2 calls, 2 command lines, 2 children, no ended record kept | the running VMs fit; none is without a record or removed under its user; marks stay; what runs is what was given; a running job keeps its id |
| `jobs_unarchived` | as `jobs_time` | a stored job is not always shown |
| `vm_stale_reap` | 1 VM: create, keep, reap | a VM reported marked can be reaped |
| `image_gone` | 1 creator, 1 image | `vm-create` can report ready with no VM |
| `job_zombie` | 1 call, 1 child | a job that ended can be reported running for ever |
| `pull_stuck` | 1 push, 1 pull | a pull that died at one point fails for ever |

Why the bounds are enough.

*Queue.* Two requests in flight are enough for every race, because a swap is
lost to *some* other store, whoever's; two attempts are enough to lose a swap,
come back with a later clock, and to give up. Periods of one tick make all the
deadlines meet and pass each other within five ticks, longer than the longest
life of a job (upload, queue, timeout and overhead, one each). `jobs_archive` needs a
second job, because only a write for another job retires one; one attempt is
enough there, as a request repeated is a request; with periods of zero a job
that runs is lost after one tick and gone after three. Its `MaxHold` is the
most that is allowed: above `KeepFor` both its action properties fail, since an
attempt could archive a job that another, still holding a clock from before,
brings on. In the code that would take a request that waits a day between its
clock and its swap. The theorems of section 4 carry the queue's results to all
sizes.

*Remote.* One tick of lease is the least in which a beat can come in time or too
late; two lines of log are one that was sent and one that was not. Jobs do not
meet but at `serve`, which takes them one after another, and a second would only
wait; the unanswered claim, after which `serve` takes another job or none, is
there with one.

*Ledger.* Two commands record four events, more than the spool takes, so events
are dropped; posts of one event make batches that are half sent.

*Mac.* The keeper's interest is one VM beside one command, which holds the VM's
lock or UTM's when the keeper wants it; a restart by that command, with the keeper's
request let through before it, needs no third. What two commands do to UTM is in
`images`. In part `keeper` the charger stays out, in part `battery` the command
does: the hold on sleep reads nothing a command writes but the list.

*Images.* Two overlapping bundles are the least in which a removal must spare
chunks; two creators, a maker and a deleter meet at one image. One key typed is
one too many if it is typed at the wrong time (the code types six). Two Linux
runs are what shares a `.part`, and two files are one that moved to the image's
name and the next. Checks come in two parts: in `verdicts` everything can happen
to a suite and nothing to the source, in `sources` the other way round, for
vm-check only; what a part printed and what the tree is meet in no step but the
record. In `sources`, one edit or one untracked file, not both. Two commands in
UTM are one that restarts it and one that was let through before.

*VMs.* Two VMs and one place are the smallest case in which admission can go
wrong (part `room`: two processes that create, delete and reap). Three commands
on one VM are a reader, a writer and one that reaps or deletes (part `marks`: at
most one `vm-screen` and one `vm-reap` at a time). That `RoomKept` is broken
through a record that `vm-screen` put back takes two VMs and three processes: the
theorem covers it, no run does. Two children, with none kept once it ended, are one
that is pruned and one whose id is drawn meanwhile. Processes are interchangeable
(`Alike`), VMs are not where one is `v1`.

Deadlock is checked only in `vm_stale_reap`. The other models stop when their
bounds on clocks, pushes, jobs or edits are used up, which is no deadlock of the
code.

### Disagreements found

Five runs are violated, each by what the code does and against what it says of
itself; the quotes are in `PROJECT.json`.

1. **A job is shown to nobody for a while** (`jobs_unarchived`). `loadIndex` drops
   the jobs that are over for `keepFor`, but only a writer archives them, so until
   the next write a read of such a job answers 404.
2. **A marked VM can be reaped** (`vm_stale_reap`). `Reap` reads all the records
   first and decides by them after it took each lock, without reading again.
3. **Ready with no VM** (`image_gone`). `VMCreate` looks for the golden image and
   then clones it; removed in between, `CloneFromGolden` says "there was none"
   by a result that `VMCreate` drops, and the command reports ready.
4. **A detached job never ends** (`job_zombie`). Nobody waits for the child while
   the MCP server lives, and signal 0 finds a zombie, so its status stays
   running and the same command line is answered with the dead job.
5. **A pull that cannot be resumed** (`pull_stuck`). A `.part` that is complete
   and was not renamed asks for the bytes past its end; the bucket answers 416
   each time.

### Traces

Each of these happens in the code, and most against what a comment of it
promises. The models contain them; the properties except them by a history
variable (section 2), and taking the variable out of the property makes TLC show
the trace, except the first and the last, whose entries say what keeps them out.
The hazards in `PROJECT.json` refer to them.

- *A shown end is taken back* (`worker/jobs.go:171`). A request reads its clock
  before a deadline; the deadline passes and a reader is shown the job expired or
  lost; the request swaps, with its old clock, and the job is live. The comment at
  lines 92-95 and `docs/worker.md:342` promise the opposite: a reader's answer and
  the next writer's are the same. `ShownEndSettles` allows it for the request in
  flight across the deadline and bounds it; with that lag taken out of the
  property, `jobs_time` shows the trace.
- *A restart takes a VM* (`vm_start.go:127`; `rushed`). The comment at 115-126
  says that under the lock nothing reaches UTM between the list and the quit.
  `ensureOpen` lets the lock go before `osascript` sends, so a start that was let
  through before the restart took the lock can arrive there: its VM is started and
  quit with UTM.
- *A request spoils a UTM that launches* (`vm_utm_open.go:94-130`; `overtaken`).
  The same request, arriving after the quit, launches UTM itself or reaches it
  launching, and UTM answers no start from then on.
- *Two creates share one place* (`vm_lease.go:388`; `uncounted`). For a VM that
  exists `BeginCreate` records no creator. Two creates of two stopped VMs, room for
  one: both read UTM's table, both find room, both boot. `lock.go:27-29` says two
  creates cannot both see the same free memory. The same with one create that is
  done between the table and the count of another.
- *A mark lost to `vm-screen`* (`vm_lease.go:154`; `overwritten`). `TouchVM` reads
  a record; `vm-keep-create` marks it and reports; `TouchVM` writes back what it
  read, holding no lock. The comment at 75-78 says the two never interleave. A
  creator's pid is lost the same way, and with it a place.
- *Two jobs, one id* (`internal/job/job.go:146`; `clashed`). A call draws an id
  that no record has, starts its child and prunes, and writes the record only then;
  a second call in the same second draws the same id and replaces the record. The
  comment at line 136 says an id cannot overwrite another. Or the id of an ended
  job that one call is about to remove is drawn by another after that record
  is gone, and the first then removes the record of a job that runs.
- *Two Linux images through one `.part`* (`linux_vm.go:107`; `shared`). One run
  checked the file's digest; another opens the same name, cuts it or adds to it;
  the first renames and bundles it. The comment at 79-83 says the digest is the
  pinned one either way.
- *A VM of a failed import* (`vm.go:423-452`; `halfway`). UTM registers the bundle
  and `registerBundle` fails on its answer, its name, its path or a length. Nothing
  unregisters it, and the next `vm-create -install` uses it (`vm_create.go:254-256`).
- *Keys at a Windows whose disk was not read* (`vm_create.go:902-905`; `blind`). A
  failed stat counts 0, which is "empty", which is when the driver types.
- *Installed, on the agent alone* (`vm_create.go:292-295`). A driver is killed
  before the marker and run again: the agent answers, and the run says "installed".
  The first logon had begun; its commands may have been cut off, and the CD is in.
- *A death the verdict does not hear of* (`results.go:185`; `DiedSilently`). The
  package's own failure is made a result only when no test failed. A binary that
  crashes or is killed after the known failure leaves the rest unrun, and the verdict
  is KNOWN BUGS ONLY. `results.go:87-90` promises a result for it.
- *Unchanged, and never run* (`suite.go:170`; `slipped`, `undone`). `git diff` does
  not see an untracked test file that was there for a build, nor an edit that was
  there and is gone: the binary that ran was built of it, by this check or another
  over the same file, and `vm-status` says the checks are unchanged.
- *Two glaze-checks, one directory* (`shots.go:29-30`, `command.go:139-142`;
  `mixed`). Natively it takes no lock, and with `-windows` it locks its VM while the
  target is "windows" for all (`glaze.go:95-114`). Each copies its pictures after
  the other emptied the directory.
- *Ready with an unproved image* (`ClonesProved`). An image whose maker, importer
  or deleter ended early stays registered, and is cloned.
- *A removal beside a push* (`vm_golden_cache.go:1038`). The push asks for a chunk
  and is told it is there; the removal, by a list from before, deletes it; the
  push writes a manifest that names it. The function's comment forbids the two at
  once, so the model has `RemovalBegins` wait for pushes, and `CacheWhole` fails
  when it does not. `MachineLock` keeps this from one Mac; nothing does from two.

### Fairness

Liveness is stated in four specifications. What is assumed in each is that
something the code does by itself goes on; what people and faults do is never
fair.

| Property | Fair | Because |
|---|---|---|
| `CallerTold`, `ServesAgain` | time; the steps of a command that was started and of `serve`; the end of a hung request; strongly, the goroutine's end | processes are scheduled; the kernel gives a dead connection up; the goroutine is idle between any two of its ticks, and `RunJob` waits for it there |
| `Arrives` | the minute offline; a command's end; that commands are run; a flush's steps; strongly, a post that succeeds | the flush is in the background of every command and once more at its exit; the Worker comes back |
| `KeeperKeeps` | the keeper's start and steps; a launch's end; backoffs; a command goes on or gives up; strongly, that a pass begins, asks, gets its list and its locks, and that its start arrives | pitchfork restarts it; its pass is on a ticker and each one asks again; every wait in a command has a limit, and the owner does not quit UTM in the same instant of every pass |
| `DeathReported` | a child and a call go on | processes are scheduled |
| `PullEnds` | strongly, each step of a pull | the pull is run again when it died, and not every run dies at the same step |

`KeeperKeeps` excepts what the keeper cannot help: it is itself killed again and
again, UTM is closed, or it answers no start (which only a command restarts).
`ClonesProved` excepts an image whose
maker, importer or deleter ended early: a command that fails its proof leaves it
registered.
That a job of the queue ends is stated with no fairness, as `EndsInTime`: past
the sum of its deadlines it is not *shown* live, with no request having to come.

## 4. What is proved

Eight modules prove every invariant, every action property and the refinement that
the passing runs check, for every value of the constants; only the liveness
properties are left to TLC. Each component has one inductive invariant, found with
TLC and then proved step by step: a lemma per action, one step per conjunct the
action can disturb. What a theorem assumes of the constants beyond the assumptions
of its module is in its statement, and here.

### The job queue

`JobQueueProofs`, for every number of jobs, callers and requests in flight, all
periods and all limits:

| Theorem | States |
|---|---|
| `Types` | `Spec => []TypeOK` |
| `OneMacPerJob` | `Spec => []GrantedOnce` |
| `CancelsHold` | `Spec => []CancelHonoured` |
| `BytesBeforeUse` | `Spec => []StoredBeforeUse` |
| `LimitsHold` | `Spec => []WithinLimits` |
| `JobsEndInTime` | `Spec => []EndsInTime` |
| `JobsLeaveArchived` | `Spec => LeavesArchived`, if `MaxHold <= KeepFor` |
| `ShownEndsSettle` | `Spec => ShownEndSettles`, if `MaxHold <= KeepFor` |
| `QueueKeepsLifecycle` | `Spec => KeepsLifecycle`, if `MaxHold <= KeepFor` |

The assumptions are those named in `JobQueue`: `None` is not a job or a caller,
the set of job ids is finite (for the cardinalities of the limits), and times and
limits are natural numbers. The proofs use no relation between the periods. With
`MaxHold` above `KeepFor` the last three are false, as TLC shows (section 3).

The argument. None of the properties is inductive by itself, and `Inv`
(theorem `InvHolds`) strengthens them with facts about requests in flight:

- `SubmitFresh`: a submit in flight has its id to itself. Without it a submit
  could overwrite a job that was claimed.
- `WaitingUngranted`: a job that waits was not given out, and one unknown was
  neither given out nor cancelled. With the compare-and-swap, this is why a claim
  takes a job once: what it loaded is what it replaces.
- `DropsArchived`: what an attempt is about to drop is archived already, so a job
  that left the index is never mistaken for an id that was never used.
- `ArchivedEnded`: an attempt that archived a job and lost its swap left a record
  behind; if it says finished, so does the index, so a job with a stale record
  can not be cancelled later.
- `CancelSticks`: after a cancel the job is cancelled, or runs with the flag up, or
  was ended by time; and no record of it says finished.
- `PromisesStored`: what a request will list or rely on when it stores is stored.
- `RequestsOK`: a request in flight has an operation, and the job it needs.

The proof follows the code. Lemmas say what `Swept`, `Sweep` and each handler
do to one job, and what an arrival leaves alone; then there is a step per action
and conjunct of `Inv`. `WithinLimits` is proved from `TypeOK` with the cardinality
theorems: sweeping only removes live jobs, and only a submit adds one, after
counting the very index it replaces.

Time has an invariant of its own beside `Inv`, in two parts. For `EndsInTime`,
`StampsInTime` says that what waits got there before the deadline of the state it
left, although the request that stored it read its clock earlier, and
`ArchiveFinal` that only ended jobs are archived; then the deadlines add up, and
what is read is swept with the reader's clock. For the other three, `ClocksHeld`
bounds how old the clock of a request in flight is, and `ArchiveSettled` says that
a job both archived and still in the index has been over for `KeepFor`, so that
every clock a request can still hold makes of it exactly what is archived
(`SettledSweep`). This is what fails when a request is held up for longer: it
brings on a job that another has archived.

`QueueKeepsLifecycle` maps a job to its record in the index or, once it left, in
the archive. Requests on their way and what they load map to stutters. A swap is
the one step that moves phases: the job of the request moves along an arrow of
`JobLifecycle`, which the handler's guard gives, and every other job either stays
or is ended by its time.

### VM records

`VMRecordsProofs`, for every finite set of VMs, any number of commands at once
and any room:

| Theorem | States |
|---|---|
| `RoomIsKept` | `Spec => []RoomKept` |
| `VMsAreOwned` | `Spec => []Owned` |
| `MarksStay` | `Spec => []MarkStays` |
| `UsedStay` | `Spec => UsedStays` |
| `VMTypesHold` | `Spec => []TypeOK` |

They assume only what `VMRecords` names: the commands it knows, a finite set of
VMs, and `None` and `Dead` apart from what is named. All commands are there,
`vm-screen`, creates of existing VMs and kills anywhere included.

The argument. `VMInv` (theorem `VMInvHolds`) joins the properties with:

- `Own`: what a command knows of its VM, its copy of the record included, and
  which locks it holds for it. `OthersOwn` shows that nobody else's step changes
  it, because every writer but `vm-screen` holds the lock, and what `vm-screen`
  puts back is in `overwritten`. From this alone follow `MarkStays` (what is
  written back is what is there) and `UsedStays` (whoever is at the VM holds one
  lock, so there is one).
- `Creators`: a pid in a record is of the command that is making that VM now.
- `Counted`: what runs or is being made, and is not excepted, a command that
  decides sees in UTM's table or counts as pending. This closes the gap between
  UTM and the records.
- `Fits`: those together are within the room. An admission keeps it since its
  count covers all of them (`RoomCounted`).

A lemma for steps that write nothing (`QuietKeeps`) and one for steps that write
one VM under its lock (`LockedKeeps`) carry most actions; an admission, a death, a
guest that stops and a lease that passes have proofs of their own.

### The golden cache

`CacheStaysWhole` proves `CacheSpec => []CacheWhole` for any bundles, chunks and
pushing Macs. `CacheInv` adds: a push past its chunks has them in the bucket
(`PushedWhole`); a removal is alone (`Alone`) and takes no chunk that a manifest
names but its own, which it takes first (`TakesUnnamed`); a pull only adds to what
its earlier steps left (`PullOnlyAdds`). It rests on what `GoldenCacheDelete` asks
of its caller, that no push runs beside a removal; between two Macs nothing
ensures that (section 3).

### UTM and the keeper

`QuitsStopOnlyRushed` proves `KeeperSpec => []QuitStopsOnlyRushed`, and
`AnswersGoOn` `KeeperSpec => StaysAnswering`, for any VMs and commands; the only
assumption is that the keeper and the free lock are no command. `UTMInv` (theorem
`UTMInvHolds`) says who holds the launch lock and until when (`Holds`,
`KeeperHolds`); that while one holds it for a restart, whatever others have on its
way was let through before (`Overtakes`); that a launch has somebody who waits for
it with the lock, or nobody of ours (`LaunchWatched`); and that a request which was
not overtaken meets an open UTM (`SendsToOpen`).

### A remote run

`RemoteRunProofs`, for any jobs, lease, limit and log: `RemoteTypesHold`
(`RemoteTypeOK`), `ExitIsEarned` (`ExitTold`), `ClonesAreDeleted` (`NoCloneLeft`)
and `LogIsWhole` (`LogWhole`), each `RemoteSpec => []...`. Caller and Mac never
meet, so `RemoteInv` is about what each may conclude from the Worker's record.
`serve` has one job, which is running or given up until it finishes it
(`OneJobAtATime`), and the goroutine lives only under a run (`BeaterUnderRun`), so
one writer appends to a log. `CodeEarned` follows the exit code from the guest to
the record, `SentIsThere` the log from the Mac to the Worker, and `ReadsToTheEnd`
from there to the caller, who asks for the rest only after it saw the job over.
`CloneInHand` says that each clone is the one of the job in hand, or one that a
delete failed on, and has its record.

### What VMs are made from

`ImagesProofs` has an invariant for each of four components.

- *The golden image* (`OneImageHolds`, `ClonesAreProved`). `MachineHeld`: the
  machine lock is held from a look at UTM to the act on it. `ImagesThere` says
  what UTM has by the image's name at each step of its holder, and `ImagesProved`
  that an image nobody proved is still in somebody's hands or was left by one who
  ended early. Any number of creators, importers and seals.
- *An install* (`InstallsFromWhole`, `NothingTypedAtWindows`,
  `InstalledIsFinished`). `GuestOnDisk` ties the guest, which the driver cannot
  see, to the disk, which it mostly can: Windows runs from a disk that holds it,
  and a driver types at a disk without one or at one it could not read. `MediaHeld`
  and `MediaWhole` carry a medium from the download to the VM's CD; `InstallOrder`
  the end of an install.
- *The Linux image* (`LinuxIsPinned`), for any number of runs through one `.part`.
  `DownloadsApart`: a file that two runs are at is shared. `PartPinned` and
  `ImagePinned`: one that passed its digest, and is not shared, keeps its bytes
  until it is bundled. Any size, any number of files left behind.
- *Verdicts* (`VerdictsAreEarned`, `CurrentRecordsAreTrue`,
  `PicturesAreOfTheirRun`). `ResultsTell` relates what the parser has made of the
  output so far to what happened; `RunsFaithful` says of a binary that ran what it
  was built from since the check read its commit; `RecordsSound` holds of the
  records and of every copy of them that another check has read and may write back;
  `PicturesOwn` is about a directory being filled. Any number of checks, targets,
  edits and returns.

### Programs, detached jobs, staged binaries

`MacProofs`:

- `RunsItsOwn` and `AppTypesHold` (`AppsSpec => []...`), for any
  runs, guests and addresses. `OneRunPerGuest` is the VM's lock, and
  `ReadyToLaunch` says that from the hash to the launch the program at its place
  is the run's own: who was led astray by a remembered address writes a staged
  file, and nothing moves that but its guest's run, which hashes it. The types
  (`AppsTypeOK`) are proved only, and no run checks them.
- `JobsStayAnswerable` (`DetachedSpec => []RunningAnswerable`), for any number of
  calls at once. `IdsClash` says that an id drawn twice, drawn over a record, or
  drawn while it is to be removed has clashed, and that what is to be removed is of
  a job that does not run; each call has a child of its own (`CallsApart`) and each
  record another (`RecordsApart`).
- `StagedIsWhole` (`StagingSpec => []StagedWhole`), for any binary and chunks. It is
  inductive with the types alone: the digest is taken of the very bytes that get
  the name.

### The ledger

`LedgerProofs`, for any commands and any limits of the spool, a post and a flush:
`EventsArriveOnce` (`LedgerSpec => []EachOnceInOrder`) and `OpenWorkTrue`
(`LedgerSpec => []ViewTrue`), whatever events the Worker refuses (`Odd`).

`LedgerInv` sees one queue where the code has three places: what was recorded is
what was sent, then what is in flight, then the spool (`QueueWhole`), so every
position has its event, and every event that is not stored or refused still has a
place. `StoredTo(Sent)` says that what has left both files is in the table. A
flush posts from a copy in memory, and `PostsOn` says that its copy is the end of
the file in flight, and that what it took off the copy is stored; so when a post
fails and the copy is written back, or the process dies and it is not, nothing is
missing. `FlushHeld` makes it the only copy. An event sent again is one that is
there (`SaidOnce`: events are different, since a process records one start and one
end), and a part of a post that D1 took is a part of its beginning, so order is
kept (`InOrder`, proved of any prefix in `PostStores`). `EndSaid` is what
`ViewTrue` rests on: a process past its work has recorded its end or found no room.

### Only model-checked

`CallerTold`, `ServesAgain`, `Arrives` and `KeeperKeeps`: liveness under fairness,
which is out of the prover's reach, with `ENABLED` and induction over recursive
definitions; and what the runs that end in a violation show. Where a theorem has
an assumption its run's configuration satisfies it: in both runs of the queue
`MaxHold` is 1 and `KeepFor` 1.

## 5. Not modelled, and the plan

Not modelled, and why:

- The contents of a guest, of files and of pictures, property lists, and the
  device report: read and printed, no protocol.
- The documentation site and its generator, the GitHub tables, the example
  programs: what the tool makes of a suite's output is in `Verdicts`.
- Job tools over MCP on the Worker: the same handlers under another spelling.
- A Glaze run on the Worker (`worker/api.go`): one request, one object.
- The MCP transport. Of the server, the children it starts are in `DetachedJobs`.
- `keeper-create`, `keeper-delete` and pitchfork's configuration; the seeding
  and first boot of a Linux VM; the order in which one command takes several
  locks, since every one refuses or waits a bounded time.
- Pids used twice; several Macs' clocks, where the ledger orders by them.

Behaviour met while modelling that no property covers:

- The ledger's view of open work takes the oldest rows when there are more than
  its limit (`worker/ledger.go:235`).
- The keeper's installation edits pitchfork's configuration by a read and a
  write without a lock (`cmd/irgo-winvm/keeper.go:341`), and a killed keeper
  leaves its `vms.json` behind.
- A tool call with `-install=false` counts as detached (`DetachedBy`), and
  `Capture` serialises every call that is not.
- Prune chooses before it locks; `app-delete` sweeps by name, and a `.part` that
  the guest never took is never swept.
- Two checks of different VMs build the same test binary (in `Verdicts`: the
  record then names the source only if it was what ran).
- The exit code a run tells: each run's file carries a stamp of its own
  (`app_create.go:144-148`), so it is its own by construction.

Planned:

1. For the exceptions of section 2, what would make each unnecessary: a variant of
   the definition with the lock or the check that is missing, under which the
   property holds without it.
2. A run of `RoomKept` with two VMs and three processes.
3. An abstract specification of the ledger (a table that gets each event once)
   and of a remote run (a job that is told once), refined from `QueueWhole` and
   `RemoteInv`.
4. A second job in `remote`, and two Macs that serve.
