----------------------------- MODULE GoldenCache -----------------------------
(***************************************************************************)
(* The golden image's private bucket (internal/utmvm/vm_golden_cache.go,   *)
(* vm_golden_r2.go, vm_golden_worker.go, worker/golden.go).                *)
(*                                                                         *)
(* vm-golden-push cuts a bundle into chunks named by their digests, sends  *)
(* what the bucket lacks, then a manifest that names them, then latest.    *)
(* vm-golden-pull rebuilds a bundle from a manifest, and goes on where an  *)
(* earlier pull stopped.  vm-golden-push -delete removes a manifest, moves *)
(* latest and collects the chunks no other manifest names.  Each is many   *)
(* requests, any of which may be the last: a command can die anywhere.     *)
(***************************************************************************)
EXTENDS Integers, FiniteSets

CONSTANTS
  Pushers,     \* the Macs that push
  Images,      \* the bundles they push
  Chunks,      \* regions that are not all zeros
  ChunksOf,    \* the chunks of each image
  NoImage,
  MaxPushes,   \* pushes begun: a bound of the model
  MaxRemovals, \* removals begun: a bound of the model
  Par          \* -parallel, the regions on their way at once

ASSUME GoldenCacheAssumption ==
  /\ ChunksOf \in [Images -> SUBSET Chunks]
  /\ NoImage \notin Images
  /\ {MaxPushes, MaxRemovals} \subseteq Nat /\ Par \in Nat \ {0}

VARIABLES
  chunks,     \* the chunks in the bucket
  manifests,  \* the manifests in the bucket
  latest,     \* golden/latest
  pushes,     \* pushes begun
  push,       \* each Mac's push
  removals,   \* removals begun
  removal,    \* the one removal there is
  dir,        \* the pull directory
  pull        \* the pull at work in it

cacheVars == <<chunks, manifests, latest, pushes, push, removals, removal, dir, pull>>
bucket    == <<chunks, manifests, latest>>

\* A manifest is named by its digest, which its time of making is part of.
NoManifest == [image |-> NoImage, made |-> 0]

IdlePush    == [pc |-> "idle", id |-> NoManifest, todo |-> {}, missing |-> {}]
IdleRemoval == [pc |-> "idle", id |-> NoManifest, gone |-> {}, moves |-> FALSE,
                next |-> NoManifest]
IdlePull    == [pc |-> "idle", id |-> NoManifest, got |-> {}]
EmptyDir    == [parts |-> {}, whole |-> {}, tmp |-> NoImage, bundle |-> NoImage,
                record |-> NoImage, marker |-> NoManifest]

CacheInit ==
  /\ chunks = {} /\ manifests = {} /\ latest = NoManifest
  /\ pushes = 0 /\ push = [m \in Pushers |-> IdlePush]
  /\ removals = 0 /\ removal = IdleRemoval
  /\ dir = EmptyDir /\ pull = IdlePull
-----------------------------------------------------------------------------
(* Pushing.                                                                *)

Pushing(m, p) == push' = [push EXCEPT ![m] = p]
PushAt(m, pc) == push[m].pc = pc

pushFrame == <<removals, removal, dir, pull>>

\* Not beside a removal: GoldenCacheDelete says so, and nothing enforces it.
PushBegins(m) ==
  /\ PushAt(m, "idle") /\ removal.pc = "idle" /\ pushes < MaxPushes
  /\ pushes' = pushes + 1
  /\ \E i \in Images :
       Pushing(m, [pc |-> "chunks", id |-> [image |-> i, made |-> pushes + 1],
                   todo |-> ChunksOf[i], missing |-> {}])
  /\ UNCHANGED <<bucket, pushFrame>>

\* forEach: as many regions as Par are on their way, and the next one waits.
Slot(m) == Cardinality(push[m].missing) < Par

\* ensure: a chunk that is there is not sent again.
PushAsks(m) ==
  /\ PushAt(m, "chunks") /\ Slot(m)
  /\ \E c \in push[m].todo :
       Pushing(m, [push[m] EXCEPT !.todo = @ \ {c},
                                  !.missing = IF c \in chunks THEN @ ELSE @ \cup {c}])
  /\ UNCHANGED <<bucket, pushes, pushFrame>>

PushSends(m) ==
  /\ PushAt(m, "chunks")
  /\ \E c \in push[m].missing :
       chunks' = chunks \cup {c} /\ Pushing(m, [push[m] EXCEPT !.missing = @ \ {c}])
  /\ UNCHANGED <<manifests, latest, pushes, pushFrame>>

\* Every chunk is looked for again before a manifest names it.
PushVerifies(m) ==
  /\ PushAt(m, "chunks") /\ push[m].todo = {} /\ push[m].missing = {}
  /\ Pushing(m, IF ChunksOf[push[m].id.image] \subseteq chunks
                THEN [push[m] EXCEPT !.pc = "manifest"] ELSE IdlePush)
  /\ UNCHANGED <<bucket, pushes, pushFrame>>

\* goldenPut: the object is there whole, under its name, or not at all.
PushManifest(m) ==
  /\ PushAt(m, "manifest")
  /\ manifests' = manifests \cup {push[m].id}
  /\ Pushing(m, [push[m] EXCEPT !.pc = "latest"])
  /\ UNCHANGED <<chunks, latest, pushes, pushFrame>>

\* Read back first, and left alone if it is not what was written.
PushLatest(m) ==
  /\ PushAt(m, "latest")
  /\ latest' = IF push[m].id \in manifests THEN push[m].id ELSE latest
  /\ Pushing(m, IdlePush)
  /\ UNCHANGED <<chunks, manifests, pushes, pushFrame>>

PushDies(m) ==
  /\ ~PushAt(m, "idle") /\ Pushing(m, IdlePush)
  /\ UNCHANGED <<bucket, pushes, pushFrame>>
-----------------------------------------------------------------------------
(* Removing a manifest.                                                    *)

removeFrame == <<pushes, push, dir, pull>>

Newest(S) == IF S = {} THEN NoManifest ELSE CHOOSE a \in S : \A b \in S : b.made <= a.made

\* Mutant of Plan: chunks the target names are taken for its own.
PlanOfOne(target) ==
  LET there == target \in manifests
  IN  [pc    |-> "manifest",
       id    |-> IF there THEN target ELSE NoManifest,
       gone  |-> IF there THEN ChunksOf[target.image] ELSE {},
       moves |-> there /\ latest \in {target, NoManifest},
       next  |-> Newest(manifests \ {target})]

\* InspectGoldenCacheRemoval: nothing changes.  The target is what was asked
\* for, or what latest names; it may be gone.
Plan(target) ==
  LET there == target \in manifests
      rest  == manifests \ {target}
  IN  [pc    |-> "manifest",
       id    |-> IF there THEN target ELSE NoManifest,
       gone  |-> chunks \ UNION {ChunksOf[b.image] : b \in rest},
       moves |-> there /\ latest \in {target, NoManifest},
       next  |-> IF ~there /\ latest # NoManifest THEN latest ELSE Newest(rest)]

RemovalBegins ==
  /\ removal.pc = "idle" /\ removals < MaxRemovals /\ \A m \in Pushers : PushAt(m, "idle")
  /\ removals' = removals + 1
  /\ \E target \in manifests \cup {latest} : removal' = Plan(target)
  /\ UNCHANGED <<bucket, removeFrame>>

RemovesManifest ==
  /\ removal.pc = "manifest"
  /\ manifests' = manifests \ {removal.id}
  /\ removal' = [removal EXCEPT !.pc = "latest"]
  /\ UNCHANGED <<chunks, latest, removals, removeFrame>>

MovesLatest ==
  /\ removal.pc = "latest"
  /\ latest' = IF removal.moves THEN removal.next ELSE latest
  /\ removal' = [removal EXCEPT !.pc = "chunks"]
  /\ UNCHANGED <<chunks, manifests, removals, removeFrame>>

RemovesChunk ==
  /\ removal.pc = "chunks"
  /\ \E c \in removal.gone :
       chunks' = chunks \ {c} /\ removal' = [removal EXCEPT !.gone = @ \ {c}]
  /\ UNCHANGED <<manifests, latest, removals, removeFrame>>

\* The end of it, or its death.
RemovalStops ==
  /\ removal.pc # "idle" /\ removal' = IdleRemoval
  /\ UNCHANGED <<bucket, removals, removeFrame>>
-----------------------------------------------------------------------------
(* Pulling.                                                                *)

pullFrame == <<bucket, pushes, push, removals, removal>>
PullAt(pc) == pull.pc = pc

\* latest, or the manifest asked for.
PullAsks ==
  /\ PullAt("idle")
  /\ \E id \in {latest} \cup manifests :
       /\ id # NoManifest
       /\ pull' = [IdlePull EXCEPT !.pc = "manifest", !.id = id]
  /\ UNCHANGED <<dir, pullFrame>>

\* It may have gone since; a pull into a directory that is finished, or holds
\* another, or a bundle that no marker vouches for, does nothing.
PullResolves ==
  /\ PullAt("manifest")
  /\ pull' = IF pull.id \in manifests /\ dir.marker = NoManifest /\ dir.bundle = NoImage
             THEN [pull EXCEPT !.pc = "chunks"] ELSE IdlePull
  /\ UNCHANGED <<dir, pullFrame>>

Lacked == ChunksOf[pull.id.image] \ dir.parts

\* isoDownload of a chunk, cut off or not before: its .part is whole,
PullReceives ==
  /\ PullAt("chunks")
  /\ \E c \in Lacked \ dir.whole :
       IF c \in chunks
       THEN /\ dir' = [dir EXCEPT !.whole = @ \cup {c}]
            /\ pull' = [pull EXCEPT !.got = @ \cup {c}]
       ELSE pull' = IdlePull /\ UNCHANGED dir
  /\ UNCHANGED pullFrame

\* and is renamed into .parts once its digest matched.
PullNames ==
  /\ PullAt("chunks")
  /\ \E c \in Lacked \cap pull.got :
       dir' = [dir EXCEPT !.parts = @ \cup {c}, !.whole = @ \ {c}]
  /\ UNCHANGED <<pull, pullFrame>>

\* Asked for what follows the .part of a pull that died in between, the bucket
\* answers 416 (parseRange), which ends the pull.
PullRefused ==
  /\ PullAt("chunks") /\ Lacked \cap (dir.whole \ pull.got) # {}
  /\ pull' = IdlePull
  /\ UNCHANGED <<dir, pullFrame>>

\* Every file is rebuilt in a fresh directory and read back.
PullRebuilds ==
  /\ PullAt("chunks") /\ ChunksOf[pull.id.image] \subseteq dir.parts
  /\ dir' = [dir EXCEPT !.tmp = pull.id.image]
  /\ pull' = [pull EXCEPT !.pc = "rename"]
  /\ UNCHANGED pullFrame

PullRenames ==
  /\ PullAt("rename")
  /\ dir' = [dir EXCEPT !.bundle = dir.tmp, !.tmp = NoImage]
  /\ pull' = [pull EXCEPT !.pc = "record"]
  /\ UNCHANGED pullFrame

PullRecords ==
  /\ PullAt("record")
  /\ dir' = [dir EXCEPT !.record = pull.id.image]
  /\ pull' = [pull EXCEPT !.pc = "marker"]
  /\ UNCHANGED pullFrame

\* The manifest beside the bundle says that the pull is finished.
PullMarks ==
  /\ PullAt("marker")
  /\ dir' = [dir EXCEPT !.marker = pull.id]
  /\ pull' = [pull EXCEPT !.pc = "clear"]
  /\ UNCHANGED pullFrame

PullClears ==
  /\ PullAt("clear")
  /\ dir' = [dir EXCEPT !.parts = {}, !.whole = {}] /\ pull' = IdlePull
  /\ UNCHANGED pullFrame

PullDies == ~PullAt("idle") /\ pull' = IdlePull /\ UNCHANGED <<dir, pullFrame>>

\* vm-golden-pull -delete -force.  The machine lock keeps it from a pull.
PullDeletes ==
  /\ PullAt("idle") /\ dir # EmptyDir
  /\ dir' = EmptyDir
  /\ UNCHANGED <<pull, pullFrame>>

PullSteps ==
  \/ PullResolves \/ PullReceives \/ PullNames \/ PullRefused \/ PullRebuilds \/ PullRenames
  \/ PullRecords \/ PullMarks \/ PullClears

CacheNext ==
  \/ \E m \in Pushers :
       \/ PushBegins(m) \/ PushAsks(m) \/ PushSends(m) \/ PushVerifies(m)
       \/ PushManifest(m) \/ PushLatest(m) \/ PushDies(m)
  \/ RemovalBegins \/ RemovesManifest \/ MovesLatest \/ RemovesChunk \/ RemovalStops
  \/ PullAsks \/ PullSteps \/ PullDies \/ PullDeletes

CacheSpec == CacheInit /\ [][CacheNext]_cacheVars

\* A pull that died is run again, and not every run dies at the same step.
PullSpec ==
  /\ CacheSpec
  /\ SF_cacheVars(PullAsks) /\ SF_cacheVars(PullResolves) /\ SF_cacheVars(PullReceives)
  /\ SF_cacheVars(PullNames) /\ SF_cacheVars(PullRefused) /\ SF_cacheVars(PullRebuilds)
  /\ SF_cacheVars(PullRenames)
-----------------------------------------------------------------------------
(* Properties.                                                             *)

\* A manifest in the bucket names only chunks that are there, whatever pushes
\* run beside each other and whichever push or removal dies half way.
ManifestWhole == \A a \in manifests : ChunksOf[a.image] \subseteq chunks

\* A directory with a marker holds the bundle and the record of that manifest
\* and no other's, however many pulls were cut short in it before.
PulledWhole ==
  dir.marker # NoManifest => dir.bundle = dir.marker.image /\ dir.record = dir.marker.image

\* Whatever the bucket offers, or a Mac takes for a finished pull, is whole.
CacheWhole == ManifestWhole /\ PulledWhole

\* What GoldenPull says of pulling again: the chunks that arrived are kept, one
\* cut off resumes, and so a pull that was begun, and run again whenever it
\* died, has the bundle in the end, or its owner has deleted what it had.
PullEnds == dir # EmptyDir ~> (dir.bundle # NoImage \/ dir = EmptyDir)

=============================================================================
