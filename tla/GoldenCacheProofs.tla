-------------------------- MODULE GoldenCacheProofs --------------------------
(***************************************************************************)
(* What the golden image's bucket offers and what a pull has finished is   *)
(* whole, for any number of Macs, bundles, chunks, pushes and removals.    *)
(*                                                                         *)
(* A push counts on chunks it found in the bucket, so the proof needs what *)
(* GoldenCacheDelete asks of its caller: no removal beside a push.         *)
(***************************************************************************)
EXTENDS GoldenCache, TLAPS

Manifests == [image : Images \cup {NoImage}, made : Nat]
PushStates == [pc : {"idle", "chunks", "manifest", "latest"}, id : Manifests,
               todo : SUBSET Chunks, missing : SUBSET Chunks]

\* What each record holds, as far as the steps need it.
CacheTypes ==
  /\ pushes \in Nat
  /\ push \in [Pushers -> PushStates]
  /\ removal = [pc |-> removal.pc, id |-> removal.id, gone |-> removal.gone,
                moves |-> removal.moves, next |-> removal.next]
  /\ pull = [pc |-> pull.pc, id |-> pull.id, got |-> pull.got]
  /\ dir = [parts |-> dir.parts, whole |-> dir.whole, tmp |-> dir.tmp,
            bundle |-> dir.bundle, record |-> dir.record, marker |-> dir.marker]

\* A push that is past its chunks has them all in the bucket.
PushedWhole ==
  \A m \in Pushers : push[m].pc \in {"manifest", "latest"} =>
    ChunksOf[push[m].id.image] \subseteq chunks

\* A removal has the bucket to itself.
Alone == removal.pc # "idle" => \A m \in Pushers : PushAt(m, "idle")

\* What a removal is about to take from the bucket no manifest names, but the
\* one it takes first.
TakesUnnamed ==
  /\ removal.pc \in {"idle", "manifest", "latest", "chunks"}
  /\ removal.pc # "idle" =>
       \A a \in manifests :
         (removal.pc = "manifest" /\ a = removal.id) \/ ChunksOf[a.image] \cap removal.gone = {}

\* A pull fills only a directory that has neither bundle nor marker, and its
\* later steps find what its earlier ones left.
PullOnlyAdds ==
  /\ pull.pc \in {"idle", "manifest", "chunks", "rename", "record", "marker", "clear"}
  /\ pull.pc \in {"chunks", "rename", "record", "marker"} => dir.marker = NoManifest
  /\ pull.pc = "rename" => dir.tmp = pull.id.image
  /\ pull.pc \in {"record", "marker"} => dir.bundle = pull.id.image
  /\ pull.pc = "marker" => dir.record = pull.id.image

CacheInv ==
  /\ CacheTypes /\ ManifestWhole /\ PulledWhole
  /\ PushedWhole /\ Alone /\ TakesUnnamed /\ PullOnlyAdds
-----------------------------------------------------------------------------
(* The steps.                                                              *)

\* The invariant holds of an empty bucket and an empty directory.
LEMMA CacheInitInv == CacheInit => CacheInv
BY GoldenCacheAssumption
   DEF CacheInit, CacheInv, CacheTypes, ManifestWhole, PulledWhole, PushedWhole, Alone,
       TakesUnnamed, PullOnlyAdds, IdlePush, IdleRemoval, IdlePull, EmptyDir, NoManifest,
       PushStates, Manifests, PushAt

Pushes(m) ==
  \/ PushBegins(m) \/ PushAsks(m) \/ PushSends(m) \/ PushVerifies(m)
  \/ PushManifest(m) \/ PushLatest(m) \/ PushDies(m)

Removes == RemovalBegins \/ RemovesManifest \/ MovesLatest \/ RemovesChunk \/ RemovalStops

Pulls == PullAsks \/ PullSteps \/ PullDies \/ PullDeletes

\* A push keeps the types, and adds to the bucket only.
LEMMA PushKeeps ==
  ASSUME CacheInv, NEW m \in Pushers, Pushes(m)
  PROVE  CacheInv'
<1> USE GoldenCacheAssumption DEF Pushing, PushAt, pushFrame, bucket
<1>1. /\ push \in [Pushers -> PushStates] /\ pushes \in Nat
      /\ push[m] \in PushStates
  BY DEF CacheInv, CacheTypes
<1>2. UNCHANGED <<removals, removal, dir, pull>>
  BY DEF Pushes, PushBegins, PushAsks, PushSends, PushVerifies, PushManifest, PushLatest, PushDies
<1>3. IdlePush \in PushStates
  BY DEF IdlePush, PushStates, Manifests, NoManifest
<1>4. chunks \subseteq chunks'
  BY DEF Pushes, PushBegins, PushAsks, PushSends, PushVerifies, PushManifest, PushLatest, PushDies
<1>5. /\ pushes' \in Nat /\ push' \in [Pushers -> PushStates]
      /\ \A k \in Pushers \ {m} : push'[k] = push[k]
      /\ ~PushAt(m, "idle") \/ removal.pc = "idle"
  <2>1. CASE PushBegins(m)
    <3>1. PICK i \in Images : Pushing(m, [pc |-> "chunks", id |-> [image |-> i, made |-> pushes + 1],
                                         todo |-> ChunksOf[i], missing |-> {}])
      BY <2>1 DEF PushBegins
    <3>2. [pc |-> "chunks", id |-> [image |-> i, made |-> pushes + 1],
           todo |-> ChunksOf[i], missing |-> {}] \in PushStates
      BY <1>1 DEF PushStates, Manifests
    <3>3. /\ push' \in [Pushers -> PushStates]
          /\ \A k \in Pushers \ {m} : push'[k] = push[k]
      BY <1>1, <3>1, <3>2, Zenon
    <3> QED BY <1>1, <2>1, <3>3 DEF PushBegins
  <2>2. CASE PushAsks(m)
    <3>1. PICK c \in push[m].todo :
            Pushing(m, [push[m] EXCEPT !.todo = @ \ {c},
                                       !.missing = IF c \in chunks THEN @ ELSE @ \cup {c}])
      BY <2>2 DEF PushAsks
    <3>2. [push[m] EXCEPT !.todo = @ \ {c},
                          !.missing = IF c \in chunks THEN @ ELSE @ \cup {c}] \in PushStates
      BY <1>1 DEF PushStates
    <3>3. /\ push' \in [Pushers -> PushStates]
          /\ \A k \in Pushers \ {m} : push'[k] = push[k]
      BY <1>1, <3>1, <3>2, Zenon
    <3> QED BY <1>1, <2>2, <3>3 DEF PushAsks, PushStates
  <2>3. CASE PushSends(m)
    BY <1>1, <2>3 DEF PushSends, PushStates
  <2>4. CASE PushVerifies(m)
    BY <1>1, <1>3, <2>4 DEF PushVerifies, PushStates
  <2>5. CASE PushManifest(m)
    BY <1>1, <2>5 DEF PushManifest, PushStates
  <2>6. CASE PushLatest(m)
    BY <1>1, <1>3, <2>6 DEF PushLatest
  <2>7. CASE PushDies(m)
    BY <1>1, <1>3, <2>7 DEF PushDies
  <2> QED BY <2>1, <2>2, <2>3, <2>4, <2>5, <2>6, <2>7 DEF Pushes
<1>6. removal.pc = "idle"
  BY <1>5 DEF CacheInv, Alone
<1>7. push'[m].pc \in {"manifest", "latest"} => ChunksOf[push'[m].id.image] \subseteq chunks'
  <2>1. CASE PushBegins(m)
    BY <1>1, <2>1 DEF PushBegins
  <2>2. CASE PushAsks(m)
    <3>1. PICK c \in push[m].todo :
            Pushing(m, [push[m] EXCEPT !.todo = @ \ {c},
                                       !.missing = IF c \in chunks THEN @ ELSE @ \cup {c}])
      BY <2>2 DEF PushAsks
    <3>2. [push[m] EXCEPT !.todo = @ \ {c},
                          !.missing = IF c \in chunks THEN @ ELSE @ \cup {c}] \in PushStates
      BY <1>1 DEF PushStates
    <3>3. /\ push' \in [Pushers -> PushStates]
          /\ \A k \in Pushers \ {m} : push'[k] = push[k]
      BY <1>1, <3>1, <3>2, Zenon
    <3> QED BY <1>1, <2>2, <3>3 DEF PushAsks, PushStates
  <2>3. CASE PushSends(m)
    BY <1>1, <2>3 DEF PushSends, PushStates
  <2>4. CASE PushVerifies(m)
    BY <1>1, <2>4 DEF PushVerifies, PushStates, IdlePush
  <2>5. CASE PushManifest(m)
    BY <1>1, <2>5 DEF PushManifest, PushStates, CacheInv, PushedWhole
  <2>6. CASE PushLatest(m)
    BY <1>1, <2>6 DEF PushLatest, IdlePush
  <2>7. CASE PushDies(m)
    BY <1>1, <2>7 DEF PushDies, IdlePush
  <2> QED BY <2>1, <2>2, <2>3, <2>4, <2>5, <2>6, <2>7 DEF Pushes
<1>8. \A a \in manifests' : a \in manifests \/ ChunksOf[a.image] \subseteq chunks
  <2>1. CASE PushManifest(m)
    BY <2>1 DEF PushManifest, CacheInv, PushedWhole
  <2>2. CASE ~PushManifest(m)
    BY <2>2 DEF Pushes, PushBegins, PushAsks, PushSends, PushVerifies, PushLatest, PushDies
  <2> QED BY <2>1, <2>2
<1>9. CacheTypes'
  BY <1>2, <1>5 DEF CacheInv, CacheTypes
<1>10. ManifestWhole' /\ PushedWhole'
  BY <1>4, <1>5, <1>7, <1>8 DEF CacheInv, ManifestWhole, PushedWhole
<1>11. Alone' /\ TakesUnnamed' /\ PullOnlyAdds' /\ PulledWhole'
  BY <1>2, <1>6 DEF CacheInv, Alone, TakesUnnamed, PullOnlyAdds, PulledWhole
<1> QED BY <1>9, <1>10, <1>11 DEF CacheInv

\* A removal takes from the bucket only what no manifest names.
LEMMA RemovalKeeps ==
  ASSUME CacheInv, Removes
  PROVE  CacheInv'
<1> USE GoldenCacheAssumption DEF removeFrame, bucket, PushAt
<1>1. /\ removal = [pc |-> removal.pc, id |-> removal.id, gone |-> removal.gone,
                    moves |-> removal.moves, next |-> removal.next]
      /\ UNCHANGED <<pushes, push, dir, pull>>
      /\ \A m \in Pushers : push[m].pc = "idle"
  BY DEF CacheInv, CacheTypes, Alone, Removes, RemovalBegins, RemovesManifest, MovesLatest,
         RemovesChunk, RemovalStops
<1>2. PushedWhole' /\ Alone' /\ PullOnlyAdds' /\ PulledWhole'
  BY <1>1 DEF CacheInv, PushedWhole, Alone, PullOnlyAdds, PulledWhole
<1>3. CacheTypes' /\ TakesUnnamed' /\ ManifestWhole'
  <2>1. CASE RemovalBegins
    <3>1. PICK target \in manifests \cup {latest} : removal' = Plan(target)
      BY <2>1 DEF RemovalBegins
    <3>2. \A a \in manifests \ {target} :
            ChunksOf[a.image] \cap (chunks \ UNION {ChunksOf[b.image] : b \in manifests \ {target}}) = {}
      OBVIOUS
    <3>3. /\ removal'.pc = "manifest"
          /\ removal'.gone = chunks \ UNION {ChunksOf[b.image] : b \in manifests \ {target}}
          /\ target \in manifests => removal'.id = target
      BY <3>1 DEF Plan
    <3>4. removal' = [pc |-> removal'.pc, id |-> removal'.id, gone |-> removal'.gone,
                      moves |-> removal'.moves, next |-> removal'.next]
      BY <3>1 DEF Plan
    <3> QED BY <1>1, <2>1, <3>2, <3>3, <3>4
            DEF RemovalBegins, CacheInv, CacheTypes, TakesUnnamed, ManifestWhole
  <2>2. CASE RemovesManifest
    BY <1>1, <2>2 DEF RemovesManifest, CacheInv, CacheTypes, TakesUnnamed, ManifestWhole
  <2>3. CASE MovesLatest
    BY <1>1, <2>3 DEF MovesLatest, CacheInv, CacheTypes, TakesUnnamed, ManifestWhole
  <2>4. CASE RemovesChunk
    BY <1>1, <2>4 DEF RemovesChunk, CacheInv, CacheTypes, TakesUnnamed, ManifestWhole
  <2>5. CASE RemovalStops
    BY <1>1, <2>5 DEF RemovalStops, IdleRemoval, CacheInv, CacheTypes, TakesUnnamed, ManifestWhole
  <2> QED BY <2>1, <2>2, <2>3, <2>4, <2>5 DEF Removes
<1> QED BY <1>2, <1>3 DEF CacheInv

\* A pull finishes a directory for one manifest only, however it was left.
LEMMA PullKeeps ==
  ASSUME CacheInv, Pulls
  PROVE  CacheInv'
<1> USE DEF pullFrame, bucket, PullAt
<1>1. UNCHANGED <<chunks, manifests, latest, pushes, push, removals, removal>>
  BY DEF Pulls, PullSteps, PullAsks, PullResolves, PullReceives, PullNames, PullRefused,
         PullRebuilds, PullRenames, PullRecords, PullMarks, PullClears, PullDies, PullDeletes
<1>2. ManifestWhole' /\ PushedWhole' /\ Alone' /\ TakesUnnamed'
  BY <1>1 DEF CacheInv, ManifestWhole, PushedWhole, Alone, TakesUnnamed, PushAt
<1>3. /\ pull = [pc |-> pull.pc, id |-> pull.id, got |-> pull.got]
      /\ dir = [parts |-> dir.parts, whole |-> dir.whole, tmp |-> dir.tmp,
                bundle |-> dir.bundle, record |-> dir.record, marker |-> dir.marker]
      /\ PullOnlyAdds /\ PulledWhole
  BY DEF CacheInv, CacheTypes
<1> DEFINE Shapes == /\ pull = [pc |-> pull.pc, id |-> pull.id, got |-> pull.got]
                     /\ dir = [parts |-> dir.parts, whole |-> dir.whole, tmp |-> dir.tmp,
                               bundle |-> dir.bundle, record |-> dir.record, marker |-> dir.marker]
<1>4. Shapes' /\ PullOnlyAdds' /\ PulledWhole'
  <2> USE <1>3 DEF PullOnlyAdds, PulledWhole
  <2>1. CASE PullAsks
    BY <2>1 DEF PullAsks, IdlePull
  <2>2. CASE PullResolves
    BY <2>2 DEF PullResolves, IdlePull
  <2>3. CASE PullReceives
    BY <2>3 DEF PullReceives, IdlePull
  <2>4. CASE PullNames
    BY <2>4 DEF PullNames
  <2>5. CASE PullRefused
    BY <2>5 DEF PullRefused, IdlePull
  <2>6. CASE PullRebuilds
    BY <2>6 DEF PullRebuilds
  <2>7. CASE PullRenames
    BY <2>7 DEF PullRenames
  <2>8. CASE PullRecords
    BY <2>8 DEF PullRecords
  <2>9. CASE PullMarks
    BY <2>9 DEF PullMarks
  <2>10. CASE PullClears
    BY <2>10 DEF PullClears, IdlePull
  <2>11. CASE PullDies
    BY <2>11 DEF PullDies, IdlePull
  <2>12. CASE PullDeletes
    BY <2>12 DEF PullDeletes, EmptyDir
  <2> QED BY <2>1, <2>2, <2>3, <2>4, <2>5, <2>6, <2>7, <2>8, <2>9, <2>10, <2>11, <2>12
          DEF Pulls, PullSteps
<1>5. CacheTypes'
  BY <1>1, <1>4 DEF CacheInv, CacheTypes
<1> QED BY <1>2, <1>4, <1>5 DEF CacheInv
-----------------------------------------------------------------------------
(* The theorems.                                                           *)

\* The strengthening holds in every state of every behaviour.
THEOREM CacheInvHolds == CacheSpec => []CacheInv
<1>1. CacheInv /\ [CacheNext]_cacheVars => CacheInv'
  <2> SUFFICES ASSUME CacheInv, [CacheNext]_cacheVars PROVE CacheInv'
    OBVIOUS
  <2>1. CASE \E m \in Pushers : Pushes(m)
    BY <2>1, PushKeeps
  <2>2. CASE Removes
    BY <2>2, RemovalKeeps
  <2>3. CASE Pulls
    BY <2>3, PullKeeps
  <2>4. CASE UNCHANGED cacheVars
    BY <2>4 DEF cacheVars, CacheInv, CacheTypes, ManifestWhole, PulledWhole, PushedWhole, Alone,
                TakesUnnamed, PullOnlyAdds, PushAt
  <2> QED BY <2>1, <2>2, <2>3, <2>4 DEF CacheNext, Pushes, Removes, Pulls
<1> QED BY <1>1, CacheInitInv, PTL DEF CacheSpec

\* What the bucket offers, and what a Mac takes for a finished pull, is whole,
\* whichever push, removal or pull died half way (vm_golden_cache.go).
THEOREM CacheStaysWhole == CacheSpec => []CacheWhole
<1>1. CacheInv => CacheWhole
  BY DEF CacheInv, CacheWhole
<1> QED BY <1>1, CacheInvHolds, PTL
=============================================================================
