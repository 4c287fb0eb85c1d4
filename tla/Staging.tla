------------------------------- MODULE Staging ------------------------------
(***************************************************************************)
(* Binaries staged on the Mac for app-create                               *)
(* (internal/utmvm/app_upload.go) and their removal by app-delete and      *)
(* prune (prune.go).  One caller's folder and one digest: chunks arrive in *)
(* order into <digest>.exe.part, which is renamed once its SHA-256 is the  *)
(* one named.  Each call holds the caller's stage lock throughout, so it   *)
(* is one step here, or stops half way; prune chooses before it locks.     *)
(***************************************************************************)
EXTENDS Naturals, Sequences

CONSTANTS
  ChunkSize, Chunks,  \* bytes in a chunk, chunks in the binary
  StageAge, MaxAge    \* when a binary is pruned, and a bound on ages

VARIABLES
  partFile,  \* the .part: whether it is there, and per byte whether it is the binary's
  stagedExe, \* <digest>.exe: its bytes, or none
  age,       \* since it was committed, which is its modification time
  plan       \* a prune has chosen to remove it

stagingVars == <<partFile, stagedExe, age, plan>>

NoPart   == [there |-> FALSE, bytes |-> <<>>]
NoExe    == <<>>
Total    == ChunkSize * Chunks
Whole    == [i \in 1..Total |-> TRUE]
Chunk(b) == [i \in 1..ChunkSize |-> b]
Age(n)   == IF n < MaxAge THEN n + 1 ELSE n

StagingInit == partFile = NoPart /\ stagedExe = NoExe /\ age = 0 /\ plan = FALSE

\* Mutant of Committed: its length is what is checked.
CommittedUnread(bytes) ==
  /\ partFile' = NoPart /\ stagedExe' = bytes /\ age' = 0

\* All the bytes are there: renamed if they have the digest, removed if not.
Committed(bytes) ==
  /\ partFile' = NoPart
  /\ IF bytes = Whole THEN stagedExe' = bytes /\ age' = 0
     ELSE UNCHANGED <<stagedExe, age>>

Kept(bytes) ==
  partFile' = [there |-> TRUE, bytes |-> bytes] /\ UNCHANGED <<stagedExe, age>>

\* What one chunk makes of the bytes staged so far: a repeat must agree with
\* them, a new one follows on, and any other is refused.
Extended(bytes, offset, data) ==
  IF offset = Len(bytes) THEN {bytes \o data}
  ELSE IF offset + ChunkSize <= Len(bytes) /\ SubSeq(bytes, offset + 1, offset + ChunkSize) = data
       THEN {bytes} ELSE {}

\* Upload, of the chunk k, from a client that has the binary (good) or has
\* something else.  What is staged already is found, and not touched.
Uploads(k, good) ==
  LET offset == k * ChunkSize
      next   == Extended(partFile.bytes, offset, Chunk(good))
  IN  /\ IF stagedExe # NoExe
         THEN UNCHANGED <<partFile, stagedExe, age>>
         ELSE IF next = {} THEN Kept(partFile.bytes)
         ELSE \E b \in next : IF Len(b) = Total THEN Committed(b) ELSE Kept(b)
      /\ UNCHANGED plan

\* It dies having written some of the chunk, or all of it and not committed.
UploadDies(k, good) ==
  /\ stagedExe = NoExe /\ k * ChunkSize = Len(partFile.bytes)
  /\ \E n \in 0..ChunkSize : Kept(partFile.bytes \o SubSeq(Chunk(good), 1, n))
  /\ UNCHANGED plan

\* ClearStage, app-delete.
Clears ==
  /\ partFile' = NoPart /\ stagedExe' = NoExe
  /\ UNCHANGED <<age, plan>>

\* PrunePlan, of the modification time, with no lock; then each item under its
\* lock, as it was chosen.
PrunePlans ==
  /\ ~plan /\ stagedExe # NoExe /\ age > StageAge /\ plan' = TRUE
  /\ UNCHANGED <<partFile, stagedExe, age>>
PruneRemoves ==
  /\ plan /\ plan' = FALSE /\ stagedExe' = NoExe
  /\ UNCHANGED <<partFile, age>>

DayPasses ==
  /\ age' = Age(age)
  /\ UNCHANGED <<partFile, stagedExe, plan>>

StagingNext ==
  \/ \E k \in 0..(Chunks - 1), good \in BOOLEAN : Uploads(k, good) \/ UploadDies(k, good)
  \/ Clears \/ PrunePlans \/ PruneRemoves \/ DayPasses

StagingSpec == StagingInit /\ [][StagingNext]_stagingVars
-----------------------------------------------------------------------------
(* Properties.                                                             *)

\* What app-create is given under a digest has that digest, whatever uploads
\* were torn, repeated or disagreed.
StagedWhole == stagedExe \in {NoExe, Whole}
=============================================================================
