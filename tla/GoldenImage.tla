----------------------------- MODULE GoldenImage ----------------------------
(***************************************************************************)
(* The golden image on a Mac (internal/utmvm/vm_golden.go,                 *)
(* vm_golden_import.go, VMCreate in vm_create.go, cmd golden.go).          *)
(*                                                                         *)
(* vm-golden-create seals a VM, clones it as the image, proves the image   *)
(* by a clone of it, and records it, all under the machine lock.           *)
(* vm-golden-delete undoes that, under the same lock.  vm-create looks for *)
(* the image, or pulls one from the cache, and clones it, holding the      *)
(* machine lock for the pull and for the clone but not for the looks       *)
(* between.  Locks are flocks: taken at once or refused, and gone with     *)
(* their process.  One system, Windows; Linux has an image of its own.     *)
(***************************************************************************)
EXTENDS Integers, FiniteSets

CONSTANTS
  Creators,    \* runs of vm-create -install, each for a VM of its own
  SealSteps,   \* steps of the seal script
  MaxImages    \* images ever made: a bound of the model

ASSUME GoldenImageAssumption ==
  /\ IsFiniteSet(Creators) /\ {"free", "maker", "deleter"} \cap Creators = {}
  /\ {SealSteps, MaxImages} \subseteq Nat

VARIABLES
  machine,     \* who holds the machine lock
  images,      \* the VMs UTM has by the image's name
  lastImage,   \* ids of images used so far
  imageState,  \* "stopped" or "started": someone starts it in UTM
  imageRecord, \* which image golden.json describes; 0, there is none
  source,      \* the VM to seal: running, and how much of it is sealed
  proof,       \* the verification clone: the image it is of, or 0
  maker,       \* vm-golden-create: its step, its image, seal steps done
  deleter,     \* vm-golden-delete's step
  creator,     \* each vm-create: its step, what it told, its VM's image
  proved,      \* history: images whose clone booted and was let through
  failed,      \* history: images whose clone did not boot or was refused
  cut          \* history: images whose maker, importer or deleter ended early

imageVars == <<machine, images, lastImage, imageState, imageRecord, source, proof,
               maker, deleter, creator, proved, failed, cut>>

NewMaker == [pc |-> "idle", id |-> 0, seals |-> 0]
NewCreator == [pc |-> "look", told |-> "none", vm |-> 0]

ImageInit ==
  /\ machine = "free" /\ images = {} /\ lastImage = 0 /\ imageState = "stopped"
  /\ imageRecord = 0 /\ source = [up |-> FALSE, sealed |-> 0] /\ proof = 0
  /\ maker = NewMaker /\ deleter = "idle"
  /\ creator = [c \in Creators |-> NewCreator]
  /\ proved = {} /\ failed = {} /\ cut = {}

\* UTM registers an image: it is a new one, stopped.
Registers ==
  /\ lastImage < MaxImages
  /\ lastImage' = lastImage + 1 /\ images' = images \cup {lastImage + 1}
  /\ imageState' = "stopped"

imageFrame == <<images, lastImage, imageState>>
histories  == <<proved, failed, cut>>
-----------------------------------------------------------------------------
(* vm-golden-create.                                                       *)

MakerAt(pc)  == maker.pc = pc
MakerTo(pc)  == maker' = [maker EXCEPT !.pc = pc]
MakerOver    == maker' = NewMaker /\ machine' = "free"
Spoils       == cut' = cut \cup (images \cap {maker.id})
makerFrame   == <<deleter, creator>>
sealFrame    == <<imageFrame, imageRecord, proof, makerFrame, histories>>

\* An image that is there already is reported, and not made again.
MakerBegins ==
  /\ MakerAt("idle") /\ machine = "free" /\ images = {}
  /\ machine' = "maker" /\ MakerTo("boot")
  /\ UNCHANGED <<source, sealFrame>>

MakerBoots ==
  /\ MakerAt("boot")
  /\ \/ source' = [up |-> TRUE, sealed |-> 0] /\ MakerTo("seal") /\ UNCHANGED machine
     \/ source' \in {source, [up |-> TRUE, sealed |-> 0]} /\ MakerOver
  /\ UNCHANGED sealFrame

\* One step of the seal script, in the guest; the first that fails ends it.
MakerSeals ==
  /\ MakerAt("seal") /\ maker.seals < SealSteps
  /\ \/ /\ source' = [source EXCEPT !.sealed = @ + 1]
        /\ maker' = [maker EXCEPT !.seals = @ + 1] /\ UNCHANGED machine
     \/ MakerOver /\ UNCHANGED source
  /\ UNCHANGED sealFrame

\* From inside, and waited for; past the wait the guest may still stop.
MakerShutsDown ==
  /\ MakerAt("seal") /\ maker.seals = SealSteps
  /\ \/ source' = [source EXCEPT !.up = FALSE] /\ MakerTo("clone") /\ UNCHANGED machine
     \/ MakerOver /\ source' \in {source, [source EXCEPT !.up = FALSE]}
  /\ UNCHANGED sealFrame

\* cloneVM: UTM makes the image, or fails, or makes it and a check of it
\* fails, which leaves it registered.
MakerClones ==
  /\ MakerAt("clone")
  /\ \/ /\ Registers
        /\ \/ /\ maker' = [maker EXCEPT !.pc = "leftover", !.id = lastImage + 1]
              /\ UNCHANGED <<machine, cut>>
           \/ MakerOver /\ cut' = cut \cup {lastImage + 1}
     \/ MakerOver /\ UNCHANGED <<imageFrame, cut>>
  /\ UNCHANGED <<imageRecord, source, proof, makerFrame, proved, failed>>

\* A verification clone an earlier run left would refuse the next its name.
MakerClearsLeftover ==
  /\ MakerAt("leftover")
  /\ \/ proof' = 0 /\ MakerTo("prove") /\ UNCHANGED <<machine, cut>>
     \/ proof # 0 /\ MakerOver /\ Spoils /\ UNCHANGED proof
  /\ UNCHANGED <<imageFrame, imageRecord, source, makerFrame, proved, failed>>

\* cloneAndBoot.  UTM will not clone an image that runs, and that, or a boot
\* that fails, leaves the image as it is.
MakerProves ==
  /\ MakerAt("prove")
  /\ \/ /\ imageState = "stopped" /\ proof' = maker.id
        /\ MakerTo("suite") /\ UNCHANGED <<machine, cut, failed>>
     \/ /\ proof' \in {0, maker.id} /\ MakerOver /\ Spoils
        /\ failed' = IF proof' = 0 THEN failed ELSE failed \cup {maker.id}
  /\ UNCHANGED <<imageFrame, imageRecord, source, makerFrame, proved>>

\* verifyGolden: passed, or not run by choice; or refused.
MakerVerifies ==
  /\ MakerAt("suite")
  /\ \/ MakerTo("delete") /\ proved' = proved \cup {maker.id} /\ UNCHANGED failed
     \/ MakerTo("undo") /\ failed' = failed \cup {maker.id} /\ UNCHANGED proved
  /\ UNCHANGED <<machine, imageFrame, imageRecord, source, proof, makerFrame, cut>>

\* A refused image is unregistered, and then its record removed.
MakerUndoes ==
  /\ MakerAt("undo")
  /\ \/ images' = images \ {maker.id} /\ MakerTo("unrecord") /\ UNCHANGED <<machine, cut>>
     \/ MakerOver /\ Spoils /\ UNCHANGED images
  /\ UNCHANGED <<lastImage, imageState, imageRecord, source, proof, makerFrame, proved, failed>>
MakerUndoesRecord ==
  /\ MakerAt("unrecord")
  /\ imageRecord' \in {0, imageRecord} /\ MakerOver  \* it may not be removable
  /\ UNCHANGED <<imageFrame, source, proof, makerFrame, histories>>

MakerDeletesProof ==
  /\ MakerAt("delete")
  /\ \/ proof' = 0 /\ MakerTo("record") /\ UNCHANGED <<machine, cut>>
     \/ MakerOver /\ Spoils /\ UNCHANGED proof
  /\ UNCHANGED <<imageFrame, imageRecord, source, makerFrame, proved, failed>>

MakerRecords ==
  /\ MakerAt("record")
  /\ \/ imageRecord' = maker.id /\ UNCHANGED cut
     \/ Spoils /\ UNCHANGED imageRecord
  /\ MakerOver
  /\ UNCHANGED <<imageFrame, source, proof, makerFrame, proved, failed>>

MakerDies ==
  /\ ~MakerAt("idle") /\ MakerOver /\ Spoils
  /\ UNCHANGED <<imageFrame, imageRecord, source, proof, makerFrame, proved, failed>>

MakerSteps ==
  \/ MakerBegins \/ MakerBoots \/ MakerSeals \/ MakerShutsDown \/ MakerClones
  \/ MakerClearsLeftover \/ MakerProves \/ MakerVerifies \/ MakerUndoes
  \/ MakerUndoesRecord \/ MakerDeletesProof \/ MakerRecords \/ MakerDies
-----------------------------------------------------------------------------
(* vm-golden-delete -force.                                                *)

deleteFrame == <<lastImage, imageState, source, proof, maker, creator, proved, failed>>

DeleterBegins ==
  /\ deleter = "idle" /\ machine = "free"
  /\ machine' = "deleter" /\ deleter' = "image"
  /\ UNCHANGED <<images, imageRecord, cut, deleteFrame>>

DeleterRemoves ==
  /\ deleter = "image"
  /\ images' = {} /\ deleter' = "record"
  /\ UNCHANGED <<machine, imageRecord, cut, deleteFrame>>

\* The record goes whether or not the image was there.
DeleterForgets ==
  /\ deleter = "record"
  /\ imageRecord' = 0 /\ deleter' = "idle" /\ machine' = "free"
  /\ UNCHANGED <<images, cut, deleteFrame>>

\* It fails to, or dies: a record may be left of an image that is gone, or be
\* taken for the next one's if that is never recorded itself.
DeleterDies ==
  /\ deleter # "idle"
  /\ deleter' = "idle" /\ machine' = "free"
  /\ UNCHANGED <<images, imageRecord, cut, deleteFrame>>
-----------------------------------------------------------------------------
(* vm-create.                                                              *)

CreatorAt(c, pc) == creator[c].pc = pc
CreatorTo(c, pc) == creator' = [creator EXCEPT ![c].pc = pc]
Tells(c, what)   == creator' = [creator EXCEPT ![c].pc = "over", ![c].told = what]
FreedBy(c)       == machine' = IF machine = c THEN "free" ELSE machine
createFrame      == <<source, proof, maker, deleter, proved, failed>>

\* VMCreate: an image, the cache's, or an install from the media.
CreatorLooks(c) ==
  /\ CreatorAt(c, "look")
  /\ IF images # {} THEN CreatorTo(c, "find") ELSE CreatorTo(c, "pull") \/ Tells(c, "installs")
  /\ UNCHANGED <<machine, imageFrame, imageRecord, cut, createFrame>>

\* CloneFromGolden looks for itself.  When there is none it says so to its
\* caller, and the caller drops that and reports the VM ready.
CreatorFinds(c) ==
  /\ CreatorAt(c, "find")
  /\ IF images = {} THEN Tells(c, "ready")
     ELSE IF imageState = "started" THEN Tells(c, "error")
     ELSE CreatorTo(c, "lock")
  /\ UNCHANGED <<machine, imageFrame, imageRecord, cut, createFrame>>

\* Mutant of CreatorLocks: the clone is made under the VM's lock alone.
CreatorLocksNothing(c) ==
  /\ CreatorAt(c, "lock") /\ CreatorTo(c, "clone")
  /\ UNCHANGED <<machine, imageFrame, imageRecord, cut, createFrame>>

CreatorLocks(c) ==
  /\ CreatorAt(c, "lock")
  /\ IF machine = "free" THEN machine' = c /\ CreatorTo(c, "clone")
     ELSE Tells(c, "error") /\ UNCHANGED machine
  /\ UNCHANGED <<imageFrame, imageRecord, cut, createFrame>>

\* cloneVM: UTM clones what has the name now, unless it runs; what it made
\* stays if a check of it fails.
CreatorClones(c) ==
  /\ CreatorAt(c, "clone")
  /\ \/ /\ imageState = "stopped"
        /\ \E i \in images :
             \/ creator' = [creator EXCEPT ![c] = [pc |-> "boot", told |-> "none", vm |-> i]]
             \/ creator' = [creator EXCEPT ![c] = [pc |-> "over", told |-> "error", vm |-> i]]
     \/ Tells(c, "error")
  /\ FreedBy(c)
  /\ UNCHANGED <<imageFrame, imageRecord, cut, createFrame>>

CreatorBoots(c) ==
  /\ CreatorAt(c, "boot")
  /\ Tells(c, "ready") \/ Tells(c, "error")
  /\ UNCHANGED <<machine, imageFrame, imageRecord, cut, createFrame>>

\* Mutant of CreatorPulls: whether there is an image is not asked again.
CreatorPullsBlind(c) ==
  /\ CreatorAt(c, "pull")
  /\ IF machine # "free" THEN Tells(c, "error") /\ UNCHANGED machine
     ELSE CreatorTo(c, "import") /\ machine' = c
  /\ UNCHANGED <<imageFrame, imageRecord, cut, createFrame>>

\* pullGolden: under the lock, and only if none appeared meanwhile.
CreatorPulls(c) ==
  /\ CreatorAt(c, "pull")
  /\ IF machine # "free" THEN Tells(c, "error") /\ UNCHANGED machine
     ELSE IF images # {} THEN CreatorTo(c, "find") /\ UNCHANGED machine
     ELSE CreatorTo(c, "import") /\ machine' = c
  /\ UNCHANGED <<imageFrame, imageRecord, cut, createFrame>>

\* UTM imports what was pulled; or nothing is; or it is, and a check fails.
\* Its own maker proved it, wherever that was.
CreatorImports(c) ==
  /\ CreatorAt(c, "import")
  /\ \/ Registers /\ CreatorTo(c, "note") /\ UNCHANGED <<machine, cut>>
     \/ Registers /\ cut' = cut \cup {lastImage + 1} /\ Tells(c, "error") /\ FreedBy(c)
     \/ Tells(c, "error") /\ FreedBy(c) /\ UNCHANGED <<imageFrame, cut>>
  /\ UNCHANGED <<imageRecord, source, proof, maker, deleter, proved, failed>>

\* The record that came with it is put in place, if one did.
CreatorNotes(c) ==
  /\ CreatorAt(c, "note")
  /\ FreedBy(c)
  /\ \/ imageRecord' = lastImage /\ CreatorTo(c, "find") /\ UNCHANGED cut
     \/ cut' = cut \cup {lastImage} /\ UNCHANGED imageRecord
        /\ (CreatorTo(c, "find") \/ Tells(c, "error"))
  /\ proved' = proved \cup {lastImage}
  /\ UNCHANGED <<imageFrame, source, proof, maker, deleter, failed>>

CreatorDies(c) ==
  /\ ~CreatorAt(c, "over")
  /\ creator' = [creator EXCEPT ![c].pc = "over", ![c].told = "died"]
  /\ FreedBy(c)
  /\ cut' = IF CreatorAt(c, "note") THEN cut \cup {lastImage} ELSE cut
  /\ UNCHANGED <<imageFrame, imageRecord, createFrame>>

CreatorSteps(c) ==
  \/ CreatorLooks(c) \/ CreatorFinds(c) \/ CreatorLocks(c) \/ CreatorClones(c) \/ CreatorBoots(c)
  \/ CreatorPulls(c) \/ CreatorImports(c) \/ CreatorNotes(c) \/ CreatorDies(c)

\* The owner starts the image in UTM, and stops it.
OwnerToggles ==
  /\ images # {}
  /\ imageState' = IF imageState = "stopped" THEN "started" ELSE "stopped"
  /\ UNCHANGED <<machine, images, lastImage, imageRecord, cut, creator, createFrame>>

ImageNext ==
  \/ MakerSteps
  \/ DeleterBegins \/ DeleterRemoves \/ DeleterForgets \/ DeleterDies
  \/ \E c \in Creators : CreatorSteps(c)
  \/ OwnerToggles

ImageSpec == ImageInit /\ [][ImageNext]_imageVars
-----------------------------------------------------------------------------
(* Properties.                                                             *)

\* UTM never has two VMs by the image's name, whoever makes or imports one.
OneImage == Cardinality(images) <= 1

\* Every VM vm-create cloned is of an image that was proved first, unless the
\* image's maker or importer ended early: none is cloned while it is proved,
\* and none the suite refused.
ClonesProved == \A c \in Creators : creator[c].vm # 0 => creator[c].vm \in proved \cup cut

\* vm-create reports a VM ready only when there is one: what the comment on
\* CloneFromGolden says its caller does when there is no image.
ReadyHasVM == \A c \in Creators : creator[c].told = "ready" => creator[c].vm # 0
=============================================================================
