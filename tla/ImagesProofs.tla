---------------------------- MODULE ImagesProofs ----------------------------
(***************************************************************************)
(* What VMs are made from and the checks of what was made: the golden      *)
(* image on a Mac, an install from the media, the Linux image, and the     *)
(* verdicts of glaze-check and vm-check, for any number of commands.       *)
(*                                                                         *)
(* The four share no variable; each part below has an invariant of its own *)
(* and needs nothing of the others.                                        *)
(***************************************************************************)
EXTENDS GoldenImage, Install, LinuxImage, Verdicts, Integers, FiniteSetTheorems,
        SequenceTheorems, TLAPS

(***************************************************************************)
(* The golden image on a Mac.                                              *)
(***************************************************************************)
MakerPCs == {"idle", "boot", "seal", "clone", "leftover", "prove", "suite", "undo",
             "unrecord", "delete", "record"}
CreatorPCs == {"look", "find", "lock", "clone", "boot", "pull", "import", "note", "over"}

ImageTypes ==
  /\ machine \in {"free", "maker", "deleter"} \cup Creators
  /\ lastImage \in Nat /\ images \subseteq 1..lastImage
  /\ maker \in [pc : MakerPCs, id : Nat, seals : Nat]
  /\ deleter \in {"idle", "image", "record"}
  /\ creator \in [Creators -> [pc : CreatorPCs, vm : Nat,
                               told : {"none", "installs", "ready", "error", "died"}]]

\* One command has the machine: the maker and the deleter from their first
\* step, a vm-create for its clone, its import and its note.
MachineHeld ==
  /\ ~MakerAt("idle") => machine = "maker"
  /\ deleter # "idle" => machine = "deleter"
  /\ \A c \in Creators : creator[c].pc \in {"clone", "import", "note"} => machine = c

\* What UTM has by the image's name: nothing before it is made, then that one,
\* and never two.
ImagesThere ==
  /\ maker.pc \in {"boot", "seal", "clone", "unrecord"} => images = {}
  /\ maker.pc \in {"leftover", "prove", "suite", "undo", "delete", "record"} => images =
     {maker.id}
  /\ \A c \in Creators : /\ CreatorAt(c, "import") => images = {}
                         /\ CreatorAt(c, "note") => images = {lastImage}
  /\ \A i, k \in images : i = k

\* An image nobody proved is one whose maker or importer still has the machine,
\* or ended early.
ImagesProved ==
  /\ \A i \in images :
       \/ i \in proved \cup cut
       \/ maker.pc \in {"leftover", "prove", "suite", "undo"} /\ i = maker.id
       \/ \E c \in Creators : CreatorAt(c, "note")
  /\ maker.pc \in {"delete", "record"} => maker.id \in proved

ImageInv == ImageTypes /\ MachineHeld /\ ImagesThere /\ ImagesProved /\ ClonesProved

(***************************************************************************)
(* An install from the media.                                              *)
(***************************************************************************)
ISOPCs == {"idle", "look", "fetch", "digest", "expand", "master", "mastering", "verdict"}
Installing == {"ask", "inspect", "wait", "drive", "sample", "typing", "finish", "eject", "last"}

ISORecords    == [pc : ISOPCs, release : Releases \cup {NoRelease}]
EsdRecords    == [file : Releases \cup {NoRelease}, part : Releases \cup {NoRelease},
                  got : {"none", "some", "whole"}]
BuiltRecords  == [id : Nat, whole : BOOLEAN, fixed : BOOLEAN,
                  verdict : {"none", "plain", "self"}]
DriverRecords == [pc : {"idle", "protect", "bundle", "copy"} \cup Installing,
                  media : {"none", "built", "theirs"}, self : BOOLEAN,
                  seen : {"none", "empty", "some", "windows"}, typed : Nat,
                  blind : BOOLEAN]
BundleRecords == [there : BOOLEAN, cd : BOOLEAN, whole : BOOLEAN, arm : BOOLEAN, self : BOOLEAN]
Guests        == {"off", "shell", "setup", "copying", "windows", "logon", "desktop", "paused"}

InstallTypesOK ==
  /\ theirs \in {"none", "arm64", "other"} /\ maimed \in BOOLEAN /\ builds \in Nat
  /\ iso \in ISORecords /\ erase \in {"idle", "theirs", "built"}
  /\ esd \in EsdRecords /\ built \in BuiltRecords
  /\ driver \in DriverRecords /\ bundle \in BundleRecords
  /\ disk \in {"empty", "some", "windows"} /\ guest \in Guests

\* iso-create and iso-delete have the machine while they run, vm-create while
\* it copies the medium.
MediaHeld ==
  /\ ~ISOAt("idle") => mediaLock = "iso"
  /\ erase # "idle" => mediaLock = "erase"
  /\ DriverAt("copy") => mediaLock = "install"

\* A release is asked for by its name, and an ISO is whole but while iso-create
\* writes it, or after it was maimed; a VM has a whole one, or an import failed
\* half way.
MediaWhole ==
  /\ iso.pc \in {"fetch", "digest"} => iso.release \in Releases
  /\ ISOAt("expand") \/ ISOAt("master") => esd.file \in Releases
  /\ built.id # 0 => built.whole \/ maimed \/ ISOAt("mastering")
  /\ bundle.there => bundle.whole \/ maimed \/ halfway

\* Windows runs from a disk that holds it.  A driver types
\* at a disk without one, or at one it could not read.
GuestOnDisk ==
  /\ guest \in {"windows", "logon", "desktop", "paused"} => disk = "windows"
  /\ DriverAt("typing") => disk # "windows" \/ driver.blind

\* The VM there is is the one driven; the first logon is over before its CD is
\* taken out, and that before the run calls it installed.  An agent has been
\* through one, at least in part.
InstallOrder ==
  /\ driver.pc \in Installing \/ "finish" \in installed => bundle.there
  /\ DriverAt("copy") => ~bundle.there
  /\ DriverAt("eject") => guest = "off"
  /\ DriverAt("last") => guest \notin {"setup", "copying"}
  /\ driver.pc \in {"eject", "last"} \/ "finish" \in installed => firstLogon = "done"
  /\ DriverAt("last") \/ "finish" \in installed => ~bundle.cd
  /\ guest \in {"logon", "desktop", "paused"} \/ "agent" \in installed => firstLogon # "due"

InstallInv ==
  /\ InstallTypesOK /\ MediaHeld /\ MediaWhole /\ GuestOnDisk /\ InstallOrder
  /\ KeysBeforeWindows

(***************************************************************************)
(* The Linux image, made by any number of runs.                            *)
(***************************************************************************)
LinuxMakers == [pc : {"idle", "ask", "receive", "digest", "name", "bundle"}, file : Nat,
                appends : BOOLEAN, at : Nat]

LinuxTypes ==
  /\ content \in Seq(Seq(Nat)) /\ linuxPart \in 0..Len(content) /\ image \in 0..Len(content)
  /\ linuxMaker \in [Makers -> LinuxMakers]
  /\ \A m \in Makers : \A f : Downloads(m, f) => f \in 1..Len(content)

\* A file two runs download is shared, whatever each is at.
DownloadsApart ==
  \A m, n \in Makers : \A f : m # n /\ Downloads(m, f) /\ Downloads(n, f) => f \in shared

\* What a run found of the file it downloaded is still so when it names it.
PartPinned ==
  \A m \in Makers : LinuxMakerAt(m, "name") /\ linuxPart = linuxMaker[m].file =>
     content[linuxPart] = Pinned \/ linuxPart \in shared

\* The image is the pinned one and nobody writes it, and it is no longer the
\* .part; one that is shared may be anything.
ImagePinned ==
  /\ image # 0 => linuxPart # image
  /\ image # 0 => image \in shared \/ (content[image] = Pinned /\ \A m \in Makers : ~Downloads(m, image))

LinuxInv == LinuxTypes /\ DownloadsApart /\ PartPinned /\ ImagePinned /\ BundlesPinned

(***************************************************************************)
(* The verdicts.                                                           *)
(***************************************************************************)
Said    == {"none", "NO-BUILD", "CANNOT-TELL", "NO", "UNEXPECTED-PASS", "KNOWN-ONLY", "YES"}
Records == [by : CheckRuns \cup {NoCheck}, verdict : Said, source : Versions, from : SUBSET Sources]

CheckSteps  == {"idle", "building", "before", "running", "after", "collecting", "copying",
                "recording", "renaming", "ended"}
Tellings    == {"known", "xpass", "failed", "ok"}
Happenings  == [parts : Nat, ran : Nat, broken : BOOLEAN, failing : BOOLEAN, died : BOOLEAN]

\* The versions there have been, and none.
Named == (0 .. written) \cup {NoVersion}

VerdictTypes ==
  /\ suite \in {"glaze", "vm"}
  /\ doing \in [CheckRuns -> CheckSteps] /\ checking \in [CheckRuns -> Targets]
  /\ written \in Nat /\ written <= MaxEdits
  /\ tree \in Sources /\ tree.tracked <= written /\ head \in 0 .. written
  /\ seen \in [CheckRuns -> Named]
  /\ binary \in [{"mac", "win"} -> Sources]
  /\ results \in [CheckRuns -> SUBSET Tellings]
  /\ notRun \in [CheckRuns -> BOOLEAN] /\ unbuilt \in [CheckRuns -> BOOLEAN]
  /\ ranFrom \in [CheckRuns -> SUBSET Sources]
  /\ truth \in [CheckRuns -> Happenings]
  /\ sections \in [Targets -> Records]
  /\ readFile \in [CheckRuns -> [Targets -> Records]]
  /\ pictures \in [Targets -> SUBSET CheckRuns]
  /\ manifest \in [Targets -> CheckRuns \cup {NoCheck}]

\* Binary b is of exactly version v, unless v is not the tree's, was left and
\* gone back to, or an untracked file came while check c ran.
Faithful(v, c, b) ==
  \/ b = [tracked |-> v, extra |-> FALSE]
  \/ v # tree.tracked \/ v \in undone \/ c \in slipped

\* What a check ran was faithful to the commit it read, and so is what it would
\* run now, whoever built it.
RunsFaithful ==
  \A c \in CheckRuns :
    /\ Busy(c) /\ seen[c] # NoVersion /\ tree.extra => c \in slipped
    /\ doing[c] \in {"idle", "building", "before"} => ranFrom[c] = {}
    /\ doing[c] \in {"before", "running"} =>
         binary[Bin(c)] = NoBinary \/ Faithful(seen[c], c, binary[Bin(c)])
    /\ \A b \in ranFrom[c] : Faithful(seen[c], c, b)

\* A record was made by a check that is over, of binaries faithful to its
\* source, and it says what that check saw.
Sound(s) ==
  /\ s.source \in Named /\ \A b \in s.from : Faithful(s.source, s.by, b)
  /\ s.verdict \in {"YES", "KNOWN-ONLY"} =>
       /\ s.by \in CheckRuns /\ doing[s.by] = "ended"
       /\ truth[s.by].ran = SuiteParts /\ ~truth[s.by].broken /\ ~truth[s.by].died
       /\ s.verdict = "YES" => ~truth[s.by].failing

RecordsSound == \A t \in Targets : Sound(sections[t]) /\ \A c \in CheckRuns :
   Sound(readFile[c][t])

\* The results of a check tell what happened in its parts so far.
ResultsTell ==
  \A c \in CheckRuns :
    /\ doing[c] \in {"idle", "building", "before"} => truth[c] = Nothing /\ results[c] = {}
    /\ doing[c] \in {"idle", "building", "before", "running", "after"} => ~notRun[c] /\ ~unbuilt[c]
    /\ doing[c] = "running" => truth[c].parts < SuiteParts
    /\ Busy(c) /\ ~notRun[c] /\ ~unbuilt[c] =>
         /\ "failed" \in results[c]
              \/ (truth[c].ran = truth[c].parts /\ ~truth[c].broken /\ ~truth[c].died)
         /\ results[c] \cap {"failed", "known"} # {} \/ ~truth[c].failing
    /\ doing[c] \in {"after", "collecting", "copying", "recording", "renaming"}
         /\ ~notRun[c] /\ ~unbuilt[c] => truth[c].parts = SuiteParts

\* While a check copies, alone since it emptied its target's directory, the
\* pictures there are its own and have no manifest.
PicturesOwn ==
  \A c \in CheckRuns : doing[c] = "copying" /\ checking[c] \notin mixed =>
    /\ manifest[checking[c]] = NoCheck /\ pictures[checking[c]] \subseteq {c}
    /\ ~Filled(c)

VerdictInv ==
  /\ VerdictTypes /\ RunsFaithful /\ RecordsSound /\ ResultsTell
  /\ PicturesOwn /\ PicturesBelong
-----------------------------------------------------------------------------
(* The golden image.                                                       *)

USE DEF MakerAt, MakerTo, MakerOver, Spoils, Registers, CreatorAt, CreatorTo, Tells, FreedBy,
        makerFrame, sealFrame, imageFrame, histories, deleteFrame, createFrame, NewMaker

LEMMA MakerBeginsKeeps ==
  ASSUME ImageInv, MakerBegins
  PROVE  ImageInv'
<1>1. ImageTypes'
  BY GoldenImageAssumption DEF ImageInv, ImageTypes, MakerPCs, CreatorPCs, MakerBegins
<1>2. MachineHeld'  BY GoldenImageAssumption DEF ImageInv, ImageTypes, MachineHeld, MakerBegins
<1>3. ImagesThere'
  BY GoldenImageAssumption DEF ImageInv, ImageTypes, MachineHeld, ImagesThere, MakerBegins
<1>4. ImagesProved'
  BY GoldenImageAssumption DEF ImageInv, ImageTypes, MachineHeld, ImagesThere, ImagesProved,
     MakerBegins
<1>5. ClonesProved'
  BY GoldenImageAssumption DEF ImageInv, ImageTypes, MachineHeld, ImagesProved, ClonesProved,
     MakerBegins
<1> QED  BY <1>1, <1>2, <1>3, <1>4, <1>5 DEF ImageInv

LEMMA MakerBootsKeeps ==
  ASSUME ImageInv, MakerBoots
  PROVE  ImageInv'
<1>1. ImageTypes'
  BY GoldenImageAssumption DEF ImageInv, ImageTypes, MakerPCs, CreatorPCs, MakerBoots
<1>2. MachineHeld'  BY GoldenImageAssumption DEF ImageInv, ImageTypes, MachineHeld, MakerBoots
<1>3. ImagesThere'
  BY GoldenImageAssumption DEF ImageInv, ImageTypes, MachineHeld, ImagesThere, MakerBoots
<1>4. ImagesProved'
  BY GoldenImageAssumption DEF ImageInv, ImageTypes, MachineHeld, ImagesThere, ImagesProved,
     MakerBoots
<1>5. ClonesProved'
  BY GoldenImageAssumption DEF ImageInv, ImageTypes, MachineHeld, ImagesProved, ClonesProved,
     MakerBoots
<1> QED  BY <1>1, <1>2, <1>3, <1>4, <1>5 DEF ImageInv

LEMMA MakerSealsKeeps ==
  ASSUME ImageInv, MakerSeals
  PROVE  ImageInv'
<1>1. ImageTypes'
  BY GoldenImageAssumption DEF ImageInv, ImageTypes, MakerPCs, CreatorPCs, MakerSeals
<1>2. MachineHeld'  BY GoldenImageAssumption DEF ImageInv, ImageTypes, MachineHeld, MakerSeals
<1>3. ImagesThere'
  BY GoldenImageAssumption DEF ImageInv, ImageTypes, MachineHeld, ImagesThere, MakerSeals
<1>4. ImagesProved'
  BY GoldenImageAssumption DEF ImageInv, ImageTypes, MachineHeld, ImagesThere, ImagesProved,
     MakerSeals
<1>5. ClonesProved'
  BY GoldenImageAssumption DEF ImageInv, ImageTypes, MachineHeld, ImagesProved, ClonesProved,
     MakerSeals
<1> QED  BY <1>1, <1>2, <1>3, <1>4, <1>5 DEF ImageInv

LEMMA MakerShutsDownKeeps ==
  ASSUME ImageInv, MakerShutsDown
  PROVE  ImageInv'
<1>1. ImageTypes'
  BY GoldenImageAssumption DEF ImageInv, ImageTypes, MakerPCs, CreatorPCs, MakerShutsDown
<1>2. MachineHeld'
  BY GoldenImageAssumption DEF ImageInv, ImageTypes, MachineHeld, MakerShutsDown
<1>3. ImagesThere'
  BY GoldenImageAssumption DEF ImageInv, ImageTypes, MachineHeld, ImagesThere, MakerShutsDown
<1>4. ImagesProved'
  BY GoldenImageAssumption DEF ImageInv, ImageTypes, MachineHeld, ImagesThere, ImagesProved,
     MakerShutsDown
<1>5. ClonesProved'
  BY GoldenImageAssumption DEF ImageInv, ImageTypes, MachineHeld, ImagesProved, ClonesProved,
     MakerShutsDown
<1> QED  BY <1>1, <1>2, <1>3, <1>4, <1>5 DEF ImageInv

\* The image is there from here on, and its maker has the machine.
LEMMA MakerClonesKeeps ==
  ASSUME ImageInv, MakerClones
  PROVE  ImageInv'
<1>a. images = {} /\ lastImage \in Nat /\ machine = "maker"
  BY DEF ImageInv, ImageTypes, ImagesThere, MachineHeld, MakerClones
<1>b. UNCHANGED <<imageRecord, source, proof, deleter, creator, proved, failed>>
  BY DEF MakerClones
<1>c. \/ /\ lastImage' = lastImage + 1 /\ images' = {lastImage + 1}
         /\ maker'.pc = "leftover" /\ maker'.id = lastImage + 1
         /\ UNCHANGED <<machine, cut>>
      \/ /\ lastImage' = lastImage + 1 /\ images' = {lastImage + 1}
         /\ maker'.pc = "idle" /\ machine' = "free" /\ cut' = cut \cup {lastImage + 1}
      \/ /\ UNCHANGED <<lastImage, images, cut>>
         /\ maker'.pc = "idle" /\ machine' = "free"
  <2>1. maker \in [pc : MakerPCs, id : Nat, seals : Nat]  BY DEF ImageInv, ImageTypes
  <2>2. ASSUME maker' = [maker EXCEPT !.pc = "leftover", !.id = lastImage + 1]
        PROVE  maker'.pc = "leftover" /\ maker'.id = lastImage + 1
    BY <2>1, <2>2
  <2>3. {} \cup {lastImage + 1} = {lastImage + 1}  OBVIOUS
  <2>4. CASE Registers /\ UNCHANGED <<machine, cut>>
             /\ maker' = [maker EXCEPT !.pc = "leftover", !.id = lastImage + 1]
    BY <1>a, <2>2, <2>3, <2>4
  <2>5. CASE Registers /\ MakerOver /\ cut' = cut \cup {lastImage + 1}
    BY <1>a, <2>3, <2>5
  <2>6. CASE MakerOver /\ UNCHANGED <<imageFrame, cut>>  BY <2>6
  <2> QED  BY <2>4, <2>5, <2>6 DEF MakerClones
<1>d. maker' \in [pc : MakerPCs, id : Nat, seals : Nat]
  <2>1. maker \in [pc : MakerPCs, id : Nat, seals : Nat] /\ lastImage + 1 \in Nat
    BY <1>a DEF ImageInv, ImageTypes
  <2>2. CASE maker' = [maker EXCEPT !.pc = "leftover", !.id = lastImage + 1]
    BY <2>1, <2>2 DEF MakerPCs
  <2>3. CASE maker' = NewMaker  BY <2>3 DEF MakerPCs
  <2> QED  BY <2>2, <2>3 DEF MakerClones
<1>1. ImageTypes'  BY <1>a, <1>b, <1>c, <1>d DEF ImageInv, ImageTypes
<1>2. MachineHeld'
  BY <1>a, <1>b, <1>c, GoldenImageAssumption DEF ImageInv, MachineHeld, MakerClones
<1>3. ImagesThere'
  BY <1>a, <1>b, <1>c, GoldenImageAssumption DEF ImageInv, ImagesThere, MachineHeld
<1>4. ImagesProved'
  BY <1>a, <1>b, <1>c DEF ImageInv, ImagesProved
<1>5. ClonesProved'  BY <1>b, <1>c DEF ImageInv, ClonesProved
<1> QED  BY <1>1, <1>2, <1>3, <1>4, <1>5 DEF ImageInv

LEMMA MakerClearsLeftoverKeeps ==
  ASSUME ImageInv, MakerClearsLeftover
  PROVE  ImageInv'
<1>1. ImageTypes'
  BY GoldenImageAssumption DEF ImageInv, ImageTypes, MakerPCs, CreatorPCs, MakerClearsLeftover
<1>2. MachineHeld'
  BY GoldenImageAssumption DEF ImageInv, ImageTypes, MachineHeld, MakerClearsLeftover
<1>3. ImagesThere'
  BY GoldenImageAssumption DEF ImageInv, ImageTypes, MachineHeld, ImagesThere,
     MakerClearsLeftover
<1>4. ImagesProved'
  BY GoldenImageAssumption DEF ImageInv, ImageTypes, MachineHeld, ImagesThere, ImagesProved,
     MakerClearsLeftover
<1>5. ClonesProved'
  BY GoldenImageAssumption DEF ImageInv, ImageTypes, MachineHeld, ImagesProved, ClonesProved,
     MakerClearsLeftover
<1> QED  BY <1>1, <1>2, <1>3, <1>4, <1>5 DEF ImageInv

LEMMA MakerProvesKeeps ==
  ASSUME ImageInv, MakerProves
  PROVE  ImageInv'
<1>1. ImageTypes'
  BY GoldenImageAssumption DEF ImageInv, ImageTypes, MakerPCs, CreatorPCs, MakerProves
<1>2. MachineHeld'  BY GoldenImageAssumption DEF ImageInv, ImageTypes, MachineHeld, MakerProves
<1>3. ImagesThere'
  BY GoldenImageAssumption DEF ImageInv, ImageTypes, MachineHeld, ImagesThere, MakerProves
<1>4. ImagesProved'
  BY GoldenImageAssumption DEF ImageInv, ImageTypes, MachineHeld, ImagesThere, ImagesProved,
     MakerProves
<1>5. ClonesProved'
  BY GoldenImageAssumption DEF ImageInv, ImageTypes, MachineHeld, ImagesProved, ClonesProved,
     MakerProves
<1> QED  BY <1>1, <1>2, <1>3, <1>4, <1>5 DEF ImageInv

LEMMA MakerVerifiesKeeps ==
  ASSUME ImageInv, MakerVerifies
  PROVE  ImageInv'
<1>1. ImageTypes'
  BY GoldenImageAssumption DEF ImageInv, ImageTypes, MakerPCs, CreatorPCs, MakerVerifies
<1>2. MachineHeld'
  BY GoldenImageAssumption DEF ImageInv, ImageTypes, MachineHeld, MakerVerifies
<1>3. ImagesThere'
  BY GoldenImageAssumption DEF ImageInv, ImageTypes, MachineHeld, ImagesThere, MakerVerifies
<1>4. ImagesProved'
  BY GoldenImageAssumption DEF ImageInv, ImageTypes, MachineHeld, ImagesThere, ImagesProved,
     MakerVerifies
<1>5. ClonesProved'
  BY GoldenImageAssumption DEF ImageInv, ImageTypes, MachineHeld, ImagesProved, ClonesProved,
     MakerVerifies
<1> QED  BY <1>1, <1>2, <1>3, <1>4, <1>5 DEF ImageInv

LEMMA MakerUndoesKeeps ==
  ASSUME ImageInv, MakerUndoes
  PROVE  ImageInv'
<1>1. ImageTypes'
  BY GoldenImageAssumption DEF ImageInv, ImageTypes, MakerPCs, CreatorPCs, MakerUndoes
<1>2. MachineHeld'  BY GoldenImageAssumption DEF ImageInv, ImageTypes, MachineHeld, MakerUndoes
<1>3. ImagesThere'
  BY GoldenImageAssumption DEF ImageInv, ImageTypes, MachineHeld, ImagesThere, MakerUndoes
<1>4. ImagesProved'
  BY GoldenImageAssumption DEF ImageInv, ImageTypes, MachineHeld, ImagesThere, ImagesProved,
     MakerUndoes
<1>5. ClonesProved'
  BY GoldenImageAssumption DEF ImageInv, ImageTypes, MachineHeld, ImagesProved, ClonesProved,
     MakerUndoes
<1> QED  BY <1>1, <1>2, <1>3, <1>4, <1>5 DEF ImageInv

LEMMA MakerUndoesRecordKeeps ==
  ASSUME ImageInv, MakerUndoesRecord
  PROVE  ImageInv'
<1>1. ImageTypes'
  BY GoldenImageAssumption DEF ImageInv, ImageTypes, MakerPCs, CreatorPCs, MakerUndoesRecord
<1>2. MachineHeld'
  BY GoldenImageAssumption DEF ImageInv, ImageTypes, MachineHeld, MakerUndoesRecord
<1>3. ImagesThere'
  BY GoldenImageAssumption DEF ImageInv, ImageTypes, MachineHeld, ImagesThere, MakerUndoesRecord
<1>4. ImagesProved'
  BY GoldenImageAssumption DEF ImageInv, ImageTypes, MachineHeld, ImagesThere, ImagesProved,
     MakerUndoesRecord
<1>5. ClonesProved'
  BY GoldenImageAssumption DEF ImageInv, ImageTypes, MachineHeld, ImagesProved, ClonesProved,
     MakerUndoesRecord
<1> QED  BY <1>1, <1>2, <1>3, <1>4, <1>5 DEF ImageInv

LEMMA MakerDeletesProofKeeps ==
  ASSUME ImageInv, MakerDeletesProof
  PROVE  ImageInv'
<1>1. ImageTypes'
  BY GoldenImageAssumption DEF ImageInv, ImageTypes, MakerPCs, CreatorPCs, MakerDeletesProof
<1>2. MachineHeld'
  BY GoldenImageAssumption DEF ImageInv, ImageTypes, MachineHeld, MakerDeletesProof
<1>3. ImagesThere'
  BY GoldenImageAssumption DEF ImageInv, ImageTypes, MachineHeld, ImagesThere, MakerDeletesProof
<1>4. ImagesProved'
  BY GoldenImageAssumption DEF ImageInv, ImageTypes, MachineHeld, ImagesThere, ImagesProved,
     MakerDeletesProof
<1>5. ClonesProved'
  BY GoldenImageAssumption DEF ImageInv, ImageTypes, MachineHeld, ImagesProved, ClonesProved,
     MakerDeletesProof
<1> QED  BY <1>1, <1>2, <1>3, <1>4, <1>5 DEF ImageInv

LEMMA MakerRecordsKeeps ==
  ASSUME ImageInv, MakerRecords
  PROVE  ImageInv'
<1>1. ImageTypes'
  BY GoldenImageAssumption DEF ImageInv, ImageTypes, MakerPCs, CreatorPCs, MakerRecords
<1>2. MachineHeld'  BY GoldenImageAssumption DEF ImageInv, ImageTypes, MachineHeld, MakerRecords
<1>3. ImagesThere'
  BY GoldenImageAssumption DEF ImageInv, ImageTypes, MachineHeld, ImagesThere, MakerRecords
<1>4. ImagesProved'
  BY GoldenImageAssumption DEF ImageInv, ImageTypes, MachineHeld, ImagesThere, ImagesProved,
     MakerRecords
<1>5. ClonesProved'
  BY GoldenImageAssumption DEF ImageInv, ImageTypes, MachineHeld, ImagesProved, ClonesProved,
     MakerRecords
<1> QED  BY <1>1, <1>2, <1>3, <1>4, <1>5 DEF ImageInv

LEMMA MakerDiesKeeps ==
  ASSUME ImageInv, MakerDies
  PROVE  ImageInv'
<1>1. ImageTypes'
  BY GoldenImageAssumption DEF ImageInv, ImageTypes, MakerPCs, CreatorPCs, MakerDies
<1>2. MachineHeld'  BY GoldenImageAssumption DEF ImageInv, ImageTypes, MachineHeld, MakerDies
<1>3. ImagesThere'
  BY GoldenImageAssumption DEF ImageInv, ImageTypes, MachineHeld, ImagesThere, MakerDies
<1>4. ImagesProved'
  BY GoldenImageAssumption DEF ImageInv, ImageTypes, MachineHeld, ImagesThere, ImagesProved,
     MakerDies
<1>5. ClonesProved'
  BY GoldenImageAssumption DEF ImageInv, ImageTypes, MachineHeld, ImagesProved, ClonesProved,
     MakerDies
<1> QED  BY <1>1, <1>2, <1>3, <1>4, <1>5 DEF ImageInv

LEMMA DeleterBeginsKeeps ==
  ASSUME ImageInv, DeleterBegins
  PROVE  ImageInv'
<1>1. ImageTypes'
  BY GoldenImageAssumption DEF ImageInv, ImageTypes, MakerPCs, CreatorPCs, DeleterBegins
<1>2. MachineHeld'
  BY GoldenImageAssumption DEF ImageInv, ImageTypes, MachineHeld, DeleterBegins
<1>3. ImagesThere'
  BY GoldenImageAssumption DEF ImageInv, ImageTypes, MachineHeld, ImagesThere, DeleterBegins
<1>4. ImagesProved'
  BY GoldenImageAssumption DEF ImageInv, ImageTypes, MachineHeld, ImagesThere, ImagesProved,
     DeleterBegins
<1>5. ClonesProved'
  BY GoldenImageAssumption DEF ImageInv, ImageTypes, MachineHeld, ImagesProved, ClonesProved,
     DeleterBegins
<1> QED  BY <1>1, <1>2, <1>3, <1>4, <1>5 DEF ImageInv

LEMMA DeleterRemovesKeeps ==
  ASSUME ImageInv, DeleterRemoves
  PROVE  ImageInv'
<1>1. ImageTypes'
  BY GoldenImageAssumption DEF ImageInv, ImageTypes, MakerPCs, CreatorPCs, DeleterRemoves
<1>2. MachineHeld'
  BY GoldenImageAssumption DEF ImageInv, ImageTypes, MachineHeld, DeleterRemoves
<1>3. ImagesThere'
  BY GoldenImageAssumption DEF ImageInv, ImageTypes, MachineHeld, ImagesThere, DeleterRemoves
<1>4. ImagesProved'
  BY GoldenImageAssumption DEF ImageInv, ImageTypes, MachineHeld, ImagesThere, ImagesProved,
     DeleterRemoves
<1>5. ClonesProved'
  BY GoldenImageAssumption DEF ImageInv, ImageTypes, MachineHeld, ImagesProved, ClonesProved,
     DeleterRemoves
<1> QED  BY <1>1, <1>2, <1>3, <1>4, <1>5 DEF ImageInv

LEMMA DeleterForgetsKeeps ==
  ASSUME ImageInv, DeleterForgets
  PROVE  ImageInv'
<1>1. ImageTypes'
  BY GoldenImageAssumption DEF ImageInv, ImageTypes, MakerPCs, CreatorPCs, DeleterForgets
<1>2. MachineHeld'
  BY GoldenImageAssumption DEF ImageInv, ImageTypes, MachineHeld, DeleterForgets
<1>3. ImagesThere'
  BY GoldenImageAssumption DEF ImageInv, ImageTypes, MachineHeld, ImagesThere, DeleterForgets
<1>4. ImagesProved'
  BY GoldenImageAssumption DEF ImageInv, ImageTypes, MachineHeld, ImagesThere, ImagesProved,
     DeleterForgets
<1>5. ClonesProved'
  BY GoldenImageAssumption DEF ImageInv, ImageTypes, MachineHeld, ImagesProved, ClonesProved,
     DeleterForgets
<1> QED  BY <1>1, <1>2, <1>3, <1>4, <1>5 DEF ImageInv

LEMMA DeleterDiesKeeps ==
  ASSUME ImageInv, DeleterDies
  PROVE  ImageInv'
<1>1. ImageTypes'
  BY GoldenImageAssumption DEF ImageInv, ImageTypes, MakerPCs, CreatorPCs, DeleterDies
<1>2. MachineHeld'  BY GoldenImageAssumption DEF ImageInv, ImageTypes, MachineHeld, DeleterDies
<1>3. ImagesThere'
  BY GoldenImageAssumption DEF ImageInv, ImageTypes, MachineHeld, ImagesThere, DeleterDies
<1>4. ImagesProved'
  BY GoldenImageAssumption DEF ImageInv, ImageTypes, MachineHeld, ImagesThere, ImagesProved,
     DeleterDies
<1>5. ClonesProved'
  BY GoldenImageAssumption DEF ImageInv, ImageTypes, MachineHeld, ImagesProved, ClonesProved,
     DeleterDies
<1> QED  BY <1>1, <1>2, <1>3, <1>4, <1>5 DEF ImageInv

LEMMA OwnerTogglesKeeps ==
  ASSUME ImageInv, OwnerToggles
  PROVE  ImageInv'
<1>1. ImageTypes'
  BY GoldenImageAssumption DEF ImageInv, ImageTypes, MakerPCs, CreatorPCs, OwnerToggles
<1>2. MachineHeld'  BY GoldenImageAssumption DEF ImageInv, ImageTypes, MachineHeld, OwnerToggles
<1>3. ImagesThere'
  BY GoldenImageAssumption DEF ImageInv, ImageTypes, MachineHeld, ImagesThere, OwnerToggles
<1>4. ImagesProved'
  BY GoldenImageAssumption DEF ImageInv, ImageTypes, MachineHeld, ImagesThere, ImagesProved,
     OwnerToggles
<1>5. ClonesProved'
  BY GoldenImageAssumption DEF ImageInv, ImageTypes, MachineHeld, ImagesProved, ClonesProved,
     OwnerToggles
<1> QED  BY <1>1, <1>2, <1>3, <1>4, <1>5 DEF ImageInv

LEMMA CreatorLooksKeeps ==
  ASSUME ImageInv, NEW c \in Creators, CreatorLooks(c)
  PROVE  ImageInv'
<1>1. ImageTypes'
  BY GoldenImageAssumption DEF ImageInv, ImageTypes, MakerPCs, CreatorPCs, CreatorLooks
<1>2. MachineHeld'  BY GoldenImageAssumption DEF ImageInv, ImageTypes, MachineHeld, CreatorLooks
<1>3. ImagesThere'
  BY GoldenImageAssumption DEF ImageInv, ImageTypes, MachineHeld, ImagesThere, CreatorLooks
<1>4. ImagesProved'
  BY GoldenImageAssumption DEF ImageInv, ImageTypes, MachineHeld, ImagesThere, ImagesProved,
     CreatorLooks
<1>5. ClonesProved'
  BY GoldenImageAssumption DEF ImageInv, ImageTypes, MachineHeld, ImagesProved, ClonesProved,
     CreatorLooks
<1> QED  BY <1>1, <1>2, <1>3, <1>4, <1>5 DEF ImageInv

LEMMA CreatorFindsKeeps ==
  ASSUME ImageInv, NEW c \in Creators, CreatorFinds(c)
  PROVE  ImageInv'
<1>1. ImageTypes'
  BY GoldenImageAssumption DEF ImageInv, ImageTypes, MakerPCs, CreatorPCs, CreatorFinds
<1>2. MachineHeld'  BY GoldenImageAssumption DEF ImageInv, ImageTypes, MachineHeld, CreatorFinds
<1>3. ImagesThere'
  BY GoldenImageAssumption DEF ImageInv, ImageTypes, MachineHeld, ImagesThere, CreatorFinds
<1>4. ImagesProved'
  BY GoldenImageAssumption DEF ImageInv, ImageTypes, MachineHeld, ImagesThere, ImagesProved,
     CreatorFinds
<1>5. ClonesProved'
  BY GoldenImageAssumption DEF ImageInv, ImageTypes, MachineHeld, ImagesProved, ClonesProved,
     CreatorFinds
<1> QED  BY <1>1, <1>2, <1>3, <1>4, <1>5 DEF ImageInv

LEMMA CreatorLocksKeeps ==
  ASSUME ImageInv, NEW c \in Creators, CreatorLocks(c)
  PROVE  ImageInv'
<1>1. ImageTypes'
  BY GoldenImageAssumption DEF ImageInv, ImageTypes, MakerPCs, CreatorPCs, CreatorLocks
<1>2. MachineHeld'  BY GoldenImageAssumption DEF ImageInv, ImageTypes, MachineHeld, CreatorLocks
<1>3. ImagesThere'
  BY GoldenImageAssumption DEF ImageInv, ImageTypes, MachineHeld, ImagesThere, CreatorLocks
<1>4. ImagesProved'
  BY GoldenImageAssumption DEF ImageInv, ImageTypes, MachineHeld, ImagesThere, ImagesProved,
     CreatorLocks
<1>5. ClonesProved'
  BY GoldenImageAssumption DEF ImageInv, ImageTypes, MachineHeld, ImagesProved, ClonesProved,
     CreatorLocks
<1> QED  BY <1>1, <1>2, <1>3, <1>4, <1>5 DEF ImageInv

LEMMA CreatorClonesKeeps ==
  ASSUME ImageInv, NEW c \in Creators, CreatorClones(c)
  PROVE  ImageInv'
<1>1. ImageTypes'
  BY GoldenImageAssumption DEF ImageInv, ImageTypes, MakerPCs, CreatorPCs, CreatorClones
<1>2. MachineHeld'
  BY GoldenImageAssumption DEF ImageInv, ImageTypes, MachineHeld, CreatorClones
<1>3. ImagesThere'
  BY GoldenImageAssumption DEF ImageInv, ImageTypes, MachineHeld, ImagesThere, CreatorClones
<1>4. ImagesProved'
  BY GoldenImageAssumption DEF ImageInv, ImageTypes, MachineHeld, ImagesThere, ImagesProved,
     CreatorClones
<1>5. ClonesProved'
  BY GoldenImageAssumption DEF ImageInv, ImageTypes, MachineHeld, ImagesProved, ClonesProved,
     CreatorClones
<1> QED  BY <1>1, <1>2, <1>3, <1>4, <1>5 DEF ImageInv

LEMMA CreatorBootsKeeps ==
  ASSUME ImageInv, NEW c \in Creators, CreatorBoots(c)
  PROVE  ImageInv'
<1>1. ImageTypes'
  BY GoldenImageAssumption DEF ImageInv, ImageTypes, MakerPCs, CreatorPCs, CreatorBoots
<1>2. MachineHeld'  BY GoldenImageAssumption DEF ImageInv, ImageTypes, MachineHeld, CreatorBoots
<1>3. ImagesThere'
  BY GoldenImageAssumption DEF ImageInv, ImageTypes, MachineHeld, ImagesThere, CreatorBoots
<1>4. ImagesProved'
  BY GoldenImageAssumption DEF ImageInv, ImageTypes, MachineHeld, ImagesThere, ImagesProved,
     CreatorBoots
<1>5. ClonesProved'
  BY GoldenImageAssumption DEF ImageInv, ImageTypes, MachineHeld, ImagesProved, ClonesProved,
     CreatorBoots
<1> QED  BY <1>1, <1>2, <1>3, <1>4, <1>5 DEF ImageInv

LEMMA CreatorPullsKeeps ==
  ASSUME ImageInv, NEW c \in Creators, CreatorPulls(c)
  PROVE  ImageInv'
<1>1. ImageTypes'
  BY GoldenImageAssumption DEF ImageInv, ImageTypes, MakerPCs, CreatorPCs, CreatorPulls
<1>2. MachineHeld'  BY GoldenImageAssumption DEF ImageInv, ImageTypes, MachineHeld, CreatorPulls
<1>3. ImagesThere'
  BY GoldenImageAssumption DEF ImageInv, ImageTypes, MachineHeld, ImagesThere, CreatorPulls
<1>4. ImagesProved'
  BY GoldenImageAssumption DEF ImageInv, ImageTypes, MachineHeld, ImagesThere, ImagesProved,
     CreatorPulls
<1>5. ClonesProved'
  BY GoldenImageAssumption DEF ImageInv, ImageTypes, MachineHeld, ImagesProved, ClonesProved,
     CreatorPulls
<1> QED  BY <1>1, <1>2, <1>3, <1>4, <1>5 DEF ImageInv

LEMMA CreatorImportsKeeps ==
  ASSUME ImageInv, NEW c \in Creators, CreatorImports(c)
  PROVE  ImageInv'
<1>1. ImageTypes'
  BY GoldenImageAssumption DEF ImageInv, ImageTypes, MakerPCs, CreatorPCs, CreatorImports
<1>2. MachineHeld'
  BY GoldenImageAssumption DEF ImageInv, ImageTypes, MachineHeld, CreatorImports
<1>3. ImagesThere'
  BY GoldenImageAssumption DEF ImageInv, ImageTypes, MachineHeld, ImagesThere, CreatorImports
<1>4. ImagesProved'
  BY GoldenImageAssumption DEF ImageInv, ImageTypes, MachineHeld, ImagesThere, ImagesProved,
     CreatorImports
<1>5. ClonesProved'
  BY GoldenImageAssumption DEF ImageInv, ImageTypes, MachineHeld, ImagesProved, ClonesProved,
     CreatorImports
<1> QED  BY <1>1, <1>2, <1>3, <1>4, <1>5 DEF ImageInv

LEMMA CreatorNotesKeeps ==
  ASSUME ImageInv, NEW c \in Creators, CreatorNotes(c)
  PROVE  ImageInv'
<1>1. ImageTypes'
  BY GoldenImageAssumption DEF ImageInv, ImageTypes, MakerPCs, CreatorPCs, CreatorNotes
<1>2. MachineHeld'  BY GoldenImageAssumption DEF ImageInv, ImageTypes, MachineHeld, CreatorNotes
<1>3. ImagesThere'
  BY GoldenImageAssumption DEF ImageInv, ImageTypes, MachineHeld, ImagesThere, CreatorNotes
<1>4. ImagesProved'
  BY GoldenImageAssumption DEF ImageInv, ImageTypes, MachineHeld, ImagesThere, ImagesProved,
     CreatorNotes
<1>5. ClonesProved'
  BY GoldenImageAssumption DEF ImageInv, ImageTypes, MachineHeld, ImagesProved, ClonesProved,
     CreatorNotes
<1> QED  BY <1>1, <1>2, <1>3, <1>4, <1>5 DEF ImageInv

LEMMA CreatorDiesKeeps ==
  ASSUME ImageInv, NEW c \in Creators, CreatorDies(c)
  PROVE  ImageInv'
<1>1. ImageTypes'
  <2> DEFINE r == [creator[c] EXCEPT !.pc = "over", !.told = "died"]
  <2>1. r \in [pc : CreatorPCs, told : {"none", "installs", "ready", "error", "died"}, vm : Nat]
    BY DEF ImageInv, ImageTypes, CreatorPCs
  <2>2. creator' = [creator EXCEPT ![c] = r]  BY DEF CreatorDies
  <2> HIDE DEF r
  <2> QED  BY <2>1, <2>2 DEF ImageInv, ImageTypes, CreatorDies
<1>2. MachineHeld'  BY GoldenImageAssumption DEF ImageInv, ImageTypes, MachineHeld, CreatorDies
<1>3. ImagesThere'  BY GoldenImageAssumption DEF ImageInv, ImageTypes, MachineHeld, ImagesThere,
      CreatorDies
<1>4. ImagesProved'  BY GoldenImageAssumption DEF ImageInv, ImageTypes, MachineHeld,
      ImagesThere, ImagesProved, CreatorDies
<1>5. ClonesProved'  BY GoldenImageAssumption DEF ImageInv, ImageTypes, ClonesProved,
      CreatorDies
<1> QED  BY <1>1, <1>2, <1>3, <1>4, <1>5 DEF ImageInv

LEMMA ImageStep == ImageInv /\ [ImageNext]_imageVars => ImageInv'
<1> SUFFICES ASSUME ImageInv, [ImageNext]_imageVars PROVE ImageInv'  OBVIOUS
<1>1. ASSUME MakerSteps PROVE ImageInv'
  BY <1>1, MakerBeginsKeeps, MakerBootsKeeps, MakerSealsKeeps, MakerShutsDownKeeps,
     MakerClonesKeeps, MakerClearsLeftoverKeeps, MakerProvesKeeps, MakerVerifiesKeeps,
     MakerUndoesKeeps, MakerUndoesRecordKeeps, MakerDeletesProofKeeps, MakerRecordsKeeps,
     MakerDiesKeeps DEF MakerSteps
<1>2. ASSUME DeleterBegins \/ DeleterRemoves \/ DeleterForgets \/ DeleterDies PROVE ImageInv'
  BY <1>2, DeleterBeginsKeeps, DeleterRemovesKeeps, DeleterForgetsKeeps, DeleterDiesKeeps
<1>3. ASSUME NEW c \in Creators, CreatorSteps(c) PROVE ImageInv'
  BY <1>3, CreatorLooksKeeps, CreatorFindsKeeps, CreatorLocksKeeps, CreatorClonesKeeps,
     CreatorBootsKeeps, CreatorPullsKeeps, CreatorImportsKeeps, CreatorNotesKeeps,
     CreatorDiesKeeps DEF CreatorSteps
<1>4. ASSUME OwnerToggles PROVE ImageInv'  BY <1>4, OwnerTogglesKeeps
<1>5. ASSUME UNCHANGED imageVars PROVE ImageInv'
  BY <1>5 DEF imageVars, ImageInv, ImageTypes, MachineHeld, ImagesThere, ImagesProved,
     ClonesProved
<1> QED  BY <1>1, <1>2, <1>3, <1>4, <1>5 DEF ImageNext

LEMMA ImageInitInv == ImageInit => ImageInv
BY GoldenImageAssumption DEF ImageInit, NewCreator, ImageInv, ImageTypes, MakerPCs, CreatorPCs,
   MachineHeld, ImagesThere, ImagesProved, ClonesProved

LEMMA ImageInvHolds == ImageSpec => []ImageInv
<1> QED  BY ImageInitInv, ImageStep, PTL DEF ImageSpec

\* UTM never has two VMs by the golden image's name, whoever makes, pulls or
\* deletes one and dies at it: who has the machine lock has looked since.
THEOREM OneImageHolds == ImageSpec => []OneImage
<1>1. ImageInv => OneImage
  <2> SUFFICES ASSUME ImageInv PROVE Cardinality(images) <= 1  BY DEF OneImage
  <2>1. CASE images = {}  BY <2>1, FS_EmptySet
  <2>2. CASE images # {}
    <3>1. PICK i : images = {i}  BY <2>2 DEF ImageInv, ImagesThere
    <3> QED  BY <3>1, FS_Singleton
  <2> QED  BY <2>1, <2>2
<1> QED  BY ImageInvHolds, <1>1, PTL

\* No VM is a clone of an image while it is being proved, nor of one the suite
\* refused, but where its maker or importer ended early and left it there.
THEOREM ClonesAreProved == ImageSpec => []ClonesProved
<1>1. ImageInv => ClonesProved  BY DEF ImageInv
<1> QED  BY ImageInvHolds, <1>1, PTL

-----------------------------------------------------------------------------
(* An install from the media.                                              *)

USE DEF ISOAt, ISOTo, ISOOver, isoFrame, eraseFrame, Unnamed, NoBuilt, NoEsd, IdleISO, AgentUp,
        DriverAt, DriverTo, DriverOver, guestFrame, driverFrame, mediaVars, guestVars,
           esdAndAll,
        Stopped, BootEntryWritten, DiskRead, EnsuresReady, AgentAwaited, NoBundle, IdleDriver, Verdict

LEMMA ISOBeginsKeeps ==
  ASSUME InstallInv, ISOBegins, UNCHANGED <<guestVars, driver, installed, mistyped, halfway>>
  PROVE  InstallInv'
<1>1. InstallTypesOK'
  BY MediaAssumption DEF InstallInv, InstallTypesOK, ISORecords, EsdRecords, BuiltRecords,
     DriverRecords, BundleRecords, ISOPCs, Installing, Guests, MediaWhole, ISOBegins
<1>2. MediaHeld'
  BY MediaAssumption DEF InstallInv, InstallTypesOK, MediaHeld, ISORecords, DriverRecords,
     ISOBegins
<1>3. MediaWhole'
  BY MediaAssumption DEF InstallInv, InstallTypesOK, MediaHeld, MediaWhole, ISORecords,
     EsdRecords, BuiltRecords, DriverRecords, BundleRecords, ISOBegins
<1>4. GuestOnDisk'
  BY MediaAssumption DEF InstallInv, InstallTypesOK, GuestOnDisk, DriverRecords, ISOBegins
<1>5. InstallOrder'
  BY MediaAssumption DEF InstallInv, InstallTypesOK, InstallOrder, Installing, DriverRecords,
     BundleRecords, ISOBegins
<1>6. KeysBeforeWindows'
  BY MediaAssumption DEF InstallInv, InstallTypesOK, KeysBeforeWindows, GuestOnDisk, ISOBegins
<1> QED  BY <1>1, <1>2, <1>3, <1>4, <1>5, <1>6 DEF InstallInv

LEMMA ISOLooksKeeps ==
  ASSUME InstallInv, ISOLooks, UNCHANGED <<guestVars, driver, installed, mistyped, halfway>>
  PROVE  InstallInv'
<1>1. InstallTypesOK'
  BY MediaAssumption DEF InstallInv, InstallTypesOK, ISORecords, EsdRecords, BuiltRecords,
     DriverRecords, BundleRecords, ISOPCs, Installing, Guests, MediaWhole, ISOLooks
<1>2. MediaHeld'
  BY MediaAssumption DEF InstallInv, InstallTypesOK, MediaHeld, ISORecords, DriverRecords,
     ISOLooks
<1>3. MediaWhole'
  BY MediaAssumption DEF InstallInv, InstallTypesOK, MediaHeld, MediaWhole, ISORecords,
     EsdRecords, BuiltRecords, DriverRecords, BundleRecords, ISOLooks
<1>4. GuestOnDisk'
  BY MediaAssumption DEF InstallInv, InstallTypesOK, GuestOnDisk, DriverRecords, ISOLooks
<1>5. InstallOrder'
  BY MediaAssumption DEF InstallInv, InstallTypesOK, InstallOrder, Installing, DriverRecords,
     BundleRecords, ISOLooks
<1>6. KeysBeforeWindows'
  BY MediaAssumption DEF InstallInv, InstallTypesOK, KeysBeforeWindows, GuestOnDisk, ISOLooks
<1> QED  BY <1>1, <1>2, <1>3, <1>4, <1>5, <1>6 DEF InstallInv

LEMMA ISOFetchesKeeps ==
  ASSUME InstallInv, ISOFetches, UNCHANGED <<guestVars, driver, installed, mistyped, halfway>>
  PROVE  InstallInv'
<1>1. InstallTypesOK'
  <2>1. iso' \in ISORecords
    BY MediaAssumption DEF InstallInv, InstallTypesOK, ISORecords, ISOPCs, MediaWhole,
       ISOFetches
  <2>2. esd' \in EsdRecords
    BY MediaAssumption DEF InstallInv, InstallTypesOK, EsdRecords, ISORecords, ISOFetches
  <2> QED  BY <2>1, <2>2 DEF InstallInv, InstallTypesOK, ISOFetches
<1>2. MediaHeld'
  BY MediaAssumption DEF InstallInv, InstallTypesOK, MediaHeld, ISORecords, DriverRecords,
     ISOFetches
<1>3. MediaWhole'
  BY MediaAssumption DEF InstallInv, InstallTypesOK, MediaHeld, MediaWhole, ISORecords,
     EsdRecords, BuiltRecords, DriverRecords, BundleRecords, ISOFetches
<1>4. GuestOnDisk'
  BY MediaAssumption DEF InstallInv, InstallTypesOK, GuestOnDisk, DriverRecords, ISOFetches
<1>5. InstallOrder'
  BY MediaAssumption DEF InstallInv, InstallTypesOK, InstallOrder, Installing, DriverRecords,
     BundleRecords, ISOFetches
<1>6. KeysBeforeWindows'
  BY MediaAssumption DEF InstallInv, InstallTypesOK, KeysBeforeWindows, GuestOnDisk, ISOFetches
<1> QED  BY <1>1, <1>2, <1>3, <1>4, <1>5, <1>6 DEF InstallInv

LEMMA ISODigestsKeeps ==
  ASSUME InstallInv, ISODigests, UNCHANGED <<guestVars, driver, installed, mistyped, halfway>>
  PROVE  InstallInv'
<1>1. InstallTypesOK'
  BY MediaAssumption DEF InstallInv, InstallTypesOK, ISORecords, EsdRecords, BuiltRecords,
     DriverRecords, BundleRecords, ISOPCs, Installing, Guests, MediaWhole, ISODigests
<1>2. MediaHeld'
  BY MediaAssumption DEF InstallInv, InstallTypesOK, MediaHeld, ISORecords, DriverRecords,
     ISODigests
<1>3. MediaWhole'
  BY MediaAssumption DEF InstallInv, InstallTypesOK, MediaHeld, MediaWhole, ISORecords,
     EsdRecords, BuiltRecords, DriverRecords, BundleRecords, ISODigests
<1>4. GuestOnDisk'
  BY MediaAssumption DEF InstallInv, InstallTypesOK, GuestOnDisk, DriverRecords, ISODigests
<1>5. InstallOrder'
  BY MediaAssumption DEF InstallInv, InstallTypesOK, InstallOrder, Installing, DriverRecords,
     BundleRecords, ISODigests
<1>6. KeysBeforeWindows'
  BY MediaAssumption DEF InstallInv, InstallTypesOK, KeysBeforeWindows, GuestOnDisk, ISODigests
<1> QED  BY <1>1, <1>2, <1>3, <1>4, <1>5, <1>6 DEF InstallInv

LEMMA ISOExpandsKeeps ==
  ASSUME InstallInv, ISOExpands, UNCHANGED <<guestVars, driver, installed, mistyped, halfway>>
  PROVE  InstallInv'
<1>1. InstallTypesOK'
  BY MediaAssumption DEF InstallInv, InstallTypesOK, ISORecords, EsdRecords, BuiltRecords,
     DriverRecords, BundleRecords, ISOPCs, Installing, Guests, MediaWhole, ISOExpands
<1>2. MediaHeld'
  BY MediaAssumption DEF InstallInv, InstallTypesOK, MediaHeld, ISORecords, DriverRecords,
     ISOExpands
<1>3. MediaWhole'
  BY MediaAssumption DEF InstallInv, InstallTypesOK, MediaHeld, MediaWhole, ISORecords,
     EsdRecords, BuiltRecords, DriverRecords, BundleRecords, ISOExpands
<1>4. GuestOnDisk'
  BY MediaAssumption DEF InstallInv, InstallTypesOK, GuestOnDisk, DriverRecords, ISOExpands
<1>5. InstallOrder'
  BY MediaAssumption DEF InstallInv, InstallTypesOK, InstallOrder, Installing, DriverRecords,
     BundleRecords, ISOExpands
<1>6. KeysBeforeWindows'
  BY MediaAssumption DEF InstallInv, InstallTypesOK, KeysBeforeWindows, GuestOnDisk, ISOExpands
<1> QED  BY <1>1, <1>2, <1>3, <1>4, <1>5, <1>6 DEF InstallInv

LEMMA ISOMastersKeeps ==
  ASSUME InstallInv, ISOMasters, UNCHANGED <<guestVars, driver, installed, mistyped, halfway>>
  PROVE  InstallInv'
<1>1. InstallTypesOK'
  <2>1. theirs' \in {"none", "arm64", "other"} /\ maimed' \in BOOLEAN /\ builds' \in Nat
    BY MediaAssumption DEF InstallInv, InstallTypesOK, ISOMasters
  <2>2. iso' \in ISORecords
    BY MediaAssumption DEF InstallInv, InstallTypesOK, ISORecords, ISOPCs, MediaWhole,
       ISOMasters
  <2>3. built' \in BuiltRecords
    <3>1. NoBuilt \in BuiltRecords /\ builds + 1 \in Nat
      BY MediaAssumption DEF InstallInv, InstallTypesOK, BuiltRecords
    <3>2. \A b \in BuiltRecords, n \in Nat : [b EXCEPT !.id = n] \in BuiltRecords
      BY MediaAssumption DEF InstallInv, InstallTypesOK, BuiltRecords
    <3>3. [NoBuilt EXCEPT !.id = builds + 1] \in BuiltRecords  BY <3>1, <3>2
    <3> QED  BY <3>1, <3>2, <3>3 DEF InstallInv, InstallTypesOK, ISOMasters
  <2> QED  BY <2>1, <2>2, <2>3 DEF InstallInv, InstallTypesOK, ISOMasters
<1>2. MediaHeld'
  BY MediaAssumption DEF InstallInv, InstallTypesOK, MediaHeld, ISORecords, DriverRecords,
     ISOMasters
<1>3. MediaWhole'
  BY MediaAssumption DEF InstallInv, InstallTypesOK, MediaHeld, MediaWhole, ISORecords,
     EsdRecords, BuiltRecords, DriverRecords, BundleRecords, ISOMasters
<1>4. GuestOnDisk'
  BY MediaAssumption DEF InstallInv, InstallTypesOK, GuestOnDisk, DriverRecords, ISOMasters
<1>5. InstallOrder'
  BY MediaAssumption DEF InstallInv, InstallTypesOK, InstallOrder, Installing, DriverRecords,
     BundleRecords, ISOMasters
<1>6. KeysBeforeWindows'
  BY MediaAssumption DEF InstallInv, InstallTypesOK, KeysBeforeWindows, GuestOnDisk, ISOMasters
<1> QED  BY <1>1, <1>2, <1>3, <1>4, <1>5, <1>6 DEF InstallInv

LEMMA ISOMasteredKeeps ==
  ASSUME InstallInv, ISOMastered, UNCHANGED <<guestVars, driver, installed, mistyped, halfway>>
  PROVE  InstallInv'
<1>1. InstallTypesOK'
  <2>1. theirs' \in {"none", "arm64", "other"} /\ maimed' \in BOOLEAN /\ builds' \in Nat
    BY MediaAssumption DEF InstallInv, InstallTypesOK, ISOMastered
  <2>2. iso' \in ISORecords
    BY MediaAssumption DEF InstallInv, InstallTypesOK, ISORecords, ISOPCs, MediaWhole,
       ISOMastered
  <2>3. built' \in BuiltRecords
    <3>1. [built EXCEPT !.whole = TRUE] \in BuiltRecords
      BY MediaAssumption DEF InstallInv, InstallTypesOK, BuiltRecords
    <3>2. NoBuilt \in BuiltRecords
      BY MediaAssumption DEF InstallInv, InstallTypesOK, BuiltRecords
    <3> QED  BY <3>1, <3>2 DEF InstallInv, InstallTypesOK, ISOMastered
  <2> QED  BY <2>1, <2>2, <2>3 DEF InstallInv, InstallTypesOK, ISOMastered
<1>2. MediaHeld'
  BY MediaAssumption DEF InstallInv, InstallTypesOK, MediaHeld, ISORecords, DriverRecords,
     ISOMastered
<1>3. MediaWhole'
  BY MediaAssumption DEF InstallInv, InstallTypesOK, MediaHeld, MediaWhole, ISORecords,
     EsdRecords, BuiltRecords, DriverRecords, BundleRecords, ISOMastered
<1>4. GuestOnDisk'
  BY MediaAssumption DEF InstallInv, InstallTypesOK, GuestOnDisk, DriverRecords, ISOMastered
<1>5. InstallOrder'
  BY MediaAssumption DEF InstallInv, InstallTypesOK, InstallOrder, Installing, DriverRecords,
     BundleRecords, ISOMastered
<1>6. KeysBeforeWindows'
  BY MediaAssumption DEF InstallInv, InstallTypesOK, KeysBeforeWindows, GuestOnDisk, ISOMastered
<1> QED  BY <1>1, <1>2, <1>3, <1>4, <1>5, <1>6 DEF InstallInv

LEMMA ISONotesKeeps ==
  ASSUME InstallInv, ISONotes, UNCHANGED <<guestVars, driver, installed, mistyped, halfway>>
  PROVE  InstallInv'
<1>1. InstallTypesOK'
  BY MediaAssumption DEF InstallInv, InstallTypesOK, ISORecords, EsdRecords, BuiltRecords,
     DriverRecords, BundleRecords, ISOPCs, Installing, Guests, MediaWhole, ISONotes
<1>2. MediaHeld'
  BY MediaAssumption DEF InstallInv, InstallTypesOK, MediaHeld, ISORecords, DriverRecords,
     ISONotes
<1>3. MediaWhole'
  BY MediaAssumption DEF InstallInv, InstallTypesOK, MediaHeld, MediaWhole, ISORecords,
     EsdRecords, BuiltRecords, DriverRecords, BundleRecords, ISONotes
<1>4. GuestOnDisk'
  BY MediaAssumption DEF InstallInv, InstallTypesOK, GuestOnDisk, DriverRecords, ISONotes
<1>5. InstallOrder'
  BY MediaAssumption DEF InstallInv, InstallTypesOK, InstallOrder, Installing, DriverRecords,
     BundleRecords, ISONotes
<1>6. KeysBeforeWindows'
  BY MediaAssumption DEF InstallInv, InstallTypesOK, KeysBeforeWindows, GuestOnDisk, ISONotes
<1> QED  BY <1>1, <1>2, <1>3, <1>4, <1>5, <1>6 DEF InstallInv

LEMMA ISODiesKeeps ==
  ASSUME InstallInv, ISODies, UNCHANGED <<guestVars, driver, installed, mistyped, halfway>>
  PROVE  InstallInv'
<1>1. InstallTypesOK'
  BY MediaAssumption DEF InstallInv, InstallTypesOK, ISORecords, EsdRecords, BuiltRecords,
     DriverRecords, BundleRecords, ISOPCs, Installing, Guests, MediaWhole, ISODies
<1>2. MediaHeld'
  BY MediaAssumption DEF InstallInv, InstallTypesOK, MediaHeld, ISORecords, DriverRecords,
     ISODies
<1>3. MediaWhole'
  BY MediaAssumption DEF InstallInv, InstallTypesOK, MediaHeld, MediaWhole, ISORecords,
     EsdRecords, BuiltRecords, DriverRecords, BundleRecords, ISODies
<1>4. GuestOnDisk'
  BY MediaAssumption DEF InstallInv, InstallTypesOK, GuestOnDisk, DriverRecords, ISODies
<1>5. InstallOrder'
  BY MediaAssumption DEF InstallInv, InstallTypesOK, InstallOrder, Installing, DriverRecords,
     BundleRecords, ISODies
<1>6. KeysBeforeWindows'
  BY MediaAssumption DEF InstallInv, InstallTypesOK, KeysBeforeWindows, GuestOnDisk, ISODies
<1> QED  BY <1>1, <1>2, <1>3, <1>4, <1>5, <1>6 DEF InstallInv

LEMMA EraseBeginsKeeps ==
  ASSUME InstallInv, EraseBegins, UNCHANGED <<guestVars, driver, installed, mistyped, halfway>>
  PROVE  InstallInv'
<1>1. InstallTypesOK'
  BY MediaAssumption DEF InstallInv, InstallTypesOK, ISORecords, EsdRecords, BuiltRecords,
     DriverRecords, BundleRecords, ISOPCs, Installing, Guests, MediaWhole, EraseBegins
<1>2. MediaHeld'
  BY MediaAssumption DEF InstallInv, InstallTypesOK, MediaHeld, ISORecords, DriverRecords,
     EraseBegins
<1>3. MediaWhole'
  BY MediaAssumption DEF InstallInv, InstallTypesOK, MediaHeld, MediaWhole, ISORecords,
     EsdRecords, BuiltRecords, DriverRecords, BundleRecords, EraseBegins
<1>4. GuestOnDisk'
  BY MediaAssumption DEF InstallInv, InstallTypesOK, GuestOnDisk, DriverRecords, EraseBegins
<1>5. InstallOrder'
  BY MediaAssumption DEF InstallInv, InstallTypesOK, InstallOrder, Installing, DriverRecords,
     BundleRecords, EraseBegins
<1>6. KeysBeforeWindows'
  BY MediaAssumption DEF InstallInv, InstallTypesOK, KeysBeforeWindows, GuestOnDisk, EraseBegins
<1> QED  BY <1>1, <1>2, <1>3, <1>4, <1>5, <1>6 DEF InstallInv

LEMMA ErasesTheirsKeeps ==
  ASSUME InstallInv, ErasesTheirs, UNCHANGED <<guestVars, driver, installed, mistyped, halfway>>
  PROVE  InstallInv'
<1>1. InstallTypesOK'
  <2>1. theirs' \in {"none", "arm64", "other"} /\ maimed' \in BOOLEAN /\ builds' \in Nat
    BY MediaAssumption DEF InstallInv, InstallTypesOK, ErasesTheirs
  <2>2. erase' \in {"idle", "theirs", "built"}
    BY MediaAssumption DEF InstallInv, InstallTypesOK, ErasesTheirs
  <2> QED  BY <2>1, <2>2 DEF InstallInv, InstallTypesOK, ErasesTheirs
<1>2. MediaHeld'
  BY MediaAssumption DEF InstallInv, InstallTypesOK, MediaHeld, ISORecords, DriverRecords,
     ErasesTheirs
<1>3. MediaWhole'
  BY MediaAssumption DEF InstallInv, InstallTypesOK, MediaHeld, MediaWhole, ISORecords,
     EsdRecords, BuiltRecords, DriverRecords, BundleRecords, ErasesTheirs
<1>4. GuestOnDisk'
  BY MediaAssumption DEF InstallInv, InstallTypesOK, GuestOnDisk, DriverRecords, ErasesTheirs
<1>5. InstallOrder'
  BY MediaAssumption DEF InstallInv, InstallTypesOK, InstallOrder, Installing, DriverRecords,
     BundleRecords, ErasesTheirs
<1>6. KeysBeforeWindows'
  BY MediaAssumption DEF InstallInv, InstallTypesOK, KeysBeforeWindows, GuestOnDisk,
     ErasesTheirs
<1> QED  BY <1>1, <1>2, <1>3, <1>4, <1>5, <1>6 DEF InstallInv

LEMMA ErasesBuiltKeeps ==
  ASSUME InstallInv, ErasesBuilt, UNCHANGED <<guestVars, driver, installed, mistyped, halfway>>
  PROVE  InstallInv'
<1>1. InstallTypesOK'
  BY MediaAssumption DEF InstallInv, InstallTypesOK, ISORecords, EsdRecords, BuiltRecords,
     DriverRecords, BundleRecords, ISOPCs, Installing, Guests, MediaWhole, ErasesBuilt
<1>2. MediaHeld'
  BY MediaAssumption DEF InstallInv, InstallTypesOK, MediaHeld, ISORecords, DriverRecords,
     ErasesBuilt
<1>3. MediaWhole'
  BY MediaAssumption DEF InstallInv, InstallTypesOK, MediaHeld, MediaWhole, ISORecords,
     EsdRecords, BuiltRecords, DriverRecords, BundleRecords, ErasesBuilt
<1>4. GuestOnDisk'
  BY MediaAssumption DEF InstallInv, InstallTypesOK, GuestOnDisk, DriverRecords, ErasesBuilt
<1>5. InstallOrder'
  BY MediaAssumption DEF InstallInv, InstallTypesOK, InstallOrder, Installing, DriverRecords,
     BundleRecords, ErasesBuilt
<1>6. KeysBeforeWindows'
  BY MediaAssumption DEF InstallInv, InstallTypesOK, KeysBeforeWindows, GuestOnDisk, ErasesBuilt
<1> QED  BY <1>1, <1>2, <1>3, <1>4, <1>5, <1>6 DEF InstallInv

LEMMA EraseDiesKeeps ==
  ASSUME InstallInv, EraseDies, UNCHANGED <<guestVars, driver, installed, mistyped, halfway>>
  PROVE  InstallInv'
<1>1. InstallTypesOK'
  BY MediaAssumption DEF InstallInv, InstallTypesOK, ISORecords, EsdRecords, BuiltRecords,
     DriverRecords, BundleRecords, ISOPCs, Installing, Guests, MediaWhole, EraseDies
<1>2. MediaHeld'
  BY MediaAssumption DEF InstallInv, InstallTypesOK, MediaHeld, ISORecords, DriverRecords,
     EraseDies
<1>3. MediaWhole'
  BY MediaAssumption DEF InstallInv, InstallTypesOK, MediaHeld, MediaWhole, ISORecords,
     EsdRecords, BuiltRecords, DriverRecords, BundleRecords, EraseDies
<1>4. GuestOnDisk'
  BY MediaAssumption DEF InstallInv, InstallTypesOK, GuestOnDisk, DriverRecords, EraseDies
<1>5. InstallOrder'
  BY MediaAssumption DEF InstallInv, InstallTypesOK, InstallOrder, Installing, DriverRecords,
     BundleRecords, EraseDies
<1>6. KeysBeforeWindows'
  BY MediaAssumption DEF InstallInv, InstallTypesOK, KeysBeforeWindows, GuestOnDisk, EraseDies
<1> QED  BY <1>1, <1>2, <1>3, <1>4, <1>5, <1>6 DEF InstallInv

LEMMA BootsKeeps ==
  ASSUME InstallInv, Boots
  PROVE  InstallInv'
<1>1. InstallTypesOK'
  BY MediaAssumption DEF InstallInv, InstallTypesOK, ISORecords, EsdRecords, BuiltRecords,
     DriverRecords, BundleRecords, ISOPCs, Installing, Guests, MediaWhole, Boots
<1>2. MediaHeld'
  BY MediaAssumption DEF InstallInv, InstallTypesOK, MediaHeld, ISORecords, DriverRecords, Boots
<1>3. MediaWhole'
  BY MediaAssumption DEF InstallInv, InstallTypesOK, MediaHeld, MediaWhole, ISORecords,
     EsdRecords, BuiltRecords, DriverRecords, BundleRecords, Boots
<1>4. GuestOnDisk'
  BY MediaAssumption DEF InstallInv, InstallTypesOK, GuestOnDisk, DriverRecords, Boots
<1>5. InstallOrder'
  BY MediaAssumption DEF InstallInv, InstallTypesOK, InstallOrder, Installing, DriverRecords,
     BundleRecords, Boots
<1>6. KeysBeforeWindows'
  BY MediaAssumption DEF InstallInv, InstallTypesOK, KeysBeforeWindows, GuestOnDisk, Boots
<1> QED  BY <1>1, <1>2, <1>3, <1>4, <1>5, <1>6 DEF InstallInv

LEMMA SetupWritesKeeps ==
  ASSUME InstallInv, SetupWrites
  PROVE  InstallInv'
<1>1. InstallTypesOK'
  BY MediaAssumption DEF InstallInv, InstallTypesOK, ISORecords, EsdRecords, BuiltRecords,
     DriverRecords, BundleRecords, ISOPCs, Installing, Guests, MediaWhole, SetupWrites
<1>2. MediaHeld'
  BY MediaAssumption DEF InstallInv, InstallTypesOK, MediaHeld, ISORecords, DriverRecords,
     SetupWrites
<1>3. MediaWhole'
  BY MediaAssumption DEF InstallInv, InstallTypesOK, MediaHeld, MediaWhole, ISORecords,
     EsdRecords, BuiltRecords, DriverRecords, BundleRecords, SetupWrites
<1>4. GuestOnDisk'
  BY MediaAssumption DEF InstallInv, InstallTypesOK, GuestOnDisk, DriverRecords, SetupWrites
<1>5. InstallOrder'
  BY MediaAssumption DEF InstallInv, InstallTypesOK, InstallOrder, Installing, DriverRecords,
     BundleRecords, SetupWrites
<1>6. KeysBeforeWindows'
  BY MediaAssumption DEF InstallInv, InstallTypesOK, KeysBeforeWindows, GuestOnDisk, SetupWrites
<1> QED  BY <1>1, <1>2, <1>3, <1>4, <1>5, <1>6 DEF InstallInv

LEMMA SetupRebootsKeeps ==
  ASSUME InstallInv, SetupReboots
  PROVE  InstallInv'
<1>1. InstallTypesOK'
  BY MediaAssumption DEF InstallInv, InstallTypesOK, ISORecords, EsdRecords, BuiltRecords,
     DriverRecords, BundleRecords, ISOPCs, Installing, Guests, MediaWhole, SetupReboots
<1>2. MediaHeld'
  BY MediaAssumption DEF InstallInv, InstallTypesOK, MediaHeld, ISORecords, DriverRecords,
     SetupReboots
<1>3. MediaWhole'
  BY MediaAssumption DEF InstallInv, InstallTypesOK, MediaHeld, MediaWhole, ISORecords,
     EsdRecords, BuiltRecords, DriverRecords, BundleRecords, SetupReboots
<1>4. GuestOnDisk'
  BY MediaAssumption DEF InstallInv, InstallTypesOK, GuestOnDisk, DriverRecords, SetupReboots
<1>5. InstallOrder'
  BY MediaAssumption DEF InstallInv, InstallTypesOK, InstallOrder, Installing, DriverRecords,
     BundleRecords, SetupReboots
<1>6. KeysBeforeWindows'
  BY MediaAssumption DEF InstallInv, InstallTypesOK, KeysBeforeWindows, GuestOnDisk,
     SetupReboots
<1> QED  BY <1>1, <1>2, <1>3, <1>4, <1>5, <1>6 DEF InstallInv

LEMMA LogsOnKeeps ==
  ASSUME InstallInv, LogsOn
  PROVE  InstallInv'
<1>1. InstallTypesOK'
  BY MediaAssumption DEF InstallInv, InstallTypesOK, ISORecords, EsdRecords, BuiltRecords,
     DriverRecords, BundleRecords, ISOPCs, Installing, Guests, MediaWhole, LogsOn
<1>2. MediaHeld'
  BY MediaAssumption DEF InstallInv, InstallTypesOK, MediaHeld, ISORecords, DriverRecords,
     LogsOn
<1>3. MediaWhole'
  BY MediaAssumption DEF InstallInv, InstallTypesOK, MediaHeld, MediaWhole, ISORecords,
     EsdRecords, BuiltRecords, DriverRecords, BundleRecords, LogsOn
<1>4. GuestOnDisk'
  BY MediaAssumption DEF InstallInv, InstallTypesOK, GuestOnDisk, DriverRecords, LogsOn
<1>5. InstallOrder'
  BY MediaAssumption DEF InstallInv, InstallTypesOK, InstallOrder, Installing, DriverRecords,
     BundleRecords, LogsOn
<1>6. KeysBeforeWindows'
  BY MediaAssumption DEF InstallInv, InstallTypesOK, KeysBeforeWindows, GuestOnDisk, LogsOn
<1> QED  BY <1>1, <1>2, <1>3, <1>4, <1>5, <1>6 DEF InstallInv

LEMMA FirstLogonEndsKeeps ==
  ASSUME InstallInv, FirstLogonEnds
  PROVE  InstallInv'
<1>1. InstallTypesOK'
  BY MediaAssumption DEF InstallInv, InstallTypesOK, ISORecords, EsdRecords, BuiltRecords,
     DriverRecords, BundleRecords, ISOPCs, Installing, Guests, MediaWhole, FirstLogonEnds
<1>2. MediaHeld'
  BY MediaAssumption DEF InstallInv, InstallTypesOK, MediaHeld, ISORecords, DriverRecords,
     FirstLogonEnds
<1>3. MediaWhole'
  BY MediaAssumption DEF InstallInv, InstallTypesOK, MediaHeld, MediaWhole, ISORecords,
     EsdRecords, BuiltRecords, DriverRecords, BundleRecords, FirstLogonEnds
<1>4. GuestOnDisk'
  BY MediaAssumption DEF InstallInv, InstallTypesOK, GuestOnDisk, DriverRecords, FirstLogonEnds
<1>5. InstallOrder'
  BY MediaAssumption DEF InstallInv, InstallTypesOK, InstallOrder, Installing, DriverRecords,
     BundleRecords, FirstLogonEnds
<1>6. KeysBeforeWindows'
  BY MediaAssumption DEF InstallInv, InstallTypesOK, KeysBeforeWindows, GuestOnDisk,
     FirstLogonEnds
<1> QED  BY <1>1, <1>2, <1>3, <1>4, <1>5, <1>6 DEF InstallInv

LEMMA OwnerActsKeeps ==
  ASSUME InstallInv, OwnerActs
  PROVE  InstallInv'
<1>1. InstallTypesOK'
  BY MediaAssumption DEF InstallInv, InstallTypesOK, ISORecords, EsdRecords, BuiltRecords,
     DriverRecords, BundleRecords, ISOPCs, Installing, Guests, MediaWhole, OwnerActs
<1>2. MediaHeld'
  BY MediaAssumption DEF InstallInv, InstallTypesOK, MediaHeld, ISORecords, DriverRecords,
     OwnerActs
<1>3. MediaWhole'
  BY MediaAssumption DEF InstallInv, InstallTypesOK, MediaHeld, MediaWhole, ISORecords,
     EsdRecords, BuiltRecords, DriverRecords, BundleRecords, OwnerActs
<1>4. GuestOnDisk'
  BY MediaAssumption DEF InstallInv, InstallTypesOK, GuestOnDisk, DriverRecords, OwnerActs
<1>5. InstallOrder'
  BY MediaAssumption DEF InstallInv, InstallTypesOK, InstallOrder, Installing, DriverRecords,
     BundleRecords, OwnerActs
<1>6. KeysBeforeWindows'
  BY MediaAssumption DEF InstallInv, InstallTypesOK, KeysBeforeWindows, GuestOnDisk, OwnerActs
<1> QED  BY <1>1, <1>2, <1>3, <1>4, <1>5, <1>6 DEF InstallInv

LEMMA InstallBeginsKeeps ==
  ASSUME InstallInv, InstallBegins
  PROVE  InstallInv'
<1>1. InstallTypesOK'
  <2>1. driver' \in DriverRecords
    BY MediaAssumption DEF InstallInv, InstallTypesOK, DriverRecords, Installing, InstallBegins
  <2> QED  BY <2>1 DEF InstallInv, InstallTypesOK, InstallBegins
<1>2. MediaHeld'
  BY MediaAssumption DEF InstallInv, InstallTypesOK, MediaHeld, ISORecords, DriverRecords,
     InstallBegins
<1>3. MediaWhole'
  BY MediaAssumption DEF InstallInv, InstallTypesOK, MediaHeld, MediaWhole, ISORecords,
     EsdRecords, BuiltRecords, DriverRecords, BundleRecords, InstallBegins
<1>4. GuestOnDisk'
  BY MediaAssumption DEF InstallInv, InstallTypesOK, GuestOnDisk, DriverRecords, InstallBegins
<1>5. InstallOrder'
  BY MediaAssumption DEF InstallInv, InstallTypesOK, InstallOrder, Installing, DriverRecords,
     BundleRecords, InstallBegins
<1>6. KeysBeforeWindows'
  BY MediaAssumption DEF InstallInv, InstallTypesOK, KeysBeforeWindows, GuestOnDisk,
     InstallBegins
<1> QED  BY <1>1, <1>2, <1>3, <1>4, <1>5, <1>6 DEF InstallInv

LEMMA InstallProtectsKeeps ==
  ASSUME InstallInv, InstallProtects
  PROVE  InstallInv'
<1>1. InstallTypesOK'
  <2>1. built' \in BuiltRecords
    BY MediaAssumption DEF InstallInv, InstallTypesOK, BuiltRecords, InstallProtects
  <2>2. driver' \in DriverRecords
    BY MediaAssumption DEF InstallInv, InstallTypesOK, DriverRecords, Installing,
       InstallProtects
  <2> QED  BY <2>1, <2>2 DEF InstallInv, InstallTypesOK, InstallProtects
<1>2. MediaHeld'
  BY MediaAssumption DEF InstallInv, InstallTypesOK, MediaHeld, ISORecords, DriverRecords,
     InstallProtects
<1>3. MediaWhole'
  BY MediaAssumption DEF InstallInv, InstallTypesOK, MediaHeld, MediaWhole, ISORecords,
     EsdRecords, BuiltRecords, DriverRecords, BundleRecords, InstallProtects
<1>4. GuestOnDisk'
  BY MediaAssumption DEF InstallInv, InstallTypesOK, GuestOnDisk, DriverRecords, InstallProtects
<1>5. InstallOrder'
  BY MediaAssumption DEF InstallInv, InstallTypesOK, InstallOrder, Installing, DriverRecords,
     BundleRecords, InstallProtects
<1>6. KeysBeforeWindows'
  BY MediaAssumption DEF InstallInv, InstallTypesOK, KeysBeforeWindows, GuestOnDisk,
     InstallProtects
<1> QED  BY <1>1, <1>2, <1>3, <1>4, <1>5, <1>6 DEF InstallInv

LEMMA InstallLocksKeeps ==
  ASSUME InstallInv, InstallLocks
  PROVE  InstallInv'
<1>1. InstallTypesOK'
  <2>1. driver' \in DriverRecords
    <3>1. [driver EXCEPT !.pc = "ask"] \in DriverRecords /\ [driver EXCEPT !.pc = "copy"] \in
       DriverRecords
      BY MediaAssumption DEF InstallInv, InstallTypesOK, DriverRecords, Installing
    <3>2. IdleDriver \in DriverRecords
      BY MediaAssumption DEF InstallInv, InstallTypesOK, DriverRecords, Installing
    <3> QED  BY <3>1, <3>2 DEF InstallInv, InstallTypesOK, InstallLocks
  <2> QED  BY <2>1 DEF InstallInv, InstallTypesOK, InstallLocks
<1>2. MediaHeld'
  BY MediaAssumption DEF InstallInv, InstallTypesOK, MediaHeld, ISORecords, DriverRecords,
     InstallLocks
<1>3. MediaWhole'
  BY MediaAssumption DEF InstallInv, InstallTypesOK, MediaHeld, MediaWhole, ISORecords,
     EsdRecords, BuiltRecords, DriverRecords, BundleRecords, InstallLocks
<1>4. GuestOnDisk'
  BY MediaAssumption DEF InstallInv, InstallTypesOK, GuestOnDisk, DriverRecords, InstallLocks
<1>5. InstallOrder'
  BY MediaAssumption DEF InstallInv, InstallTypesOK, InstallOrder, Installing, DriverRecords,
     BundleRecords, InstallLocks
<1>6. KeysBeforeWindows'
  BY MediaAssumption DEF InstallInv, InstallTypesOK, KeysBeforeWindows, GuestOnDisk,
     InstallLocks
<1> QED  BY <1>1, <1>2, <1>3, <1>4, <1>5, <1>6 DEF InstallInv

LEMMA InstallBundlesKeeps ==
  ASSUME InstallInv, InstallBundles
  PROVE  InstallInv'
<1>1. InstallTypesOK'
  <2>1. driver' \in DriverRecords
    <3>1. [driver EXCEPT !.pc = "ask"] \in DriverRecords
      BY MediaAssumption DEF InstallInv, InstallTypesOK, DriverRecords, Installing
    <3>2. IdleDriver \in DriverRecords
      BY MediaAssumption DEF InstallInv, InstallTypesOK, DriverRecords, Installing
    <3> QED  BY <3>1, <3>2 DEF InstallInv, InstallTypesOK, InstallBundles
  <2>2. bundle' \in BundleRecords
    <3>1. built.whole \in BOOLEAN
      BY MediaAssumption DEF InstallInv, InstallTypesOK, BundleRecords, BuiltRecords
    <3>2. \A w, x, y \in BOOLEAN :
          [there |-> TRUE, cd |-> TRUE, whole |-> w, arm |-> y, self |-> x] \in BundleRecords
      BY MediaAssumption DEF InstallInv, InstallTypesOK, BundleRecords, BuiltRecords
    <3> QED  BY <3>1, <3>2 DEF InstallInv, InstallTypesOK, InstallBundles
  <2> QED  BY <2>1, <2>2 DEF InstallInv, InstallTypesOK, InstallBundles
<1>2. MediaHeld'
  BY MediaAssumption DEF InstallInv, InstallTypesOK, MediaHeld, ISORecords, DriverRecords,
     InstallBundles
<1>3. MediaWhole'
  <2>1. UNCHANGED <<iso, esd, built, maimed>> /\ ~ISOAt("mastering") /\ (halfway => halfway')
    BY DEF InstallInv, MediaHeld, InstallBundles
  <2>2. bundle'.there => bundle'.whole \/ maimed \/ halfway'
    <3>1. CASE UNCHANGED bundle
      BY <2>1, <3>1 DEF InstallInv, MediaWhole
    <3>2. CASE halfway'
      BY <3>2
    <3>3. CASE ~halfway' /\ bundle' # bundle
      <4> DEFINE mine == driver.media = "built"
                 w == mine => built.whole
      <4>1. /\ ~(IF mine THEN built.id = 0 ELSE theirs = "none")
            /\ bundle' = [there |-> TRUE, cd |-> TRUE, whole |-> w,
                          arm |-> mine \/ theirs = "arm64", self |-> mine]
        BY <3>3 DEF InstallBundles
      <4>2. bundle'.whole = w /\ (mine => built.id # 0)
        BY <4>1
      <4>3. w \/ maimed
        BY <2>1, <4>2 DEF InstallInv, MediaWhole
      <4> HIDE DEF w
      <4> QED  BY <4>2, <4>3
    <3> QED  BY <3>1, <3>2, <3>3
  <2> QED  BY <2>1, <2>2 DEF InstallInv, MediaWhole
<1>4. GuestOnDisk'
  BY MediaAssumption DEF InstallInv, InstallTypesOK, GuestOnDisk, DriverRecords, InstallBundles
<1>5. InstallOrder'
  BY MediaAssumption DEF InstallInv, InstallTypesOK, InstallOrder, Installing, DriverRecords,
     BundleRecords, InstallBundles
<1>6. KeysBeforeWindows'
  BY MediaAssumption DEF InstallInv, InstallTypesOK, KeysBeforeWindows, GuestOnDisk,
     InstallBundles
<1> QED  BY <1>1, <1>2, <1>3, <1>4, <1>5, <1>6 DEF InstallInv

LEMMA InstallAsksKeeps ==
  ASSUME InstallInv, InstallAsks
  PROVE  InstallInv'
<1>1. InstallTypesOK'
  <2>1. driver' \in DriverRecords
    <3>1. [driver EXCEPT !.pc = "inspect"] \in DriverRecords
      BY MediaAssumption DEF InstallInv, InstallTypesOK, DriverRecords, Installing
    <3>2. IdleDriver \in DriverRecords
      BY MediaAssumption DEF InstallInv, InstallTypesOK, DriverRecords, Installing
    <3> QED  BY <3>1, <3>2 DEF InstallInv, InstallTypesOK, InstallAsks
  <2>2. disk' \in {"empty", "some", "windows"} /\ guest' \in Guests
    BY MediaAssumption DEF InstallInv, InstallTypesOK, Guests, InstallAsks
  <2> QED  BY <2>1, <2>2 DEF InstallInv, InstallTypesOK, InstallAsks
<1>2. MediaHeld'
  BY MediaAssumption DEF InstallInv, InstallTypesOK, MediaHeld, ISORecords, DriverRecords,
     InstallAsks
<1>3. MediaWhole'
  BY MediaAssumption DEF InstallInv, InstallTypesOK, MediaHeld, MediaWhole, ISORecords,
     EsdRecords, BuiltRecords, DriverRecords, BundleRecords, InstallAsks
<1>4. GuestOnDisk'
  BY MediaAssumption DEF InstallInv, InstallTypesOK, GuestOnDisk, DriverRecords, InstallAsks
<1>5. InstallOrder'
  BY MediaAssumption DEF InstallInv, InstallTypesOK, InstallOrder, Installing, DriverRecords,
     BundleRecords, InstallAsks
<1>6. KeysBeforeWindows'
  BY MediaAssumption DEF InstallInv, InstallTypesOK, KeysBeforeWindows, GuestOnDisk, InstallAsks
<1> QED  BY <1>1, <1>2, <1>3, <1>4, <1>5, <1>6 DEF InstallInv

LEMMA InstallInspectsKeeps ==
  ASSUME InstallInv, InstallInspects
  PROVE  InstallInv'
<1>1. InstallTypesOK'
  <2>1. driver' \in DriverRecords
    <3>1. [driver EXCEPT !.pc = "wait"] \in DriverRecords /\ [driver EXCEPT !.pc = "drive"] \in
       DriverRecords
      BY MediaAssumption DEF InstallInv, InstallTypesOK, DriverRecords, Installing
    <3>2. IdleDriver \in DriverRecords
      BY MediaAssumption DEF InstallInv, InstallTypesOK, DriverRecords, Installing
    <3> QED  BY <3>1, <3>2 DEF InstallInv, InstallTypesOK, InstallInspects
  <2>2. disk' \in {"empty", "some", "windows"} /\ guest' \in Guests
    BY MediaAssumption DEF InstallInv, InstallTypesOK, Guests, InstallInspects
  <2> QED  BY <2>1, <2>2 DEF InstallInv, InstallTypesOK, InstallInspects
<1>2. MediaHeld'
  BY MediaAssumption DEF InstallInv, InstallTypesOK, MediaHeld, ISORecords, DriverRecords,
     InstallInspects
<1>3. MediaWhole'
  BY MediaAssumption DEF InstallInv, InstallTypesOK, MediaHeld, MediaWhole, ISORecords,
     EsdRecords, BuiltRecords, DriverRecords, BundleRecords, InstallInspects
<1>4. GuestOnDisk'
  BY MediaAssumption DEF InstallInv, InstallTypesOK, GuestOnDisk, DriverRecords, InstallInspects
<1>5. InstallOrder'
  BY MediaAssumption DEF InstallInv, InstallTypesOK, InstallOrder, Installing, DriverRecords,
     BundleRecords, InstallInspects
<1>6. KeysBeforeWindows'
  BY MediaAssumption DEF InstallInv, InstallTypesOK, KeysBeforeWindows, GuestOnDisk, InstallInspects
<1> QED  BY <1>1, <1>2, <1>3, <1>4, <1>5, <1>6 DEF InstallInv

LEMMA InstallDrivesKeeps ==
  ASSUME InstallInv, InstallDrives
  PROVE  InstallInv'
<1>1. InstallTypesOK'
  <2>1. built' \in BuiltRecords
    BY MediaAssumption DEF InstallInv, InstallTypesOK, BuiltRecords, InstallDrives
  <2>2. driver' \in DriverRecords
    BY MediaAssumption DEF InstallInv, InstallTypesOK, DriverRecords, Installing, InstallDrives
  <2>3. disk' \in {"empty", "some", "windows"} /\ guest' \in Guests
    BY MediaAssumption DEF InstallInv, InstallTypesOK, Guests, InstallDrives
  <2> QED  BY <2>1, <2>2, <2>3 DEF InstallInv, InstallTypesOK, InstallDrives
<1>2. MediaHeld'
  BY MediaAssumption DEF InstallInv, InstallTypesOK, MediaHeld, ISORecords, DriverRecords,
     InstallDrives
<1>3. MediaWhole'
  BY MediaAssumption DEF InstallInv, InstallTypesOK, MediaHeld, MediaWhole, ISORecords,
     EsdRecords, BuiltRecords, DriverRecords, BundleRecords, InstallDrives
<1>4. GuestOnDisk'
  BY MediaAssumption DEF InstallInv, InstallTypesOK, GuestOnDisk, DriverRecords, InstallDrives
<1>5. InstallOrder'
  BY MediaAssumption DEF InstallInv, InstallTypesOK, InstallOrder, Installing, DriverRecords,
     BundleRecords, InstallDrives
<1>6. KeysBeforeWindows'
  BY MediaAssumption DEF InstallInv, InstallTypesOK, KeysBeforeWindows, GuestOnDisk,
     InstallDrives
<1> QED  BY <1>1, <1>2, <1>3, <1>4, <1>5, <1>6 DEF InstallInv

LEMMA InstallSamplesKeeps ==
  ASSUME InstallInv, InstallSamples
  PROVE  InstallInv'
<1>1. /\ DriverAt("sample") /\ UNCHANGED <<mediaVars, guestVars, installed, mistyped, halfway>>
      /\ driver \in DriverRecords /\ disk \in {"empty", "some", "windows"}
  BY DEF InstallSamples, InstallInv, InstallTypesOK
<1> DEFINE Sampled ==
             /\ driver' \in DriverRecords /\ driver'.pc \in {"sample", "idle", "finish", "typing"}
             /\ driver'.pc = "typing" => driver'.blind \/ disk # "windows"
<1>2. Sampled
  <2>1. ASSUME DriverTo("finish") PROVE Sampled
    BY <1>1, <2>1 DEF DriverRecords, Installing
  <2>2. ASSUME NEW read \in DiskRead, driver' = [driver EXCEPT !.seen = read] PROVE Sampled
    BY <1>1, <2>2 DEF DriverRecords, Installing
  <2>3. ASSUME NEW read \in DiskRead, read = "empty", Stalls(read) PROVE Sampled
    <3> DEFINE n == driver.typed + 1
               b == read # disk
               x == [driver EXCEPT !.pc = "typing", !.typed = n, !.blind = b]
    <3>1. n \in Nat /\ b \in BOOLEAN
      BY <1>1 DEF DriverRecords
    <3>2. b \/ disk # "windows"
      BY <2>3
    <3>3. driver' = x \/ driver' = IdleDriver
      BY <2>3 DEF Stalls
    <3> HIDE DEF n, b
    <3>4. x \in DriverRecords /\ x.pc = "typing" /\ x.blind = b
      BY <1>1, <3>1 DEF DriverRecords, Installing
    <3>5. IdleDriver \in DriverRecords /\ IdleDriver.pc = "idle"
      BY DEF DriverRecords
    <3> HIDE DEF x, IdleDriver
    <3> QED  BY <3>2, <3>3, <3>4, <3>5
  <2> QED  BY <2>1, <2>2, <2>3 DEF InstallSamples
<1>3. InstallTypesOK' /\ MediaHeld' /\ MediaWhole'
  BY <1>1, <1>2 DEF InstallInv, InstallTypesOK, MediaHeld, MediaWhole
<1>4. GuestOnDisk' /\ KeysBeforeWindows'
  BY <1>1, <1>2 DEF InstallInv, GuestOnDisk, KeysBeforeWindows
<1>5. InstallOrder'
  BY <1>1, <1>2 DEF InstallInv, InstallOrder, Installing
<1> QED  BY <1>3, <1>4, <1>5 DEF InstallInv

LEMMA InstallTypesKeeps ==
  ASSUME InstallInv, InstallTypes
  PROVE  InstallInv'
<1>1. InstallTypesOK'
  BY MediaAssumption DEF InstallInv, InstallTypesOK, ISORecords, EsdRecords, BuiltRecords,
     DriverRecords, BundleRecords, ISOPCs, Installing, Guests, MediaWhole, InstallTypes
<1>2. MediaHeld'
  BY MediaAssumption DEF InstallInv, InstallTypesOK, MediaHeld, ISORecords, DriverRecords,
     InstallTypes
<1>3. MediaWhole'
  BY MediaAssumption DEF InstallInv, InstallTypesOK, MediaHeld, MediaWhole, ISORecords,
     EsdRecords, BuiltRecords, DriverRecords, BundleRecords, InstallTypes
<1>4. GuestOnDisk'
  BY MediaAssumption DEF InstallInv, InstallTypesOK, GuestOnDisk, DriverRecords, InstallTypes
<1>5. InstallOrder'
  BY MediaAssumption DEF InstallInv, InstallTypesOK, InstallOrder, Installing, DriverRecords,
     BundleRecords, InstallTypes
<1>6. KeysBeforeWindows'
  BY MediaAssumption DEF InstallInv, InstallTypesOK, KeysBeforeWindows, GuestOnDisk,
     InstallTypes
<1> QED  BY <1>1, <1>2, <1>3, <1>4, <1>5, <1>6 DEF InstallInv

LEMMA InstallFinishesKeeps ==
  ASSUME InstallInv, InstallFinishes
  PROVE  InstallInv'
<1>1. InstallTypesOK'
  BY MediaAssumption DEF InstallInv, InstallTypesOK, ISORecords, EsdRecords, BuiltRecords,
     DriverRecords, BundleRecords, ISOPCs, Installing, Guests, MediaWhole, InstallFinishes
<1>2. MediaHeld'
  BY MediaAssumption DEF InstallInv, InstallTypesOK, MediaHeld, ISORecords, DriverRecords,
     InstallFinishes
<1>3. MediaWhole'
  BY MediaAssumption DEF InstallInv, InstallTypesOK, MediaHeld, MediaWhole, ISORecords,
     EsdRecords, BuiltRecords, DriverRecords, BundleRecords, InstallFinishes
<1>4. GuestOnDisk'
  BY MediaAssumption DEF InstallInv, InstallTypesOK, GuestOnDisk, DriverRecords, InstallFinishes
<1>5. InstallOrder'
  BY MediaAssumption DEF InstallInv, InstallTypesOK, InstallOrder, Installing, DriverRecords,
     BundleRecords, InstallFinishes
<1>6. KeysBeforeWindows'
  BY MediaAssumption DEF InstallInv, InstallTypesOK, KeysBeforeWindows, GuestOnDisk,
     InstallFinishes
<1> QED  BY <1>1, <1>2, <1>3, <1>4, <1>5, <1>6 DEF InstallInv

LEMMA InstallEjectsKeeps ==
  ASSUME InstallInv, InstallEjects
  PROVE  InstallInv'
<1>1. InstallTypesOK'
  <2>1. driver' \in DriverRecords
    <3>1. [driver EXCEPT !.pc = "last"] \in DriverRecords
      BY MediaAssumption DEF InstallInv, InstallTypesOK, DriverRecords, Installing
    <3>2. IdleDriver \in DriverRecords
      BY MediaAssumption DEF InstallInv, InstallTypesOK, DriverRecords, Installing
    <3> QED  BY <3>1, <3>2 DEF InstallInv, InstallTypesOK, InstallEjects
  <2>2. bundle' \in BundleRecords
    BY MediaAssumption DEF InstallInv, InstallTypesOK, BundleRecords, BuiltRecords,
       InstallEjects
  <2>3. disk' \in {"empty", "some", "windows"} /\ guest' \in Guests
    BY MediaAssumption DEF InstallInv, InstallTypesOK, Guests, InstallEjects
  <2> QED  BY <2>1, <2>2, <2>3 DEF InstallInv, InstallTypesOK, InstallEjects
<1>2. MediaHeld'
  BY MediaAssumption DEF InstallInv, InstallTypesOK, MediaHeld, ISORecords, DriverRecords,
     InstallEjects
<1>3. MediaWhole'
  BY MediaAssumption DEF InstallInv, InstallTypesOK, MediaHeld, MediaWhole, ISORecords,
     EsdRecords, BuiltRecords, DriverRecords, BundleRecords, InstallEjects
<1>4. GuestOnDisk'
  BY MediaAssumption DEF InstallInv, InstallTypesOK, GuestOnDisk, DriverRecords, InstallEjects
<1>5. InstallOrder'
  BY MediaAssumption DEF InstallInv, InstallTypesOK, InstallOrder, Installing, DriverRecords,
     BundleRecords, InstallEjects
<1>6. KeysBeforeWindows'
  BY MediaAssumption DEF InstallInv, InstallTypesOK, KeysBeforeWindows, GuestOnDisk,
     InstallEjects
<1> QED  BY <1>1, <1>2, <1>3, <1>4, <1>5, <1>6 DEF InstallInv

LEMMA InstallAnsweredKeeps ==
  ASSUME InstallInv, InstallAnswered
  PROVE  InstallInv'
<1>1. InstallTypesOK'
  <2>1. driver' \in DriverRecords
    <3>1. IdleDriver \in DriverRecords
      BY MediaAssumption DEF InstallInv, InstallTypesOK, DriverRecords, Installing
    <3> QED  BY <3>1 DEF InstallInv, InstallTypesOK, InstallAnswered
  <2> QED  BY <2>1 DEF InstallInv, InstallTypesOK, InstallAnswered
<1>2. MediaHeld'
  BY MediaAssumption DEF InstallInv, InstallTypesOK, MediaHeld, ISORecords, DriverRecords,
     InstallAnswered
<1>3. MediaWhole'
  BY MediaAssumption DEF InstallInv, InstallTypesOK, MediaHeld, MediaWhole, ISORecords,
     EsdRecords, BuiltRecords, DriverRecords, BundleRecords, InstallAnswered
<1>4. GuestOnDisk'
  BY MediaAssumption DEF InstallInv, InstallTypesOK, GuestOnDisk, DriverRecords, InstallAnswered
<1>5. InstallOrder'
  BY MediaAssumption DEF InstallInv, InstallTypesOK, InstallOrder, Installing, DriverRecords,
     BundleRecords, InstallAnswered
<1>6. KeysBeforeWindows'
  BY MediaAssumption DEF InstallInv, InstallTypesOK, KeysBeforeWindows, GuestOnDisk,
     InstallAnswered
<1> QED  BY <1>1, <1>2, <1>3, <1>4, <1>5, <1>6 DEF InstallInv

LEMMA InstallStopsKeeps ==
  ASSUME InstallInv, InstallStops
  PROVE  InstallInv'
<1>1. InstallTypesOK'
  BY MediaAssumption DEF InstallInv, InstallTypesOK, ISORecords, EsdRecords, BuiltRecords,
     DriverRecords, BundleRecords, ISOPCs, Installing, Guests, MediaWhole, InstallStops
<1>2. MediaHeld'
  BY MediaAssumption DEF InstallInv, InstallTypesOK, MediaHeld, ISORecords, DriverRecords,
     InstallStops
<1>3. MediaWhole'
  BY MediaAssumption DEF InstallInv, InstallTypesOK, MediaHeld, MediaWhole, ISORecords,
     EsdRecords, BuiltRecords, DriverRecords, BundleRecords, InstallStops
<1>4. GuestOnDisk'
  BY MediaAssumption DEF InstallInv, InstallTypesOK, GuestOnDisk, DriverRecords, InstallStops
<1>5. InstallOrder'
  BY MediaAssumption DEF InstallInv, InstallTypesOK, InstallOrder, Installing, DriverRecords,
     BundleRecords, InstallStops
<1>6. KeysBeforeWindows'
  BY MediaAssumption DEF InstallInv, InstallTypesOK, KeysBeforeWindows, GuestOnDisk,
     InstallStops
<1> QED  BY <1>1, <1>2, <1>3, <1>4, <1>5, <1>6 DEF InstallInv

LEMMA InstallInitInv == InstallInit => InstallInv
<1> SUFFICES ASSUME InstallInit PROVE InstallInv  OBVIOUS
<1>1. theirs \in {"none", "arm64", "other"} /\ maimed \in BOOLEAN /\ builds \in Nat  BY DEF InstallInit, MediaInit
<1>2. iso \in ISORecords /\ erase \in {"idle", "theirs", "built"}
  BY DEF InstallInit, MediaInit, ISORecords, ISOPCs
<1>3. esd \in EsdRecords  BY DEF InstallInit, MediaInit, EsdRecords
<1>4. built \in BuiltRecords  BY DEF InstallInit, MediaInit, BuiltRecords
<1>5. driver \in DriverRecords  BY DEF InstallInit, DriverRecords
<1>6. bundle \in BundleRecords  BY DEF InstallInit, BundleRecords
<1>7. disk \in {"empty", "some", "windows"} /\ guest \in Guests  BY DEF InstallInit, Guests
<1>8. InstallTypesOK
  BY <1>1, <1>2, <1>3, <1>4, <1>5, <1>6, <1>7 DEF InstallTypesOK
<1>9. MediaHeld /\ MediaWhole /\ GuestOnDisk /\ InstallOrder /\ KeysBeforeWindows
  BY DEF InstallInit, MediaInit, MediaHeld, MediaWhole, GuestOnDisk, InstallOrder, Installing,
     KeysBeforeWindows
<1> QED  BY <1>8, <1>9 DEF InstallInv

LEMMA InstallStep == InstallInv /\ [InstallNext]_installVars => InstallInv'
<1> SUFFICES ASSUME InstallInv, [InstallNext]_installVars PROVE InstallInv'  OBVIOUS
<1>1. ASSUME ISOSteps, UNCHANGED <<guestVars, driver, installed, mistyped, halfway>> PROVE InstallInv'
  BY <1>1, ISOBeginsKeeps, ISOLooksKeeps, ISOFetchesKeeps, ISODigestsKeeps, ISOExpandsKeeps,
     ISOMastersKeeps, ISOMasteredKeeps, ISONotesKeeps, ISODiesKeeps DEF ISOSteps
<1>2. ASSUME EraseSteps, UNCHANGED <<guestVars, driver, installed, mistyped, halfway>> PROVE InstallInv'
  BY <1>2, EraseBeginsKeeps, ErasesTheirsKeeps, ErasesBuiltKeeps, EraseDiesKeeps DEF EraseSteps
<1>3. ASSUME GuestSteps PROVE InstallInv'
  BY <1>3, BootsKeeps, SetupWritesKeeps, SetupRebootsKeeps, LogsOnKeeps, FirstLogonEndsKeeps,
     OwnerActsKeeps DEF GuestSteps
<1>4. ASSUME DriverSteps PROVE InstallInv'
  BY <1>4, InstallBeginsKeeps, InstallProtectsKeeps, InstallLocksKeeps, InstallBundlesKeeps,
     InstallAsksKeeps, InstallInspectsKeeps, InstallDrivesKeeps, InstallSamplesKeeps, InstallTypesKeeps,
     InstallFinishesKeeps, InstallEjectsKeeps, InstallAnsweredKeeps, InstallStopsKeeps DEF
     DriverSteps
<1>5. ASSUME UNCHANGED installVars PROVE InstallInv'
  BY <1>5 DEF installVars, InstallInv, InstallTypesOK, MediaHeld, MediaWhole, GuestOnDisk,
     InstallOrder, KeysBeforeWindows
<1> QED  BY <1>1, <1>2, <1>3, <1>4, <1>5 DEF InstallNext, MediaMoves, MediaSteps

LEMMA InstallInvHolds == InstallSpec => []InstallInv
<1> QED  BY InstallInitInv, InstallStep, PTL DEF InstallSpec

\* What an ISO is mastered from is of one release, and a VM's install CD is a
\* whole medium, unless an iso-create left half of one under the final name or
\* an import failed after UTM had registered the VM.
THEOREM InstallsFromWhole == InstallSpec => []InstalledFromWhole
<1>1. InstallInv => InstalledFromWhole  BY DEF InstallInv, MediaWhole, InstalledFromWhole
<1> QED  BY InstallInvHolds, <1>1, PTL

\* No key is typed at an installed Windows by a driver that could read the disk,
\* which is all it has to go by: no boot ends while it types.
THEOREM NothingTypedAtWindows == InstallSpec => []KeysBeforeWindows
<1>1. InstallInv => KeysBeforeWindows  BY DEF InstallInv
<1> QED  BY InstallInvHolds, <1>1, PTL

\* A VM that its installer says is installed has run its first-logon commands and
\* lost its CD; one that a later run says it of has begun them.
THEOREM InstalledIsFinished == InstallSpec => []InstalledFinished
<1>1. InstallInv => InstalledFinished  BY DEF InstallInv, InstallOrder, InstalledFinished
<1> QED  BY InstallInvHolds, <1>1, PTL
-----------------------------------------------------------------------------
(* The Linux image.                                                        *)

USE DEF LinuxMakerAt, MakerIs, LinuxMakerTo, LinuxMakerOver, IdleMaker

\* What a run's record becomes, and what another's stays.
LEMMA LinuxMakerBecomes ==
  ASSUME LinuxTypes, NEW m \in Makers, NEW r \in LinuxMakers,
         linuxMaker' = [linuxMaker EXCEPT ![m] = r]
  PROVE  /\ linuxMaker' \in [Makers -> LinuxMakers] /\ linuxMaker'[m] = r
         /\ \A n \in Makers \ {m} : linuxMaker'[n] = linuxMaker[n]
BY DEF LinuxTypes

\* Where the next step leads, and the end.
LEMMA LinuxMakerMoves ==
  ASSUME LinuxTypes, NEW m \in Makers
  PROVE  /\ \A p \in {"digest", "name", "bundle"} :
              /\ [linuxMaker[m] EXCEPT !.pc = p] \in LinuxMakers
              /\ [linuxMaker[m] EXCEPT !.pc = p].pc = p
              /\ [linuxMaker[m] EXCEPT !.pc = p].file = linuxMaker[m].file
         /\ IdleMaker \in LinuxMakers /\ IdleMaker.pc = "idle"
<1>1. linuxMaker[m] \in LinuxMakers  BY DEF LinuxTypes
<1> QED  BY <1>1 DEF LinuxMakers

\* A step that opens, writes and names nothing: it gives a download up or goes
\* on with it, and what it must know to name the .part is its guard.
LEMMA LinuxMakerMovesOn ==
  ASSUME LinuxInv, NEW m \in Makers, NEW r \in LinuxMakers,
         linuxMaker' = [linuxMaker EXCEPT ![m] = r],
         UNCHANGED <<linuxPart, image, content, shared>>, BundlesPinned',
         \A f : r.pc \in {"receive", "digest", "name"} /\ r.file = f => Downloads(m, f),
         r.pc = "name" /\ linuxPart = r.file => content[linuxPart] = Pinned
  PROVE  LinuxInv'
<1>1. /\ linuxMaker' \in [Makers -> LinuxMakers] /\ linuxMaker'[m] = r
      /\ \A n \in Makers \ {m} : linuxMaker'[n] = linuxMaker[n]
  BY LinuxMakerBecomes DEF LinuxInv
<1>2. \A n \in Makers : \A f : Downloads(n, f)' => Downloads(n, f)
  BY <1>1 DEF Downloads
<1>3. LinuxTypes' /\ DownloadsApart' /\ ImagePinned'
  BY <1>1, <1>2 DEF LinuxInv, LinuxTypes, DownloadsApart, ImagePinned
<1>4. PartPinned'
  BY <1>1 DEF LinuxInv, PartPinned
<1> QED  BY <1>3, <1>4 DEF LinuxInv

LEMMA LinuxMakerEnds ==
  ASSUME LinuxInv, NEW m \in Makers, LinuxMakerOver(m),
         UNCHANGED <<linuxPart, image, content, shared>>, BundlesPinned'
  PROVE  LinuxInv'
<1>1. IdleMaker \in LinuxMakers /\ IdleMaker.pc = "idle"  BY LinuxMakerMoves DEF LinuxInv
<1> HIDE DEF IdleMaker
<1>2. linuxMaker' = [linuxMaker EXCEPT ![m] = IdleMaker]  BY DEF LinuxMakerOver, MakerIs
<1> QED  BY <1>1, <1>2, LinuxMakerMovesOn

LEMMA LinuxLooksKeeps ==
  ASSUME LinuxInv, NEW m \in Makers, LinuxLooks(m)
  PROVE  LinuxInv'
<1>1. BundlesPinned' /\ UNCHANGED <<linuxPart, image, content, shared>>
  BY DEF LinuxLooks, LinuxInv, BundlesPinned
<1>2. content \in Seq(Seq(Nat)) /\ linuxPart \in 0..Len(content)  BY DEF LinuxInv, LinuxTypes
<1>3. CASE LinuxMakerTo(m, "bundle")
  <2> DEFINE r == [linuxMaker[m] EXCEPT !.pc = "bundle"]
  <2>1. r \in LinuxMakers /\ r.pc = "bundle"  BY LinuxMakerMoves DEF LinuxInv
  <2>2. linuxMaker' = [linuxMaker EXCEPT ![m] = r]  BY <1>3
  <2> HIDE DEF r
  <2> QED  BY <1>1, <2>1, <2>2, LinuxMakerMovesOn
<1>4. CASE linuxMaker' = [linuxMaker EXCEPT ![m] = [IdleMaker EXCEPT !.pc = "ask", !.at = Held]]
  <2>1. Held \in Nat
    <3>1. CASE linuxPart = 0  BY <3>1 DEF Held
    <3>2. CASE linuxPart # 0
      <4>1. linuxPart \in 1..Len(content)  BY <1>2, <3>2, LenProperties
      <4> QED  BY <1>2, <3>2, <4>1, ElementOfSeq, LenProperties DEF Held
    <3> QED  BY <3>1, <3>2
  <2> DEFINE r == [IdleMaker EXCEPT !.pc = "ask", !.at = Held]
  <2>2. IdleMaker \in LinuxMakers  BY LinuxMakerMoves DEF LinuxInv
  <2>3. r \in LinuxMakers /\ r.pc = "ask"  BY <2>1, <2>2 DEF LinuxMakers
  <2>4. linuxMaker' = [linuxMaker EXCEPT ![m] = r]  BY <1>4
  <2> HIDE DEF r
  <2> QED  BY <1>1, <2>3, <2>4, LinuxMakerMovesOn
<1> QED  BY <1>3, <1>4 DEF LinuxLooks

\* A run that opens the .part while another has to do with it shares it; one
\* that makes it is the only one to know it.
LEMMA LinuxOpensKeeps ==
  ASSUME LinuxInv, NEW m \in Makers, LinuxOpens(m)
  PROVE  LinuxInv'
<1> DEFINE have == linuxMaker[m].at
           file == IF linuxPart = 0 THEN Len(content) + 1 ELSE linuxPart
           r    == [pc |-> "receive", file |-> file, appends |-> have > 0, at |-> have]
<1>1. BundlesPinned' /\ UNCHANGED image
  <2>1. UNCHANGED <<image, made>> /\ shared \subseteq shared'  BY DEF LinuxOpens
  <2> QED  BY <2>1 DEF LinuxInv, BundlesPinned
<1>2. /\ content \in Seq(Seq(Nat)) /\ linuxPart \in 0..Len(content) /\ image \in 0..Len(content)
      /\ Len(content) \in Nat
  BY LenProperties DEF LinuxInv, LinuxTypes
<1>3. CASE LinuxMakerOver(m) /\ UNCHANGED <<linuxPart, content, shared>>
  BY <1>1, <1>3, LinuxMakerEnds
<1>4. CASE /\ linuxPart' = file
           /\ content' = IF linuxPart = 0 THEN Append(content, <<>>)
                         ELSE [content EXCEPT ![file] = IF have = 0 THEN <<>> ELSE @]
           /\ MakerIs(m, r)
           /\ shared' = IF \E n \in Makers \ {m} : Downloads(n, file)
                        THEN shared \union {file} ELSE shared
  <2>1. /\ content' \in Seq(Seq(Nat)) /\ file \in 1..Len(content') /\ Len(content) <= Len(content')
        /\ \A f \in 1..Len(content) : f # file => content'[f] = content[f]
    <3>1. CASE linuxPart = 0
      <4>1. content' = Append(content, <<>>) /\ <<>> \in Seq(Nat)  BY <1>4, <3>1
      <4> QED  BY <1>2, <3>1, <4>1
    <3>2. CASE linuxPart # 0
      <4>1. linuxPart \in 1..Len(content) /\ content[linuxPart] \in Seq(Nat)
        BY <1>2, <3>2, LenProperties, ElementOfSeq
      <4> DEFINE s == IF have = 0 THEN <<>> ELSE content[linuxPart]
      <4>2. s \in Seq(Nat)  BY <4>1
      <4>3. content' = [content EXCEPT ![linuxPart] = s]  BY <1>4, <3>2
      <4> HIDE DEF s
      <4> QED  BY <1>2, <3>2, <4>1, <4>2, <4>3, ExceptSeq
    <3> QED  BY <3>1, <3>2
  <2>2. have \in Nat /\ file \in Nat /\ file # 0
    BY <1>2 DEF LinuxInv, LinuxTypes, LinuxMakers
  <2>3. file = linuxPart \/ \A f \in 0..Len(content) : f # file
    BY <1>2
  <2>4. image # 0 => image # file
    BY <1>2, <2>3 DEF LinuxInv, ImagePinned
  <2>5. r \in LinuxMakers /\ r.pc = "receive" /\ r.file = file  BY <2>2 DEF LinuxMakers
  <2>6. linuxMaker' = [linuxMaker EXCEPT ![m] = r]  BY <1>4
  <2>7. /\ linuxPart' = file /\ shared \subseteq shared'
        /\ \A n \in Makers \ {m} : Downloads(n, file) => file \in shared'
    BY <1>4
  <2> HIDE DEF r, file, have
  <2>8. /\ linuxMaker' \in [Makers -> LinuxMakers] /\ linuxMaker'[m] = r
        /\ \A n \in Makers \ {m} : linuxMaker'[n] = linuxMaker[n]
    BY <2>5, <2>6, LinuxMakerBecomes DEF LinuxInv
  <2>9. /\ \A f : Downloads(m, f)' => f = file
        /\ \A n \in Makers \ {m} : \A f : Downloads(n, f)' <=> Downloads(n, f)
    BY <2>5, <2>8 DEF Downloads
  <2>10. \A f \in 0..Len(content) : f \in 0..Len(content')
    BY <1>2, <2>1, LenProperties
  <2>11. LinuxTypes'
    <3>1. linuxPart' \in 0..Len(content') /\ image' \in 0..Len(content')
      BY <1>1, <1>2, <2>1, <2>7, <2>10
    <3>2. \A n \in Makers : \A f : Downloads(n, f)' => f \in 1..Len(content')
      <4> SUFFICES ASSUME NEW n \in Makers, NEW f, Downloads(n, f)' PROVE f \in 1..Len(content')
        OBVIOUS
      <4>1. CASE n = m  BY <2>1, <2>9, <4>1
      <4>2. CASE n # m
        <5>1. f \in 1..Len(content)  BY <2>9, <4>2 DEF LinuxInv, LinuxTypes
        <5> QED  BY <1>2, <2>1, <5>1, LenProperties
      <4> QED  BY <4>1, <4>2
    <3> QED  BY <2>1, <2>8, <3>1, <3>2 DEF LinuxTypes
  <2>12. DownloadsApart'
    BY <2>7, <2>9 DEF LinuxInv, DownloadsApart
  <2>13. PartPinned'
    <3> SUFFICES ASSUME NEW n \in Makers, linuxMaker'[n].pc = "name", linuxPart' = linuxMaker'[n].file
                 PROVE  linuxPart' \in shared'
      BY DEF PartPinned
    <3>1. n # m /\ Downloads(n, file)
      BY <2>5, <2>7, <2>8 DEF Downloads
    <3> QED  BY <2>7, <3>1
  <2>14. ImagePinned'
    <3> SUFFICES ASSUME image # 0
                 PROVE  /\ linuxPart' # image
                        /\ \/ image \in shared'
                           \/ content'[image] = Pinned /\ \A n \in Makers : ~Downloads(n, image)'
      BY <1>1 DEF ImagePinned
    <3>1. image \in 1..Len(content)  BY <1>2
    <3>2. content'[image] = content[image]  BY <2>1, <2>4, <3>1
    <3>3. image \in shared \/ (content[image] = Pinned /\ \A n \in Makers : ~Downloads(n, image))
      BY DEF LinuxInv, ImagePinned
    <3>4. \A n \in Makers : Downloads(n, image)' => Downloads(n, image)
      BY <1>1, <2>4, <2>5, <2>8 DEF Downloads
    <3> QED  BY <2>4, <2>7, <3>2, <3>3, <3>4
  <2> QED  BY <1>1, <2>11, <2>12, <2>13, <2>14 DEF LinuxInv
<1> QED  BY <1>3, <1>4 DEF LinuxOpens

\* A block written anywhere in a file of blocks leaves a file of blocks.
LEMMA WrittenIsBlocks ==
  ASSUME NEW s \in Seq(Nat), NEW p \in Nat, NEW b \in Nat
  PROVE  Written(s, p, b) \in Seq(Nat)
<1> DEFINE n == IF p > Len(s) THEN p ELSE Len(s)
<1>1. n \in Nat /\ Len(s) \in Nat /\ \A i \in 1..Len(s) : s[i] \in Nat
  BY LenProperties, ElementOfSeq
<1> HIDE DEF n
<1>2. [i \in 1..n |-> IF i = p THEN b ELSE IF i <= Len(s) THEN s[i] ELSE Hole] \in [1..n -> Nat]
  BY <1>1 DEF Hole
<1>3. Written(s, p, b) \in [1..n -> Nat]  BY <1>2 DEF Written, n
<1> QED  BY <1>1, <1>3, SeqDef

\* A block goes to a file the run downloads: nobody else has found anything of
\* it, and it is not the image, but for a shared one.
LEMMA LinuxReceivesKeeps ==
  ASSUME LinuxInv, NEW m \in Makers, LinuxReceives(m)
  PROVE  LinuxInv'
<1> DEFINE q == linuxMaker[m]
           s == content[q.file]
           p == IF q.appends THEN Len(s) + 1 ELSE q.at + 1
<1>1. BundlesPinned' /\ UNCHANGED <<linuxPart, image, shared>>
  BY DEF LinuxReceives, LinuxInv, BundlesPinned
<1>2. /\ content \in Seq(Seq(Nat)) /\ linuxPart \in 0..Len(content) /\ image \in 0..Len(content)
      /\ Len(content) \in Nat
  BY LenProperties DEF LinuxInv, LinuxTypes
<1>3. q \in LinuxMakers /\ q.pc = "receive" /\ Downloads(m, q.file) /\ q.file \in 1..Len(content)
  BY DEF LinuxReceives, LinuxInv, LinuxTypes, Downloads
<1>4. s \in Seq(Nat) /\ p \in Nat /\ q.at \in Nat
  <2>1. s \in Seq(Nat)  BY <1>2, <1>3, ElementOfSeq
  <2> QED  BY <1>3, <2>1, LenProperties DEF LinuxMakers
<1>5. ASSUME NEW b \in {q.at + 1, Hole},
             content' = [content EXCEPT ![q.file] = Written(s, p, b)],
             MakerIs(m, [q EXCEPT !.at = @ + 1])
      PROVE  LinuxInv'
  <2> DEFINE r == [q EXCEPT !.at = q.at + 1]
  <2>1. b \in Nat  BY <1>4, <1>5 DEF Hole
  <2>2. Written(s, p, b) \in Seq(Nat)  BY <1>4, <2>1, WrittenIsBlocks
  <2>3. /\ content' \in Seq(Seq(Nat)) /\ Len(content') = Len(content)
        /\ \A f \in 1..Len(content) : f # q.file => content'[f] = content[f]
    BY <1>2, <1>3, <1>5, <2>2, ExceptSeq
  <2>4. r \in LinuxMakers /\ r.pc = "receive" /\ r.file = q.file  BY <1>3, <1>4 DEF LinuxMakers
  <2>5. linuxMaker' = [linuxMaker EXCEPT ![m] = r]  BY <1>5
  <2> HIDE DEF r, s, p
  <2>6. /\ linuxMaker' \in [Makers -> LinuxMakers] /\ linuxMaker'[m] = r
        /\ \A n \in Makers \ {m} : linuxMaker'[n] = linuxMaker[n]
    BY <2>4, <2>5, LinuxMakerBecomes DEF LinuxInv
  <2>7. \A n \in Makers : \A f : Downloads(n, f)' <=> Downloads(n, f)
    BY <1>3, <2>4, <2>6 DEF Downloads
  <2>8. LinuxTypes' /\ DownloadsApart'
    BY <1>1, <1>2, <2>3, <2>6, <2>7 DEF LinuxInv, LinuxTypes, DownloadsApart
  <2>9. PartPinned'
    <3> SUFFICES ASSUME NEW n \in Makers, linuxMaker'[n].pc = "name", linuxPart = linuxMaker'[n].file,
                        linuxPart \notin shared
                 PROVE  content'[linuxPart] = Pinned
      BY <1>1 DEF PartPinned
    <3>1. n # m /\ linuxMaker[n].pc = "name" /\ linuxPart = linuxMaker[n].file
      BY <2>4, <2>6
    <3>2. Downloads(n, linuxPart) /\ content[linuxPart] = Pinned
      BY <3>1 DEF Downloads, LinuxInv, PartPinned
    <3>3. linuxPart # q.file /\ linuxPart \in 1..Len(content)
      BY <1>3, <3>1, <3>2 DEF LinuxInv, LinuxTypes, DownloadsApart
    <3> QED  BY <2>3, <3>2, <3>3
  <2>10. ImagePinned'
    <3>1. image # 0 => image \in shared \/ (image # q.file /\ image \in 1..Len(content))
      BY <1>2, <1>3 DEF LinuxInv, ImagePinned
    <3> QED  BY <1>1, <2>3, <2>7, <3>1 DEF LinuxInv, ImagePinned
  <2> QED  BY <1>1, <2>8, <2>9, <2>10 DEF LinuxInv
<1>6. CASE LinuxMakerTo(m, "digest") /\ UNCHANGED content
  <2> DEFINE r == [linuxMaker[m] EXCEPT !.pc = "digest"]
  <2>1. r \in LinuxMakers /\ r.pc = "digest" /\ r.file = q.file  BY LinuxMakerMoves DEF LinuxInv
  <2>2. linuxMaker' = [linuxMaker EXCEPT ![m] = r]  BY <1>6
  <2> HIDE DEF r
  <2> QED  BY <1>1, <1>3, <1>6, <2>1, <2>2, LinuxMakerMovesOn DEF Downloads
<1>7. CASE LinuxMakerOver(m) /\ UNCHANGED content  BY <1>1, <1>7, LinuxMakerEnds
<1> QED  BY <1>5, <1>6, <1>7 DEF LinuxReceives

LEMMA LinuxDigestsKeeps ==
  ASSUME LinuxInv, NEW m \in Makers, LinuxDigests(m)
  PROVE  LinuxInv'
<1>1. BundlesPinned' /\ UNCHANGED <<linuxPart, image, content, shared>> /\ linuxMaker[m].pc = "digest"
  BY DEF LinuxDigests, LinuxInv, LinuxTypes, BundlesPinned
<1>2. CASE content[linuxPart] = Pinned /\ LinuxMakerTo(m, "name")
  <2> DEFINE r == [linuxMaker[m] EXCEPT !.pc = "name"]
  <2>1. r \in LinuxMakers /\ r.pc = "name" /\ r.file = linuxMaker[m].file
    BY LinuxMakerMoves DEF LinuxInv
  <2>2. linuxMaker' = [linuxMaker EXCEPT ![m] = r]  BY <1>2
  <2> HIDE DEF r
  <2> QED  BY <1>1, <1>2, <2>1, <2>2, LinuxMakerMovesOn DEF Downloads
<1>3. CASE LinuxMakerOver(m)  BY <1>1, <1>3, LinuxMakerEnds
<1> QED  BY <1>2, <1>3 DEF LinuxDigests

\* The .part it checked is the .part it names, unless it is shared from now on.
LEMMA LinuxNamesKeeps ==
  ASSUME LinuxInv, NEW m \in Makers, LinuxNames(m)
  PROVE  LinuxInv'
<1>1. /\ UNCHANGED <<content, made>> /\ Len(content) \in Nat /\ shared \subseteq shared'
      /\ content \in Seq(Seq(Nat)) /\ linuxPart \in 0..Len(content)
      /\ linuxMaker[m].pc = "name" /\ Downloads(m, linuxMaker[m].file)
  BY LenProperties DEF LinuxNames, LinuxInv, LinuxTypes, Downloads
<1>2. BundlesPinned'
  BY <1>1 DEF LinuxInv, BundlesPinned
<1>3. CASE /\ linuxPart # 0 /\ image' = linuxPart /\ linuxPart' = 0 /\ LinuxMakerTo(m, "bundle")
           /\ shared' = IF linuxPart = linuxMaker[m].file THEN shared ELSE shared \union {linuxPart}
  <2> DEFINE r == [linuxMaker[m] EXCEPT !.pc = "bundle"]
  <2>1. r \in LinuxMakers /\ r.pc = "bundle"
    BY LinuxMakerMoves DEF LinuxInv
  <2>2. linuxMaker' = [linuxMaker EXCEPT ![m] = r]  BY <1>3
  <2> HIDE DEF r
  <2>3. /\ linuxMaker' \in [Makers -> LinuxMakers] /\ linuxMaker'[m] = r
        /\ \A n \in Makers \ {m} : linuxMaker'[n] = linuxMaker[n]
    BY <2>1, <2>2, LinuxMakerBecomes DEF LinuxInv
  <2>4. /\ \A f : ~Downloads(m, f)'
        /\ \A n \in Makers \ {m} : \A f : Downloads(n, f)' <=> Downloads(n, f)
    BY <2>1, <2>3 DEF Downloads
  <2>5. LinuxTypes' /\ DownloadsApart'
    <3>1. \A n \in Makers : \A f : Downloads(n, f)' => Downloads(n, f) /\ n # m
      BY <2>4
    <3>2. linuxPart' \in 0..Len(content') /\ image' \in 0..Len(content')
      BY <1>1, <1>3
    <3>3. LinuxTypes'
      BY <1>1, <2>3, <3>1, <3>2 DEF LinuxInv, LinuxTypes
    <3>4. DownloadsApart'
      BY <1>1, <3>1 DEF LinuxInv, DownloadsApart
    <3> QED  BY <3>3, <3>4
  <2>6. PartPinned'
    <3> SUFFICES ASSUME NEW n \in Makers, linuxMaker'[n].pc = "name", linuxMaker'[n].file = 0
                 PROVE  FALSE
      BY <1>3 DEF PartPinned
    <3>1. Downloads(n, 0)' /\ n # m
      BY <2>1, <2>3 DEF Downloads
    <3> QED  BY <1>1, <2>4, <3>1 DEF LinuxInv, LinuxTypes
  <2>7. ImagePinned'
    <3> SUFFICES ASSUME NEW f, f = linuxPart, f = linuxMaker[m].file, f \notin shared
                 PROVE  content[f] = Pinned /\ \A n \in Makers : ~Downloads(n, f)'
      <4>1. image' = linuxPart /\ linuxPart' # image' /\ content' = content
        BY <1>1, <1>3
      <4>2. linuxPart # linuxMaker[m].file => linuxPart \in shared'
        BY <1>3
      <4>3. \A n \in Makers : Downloads(n, image)' <=> \E f : f = linuxPart /\ Downloads(n, f)'
        BY <4>1 DEF Downloads
      <4> QED  BY <1>1, <4>1, <4>2, <4>3 DEF ImagePinned
    <3>1. content[f] = Pinned
      BY <1>1 DEF LinuxInv, PartPinned
    <3>2. \A n \in Makers \ {m} : ~Downloads(n, f)
      BY <1>1 DEF LinuxInv, DownloadsApart
    <3> QED  BY <2>4, <3>1, <3>2
  <2> QED  BY <1>2, <2>5, <2>6, <2>7 DEF LinuxInv
<1>4. CASE LinuxMakerOver(m) /\ UNCHANGED <<linuxPart, image, shared>>
  BY <1>1, <1>2, <1>4, LinuxMakerEnds
<1> QED  BY <1>3, <1>4 DEF LinuxNames

LEMMA LinuxBundlesKeeps ==
  ASSUME LinuxInv, NEW m \in Makers, LinuxBundles(m)
  PROVE  LinuxInv'
<1>1. image = 0 \/ content[image] = Pinned \/ image \in shared
  BY DEF LinuxInv, ImagePinned
<1>2. BundlesPinned'  BY <1>1 DEF LinuxBundles, LinuxInv, BundlesPinned
<1> QED  BY <1>2, LinuxMakerEnds DEF LinuxBundles

LEMMA LinuxStopsKeeps ==
  ASSUME LinuxInv, NEW m \in Makers, LinuxStops(m)
  PROVE  LinuxInv'
<1>1. BundlesPinned'  BY DEF LinuxStops, LinuxInv, BundlesPinned
<1> QED  BY <1>1, LinuxMakerEnds DEF LinuxStops

LEMMA LinuxStep == LinuxInv /\ [LinuxNext]_linuxVars => LinuxInv'
<1> SUFFICES ASSUME LinuxInv, [LinuxNext]_linuxVars PROVE LinuxInv'
  OBVIOUS
<1>1. ASSUME NEW m \in Makers,
             \/ LinuxLooks(m) \/ LinuxOpens(m) \/ LinuxReceives(m) \/ LinuxDigests(m)
             \/ LinuxNames(m) \/ LinuxBundles(m) \/ LinuxStops(m)
      PROVE  LinuxInv'
  BY <1>1, LinuxLooksKeeps, LinuxOpensKeeps, LinuxReceivesKeeps, LinuxDigestsKeeps,
     LinuxNamesKeeps, LinuxBundlesKeeps, LinuxStopsKeeps
<1>2. CASE LinuxPruned
  <2>1. 0 \in 0..Len(content)  BY LenProperties DEF LinuxInv, LinuxTypes
  <2> QED  BY <1>2, <2>1 DEF LinuxPruned, LinuxInv, LinuxTypes, DownloadsApart, PartPinned,
                             ImagePinned, BundlesPinned, Downloads
<1>3. CASE UNCHANGED linuxVars
  BY <1>3 DEF linuxVars, LinuxInv, LinuxTypes, DownloadsApart, PartPinned, ImagePinned,
              BundlesPinned, Downloads
<1> QED  BY <1>1, <1>2, <1>3 DEF LinuxNext

LEMMA LinuxInitInv == LinuxInit => LinuxInv
<1> SUFFICES ASSUME LinuxInit PROVE LinuxInv  OBVIOUS
<1>1. content \in Seq(Seq(Nat)) /\ linuxPart \in 0..Len(content) /\ image \in 0..Len(content)
  BY EmptySeq DEF LinuxInit
<1>2. linuxMaker \in [Makers -> LinuxMakers] /\ \A m \in Makers : linuxMaker[m].pc = "idle"
  BY DEF LinuxInit, LinuxMakers
<1> QED  BY <1>1, <1>2 DEF LinuxInit, LinuxInv, LinuxTypes, DownloadsApart, PartPinned, ImagePinned,
                           BundlesPinned, Downloads

\* Every VM is made of the pinned image, or of a file two runs had to do with at
\* once: for any number of runs, each perhaps killed or cut off, an image of any
\* size in any blocks, and the image pruned at any time.
THEOREM LinuxIsPinned == LinuxSpec => []BundlesPinned
<1>1. LinuxInv => BundlesPinned  BY DEF LinuxInv
<1> QED  BY LinuxInitInv, LinuxStep, <1>1, PTL DEF LinuxSpec

-----------------------------------------------------------------------------
(* The verdicts.                                                           *)

USE DEF DoingIs, Gone, Busy, NextPart, perRun, sourceVars, verdictHistory, SourceOnly

\* What the results say of one run of the binary: a failure that is not the
\* known one, a run that printed nothing and a death that is heard of are told
\* as a failure, and a failing test is never told as a pass.
LEMMA ConvertedTells ==
  ASSUME NEW c \in CheckRuns, NEW h \in SuiteRuns
  PROVE  /\ Converted(c, h) \subseteq Tellings
         /\ FailedAnew(h, ChildKnown(c)) \/ NothingRan(h) => "failed" \in Converted(c, h)
         /\ h.died /\ ~DiedSilently(h) => "failed" \in Converted(c, h)
         /\ AnyFailed(h) => Converted(c, h) \cap {"failed", "known"} # {}
<1>1. Converted(c, h) \subseteq Tellings
  BY DEF Converted, Parsed, Result, Tellings
<1>2. ASSUME NothingRan(h) PROVE Converted(c, h) = {"failed"}
  BY <1>2 DEF Converted, Result
<1>3. ASSUME NEW t \in Tests, h[t] \in Failed, ~Inherited(h, t)
      PROVE  Result(c, t, TRUE) \in Converted(c, h)
  <2>1. h[t] # "absent" /\ ~NothingRan(h)  BY <1>3 DEF Failed, NothingRan
  <2> QED  BY <1>3, <2>1 DEF Converted, Parsed
<1>4. /\ Result(c, "other", TRUE) = "failed" /\ Result(c, "parent", TRUE) = "failed"
      /\ Result(c, "child", TRUE) \in {"known", "failed"} /\ Result(c, "package", TRUE) = "failed"
      /\ ~ChildKnown(c) => Result(c, "child", TRUE) = "failed"
  BY DEF Result
<1>5. ~Inherited(h, "other") /\ ~Inherited(h, "child")  BY DEF Inherited
<1>6. h.other \in Failed => "failed" \in Converted(c, h)  BY <1>3, <1>4, <1>5 DEF Tests
<1>7. h.parent \in Failed /\ ~Inherited(h, "parent") => "failed" \in Converted(c, h)
  BY <1>3, <1>4 DEF Tests
<1>8. h.child \in Failed => Result(c, "child", TRUE) \in Converted(c, h)  BY <1>3, <1>5 DEF Tests
<1>9. ASSUME h.told, ~AnyFailed(h) PROVE "failed" \in Converted(c, h)
  BY <1>2, <1>4, <1>9 DEF Converted, Parsed
<1>10. FailedAnew(h, ChildKnown(c)) => "failed" \in Converted(c, h)
  <2>1. h.parent = "unfinished" => h.parent \in Failed /\ ~Inherited(h, "parent")
    BY DEF Failed, Inherited
  <2>2. h.message => h.parent \in Failed /\ ~Inherited(h, "parent")
    BY DEF SuiteRuns, Failed, Inherited
  <2>3. h.parent = "fail" /\ h.child \notin Failed =>
          h.parent \in Failed /\ ~Inherited(h, "parent")
    BY DEF Failed, Inherited
  <2>4. h.child \in Failed /\ ~ChildKnown(c) => "failed" \in Converted(c, h)  BY <1>4, <1>8
  <2> QED  BY <1>6, <1>7, <2>1, <2>2, <2>3, <2>4 DEF FailedAnew
<1>11. h.died /\ ~DiedSilently(h) => "failed" \in Converted(c, h)
  <2>1. h.parent = "unfinished" \/ h.other = "unfinished" => FailedAnew(h, ChildKnown(c))
    BY DEF FailedAnew, Failed
  <2> QED  BY <1>2, <1>9, <1>10, <2>1 DEF DiedSilently
<1>12. AnyFailed(h) => Converted(c, h) \cap {"failed", "known"} # {}
  <2>1. Inherited(h, "parent") => h.child \in Failed  BY DEF Inherited
  <2>2. AnyFailed(h) => h.parent \in Failed \/ h.child \in Failed \/ h.other \in Failed
    BY DEF AnyFailed, Tests
  <2> QED  BY <1>4, <1>6, <1>7, <1>8, <2>1, <2>2
<1> QED  BY <1>2, <1>1, <1>10, <1>11, <1>12

\* A part adds to what happened and to what is told of it: one that did not run
\* at all is told as a failure.
LEMMA PartTold ==
  ASSUME VerdictInv, NEW c \in CheckRuns, doing[c] = "running", NEW h \in SuiteRuns,
         NEW did \in BOOLEAN, did \/ NothingRan(h),
         truth' = [truth EXCEPT ![c] = After(truth[c], h, did, ChildKnown(c))],
         results' = [results EXCEPT ![c] = @ \cup Converted(c, h)], NextPart(c),
         UNCHANGED <<suite, checking, notRun, unbuilt>>
  PROVE  /\ results' \in [CheckRuns -> SUBSET Tellings] /\ truth' \in [CheckRuns -> Happenings]
         /\ doing' \in [CheckRuns -> CheckSteps]
         /\ doing'[c] \in {"running", "after", "collecting"}
         /\ \A d \in CheckRuns : d # c => doing'[d] = doing[d] /\ truth'[d] = truth[d]
         /\ ResultsTell'
<1> DEFINE p == IF truth'[c].parts < SuiteParts THEN "running"
                ELSE IF suite = "vm" THEN "after" ELSE "collecting"
<1>1. /\ truth \in [CheckRuns -> Happenings] /\ results \in [CheckRuns -> SUBSET Tellings]
      /\ doing \in [CheckRuns -> CheckSteps] /\ doing' = [doing EXCEPT ![c] = p]
  BY DEF VerdictInv, VerdictTypes
<1>2. /\ p \in {"after", "collecting", "running"}
      /\ p = "running" <=> truth'[c].parts < SuiteParts
  OBVIOUS
<1> HIDE DEF p
<1>3. After(truth[c], h, did, ChildKnown(c)) \in Happenings
  BY <1>1 DEF After, Happenings, FailedAnew, DiedSilently, AnyFailed, NothingRan, SuiteRuns
<1>4. /\ truth' \in [CheckRuns -> Happenings]
      /\ truth'[c] = After(truth[c], h, did, ChildKnown(c))
  BY <1>1, <1>3
<1>5. /\ results' \in [CheckRuns -> SUBSET Tellings]
      /\ results'[c] = results[c] \cup Converted(c, h)
  BY <1>1, ConvertedTells
<1>6. doing' \in [CheckRuns -> CheckSteps] /\ doing'[c] = p  BY <1>1, <1>2 DEF CheckSteps
<1>7. \A d \in CheckRuns : d # c =>
        truth'[d] = truth[d] /\ results'[d] = results[d] /\ doing'[d] = doing[d]
  BY <1>1
<1>8. /\ truth'[c].broken = (truth[c].broken \/ FailedAnew(h, ChildKnown(c)) \/ NothingRan(h))
      /\ truth'[c].failing = (truth[c].failing \/ AnyFailed(h))
      /\ truth'[c].died = (truth[c].died \/ (h.died /\ ~DiedSilently(h)))
      /\ truth'[c].parts = truth[c].parts + 1
      /\ did => truth'[c].ran = truth[c].ran + 1
  BY <1>4 DEF After
<1>9. /\ "failed" \in results[c]
           \/ (truth[c].ran = truth[c].parts /\ ~truth[c].broken /\ ~truth[c].died)
      /\ results[c] \cap {"failed", "known"} # {} \/ ~truth[c].failing
      /\ ~notRun[c] /\ ~unbuilt[c] /\ truth[c].parts < SuiteParts /\ truth[c].parts \in Nat
  BY <1>1 DEF VerdictInv, ResultsTell, Happenings
<1>10. /\ "failed" \in results'[c]
            \/ (truth'[c].ran = truth'[c].parts /\ ~truth'[c].broken /\ ~truth'[c].died)
       /\ results'[c] \cap {"failed", "known"} # {} \/ ~truth'[c].failing
  <2>1. "failed" \in results[c] \/ "failed" \in Converted(c, h) => "failed" \in results'[c]
    BY <1>5
  <2>2. CASE "failed" \in results[c] \/ "failed" \in Converted(c, h)  BY <2>1, <2>2
  <2>3. CASE "failed" \notin results[c] /\ "failed" \notin Converted(c, h)
    <3>1. did /\ ~NothingRan(h) /\ ~FailedAnew(h, ChildKnown(c))
          /\ ~(h.died /\ ~DiedSilently(h))
      BY <2>3, ConvertedTells
    <3>2. truth'[c].ran = truth'[c].parts  BY <1>8, <1>9, <2>3, <3>1
    <3>3. ~truth'[c].broken /\ ~truth'[c].died  BY <1>8, <1>9, <2>3, <3>1
    <3>4. results'[c] \cap {"failed", "known"} # {} \/ ~truth'[c].failing
      BY <1>5, <1>8, <1>9, ConvertedTells
    <3> QED  BY <3>2, <3>3, <3>4
  <2> QED  BY <2>2, <2>3
<1>11. SuiteParts \in {1, 2} /\ SuiteParts' = SuiteParts  BY DEF SuiteParts
<1>12. p # "running" => truth'[c].parts = SuiteParts
  BY <1>2, <1>4, <1>8, <1>9, <1>11 DEF Happenings
<1>13. ResultsTell'
  <2> SUFFICES ASSUME NEW d \in CheckRuns PROVE ResultsTell!(d)'  BY DEF ResultsTell
  <2>1. CASE d = c  BY <1>2, <1>6, <1>9, <1>10, <1>11, <1>12, <2>1
  <2>2. CASE d # c  BY <1>7, <1>11, <2>2 DEF VerdictInv, ResultsTell
  <2> QED  BY <2>1, <2>2
<1> QED  BY <1>2, <1>4, <1>5, <1>6, <1>7, <1>13

\* The source moves on, or back: to a version nothing names yet, or to one that
\* is noted as gone back to.
Moves ==
  /\ written' \in Nat /\ written <= written' /\ written' <= MaxEdits
  /\ undone \subseteq undone' /\ slipped \subseteq slipped'
  /\ tree' \in Sources /\ tree'.tracked <= written'
  /\ \/ tree'.tracked = tree.tracked \/ tree'.tracked \in undone' \/ tree'.tracked > written

\* What was faithful to a version stays so.
LEMMA FaithfulKept ==
  ASSUME VerdictInv, Moves, NEW v \in Named, NEW c, NEW b, Faithful(v, c, b)
  PROVE  Faithful(v, c, b)' /\ v \in Named'
<1>1. /\ written \in Nat /\ tree.tracked \in Nat /\ tree'.tracked \in Nat
      /\ written' \in Nat /\ written <= written'
      /\ tree'.tracked <= written' /\ written' <= MaxEdits
      /\ MaxEdits \in Nat
  BY VerdictAssumption DEF VerdictInv, VerdictTypes, Moves, Sources, Versions, NoVersion
<1>2. v \in Nat /\ (v <= written \/ v = NoVersion)  BY <1>1 DEF Named, NoVersion
<1>3. v \in Named'  BY <1>1, <1>2 DEF Named, NoVersion
<1>4. ASSUME v # tree.tracked, v = tree'.tracked PROVE v \in undone'
  BY <1>1, <1>2, <1>4 DEF Moves, NoVersion
<1>5. Faithful(v, c, b)'  BY <1>4 DEF Faithful, Moves
<1> QED  BY <1>3, <1>5

\* A sound record stays sound: the checks that are over stay as they are.
LEMMA SoundKept ==
  ASSUME VerdictInv, NEW s \in Records, Sound(s), Moves, UNCHANGED suite,
         \A d \in CheckRuns : doing[d] = "ended" => doing'[d] = "ended" /\ truth'[d] = truth[d]
  PROVE  Sound(s)'
<1>1. s.source \in Named /\ \A b \in s.from : Faithful(s.source, s.by, b)  BY DEF Sound
<1>2. s.source \in Named' /\ \A b \in s.from : Faithful(s.source, s.by, b)'
  <2>1. ASSUME NEW b \in s.from PROVE Faithful(s.source, s.by, b)'  BY <1>1, <2>1, FaithfulKept
  <2>2. s.source \in Named'
    BY <1>1 DEF Named, Moves, VerdictInv, VerdictTypes
  <2> QED  BY <2>1, <2>2
<1> QED  BY <1>2 DEF Sound, SuiteParts

\* So is the record of a target nobody has checked.
LEMMA UnrecordedSound == Unrecorded \in Records /\ Sound(Unrecorded) /\ Sound(Unrecorded)'
<1>1. /\ Unrecorded.by = NoCheck /\ Unrecorded.verdict = "none" /\ Unrecorded.source = NoVersion
      /\ Unrecorded.from = {}
  BY DEF Unrecorded
<1>2. Unrecorded \in Records
  BY VerdictAssumption DEF Unrecorded, Records, Said, Versions, NoVersion
<1>3. Sound(Unrecorded)  BY <1>1 DEF Sound, Named
<1>4. Sound(Unrecorded)'  BY <1>1 DEF Sound, Named
<1> QED  BY <1>2, <1>3, <1>4

\* A part that never reached the guest printed nothing.
LEMMA NeverRanNothing == NeverRan \in SuiteRuns /\ NothingRan(NeverRan)
<1>1. /\ NeverRan.parent = "absent" /\ NeverRan.child = "absent" /\ NeverRan.other = "absent"
      /\ NeverRan.message = FALSE /\ NeverRan.died = FALSE /\ NeverRan.told = FALSE
      /\ NeverRan \in [parent : Fates, child : Fates, other : Fates, message : BOOLEAN,
                       died : BOOLEAN, told : BOOLEAN]
  BY DEF NeverRan, Fates
<1> QED  BY <1>1 DEF SuiteRuns, NothingRan, Tests, Failed

\* A check that stays in its step keeps its binary, and a new one anybody builds
\* is faithful.
LEMMA BuiltFaithful ==
  ASSUME VerdictInv, NEW c \in CheckRuns, Busy(c)
  PROVE  Faithful(seen[c], c, tree)
<1>1. /\ tree \in Sources /\ MaxEdits \in Nat /\ written \in Nat /\ written <= MaxEdits
      /\ tree.tracked <= written
  BY VerdictAssumption DEF VerdictInv, VerdictTypes
<1>2. CASE seen[c] = NoVersion  BY <1>1, <1>2 DEF Faithful, NoVersion, Sources, Versions
<1>3. CASE seen[c] # NoVersion
  <2>1. tree.extra => c \in slipped  BY <1>3 DEF VerdictInv, RunsFaithful
  <2>2. ~tree.extra => tree = [tracked |-> tree.tracked, extra |-> FALSE]  BY <1>1 DEF Sources
  <2> QED  BY <2>1, <2>2 DEF Faithful
<1> QED  BY <1>2, <1>3

\* A step of one check that moves no source, and builds nothing, keeps what the
\* others' runs are faithful to.
LEMMA OthersFaithful ==
  ASSUME VerdictInv, NEW c \in CheckRuns, UNCHANGED <<suite, checking, binary, sourceVars>>,
         UNCHANGED <<undone, slipped>>,
         \A d \in CheckRuns : d # c => /\ doing'[d] = doing[d] /\ seen'[d] = seen[d]
                                       /\ ranFrom'[d] = ranFrom[d]
  PROVE  \A d \in CheckRuns : d # c => RunsFaithful!(d)'
<1> SUFFICES ASSUME NEW d \in CheckRuns, d # c PROVE RunsFaithful!(d)'  OBVIOUS
<1> QED  BY DEF VerdictInv, RunsFaithful, Faithful, Bin, IsNative

LEMMA CheckBeginsKeeps ==
  ASSUME VerdictInv, NEW c \in CheckRuns, CheckBegins(c)
  PROVE  VerdictInv'
<1>1. VerdictTypes'
  <2>1. doing' \in [CheckRuns -> CheckSteps]
    BY VerdictAssumption DEF VerdictInv, VerdictTypes, CheckSteps, CheckBegins
  <2>2. seen' \in [CheckRuns -> Named'] /\ Named' = Named
    BY VerdictAssumption DEF VerdictInv, VerdictTypes, Named, CheckBegins
  <2> QED  BY <2>1, <2>2 DEF VerdictInv, VerdictTypes, CheckBegins
<1>2. RunsFaithful'
  <2>1. \A d \in CheckRuns : d # c => RunsFaithful!(d)'
    BY OthersFaithful DEF VerdictInv, VerdictTypes, CheckBegins
  <2>2. RunsFaithful!(c)'
    BY DEF VerdictInv, VerdictTypes, RunsFaithful, Faithful, Bin, IsNative, CheckBegins
  <2> QED  BY <2>1, <2>2 DEF RunsFaithful
<1>3. RecordsSound'
  BY DEF VerdictInv, VerdictTypes, RecordsSound, Sound, Faithful, Named, SuiteParts, CheckBegins
<1>4. ResultsTell'
  BY DEF VerdictInv, VerdictTypes, ResultsTell, Nothing, SuiteParts, CheckBegins
<1>5. PicturesOwn'
  BY DEF VerdictInv, VerdictTypes, PicturesOwn, Filled, CheckBegins
<1>6. PicturesBelong'
  BY DEF VerdictInv, VerdictTypes, PicturesOwn, PicturesBelong, Filled, CheckBegins
<1> QED  BY <1>1, <1>2, <1>3, <1>4, <1>5, <1>6 DEF VerdictInv

LEMMA BuildsKeeps ==
  ASSUME VerdictInv, NEW c \in CheckRuns, Builds(c)
  PROVE  VerdictInv'
<1>1. VerdictTypes'
  <2>1. doing' \in [CheckRuns -> CheckSteps]
    BY DEF VerdictInv, VerdictTypes, CheckSteps, Builds
  <2>2. binary' \in [{"mac", "win"} -> Sources]
    <3>1. NoBinary \in Sources
      BY VerdictAssumption DEF NoBinary, Sources, Versions, NoVersion
    <3> QED  BY <3>1 DEF VerdictInv, VerdictTypes, Builds
  <2>3. unbuilt' \in [CheckRuns -> BOOLEAN]  BY DEF VerdictInv, VerdictTypes, Builds
  <2>4. Named' = Named  BY DEF Named, Builds
  <2> QED  BY <2>1, <2>2, <2>3, <2>4 DEF VerdictInv, VerdictTypes, Builds
<1>2. RunsFaithful'
  <2> SUFFICES ASSUME NEW d \in CheckRuns PROVE RunsFaithful!(d)'  BY DEF RunsFaithful
  <2>1. UNCHANGED <<suite, checking, seen, ranFrom, sourceVars, undone, slipped>>  BY DEF Builds
  <2>2. Busy(d)' => Busy(d) /\ seen'[d] = seen[d]
    BY DEF VerdictInv, VerdictTypes, Builds
  <2>3. doing'[d] \in {"idle", "building", "before"} => doing[d] \in {"idle", "building", "before"}
    BY DEF VerdictInv, VerdictTypes, Builds
  <2>4. ASSUME doing'[d] \in {"before", "running"}
        PROVE  binary'[Bin(d)] \in {NoBinary, tree}
               \/ (binary'[Bin(d)] = binary[Bin(d)] /\ doing[d] \in {"before", "running"})
    <3>1. Bin(d) \in {"mac", "win"} /\ Bin(c) \in {"mac", "win"}  BY DEF Bin
    <3>2. d # c => doing'[d] = doing[d]  BY DEF VerdictInv, VerdictTypes, Builds
    <3>3. binary'[Bin(c)] \in {NoBinary, tree}
      BY <3>1 DEF VerdictInv, VerdictTypes, Builds
    <3>4. Bin(d) # Bin(c) => binary'[Bin(d)] = binary[Bin(d)]
      BY <3>1 DEF VerdictInv, VerdictTypes, Builds
    <3> QED  BY <2>4, <3>2, <3>3, <3>4
  <2>5. Busy(d) => Faithful(seen[d], d, tree)  BY BuiltFaithful
  <2>6. Bin(d)' = Bin(d)  BY <2>1 DEF Bin, IsNative
  <2>7. doing'[d] \in {"before", "running"} =>
          binary'[Bin(d)'] = NoBinary \/ Faithful(seen[d], d, binary'[Bin(d)'])
    <3>1. doing'[d] \in {"before", "running"} => Busy(d)  BY <2>2
    <3> QED  BY <2>4, <2>5, <2>6, <3>1 DEF VerdictInv, RunsFaithful
  <2>8. \A b \in ranFrom'[d] : Faithful(seen[d], d, b)  BY <2>1 DEF VerdictInv, RunsFaithful
  <2>9. Busy(d)' /\ seen'[d] # NoVersion /\ tree'.extra => d \in slipped'
    BY <2>1, <2>2 DEF VerdictInv, RunsFaithful
  <2>10. doing'[d] \in {"idle", "building", "before"} => ranFrom'[d] = {}
    BY <2>1, <2>3 DEF VerdictInv, RunsFaithful
  <2> QED  BY <2>1, <2>7, <2>8, <2>9, <2>10 DEF Faithful
<1>3. RecordsSound'
  BY DEF VerdictInv, VerdictTypes, RecordsSound, Sound, Faithful, Named, SuiteParts, Builds
<1>4. ResultsTell'
  BY DEF VerdictInv, VerdictTypes, ResultsTell, Nothing, SuiteParts, Builds
<1>5. PicturesOwn'
  BY DEF VerdictInv, VerdictTypes, PicturesOwn, Filled, Builds
<1>6. PicturesBelong'
  BY DEF VerdictInv, VerdictTypes, PicturesOwn, PicturesBelong, Filled, Builds
<1> QED  BY <1>1, <1>2, <1>3, <1>4, <1>5, <1>6 DEF VerdictInv

LEMMA AgentAnswersKeeps ==
  ASSUME VerdictInv, NEW c \in CheckRuns, AgentAnswers(c)
  PROVE  VerdictInv'
<1>h. ASSUME HostTests(c, "agent")
      PROVE  /\ truth' \in [CheckRuns -> Happenings] /\ results' \in [CheckRuns -> SUBSET Tellings]
             /\ \A d \in CheckRuns : d # c => truth'[d] = truth[d] /\ results'[d] = results[d]
             /\ truth'[c].parts = truth[c].parts /\ truth'[c].ran = truth[c].ran
             /\ truth'[c].died = truth[c].died
             /\ "failed" \in results[c] => "failed" \in results'[c]
             /\ "known" \in results[c] => "known" \in results'[c]
             /\ truth'[c].broken => truth[c].broken \/ "failed" \in results'[c]
             /\ truth'[c].failing => truth[c].failing \/ "failed" \in results'[c]
  <2>1. PICK fell \in BOOLEAN :
          /\ results' = [results EXCEPT ![c] = @ \cup {Result(c, "agent", fell)}]
          /\ truth' = [truth EXCEPT ![c].broken = @ \/ fell, ![c].failing = @ \/ fell]
    BY <1>h DEF HostTests
  <2>2. truth \in [CheckRuns -> Happenings] /\ results \in [CheckRuns -> SUBSET Tellings]
    BY DEF VerdictInv, VerdictTypes
  <2>3. Result(c, "agent", fell) = IF fell THEN "failed" ELSE "ok"  BY DEF Result
  <2>4. DEFINE new == [truth[c] EXCEPT !.broken = @ \/ fell, !.failing = @ \/ fell]
  <2>5. /\ new \in Happenings /\ new.parts = truth[c].parts /\ new.ran = truth[c].ran
        /\ new.died = truth[c].died /\ new.broken = (truth[c].broken \/ fell)
        /\ new.failing = (truth[c].failing \/ fell)
    BY <2>2 DEF Happenings
  <2>6. truth' = [truth EXCEPT ![c] = new]  BY <2>1, <2>2 DEF Happenings
  <2> HIDE DEF new
  <2>7. results'[c] = results[c] \cup {Result(c, "agent", fell)}  BY <2>1, <2>2
  <2>8. results' \in [CheckRuns -> SUBSET Tellings]  BY <2>1, <2>2, <2>3 DEF Tellings
  <2>9. truth' \in [CheckRuns -> Happenings] /\ truth'[c] = new  BY <2>2, <2>5, <2>6
  <2>10. \A d \in CheckRuns : d # c => truth'[d] = truth[d] /\ results'[d] = results[d]
    BY <2>1, <2>2, <2>6
  <2>11. fell => "failed" \in results'[c]  BY <2>3, <2>7
  <2> QED  BY <2>5, <2>7, <2>8, <2>9, <2>10, <2>11
<1>1. VerdictTypes'
  <2>1. doing' \in [CheckRuns -> CheckSteps]
    BY VerdictAssumption DEF VerdictInv, VerdictTypes, CheckSteps, AgentAnswers
  <2>2. notRun' \in [CheckRuns -> BOOLEAN]
    BY VerdictAssumption DEF VerdictInv, VerdictTypes, AgentAnswers
  <2>3. Named' = Named
    BY DEF Named, AgentAnswers
  <2>4. results' \in [CheckRuns -> SUBSET Tellings] /\ truth' \in [CheckRuns -> Happenings]
    BY <1>h DEF VerdictInv, VerdictTypes, AgentAnswers
  <2> QED  BY <2>1, <2>2, <2>3, <2>4 DEF VerdictInv, VerdictTypes, AgentAnswers
<1>2. RunsFaithful'
  <2>1. \A d \in CheckRuns : d # c => RunsFaithful!(d)'
    BY OthersFaithful DEF VerdictInv, VerdictTypes, AgentAnswers
  <2>2. RunsFaithful!(c)'
    BY DEF VerdictInv, VerdictTypes, RunsFaithful, Faithful, Bin, IsNative, AgentAnswers
  <2> QED  BY <2>1, <2>2 DEF RunsFaithful
<1>r. \A d \in CheckRuns : doing[d] = "ended" => doing'[d] = "ended" /\ truth'[d] = truth[d]
  BY <1>h DEF VerdictInv, VerdictTypes, AgentAnswers
<1>3. RecordsSound'
  BY <1>r DEF VerdictInv, VerdictTypes, RecordsSound, Sound, Faithful, Named, SuiteParts, AgentAnswers
<1>4. ResultsTell'
  <2> SUFFICES ASSUME NEW d \in CheckRuns PROVE ResultsTell!(d)'  BY DEF ResultsTell
  <2>0. SuiteParts' = SuiteParts /\ SuiteParts \in {1, 2}  BY DEF SuiteParts, AgentAnswers
  <2>1. CASE d = c
    BY <1>h, <2>0, <2>1 DEF VerdictInv, VerdictTypes, ResultsTell, Nothing, AgentAnswers
  <2>2. CASE d # c
    BY <1>h, <2>0, <2>2 DEF VerdictInv, VerdictTypes, ResultsTell, AgentAnswers
  <2> QED  BY <2>1, <2>2
<1>5. PicturesOwn'
  BY DEF VerdictInv, VerdictTypes, PicturesOwn, Filled, AgentAnswers
<1>6. PicturesBelong'
  BY DEF VerdictInv, VerdictTypes, PicturesOwn, PicturesBelong, Filled, AgentAnswers
<1> QED  BY <1>1, <1>2, <1>3, <1>4, <1>5, <1>6 DEF VerdictInv

LEMMA RunsPartKeeps ==
  ASSUME VerdictInv, NEW c \in CheckRuns, RunsPart(c)
  PROVE  VerdictInv'
<1>p. /\ results' \in [CheckRuns -> SUBSET Tellings] /\ truth' \in [CheckRuns -> Happenings]
      /\ doing' \in [CheckRuns -> CheckSteps]
      /\ doing'[c] \in {"running", "after", "collecting"}
      /\ \A d \in CheckRuns : d # c => doing'[d] = doing[d] /\ truth'[d] = truth[d]
      /\ ResultsTell'
  <2>1. PICK o \in Outcomes(c) : /\ truth' = [truth EXCEPT ![c] = o.truth]
                                 /\ results' = [results EXCEPT ![c] = @ \cup o.results]
    BY DEF RunsPart
  <2>2. PICK h \in SuiteRuns : o = [truth   |-> After(truth[c], h, TRUE, ChildKnown(c)),
                                    results |-> Converted(c, h)]
    BY DEF Outcomes
  <2>3. /\ truth' = [truth EXCEPT ![c] = After(truth[c], h, TRUE, ChildKnown(c))]
        /\ results' = [results EXCEPT ![c] = @ \cup Converted(c, h)]
    BY <2>1, <2>2
  <2>4. doing[c] = "running" /\ NextPart(c) /\ UNCHANGED <<suite, checking, notRun, unbuilt>>
    BY DEF RunsPart
  <2> QED  BY <2>3, <2>4, PartTold
<1>r. \A d \in CheckRuns : doing[d] = "ended" => doing'[d] = "ended" /\ truth'[d] = truth[d]
  BY <1>p DEF RunsPart
<1>1. VerdictTypes'
  <2>1. Named' = Named
    BY DEF Named, RunsPart
  <2>2. results' \in [CheckRuns -> SUBSET Tellings] /\ truth' \in [CheckRuns -> Happenings]
        /\ doing' \in [CheckRuns -> CheckSteps]
    BY <1>p
  <2>3. ranFrom' \in [CheckRuns -> SUBSET Sources]
    BY DEF VerdictInv, VerdictTypes, Bin, RunsPart
  <2> QED  BY <2>1, <2>2, <2>3 DEF VerdictInv, VerdictTypes, RunsPart
<1>2. RunsFaithful'
  <2>1. ranFrom \in [CheckRuns -> SUBSET Sources] /\ Bin(c) \in {"mac", "win"}
        /\ UNCHANGED <<suite, checking, binary, seen, sourceVars, undone, slipped>>
    BY DEF VerdictInv, VerdictTypes, Bin, RunsPart
  <2>2. \A d \in CheckRuns : d # c => RunsFaithful!(d)'
    BY <1>p, <2>1, OthersFaithful DEF RunsPart
  <2>3. RunsFaithful!(c)'
    <3>1. ranFrom'[c] = ranFrom[c] \cup {binary[Bin(c)]} /\ binary[Bin(c)] # NoBinary
      BY <2>1 DEF RunsPart
    <3>2. Busy(c) /\ doing[c] = "running" /\ Bin(c)' = Bin(c)  BY <2>1 DEF Bin, IsNative, RunsPart
    <3> QED  BY <1>p, <2>1, <3>1, <3>2 DEF VerdictInv, RunsFaithful, Faithful
  <2> QED  BY <2>2, <2>3 DEF RunsFaithful
<1>3. RecordsSound'
  <2>1. UNCHANGED <<sections, readFile, suite, tree, written, undone, slipped>> /\ RecordsSound
    BY DEF VerdictInv, RunsPart
  <2> QED  BY <1>r, <2>1 DEF RecordsSound, Sound, Faithful, Named, SuiteParts
<1>4. ResultsTell'  BY <1>p
<1>5. PicturesOwn'
  BY DEF VerdictInv, VerdictTypes, PicturesOwn, Filled, RunsPart
<1>6. PicturesBelong'
  BY DEF VerdictInv, VerdictTypes, PicturesOwn, PicturesBelong, Filled, RunsPart
<1> QED  BY <1>1, <1>2, <1>3, <1>4, <1>5, <1>6 DEF VerdictInv

LEMMA PartFailsKeeps ==
  ASSUME VerdictInv, NEW c \in CheckRuns, PartFails(c)
  PROVE  VerdictInv'
<1>p. /\ results' \in [CheckRuns -> SUBSET Tellings] /\ truth' \in [CheckRuns -> Happenings]
      /\ doing' \in [CheckRuns -> CheckSteps]
      /\ doing'[c] \in {"running", "after", "collecting"}
      /\ \A d \in CheckRuns : d # c => doing'[d] = doing[d] /\ truth'[d] = truth[d]
      /\ ResultsTell'
  <2>1. /\ truth' = [truth EXCEPT ![c] = After(truth[c], NeverRan, FALSE, ChildKnown(c))]
        /\ results' = [results EXCEPT ![c] = @ \cup Converted(c, NeverRan)]
        /\ doing[c] = "running" /\ NextPart(c) /\ UNCHANGED <<suite, checking, notRun, unbuilt>>
    BY DEF PartFails
  <2> QED  BY <2>1, NeverRanNothing, PartTold
<1>r. \A d \in CheckRuns : doing[d] = "ended" => doing'[d] = "ended" /\ truth'[d] = truth[d]
  BY <1>p DEF PartFails
<1>1. VerdictTypes'
  <2>1. Named' = Named
    BY DEF Named, PartFails
  <2>2. results' \in [CheckRuns -> SUBSET Tellings] /\ truth' \in [CheckRuns -> Happenings]
        /\ doing' \in [CheckRuns -> CheckSteps]
    BY <1>p
  <2> QED  BY <2>1, <2>2 DEF VerdictInv, VerdictTypes, PartFails
<1>2. RunsFaithful'
  <2>1. ranFrom \in [CheckRuns -> SUBSET Sources] /\ Bin(c) \in {"mac", "win"}
        /\ UNCHANGED <<suite, checking, binary, seen, sourceVars, undone, slipped>>
    BY DEF VerdictInv, VerdictTypes, Bin, PartFails
  <2>2. \A d \in CheckRuns : d # c => RunsFaithful!(d)'
    BY <1>p, <2>1, OthersFaithful DEF PartFails
  <2>3. RunsFaithful!(c)'
    <3>1. ranFrom'[c] = ranFrom[c]
      BY <2>1 DEF PartFails
    <3>2. Busy(c) /\ doing[c] = "running" /\ Bin(c)' = Bin(c)  BY <2>1 DEF Bin, IsNative, PartFails
    <3> QED  BY <1>p, <2>1, <3>1, <3>2 DEF VerdictInv, RunsFaithful, Faithful
  <2> QED  BY <2>2, <2>3 DEF RunsFaithful
<1>3. RecordsSound'
  <2>1. UNCHANGED <<sections, readFile, suite, tree, written, undone, slipped>> /\ RecordsSound
    BY DEF VerdictInv, PartFails
  <2> QED  BY <1>r, <2>1 DEF RecordsSound, Sound, Faithful, Named, SuiteParts
<1>4. ResultsTell'  BY <1>p
<1>5. PicturesOwn'
  BY DEF VerdictInv, VerdictTypes, PicturesOwn, Filled, PartFails
<1>6. PicturesBelong'
  BY DEF VerdictInv, VerdictTypes, PicturesOwn, PicturesBelong, Filled, PartFails
<1> QED  BY <1>1, <1>2, <1>3, <1>4, <1>5, <1>6 DEF VerdictInv

LEMMA PartNotRunKeeps ==
  ASSUME VerdictInv, NEW c \in CheckRuns, PartNotRun(c)
  PROVE  VerdictInv'
<1>1. VerdictTypes'
  <2>1. doing' \in [CheckRuns -> CheckSteps]
    BY VerdictAssumption DEF VerdictInv, VerdictTypes, CheckSteps, PartNotRun
  <2>2. results' \in [CheckRuns -> SUBSET Tellings]
    BY VerdictAssumption DEF VerdictInv, VerdictTypes, Result, Tellings, PartNotRun
  <2>3. notRun' \in [CheckRuns -> BOOLEAN]
    BY VerdictAssumption DEF VerdictInv, VerdictTypes, PartNotRun
  <2>4. Named' = Named  BY DEF Named, PartNotRun
  <2> QED  BY <2>1, <2>2, <2>3, <2>4 DEF VerdictInv, VerdictTypes, PartNotRun
<1>2. RunsFaithful'
  <2>1. \A d \in CheckRuns : d # c => RunsFaithful!(d)'
    BY OthersFaithful DEF VerdictInv, VerdictTypes, PartNotRun
  <2>2. RunsFaithful!(c)'
    BY DEF VerdictInv, VerdictTypes, RunsFaithful, Faithful, Bin, IsNative, PartNotRun
  <2> QED  BY <2>1, <2>2 DEF RunsFaithful
<1>3. RecordsSound'
  BY DEF VerdictInv, VerdictTypes, RecordsSound, Sound, Faithful, Named, SuiteParts, PartNotRun
<1>4. ResultsTell'
  BY DEF VerdictInv, VerdictTypes, ResultsTell, Nothing, SuiteParts, PartNotRun
<1>5. PicturesOwn'
  BY DEF VerdictInv, VerdictTypes, PicturesOwn, Filled, PartNotRun
<1>6. PicturesBelong'
  BY DEF VerdictInv, VerdictTypes, PicturesOwn, PicturesBelong, Filled, PartNotRun
<1> QED  BY <1>1, <1>2, <1>3, <1>4, <1>5, <1>6 DEF VerdictInv

LEMMA DesktopCleanKeeps ==
  ASSUME VerdictInv, NEW c \in CheckRuns, DesktopClean(c)
  PROVE  VerdictInv'
<1>h. ASSUME HostTests(c, "desktop")
      PROVE  /\ truth' \in [CheckRuns -> Happenings] /\ results' \in [CheckRuns -> SUBSET Tellings]
             /\ \A d \in CheckRuns : d # c => truth'[d] = truth[d] /\ results'[d] = results[d]
             /\ truth'[c].parts = truth[c].parts /\ truth'[c].ran = truth[c].ran
             /\ truth'[c].died = truth[c].died
             /\ "failed" \in results[c] => "failed" \in results'[c]
             /\ "known" \in results[c] => "known" \in results'[c]
             /\ truth'[c].broken => truth[c].broken \/ "failed" \in results'[c]
             /\ truth'[c].failing => truth[c].failing \/ "failed" \in results'[c]
  <2>1. PICK fell \in BOOLEAN :
          /\ results' = [results EXCEPT ![c] = @ \cup {Result(c, "desktop", fell)}]
          /\ truth' = [truth EXCEPT ![c].broken = @ \/ fell, ![c].failing = @ \/ fell]
    BY <1>h DEF HostTests
  <2>2. truth \in [CheckRuns -> Happenings] /\ results \in [CheckRuns -> SUBSET Tellings]
    BY DEF VerdictInv, VerdictTypes
  <2>3. Result(c, "desktop", fell) = IF fell THEN "failed" ELSE "ok"  BY DEF Result
  <2>4. DEFINE new == [truth[c] EXCEPT !.broken = @ \/ fell, !.failing = @ \/ fell]
  <2>5. /\ new \in Happenings /\ new.parts = truth[c].parts /\ new.ran = truth[c].ran
        /\ new.died = truth[c].died /\ new.broken = (truth[c].broken \/ fell)
        /\ new.failing = (truth[c].failing \/ fell)
    BY <2>2 DEF Happenings
  <2>6. truth' = [truth EXCEPT ![c] = new]  BY <2>1, <2>2 DEF Happenings
  <2> HIDE DEF new
  <2>7. results'[c] = results[c] \cup {Result(c, "desktop", fell)}  BY <2>1, <2>2
  <2>8. results' \in [CheckRuns -> SUBSET Tellings]  BY <2>1, <2>2, <2>3 DEF Tellings
  <2>9. truth' \in [CheckRuns -> Happenings] /\ truth'[c] = new  BY <2>2, <2>5, <2>6
  <2>10. \A d \in CheckRuns : d # c => truth'[d] = truth[d] /\ results'[d] = results[d]
    BY <2>1, <2>2, <2>6
  <2>11. fell => "failed" \in results'[c]  BY <2>3, <2>7
  <2> QED  BY <2>5, <2>7, <2>8, <2>9, <2>10, <2>11
<1>1. VerdictTypes'
  <2>1. doing' \in [CheckRuns -> CheckSteps]
    BY VerdictAssumption DEF VerdictInv, VerdictTypes, CheckSteps, DesktopClean
  <2>2. Named' = Named
    BY DEF Named, DesktopClean
  <2>3. results' \in [CheckRuns -> SUBSET Tellings] /\ truth' \in [CheckRuns -> Happenings]
    BY <1>h DEF VerdictInv, VerdictTypes, DesktopClean
  <2> QED  BY <2>1, <2>2, <2>3 DEF VerdictInv, VerdictTypes, DesktopClean
<1>2. RunsFaithful'
  <2>1. \A d \in CheckRuns : d # c => RunsFaithful!(d)'
    BY OthersFaithful DEF VerdictInv, VerdictTypes, DesktopClean
  <2>2. RunsFaithful!(c)'
    BY DEF VerdictInv, VerdictTypes, RunsFaithful, Faithful, Bin, IsNative, DesktopClean
  <2> QED  BY <2>1, <2>2 DEF RunsFaithful
<1>r. \A d \in CheckRuns : doing[d] = "ended" => doing'[d] = "ended" /\ truth'[d] = truth[d]
  BY <1>h DEF VerdictInv, VerdictTypes, DesktopClean
<1>3. RecordsSound'
  BY <1>r DEF VerdictInv, VerdictTypes, RecordsSound, Sound, Faithful, Named, SuiteParts, DesktopClean
<1>4. ResultsTell'
  <2>0. /\ SuiteParts' = SuiteParts /\ doing[c] = "after" /\ doing'[c] = "collecting"
        /\ UNCHANGED <<notRun, unbuilt>> /\ HostTests(c, "desktop")
        /\ \A d \in CheckRuns : d # c => doing'[d] = doing[d]
    BY DEF SuiteParts, VerdictInv, VerdictTypes, DesktopClean
  <2> SUFFICES ASSUME NEW d \in CheckRuns PROVE ResultsTell!(d)'  BY DEF ResultsTell
  <2>1. CASE d = c
    <3>1. /\ "failed" \in results[c]
               \/ (truth[c].ran = truth[c].parts /\ ~truth[c].broken /\ ~truth[c].died)
          /\ results[c] \cap {"failed", "known"} # {} \/ ~truth[c].failing
          /\ truth[c].parts = SuiteParts
      BY <2>0 DEF VerdictInv, ResultsTell
    <3>2. "failed" \in results'[c]
             \/ (truth'[c].ran = truth'[c].parts /\ ~truth'[c].broken /\ ~truth'[c].died)
      <4>1. CASE "failed" \in results'[c]  BY <4>1
      <4>2. CASE "failed" \notin results'[c]
        <5>1. truth'[c].ran = truth'[c].parts  BY <1>h, <2>0, <3>1, <4>2
        <5>2. ~truth'[c].broken /\ ~truth'[c].died  BY <1>h, <2>0, <3>1, <4>2
        <5> QED  BY <5>1, <5>2
      <4> QED  BY <4>1, <4>2
    <3>3. results'[c] \cap {"failed", "known"} # {} \/ ~truth'[c].failing  BY <1>h, <2>0, <3>1
    <3>4. truth'[c].parts = SuiteParts  BY <1>h, <2>0, <3>1
    <3> QED  BY <2>0, <2>1, <3>2, <3>3, <3>4
  <2>2. CASE d # c  BY <1>h, <2>0, <2>2 DEF VerdictInv, ResultsTell
  <2> QED  BY <2>1, <2>2
<1>5. PicturesOwn'
  BY DEF VerdictInv, VerdictTypes, PicturesOwn, Filled, DesktopClean
<1>6. PicturesBelong'
  BY DEF VerdictInv, VerdictTypes, PicturesOwn, PicturesBelong, Filled, DesktopClean
<1> QED  BY <1>1, <1>2, <1>3, <1>4, <1>5, <1>6 DEF VerdictInv

LEMMA EmptiesKeeps ==
  ASSUME VerdictInv, NEW c \in CheckRuns, Empties(c)
  PROVE  VerdictInv'
<1>1. VerdictTypes'
  <2>1. doing' \in [CheckRuns -> CheckSteps]
    BY VerdictAssumption DEF VerdictInv, VerdictTypes, CheckSteps, Empties
  <2>2. pictures' \in [Targets -> SUBSET CheckRuns]
    BY VerdictAssumption DEF VerdictInv, VerdictTypes, Empties
  <2>3. manifest' \in [Targets -> CheckRuns \cup {NoCheck}]
    BY VerdictAssumption DEF VerdictInv, VerdictTypes, Empties
  <2>4. Named' = Named  BY DEF Named, Empties
  <2> QED  BY <2>1, <2>2, <2>3, <2>4 DEF VerdictInv, VerdictTypes, Empties
<1>2. RunsFaithful'
  <2>1. \A d \in CheckRuns : d # c => RunsFaithful!(d)'
    BY OthersFaithful DEF VerdictInv, VerdictTypes, Empties
  <2>2. RunsFaithful!(c)'
    BY DEF VerdictInv, VerdictTypes, RunsFaithful, Faithful, Bin, IsNative, Empties
  <2> QED  BY <2>1, <2>2 DEF RunsFaithful
<1>3. RecordsSound'
  BY DEF VerdictInv, VerdictTypes, RecordsSound, Sound, Faithful, Named, SuiteParts, Empties
<1>4. ResultsTell'
  BY DEF VerdictInv, VerdictTypes, ResultsTell, Nothing, SuiteParts, Empties
<1>5. PicturesOwn'
  BY DEF VerdictInv, VerdictTypes, PicturesOwn, Filled, Mixes, Empties
<1>6. PicturesBelong'
  BY DEF VerdictInv, VerdictTypes, PicturesOwn, PicturesBelong, Filled, Mixes, Empties
<1> QED  BY <1>1, <1>2, <1>3, <1>4, <1>5, <1>6 DEF VerdictInv

LEMMA CopiesShotKeeps ==
  ASSUME VerdictInv, NEW c \in CheckRuns, CopiesShot(c)
  PROVE  VerdictInv'
<1>1. VerdictTypes'
  <2>1. pictures' \in [Targets -> SUBSET CheckRuns]
    BY VerdictAssumption DEF VerdictInv, VerdictTypes, CopiesShot
  <2>2. Named' = Named  BY DEF Named, CopiesShot
  <2> QED  BY <2>1, <2>2 DEF VerdictInv, VerdictTypes, CopiesShot
<1>2. RunsFaithful'
  <2>1. \A d \in CheckRuns : d # c => RunsFaithful!(d)'
    BY OthersFaithful DEF VerdictInv, VerdictTypes, CopiesShot
  <2>2. RunsFaithful!(c)'
    BY DEF VerdictInv, VerdictTypes, RunsFaithful, Faithful, Bin, IsNative, CopiesShot
  <2> QED  BY <2>1, <2>2 DEF RunsFaithful
<1>3. RecordsSound'
  BY DEF VerdictInv, VerdictTypes, RecordsSound, Sound, Faithful, Named, SuiteParts, CopiesShot
<1>4. ResultsTell'
  BY DEF VerdictInv, VerdictTypes, ResultsTell, Nothing, SuiteParts, CopiesShot
<1>5. PicturesOwn'
  BY DEF VerdictInv, VerdictTypes, PicturesOwn, Filled, CopiesShot
<1>6. PicturesBelong'
  BY DEF VerdictInv, VerdictTypes, PicturesOwn, PicturesBelong, Filled, CopiesShot
<1> QED  BY <1>1, <1>2, <1>3, <1>4, <1>5, <1>6 DEF VerdictInv

LEMMA WritesManifestKeeps ==
  ASSUME VerdictInv, NEW c \in CheckRuns, WritesManifest(c)
  PROVE  VerdictInv'
<1>1. VerdictTypes'
  <2>1. doing' \in [CheckRuns -> CheckSteps]
    BY VerdictAssumption DEF VerdictInv, VerdictTypes, CheckSteps, WritesManifest
  <2>2. manifest' \in [Targets -> CheckRuns \cup {NoCheck}]
    BY VerdictAssumption DEF VerdictInv, VerdictTypes, WritesManifest
  <2>3. Named' = Named  BY DEF Named, WritesManifest
  <2> QED  BY <2>1, <2>2, <2>3 DEF VerdictInv, VerdictTypes, WritesManifest
<1>2. RunsFaithful'
  <2>1. \A d \in CheckRuns : d # c => RunsFaithful!(d)'
    BY OthersFaithful DEF VerdictInv, VerdictTypes, WritesManifest
  <2>2. RunsFaithful!(c)'
    BY DEF VerdictInv, VerdictTypes, RunsFaithful, Faithful, Bin, IsNative, WritesManifest
  <2> QED  BY <2>1, <2>2 DEF RunsFaithful
<1>3. RecordsSound'
  BY DEF VerdictInv, VerdictTypes, RecordsSound, Sound, Faithful, Named, SuiteParts, WritesManifest
<1>4. ResultsTell'
  BY DEF VerdictInv, VerdictTypes, ResultsTell, Nothing, SuiteParts, WritesManifest
<1>5. PicturesOwn'
  BY DEF VerdictInv, VerdictTypes, PicturesOwn, Filled, WritesManifest
<1>6. PicturesBelong'
  BY DEF VerdictInv, VerdictTypes, PicturesOwn, PicturesBelong, Filled, WritesManifest
<1> QED  BY <1>1, <1>2, <1>3, <1>4, <1>5, <1>6 DEF VerdictInv

LEMMA ReadsFileKeeps ==
  ASSUME VerdictInv, NEW c \in CheckRuns, ReadsFile(c)
  PROVE  VerdictInv'
<1>1. VerdictTypes'
  <2>1. doing' \in [CheckRuns -> CheckSteps]
    BY VerdictAssumption DEF VerdictInv, VerdictTypes, CheckSteps, ReadsFile
  <2>2. Named' = Named  BY DEF Named, ReadsFile
  <2>3. readFile' \in [CheckRuns -> [Targets -> Records]]
    BY DEF VerdictInv, VerdictTypes, ReadsFile
  <2> QED  BY <2>1, <2>2, <2>3 DEF VerdictInv, VerdictTypes, ReadsFile
<1>2. RunsFaithful'
  <2>1. \A d \in CheckRuns : d # c => RunsFaithful!(d)'
    BY OthersFaithful DEF VerdictInv, VerdictTypes, ReadsFile
  <2>2. RunsFaithful!(c)'
    BY DEF VerdictInv, VerdictTypes, RunsFaithful, Faithful, Bin, IsNative, ReadsFile
  <2> QED  BY <2>1, <2>2 DEF RunsFaithful
<1>3. RecordsSound'
  BY DEF VerdictInv, VerdictTypes, RecordsSound, Sound, Faithful, Named, SuiteParts, ReadsFile
<1>4. ResultsTell'
  BY DEF VerdictInv, VerdictTypes, ResultsTell, Nothing, SuiteParts, ReadsFile
<1>5. PicturesOwn'
  BY DEF VerdictInv, VerdictTypes, PicturesOwn, Filled, ReadsFile
<1>6. PicturesBelong'
  BY DEF VerdictInv, VerdictTypes, PicturesOwn, PicturesBelong, Filled, ReadsFile
<1> QED  BY <1>1, <1>2, <1>3, <1>4, <1>5, <1>6 DEF VerdictInv

LEMMA RecordsVerdictKeeps ==
  ASSUME VerdictInv, NEW c \in CheckRuns, RecordsVerdict(c)
  PROVE  VerdictInv'
<1>n. PICK new : new = [by |-> c, verdict |-> VerdictOf(c), source |-> seen[c],
                        from |-> ranFrom[c]]
  OBVIOUS
<1>r. \A d \in CheckRuns : doing[d] = "ended" => doing'[d] = "ended" /\ truth'[d] = truth[d]
  BY DEF VerdictInv, VerdictTypes, RecordsVerdict
<1>m. Moves /\ UNCHANGED suite  BY DEF VerdictInv, VerdictTypes, Moves, RecordsVerdict
<1>v. ASSUME NEW s \in Records, Sound(s) PROVE Sound(s)'  BY <1>r, <1>m, <1>v, SoundKept
<1>u. /\ readFile' = [readFile EXCEPT ![c] = [t \in Targets |-> Unrecorded]]
      /\ readFile \in [CheckRuns -> [Targets -> Records]]
  BY DEF VerdictInv, VerdictTypes, RecordsVerdict
<1>w. new \in Records
  <2>1. VerdictOf(c) \in Said  BY DEF VerdictOf, Said
  <2>2. seen[c] \in Versions /\ ranFrom[c] \in SUBSET Sources
    BY VerdictAssumption DEF VerdictInv, VerdictTypes, Named, Versions, NoVersion
  <2> QED  BY <1>n, <2>1, <2>2 DEF Records
<1>x. /\ sections' = [readFile[c] EXCEPT ![checking[c]] = new]
      /\ readFile[c] \in [Targets -> Records]
      /\ checking[c] \in Targets
  BY <1>n DEF VerdictInv, VerdictTypes, RecordsVerdict, RecordedSource
<1>y. Sound(new)'
  <2>1. seen[c] \in Named /\ \A b \in ranFrom[c] : Faithful(seen[c], c, b)
    BY DEF VerdictInv, VerdictTypes, RunsFaithful
  <2>2. ASSUME VerdictOf(c) \in {"YES", "KNOWN-ONLY"}
        PROVE  /\ truth[c].ran = SuiteParts /\ ~truth[c].broken /\ ~truth[c].died
               /\ VerdictOf(c) = "YES" => ~truth[c].failing
    <3>1. doing[c] = "renaming"  BY DEF RecordsVerdict
    <3>2. ~notRun[c] /\ ~unbuilt[c] /\ "failed" \notin results[c]  BY <2>2 DEF VerdictOf
    <3>3. VerdictOf(c) = "YES" => "known" \notin results[c]  BY DEF VerdictOf
    <3> QED  BY <3>1, <3>2, <3>3 DEF VerdictInv, ResultsTell
  <2>3. UNCHANGED <<suite, truth, tree, written, undone, slipped>> /\ doing'[c] = "ended"
    BY DEF VerdictInv, VerdictTypes, RecordsVerdict
  <2>4. /\ new.by = c /\ new.verdict = VerdictOf(c) /\ new.source = seen[c]
        /\ new.from = ranFrom[c]
    BY <1>n
  <2> QED  BY <2>1, <2>2, <2>3, <2>4 DEF Sound, Named, Faithful, SuiteParts
<1>1. VerdictTypes'
  <2>1. doing' \in [CheckRuns -> CheckSteps]
    BY VerdictAssumption DEF VerdictInv, VerdictTypes, CheckSteps, RecordsVerdict
  <2>2. results' \in [CheckRuns -> SUBSET Tellings]
    BY VerdictAssumption DEF VerdictInv, VerdictTypes, Result, Tellings, RecordsVerdict
  <2>3. ranFrom' \in [CheckRuns -> SUBSET Sources]
    BY VerdictAssumption DEF VerdictInv, VerdictTypes, RecordsVerdict
  <2>4. seen' \in [CheckRuns -> Named'] /\ Named' = Named
    BY VerdictAssumption DEF VerdictInv, VerdictTypes, Named, RecordsVerdict
  <2>5. notRun' \in [CheckRuns -> BOOLEAN]
    BY VerdictAssumption DEF VerdictInv, VerdictTypes, RecordsVerdict
  <2>6. unbuilt' \in [CheckRuns -> BOOLEAN]
    BY VerdictAssumption DEF VerdictInv, VerdictTypes, RecordsVerdict
  <2>7. readFile' \in [CheckRuns -> [Targets -> Records]]
    BY <1>u, UnrecordedSound
  <2>8. sections' \in [Targets -> Records]
    BY <1>w, <1>x
  <2> QED  BY <2>1, <2>2, <2>3, <2>4, <2>5, <2>6, <2>7, <2>8 DEF VerdictInv, VerdictTypes, RecordsVerdict
<1>2. RunsFaithful'
  <2>1. \A d \in CheckRuns : d # c => RunsFaithful!(d)'
    BY OthersFaithful DEF VerdictInv, VerdictTypes, RecordsVerdict
  <2>2. doing'[c] = "ended" /\ ranFrom'[c] = {}  BY DEF VerdictInv, VerdictTypes, RecordsVerdict
  <2> QED  BY <2>1, <2>2 DEF RunsFaithful
<1>3. RecordsSound'
  <2>1. RecordsSound  BY DEF VerdictInv
  <2>2. ASSUME NEW t \in Targets PROVE Sound(sections[t])'
    <3>1. CASE t = checking[c]
      <4>1. sections'[t] = new  BY <1>x, <3>1
      <4> QED  BY <1>y, <4>1 DEF Sound, Named, Faithful
    <3>2. CASE t # checking[c]
      <4>1. sections'[t] = readFile[c][t] /\ readFile[c][t] \in Records  BY <1>x, <3>2
      <4> QED  BY <1>v, <2>1, <4>1 DEF RecordsSound, Sound, Named, Faithful
    <3> QED  BY <3>1, <3>2
  <2>3. ASSUME NEW t \in Targets, NEW d \in CheckRuns PROVE Sound(readFile[d][t])'
    <3>1. CASE d = c
      <4>1. readFile'[d][t] = Unrecorded  BY <1>u, <3>1
      <4> QED  BY <4>1, UnrecordedSound DEF Sound, Named, Faithful
    <3>2. CASE d # c
      <4>1. readFile'[d][t] = readFile[d][t] /\ readFile[d][t] \in Records  BY <1>u, <3>2
      <4> QED  BY <1>v, <2>1, <4>1 DEF RecordsSound, Sound, Named, Faithful
    <3> QED  BY <3>1, <3>2
  <2> QED  BY <2>2, <2>3 DEF RecordsSound
<1>4. ResultsTell'
  BY DEF VerdictInv, VerdictTypes, ResultsTell, Nothing, SuiteParts, RecordsVerdict
<1>5. PicturesOwn'
  BY DEF VerdictInv, VerdictTypes, PicturesOwn, Filled, RecordsVerdict
<1>6. PicturesBelong'
  BY DEF VerdictInv, VerdictTypes, PicturesOwn, PicturesBelong, Filled, RecordsVerdict
<1> QED  BY <1>1, <1>2, <1>3, <1>4, <1>5, <1>6 DEF VerdictInv

LEMMA CheckDiesKeeps ==
  ASSUME VerdictInv, NEW c \in CheckRuns, CheckDies(c)
  PROVE  VerdictInv'
<1>r. \A d \in CheckRuns : doing[d] = "ended" => doing'[d] = "ended" /\ truth'[d] = truth[d]
  BY DEF VerdictInv, VerdictTypes, CheckDies
<1>m. Moves /\ UNCHANGED suite  BY DEF VerdictInv, VerdictTypes, Moves, CheckDies
<1>v. ASSUME NEW s \in Records, Sound(s) PROVE Sound(s)'  BY <1>r, <1>m, <1>v, SoundKept
<1>u. /\ readFile' = [readFile EXCEPT ![c] = [t \in Targets |-> Unrecorded]]
      /\ readFile \in [CheckRuns -> [Targets -> Records]]
  BY DEF VerdictInv, VerdictTypes, CheckDies
<1>1. VerdictTypes'
  <2>1. doing' \in [CheckRuns -> CheckSteps]
    BY VerdictAssumption DEF VerdictInv, VerdictTypes, CheckSteps, CheckDies
  <2>2. results' \in [CheckRuns -> SUBSET Tellings]
    BY VerdictAssumption DEF VerdictInv, VerdictTypes, Result, Tellings, CheckDies
  <2>3. ranFrom' \in [CheckRuns -> SUBSET Sources]
    BY VerdictAssumption DEF VerdictInv, VerdictTypes, CheckDies
  <2>4. seen' \in [CheckRuns -> Named'] /\ Named' = Named
    BY VerdictAssumption DEF VerdictInv, VerdictTypes, Named, CheckDies
  <2>5. notRun' \in [CheckRuns -> BOOLEAN]
    BY VerdictAssumption DEF VerdictInv, VerdictTypes, CheckDies
  <2>6. unbuilt' \in [CheckRuns -> BOOLEAN]
    BY VerdictAssumption DEF VerdictInv, VerdictTypes, CheckDies
  <2>7. truth' \in [CheckRuns -> Happenings]
    BY VerdictAssumption DEF VerdictInv, VerdictTypes, Nothing, Happenings, CheckDies
  <2>8. readFile' \in [CheckRuns -> [Targets -> Records]]
    BY <1>u, UnrecordedSound
  <2> QED  BY <2>1, <2>2, <2>3, <2>4, <2>5, <2>6, <2>7, <2>8 DEF VerdictInv, VerdictTypes, CheckDies
<1>2. RunsFaithful'
  <2>1. \A d \in CheckRuns : d # c => RunsFaithful!(d)'
    BY OthersFaithful DEF VerdictInv, VerdictTypes, CheckDies
  <2>2. doing'[c] = "ended" /\ ranFrom'[c] = {}  BY DEF VerdictInv, VerdictTypes, CheckDies
  <2> QED  BY <2>1, <2>2 DEF RunsFaithful
<1>3. RecordsSound'
  <2>1. UNCHANGED sections /\ sections \in [Targets -> Records] /\ RecordsSound
    BY DEF VerdictInv, VerdictTypes, CheckDies
  <2>2. ASSUME NEW t \in Targets PROVE Sound(sections[t])'
    BY <1>v, <2>1 DEF RecordsSound, Sound, Named, Faithful
  <2>3. ASSUME NEW t \in Targets, NEW d \in CheckRuns PROVE Sound(readFile[d][t])'
    <3>1. CASE d = c
      <4>1. readFile'[d][t] = Unrecorded  BY <1>u, <3>1
      <4> QED  BY <4>1, UnrecordedSound DEF Sound, Named, Faithful
    <3>2. CASE d # c
      <4>1. readFile'[d][t] = readFile[d][t] /\ readFile[d][t] \in Records  BY <1>u, <3>2
      <4> QED  BY <1>v, <2>1, <4>1 DEF RecordsSound, Sound, Named, Faithful
    <3> QED  BY <3>1, <3>2
  <2> QED  BY <2>2, <2>3 DEF RecordsSound
<1>4. ResultsTell'
  BY DEF VerdictInv, VerdictTypes, ResultsTell, Nothing, SuiteParts, CheckDies
<1>5. PicturesOwn'
  BY DEF VerdictInv, VerdictTypes, PicturesOwn, Filled, CheckDies
<1>6. PicturesBelong'
  BY DEF VerdictInv, VerdictTypes, PicturesOwn, PicturesBelong, Filled, CheckDies
<1> QED  BY <1>1, <1>2, <1>3, <1>4, <1>5, <1>6 DEF VerdictInv

\* Whoever works in the checkout only moves the source.
LEMMA SourceMoves ==
  ASSUME VerdictInv, Edits \/ Undoes \/ AddsFile \/ RemovesFile \/ Commits
  PROVE  VerdictInv'
<1>0. /\ written \in Nat /\ MaxEdits \in Nat /\ written <= MaxEdits /\ tree \in Sources
      /\ tree.tracked <= written /\ tree.tracked \in Nat /\ head \in 0 .. written
  BY VerdictAssumption DEF VerdictInv, VerdictTypes, Sources, Versions, NoVersion
<1>1. SourceOnly  BY DEF Edits, Undoes, AddsFile, RemovesFile, Commits
<1>2. Moves /\ head' \in 0 .. written'
  <2>1. CASE Edits
    <3>1. /\ written' = written + 1 /\ tree' = [tree EXCEPT !.tracked = written + 1]
          /\ written + 1 \in Versions
      BY <1>0, <2>1 DEF Edits, Versions, NoVersion
    <3>2. tree' \in Sources /\ tree'.tracked = written + 1  BY <1>0, <3>1 DEF Sources
    <3> QED  BY <1>0, <2>1, <3>1, <3>2 DEF Moves, Edits
  <2>2. CASE Undoes
    <3>1. PICK v \in 0 .. written : tree' = [tree EXCEPT !.tracked = v] /\ undone' = undone \cup {v}
      BY <2>2 DEF Undoes
    <3>2. v \in Versions  BY <1>0 DEF Versions, NoVersion
    <3>3. tree' \in Sources /\ tree'.tracked = v  BY <1>0, <3>1, <3>2 DEF Sources
    <3> QED  BY <1>0, <2>2, <3>1, <3>3 DEF Moves, Undoes
  <2>3. CASE AddsFile
    <3>1. tree' \in Sources /\ tree'.tracked = tree.tracked  BY <1>0, <2>3 DEF AddsFile, Sources
    <3> QED  BY <1>0, <2>3, <3>1 DEF Moves, AddsFile
  <2>4. CASE RemovesFile
    <3>1. tree' \in Sources /\ tree'.tracked = tree.tracked  BY <1>0, <2>4 DEF RemovesFile, Sources
    <3> QED  BY <1>0, <2>4, <3>1 DEF Moves, RemovesFile
  <2>5. CASE Commits  BY <1>0, <2>5 DEF Moves, Commits
  <2> QED  BY <2>1, <2>2, <2>3, <2>4, <2>5
<1>3. Named \subseteq Named'  BY <1>0, <1>2 DEF Named, Moves
<1>4. VerdictTypes'
  <2>1. /\ written' \in Nat /\ written' <= MaxEdits /\ tree' \in Sources
        /\ tree'.tracked <= written' /\ head' \in 0 .. written'
    BY <1>2 DEF Moves
  <2>2. seen' \in [CheckRuns -> Named']  BY <1>1, <1>3 DEF VerdictInv, VerdictTypes
  <2> QED  BY <1>1, <2>1, <2>2 DEF VerdictInv, VerdictTypes
<1>5. RunsFaithful'
  <2> SUFFICES ASSUME NEW d \in CheckRuns PROVE RunsFaithful!(d)'  BY DEF RunsFaithful
  <2>1. seen[d] \in Named /\ UNCHANGED <<seen, ranFrom, doing, binary, suite, checking>>
    BY <1>1 DEF VerdictInv, VerdictTypes
  <2>2. ASSUME NEW b, Faithful(seen[d], d, b) PROVE Faithful(seen[d], d, b)'
    <3>1. PICK v : v = seen[d]  OBVIOUS
    <3>2. Faithful(v, d, b)'  BY <1>2, <2>1, <2>2, <3>1, FaithfulKept
    <3> QED  BY <2>1, <3>1, <3>2 DEF Faithful
  <2>3. Busy(d)' /\ seen'[d] # NoVersion /\ tree'.extra => d \in slipped'
    <3>1. CASE AddsFile
      BY <1>1, <3>1 DEF VerdictInv, RunsFaithful, AddsFile
    <3>2. CASE ~AddsFile
      <4>1. tree'.extra => tree.extra
        BY <1>0, <3>2 DEF Edits, Undoes, RemovesFile, Commits, Sources
      <4> QED  BY <1>2, <2>1, <4>1 DEF VerdictInv, RunsFaithful, Moves
    <3> QED  BY <3>1, <3>2
  <2>4. Bin(d)' = Bin(d)  BY <2>1 DEF Bin, IsNative
  <2>5. doing'[d] \in {"before", "running"} =>
          binary'[Bin(d)'] = NoBinary \/ Faithful(seen[d], d, binary[Bin(d)])'
    <3>1. ASSUME doing[d] \in {"before", "running"}, binary[Bin(d)] # NoBinary
          PROVE  Faithful(seen[d], d, binary[Bin(d)])'
      <4>1. PICK b : b = binary[Bin(d)]  OBVIOUS
      <4>2. Faithful(seen[d], d, b)  BY <3>1, <4>1 DEF VerdictInv, RunsFaithful
      <4>3. Faithful(seen[d], d, b)'  BY <2>2, <4>2
      <4> QED  BY <2>1, <2>4, <4>1, <4>3 DEF Faithful
    <3> QED  BY <2>1, <2>4, <3>1 DEF Faithful
  <2>6. \A b \in ranFrom'[d] : Faithful(seen[d], d, b)'
    <3>1. ASSUME NEW b \in ranFrom[d] PROVE Faithful(seen[d], d, b)'
      BY <2>2, <3>1 DEF VerdictInv, RunsFaithful
    <3> QED  BY <2>1, <3>1
  <2>7. doing'[d] \in {"idle", "building", "before"} => ranFrom'[d] = {}
    BY <2>1 DEF VerdictInv, RunsFaithful
  <2> QED  BY <2>1, <2>3, <2>5, <2>6, <2>7 DEF Faithful
<1>6. RecordsSound'
  <2>1. UNCHANGED <<sections, readFile, suite, doing, truth>> /\ RecordsSound  BY <1>1 DEF VerdictInv
  <2>2. ASSUME NEW s \in Records, Sound(s) PROVE Sound(s)'  BY <1>2, <2>1, <2>2, SoundKept
  <2>3. ASSUME NEW t \in Targets PROVE Sound(sections[t])'
    <3>1. sections[t] \in Records  BY DEF VerdictInv, VerdictTypes
    <3> QED  BY <2>1, <2>2, <3>1 DEF RecordsSound, Sound, Named, Faithful
  <2>4. ASSUME NEW t \in Targets, NEW d \in CheckRuns PROVE Sound(readFile[d][t])'
    <3>1. readFile[d][t] \in Records  BY DEF VerdictInv, VerdictTypes
    <3> QED  BY <2>1, <2>2, <3>1 DEF RecordsSound, Sound, Named, Faithful
  <2> QED  BY <2>3, <2>4 DEF RecordsSound
<1>7. ResultsTell'  BY <1>1 DEF VerdictInv, ResultsTell, SuiteParts
<1>8. PicturesOwn' /\ PicturesBelong'
  BY <1>1 DEF VerdictInv, PicturesOwn, PicturesBelong, Filled
<1> QED  BY <1>4, <1>5, <1>6, <1>7, <1>8 DEF VerdictInv

LEMMA VerdictStep == VerdictInv /\ [VerdictNext]_verdictVars => VerdictInv'
<1> SUFFICES ASSUME VerdictInv, [VerdictNext]_verdictVars PROVE VerdictInv'  OBVIOUS
<1>1. ASSUME NEW c \in CheckRuns,
             \/ CheckBegins(c) \/ Builds(c) \/ AgentAnswers(c) \/ RunsPart(c) \/ PartFails(c)
             \/ PartNotRun(c) \/ DesktopClean(c) \/ Empties(c) \/ CopiesShot(c)
             \/ WritesManifest(c) \/ ReadsFile(c) \/ RecordsVerdict(c) \/ CheckDies(c)
      PROVE  VerdictInv'
  BY <1>1, CheckBeginsKeeps, BuildsKeeps, AgentAnswersKeeps, RunsPartKeeps, PartFailsKeeps,
     PartNotRunKeeps, DesktopCleanKeeps, EmptiesKeeps, CopiesShotKeeps, WritesManifestKeeps,
     ReadsFileKeeps, RecordsVerdictKeeps, CheckDiesKeeps
<1>2. CASE Edits \/ Undoes \/ AddsFile \/ RemovesFile \/ Commits  BY <1>2, SourceMoves
<1>3. CASE UNCHANGED verdictVars
  <2>1. VerdictTypes'  BY <1>3 DEF verdictVars, VerdictInv, VerdictTypes, Named
  <2>2. RunsFaithful'
    BY <1>3 DEF verdictVars, VerdictInv, RunsFaithful, Faithful, Bin, IsNative
  <2>3. RecordsSound'
    BY <1>3 DEF verdictVars, VerdictInv, RecordsSound, Sound, Faithful, Named, SuiteParts
  <2>4. ResultsTell'  BY <1>3 DEF verdictVars, VerdictInv, ResultsTell, SuiteParts
  <2>5. PicturesOwn' /\ PicturesBelong'
    BY <1>3 DEF verdictVars, VerdictInv, PicturesOwn, PicturesBelong, Filled
  <2> QED  BY <2>1, <2>2, <2>3, <2>4, <2>5 DEF VerdictInv
<1> QED  BY <1>1, <1>2, <1>3 DEF VerdictNext

LEMMA VerdictInitInv == VerdictInit => VerdictInv
<1> SUFFICES ASSUME VerdictInit PROVE VerdictInv  OBVIOUS
<1>1. VerdictTypes
  <2>1. sections \in [Targets -> Records] /\ readFile \in [CheckRuns -> [Targets -> Records]]
    BY UnrecordedSound DEF VerdictInit
  <2>2. Nothing \in Happenings  BY DEF Nothing, Happenings
  <2>3. NoBinary \in Sources /\ tree \in Sources /\ tree.tracked = 0
    BY VerdictAssumption DEF VerdictInit, NoBinary, Sources, Versions, NoVersion
  <2>4. seen \in [CheckRuns -> Named]  BY DEF VerdictInit, Named
  <2> QED  BY <2>1, <2>2, <2>3, <2>4, VerdictAssumption DEF VerdictInit, VerdictTypes, CheckSteps
<1>2. RecordsSound
  <2>1. \A t \in Targets :
          sections[t] = Unrecorded /\ \A c \in CheckRuns : readFile[c][t] = Unrecorded
    BY DEF VerdictInit
  <2> QED  BY <2>1, UnrecordedSound DEF RecordsSound
<1>3. RunsFaithful  BY DEF VerdictInit, RunsFaithful
<1>4. ResultsTell  BY DEF VerdictInit, ResultsTell
<1>5. PicturesOwn /\ PicturesBelong  BY DEF VerdictInit, PicturesOwn, PicturesBelong
<1> QED  BY <1>1, <1>2, <1>3, <1>4, <1>5 DEF VerdictInv

LEMMA VerdictInvHolds == VerdictSpec => []VerdictInv
<1> QED  BY VerdictInitInv, VerdictStep, PTL DEF VerdictSpec

\* A verdict that lets a gate through was earned, whatever else was checked,
\* built, edited or killed meanwhile: every part of its check ran, no test failed
\* but the known one, none was left unfinished, and no binary died but in the
\* ways Suite.parse cannot hear of.
THEOREM VerdictsAreEarned == VerdictSpec => []VerdictEarned
<1>1. VerdictInv => VerdictEarned  BY DEF VerdictInv, RecordsSound, Sound, VerdictEarned
<1> QED  BY VerdictInvHolds, <1>1, PTL

\* A record that git diff finds unchanged is of binaries built from exactly its
\* commit, however many checks built over one file while the source was edited,
\* gone back on and committed, except in the two ways git diff cannot see.
THEOREM CurrentRecordsAreTrue == VerdictSpec => []CurrentTrue
<1>1. ASSUME VerdictInv PROVE CurrentTrue
  <2> SUFFICES ASSUME NEW t \in Targets, SaysUnchanged(t), sections[t].by \notin slipped,
                      sections[t].source \notin undone, NEW b \in sections[t].from
               PROVE  b = [tracked |-> sections[t].source, extra |-> FALSE]
    BY DEF CurrentTrue
  <2>1. Sound(sections[t])  BY <1>1 DEF VerdictInv, RecordsSound
  <2>2. Faithful(sections[t].source, sections[t].by, b)  BY <2>1 DEF Sound
  <2> QED  BY <2>2 DEF Faithful, SaysUnchanged
<1> QED  BY VerdictInvHolds, <1>1, PTL

\* Beside a manifest are only the pictures of the check that wrote it, unless two
\* checks filled the directory at once since one alone emptied it.
THEOREM PicturesAreOfTheirRun == VerdictSpec => []PicturesBelong
<1>1. VerdictInv => PicturesBelong  BY DEF VerdictInv
<1> QED  BY VerdictInvHolds, <1>1, PTL
=============================================================================
