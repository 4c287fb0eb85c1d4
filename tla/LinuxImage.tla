----------------------------- MODULE LinuxImage -----------------------------
(***************************************************************************)
(* vm-create -os linux making VMs of the pinned cloud image                *)
(* (internal/utmvm/linux_vm.go, isoDownload in iso_create.go).             *)
(*                                                                         *)
(* Each run holds its own VM's lock, and the machine lock only while it    *)
(* makes its bundle: the image is looked for and downloaded holding        *)
(* nothing in common, through one .part file.  Files are what a name leads *)
(* to: a run goes on writing the file it opened after the name has moved.  *)
(***************************************************************************)
EXTENDS Naturals, Sequences

CONSTANTS
  Makers,     \* runs of vm-create -os linux, each of its own VM
  Size,       \* blocks in the pinned image
  MaxFiles,   \* files ever made under the .part's name: a bound of the model
  MaxLength   \* blocks a file may grow to: a bound of the model

ASSUME LinuxAssumption ==
  /\ Size \in Nat \ {0} /\ MaxFiles \in Nat /\ MaxLength \in Nat

VARIABLES
  linuxPart,  \* the file at the .part's name, 0 for none
  image,      \* the file at the image's name, 0 for none
  content,    \* what each file made so far holds
  linuxMaker, \* per run: its step, its file, where it writes, the block it is at
  made,       \* history: the file of each bundle made, and what it held
  shared      \* history: the files two runs had to do with at once

linuxVars == <<linuxPart, image, content, linuxMaker, made, shared>>

Pinned    == [i \in 1..Size |-> i]
Hole      == 0
IdleMaker == [pc |-> "idle", file |-> 0, appends |-> FALSE, at |-> 0]

LinuxInit ==
  /\ linuxPart = 0 /\ image = 0 /\ content = <<>> /\ made = {} /\ shared = {}
  /\ linuxMaker = [m \in Makers |-> IdleMaker]

LinuxMakerAt(m, pc) == linuxMaker[m].pc = pc
MakerIs(m, r)  == linuxMaker' = [linuxMaker EXCEPT ![m] = r]
LinuxMakerTo(m, pc) == linuxMaker' = [linuxMaker EXCEPT ![m].pc = pc]
LinuxMakerOver(m)   == MakerIs(m, IdleMaker)
\* Run n has opened file f and neither named it nor given up.
Downloads(n, f) == linuxMaker[n].pc \in {"receive", "digest", "name"} /\ linuxMaker[n].file = f
Held           == IF linuxPart = 0 THEN 0 ELSE Len(content[linuxPart])

\* ensureLinuxImage: the image that is there is hashed, and used or refused;
\* without one, isoDownload asks for what the .part lacks.
LinuxLooks(m) ==
  /\ LinuxMakerAt(m, "idle")
  /\ \/ image # 0 /\ content[image] = Pinned /\ LinuxMakerTo(m, "bundle")
     \/ image = 0 /\ MakerIs(m, [IdleMaker EXCEPT !.pc = "ask", !.at = Held])
  /\ UNCHANGED <<linuxPart, image, content, made, shared>>

\* The server answers: past the end it refuses; the rest is appended to the
\* .part of now; the whole starts it again.
LinuxOpens(m) ==
  /\ LinuxMakerAt(m, "ask")
  /\ LET have == linuxMaker[m].at
         new  == Len(content) + 1
         file == IF linuxPart = 0 THEN new ELSE linuxPart
     IN  IF have >= Size THEN LinuxMakerOver(m) /\ UNCHANGED <<linuxPart, content, shared>>
         ELSE /\ file <= MaxFiles
              /\ linuxPart' = file
              /\ content' = IF linuxPart = 0 THEN Append(content, <<>>)
                            ELSE [content EXCEPT ![file] = IF have = 0 THEN <<>> ELSE @]
              /\ MakerIs(m, [pc |-> "receive", file |-> file, appends |-> have > 0, at |-> have])
              /\ shared' = IF \E n \in Makers \ {m} : Downloads(n, file)
                           THEN shared \union {file} ELSE shared
  /\ UNCHANGED <<image, made>>

\* Block b written at position p of a file, which it may leave a hole in.
Written(s, p, b) ==
  [i \in 1..(IF p > Len(s) THEN p ELSE Len(s)) |->
     IF i = p THEN b ELSE IF i <= Len(s) THEN s[i] ELSE Hole]

\* A block comes, right or not, for the file the run opened, whatever its name
\* is now; or the connection breaks.
LinuxReceives(m) ==
  /\ LinuxMakerAt(m, "receive")
  /\ LET r == linuxMaker[m]
         s == content[r.file]
         p == IF r.appends THEN Len(s) + 1 ELSE r.at + 1
     IN  \/ /\ r.at < Size /\ p <= MaxLength
            /\ \E b \in {r.at + 1, Hole} : content' = [content EXCEPT ![r.file] = Written(s, p, b)]
            /\ MakerIs(m, [r EXCEPT !.at = @ + 1])
         \/ r.at = Size /\ LinuxMakerTo(m, "digest") /\ UNCHANGED content
         \/ r.at < Size /\ LinuxMakerOver(m) /\ UNCHANGED content
  /\ UNCHANGED <<linuxPart, image, made, shared>>

\* Mutant of LinuxDigests: all of it came, so it is right.
LinuxTrusts(m) ==
  /\ LinuxMakerAt(m, "digest")
  /\ IF linuxPart # 0 THEN LinuxMakerTo(m, "name") ELSE LinuxMakerOver(m)
  /\ UNCHANGED <<linuxPart, image, content, made, shared>>

\* The .part of now is hashed.  One that does not match stays as it is.
LinuxDigests(m) ==
  /\ LinuxMakerAt(m, "digest")
  /\ IF linuxPart # 0 /\ content[linuxPart] = Pinned THEN LinuxMakerTo(m, "name") ELSE LinuxMakerOver(m)
  /\ UNCHANGED <<linuxPart, image, content, made, shared>>

\* And the .part of now is renamed.
LinuxNames(m) ==
  /\ LinuxMakerAt(m, "name")
  /\ IF linuxPart # 0
     THEN /\ image' = linuxPart /\ linuxPart' = 0 /\ LinuxMakerTo(m, "bundle")
          /\ shared' = IF linuxPart = linuxMaker[m].file THEN shared ELSE shared \union {linuxPart}
     ELSE LinuxMakerOver(m) /\ UNCHANGED <<linuxPart, image, shared>>
  /\ UNCHANGED <<content, made>>

\* Under the machine lock the image is converted, without another look at its
\* digest; prune may have taken it.
LinuxBundles(m) ==
  /\ LinuxMakerAt(m, "bundle") /\ LinuxMakerOver(m)
  /\ made' = IF image # 0 THEN made \union {<<image, content[image]>>} ELSE made
  /\ UNCHANGED <<linuxPart, image, content, shared>>

LinuxStops(m) ==
  /\ ~LinuxMakerAt(m, "idle") /\ LinuxMakerOver(m)
  /\ UNCHANGED <<linuxPart, image, content, made, shared>>

\* prune -force, or the owner told to remove it.
LinuxPruned == image # 0 /\ image' = 0 /\ UNCHANGED <<linuxPart, content, linuxMaker, made, shared>>

LinuxNext ==
  \/ LinuxPruned
  \/ \E m \in Makers :
       \/ LinuxLooks(m) \/ LinuxOpens(m) \/ LinuxReceives(m) \/ LinuxDigests(m)
       \/ LinuxNames(m) \/ LinuxBundles(m) \/ LinuxStops(m)

LinuxSpec == LinuxInit /\ [][LinuxNext]_linuxVars
-----------------------------------------------------------------------------
(* Properties.                                                             *)

\* linux_vm.go:79-83 says that the file a run returns has the pinned digest
\* either way, and a VM is made of it.  It has, however runs are killed, cut off
\* and follow one another, unless two runs had to do with that file at once: one
\* opened the .part while the other was downloading, checking or naming it, or
\* named a .part that was not the one it had opened.  Then one cuts the file to
\* nothing, or adds to it, after the other has checked it, and no lock is held.
BundlesPinned == \A b \in made : b[2] = Pinned \/ b[1] \in shared
=============================================================================
