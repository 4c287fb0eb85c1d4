---------------------------- MODULE LedgerProofs ----------------------------
(***************************************************************************)
(* Proofs about Ledger: each event arrives once and in order, and the view *)
(* of open work is true once all is sent, for any commands, any limits of  *)
(* the spool, of a post and of a flush, whoever is killed and whatever     *)
(* fails.                                                                  *)
(***************************************************************************)
EXTENDS Ledger, SequenceTheorems, TLAPS

Stages  == {"start", "work", "drain", "drained", "gone", "killed"}
Ended   == {"drain", "drained", "gone"}
Flushes == {"off", "wants", "round", "post"}

Tools == [pc: Stages, flush: Flushes, left: Seq(Events), rounds: Nat]

LedgerTypes ==
  /\ spool \in Seq(Events) /\ inflight \in Seq(Events) /\ said \in Seq(Events)
  /\ torn \in BOOLEAN /\ offline \in BOOLEAN
  /\ flushing \in Ops \cup {Nobody}
  /\ tool \in [Ops -> Tools]
  /\ rows \in [Events -> Nat]
  /\ dropped \subseteq Ops

\* Who flushes holds flush.lock.
FlushHeld == \A p \in Ops : tool[p].flush \in {"round", "post"} => flushing = p

\* What was recorded is what was sent, then what is in flight, then the spool.
Sent == Len(said) - Len(inflight) - Len(spool)

QueueWhole ==
  /\ Sent \in Nat
  /\ \A i \in 1..Len(inflight) : inflight[i] = said[Sent + i]
  /\ \A i \in 1..Len(spool) : spool[i] = said[Sent + Len(inflight) + i]

\* The n events recorded first are stored, or refused.
StoredTo(n) == \A i \in 1..n : rows[said[i]] > 0 \/ said[i].op \in Odd

\* A flush that posts has the end of the file in flight left to post, and what it
\* took from that is stored.
Base(p) == Len(said) - Len(spool) - Len(tool[p].left)

PostsOn ==
  \A p \in Ops : tool[p].flush = "post" =>
    /\ Len(tool[p].left) <= Len(inflight)
    /\ \A i \in 1..Len(tool[p].left) : tool[p].left[i] = said[Base(p) + i]
    /\ StoredTo(Base(p))

\* A process records one start and, at work, one end.
SaidOnce ==
  /\ \A i \in 1..Len(said) :
       /\ said[i].kind = "start" => tool[said[i].op].pc # "start"
       /\ said[i].kind = "end" => tool[said[i].op].pc \in Ended
  /\ \A i, j \in 1..Len(said) : said[i] = said[j] => i = j

\* A process that recorded its end, or found no room for it.
EndSaid ==
  \A p \in Ops : tool[p].pc \in Ended =>
    p \in dropped \/ \E i \in 1..Len(said) : said[i].op = p /\ said[i].kind = "end"

\* The table holds what was recorded and not refused, in order.
RowsSaid == \A e \in Events : rows[e] > 0 => e.op \notin Odd /\ \E i \in 1..Len(said) : e = said[i]

InOrder ==
  \A i, j \in 1..Len(said) : i < j /\ rows[said[j]] > 0 => rows[said[i]] > 0 \/ said[i].op \in Odd

LedgerInv ==
  /\ LedgerTypes /\ FlushHeld
  /\ QueueWhole /\ StoredTo(Sent) /\ PostsOn
  /\ SaidOnce /\ EndSaid
  /\ RowsSaid /\ StoredOnce /\ InOrder
-----------------------------------------------------------------------------
(* What the invariant says of the properties.                              *)

LEMMA SeqIs ==
  ASSUME NEW s \in Seq(Events)
  PROVE  /\ Len(s) \in Nat /\ DOMAIN s = 1..Len(s)
         /\ \A i \in 1..Len(s) : s[i] \in Events
         /\ Range(s) = {s[i] : i \in 1..Len(s)}
         /\ s = <<>> <=> Len(s) = 0
<1>1. Len(s) \in Nat /\ DOMAIN s = 1..Len(s)  BY LenProperties
<1>2. \A i \in 1..Len(s) : s[i] \in Events  BY ElementOfSeq
<1>3. s = <<>> <=> Len(s) = 0  BY EmptySeq
<1> QED  BY <1>1, <1>2, <1>3 DEF Range

LEMMA EventFields ==
  ASSUME NEW e \in Events
  PROVE  e.op \in Ops /\ e.kind \in {"start", "end"} /\ e.late \in BOOLEAN
BY DEF Events

LEMMA InvTellsAll == LedgerInv => EachOnceInOrder
<1> SUFFICES ASSUME LedgerInv PROVE EachOnceInOrder  OBVIOUS
<1>1. /\ said \in Seq(Events) /\ spool \in Seq(Events) /\ inflight \in Seq(Events)
      /\ rows \in [Events -> Nat]
  BY DEF LedgerInv, LedgerTypes
<1>2. ASSUME NEW i \in 1..Len(said)
      PROVE  said[i] \in Range(spool) \cup Range(inflight) \cup InTable
               \cup {e \in Range(said) : e.op \in Odd}
  <2>1. /\ Len(said) \in Nat /\ Len(spool) \in Nat /\ Len(inflight) \in Nat
        /\ said[i] \in Events /\ said[i] \in Range(said)
        /\ Sent = Len(said) - Len(inflight) - Len(spool) /\ Sent \in Nat
    BY <1>1, SeqIs DEF Sent, LedgerInv, QueueWhole
  <2>2. CASE i <= Sent
    BY <2>1, <2>2 DEF LedgerInv, StoredTo, InTable
  <2>3. CASE Sent < i /\ i <= Sent + Len(inflight)
    <3>1. i - Sent \in 1..Len(inflight) /\ Sent + (i - Sent) = i  BY <2>1, <2>3
    <3>2. inflight[i - Sent] = said[i]  BY <3>1 DEF LedgerInv, QueueWhole
    <3> QED  BY <1>1, <3>1, <3>2, SeqIs
  <2>4. CASE Sent + Len(inflight) < i
    <3> DEFINE k == i - Sent - Len(inflight)
    <3>1. k \in 1..Len(spool) /\ Sent + Len(inflight) + k = i  BY <2>1, <2>4
    <3>2. spool[k] = said[i]  BY <3>1 DEF LedgerInv, QueueWhole
    <3> QED  BY <1>1, <3>1, <3>2, SeqIs
  <2> QED  BY <2>1, <2>2, <2>3, <2>4
<1>3. NothingLost
  <2>1. Range(said) = {said[i] : i \in 1..Len(said)}  BY <1>1, SeqIs
  <2> HIDE DEF LedgerInv
  <2> QED  BY <1>2, <2>1 DEF NothingLost
<1>4. OlderFirst
  BY <1>1, SeqIs DEF OlderFirst, InTable, LedgerInv, InOrder
<1> QED  BY <1>3, <1>4 DEF EachOnceInOrder, LedgerInv

LEMMA InvShowsTrue == LedgerInv => ViewTrue
<1> SUFFICES ASSUME LedgerInv, spool = <<>>, inflight = <<>>, NEW p \in OpenOps,
                    tool[p].pc \notin {"work", "killed"}, p \notin dropped
             PROVE  FALSE
  BY DEF ViewTrue
<1>1. /\ said \in Seq(Events) /\ spool \in Seq(Events) /\ inflight \in Seq(Events)
      /\ rows \in [Events -> Nat] /\ tool \in [Ops -> Tools]
  BY DEF LedgerInv, LedgerTypes
<1>2. PICK e \in Events : rows[e] > 0 /\ e.kind = "start" /\ e.op = p
  BY DEF OpenOps, Stored, InTable
<1>3. p \notin Stored("end")  BY DEF OpenOps
<1>4. p \in Ops /\ p \notin Odd /\ tool[p].pc # "start"
  BY <1>2, EventFields DEF LedgerInv, RowsSaid, SaidOnce
<1>5. tool[p].pc \in Ended
  BY <1>1, <1>4 DEF Tools, Stages, Ended
<1>6. PICK i \in 1..Len(said) : said[i].op = p /\ said[i].kind = "end"
  BY <1>4, <1>5 DEF LedgerInv, EndSaid
<1>7. Sent = Len(said) /\ said[i] \in Events
  BY <1>1, SeqIs DEF Sent
<1>8. rows[said[i]] > 0
  BY <1>4, <1>6, <1>7 DEF LedgerInv, StoredTo
<1> QED  BY <1>3, <1>6, <1>7, <1>8 DEF Stored, InTable
-----------------------------------------------------------------------------
(* Lemmas about steps.                                                     *)

\* What a step leaves when it records nothing.
LEMMA StagesKeep ==
  ASSUME LedgerInv, UNCHANGED said, dropped \subseteq dropped',
         \A q \in Ops : /\ tool[q].pc # "start" => tool'[q].pc # "start"
                        /\ tool[q].pc \in Ended => tool'[q].pc \in Ended
                        /\ tool'[q].pc \in Ended => tool[q].pc \in Ended \/ q \in dropped'
  PROVE  SaidOnce' /\ EndSaid'
<1>1. said \in Seq(Events) /\ SaidOnce /\ EndSaid  BY DEF LedgerInv, LedgerTypes
<1>2. \A i \in 1..Len(said) : said[i].op \in Ops  BY <1>1, SeqIs, EventFields
<1>3. SaidOnce'  BY <1>1, <1>2 DEF SaidOnce
<1>4. EndSaid'  BY <1>1 DEF EndSaid
<1> QED  BY <1>3, <1>4

\* A step that moves no event.
LEMMA QuietKeeps ==
  ASSUME LedgerInv, LedgerTypes', FlushHeld', SaidOnce', EndSaid',
         UNCHANGED <<said, spool, inflight, rows>>,
         \A q \in Ops : tool'[q].flush = "post" =>
           tool[q].flush = "post" /\ tool'[q].left = tool[q].left
  PROVE  LedgerInv'
<1>1. /\ QueueWhole /\ StoredTo(Sent) /\ PostsOn /\ RowsSaid /\ StoredOnce /\ InOrder
  BY DEF LedgerInv
<1>2. QueueWhole' /\ StoredTo(Sent)'  BY <1>1 DEF QueueWhole, StoredTo, Sent
<1>3. PostsOn'  BY <1>1 DEF PostsOn, StoredTo, Base
<1>4. RowsSaid' /\ StoredOnce' /\ InOrder'  BY <1>1 DEF RowsSaid, StoredOnce, InOrder
<1> QED  BY <1>2, <1>3, <1>4 DEF LedgerInv

LEMMA ToolSet ==
  ASSUME LedgerInv, NEW p \in Ops, NEW t \in Tools, Sets(p, t)
  PROVE  /\ tool' \in [Ops -> Tools] /\ tool'[p] = t
         /\ \A q \in Ops \ {p} : tool'[q] = tool[q]
BY DEF Sets, LedgerInv, LedgerTypes

LEMMA ToolFields ==
  ASSUME LedgerInv, NEW p \in Ops
  PROVE  /\ tool[p] \in Tools
         /\ tool[p] = [pc |-> tool[p].pc, flush |-> tool[p].flush, left |-> tool[p].left,
                       rounds |-> tool[p].rounds]
         /\ tool[p].pc \in Stages /\ tool[p].flush \in Flushes
         /\ tool[p].left \in Seq(Events) /\ tool[p].rounds \in Nat
BY DEF LedgerInv, LedgerTypes, Tools
-----------------------------------------------------------------------------
(* The steps.                                                              *)

LEMMA InitInv == LedgerInit => LedgerInv
<1> SUFFICES ASSUME LedgerInit PROVE LedgerInv  OBVIOUS
<1>1. /\ <<>> \in Seq(Events) /\ Len(<<>>) = 0
      /\ said = <<>> /\ spool = <<>> /\ inflight = <<>>
  BY EmptySeq DEF LedgerInit
<1>2. \A q \in Ops : tool[q] = [pc |-> "start", flush |-> "off", left |-> <<>>, rounds |-> 0]
  BY DEF LedgerInit
<1>3. LedgerTypes
  <2>1. [pc |-> "start", flush |-> "off", left |-> <<>>, rounds |-> 0] \in Tools
    BY <1>1 DEF Tools, Stages, Flushes
  <2>2. tool \in [Ops -> Tools]  BY <2>1 DEF LedgerInit
  <2>3. rows \in [Events -> Nat]  BY DEF LedgerInit
  <2>4. /\ flushing \in Ops \cup {Nobody} /\ dropped \subseteq Ops
        /\ torn \in BOOLEAN /\ offline \in BOOLEAN
    BY DEF LedgerInit
  <2>5. spool \in Seq(Events) /\ inflight \in Seq(Events) /\ said \in Seq(Events)
    BY <1>1
  <2> QED  BY <2>2, <2>3, <2>4, <2>5 DEF LedgerTypes
<1>4. Sent = 0 /\ QueueWhole /\ StoredTo(Sent)
  <2>1. Len(spool) = 0 /\ Len(inflight) = 0 /\ Len(said) = 0  BY <1>1
  <2>2. Sent = 0  BY <2>1 DEF Sent
  <2> QED  BY <2>1, <2>2 DEF QueueWhole, StoredTo
<1>5. FlushHeld /\ PostsOn /\ EndSaid  BY <1>2 DEF FlushHeld, PostsOn, EndSaid, Ended
<1>6. SaidOnce /\ InOrder  BY <1>1 DEF SaidOnce, InOrder
<1>7. RowsSaid /\ StoredOnce  BY DEF LedgerInit, RowsSaid, StoredOnce
<1> QED  BY <1>3, <1>4, <1>5, <1>6, <1>7 DEF LedgerInv

\* p does t next: it posts what it was posting or lets go, holds the lock if it goes
\* on, takes it from nobody, and has ended only if it had, or if its end was dropped.
Subsides(p, t) ==
  /\ Sets(p, t)
  /\ t.flush = "post" => tool[p].flush = "post" /\ t.left = tool[p].left
  /\ t.flush \in {"round", "post"} => flushing' = p
  /\ flushing' \in {flushing, p, Nobody} /\ (flushing \in Ops \ {p} => flushing' = flushing)
  /\ tool[p].pc # "start" => t.pc # "start"
  /\ tool[p].pc \in Ended <=> t.pc \in Ended

LEMMA QuietSteps ==
  ASSUME LedgerInv, NEW p \in Ops,
         \/ AppendTears(p) \/ DrainFlushes(p) \/ Exits(p) \/ Killed(p)
         \/ FlushBegins(p) \/ LaterCommand(p)
  PROVE  LedgerInv'
<1>1. /\ tool[p] \in [pc: Stages, flush: Flushes, left: Seq(Events), rounds: Nat]
      /\ <<>> \in Seq(Events) /\ Rounds \in Nat
  BY ToolFields, EmptySeq, LedgerAssumption DEF Tools
<1>2. LedgerTypes /\ FlushHeld /\ (tool[p].flush \in {"round", "post"} => flushing = p)
  BY DEF LedgerInv, FlushHeld
<1>3. PICK t \in Tools : Subsides(p, t)
  <2>1. CASE AppendTears(p)
    <3> DEFINE t == [tool[p] EXCEPT !.pc = "work"]
    <3>1. t \in Tools  BY <1>1 DEF Tools, Stages, Flushes
    <3>2. /\ t.flush = "post" => tool[p].flush = "post" /\ t.left = tool[p].left
          /\ t.flush \in {"round", "post"} => flushing' = p
          /\ flushing' \in {flushing, p, Nobody} /\ (flushing \in Ops \ {p} => flushing' = flushing)
          /\ tool[p].pc # "start" => t.pc # "start"
          /\ tool[p].pc \in Ended <=> t.pc \in Ended
      BY <1>1, <1>2, <2>1 DEF AppendTears, LetGo, Ended, Stages
    <3>3. Sets(p, t)  BY <2>1 DEF AppendTears
    <3> HIDE DEF t
    <3> QED  BY <3>1, <3>2, <3>3 DEF Subsides
  <2>2. CASE DrainFlushes(p)
    <3> DEFINE t == [tool[p] EXCEPT !.pc = "drained", !.flush = "wants"]
    <3>1. t \in Tools  BY <1>1 DEF Tools, Stages, Flushes
    <3>2. /\ t.flush = "post" => tool[p].flush = "post" /\ t.left = tool[p].left
          /\ t.flush \in {"round", "post"} => flushing' = p
          /\ flushing' \in {flushing, p, Nobody} /\ (flushing \in Ops \ {p} => flushing' = flushing)
          /\ tool[p].pc # "start" => t.pc # "start"
          /\ tool[p].pc \in Ended <=> t.pc \in Ended
      BY <1>1, <1>2, <2>2 DEF DrainFlushes, LetGo, Ended, Stages
    <3>3. Sets(p, t)  BY <2>2 DEF DrainFlushes
    <3> HIDE DEF t
    <3> QED  BY <3>1, <3>2, <3>3 DEF Subsides
  <2>3. CASE Exits(p)
    <3> DEFINE t == [tool[p] EXCEPT !.pc = "gone", !.flush = "off", !.left = <<>>]
    <3>1. t \in Tools  BY <1>1 DEF Tools, Stages, Flushes
    <3>2. /\ t.flush = "post" => tool[p].flush = "post" /\ t.left = tool[p].left
          /\ t.flush \in {"round", "post"} => flushing' = p
          /\ flushing' \in {flushing, p, Nobody} /\ (flushing \in Ops \ {p} => flushing' = flushing)
          /\ tool[p].pc # "start" => t.pc # "start"
          /\ tool[p].pc \in Ended <=> t.pc \in Ended
      BY <1>1, <1>2, <2>3 DEF Exits, LetGo, Ended, Stages
    <3>3. Sets(p, t)  BY <2>3 DEF Exits
    <3> HIDE DEF t
    <3> QED  BY <3>1, <3>2, <3>3 DEF Subsides
  <2>4. CASE Killed(p)
    <3> DEFINE t == [tool[p] EXCEPT !.pc = "killed", !.flush = "off", !.left = <<>>]
    <3>1. t \in Tools  BY <1>1 DEF Tools, Stages, Flushes
    <3>2. /\ t.flush = "post" => tool[p].flush = "post" /\ t.left = tool[p].left
          /\ t.flush \in {"round", "post"} => flushing' = p
          /\ flushing' \in {flushing, p, Nobody} /\ (flushing \in Ops \ {p} => flushing' = flushing)
          /\ tool[p].pc # "start" => t.pc # "start"
          /\ tool[p].pc \in Ended <=> t.pc \in Ended
      BY <1>1, <1>2, <2>4 DEF Killed, LetGo, Ended, Stages
    <3>3. Sets(p, t)  BY <2>4 DEF Killed
    <3> HIDE DEF t
    <3> QED  BY <3>1, <3>2, <3>3 DEF Subsides
  <2>5. CASE LaterCommand(p)
    <3> DEFINE t == [tool[p] EXCEPT !.flush = "wants"]
    <3>1. t \in Tools  BY <1>1 DEF Tools, Stages, Flushes
    <3>2. /\ t.flush = "post" => tool[p].flush = "post" /\ t.left = tool[p].left
          /\ t.flush \in {"round", "post"} => flushing' = p
          /\ flushing' \in {flushing, p, Nobody} /\ (flushing \in Ops \ {p} => flushing' = flushing)
          /\ tool[p].pc # "start" => t.pc # "start"
          /\ tool[p].pc \in Ended <=> t.pc \in Ended
      BY <1>1, <1>2, <2>5 DEF LaterCommand, LetGo, Ended, Stages
    <3>3. Sets(p, t)  BY <2>5 DEF LaterCommand
    <3> HIDE DEF t
    <3> QED  BY <3>1, <3>2, <3>3 DEF Subsides
  <2>6. CASE FlushBegins(p)
    <3>1. CASE offline \/ flushing # Nobody
      <4> DEFINE t == [tool[p] EXCEPT !.flush = "off"]
      <4>1. t \in Tools /\ t.flush = "off" /\ t.pc = tool[p].pc  BY <1>1 DEF Tools, Flushes
      <4>2. Sets(p, t) /\ flushing' = flushing  BY <2>6, <3>1 DEF FlushBegins
      <4> HIDE DEF t
      <4> QED  BY <4>1, <4>2 DEF Subsides
    <3>2. CASE flushing = Nobody /\ ~offline
      <4> DEFINE t == [tool[p] EXCEPT !.flush = "round", !.rounds = Rounds]
      <4>1. t \in Tools /\ t.flush = "round" /\ t.pc = tool[p].pc  BY <1>1 DEF Tools, Flushes
      <4>2. Sets(p, t) /\ flushing' = p  BY <2>6, <3>2 DEF FlushBegins
      <4> HIDE DEF t
      <4> QED  BY <3>2, <4>1, <4>2, LedgerAssumption DEF Subsides
    <3> QED  BY <3>1, <3>2
  <2> QED  BY <2>1, <2>2, <2>3, <2>4, <2>5, <2>6
<1>4. /\ tool' \in [Ops -> Tools] /\ tool'[p] = t
      /\ \A q \in Ops \ {p} : tool'[q] = tool[q]
  BY <1>3, ToolSet DEF Subsides
<1>5. /\ UNCHANGED <<said, spool, inflight, rows>>
      /\ dropped \subseteq dropped' /\ dropped' \subseteq Ops
      /\ torn' \in BOOLEAN /\ offline' \in BOOLEAN
  BY <1>2 DEF LedgerTypes, AppendTears, DrainFlushes, Exits, Killed, FlushBegins, LaterCommand,
              recording
<1>6. flushing' \in Ops \cup {Nobody}  BY <1>2, <1>3 DEF LedgerTypes, Subsides
<1>7. LedgerTypes'  BY <1>2, <1>4, <1>5, <1>6 DEF LedgerTypes
<1>8. FlushHeld'  BY <1>2, <1>3, <1>4 DEF FlushHeld, Subsides
<1>9. SaidOnce' /\ EndSaid'  BY <1>3, <1>4, <1>5, StagesKeep DEF Subsides
<1>10. \A q \in Ops : tool'[q].flush = "post" =>
         tool[q].flush = "post" /\ tool'[q].left = tool[q].left
  BY <1>3, <1>4 DEF Subsides
<1> QED  BY <1>5, <1>7, <1>8, <1>9, <1>10, QuietKeeps

\* A process records the event e and does t next.
Records(p, e, t) ==
  /\ Appends(e) /\ e.op = p
  /\ \/ e.kind = "start" /\ tool[p].pc = "start" /\ t.pc = "work"
     \/ e.kind = "end" /\ tool[p].pc = "work" /\ t.pc = "drain"
  /\ Sets(p, t)
  /\ t.left = tool[p].left
  /\ t.flush = tool[p].flush \/ t.flush = "wants"
  /\ UNCHANGED <<inflight, offline, flushing, rows>>

LEMMA EventAppended ==
  ASSUME NEW s \in Seq(Events), NEW e \in Events
  PROVE  /\ Append(s, e) \in Seq(Events) /\ Len(Append(s, e)) = Len(s) + 1
         /\ \A i \in 1..Len(s) : Append(s, e)[i] = s[i]
         /\ Append(s, e)[Len(s) + 1] = e
BY AppendProperties

LEMMA RecordsSteps ==
  ASSUME LedgerInv, NEW p \in Ops, NEW e \in Events, NEW t \in Tools, Records(p, e, t)
  PROVE  LedgerInv'
<1>1. /\ tool' \in [Ops -> Tools] /\ tool'[p] = t
      /\ \A q \in Ops \ {p} : tool'[q] = tool[q]
  BY ToolSet DEF Records
<1>2. /\ LedgerTypes /\ FlushHeld /\ QueueWhole /\ StoredTo(Sent) /\ PostsOn
      /\ SaidOnce /\ EndSaid /\ RowsSaid /\ StoredOnce /\ InOrder
  BY DEF LedgerInv
<1>3. /\ UNCHANGED <<inflight, offline, flushing, rows>>
      /\ e.op = p /\ Appends(e)
      /\ t.left = tool[p].left /\ (t.flush = tool[p].flush \/ t.flush = "wants")
  BY DEF Records
<1>4. FlushHeld'  BY <1>1, <1>2, <1>3 DEF FlushHeld
<1>5. CASE UNCHANGED <<spool, said>> /\ dropped' = dropped \cup {p} /\ torn' \in BOOLEAN
  <2>1. LedgerTypes'  BY <1>1, <1>2, <1>3, <1>5 DEF LedgerTypes
  <2>2. SaidOnce' /\ EndSaid'
    <3>1. \A q \in Ops : /\ tool[q].pc # "start" => tool'[q].pc # "start"
                         /\ tool[q].pc \in Ended => tool'[q].pc \in Ended
                         /\ tool'[q].pc \in Ended => tool[q].pc \in Ended \/ q \in dropped'
      BY <1>1, <1>5 DEF Records, Ended
    <3> QED  BY <1>5, <3>1, StagesKeep
  <2>3. \A q \in Ops : tool'[q].flush = "post" =>
          tool[q].flush = "post" /\ tool'[q].left = tool[q].left
    BY <1>1, <1>3
  <2> QED  BY <1>3, <1>4, <1>5, <2>1, <2>2, <2>3, QuietKeeps
<1>6. CASE /\ spool' = Append(spool, e) /\ said' = Append(said, e)
           /\ UNCHANGED dropped /\ torn' = FALSE
  <2> DEFINE n == Len(said)
             m == Len(spool)
  <2>1. /\ said' \in Seq(Events) /\ Len(said') = n + 1 /\ said'[n + 1] = e
        /\ \A i \in 1..n : said'[i] = said[i]
        /\ n \in Nat /\ (\A i \in 1..n : said[i] \in Events)
    BY <1>2, <1>6, EventAppended, SeqIs DEF LedgerTypes
  <2>2. /\ spool' \in Seq(Events) /\ Len(spool') = m + 1 /\ spool'[m + 1] = e
        /\ \A i \in 1..m : spool'[i] = spool[i]
        /\ m \in Nat /\ Len(inflight) \in Nat
    BY <1>2, <1>6, EventAppended, SeqIs DEF LedgerTypes
  <2> HIDE DEF n, m
  <2>3. LedgerTypes'  BY <1>1, <1>2, <1>3, <1>6, <2>1, <2>2 DEF LedgerTypes
  <2>4. Sent' = Sent /\ Sent \in Nat /\ Sent = n - Len(inflight) - m
    BY <1>2, <1>3, <2>1, <2>2 DEF Sent, QueueWhole, n, m
  <2>5. QueueWhole'
    <3>1. /\ \A i \in 1..Len(inflight) : inflight[i] = said[Sent + i]
          /\ \A i \in 1..m : spool[i] = said[Sent + Len(inflight) + i]
      BY <1>2 DEF QueueWhole, m
    <3>2. \A i \in 1..Len(inflight) : Sent + i \in 1..n  BY <2>2, <2>4, <2>1
    <3>3. \A i \in 1..m : Sent + Len(inflight) + i \in 1..n  BY <2>2, <2>4, <2>1
    <3>4. Sent + Len(inflight) + (m + 1) = n + 1  BY <2>1, <2>2, <2>4
    <3>5. \A i \in 1..(m + 1) : spool'[i] = said'[Sent + Len(inflight) + i]
      <4> TAKE i \in 1..(m + 1)
      <4>1. CASE i = m + 1  BY <2>1, <2>2, <3>4, <4>1
      <4>2. CASE i \in 1..m  BY <2>1, <2>2, <3>1, <3>3, <4>2
      <4> QED  BY <2>2, <4>1, <4>2
    <3>6. \A i \in 1..Len(inflight) : inflight[i] = said'[Sent + i]
      BY <2>1, <3>1, <3>2
    <3> QED  BY <1>3, <2>2, <2>4, <3>5, <3>6 DEF QueueWhole
  <2>6. StoredTo(Sent)'
    BY <1>2, <1>3, <2>1, <2>2, <2>4 DEF StoredTo
  <2>7. PostsOn'
    <3> SUFFICES ASSUME NEW q \in Ops, tool'[q].flush = "post"
                 PROVE  /\ Len(tool'[q].left) <= Len(inflight')
                        /\ \A i \in 1..Len(tool'[q].left) : tool'[q].left[i] = said'[Base(q)' + i]
                        /\ StoredTo(Base(q))'
      BY DEF PostsOn
    <3>1. tool[q].flush = "post" /\ tool'[q].left = tool[q].left  BY <1>1, <1>3
    <3> DEFINE l == Len(tool[q].left)
    <3>2. l \in Nat  BY ToolFields, SeqIs
    <3>3. /\ l <= Len(inflight)
          /\ \A i \in 1..l : tool[q].left[i] = said[Base(q) + i]
          /\ StoredTo(Base(q))
      BY <1>2, <3>1 DEF PostsOn
    <3>4. Base(q) = n - m - l /\ Base(q)' = Base(q)
      BY <2>1, <2>2, <3>1, <3>2 DEF Base, n, m
    <3> HIDE DEF l
    <3>5. Base(q) \in Nat /\ Base(q) <= n /\ \A i \in 1..l : Base(q) + i \in 1..n
      BY <2>1, <2>2, <2>4, <3>2, <3>3, <3>4
    <3>6. StoredTo(Base(q))'
      BY <1>3, <2>1, <3>3, <3>4, <3>5 DEF StoredTo
    <3> QED  BY <1>3, <2>1, <3>1, <3>3, <3>4, <3>5, <3>6 DEF l
  <2>8. \A i \in 1..n : said[i] # e
    <3> SUFFICES ASSUME NEW i \in 1..n, said[i] = e PROVE FALSE  OBVIOUS
    <3>1. /\ e.kind = "start" => tool[p].pc # "start"
          /\ e.kind = "end" => tool[p].pc \in Ended
      BY <1>2, <1>3 DEF SaidOnce, n
    <3> QED  BY <3>1 DEF Records, Ended
  <2>9. SaidOnce'
    <3>1. \A i \in 1..n : said[i].op \in Ops /\ said[i].kind \in {"start", "end"}
      BY <2>1, EventFields
    <3>2. /\ \A i \in 1..n : /\ said[i].kind = "start" => tool[said[i].op].pc # "start"
                             /\ said[i].kind = "end" => tool[said[i].op].pc \in Ended
          /\ \A i, j \in 1..n : said[i] = said[j] => i = j
      BY <1>2 DEF SaidOnce, n
    <3>3. \A i \in 1..n : said[i] # e  BY <2>8
    <3>4. \A i \in 1..(n + 1) :
             /\ said'[i].kind = "start" => tool'[said'[i].op].pc # "start"
             /\ said'[i].kind = "end" => tool'[said'[i].op].pc \in Ended
      <4> TAKE i \in 1..(n + 1)
      <4>1. CASE i = n + 1
        <5>1. said'[i] = e /\ tool'[e.op] = t  BY <1>1, <1>3, <2>1, <4>1
        <5>2. (e.kind = "start" => t.pc # "start") /\ (e.kind = "end" => t.pc \in Ended)
          BY DEF Records, Ended
        <5> QED  BY <5>1, <5>2
      <4>2. CASE i \in 1..n
        <5>1. said'[i] = said[i]  BY <2>1, <4>2
        <5>2. CASE said[i].op = p
          BY <1>1, <3>2, <4>2, <5>1, <5>2 DEF Records, Ended
        <5>3. CASE said[i].op # p
          <6>1. tool'[said[i].op] = tool[said[i].op]  BY <1>1, <3>1, <4>2, <5>3
          <6>2. /\ said[i].kind = "start" => tool[said[i].op].pc # "start"
                /\ said[i].kind = "end" => tool[said[i].op].pc \in Ended
            BY <3>2, <4>2
          <6> QED  BY <5>1, <6>1, <6>2
        <5> QED  BY <5>2, <5>3
      <4> QED  BY <2>1, <4>1, <4>2
    <3>5. \A i, j \in 1..(n + 1) : said'[i] = said'[j] => i = j
      BY <2>1, <3>2, <3>3
    <3> QED  BY <2>1, <3>4, <3>5 DEF SaidOnce
  <2>10. EndSaid'
    <3> SUFFICES ASSUME NEW q \in Ops, tool'[q].pc \in Ended
                 PROVE  \/ q \in dropped'
                        \/ \E i \in 1..(n + 1) : said'[i].op = q /\ said'[i].kind = "end"
      BY <2>1 DEF EndSaid
    <3>1. CASE q = p
      <4>1. e.kind = "end" /\ e.op = q  BY <1>1, <1>3, <3>1 DEF Records, Ended
      <4> QED  BY <2>1, <4>1
    <3>2. CASE q # p
      <4>1. q \in dropped \/ \E i \in 1..n : said[i].op = q /\ said[i].kind = "end"
        BY <1>1, <1>2, <3>2 DEF EndSaid, n
      <4> QED  BY <1>6, <2>1, <4>1
    <3> QED  BY <3>1, <3>2
  <2>11. RowsSaid' /\ StoredOnce'
    BY <1>2, <1>3, <2>1 DEF RowsSaid, StoredOnce, n
  <2>12. InOrder'
    <3>1. ~(rows[e] > 0)  BY <1>2, <2>8 DEF RowsSaid, n
    <3>2. \A i, j \in 1..n : i < j /\ rows[said[j]] > 0 => rows[said[i]] > 0 \/ said[i].op \in Odd
      BY <1>2 DEF InOrder, n
    <3>3. \A i, j \in 1..(n + 1) : i < j /\ rows[said'[j]] > 0 => i \in 1..n /\ j \in 1..n
      BY <2>1, <3>1
    <3>4. \A i, j \in 1..(n + 1) :
            i < j /\ rows[said'[j]] > 0 => rows[said'[i]] > 0 \/ said'[i].op \in Odd
      BY <2>1, <3>2, <3>3
    <3> QED  BY <1>3, <2>1, <3>4 DEF InOrder
  <2> QED  BY <1>4, <2>3, <2>5, <2>6, <2>7, <2>9, <2>10, <2>11, <2>12 DEF LedgerInv
<1>7. torn \in BOOLEAN  BY <1>2 DEF LedgerTypes
<1> QED  BY <1>3, <1>5, <1>6, <1>7 DEF Appends

LEMMA EmitSteps ==
  ASSUME LedgerInv, NEW p \in Ops, CommandStarts(p) \/ CommandEnds(p)
  PROVE  LedgerInv'
<1>1. /\ tool[p] \in [pc: Stages, flush: Flushes, left: Seq(Events), rounds: Nat]
  BY ToolFields DEF Tools
<1>2. ASSUME NEW kind \in {"start", "end"}, NEW late \in BOOLEAN, NEW step \in {"work", "drain"},
             Emits(p, Event(p, kind, late), step),
             \/ kind = "start" /\ tool[p].pc = "start" /\ step = "work"
             \/ kind = "end" /\ tool[p].pc = "work" /\ step = "drain"
      PROVE  LedgerInv'
  <2> DEFINE e == Event(p, kind, late)
             t == [tool[p] EXCEPT !.pc = step, !.flush = IF @ = "off" THEN "wants" ELSE @]
  <2>1. e \in Events /\ e.op = p /\ e.kind = kind  BY DEF Event, Events
  <2>2. t \in Tools /\ t.pc = step /\ t.left = tool[p].left /\ t.flush \in {tool[p].flush, "wants"}
    BY <1>1 DEF Tools, Stages, Flushes
  <2>3. Appends(e) /\ Sets(p, t) /\ UNCHANGED <<inflight, offline, flushing, rows>>
    BY <1>2 DEF Emits
  <2> HIDE DEF e, t
  <2>4. Records(p, e, t)  BY <1>2, <2>1, <2>2, <2>3 DEF Records
  <2> QED  BY <2>1, <2>2, <2>4, RecordsSteps
<1>3. CASE CommandStarts(p)  BY <1>2, <1>3 DEF CommandStarts
<1>4. CASE CommandEnds(p)  BY <1>2, <1>4 DEF CommandEnds
<1> QED  BY <1>3, <1>4

\* One flush holds the lock: no other takes a round or posts.
LEMMA OneFlushes ==
  ASSUME LedgerInv, NEW p \in Ops, tool[p].flush \in {"round", "post"}
  PROVE  /\ flushing = p
         /\ \A q \in Ops \ {p} : tool[q].flush \notin {"round", "post"}
BY DEF LedgerInv, FlushHeld

\* What the invariant needs of a step of the flush of p, which does t next.
LEMMA FlushKeeps ==
  ASSUME LedgerInv, NEW p \in Ops, NEW t \in Tools, tool[p].flush \in {"round", "post"},
         Sets(p, t), t.pc = tool[p].pc,
         flushing' = (IF t.flush \in {"round", "post"} THEN p ELSE Nobody),
         UNCHANGED <<said, dropped>>
  PROVE  /\ tool' \in [Ops -> Tools] /\ tool'[p] = t
         /\ \A q \in Ops \ {p} : tool'[q].flush # "post"
         /\ FlushHeld' /\ flushing' \in Ops \cup {Nobody}
         /\ SaidOnce' /\ EndSaid'
<1>1. /\ tool' \in [Ops -> Tools] /\ tool'[p] = t
      /\ \A q \in Ops \ {p} : tool'[q] = tool[q]
  BY ToolSet
<1>2. \A q \in Ops \ {p} : tool[q].flush \notin {"round", "post"}  BY OneFlushes
<1>3. FlushHeld'  BY <1>1, <1>2 DEF FlushHeld
<1>4. SaidOnce' /\ EndSaid'  BY <1>1, StagesKeep
<1> QED  BY <1>1, <1>2, <1>3, <1>4

LEMMA TakesStep == ASSUME LedgerInv, NEW p \in Ops, FlushTakes(p) PROVE LedgerInv'
<1>1. /\ tool[p] \in [pc: Stages, flush: Flushes, left: Seq(Events), rounds: Nat]
      /\ <<>> \in Seq(Events) /\ Len(<<>>) = 0
  BY ToolFields, EmptySeq DEF Tools
<1>2. tool[p].flush = "round" /\ flushing = p /\ UNCHANGED <<said, dropped, offline, rows>>
  BY OneFlushes DEF FlushTakes
<1>3. /\ LedgerTypes /\ QueueWhole /\ StoredTo(Sent) /\ PostsOn
      /\ RowsSaid /\ StoredOnce /\ InOrder
  BY DEF LedgerInv
<1>4. CASE FlushDone(p) /\ UNCHANGED <<spool, inflight, torn>>
  <2> DEFINE t == [tool[p] EXCEPT !.flush = "off", !.left = <<>>]
  <2>1. t \in Tools /\ t.pc = tool[p].pc /\ t.flush = "off"  BY <1>1 DEF Tools, Flushes
  <2>2. Sets(p, t) /\ flushing' = Nobody  BY <1>4 DEF FlushDone
  <2> HIDE DEF t
  <2>3. /\ tool' \in [Ops -> Tools] /\ \A q \in Ops : tool'[q].flush # "post"
        /\ FlushHeld' /\ flushing' \in Ops \cup {Nobody} /\ SaidOnce' /\ EndSaid'
    BY <1>2, <2>1, <2>2, FlushKeeps
  <2>4. LedgerTypes'  BY <1>2, <1>3, <1>4, <2>3 DEF LedgerTypes
  <2> QED  BY <1>2, <1>4, <2>3, <2>4, QuietKeeps
<1>5. ASSUME NEW moved \in BOOLEAN, moved = (inflight = <<>>),
             inflight' = (IF moved THEN spool ELSE inflight),
             spool' = (IF moved THEN <<>> ELSE spool),
             torn' \in BOOLEAN, tool[p].rounds # 0, UNCHANGED flushing,
             Sets(p, [tool[p] EXCEPT !.flush = "post", !.left = inflight', !.rounds = @ - 1])
      PROVE  LedgerInv'
  <2> DEFINE t == [tool[p] EXCEPT !.flush = "post", !.left = inflight', !.rounds = @ - 1]
  <2>1. inflight' \in Seq(Events) /\ spool' \in Seq(Events)
    BY <1>1, <1>3, <1>5 DEF LedgerTypes
  <2>2. t \in Tools /\ t.pc = tool[p].pc /\ t.flush = "post" /\ t.left = inflight'
    <3>1. tool[p].rounds \in Nat /\ tool[p].rounds - 1 \in Nat  BY <1>1, <1>5
    <3>2. t.pc = tool[p].pc /\ t.flush = "post" /\ t.left = inflight' /\ t.rounds \in Nat
      BY <1>1, <3>1
    <3>3. t \in Tools  BY <1>1, <2>1, <3>1 DEF Tools, Flushes
    <3> QED  BY <3>2, <3>3
  <2>3. Sets(p, t)  BY <1>5
  <2> HIDE DEF t
  <2>4. /\ tool' \in [Ops -> Tools] /\ tool'[p] = t
        /\ \A q \in Ops \ {p} : tool'[q].flush # "post"
        /\ FlushHeld' /\ flushing' \in Ops \cup {Nobody} /\ SaidOnce' /\ EndSaid'
    BY <1>2, <1>5, <2>2, <2>3, FlushKeeps
  <2>5. LedgerTypes'  BY <1>2, <1>3, <1>5, <2>1, <2>4 DEF LedgerTypes
  <2>6. Sent' = Sent /\ QueueWhole'
    <3>1. Len(said) \in Nat /\ Len(spool) \in Nat /\ Len(inflight) \in Nat
      BY <1>3, SeqIs DEF LedgerTypes
    <3>2. CASE moved
      <4>1. inflight = <<>> /\ inflight' = spool /\ spool' = <<>>  BY <1>5, <3>2
      <4>2. Len(inflight) = 0 /\ Len(spool') = 0 /\ Len(inflight') = Len(spool)  BY <1>1, <4>1
      <4>3. Sent' = Sent  BY <1>2, <3>1, <4>2 DEF Sent
      <4>4. \A i \in 1..Len(spool) : spool[i] = said[Sent + i]
        BY <1>3, <3>1, <4>2 DEF QueueWhole
      <4> QED  BY <1>2, <1>3, <4>1, <4>2, <4>3, <4>4 DEF QueueWhole
    <3>3. CASE ~moved
      BY <1>2, <1>3, <1>5, <3>3 DEF QueueWhole, Sent
    <3> QED  BY <3>2, <3>3
  <2>7. StoredTo(Sent)'  BY <1>2, <1>3, <2>6 DEF StoredTo
  <2>8. PostsOn'
    <3>1. tool'[p].left = inflight' /\ Len(inflight') \in Nat  BY <2>1, <2>2, <2>4, SeqIs
    <3>2. Base(p)' = Sent'
      <4>1. Len(said) \in Nat /\ Len(spool') \in Nat  BY <1>3, <2>1, SeqIs DEF LedgerTypes
      <4> QED  BY <1>2, <3>1, <4>1 DEF Base, Sent
    <3>3. \A i \in 1..Len(inflight') : inflight'[i] = said'[Sent' + i]  BY <2>6 DEF QueueWhole
    <3>4. StoredTo(Base(p))'  BY <2>7, <3>2 DEF StoredTo
    <3> QED  BY <2>4, <3>1, <3>2, <3>3, <3>4 DEF PostsOn
  <2>9. RowsSaid' /\ StoredOnce' /\ InOrder'  BY <1>2, <1>3 DEF RowsSaid, StoredOnce, InOrder
  <2> QED  BY <2>4, <2>5, <2>6, <2>7, <2>8, <2>9 DEF LedgerInv
<1>6. torn \in BOOLEAN  BY <1>3 DEF LedgerTypes
<1> QED  BY <1>4, <1>5, <1>6 DEF FlushTakes

LEMMA RemovesStep == ASSUME LedgerInv, NEW p \in Ops, FlushRemoves(p) PROVE LedgerInv'
<1>1. /\ tool[p] \in [pc: Stages, flush: Flushes, left: Seq(Events), rounds: Nat]
      /\ <<>> \in Seq(Events) /\ Len(<<>>) = 0
  BY ToolFields, EmptySeq DEF Tools
<1>2. /\ tool[p].flush = "post" /\ tool[p].left = <<>> /\ flushing = p
      /\ UNCHANGED <<said, dropped, torn, spool, flushing, rows>>
      /\ inflight' = <<>> /\ offline' = FALSE
  BY OneFlushes DEF FlushRemoves, recording
<1>3. /\ LedgerTypes /\ QueueWhole /\ StoredTo(Base(p)) /\ RowsSaid /\ StoredOnce /\ InOrder
  BY <1>2 DEF LedgerInv, PostsOn
<1> DEFINE t == [tool[p] EXCEPT !.flush = "round"]
<1>4. t \in Tools /\ t.pc = tool[p].pc /\ t.flush = "round"  BY <1>1 DEF Tools, Flushes
<1>5. Sets(p, t)  BY DEF FlushRemoves
<1> HIDE DEF t
<1>6. /\ tool' \in [Ops -> Tools] /\ \A q \in Ops : tool'[q].flush # "post"
      /\ FlushHeld' /\ flushing' \in Ops \cup {Nobody} /\ SaidOnce' /\ EndSaid'
  BY <1>2, <1>4, <1>5, FlushKeeps
<1>7. LedgerTypes'  BY <1>1, <1>2, <1>3, <1>6 DEF LedgerTypes
<1>8. PostsOn'  BY <1>6 DEF PostsOn
<1>9. /\ Sent' = Base(p) /\ Sent' = Sent + Len(inflight) /\ Sent' \in Nat
  <2>1. Len(said) \in Nat /\ Len(spool) \in Nat /\ Len(inflight) \in Nat
    BY <1>3, SeqIs DEF LedgerTypes
  <2>2. Len(tool[p].left) = 0 /\ Len(inflight') = 0  BY <1>1, <1>2
  <2>3. Sent \in Nat  BY <1>3 DEF QueueWhole
  <2> QED  BY <1>2, <2>1, <2>2, <2>3 DEF Sent, Base
<1>10. QueueWhole'
  <2>1. Len(inflight') = 0  BY <1>1, <1>2
  <2>2. \A i \in 1..Len(spool) : spool[i] = said[Sent' + Len(inflight') + i]
    BY <1>3, <1>9, <2>1 DEF QueueWhole
  <2>3. Sent' \in Nat /\ 1..Len(inflight') = {}  BY <1>9, <2>1
  <2> QED  BY <1>2, <2>2, <2>3 DEF QueueWhole
<1>11. StoredTo(Sent)'  BY <1>2, <1>3, <1>9 DEF StoredTo
<1>12. RowsSaid' /\ StoredOnce' /\ InOrder'  BY <1>2, <1>3 DEF RowsSaid, StoredOnce, InOrder
<1> QED  BY <1>6, <1>7, <1>8, <1>10, <1>11, <1>12 DEF LedgerInv

\* What a post leaves in the table, whatever part of it D1 took: the events it held
\* are stored or refused, each once, and none before those that came first.
LEMMA PostStores ==
  ASSUME LedgerInv, NEW p \in Ops, tool[p].flush = "post",
         NEW batch \in Seq(Events), Len(batch) <= Len(tool[p].left),
         \A i \in 1..Len(batch) : batch[i] = tool[p].left[i],
         rows' = LedgerPost(batch), UNCHANGED said
  PROVE  /\ rows' \in [Events -> Nat] /\ RowsSaid' /\ StoredOnce' /\ InOrder'
         /\ \A i \in 1..(Base(p) + Len(batch)) : rows'[said[i]] > 0 \/ said[i].op \in Odd
<1>1. /\ LedgerTypes /\ QueueWhole /\ SaidOnce /\ RowsSaid /\ StoredOnce /\ InOrder
      /\ Len(tool[p].left) <= Len(inflight)
      /\ \A i \in 1..Len(tool[p].left) : tool[p].left[i] = said[Base(p) + i]
      /\ StoredTo(Base(p))
  BY DEF LedgerInv, PostsOn
<1> DEFINE n == Len(said)
           k == Len(batch)
<1>2. /\ n \in Nat /\ k \in Nat /\ Base(p) \in Nat /\ Base(p) + k <= n
  <2>1. /\ Len(said) \in Nat /\ Len(spool) \in Nat /\ Len(inflight) \in Nat
        /\ Len(tool[p].left) \in Nat /\ Len(batch) \in Nat
    BY <1>1, SeqIs, ToolFields DEF LedgerTypes
  <2>2. Len(said) - Len(inflight) - Len(spool) \in Nat  BY <1>1 DEF QueueWhole, Sent
  <2> QED  BY <1>1, <2>1, <2>2 DEF Base
<1>3. \A i \in 1..n : said[i] \in Events  BY <1>1, SeqIs DEF LedgerTypes
<1>4. \A i \in 1..k : /\ batch[i] = said[Base(p) + i] /\ Base(p) + i \in 1..n
                      /\ batch[i] \in Events
  <2>1. Len(tool[p].left) \in Nat  BY SeqIs, ToolFields
  <2> QED  BY <1>1, <1>2, <1>3, <2>1
<1>5. Range(batch) = {batch[i] : i \in 1..k}  BY SeqIs
<1> HIDE DEF n, k
<1>6. \A e \in Events : rows[e] \in Nat  BY <1>1 DEF LedgerTypes
<1>7. \A e \in Events :
        rows'[e] = IF e \in Range(batch) /\ e.op \notin Odd /\ rows[e] = 0 THEN 1 ELSE rows[e]
  BY DEF LedgerPost
<1>8. /\ rows' \in [Events -> Nat]
      /\ \A e \in Events : rows[e] > 0 => rows'[e] > 0
      /\ \A e \in Range(batch) : e \in Events /\ (rows'[e] > 0 \/ e.op \in Odd)
      /\ \A e \in Events : rows'[e] > 0 => rows[e] > 0 \/ (e \in Range(batch) /\ e.op \notin Odd)
  <2>1. rows' \in [Events -> Nat]  BY <1>6 DEF LedgerPost
  <2>2. Range(batch) \subseteq Events  BY <1>4, <1>5
  <2>3. \A e \in Events : rows[e] > 0 => rows'[e] > 0  BY <1>6, <1>7
  <2>4. \A e \in Range(batch) : rows'[e] > 0 \/ e.op \in Odd  BY <1>6, <1>7, <2>2
  <2>5. \A e \in Events : rows'[e] > 0 => rows[e] > 0 \/ (e \in Range(batch) /\ e.op \notin Odd)
    BY <1>6, <1>7
  <2> QED  BY <2>1, <2>2, <2>3, <2>4, <2>5
<1>9. StoredOnce'  BY <1>1, <1>6, <1>7 DEF StoredOnce
<1>10. RowsSaid'
  <2>1. \A e \in Range(batch) : \E i \in 1..n : e = said[i]  BY <1>4, <1>5
  <2>2. \A e \in Events : rows[e] > 0 => e.op \notin Odd /\ \E i \in 1..n : e = said[i]
    BY <1>1 DEF RowsSaid, n
  <2> QED  BY <1>8, <2>1, <2>2 DEF RowsSaid, n
<1>11. \A i \in 1..(Base(p) + k) : rows'[said[i]] > 0 \/ said[i].op \in Odd
  <2> TAKE i \in 1..(Base(p) + k)
  <2>1. CASE i \in 1..Base(p)
    <3>1. i \in 1..n  BY <1>2, <2>1
    <3>2. rows[said[i]] > 0 \/ said[i].op \in Odd  BY <1>1, <2>1 DEF StoredTo
    <3> QED  BY <1>3, <1>8, <3>1, <3>2
  <2>2. CASE i - Base(p) \in 1..k
    <3>1. batch[i - Base(p)] = said[i]  BY <1>2, <1>4, <2>2
    <3> QED  BY <1>5, <1>8, <2>2, <3>1
  <2> QED  BY <1>2, <2>1, <2>2
<1>12. InOrder'
  <2> SUFFICES ASSUME NEW i \in 1..n, NEW j \in 1..n, i < j, rows'[said[j]] > 0
               PROVE  rows'[said[i]] > 0 \/ said[i].op \in Odd
    BY DEF InOrder, n
  <2>1. CASE rows[said[j]] > 0  BY <1>1, <1>3, <1>8, <2>1 DEF InOrder, n
  <2>2. CASE said[j] \in Range(batch)
    <3>1. PICK l \in 1..k : said[j] = said[Base(p) + l] /\ Base(p) + l \in 1..n
      BY <1>4, <1>5, <2>2
    <3>2. j = Base(p) + l  BY <1>1, <3>1 DEF SaidOnce, n
    <3>3. i \in 1..(Base(p) + k)  BY <1>2, <3>2
    <3> QED  BY <1>11, <3>3
  <2> QED  BY <1>3, <1>8, <2>1, <2>2
<1> QED  BY <1>8, <1>9, <1>10, <1>11, <1>12 DEF k

LEMMA PrefixIs ==
  ASSUME NEW s \in Seq(Events), NEW k \in 0..Len(s)
  PROVE  /\ SubSeq(s, 1, k) \in Seq(Events) /\ Len(SubSeq(s, 1, k)) = k
         /\ \A i \in 1..k : SubSeq(s, 1, k)[i] = s[i]
         /\ SubSeq(s, k + 1, Len(s)) \in Seq(Events) /\ Len(SubSeq(s, k + 1, Len(s))) = Len(s) - k
         /\ \A i \in 1..(Len(s) - k) : SubSeq(s, k + 1, Len(s))[i] = s[k + i]
<1>1. Len(s) \in Nat /\ k \in Nat /\ k <= Len(s) /\ \A i \in 1..Len(s) : s[i] \in Events  BY SeqIs
<1>2. /\ SubSeq(s, 1, k) \in Seq(Events)
      /\ Len(SubSeq(s, 1, k)) = IF 1 <= k THEN k - 1 + 1 ELSE 0
      /\ \A i \in 1..(k - 1 + 1) : SubSeq(s, 1, k)[i] = s[1 + i - 1]
  <2>1. \A i \in 1..k : s[i] \in Events  BY <1>1
  <2> QED  BY <1>1, <2>1, SubSeqProperties
<1>3. /\ SubSeq(s, k + 1, Len(s)) \in Seq(Events)
      /\ Len(SubSeq(s, k + 1, Len(s))) = IF k + 1 <= Len(s) THEN Len(s) - (k + 1) + 1 ELSE 0
      /\ \A i \in 1..(Len(s) - (k + 1) + 1) : SubSeq(s, k + 1, Len(s))[i] = s[k + 1 + i - 1]
  <2>1. \A i \in (k + 1)..Len(s) : s[i] \in Events  BY <1>1
  <2>2. k + 1 \in Int /\ Len(s) \in Int  BY <1>1
  <2> QED  BY <2>1, <2>2, SubSeqProperties
<1> QED  BY <1>1, <1>2, <1>3

LEMMA BatchIs ==
  ASSUME LedgerInv, NEW p \in Ops
  PROVE  /\ Batch(p) \in Seq(Events) /\ Len(Batch(p)) \in 0..Len(tool[p].left)
         /\ \A i \in 1..Len(Batch(p)) : Batch(p)[i] = tool[p].left[i]
<1> DEFINE k == Lesser(MaxBatch, Len(tool[p].left))
<1>1. tool[p].left \in Seq(Events) /\ Len(tool[p].left) \in Nat  BY ToolFields, SeqIs
<1>2. k \in 0..Len(tool[p].left)  BY <1>1, LedgerAssumption DEF Lesser
<1> HIDE DEF k
<1> QED  BY <1>1, <1>2, PrefixIs DEF Batch, k

LEMMA SucceedsStep == ASSUME LedgerInv, NEW p \in Ops, PostSucceeds(p) PROVE LedgerInv'
<1> DEFINE left == tool[p].left
           k == Len(Batch(p))
           rest == SubSeq(left, k + 1, Len(left))
           t == [tool[p] EXCEPT !.left = rest]
<1>1. /\ tool[p] \in [pc: Stages, flush: Flushes, left: Seq(Events), rounds: Nat]
      /\ left \in Seq(Events) /\ Len(left) \in Nat
  BY ToolFields, SeqIs DEF Tools
<1>2. /\ tool[p].flush = "post" /\ flushing = p /\ rows' = LedgerPost(Batch(p))
      /\ UNCHANGED <<said, dropped, torn, spool, inflight, offline, flushing>> /\ Sets(p, t)
  BY OneFlushes DEF PostSucceeds, recording
<1>3. /\ Batch(p) \in Seq(Events) /\ k \in 0..Len(left)
      /\ \A i \in 1..k : Batch(p)[i] = left[i]
  BY BatchIs
<1>4. /\ rest \in Seq(Events) /\ Len(rest) = Len(left) - k
      /\ \A i \in 1..Len(rest) : rest[i] = left[k + i]
  BY <1>1, <1>3, PrefixIs
<1>5. /\ LedgerTypes /\ QueueWhole /\ StoredTo(Sent)
      /\ Len(left) <= Len(inflight)
      /\ \A i \in 1..Len(left) : left[i] = said[Base(p) + i]
  BY <1>2 DEF LedgerInv, PostsOn
<1>6. t \in Tools /\ t.pc = tool[p].pc /\ t.flush = "post" /\ t.left = rest
  BY <1>1, <1>2, <1>4 DEF Tools
<1> HIDE DEF t, rest
<1>7. /\ rows' \in [Events -> Nat] /\ RowsSaid' /\ StoredOnce' /\ InOrder'
      /\ \A i \in 1..(Base(p) + k) : rows'[said[i]] > 0 \/ said[i].op \in Odd
  BY <1>1, <1>2, <1>3, PostStores
<1>8. /\ tool' \in [Ops -> Tools] /\ tool'[p] = t
      /\ \A q \in Ops \ {p} : tool'[q].flush # "post"
      /\ FlushHeld' /\ flushing' \in Ops \cup {Nobody} /\ SaidOnce' /\ EndSaid'
  BY <1>2, <1>6, FlushKeeps
<1>9. LedgerTypes'  BY <1>2, <1>5, <1>7, <1>8 DEF LedgerTypes
<1>10. /\ Base(p) \in Nat /\ Sent \in Nat /\ Sent <= Base(p)
       /\ Base(p)' = Base(p) + k /\ Len(rest) \in Nat /\ Len(rest) <= Len(inflight) /\ k \in Nat
  <2>1. Len(said) \in Nat /\ Len(spool) \in Nat /\ Len(inflight) \in Nat
    BY <1>5, SeqIs DEF LedgerTypes
  <2>2. Sent = Len(said) - Len(inflight) - Len(spool) /\ Sent \in Nat
    BY <1>5 DEF QueueWhole, Sent
  <2>3. Base(p) = Len(said) - Len(spool) - Len(left)  BY DEF Base
  <2>4. Base(p)' = Len(said) - Len(spool) - Len(rest)  BY <1>2, <1>6, <1>8 DEF Base
  <2> HIDE DEF k, left
  <2> QED  BY <1>1, <1>3, <1>4, <1>5, <2>1, <2>2, <2>3, <2>4
<1> HIDE DEF k, left
<1>11. QueueWhole'  BY <1>2, <1>5 DEF QueueWhole, Sent
<1>12. StoredTo(Sent)'
  <2>1. Sent' = Sent  BY <1>2 DEF Sent
  <2>2. \A i \in 1..Sent : i \in 1..(Base(p) + k)  BY <1>10
  <2> QED  BY <1>2, <1>7, <2>1, <2>2 DEF StoredTo
<1>13. PostsOn'
  <2>1. StoredTo(Base(p))'  BY <1>2, <1>7, <1>10 DEF StoredTo
  <2>2. \A i \in 1..Len(rest) : rest[i] = said[Base(p)' + i]
    <3> TAKE i \in 1..Len(rest)
    <3>1. k + i \in 1..Len(left) /\ Base(p) + (k + i) = Base(p)' + i  BY <1>1, <1>3, <1>4, <1>10
    <3> QED  BY <1>4, <1>5, <3>1
  <2> QED  BY <1>2, <1>6, <1>8, <1>10, <2>1, <2>2 DEF PostsOn
<1> QED  BY <1>7, <1>8, <1>9, <1>11, <1>12, <1>13 DEF LedgerInv

LEMMA FailsStep == ASSUME LedgerInv, NEW p \in Ops, PostFails(p) PROVE LedgerInv'
<1> DEFINE left == tool[p].left
           t == [tool[p] EXCEPT !.flush = "off", !.left = <<>>]
<1>1. /\ tool[p] \in [pc: Stages, flush: Flushes, left: Seq(Events), rounds: Nat]
      /\ left \in Seq(Events) /\ Len(left) \in Nat /\ <<>> \in Seq(Events)
  BY ToolFields, SeqIs, EmptySeq DEF Tools
<1>2. /\ tool[p].flush = "post" /\ Stores(Batch(p))
      /\ UNCHANGED <<said, dropped, torn, spool>> /\ inflight' = left /\ offline' = TRUE
      /\ Sets(p, t) /\ flushing' = Nobody
  BY DEF PostFails, recording, FlushDone
<1>3. PICK batch \in Seq(Events) :
        /\ Len(batch) \in 0..Len(left) /\ \A i \in 1..Len(batch) : batch[i] = left[i]
        /\ rows' = LedgerPost(batch)
  <2>1. /\ Batch(p) \in Seq(Events) /\ Len(Batch(p)) \in 0..Len(left)
        /\ \A i \in 1..Len(Batch(p)) : Batch(p)[i] = left[i]
    BY BatchIs
  <2>2. PICK n \in 0..Len(Batch(p)) : rows' = LedgerPost(SubSeq(Batch(p), 1, n))
    BY <1>2 DEF Stores
  <2> DEFINE taken == SubSeq(Batch(p), 1, n)
  <2>3. /\ taken \in Seq(Events) /\ Len(taken) = n
        /\ \A i \in 1..n : taken[i] = Batch(p)[i]
    BY <2>1, PrefixIs
  <2>4. rows' = LedgerPost(taken)  BY <2>2
  <2> HIDE DEF taken
  <2>5. n \in 0..Len(left) /\ \A i \in 1..n : i \in 1..Len(Batch(p))  BY <1>1, <2>1
  <2>6. \A i \in 1..Len(taken) : taken[i] = left[i]  BY <2>1, <2>3, <2>5
  <2> QED  BY <2>3, <2>4, <2>5, <2>6
<1>4. /\ LedgerTypes /\ QueueWhole /\ Len(left) <= Len(inflight)
      /\ \A i \in 1..Len(left) : left[i] = said[Base(p) + i]
  BY <1>2 DEF LedgerInv, PostsOn
<1>5. /\ rows' \in [Events -> Nat] /\ RowsSaid' /\ StoredOnce' /\ InOrder'
      /\ \A i \in 1..(Base(p) + Len(batch)) : rows'[said[i]] > 0 \/ said[i].op \in Odd
  BY <1>1, <1>2, <1>3, PostStores
<1>6. t \in Tools /\ t.pc = tool[p].pc /\ t.flush = "off"  BY <1>1 DEF Tools, Flushes
<1> HIDE DEF t
<1>7. /\ tool' \in [Ops -> Tools] /\ \A q \in Ops : tool'[q].flush # "post"
      /\ FlushHeld' /\ flushing' \in Ops \cup {Nobody} /\ SaidOnce' /\ EndSaid'
  BY <1>2, <1>6, FlushKeeps
<1>8. LedgerTypes'  BY <1>1, <1>2, <1>4, <1>5, <1>7 DEF LedgerTypes
<1>9. /\ Base(p) \in Nat /\ Sent' = Base(p) /\ Sent + Len(inflight) = Base(p) + Len(left)
      /\ Len(batch) \in Nat
  <2>1. Len(said) \in Nat /\ Len(spool) \in Nat /\ Len(inflight) \in Nat
    BY <1>4, SeqIs DEF LedgerTypes
  <2>2. Sent = Len(said) - Len(inflight) - Len(spool) /\ Sent \in Nat
    BY <1>4 DEF QueueWhole, Sent
  <2>3. Base(p) = Len(said) - Len(spool) - Len(left)  BY DEF Base
  <2>4. Sent' = Len(said) - Len(left) - Len(spool)  BY <1>2 DEF Sent
  <2> HIDE DEF left
  <2> QED  BY <1>1, <1>3, <1>4, <2>1, <2>2, <2>3, <2>4
<1> HIDE DEF left
<1>10. QueueWhole'  BY <1>2, <1>4, <1>9 DEF QueueWhole
<1>11. StoredTo(Sent)'
  <2>1. \A i \in 1..Base(p) : i \in 1..(Base(p) + Len(batch))  BY <1>9
  <2> QED  BY <1>2, <1>5, <1>9, <2>1 DEF StoredTo
<1>12. PostsOn'  BY <1>7 DEF PostsOn
<1> QED  BY <1>5, <1>7, <1>8, <1>10, <1>11, <1>12 DEF LedgerInv
-----------------------------------------------------------------------------
(* The theorems.                                                           *)

LEMMA StepInv == LedgerInv /\ [LedgerNext]_ledgerVars => LedgerInv'
<1> SUFFICES ASSUME LedgerInv, [LedgerNext]_ledgerVars PROVE LedgerInv'  OBVIOUS
<1>1. ASSUME NEW p \in Ops, CommandStarts(p) \/ CommandEnds(p) PROVE LedgerInv'
  BY <1>1, EmitSteps
<1>2. ASSUME NEW p \in Ops,
             \/ AppendTears(p) \/ DrainFlushes(p) \/ Exits(p) \/ Killed(p)
             \/ FlushBegins(p) \/ LaterCommand(p)
      PROVE  LedgerInv'
  BY <1>2, QuietSteps
<1>3. ASSUME NEW p \in Ops, FlushTakes(p) PROVE LedgerInv'  BY <1>3, TakesStep
<1>4. ASSUME NEW p \in Ops, FlushRemoves(p) PROVE LedgerInv'  BY <1>4, RemovesStep
<1>5. ASSUME NEW p \in Ops, PostSucceeds(p) PROVE LedgerInv'  BY <1>5, SucceedsStep
<1>6. ASSUME NEW p \in Ops, PostFails(p) PROVE LedgerInv'  BY <1>6, FailsStep
<1>7. ASSUME OfflineMarkAges \/ UNCHANGED ledgerVars PROVE LedgerInv'
  <2>1. /\ UNCHANGED <<said, dropped, torn, spool, inflight, flushing, tool, rows>>
        /\ offline' \in BOOLEAN
    BY <1>7 DEF OfflineMarkAges, recording, ledgerVars, LedgerInv, LedgerTypes
  <2>2. LedgerTypes' /\ FlushHeld'  BY <2>1 DEF LedgerInv, LedgerTypes, FlushHeld
  <2>3. SaidOnce' /\ EndSaid'  BY <2>1 DEF LedgerInv, SaidOnce, EndSaid
  <2> QED  BY <2>1, <2>2, <2>3, QuietKeeps
<1> QED
  BY <1>1, <1>2, <1>3, <1>4, <1>5, <1>6, <1>7 DEF LedgerNext, FlushSteps

\* Whoever is killed and whichever posts fail or are answered too late, the
\* invariant of the spool, the file in flight and the table holds.
THEOREM LedgerHolds == LedgerSpec => []LedgerInv
BY InitInv, StepInv, PTL DEF LedgerSpec

\* Between the command that recorded it (ledger.Emit) and the Worker's table no
\* event is lost, doubled or overtaken.
THEOREM EventsArriveOnce == LedgerSpec => []EachOnceInOrder
BY LedgerHolds, InvTellsAll, PTL

\* Once all is sent, the ledger shows no work open (buildView) but what was killed,
\* or whose end was dropped.
THEOREM OpenWorkTrue == LedgerSpec => []ViewTrue
BY LedgerHolds, InvShowsTrue, PTL
=============================================================================
