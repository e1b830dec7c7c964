--------------------------- MODULE RunStoreProofs ---------------------------
(***************************************************************************)
(* Proofs about the directory run store, for any number of goroutines, any *)
(* batches and limits, and any number of deaths and power losses.          *)
(***************************************************************************)
EXTENDS RunStore, TLAPS

\* A run that was never created has left nothing behind.
FreshInv ==
  /\ ready \/ handle # "none" => exists
  /\ ~exists => /\ disk = <<>> /\ published = <<>> /\ stable = {}
                /\ tail = "clean" /\ segs = 0 /\ dirStable = 0

\* Which calls can be inside a handle: none without one, only Main's while it
\* is being opened; and where Main is says what the handle is.
CallsInv ==
  /\ handle = "none" => pc = Quiet /\ fl.owner = Nobody
  /\ handle = "starting" => \A t \in Threads \ {Main} : pc[t] = Quiet[t]
  /\ pc[Main] \in {"started", "startfailed"} => handle = "starting"
  /\ pc[Main] \in {"join", "close"} => handle = "closing"
  /\ pc[Main] = "flush" => handle \in {"starting", "closing"}
  /\ fl.owner # Nobody => fl.owner \in Threads /\ pc[fl.owner] = "flush"

\* Segments are filled in order, and no synced entry is of a missing file.
SegmentsInv ==
  /\ \A i \in 1..Len(disk) : disk[i].seg <= segs
  /\ \A i, j \in 1..Len(disk) : i <= j => disk[i].seg <= disk[j].seg
  /\ dirStable <= segs
  /\ stable \subseteq 1..Len(disk)

\* What the running flush has secured so far of the frames it will commit.
FlushInv ==
  fl.owner # Nobody =>
    /\ committed <= fl.seq /\ fl.seq <= Len(disk)
    /\ fl.files <= segs
    /\ \A i \in 1..fl.seq : /\ disk[i].seg <= fl.files
                            /\ ~fl.failed /\ disk[i].seg < fl.next => i \in stable

CommitInv ==
  handle # "none" => /\ committed <= Len(published)
                     /\ committed <= Len(disk)
                     /\ synced <= dirStable

PublishedInv == ReadsAreFinal /\ OnStorage(Len(published))

\* The batch of a goroutine that goes on to flush is installed, and the flush
\* it started covers it.
BatchInv ==
  \A c \in Clients :
    pc[c] = "flush" =>
      \A f \in batch[c] :
        \E i \in 1..Len(disk) : f \in disk[i].facts /\ (fl.owner = c => i <= fl.seq)

\* The flush subtracts exactly what it commits.
BacklogInv ==
  /\ fl.owner # Nobody => fl.bytes <= pending
  /\ handle = "starting" => /\ pc[Main] = "flush" => committed = 0 /\ pending \in {0, Len(disk)}
                            /\ pc[Main] = "started" => committed = Len(disk) /\ pending = 0
                            /\ fl.owner # Nobody => fl.seq = Len(disk) /\ fl.bytes = pending
  /\ handle = "open" => /\ pending = Len(disk) - committed
                        /\ fl.owner # Nobody => fl.bytes = fl.seq - committed

IInv ==
  /\ TypeOK /\ FreshInv /\ CallsInv /\ ImageIsDisk /\ SegmentsInv /\ FlushInv
  /\ CommitInv /\ PublishedInv /\ BatchInv /\ AcknowledgedIsPublished /\ BacklogInv /\ OpenAccepts

-----------------------------------------------------------------------------
(* The steps, and what they leave alone *)

\* The steps of a call, the timer or Close that move only their goroutine.
Waits ==
  \/ \E c \in Clients : \/ \E b \in Batches, d \in BOOLEAN : CallAppend(c, b, d)
                        \/ Block(c) \/ Cancelled(c) \/ Refused(c) \/ Reject(c) \/ Duplicate(c)
  \/ \E t \in Threads : FlushRefused(t)
  \/ TimerTick \/ TimerStops \/ CloseJoined

\* They change neither the disk nor the handle nor the flush.
LEMMA WaitsFrame == Waits => UNCHANGED <<diskVars, handleVars, fl, histVars>>
BY DEF Waits, CallAppend, Block, Cancelled, Refused, Reject, Duplicate, FlushRefused, TimerTick,
       TimerStops, CloseJoined

\* Every step is one of these or a stuttering step.
LEMMA StepCases ==
  [Next]_vars =>
    \/ Waits
    \/ \E c \in Clients : Install(c) \/ InstallFailed(c) \/ \E s \in Slots : EnsureNode(c, s)
    \/ \E t \in Threads : FlushNothing(t) \/ FlushBegin(t)
    \/ SyncFile \/ SyncFileFails \/ (\E ok \in BOOLEAN : FlushEnd(ok)) \/ FlushFailed
    \/ Create \/ CreateFailed \/ Open \/ Started \/ StartFailed \/ CloseBegin \/ CloseEnd
    \/ Die \/ (\E n \in 0..MaxFrames : LosePower(n))
    \/ UNCHANGED vars
BY DEF Next, ClientNext, FlushStart, FlushStep, MainNext, Waits

\* A new frame goes behind the others, into the last segment or a new one.
LEMMA WriteFrameEffect ==
  ASSUME TypeOK, log = disk, NEW fresh, WriteFrame(fresh)
  PROVE  /\ log' = disk' /\ pending' = pending + 1
         /\ Len(disk') = Len(disk) + 1
         /\ \A i \in 1..Len(disk) : disk'[i] = disk[i]
         /\ disk'[Len(disk) + 1].facts = fresh
         /\ disk'[Len(disk) + 1].seg = segs'
         /\ segs' \in {segs, segs + 1}
BY DEF TypeOK, DiskTypes, WriteFrame, NextSegment

\* An interrupted write may leave a new segment file, but no frame.
LEMMA PartWriteEffect ==
  ASSUME TypeOK, PartWrite
  PROVE  segs' \in {segs, segs + 1}
BY DEF TypeOK, DiskTypes, PartWrite, NextSegment

\* Segment numbers are positive.
LEMMA SegType == TypeOK => \A i \in 1..Len(disk) : disk[i].seg \in Nat /\ disk[i].seg >= 1
<1> SUFFICES ASSUME TypeOK, NEW i \in 1..Len(disk) PROVE disk[i].seg \in Nat /\ disk[i].seg >= 1
  OBVIOUS
<1>1. disk[i] \in Frames
  BY DEF TypeOK, DiskTypes
<1> QED
  BY <1>1 DEF Frames

\* More segment files do not disturb the frames already there.
LEMMA SegmentsGrow ==
  ASSUME TypeOK, SegmentsInv, segs' \in Nat, segs' >= segs, UNCHANGED <<disk, stable, dirStable>>
  PROVE  SegmentsInv'
<1>1. \A i \in 1..Len(disk) : disk[i].seg \in Nat /\ disk[i].seg <= segs'
  BY SegType DEF SegmentsInv, TypeOK, DiskTypes
<1> QED
  BY <1>1 DEF SegmentsInv, TypeOK, DiskTypes

\* A power loss keeps the first n frames.
LEMMA LosePowerEffect ==
  ASSUME TypeOK, NEW n \in 0..MaxFrames, LosePower(n)
  PROVE  /\ n \in 0..Len(disk) /\ Len(disk') = n
         /\ \A i \in 1..n : disk'[i] = disk[i]
         /\ stable' = stable \cap 1..n
         /\ segs' \in Nat /\ segs' >= dirStable /\ (n > 0 => segs' >= disk[n].seg)
         /\ UNCHANGED <<dirStable, published>>
         /\ \A m \in n+1..Len(disk) : ~OnStorage(m)
<1>1. n \in 0..Len(disk) /\ disk' = SubSeq(disk, 1, n)
  BY DEF LosePower
<1>2. Len(disk') = n /\ \A i \in 1..n : disk'[i] = disk[i]
  BY <1>1 DEF TypeOK, DiskTypes
<1>3. segs' \in Nat /\ segs' >= dirStable /\ (n > 0 => segs' >= disk[n].seg)
  BY DEF LosePower, TypeOK, DiskTypes
<1> QED
  BY <1>1, <1>2, <1>3 DEF LosePower


\* Frames written under the checks of appendLocked pass the checks of Open.
LEMMA WriteFrameReadable ==
  ASSUME TypeOK, log = disk, Readable(disk), NEW fresh, WriteFrame(fresh), fresh # {},
         \A f \in fresh :
           /\ \A g \in Installed \cup (fresh \ {f}) :
                g.id # f.id /\ (HasUniqueKey(f) => UniqueKey(g) # UniqueKey(f))
           /\ f.kind # "node-created" => NodeFact(f.node) \in Installed
  PROVE  Readable(disk')
<1>1. /\ Len(disk) \in Nat /\ Len(disk') = Len(disk) + 1
      /\ \A i \in 1..Len(disk) : disk'[i] = disk[i]
      /\ disk'[Len(disk) + 1].facts = fresh
  BY WriteFrameEffect DEF TypeOK, DiskTypes
<1> SUFFICES ASSUME NEW i \in 1..Len(disk')
             PROVE  /\ disk'[i].facts # {}
                    /\ \A f \in disk'[i].facts :
                         /\ \A j \in 1..i : \A g \in disk'[j].facts :
                              \/ j = i /\ g = f
                              \/ g.id # f.id /\ (HasUniqueKey(f) => UniqueKey(g) # UniqueKey(f))
                         /\ f.kind # "node-created" => \E j \in 1..i : NodeFact(f.node) \in disk'[j].facts
  BY DEF Readable
<1>2. CASE i \in 1..Len(disk)
  <2>1. \A j \in 1..i : disk'[j] = disk[j]
    BY <1>1, <1>2
  <2> QED
    BY <1>2, <1>1, <2>1 DEF Readable
<1>3. CASE i = Len(disk) + 1
  <2>1. \A j \in 1..i : j = i \/ (j \in 1..Len(disk) /\ disk'[j] = disk[j])
    BY <1>1, <1>3
  <2>2. disk'[i].facts = fresh
    BY <1>1, <1>3
  <2>3. \A j \in 1..Len(disk) : \A g \in disk[j].facts : g \in Installed
    BY DEF Installed
  <2>4. \A g \in Installed : \E j \in 1..Len(disk) : g \in disk[j].facts
    BY DEF Installed
  <2>5. \A f \in fresh : \A j \in 1..i : \A g \in disk'[j].facts :
          (j = i /\ g = f) \/ (g.id # f.id /\ (HasUniqueKey(f) => UniqueKey(g) # UniqueKey(f)))
    BY <2>1, <2>2, <2>3
  <2>6. \A f \in fresh : f.kind # "node-created" => \E j \in 1..i : NodeFact(f.node) \in disk'[j].facts
    BY <1>1, <1>3, <2>4
  <2> QED
    BY <2>2, <2>5, <2>6
<1> QED
  BY <1>1, <1>2, <1>3

\* EnsureNode and Create write facts of the run.
LEMMA NodeFactType == \A s \in Slots \cup {Root} : NodeFact(s) \in AllFacts
BY DEF AllFacts

\* Every step keeps the types.
LEMMA StepType == IInv /\ [Next]_vars => TypeOK'
<1> SUFFICES ASSUME IInv, [Next]_vars PROVE TypeOK'
  OBVIOUS
<1>1. ASSUME NEW c \in Clients, Duplicate(c) PROVE TypeOK'
  BY <1>1 DEF IInv, Duplicate, vars, diskVars, handleVars, threadVars, histVars, Threads, TypeOK,
    Flags, DiskTypes, HandleTypes, ThreadTypes, HistoryTypes, NoFlush, Flushing, Signalled, Quiet,
    AfterAppend
<1>2. ASSUME NEW c \in Clients, Install(c) PROVE TypeOK'
  <2>1. [seg |-> NextSegment, facts |-> batch[c] \ Installed] \in Frames
    BY <1>2, NodeFactType DEF IInv, Install, TypeOK, Flags, DiskTypes, HandleTypes, ThreadTypes,
      HistoryTypes, NextSegment, Frames, AllFacts, Admitted
  <2>2. NextSegment \in Nat
    BY DEF IInv, TypeOK, Flags, DiskTypes, HandleTypes, ThreadTypes, HistoryTypes, NextSegment
  <2>3. Flags'
    BY <1>2, <2>1, <2>2 DEF IInv, Install, diskVars, handleVars, threadVars, histVars, TypeOK,
      Flags, DiskTypes, HandleTypes, ThreadTypes, HistoryTypes
  <2>4. DiskTypes'
    BY <1>2, <2>1, <2>2 DEF IInv, Install, diskVars, handleVars, threadVars, histVars, TypeOK,
      Flags, DiskTypes, HandleTypes, ThreadTypes, HistoryTypes, WriteFrame
  <2>5. HandleTypes'
    BY <1>2, <2>1, <2>2 DEF IInv, Install, diskVars, handleVars, threadVars, histVars, TypeOK,
      Flags, DiskTypes, HandleTypes, ThreadTypes, HistoryTypes, WriteFrame
  <2>6. ThreadTypes'
    BY <1>2, <2>1, <2>2 DEF IInv, Install, diskVars, handleVars, threadVars, histVars, TypeOK,
      Flags, DiskTypes, HandleTypes, ThreadTypes, HistoryTypes, Threads, AfterAppend
  <2>7. HistoryTypes'
    BY <1>2, <2>1, <2>2 DEF IInv, Install, diskVars, handleVars, threadVars, histVars, TypeOK,
      Flags, DiskTypes, HandleTypes, ThreadTypes, HistoryTypes
  <2> QED
    BY <2>3, <2>4, <2>5, <2>6, <2>7 DEF TypeOK
<1>3. ASSUME NEW c \in Clients, InstallFailed(c) PROVE TypeOK'
  BY <1>3 DEF IInv, InstallFailed, MakesNode, vars, diskVars, handleVars, threadVars, histVars, Threads,
    TypeOK, Flags, DiskTypes, HandleTypes, ThreadTypes, HistoryTypes, NoFlush, Flushing, Signalled,
    Quiet, PartWrite, NextSegment
<1>4. ASSUME NEW c \in Clients, NEW s \in Slots, EnsureNode(c, s) PROVE TypeOK'
  <2>1. [seg |-> NextSegment, facts |-> {NodeFact(s)}] \in Frames
    BY <1>4, NodeFactType DEF IInv, EnsureNode, MakesNode, TypeOK, Flags, DiskTypes, HandleTypes, ThreadTypes,
      HistoryTypes, NextSegment, Frames, AllFacts
  <2>2. NextSegment \in Nat
    BY DEF IInv, TypeOK, Flags, DiskTypes, HandleTypes, ThreadTypes, HistoryTypes, NextSegment
  <2>3. Flags'
    BY <1>4, <2>1, <2>2 DEF IInv, EnsureNode, MakesNode, diskVars, handleVars, threadVars, histVars, TypeOK,
      Flags, DiskTypes, HandleTypes, ThreadTypes, HistoryTypes
  <2>4. DiskTypes'
    BY <1>4, <2>1, <2>2 DEF IInv, EnsureNode, MakesNode, diskVars, handleVars, threadVars, histVars, TypeOK,
      Flags, DiskTypes, HandleTypes, ThreadTypes, HistoryTypes, WriteFrame
  <2>5. HandleTypes'
    BY <1>4, <2>1, <2>2 DEF IInv, EnsureNode, MakesNode, diskVars, handleVars, threadVars, histVars, TypeOK,
      Flags, DiskTypes, HandleTypes, ThreadTypes, HistoryTypes, WriteFrame
  <2>6. ThreadTypes'
    BY <1>4, <2>1, <2>2 DEF IInv, EnsureNode, MakesNode, diskVars, handleVars, threadVars, histVars, TypeOK,
      Flags, DiskTypes, HandleTypes, ThreadTypes, HistoryTypes, Threads
  <2>7. HistoryTypes'
    BY <1>4, <2>1, <2>2 DEF IInv, EnsureNode, MakesNode, diskVars, handleVars, threadVars, histVars, TypeOK,
      Flags, DiskTypes, HandleTypes, ThreadTypes, HistoryTypes
  <2> QED
    BY <2>3, <2>4, <2>5, <2>6, <2>7 DEF TypeOK
<1>5. ASSUME NEW t \in Threads, FlushRefused(t) PROVE TypeOK'
  BY <1>5 DEF IInv, FlushRefused, vars, diskVars, handleVars, threadVars, histVars, Threads, TypeOK,
    Flags, DiskTypes, HandleTypes, ThreadTypes, HistoryTypes, NoFlush, Flushing, Signalled, Quiet,
    AfterFlush
<1>6. ASSUME NEW t \in Threads, FlushNothing(t) PROVE TypeOK'
  BY <1>6 DEF IInv, FlushNothing, vars, diskVars, handleVars, threadVars, histVars, Threads, TypeOK,
    Flags, DiskTypes, HandleTypes, ThreadTypes, HistoryTypes, NoFlush, Flushing, Signalled, Quiet,
    AfterFlush, AckIf, AllFacts
<1>7. CASE SyncFile
  <2>1. {i \in 1..Len(disk) : disk[i].seg = fl.next} \subseteq Nat
    BY DEF IInv, TypeOK, Flags, DiskTypes, HandleTypes, ThreadTypes, HistoryTypes
  <2>2. stable' \subseteq Nat
    BY <2>1, <1>7 DEF IInv, SyncFile, TypeOK, Flags, DiskTypes, HandleTypes, ThreadTypes,
      HistoryTypes
  <2>3. Flags'
    BY <1>7, <2>2 DEF IInv, SyncFile, diskVars, handleVars, threadVars, histVars, TypeOK, Flags,
      DiskTypes, HandleTypes, ThreadTypes, HistoryTypes
  <2>4. DiskTypes'
    BY <1>7, <2>2 DEF IInv, SyncFile, diskVars, handleVars, threadVars, histVars, TypeOK, Flags,
      DiskTypes, HandleTypes, ThreadTypes, HistoryTypes
  <2>5. HandleTypes'
    BY <1>7, <2>2 DEF IInv, SyncFile, diskVars, handleVars, threadVars, histVars, TypeOK, Flags,
      DiskTypes, HandleTypes, ThreadTypes, HistoryTypes
  <2>6. ThreadTypes'
    BY <1>7, <2>2 DEF IInv, SyncFile, diskVars, handleVars, threadVars, histVars, TypeOK, Flags,
      DiskTypes, HandleTypes, ThreadTypes, HistoryTypes, Flushing
  <2>7. HistoryTypes'
    BY <1>7, <2>2 DEF IInv, SyncFile, diskVars, handleVars, threadVars, histVars, TypeOK, Flags,
      DiskTypes, HandleTypes, ThreadTypes, HistoryTypes
  <2> QED
    BY <2>3, <2>4, <2>5, <2>6, <2>7 DEF TypeOK
<1>8. CASE SyncFileFails
  <2>1. Flags'
    BY <1>8 DEF IInv, SyncFileFails, diskVars, handleVars, threadVars, histVars, TypeOK, Flags,
      DiskTypes, HandleTypes, ThreadTypes, HistoryTypes
  <2>2. DiskTypes'
    BY <1>8 DEF IInv, SyncFileFails, diskVars, handleVars, threadVars, histVars, TypeOK, Flags,
      DiskTypes, HandleTypes, ThreadTypes, HistoryTypes
  <2>3. HandleTypes'
    BY <1>8 DEF IInv, SyncFileFails, diskVars, handleVars, threadVars, histVars, TypeOK, Flags,
      DiskTypes, HandleTypes, ThreadTypes, HistoryTypes
  <2>4. ThreadTypes'
    BY <1>8 DEF IInv, SyncFileFails, diskVars, handleVars, threadVars, histVars, TypeOK, Flags,
      DiskTypes, HandleTypes, ThreadTypes, HistoryTypes, Flushing
  <2>5. HistoryTypes'
    BY <1>8 DEF IInv, SyncFileFails, diskVars, handleVars, threadVars, histVars, TypeOK, Flags,
      DiskTypes, HandleTypes, ThreadTypes, HistoryTypes
  <2> QED
    BY <2>1, <2>2, <2>3, <2>4, <2>5 DEF TypeOK
<1>9. ASSUME NEW ok \in BOOLEAN, FlushEnd(ok) PROVE TypeOK'
  <2>1. acked' \subseteq AllFacts
    BY <1>9 DEF IInv, FlushEnd, AckIf, AllFacts, CallsInv, TypeOK, Flags, DiskTypes, HandleTypes,
      ThreadTypes, HistoryTypes
  <2>2. published' \in Seq(Frames)
    BY <1>9 DEF IInv, FlushEnd, FlushInv, ImageIsDisk, CallsInv, NoFlush, Flushing, TypeOK, Flags,
      DiskTypes, HandleTypes, ThreadTypes, HistoryTypes
  <2>3. Flags'
    BY <1>9 DEF IInv, FlushEnd, diskVars, handleVars, threadVars, histVars, TypeOK, Flags,
      DiskTypes, HandleTypes, ThreadTypes, HistoryTypes
  <2>4. DiskTypes'
    BY <1>9 DEF IInv, FlushEnd, diskVars, handleVars, threadVars, histVars, TypeOK, Flags,
      DiskTypes, HandleTypes, ThreadTypes, HistoryTypes
  <2>5. HandleTypes'
    BY <1>9 DEF IInv, FlushEnd, diskVars, handleVars, threadVars, histVars, TypeOK, Flags,
      DiskTypes, HandleTypes, ThreadTypes, HistoryTypes
  <2>6. ThreadTypes'
    BY <1>9 DEF IInv, FlushEnd, diskVars, handleVars, threadVars, histVars, TypeOK, Flags,
      DiskTypes, HandleTypes, ThreadTypes, HistoryTypes, NoFlush, Flushing, Signalled, Threads,
      AfterFlush
  <2>7. HistoryTypes'
    BY <2>1, <2>2, <1>9 DEF IInv, FlushEnd, TypeOK, Flags, DiskTypes, HandleTypes, ThreadTypes,
      HistoryTypes
  <2> QED
    BY <2>3, <2>4, <2>5, <2>6, <2>7 DEF TypeOK
<1>10. CASE FlushFailed
  BY <1>10 DEF IInv, FlushFailed, vars, diskVars, handleVars, threadVars, histVars, Threads, TypeOK,
    Flags, DiskTypes, HandleTypes, ThreadTypes, HistoryTypes, NoFlush, Flushing, Signalled, Quiet,
    AfterFlush
<1>11. CASE Create
  <2>1. [seg |-> 1, facts |-> {NodeFact(Root)}] \in Frames
    BY NodeFactType DEF Frames
  <2>2. <<[seg |-> 1, facts |-> {NodeFact(Root)}]>> \in Seq(Frames)
    BY <2>1
  <2>3. Flags'
    BY <1>11, <2>2 DEF IInv, Create, diskVars, handleVars, threadVars, histVars, TypeOK, Flags,
      DiskTypes, HandleTypes, ThreadTypes, HistoryTypes
  <2>4. DiskTypes'
    BY <1>11, <2>2 DEF IInv, Create, diskVars, handleVars, threadVars, histVars, TypeOK, Flags,
      DiskTypes, HandleTypes, ThreadTypes, HistoryTypes
  <2>5. HandleTypes'
    BY <1>11, <2>2 DEF IInv, Create, diskVars, handleVars, threadVars, histVars, TypeOK, Flags,
      DiskTypes, HandleTypes, ThreadTypes, HistoryTypes
  <2>6. ThreadTypes'
    BY <1>11, <2>2 DEF IInv, Create, diskVars, handleVars, threadVars, histVars, TypeOK, Flags,
      DiskTypes, HandleTypes, ThreadTypes, HistoryTypes, Threads
  <2>7. HistoryTypes'
    BY <1>11, <2>2 DEF IInv, Create, diskVars, handleVars, threadVars, histVars, TypeOK, Flags,
      DiskTypes, HandleTypes, ThreadTypes, HistoryTypes
  <2> QED
    BY <2>3, <2>4, <2>5, <2>6, <2>7 DEF TypeOK
<1>12. CASE Open
  <2>1. Flags'
    BY <1>12 DEF IInv, Open, diskVars, handleVars, threadVars, histVars, TypeOK, Flags, DiskTypes,
      HandleTypes, ThreadTypes, HistoryTypes
  <2>2. DiskTypes'
    BY <1>12 DEF IInv, Open, diskVars, handleVars, threadVars, histVars, TypeOK, Flags, DiskTypes,
      HandleTypes, ThreadTypes, HistoryTypes
  <2>3. HandleTypes'
    BY <1>12 DEF IInv, Open, diskVars, handleVars, threadVars, histVars, TypeOK, Flags, DiskTypes,
      HandleTypes, ThreadTypes, HistoryTypes
  <2>4. ThreadTypes'
    BY <1>12 DEF IInv, Open, diskVars, handleVars, threadVars, histVars, TypeOK, Flags, DiskTypes,
      HandleTypes, ThreadTypes, HistoryTypes, Threads
  <2>5. HistoryTypes'
    BY <1>12 DEF IInv, Open, diskVars, handleVars, threadVars, histVars, TypeOK, Flags, DiskTypes,
      HandleTypes, ThreadTypes, HistoryTypes
  <2> QED
    BY <2>1, <2>2, <2>3, <2>4, <2>5 DEF TypeOK
<1>13. CASE Die
  BY <1>13 DEF IInv, Die, vars, diskVars, handleVars, threadVars, histVars, Threads, TypeOK, Flags,
    DiskTypes, HandleTypes, ThreadTypes, HistoryTypes, NoFlush, Flushing, Signalled, Quiet, Forget,
    PartWrite, NextSegment
<1>14. ASSUME NEW n \in 0..MaxFrames, LosePower(n) PROVE TypeOK'
  BY <1>14 DEF IInv, LosePower, vars, diskVars, handleVars, threadVars, histVars, Threads, TypeOK,
    Flags, DiskTypes, HandleTypes, ThreadTypes, HistoryTypes, NoFlush, Flushing, Signalled, Quiet,
    Forget
<1>15. ASSUME NEW c \in Clients, NEW b \in Batches, NEW d \in BOOLEAN, CallAppend(c, b, d) PROVE
           TypeOK'
  BY <1>15 DEF IInv, CallAppend, vars, diskVars, handleVars, threadVars, histVars, Threads, TypeOK,
    Flags, DiskTypes, HandleTypes, ThreadTypes, HistoryTypes, NoFlush, Flushing, Signalled, Quiet
<1>16. ASSUME NEW c \in Clients, Block(c) \/ Cancelled(c) \/ Refused(c) \/ Reject(c) PROVE TypeOK'
  BY <1>16 DEF IInv, Block, Cancelled, Refused, Reject, vars, diskVars, handleVars, threadVars,
    histVars, Threads, TypeOK, Flags, DiskTypes, HandleTypes, ThreadTypes, HistoryTypes, NoFlush,
    Flushing, Signalled, Quiet
<1>17. ASSUME NEW t \in Threads, FlushBegin(t) PROVE TypeOK'
  BY <1>17 DEF IInv, FlushBegin, vars, diskVars, handleVars, threadVars, histVars, Threads, TypeOK,
    Flags, DiskTypes, HandleTypes, ThreadTypes, HistoryTypes, NoFlush, Flushing, Signalled, Quiet
<1>18. CASE TimerTick \/ TimerStops \/ CreateFailed \/ Started \/ StartFailed \/ CloseBegin \/
           CloseJoined \/ CloseEnd \/ UNCHANGED vars
  BY <1>18 DEF IInv, TimerTick, TimerStops, CreateFailed, Started, StartFailed, CloseBegin,
    CloseJoined, CloseEnd, vars, diskVars, handleVars, threadVars, histVars, Threads, TypeOK, Flags,
    DiskTypes, HandleTypes, ThreadTypes, HistoryTypes, NoFlush, Flushing, Signalled, Quiet
<1> QED
  BY <1>1, <1>2, <1>3, <1>4, <1>5, <1>6, <1>7, <1>8, <1>9, <1>10, <1>11, <1>12, <1>13, <1>14, <1>15,
    <1>16, <1>17, <1>18 DEF Next, ClientNext, FlushStart, FlushStep, MainNext

\* A run that is not there has left nothing.
LEMMA StepFresh == IInv /\ [Next]_vars => FreshInv'
<1> SUFFICES ASSUME IInv, [Next]_vars PROVE FreshInv'
  OBVIOUS
<1>1. ASSUME NEW c \in Clients, Install(c) PROVE FreshInv'
  BY <1>1 DEF IInv, Install, FreshInv, Admitted, Usable
<1>2. ASSUME NEW c \in Clients, InstallFailed(c) PROVE FreshInv'
  BY <1>2 DEF IInv, InstallFailed, MakesNode, FreshInv, Admitted, Usable
<1>3. ASSUME NEW c \in Clients, NEW s \in Slots, EnsureNode(c, s) PROVE FreshInv'
  BY <1>3 DEF IInv, EnsureNode, MakesNode, FreshInv
<1>4. CASE SyncFile
  BY <1>4 DEF IInv, SyncFile, FreshInv, CallsInv, NoFlush, Flushing, handleVars, histVars
<1>5. ASSUME NEW ok \in BOOLEAN, FlushEnd(ok) PROVE FreshInv'
  BY <1>5 DEF IInv, FlushEnd, FreshInv, CallsInv, NoFlush, Flushing
<1>6. CASE Create
  BY <1>6 DEF IInv, Create, FreshInv
<1>7. CASE CreateFailed
  BY <1>7 DEF IInv, CreateFailed, FreshInv, handleVars
<1>8. CASE Open
  BY <1>8 DEF IInv, Open, FreshInv, histVars
<1>9. CASE Started
  BY <1>9 DEF IInv, Started, FreshInv, CallsInv, Quiet
<1>10. CASE StartFailed
  BY <1>10 DEF IInv, StartFailed, FreshInv, CallsInv
<1>11. CASE Die
  BY <1>11 DEF IInv, Die, FreshInv, Forget
<1>12. ASSUME NEW n \in 0..MaxFrames, LosePower(n) PROVE FreshInv'
  BY <1>12 DEF IInv, LosePower, FreshInv, Forget
<1>13. CASE Waits \/ (\E t \in Threads : FlushNothing(t)) \/ (\E t \in Threads : FlushBegin(t)) \/
           SyncFileFails \/ FlushFailed \/ CloseBegin \/ CloseEnd \/ UNCHANGED vars
  <2>1. /\ UNCHANGED <<exists, ready, disk, published, stable, tail, segs, dirStable>>
        /\ handle' # "none" => handle # "none"
    BY <1>13, WaitsFrame DEF FlushNothing, FlushBegin, SyncFileFails, FlushFailed, CloseBegin,
       CloseEnd, vars, diskVars, handleVars, histVars
  <2> QED
    BY <2>1 DEF IInv, FreshInv
<1> QED
  BY <1>1, <1>2, <1>3, <1>4, <1>5, <1>6, <1>7, <1>8, <1>9, <1>10, <1>11, <1>12, <1>13, StepCases

\* The memory image stays the file.
LEMMA StepImage == IInv /\ [Next]_vars => ImageIsDisk'
<1> SUFFICES ASSUME IInv, [Next]_vars PROVE ImageIsDisk'
  OBVIOUS
<1>1. ASSUME NEW c \in Clients, Install(c) PROVE ImageIsDisk'
  BY <1>1, WriteFrameEffect DEF IInv, Install, ImageIsDisk, Admitted, Usable, diskVars, handleVars,
    threadVars, histVars
<1>2. ASSUME NEW c \in Clients, InstallFailed(c) PROVE ImageIsDisk'
  BY <1>2 DEF IInv, InstallFailed, MakesNode, ImageIsDisk, Admitted, Usable, PartWrite, diskVars, handleVars,
    threadVars, histVars
<1>3. ASSUME NEW c \in Clients, NEW s \in Slots, EnsureNode(c, s) PROVE ImageIsDisk'
  BY <1>3, WriteFrameEffect DEF IInv, EnsureNode, MakesNode, ImageIsDisk, Usable, diskVars, handleVars,
    threadVars, histVars
<1>4. CASE Create
  BY <1>4 DEF IInv, Create, FreshInv, ImageIsDisk
<1>5. CASE Started
  BY <1>5 DEF IInv, Started, ImageIsDisk, CallsInv
<1>6. CASE StartFailed
  BY <1>6 DEF IInv, StartFailed, ImageIsDisk, CallsInv
<1>7. CASE Die
  BY <1>7 DEF Die, Forget, ImageIsDisk
<1>8. ASSUME NEW n \in 0..MaxFrames, LosePower(n) PROVE ImageIsDisk'
  BY <1>8 DEF LosePower, Forget, ImageIsDisk
<1>9. CASE Waits \/ (\E t \in Threads : FlushNothing(t)) \/ (\E t \in Threads : FlushBegin(t)) \/
           SyncFile \/ SyncFileFails \/ (\E ok \in BOOLEAN : FlushEnd(ok)) \/ FlushFailed \/
           CreateFailed \/ Open \/ CloseBegin \/ CloseEnd \/ UNCHANGED vars
  BY <1>9, WaitsFrame DEF IInv, FlushNothing, FlushBegin, SyncFile, SyncFileFails, FlushEnd,
    FlushFailed, CreateFailed, Open, CloseBegin, CloseEnd, vars, ImageIsDisk, diskVars, handleVars,
    threadVars, histVars
<1> QED
  BY <1>1, <1>2, <1>3, <1>4, <1>5, <1>6, <1>7, <1>8, <1>9, StepCases

\* Segments stay in order.
LEMMA StepSegments == IInv /\ [Next]_vars => SegmentsInv'
<1> SUFFICES ASSUME IInv, [Next]_vars PROVE SegmentsInv'
  OBVIOUS
<1>1. ASSUME NEW c \in Clients, Install(c) PROVE SegmentsInv'
  <2>1. log = disk
    BY <1>1 DEF IInv, ImageIsDisk, Install, Admitted, Usable
  <2>2. /\ Len(disk') = Len(disk) + 1 /\ disk'[Len(disk) + 1].seg = segs' /\ segs' \in Nat /\ segs' >= segs
        /\ \A i \in 1..Len(disk) : disk'[i] = disk[i]
    BY <1>1, <2>1, WriteFrameEffect DEF IInv, Install, TypeOK, DiskTypes
  <2>3. \A i \in 1..Len(disk) : disk[i].seg \in Nat
    BY SegType DEF IInv
  <2>4. UNCHANGED <<stable, dirStable>>
    BY <1>1 DEF Install
  <2>5. \A i \in 1..Len(disk') : i \in 1..Len(disk) \/ i = Len(disk) + 1
    BY <2>2 DEF IInv, TypeOK, DiskTypes
  <2>6. \A i \in 1..Len(disk') : disk'[i].seg <= segs'
    BY <2>2, <2>3, <2>5 DEF IInv, SegmentsInv, TypeOK, DiskTypes
  <2>7. \A i, j \in 1..Len(disk') : i <= j => disk'[i].seg <= disk'[j].seg
    BY <2>2, <2>3, <2>5 DEF IInv, SegmentsInv, TypeOK, DiskTypes
  <2> QED
    BY <2>2, <2>4, <2>6, <2>7 DEF IInv, SegmentsInv, TypeOK, DiskTypes
<1>2. ASSUME NEW c \in Clients, InstallFailed(c) PROVE SegmentsInv'
  BY <1>2, PartWriteEffect, SegmentsGrow DEF IInv, InstallFailed, MakesNode, TypeOK, DiskTypes
<1>3. ASSUME NEW c \in Clients, NEW s \in Slots, EnsureNode(c, s) PROVE SegmentsInv'
  <2>1. log = disk
    BY <1>3 DEF IInv, ImageIsDisk, EnsureNode, MakesNode, Admitted, Usable
  <2>2. /\ Len(disk') = Len(disk) + 1 /\ disk'[Len(disk) + 1].seg = segs' /\ segs' \in Nat /\ segs' >= segs
        /\ \A i \in 1..Len(disk) : disk'[i] = disk[i]
    BY <1>3, <2>1, WriteFrameEffect DEF IInv, EnsureNode, MakesNode, TypeOK, DiskTypes
  <2>3. \A i \in 1..Len(disk) : disk[i].seg \in Nat
    BY SegType DEF IInv
  <2>4. UNCHANGED <<stable, dirStable>>
    BY <1>3 DEF EnsureNode, MakesNode
  <2>5. \A i \in 1..Len(disk') : i \in 1..Len(disk) \/ i = Len(disk) + 1
    BY <2>2 DEF IInv, TypeOK, DiskTypes
  <2>6. \A i \in 1..Len(disk') : disk'[i].seg <= segs'
    BY <2>2, <2>3, <2>5 DEF IInv, SegmentsInv, TypeOK, DiskTypes
  <2>7. \A i, j \in 1..Len(disk') : i <= j => disk'[i].seg <= disk'[j].seg
    BY <2>2, <2>3, <2>5 DEF IInv, SegmentsInv, TypeOK, DiskTypes
  <2> QED
    BY <2>2, <2>4, <2>6, <2>7 DEF IInv, SegmentsInv, TypeOK, DiskTypes
<1>4. CASE SyncFile
  BY <1>4 DEF IInv, SyncFile, SegmentsInv, TypeOK, DiskTypes, HandleTypes, handleVars
<1>5. ASSUME NEW ok \in BOOLEAN, FlushEnd(ok) PROVE SegmentsInv'
  BY <1>5 DEF IInv, FlushEnd, SegmentsInv, FlushInv, TypeOK, DiskTypes, ThreadTypes
<1>6. CASE Create
  BY <1>6 DEF IInv, Create, SegmentsInv, FreshInv
<1>7. CASE Die
  <2>1. segs' \in Nat /\ segs' >= segs /\ UNCHANGED <<disk, stable, dirStable>>
    BY <1>7, PartWriteEffect DEF IInv, Die, TypeOK, DiskTypes
  <2> QED
    BY <2>1, SegmentsGrow DEF IInv
<1>8. ASSUME NEW n \in 0..MaxFrames, LosePower(n) PROVE SegmentsInv'
  <2>1. \A i \in 1..Len(disk) : disk[i].seg \in Nat
    BY SegType DEF IInv
  <2>2. n \in 0..Len(disk) /\ segs' \in Nat /\ \A i \in 1..n : disk'[i] = disk[i] /\ n > 0 /\ disk[i].seg <= disk[n].seg
    BY <1>8, <2>1, LosePowerEffect DEF IInv, SegmentsInv, TypeOK, DiskTypes
  <2>3. \A i \in 1..n : i \in 1..Len(disk) /\ disk'[i].seg <= segs'
    BY <1>8, <2>1, <2>2, LosePowerEffect DEF IInv, TypeOK, DiskTypes
  <2>4. \A i, j \in 1..n : i <= j => disk'[i].seg <= disk'[j].seg
    BY <1>8, <2>2, <2>3, LosePowerEffect DEF IInv, SegmentsInv, TypeOK, DiskTypes
  <2> QED
    BY <1>8, <2>3, <2>4, LosePowerEffect DEF IInv, SegmentsInv, TypeOK, DiskTypes
<1>9. CASE Waits \/ (\E t \in Threads : FlushNothing(t)) \/ (\E t \in Threads : FlushBegin(t)) \/
           SyncFileFails \/ FlushFailed \/ CreateFailed \/ Open \/ Started \/ StartFailed \/
           CloseBegin \/ CloseEnd \/ UNCHANGED vars
  BY <1>9, WaitsFrame DEF IInv, FlushNothing, FlushBegin, SyncFileFails, FlushFailed, CreateFailed,
    Open, Started, StartFailed, CloseBegin, CloseEnd, vars, SegmentsInv, diskVars, handleVars,
    threadVars, histVars
<1> QED
  BY <1>1, <1>2, <1>3, <1>4, <1>5, <1>6, <1>7, <1>8, <1>9, StepCases

\* The running flush keeps what it secured.
LEMMA StepFlush == IInv /\ [Next]_vars => FlushInv'
<1> SUFFICES ASSUME IInv, [Next]_vars PROVE FlushInv'
  OBVIOUS
<1>1. ASSUME NEW c \in Clients, Install(c) PROVE FlushInv'
  <2>1. log = disk
    BY <1>1 DEF IInv, ImageIsDisk, Install, Admitted, Usable
  <2>2. /\ Len(disk') = Len(disk) + 1 /\ segs' \in Nat /\ segs' >= segs /\ log' = disk'
        /\ \A i \in 1..Len(disk) : disk'[i] = disk[i]
    BY <1>1, <2>1, WriteFrameEffect DEF IInv, Install, TypeOK, DiskTypes
  <2> QED
    BY <1>1, <2>2 DEF IInv, Install, FlushInv, TypeOK, DiskTypes, ThreadTypes
<1>2. ASSUME NEW c \in Clients, InstallFailed(c) PROVE FlushInv'
  BY <1>2, PartWriteEffect DEF IInv, InstallFailed, MakesNode, FlushInv, TypeOK, DiskTypes, ThreadTypes
<1>3. ASSUME NEW c \in Clients, NEW s \in Slots, EnsureNode(c, s) PROVE FlushInv'
  <2>1. log = disk
    BY <1>3 DEF IInv, ImageIsDisk, EnsureNode, MakesNode, Admitted, Usable
  <2>2. /\ Len(disk') = Len(disk) + 1 /\ segs' \in Nat /\ segs' >= segs /\ log' = disk'
        /\ \A i \in 1..Len(disk) : disk'[i] = disk[i]
    BY <1>3, <2>1, WriteFrameEffect DEF IInv, EnsureNode, MakesNode, TypeOK, DiskTypes
  <2> QED
    BY <1>3, <2>2 DEF IInv, EnsureNode, MakesNode, FlushInv, TypeOK, DiskTypes, ThreadTypes, threadVars
<1>4. ASSUME NEW t \in Threads, FlushBegin(t) PROVE FlushInv'
  <2>1. log = disk /\ committed <= Len(disk)
    BY <1>4 DEF IInv, FlushBegin, MayFlush, ImageIsDisk, CommitInv
  <2> QED
    BY <1>4, <2>1, SegType DEF IInv, FlushBegin, FlushInv, Flushing, SegmentsInv, TypeOK, DiskTypes, ThreadTypes, diskVars, handleVars
<1>5. CASE SyncFile
  BY <1>5, SegType DEF IInv, SyncFile, FlushInv, Flushing, TypeOK, DiskTypes, ThreadTypes,
    handleVars
<1>6. CASE SyncFileFails
  BY <1>6 DEF IInv, SyncFileFails, FlushInv, Flushing, diskVars, handleVars
<1>7. ASSUME NEW ok \in BOOLEAN, FlushEnd(ok) PROVE FlushInv'
  BY <1>7 DEF FlushEnd, FlushInv, NoFlush, Flushing
<1>8. CASE FlushFailed
  BY <1>8 DEF FlushFailed, FlushInv, NoFlush, Flushing
<1>9. CASE Create
  BY <1>9 DEF IInv, Create, FlushInv, CallsInv, NoFlush, Flushing
<1>10. CASE Open
  BY <1>10 DEF IInv, Open, FlushInv, CallsInv, NoFlush, Flushing
<1>11. CASE Die
  BY <1>11 DEF Die, Forget, FlushInv, NoFlush, Flushing
<1>12. ASSUME NEW n \in 0..MaxFrames, LosePower(n) PROVE FlushInv'
  BY <1>12 DEF LosePower, Forget, FlushInv, NoFlush, Flushing
<1>13. CASE Waits \/ (\E t \in Threads : FlushNothing(t)) \/ CreateFailed \/ Started \/ StartFailed
           \/ CloseBegin \/ CloseEnd \/ UNCHANGED vars
  BY <1>13, WaitsFrame DEF IInv, FlushNothing, CreateFailed, Started, StartFailed, CloseBegin,
    CloseEnd, vars, FlushInv, diskVars, handleVars, threadVars, histVars
<1> QED
  BY <1>1, <1>2, <1>3, <1>4, <1>5, <1>6, <1>7, <1>8, <1>9, <1>10, <1>11, <1>12, <1>13, StepCases

\* Committed frames are published, and synced files have synced entries.
LEMMA StepCommit == IInv /\ [Next]_vars => CommitInv'
<1> SUFFICES ASSUME IInv, [Next]_vars PROVE CommitInv'
  OBVIOUS
<1>1. ASSUME NEW c \in Clients, Install(c) PROVE CommitInv'
  <2>1. log = disk
    BY <1>1 DEF IInv, ImageIsDisk, Install, Admitted, Usable
  <2>2. /\ Len(disk') = Len(disk) + 1 /\ segs' \in Nat /\ segs' >= segs /\ log' = disk'
        /\ \A i \in 1..Len(disk) : disk'[i] = disk[i]
    BY <1>1, <2>1, WriteFrameEffect DEF IInv, Install, TypeOK, DiskTypes
  <2> QED
    BY <1>1, <2>2 DEF IInv, Install, CommitInv, Admitted, Usable, TypeOK, DiskTypes, HandleTypes, histVars
<1>2. ASSUME NEW c \in Clients, NEW s \in Slots, EnsureNode(c, s) PROVE CommitInv'
  <2>1. log = disk
    BY <1>2 DEF IInv, ImageIsDisk, EnsureNode, MakesNode, Admitted, Usable
  <2>2. /\ Len(disk') = Len(disk) + 1 /\ segs' \in Nat /\ segs' >= segs /\ log' = disk'
        /\ \A i \in 1..Len(disk) : disk'[i] = disk[i]
    BY <1>2, <2>1, WriteFrameEffect DEF IInv, EnsureNode, MakesNode, TypeOK, DiskTypes
  <2> QED
    BY <1>2, <2>2 DEF IInv, EnsureNode, MakesNode, CommitInv, Usable, TypeOK, DiskTypes, HandleTypes, histVars
<1>3. ASSUME NEW ok \in BOOLEAN, FlushEnd(ok) PROVE CommitInv'
  <2>1. handle # "none" /\ log = disk /\ fl.seq \in Nat /\ fl.seq <= Len(disk)
    BY <1>3 DEF IInv, FlushEnd, CallsInv, ImageIsDisk, FlushInv, NoFlush, Flushing, TypeOK, ThreadTypes
  <2>2. fl.seq <= Len(published')
    BY <1>3, <2>1 DEF IInv, FlushEnd, TypeOK, HandleTypes, HistoryTypes, ThreadTypes
  <2>3. fl.files <= dirStable'
    BY <1>3, <2>1 DEF IInv, FlushEnd, NeedsDirSync, CommitInv, TypeOK, DiskTypes, HandleTypes, ThreadTypes
  <2> QED
    BY <1>3, <2>1, <2>2, <2>3 DEF FlushEnd, CommitInv
<1>4. CASE Create
  BY <1>4 DEF IInv, Create, CommitInv, TypeOK, DiskTypes, HistoryTypes, histVars
<1>5. CASE Open
  BY <1>5 DEF IInv, Open, CommitInv, TypeOK, DiskTypes, HistoryTypes, histVars
<1>6. CASE Started
  BY <1>6 DEF IInv, Started, CallsInv, CommitInv, histVars
<1>7. CASE StartFailed
  BY <1>7 DEF IInv, StartFailed, CallsInv, CommitInv, histVars
<1>8. CASE Die
  BY <1>8 DEF Die, Forget, CommitInv
<1>9. ASSUME NEW n \in 0..MaxFrames, LosePower(n) PROVE CommitInv'
  BY <1>9 DEF LosePower, Forget, CommitInv
<1>10. CASE Waits \/ (\E c \in Clients : InstallFailed(c)) \/ (\E t \in Threads : FlushNothing(t))
           \/ (\E t \in Threads : FlushBegin(t)) \/ SyncFile \/ SyncFileFails \/ FlushFailed \/
           CreateFailed \/ CloseBegin \/ CloseEnd \/ UNCHANGED vars
  BY <1>10, WaitsFrame DEF IInv, InstallFailed, MakesNode, FlushNothing, FlushBegin, SyncFile, SyncFileFails,
    FlushFailed, CreateFailed, CloseBegin, CloseEnd, vars, CommitInv, diskVars, handleVars,
    threadVars, histVars
<1> QED
  BY <1>1, <1>2, <1>3, <1>4, <1>5, <1>6, <1>7, <1>8, <1>9, <1>10, StepCases

\* What readers were shown stays, on stable storage.
LEMMA StepPublished == IInv /\ [Next]_vars => PublishedInv'
<1> SUFFICES ASSUME IInv, [Next]_vars PROVE PublishedInv'
  OBVIOUS
<1>1. ASSUME NEW c \in Clients, Install(c) PROVE PublishedInv'
  <2>1. log = disk
    BY <1>1 DEF IInv, ImageIsDisk, Install, Admitted, Usable
  <2>2. /\ Len(disk') = Len(disk) + 1 /\ segs' \in Nat /\ segs' >= segs /\ log' = disk'
        /\ \A i \in 1..Len(disk) : disk'[i] = disk[i]
    BY <1>1, <2>1, WriteFrameEffect DEF IInv, Install, TypeOK, DiskTypes
  <2> QED
    BY <1>1, <2>2 DEF IInv, Install, PublishedInv, ReadsAreFinal, OnStorage, TypeOK, DiskTypes, HistoryTypes, histVars
<1>2. ASSUME NEW c \in Clients, NEW s \in Slots, EnsureNode(c, s) PROVE PublishedInv'
  <2>1. log = disk
    BY <1>2 DEF IInv, ImageIsDisk, EnsureNode, MakesNode, Admitted, Usable
  <2>2. /\ Len(disk') = Len(disk) + 1 /\ segs' \in Nat /\ segs' >= segs /\ log' = disk'
        /\ \A i \in 1..Len(disk) : disk'[i] = disk[i]
    BY <1>2, <2>1, WriteFrameEffect DEF IInv, EnsureNode, MakesNode, TypeOK, DiskTypes
  <2> QED
    BY <1>2, <2>2 DEF IInv, EnsureNode, MakesNode, PublishedInv, ReadsAreFinal, OnStorage, TypeOK, DiskTypes, HistoryTypes, histVars
<1>3. CASE SyncFile
  BY <1>3 DEF IInv, SyncFile, PublishedInv, ReadsAreFinal, OnStorage, TypeOK, DiskTypes,
    HistoryTypes, histVars
<1>4. ASSUME NEW ok \in BOOLEAN, FlushEnd(ok) PROVE PublishedInv'
  <2>1. handle # "none" /\ log = disk /\ fl.seq \in Nat /\ fl.seq <= Len(disk)
    BY <1>4 DEF IInv, FlushEnd, CallsInv, ImageIsDisk, FlushInv, NoFlush, Flushing, TypeOK, ThreadTypes
  <2>2. fl.files \in Nat /\ fl.files <= dirStable' /\ dirStable' \in Nat /\ dirStable <= dirStable'
    BY <1>4, <2>1 DEF IInv, FlushEnd, NeedsDirSync, CommitInv, TypeOK, DiskTypes, HandleTypes, ThreadTypes
  <2>3. \A i \in 1..fl.seq : i \in stable /\ disk[i].seg <= dirStable'
    <3> SUFFICES ASSUME NEW i \in 1..fl.seq PROVE i \in stable /\ disk[i].seg <= dirStable'
      OBVIOUS
    <3>1. i \in 1..Len(disk) /\ disk[i].seg \in Nat
      BY <2>1, SegType DEF IInv, TypeOK, DiskTypes
    <3>2. disk[i].seg <= fl.files /\ fl.files < fl.next
      BY <1>4 DEF IInv, FlushEnd, FlushInv, TypeOK, ThreadTypes
    <3>3. ~fl.failed
      BY <1>4 DEF FlushEnd
    <3>4. i \in stable
      BY <3>1, <3>2, <3>3, <1>4 DEF IInv, FlushEnd, FlushInv, TypeOK, ThreadTypes
    <3> QED
      BY <2>2, <3>1, <3>2, <3>4
  <2>4. CASE fl.seq > Len(published)
    <3>1. published' = SubSeq(disk, 1, fl.seq)
      BY <1>4, <2>1, <2>4 DEF FlushEnd
    <3>2. Len(published') = fl.seq /\ \A i \in 1..fl.seq : published'[i] = disk[i]
      BY <3>1, <2>1 DEF IInv, TypeOK, DiskTypes
    <3> QED
      BY <1>4, <3>2, <2>1, <2>3 DEF FlushEnd, PublishedInv, ReadsAreFinal, OnStorage
  <2>5. CASE ~(fl.seq > Len(published))
    <3>1. UNCHANGED <<published, disk, stable>>
      BY <1>4, <2>5 DEF FlushEnd
    <3>2. \A i \in 1..Len(published) : i \in 1..Len(disk) /\ disk[i].seg \in Nat
      BY SegType DEF IInv, PublishedInv, ReadsAreFinal, OnStorage, TypeOK, DiskTypes, HistoryTypes
    <3> QED
      BY <3>1, <3>2, <2>2 DEF IInv, PublishedInv, ReadsAreFinal, OnStorage, TypeOK, DiskTypes, HistoryTypes
  <2> QED
    BY <2>4, <2>5
<1>5. CASE Create
  BY <1>5 DEF IInv, Create, FreshInv, histVars, PublishedInv, ReadsAreFinal, OnStorage
<1>6. CASE Die
  BY <1>6 DEF IInv, Die, PublishedInv, ReadsAreFinal, OnStorage
<1>7. ASSUME NEW n \in 0..MaxFrames, LosePower(n) PROVE PublishedInv'
  <2>1. Len(published) \in Nat /\ Len(published) <= Len(disk)
    BY DEF IInv, PublishedInv, ReadsAreFinal, OnStorage, TypeOK, HistoryTypes
  <2>2. Len(published) <= n
    BY <1>7, <2>1, LosePowerEffect DEF IInv, PublishedInv, TypeOK, DiskTypes
  <2> QED
    BY <1>7, <2>1, <2>2, LosePowerEffect DEF IInv, PublishedInv, ReadsAreFinal, OnStorage
<1>8. CASE Waits \/ (\E c \in Clients : InstallFailed(c)) \/ (\E t \in Threads : FlushNothing(t)) \/
           (\E t \in Threads : FlushBegin(t)) \/ SyncFileFails \/ FlushFailed \/ CreateFailed \/
           Open \/ Started \/ StartFailed \/ CloseBegin \/ CloseEnd \/ UNCHANGED vars
  BY <1>8, WaitsFrame DEF IInv, InstallFailed, MakesNode, FlushNothing, FlushBegin, SyncFileFails, FlushFailed,
    CreateFailed, Open, Started, StartFailed, CloseBegin, CloseEnd, vars, PublishedInv,
    ReadsAreFinal, OnStorage, diskVars, handleVars, threadVars, histVars
<1> QED
  BY <1>1, <1>2, <1>3, <1>4, <1>5, <1>6, <1>7, <1>8, StepCases

\* Where Main is says what the handle is.
LEMMA StepCalls == IInv /\ [Next]_vars => CallsInv'
<1> SUFFICES ASSUME IInv, [Next]_vars PROVE CallsInv'
  OBVIOUS
<1>1. CASE Waits
  <2>1. UNCHANGED <<handle, fl>>
    BY <1>1, WaitsFrame DEF handleVars
  <2>2. ASSUME NEW c \in Clients, NEW x, pc' = [pc EXCEPT ![c] = x], handle = "open" \/ pc[c] # Quiet[c], pc[c] # "flush", x \notin {"started", "startfailed", "join", "close"}
        PROVE CallsInv'
    BY <2>1, <2>2, ThreadsDistinct DEF IInv, CallsInv, TypeOK, HandleTypes, ThreadTypes, Threads, Quiet
  <2>3. ASSUME NEW c \in Clients, NEW b \in Batches, NEW d \in BOOLEAN, CallAppend(c, b, d) PROVE CallsInv'
    BY <2>2, <2>3 DEF CallAppend
  <2>4. ASSUME NEW c \in Clients, Block(c) \/ Cancelled(c) \/ Refused(c) \/ Reject(c) PROVE CallsInv'
    BY <2>2, <2>4, ThreadsDistinct DEF Block, Cancelled, Refused, Reject, Admitted, Quiet, Threads
  <2>5. ASSUME NEW c \in Clients, Duplicate(c) PROVE CallsInv'
    BY <2>2, <2>5, ThreadsDistinct DEF Duplicate, Admitted, AfterAppend, Quiet, Threads
  <2>6. ASSUME NEW t \in Threads, FlushRefused(t) PROVE CallsInv'
    BY <2>1, <2>6, ThreadsDistinct DEF FlushRefused, AfterFlush, IInv, CallsInv, TypeOK, HandleTypes, ThreadTypes, Threads, Quiet
  <2>7. CASE TimerTick \/ TimerStops \/ CloseJoined
    BY <2>1, <2>7, ThreadsDistinct DEF TimerTick, TimerStops, CloseJoined, IInv, CallsInv, TypeOK, HandleTypes, ThreadTypes, Threads, Quiet
  <2> QED
    BY <1>1, <2>3, <2>4, <2>5, <2>6, <2>7 DEF Waits
<1>2. ASSUME NEW c \in Clients, Install(c) PROVE CallsInv'
  BY <1>2, ThreadsDistinct DEF IInv, Install, CallsInv, Admitted, Usable, AfterAppend, Quiet,
    Threads, ThreadTypes, TypeOK
<1>3. ASSUME NEW c \in Clients, InstallFailed(c) PROVE CallsInv'
  BY <1>3, ThreadsDistinct DEF IInv, InstallFailed, MakesNode, CallsInv, Admitted, Usable, Signalled, Quiet,
    Threads, ThreadTypes, TypeOK
<1>4. ASSUME NEW c \in Clients, NEW s \in Slots, EnsureNode(c, s) PROVE CallsInv'
  BY <1>4 DEF IInv, EnsureNode, MakesNode, CallsInv, threadVars
<1>5. ASSUME NEW t \in Threads, FlushNothing(t) PROVE CallsInv'
  BY <1>5, ThreadsDistinct DEF IInv, FlushNothing, CallsInv, AfterFlush, MayFlush, Quiet,
    handleVars, Threads, ThreadTypes, TypeOK
<1>6. ASSUME NEW t \in Threads, FlushBegin(t) PROVE CallsInv'
  BY <1>6, ThreadsDistinct DEF IInv, FlushBegin, CallsInv, MayFlush, Flushing, handleVars, Threads,
    ThreadTypes, TypeOK
<1>7. CASE SyncFile
  BY <1>7 DEF IInv, SyncFile, CallsInv, Flushing, NoFlush, handleVars, Threads, ThreadTypes, TypeOK
<1>8. CASE SyncFileFails
  BY <1>8 DEF IInv, SyncFileFails, CallsInv, Flushing, NoFlush, handleVars, Threads, ThreadTypes,
    TypeOK
<1>9. ASSUME NEW ok \in BOOLEAN, FlushEnd(ok) PROVE CallsInv'
  <2>1. pc' = [Signalled(pc) EXCEPT ![fl.owner] = AfterFlush(fl.owner, ok)] /\ fl' = NoFlush /\ handle' = handle
    BY <1>9 DEF FlushEnd
  <2>2. /\ fl.owner # Main => AfterFlush(fl.owner, ok) = "idle"
        /\ fl.owner = Main => AfterFlush(fl.owner, ok) \in IF handle = "closing" THEN {"close"} ELSE {"started", "startfailed"}
    BY DEF AfterFlush
  <2>3. fl.owner \in Threads
    BY <1>9 DEF IInv, FlushEnd, CallsInv
  <2> QED
    BY <2>3, <2>2, <2>1, ThreadsDistinct DEF IInv, CallsInv, Signalled, NoFlush, Flushing, Quiet, Threads, ThreadTypes, TypeOK
<1>10. CASE FlushFailed
  BY <1>10, ThreadsDistinct DEF IInv, FlushFailed, CallsInv, AfterFlush, Signalled, NoFlush,
    Flushing, Quiet, Threads, ThreadTypes, TypeOK
<1>11. CASE Create
  BY <1>11, ThreadsDistinct DEF IInv, Create, CallsInv, NoFlush, Flushing, Quiet, Threads,
    ThreadTypes, TypeOK
<1>12. CASE CreateFailed
  BY <1>12 DEF IInv, CreateFailed, CallsInv, handleVars, threadVars
<1>13. CASE Open
  BY <1>13, ThreadsDistinct DEF IInv, Open, CallsInv, NoFlush, Flushing, Quiet, Threads,
    ThreadTypes, TypeOK
<1>14. CASE Started
  BY <1>14, ThreadsDistinct DEF IInv, Started, CallsInv, Quiet, Threads, ThreadTypes, TypeOK
<1>15. CASE StartFailed
  BY <1>15, ThreadsDistinct DEF IInv, StartFailed, CallsInv, Quiet, Threads, ThreadTypes, TypeOK
<1>16. CASE CloseBegin
  BY <1>16, ThreadsDistinct DEF IInv, CloseBegin, CallsInv, Signalled, Quiet, Threads, ThreadTypes,
    TypeOK
<1>17. CASE CloseEnd
  BY <1>17, ThreadsDistinct DEF IInv, CloseEnd, CallsInv, Quiet, NoFlush, Flushing, Threads,
    ThreadTypes, TypeOK
<1>18. CASE Die
  BY <1>18, ThreadsDistinct DEF Die, Forget, CallsInv, Quiet, NoFlush, Flushing, Threads
<1>19. ASSUME NEW n \in 0..MaxFrames, LosePower(n) PROVE CallsInv'
  BY <1>19, ThreadsDistinct DEF LosePower, Forget, CallsInv, Quiet, NoFlush, Flushing, Threads
<1>20. CASE UNCHANGED vars
  BY <1>20 DEF IInv, vars, CallsInv, diskVars, handleVars, threadVars, histVars
<1> QED
  BY <1>1, <1>2, <1>3, <1>4, <1>5, <1>6, <1>7, <1>8, <1>9, <1>10, <1>11, <1>12, <1>13, <1>14, <1>15,
    <1>16, <1>17, <1>18, <1>19, <1>20, StepCases

\* A call that goes on to flush has its facts installed.
LEMMA StepBatch == IInv /\ [Next]_vars => BatchInv'
<1> SUFFICES ASSUME IInv, [Next]_vars PROVE BatchInv'
  OBVIOUS
<1>1. CASE Waits
  <2>1. UNCHANGED <<disk, fl>>
    BY <1>1, WaitsFrame DEF diskVars
  <2>2. ASSUME NEW t \in Threads, NEW x, x # "flush" \/ t \notin Clients, pc' = [pc EXCEPT ![t] = x], batch' = batch
        PROVE BatchInv'
    BY <2>1, <2>2, ThreadsDistinct DEF IInv, BatchInv, TypeOK, ThreadTypes, Threads
  <2>3. ASSUME NEW c \in Clients, NEW b \in Batches, NEW d \in BOOLEAN, CallAppend(c, b, d) PROVE BatchInv'
    BY <2>1, <2>3, ThreadsDistinct DEF IInv, BatchInv, TypeOK, ThreadTypes, Threads, CallAppend
  <2>4. ASSUME NEW c \in Clients, Block(c) \/ Cancelled(c) \/ Refused(c) \/ Reject(c) PROVE BatchInv'
    BY <2>2, <2>4 DEF Threads, Block, Cancelled, Refused, Reject
  <2>5. ASSUME NEW c \in Clients, Duplicate(c) PROVE BatchInv'
    <3>1. log = disk /\ fl.owner # c
      BY <2>5, ThreadsDistinct DEF IInv, Threads, Duplicate, Admitted, Usable, ImageIsDisk, CallsInv
    <3>2. \A f \in batch[c] : \E i \in 1..Len(disk) : f \in disk[i].facts
      BY <2>5, <3>1 DEF Duplicate, Installed
    <3> QED
      BY <2>1, <2>5, <3>1, <3>2, ThreadsDistinct DEF IInv, BatchInv, TypeOK, ThreadTypes, Threads, Duplicate
  <2>6. ASSUME NEW t \in Threads, FlushRefused(t) PROVE BatchInv'
    <3>1. AfterFlush(t, FALSE) # "flush"
      BY DEF AfterFlush
    <3> QED
      BY <2>2, <2>6, <3>1 DEF FlushRefused
  <2>7. CASE TimerTick \/ TimerStops \/ CloseJoined
    BY <2>2, <2>7, ThreadsDistinct DEF Threads, TimerTick, TimerStops, CloseJoined
  <2> QED
    BY <1>1, <2>3, <2>4, <2>5, <2>6, <2>7 DEF Waits
<1>2. ASSUME NEW c \in Clients, Install(c) PROVE BatchInv'
  <2>1. log = disk /\ fl.owner # c
    BY <1>2, ThreadsDistinct DEF IInv, Threads, ImageIsDisk, CallsInv, Install, Admitted, Usable
  <2>2. /\ Len(disk') = Len(disk) + 1
        /\ \A i \in 1..Len(disk) : disk'[i] = disk[i]
        /\ disk'[Len(disk) + 1].facts = batch[c] \ Installed
    BY <1>2, <2>1, WriteFrameEffect DEF IInv, Install
  <2>3. \A f \in batch[c] : \E i \in 1..Len(disk') : f \in disk'[i].facts
    <3> SUFFICES ASSUME NEW f \in batch[c] PROVE \E i \in 1..Len(disk') : f \in disk'[i].facts
      OBVIOUS
    <3>1. CASE f \in Installed
      <4>1. PICK i \in 1..Len(disk) : f \in disk[i].facts
        BY <2>1, <3>1 DEF Installed
      <4>2. i \in 1..Len(disk')
        BY <2>2 DEF IInv, TypeOK, DiskTypes
      <4> QED
        BY <4>1, <4>2, <2>2
    <3>2. CASE f \notin Installed
      <4>1. Len(disk) + 1 \in 1..Len(disk')
        BY <2>2 DEF IInv, TypeOK, DiskTypes
      <4> QED
        BY <4>1, <3>2, <2>2
    <3> QED
      BY <3>1, <3>2
  <2>4. \A d \in Clients \ {c} : pc'[d] = pc[d]
    BY <1>2 DEF IInv, Install, TypeOK, ThreadTypes, Threads
  <2>5. ASSUME NEW d \in Clients \ {c}, pc[d] = "flush", NEW f \in batch[d]
        PROVE \E i \in 1..Len(disk') : f \in disk'[i].facts /\ (fl.owner = d => i <= fl.seq)
    <3>1. PICK i \in 1..Len(disk) : f \in disk[i].facts /\ (fl.owner = d => i <= fl.seq)
      BY <2>5 DEF IInv, BatchInv
    <3>2. i \in 1..Len(disk')
      BY <2>2 DEF IInv, TypeOK, DiskTypes
    <3> QED
      BY <3>1, <3>2, <2>2
  <2>6. UNCHANGED <<batch, fl>>
    BY <1>2 DEF Install
  <2> QED
    BY <2>1, <2>3, <2>4, <2>5, <2>6 DEF BatchInv
<1>3. ASSUME NEW c \in Clients, InstallFailed(c) PROVE BatchInv'
  BY <1>3, ThreadsDistinct DEF IInv, InstallFailed, MakesNode, BatchInv, Admitted, Signalled, Threads,
    ThreadTypes, TypeOK
<1>4. ASSUME NEW c \in Clients, NEW s \in Slots, EnsureNode(c, s) PROVE BatchInv'
  <2>1. log = disk
    BY <1>4 DEF IInv, ImageIsDisk, EnsureNode, MakesNode, Admitted, Usable
  <2>2. /\ Len(disk') = Len(disk) + 1 /\ segs' \in Nat /\ segs' >= segs /\ log' = disk'
        /\ \A i \in 1..Len(disk) : disk'[i] = disk[i]
    BY <1>4, <2>1, WriteFrameEffect DEF IInv, EnsureNode, MakesNode, TypeOK, DiskTypes
  <2>3. UNCHANGED <<pc, batch, fl>>
    BY <1>4 DEF EnsureNode, MakesNode, threadVars
  <2>4. ASSUME NEW d \in Clients, pc[d] = "flush", NEW f \in batch[d]
        PROVE \E i \in 1..Len(disk') : f \in disk'[i].facts /\ (fl.owner = d => i <= fl.seq)
    <3>1. PICK i \in 1..Len(disk) : f \in disk[i].facts /\ (fl.owner = d => i <= fl.seq)
      BY <2>4 DEF IInv, BatchInv
    <3>2. i \in 1..Len(disk')
      BY <2>2 DEF IInv, TypeOK, DiskTypes
    <3> QED
      BY <3>1, <3>2, <2>2
  <2> QED
    BY <2>3, <2>4 DEF BatchInv
<1>5. ASSUME NEW t \in Threads, FlushNothing(t) PROVE BatchInv'
  BY <1>5, ThreadsDistinct DEF IInv, FlushNothing, BatchInv, AfterFlush, diskVars, Threads,
    ThreadTypes, TypeOK
<1>6. ASSUME NEW t \in Threads, FlushBegin(t) PROVE BatchInv'
  <2>1. log = disk
    BY <1>6 DEF IInv, FlushBegin, MayFlush, ImageIsDisk
  <2> QED
    BY <1>6, <2>1, ThreadsDistinct DEF IInv, FlushBegin, BatchInv, Flushing, diskVars, DiskTypes, Threads, ThreadTypes, TypeOK
<1>7. CASE SyncFile
  BY <1>7, ThreadsDistinct DEF IInv, SyncFile, BatchInv, Flushing
<1>8. CASE SyncFileFails
  BY <1>8, ThreadsDistinct DEF IInv, SyncFileFails, BatchInv, Flushing, diskVars
<1>9. ASSUME NEW ok \in BOOLEAN, FlushEnd(ok) PROVE BatchInv'
  <2>1. /\ pc' = [Signalled(pc) EXCEPT ![fl.owner] = AfterFlush(fl.owner, ok)]
        /\ fl' = NoFlush /\ UNCHANGED <<batch, disk>>
    BY <1>9 DEF FlushEnd
  <2>2. \A c \in Clients : pc'[c] = "flush" => pc[c] = "flush"
    BY <1>9, <2>1, ThreadsDistinct DEF IInv, FlushEnd, AfterFlush, Signalled, Threads, ThreadTypes, TypeOK
  <2> QED
    BY <2>1, <2>2, ThreadsDistinct DEF IInv, BatchInv, NoFlush, Flushing, Threads
<1>10. CASE FlushFailed
  <2>1. /\ pc' = [Signalled(pc) EXCEPT ![fl.owner] = AfterFlush(fl.owner, FALSE)]
        /\ fl' = NoFlush /\ UNCHANGED <<batch, disk>>
    BY <1>10 DEF FlushFailed, diskVars
  <2>2. \A c \in Clients : pc'[c] = "flush" => pc[c] = "flush"
    BY <1>10, <2>1, ThreadsDistinct DEF IInv, FlushFailed, AfterFlush, Signalled, Threads, ThreadTypes, TypeOK
  <2> QED
    BY <2>1, <2>2, ThreadsDistinct DEF IInv, BatchInv, NoFlush, Flushing, Threads
<1>11. CASE Create
  BY <1>11, ThreadsDistinct DEF IInv, Create, BatchInv, CallsInv, Quiet, Threads, ThreadTypes,
    TypeOK
<1>12. CASE Open
  BY <1>12, ThreadsDistinct DEF IInv, Open, BatchInv, CallsInv, Quiet, Threads, ThreadTypes, TypeOK
<1>13. CASE Started
  BY <1>13, ThreadsDistinct DEF IInv, Started, BatchInv, Threads, ThreadTypes, TypeOK
<1>14. CASE StartFailed
  BY <1>14, ThreadsDistinct DEF IInv, StartFailed, BatchInv, Threads, ThreadTypes, TypeOK
<1>15. CASE CloseBegin
  BY <1>15, ThreadsDistinct DEF IInv, CloseBegin, BatchInv, Signalled, diskVars, Threads,
    ThreadTypes, TypeOK
<1>16. CASE CloseEnd
  BY <1>16, ThreadsDistinct DEF IInv, CloseEnd, BatchInv, Quiet, Threads
<1>17. CASE Die
  BY <1>17, ThreadsDistinct DEF IInv, Die, BatchInv, Forget, Quiet, Threads
<1>18. ASSUME NEW n \in 0..MaxFrames, LosePower(n) PROVE BatchInv'
  BY <1>18, ThreadsDistinct DEF IInv, LosePower, BatchInv, Forget, Quiet, Threads
<1>19. CASE CreateFailed \/ UNCHANGED vars
  BY <1>19 DEF IInv, CreateFailed, vars, BatchInv, diskVars, handleVars, threadVars, histVars
<1> QED
  BY <1>1, <1>2, <1>3, <1>4, <1>5, <1>6, <1>7, <1>8, <1>9, <1>10, <1>11, <1>12, <1>13, <1>14, <1>15,
    <1>16, <1>17, <1>18, <1>19, StepCases

\* Acknowledged facts stay published.
LEMMA StepAcked == IInv /\ [Next]_vars => AcknowledgedIsPublished'
<1> SUFFICES ASSUME IInv, [Next]_vars PROVE AcknowledgedIsPublished'
  OBVIOUS
<1>1. ASSUME NEW t \in Threads, FlushNothing(t) PROVE AcknowledgedIsPublished'
  <2>1. log = disk /\ committed = Len(disk) /\ UNCHANGED published
    BY <1>1 DEF IInv, FlushNothing, MayFlush, ImageIsDisk
  <2>2. Len(published) = Len(disk) /\ \A i \in 1..Len(disk) : published[i] = disk[i]
    BY <1>1, <2>1 DEF IInv, FlushNothing, MayFlush, CommitInv, PublishedInv, ReadsAreFinal, TypeOK, DiskTypes, HistoryTypes
  <2>3. CASE t \in Clients
    <3>1. acked' = acked \cup batch[t]
      BY <1>1, <2>3 DEF FlushNothing, AckIf
    <3>2. \A f \in batch[t] : \E i \in 1..Len(published) : f \in published[i].facts
      BY <1>1, <2>2, <2>3 DEF IInv, FlushNothing, BatchInv
    <3> QED
      BY <2>1, <3>1, <3>2 DEF IInv, AcknowledgedIsPublished
  <2>4. CASE t \notin Clients
    BY <1>1, <2>1, <2>4 DEF IInv, FlushNothing, AckIf, AcknowledgedIsPublished
  <2> QED
    BY <2>3, <2>4
<1>2. ASSUME NEW ok \in BOOLEAN, FlushEnd(ok) PROVE AcknowledgedIsPublished'
  <2>1. handle # "none" /\ log = disk /\ fl.seq \in Nat /\ fl.seq <= Len(disk)
    BY <1>2 DEF IInv, FlushEnd, CallsInv, ImageIsDisk, FlushInv, NoFlush, Flushing, TypeOK, ThreadTypes
  <2>2. fl.seq <= Len(published') /\ Len(published) <= Len(published')
    BY <1>2, <2>1 DEF IInv, FlushEnd, TypeOK, HandleTypes, HistoryTypes, ThreadTypes
  <2>3. \A i \in 1..Len(published') : published'[i] = disk[i]
    BY <1>2, <2>1 DEF IInv, FlushEnd, PublishedInv, ReadsAreFinal, TypeOK, HandleTypes, HistoryTypes
  <2>4. \A i \in 1..Len(published) : i \in 1..Len(published') /\ published[i] = published'[i]
    BY <2>2, <2>3 DEF IInv, PublishedInv, ReadsAreFinal, TypeOK, HistoryTypes
  <2>5. Len(published') \in Nat
    BY <1>2, <2>1 DEF IInv, FlushEnd, TypeOK, HandleTypes, HistoryTypes
  <2>6. \A f \in acked : \E i \in 1..Len(published') : f \in published'[i].facts
    BY <2>4 DEF IInv, AcknowledgedIsPublished
  <2>7. ASSUME fl.owner \in Clients, NEW f \in batch[fl.owner]
        PROVE  \E i \in 1..Len(published') : f \in published'[i].facts
    <3>1. PICK i \in 1..Len(disk) : f \in disk[i].facts /\ i <= fl.seq
      BY <1>2, <2>7 DEF IInv, FlushEnd, BatchInv, CallsInv
    <3>2. i \in 1..Len(published')
      BY <3>1, <2>1, <2>2, <2>5 DEF IInv, TypeOK, DiskTypes
    <3> QED
      BY <3>1, <3>2, <2>3
  <2>8. acked' = acked \/ (fl.owner \in Clients /\ acked' = acked \cup batch[fl.owner])
    BY <1>2 DEF FlushEnd, AckIf
  <2> QED
    BY <2>6, <2>7, <2>8 DEF AcknowledgedIsPublished
<1>3. CASE Waits \/ (\E c \in Clients : Install(c)) \/ (\E c \in Clients : InstallFailed(c)) \/ (\E
           c \in Clients : \E s \in Slots : EnsureNode(c, s)) \/ (\E t \in Threads : FlushBegin(t))
           \/ SyncFile \/ SyncFileFails \/ FlushFailed \/ Create \/ CreateFailed \/ Open \/ Started
           \/ StartFailed \/ CloseBegin \/ CloseEnd \/ Die \/ (\E n \in 0..MaxFrames : LosePower(n))
           \/ UNCHANGED vars
  BY <1>3, WaitsFrame DEF IInv, Install, InstallFailed, EnsureNode, MakesNode, FlushBegin, SyncFile,
    SyncFileFails, FlushFailed, Create, CreateFailed, Open, Started, StartFailed, CloseBegin,
    CloseEnd, Die, LosePower, vars, AcknowledgedIsPublished, diskVars, handleVars, threadVars,
    histVars
<1> QED
  BY <1>1, <1>2, <1>3, StepCases

\* What the handle writes, the next Open accepts.
LEMMA StepAccepts == IInv /\ [Next]_vars => OpenAccepts'
<1> SUFFICES ASSUME IInv, [Next]_vars PROVE OpenAccepts'
  OBVIOUS
<1>1. ASSUME NEW c \in Clients, Install(c) PROVE OpenAccepts'
  <2>1. log = disk
    BY <1>1 DEF IInv, ImageIsDisk, Install, Admitted, Usable
  <2> DEFINE fresh == batch[c] \ Installed
  <2>2. WriteFrame(fresh) /\ fresh # {}
    BY <1>1 DEF Install
  <2>3. \A f \in fresh :
           /\ \A g \in Installed \cup (fresh \ {f}) :
                g.id # f.id /\ (HasUniqueKey(f) => UniqueKey(g) # UniqueKey(f))
           /\ f.kind # "node-created" => NodeFact(f.node) \in Installed
    BY <1>1 DEF Install, Valid
  <2> QED
    BY <2>1, <2>2, <2>3, WriteFrameReadable DEF IInv, OpenAccepts
<1>2. ASSUME NEW c \in Clients, NEW s \in Slots, EnsureNode(c, s) PROVE OpenAccepts'
  <2>1. log = disk
    BY <1>2 DEF IInv, ImageIsDisk, EnsureNode, MakesNode
  <2> DEFINE fresh == {NodeFact(s)}
  <2>2. WriteFrame(fresh) /\ fresh # {}
    BY <1>2 DEF EnsureNode, MakesNode
  <2>3. \A f \in fresh :
           /\ \A g \in Installed \cup (fresh \ {f}) :
                g.id # f.id /\ (HasUniqueKey(f) => UniqueKey(g) # UniqueKey(f))
           /\ f.kind # "node-created" => NodeFact(f.node) \in Installed
    BY <1>2 DEF EnsureNode, MakesNode, Valid
  <2> QED
    BY <2>1, <2>2, <2>3, WriteFrameReadable DEF IInv, OpenAccepts
<1>3. CASE SyncFile
  BY <1>3 DEF IInv, SyncFile, OpenAccepts
<1>4. CASE Create
  <2>1. Len(disk') = 1 /\ disk'[1].facts = {NodeFact(Root)}
    BY <1>4 DEF Create
  <2>2. NodeFact(Root).kind = "node-created"
    BY DEF NodeFact
  <2>3. \A i \in 1..1 : i = 1
    OBVIOUS
  <2> QED
    BY <2>1, <2>2, <2>3 DEF OpenAccepts, Readable
<1>5. CASE Die
  BY <1>5 DEF IInv, Die, OpenAccepts
<1>6. ASSUME NEW n \in 0..MaxFrames, LosePower(n) PROVE OpenAccepts'
  <2>1. /\ n \in 0..Len(disk) /\ Len(disk') = n /\ \A i \in 1..n : disk'[i] = disk[i]
    BY <1>6, LosePowerEffect DEF IInv
  <2>2. \A i \in 1..n : i \in 1..Len(disk) /\ \A j \in 1..i : disk'[j] = disk[j]
    BY <2>1 DEF IInv, TypeOK, DiskTypes
  <2> QED
    BY <2>1, <2>2 DEF IInv, OpenAccepts, Readable
<1>7. CASE Waits \/ (\E c \in Clients : InstallFailed(c)) \/ (\E t \in Threads : FlushNothing(t)) \/
           (\E t \in Threads : FlushBegin(t)) \/ SyncFileFails \/ (\E ok \in BOOLEAN : FlushEnd(ok))
           \/ FlushFailed \/ CreateFailed \/ Open \/ Started \/ StartFailed \/ CloseBegin \/
           CloseEnd \/ UNCHANGED vars
  BY <1>7, WaitsFrame DEF IInv, InstallFailed, MakesNode, FlushNothing, FlushBegin, SyncFileFails, FlushEnd,
    FlushFailed, CreateFailed, Open, Started, StartFailed, CloseBegin, CloseEnd, vars, OpenAccepts,
    diskVars, handleVars, threadVars, histVars
<1> QED
  BY <1>1, <1>2, <1>3, <1>4, <1>5, <1>6, <1>7, StepCases

\* The flush subtracts what it commits.
LEMMA StepBacklog == IInv /\ [Next]_vars => BacklogInv'
<1> SUFFICES ASSUME IInv, [Next]_vars PROVE BacklogInv'
  OBVIOUS
<1>1. CASE Waits
  <2>1. UNCHANGED <<disk, handle, committed, pending, fl>>
    BY <1>1, WaitsFrame DEF diskVars, handleVars
  <2>2. handle = "starting" => /\ pc'[Main] = "flush" => pc[Main] = "flush"
                               /\ pc'[Main] = "started" => pc[Main] = "started"
    BY <1>1, ThreadsDistinct DEF IInv, CallsInv, TypeOK, ThreadTypes, Threads, Waits, CallAppend, Block, Cancelled,
          Refused, Reject, Duplicate, FlushRefused, AfterFlush, TimerTick, TimerStops, CloseJoined
  <2> QED
    BY <2>1, <2>2 DEF IInv, BacklogInv
<1>2. ASSUME NEW c \in Clients, Install(c) PROVE BacklogInv'
  <2>1. log = disk /\ handle = "open"
    BY <1>2, ThreadsDistinct DEF IInv, ImageIsDisk, CallsInv, Quiet, Threads, Install, Admitted, Usable
  <2>2. Len(disk') = Len(disk) + 1 /\ pending' = pending + 1
    BY <1>2, <2>1, WriteFrameEffect DEF IInv, Install
  <2>3. UNCHANGED <<fl, committed, handle>>
    BY <1>2 DEF Install
  <2> QED
    BY <2>1, <2>2, <2>3 DEF IInv, BacklogInv, TypeOK, DiskTypes, HandleTypes, ThreadTypes
<1>3. ASSUME NEW c \in Clients, InstallFailed(c) PROVE BacklogInv'
  <2>1. handle = "open" /\ UNCHANGED <<disk, pending, fl, committed, handle>>
    BY <1>3, ThreadsDistinct DEF IInv, CallsInv, Quiet, Threads, InstallFailed, MakesNode, Admitted, Usable
  <2> QED
    BY <2>1 DEF IInv, BacklogInv
<1>4. ASSUME NEW c \in Clients, NEW s \in Slots, EnsureNode(c, s) PROVE BacklogInv'
  <2>1. log = disk /\ handle = "open"
    BY <1>4 DEF IInv, ImageIsDisk, EnsureNode, MakesNode
  <2>2. Len(disk') = Len(disk) + 1 /\ pending' = pending + 1
    BY <1>4, <2>1, WriteFrameEffect DEF IInv, EnsureNode, MakesNode
  <2>3. UNCHANGED <<fl, committed, handle>>
    BY <1>4 DEF EnsureNode, MakesNode, threadVars
  <2> QED
    BY <2>1, <2>2, <2>3 DEF IInv, BacklogInv, TypeOK, DiskTypes, HandleTypes, ThreadTypes
<1>5. ASSUME NEW t \in Threads, FlushNothing(t) PROVE BacklogInv'
  <2>1. log = disk /\ committed = Len(disk) /\ UNCHANGED <<disk, pending, fl, committed, handle>>
    BY <1>5 DEF IInv, FlushNothing, MayFlush, ImageIsDisk, diskVars, handleVars
  <2>2. handle = "starting" => t = Main /\ pc[Main] = "flush" /\ fl.owner = Nobody /\ pc'[Main] = "started"
    BY <1>5, ThreadsDistinct DEF IInv, FlushNothing, CallsInv, Quiet, Threads, AfterFlush, TypeOK, ThreadTypes
  <2> QED
    BY <2>1, <2>2 DEF IInv, BacklogInv
<1>6. ASSUME NEW t \in Threads, FlushBegin(t) PROVE BacklogInv'
  <2>1. log = disk /\ UNCHANGED <<pc, disk, pending, committed, handle>>
    BY <1>6 DEF IInv, FlushBegin, MayFlush, ImageIsDisk, diskVars, handleVars
  <2>2. fl'.seq = Len(disk) /\ fl'.bytes = pending
    BY <1>6, <2>1 DEF FlushBegin, Flushing
  <2> QED
    BY <2>1, <2>2 DEF IInv, BacklogInv, TypeOK, DiskTypes, HandleTypes, ThreadTypes
<1>7. CASE SyncFile
  BY <1>7 DEF IInv, SyncFile, BacklogInv, Flushing, handleVars
<1>8. CASE SyncFileFails
  BY <1>8 DEF IInv, SyncFileFails, BacklogInv, Flushing, diskVars, handleVars
<1>9. ASSUME NEW ok \in BOOLEAN, FlushEnd(ok) PROVE BacklogInv'
  <2>1. /\ committed' = fl.seq /\ pending' = pending - fl.bytes /\ fl'.owner = Nobody /\ fl.owner # Nobody
        /\ UNCHANGED <<disk, handle>>
    BY <1>9 DEF FlushEnd, NoFlush, Flushing
  <2>2. handle = "starting" => pc'[Main] # "flush"
    BY <1>9, ThreadsDistinct DEF IInv, FlushEnd, CallsInv, Quiet, Threads, AfterFlush, Signalled, TypeOK, ThreadTypes
  <2> QED
    BY <2>1, <2>2 DEF IInv, BacklogInv, TypeOK, DiskTypes, HandleTypes, ThreadTypes
<1>10. CASE FlushFailed
  <2>1. fl'.owner = Nobody /\ UNCHANGED <<disk, handle, committed, pending>>
    BY <1>10 DEF FlushFailed, NoFlush, Flushing, diskVars
  <2>2. handle = "starting" => pc'[Main] \notin {"flush", "started"}
    BY <1>10, ThreadsDistinct DEF IInv, FlushFailed, CallsInv, Quiet, Threads, AfterFlush, Signalled, TypeOK, ThreadTypes
  <2> QED
    BY <2>1, <2>2 DEF IInv, BacklogInv
<1>11. CASE Create
  BY <1>11, ThreadsDistinct DEF IInv, Create, BacklogInv, CallsInv, Threads, TypeOK, ThreadTypes
<1>12. CASE Open
  BY <1>12, ThreadsDistinct DEF IInv, Open, BacklogInv, CallsInv, Threads, TypeOK, ThreadTypes
<1>13. CASE Started
  BY <1>13, ThreadsDistinct DEF IInv, Started, BacklogInv, CallsInv, Quiet, Threads, ThreadTypes,
    TypeOK, DiskTypes
<1>14. CASE StartFailed
  BY <1>14 DEF IInv, StartFailed, BacklogInv
<1>15. CASE CloseBegin
  BY <1>15 DEF IInv, CloseBegin, BacklogInv
<1>16. CASE CloseEnd
  BY <1>16 DEF CloseEnd, BacklogInv
<1>17. CASE Die
  BY <1>17 DEF Die, Forget, BacklogInv, NoFlush, Flushing
<1>18. ASSUME NEW n \in 0..MaxFrames, LosePower(n) PROVE BacklogInv'
  BY <1>18 DEF LosePower, Forget, BacklogInv, NoFlush, Flushing
<1>19. CASE CreateFailed \/ UNCHANGED vars
  BY <1>19 DEF IInv, CreateFailed, vars, BacklogInv, diskVars, handleVars, threadVars, histVars
<1> QED
  BY <1>1, <1>2, <1>3, <1>4, <1>5, <1>6, <1>7, <1>8, <1>9, <1>10, <1>11, <1>12, <1>13, <1>14, <1>15,
    <1>16, <1>17, <1>18, <1>19, StepCases

-----------------------------------------------------------------------------
(* The theorems *)

\* The store starts with nothing.
LEMMA InitIInv == Init => IInv
<1> SUFFICES ASSUME Init PROVE IInv
  OBVIOUS
<1> USE DEF Init
<1>1. Flags
  BY DEF Flags
<1>2. DiskTypes /\ HandleTypes /\ HistoryTypes
  BY DEF DiskTypes, HandleTypes, HistoryTypes
<1>3. ThreadTypes
  BY DEF ThreadTypes, Quiet, NoFlush, Flushing
<1>4. FreshInv /\ ImageIsDisk /\ SegmentsInv /\ CommitInv
  BY DEF FreshInv, ImageIsDisk, SegmentsInv, CommitInv
<1>5. CallsInv /\ FlushInv /\ BacklogInv
  BY ThreadsDistinct DEF CallsInv, FlushInv, BacklogInv, NoFlush, Flushing, Quiet, Threads
<1>6. PublishedInv /\ AcknowledgedIsPublished /\ OpenAccepts
  BY DEF PublishedInv, ReadsAreFinal, OnStorage, AcknowledgedIsPublished, OpenAccepts, Readable
<1>7. BatchInv
  BY ThreadsDistinct DEF BatchInv, Quiet, Threads
<1> QED
  BY <1>1, <1>2, <1>3, <1>4, <1>5, <1>6, <1>7 DEF IInv, TypeOK

\* Every reachable state satisfies the inductive invariant.
THEOREM Invariance == Spec => []IInv
<1>1. IInv /\ [Next]_vars => IInv'
  BY StepType, StepFresh, StepCalls, StepImage, StepSegments, StepFlush, StepCommit, StepPublished,
     StepBatch, StepAcked, StepBacklog, StepAccepts DEF IInv
<1> QED
  BY InitIInv, <1>1, PTL DEF Spec

\* Type correctness of the store.
THEOREM Typing == Spec => []TypeOK
<1>1. IInv => TypeOK
  BY DEF IInv
<1> QED
  BY Invariance, <1>1, PTL

\* A frame the handle calls committed is on stable storage together with its
\* segment's directory entry, whatever was appended while flush ran unlocked.
THEOREM CommittedFramesAreStable == Spec => []CommittedIsStable
<1>1. IInv => CommittedIsStable
  BY DEF IInv, CommitInv, PublishedInv, OnStorage, CommittedIsStable, TypeOK, HandleTypes, HistoryTypes
<1> QED
  BY Invariance, <1>1, PTL

\* What Read returned stays the beginning of the run through every failed
\* write, death and power loss.
THEOREM ReadsStay == Spec => []ReadsAreFinal
<1>1. IInv => ReadsAreFinal
  BY DEF IInv, PublishedInv
<1> QED
  BY Invariance, <1>1, PTL

\* A committed Append that returned without an error is never lost.
THEOREM AcknowledgedFactsStay == Spec => []AcknowledgedIsPublished
<1>1. IInv => AcknowledgedIsPublished
  BY DEF IInv
<1> QED
  BY Invariance, <1>1, PTL

\* The checks of appendLocked are strong enough for the checks of Open.
THEOREM OpenAcceptsWhatAppendWrote == Spec => []OpenAccepts
<1>1. IInv => OpenAccepts
  BY DEF IInv
<1> QED
  BY Invariance, <1>1, PTL

\* Append validates against what is in the file.
THEOREM MemoryImageIsDisk == Spec => []ImageIsDisk
<1>1. IInv => ImageIsDisk
  BY DEF IInv
<1> QED
  BY Invariance, <1>1, PTL

\* pendingBytes never drifts from what a flush still has to commit.
THEOREM BacklogStaysExact == Spec => []BacklogIsExact
<1>1. IInv => BacklogIsExact
  BY DEF IInv, BacklogInv, BacklogIsExact, ImageIsDisk
<1> QED
  BY Invariance, <1>1, PTL

\* What readers have been shown has one fact per record ID and unique key.
LEMMA PublishedKeys == IInv => Contract!OneFactPerKey(published)
<1> SUFFICES ASSUME IInv, NEW f \in Contract!Facts(published), NEW g \in Contract!Facts(published), f # g
             PROVE f.id # g.id /\ ~(Contract!Limited(f) /\ f.kind = g.kind /\ f.node = g.node)
  BY DEF Contract!OneFactPerKey
<1>1. PICK i \in 1..Len(published) : f \in published[i].facts
  BY DEF Contract!Facts
<1>2. PICK j \in 1..Len(published) : g \in published[j].facts
  BY DEF Contract!Facts
<1>3. /\ i \in 1..Len(disk) /\ f \in disk[i].facts
      /\ j \in 1..Len(disk) /\ g \in disk[j].facts
  BY <1>1, <1>2 DEF IInv, PublishedInv, ReadsAreFinal, TypeOK, DiskTypes, HistoryTypes
<1>4. CASE j <= i
  BY <1>3, <1>4 DEF IInv, OpenAccepts, Readable, Contract!Limited, HasUniqueKey, UniqueKey
<1>5. CASE i <= j
  BY <1>3, <1>5 DEF IInv, OpenAccepts, Readable, Contract!Limited, HasUniqueKey, UniqueKey
<1> QED
  BY <1>3, <1>4, <1>5

\* The store implements the contract of Journal: what readers were shown only
\* grows, keys stay unique, and acknowledged facts are in it.
THEOREM StoreImplementsJournal == Spec => ImplementsJournal
<1>1. Init => Contract!Init
  BY DEF Init, Contract!Init
<1>2. IInv /\ IInv' /\ [Next]_vars => [Contract!Publish]_<<published, acked>>
  <2> SUFFICES ASSUME IInv, IInv', [Next]_vars, ~UNCHANGED <<published, acked>>
               PROVE  Contract!Publish
    OBVIOUS
  <2>1. Contract!OneFactPerKey(published)'
    BY PublishedKeys, PTL
  <2>2. acked' \subseteq Contract!Facts(published')
    BY DEF IInv, AcknowledgedIsPublished, Contract!Facts
  <2>3. Contract!Extends(published', published) /\ acked \subseteq acked'
    <3>1. ASSUME NEW t \in Threads, FlushNothing(t) PROVE <2>3
      BY <3>1 DEF FlushNothing, AckIf, Contract!Extends, IInv, TypeOK, HistoryTypes
    <3>2. ASSUME NEW ok \in BOOLEAN, FlushEnd(ok) PROVE <2>3
      <4>1. handle # "none" /\ log = disk /\ fl.seq \in Nat
        BY <3>2 DEF IInv, FlushEnd, CallsInv, ImageIsDisk, NoFlush, Flushing, TypeOK, ThreadTypes
      <4>2. Contract!Extends(published', published)
        BY <3>2, <4>1 DEF FlushEnd, Contract!Extends, IInv, PublishedInv, ReadsAreFinal, FlushInv, TypeOK, DiskTypes, HistoryTypes
      <4>3. acked \subseteq acked'
        BY <3>2 DEF FlushEnd, AckIf
      <4> QED
        BY <4>2, <4>3
    <3>3. CASE Waits
      BY <3>3, WaitsFrame DEF histVars
    <3>4. CASE ~Waits /\ ~(\E t \in Threads : FlushNothing(t)) /\ ~(\E ok \in BOOLEAN : FlushEnd(ok))
      BY <3>4, StepCases DEF Install, InstallFailed, EnsureNode, MakesNode, FlushBegin, SyncFile, SyncFileFails, FlushFailed,
          Create, CreateFailed, Open, Started, StartFailed, CloseBegin, CloseEnd, Die, LosePower, vars, histVars
    <3> QED
      BY <3>1, <3>2, <3>3, <3>4
  <2> QED
    BY <2>1, <2>2, <2>3 DEF Contract!Publish
<1> QED
  BY <1>1, <1>2, Invariance, PTL DEF Spec, ImplementsJournal, Contract!Spec
=============================================================================
