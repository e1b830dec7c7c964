------------------------------ MODULE RunStore ------------------------------
(***************************************************************************)
(* The directory run store (runstore/directory/directory.go): the journal  *)
(* every recorded workflow run is rebuilt from.  A run is a list of frames *)
(* in numbered segment files; one Append writes one frame.  A frame counts *)
(* as committed only after fsync, and a reader sees only committed frames. *)
(*                                                                         *)
(* Abstractions.  A frame is the SET of facts one batch adds, so a fact    *)
(* repeated in its batch is one element; the order inside a frame, the     *)
(* length, the checksum and the JSON are left out, and what follows the    *)
(* complete frames on disk is one of three tails.  A node is named by its  *)
(* slot: the slots map gives every slot one node ID.  Sizes and sequence   *)
(* numbers count frames, because every snapshot of len(r.records) the code *)
(* takes falls between two frames.  Power is only lost once the run exists *)
(* for its caller, after Create renamed the ready marker into place.       *)
(***************************************************************************)
EXTENDS Integers, Sequences, FiniteSets

CONSTANTS
  Clients,       \* goroutines of the workflow that call Append and EnsureNode
  Main,          \* the goroutine that calls Create, Open and Close
  Timer,         \* the goroutine of startTimer, which flushes every 250ms
  Nobody,        \* no goroutine: flushMu is free
  Root,          \* the slot of the run's root node
  Slots,         \* the slots EnsureNode may be asked for
  Batches,       \* the batches of facts Append may be given
  UniqueKinds,   \* the kinds uniqueKey limits to one fact per node
  PendingLimit,  \* pendingLimit
  SegmentLimit,  \* segmentSize
  MaxFrames,     \* bound: frames a behaviour may write
  MaxStops       \* bound: process deaths and power losses in a behaviour

Threads == Clients \cup {Main, Timer}

\* The node-created fact EnsureNode appends for a slot.
NodeFact(s) == [id |-> <<s, "node-created">>, node |-> s, kind |-> "node-created"]

ASSUME ThreadsDistinct ==
  /\ Main \notin Clients /\ Timer \notin Clients /\ Main # Timer
  /\ Nobody \notin Threads
ASSUME BoundsAreNat ==
  PendingLimit \in Nat \ {0} /\ SegmentLimit \in Nat \ {0} /\ MaxFrames \in Nat /\ MaxStops \in Nat
ASSUME BatchesAreFacts ==
  \A b \in Batches : b # {} /\ \A f \in b : f.kind # "node-created" /\ \A s \in Slots \cup {Root} : f.id # NodeFact(s).id

VARIABLES
  \* what outlives the process
  exists,      \* the run's directory was made
  ready,       \* the ready marker was renamed into place
  disk,        \* the complete frames, in order: [seg, facts]
  tail,        \* after them: nothing ("clean"), part of a frame ("torn"), garbage ("bad")
  segs,        \* the segment files, len(r.segments) for the open handle
  stable,      \* the indexes of the frames fsync reported on stable storage
  dirStable,   \* segment files whose directory entries are on stable storage
  \* the handle
  handle,      \* "none" (also once it is closed), "starting", "open" or "closing"
  log,         \* r.records: the frames installed in memory
  committed,   \* r.committed
  pending,     \* r.pendingBytes
  poison,      \* r.poison # nil
  synced,      \* r.syncedSegments
  \* the goroutines
  pc, batch, durable,
  fl,          \* the flush that holds flushMu
  \* history and bounds
  published,   \* the longest run of frames a Read could have returned so far
  acked,       \* facts whose Append(Committed) returned without an error
  stops

diskVars   == <<exists, ready, disk, tail, segs, stable, dirStable>>
handleVars == <<handle, log, committed, pending, poison, synced>>
threadVars == <<pc, batch, durable, fl>>
histVars   == <<published, acked, stops>>
vars       == <<diskVars, handleVars, threadVars, histVars>>

Flushing(t, seq, files, bytes, next, failed) ==
  [owner |-> t, seq |-> seq, files |-> files, bytes |-> bytes, next |-> next, failed |-> failed]
NoFlush == Flushing(Nobody, 0, 0, 0, 0, FALSE)

Installed == UNION {log[i].facts : i \in 1..Len(log)}

UniqueKey(f) == <<f.node, f.kind>>

HasUniqueKey(f) == f.kind \in UniqueKinds \cup {"node-created"}

\* check: the handle refuses work once it is closing, closed or poisoned.
Usable == handle \in {"starting", "open"} /\ ~poison

\* validate, over a whole batch before any byte is written: an installed fact
\* is accepted again only when it is the same fact; a new one needs its node
\* and an unused unique key.
Valid(b) ==
  \A f \in b \ Installed :
    /\ \A g \in Installed \cup (b \ {f}) :
         /\ g.id # f.id
         /\ HasUniqueKey(f) => UniqueKey(g) # UniqueKey(f)
    /\ f.kind # "node-created" => NodeFact(f.node) \in Installed

\* The segment a new frame goes to: the last one, or a new one when it is full.
FramesIn(s) == Cardinality({i \in 1..Len(disk) : disk[i].seg = s})
NextSegment == IF segs = 0 \/ FramesIn(segs) >= SegmentLimit THEN segs + 1 ELSE segs

\* Mutant of Signalled: the progress channel is replaced but never closed.
SignalLost(p) == p

\* signal: closing the progress channel releases every waiting appender.
Signalled(p) == [t \in Threads |-> IF p[t] = "wait" THEN "append" ELSE p[t]]

-----------------------------------------------------------------------------
(* appendLocked *)

\* The frame is written and installed.
WriteFrame(fresh) ==
  LET frame == [seg |-> NextSegment, facts |-> fresh]
  IN  /\ disk' = Append(disk, frame)
      /\ log' = Append(log, frame)
      /\ segs' = NextSegment
      /\ pending' = pending + 1

\* A write that does not complete: nothing, a new segment file or part of the
\* frame is left behind.
PartWrite ==
  \/ UNCHANGED <<tail, segs>>
  \/ segs' = NextSegment /\ tail' \in {"clean", "torn"}

-----------------------------------------------------------------------------
(* Create and Open *)

Create ==
  /\ ~exists /\ handle = "none"
  /\ exists' = TRUE
  /\ disk' = <<[seg |-> 1, facts |-> {NodeFact(Root)}]>>
  /\ log' = disk'
  /\ segs' = 1 /\ committed' = 0 /\ pending' = 1 /\ poison' = FALSE /\ synced' = 0
  /\ handle' = "starting"
  /\ pc' = [pc EXCEPT ![Main] = "flush"]
  /\ UNCHANGED <<ready, tail, stable, dirStable, batch, durable, fl, histVars>>

\* Create fails once the run directory is made: the run ID is used up.
CreateFailed ==
  /\ ~exists /\ handle = "none"
  /\ exists' = TRUE
  /\ UNCHANGED <<ready, disk, tail, segs, stable, dirStable, handleVars, threadVars, histVars>>

\* What Open demands of the frames it scans: none is empty, no record ID or
\* unique key comes twice and every fact's node was created before it.
Readable(d) ==
  \A i \in 1..Len(d) :
    /\ d[i].facts # {}
    /\ \A f \in d[i].facts :
         /\ \A j \in 1..i : \A g \in d[j].facts :
              \/ j = i /\ g = f
              \/ g.id # f.id /\ (HasUniqueKey(f) => UniqueKey(g) # UniqueKey(f))
         /\ f.kind # "node-created" => \E j \in 1..i : NodeFact(f.node) \in d[j].facts

\* Mutant of Open: the partly written frame stays.
OpenKeepsTail ==
  /\ ready /\ handle = "none" /\ tail # "bad" /\ Readable(disk)
  /\ log' = disk
  /\ committed' = 0 /\ pending' = 0 /\ poison' = FALSE /\ synced' = 0
  /\ handle' = "starting"
  /\ pc' = [pc EXCEPT ![Main] = "flush"]
  /\ UNCHANGED <<diskVars, batch, durable, fl, histVars>>

\* Open scans the segments, truncates a partly written last frame, and syncs
\* every complete frame it found before the handle is returned.
Open ==
  /\ ready /\ handle = "none" /\ tail # "bad" /\ Readable(disk)
  /\ tail' = "clean"
  /\ log' = disk
  /\ committed' = 0 /\ pending' = 0 /\ poison' = FALSE /\ synced' = 0
  /\ handle' = "starting"
  /\ pc' = [pc EXCEPT ![Main] = "flush"]
  /\ UNCHANGED <<exists, ready, disk, segs, stable, dirStable, batch, durable, fl, histVars>>

\* The opening flush succeeded: Create also renames the marker into place.
Started ==
  /\ pc[Main] = "started"
  /\ ready' = TRUE
  /\ handle' = "open"
  /\ pc' = [pc EXCEPT ![Main] = "idle", ![Timer] = "idle"]
  /\ UNCHANGED <<exists, disk, tail, segs, stable, dirStable, log, committed, pending, poison,
                 synced, batch, durable, fl, histVars>>

\* The opening flush failed, or Create failed to place the marker (or only to
\* sync the directory after placing it): the deferred Close runs.
StartFailed ==
  /\ \/ pc[Main] = "startfailed" /\ UNCHANGED ready
     \/ pc[Main] = "started" /\ ~ready /\ ready' \in BOOLEAN
  /\ handle' = "closing"
  /\ pc' = [pc EXCEPT ![Main] = "join"]
  /\ UNCHANGED <<exists, disk, tail, segs, stable, dirStable, log, committed, pending, poison,
                 synced, batch, durable, fl, histVars>>

-----------------------------------------------------------------------------
(* Append and EnsureNode *)

\* The bound on the frames a behaviour writes, counting those still to come.
Room == Len(disk) + Cardinality({c \in Clients : pc[c] \in {"append", "wait"}}) < MaxFrames

\* A goroutine calls Append with a batch and a durability.  (On a handle that
\* is closing the call only returns ErrClosed.)
CallAppend(c, b, d) ==
  /\ pc[c] = "idle" /\ handle = "open" /\ Room
  /\ pc' = [pc EXCEPT ![c] = "append"]
  /\ batch' = [batch EXCEPT ![c] = b]
  /\ durable' = [durable EXCEPT ![c] = d]
  /\ UNCHANGED <<diskVars, handleVars, fl, histVars>>

\* The backlog is full: wait for progress.
Block(c) ==
  /\ pc[c] = "append" /\ Usable /\ pending >= PendingLimit
  /\ pc' = [pc EXCEPT ![c] = "wait"]
  /\ UNCHANGED <<diskVars, handleVars, batch, durable, fl, histVars>>

\* The ctx of an Append ends.
Cancelled(c) ==
  /\ pc[c] \in {"append", "wait"}
  /\ pc' = [pc EXCEPT ![c] = "idle"]
  /\ UNCHANGED <<diskVars, handleVars, batch, durable, fl, histVars>>

\* check refuses it.
Refused(c) ==
  /\ pc[c] = "append" /\ ~Usable
  /\ pc' = [pc EXCEPT ![c] = "idle"]
  /\ UNCHANGED <<diskVars, handleVars, batch, durable, fl, histVars>>

Admitted(c) == pc[c] = "append" /\ Usable /\ pending < PendingLimit

\* The batch is rejected whole: ErrConflict or an invalid fact.
Reject(c) ==
  /\ Admitted(c) /\ ~Valid(batch[c])
  /\ pc' = [pc EXCEPT ![c] = "idle"]
  /\ UNCHANGED <<diskVars, handleVars, batch, durable, fl, histVars>>

\* A Committed append goes on to Flush.
AfterAppend(c) == IF durable[c] THEN "flush" ELSE "idle"

\* Nothing in the batch is new: nothing is written, and the call goes on as if
\* it had been.
Duplicate(c) ==
  /\ Admitted(c) /\ batch[c] \subseteq Installed
  /\ pc' = [pc EXCEPT ![c] = AfterAppend(c)]
  /\ UNCHANGED <<diskVars, handleVars, batch, durable, fl, histVars>>

\* The new facts of the batch are written as one frame.
Install(c) ==
  /\ Admitted(c) /\ Valid(batch[c]) /\ ~(batch[c] \subseteq Installed)
  /\ WriteFrame(batch[c] \ Installed)
  /\ pc' = [pc EXCEPT ![c] = AfterAppend(c)]
  /\ UNCHANGED <<exists, ready, tail, stable, dirStable, handle, committed, poison, synced,
                 batch, durable, fl, histVars>>

\* EnsureNode returns the slot's node when there is one and otherwise appends
\* its node-created fact, without waiting for room and without a flush.
MakesNode(c, s) ==
  /\ pc[c] = "idle" /\ handle = "open" /\ Usable /\ Room
  /\ NodeFact(s) \notin Installed /\ Valid({NodeFact(s)})

EnsureNode(c, s) ==
  /\ MakesNode(c, s)
  /\ WriteFrame({NodeFact(s)})
  /\ UNCHANGED <<exists, ready, tail, stable, dirStable, handle, committed, poison, synced,
                 threadVars, histVars>>

\* The write of either fails, and the store refuses everything from then on.
InstallFailed(c) ==
  /\ \/ Admitted(c) /\ Valid(batch[c]) /\ ~(batch[c] \subseteq Installed)
     \/ \E s \in Slots : MakesNode(c, s)
  /\ PartWrite
  /\ poison' = TRUE
  /\ pc' = [Signalled(pc) EXCEPT ![c] = "idle"]
  /\ UNCHANGED <<exists, ready, disk, stable, dirStable, handle, log, committed, pending, synced,
                 batch, durable, fl, histVars>>

-----------------------------------------------------------------------------
(* flush, under flushMu *)

\* What a goroutine does once its flush returned.
AfterFlush(t, ok) ==
  IF t # Main THEN "idle"
  ELSE IF handle = "closing" THEN "close"
  ELSE IF ok THEN "started" ELSE "startfailed"

AckIf(t, ok) == acked' = IF t \in Clients /\ ok THEN acked \cup batch[t] ELSE acked

\* The ctx of this flush can end: it is an Append's, Create's or Open's, and
\* not the background context of the timer and of Close.
CtxMayEnd(t) == t \in Clients \/ (t = Main /\ handle = "starting")

\* Close's own flush is the one a closing handle still allows.
MayFlush(t) == ~poison /\ (handle \in {"starting", "open"} \/ (t = Main /\ handle = "closing"))

\* Mutant of FlushRefused: the error of check is swallowed.
FlushSkipped(t) ==
  /\ pc[t] = "flush" /\ fl.owner = Nobody /\ (~MayFlush(t) \/ CtxMayEnd(t))
  /\ pc' = [pc EXCEPT ![t] = AfterFlush(t, TRUE)]
  /\ AckIf(t, TRUE)
  /\ UNCHANGED <<diskVars, handleVars, batch, durable, fl, published, stops>>

FlushRefused(t) ==
  /\ pc[t] = "flush" /\ fl.owner = Nobody /\ (~MayFlush(t) \/ CtxMayEnd(t))
  /\ pc' = [pc EXCEPT ![t] = AfterFlush(t, FALSE)]
  /\ UNCHANGED <<diskVars, handleVars, batch, durable, fl, histVars>>

FlushNothing(t) ==
  /\ pc[t] = "flush" /\ fl.owner = Nobody /\ MayFlush(t)
  /\ committed = Len(log)
  /\ pc' = [pc EXCEPT ![t] = AfterFlush(t, TRUE)]
  /\ AckIf(t, TRUE)
  /\ UNCHANGED <<diskVars, handleVars, batch, durable, fl, published, stops>>

\* The snapshot taken under mu; the syncs follow without it.
FlushBegin(t) ==
  /\ pc[t] = "flush" /\ fl.owner = Nobody /\ MayFlush(t)
  /\ committed # Len(log)
  /\ fl' = Flushing(t, Len(log), segs, pending, 1, FALSE)
  /\ UNCHANGED <<diskVars, handleVars, pc, batch, durable, histVars>>

\* One file is synced, with whatever it holds by then.
SyncFile ==
  /\ fl.owner # Nobody /\ fl.next <= fl.files
  /\ stable' = stable \cup {i \in 1..Len(disk) : disk[i].seg = fl.next}
  /\ fl' = Flushing(fl.owner, fl.seq, fl.files, fl.bytes, fl.next + 1, fl.failed)
  /\ UNCHANGED <<exists, ready, disk, tail, segs, dirStable, handleVars, pc, batch, durable, histVars>>

\* The sync of one file fails; the others are still tried.
SyncFileFails ==
  /\ fl.owner # Nobody /\ fl.next <= fl.files
  /\ fl' = Flushing(fl.owner, fl.seq, fl.files, fl.bytes, fl.next + 1, TRUE)
  /\ UNCHANGED <<diskVars, handleVars, pc, batch, durable, histVars>>

\* Mutant of NeedsDirSync: only the files are synced.
NoDirSync == FALSE

NeedsDirSync == fl.files > synced

\* Mutant of FlushEnd: the sequence is read again after the syncs.
FlushEndLateSeq(ctxOk) ==
  LET t == fl.owner
  IN  /\ t # Nobody /\ fl.next > fl.files /\ ~fl.failed
      /\ ctxOk \/ CtxMayEnd(t)
      /\ dirStable' = IF NeedsDirSync /\ fl.files > dirStable THEN fl.files ELSE dirStable
      /\ committed' = Len(log)
      /\ synced' = fl.files
      /\ pending' = pending - fl.bytes
      /\ published' = IF fl.seq > Len(published) THEN SubSeq(log, 1, fl.seq) ELSE published
      /\ pc' = [Signalled(pc) EXCEPT ![t] = AfterFlush(t, ctxOk)]
      /\ AckIf(t, ctxOk)
      /\ fl' = NoFlush
      /\ UNCHANGED <<exists, ready, disk, tail, segs, stable, handle, log, poison, batch, durable, stops>>

\* Mutant of FlushEnd: bytes appended during the syncs are forgotten.
FlushEndForgetsBacklog(ctxOk) ==
  LET t == fl.owner
  IN  /\ t # Nobody /\ fl.next > fl.files /\ ~fl.failed
      /\ ctxOk \/ CtxMayEnd(t)
      /\ dirStable' = IF NeedsDirSync /\ fl.files > dirStable THEN fl.files ELSE dirStable
      /\ committed' = fl.seq
      /\ synced' = fl.files
      /\ pending' = 0
      /\ published' = IF fl.seq > Len(published) THEN SubSeq(log, 1, fl.seq) ELSE published
      /\ pc' = [Signalled(pc) EXCEPT ![t] = AfterFlush(t, ctxOk)]
      /\ AckIf(t, ctxOk)
      /\ fl' = NoFlush
      /\ UNCHANGED <<exists, ready, disk, tail, segs, stable, handle, log, poison, batch, durable, stops>>

\* The directory is synced when the flush saw a segment no earlier one did.
FlushEnd(ctxOk) ==
  LET t == fl.owner
  IN  /\ t # Nobody /\ fl.next > fl.files /\ ~fl.failed
      /\ ctxOk \/ CtxMayEnd(t)
      /\ dirStable' = IF NeedsDirSync /\ fl.files > dirStable THEN fl.files ELSE dirStable
      /\ committed' = fl.seq
      /\ synced' = fl.files
      /\ pending' = pending - fl.bytes
      /\ published' = IF fl.seq > Len(published) THEN SubSeq(log, 1, fl.seq) ELSE published
      /\ pc' = [Signalled(pc) EXCEPT ![t] = AfterFlush(t, ctxOk)]
      /\ AckIf(t, ctxOk)
      /\ fl' = NoFlush
      /\ UNCHANGED <<exists, ready, disk, tail, segs, stable, handle, log, poison, batch, durable, stops>>

\* A file or the directory did not sync: nothing is committed and the handle
\* is poisoned.
FlushFailed ==
  LET t == fl.owner
  IN  /\ t # Nobody /\ fl.next > fl.files
      /\ fl.failed \/ NeedsDirSync
      /\ poison' = TRUE
      /\ pc' = [Signalled(pc) EXCEPT ![t] = AfterFlush(t, FALSE)]
      /\ fl' = NoFlush
      /\ UNCHANGED <<diskVars, handle, log, committed, pending, synced, batch, durable, histVars>>

TimerTick ==
  /\ pc[Timer] = "idle"
  /\ pc' = [pc EXCEPT ![Timer] = "flush"]
  /\ UNCHANGED <<diskVars, handleVars, batch, durable, fl, histVars>>

-----------------------------------------------------------------------------
(* Close *)

CloseBegin ==
  /\ handle = "open" /\ pc[Main] = "idle"
  /\ handle' = "closing"
  /\ pc' = [Signalled(pc) EXCEPT ![Main] = "join"]
  /\ UNCHANGED <<diskVars, log, committed, pending, poison, synced, batch, durable, fl, histVars>>

\* Mutant of TimerStops: the stop channel is only closed once Close is over.
TimerStopsLate ==
  /\ pc[Timer] = "idle" /\ handle = "none"
  /\ pc' = [pc EXCEPT ![Timer] = "off"]
  /\ UNCHANGED <<diskVars, handleVars, batch, durable, fl, histVars>>

TimerStops ==
  /\ pc[Timer] = "idle" /\ handle = "closing"
  /\ pc' = [pc EXCEPT ![Timer] = "off"]
  /\ UNCHANGED <<diskVars, handleVars, batch, durable, fl, histVars>>

CloseJoined ==
  /\ pc[Main] = "join" /\ pc[Timer] = "off"
  /\ pc' = [pc EXCEPT ![Main] = "flush"]
  /\ UNCHANGED <<diskVars, handleVars, batch, durable, fl, histVars>>

Quiet == [t \in Threads |-> IF t = Timer THEN "off" ELSE "idle"]

\* Mutant of CloseEnd: the writer lock is not released.
CloseKeepsLock ==
  /\ pc[Main] = "close" /\ fl.owner = Nobody
  /\ handle' = "closed"
  /\ pc' = Quiet
  /\ UNCHANGED <<diskVars, log, committed, pending, poison, synced, batch, durable, fl, histVars>>

\* The files and the lock are released: another handle may open the run.  The
\* calls still inside this one can only return ErrClosed.
CloseEnd ==
  /\ pc[Main] = "close" /\ fl.owner = Nobody
  /\ handle' = "none"
  /\ pc' = Quiet
  /\ UNCHANGED <<diskVars, log, committed, pending, poison, synced, batch, durable, fl, histVars>>

-----------------------------------------------------------------------------
(* The end of a process *)

\* A call may be in the middle of its write.
Writing == handle = "open" /\ ~poison

Forget ==
  /\ handle' = "none"
  /\ pc' = Quiet
  /\ fl' = NoFlush
  /\ stops' = stops + 1

\* The process dies with the page cache intact, perhaps in the middle of the
\* write of an Append or EnsureNode.
Die ==
  /\ stops < MaxStops /\ handle # "none"
  /\ Forget
  /\ IF Writing THEN PartWrite ELSE UNCHANGED <<tail, segs>>
  /\ UNCHANGED <<exists, ready, disk, stable, dirStable, log, committed, pending, poison, synced,
                 batch, durable, published, acked>>

\* The first n frames must survive a power loss: they are synced, in files
\* whose directory entries are synced.
OnStorage(n) == \A i \in 1..n : i \in stable /\ disk[i].seg <= dirStable

\* The machine loses power.  Frames that were not synced may be gone, cut short
\* or garbled, and so may files whose directory entries were not synced.
LosePower(n) ==
  /\ stops < MaxStops /\ ready
  /\ n \in 0..Len(disk)
  /\ \A m \in n+1..Len(disk) : ~OnStorage(m)
  /\ Forget
  /\ disk' = SubSeq(disk, 1, n)
  /\ stable' = stable \cap 1..n
  /\ segs' \in {s \in 0..segs : s >= dirStable /\ (n > 0 => s >= disk[n].seg)}
  /\ tail' \in IF n = Len(disk) /\ tail = "clean" /\ ~Writing THEN {"clean"}
               ELSE {"clean", "torn", "bad"}
  /\ UNCHANGED <<exists, ready, dirStable, log, committed, pending, poison, synced,
                 batch, durable, published, acked>>

-----------------------------------------------------------------------------
Init ==
  /\ exists = FALSE /\ ready = FALSE /\ disk = <<>> /\ tail = "clean" /\ segs = 0 /\ stable = {} /\ dirStable = 0
  /\ handle = "none" /\ log = <<>> /\ committed = 0 /\ pending = 0
  /\ poison = FALSE /\ synced = 0
  /\ pc = Quiet
  /\ batch = [c \in Clients |-> {}]
  /\ durable = [c \in Clients |-> FALSE]
  /\ fl = NoFlush
  /\ published = <<>> /\ acked = {} /\ stops = 0

ClientNext(c) ==
  \/ \E b \in Batches, d \in BOOLEAN : CallAppend(c, b, d)
  \/ Block(c) \/ Cancelled(c) \/ Refused(c) \/ Reject(c) \/ Duplicate(c) \/ Install(c) \/ InstallFailed(c)
  \/ \E s \in Slots : EnsureNode(c, s)

FlushStart(t) == FlushRefused(t) \/ FlushNothing(t) \/ FlushBegin(t)

FlushStep == SyncFile \/ SyncFileFails \/ (\E ok \in BOOLEAN : FlushEnd(ok)) \/ FlushFailed

MainNext == Create \/ CreateFailed \/ Open \/ Started \/ StartFailed \/ CloseBegin \/ CloseJoined \/ CloseEnd

Next ==
  \/ \E c \in Clients : ClientNext(c)
  \/ \E t \in Threads : FlushStart(t)
  \/ FlushStep
  \/ TimerTick \/ TimerStops
  \/ MainNext
  \/ Die
  \/ \E n \in 0..MaxFrames : LosePower(n)

Spec == Init /\ [][Next]_vars

\* Every goroutine keeps running, a started flush ends, and no goroutine waits
\* forever for flushMu (Go's mutexes pass to a starving waiter) or on one of
\* two ready select cases.  Nothing obliges anybody to call Append or Close,
\* a ctx to end, or a write or sync to fail.
Fairness ==
  /\ \A c \in Clients : WF_vars(Block(c) \/ Refused(c) \/ Reject(c) \/ Duplicate(c) \/ Install(c))
  /\ \A t \in Threads : SF_vars(FlushStart(t))
  /\ WF_vars(FlushStep)
  /\ WF_vars(TimerTick) /\ SF_vars(TimerStops)
  /\ WF_vars(Started \/ StartFailed) /\ WF_vars(CloseJoined) /\ WF_vars(CloseEnd)

FairSpec == Spec /\ Fairness

-----------------------------------------------------------------------------
(* Properties *)

AllFacts == (UNION Batches) \cup {NodeFact(s) : s \in Slots \cup {Root}}
Frames == [seg : Nat \ {0}, facts : SUBSET AllFacts]

Flags == exists \in BOOLEAN /\ ready \in BOOLEAN /\ poison \in BOOLEAN

DiskTypes ==
  /\ disk \in Seq(Frames) /\ stable \subseteq Nat
  /\ tail \in {"clean", "torn", "bad"}
  /\ segs \in Nat /\ dirStable \in Nat

HandleTypes ==
  /\ handle \in {"none", "starting", "open", "closing"}
  /\ log \in Seq(Frames)
  /\ committed \in Nat /\ pending \in Int /\ synced \in Nat

ThreadTypes ==
  /\ pc \in [Threads -> {"idle", "append", "wait", "flush", "started", "startfailed", "join", "close", "off"}]
  /\ batch \in [Clients -> Batches \cup {{}}]
  /\ durable \in [Clients -> BOOLEAN]
  /\ fl \in [owner : Threads \cup {Nobody}, seq : Nat, files : Nat, bytes : Int, next : Nat, failed : BOOLEAN]

HistoryTypes ==
  /\ published \in Seq(Frames) /\ acked \subseteq AllFacts /\ stops \in Nat

\* The state keeps its types; pendingBytes is not yet known to stay positive.
TypeOK == Flags /\ DiskTypes /\ HandleTypes /\ ThreadTypes /\ HistoryTypes

\* A frame the handle calls committed is on stable storage together with the
\* directory entry of its segment, although appends and new segments go on
\* while the flush that committed it runs without the lock.
CommittedIsStable == handle # "none" => OnStorage(committed)

\* What a reader was shown is never taken back: through failed writes, deaths
\* in the middle of a write and power losses, the frames Read has returned
\* stay the first frames of the run.
ReadsAreFinal ==
  /\ Len(published) <= Len(disk)
  /\ \A i \in 1..Len(published) : disk[i] = published[i]

\* A fact whose committed Append returned is in every later reading.
AcknowledgedIsPublished == \A f \in acked : \E i \in 1..Len(published) : f \in published[i].facts

\* Whatever the handle accepted and wrote, at whatever step the process died,
\* the checks of the next Open accept it: one fact per record ID and unique
\* key, every node before its facts.  This is about complete frames; of a torn one
\* behind them see ImageIsDisk.
OpenAccepts == Readable(disk)

\* The memory image Append validates against is the file, and a handle that
\* still appends does so behind a complete frame: nothing is installed that was
\* not written, a write that failed is the last one, and what it or a death
\* left behind is cut off before the next process appends.
ImageIsDisk ==
  handle # "none" =>
    /\ log = disk
    /\ ~poison => tail = "clean"

\* pendingBytes is exactly what the next flush still has to commit, so an
\* appender neither waits on a backlog that is gone nor runs past a full one.
BacklogIsExact == handle = "open" => pending = Len(log) - committed

\* The contract the engine relies on, stated by Journal: what readers have been
\* shown only grows, holds one fact per record ID and unique key, and holds
\* every fact whose committed Append returned.
Contract == INSTANCE Journal WITH entries <- published, acked <- acked
ImplementsJournal == Contract!Spec

\* Every Append that is admitted, or waits for room, returns.
AppendReturns == \A c \in Clients : pc[c] \in {"append", "wait", "flush"} ~> pc[c] = "idle"

\* Close ends: the timer stops, the last flush returns and the lock is dropped.
CloseEnds == handle = "closing" ~> handle = "none"
=============================================================================
