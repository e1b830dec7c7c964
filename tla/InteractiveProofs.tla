------------------------ MODULE InteractiveProofs ------------------------
(***************************************************************************)
(* Proofs about interactive generations, for any inputs, occurrences,      *)
(* deaths and cancellations: each message is sent one way and once,        *)
(* nothing is started behind a Finish, the transcripts show each message   *)
(* and each reply once and in order, no reply is dropped and no input is   *)
(* lost.                                                                   *)
(***************************************************************************)
EXTENDS Interactive, FiniteSetTheorems, SequenceTheorems, WellFoundedInduction, NaturalsInduction, TLAPS

\* Where the loop's own copy is the committed one, and where the address is owned.
InLoop == {"look", "parked", "assign", "steer", "steering", "select"}
Owned == InLoop \cup {"settle", "leave"}

\* The messages that were or may have been steered.
Steered == {steered[k] : k \in 1..Len(steered)}

\* Inputs are accepted once, and nothing after a Finish.
OrderInv ==
  /\ \A k, l \in 1..Len(order) : order[k] = order[l] => k = l
  /\ \A k \in 1..Len(order) : order[k] \in Finishes => k = Len(order)

\* The occurrences end in turn: those before this one have ended, those after it and
\* after the first that has not ended are as they were made.
OccurrenceInv ==
  /\ active <=> pc \in Owned
  /\ pc \in Owned => occ \in Occurrences /\ \A o \in Occurrences : o > occ => saved[o] = Fresh
  /\ \A o \in Occurrences : o < occ => saved[o].endedBy = "agent"
  /\ pc = "body" /\ occ > 0 => saved[occ].endedBy = "agent"
  /\ \A o, p \in Occurrences : saved[o].endedBy = None /\ o < p => saved[p] = Fresh
  /\ \A o \in Occurrences : saved[o].endedBy # None => saved[o].active = None

\* What a transcript shows it goes on to show.
Grows(T, U) == Len(T) <= Len(U) /\ \A k \in 1..Len(T) : U[k] = T[k]

\* The loop's copy of the interactionState.
StateInv ==
  /\ pc \in InLoop => state = saved[occ] /\ state.endedBy = None
  /\ pc = "settle" => /\ state.active = saved[occ].active /\ state.consumed = saved[occ].consumed
                      /\ state.unresolved = saved[occ].unresolved
                      /\ Grows(saved[occ].transcript, state.transcript)
                      /\ state.endedBy = None /\ saved[occ].endedBy = None
  /\ pc = "leave" /\ ~failed => state = saved[occ] /\ state.endedBy # None

\* A generation is that of the active message.
TurnInv ==
  /\ turn # "none" => /\ pc \in {"look", "assign", "steer", "steering", "select", "leave"}
                      /\ state = saved[occ] /\ state.active # None
  /\ pc \in {"assign", "steer", "steering", "select"} => turn # "none"
  /\ pc = "settle" => turn = "none" /\ state.active # None

\* Its answer is the outcome that is recorded, unless the run was cancelled.
AnswerInv ==
  /\ cancelled => abandoned
  /\ turn \in {"running", "native", "returned", "refused"} => outcome[state.active] = None
  /\ turn = "done" \/ pc = "settle" =>
       (outcome[state.active] = "chat" /\ ~abandoned => answer = "chat")
  /\ pc = "settle" /\ answer \in Replies => state.published

\* What the loop has still to look at is pending, and the one it steers is marked.
QueueInv ==
  /\ pc \in {"assign", "steer", "steering"} => queue \subseteq Accepted \ Consumed
  /\ pc \in {"steer", "steering"} =>
       /\ queue # {} /\ First(queue) \in Messages \ Steered
       /\ disp[First(queue)] = "inflight"

\* Occurrences consume accepted inputs, each one once; the active one is consumed.
ConsumedInv ==
  /\ \A o \in Occurrences : saved[o].consumed \subseteq Accepted
  /\ \A o, p \in Occurrences : o # p => saved[o].consumed \cap saved[p].consumed = {}
  /\ \A o \in Occurrences : saved[o].active # None =>
       /\ saved[o].active \in saved[o].consumed
       /\ disp[saved[o].active] \notin {"uncertain", "inflight"}
  /\ prompted \subseteq Consumed

\* A message that was steered is never pending again, nor the active one.
SteeredInv ==
  /\ \A k, l \in 1..Len(steered) : steered[k] = steered[l] => k = l
  /\ \A i \in Steered :
       /\ i \in Accepted /\ i \notin prompted
       /\ disp[i] \in {"inflight", "delivered", "uncertain", "unprocessed"}
       /\ \A o \in Occurrences : saved[o].active # i

\* Only a message is ever in doubt.
ControlInv == \A i \in Inputs \ Messages : disp[i] \notin {"inflight", "uncertain"}

\* While a message that may have been steered is not consumed, the turn it was
\* meant for is not over.
DoubtInv ==
  \A i \in (Messages \cap Accepted) \ Consumed :
    disp[i] \in {"inflight", "delivered", "uncertain"} => \E o \in Occurrences : saved[o].active # None

\* A Finish is the end of the occurrence that takes it; one that nobody takes is
\* marked after everything else.
FinishInv ==
  /\ Accepted \cap Finishes = {} => late = {}
  /\ Accepted \cap Finishes # {} => \A o \in Occurrences : saved[o].active \in {None, closing}
  /\ Consumed \cap Finishes # {} =>
       \E o \in Occurrences : saved[o].endedBy = "human" \/ (saved[o].unresolved /\ saved[o].active # None)
  /\ (\E f \in Accepted \cap Finishes : disp[f] = "unprocessed") => Open = {}

\* A scope that has ended has left no input open.
ClosedInv == (scopeEnded \/ pc \in {"ended", "over"} \/ runEnded) => Open = {}

\* A reply that was recorded is still to be taken, or is shown.
ReplyInv ==
  \A i \in Messages : outcome[i] = "chat" /\ ~abandoned =>
    \E o \in Occurrences :
      \/ saved[o].active = i
      \/ \E k \in 1..Len(saved[o].transcript) : saved[o].transcript[k] = <<"assistant", i>>

\* A transcript shows consumed messages, each entry once, a reply after its message,
\* and the active message if it is published.
TranscriptOK(s) ==
  LET T == s.transcript
  IN  /\ \A k \in 1..Len(T) : T[k][2] \in s.consumed
      /\ \A k, l \in 1..Len(T) : T[k] = T[l] => k = l
      /\ \A k \in 1..Len(T) : T[k][1] = "assistant" => \E l \in 1..(k - 1) : T[l] = <<"user", T[k][2]>>
      /\ s.active # None =>
           /\ s.published <=> \E k \in 1..Len(T) : T[k] = <<"user", s.active>>
           /\ \A k \in 1..Len(T) : T[k] # <<"assistant", s.active>>

TranscriptInv ==
  /\ \A o \in Occurrences : TranscriptOK(saved[o])
  /\ pc = "settle" => TranscriptOK(state)

IInv ==
  /\ TypeOK /\ OrderInv /\ OccurrenceInv /\ StateInv /\ TurnInv /\ AnswerInv /\ QueueInv
  /\ ConsumedInv /\ SteeredInv /\ ControlInv /\ DoubtInv /\ FinishInv /\ ClosedInv /\ ReplyInv /\ TranscriptInv
  /\ FinishPreventsTurns

-----------------------------------------------------------------------------
(* The inbox *)

\* What does not change while the inbox, the commits and the history stay.
LEMMA Same ==
  /\ UNCHANGED order => Accepted' = Accepted
  /\ UNCHANGED saved => Consumed' = Consumed
  /\ UNCHANGED steered => Steered' = Steered
  /\ UNCHANGED <<order, queue>> => First(queue)' = First(queue)
  /\ UNCHANGED <<order, saved, disp>> => Open' = Open
BY DEF Accepted, Consumed, Steered, First, Open

\* Inputs are accepted and consumed, messages are steered.
LEMMA KnownInputs ==
  ASSUME TypeOK
  PROVE  /\ Accepted \subseteq Inputs /\ Consumed \subseteq Inputs /\ Steered \subseteq Messages
         /\ \A o \in Occurrences : saved[o] \in States /\ saved[o].consumed \subseteq Consumed
         /\ \A s : Pending(s) \subseteq Accepted
         /\ Open \subseteq Accepted
<1>1. Accepted \subseteq Inputs
  BY DEF TypeOK, JournalTypes, Accepted
<1>2. \A o \in Occurrences : saved[o] \in States
  BY DEF TypeOK, JournalTypes
<1>3. \A o \in Occurrences : saved[o].consumed \subseteq Inputs
  BY <1>2 DEF States
<1>4. Consumed \subseteq Inputs /\ \A o \in Occurrences : saved[o].consumed \subseteq Consumed
  BY <1>3 DEF Consumed
<1>5. Steered \subseteq Messages
  BY DEF TypeOK, HistoryTypes, Steered
<1> QED
  BY <1>1, <1>2, <1>4, <1>5 DEF Pending, Open

\* The least of some places is one of them.
LEMMA MinPlace ==
  ASSUME NEW S \in SUBSET Nat, S # {}
  PROVE  Min(S) \in S /\ \A k \in S : Min(S) <= k
<1>1. PICK x \in S : \A y \in S : ~(<<y, x>> \in OpToRel(<, Nat))
  BY WFMin, NatLessThanWellFounded
<1>2. ASSUME NEW y \in S PROVE x <= y
  <2>1. x \in Nat /\ y \in Nat /\ <<y, x>> \in Nat \X Nat
    OBVIOUS
  <2>2. y < x => <<y, x>> \in OpToRel(<, Nat)
    BY <2>1 DEF OpToRel
  <2>3. ~(y < x)
    BY <1>1, <2>2
  <2> QED
    BY <2>1, <2>3
<1> QED
  BY <1>2 DEF Min

\* The first of some inputs is one of them, accepted before the others.
LEMMA FirstPlace ==
  ASSUME TypeOK, NEW S, S \cap Accepted # {}
  PROVE  /\ First(S) \in S \cap Accepted
         /\ \E k \in 1..Len(order) : /\ First(S) = order[k]
                                     /\ \A l \in 1..Len(order) : order[l] \in S => k <= l
<1> DEFINE P == {k \in 1..Len(order) : order[k] \in S}
<1>1. order \in Seq(Inputs) /\ Len(order) \in Nat
  BY DEF TypeOK, JournalTypes
<1>2. P \in SUBSET Nat /\ P # {}
  BY <1>1 DEF Accepted
<1>3. Min(P) \in P /\ \A k \in P : Min(P) <= k
  <2> HIDE DEF P
  <2> QED
    BY <1>2, MinPlace
<1>4. First(S) = order[Min(P)]
  BY DEF First
<1> QED
  BY <1>3, <1>4 DEF Accepted

\* A later input does not come first.
LEMMA FirstStays ==
  ASSUME TypeOK, NEW i, order' = Append(order, i), i \in Inputs, i \notin Accepted,
         queue \subseteq Accepted, queue # {}, queue' = queue
  PROVE  First(queue)' = First(queue)
<1>1. order \in Seq(Inputs) /\ Len(order) \in Nat
  BY DEF TypeOK, JournalTypes
<1>2. Len(order') = Len(order) + 1 /\ order'[Len(order) + 1] = i
      /\ \A k \in 1..Len(order) : order'[k] = order[k]
  BY <1>1
<1>3. i \notin queue
  OBVIOUS
<1>4. {k \in 1..Len(order') : order'[k] \in queue'} = {k \in 1..Len(order) : order[k] \in queue}
  BY <1>1, <1>2, <1>3
<1>5. Min({k \in 1..Len(order) : order[k] \in queue}) \in {k \in 1..Len(order) : order[k] \in queue}
  <2> DEFINE P == {k \in 1..Len(order) : order[k] \in queue}
  <2>1. P \in SUBSET Nat /\ P # {}
    BY <1>1 DEF Accepted
  <2> HIDE DEF P
  <2>2. Min(P) \in P
    BY <2>1, MinPlace
  <2> QED
    BY <2>2 DEF P
<1> QED
  BY <1>2, <1>4, <1>5 DEF First

\* Some accepted inputs are finitely many.
LEMMA FiniteInputs ==
  ASSUME TypeOK, NEW S \in SUBSET Accepted
  PROVE  IsFiniteSet(S) /\ Cardinality(S) \in Nat
<1> DEFINE f == [k \in 1..Len(order) |-> order[k]]
<1>1. order \in Seq(Inputs) /\ Len(order) \in Nat
  BY DEF TypeOK, JournalTypes
<1>2. IsFiniteSet(1..Len(order))
  BY <1>1, FS_Interval
<1>3. f \in Surjection(1..Len(order), Accepted)
  BY DEF Surjection, Accepted
<1>4. IsFiniteSet(Accepted)
  <2> HIDE DEF f
  <2> QED
    BY <1>2, <1>3, FS_Surjection
<1>5. IsFiniteSet(S)
  BY <1>4, FS_Subset
<1> QED
  BY <1>5, FS_CardinalityType

\* Some inputs in the order of their acceptance.
Arranged(S, q) ==
  /\ q \in [1..Cardinality(S) -> S]
  /\ \A k, l \in 1..Cardinality(S) : k < l => Before(q[k], q[l])

\* The sequence of some accepted inputs exists: the first of them, and then the others.
LEMMA ArrangedExists ==
  ASSUME TypeOK, OrderInv, NEW S \in SUBSET Accepted
  PROVE  \E q : Arranged(S, q)
<1> DEFINE Bad == {n \in Nat : \E R \in SUBSET Accepted : Cardinality(R) = n /\ ~\E q : Arranged(R, q)}
<1>1. Bad = {}
  <2> SUFFICES ASSUME Bad # {} PROVE FALSE
    OBVIOUS
  <2>1. PICK n \in Bad : \A m \in Bad : n <= m
    <3>1. Bad \in SUBSET Nat
      OBVIOUS
    <3> HIDE DEF Bad
    <3> QED
      BY <3>1, MinPlace
  <2>2. PICK R \in SUBSET Accepted : Cardinality(R) = n /\ ~\E q : Arranged(R, q)
    BY <2>1
  <2>3. IsFiniteSet(R) /\ n \in Nat
    BY <2>2, FiniteInputs
  <2>4. R # {}
    <3>1. ASSUME R = {} PROVE FALSE
      <4>1. n = 0
        BY <2>2, <3>1, FS_EmptySet
      <4>2. 1..0 = {}
        OBVIOUS
      <4>3. [k \in 1..0 |-> k] \in [1..0 -> R]
        BY <4>2
      <4>4. Arranged(R, [k \in 1..0 |-> k])
        BY <2>2, <4>1, <4>2, <4>3 DEF Arranged
      <4> QED
        BY <2>2, <4>4
    <3> QED
      BY <3>1
  <2> DEFINE x == First(R)
             Rest == R \ {x}
  <2>5. x \in R /\ \A y \in Rest : Before(x, y)
    <3>1. R \cap Accepted # {}
      BY <2>4
    <3>2. x \in R /\ \E k \in 1..Len(order) : x = order[k] /\ \A l \in 1..Len(order) : order[l] \in R => k <= l
      BY <3>1, FirstPlace
    <3>3. PICK k \in 1..Len(order) : x = order[k] /\ \A l \in 1..Len(order) : order[l] \in R => k <= l
      BY <3>2
    <3>4. ASSUME NEW y \in Rest PROVE Before(x, y)
      <4>1. PICK l \in 1..Len(order) : y = order[l]
        BY DEF Accepted
      <4>2. k <= l /\ k # l
        BY <3>3, <4>1
      <4>3. k \in Nat /\ l \in Nat
        OBVIOUS
      <4> QED
        BY <3>3, <4>1, <4>2, <4>3 DEF Before
    <3> QED
      BY <3>2, <3>4
  <2>6. Cardinality(Rest) = n - 1 /\ n # 0 /\ n - 1 \in Nat
    <3> HIDE DEF x
    <3>1. Cardinality(R \ {x}) = n - 1
      BY <2>2, <2>3, <2>5, FS_RemoveElement
    <3>2. n # 0
      BY <2>2, <2>3, <2>4, FS_EmptySet
    <3> QED
      BY <2>3, <3>1, <3>2
  <2>7. PICK q : Arranged(Rest, q)
    <3> HIDE DEF x
    <3>1. Rest \in SUBSET Accepted
      OBVIOUS
    <3>2. n - 1 \notin Bad
      BY <2>1, <2>3
    <3> QED
      BY <2>6, <3>1, <3>2
  <2> DEFINE r == [k \in 1..n |-> IF k = 1 THEN x ELSE q[k - 1]]
  <2>8. q \in [1..(n - 1) -> Rest] /\ \A k, l \in 1..(n - 1) : k < l => Before(q[k], q[l])
    BY <2>6, <2>7 DEF Arranged
  <2> HIDE DEF x
  <2>9. ASSUME NEW k \in 1..n, k # 1 PROVE k - 1 \in 1..(n - 1)
    BY <2>3, <2>9
  <2>10. r \in [1..n -> R]
    BY <2>5, <2>8, <2>9
  <2>11. ASSUME NEW k \in 1..n, NEW l \in 1..n, k < l PROVE Before(r[k], r[l])
    <3>1. l # 1 /\ l - 1 \in 1..(n - 1) /\ r[l] = q[l - 1]
      BY <2>3, <2>11, <2>9
    <3>2. CASE k = 1
      BY <2>5, <2>8, <3>1, <3>2
    <3>3. CASE k # 1
      <4>1. k - 1 \in 1..(n - 1) /\ r[k] = q[k - 1] /\ k - 1 < l - 1
        BY <2>3, <2>9, <2>11, <3>3
      <4> QED
        BY <2>8, <3>1, <4>1
    <3> QED
      BY <3>2, <3>3
  <2>12. Arranged(R, r)
    BY <2>2, <2>10, <2>11 DEF Arranged
  <2> QED
    BY <2>2, <2>12
<1>2. Cardinality(S) \in Nat
  BY FiniteInputs
<1> QED
  BY <1>1, <1>2

\* So inputs are kept in order, each of them once.
LEMMA InOrderSeq ==
  ASSUME TypeOK, OrderInv, NEW S \in SUBSET Accepted
  PROVE  /\ Cardinality(S) \in Nat /\ InOrder(S) \in [1..Cardinality(S) -> S]
         /\ \A k, l \in 1..Cardinality(S) : InOrder(S)[k] = InOrder(S)[l] => k = l
<1>1. Cardinality(S) \in Nat
  BY FiniteInputs
<1>2. Arranged(S, InOrder(S))
  BY ArrangedExists DEF Arranged, InOrder
<1>3. \A i, j \in S : Before(i, j) => i # j
  <2>1. Len(order) \in Nat
    BY DEF TypeOK, JournalTypes
  <2> QED
    BY <2>1 DEF Before, OrderInv
<1>4. ASSUME NEW k \in 1..Cardinality(S), NEW l \in 1..Cardinality(S), k # l
      PROVE  InOrder(S)[k] # InOrder(S)[l]
  <2>1. InOrder(S)[k] \in S /\ InOrder(S)[l] \in S
    BY <1>2 DEF Arranged
  <2>2. k < l \/ l < k
    BY <1>1, <1>4
  <2> QED
    BY <1>2, <1>3, <2>1, <2>2 DEF Arranged
<1> QED
  BY <1>1, <1>2, <1>4 DEF Arranged

-----------------------------------------------------------------------------
(* What a commit does *)

\* The inputs a committed step takes: they were pending, and are consumed by it.
Takes(S) ==
  /\ S \subseteq Pending(state) /\ occ \in Occurrences
  /\ state' \in States /\ state'.consumed = state.consumed \cup S
  /\ saved' \in [Occurrences -> States] /\ saved'[occ] = state'
  /\ \A o \in Occurrences : o # occ => saved'[o] = saved[o]
  /\ Consumed' = Consumed \cup S
  /\ state.active = saved[occ].active /\ state.consumed = saved[occ].consumed
  /\ saved[occ].endedBy = None

\* Nothing but the fields that are named differs.
Keeps(s, t) ==
  /\ s.active = t.active /\ s.published = t.published /\ s.unresolved = t.unresolved
  /\ s.endedBy = t.endedBy /\ s.transcript = t.transcript

LEMMA Committing ==
  ASSUME IInv, pc \in InLoop \cup {"settle"}, NEW s \in States, Commit(s),
         NEW S \in SUBSET Pending(state), s.consumed = state.consumed \cup S
  PROVE  Takes(S) /\ state' = s
<1>1. occ \in Occurrences /\ saved \in [Occurrences -> States]
  BY DEF IInv, OccurrenceInv, Owned, TypeOK, JournalTypes
<1>2. /\ state.active = saved[occ].active /\ state.consumed = saved[occ].consumed
      /\ saved[occ].endedBy = None
  BY DEF IInv, StateInv, InLoop
<1>3. state' = s /\ saved' = [saved EXCEPT ![occ] = s]
  BY DEF Commit
<1>4. saved'[occ] = s /\ (\A o \in Occurrences : o # occ => saved'[o] = saved[o])
  BY <1>1, <1>3
<1>5. saved' \in [Occurrences -> States]
  BY <1>1, <1>3
<1>6. \A o \in Occurrences : saved'[o].consumed = IF o = occ THEN saved[o].consumed \cup S ELSE saved[o].consumed
  BY <1>2, <1>4
<1>7. Consumed' = Consumed \cup S
  BY <1>1, <1>6 DEF Consumed
<1> QED
  BY <1>1, <1>2, <1>3, <1>4, <1>5, <1>7 DEF Takes

\* What an idle loop finds.
LEMMA IdleLoop ==
  ASSUME IInv, pc = "look"
  PROVE  /\ state = saved[occ] /\ occ \in Occurrences /\ state \in States /\ state.endedBy = None
         /\ Pending(state) \subseteq Accepted \ Consumed
         /\ \A i \in Pending(state) : disp[i] # "unprocessed"
  BY DEF IInv, StateInv, InLoop, Owned, OccurrenceInv, TypeOK, LoopTypes, Pending

\* The first of the pending inputs of a kind is one of them.
LEMMA FirstPending ==
  ASSUME IInv, NEW K, Pending(state) \cap K # {}
  PROVE  First(Pending(state) \cap K) \in Pending(state) \cap K
<1>1. (Pending(state) \cap K) \cap Accepted # {}
  BY DEF Pending
<1>2. TypeOK
  BY DEF IInv
<1> HIDE DEF Pending
<1> QED
  BY <1>1, <1>2, FirstPlace

LEMMA NextInput ==
  ASSUME IInv, pc = "look", Work
  PROVE  /\ state.active # None => Input = state.active
         /\ state.active = None => Input \in Pending(state)
<1>1. Pending(state) \cap Accepted = Pending(state) /\ TypeOK
  BY DEF Pending, IInv
<1> QED
  BY <1>1, FirstPlace DEF Work, Input

LEMMA TakeFinishEffect ==
  ASSUME IInv, TakeFinish
  PROVE  \E f \in Pending(state) \cap Finishes :
           /\ Takes({f}) /\ state.active = None /\ state'.active = None /\ state'.endedBy = "human"
           /\ state'.published = state.published /\ state'.unresolved = state.unresolved
           /\ state'.transcript = state.transcript
<1> DEFINE f == First(Pending(state) \cap Finishes)
           s == [state EXCEPT !.consumed = @ \cup {f}, !.endedBy = "human", !.waiting = FALSE]
<1>1. pc = "look" /\ state.active = None /\ Pending(state) \cap Finishes # {} /\ Commit(s)
  BY DEF TakeFinish, Idle, Finishing
<1>2. f \in Pending(state) \cap Finishes
  BY <1>1, FirstPending
<1>3. state \in States
  BY <1>1, IdleLoop
<1> HIDE DEF f
<1>4. f \in Inputs
  BY <1>2, KnownInputs DEF IInv, Inputs
<1>5. /\ s \in States /\ s.consumed = state.consumed \cup {f} /\ s.active = None /\ s.endedBy = "human"
      /\ s.published = state.published /\ s.unresolved = state.unresolved /\ s.transcript = state.transcript
  BY <1>1, <1>3, <1>4 DEF States
<1> HIDE DEF s
<1>6. Takes({f}) /\ state' = s
  BY <1>1, <1>2, <1>5, Committing DEF InLoop
<1> QED
  BY <1>1, <1>2, <1>5, <1>6

LEMMA ParkEffect ==
  ASSUME IInv, Park
  PROVE  Takes({}) /\ Keeps(state', state) /\ state.active = None
<1> DEFINE s == [state EXCEPT !.waiting = TRUE]
<1>1. pc = "look" /\ state.active = None /\ Commit(s)
  BY DEF Park, Idle, Work
<1>2. state \in States
  BY <1>1, IdleLoop
<1>3. s \in States /\ s.consumed = state.consumed \cup {} /\ Keeps(s, state)
  BY <1>2 DEF States, Keeps
<1> HIDE DEF s
<1>4. Takes({}) /\ state' = s
  BY <1>1, <1>3, Committing DEF InLoop
<1> QED
  BY <1>1, <1>3, <1>4

\* A Stop or a Configure that is next takes nothing but itself.
LEMMA ControlEffect ==
  ASSUME IInv, NEW K \in {Stops, Configures}, Ready(K), Commit([state EXCEPT !.consumed = @ \cup {Input}])
  PROVE  /\ Input \in Pending(state) \cap K /\ Takes({Input})
         /\ Keeps(state', state) /\ state.active = None
<1> DEFINE s == [state EXCEPT !.consumed = @ \cup {Input}]
<1>1. pc = "look" /\ Work /\ Input \in K /\ Commit(s)
  BY DEF Ready, Idle
<1>2. state \in States
  BY <1>1, IdleLoop
<1>3. Input \notin Messages
  BY <1>1, InputsAreApart
<1>4. state.active = None
  BY <1>1, <1>2, <1>3, NextInput DEF States
<1>5. Input \in Pending(state) \cap K
  BY <1>1, <1>4, NextInput
<1> HIDE DEF Input
<1>6. Input \in Inputs
  BY <1>5, KnownInputs DEF IInv
<1>7. s \in States /\ s.consumed = state.consumed \cup {Input} /\ Keeps(s, state)
  BY <1>2, <1>6 DEF States, Keeps
<1> HIDE DEF s
<1>8. Takes({Input}) /\ state' = s
  BY <1>1, <1>5, <1>7, Committing DEF InLoop
<1> QED
  BY <1>4, <1>5, <1>7, <1>8

LEMMA TakeStopEffect ==
  ASSUME IInv, TakeStop
  PROVE  \E i \in Pending(state) \cap Stops :
           Takes({i}) /\ Keeps(state', state) /\ state.active = None
  BY ControlEffect DEF TakeStop

LEMMA TakeConfigureEffect ==
  ASSUME IInv, TakeConfigure(TRUE)
  PROVE  \E i \in Pending(state) \cap Configures :
           Takes({i}) /\ Keeps(state', state) /\ state.active = None
  BY ControlEffect DEF TakeConfigure

LEMMA StartTurnEffect ==
  ASSUME IInv, StartTurn
  PROVE  \/ Takes({}) /\ Keeps(state', state) /\ state.active # None
         \/ \E i \in Pending(state) \cap Messages :
              /\ Takes({i}) /\ state.active = None /\ state'.active = i /\ state'.published = FALSE
              /\ state'.unresolved = state.unresolved /\ state'.endedBy = state.endedBy
              /\ state'.transcript = state.transcript
              /\ disp[i] \notin {"uncertain", "inflight"}
<1>1. pc = "look" /\ Work /\ Input \in Messages /\ disp[Input] \notin {"uncertain", "inflight"}
  BY DEF StartTurn, Ready, Idle
<1>2. state \in States
  BY <1>1, IdleLoop
<1>3. CASE state.active # None
  <2> DEFINE s == [state EXCEPT !.waiting = FALSE]
  <2>1. Commit(s)
    BY <1>3 DEF StartTurn
  <2>2. s \in States /\ s.consumed = state.consumed \cup {} /\ Keeps(s, state)
    BY <1>2 DEF States, Keeps
  <2> HIDE DEF s
  <2>3. Takes({}) /\ state' = s
    BY <1>1, <2>1, <2>2, Committing DEF InLoop
  <2> QED
    BY <1>3, <2>2, <2>3
<1>4. CASE state.active = None
  <2> DEFINE s == [state EXCEPT !.consumed = @ \cup {Input}, !.active = Input, !.published = FALSE,
                                !.waiting = FALSE]
  <2>1. Commit(s)
    BY <1>4 DEF StartTurn
  <2>2. Input \in Pending(state) \cap Messages /\ Input \in Inputs
    BY <1>1, <1>4, NextInput DEF Inputs
  <2> HIDE DEF Input
  <2>3. /\ s \in States /\ s.consumed = state.consumed \cup {Input} /\ s.active = Input
        /\ s.published = FALSE /\ s.unresolved = state.unresolved /\ s.endedBy = state.endedBy
        /\ s.transcript = state.transcript
    BY <1>2, <2>2 DEF States
  <2> HIDE DEF s
  <2>4. Takes({Input}) /\ state' = s
    BY <1>1, <2>1, <2>2, <2>3, Committing DEF InLoop
  <2> QED
    BY <1>1, <1>4, <2>2, <2>3, <2>4
<1> QED
  BY <1>3, <1>4

\* What a turn takes with it when it ends, and how that is shown.
Absorbs == Steers \cup (Pending(state) \cap (Finishes \cup Stops))
Shown == [k \in 1..Cardinality(Steers) |-> <<"user", InOrder(Steers)[k]>>]

LEMMA SettlingLoop ==
  ASSUME IInv, pc = "settle"
  PROVE  /\ state \in States /\ occ \in Occurrences /\ state.active # None /\ state.endedBy = None
         /\ Steers \in SUBSET Accepted /\ Absorbs \in SUBSET Pending(state)
         /\ Steers \subseteq Messages /\ Steers \cap state.consumed = {}
         /\ Pending(state) \subseteq Accepted \ Consumed
         /\ \A i \in Pending(state) : disp[i] # "unprocessed"
  BY DEF IInv, StateInv, TurnInv, OccurrenceInv, Owned, TypeOK, LoopTypes, Pending, Steers, Absorbs

LEMMA AbsorbedEffect ==
  ASSUME IInv, pc = "settle"
  PROVE  /\ Absorbed \in States /\ Absorbed.consumed = state.consumed \cup Absorbs
         /\ Absorbed.active = state.active /\ Absorbed.published = state.published
         /\ Absorbed.endedBy = None /\ Absorbed.waiting = state.waiting
         /\ Absorbed.transcript = state.transcript \o Shown
         /\ Shown \in Seq({"user", "assistant"} \X Messages)
         /\ Absorbed.unresolved <=>
              (state.unresolved \/ \E i \in Pending(state) : disp[i] \in {"uncertain", "inflight"})
<1>1. TypeOK /\ OrderInv /\ state \in States /\ Steers \in SUBSET Accepted /\ Steers \subseteq Messages
      /\ state.endedBy = None
  BY SettlingLoop DEF IInv
<1>2. Cardinality(Steers) \in Nat /\ InOrder(Steers) \in [1..Cardinality(Steers) -> Steers]
  BY <1>1, InOrderSeq
<1>3. Shown \in Seq({"user", "assistant"} \X Messages)
  <2>1. \A k \in 1..Cardinality(Steers) : <<"user", InOrder(Steers)[k]>> \in {"user", "assistant"} \X Messages
    BY <1>1, <1>2
  <2> QED
    BY <1>2, <2>1 DEF Shown
<1>4. Absorbs \subseteq Inputs
  BY <1>1, SettlingLoop, KnownInputs
<1>5. state.transcript \in Seq({"user", "assistant"} \X Messages)
  BY <1>1 DEF States
<1>6. state.transcript \o Shown \in Seq({"user", "assistant"} \X Messages)
  BY <1>3, <1>5
<1> DEFINE U == \E i \in Pending(state) : disp[i] \in {"uncertain", "inflight"}
<1>7. Absorbed = [state EXCEPT !.consumed = @ \cup Absorbs, !.transcript = @ \o Shown, !.unresolved = @ \/ U]
  <2>1. (state.consumed \cup Steers) \cup (Pending(state) \cap (Finishes \cup Stops)) = state.consumed \cup Absorbs
    BY DEF Absorbs
  <2> QED
    BY <2>1 DEF Absorbed, Shown
<1> HIDE DEF U, Absorbed
<1>8. /\ Absorbed.consumed = state.consumed \cup Absorbs
      /\ Absorbed.active = state.active /\ Absorbed.published = state.published
      /\ Absorbed.endedBy = None /\ Absorbed.waiting = state.waiting
      /\ Absorbed.transcript = state.transcript \o Shown
      /\ Absorbed.unresolved = (state.unresolved \/ U)
  BY <1>1, <1>7 DEF States
<1>9. Absorbed \in States
  <2>1. state.consumed \cup Absorbs \in SUBSET Inputs /\ (state.unresolved \/ U) \in BOOLEAN
    BY <1>1, <1>4 DEF States
  <2> QED
    BY <1>1, <1>6, <1>7, <2>1 DEF States
<1> QED
  BY <1>3, <1>8, <1>9 DEF U

LEMMA UnresolvedEffect ==
  ASSUME IInv, SettleUnresolved
  PROVE  /\ Takes(Absorbs) /\ state'.active = state.active /\ state'.published = state.published
         /\ state'.endedBy = None /\ state'.unresolved = TRUE
         /\ state'.transcript = state.transcript \o Shown
<1> DEFINE s == [Absorbed EXCEPT !.unresolved = @ \/ (answer \in Unresolved /\ ~UnconfirmedStop)]
<1>1. pc = "settle" /\ s.unresolved /\ Commit(s)
  BY DEF SettleUnresolved
<1>2. Absorbed \in States
  BY <1>1, AbsorbedEffect
<1> HIDE DEF Absorbed
<1>3. /\ s \in States /\ s.active = Absorbed.active /\ s.published = Absorbed.published
      /\ s.endedBy = Absorbed.endedBy /\ s.transcript = Absorbed.transcript /\ s.consumed = Absorbed.consumed
  <2>1. (Absorbed.unresolved \/ (answer \in Unresolved /\ ~UnconfirmedStop)) \in BOOLEAN
    OBVIOUS
  <2> QED
    BY <1>2, <2>1 DEF States
<1> HIDE DEF s
<1>4. s.unresolved = TRUE
  BY <1>1, <1>3 DEF States
<1>5. Takes(Absorbs) /\ state' = s
  BY <1>1, <1>3, AbsorbedEffect, SettlingLoop, Committing
<1> QED
  BY <1>1, <1>3, <1>4, <1>5, AbsorbedEffect

Said == IF answer = "chat" THEN <<<<"assistant", state.active>>>> ELSE <<>>

LEMMA SettleEffect ==
  ASSUME IInv, Settle
  PROVE  /\ Takes(Absorbs) /\ state'.active = None /\ state'.published = state.published
         /\ state'.endedBy = IF Finish THEN "human" ELSE IF answer = "end" THEN "agent" ELSE None
         /\ state'.endedBy = Settled.endedBy
         /\ state'.unresolved = FALSE
         /\ ~\E i \in Pending(state) : disp[i] \in {"uncertain", "inflight"}
         /\ state'.transcript = state.transcript \o Shown \o Said
<1> DEFINE by == IF Finish THEN "human" ELSE IF answer = "end" THEN "agent" ELSE None
<1>1. pc = "settle" /\ ~Absorbed.unresolved /\ Commit(Settled)
  BY DEF Settle, Clear
<1>2. /\ Absorbed \in States /\ state \in States /\ state.active \in Messages
      /\ Absorbed.transcript = state.transcript \o Shown
  BY <1>1, AbsorbedEffect, SettlingLoop DEF States
<1>3. Settled = [Absorbed EXCEPT !.active = None, !.endedBy = by, !.waiting = (by = None),
                                 !.transcript = @ \o Said]
  BY DEF Settled, Said
<1>4. Said \in Seq({"user", "assistant"} \X Messages)
  <2> DEFINE E == {"user", "assistant"} \X Messages
  <2>1. <<"assistant", state.active>> \in E
    BY <1>2
  <2> HIDE DEF E
  <2>2. <<>> \in Seq(E) /\ \A e \in E : <<e>> \in Seq(E)
    OBVIOUS
  <2>3. Said \in Seq(E)
    BY <2>1, <2>2 DEF Said
  <2> QED
    BY <2>3 DEF E
<1>5. by \in {None, "agent", "human"} /\ (by = None) \in BOOLEAN
  OBVIOUS
<1> HIDE DEF by, Settled, Absorbed, Said
<1>6. Absorbed.transcript \o Said \in Seq({"user", "assistant"} \X Messages)
  <2> DEFINE E == {"user", "assistant"} \X Messages
  <2>1. Absorbed.transcript \in Seq(E)
    BY <1>2 DEF States
  <2> HIDE DEF E
  <2>2. \A t, u \in Seq(E) : t \o u \in Seq(E)
    OBVIOUS
  <2> QED
    BY <1>4, <2>1, <2>2 DEF E
<1>7. Settled \in States
  BY <1>2, <1>3, <1>5, <1>6 DEF States
<1>8. /\ Settled.active = None /\ Settled.endedBy = by
      /\ Settled.transcript = Absorbed.transcript \o Said
      /\ Settled.published = Absorbed.published /\ Settled.unresolved = Absorbed.unresolved
      /\ Settled.consumed = Absorbed.consumed
  BY <1>2, <1>3 DEF States
<1>9. Settled.unresolved = FALSE
  BY <1>1, <1>7, <1>8 DEF States
<1>10. Settled.consumed = state.consumed \cup Absorbs /\ Absorbs \in SUBSET Pending(state)
  BY <1>1, <1>8, AbsorbedEffect, SettlingLoop
<1>11. Takes(Absorbs) /\ state' = Settled
  BY <1>1, <1>7, <1>10, Committing
<1> QED
  BY <1>1, <1>2, <1>8, <1>9, <1>11, AbsorbedEffect DEF by

-----------------------------------------------------------------------------
(* What is at the head of a queue *)

\* The input the loop looks at is one that it has still to look at.
LEMMA QueueHead ==
  ASSUME IInv, pc \in {"assign", "steer", "steering"}, queue # {}
  PROVE  First(queue) \in queue /\ First(queue) \in Accepted \ Consumed /\ First(queue) \in Inputs
<1>1. TypeOK /\ queue \subseteq Accepted \ Consumed
  BY DEF IInv, QueueInv
<1> QED
  BY <1>1, FirstPlace, KnownInputs

\* So is the input that is marked when the scope ends.
LEMMA OpenHead ==
  ASSUME IInv, Open # {}
  PROVE  First(Open) \in Open /\ First(Open) \in Accepted \ Consumed /\ First(Open) \in Inputs
<1>1. TypeOK /\ Open \subseteq Accepted \ Consumed
  BY DEF IInv, Open
<1> QED
  BY <1>1, FirstPlace, KnownInputs

\* An input that is accepted is the last one.
LEMMA AcceptEffect ==
  ASSUME IInv, NEW i \in Inputs, Accept(i)
  PROVE  /\ Accepted' = Accepted \cup {i} /\ i \notin Accepted
         /\ Len(order) \in Nat /\ Len(order') = Len(order) + 1 /\ order' \in Seq(Inputs)
         /\ order'[Len(order')] = i /\ (\A k \in 1..Len(order) : order'[k] = order[k])
         /\ Accepted \cap Finishes = {} /\ i \notin Consumed
         /\ (queue # {} /\ queue \subseteq Accepted => First(queue)' = First(queue))
<1>1. order \in Seq(Inputs) /\ Len(order) \in Nat
  BY DEF IInv, TypeOK, JournalTypes
<1>2. order' = Append(order, i) /\ i \notin Accepted /\ Accepted \cap Finishes = {} /\ queue' = queue
  BY DEF Accept
<1>3. /\ Len(order') = Len(order) + 1 /\ order' \in Seq(Inputs) /\ order'[Len(order')] = i
      /\ \A k \in 1..Len(order) : order'[k] = order[k]
  BY <1>1, <1>2
<1>4. Accepted' = Accepted \cup {i}
  <2>1. 1..Len(order') = (1..Len(order)) \cup {Len(order')}
    BY <1>1, <1>3
  <2> QED
    BY <1>3, <2>1 DEF Accepted
<1>5. i \notin Consumed
  BY <1>2 DEF IInv, ConsumedInv, Consumed
<1>6. TypeOK
  BY DEF IInv
<1> QED
  BY <1>1, <1>2, <1>3, <1>4, <1>5, <1>6, FirstStays

\* An occurrence that has committed nothing.
LEMMA FreshState ==
  Fresh \in States /\ Fresh.active = None /\ Fresh.endedBy = None /\ Fresh.consumed = {} /\ Fresh.unresolved = FALSE
<1>1. <<>> \in Seq({"user", "assistant"} \X Messages)
  OBVIOUS
<1> QED
  BY <1>1 DEF Fresh, States

\* A commit that ends an occurrence, if it does, leaves no active input in it.
LEMMA OccurrencesKept ==
  ASSUME IInv, NEW S, Takes(S), state'.endedBy # None => state'.active = None
  PROVE  /\ \A o \in Occurrences : o > occ => saved'[o] = Fresh
         /\ \A o \in Occurrences : o < occ => saved'[o].endedBy = "agent"
         /\ \A o, p \in Occurrences : saved'[o].endedBy = None /\ o < p => saved'[p] = Fresh
         /\ \A o \in Occurrences : saved'[o].endedBy # None => saved'[o].active = None
<1>1. /\ occ \in Occurrences /\ saved'[occ] = state' /\ saved[occ].endedBy = None
      /\ \A o \in Occurrences : o # occ => saved'[o] = saved[o]
  BY DEF Takes
<1>2. /\ \A o \in Occurrences : o < occ => saved[o].endedBy = "agent"
      /\ \A o, p \in Occurrences : saved[o].endedBy = None /\ o < p => saved[p] = Fresh
      /\ \A o \in Occurrences : saved[o].endedBy # None => saved[o].active = None
  BY DEF IInv, OccurrenceInv
<1>3. \A o \in Occurrences : o < occ \/ o > occ => o # occ
  BY <1>1 DEF Occurrences
<1>4. ASSUME NEW o \in Occurrences, NEW p \in Occurrences, saved'[o].endedBy = None, o < p
      PROVE  saved'[p] = Fresh
  <2>1. saved[o].endedBy = None
    BY <1>1, <1>4
  <2>2. p # occ
    BY <1>2, <1>4, <2>1 DEF None
  <2> QED
    BY <1>1, <1>2, <1>4, <2>1, <2>2
<1>5. ASSUME NEW o \in Occurrences, o > occ PROVE saved'[o] = Fresh
  <2>1. occ < o
    BY <1>1, <1>5 DEF Occurrences
  <2> QED
    BY <1>1, <1>2, <1>3, <1>5, <2>1
<1> QED
  BY <1>1, <1>2, <1>3, <1>4, <1>5

\* The result of a turn is taken: the prompting message is shown, or nothing is.
LEMMA SettleInputEffect ==
  ASSUME IInv, SettleInput
  PROVE  /\ state \in States /\ state' \in States /\ state.active \in Messages /\ state = saved[occ]
         /\ occ \in Occurrences /\ state.endedBy = None
         /\ state'.active = state.active /\ state'.consumed = state.consumed
         /\ state'.endedBy = None /\ state'.unresolved = state.unresolved
         /\ \/ state' = state /\ ~(~state.published /\ (answer \in Replies \/ delivered))
            \/ /\ ~state.published /\ state'.published = TRUE
               /\ state'.transcript = Append(state.transcript, <<"user", state.active>>)
         /\ Grows(state.transcript, state'.transcript)
<1> DEFINE i == state.active
           shown == ~state.published /\ (answer \in Replies \/ delivered)
<1>1. /\ state \in States /\ i \in Messages /\ state = saved[occ] /\ occ \in Occurrences
      /\ state.endedBy = None
  BY DEF SettleInput, IInv, TypeOK, LoopTypes, States, TurnInv, StateInv, InLoop, OccurrenceInv, Owned
<1>2. CASE ~shown
  <2>1. state' = state
    BY <1>2 DEF SettleInput
  <2>2. Grows(state.transcript, state.transcript)
    <3>1. Len(state.transcript) \in Nat
      BY <1>1 DEF States
    <3> QED
      BY <3>1 DEF Grows
  <2> QED
    BY <1>1, <1>2, <2>1, <2>2
<1>3. CASE shown
  <2> DEFINE s == [state EXCEPT !.published = TRUE, !.transcript = Append(@, <<"user", i>>)]
             E == {"user", "assistant"} \X Messages
  <2>1. state' = s
    BY <1>3 DEF SettleInput
  <2>2. <<"user", i>> \in E /\ state.transcript \in Seq(E)
    BY <1>1 DEF States
  <2>3. Append(state.transcript, <<"user", i>>) \in Seq(E)
    <3> HIDE DEF E
    <3> QED
      BY <2>2
  <2>4. /\ s \in States /\ s.active = i /\ s.consumed = state.consumed /\ s.endedBy = state.endedBy
        /\ s.unresolved = state.unresolved /\ s.published = TRUE
        /\ s.transcript = Append(state.transcript, <<"user", i>>)
    BY <1>1, <2>3 DEF States
  <2>5. Grows(state.transcript, Append(state.transcript, <<"user", i>>))
    <3> HIDE DEF E, i
    <3> QED
      BY <2>2 DEF Grows
  <2> HIDE DEF s
  <2> QED
    BY <1>1, <1>3, <2>1, <2>4, <2>5
<1> QED
  BY <1>2, <1>3

-----------------------------------------------------------------------------
(* Transcripts *)

\* A transcript stays as it is: the occurrence consumes more, and takes a new input.
LEMMA TranscriptKept ==
  ASSUME NEW s \in States, NEW t \in States, TranscriptOK(s), t.transcript = s.transcript,
         s.consumed \subseteq t.consumed,
         \/ t.active = None
         \/ t.active = s.active /\ t.published = s.published
         \/ t.active \notin s.consumed /\ t.published = FALSE
  PROVE  TranscriptOK(t)
<1>1. t.transcript \in Seq({"user", "assistant"} \X Messages)
  BY DEF States
<1>2. ASSUME t.active # None, t.active \notin s.consumed
      PROVE  \A k \in 1..Len(t.transcript) : t.transcript[k] # <<"user", t.active>>
                                             /\ t.transcript[k] # <<"assistant", t.active>>
  BY <1>2 DEF TranscriptOK
<1> QED
  BY <1>1, <1>2 DEF TranscriptOK

\* Messages that were consumed and not shown are added.
Adds(s, t, n, f) ==
  /\ s.consumed \subseteq t.consumed /\ f \in [1..n -> t.consumed \cap Messages]
  /\ \A k, l \in 1..n : f[k] = f[l] => k = l
  /\ \A k \in 1..n : \A l \in 1..Len(s.transcript) : s.transcript[l] # <<"user", f[k]>>
  /\ t.transcript = s.transcript \o [k \in 1..n |-> <<"user", f[k]>>]

\* Then the entries are those there were and the new ones, each once.
Added(s, t, n, f) ==
  /\ \A k \in 1..Len(t.transcript) : t.transcript[k][2] \in t.consumed
  /\ \A k, l \in 1..Len(t.transcript) : t.transcript[k] = t.transcript[l] => k = l
  /\ \A k \in 1..Len(t.transcript) : t.transcript[k][1] = "assistant" =>
       \E l \in 1..(k - 1) : t.transcript[l] = <<"user", t.transcript[k][2]>>
  /\ \A e : (\E k \in 1..Len(t.transcript) : t.transcript[k] = e) <=>
            \/ \E k \in 1..Len(s.transcript) : s.transcript[k] = e
            \/ \E k \in 1..n : e = <<"user", f[k]>>
  /\ Grows(s.transcript, t.transcript)

LEMMA TranscriptGrows ==
  ASSUME NEW s \in States, NEW t \in States, NEW n \in Nat, NEW f, TranscriptOK(s), Adds(s, t, n, f)
  PROVE  Added(s, t, n, f)
<1> DEFINE T == s.transcript
           U == t.transcript
           E == {"user", "assistant"} \X Messages
           B == [k \in 1..n |-> <<"user", f[k]>>]
<1>1. T \in Seq(E) /\ Len(T) \in Nat
  BY DEF States
<1>2. B \in Seq(E) /\ Len(B) = n /\ \A k \in 1..n : B[k] = <<"user", f[k]>>
  <2>1. \A k \in 1..n : <<"user", f[k]>> \in E
    BY DEF Adds
  <2>2. B \in [1..n -> E] /\ \A k \in 1..n : B[k] = <<"user", f[k]>>
    BY <2>1
  <2> HIDE DEF E, B
  <2>3. B \in Seq(E)
    BY <2>2
  <2>4. Len(B) = n
    BY <2>2, <2>3
  <2> QED
    BY <2>2, <2>3, <2>4
<1>3. U = T \o B /\ s.consumed \subseteq t.consumed /\ \A k \in 1..n : f[k] \in t.consumed
  BY DEF Adds
<1> HIDE DEF T, U, E, B
<1>4. Len(U) = Len(T) + n /\ \A k \in 1..Len(U) : U[k] = IF k <= Len(T) THEN T[k] ELSE B[k - Len(T)]
  <2>1. Len(U) = Len(T) + n
    BY <1>1, <1>2, <1>3, ConcatProperties
  <2>2. \A k \in 1..(Len(T) + Len(B)) : U[k] = IF k <= Len(T) THEN T[k] ELSE B[k - Len(T)]
    BY <1>1, <1>2, <1>3, ConcatProperties
  <2> QED
    BY <1>2, <2>1, <2>2
<1>5. \A k \in 1..Len(U) : IF k <= Len(T) THEN k \in 1..Len(T) ELSE k - Len(T) \in 1..n
  BY <1>1, <1>4
<1>6. \A k \in 1..n : k + Len(T) \in 1..Len(U) /\ ~(k + Len(T) <= Len(T)) /\ (k + Len(T)) - Len(T) = k
  BY <1>1, <1>4
<1>7. /\ \A k \in 1..Len(T) : T[k][2] \in s.consumed
      /\ \A k, l \in 1..Len(T) : T[k] = T[l] => k = l
      /\ \A k \in 1..Len(T) : T[k][1] = "assistant" => \E l \in 1..(k - 1) : T[l] = <<"user", T[k][2]>>
      /\ \A k \in 1..n : \A l \in 1..Len(T) : T[l] # <<"user", f[k]>>
      /\ \A k, l \in 1..n : f[k] = f[l] => k = l
  BY DEF TranscriptOK, Adds, T
<1>8. ASSUME NEW k \in 1..Len(U) PROVE U[k][2] \in t.consumed
  <2>1. CASE k <= Len(T)
    BY <1>3, <1>4, <1>5, <1>7, <2>1
  <2>2. CASE ~(k <= Len(T))
    <3>1. k - Len(T) \in 1..n /\ U[k] = <<"user", f[k - Len(T)]>>
      BY <1>2, <1>4, <1>5, <2>2
    <3> QED
      BY <1>3, <3>1
  <2> QED
    BY <2>1, <2>2
<1>9. ASSUME NEW k \in 1..Len(U), NEW l \in 1..Len(U), U[k] = U[l] PROVE k = l
  <2>1. CASE k <= Len(T) /\ l <= Len(T)
    BY <1>4, <1>5, <1>7, <1>9, <2>1
  <2>2. CASE k <= Len(T) /\ ~(l <= Len(T))
    <3>1. U[k] = T[k] /\ k \in 1..Len(T) /\ l - Len(T) \in 1..n /\ U[l] = <<"user", f[l - Len(T)]>>
      BY <1>2, <1>4, <1>5, <2>2
    <3> QED
      BY <1>7, <1>9, <3>1
  <2>3. CASE ~(k <= Len(T)) /\ l <= Len(T)
    <3>1. U[l] = T[l] /\ l \in 1..Len(T) /\ k - Len(T) \in 1..n /\ U[k] = <<"user", f[k - Len(T)]>>
      BY <1>2, <1>4, <1>5, <2>3
    <3> QED
      BY <1>7, <1>9, <3>1
  <2>4. CASE ~(k <= Len(T)) /\ ~(l <= Len(T))
    <3>1. k - Len(T) \in 1..n /\ l - Len(T) \in 1..n /\ U[k] = <<"user", f[k - Len(T)]>>
          /\ U[l] = <<"user", f[l - Len(T)]>>
      BY <1>2, <1>4, <1>5, <2>4
    <3>2. f[k - Len(T)] = f[l - Len(T)]
      <4>1. \A a, b : <<"user", a>> = <<"user", b>> => a = b
        OBVIOUS
      <4>2. <<"user", f[k - Len(T)]>> = <<"user", f[l - Len(T)]>>
        BY <1>9, <3>1
      <4> QED
        BY <4>1, <4>2
    <3>3. k - Len(T) = l - Len(T)
      BY <1>7, <3>1, <3>2
    <3> QED
      BY <1>1, <1>4, <3>3
  <2> QED
    BY <2>1, <2>2, <2>3, <2>4
<1>10. ASSUME NEW k \in 1..Len(U), U[k][1] = "assistant" PROVE \E l \in 1..(k - 1) : U[l] = <<"user", U[k][2]>>
  <2>1. k <= Len(T)
    BY <1>2, <1>4, <1>5, <1>10
  <2>2. PICK l \in 1..(k - 1) : T[l] = <<"user", T[k][2]>>
    BY <1>4, <1>5, <1>7, <1>10, <2>1
  <2>3. l \in 1..Len(U) /\ l <= Len(T)
    BY <1>1, <1>4, <2>1
  <2> QED
    BY <1>4, <2>1, <2>2, <2>3
<1>11. ASSUME NEW e
       PROVE  (\E k \in 1..Len(U) : U[k] = e) <=>
                (\E k \in 1..Len(T) : T[k] = e) \/ (\E k \in 1..n : e = <<"user", f[k]>>)
  <2>1. \A k \in 1..Len(T) : k \in 1..Len(U) /\ k <= Len(T)
    BY <1>1, <1>4
  <2>2. \A k \in 1..Len(T) : U[k] = T[k]
    BY <1>4, <2>1
  <2>3. \A k \in 1..n : U[k + Len(T)] = <<"user", f[k]>>
    BY <1>2, <1>4, <1>6
  <2>4. \A k \in 1..Len(U) : \/ k \in 1..Len(T) /\ U[k] = T[k]
                             \/ k - Len(T) \in 1..n /\ U[k] = <<"user", f[k - Len(T)]>>
    BY <1>2, <1>4, <1>5
  <2>5. ASSUME NEW k \in 1..Len(U), U[k] = e
        PROVE  (\E j \in 1..Len(T) : T[j] = e) \/ (\E j \in 1..n : e = <<"user", f[j]>>)
    BY <2>4, <2>5
  <2>6. ASSUME NEW k \in 1..n, e = <<"user", f[k]>> PROVE \E j \in 1..Len(U) : U[j] = e
    BY <1>6, <2>3, <2>6
  <2>7. ASSUME NEW k \in 1..Len(T), T[k] = e PROVE \E j \in 1..Len(U) : U[j] = e
    BY <2>1, <2>2, <2>7
  <2> QED
    BY <2>5, <2>6, <2>7
<1>12. Grows(T, U)
  <2>1. Len(T) <= Len(U) /\ \A k \in 1..Len(T) : k \in 1..Len(U) /\ k <= Len(T)
    BY <1>1, <1>4
  <2> QED
    BY <1>4, <2>1 DEF Grows
<1> QED
  BY <1>8, <1>9, <1>10, <1>11, <1>12 DEF T, U, Added

\* A reply is added behind its message.
LEMMA TranscriptReplied ==
  ASSUME NEW s \in States, NEW t \in States, TranscriptOK(s), s.consumed = t.consumed, s.published,
         s.active # None, s.active \in s.consumed, t.active = None,
         t.transcript = s.transcript \o <<<<"assistant", s.active>>>>
  PROVE  TranscriptOK(t)
<1> DEFINE T == s.transcript
           U == t.transcript
           E == {"user", "assistant"} \X Messages
           e == <<"assistant", s.active>>
<1>1. T \in Seq(E) /\ Len(T) \in Nat /\ e \in E
  BY DEF States
<1>2. U = T \o <<e>>
  OBVIOUS
<1>3. e[1] = "assistant" /\ e[2] = s.active
  OBVIOUS
<1> HIDE DEF T, U, E, e
<1>4. Len(U) = Len(T) + 1 /\ U[Len(U)] = e /\ \A k \in 1..Len(T) : U[k] = T[k]
  BY <1>1, <1>2
<1>5. \A k \in 1..Len(U) : k \in 1..Len(T) \/ k = Len(U)
  BY <1>1, <1>4
<1>6. /\ \A k \in 1..Len(T) : T[k][2] \in s.consumed
      /\ \A k, l \in 1..Len(T) : T[k] = T[l] => k = l
      /\ \A k \in 1..Len(T) : T[k][1] = "assistant" => \E l \in 1..(k - 1) : T[l] = <<"user", T[k][2]>>
      /\ \E k \in 1..Len(T) : T[k] = <<"user", s.active>>
      /\ \A k \in 1..Len(T) : T[k] # e
  BY DEF TranscriptOK, T, e
<1>7. \A k \in 1..Len(U) : U[k][2] \in t.consumed
  BY <1>3, <1>4, <1>5, <1>6
<1>8. \A k, l \in 1..Len(U) : U[k] = U[l] => k = l
  BY <1>4, <1>5, <1>6
<1>9. ASSUME NEW k \in 1..Len(U), U[k][1] = "assistant" PROVE \E l \in 1..(k - 1) : U[l] = <<"user", U[k][2]>>
  <2>1. CASE k \in 1..Len(T)
    <3>1. PICK l \in 1..(k - 1) : T[l] = <<"user", T[k][2]>>
      BY <1>4, <1>6, <1>9, <2>1
    <3>2. l \in 1..Len(T)
      BY <1>1, <2>1
    <3> QED
      BY <1>4, <2>1, <3>1, <3>2
  <2>2. CASE k = Len(U)
    <3>1. PICK l \in 1..Len(T) : T[l] = <<"user", s.active>>
      BY <1>6
    <3>2. l \in 1..(k - 1)
      BY <1>1, <1>4, <2>2
    <3> QED
      BY <1>3, <1>4, <2>2, <3>1, <3>2
  <2> QED
    BY <1>5, <2>1, <2>2
<1> QED
  BY <1>7, <1>8, <1>9 DEF TranscriptOK, U

\* The prompting message is shown.
LEMMA TranscriptPublished ==
  ASSUME NEW s \in States, NEW t \in States, TranscriptOK(s), s.consumed = t.consumed, ~s.published,
         s.active # None, s.active \in s.consumed, t.active = s.active, t.published,
         t.transcript = Append(s.transcript, <<"user", s.active>>)
  PROVE  TranscriptOK(t)
<1> DEFINE f == [k \in 1..1 |-> s.active]
<1>1. s.active \in Messages
  BY DEF States
<1>2. f \in [1..1 -> t.consumed \cap Messages] /\ \A k, l \in 1..1 : f[k] = f[l] => k = l
  BY <1>1
<1>3. \A k \in 1..1 : f[k] = s.active
  OBVIOUS
<1>4. \A l \in 1..Len(s.transcript) : s.transcript[l] # <<"user", s.active>>
  BY DEF TranscriptOK
<1>5. t.transcript = s.transcript \o [k \in 1..1 |-> <<"user", f[k]>>]
  <2>1. [k \in 1..1 |-> <<"user", f[k]>>] = <<<<"user", s.active>>>>
    BY <1>3
  <2>2. s.transcript \in Seq({"user", "assistant"} \X Messages)
    BY DEF States
  <2>3. Append(s.transcript, <<"user", s.active>>) = s.transcript \o <<<<"user", s.active>>>>
    BY <2>2
  <2> QED
    BY <2>1, <2>3
<1> HIDE DEF f
<1>6. 1 \in Nat /\ s.consumed \subseteq t.consumed
  OBVIOUS
<1>7. \A k \in 1..1 : \A l \in 1..Len(s.transcript) : s.transcript[l] # <<"user", f[k]>>
  BY <1>3, <1>4
<1>8. Added(s, t, 1, f)
  <2>1. Adds(s, t, 1, f)
    BY <1>2, <1>5, <1>6, <1>7 DEF Adds
  <2> QED
    BY <1>6, <2>1, TranscriptGrows
<1>9. \E k \in 1..Len(t.transcript) : t.transcript[k] = <<"user", s.active>>
  <2>1. \E k \in 1..1 : <<"user", s.active>> = <<"user", f[k]>>
    BY <1>3
  <2> QED
    BY <1>8, <2>1 DEF Added
<1>10. ~\E k \in 1..Len(t.transcript) : t.transcript[k] = <<"assistant", s.active>>
  <2>1. \A k \in 1..1 : <<"assistant", s.active>> # <<"user", f[k]>>
    OBVIOUS
  <2>2. ~\E k \in 1..Len(s.transcript) : s.transcript[k] = <<"assistant", s.active>>
    BY DEF TranscriptOK
  <2> QED
    BY <1>8, <2>1, <2>2 DEF Added
<1> QED
  BY <1>8, <1>9, <1>10 DEF TranscriptOK, Added

-----------------------------------------------------------------------------
(* What every commit keeps *)

Doubtful == {"inflight", "delivered", "uncertain"}

\* What makes a commit that takes the inputs S a good one: an input that becomes active
\* is a message that was not steered, nothing in doubt and no Finish is left behind, and
\* the transcript goes on to show what it has shown and the reply.
Sound(S) ==
  /\ \/ state'.active \in {None, state.active}
     \/ /\ state.active = None /\ state'.active \in S \cap Messages /\ state'.active \notin Steered
        /\ disp[state'.active] \notin {"uncertain", "inflight"} /\ Accepted \cap Finishes = {}
  /\ state'.active = None =>
       \A i \in (Messages \cap Accepted) \ (Consumed \cup S) : disp[i] \notin Doubtful
  /\ S \cap Finishes # {} \/ (saved[occ].unresolved /\ saved[occ].active # None) =>
       state'.endedBy = "human" \/ (state'.unresolved /\ state'.active # None)
  /\ state.active \notin {None, state'.active} /\ outcome[state.active] = "chat" /\ ~abandoned =>
       \E k \in 1..Len(state'.transcript) : state'.transcript[k] = <<"assistant", state.active>>
  /\ Grows(saved[occ].transcript, state'.transcript)
  /\ TranscriptOK(state')

\* An owner that is idle with no active input: no occurrence has one, none was ended by
\* a human, no Finish is consumed and no message is in doubt.
LEMMA NothingActive ==
  ASSUME IInv, pc = "look", state.active = None
  PROVE  /\ \A o \in Occurrences : saved[o].active = None /\ saved[o].endedBy # "human"
         /\ Consumed \cap Finishes = {}
         /\ \A i \in (Messages \cap Accepted) \ Consumed : disp[i] \notin Doubtful
<1>1. state = saved[occ] /\ occ \in Occurrences /\ state.endedBy = None
  BY IdleLoop
<1>2. ASSUME NEW o \in Occurrences PROVE saved[o].active = None /\ saved[o].endedBy # "human"
  <2>1. o \in Int /\ occ \in Int
    BY <1>1 DEF Occurrences
  <2>2. CASE o = occ
    BY <1>1, <2>2 DEF None
  <2>3. CASE o < occ
    BY <2>3 DEF IInv, OccurrenceInv, None
  <2>4. CASE o > occ
    <3>1. saved[o] = Fresh
      BY <1>1, <2>1, <2>4 DEF IInv, OccurrenceInv
    <3> QED
      BY <3>1, FreshState DEF None
  <2> QED
    BY <2>1, <2>2, <2>3, <2>4
<1>3. Consumed \cap Finishes = {}
  BY <1>2 DEF IInv, FinishInv
<1>4. \A i \in (Messages \cap Accepted) \ Consumed : disp[i] \notin Doubtful
  BY <1>2 DEF IInv, DoubtInv, Doubtful
<1> QED
  BY <1>2, <1>3, <1>4

\* So when it does not find a Finish, and has an input that is not in doubt, none was
\* accepted.
LEMMA NoFinishBehind ==
  ASSUME IInv, pc = "look", state.active = None, ~Finishing,
         NEW i \in Pending(state), disp[i] # "uncertain"
  PROVE  Accepted \cap Finishes = {}
<1>1. SUFFICES ASSUME NEW f \in Accepted \cap Finishes PROVE FALSE
  OBVIOUS
<1>2. f \notin Consumed
  BY NothingActive
<1>3. state.consumed \subseteq Consumed
  BY IdleLoop, KnownInputs DEF IInv
<1>4. disp[f] = "unprocessed"
  BY <1>2, <1>3 DEF Finishing, Pending
<1>5. Open = {}
  BY <1>4 DEF IInv, FinishInv
<1>6. i \in Open
  BY DEF Pending, Open
<1> QED
  BY <1>5, <1>6

\* The loop's transcript is in order.
LEMMA LoopTranscript ==
  ASSUME IInv, pc \in InLoop \cup {"settle"}
  PROVE  /\ TranscriptOK(state) /\ Grows(saved[occ].transcript, state.transcript) /\ state \in States
         /\ state.active # None => state.active \in state.consumed
<1>1. occ \in Occurrences /\ state \in States /\ TranscriptOK(saved[occ])
  BY DEF IInv, OccurrenceInv, Owned, TypeOK, LoopTypes, TranscriptInv
<1>2. saved[occ].active # None => saved[occ].active \in saved[occ].consumed
  BY <1>1 DEF IInv, ConsumedInv
<1>3. CASE pc = "settle"
  BY <1>1, <1>2, <1>3 DEF IInv, StateInv, TranscriptInv
<1>4. CASE pc \in InLoop
  <2>1. state = saved[occ]
    BY <1>4 DEF IInv, StateInv
  <2>2. Len(state.transcript) \in Nat
    BY <1>1 DEF States
  <2>3. Grows(state.transcript, state.transcript)
    BY <2>2 DEF Grows
  <2> QED
    BY <1>1, <1>2, <2>1, <2>3
<1> QED
  BY <1>3, <1>4

LEMMA QuietSound ==
  ASSUME IInv, pc = "look", NEW S, Takes(S), Keeps(state', state), S \cap Finishes = {}
  PROVE  Sound(S)
<1>1. state = saved[occ] /\ state \in States
  BY IdleLoop
<1>2. TranscriptOK(state) /\ Grows(saved[occ].transcript, state.transcript)
  BY LoopTranscript DEF InLoop
<1>3. TranscriptOK(state')
  <2>1. state' \in States /\ state.consumed \subseteq state'.consumed
    BY DEF Takes
  <2>2. state'.transcript = state.transcript /\ state'.active = state.active /\ state'.published = state.published
    BY DEF Keeps
  <2> QED
    BY <1>1, <1>2, <2>1, <2>2, TranscriptKept
<1>4. state'.active = None => \A i \in (Messages \cap Accepted) \ (Consumed \cup S) : disp[i] \notin Doubtful
  BY NothingActive DEF Keeps
<1> QED
  BY <1>1, <1>2, <1>3, <1>4 DEF Sound, Keeps

LEMMA TakeFinishSound ==
  ASSUME IInv, TakeFinish
  PROVE  \E S : Takes(S) /\ Sound(S)
<1>1. PICK f \in Pending(state) \cap Finishes :
           /\ Takes({f}) /\ state.active = None /\ state'.active = None /\ state'.endedBy = "human"
           /\ state'.transcript = state.transcript
  BY TakeFinishEffect
<1>2. pc = "look"
  BY DEF TakeFinish, Idle
<1>3. TranscriptOK(state) /\ Grows(saved[occ].transcript, state.transcript) /\ state \in States
  BY <1>2, LoopTranscript DEF InLoop
<1>4. TranscriptOK(state')
  <2>1. state' \in States /\ state.consumed \subseteq state'.consumed
    BY <1>1 DEF Takes
  <2> QED
    BY <1>1, <1>3, <2>1, TranscriptKept
<1>5. \A i \in (Messages \cap Accepted) \ (Consumed \cup {f}) : disp[i] \notin Doubtful
  BY <1>1, <1>2, NothingActive
<1>6. Sound({f})
  BY <1>1, <1>3, <1>4, <1>5 DEF Sound
<1> QED
  BY <1>1, <1>6

LEMMA StartTurnSound ==
  ASSUME IInv, StartTurn
  PROVE  \E S : Takes(S) /\ Sound(S)
<1>1. pc = "look" /\ ~Finishing
  BY DEF StartTurn, Ready, Idle
<1>2. CASE Takes({}) /\ Keeps(state', state)
  BY <1>1, <1>2, QuietSound
<1>3. ASSUME NEW i \in Pending(state) \cap Messages,
             Takes({i}), state.active = None, state'.active = i, state'.published = FALSE,
             state'.transcript = state.transcript, disp[i] \notin {"uncertain", "inflight"}
      PROVE  Sound({i})
  <2>1. TranscriptOK(state) /\ Grows(saved[occ].transcript, state.transcript) /\ state \in States
    BY <1>1, LoopTranscript DEF InLoop
  <2>2. i \in Accepted \ Consumed /\ i \notin state.consumed /\ i # None /\ i \notin Finishes
    BY InputsAreApart DEF Pending, Inputs
  <2>3. i \notin Steered
    <3>1. disp[i] \notin Doubtful
      BY <1>1, <1>3, <2>2, NothingActive
    <3>2. disp[i] # "unprocessed"
      BY DEF Pending
    <3> QED
      BY <3>1, <3>2 DEF IInv, SteeredInv, Doubtful
  <2>4. Accepted \cap Finishes = {}
    BY <1>1, <1>3, NoFinishBehind
  <2>5. TranscriptOK(state')
    <3>1. state' \in States /\ state.consumed \subseteq state'.consumed
      BY <1>3 DEF Takes
    <3> QED
      BY <1>3, <2>1, <2>2, <3>1, TranscriptKept
  <2>6. saved[occ].active = None
    BY <1>3 DEF Takes
  <2> QED
    BY <1>3, <2>1, <2>2, <2>3, <2>4, <2>5, <2>6 DEF Sound
<1> QED
  BY <1>2, <1>3, StartTurnEffect

\* The messages that were steered into a turn are shown behind it.
LEMMA AbsorbedTranscript ==
  ASSUME IInv, pc = "settle"
  PROVE  TranscriptOK(Absorbed) /\ Grows(saved[occ].transcript, Absorbed.transcript)
<1> DEFINE f == InOrder(Steers)
           n == Cardinality(Steers)
<1>1. /\ TranscriptOK(state) /\ Grows(saved[occ].transcript, state.transcript) /\ state \in States
      /\ state.active \in state.consumed /\ state.active # None
  BY LoopTranscript, SettlingLoop
<1>2. n \in Nat /\ f \in [1..n -> Steers] /\ \A k, l \in 1..n : f[k] = f[l] => k = l
  BY SettlingLoop, InOrderSeq DEF IInv
<1>3. Steers \subseteq Messages /\ Steers \cap state.consumed = {} /\ Steers \subseteq Absorbs
  BY SettlingLoop DEF Absorbs
<1>4. /\ Absorbed \in States /\ Absorbed.consumed = state.consumed \cup Absorbs
      /\ Absorbed.active = state.active /\ Absorbed.published = state.published
      /\ Absorbed.transcript = state.transcript \o [k \in 1..n |-> <<"user", f[k]>>]
  BY AbsorbedEffect DEF Shown
<1> HIDE DEF f, n, Absorbed, Steers
<1>5. \A k \in 1..n : \A l \in 1..Len(state.transcript) : state.transcript[l] # <<"user", f[k]>>
  <2>1. \A l \in 1..Len(state.transcript) : state.transcript[l][2] \in state.consumed
    BY <1>1 DEF TranscriptOK
  <2>2. \A k \in 1..n : f[k] \notin state.consumed
    BY <1>2, <1>3
  <2> QED
    BY <2>1, <2>2
<1>6. Adds(state, Absorbed, n, f)
  <2>1. f \in [1..n -> Absorbed.consumed \cap Messages]
    BY <1>2, <1>3, <1>4
  <2> QED
    BY <1>2, <1>4, <1>5, <2>1 DEF Adds
<1>7. Added(state, Absorbed, n, f)
  BY <1>1, <1>2, <1>4, <1>6, TranscriptGrows
<1>8. \A k \in 1..n : f[k] # state.active
  BY <1>1, <1>2, <1>3
<1>9. (\E k \in 1..Len(Absorbed.transcript) : Absorbed.transcript[k] = <<"user", state.active>>) <=> state.published
  <2>1. \A k \in 1..n : <<"user", state.active>> # <<"user", f[k]>>
    BY <1>8
  <2>2. (\E k \in 1..Len(state.transcript) : state.transcript[k] = <<"user", state.active>>) <=> state.published
    BY <1>1 DEF TranscriptOK
  <2>3. \A e : (\E k \in 1..Len(Absorbed.transcript) : Absorbed.transcript[k] = e) <=>
               \/ \E k \in 1..Len(state.transcript) : state.transcript[k] = e
               \/ \E k \in 1..n : e = <<"user", f[k]>>
    BY <1>7 DEF Added
  <2> QED
    BY <2>1, <2>2, <2>3
<1>10. ~\E k \in 1..Len(Absorbed.transcript) : Absorbed.transcript[k] = <<"assistant", state.active>>
  <2>1. \A k \in 1..n : <<"assistant", state.active>> # <<"user", f[k]>>
    OBVIOUS
  <2>2. ~\E k \in 1..Len(state.transcript) : state.transcript[k] = <<"assistant", state.active>>
    BY <1>1 DEF TranscriptOK
  <2> QED
    BY <1>7, <2>1, <2>2 DEF Added
<1>11. TranscriptOK(Absorbed)
  BY <1>4, <1>7, <1>9, <1>10 DEF TranscriptOK, Added
<1>12. Grows(saved[occ].transcript, Absorbed.transcript)
  <2>1. Grows(state.transcript, Absorbed.transcript)
    BY <1>7 DEF Added
  <2>2. saved[occ] \in States
    BY SettlingLoop, KnownInputs DEF IInv
  <2>3. /\ Len(saved[occ].transcript) \in Nat /\ Len(state.transcript) \in Nat
        /\ Len(Absorbed.transcript) \in Nat
    <3>1. \A s \in States : s.transcript \in Seq({"user", "assistant"} \X Messages)
      BY DEF States
    <3>2. \A s \in States : Len(s.transcript) \in Nat
      BY <3>1
    <3> QED
      BY <1>1, <1>4, <2>2, <3>2
  <2> QED
    BY <1>1, <2>1, <2>3 DEF Grows
<1> QED
  BY <1>11, <1>12

LEMMA UnresolvedSound ==
  ASSUME IInv, SettleUnresolved
  PROVE  \E S : Takes(S) /\ Sound(S)
<1>1. /\ Takes(Absorbs) /\ state'.active = state.active /\ state'.published = state.published
      /\ state'.unresolved = TRUE /\ state'.transcript = state.transcript \o Shown
  BY UnresolvedEffect
<1>2. pc = "settle"
  BY DEF SettleUnresolved
<1>3. state.active # None
  BY <1>2, SettlingLoop
<1>4. /\ Absorbed \in States /\ state' \in States /\ Absorbed.consumed = state'.consumed
      /\ Absorbed.active = state'.active /\ Absorbed.published = state'.published
      /\ Absorbed.transcript = state'.transcript
  BY <1>1, <1>2, AbsorbedEffect DEF Takes
<1>5. TranscriptOK(Absorbed) /\ Grows(saved[occ].transcript, Absorbed.transcript)
  BY <1>2, AbsorbedTranscript
<1> HIDE DEF Absorbed
<1>6. TranscriptOK(state') /\ Grows(saved[occ].transcript, state'.transcript)
  <2>1. TranscriptOK(state')
    BY <1>4, <1>5, TranscriptKept
  <2> QED
    BY <1>4, <1>5, <2>1
<1>7. Sound(Absorbs)
  BY <1>1, <1>3, <1>6 DEF Sound
<1> QED
  BY <1>1, <1>7

LEMMA SettleSound ==
  ASSUME IInv, Settle
  PROVE  \E S : Takes(S) /\ Sound(S)
<1>1. /\ Takes(Absorbs) /\ state'.active = None /\ state'.published = state.published
      /\ Finish => state'.endedBy = "human"
      /\ ~\E i \in Pending(state) : disp[i] \in {"uncertain", "inflight"}
      /\ state'.transcript = state.transcript \o Shown \o Said
  BY SettleEffect
<1>2. pc = "settle" /\ ~Absorbed.unresolved
  BY DEF Settle, Clear
<1>3. /\ state.active \in Messages /\ state.active \in state.consumed /\ state.active # None
      /\ state.consumed \subseteq Consumed
  <2>1. saved[occ].consumed \subseteq Consumed /\ state.consumed = saved[occ].consumed
    BY <1>2, SettlingLoop, KnownInputs DEF IInv, StateInv
  <2> QED
    BY <1>2, <2>1, SettlingLoop, LoopTranscript DEF States
<1>4. /\ Absorbed \in States /\ state' \in States /\ Absorbed.consumed = state'.consumed
      /\ Absorbed.active = state.active /\ Absorbed.published = state.published
      /\ state'.transcript = Absorbed.transcript \o Said
      /\ state.consumed \subseteq Absorbed.consumed
      /\ state.unresolved = FALSE
  <2>1. Absorbed.transcript = state.transcript \o Shown
    BY <1>2, AbsorbedEffect
  <2>2. state \in States /\ ~state.unresolved
    BY <1>2, AbsorbedEffect, SettlingLoop
  <2> QED
    BY <1>1, <1>2, <2>1, <2>2, AbsorbedEffect DEF Takes, States
<1>5. TranscriptOK(Absorbed) /\ Grows(saved[occ].transcript, Absorbed.transcript)
  BY <1>2, AbsorbedTranscript
<1>6. answer = "chat" => Absorbed.published
  BY <1>2, <1>4 DEF IInv, AnswerInv, Replies
<1>7. outcome[state.active] = "chat" /\ ~abandoned => answer = "chat"
  BY <1>2 DEF IInv, AnswerInv
<1> HIDE DEF Absorbed
<1>8. Absorbed.transcript \in Seq({"user", "assistant"} \X Messages)
  BY <1>4 DEF States
<1>9. TranscriptOK(state') /\ Grows(saved[occ].transcript, state'.transcript)
      /\ (answer = "chat" =>
            \E k \in 1..Len(state'.transcript) : state'.transcript[k] = <<"assistant", state.active>>)
  <2>1. CASE answer = "chat"
    <3> DEFINE E == {"user", "assistant"} \X Messages
               T == Absorbed.transcript
               e == <<"assistant", state.active>>
    <3>1. state'.transcript = T \o <<e>> /\ e \in E /\ T \in Seq(E)
      BY <1>3, <1>4, <1>8, <2>1 DEF Said
    <3>2. TranscriptOK(state')
      BY <1>1, <1>3, <1>4, <1>5, <1>6, <2>1, <3>1, TranscriptReplied
    <3>3. Len(saved[occ].transcript) \in Nat
      BY <1>2, SettlingLoop, KnownInputs DEF IInv, States
    <3> HIDE DEF E, T, e
    <3>4. /\ Len(T) \in Nat /\ Len(state'.transcript) = Len(T) + 1
          /\ (\A k \in 1..Len(T) : state'.transcript[k] = T[k]) /\ state'.transcript[Len(T) + 1] = e
      BY <3>1
    <3>5. Grows(saved[occ].transcript, T)
      BY <1>5 DEF T
    <3>6. Grows(saved[occ].transcript, state'.transcript)
      BY <3>3, <3>4, <3>5 DEF Grows
    <3>7. \E k \in 1..Len(state'.transcript) : state'.transcript[k] = e
      BY <3>4
    <3> QED
      BY <3>2, <3>6, <3>7 DEF e
  <2>2. CASE answer # "chat"
    <3>1. state'.transcript = Absorbed.transcript
      BY <1>4, <1>8, <2>2 DEF Said
    <3>2. TranscriptOK(state')
      BY <1>1, <1>4, <1>5, <3>1, TranscriptKept
    <3> QED
      BY <1>5, <2>2, <3>1, <3>2
  <2> QED
    BY <2>1, <2>2
<1>10. \A i \in (Messages \cap Accepted) \ (Consumed \cup Absorbs) : disp[i] \notin Doubtful
  <2>1. SUFFICES ASSUME NEW i \in (Messages \cap Accepted) \ (Consumed \cup Absorbs), disp[i] \in Doubtful
                 PROVE  FALSE
    OBVIOUS
  <2>2. i \in Pending(state)
    BY <1>3, <2>1 DEF Pending, Doubtful
  <2>3. disp[i] = "delivered"
    BY <1>1, <2>1, <2>2 DEF Doubtful
  <2> QED
    BY <2>1, <2>2, <2>3 DEF Absorbs, Steers
<1>11. Absorbs \cap Finishes # {} => state'.endedBy = "human"
  <2>1. Absorbs \cap Finishes # {} => Finish
    BY <1>2, SettlingLoop DEF Finish
  <2> QED
    BY <1>1, <2>1
<1>12. saved[occ].unresolved = FALSE
  BY <1>2, <1>4 DEF IInv, StateInv
<1>13. Sound(Absorbs)
  BY <1>1, <1>7, <1>9, <1>10, <1>11, <1>12 DEF Sound
<1> QED
  BY <1>1, <1>13

\* A step that commits, and what it leaves alone.
Commits ==
  \/ TakeFinish \/ Park \/ TakeStop \/ TakeConfigure(TRUE) \/ StartTurn \/ SettleUnresolved \/ Settle

LEMMA EveryCommit ==
  ASSUME IInv, Commits
  PROVE  /\ \E S : Takes(S) /\ Sound(S)
         /\ UNCHANGED <<order, disp, outcome, scopeEnded, runEnded, occ, queue, prompted, steered, late, closing,
                        abandoned>>
         /\ pc \in InLoop \cup {"settle"} /\ pc' \in InLoop \cup {"leave"}
<1>1. ASSUME Park \/ TakeStop \/ TakeConfigure(TRUE) PROVE \E S : Takes(S) /\ Sound(S)
  <2>1. pc = "look"
    BY <1>1 DEF Park, TakeStop, TakeConfigure, Ready, Idle
  <2>2. CASE Park
    BY <2>1, <2>2, ParkEffect, QuietSound
  <2>3. CASE TakeStop
    <3>1. PICK i \in Pending(state) \cap Stops : Takes({i}) /\ Keeps(state', state)
      BY <2>3, TakeStopEffect
    <3>2. {i} \cap Finishes = {}
      BY InputsAreApart
    <3> QED
      BY <2>1, <3>1, <3>2, QuietSound
  <2>4. CASE TakeConfigure(TRUE)
    <3>1. PICK i \in Pending(state) \cap Configures : Takes({i}) /\ Keeps(state', state)
      BY <2>4, TakeConfigureEffect
    <3>2. {i} \cap Finishes = {}
      BY InputsAreApart
    <3> QED
      BY <2>1, <3>1, <3>2, QuietSound
  <2> QED
    BY <1>1, <2>2, <2>3, <2>4
<1>2. \E S : Takes(S) /\ Sound(S)
  BY <1>1, TakeFinishSound, StartTurnSound, UnresolvedSound, SettleSound DEF Commits
<1>3. ASSUME TakeFinish \/ Park \/ TakeStop \/ TakeConfigure(TRUE) \/ StartTurn
      PROVE  /\ UNCHANGED <<order, disp, outcome, scopeEnded, runEnded, occ, queue, prompted, steered, late,
                            closing, abandoned>>
             /\ pc = "look" /\ pc' \in {"look", "parked", "leave"}
  BY <1>3 DEF TakeFinish, Park, TakeStop, TakeConfigure, StartTurn, Ready, Idle, LeaveWith, session, history
<1>4. ASSUME SettleUnresolved \/ Settle
      PROVE  /\ UNCHANGED <<order, disp, outcome, scopeEnded, runEnded, occ, queue, prompted, steered, late,
                            closing, abandoned>>
             /\ pc = "settle" /\ pc' \in {"look", "leave"}
  BY <1>4 DEF SettleUnresolved, Settle, LeaveWith, session, history
<1> QED
  BY <1>2, <1>3, <1>4 DEF Commits, InLoop

\* So the invariant's parts that are about the journal hold after a commit.
LEMMA ConsumedCommit ==
  ASSUME IInv, Commits
  PROVE  ConsumedInv'
<1>1. PICK S : Takes(S) /\ Sound(S)
  BY EveryCommit
<1>2. UNCHANGED <<order, disp, prompted>>
  BY EveryCommit
<1>3. /\ occ \in Occurrences /\ S \subseteq Accepted \ Consumed
      /\ saved'[occ] = state' /\ state'.consumed = saved[occ].consumed \cup S
      /\ \A o \in Occurrences : o # occ => saved'[o] = saved[o]
      /\ Consumed' = Consumed \cup S /\ state.active = saved[occ].active
  BY <1>1 DEF Takes, Pending
<1>4. /\ \A o \in Occurrences : saved[o].consumed \subseteq Accepted /\ saved[o].consumed \subseteq Consumed
      /\ \A o, p \in Occurrences : o # p => saved[o].consumed \cap saved[p].consumed = {}
      /\ \A o \in Occurrences : saved[o].active # None =>
           saved[o].active \in saved[o].consumed /\ disp[saved[o].active] \notin {"uncertain", "inflight"}
      /\ prompted \subseteq Consumed
  BY KnownInputs DEF IInv, ConsumedInv
<1>5. Accepted' = Accepted
  BY <1>2, Same
<1>6. \A o \in Occurrences : saved'[o].consumed \subseteq Accepted'
  BY <1>3, <1>4, <1>5
<1>7. ASSUME NEW o \in Occurrences, NEW p \in Occurrences, o # p
      PROVE  saved'[o].consumed \cap saved'[p].consumed = {}
  <2>1. CASE o = occ
    BY <1>3, <1>4, <1>7, <2>1
  <2>2. CASE p = occ
    BY <1>3, <1>4, <1>7, <2>2
  <2>3. CASE o # occ /\ p # occ
    BY <1>3, <1>4, <1>7, <2>3
  <2> QED
    BY <2>1, <2>2, <2>3
<1>8. state'.active # None =>
        state'.active \in state'.consumed /\ disp[state'.active] \notin {"uncertain", "inflight"}
  BY <1>1, <1>3, <1>4 DEF Sound
<1>9. \A o \in Occurrences : saved'[o].active # None =>
        saved'[o].active \in saved'[o].consumed /\ disp'[saved'[o].active] \notin {"uncertain", "inflight"}
  BY <1>2, <1>3, <1>4, <1>8
<1>10. prompted' \subseteq Consumed'
  BY <1>2, <1>3, <1>4
<1> QED
  BY <1>6, <1>7, <1>9, <1>10 DEF ConsumedInv

LEMMA SteeredCommit ==
  ASSUME IInv, Commits
  PROVE  SteeredInv'
<1>1. PICK S : Takes(S) /\ Sound(S)
  BY EveryCommit
<1>2. UNCHANGED <<order, disp, prompted, steered>>
  BY EveryCommit
<1>3. Accepted' = Accepted /\ Steered' = Steered
  BY <1>2, Same
<1>4. ASSUME NEW i \in Steered, NEW o \in Occurrences PROVE saved'[o].active # i
  <2>1. i \in Messages /\ i # None /\ \A p \in Occurrences : saved[p].active # i
    BY KnownInputs, InputsAreApart DEF IInv, SteeredInv, Inputs
  <2>2. CASE o # occ
    BY <1>1, <2>1, <2>2 DEF Takes
  <2>3. CASE o = occ
    <3>1. saved'[occ] = state' /\ state.active = saved[occ].active /\ occ \in Occurrences
      BY <1>1 DEF Takes
    <3> QED
      BY <1>1, <2>1, <2>3, <3>1 DEF Sound
  <2> QED
    BY <2>2, <2>3
<1> QED
  BY <1>2, <1>3, <1>4 DEF IInv, SteeredInv

LEMMA DoubtCommit ==
  ASSUME IInv, Commits
  PROVE  DoubtInv'
<1>1. PICK S : Takes(S) /\ Sound(S)
  BY EveryCommit
<1>2. UNCHANGED <<order, disp>>
  BY EveryCommit
<1>3. Accepted' = Accepted /\ Consumed' = Consumed \cup S /\ saved'[occ] = state' /\ occ \in Occurrences
  BY <1>1, <1>2, Same DEF Takes
<1>4. CASE state'.active # None
  BY <1>3, <1>4 DEF DoubtInv
<1>5. CASE state'.active = None
  <2>1. \A i \in (Messages \cap Accepted) \ (Consumed \cup S) : disp[i] \notin Doubtful
    BY <1>1, <1>5 DEF Sound
  <2> QED
    BY <1>2, <1>3, <2>1 DEF DoubtInv, Doubtful
<1> QED
  BY <1>4, <1>5

\* What is open is not opened by a commit.
LEMMA OpenShrinks ==
  ASSUME IInv, NEW S, Takes(S), UNCHANGED <<order, disp>>
  PROVE  Open' \subseteq Open
<1>1. Accepted' = Accepted /\ Consumed' = Consumed \cup S
  BY Same DEF Takes
<1> QED
  BY <1>1 DEF Open

LEMMA FinishCommit ==
  ASSUME IInv, Commits
  PROVE  FinishInv'
<1>1. PICK S : Takes(S) /\ Sound(S)
  BY EveryCommit
<1>2. UNCHANGED <<order, disp, late, closing>>
  BY EveryCommit
<1>3. /\ occ \in Occurrences /\ saved'[occ] = state' /\ state.active = saved[occ].active
      /\ \A o \in Occurrences : o # occ => saved'[o] = saved[o]
      /\ Consumed' = Consumed \cup S /\ Accepted' = Accepted /\ saved[occ].endedBy = None
  BY <1>1, <1>2, Same DEF Takes
<1>4. Open' \subseteq Open
  BY <1>1, <1>2, OpenShrinks
<1>5. Accepted' \cap Finishes = {} => late' = {}
  BY <1>2, <1>3 DEF IInv, FinishInv
<1>6. ASSUME Accepted' \cap Finishes # {}, NEW o \in Occurrences PROVE saved'[o].active \in {None, closing'}
  <2>1. \A p \in Occurrences : saved[p].active \in {None, closing}
    BY <1>3, <1>6 DEF IInv, FinishInv
  <2>2. state'.active \in {None, state.active}
    BY <1>1, <1>3, <1>6 DEF Sound
  <2> QED
    BY <1>2, <1>3, <2>1, <2>2
<1>7. ASSUME Consumed' \cap Finishes # {}
      PROVE  \E o \in Occurrences :
               saved'[o].endedBy = "human" \/ (saved'[o].unresolved /\ saved'[o].active # None)
  <2> DEFINE Ended(s) == s.endedBy = "human" \/ (s.unresolved /\ s.active # None)
  <2>1. S \cap Finishes # {} \/ Ended(saved[occ]) => Ended(state')
    BY <1>1, <1>3 DEF Sound, None
  <2>2. CASE S \cap Finishes # {}
    BY <1>3, <2>1, <2>2
  <2>3. CASE Consumed \cap Finishes # {}
    <3>1. PICK o \in Occurrences : Ended(saved[o])
      BY <2>3 DEF IInv, FinishInv
    <3>2. Ended(saved'[o])
      <4> HIDE DEF Ended
      <4> QED
        BY <1>3, <2>1, <3>1
    <3> QED
      BY <3>2
  <2> QED
    BY <1>3, <1>7, <2>2, <2>3
<1>8. (\E f \in Accepted' \cap Finishes : disp'[f] = "unprocessed") => Open' = {}
  BY <1>2, <1>3, <1>4 DEF IInv, FinishInv
<1> QED
  BY <1>5, <1>6, <1>7, <1>8 DEF FinishInv

LEMMA ClosedCommit ==
  ASSUME IInv, Commits
  PROVE  ClosedInv'
<1>1. PICK S : Takes(S) /\ Sound(S)
  BY EveryCommit
<1>2. UNCHANGED <<order, disp, scopeEnded, runEnded>> /\ pc' \notin {"ended", "over"}
  BY EveryCommit DEF InLoop
<1>3. Open' \subseteq Open
  BY <1>1, <1>2, OpenShrinks
<1> QED
  BY <1>2, <1>3 DEF IInv, ClosedInv

LEMMA ReplyCommit ==
  ASSUME IInv, Commits
  PROVE  ReplyInv'
<1>1. PICK S : Takes(S) /\ Sound(S)
  BY EveryCommit
<1>2. UNCHANGED <<outcome, abandoned>>
  BY EveryCommit
<1>3. /\ occ \in Occurrences /\ saved'[occ] = state' /\ state.active = saved[occ].active
      /\ \A o \in Occurrences : o # occ => saved'[o] = saved[o]
  BY <1>1 DEF Takes
<1> DEFINE Shows(s, i) == \E k \in 1..Len(s.transcript) : s.transcript[k] = <<"assistant", i>>
<1>4. ASSUME NEW i, Shows(saved[occ], i) PROVE Shows(state', i)
  <2>1. saved[occ] \in States /\ state' \in States
    BY <1>1, <1>3, KnownInputs DEF IInv, Takes
  <2>2. Len(saved[occ].transcript) \in Nat /\ Len(state'.transcript) \in Nat
    BY <2>1 DEF States
  <2>3. Grows(saved[occ].transcript, state'.transcript)
    BY <1>1 DEF Sound
  <2>4. \A k \in 1..Len(saved[occ].transcript) :
          k \in 1..Len(state'.transcript) /\ state'.transcript[k] = saved[occ].transcript[k]
    BY <2>2, <2>3 DEF Grows
  <2> QED
    BY <1>4, <2>4
<1>5. ASSUME NEW i \in Messages, outcome[i] = "chat", ~abandoned, saved[occ].active = i, state'.active # i
      PROVE  Shows(state', i)
  <2>1. i # None
    BY InputsAreApart DEF Inputs
  <2> QED
    BY <1>1, <1>3, <1>5, <2>1 DEF Sound
<1>6. ASSUME NEW i \in Messages, outcome[i] = "chat", ~abandoned
      PROVE  \E o \in Occurrences : saved'[o].active = i \/ Shows(saved'[o], i)
  <2>1. PICK o \in Occurrences : saved[o].active = i \/ Shows(saved[o], i)
    BY <1>6 DEF IInv, ReplyInv
  <2> HIDE DEF Shows
  <2>2. CASE o # occ
    BY <1>3, <2>1, <2>2
  <2>3. CASE o = occ
    BY <1>3, <1>4, <1>5, <1>6, <2>1, <2>3
  <2> QED
    BY <2>2, <2>3
<1> QED
  BY <1>2, <1>6 DEF ReplyInv

LEMMA TranscriptCommit ==
  ASSUME IInv, Commits
  PROVE  TranscriptInv'
<1>1. PICK S : Takes(S) /\ Sound(S)
  BY EveryCommit
<1>2. pc' # "settle"
  BY EveryCommit DEF InLoop
<1>3. \A o \in Occurrences : saved'[o] = IF o = occ THEN state' ELSE saved[o]
  BY <1>1 DEF Takes
<1>4. TranscriptOK(state') /\ \A o \in Occurrences : TranscriptOK(saved[o])
  BY <1>1 DEF Sound, IInv, TranscriptInv
<1>5. ASSUME NEW o \in Occurrences PROVE TranscriptOK(saved'[o])
  BY <1>3, <1>4
<1> QED
  BY <1>2, <1>5 DEF TranscriptInv

-----------------------------------------------------------------------------
(* What the other steps mark *)

\* A message that is steered was not steered before.
LEMMA SteeredAppend ==
  ASSUME IInv, NEW i \in Messages \ Steered, steered' = Append(steered, i)
  PROVE  /\ Steered' = Steered \cup {i}
         /\ \A k, l \in 1..Len(steered') : steered'[k] = steered'[l] => k = l
<1>1. steered \in Seq(Messages) /\ Len(steered) \in Nat
  BY DEF IInv, TypeOK, HistoryTypes
<1>2. /\ Len(steered') = Len(steered) + 1 /\ steered'[Len(steered')] = i
      /\ \A k \in 1..Len(steered) : steered'[k] = steered[k]
  BY <1>1
<1>3. \A k \in 1..Len(steered') : k \in 1..Len(steered) \/ k = Len(steered')
  BY <1>1, <1>2
<1>4. \A k \in 1..Len(steered) : steered[k] # i /\ k \in 1..Len(steered')
  BY <1>1, <1>2 DEF Steered
<1>5. Steered' = Steered \cup {i}
  <2>1. 1..Len(steered') = (1..Len(steered)) \cup {Len(steered')}
    BY <1>1, <1>2
  <2> QED
    BY <1>2, <2>1 DEF Steered
<1>6. \A k, l \in 1..Len(steered) : steered[k] = steered[l] => k = l
  BY DEF IInv, SteeredInv
<1> QED
  BY <1>2, <1>3, <1>4, <1>5, <1>6

\* While the address is owned, the other occurrences have no active input.
LEMMA OthersInactive ==
  ASSUME IInv, pc \in Owned
  PROVE  \A o \in Occurrences : o # occ => saved[o].active = None
<1>1. occ \in Occurrences
  BY DEF IInv, OccurrenceInv
<1>2. ASSUME NEW o \in Occurrences, o # occ PROVE saved[o].active = None
  <2>1. o < occ \/ o > occ
    BY <1>1, <1>2 DEF Occurrences
  <2>2. CASE o < occ
    BY <2>2 DEF IInv, OccurrenceInv, None
  <2>3. CASE o > occ
    BY <2>3, FreshState DEF IInv, OccurrenceInv
  <2> QED
    BY <2>1, <2>2, <2>3
<1> QED
  BY <1>2

\* The loop marks only a message that is open.
LEMMA AssignMarks ==
  ASSUME IInv, Assign
  PROVE  /\ UNCHANGED <<order, late, saved, closing, scopeEnded, runEnded>> /\ pc' \notin {"ended", "over"}
         /\ UNCHANGED disp \/ Open # {}
         /\ \A f \in Inputs \cap Finishes : disp'[f] = disp[f]
<1>1. UNCHANGED <<order, late, saved, closing, scopeEnded, runEnded>> /\ pc' \notin {"ended", "over"}
  BY DEF Assign, history
<1>2. CASE queue = {} \/ ~(First(queue) \in Messages /\ disp[First(queue)] = "pending")
  BY <1>1, <1>2 DEF Assign
<1>3. CASE queue # {} /\ First(queue) \in Messages /\ disp[First(queue)] = "pending"
  <2>1. disp' = [disp EXCEPT ![First(queue)] = "inflight"] /\ pc = "assign"
    BY <1>3 DEF Assign
  <2>2. First(queue) \in Open
    BY <1>3, <2>1, QueueHead DEF Open
  <2>3. First(queue) \notin Finishes
    BY <1>3, InputsAreApart
  <2> QED
    BY <1>1, <2>1, <2>2, <2>3 DEF IInv, TypeOK, JournalTypes
<1> QED
  BY <1>2, <1>3

LEMMA SteerMarks ==
  ASSUME IInv, pc \in {"steer", "steering"}, NEW x, UNCHANGED disp \/ disp' = [disp EXCEPT ![First(queue)] = x]
  PROVE  Open # {} /\ \A f \in Inputs \cap Finishes : disp'[f] = disp[f]
<1>1. queue # {} /\ First(queue) \in Messages /\ disp[First(queue)] = "inflight"
  BY DEF IInv, QueueInv
<1>2. First(queue) \in Open
  BY <1>1, QueueHead DEF Open
<1>3. First(queue) \notin Finishes
  BY <1>1, InputsAreApart
<1> QED
  BY <1>2, <1>3 DEF IInv, TypeOK, JournalTypes

LEMMA SteerBeginMarks ==
  ASSUME IInv, SteerBegin
  PROVE  /\ UNCHANGED <<order, late, saved, closing, scopeEnded, runEnded>> /\ pc' \notin {"ended", "over"}
         /\ Open # {} /\ \A f \in Inputs \cap Finishes : disp'[f] = disp[f]
<1>1. UNCHANGED <<order, late, saved, closing, scopeEnded, runEnded>> /\ pc' \notin {"ended", "over"}
  BY DEF SteerBegin, history
<1>2. pc = "steer" /\ (UNCHANGED disp \/ disp' = [disp EXCEPT ![First(queue)] = "pending"])
  BY DEF SteerBegin
<1> QED
  BY <1>1, <1>2, SteerMarks

LEMMA SteerEndMarks ==
  ASSUME IInv, NEW a \in SteerAnswers, SteerEnd(a)
  PROVE  /\ UNCHANGED <<order, late, saved, closing, scopeEnded, runEnded>> /\ pc' \notin {"ended", "over"}
         /\ Open # {} /\ \A f \in Inputs \cap Finishes : disp'[f] = disp[f]
<1>1. UNCHANGED <<order, late, saved, closing, scopeEnded, runEnded>> /\ pc' \notin {"ended", "over"}
  BY DEF SteerEnd
<1>2. pc = "steering" /\ disp' = [disp EXCEPT ![First(queue)] = Resolved(a)]
  BY DEF SteerEnd
<1> QED
  BY <1>1, <1>2, SteerMarks

LEMMA SettleInputMarks ==
  ASSUME IInv, SettleInput
  PROVE  /\ UNCHANGED <<order, late, saved, closing, scopeEnded, runEnded>> /\ Open' = Open
         /\ \A f \in Inputs \cap Finishes : disp'[f] = disp[f]
<1>1. UNCHANGED <<order, late, saved, closing, scopeEnded, runEnded>> /\ pc = "select"
  BY DEF SettleInput, history
<1>2. state.active \in Messages /\ state = saved[occ] /\ occ \in Occurrences
  BY SettleInputEffect
<1>3. state.active \in Consumed /\ state.active \notin Finishes
  BY <1>2, InputsAreApart, KnownInputs DEF IInv, ConsumedInv, Inputs
<1>4. \A i \in Inputs : i # state.active => disp'[i] = disp[i]
  BY DEF SettleInput, IInv, TypeOK, JournalTypes
<1>5. Accepted' = Accepted /\ Consumed' = Consumed /\ Accepted \subseteq Inputs
  BY <1>1, Same, KnownInputs DEF IInv
<1>6. Open' = Open
  BY <1>3, <1>4, <1>5 DEF Open
<1> QED
  BY <1>1, <1>3, <1>4, <1>6

\* A Finish that is the first of the open inputs is the only one.
LEMMA LastOpen ==
  ASSUME IInv, Open # {}, First(Open) \in Finishes
  PROVE  Open = {First(Open)}
<1>1. Open \cap Accepted # {} /\ Open \subseteq Accepted /\ TypeOK
  BY DEF Open, IInv
<1>2. PICK k \in 1..Len(order) : First(Open) = order[k] /\ \A l \in 1..Len(order) : order[l] \in Open => k <= l
  BY <1>1, FirstPlace
<1>3. k = Len(order) /\ Len(order) \in Nat
  BY <1>2 DEF IInv, OrderInv, TypeOK, JournalTypes
<1>4. ASSUME NEW i \in Open PROVE i = First(Open)
  <2>1. PICK l \in 1..Len(order) : i = order[l]
    BY <1>1 DEF Accepted
  <2>2. l = k
    BY <1>2, <1>3, <2>1
  <2> QED
    BY <1>2, <2>1, <2>2
<1>5. First(Open) \in Open
  BY OpenHead
<1> QED
  BY <1>4, <1>5

-----------------------------------------------------------------------------
(* Every step keeps the invariant, part by part *)

\* What the journal keeps has its types.
LEMMA StepJournal == IInv /\ [Next]_vars => JournalTypes'
<1> SUFFICES ASSUME IInv, [Next]_vars PROVE JournalTypes'
  OBVIOUS
<1>1. ASSUME UNCHANGED vars \/ Enter \/ BodyReturn \/ LeaveCancelled \/ Woken \/ LookRunning \/
  SettleFailed \/ Leave \/ Cancel \/ Reenter \/ DispatchRefused \/ Dispatch \/ Send \/ (\E a \in
  Answers \cup {"cancelled"} : NativeReturn(a))
  PROVE UNCHANGED <<order, disp, saved, outcome, taken, scopeEnded, runEnded>>
  <2>1. ASSUME Enter \/ BodyReturn \/ LeaveCancelled \/ Woken \/ LookRunning \/ SettleFailed \/
    Leave \/ Cancel
    PROVE UNCHANGED <<order, disp, saved, outcome, taken, scopeEnded, runEnded>>
    BY <2>1 DEF Enter, journal, genVars, history, BodyReturn, LeaveCancelled, LeaveWith, Woken,
      LookRunning, SettleFailed, Leave, Cancel
  <2>2. ASSUME Reenter \/ DispatchRefused \/ Dispatch \/ Send
    PROVE UNCHANGED <<order, disp, saved, outcome, taken, scopeEnded, runEnded>>
    BY <2>2 DEF Reenter, journal, DispatchRefused, loopVars, history, Dispatch, Send
  <2>3. ASSUME NEW a \in Answers \cup {"cancelled"}, NativeReturn(a)
    PROVE UNCHANGED <<order, disp, saved, outcome, taken, scopeEnded, runEnded>>
    BY <2>3 DEF NativeReturn, journal, loopVars, history
  <2> QED
    BY <1>1, <2>1, <2>2, <2>3 DEF vars, journal, session, loopVars, genVars, history
<1> USE AnswersAreKnown DEF IInv, TypeOK, JournalTypes, LoopTypes, TurnTypes, Dispositions, Replies,
  Unresolved, TurnInv, States
<1>2. ASSUME NEW i \in Inputs, Accept(i) PROVE JournalTypes'
  BY <1>2, AcceptEffect DEF Accept, Locked, session, genVars
<1>3. ASSUME TakeFinish PROVE JournalTypes'
  BY <1>3, TakeFinishEffect DEF TakeFinish, LeaveWith, Idle, session, genVars, history, Takes, Keeps
<1>4. ASSUME Park PROVE JournalTypes'
  BY <1>4, ParkEffect DEF Park, Idle, session, genVars, history, Takes, Keeps
<1>5. ASSUME TakeStop PROVE JournalTypes'
  BY <1>5, TakeStopEffect DEF TakeStop, Ready, session, genVars, history, Idle, Takes, Keeps
<1>6. ASSUME NEW ok \in BOOLEAN, TakeConfigure(ok) PROVE JournalTypes'
  <2>1. CASE ok = TRUE
    BY <1>6, <2>1, TakeConfigureEffect DEF TakeConfigure, Takes, Keeps, Ready, Idle, LeaveWith, session, genVars, history
  <2>2. CASE ok = FALSE
    BY <1>6, <2>2 DEF TakeConfigure, Ready, Idle, LeaveWith, session, genVars, history
  <2> QED
    BY <2>1, <2>2
<1>7. ASSUME StartTurn PROVE JournalTypes'
  BY <1>7, StartTurnEffect DEF StartTurn, Ready, session, history, Idle, Takes, Keeps
<1>8. ASSUME Assign PROVE JournalTypes'
  BY <1>8, QueueHead DEF Assign, session, genVars, history
<1>9. ASSUME SteerBegin PROVE JournalTypes'
  BY <1>9, QueueHead DEF SteerBegin, session, genVars, history
<1>10. ASSUME NEW a \in SteerAnswers, SteerEnd(a) PROVE JournalTypes'
  BY <1>10, QueueHead DEF SteerEnd, Resolved, session, genVars
<1>11. ASSUME SettleInput PROVE JournalTypes'
  BY <1>11 DEF SettleInput, session, history
<1>12. ASSUME SettleUnresolved PROVE JournalTypes'
  BY <1>12, UnresolvedEffect DEF SettleUnresolved, LeaveWith, session, genVars, history, Takes,
    Keeps
<1>13. ASSUME Settle PROVE JournalTypes'
  BY <1>13, SettleEffect DEF Settle, LeaveWith, session, genVars, history, Takes, Keeps
<1>14. ASSUME CloseInputs PROVE JournalTypes'
  BY <1>14, OpenHead DEF CloseInputs, session, loopVars, genVars, history
<1>15. ASSUME EndScope PROVE JournalTypes'
  BY <1>15 DEF EndScope, session, genVars, history
<1>16. ASSUME EndRun PROVE JournalTypes'
  BY <1>16 DEF EndRun, session, genVars, history
<1>17. ASSUME DispatchSaved PROVE JournalTypes'
  BY <1>17 DEF DispatchSaved, loopVars, history
<1>18. ASSUME NativeEvent PROVE JournalTypes'
  BY <1>18 DEF NativeEvent, loopVars, history
<1>19. ASSUME TurnSettle PROVE JournalTypes'
  BY <1>19 DEF TurnSettle, Returned, loopVars, history
<1>20. CASE UNCHANGED vars \/ Enter \/ BodyReturn \/ LeaveCancelled \/ Woken \/ LookRunning \/
  SettleFailed \/ Leave \/ Cancel \/ Reenter \/ DispatchRefused \/ Dispatch \/ Send \/ (\E a \in
  Answers \cup {"cancelled"} : NativeReturn(a))
  BY <1>1, <1>20
<1> QED
  BY <1>2, <1>3, <1>4, <1>5, <1>6, <1>7, <1>8, <1>9, <1>10, <1>11, <1>12, <1>13, <1>14, <1>15,
    <1>16, <1>17, <1>18, <1>19, <1>20 DEF Next, OwnerStep, TurnStep

\* So has the loop.
LEMMA StepLoop == IInv /\ [Next]_vars => LoopTypes'
<1> SUFFICES ASSUME IInv, [Next]_vars PROVE LoopTypes'
  OBVIOUS
<1>1. ASSUME UNCHANGED vars \/ CloseInputs \/ DispatchRefused \/ DispatchSaved \/ Dispatch \/ Send
  \/ NativeEvent \/ TurnSettle \/ (\E a \in Answers \cup {"cancelled"} : NativeReturn(a))
  PROVE UNCHANGED <<pc, occ, state, queue, active, wake, interrupt, cancelled, failed>>
  <2>1. ASSUME CloseInputs \/ DispatchRefused \/ DispatchSaved \/ Dispatch \/ Send \/ NativeEvent \/
    TurnSettle
    PROVE UNCHANGED <<pc, occ, state, queue, active, wake, interrupt, cancelled, failed>>
    BY <2>1 DEF CloseInputs, session, loopVars, genVars, history, DispatchRefused, journal,
      DispatchSaved, Dispatch, Send, NativeEvent, TurnSettle, Returned
  <2>2. ASSUME NEW a \in Answers \cup {"cancelled"}, NativeReturn(a)
    PROVE UNCHANGED <<pc, occ, state, queue, active, wake, interrupt, cancelled, failed>>
    BY <2>2 DEF NativeReturn, journal, loopVars, history
  <2> QED
    BY <1>1, <2>1, <2>2 DEF vars, journal, session, loopVars, genVars, history
<1> USE AnswersAreKnown DEF IInv, TypeOK, LoopTypes, JournalTypes
<1>2. ASSUME NEW i \in Inputs, Accept(i) PROVE LoopTypes'
  BY <1>2, AcceptEffect DEF Accept, Locked, session, genVars
<1>3. ASSUME Enter PROVE LoopTypes'
  <2>1. occ \in Nat /\ occ + 1 \in Occurrences
    BY <1>3, AnswersAreKnown DEF Enter, Occurrences
  <2>2. saved[occ + 1] \in States
    BY <2>1, KnownInputs
  <2>3. failed' \in BOOLEAN
    BY <1>3 DEF Enter
  <2>4. /\ active' \in BOOLEAN /\ pc' \in {"close", "look", "body"} /\ wake' = FALSE /\ interrupt' = FALSE
        /\ occ' = occ + 1 /\ state' = saved[occ + 1] /\ UNCHANGED <<queue, cancelled>>
    BY <1>3 DEF Enter
  <2> QED
    <3>1. occ + 1 \in 0..MaxOccurrences
      BY <2>1 DEF Occurrences
    <3> QED
      BY <2>2, <2>3, <2>4, <3>1
<1>4. ASSUME BodyReturn PROVE LoopTypes'
  BY <1>4 DEF BodyReturn, journal, genVars, history
<1>5. ASSUME LeaveCancelled PROVE LoopTypes'
  BY <1>5 DEF LeaveCancelled, LeaveWith, journal, genVars, history
<1>6. ASSUME TakeFinish PROVE LoopTypes'
  BY <1>6, TakeFinishEffect DEF TakeFinish, LeaveWith, Idle, session, genVars, history, Takes, Keeps
<1>7. ASSUME Park PROVE LoopTypes'
  BY <1>7, ParkEffect DEF Park, Idle, session, genVars, history, Takes, Keeps
<1>8. ASSUME Woken PROVE LoopTypes'
  BY <1>8 DEF Woken, journal, genVars, history
<1>9. ASSUME TakeStop PROVE LoopTypes'
  BY <1>9, TakeStopEffect DEF TakeStop, Ready, session, genVars, history, Idle, Takes, Keeps
<1>10. ASSUME NEW ok \in BOOLEAN, TakeConfigure(ok) PROVE LoopTypes'
  <2>1. CASE ok = TRUE
    BY <1>10, <2>1, TakeConfigureEffect DEF TakeConfigure, Takes, Keeps, Ready, Idle, LeaveWith, session, genVars, history
  <2>2. CASE ok = FALSE
    BY <1>10, <2>2 DEF TakeConfigure, Ready, Idle, LeaveWith, session, genVars, history
  <2> QED
    BY <2>1, <2>2
<1>11. ASSUME StartTurn PROVE LoopTypes'
  BY <1>11, StartTurnEffect DEF StartTurn, Ready, session, history, Idle, Takes, Keeps
<1>12. ASSUME LookRunning PROVE LoopTypes'
  BY <1>12, KnownInputs DEF LookRunning, journal, genVars, history
<1>13. ASSUME Assign PROVE LoopTypes'
  BY <1>13, QueueHead DEF Assign, session, genVars, history
<1>14. ASSUME SteerBegin PROVE LoopTypes'
  BY <1>14, QueueHead DEF SteerBegin, session, genVars, history
<1>15. ASSUME NEW a \in SteerAnswers, SteerEnd(a) PROVE LoopTypes'
  BY <1>15, QueueHead DEF SteerEnd, Resolved, session, genVars
<1>16. ASSUME SettleInput PROVE LoopTypes'
  BY <1>16, SettleInputEffect DEF SettleInput, session, history
<1>17. ASSUME SettleUnresolved PROVE LoopTypes'
  BY <1>17, UnresolvedEffect DEF SettleUnresolved, LeaveWith, session, genVars, history, Takes,
    Keeps
<1>18. ASSUME SettleFailed PROVE LoopTypes'
  BY <1>18, AbsorbedEffect, SettlingLoop DEF SettleFailed, LeaveWith, journal, genVars, history
<1>19. ASSUME Settle PROVE LoopTypes'
  BY <1>19, SettleEffect DEF Settle, LeaveWith, session, genVars, history, Takes, Keeps
<1>20. ASSUME Leave PROVE LoopTypes'
  BY <1>20 DEF Leave, journal, history
<1>21. ASSUME Cancel PROVE LoopTypes'
  BY <1>21 DEF Cancel, journal, genVars
<1>22. ASSUME EndScope PROVE LoopTypes'
  BY <1>22 DEF EndScope, session, genVars, history
<1>23. ASSUME EndRun PROVE LoopTypes'
  BY <1>23 DEF EndRun, session, genVars, history
<1>24. ASSUME Reenter PROVE LoopTypes'
  <2>1. /\ pc' = "body" /\ occ' = 0 /\ state' = Fresh /\ queue' = {} /\ active' = FALSE /\ wake' = FALSE
        /\ interrupt' = FALSE /\ cancelled' = FALSE /\ failed' = FALSE
    BY <1>24 DEF Reenter
  <2>2. Fresh \in States /\ 0 \in 0..MaxOccurrences
    BY FreshState
  <2> QED
    BY <2>1, <2>2
<1>25. CASE UNCHANGED vars \/ CloseInputs \/ DispatchRefused \/ DispatchSaved \/ Dispatch \/ Send \/
  NativeEvent \/ TurnSettle \/ (\E a \in Answers \cup {"cancelled"} : NativeReturn(a))
  BY <1>1, <1>25
<1> QED
  BY <1>2, <1>3, <1>4, <1>5, <1>6, <1>7, <1>8, <1>9, <1>10, <1>11, <1>12, <1>13, <1>14, <1>15,
    <1>16, <1>17, <1>18, <1>19, <1>20, <1>21, <1>22, <1>23, <1>24, <1>25 DEF Next, OwnerStep,
    TurnStep

\* So has its generation.
LEMMA StepTurn == IInv /\ [Next]_vars => TurnTypes'
<1> SUFFICES ASSUME IInv, [Next]_vars PROVE TurnTypes'
  OBVIOUS
<1>1. ASSUME UNCHANGED vars \/ (\E i \in Inputs : Accept(i)) \/ Enter \/ BodyReturn \/
  LeaveCancelled \/ TakeFinish \/ Park \/ Woken \/ TakeStop \/ LookRunning \/ Assign \/ SteerBegin
  \/ SettleUnresolved \/ SettleFailed \/ Settle \/ Cancel \/ CloseInputs \/ EndScope \/ EndRun \/
  (\E ok \in BOOLEAN : TakeConfigure(ok)) \/ (\E a \in SteerAnswers : SteerEnd(a))
  PROVE UNCHANGED <<turn, answer, delivered>>
  <2>1. ASSUME NEW i \in Inputs, Accept(i) PROVE UNCHANGED <<turn, answer, delivered>>
    BY <2>1 DEF Accept, Locked, session, genVars
  <2>2. ASSUME Enter \/ BodyReturn \/ LeaveCancelled \/ TakeFinish \/ Park \/ Woken \/ TakeStop \/
    LookRunning
    PROVE UNCHANGED <<turn, answer, delivered>>
    BY <2>2 DEF Enter, journal, genVars, history, BodyReturn, LeaveCancelled, LeaveWith, TakeFinish,
      Idle, session, Park, Woken, TakeStop, Ready, LookRunning
  <2>3. ASSUME Assign \/ SteerBegin \/ SettleUnresolved \/ SettleFailed \/ Settle \/ Cancel \/
    CloseInputs \/ EndScope
    PROVE UNCHANGED <<turn, answer, delivered>>
    BY <2>3 DEF Assign, session, genVars, history, SteerBegin, SettleUnresolved, LeaveWith,
      SettleFailed, journal, Settle, Cancel, CloseInputs, loopVars, EndScope
  <2>4. ASSUME EndRun PROVE UNCHANGED <<turn, answer, delivered>>
    BY <2>4 DEF EndRun, session, genVars, history
  <2>5. ASSUME NEW ok \in BOOLEAN, TakeConfigure(ok) PROVE UNCHANGED <<turn, answer, delivered>>
    BY <2>5 DEF TakeConfigure, LeaveWith, Ready, session, genVars, history, Idle
  <2>6. ASSUME NEW a \in SteerAnswers, SteerEnd(a) PROVE UNCHANGED <<turn, answer, delivered>>
    BY <2>6 DEF SteerEnd, Resolved, session, genVars
  <2> QED
    BY <1>1, <2>1, <2>2, <2>3, <2>4, <2>5, <2>6 DEF vars, journal, session, loopVars, genVars,
      history
<1> USE AnswersAreKnown DEF IInv, TypeOK, TurnTypes, JournalTypes, Replies, Unresolved
<1>2. ASSUME StartTurn PROVE TurnTypes'
  BY <1>2, StartTurnEffect DEF StartTurn, Ready, session, history, Idle, Takes, Keeps
<1>3. ASSUME SettleInput PROVE TurnTypes'
  BY <1>3 DEF SettleInput, session, history
<1>4. ASSUME Leave PROVE TurnTypes'
  BY <1>4 DEF Leave, journal, history
<1>5. ASSUME Reenter PROVE TurnTypes'
  BY <1>5 DEF Reenter, journal
<1>6. ASSUME DispatchRefused PROVE TurnTypes'
  BY <1>6 DEF DispatchRefused, journal, loopVars, history
<1>7. ASSUME DispatchSaved PROVE TurnTypes'
  BY <1>7 DEF DispatchSaved, loopVars, history
<1>8. ASSUME Dispatch PROVE TurnTypes'
  BY <1>8 DEF Dispatch, journal, loopVars, history
<1>9. ASSUME Send PROVE TurnTypes'
  BY <1>9 DEF Send, journal, loopVars
<1>10. ASSUME NativeEvent PROVE TurnTypes'
  BY <1>10 DEF NativeEvent, loopVars, history
<1>11. ASSUME NEW a \in Answers \cup {"cancelled"}, NativeReturn(a) PROVE TurnTypes'
  BY <1>11 DEF NativeReturn, journal, loopVars, history
<1>12. ASSUME TurnSettle PROVE TurnTypes'
  BY <1>12 DEF TurnSettle, Returned, loopVars, history
<1>13. CASE UNCHANGED vars \/ (\E i \in Inputs : Accept(i)) \/ Enter \/ BodyReturn \/ LeaveCancelled
  \/ TakeFinish \/ Park \/ Woken \/ TakeStop \/ LookRunning \/ Assign \/ SteerBegin \/
  SettleUnresolved \/ SettleFailed \/ Settle \/ Cancel \/ CloseInputs \/ EndScope \/ EndRun \/ (\E
  ok \in BOOLEAN : TakeConfigure(ok)) \/ (\E a \in SteerAnswers : SteerEnd(a))
  BY <1>1, <1>13
<1> QED
  BY <1>2, <1>3, <1>4, <1>5, <1>6, <1>7, <1>8, <1>9, <1>10, <1>11, <1>12, <1>13 DEF Next, OwnerStep,
    TurnStep

\* So has the history.
LEMMA StepHistory == IInv /\ [Next]_vars => HistoryTypes'
<1> SUFFICES ASSUME IInv, [Next]_vars PROVE HistoryTypes'
  OBVIOUS
<1>1. ASSUME UNCHANGED vars \/ Enter \/ BodyReturn \/ LeaveCancelled \/ TakeFinish \/ Park \/ Woken
  \/ TakeStop \/ StartTurn \/ LookRunning \/ Assign \/ SteerBegin \/ SettleInput \/ SettleUnresolved
  \/ SettleFailed \/ Settle \/ Leave \/ CloseInputs \/ EndScope \/ EndRun \/ DispatchRefused \/
  DispatchSaved \/ Dispatch \/ NativeEvent \/ TurnSettle \/ (\E ok \in BOOLEAN : TakeConfigure(ok))
  \/ (\E a \in Answers \cup {"cancelled"} : NativeReturn(a))
  PROVE UNCHANGED <<prompted, steered, closing, late, abandoned, faults>>
  <2>1. ASSUME Enter \/ BodyReturn \/ LeaveCancelled \/ TakeFinish \/ Park \/ Woken \/ TakeStop \/
    StartTurn
    PROVE UNCHANGED <<prompted, steered, closing, late, abandoned, faults>>
    BY <2>1 DEF Enter, journal, genVars, history, BodyReturn, LeaveCancelled, LeaveWith, TakeFinish,
      Idle, session, Park, Woken, TakeStop, Ready, StartTurn
  <2>2. ASSUME LookRunning \/ Assign \/ SteerBegin \/ SettleInput \/ SettleUnresolved \/
    SettleFailed \/ Settle \/ Leave
    PROVE UNCHANGED <<prompted, steered, closing, late, abandoned, faults>>
    BY <2>2 DEF LookRunning, journal, genVars, history, Assign, session, SteerBegin, SettleInput,
      SettleUnresolved, LeaveWith, SettleFailed, Settle, Leave
  <2>3. ASSUME CloseInputs \/ EndScope \/ EndRun \/ DispatchRefused \/ DispatchSaved \/ Dispatch \/
    NativeEvent \/ TurnSettle
    PROVE UNCHANGED <<prompted, steered, closing, late, abandoned, faults>>
    BY <2>3 DEF CloseInputs, session, loopVars, genVars, history, EndScope, EndRun, DispatchRefused,
      journal, DispatchSaved, Dispatch, NativeEvent, TurnSettle, Returned
  <2>4. ASSUME NEW ok \in BOOLEAN, TakeConfigure(ok)
    PROVE UNCHANGED <<prompted, steered, closing, late, abandoned, faults>>
    BY <2>4 DEF TakeConfigure, LeaveWith, Ready, session, genVars, history, Idle
  <2>5. ASSUME NEW a \in Answers \cup {"cancelled"}, NativeReturn(a)
    PROVE UNCHANGED <<prompted, steered, closing, late, abandoned, faults>>
    BY <2>5 DEF NativeReturn, journal, loopVars, history
  <2> QED
    BY <1>1, <2>1, <2>2, <2>3, <2>4, <2>5 DEF vars, journal, session, loopVars, genVars, history
<1> USE AnswersAreKnown DEF IInv, TypeOK, HistoryTypes, LoopTypes
<1>2. ASSUME NEW i \in Inputs, Accept(i) PROVE HistoryTypes'
  <2>1. saved[occ].active \in Messages \cup {None}
    <3>1. occ \in Occurrences
      BY <1>2 DEF Accept, OccurrenceInv
    <3> QED
      BY <3>1, KnownInputs DEF States
  <2> QED
    BY <1>2, <2>1 DEF Accept
<1>3. ASSUME NEW a \in SteerAnswers, SteerEnd(a) PROVE HistoryTypes'
  <2>1. First(queue) \in Messages /\ steered \in Seq(Messages)
    BY <1>3 DEF SteerEnd, QueueInv
  <2>2. steered' \in Seq(Messages)
    BY <1>3, <2>1 DEF SteerEnd
  <2> QED
    BY <1>3, <2>2 DEF SteerEnd
<1>4. ASSUME Cancel PROVE HistoryTypes'
  BY <1>4 DEF Cancel, journal, genVars
<1>5. ASSUME Reenter PROVE HistoryTypes'
  <2>1. pc = "steering" => First(queue) \in Messages
    BY DEF QueueInv
  <2>2. steered' \in Seq(Messages)
    BY <1>5, <2>1 DEF Reenter
  <2>3. faults' \in Nat
    BY <1>5 DEF Reenter
  <2> QED
    BY <1>5, <2>2, <2>3 DEF Reenter
<1>6. ASSUME Send PROVE HistoryTypes'
  <2>1. state.active \in Messages
    BY <1>6 DEF Send, TurnInv, States
  <2> QED
    BY <1>6, <2>1 DEF Send
<1>7. CASE UNCHANGED vars \/ Enter \/ BodyReturn \/ LeaveCancelled \/ TakeFinish \/ Park \/ Woken \/
  TakeStop \/ StartTurn \/ LookRunning \/ Assign \/ SteerBegin \/ SettleInput \/ SettleUnresolved \/
  SettleFailed \/ Settle \/ Leave \/ CloseInputs \/ EndScope \/ EndRun \/ DispatchRefused \/
  DispatchSaved \/ Dispatch \/ NativeEvent \/ TurnSettle \/ (\E ok \in BOOLEAN : TakeConfigure(ok))
  \/ (\E a \in Answers \cup {"cancelled"} : NativeReturn(a))
  BY <1>1, <1>7
<1> QED
  BY <1>2, <1>3, <1>4, <1>5, <1>6, <1>7 DEF Next, OwnerStep, TurnStep

\* The inbox keeps its order.
LEMMA StepOrder == IInv /\ [Next]_vars => OrderInv'
<1> SUFFICES ASSUME IInv, [Next]_vars PROVE OrderInv'
  OBVIOUS
<1>1. ASSUME UNCHANGED vars \/ Enter \/ BodyReturn \/ LeaveCancelled \/ TakeFinish \/ Park \/ Woken
  \/ TakeStop \/ StartTurn \/ LookRunning \/ Assign \/ SteerBegin \/ SettleInput \/ SettleUnresolved
  \/ SettleFailed \/ Settle \/ Leave \/ Cancel \/ CloseInputs \/ EndScope \/ EndRun \/ Reenter \/
  DispatchRefused \/ DispatchSaved \/ Dispatch \/ Send \/ NativeEvent \/ TurnSettle \/ (\E ok \in
  BOOLEAN : TakeConfigure(ok)) \/ (\E a \in SteerAnswers : SteerEnd(a)) \/ (\E a \in Answers \cup
  {"cancelled"} : NativeReturn(a))
  PROVE UNCHANGED <<order>>
  <2>1. ASSUME Enter \/ BodyReturn \/ LeaveCancelled \/ TakeFinish \/ Park \/ Woken \/ TakeStop \/
    StartTurn
    PROVE UNCHANGED <<order>>
    BY <2>1 DEF Enter, journal, genVars, history, BodyReturn, LeaveCancelled, LeaveWith, TakeFinish,
      Idle, session, Park, Woken, TakeStop, Ready, StartTurn
  <2>2. ASSUME LookRunning \/ Assign \/ SteerBegin \/ SettleInput \/ SettleUnresolved \/
    SettleFailed \/ Settle \/ Leave
    PROVE UNCHANGED <<order>>
    BY <2>2 DEF LookRunning, journal, genVars, history, Assign, session, SteerBegin, SettleInput,
      SettleUnresolved, LeaveWith, SettleFailed, Settle, Leave
  <2>3. ASSUME Cancel \/ CloseInputs \/ EndScope \/ EndRun \/ Reenter \/ DispatchRefused \/
    DispatchSaved \/ Dispatch
    PROVE UNCHANGED <<order>>
    BY <2>3 DEF Cancel, journal, genVars, CloseInputs, session, loopVars, history, EndScope, EndRun,
      Reenter, DispatchRefused, DispatchSaved, Dispatch
  <2>4. ASSUME Send \/ NativeEvent \/ TurnSettle PROVE UNCHANGED <<order>>
    BY <2>4 DEF Send, journal, loopVars, NativeEvent, history, TurnSettle, Returned
  <2>5. ASSUME NEW ok \in BOOLEAN, TakeConfigure(ok) PROVE UNCHANGED <<order>>
    BY <2>5 DEF TakeConfigure, LeaveWith, Ready, session, genVars, history, Idle
  <2>6. ASSUME NEW a \in SteerAnswers, SteerEnd(a) PROVE UNCHANGED <<order>>
    BY <2>6 DEF SteerEnd, Resolved, session, genVars
  <2>7. ASSUME NEW a \in Answers \cup {"cancelled"}, NativeReturn(a) PROVE UNCHANGED <<order>>
    BY <2>7 DEF NativeReturn, journal, loopVars, history
  <2> QED
    BY <1>1, <2>1, <2>2, <2>3, <2>4, <2>5, <2>6, <2>7 DEF vars, journal, session, loopVars, genVars,
      history
<1> USE Same DEF IInv, TypeOK, OrderInv, JournalTypes
<1>2. ASSUME NEW i \in Inputs, Accept(i) PROVE OrderInv'
  <2>1. /\ Len(order) \in Nat /\ Len(order') = Len(order) + 1 /\ order'[Len(order')] = i
        /\ (\A k \in 1..Len(order) : order'[k] = order[k]) /\ i \notin Accepted
        /\ Accepted \cap Finishes = {}
    BY <1>2, AcceptEffect
  <2>2. \A k \in 1..Len(order) : order[k] \in Accepted
    BY DEF Accepted
  <2>3. \A k \in 1..Len(order') : k = Len(order') \/ k \in 1..Len(order)
    BY <2>1
  <2> QED
    BY <2>1, <2>2, <2>3
<1>3. CASE UNCHANGED vars \/ Enter \/ BodyReturn \/ LeaveCancelled \/ TakeFinish \/ Park \/ Woken \/
  TakeStop \/ StartTurn \/ LookRunning \/ Assign \/ SteerBegin \/ SettleInput \/ SettleUnresolved \/
  SettleFailed \/ Settle \/ Leave \/ Cancel \/ CloseInputs \/ EndScope \/ EndRun \/ Reenter \/
  DispatchRefused \/ DispatchSaved \/ Dispatch \/ Send \/ NativeEvent \/ TurnSettle \/ (\E ok \in
  BOOLEAN : TakeConfigure(ok)) \/ (\E a \in SteerAnswers : SteerEnd(a)) \/ (\E a \in Answers \cup
  {"cancelled"} : NativeReturn(a))
  BY <1>1, <1>3
<1> QED
  BY <1>2, <1>3 DEF Next, OwnerStep, TurnStep

\* The occurrences end in turn.
LEMMA StepOccurrence == IInv /\ [Next]_vars => OccurrenceInv'
<1> SUFFICES ASSUME IInv, [Next]_vars PROVE OccurrenceInv'
  OBVIOUS
<1>1. ASSUME UNCHANGED vars \/ (\E i \in Inputs : Accept(i)) \/ Cancel \/ CloseInputs \/
  DispatchRefused \/ DispatchSaved \/ Dispatch \/ Send \/ NativeEvent \/ TurnSettle \/ (\E a \in
  Answers \cup {"cancelled"} : NativeReturn(a))
  PROVE UNCHANGED <<active, pc, occ, saved>>
  <2>1. ASSUME NEW i \in Inputs, Accept(i) PROVE UNCHANGED <<active, pc, occ, saved>>
    BY <2>1 DEF Accept, Locked, session, genVars
  <2>2. ASSUME Cancel \/ CloseInputs \/ DispatchRefused \/ DispatchSaved \/ Dispatch \/ Send \/
    NativeEvent \/ TurnSettle
    PROVE UNCHANGED <<active, pc, occ, saved>>
    BY <2>2 DEF Cancel, journal, genVars, CloseInputs, session, loopVars, history, DispatchRefused,
      DispatchSaved, Dispatch, Send, NativeEvent, TurnSettle, Returned
  <2>3. ASSUME NEW a \in Answers \cup {"cancelled"}, NativeReturn(a)
    PROVE UNCHANGED <<active, pc, occ, saved>>
    BY <2>3 DEF NativeReturn, journal, loopVars, history
  <2> QED
    BY <1>1, <2>1, <2>2, <2>3 DEF vars, journal, session, loopVars, genVars, history
<1> USE Same, AnswersAreKnown DEF IInv, TypeOK, OccurrenceInv, JournalTypes, LoopTypes, InLoop,
  Owned
<1>2. ASSUME Enter PROVE OccurrenceInv'
  <2>1. occ \in Nat /\ occ + 1 \in Occurrences
    BY <1>2, AnswersAreKnown DEF Enter, Occurrences
  <2>2. saved[occ + 1] \in States
    BY <2>1, KnownInputs
  <2>3. saved[occ + 1].endedBy \in {None, "agent", "human"}
    BY <2>2 DEF States
  <2>4. UNCHANGED saved /\ occ' = occ + 1 /\ (active' <=> pc' \in Owned)
    BY <1>2 DEF Enter, journal
  <2>5. pc' = "body" => saved[occ + 1].endedBy = "agent"
    BY <1>2, <2>3 DEF Enter, None
  <2>6. \A o \in Occurrences : o < occ + 1 => saved[o].endedBy = "agent"
    <3>1. \A o \in Occurrences : o < occ + 1 => o < occ \/ (o = occ /\ occ > 0)
      BY <2>1 DEF Occurrences
    <3> QED
      BY <1>2, <3>1 DEF Enter
  <2>7. pc' \in Owned => \A o \in Occurrences : o > occ + 1 => saved[o] = Fresh
    <3>1. pc' \in Owned => saved[occ + 1].endedBy = None
      BY <1>2 DEF Enter
    <3>2. \A o \in Occurrences : o > occ + 1 => occ + 1 < o
      BY <2>1 DEF Occurrences
    <3> QED
      BY <2>1, <3>1, <3>2
  <2> QED
    BY <2>1, <2>4, <2>5, <2>6, <2>7
<1>3. ASSUME BodyReturn PROVE OccurrenceInv'
  BY <1>3 DEF BodyReturn, journal, genVars, history
<1>4. ASSUME LeaveCancelled PROVE OccurrenceInv'
  BY <1>4 DEF LeaveCancelled, LeaveWith, journal, genVars, history
<1>5. ASSUME TakeFinish PROVE OccurrenceInv'
  <2>1. PICK f \in Pending(state) \cap Finishes : Takes({f}) /\ state'.active = None
    BY <1>5, TakeFinishEffect DEF Takes, Keeps
  <2>2. state.endedBy = None
    BY <1>5 DEF TakeFinish, Ready, Idle, StateInv, InLoop
  <2>3. /\ \A o \in Occurrences : o > occ => saved'[o] = Fresh
        /\ \A o \in Occurrences : o < occ => saved'[o].endedBy = "agent"
        /\ \A o, p \in Occurrences : saved'[o].endedBy = None /\ o < p => saved'[p] = Fresh
        /\ \A o \in Occurrences : saved'[o].endedBy # None => saved'[o].active = None
    BY <2>1, <2>2, OccurrencesKept
  <2> QED
    BY <1>5, <2>3 DEF TakeFinish, LeaveWith, Idle, session, genVars, history
<1>6. ASSUME Park PROVE OccurrenceInv'
  <2>1. Takes({}) /\ state'.active = state.active /\ state'.endedBy = state.endedBy
    BY <1>6, ParkEffect DEF Takes, Keeps
  <2>2. state.endedBy = None
    BY <1>6 DEF Park, Ready, Idle, StateInv, InLoop
  <2>3. /\ \A o \in Occurrences : o > occ => saved'[o] = Fresh
        /\ \A o \in Occurrences : o < occ => saved'[o].endedBy = "agent"
        /\ \A o, p \in Occurrences : saved'[o].endedBy = None /\ o < p => saved'[p] = Fresh
        /\ \A o \in Occurrences : saved'[o].endedBy # None => saved'[o].active = None
    BY <2>1, <2>2, OccurrencesKept
  <2> QED
    BY <1>6, <2>3 DEF Park, Idle, session, genVars, history
<1>7. ASSUME Woken PROVE OccurrenceInv'
  BY <1>7 DEF Woken, journal, genVars, history
<1>8. ASSUME TakeStop PROVE OccurrenceInv'
  <2>1. PICK i \in Pending(state) \cap Stops : Takes({i}) /\ state'.endedBy = state.endedBy
    BY <1>8, TakeStopEffect DEF Takes, Keeps
  <2>2. state.endedBy = None
    BY <1>8 DEF TakeStop, Ready, Idle, StateInv, InLoop
  <2>3. /\ \A o \in Occurrences : o > occ => saved'[o] = Fresh
        /\ \A o \in Occurrences : o < occ => saved'[o].endedBy = "agent"
        /\ \A o, p \in Occurrences : saved'[o].endedBy = None /\ o < p => saved'[p] = Fresh
        /\ \A o \in Occurrences : saved'[o].endedBy # None => saved'[o].active = None
    BY <2>1, <2>2, OccurrencesKept
  <2> QED
    BY <1>8, <2>3 DEF TakeStop, Ready, session, genVars, history, Idle
<1>9. ASSUME NEW ok \in BOOLEAN, TakeConfigure(ok) PROVE OccurrenceInv'
  <2>1. CASE ok = TRUE
    <3>1. PICK i \in Pending(state) \cap Configures : Takes({i}) /\ state'.endedBy = state.endedBy
      BY <1>9, <2>1, TakeConfigureEffect DEF Keeps
    <3>2. state.endedBy = None
      BY <1>9 DEF TakeConfigure, Ready, Idle, StateInv, InLoop
    <3>3. /\ \A o \in Occurrences : o > occ => saved'[o] = Fresh
          /\ \A o \in Occurrences : o < occ => saved'[o].endedBy = "agent"
          /\ \A o, p \in Occurrences : saved'[o].endedBy = None /\ o < p => saved'[p] = Fresh
          /\ \A o \in Occurrences : saved'[o].endedBy # None => saved'[o].active = None
      BY <3>1, <3>2, OccurrencesKept
    <3> QED
      BY <1>9, <2>1, <3>3 DEF TakeConfigure, Ready, Idle, session, genVars, history
  <2>2. CASE ok = FALSE
    BY <1>9, <2>2 DEF TakeConfigure, Ready, Idle, LeaveWith, session, genVars, history
  <2> QED
    BY <2>1, <2>2
<1>10. ASSUME StartTurn PROVE OccurrenceInv'
  <2>1. PICK S \in SUBSET Pending(state) : Takes(S) /\ state'.endedBy = state.endedBy
    <3>1. CASE Takes({}) /\ Keeps(state', state)
      BY <3>1 DEF Keeps
    <3>2. CASE \E i \in Pending(state) : Takes({i}) /\ state'.endedBy = state.endedBy
      BY <3>2
    <3> QED
      BY <1>10, <3>1, <3>2, StartTurnEffect
  <2>2. state.endedBy = None
    BY <1>10 DEF StartTurn, Ready, Idle, StateInv, InLoop
  <2>3. /\ \A o \in Occurrences : o > occ => saved'[o] = Fresh
        /\ \A o \in Occurrences : o < occ => saved'[o].endedBy = "agent"
        /\ \A o, p \in Occurrences : saved'[o].endedBy = None /\ o < p => saved'[p] = Fresh
        /\ \A o \in Occurrences : saved'[o].endedBy # None => saved'[o].active = None
    BY <2>1, <2>2, OccurrencesKept
  <2> QED
    BY <1>10, <2>3 DEF StartTurn, Ready, session, history, Idle
<1>11. ASSUME LookRunning PROVE OccurrenceInv'
  BY <1>11 DEF LookRunning, journal, genVars, history
<1>12. ASSUME Assign PROVE OccurrenceInv'
  BY <1>12, QueueHead DEF Assign, session, genVars, history
<1>13. ASSUME SteerBegin PROVE OccurrenceInv'
  BY <1>13, QueueHead DEF SteerBegin, session, genVars, history
<1>14. ASSUME NEW a \in SteerAnswers, SteerEnd(a) PROVE OccurrenceInv'
  BY <1>14, QueueHead DEF SteerEnd, Resolved, session, genVars
<1>15. ASSUME SettleInput PROVE OccurrenceInv'
  BY <1>15 DEF SettleInput, session, history
<1>16. ASSUME SettleUnresolved PROVE OccurrenceInv'
  <2>1. Takes(Absorbs) /\ state'.endedBy = None
    BY <1>16, UnresolvedEffect DEF Takes, Keeps
  <2>2. state.endedBy = None
    BY <1>16 DEF SettleUnresolved, Ready, Idle, StateInv, InLoop
  <2>3. /\ \A o \in Occurrences : o > occ => saved'[o] = Fresh
        /\ \A o \in Occurrences : o < occ => saved'[o].endedBy = "agent"
        /\ \A o, p \in Occurrences : saved'[o].endedBy = None /\ o < p => saved'[p] = Fresh
        /\ \A o \in Occurrences : saved'[o].endedBy # None => saved'[o].active = None
    BY <2>1, <2>2, OccurrencesKept
  <2> QED
    BY <1>16, <2>3 DEF SettleUnresolved, LeaveWith, session, genVars, history
<1>17. ASSUME SettleFailed PROVE OccurrenceInv'
  BY <1>17, AbsorbedEffect, SettlingLoop DEF SettleFailed, LeaveWith, journal, genVars, history
<1>18. ASSUME Settle PROVE OccurrenceInv'
  <2>1. Takes(Absorbs) /\ state'.active = None
    BY <1>18, SettleEffect DEF Takes, Keeps
  <2>2. state.endedBy = None
    BY <1>18 DEF Settle, Ready, Idle, StateInv, InLoop
  <2>3. /\ \A o \in Occurrences : o > occ => saved'[o] = Fresh
        /\ \A o \in Occurrences : o < occ => saved'[o].endedBy = "agent"
        /\ \A o, p \in Occurrences : saved'[o].endedBy = None /\ o < p => saved'[p] = Fresh
        /\ \A o \in Occurrences : saved'[o].endedBy # None => saved'[o].active = None
    BY <2>1, <2>2, OccurrencesKept
  <2> QED
    BY <1>18, <2>3 DEF Settle, LeaveWith, session, genVars, history
<1>19. ASSUME Leave PROVE OccurrenceInv'
  <2>1. pc' = "body" => saved[occ].endedBy = "agent"
    <3>1. state.endedBy \in {None, "agent", "human"}
      BY DEF States, LoopTypes
    <3> QED
      BY <1>19, <3>1 DEF Leave, StateInv
  <2>2. UNCHANGED <<saved, occ>> /\ ~active' /\ pc' \notin Owned
    BY <1>19 DEF Leave, journal
  <2> QED
    BY <2>1, <2>2
<1>20. ASSUME EndScope PROVE OccurrenceInv'
  BY <1>20 DEF EndScope, session, genVars, history
<1>21. ASSUME EndRun PROVE OccurrenceInv'
  BY <1>21 DEF EndRun, session, genVars, history
<1>22. ASSUME Reenter PROVE OccurrenceInv'
  <2>1. pc' = "body" /\ occ' = 0 /\ active' = FALSE /\ UNCHANGED saved
    BY <1>22 DEF Reenter, journal
  <2>2. \A o \in Occurrences : ~(o < 0)
    BY DEF Occurrences
  <2> QED
    BY <2>1, <2>2
<1>23. CASE UNCHANGED vars \/ (\E i \in Inputs : Accept(i)) \/ Cancel \/ CloseInputs \/
  DispatchRefused \/ DispatchSaved \/ Dispatch \/ Send \/ NativeEvent \/ TurnSettle \/ (\E a \in
  Answers \cup {"cancelled"} : NativeReturn(a))
  BY <1>1, <1>23
<1> QED
  BY <1>2, <1>3, <1>4, <1>5, <1>6, <1>7, <1>8, <1>9, <1>10, <1>11, <1>12, <1>13, <1>14, <1>15,
    <1>16, <1>17, <1>18, <1>19, <1>20, <1>21, <1>22, <1>23 DEF Next, OwnerStep, TurnStep

\* The loop's copy is the committed one.
LEMMA StepState == IInv /\ [Next]_vars => StateInv'
<1> SUFFICES ASSUME IInv, [Next]_vars PROVE StateInv'
  OBVIOUS
<1>1. ASSUME UNCHANGED vars \/ (\E i \in Inputs : Accept(i)) \/ Cancel \/ CloseInputs \/
  DispatchRefused \/ DispatchSaved \/ Dispatch \/ Send \/ NativeEvent \/ TurnSettle \/ (\E a \in
  Answers \cup {"cancelled"} : NativeReturn(a))
  PROVE UNCHANGED <<pc, state, saved, occ, failed>>
  <2>1. ASSUME NEW i \in Inputs, Accept(i) PROVE UNCHANGED <<pc, state, saved, occ, failed>>
    BY <2>1 DEF Accept, Locked, session, genVars
  <2>2. ASSUME Cancel \/ CloseInputs \/ DispatchRefused \/ DispatchSaved \/ Dispatch \/ Send \/
    NativeEvent \/ TurnSettle
    PROVE UNCHANGED <<pc, state, saved, occ, failed>>
    BY <2>2 DEF Cancel, journal, genVars, CloseInputs, session, loopVars, history, DispatchRefused,
      DispatchSaved, Dispatch, Send, NativeEvent, TurnSettle, Returned
  <2>3. ASSUME NEW a \in Answers \cup {"cancelled"}, NativeReturn(a)
    PROVE UNCHANGED <<pc, state, saved, occ, failed>>
    BY <2>3 DEF NativeReturn, journal, loopVars, history
  <2> QED
    BY <1>1, <2>1, <2>2, <2>3 DEF vars, journal, session, loopVars, genVars, history
<1> USE Same DEF IInv, TypeOK, StateInv, OccurrenceInv, LoopTypes, InLoop, Owned
<1>2. ASSUME Enter PROVE StateInv'
  BY <1>2 DEF Enter, journal, genVars, history
<1>3. ASSUME BodyReturn PROVE StateInv'
  BY <1>3 DEF BodyReturn, journal, genVars, history
<1>4. ASSUME LeaveCancelled PROVE StateInv'
  BY <1>4 DEF LeaveCancelled, LeaveWith, journal, genVars, history
<1>5. ASSUME TakeFinish PROVE StateInv'
  <2>1. PICK f \in Pending(state) \cap Finishes : Takes({f}) /\ state'.endedBy = "human"
    BY <1>5, TakeFinishEffect
  <2>2. state' = saved'[occ] /\ pc' = "leave" /\ UNCHANGED occ /\ state'.endedBy # None
    BY <1>5, <2>1 DEF TakeFinish, LeaveWith, Takes, None
  <2> QED
    BY <2>2
<1>6. ASSUME Park PROVE StateInv'
  BY <1>6, ParkEffect DEF Park, Idle, session, genVars, history, Takes, Keeps
<1>7. ASSUME Woken PROVE StateInv'
  BY <1>7 DEF Woken, journal, genVars, history
<1>8. ASSUME TakeStop PROVE StateInv'
  BY <1>8, TakeStopEffect DEF TakeStop, Ready, session, genVars, history, Idle, Takes, Keeps
<1>9. ASSUME NEW ok \in BOOLEAN, TakeConfigure(ok) PROVE StateInv'
  <2>1. CASE ok = TRUE
    BY <1>9, <2>1, TakeConfigureEffect DEF TakeConfigure, Takes, Keeps, Ready, Idle, LeaveWith, session, genVars, history
  <2>2. CASE ok = FALSE
    BY <1>9, <2>2 DEF TakeConfigure, Ready, Idle, LeaveWith, session, genVars, history
  <2> QED
    BY <2>1, <2>2
<1>10. ASSUME StartTurn PROVE StateInv'
  BY <1>10, StartTurnEffect DEF StartTurn, Ready, session, history, Idle, Takes, Keeps
<1>11. ASSUME LookRunning PROVE StateInv'
  BY <1>11 DEF LookRunning, journal, genVars, history
<1>12. ASSUME Assign PROVE StateInv'
  BY <1>12, QueueHead DEF Assign, session, genVars, history
<1>13. ASSUME SteerBegin PROVE StateInv'
  BY <1>13, QueueHead DEF SteerBegin, session, genVars, history
<1>14. ASSUME NEW a \in SteerAnswers, SteerEnd(a) PROVE StateInv'
  BY <1>14, QueueHead DEF SteerEnd, Resolved, session, genVars
<1>15. ASSUME SettleInput PROVE StateInv'
  BY <1>15, SettleInputEffect DEF SettleInput, session, history
<1>16. ASSUME SettleUnresolved PROVE StateInv'
  BY <1>16, UnresolvedEffect DEF SettleUnresolved, LeaveWith, session, genVars, history, Takes,
    Keeps
<1>17. ASSUME SettleFailed PROVE StateInv'
  BY <1>17, AbsorbedEffect, SettlingLoop DEF SettleFailed, LeaveWith, journal, genVars, history
<1>18. ASSUME Settle PROVE StateInv'
  BY <1>18, SettleEffect DEF Settle, LeaveWith, session, genVars, history, Takes, Keeps
<1>19. ASSUME Leave PROVE StateInv'
  BY <1>19 DEF Leave, journal, history
<1>20. ASSUME EndScope PROVE StateInv'
  BY <1>20 DEF EndScope, session, genVars, history
<1>21. ASSUME EndRun PROVE StateInv'
  BY <1>21 DEF EndRun, session, genVars, history
<1>22. ASSUME Reenter PROVE StateInv'
  BY <1>22 DEF Reenter, journal
<1>23. CASE UNCHANGED vars \/ (\E i \in Inputs : Accept(i)) \/ Cancel \/ CloseInputs \/
  DispatchRefused \/ DispatchSaved \/ Dispatch \/ Send \/ NativeEvent \/ TurnSettle \/ (\E a \in
  Answers \cup {"cancelled"} : NativeReturn(a))
  BY <1>1, <1>23
<1> QED
  BY <1>2, <1>3, <1>4, <1>5, <1>6, <1>7, <1>8, <1>9, <1>10, <1>11, <1>12, <1>13, <1>14, <1>15,
    <1>16, <1>17, <1>18, <1>19, <1>20, <1>21, <1>22, <1>23 DEF Next, OwnerStep, TurnStep

\* A generation is that of the active message.
LEMMA StepTurnInv == IInv /\ [Next]_vars => TurnInv'
<1> SUFFICES ASSUME IInv, [Next]_vars PROVE TurnInv'
  OBVIOUS
<1>1. ASSUME UNCHANGED vars \/ (\E i \in Inputs : Accept(i)) \/ Cancel \/ CloseInputs \/ NativeEvent
  PROVE UNCHANGED <<pc, state, saved, occ, turn>>
  <2>1. ASSUME NEW i \in Inputs, Accept(i) PROVE UNCHANGED <<pc, state, saved, occ, turn>>
    BY <2>1 DEF Accept, Locked, session, genVars
  <2>2. ASSUME Cancel \/ CloseInputs \/ NativeEvent PROVE UNCHANGED <<pc, state, saved, occ, turn>>
    BY <2>2 DEF Cancel, journal, genVars, CloseInputs, session, loopVars, history, NativeEvent
  <2> QED
    BY <1>1, <2>1, <2>2 DEF vars, journal, session, loopVars, genVars, history
<1> USE Same DEF IInv, TypeOK, TurnInv, StateInv, OccurrenceInv, LoopTypes, InLoop
<1>2. ASSUME Enter PROVE TurnInv'
  BY <1>2 DEF Enter, journal, genVars, history
<1>3. ASSUME BodyReturn PROVE TurnInv'
  BY <1>3 DEF BodyReturn, journal, genVars, history
<1>4. ASSUME LeaveCancelled PROVE TurnInv'
  BY <1>4 DEF LeaveCancelled, LeaveWith, journal, genVars, history
<1>5. ASSUME TakeFinish PROVE TurnInv'
  BY <1>5, TakeFinishEffect DEF TakeFinish, LeaveWith, Idle, session, genVars, history, Takes, Keeps
<1>6. ASSUME Park PROVE TurnInv'
  BY <1>6, ParkEffect DEF Park, Idle, session, genVars, history, Takes, Keeps
<1>7. ASSUME Woken PROVE TurnInv'
  BY <1>7 DEF Woken, journal, genVars, history
<1>8. ASSUME TakeStop PROVE TurnInv'
  BY <1>8, TakeStopEffect DEF TakeStop, Ready, session, genVars, history, Idle, Takes, Keeps
<1>9. ASSUME NEW ok \in BOOLEAN, TakeConfigure(ok) PROVE TurnInv'
  <2>1. CASE ok = TRUE
    BY <1>9, <2>1, TakeConfigureEffect DEF TakeConfigure, Takes, Keeps, Ready, Idle, LeaveWith, session, genVars, history
  <2>2. CASE ok = FALSE
    BY <1>9, <2>2 DEF TakeConfigure, Ready, Idle, LeaveWith, session, genVars, history
  <2> QED
    BY <2>1, <2>2
<1>10. ASSUME StartTurn PROVE TurnInv'
  <2>1. state' = saved'[occ] /\ state'.active # None
    <3>1. CASE Takes({}) /\ Keeps(state', state) /\ state.active # None
      BY <3>1 DEF Takes, Keeps
    <3>2. CASE \E i \in Pending(state) \cap Messages : Takes({i}) /\ state'.active = i
      BY <3>2, InputsAreApart DEF Takes, Inputs
    <3> QED
      BY <1>10, <3>1, <3>2, StartTurnEffect
  <2>2. pc = "look" /\ UNCHANGED <<pc, occ>>
    BY <1>10 DEF StartTurn, Ready, Idle
  <2> QED
    BY <2>1, <2>2
<1>11. ASSUME LookRunning PROVE TurnInv'
  BY <1>11 DEF LookRunning, journal, genVars, history
<1>12. ASSUME Assign PROVE TurnInv'
  BY <1>12, QueueHead DEF Assign, session, genVars, history
<1>13. ASSUME SteerBegin PROVE TurnInv'
  BY <1>13, QueueHead DEF SteerBegin, session, genVars, history
<1>14. ASSUME NEW a \in SteerAnswers, SteerEnd(a) PROVE TurnInv'
  BY <1>14, QueueHead DEF SteerEnd, Resolved, session, genVars
<1>15. ASSUME SettleInput PROVE TurnInv'
  BY <1>15, SettleInputEffect DEF SettleInput, session, history
<1>16. ASSUME SettleUnresolved PROVE TurnInv'
  BY <1>16, UnresolvedEffect DEF SettleUnresolved, LeaveWith, session, genVars, history, Takes,
    Keeps
<1>17. ASSUME SettleFailed PROVE TurnInv'
  BY <1>17, AbsorbedEffect, SettlingLoop DEF SettleFailed, LeaveWith, journal, genVars, history
<1>18. ASSUME Settle PROVE TurnInv'
  BY <1>18, SettleEffect DEF Settle, LeaveWith, session, genVars, history, Takes, Keeps
<1>19. ASSUME Leave PROVE TurnInv'
  BY <1>19 DEF Leave, journal, history
<1>20. ASSUME EndScope PROVE TurnInv'
  BY <1>20 DEF EndScope, session, genVars, history
<1>21. ASSUME EndRun PROVE TurnInv'
  BY <1>21 DEF EndRun, session, genVars, history
<1>22. ASSUME Reenter PROVE TurnInv'
  BY <1>22 DEF Reenter, journal
<1>23. ASSUME DispatchRefused PROVE TurnInv'
  BY <1>23 DEF DispatchRefused, journal, loopVars, history
<1>24. ASSUME DispatchSaved PROVE TurnInv'
  BY <1>24 DEF DispatchSaved, loopVars, history
<1>25. ASSUME Dispatch PROVE TurnInv'
  BY <1>25 DEF Dispatch, journal, loopVars, history
<1>26. ASSUME Send PROVE TurnInv'
  BY <1>26 DEF Send, journal, loopVars
<1>27. ASSUME NEW a \in Answers \cup {"cancelled"}, NativeReturn(a) PROVE TurnInv'
  BY <1>27 DEF NativeReturn, journal, loopVars, history
<1>28. ASSUME TurnSettle PROVE TurnInv'
  BY <1>28 DEF TurnSettle, Returned, loopVars, history
<1>29. CASE UNCHANGED vars \/ (\E i \in Inputs : Accept(i)) \/ Cancel \/ CloseInputs \/ NativeEvent
  BY <1>1, <1>29
<1> QED
  BY <1>2, <1>3, <1>4, <1>5, <1>6, <1>7, <1>8, <1>9, <1>10, <1>11, <1>12, <1>13, <1>14, <1>15,
    <1>16, <1>17, <1>18, <1>19, <1>20, <1>21, <1>22, <1>23, <1>24, <1>25, <1>26, <1>27, <1>28, <1>29
    DEF Next, OwnerStep, TurnStep

\* Its answer is the outcome that is recorded.
LEMMA StepAnswer == IInv /\ [Next]_vars => AnswerInv'
<1> SUFFICES ASSUME IInv, [Next]_vars PROVE AnswerInv'
  OBVIOUS
<1>1. ASSUME UNCHANGED vars \/ (\E i \in Inputs : Accept(i)) \/ CloseInputs \/ NativeEvent
  PROVE UNCHANGED <<cancelled, abandoned, turn, outcome, state, pc, answer>>
  <2>1. ASSUME NEW i \in Inputs, Accept(i)
    PROVE UNCHANGED <<cancelled, abandoned, turn, outcome, state, pc, answer>>
    BY <2>1 DEF Accept, Locked, session, genVars
  <2>2. ASSUME CloseInputs \/ NativeEvent
    PROVE UNCHANGED <<cancelled, abandoned, turn, outcome, state, pc, answer>>
    BY <2>2 DEF CloseInputs, session, loopVars, genVars, history, NativeEvent
  <2> QED
    BY <1>1, <2>1, <2>2 DEF vars, journal, session, loopVars, genVars, history
<1> USE Same DEF IInv, TypeOK, AnswerInv, TurnInv, StateInv, JournalTypes, LoopTypes, TurnTypes,
  InLoop, Replies, Unresolved
<1>2. ASSUME Enter PROVE AnswerInv'
  BY <1>2 DEF Enter, journal, genVars, history
<1>3. ASSUME BodyReturn PROVE AnswerInv'
  BY <1>3 DEF BodyReturn, journal, genVars, history
<1>4. ASSUME LeaveCancelled PROVE AnswerInv'
  BY <1>4 DEF LeaveCancelled, LeaveWith, journal, genVars, history
<1>5. ASSUME TakeFinish PROVE AnswerInv'
  BY <1>5, TakeFinishEffect DEF TakeFinish, LeaveWith, Idle, session, genVars, history, Takes, Keeps
<1>6. ASSUME Park PROVE AnswerInv'
  BY <1>6, ParkEffect DEF Park, Idle, session, genVars, history, Takes, Keeps
<1>7. ASSUME Woken PROVE AnswerInv'
  BY <1>7 DEF Woken, journal, genVars, history
<1>8. ASSUME TakeStop PROVE AnswerInv'
  BY <1>8, TakeStopEffect DEF TakeStop, Ready, session, genVars, history, Idle, Takes, Keeps
<1>9. ASSUME NEW ok \in BOOLEAN, TakeConfigure(ok) PROVE AnswerInv'
  <2>1. CASE ok = TRUE
    BY <1>9, <2>1, TakeConfigureEffect DEF TakeConfigure, Takes, Keeps, Ready, Idle, LeaveWith, session, genVars, history
  <2>2. CASE ok = FALSE
    BY <1>9, <2>2 DEF TakeConfigure, Ready, Idle, LeaveWith, session, genVars, history
  <2> QED
    BY <2>1, <2>2
<1>10. ASSUME StartTurn PROVE AnswerInv'
  BY <1>10, StartTurnEffect DEF StartTurn, Ready, session, history, Idle, Takes, Keeps
<1>11. ASSUME LookRunning PROVE AnswerInv'
  BY <1>11 DEF LookRunning, journal, genVars, history
<1>12. ASSUME Assign PROVE AnswerInv'
  BY <1>12, QueueHead DEF Assign, session, genVars, history
<1>13. ASSUME SteerBegin PROVE AnswerInv'
  BY <1>13, QueueHead DEF SteerBegin, session, genVars, history
<1>14. ASSUME NEW a \in SteerAnswers, SteerEnd(a) PROVE AnswerInv'
  BY <1>14, QueueHead DEF SteerEnd, Resolved, session, genVars
<1>15. ASSUME SettleInput PROVE AnswerInv'
  BY <1>15 DEF SettleInput, session, history
<1>16. ASSUME SettleUnresolved PROVE AnswerInv'
  BY <1>16, UnresolvedEffect DEF SettleUnresolved, LeaveWith, session, genVars, history, Takes,
    Keeps
<1>17. ASSUME SettleFailed PROVE AnswerInv'
  BY <1>17, AbsorbedEffect, SettlingLoop DEF SettleFailed, LeaveWith, journal, genVars, history
<1>18. ASSUME Settle PROVE AnswerInv'
  BY <1>18, SettleEffect DEF Settle, LeaveWith, session, genVars, history, Takes, Keeps
<1>19. ASSUME Leave PROVE AnswerInv'
  BY <1>19 DEF Leave, journal, history
<1>20. ASSUME Cancel PROVE AnswerInv'
  BY <1>20 DEF Cancel, journal, genVars
<1>21. ASSUME EndScope PROVE AnswerInv'
  BY <1>21 DEF EndScope, session, genVars, history
<1>22. ASSUME EndRun PROVE AnswerInv'
  BY <1>22 DEF EndRun, session, genVars, history
<1>23. ASSUME Reenter PROVE AnswerInv'
  BY <1>23 DEF Reenter, journal
<1>24. ASSUME DispatchRefused PROVE AnswerInv'
  BY <1>24 DEF DispatchRefused, journal, loopVars, history
<1>25. ASSUME DispatchSaved PROVE AnswerInv'
  BY <1>25 DEF DispatchSaved, loopVars, history
<1>26. ASSUME Dispatch PROVE AnswerInv'
  BY <1>26 DEF Dispatch, journal, loopVars, history
<1>27. ASSUME Send PROVE AnswerInv'
  BY <1>27 DEF Send, journal, loopVars
<1>28. ASSUME NEW a \in Answers \cup {"cancelled"}, NativeReturn(a) PROVE AnswerInv'
  BY <1>28 DEF NativeReturn, journal, loopVars, history
<1>29. ASSUME TurnSettle PROVE AnswerInv'
  <2>1. state.active \in Messages /\ outcome[state.active] = None /\ pc # "settle"
    BY <1>29 DEF TurnSettle, States
  <2>2. outcome'[state.active] = IF answer \in Unresolved THEN None ELSE answer
    BY <1>29, <2>1 DEF TurnSettle
  <2>3. answer = "chat" => answer' = "chat"
    BY <1>29 DEF TurnSettle, Returned
  <2>4. turn' = "done" /\ UNCHANGED <<state, pc, cancelled, abandoned>>
    BY <1>29 DEF TurnSettle, loopVars, history
  <2> QED
    BY <2>1, <2>2, <2>3, <2>4 DEF None
<1>30. CASE UNCHANGED vars \/ (\E i \in Inputs : Accept(i)) \/ CloseInputs \/ NativeEvent
  BY <1>1, <1>30
<1> QED
  BY <1>2, <1>3, <1>4, <1>5, <1>6, <1>7, <1>8, <1>9, <1>10, <1>11, <1>12, <1>13, <1>14, <1>15,
    <1>16, <1>17, <1>18, <1>19, <1>20, <1>21, <1>22, <1>23, <1>24, <1>25, <1>26, <1>27, <1>28,
    <1>29, <1>30 DEF Next, OwnerStep, TurnStep

\* What is looked at is pending.
LEMMA StepQueue == IInv /\ [Next]_vars => QueueInv'
<1> SUFFICES ASSUME IInv, [Next]_vars PROVE QueueInv'
  OBVIOUS
<1>1. ASSUME UNCHANGED vars \/ Cancel \/ DispatchRefused \/ DispatchSaved \/ Dispatch \/ Send \/
  NativeEvent \/ TurnSettle \/ (\E a \in Answers \cup {"cancelled"} : NativeReturn(a))
  PROVE UNCHANGED <<pc, queue, order, saved, disp, steered>>
  <2>1. ASSUME Cancel \/ DispatchRefused \/ DispatchSaved \/ Dispatch \/ Send \/ NativeEvent \/
    TurnSettle
    PROVE UNCHANGED <<pc, queue, order, saved, disp, steered>>
    BY <2>1 DEF Cancel, journal, genVars, DispatchRefused, loopVars, history, DispatchSaved,
      Dispatch, Send, NativeEvent, TurnSettle, Returned
  <2>2. ASSUME NEW a \in Answers \cup {"cancelled"}, NativeReturn(a)
    PROVE UNCHANGED <<pc, queue, order, saved, disp, steered>>
    BY <2>2 DEF NativeReturn, journal, loopVars, history
  <2> QED
    BY <1>1, <2>1, <2>2 DEF vars, journal, session, loopVars, genVars, history
<1> USE Same, KnownInputs DEF IInv, TypeOK, QueueInv, TurnInv, SteeredInv, JournalTypes, LoopTypes
<1>2. ASSUME NEW i \in Inputs, Accept(i) PROVE QueueInv'
  <2>1. /\ Accepted' = Accepted \cup {i} /\ i \notin Accepted
        /\ (queue # {} /\ queue \subseteq Accepted => First(queue)' = First(queue))
    BY <1>2, AcceptEffect
  <2>2. UNCHANGED <<pc, queue, saved, steered>> /\ disp' = [disp EXCEPT ![i] = "pending"]
    BY <1>2 DEF Accept
  <2>3. pc \in {"assign", "steer", "steering"} /\ queue # {} => First(queue) \in Accepted
    BY QueueHead
  <2>4. Consumed' = Consumed /\ Steered' = Steered
    BY <2>2
  <2>5. pc \in {"steer", "steering"} => disp'[First(queue)] = disp[First(queue)]
    BY <2>1, <2>2, <2>3
  <2> QED
    BY <2>1, <2>2, <2>4, <2>5
<1>3. ASSUME Enter PROVE QueueInv'
  BY <1>3 DEF Enter, journal, genVars, history
<1>4. ASSUME BodyReturn PROVE QueueInv'
  BY <1>4 DEF BodyReturn, journal, genVars, history
<1>5. ASSUME LeaveCancelled PROVE QueueInv'
  BY <1>5 DEF LeaveCancelled, LeaveWith, journal, genVars, history
<1>6. ASSUME TakeFinish PROVE QueueInv'
  BY <1>6, TakeFinishEffect DEF TakeFinish, LeaveWith, Idle, session, genVars, history, Takes, Keeps
<1>7. ASSUME Park PROVE QueueInv'
  BY <1>7, ParkEffect DEF Park, Idle, session, genVars, history, Takes, Keeps
<1>8. ASSUME Woken PROVE QueueInv'
  BY <1>8 DEF Woken, journal, genVars, history
<1>9. ASSUME TakeStop PROVE QueueInv'
  BY <1>9, TakeStopEffect DEF TakeStop, Ready, session, genVars, history, Idle, Takes, Keeps
<1>10. ASSUME NEW ok \in BOOLEAN, TakeConfigure(ok) PROVE QueueInv'
  <2>1. CASE ok = TRUE
    BY <1>10, <2>1, TakeConfigureEffect DEF TakeConfigure, Takes, Keeps, Ready, Idle, LeaveWith, session, genVars, history
  <2>2. CASE ok = FALSE
    BY <1>10, <2>2 DEF TakeConfigure, Ready, Idle, LeaveWith, session, genVars, history
  <2> QED
    BY <2>1, <2>2
<1>11. ASSUME StartTurn PROVE QueueInv'
  BY <1>11, StartTurnEffect DEF StartTurn, Ready, session, history, Idle, Takes, Keeps
<1>12. ASSUME LookRunning PROVE QueueInv'
  <2>1. Pending(state) \subseteq Accepted \ Consumed
    BY DEF Pending
  <2> QED
    BY <1>12, <2>1 DEF LookRunning, journal, history
<1>13. ASSUME Assign PROVE QueueInv'
  BY <1>13, QueueHead DEF Assign, session, genVars, history
<1>14. ASSUME SteerBegin PROVE QueueInv'
  BY <1>14, QueueHead DEF SteerBegin, session, genVars, history
<1>15. ASSUME NEW a \in SteerAnswers, SteerEnd(a) PROVE QueueInv'
  BY <1>15, QueueHead DEF SteerEnd, Resolved, session, genVars
<1>16. ASSUME SettleInput PROVE QueueInv'
  BY <1>16 DEF SettleInput, session, history
<1>17. ASSUME SettleUnresolved PROVE QueueInv'
  BY <1>17, UnresolvedEffect DEF SettleUnresolved, LeaveWith, session, genVars, history, Takes,
    Keeps
<1>18. ASSUME SettleFailed PROVE QueueInv'
  BY <1>18, AbsorbedEffect, SettlingLoop DEF SettleFailed, LeaveWith, journal, genVars, history
<1>19. ASSUME Settle PROVE QueueInv'
  BY <1>19, SettleEffect DEF Settle, LeaveWith, session, genVars, history, Takes, Keeps
<1>20. ASSUME Leave PROVE QueueInv'
  BY <1>20 DEF Leave, journal, history
<1>21. ASSUME CloseInputs PROVE QueueInv'
  BY <1>21, OpenHead DEF CloseInputs, session, loopVars, genVars, history
<1>22. ASSUME EndScope PROVE QueueInv'
  BY <1>22 DEF EndScope, session, genVars, history
<1>23. ASSUME EndRun PROVE QueueInv'
  BY <1>23 DEF EndRun, session, genVars, history
<1>24. ASSUME Reenter PROVE QueueInv'
  BY <1>24 DEF Reenter, journal
<1>25. CASE UNCHANGED vars \/ Cancel \/ DispatchRefused \/ DispatchSaved \/ Dispatch \/ Send \/
  NativeEvent \/ TurnSettle \/ (\E a \in Answers \cup {"cancelled"} : NativeReturn(a))
  BY <1>1, <1>25
<1> QED
  BY <1>2, <1>3, <1>4, <1>5, <1>6, <1>7, <1>8, <1>9, <1>10, <1>11, <1>12, <1>13, <1>14, <1>15,
    <1>16, <1>17, <1>18, <1>19, <1>20, <1>21, <1>22, <1>23, <1>24, <1>25 DEF Next, OwnerStep,
    TurnStep

\* Occurrences consume accepted inputs, each one once.
LEMMA StepConsumed == IInv /\ [Next]_vars => ConsumedInv'
<1> SUFFICES ASSUME IInv, [Next]_vars PROVE ConsumedInv'
  OBVIOUS
<1>1. ASSUME UNCHANGED vars \/ Enter \/ BodyReturn \/ LeaveCancelled \/ Woken \/ LookRunning \/
  SettleFailed \/ Leave \/ Cancel \/ EndScope \/ EndRun \/ Reenter \/ DispatchRefused \/
  DispatchSaved \/ Dispatch \/ NativeEvent \/ TurnSettle \/ (\E a \in Answers \cup {"cancelled"} :
  NativeReturn(a))
  PROVE UNCHANGED <<saved, order, disp, prompted>>
  <2>1. ASSUME Enter \/ BodyReturn \/ LeaveCancelled \/ Woken \/ LookRunning \/ SettleFailed \/
    Leave \/ Cancel
    PROVE UNCHANGED <<saved, order, disp, prompted>>
    BY <2>1 DEF Enter, journal, genVars, history, BodyReturn, LeaveCancelled, LeaveWith, Woken,
      LookRunning, SettleFailed, Leave, Cancel
  <2>2. ASSUME EndScope \/ EndRun \/ Reenter \/ DispatchRefused \/ DispatchSaved \/ Dispatch \/
    NativeEvent \/ TurnSettle
    PROVE UNCHANGED <<saved, order, disp, prompted>>
    BY <2>2 DEF EndScope, session, genVars, history, EndRun, Reenter, journal, DispatchRefused,
      loopVars, DispatchSaved, Dispatch, NativeEvent, TurnSettle, Returned
  <2>3. ASSUME NEW a \in Answers \cup {"cancelled"}, NativeReturn(a)
    PROVE UNCHANGED <<saved, order, disp, prompted>>
    BY <2>3 DEF NativeReturn, journal, loopVars, history
  <2> QED
    BY <1>1, <2>1, <2>2, <2>3 DEF vars, journal, session, loopVars, genVars, history
<1> USE Same, KnownInputs DEF IInv, TypeOK, ConsumedInv, JournalTypes, LoopTypes, TurnInv
<1>2. ASSUME NEW i \in Inputs, Accept(i) PROVE ConsumedInv'
  <2>1. Accepted' = Accepted \cup {i} /\ i \notin Accepted
    BY <1>2, AcceptEffect
  <2>2. UNCHANGED <<saved, prompted>> /\ disp' = [disp EXCEPT ![i] = "pending"]
    BY <1>2 DEF Accept
  <2>3. Consumed' = Consumed
    BY <2>2
  <2>4. ASSUME NEW o \in Occurrences, saved[o].active # None PROVE disp'[saved[o].active] = disp[saved[o].active]
    BY <2>1, <2>2, <2>4
  <2> QED
    BY <2>1, <2>2, <2>3, <2>4
<1>3. ASSUME TakeFinish PROVE ConsumedInv'
  BY <1>3, ConsumedCommit DEF Commits
<1>4. ASSUME Park PROVE ConsumedInv'
  BY <1>4, ConsumedCommit DEF Commits
<1>5. ASSUME TakeStop PROVE ConsumedInv'
  BY <1>5, ConsumedCommit DEF Commits
<1>6. ASSUME NEW ok \in BOOLEAN, TakeConfigure(ok) PROVE ConsumedInv'
  <2>1. CASE ok = TRUE
    BY <1>6, <2>1, ConsumedCommit DEF Commits
  <2>2. CASE ok = FALSE
    BY <1>6, <2>2 DEF TakeConfigure, Ready, Idle, LeaveWith, session, genVars, history
  <2> QED
    BY <2>1, <2>2
<1>7. ASSUME StartTurn PROVE ConsumedInv'
  BY <1>7, ConsumedCommit DEF Commits
<1>8. ASSUME Assign PROVE ConsumedInv'
  BY <1>8, QueueHead DEF Assign, session, genVars, history
<1>9. ASSUME SteerBegin PROVE ConsumedInv'
  BY <1>9, QueueHead DEF SteerBegin, session, genVars, history
<1>10. ASSUME NEW a \in SteerAnswers, SteerEnd(a) PROVE ConsumedInv'
  <2>1. First(queue) \notin Consumed
    BY <1>10, QueueHead DEF SteerEnd, QueueInv
  <2>2. ASSUME NEW o \in Occurrences, saved[o].active # None PROVE disp'[saved[o].active] = disp[saved[o].active]
    <3>1. saved[o].active \in Consumed
      BY <2>2
    <3> QED
      BY <1>10, <2>1, <3>1 DEF SteerEnd
  <2>3. UNCHANGED <<saved, prompted, order>>
    BY <1>10 DEF SteerEnd
  <2> QED
    BY <2>2, <2>3
<1>11. ASSUME SettleInput PROVE ConsumedInv'
  BY <1>11 DEF SettleInput, session, history
<1>12. ASSUME SettleUnresolved PROVE ConsumedInv'
  BY <1>12, ConsumedCommit DEF Commits
<1>13. ASSUME Settle PROVE ConsumedInv'
  BY <1>13, ConsumedCommit DEF Commits
<1>14. ASSUME CloseInputs PROVE ConsumedInv'
  BY <1>14, OpenHead DEF CloseInputs, session, loopVars, genVars, history
<1>15. ASSUME Send PROVE ConsumedInv'
  <2>1. state.active # None /\ state = saved[occ] /\ occ \in Occurrences
    BY <1>15 DEF Send, TurnInv, OccurrenceInv, Owned, InLoop
  <2>2. state.active \in Consumed
    BY <2>1
  <2> QED
    BY <1>15, <2>2 DEF Send, journal
<1>16. CASE UNCHANGED vars \/ Enter \/ BodyReturn \/ LeaveCancelled \/ Woken \/ LookRunning \/
  SettleFailed \/ Leave \/ Cancel \/ EndScope \/ EndRun \/ Reenter \/ DispatchRefused \/
  DispatchSaved \/ Dispatch \/ NativeEvent \/ TurnSettle \/ (\E a \in Answers \cup {"cancelled"} :
  NativeReturn(a))
  BY <1>1, <1>16
<1> QED
  BY <1>2, <1>3, <1>4, <1>5, <1>6, <1>7, <1>8, <1>9, <1>10, <1>11, <1>12, <1>13, <1>14, <1>15, <1>16
    DEF Next, OwnerStep, TurnStep

\* A steered message is never pending again.
LEMMA StepSteered == IInv /\ [Next]_vars => SteeredInv'
<1> SUFFICES ASSUME IInv, [Next]_vars PROVE SteeredInv'
  OBVIOUS
<1>1. ASSUME UNCHANGED vars \/ Enter \/ BodyReturn \/ LeaveCancelled \/ Woken \/ LookRunning \/
  SettleFailed \/ Leave \/ Cancel \/ EndScope \/ EndRun \/ DispatchRefused \/ DispatchSaved \/
  Dispatch \/ NativeEvent \/ TurnSettle \/ (\E a \in Answers \cup {"cancelled"} : NativeReturn(a))
  PROVE UNCHANGED <<steered, order, prompted, disp, saved>>
  <2>1. ASSUME Enter \/ BodyReturn \/ LeaveCancelled \/ Woken \/ LookRunning \/ SettleFailed \/
    Leave \/ Cancel
    PROVE UNCHANGED <<steered, order, prompted, disp, saved>>
    BY <2>1 DEF Enter, journal, genVars, history, BodyReturn, LeaveCancelled, LeaveWith, Woken,
      LookRunning, SettleFailed, Leave, Cancel
  <2>2. ASSUME EndScope \/ EndRun \/ DispatchRefused \/ DispatchSaved \/ Dispatch \/ NativeEvent \/
    TurnSettle
    PROVE UNCHANGED <<steered, order, prompted, disp, saved>>
    BY <2>2 DEF EndScope, session, genVars, history, EndRun, DispatchRefused, journal, loopVars,
      DispatchSaved, Dispatch, NativeEvent, TurnSettle, Returned
  <2>3. ASSUME NEW a \in Answers \cup {"cancelled"}, NativeReturn(a)
    PROVE UNCHANGED <<steered, order, prompted, disp, saved>>
    BY <2>3 DEF NativeReturn, journal, loopVars, history
  <2> QED
    BY <1>1, <2>1, <2>2, <2>3 DEF vars, journal, session, loopVars, genVars, history
<1> USE Same, KnownInputs DEF IInv, TypeOK, SteeredInv, JournalTypes, HistoryTypes
<1>2. ASSUME NEW i \in Inputs, Accept(i) PROVE SteeredInv'
  <2>1. Accepted' = Accepted \cup {i} /\ i \notin Accepted
    BY <1>2, AcceptEffect
  <2>2. /\ steered' = steered /\ prompted' = prompted /\ saved' = saved
        /\ disp' = [disp EXCEPT ![i] = "pending"]
    BY <1>2 DEF Accept
  <2>3. Steered' = Steered
    BY <2>2 DEF Steered
  <2>4. \A j \in Steered : disp'[j] = disp[j] /\ j \in Accepted'
    BY <2>1, <2>2
  <2> QED
    BY <2>2, <2>3, <2>4
<1>3. ASSUME TakeFinish PROVE SteeredInv'
  BY <1>3, SteeredCommit DEF Commits
<1>4. ASSUME Park PROVE SteeredInv'
  BY <1>4, SteeredCommit DEF Commits
<1>5. ASSUME TakeStop PROVE SteeredInv'
  BY <1>5, SteeredCommit DEF Commits
<1>6. ASSUME NEW ok \in BOOLEAN, TakeConfigure(ok) PROVE SteeredInv'
  <2>1. CASE ok = TRUE
    BY <1>6, <2>1, SteeredCommit DEF Commits
  <2>2. CASE ok = FALSE
    BY <1>6, <2>2 DEF TakeConfigure, Ready, Idle, LeaveWith, session, genVars, history
  <2> QED
    BY <2>1, <2>2
<1>7. ASSUME StartTurn PROVE SteeredInv'
  BY <1>7, SteeredCommit DEF Commits
<1>8. ASSUME Assign PROVE SteeredInv'
  BY <1>8, QueueHead DEF Assign, session, genVars, history
<1>9. ASSUME SteerBegin PROVE SteeredInv'
  <2>1. First(queue) \notin Steered /\ First(queue) \in Inputs
    BY <1>9, QueueHead DEF SteerBegin, QueueInv
  <2>2. UNCHANGED <<steered, order, prompted, saved>>
    BY <1>9 DEF SteerBegin, history
  <2>3. \A i \in Steered : disp'[i] = disp[i]
    BY <1>9, <2>1 DEF SteerBegin
  <2> QED
    BY <2>2, <2>3
<1>10. ASSUME NEW a \in SteerAnswers, SteerEnd(a) PROVE SteeredInv'
  <2> DEFINE i == First(queue)
  <2>1. /\ i \in Messages \ Steered /\ i \in Accepted \ Consumed /\ i \in Inputs
        /\ UNCHANGED <<order, prompted, saved>> /\ disp' = [disp EXCEPT ![i] = Resolved(a)]
    BY <1>10, QueueHead DEF SteerEnd, QueueInv
  <2>2. \A j \in Steered : disp'[j] = disp[j]
    BY <2>1
  <2>3. CASE a = "dropped"
    <3>1. UNCHANGED steered
      BY <1>10, <2>3 DEF SteerEnd
    <3> QED
      BY <2>1, <2>2, <3>1
  <2>4. CASE a # "dropped"
    <3>1. steered' = Append(steered, i) /\ a \in {"landed", "error"}
      BY <1>10, <2>4, AnswersAreKnown DEF SteerEnd
    <3>2. disp'[i] \in {"delivered", "uncertain"}
      BY <2>1, <3>1 DEF Resolved
    <3>3. i \notin prompted /\ \A o \in Occurrences : saved[o].active # i
      BY <2>1, InputsAreApart DEF ConsumedInv, Inputs
    <3>4. Steered' = Steered \cup {i} /\ \A k, l \in 1..Len(steered') : steered'[k] = steered'[l] => k = l
      BY <2>1, <3>1, SteeredAppend
    <3>5. Accepted' = Accepted
      BY <2>1
    <3> HIDE DEF i
    <3>6. ASSUME NEW j \in Steered \cup {i}
          PROVE  /\ j \in Accepted /\ j \notin prompted /\ disp'[j] \in {"inflight", "delivered", "uncertain", "unprocessed"}
                 /\ \A o \in Occurrences : saved[o].active # j
      BY <2>1, <2>2, <3>2, <3>3, <3>6
    <3> QED
      BY <2>1, <3>4, <3>5, <3>6
  <2> QED
    BY <2>3, <2>4
<1>11. ASSUME SettleInput PROVE SteeredInv'
  BY <1>11 DEF SettleInput, session, history
<1>12. ASSUME SettleUnresolved PROVE SteeredInv'
  BY <1>12, SteeredCommit DEF Commits
<1>13. ASSUME Settle PROVE SteeredInv'
  BY <1>13, SteeredCommit DEF Commits
<1>14. ASSUME CloseInputs PROVE SteeredInv'
  BY <1>14, OpenHead DEF CloseInputs, session, loopVars, genVars, history
<1>15. ASSUME Reenter PROVE SteeredInv'
  <2> DEFINE i == First(queue)
  <2>1. UNCHANGED <<order, prompted, saved, disp>>
    BY <1>15 DEF Reenter, journal
  <2>2. CASE steered' = steered
    BY <2>1, <2>2
  <2>3. CASE pc = "steering" /\ steered' = Append(steered, i)
    <3>1. i \in Messages \ Steered /\ i \in Accepted \ Consumed /\ disp[i] = "inflight"
      BY <2>3, QueueHead DEF QueueInv
    <3>2. i \notin prompted /\ \A o \in Occurrences : saved[o].active # i
      BY <3>1, InputsAreApart DEF ConsumedInv, Inputs
    <3>3. Steered' = Steered \cup {i} /\ \A k, l \in 1..Len(steered') : steered'[k] = steered'[l] => k = l
      BY <2>3, <3>1, SteeredAppend
    <3>4. Accepted' = Accepted
      BY <2>1
    <3> HIDE DEF i
    <3> QED
      BY <2>1, <3>1, <3>2, <3>3, <3>4
  <2>4. steered' = steered \/ (pc = "steering" /\ steered' = Append(steered, i))
    BY <1>15 DEF Reenter
  <2> QED
    BY <2>2, <2>3, <2>4
<1>16. ASSUME Send PROVE SteeredInv'
  <2>1. state = saved[occ] /\ occ \in Occurrences
    BY <1>16 DEF Send, TurnInv, OccurrenceInv, Owned, InLoop
  <2>2. state.active \notin Steered
    BY <2>1
  <2> QED
    BY <1>16, <2>2 DEF Send, journal
<1>17. CASE UNCHANGED vars \/ Enter \/ BodyReturn \/ LeaveCancelled \/ Woken \/ LookRunning \/
  SettleFailed \/ Leave \/ Cancel \/ EndScope \/ EndRun \/ DispatchRefused \/ DispatchSaved \/
  Dispatch \/ NativeEvent \/ TurnSettle \/ (\E a \in Answers \cup {"cancelled"} : NativeReturn(a))
  BY <1>1, <1>17
<1> QED
  BY <1>2, <1>3, <1>4, <1>5, <1>6, <1>7, <1>8, <1>9, <1>10, <1>11, <1>12, <1>13, <1>14, <1>15,
    <1>16, <1>17 DEF Next, OwnerStep, TurnStep

\* Only a message is ever in doubt.
LEMMA StepControl == IInv /\ [Next]_vars => ControlInv'
<1> SUFFICES ASSUME IInv, [Next]_vars PROVE ControlInv'
  OBVIOUS
<1>1. ASSUME UNCHANGED vars \/ Enter \/ BodyReturn \/ LeaveCancelled \/ TakeFinish \/ Park \/ Woken
  \/ TakeStop \/ StartTurn \/ LookRunning \/ SettleUnresolved \/ SettleFailed \/ Settle \/ Leave \/
  Cancel \/ EndScope \/ EndRun \/ Reenter \/ DispatchRefused \/ DispatchSaved \/ Dispatch \/ Send \/
  NativeEvent \/ TurnSettle \/ (\E ok \in BOOLEAN : TakeConfigure(ok)) \/ (\E a \in Answers \cup
  {"cancelled"} : NativeReturn(a))
  PROVE UNCHANGED <<disp>>
  <2>1. ASSUME Enter \/ BodyReturn \/ LeaveCancelled \/ TakeFinish \/ Park \/ Woken \/ TakeStop \/
    StartTurn
    PROVE UNCHANGED <<disp>>
    BY <2>1 DEF Enter, journal, genVars, history, BodyReturn, LeaveCancelled, LeaveWith, TakeFinish,
      Idle, session, Park, Woken, TakeStop, Ready, StartTurn
  <2>2. ASSUME LookRunning \/ SettleUnresolved \/ SettleFailed \/ Settle \/ Leave \/ Cancel \/
    EndScope \/ EndRun
    PROVE UNCHANGED <<disp>>
    BY <2>2 DEF LookRunning, journal, genVars, history, SettleUnresolved, LeaveWith, session,
      SettleFailed, Settle, Leave, Cancel, EndScope, EndRun
  <2>3. ASSUME Reenter \/ DispatchRefused \/ DispatchSaved \/ Dispatch \/ Send \/ NativeEvent \/
    TurnSettle
    PROVE UNCHANGED <<disp>>
    BY <2>3 DEF Reenter, journal, DispatchRefused, loopVars, history, DispatchSaved, Dispatch, Send,
      NativeEvent, TurnSettle, Returned
  <2>4. ASSUME NEW ok \in BOOLEAN, TakeConfigure(ok) PROVE UNCHANGED <<disp>>
    BY <2>4 DEF TakeConfigure, LeaveWith, Ready, session, genVars, history, Idle
  <2>5. ASSUME NEW a \in Answers \cup {"cancelled"}, NativeReturn(a) PROVE UNCHANGED <<disp>>
    BY <2>5 DEF NativeReturn, journal, loopVars, history
  <2> QED
    BY <1>1, <2>1, <2>2, <2>3, <2>4, <2>5 DEF vars, journal, session, loopVars, genVars, history
<1> USE DEF IInv, TypeOK, ControlInv, JournalTypes
<1>2. ASSUME NEW i \in Inputs, Accept(i) PROVE ControlInv'
  BY <1>2 DEF Accept
<1>3. ASSUME Assign PROVE ControlInv'
  BY <1>3 DEF Assign
<1>4. ASSUME SteerBegin PROVE ControlInv'
  <2>1. queue # {} /\ First(queue) \in Messages
    BY <1>4 DEF SteerBegin, QueueInv
  <2> QED
    BY <1>4, <2>1 DEF SteerBegin, Resolved
<1>5. ASSUME NEW a \in SteerAnswers, SteerEnd(a) PROVE ControlInv'
  <2>1. queue # {} /\ First(queue) \in Messages
    BY <1>5 DEF SteerEnd, QueueInv
  <2> QED
    BY <1>5, <2>1 DEF SteerEnd, Resolved
<1>6. ASSUME SettleInput PROVE ControlInv'
  BY <1>6, SettleInputEffect DEF SettleInput, session, history
<1>7. ASSUME CloseInputs PROVE ControlInv'
  BY <1>7, OpenHead DEF CloseInputs, session, loopVars, genVars, history
<1>8. CASE UNCHANGED vars \/ Enter \/ BodyReturn \/ LeaveCancelled \/ TakeFinish \/ Park \/ Woken \/
  TakeStop \/ StartTurn \/ LookRunning \/ SettleUnresolved \/ SettleFailed \/ Settle \/ Leave \/
  Cancel \/ EndScope \/ EndRun \/ Reenter \/ DispatchRefused \/ DispatchSaved \/ Dispatch \/ Send \/
  NativeEvent \/ TurnSettle \/ (\E ok \in BOOLEAN : TakeConfigure(ok)) \/ (\E a \in Answers \cup
  {"cancelled"} : NativeReturn(a))
  BY <1>1, <1>8
<1> QED
  BY <1>2, <1>3, <1>4, <1>5, <1>6, <1>7, <1>8 DEF Next, OwnerStep, TurnStep

\* A message in doubt has its turn.
LEMMA StepDoubt == IInv /\ [Next]_vars => DoubtInv'
<1> SUFFICES ASSUME IInv, [Next]_vars PROVE DoubtInv'
  OBVIOUS
<1>1. ASSUME UNCHANGED vars \/ Enter \/ BodyReturn \/ LeaveCancelled \/ Woken \/ LookRunning \/
  SettleFailed \/ Leave \/ Cancel \/ EndScope \/ EndRun \/ Reenter \/ DispatchRefused \/
  DispatchSaved \/ Dispatch \/ Send \/ NativeEvent \/ TurnSettle \/ (\E a \in Answers \cup
  {"cancelled"} : NativeReturn(a))
  PROVE UNCHANGED <<order, saved, disp>>
  <2>1. ASSUME Enter \/ BodyReturn \/ LeaveCancelled \/ Woken \/ LookRunning \/ SettleFailed \/
    Leave \/ Cancel
    PROVE UNCHANGED <<order, saved, disp>>
    BY <2>1 DEF Enter, journal, genVars, history, BodyReturn, LeaveCancelled, LeaveWith, Woken,
      LookRunning, SettleFailed, Leave, Cancel
  <2>2. ASSUME EndScope \/ EndRun \/ Reenter \/ DispatchRefused \/ DispatchSaved \/ Dispatch \/ Send
    \/ NativeEvent
    PROVE UNCHANGED <<order, saved, disp>>
    BY <2>2 DEF EndScope, session, genVars, history, EndRun, Reenter, journal, DispatchRefused,
      loopVars, DispatchSaved, Dispatch, Send, NativeEvent
  <2>3. ASSUME TurnSettle PROVE UNCHANGED <<order, saved, disp>>
    BY <2>3 DEF TurnSettle, Returned, loopVars, history
  <2>4. ASSUME NEW a \in Answers \cup {"cancelled"}, NativeReturn(a)
    PROVE UNCHANGED <<order, saved, disp>>
    BY <2>4 DEF NativeReturn, journal, loopVars, history
  <2> QED
    BY <1>1, <2>1, <2>2, <2>3, <2>4 DEF vars, journal, session, loopVars, genVars, history
<1> USE Same, KnownInputs DEF IInv, TypeOK, DoubtInv, JournalTypes
<1>2. ASSUME NEW i \in Inputs, Accept(i) PROVE DoubtInv'
  <2>1. Accepted' = Accepted \cup {i} /\ UNCHANGED saved /\ disp' = [disp EXCEPT ![i] = "pending"]
    BY <1>2, AcceptEffect DEF Accept
  <2>2. Consumed' = Consumed /\ \A j \in Inputs : j # i => disp'[j] = disp[j]
    BY <2>1
  <2>3. disp'[i] = "pending" /\ Messages \subseteq Inputs
    BY <2>1 DEF Inputs
  <2> QED
    BY <2>1, <2>2, <2>3
<1>3. ASSUME TakeFinish PROVE DoubtInv'
  BY <1>3, DoubtCommit DEF Commits
<1>4. ASSUME Park PROVE DoubtInv'
  BY <1>4, DoubtCommit DEF Commits
<1>5. ASSUME TakeStop PROVE DoubtInv'
  BY <1>5, DoubtCommit DEF Commits
<1>6. ASSUME NEW ok \in BOOLEAN, TakeConfigure(ok) PROVE DoubtInv'
  <2>1. CASE ok = TRUE
    BY <1>6, <2>1, DoubtCommit DEF Commits
  <2>2. CASE ok = FALSE
    BY <1>6, <2>2 DEF TakeConfigure, Ready, Idle, LeaveWith, session, genVars, history
  <2> QED
    BY <2>1, <2>2
<1>7. ASSUME StartTurn PROVE DoubtInv'
  BY <1>7, DoubtCommit DEF Commits
<1>8. ASSUME Assign PROVE DoubtInv'
  <2>1. saved[occ].active # None /\ occ \in Occurrences /\ UNCHANGED saved
    BY <1>8 DEF Assign, TurnInv, OccurrenceInv, Owned, InLoop
  <2> QED
    BY <2>1
<1>9. ASSUME SteerBegin PROVE DoubtInv'
  BY <1>9, QueueHead DEF SteerBegin, session, genVars, history
<1>10. ASSUME NEW a \in SteerAnswers, SteerEnd(a) PROVE DoubtInv'
  <2>1. saved[occ].active # None /\ occ \in Occurrences /\ UNCHANGED saved
    BY <1>10 DEF SteerEnd, TurnInv, OccurrenceInv, Owned, InLoop
  <2> QED
    BY <2>1
<1>11. ASSUME SettleInput PROVE DoubtInv'
  <2>1. state.active \in Consumed /\ state.active \in Inputs
    <3>1. state.active \in Messages /\ state = saved[occ] /\ occ \in Occurrences
      BY <1>11, SettleInputEffect
    <3> QED
      BY <3>1, InputsAreApart DEF ConsumedInv, Inputs
  <2>2. UNCHANGED <<order, saved>> /\ \A j \in Inputs : j # state.active => disp'[j] = disp[j]
    BY <1>11 DEF SettleInput
  <2>3. Messages \subseteq Inputs /\ Accepted' = Accepted /\ Consumed' = Consumed
    BY <2>2 DEF Inputs
  <2> QED
    BY <2>1, <2>2, <2>3
<1>12. ASSUME SettleUnresolved PROVE DoubtInv'
  BY <1>12, DoubtCommit DEF Commits
<1>13. ASSUME Settle PROVE DoubtInv'
  BY <1>13, DoubtCommit DEF Commits
<1>14. ASSUME CloseInputs PROVE DoubtInv'
  BY <1>14, OpenHead DEF CloseInputs, session, loopVars, genVars, history
<1>15. CASE UNCHANGED vars \/ Enter \/ BodyReturn \/ LeaveCancelled \/ Woken \/ LookRunning \/
  SettleFailed \/ Leave \/ Cancel \/ EndScope \/ EndRun \/ Reenter \/ DispatchRefused \/
  DispatchSaved \/ Dispatch \/ Send \/ NativeEvent \/ TurnSettle \/ (\E a \in Answers \cup
  {"cancelled"} : NativeReturn(a))
  BY <1>1, <1>15
<1> QED
  BY <1>2, <1>3, <1>4, <1>5, <1>6, <1>7, <1>8, <1>9, <1>10, <1>11, <1>12, <1>13, <1>14, <1>15 DEF
    Next, OwnerStep, TurnStep

\* A Finish ends its occurrence.
LEMMA StepFinish == IInv /\ [Next]_vars => FinishInv'
<1> SUFFICES ASSUME IInv, [Next]_vars PROVE FinishInv'
  OBVIOUS
<1>1. ASSUME UNCHANGED vars \/ Enter \/ BodyReturn \/ LeaveCancelled \/ Woken \/ LookRunning \/
  SettleFailed \/ Leave \/ Cancel \/ EndScope \/ EndRun \/ Reenter \/ DispatchRefused \/
  DispatchSaved \/ Dispatch \/ NativeEvent \/ TurnSettle \/ (\E a \in Answers \cup {"cancelled"} :
  NativeReturn(a))
  PROVE UNCHANGED <<order, late, saved, closing, disp>>
  <2>1. ASSUME Enter \/ BodyReturn \/ LeaveCancelled \/ Woken \/ LookRunning \/ SettleFailed \/
    Leave \/ Cancel
    PROVE UNCHANGED <<order, late, saved, closing, disp>>
    BY <2>1 DEF Enter, journal, genVars, history, BodyReturn, LeaveCancelled, LeaveWith, Woken,
      LookRunning, SettleFailed, Leave, Cancel
  <2>2. ASSUME EndScope \/ EndRun \/ Reenter \/ DispatchRefused \/ DispatchSaved \/ Dispatch \/
    NativeEvent \/ TurnSettle
    PROVE UNCHANGED <<order, late, saved, closing, disp>>
    BY <2>2 DEF EndScope, session, genVars, history, EndRun, Reenter, journal, DispatchRefused,
      loopVars, DispatchSaved, Dispatch, NativeEvent, TurnSettle, Returned
  <2>3. ASSUME NEW a \in Answers \cup {"cancelled"}, NativeReturn(a)
    PROVE UNCHANGED <<order, late, saved, closing, disp>>
    BY <2>3 DEF NativeReturn, journal, loopVars, history
  <2> QED
    BY <1>1, <2>1, <2>2, <2>3 DEF vars, journal, session, loopVars, genVars, history
<1> USE Same, KnownInputs DEF IInv, TypeOK, FinishInv, JournalTypes
<1>2. ASSUME NEW i \in Inputs, Accept(i) PROVE FinishInv'
  <2>1. /\ Accepted' = Accepted \cup {i} /\ Accepted \cap Finishes = {}
        /\ UNCHANGED <<saved, late>> /\ disp' = [disp EXCEPT ![i] = "pending"]
        /\ closing' = IF i \in Finishes THEN saved[occ].active ELSE closing
    BY <1>2, AcceptEffect DEF Accept
  <2>2. Consumed' = Consumed /\ disp'[i] = "pending"
    BY <2>1
  <2>3. \A o \in Occurrences : saved[o].active \in {None, saved[occ].active}
    BY <1>2, OthersInactive DEF Accept, OccurrenceInv
  <2> QED
    BY <2>1, <2>2, <2>3
<1>3. ASSUME TakeFinish PROVE FinishInv'
  BY <1>3, FinishCommit DEF Commits
<1>4. ASSUME Park PROVE FinishInv'
  BY <1>4, FinishCommit DEF Commits
<1>5. ASSUME TakeStop PROVE FinishInv'
  BY <1>5, FinishCommit DEF Commits
<1>6. ASSUME NEW ok \in BOOLEAN, TakeConfigure(ok) PROVE FinishInv'
  <2>1. CASE ok = TRUE
    BY <1>6, <2>1, FinishCommit DEF Commits
  <2>2. CASE ok = FALSE
    BY <1>6, <2>2 DEF TakeConfigure, Ready, Idle, LeaveWith, session, genVars, history
  <2> QED
    BY <2>1, <2>2
<1>7. ASSUME StartTurn PROVE FinishInv'
  BY <1>7, FinishCommit DEF Commits
<1>8. ASSUME Assign PROVE FinishInv'
  <2>1. UNCHANGED <<order, late, saved, closing>> /\ (UNCHANGED disp \/ Open # {})
        /\ \A f \in Inputs \cap Finishes : disp'[f] = disp[f]
    BY <1>8, AssignMarks
  <2>2. Finishes \subseteq Inputs /\ Accepted' = Accepted /\ Consumed' = Consumed
    BY <2>1 DEF Inputs
  <2>3. CASE UNCHANGED disp
    BY <2>1, <2>2, <2>3
  <2>4. CASE Open # {}
    BY <2>1, <2>2, <2>4
  <2> QED
    BY <2>1, <2>3, <2>4
<1>9. ASSUME SteerBegin PROVE FinishInv'
  <2>1. UNCHANGED <<order, late, saved, closing>> /\ (UNCHANGED disp \/ Open # {})
        /\ \A f \in Inputs \cap Finishes : disp'[f] = disp[f]
    BY <1>9, SteerBeginMarks
  <2>2. Finishes \subseteq Inputs /\ Accepted' = Accepted /\ Consumed' = Consumed
    BY <2>1 DEF Inputs
  <2>3. CASE UNCHANGED disp
    BY <2>1, <2>2, <2>3
  <2>4. CASE Open # {}
    BY <2>1, <2>2, <2>4
  <2> QED
    BY <2>1, <2>3, <2>4
<1>10. ASSUME NEW a \in SteerAnswers, SteerEnd(a) PROVE FinishInv'
  <2>1. UNCHANGED <<order, late, saved, closing>> /\ (UNCHANGED disp \/ Open # {})
        /\ \A f \in Inputs \cap Finishes : disp'[f] = disp[f]
    BY <1>10, SteerEndMarks
  <2>2. Finishes \subseteq Inputs /\ Accepted' = Accepted /\ Consumed' = Consumed
    BY <2>1 DEF Inputs
  <2>3. CASE UNCHANGED disp
    BY <2>1, <2>2, <2>3
  <2>4. CASE Open # {}
    BY <2>1, <2>2, <2>4
  <2> QED
    BY <2>1, <2>3, <2>4
<1>11. ASSUME SettleInput PROVE FinishInv'
  <2>1. UNCHANGED <<order, late, saved, closing>> /\ Open' = Open
        /\ \A f \in Inputs \cap Finishes : disp'[f] = disp[f]
    BY <1>11, SettleInputMarks
  <2>2. Finishes \subseteq Inputs /\ Accepted' = Accepted /\ Consumed' = Consumed
    BY <2>1 DEF Inputs
  <2> QED
    BY <2>1, <2>2
<1>12. ASSUME SettleUnresolved PROVE FinishInv'
  BY <1>12, FinishCommit DEF Commits
<1>13. ASSUME Settle PROVE FinishInv'
  BY <1>13, FinishCommit DEF Commits
<1>14. ASSUME CloseInputs PROVE FinishInv'
  <2>1. UNCHANGED <<order, late, saved, closing>> /\ Open # {} /\ disp' = [disp EXCEPT ![First(Open)] = "unprocessed"]
    BY <1>14 DEF CloseInputs, history
  <2>2. Accepted' = Accepted /\ Consumed' = Consumed /\ Finishes \subseteq Inputs
    BY <2>1 DEF Inputs
  <2>3. CASE First(Open) \in Finishes
    <3>1. Open = {First(Open)}
      BY <2>1, <2>3, LastOpen
    <3>2. Open' = {}
      <4>1. Open' \subseteq Open \ {First(Open)}
        BY <2>1, <2>2, OpenHead DEF Open
      <4> QED
        BY <3>1, <4>1
    <3> QED
      BY <2>1, <2>2, <3>2
  <2>4. CASE First(Open) \notin Finishes
    <3>1. \A f \in Finishes : disp'[f] = disp[f]
      BY <2>1, <2>2, <2>4
    <3> QED
      BY <2>1, <2>2, <3>1
  <2> QED
    BY <2>3, <2>4
<1>15. ASSUME Send PROVE FinishInv'
  BY <1>15 DEF Send, journal, loopVars
<1>16. CASE UNCHANGED vars \/ Enter \/ BodyReturn \/ LeaveCancelled \/ Woken \/ LookRunning \/
  SettleFailed \/ Leave \/ Cancel \/ EndScope \/ EndRun \/ Reenter \/ DispatchRefused \/
  DispatchSaved \/ Dispatch \/ NativeEvent \/ TurnSettle \/ (\E a \in Answers \cup {"cancelled"} :
  NativeReturn(a))
  BY <1>1, <1>16
<1> QED
  BY <1>2, <1>3, <1>4, <1>5, <1>6, <1>7, <1>8, <1>9, <1>10, <1>11, <1>12, <1>13, <1>14, <1>15, <1>16
    DEF Next, OwnerStep, TurnStep

\* A scope that has ended has left nothing open.
LEMMA StepClosed == IInv /\ [Next]_vars => ClosedInv'
<1> SUFFICES ASSUME IInv, [Next]_vars PROVE ClosedInv'
  OBVIOUS
<1>1. ASSUME UNCHANGED vars \/ Cancel \/ DispatchRefused \/ DispatchSaved \/ Dispatch \/ Send \/
  NativeEvent \/ TurnSettle \/ (\E a \in Answers \cup {"cancelled"} : NativeReturn(a))
  PROVE UNCHANGED <<scopeEnded, pc, runEnded, order, saved, disp>>
  <2>1. ASSUME Cancel \/ DispatchRefused \/ DispatchSaved \/ Dispatch \/ Send \/ NativeEvent \/
    TurnSettle
    PROVE UNCHANGED <<scopeEnded, pc, runEnded, order, saved, disp>>
    BY <2>1 DEF Cancel, journal, genVars, DispatchRefused, loopVars, history, DispatchSaved,
      Dispatch, Send, NativeEvent, TurnSettle, Returned
  <2>2. ASSUME NEW a \in Answers \cup {"cancelled"}, NativeReturn(a)
    PROVE UNCHANGED <<scopeEnded, pc, runEnded, order, saved, disp>>
    BY <2>2 DEF NativeReturn, journal, loopVars, history
  <2> QED
    BY <1>1, <2>1, <2>2 DEF vars, journal, session, loopVars, genVars, history
<1> USE Same, KnownInputs DEF IInv, TypeOK, ClosedInv, JournalTypes
<1>2. ASSUME NEW i \in Inputs, Accept(i) PROVE ClosedInv'
  <2>1. ~scopeEnded /\ ~runEnded /\ active /\ UNCHANGED <<scopeEnded, runEnded, pc>>
    BY <1>2 DEF Accept
  <2>2. pc \notin {"ended", "over"}
    BY <2>1 DEF OccurrenceInv, Owned, InLoop
  <2> QED
    BY <2>1, <2>2
<1>3. ASSUME Enter PROVE ClosedInv'
  BY <1>3 DEF Enter, journal, genVars, history
<1>4. ASSUME BodyReturn PROVE ClosedInv'
  BY <1>4 DEF BodyReturn, journal, genVars, history
<1>5. ASSUME LeaveCancelled PROVE ClosedInv'
  BY <1>5 DEF LeaveCancelled, LeaveWith, journal, genVars, history
<1>6. ASSUME TakeFinish PROVE ClosedInv'
  BY <1>6, ClosedCommit DEF Commits
<1>7. ASSUME Park PROVE ClosedInv'
  BY <1>7, ClosedCommit DEF Commits
<1>8. ASSUME Woken PROVE ClosedInv'
  BY <1>8 DEF Woken, journal, genVars, history
<1>9. ASSUME TakeStop PROVE ClosedInv'
  BY <1>9, ClosedCommit DEF Commits
<1>10. ASSUME NEW ok \in BOOLEAN, TakeConfigure(ok) PROVE ClosedInv'
  <2>1. CASE ok = TRUE
    BY <1>10, <2>1, ClosedCommit DEF Commits
  <2>2. CASE ok = FALSE
    BY <1>10, <2>2 DEF TakeConfigure, Ready, Idle, LeaveWith, session, genVars, history
  <2> QED
    BY <2>1, <2>2
<1>11. ASSUME StartTurn PROVE ClosedInv'
  BY <1>11, ClosedCommit DEF Commits
<1>12. ASSUME LookRunning PROVE ClosedInv'
  BY <1>12 DEF LookRunning, journal, genVars, history
<1>13. ASSUME Assign PROVE ClosedInv'
  <2>1. UNCHANGED <<order, saved, scopeEnded, runEnded>> /\ (UNCHANGED disp \/ Open # {})
        /\ pc' \notin {"ended", "over"}
    BY <1>13, AssignMarks
  <2> QED
    BY <2>1
<1>14. ASSUME SteerBegin PROVE ClosedInv'
  <2>1. UNCHANGED <<order, saved, scopeEnded, runEnded>> /\ (UNCHANGED disp \/ Open # {})
        /\ pc' \notin {"ended", "over"}
    BY <1>14, SteerBeginMarks
  <2> QED
    BY <2>1
<1>15. ASSUME NEW a \in SteerAnswers, SteerEnd(a) PROVE ClosedInv'
  <2>1. UNCHANGED <<order, saved, scopeEnded, runEnded>> /\ (UNCHANGED disp \/ Open # {})
        /\ pc' \notin {"ended", "over"}
    BY <1>15, SteerEndMarks
  <2> QED
    BY <2>1
<1>16. ASSUME SettleInput PROVE ClosedInv'
  <2>1. UNCHANGED <<scopeEnded, runEnded>> /\ Open' = Open /\ pc' = "settle"
    BY <1>16, SettleInputMarks DEF SettleInput
  <2> QED
    BY <2>1
<1>17. ASSUME SettleUnresolved PROVE ClosedInv'
  BY <1>17, ClosedCommit DEF Commits
<1>18. ASSUME SettleFailed PROVE ClosedInv'
  BY <1>18, AbsorbedEffect, SettlingLoop DEF SettleFailed, LeaveWith, journal, genVars, history
<1>19. ASSUME Settle PROVE ClosedInv'
  BY <1>19, ClosedCommit DEF Commits
<1>20. ASSUME Leave PROVE ClosedInv'
  BY <1>20 DEF Leave, journal, history
<1>21. ASSUME CloseInputs PROVE ClosedInv'
  BY <1>21, OpenHead DEF CloseInputs, session, loopVars, genVars, history
<1>22. ASSUME EndScope PROVE ClosedInv'
  BY <1>22 DEF EndScope, session, genVars, history
<1>23. ASSUME EndRun PROVE ClosedInv'
  BY <1>23 DEF EndRun, session, genVars, history
<1>24. ASSUME Reenter PROVE ClosedInv'
  BY <1>24 DEF Reenter, journal
<1>25. CASE UNCHANGED vars \/ Cancel \/ DispatchRefused \/ DispatchSaved \/ Dispatch \/ Send \/
  NativeEvent \/ TurnSettle \/ (\E a \in Answers \cup {"cancelled"} : NativeReturn(a))
  BY <1>1, <1>25
<1> QED
  BY <1>2, <1>3, <1>4, <1>5, <1>6, <1>7, <1>8, <1>9, <1>10, <1>11, <1>12, <1>13, <1>14, <1>15,
    <1>16, <1>17, <1>18, <1>19, <1>20, <1>21, <1>22, <1>23, <1>24, <1>25 DEF Next, OwnerStep,
    TurnStep

\* A reply is kept.
LEMMA StepReply == IInv /\ [Next]_vars => ReplyInv'
<1> SUFFICES ASSUME IInv, [Next]_vars PROVE ReplyInv'
  OBVIOUS
<1>1. ASSUME UNCHANGED vars \/ (\E i \in Inputs : Accept(i)) \/ Enter \/ BodyReturn \/
  LeaveCancelled \/ Woken \/ LookRunning \/ Assign \/ SteerBegin \/ SettleInput \/ SettleFailed \/
  Leave \/ CloseInputs \/ EndScope \/ EndRun \/ Reenter \/ DispatchRefused \/ DispatchSaved \/
  Dispatch \/ Send \/ NativeEvent \/ (\E a \in SteerAnswers : SteerEnd(a)) \/ (\E a \in Answers \cup
  {"cancelled"} : NativeReturn(a))
  PROVE UNCHANGED <<outcome, abandoned, saved>>
  <2>1. ASSUME NEW i \in Inputs, Accept(i) PROVE UNCHANGED <<outcome, abandoned, saved>>
    BY <2>1 DEF Accept, Locked, session, genVars
  <2>2. ASSUME Enter \/ BodyReturn \/ LeaveCancelled \/ Woken \/ LookRunning \/ Assign \/ SteerBegin
    \/ SettleInput
    PROVE UNCHANGED <<outcome, abandoned, saved>>
    BY <2>2 DEF Enter, journal, genVars, history, BodyReturn, LeaveCancelled, LeaveWith, Woken,
      LookRunning, Assign, session, SteerBegin, SettleInput
  <2>3. ASSUME SettleFailed \/ Leave \/ CloseInputs \/ EndScope \/ EndRun \/ Reenter \/
    DispatchRefused \/ DispatchSaved
    PROVE UNCHANGED <<outcome, abandoned, saved>>
    BY <2>3 DEF SettleFailed, LeaveWith, journal, genVars, history, Leave, CloseInputs, session,
      loopVars, EndScope, EndRun, Reenter, DispatchRefused, DispatchSaved
  <2>4. ASSUME Dispatch \/ Send \/ NativeEvent PROVE UNCHANGED <<outcome, abandoned, saved>>
    BY <2>4 DEF Dispatch, journal, loopVars, history, Send, NativeEvent
  <2>5. ASSUME NEW a \in SteerAnswers, SteerEnd(a) PROVE UNCHANGED <<outcome, abandoned, saved>>
    BY <2>5 DEF SteerEnd, Resolved, session, genVars
  <2>6. ASSUME NEW a \in Answers \cup {"cancelled"}, NativeReturn(a)
    PROVE UNCHANGED <<outcome, abandoned, saved>>
    BY <2>6 DEF NativeReturn, journal, loopVars, history
  <2> QED
    BY <1>1, <2>1, <2>2, <2>3, <2>4, <2>5, <2>6 DEF vars, journal, session, loopVars, genVars,
      history
<1> USE DEF IInv, ReplyInv
<1>2. ASSUME TakeFinish PROVE ReplyInv'
  BY <1>2, ReplyCommit DEF Commits
<1>3. ASSUME Park PROVE ReplyInv'
  BY <1>3, ReplyCommit DEF Commits
<1>4. ASSUME TakeStop PROVE ReplyInv'
  BY <1>4, ReplyCommit DEF Commits
<1>5. ASSUME NEW ok \in BOOLEAN, TakeConfigure(ok) PROVE ReplyInv'
  <2>1. CASE ok = TRUE
    BY <1>5, <2>1, ReplyCommit DEF Commits
  <2>2. CASE ok = FALSE
    BY <1>5, <2>2 DEF TakeConfigure, Ready, Idle, LeaveWith, session, genVars, history
  <2> QED
    BY <2>1, <2>2
<1>6. ASSUME StartTurn PROVE ReplyInv'
  BY <1>6, ReplyCommit DEF Commits
<1>7. ASSUME SettleUnresolved PROVE ReplyInv'
  BY <1>7, ReplyCommit DEF Commits
<1>8. ASSUME Settle PROVE ReplyInv'
  BY <1>8, ReplyCommit DEF Commits
<1>9. ASSUME Cancel PROVE ReplyInv'
  BY <1>9 DEF Cancel, journal, genVars
<1>10. ASSUME TurnSettle PROVE ReplyInv'
  <2>1. UNCHANGED <<saved, abandoned>> /\ saved[occ].active = state.active /\ occ \in Occurrences
    BY <1>10 DEF TurnSettle, TurnInv, OccurrenceInv, Owned, InLoop, history
  <2>2. \A i \in Messages : i # state.active => outcome'[i] = outcome[i]
    BY <1>10 DEF TurnSettle
  <2>3. ASSUME NEW i \in Messages, outcome'[i] = "chat", ~abandoned'
        PROVE  \E o \in Occurrences :
                 \/ saved'[o].active = i
                 \/ \E k \in 1..Len(saved'[o].transcript) : saved'[o].transcript[k] = <<"assistant", i>>
    <3>1. CASE i = state.active
      BY <2>1, <3>1
    <3>2. CASE i # state.active
      BY <2>1, <2>2, <2>3, <3>2
    <3> QED
      BY <3>1, <3>2
  <2> QED
    BY <2>3
<1>11. CASE UNCHANGED vars \/ (\E i \in Inputs : Accept(i)) \/ Enter \/ BodyReturn \/ LeaveCancelled
  \/ Woken \/ LookRunning \/ Assign \/ SteerBegin \/ SettleInput \/ SettleFailed \/ Leave \/
  CloseInputs \/ EndScope \/ EndRun \/ Reenter \/ DispatchRefused \/ DispatchSaved \/ Dispatch \/
  Send \/ NativeEvent \/ (\E a \in SteerAnswers : SteerEnd(a)) \/ (\E a \in Answers \cup
  {"cancelled"} : NativeReturn(a))
  <2>1. UNCHANGED <<outcome, abandoned, saved>>
    BY <1>1, <1>11
  <2> QED
    BY <2>1, Zenon
<1> QED
  BY <1>2, <1>3, <1>4, <1>5, <1>6, <1>7, <1>8, <1>9, <1>10, <1>11 DEF Next, OwnerStep, TurnStep

\* Nothing is prompted behind a Finish but its active input.
LEMMA StepLate == IInv /\ [Next]_vars => FinishPreventsTurns'
<1> SUFFICES ASSUME IInv, [Next]_vars PROVE FinishPreventsTurns'
  OBVIOUS
<1>1. ASSUME UNCHANGED vars \/ Enter \/ BodyReturn \/ LeaveCancelled \/ TakeFinish \/ Park \/ Woken
  \/ TakeStop \/ StartTurn \/ LookRunning \/ Assign \/ SteerBegin \/ SettleInput \/ SettleUnresolved
  \/ SettleFailed \/ Settle \/ Leave \/ Cancel \/ CloseInputs \/ EndScope \/ EndRun \/ Reenter \/
  DispatchRefused \/ DispatchSaved \/ Dispatch \/ NativeEvent \/ TurnSettle \/ (\E ok \in BOOLEAN :
  TakeConfigure(ok)) \/ (\E a \in SteerAnswers : SteerEnd(a)) \/ (\E a \in Answers \cup
  {"cancelled"} : NativeReturn(a))
  PROVE UNCHANGED <<late, closing>>
  <2>1. ASSUME Enter \/ BodyReturn \/ LeaveCancelled \/ TakeFinish \/ Park \/ Woken \/ TakeStop \/
    StartTurn
    PROVE UNCHANGED <<late, closing>>
    BY <2>1 DEF Enter, journal, genVars, history, BodyReturn, LeaveCancelled, LeaveWith, TakeFinish,
      Idle, session, Park, Woken, TakeStop, Ready, StartTurn
  <2>2. ASSUME LookRunning \/ Assign \/ SteerBegin \/ SettleInput \/ SettleUnresolved \/
    SettleFailed \/ Settle \/ Leave
    PROVE UNCHANGED <<late, closing>>
    BY <2>2 DEF LookRunning, journal, genVars, history, Assign, session, SteerBegin, SettleInput,
      SettleUnresolved, LeaveWith, SettleFailed, Settle, Leave
  <2>3. ASSUME Cancel \/ CloseInputs \/ EndScope \/ EndRun \/ Reenter \/ DispatchRefused \/
    DispatchSaved \/ Dispatch
    PROVE UNCHANGED <<late, closing>>
    BY <2>3 DEF Cancel, journal, genVars, CloseInputs, session, loopVars, history, EndScope, EndRun,
      Reenter, DispatchRefused, DispatchSaved, Dispatch
  <2>4. ASSUME NativeEvent \/ TurnSettle PROVE UNCHANGED <<late, closing>>
    BY <2>4 DEF NativeEvent, loopVars, history, TurnSettle, Returned
  <2>5. ASSUME NEW ok \in BOOLEAN, TakeConfigure(ok) PROVE UNCHANGED <<late, closing>>
    BY <2>5 DEF TakeConfigure, LeaveWith, Ready, session, genVars, history, Idle
  <2>6. ASSUME NEW a \in SteerAnswers, SteerEnd(a) PROVE UNCHANGED <<late, closing>>
    BY <2>6 DEF SteerEnd, Resolved, session, genVars
  <2>7. ASSUME NEW a \in Answers \cup {"cancelled"}, NativeReturn(a)
    PROVE UNCHANGED <<late, closing>>
    BY <2>7 DEF NativeReturn, journal, loopVars, history
  <2> QED
    BY <1>1, <2>1, <2>2, <2>3, <2>4, <2>5, <2>6, <2>7 DEF vars, journal, session, loopVars, genVars,
      history
<1> USE DEF IInv, TypeOK, FinishPreventsTurns
<1>2. ASSUME NEW i \in Inputs, Accept(i) PROVE FinishPreventsTurns'
  <2>1. late' = late /\ late = {}
    BY <1>2, AcceptEffect DEF Accept, FinishInv
  <2> QED
    BY <2>1
<1>3. ASSUME Send PROVE FinishPreventsTurns'
  <2>1. state = saved[occ] /\ occ \in Occurrences /\ state.active # None
    BY <1>3 DEF Send, TurnInv, OccurrenceInv, Owned, InLoop
  <2>2. Accepted \cap Finishes # {} => state.active = closing
    BY <2>1 DEF FinishInv
  <2> QED
    BY <1>3, <2>2 DEF Send
<1>4. CASE UNCHANGED vars \/ Enter \/ BodyReturn \/ LeaveCancelled \/ TakeFinish \/ Park \/ Woken \/
  TakeStop \/ StartTurn \/ LookRunning \/ Assign \/ SteerBegin \/ SettleInput \/ SettleUnresolved \/
  SettleFailed \/ Settle \/ Leave \/ Cancel \/ CloseInputs \/ EndScope \/ EndRun \/ Reenter \/
  DispatchRefused \/ DispatchSaved \/ Dispatch \/ NativeEvent \/ TurnSettle \/ (\E ok \in BOOLEAN :
  TakeConfigure(ok)) \/ (\E a \in SteerAnswers : SteerEnd(a)) \/ (\E a \in Answers \cup
  {"cancelled"} : NativeReturn(a))
  BY <1>1, <1>4
<1> QED
  BY <1>2, <1>3, <1>4 DEF Next, OwnerStep, TurnStep

\* The transcripts are in order.
LEMMA StepTranscript == IInv /\ [Next]_vars => TranscriptInv'
<1> SUFFICES ASSUME IInv, [Next]_vars PROVE TranscriptInv'
  OBVIOUS
<1>1. ASSUME UNCHANGED vars \/ (\E i \in Inputs : Accept(i)) \/ Cancel \/ CloseInputs \/
  DispatchRefused \/ DispatchSaved \/ Dispatch \/ Send \/ NativeEvent \/ TurnSettle \/ (\E a \in
  Answers \cup {"cancelled"} : NativeReturn(a))
  PROVE UNCHANGED <<saved, pc, state>>
  <2>1. ASSUME NEW i \in Inputs, Accept(i) PROVE UNCHANGED <<saved, pc, state>>
    BY <2>1 DEF Accept, Locked, session, genVars
  <2>2. ASSUME Cancel \/ CloseInputs \/ DispatchRefused \/ DispatchSaved \/ Dispatch \/ Send \/
    NativeEvent \/ TurnSettle
    PROVE UNCHANGED <<saved, pc, state>>
    BY <2>2 DEF Cancel, journal, genVars, CloseInputs, session, loopVars, history, DispatchRefused,
      DispatchSaved, Dispatch, Send, NativeEvent, TurnSettle, Returned
  <2>3. ASSUME NEW a \in Answers \cup {"cancelled"}, NativeReturn(a)
    PROVE UNCHANGED <<saved, pc, state>>
    BY <2>3 DEF NativeReturn, journal, loopVars, history
  <2> QED
    BY <1>1, <2>1, <2>2, <2>3 DEF vars, journal, session, loopVars, genVars, history
<1> USE DEF IInv, TypeOK, TranscriptInv
<1>2. ASSUME Enter PROVE TranscriptInv'
  BY <1>2 DEF Enter, journal, genVars, history
<1>3. ASSUME BodyReturn PROVE TranscriptInv'
  BY <1>3 DEF BodyReturn, journal, genVars, history
<1>4. ASSUME LeaveCancelled PROVE TranscriptInv'
  BY <1>4 DEF LeaveCancelled, LeaveWith, journal, genVars, history
<1>5. ASSUME TakeFinish PROVE TranscriptInv'
  BY <1>5, TranscriptCommit DEF Commits
<1>6. ASSUME Park PROVE TranscriptInv'
  BY <1>6, TranscriptCommit DEF Commits
<1>7. ASSUME Woken PROVE TranscriptInv'
  BY <1>7 DEF Woken, journal, genVars, history
<1>8. ASSUME TakeStop PROVE TranscriptInv'
  BY <1>8, TranscriptCommit DEF Commits
<1>9. ASSUME NEW ok \in BOOLEAN, TakeConfigure(ok) PROVE TranscriptInv'
  <2>1. CASE ok = TRUE
    BY <1>9, <2>1, TranscriptCommit DEF Commits
  <2>2. CASE ok = FALSE
    BY <1>9, <2>2 DEF TakeConfigure, Ready, Idle, LeaveWith, session, genVars, history
  <2> QED
    BY <2>1, <2>2
<1>10. ASSUME StartTurn PROVE TranscriptInv'
  BY <1>10, TranscriptCommit DEF Commits
<1>11. ASSUME LookRunning PROVE TranscriptInv'
  BY <1>11 DEF LookRunning, journal, genVars, history
<1>12. ASSUME Assign PROVE TranscriptInv'
  BY <1>12, QueueHead DEF Assign, session, genVars, history
<1>13. ASSUME SteerBegin PROVE TranscriptInv'
  BY <1>13, QueueHead DEF SteerBegin, session, genVars, history
<1>14. ASSUME NEW a \in SteerAnswers, SteerEnd(a) PROVE TranscriptInv'
  BY <1>14, QueueHead DEF SteerEnd, Resolved, session, genVars
<1>15. ASSUME SettleInput PROVE TranscriptInv'
  <2>1. UNCHANGED saved
    BY <1>15 DEF SettleInput
  <2>2. TranscriptOK(state) /\ state \in States /\ state' \in States /\ state.active # None
        /\ state.active \in state.consumed
    BY <1>15, SettleInputEffect, LoopTranscript, InputsAreApart DEF SettleInput, InLoop, Inputs
  <2>3. TranscriptOK(state')
    <3>1. CASE state' = state
      BY <2>2, <3>1
    <3>2. CASE state' # state
      BY <1>15, <2>2, <3>2, SettleInputEffect, TranscriptPublished
    <3> QED
      BY <3>1, <3>2
  <2>4. \A o \in Occurrences : TranscriptOK(saved'[o])
    BY <2>1
  <2> QED
    BY <2>3, <2>4
<1>16. ASSUME SettleUnresolved PROVE TranscriptInv'
  BY <1>16, TranscriptCommit DEF Commits
<1>17. ASSUME SettleFailed PROVE TranscriptInv'
  BY <1>17, AbsorbedEffect, SettlingLoop DEF SettleFailed, LeaveWith, journal, genVars, history
<1>18. ASSUME Settle PROVE TranscriptInv'
  BY <1>18, TranscriptCommit DEF Commits
<1>19. ASSUME Leave PROVE TranscriptInv'
  BY <1>19 DEF Leave, journal, history
<1>20. ASSUME EndScope PROVE TranscriptInv'
  BY <1>20 DEF EndScope, session, genVars, history
<1>21. ASSUME EndRun PROVE TranscriptInv'
  BY <1>21 DEF EndRun, session, genVars, history
<1>22. ASSUME Reenter PROVE TranscriptInv'
  BY <1>22 DEF Reenter, journal
<1>23. CASE UNCHANGED vars \/ (\E i \in Inputs : Accept(i)) \/ Cancel \/ CloseInputs \/
  DispatchRefused \/ DispatchSaved \/ Dispatch \/ Send \/ NativeEvent \/ TurnSettle \/ (\E a \in
  Answers \cup {"cancelled"} : NativeReturn(a))
  BY <1>1, <1>23
<1> QED
  BY <1>2, <1>3, <1>4, <1>5, <1>6, <1>7, <1>8, <1>9, <1>10, <1>11, <1>12, <1>13, <1>14, <1>15,
    <1>16, <1>17, <1>18, <1>19, <1>20, <1>21, <1>22, <1>23 DEF Next, OwnerStep, TurnStep

\* The invariant is inductive.
LEMMA StepInv == IInv /\ [Next]_vars => IInv'
  BY StepJournal, StepLoop, StepTurn, StepHistory, StepOrder, StepOccurrence, StepState, StepTurnInv,
     StepAnswer, StepQueue, StepConsumed, StepSteered, StepControl, StepDoubt, StepFinish, StepClosed, StepReply,
     StepLate, StepTranscript DEF IInv, TypeOK

\* It holds at first: nothing was accepted, nothing was committed.
LEMMA InitInv == Init => IInv
<1> SUFFICES ASSUME Init PROVE IInv
  OBVIOUS
<1>1. order = <<>> /\ Len(order) = 0 /\ order \in Seq(Inputs) /\ steered = <<>> /\ Len(steered) = 0
      /\ steered \in Seq(Messages)
  BY DEF Init
<1>2. Accepted = {} /\ Steered = {} /\ Open = {}
  BY <1>1 DEF Accepted, Steered, Open
<1>3. \A o \in Occurrences : saved[o] = Fresh
  BY DEF Init
<1>4. Consumed = {}
  <2>1. \A o \in Occurrences : saved[o].consumed = {}
    BY <1>3, FreshState
  <2> QED
    BY <2>1 DEF Consumed
<1>5. JournalTypes
  <2>1. saved \in [Occurrences -> States]
    BY FreshState DEF Init
  <2>2. disp \in [Inputs -> Dispositions] /\ outcome \in [Messages -> Replies \cup {None, "error", "cancelled"}]
    BY DEF Init, Dispositions
  <2> QED
    BY <1>1, <2>1, <2>2 DEF Init, JournalTypes
<1>6. LoopTypes
  <2>1. Fresh \in States /\ 0 \in 0..MaxOccurrences
    BY FreshState, AnswersAreKnown
  <2> QED
    BY <2>1 DEF Init, LoopTypes
<1>7. TurnTypes /\ HistoryTypes
  BY <1>1 DEF Init, TurnTypes, HistoryTypes
<1>8. OrderInv /\ StateInv /\ TurnInv /\ AnswerInv /\ QueueInv
  BY <1>1 DEF Init, OrderInv, StateInv, TurnInv, AnswerInv, QueueInv, InLoop
<1>9. OccurrenceInv
  <2>1. \A o \in Occurrences : ~(o < 0)
    BY DEF Occurrences
  <2> QED
    BY <1>3, <2>1, FreshState DEF Init, OccurrenceInv, Owned, InLoop
<1>10. ConsumedInv /\ SteeredInv /\ DoubtInv /\ ClosedInv
  BY <1>1, <1>2, <1>3, <1>4, FreshState DEF Init, ConsumedInv, SteeredInv, DoubtInv, ClosedInv
<1>11. FinishInv /\ FinishPreventsTurns
  BY <1>2, <1>4 DEF Init, FinishInv, FinishPreventsTurns
<1>12. ReplyInv /\ ControlInv
  BY DEF Init, ReplyInv, ControlInv, None
<1>13. TranscriptInv
  <2>1. TranscriptOK(Fresh)
    BY DEF Fresh, TranscriptOK
  <2> QED
    BY <1>3, <2>1 DEF Init, TranscriptInv
<1> QED
  BY <1>5, <1>6, <1>7, <1>8, <1>9, <1>10, <1>11, <1>12, <1>13 DEF IInv, TypeOK

LEMMA Invariance == Spec => []IInv
  BY InitInv, StepInv, PTL DEF Spec

-----------------------------------------------------------------------------
(* The properties *)

\* The state keeps its types: a death, a cancellation or a stop at any point leaves no
\* interactionState, disposition or outcome of a kind that the code does not know.
THEOREM TypeCorrect == Spec => []TypeOK
<1>1. IInv => TypeOK
  BY DEF IInv
<1> QED
  BY <1>1, Invariance, PTL

\* A message reaches the native session one way and once: as the prompt of its own turn
\* or by one steer, whatever dies, is cancelled or answers with an error in between.
THEOREM MessagesAreAssignedOnce == Spec => []AssignedOnce
<1>1. IInv => AssignedOnce
  BY DEF IInv, SteeredInv, Steered, AssignedOnce
<1> QED
  BY <1>1, Invariance, PTL

\* After Finish was accepted, no turn is started but the one of the input that was
\* active then, in this process or in a later one.
THEOREM FinishStopsTurns == Spec => []FinishPreventsTurns
<1>1. IInv => FinishPreventsTurns
  BY DEF IInv
<1> QED
  BY <1>1, Invariance, PTL

\* The committed transcripts of all occurrences show each message and each reply at
\* most once, and a reply after its message, also when a turn is repeated after a death.
THEOREM TranscriptsAreInOrder == Spec => []TranscriptInOrder
<1>1. ASSUME IInv PROVE TranscriptInOrder
  <2>1. /\ \A o \in Occurrences : TranscriptOK(saved[o])
        /\ \A o, p \in Occurrences : o # p => saved[o].consumed \cap saved[p].consumed = {}
    BY <1>1 DEF IInv, TranscriptInv, ConsumedInv
  <2>2. ASSUME NEW o \in Occurrences, NEW p \in Occurrences, NEW k \in 1..Len(saved[o].transcript),
               NEW l \in 1..Len(saved[p].transcript), saved[o].transcript[k] = saved[p].transcript[l]
        PROVE  o = p /\ k = l
    <3>1. /\ saved[o].transcript[k][2] \in saved[o].consumed
          /\ saved[p].transcript[l][2] \in saved[p].consumed
      BY <2>1 DEF TranscriptOK
    <3>2. o = p
      BY <2>1, <2>2, <3>1
    <3>3. \A j, m \in 1..Len(saved[o].transcript) : saved[o].transcript[j] = saved[o].transcript[m] => j = m
      BY <2>1 DEF TranscriptOK
    <3> QED
      BY <2>2, <3>2, <3>3
  <2>3. ASSUME NEW o \in Occurrences, NEW k \in 1..Len(saved[o].transcript),
               saved[o].transcript[k][1] = "assistant"
        PROVE  \E l \in 1..(k - 1) : saved[o].transcript[l] = <<"user", saved[o].transcript[k][2]>>
    BY <2>1, <2>3 DEF TranscriptOK
  <2> QED
    BY <2>2, <2>3 DEF TranscriptInOrder
<1> QED
  BY <1>1, Invariance, PTL

\* When the run is over, every accepted input was consumed by an occurrence or is
\* visibly unprocessed or uncertain.
THEOREM NothingIsLost == Spec => []NothingLost
<1>1. IInv => NothingLost
  BY DEF IInv, ClosedInv, Open, NothingLost
<1> QED
  BY <1>1, Invariance, PTL

\* An input whose turn answered is not let go without the answer, unless the run was
\* cancelled: neither a Stop nor a death that races the reply drops it.
THEOREM RepliesAreKept == Spec => []ReplyIsKept
<1>1. IInv => ReplyIsKept
  BY DEF IInv, ReplyInv, ReplyIsKept
<1> QED
  BY <1>1, Invariance, PTL

\* An idle owner never has an input in doubt next: the error return of
\* interactive.go:162 is never taken, and nothing is sent again or passed over.
THEOREM DoubtEndsTheInteraction == Spec => []UncertainEndsWithItsTurn
<1>1. ASSUME IInv, Idle, Work PROVE disp[Input] \notin {"uncertain", "inflight"}
  <2>1. pc = "look" /\ state = saved[occ] /\ occ \in Occurrences
    BY <1>1, IdleLoop DEF Idle
  <2>2. CASE state.active # None
    <3>1. Input = state.active
      BY <1>1, <2>1, <2>2, NextInput
    <3> QED
      BY <1>1, <2>1, <2>2, <3>1 DEF IInv, ConsumedInv
  <2>3. CASE state.active = None
    <3>1. Input \in Pending(state)
      BY <1>1, <2>1, <2>3, NextInput
    <3>2. Input \in Accepted \ Consumed
      BY <3>1 DEF Pending
    <3> HIDE DEF Input
    <3>3. CASE Input \in Messages
      BY <1>1, <2>1, <2>3, <3>2, <3>3, NothingActive DEF Doubtful
    <3>4. CASE Input \notin Messages
      BY <1>1, <3>2, <3>4, KnownInputs DEF IInv, ControlInv
    <3> QED
      BY <3>3, <3>4
  <2> QED
    BY <2>2, <2>3
<1>2. IInv => UncertainEndsWithItsTurn
  BY <1>1 DEF UncertainEndsWithItsTurn
<1> QED
  BY <1>2, Invariance, PTL
=============================================================================
