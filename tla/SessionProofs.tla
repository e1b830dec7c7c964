--------------------------- MODULE SessionProofs ---------------------------
(***************************************************************************)
(* Proofs about agent sessions, for any goroutines, forks, answers and     *)
(* failures and any number of re-entries: the intent of a native call is   *)
(* in the journal before the call, a create or turn whose outcome is there *)
(* is never called again, a turn that is called again is announced, and a  *)
(* turn settles after the steer into it.                                   *)
(***************************************************************************)
EXTENDS Session, FiniteSetTheorems, WellFoundedInduction, NaturalsInduction, TLAPS

\* The places of the journal, and what they hold.
Places == 1..Len(journal)
IsOutcome(i) == journal[i].kind \in {"outcome", "resolved-outcome"}
Settled(n) == \E i \in Places : IsOutcome(i) /\ journal[i].node = n /\ journal[i].res # "uncertain"
Intended(n) == \E i \in Places : journal[i].node = n /\ journal[i].kind = "intent"

\* Where a caller opens a native session, where it does so before the outcome, and
\* where it is in a turn whose outcome is not recorded.
Opening == {"admit", "open", "opening", "opened"}
OpenPlaces == Opening \cup {"adoptNative", "stopLate", "bind"}
TurnPlaces == {"create", "prompt", "turnAdmit", "send", "native", "settle", "finish"}
Turning(c) == pc[c] \in TurnPlaces \/ (pc[c] \in OpenPlaces /\ ~IsFork(c))
Creating(c) == pc[c] \in Opening /\ ~IsFork(c)

\* What a caller's place says of its session, nodes, answer and native session.
CallOK(c) ==
  /\ pc[c] # "idle" => on[c] \in Sessions
  /\ pc[c] \in OpenPlaces => act[c][1] = on[c] /\ act[c][2] \in {"create", "fork"}
  /\ Turning(c) \/ pc[c] = "return" => turn[c][1] = on[c] /\ turn[c][2] = "turn"
  /\ pc[c] = "opened" => ans[c] \in AllCreateAnswers
  /\ pc[c] \in {"settle", "finish"} => ans[c] \in AllAnswers
  /\ pc[c] \in {"opened", "adoptNative", "bind"} /\ ans[c] \in {"valid", "saved"} => got[c] # NoNative
  /\ pc[c] = "bind" /\ ans[c] \in {"valid", "saved"} => native[on[c]] # NoNative
  /\ pc[c] \in {"prompt", "turnAdmit", "send"} => nat[c] # NoNative

CallInv == \A c \in Callers : CallOK(c)

\* Teardown stops a session it has still to close.
CloseInv == teardown \in {"stop", "event"} => toClose # <<>>

\* The native sessions the journal knows exist, and a successful create has one.
Known(f) ==
  /\ f.native <= Len(closes)
  /\ (f.kind \in {"outcome", "resolved-outcome"} /\ f.node[2] = "create" /\ f.res = "valid") => f.native # NoNative
JournalInv == \A i \in Places : Known(journal[i])

\* An intent is in the journal before its call.
IntentOK(c) ==
  /\ pc[c] \in {"admit", "open"} => Intended(act[c])
  /\ pc[c] \in {"turnAdmit", "send"} => Intended(turn[c])
IntentInv == \A c \in Callers : IntentOK(c)

\* It outlives the process that made the call.
SentInv ==
  \A m \in sent :
    /\ m.process \in Nat /\ m.process <= stops
    /\ Intended(m.node)
    /\ m.process < stops => HasFact(m.node, "intent")

\* An outcome that settles a create or a turn is its last.
LastInv ==
  \A i, j \in Places :
    /\ i < j /\ IsOutcome(i) /\ IsOutcome(j)
    /\ journal[i].node = journal[j].node /\ journal[j].node[2] \in {"turn", "create"}
    => journal[i].res = "uncertain"

\* What this process recorded of them it has counted.
CountedInv ==
  \A i \in Places : i > loaded /\ IsOutcome(i) =>
    /\ journal[i].node[2] = "turn" => journal[i].node[4] <= turns[journal[i].node[1]]
    /\ journal[i].node[2] = "create" => journal[i].node[4] <= creates[journal[i].node[1]]

\* A create or a turn that is under way is counted and not settled.
FreshOK(c) ==
  /\ Turning(c) => turn[c][4] <= turns[on[c]] /\ ~Settled(turn[c])
  /\ Creating(c) => act[c][4] <= creates[on[c]] /\ ~Settled(act[c])
FreshInv == \A c \in Callers : FreshOK(c)

\* No two callers are at the same one.
ApartOK(c, d) ==
  on[c] = on[d] =>
    /\ Turning(c) /\ Turning(d) => turn[c][4] # turn[d][4]
    /\ Creating(c) /\ Creating(d) => act[c][4] # act[d][4]
ApartInv == \A c, d \in Callers : c # d => ApartOK(c, d)

\* A session that is marked running has a turn that has not settled, and deliveryMu
\* is held for such a session only.
RunsTurn(c, s) ==
  /\ on[c] = s /\ turn[c][4] = turnID[s]
  /\ (Turning(c) /\ pc[c] # "finish") \/ pc[c] = "return"
RunningInv ==
  \A s \in Sessions :
    /\ steering[s] => running[s]
    /\ running[s] => \E c \in Callers : RunsTurn(c, s)

\* What the calls made so far are required to be.
CallsAreRight == IntentFirst /\ CompletedNotRepeated /\ RepeatIsAnnounced

IInv ==
  /\ TypeOK /\ CallInv /\ CloseInv /\ JournalInv /\ IntentInv /\ SentInv
  /\ LastInv /\ CountedInv /\ FreshInv /\ ApartInv /\ RunningInv /\ CallsAreRight

\* The abbreviations of tuples of variables.
USE DEF storeVars, endVars, scopeVars, counters, turnVars, sessionVars,
  argVars, resultVars, tries, callVars, worldVars

-----------------------------------------------------------------------------
(* Nodes, facts and places *)

\* The last of some places of the journal is one of them.
LEMMA MaxPlace ==
  ASSUME NEW n \in Nat, NEW S \in SUBSET (1..n), S # {}
  PROVE  Max(S) \in S /\ \A i \in S : i <= Max(S)
<1> DEFINE T == {n - i : i \in S}
<1>1. T \subseteq Nat /\ T # {}
  OBVIOUS
<1>2. PICK x \in T : \A y \in T : ~(<<y, x>> \in OpToRel(<, Nat))
  <2> HIDE DEF T
  <2> QED
    BY <1>1, WFMin, NatLessThanWellFounded
<1>3. PICK m \in S : x = n - m
  BY <1>2
<1>4. ASSUME NEW i \in S PROVE i <= m
  <2>1. n - i \in T
    OBVIOUS
  <2>2. ~(n - i < n - m)
    BY <1>1, <1>2, <1>3, <2>1 DEF OpToRel
  <2> QED
    BY <2>2
<1>5. \E k \in S : \A i \in S : k >= i
  BY <1>4
<1> QED
  BY <1>5 DEF Max

\* A node is a session, a kind and two ordinals.
LEMMA NodeParts ==
  ASSUME NEW n \in Nodes
  PROVE  n[1] \in Sessions /\ n[3] \in Nat /\ n[4] \in Nat
BY DEF Nodes

\* What is in the journal is a fact.
LEMMA PlaceFacts ==
  ASSUME StoreTypes, NEW i \in Places
  PROVE  /\ journal[i] \in Facts /\ journal[i].native \in Nat /\ journal[i].node \in Nodes
         /\ journal[i].node[1] \in Sessions /\ journal[i].node[4] \in Nat
<1>1. journal[i] \in Facts
  BY DEF StoreTypes, Places
<1>2. journal[i].native \in Nat /\ journal[i].node \in Nodes
  BY <1>1 DEF Facts
<1> QED
  BY <1>1, <1>2, NodeParts

\* The nodes of the calls are nodes, each of its kind.
LEMMA CallNodes ==
  ASSUME NEW s \in Sessions, NEW g \in Nat, NEW k \in Nat
  PROVE  /\ TurnNode(s, g, k) \in Nodes /\ TurnNode(s, g, k)[1] = s
         /\ TurnNode(s, g, k)[2] = "turn" /\ TurnNode(s, g, k)[4] = k
         /\ CreateNode(s, k) \in Nodes /\ CreateNode(s, k)[1] = s
         /\ CreateNode(s, k)[2] = "create" /\ CreateNode(s, k)[4] = k
BY DEF Nodes, TurnNode, CreateNode

\* So are those of a fork, of a session's end and of the run.
LEMMA OtherNodes ==
  ASSUME NEW s \in Sessions
  PROVE  /\ ForkNode(s) \in Nodes /\ ForkNode(s)[1] = s /\ ForkNode(s)[2] = "fork"
         /\ SessionNode(s) \in Nodes /\ SessionNode(s)[2] = "session"
         /\ RunNode \in Nodes /\ RunNode[2] = "run" /\ NoNode \in Nodes
BY DEF Nodes, ForkNode, SessionNode, RunNode, NoNode, Sessions

\* What an Append of f may have done to the journal.
Writes(f) ==
  /\ journal' \in Seq(Facts) /\ Len(journal') \in {Len(journal), Len(journal) + 1}
  /\ \A i \in Places : journal'[i] = journal[i]
  /\ Len(journal') = Len(journal) + 1 => journal'[Len(journal) + 1] = f
  /\ poison' \in BOOLEAN /\ recordErr' \in BOOLEAN

\* The intent of n is in the journal after the step.
NextIntended(n) == \E i \in 1..Len(journal') : journal'[i].node = n /\ journal'[i].kind = "intent"

\* A step that leaves the journal alone is such a step for any fact.
LEMMA NothingWritten ==
  ASSUME StoreTypes, UNCHANGED storeVars, NEW f
  PROVE  Writes(f)
BY DEF StoreTypes, storeVars, Writes, Places

\* A committed Append leaves its fact as the last one, a failed one may.
LEMMA RecordWrites ==
  ASSUME StoreTypes, NEW f \in Facts, NEW ok \in BOOLEAN, Record(f, ok)
  PROVE  Writes(f) /\ (ok => Len(journal') = Len(journal) + 1)
<1>1. journal' = journal \/ journal' = Append(journal, f)
  BY DEF Record
<1>2. ok => journal' = Append(journal, f)
  BY DEF Record
<1>3. poison' \in BOOLEAN /\ recordErr' \in BOOLEAN
  BY DEF Record, StoreTypes
<1>4. journal \in Seq(Facts)
  BY DEF StoreTypes
<1>5. ASSUME journal' = Append(journal, f)
      PROVE  /\ journal' \in Seq(Facts) /\ Len(journal') = Len(journal) + 1
             /\ \A i \in Places : journal'[i] = journal[i]
             /\ journal'[Len(journal) + 1] = f
  BY <1>4, <1>5 DEF Places
<1> QED
  BY <1>1, <1>2, <1>3, <1>4, <1>5 DEF Writes, Places

\* After prepareAction without error the intent is in the journal.
LEMMA PrepareWrites ==
  ASSUME StoreTypes, NEW n \in Nodes, NEW ok \in BOOLEAN, Prepare(n, ok)
  PROVE  Writes(Fact(n, "intent", "none", NoNative)) /\ (ok => NextIntended(n))
<1> DEFINE f == Fact(n, "intent", "none", NoNative)
<1>1. f \in Facts /\ f.node = n /\ f.kind = "intent"
  BY DEF Fact, Facts, NoNative
<1>2. CASE recordErr \/ HasFact(n, "intent")
  <2>1. Writes(f)
    BY <1>2, NothingWritten DEF Prepare
  <2>2. ok => HasFact(n, "intent")
    BY <1>2 DEF Prepare, StoreTypes
  <2>3. HasFact(n, "intent") => NextIntended(n)
    BY <1>2 DEF Prepare, HasFact, NextIntended, storeVars, StoreTypes
  <2> QED
    BY <2>1, <2>2, <2>3
<1>3. CASE ~(recordErr \/ HasFact(n, "intent"))
  <2>1. Record(f, ok)
    BY <1>3 DEF Prepare
  <2>2. Writes(f) /\ (ok => Len(journal') = Len(journal) + 1)
    BY <1>1, <2>1, RecordWrites
  <2>3. ASSUME ok PROVE NextIntended(n)
    <3>1. journal'[Len(journal) + 1] = f /\ Len(journal) + 1 \in 1..Len(journal')
      BY <2>2, <2>3 DEF Writes, StoreTypes
    <3> QED
      BY <1>1, <3>1 DEF NextIntended
  <2> QED
    BY <2>2, <2>3
<1> QED
  BY <1>2, <1>3

\* What ForkIntent leaves in the journal.
LEMMA ForkIntentWrites ==
  ASSUME IInv, NEW c \in Callers, NEW ok \in BOOLEAN, ForkIntent(c, ok)
  PROVE  /\ Writes(Fact(ForkNode(on[c]), "intent", "none", NoNative))
         /\ pc'[c] = "admit" => NextIntended(ForkNode(on[c]))
<1>1. StoreTypes /\ CallTypes /\ on[c] \in Sessions
  BY DEF IInv, TypeOK, CallInv, CallOK, ForkIntent
<1>0. ForkNode(on[c]) \in Nodes
  BY <1>1, OtherNodes
<1> DEFINE fresh == nat[c] = NoNative /\ ~recordErr
<1>2. CASE recordErr \/ fresh
  <2>1. UNCHANGED storeVars /\ pc'[c] # "admit"
    BY <1>1, <1>2 DEF ForkIntent, CallTypes
  <2> QED
    BY <1>1, <2>1, NothingWritten
<1>3. CASE ~(recordErr \/ fresh) /\ ended
  <2>1. UNCHANGED <<journal, poison>> /\ recordErr' = TRUE /\ ~ok
    BY <1>3 DEF ForkIntent
  <2>2. pc'[c] # "admit"
    BY <1>1, <2>1 DEF ForkIntent, CallTypes
  <2> QED
    BY <1>1, <2>1, <2>2 DEF Writes, StoreTypes, Places
<1>4. CASE ~(recordErr \/ fresh) /\ ~ended
  <2>1. Prepare(ForkNode(on[c]), ok)
    BY <1>4 DEF ForkIntent
  <2>2. pc'[c] = "admit" => ok
    BY <1>1 DEF ForkIntent, CallTypes
  <2>3. Writes(Fact(ForkNode(on[c]), "intent", "none", NoNative)) /\ (ok => NextIntended(ForkNode(on[c])))
    BY <1>0, <1>1, <2>1, PrepareWrites
  <2> QED
    BY <2>2, <2>3
<1> QED
  BY <1>2, <1>3, <1>4

\* What Create leaves in the journal.
LEMMA CreateWrites ==
  ASSUME IInv, NEW c \in Callers, NEW ok \in BOOLEAN, Create(c, ok)
  PROVE  /\ Writes(Fact(CreateNode(on[c], creates[on[c]] + 1), "intent", "none", NoNative))
         /\ pc'[c] = "admit" => NextIntended(CreateNode(on[c], creates[on[c]] + 1))
<1> DEFINE n == CreateNode(on[c], creates[on[c]] + 1)
<1>0. StoreTypes /\ CallTypes /\ SessionTypes /\ on[c] \in Sessions
  BY DEF IInv, TypeOK, CallInv, CallOK, Create
<1>1. StoreTypes /\ CallTypes /\ on[c] \in Sessions /\ creates[on[c]] + 1 \in Nat
  BY <1>0 DEF SessionTypes
<1>2. n \in Nodes
  BY <1>1, CallNodes
<1>3. CASE Saved(n)
  <2>1. UNCHANGED storeVars /\ pc'[c] # "admit"
    BY <1>1, <1>3 DEF Create, CallTypes
  <2> QED
    BY <1>1, <2>1, NothingWritten
<1>4. CASE ~Saved(n)
  <2>1. Prepare(n, ok) /\ (pc'[c] = "admit" => ok)
    BY <1>1, <1>4 DEF Create, CallTypes
  <2>2. Writes(Fact(n, "intent", "none", NoNative)) /\ (ok => NextIntended(n))
    BY <1>1, <1>2, <2>1, PrepareWrites
  <2> QED
    BY <2>1, <2>2
<1> QED
  BY <1>3, <1>4

\* The fact finishAction appends.
LEMMA OutcomeFact ==
  ASSUME NEW n \in Nodes, NEW res \in AllAnswers \cup AllCreateAnswers, NEW id \in Nat
  PROVE  /\ Outcome(n, res, id) \in Facts
         /\ Outcome(n, res, id).node = n /\ Outcome(n, res, id).kind \in {"outcome", "resolved-outcome"}
         /\ Outcome(n, res, id).res = res /\ Outcome(n, res, id).native = id
BY DEF Outcome, Fact, Facts

\* What OpenFinish leaves in the journal.
LEMMA OpenFinishWrites ==
  ASSUME IInv, NEW c \in Callers, NEW ok \in BOOLEAN, OpenFinish(c, ok)
  PROVE  Writes(Outcome(act[c], ans[c], got[c]))
<1>1. StoreTypes /\ act[c] \in Nodes /\ ans[c] \in AllCreateAnswers /\ got[c] \in Nat
  BY DEF IInv, TypeOK, CallTypes, WorldTypes, CallInv, CallOK, OpenFinish
<1> QED
  BY <1>1, OutcomeFact, RecordWrites DEF OpenFinish

\* What Bind leaves in the journal.
LEMMA BindWrites ==
  ASSUME IInv, NEW c \in Callers, NEW ok \in BOOLEAN, Bind(c, ok)
  PROVE  Writes(Fact(act[c], "native-binding", "none", got[c]))
<1>1. StoreTypes /\ act[c] \in Nodes /\ got[c] \in Nat
  BY DEF IInv, TypeOK, CallTypes, WorldTypes
<1>2. Fact(act[c], "native-binding", "none", got[c]) \in Facts
  BY <1>1 DEF Fact, Facts
<1> QED
  BY <1>1, <1>2, NothingWritten, RecordWrites DEF Bind

\* What TurnIntent leaves in the journal.
LEMMA TurnIntentWrites ==
  ASSUME IInv, NEW c \in Callers, NEW ok \in BOOLEAN, TurnIntent(c, ok)
  PROVE  /\ Writes(Fact(turn[c], "intent", "none", NoNative))
         /\ pc'[c] = "turnAdmit" => NextIntended(turn[c])
<1>1. StoreTypes /\ turn[c] \in Nodes /\ CallTypes
  BY DEF IInv, TypeOK, CallTypes
<1>2. CASE ended
  <2>1. UNCHANGED storeVars /\ pc'[c] # "turnAdmit"
    BY <1>1, <1>2 DEF TurnIntent, CallTypes
  <2> QED
    BY <1>1, <2>1, NothingWritten
<1>3. CASE ~ended
  <2>1. Prepare(turn[c], ok) /\ (pc'[c] = "turnAdmit" => ok)
    BY <1>1, <1>3 DEF TurnIntent, CallTypes
  <2>2. Writes(Fact(turn[c], "intent", "none", NoNative)) /\ (ok => NextIntended(turn[c]))
    BY <1>1, <2>1, PrepareWrites
  <2> QED
    BY <2>1, <2>2
<1> QED
  BY <1>2, <1>3

\* What TurnFinish leaves in the journal.
LEMMA TurnFinishWrites ==
  ASSUME IInv, NEW c \in Callers, NEW ok \in BOOLEAN, TurnFinish(c, ok)
  PROVE  Writes(Outcome(turn[c], ans[c], NoNative))
<1>1. StoreTypes /\ turn[c] \in Nodes /\ ans[c] \in AllAnswers /\ NoNative \in Nat
  BY DEF IInv, TypeOK, CallTypes, CallInv, CallOK, TurnFinish, NoNative
<1> QED
  BY <1>1, OutcomeFact, RecordWrites DEF TurnFinish

\* What CloseEvent leaves in the journal.
LEMMA CloseEventWrites ==
  ASSUME IInv, NEW ok \in BOOLEAN, CloseEvent(ok)
  PROVE  Writes(Fact(SessionNode(Head(toClose)), "closed", "none", NoNative))
<1>1. StoreTypes /\ Head(toClose) \in Sessions
  BY DEF IInv, TypeOK, ScopeTypes, CloseInv, CloseEvent
<1>2. Fact(SessionNode(Head(toClose)), "closed", "none", NoNative) \in Facts
  BY <1>1, OtherNodes DEF Fact, Facts, NoNative
<1> QED
  BY <1>1, <1>2, NothingWritten, RecordWrites DEF CloseEvent

\* What RunEnds leaves in the journal.
LEMMA RunEndsWrites ==
  ASSUME IInv, NEW ok \in BOOLEAN, RunEnds(ok)
  PROVE  Writes(Fact(RunNode, "ended", "none", NoNative))
<1>1. StoreTypes
  BY DEF IInv, TypeOK
<1>2. Fact(RunNode, "ended", "none", NoNative) \in Facts
  BY DEF Fact, Facts, NoNative, RunNode, Nodes, Sessions
<1> QED
  BY <1>1, <1>2, RecordWrites DEF RunEnds

\* The journal only grows.
Grows ==
  /\ journal' \in Seq(Facts) /\ Len(journal) <= Len(journal')
  /\ \A i \in Places : i \in 1..Len(journal') /\ journal'[i] = journal[i]
  /\ poison' \in BOOLEAN /\ recordErr' \in BOOLEAN

\* A step that may have appended one fact lets the journal grow.
LEMMA WritesGrows ==
  ASSUME StoreTypes, NEW f, Writes(f)
  PROVE  Grows
BY DEF StoreTypes, Writes, Grows, Places

\* No step takes a fact back.
LEMMA JournalGrows == IInv /\ [Next]_vars => Grows
<1> SUFFICES ASSUME IInv, [Next]_vars PROVE Grows
  OBVIOUS
<1>0. StoreTypes
  BY DEF IInv, TypeOK
<1>1. ASSUME NEW c \in Callers, NEW ok \in BOOLEAN, ForkIntent(c, ok) PROVE Grows
  BY <1>0, <1>1, ForkIntentWrites, WritesGrows
<1>2. ASSUME NEW c \in Callers, NEW ok \in BOOLEAN, Create(c, ok) PROVE Grows
  BY <1>0, <1>2, CreateWrites, WritesGrows
<1>3. ASSUME NEW c \in Callers, NEW ok \in BOOLEAN, OpenFinish(c, ok) PROVE Grows
  BY <1>0, <1>3, OpenFinishWrites, WritesGrows
<1>4. ASSUME NEW c \in Callers, NEW ok \in BOOLEAN, Bind(c, ok) PROVE Grows
  BY <1>0, <1>4, BindWrites, WritesGrows
<1>5. ASSUME NEW c \in Callers, NEW ok \in BOOLEAN, TurnIntent(c, ok) PROVE Grows
  BY <1>0, <1>5, TurnIntentWrites, WritesGrows
<1>6. ASSUME NEW c \in Callers, NEW ok \in BOOLEAN, TurnFinish(c, ok) PROVE Grows
  BY <1>0, <1>6, TurnFinishWrites, WritesGrows
<1>7. ASSUME NEW ok \in BOOLEAN, CloseEvent(ok) PROVE Grows
  BY <1>0, <1>7, CloseEventWrites, WritesGrows
<1>8. ASSUME NEW ok \in BOOLEAN, RunEnds(ok) PROVE Grows
  BY <1>0, <1>8, RunEndsWrites, WritesGrows
<1>9. ASSUME NEW c \in Callers, Adopt(c) PROVE Grows
  <2>1. journal' = journal /\ poison' \in BOOLEAN /\ recordErr' \in BOOLEAN
    BY <1>0, <1>9 DEF Adopt, StoreTypes
  <2> QED
    BY <1>0, <2>1 DEF StoreTypes, Grows, Places
<1>10. ASSUME JournalFails PROVE Grows
  <2>1. journal' = journal /\ poison' \in BOOLEAN /\ recordErr' \in BOOLEAN
    BY <1>0, <1>10 DEF JournalFails, StoreTypes
  <2> QED
    BY <1>0, <2>1 DEF StoreTypes, Grows, Places
<1>11. ASSUME Reenter PROVE Grows
  <2>1. journal' = journal /\ poison' \in BOOLEAN /\ recordErr' \in BOOLEAN
    BY <1>0, <1>11 DEF Reenter, StoreTypes
  <2> QED
    BY <1>0, <2>1 DEF StoreTypes, Grows, Places
<1>12. ASSUME UNCHANGED vars \/ (\E c \in Callers : NewSession(c) \/ Restore(c) \/ OpenAdmit(c) \/
  OpenSend(c) \/ AdoptNative(c) \/ StopLate(c) \/ TurnRefused(c) \/ StartTurn(c) \/ TurnAdmit(c) \/
  TurnSend(c) \/ Settle(c) \/ EndTurn(c) \/ CancelTurn(c)) \/ (\E c \in Callers, a \in
  CreateAnswers, id \in {NoNative, Len(closes) + 1} : OpenReturn(c, a, id)) \/ (\E c \in Callers, a
  \in AllAnswers : TurnReturn(c, a)) \/ (\E c \in Callers, b \in Branches : Fork(c, b)) \/ (\E c \in
  Callers, s \in Sessions : Generate(c, s)) \/ (\E s \in Sessions : Steer(s) \/ SteerEnd(s)) \/
  Cancel \/ BodyReturn \/ EndScope \/ CloseMark \/ CloseStop \/ Stopped
  PROVE Grows
  <2>1. ASSUME NEW c \in Callers, NewSession(c) \/ Restore(c) \/ OpenAdmit(c) \/ OpenSend(c) \/
    AdoptNative(c) \/ StopLate(c) \/ TurnRefused(c) \/ StartTurn(c)
    PROVE UNCHANGED storeVars
    BY <2>1 DEF NewSession, Restore, OpenAdmit, OpenFailed, LoseFork, IsFork, OpenSend, AdoptNative,
      StopLate, NoteCreateError, StopNative, TurnRefused, Returns, Refusal, StartTurn, storeVars
  <2>2. ASSUME NEW c \in Callers, TurnAdmit(c) \/ TurnSend(c) \/ Settle(c) \/ EndTurn(c) \/
    CancelTurn(c)
    PROVE UNCHANGED storeVars
    BY <2>2 DEF TurnAdmit, TurnSend, Settle, EndTurn, Returns, CancelTurn, storeVars
  <2>3. ASSUME NEW c \in Callers, NEW a \in CreateAnswers, NEW id \in {NoNative, Len(closes) + 1},
    OpenReturn(c, a, id)
    PROVE UNCHANGED storeVars
    BY <2>3 DEF OpenReturn, storeVars
  <2>4. ASSUME NEW c \in Callers, NEW a \in AllAnswers, TurnReturn(c, a) PROVE UNCHANGED storeVars
    BY <2>4 DEF TurnReturn, storeVars
  <2>5. ASSUME NEW c \in Callers, NEW b \in Branches, Fork(c, b) PROVE UNCHANGED storeVars
    BY <2>5 DEF Fork, storeVars
  <2>6. ASSUME NEW c \in Callers, NEW s \in Sessions, Generate(c, s) PROVE UNCHANGED storeVars
    BY <2>6 DEF Generate, storeVars
  <2>7. ASSUME NEW s \in Sessions, Steer(s) \/ SteerEnd(s) PROVE UNCHANGED storeVars
    BY <2>7 DEF Steer, SteerEnd, storeVars
  <2>8. ASSUME Cancel \/ BodyReturn \/ EndScope \/ CloseMark \/ CloseStop \/ Stopped
    PROVE UNCHANGED storeVars
    BY <2>8 DEF Cancel, BodyReturn, EndScope, CloseMark, CloseStop, StopNative, Stopped, vars,
      storeVars
  <2>9. UNCHANGED storeVars
    BY <1>12, <2>1, <2>2, <2>3, <2>4, <2>5, <2>6, <2>7, <2>8 DEF vars
  <2> QED
    BY <1>0, <2>9 DEF StoreTypes, storeVars, Grows, Places
<1> QED
  BY <1>1, <1>2, <1>3, <1>4, <1>5, <1>6, <1>7, <1>8, <1>9, <1>10, <1>11, <1>12 DEF Next, CallerStep,
    OpenStep, TurnStep, BodyCall, ScopeStep

\* The journal, its loaded part and the recording keep their types.
LEMMA StepStore == IInv /\ [Next]_vars => StoreTypes'
<1> SUFFICES ASSUME IInv, [Next]_vars PROVE StoreTypes'
  OBVIOUS
<1> DEFINE Rest == UNCHANGED vars \/ (\E c \in Callers : NewSession(c) \/ Adopt(c) \/ Restore(c) \/
  OpenAdmit(c) \/ OpenSend(c) \/ AdoptNative(c) \/ StopLate(c) \/ TurnRefused(c) \/ StartTurn(c) \/
  TurnAdmit(c) \/ TurnSend(c) \/ Settle(c) \/ EndTurn(c) \/ CancelTurn(c)) \/ (\E c \in Callers, ok
  \in BOOLEAN : ForkIntent(c, ok) \/ Create(c, ok) \/ OpenFinish(c, ok) \/ Bind(c, ok) \/
  TurnIntent(c, ok) \/ TurnFinish(c, ok)) \/ (\E c \in Callers, a \in CreateAnswers, id \in
  {NoNative, Len(closes) + 1} : OpenReturn(c, a, id)) \/ (\E c \in Callers, a \in AllAnswers :
  TurnReturn(c, a)) \/ (\E c \in Callers, b \in Branches : Fork(c, b)) \/ (\E c \in Callers, s \in
  Sessions : Generate(c, s)) \/ (\E s \in Sessions : Steer(s) \/ SteerEnd(s)) \/ Cancel \/
  JournalFails \/ BodyReturn \/ EndScope \/ CloseMark \/ CloseStop \/ Stopped \/ (\E ok \in BOOLEAN
  : CloseEvent(ok) \/ RunEnds(ok))
<1>1. ASSUME Rest PROVE UNCHANGED <<loaded>>
  <2>1. ASSUME NEW c \in Callers, NewSession(c) \/ Adopt(c) \/ Restore(c) \/ OpenAdmit(c) \/
    OpenSend(c) \/ AdoptNative(c) \/ StopLate(c) \/ TurnRefused(c)
    PROVE UNCHANGED <<loaded>>
    BY <2>1 DEF NewSession, Adopt, Restore, OpenAdmit, OpenFailed, LoseFork, IsFork, OpenSend,
      AdoptNative, StopLate, NoteCreateError, StopNative, TurnRefused, Returns, Refusal
  <2>2. ASSUME NEW c \in Callers, StartTurn(c) \/ TurnAdmit(c) \/ TurnSend(c) \/ Settle(c) \/
    EndTurn(c) \/ CancelTurn(c)
    PROVE UNCHANGED <<loaded>>
    BY <2>2 DEF StartTurn, Refusal, TurnAdmit, TurnSend, Settle, EndTurn, Returns, CancelTurn
  <2>3. ASSUME NEW c \in Callers, NEW ok \in BOOLEAN, ForkIntent(c, ok) \/ Create(c, ok) \/
    OpenFinish(c, ok) \/ Bind(c, ok) \/ TurnIntent(c, ok) \/ TurnFinish(c, ok)
    PROVE UNCHANGED <<loaded>>
    BY <2>3 DEF ForkIntent, Create, OpenFinish, Bind, OpenFailed, IsFork, NoteCreateError,
      TurnIntent, TurnFinish
  <2>4. ASSUME NEW c \in Callers, NEW a \in CreateAnswers, NEW id \in {NoNative, Len(closes) + 1},
    OpenReturn(c, a, id)
    PROVE UNCHANGED <<loaded>>
    BY <2>4 DEF OpenReturn
  <2>5. ASSUME NEW c \in Callers, NEW a \in AllAnswers, TurnReturn(c, a) PROVE UNCHANGED <<loaded>>
    BY <2>5 DEF TurnReturn
  <2>6. ASSUME NEW c \in Callers, NEW b \in Branches, Fork(c, b) PROVE UNCHANGED <<loaded>>
    BY <2>6 DEF Fork
  <2>7. ASSUME NEW c \in Callers, NEW s \in Sessions, Generate(c, s) PROVE UNCHANGED <<loaded>>
    BY <2>7 DEF Generate
  <2>8. ASSUME NEW s \in Sessions, Steer(s) \/ SteerEnd(s) PROVE UNCHANGED <<loaded>>
    BY <2>8 DEF Steer, SteerEnd
  <2>9. ASSUME Cancel \/ JournalFails \/ BodyReturn \/ EndScope \/ CloseMark \/ CloseStop \/ Stopped
    PROVE UNCHANGED <<loaded>>
    BY <2>9 DEF Cancel, JournalFails, BodyReturn, EndScope, CloseMark, CloseStop, StopNative,
      Stopped, vars
  <2>10. ASSUME NEW ok \in BOOLEAN, CloseEvent(ok) \/ RunEnds(ok) PROVE UNCHANGED <<loaded>>
    BY <2>10 DEF CloseEvent, RunEnds
  <2> QED
    BY <1>1, <2>1, <2>2, <2>3, <2>4, <2>5, <2>6, <2>7, <2>8, <2>9, <2>10 DEF vars
<1> USE DEF IInv, TypeOK, StoreTypes
<1> Grows
  BY JournalGrows
<1>2. ASSUME Reenter PROVE StoreTypes'
  BY <1>2 DEF Reenter, Grows
<1>3. CASE Rest
  <2>1. UNCHANGED <<loaded>>
    BY <1>1, <1>3
  <2> QED
    BY <2>1 DEF Grows
<1> QED
  BY <1>2, <1>3 DEF Next, CallerStep, OpenStep, TurnStep, BodyCall, ScopeStep

\* So does the scope.
LEMMA StepScope == IInv /\ [Next]_vars => ScopeTypes'
<1> SUFFICES ASSUME IInv, [Next]_vars PROVE ScopeTypes'
  OBVIOUS
<1> DEFINE Rest == UNCHANGED vars \/ (\E c \in Callers : NewSession(c) \/ Restore(c) \/ OpenAdmit(c)
  \/ OpenSend(c) \/ AdoptNative(c) \/ StopLate(c) \/ TurnRefused(c) \/ StartTurn(c) \/ TurnAdmit(c)
  \/ TurnSend(c) \/ Settle(c) \/ EndTurn(c) \/ CancelTurn(c)) \/ (\E c \in Callers, ok \in BOOLEAN :
  ForkIntent(c, ok) \/ Create(c, ok) \/ OpenFinish(c, ok) \/ Bind(c, ok) \/ TurnIntent(c, ok) \/
  TurnFinish(c, ok)) \/ (\E c \in Callers, a \in CreateAnswers, id \in {NoNative, Len(closes) + 1} :
  OpenReturn(c, a, id)) \/ (\E c \in Callers, a \in AllAnswers : TurnReturn(c, a)) \/ (\E c \in
  Callers, b \in Branches : Fork(c, b)) \/ (\E c \in Callers, s \in Sessions : Generate(c, s)) \/
  (\E s \in Sessions : Steer(s) \/ SteerEnd(s)) \/ JournalFails \/ Stopped
<1>1. ASSUME Rest PROVE UNCHANGED <<cancelled, ended, bodyDone, over, owned, toClose, teardown>>
  <2>1. ASSUME NEW c \in Callers, NewSession(c) \/ Restore(c) \/ OpenAdmit(c) \/ OpenSend(c) \/
    AdoptNative(c) \/ StopLate(c) \/ TurnRefused(c) \/ StartTurn(c)
    PROVE UNCHANGED <<cancelled, ended, bodyDone, over, owned, toClose, teardown>>
    BY <2>1 DEF NewSession, Restore, OpenAdmit, OpenFailed, LoseFork, IsFork, OpenSend, AdoptNative,
      StopLate, NoteCreateError, StopNative, TurnRefused, Returns, Refusal, StartTurn
  <2>2. ASSUME NEW c \in Callers, TurnAdmit(c) \/ TurnSend(c) \/ Settle(c) \/ EndTurn(c) \/
    CancelTurn(c)
    PROVE UNCHANGED <<cancelled, ended, bodyDone, over, owned, toClose, teardown>>
    BY <2>2 DEF TurnAdmit, TurnSend, Settle, EndTurn, Returns, CancelTurn
  <2>3. ASSUME NEW c \in Callers, NEW ok \in BOOLEAN, ForkIntent(c, ok) \/ Create(c, ok) \/
    OpenFinish(c, ok) \/ Bind(c, ok) \/ TurnIntent(c, ok) \/ TurnFinish(c, ok)
    PROVE UNCHANGED <<cancelled, ended, bodyDone, over, owned, toClose, teardown>>
    BY <2>3 DEF ForkIntent, Create, OpenFinish, Bind, OpenFailed, IsFork, NoteCreateError,
      TurnIntent, TurnFinish
  <2>4. ASSUME NEW c \in Callers, NEW a \in CreateAnswers, NEW id \in {NoNative, Len(closes) + 1},
    OpenReturn(c, a, id)
    PROVE UNCHANGED <<cancelled, ended, bodyDone, over, owned, toClose, teardown>>
    BY <2>4 DEF OpenReturn
  <2>5. ASSUME NEW c \in Callers, NEW a \in AllAnswers, TurnReturn(c, a)
    PROVE UNCHANGED <<cancelled, ended, bodyDone, over, owned, toClose, teardown>>
    BY <2>5 DEF TurnReturn
  <2>6. ASSUME NEW c \in Callers, NEW b \in Branches, Fork(c, b)
    PROVE UNCHANGED <<cancelled, ended, bodyDone, over, owned, toClose, teardown>>
    BY <2>6 DEF Fork
  <2>7. ASSUME NEW c \in Callers, NEW s \in Sessions, Generate(c, s)
    PROVE UNCHANGED <<cancelled, ended, bodyDone, over, owned, toClose, teardown>>
    BY <2>7 DEF Generate
  <2>8. ASSUME NEW s \in Sessions, Steer(s) \/ SteerEnd(s)
    PROVE UNCHANGED <<cancelled, ended, bodyDone, over, owned, toClose, teardown>>
    BY <2>8 DEF Steer, SteerEnd
  <2>9. ASSUME JournalFails \/ Stopped
    PROVE UNCHANGED <<cancelled, ended, bodyDone, over, owned, toClose, teardown>>
    BY <2>9 DEF JournalFails, Stopped, vars
  <2> QED
    BY <1>1, <2>1, <2>2, <2>3, <2>4, <2>5, <2>6, <2>7, <2>8, <2>9 DEF vars
<1> USE DEF IInv, TypeOK, ScopeTypes, CloseInv
<1>2. ASSUME NEW c \in Callers, Adopt(c) PROVE ScopeTypes'
  BY <1>2 DEF Adopt, CallInv, CallOK
<1>3. ASSUME Cancel PROVE ScopeTypes'
  BY <1>3 DEF Cancel
<1>4. ASSUME BodyReturn PROVE ScopeTypes'
  BY <1>4 DEF BodyReturn
<1>5. ASSUME EndScope PROVE ScopeTypes'
  BY <1>5 DEF EndScope
<1>6. ASSUME CloseMark PROVE ScopeTypes'
  BY <1>6 DEF CloseMark
<1>7. ASSUME CloseStop PROVE ScopeTypes'
  BY <1>7 DEF CloseStop, StopNative
<1>8. ASSUME NEW ok \in BOOLEAN, CloseEvent(ok) PROVE ScopeTypes'
  BY <1>8 DEF CloseEvent
<1>9. ASSUME NEW ok \in BOOLEAN, RunEnds(ok) PROVE ScopeTypes'
  BY <1>9 DEF RunEnds
<1>10. ASSUME Reenter PROVE ScopeTypes'
  <2>1. <<>> \in Seq(Sessions)
    OBVIOUS
  <2> QED
    BY <1>10, <2>1 DEF Reenter
<1>11. CASE Rest
  <2>1. UNCHANGED <<cancelled, ended, bodyDone, over, owned, toClose, teardown>>
    BY <1>1, <1>11
  <2> QED
    BY <2>1
<1> QED
  BY <1>2, <1>3, <1>4, <1>5, <1>6, <1>7, <1>8, <1>9, <1>10, <1>11 DEF Next, CallerStep, OpenStep,
    TurnStep, BodyCall, ScopeStep

\* Native sessions are never forgotten.
LEMMA ClosesGrow ==
  ASSUME WorldTypes, NEW n \in 0..Len(closes), closes' \in Seq(Nat), Len(closes) <= Len(closes')
  PROVE  n \in 0..Len(closes')
BY DEF WorldTypes

\* The latest of some loaded facts is one of them.
LEMMA LatestPlace ==
  ASSUME StoreTypes, NEW S \in SUBSET (1..loaded), S # {}
  PROVE  Max(S) \in S /\ Max(S) \in Places /\ \A i \in S : i <= Max(S)
<1>1. loaded \in Nat /\ 1..loaded \subseteq Places
  BY DEF StoreTypes, Places
<1> QED
  BY <1>1, MaxPlace

\* NewSession binds a native session the adapter made.
LEMMA SavedBindingKnown ==
  ASSUME IInv, NEW s \in Sessions
  PROVE  SavedBinding(s) \in 0..Len(closes)
<1>1. StoreTypes /\ WorldTypes /\ JournalInv
  BY DEF IInv, TypeOK
<1>2. CASE Bindings(s) = {}
  BY <1>1, <1>2 DEF SavedBinding, NoNative, WorldTypes
<1>3. CASE Bindings(s) # {}
  <2>1. Max(Bindings(s)) \in Places
    BY <1>1, <1>3, LatestPlace DEF Bindings
  <2>3. journal[Max(Bindings(s))] \in Facts
    BY <1>1, <2>1 DEF StoreTypes, Places
  <2>2. journal[Max(Bindings(s))].native \in Nat
    BY <2>3 DEF Facts
  <2> QED
    BY <1>1, <1>3, <2>1, <2>2 DEF SavedBinding, Latest, JournalInv, Known, WorldTypes
<1> QED
  BY <1>2, <1>3

\* So does a create that is answered from the journal, and a successful one has one.
LEMMA SavedNativeKnown ==
  ASSUME IInv, NEW n \in Nodes, Saved(n)
  PROVE  /\ SavedNative(n) \in 0..Len(closes)
         /\ n[2] = "create" /\ SavedVerdict(n) = "ok" => SavedNative(n) # NoNative
<1>1. StoreTypes /\ WorldTypes /\ JournalInv
  BY DEF IInv, TypeOK
<1> DEFINE S == SavedOutcomes(n)
<1>2. S \subseteq 1..loaded /\ S # {}
  BY DEF Saved, SavedOutcomes
<1>3. Max(S) \in S /\ Max(S) \in Places
  <2> HIDE DEF S
  <2> QED
    BY <1>1, <1>2, LatestPlace
<1>4. journal[Max(S)] \in Facts
  BY <1>1, <1>3 DEF StoreTypes, Places
<1>5. journal[Max(S)].native \in 0..Len(closes)
  BY <1>1, <1>3, <1>4 DEF JournalInv, Known, WorldTypes, Facts
<1>6. ASSUME n[2] = "create", SavedVerdict(n) = "ok"
      PROVE  journal[Max(S)].native # NoNative
  <2>1. Failing(S) = {} /\ journal[Max(S)].res # "undecodable"
    BY <1>6 DEF SavedVerdict, Latest
  <2>2. journal[Max(S)].res = "valid"
    BY <1>3, <2>1 DEF Failing
  <2>3. IsOutcome(Max(S)) /\ journal[Max(S)].node = n
    BY <1>3 DEF SavedOutcomes, IsOutcome
  <2> QED
    BY <1>1, <1>3, <1>6, <2>2, <2>3 DEF JournalInv, Known, IsOutcome
<1> QED
  BY <1>5, <1>6 DEF SavedNative, Latest

\* A saved verdict is one of three.
LEMMA SavedVerdictTypes ==
  ASSUME NEW n
  PROVE  SavedVerdict(n) \in {"ok", "error", "protocol"}
BY DEF SavedVerdict

\* A caller that is in a call has its session, and a turn about to run its native one.
LEMMA InCall ==
  ASSUME IInv, NEW c \in Callers, pc[c] # "idle"
  PROVE  on[c] \in Sessions /\ (pc[c] = "send" => nat[c] \in 1..Len(closes))
BY DEF IInv, TypeOK, CallInv, CallOK, CallTypes, WorldTypes, NoNative

\* The adapter's sessions keep their types.
LEMMA StepWorld == IInv /\ [Next]_vars => WorldTypes'
<1> SUFFICES ASSUME IInv, [Next]_vars PROVE WorldTypes'
  OBVIOUS
<1> DEFINE Rest == UNCHANGED vars \/ (\E c \in Callers : NewSession(c) \/ Adopt(c) \/ Restore(c) \/
  OpenAdmit(c) \/ OpenSend(c) \/ AdoptNative(c) \/ TurnRefused(c) \/ StartTurn(c) \/ TurnAdmit(c) \/
  Settle(c) \/ EndTurn(c) \/ CancelTurn(c)) \/ (\E c \in Callers, ok \in BOOLEAN : ForkIntent(c, ok)
  \/ Create(c, ok) \/ OpenFinish(c, ok) \/ Bind(c, ok) \/ TurnIntent(c, ok) \/ TurnFinish(c, ok)) \/
  (\E c \in Callers, a \in AllAnswers : TurnReturn(c, a)) \/ (\E c \in Callers, b \in Branches :
  Fork(c, b)) \/ (\E c \in Callers, s \in Sessions : Generate(c, s)) \/ (\E s \in Sessions :
  Steer(s) \/ SteerEnd(s)) \/ Cancel \/ JournalFails \/ BodyReturn \/ EndScope \/ CloseMark \/
  Stopped \/ (\E ok \in BOOLEAN : CloseEvent(ok) \/ RunEnds(ok))
<1>1. ASSUME Rest PROVE UNCHANGED <<used, closes, stops>>
  <2>1. ASSUME NEW c \in Callers, NewSession(c) \/ Adopt(c) \/ Restore(c) \/ OpenAdmit(c) \/
    OpenSend(c) \/ AdoptNative(c) \/ TurnRefused(c) \/ StartTurn(c)
    PROVE UNCHANGED <<used, closes, stops>>
    BY <2>1 DEF NewSession, Adopt, Restore, OpenAdmit, OpenFailed, LoseFork, IsFork, OpenSend,
      AdoptNative, TurnRefused, Returns, Refusal, StartTurn
  <2>2. ASSUME NEW c \in Callers, TurnAdmit(c) \/ Settle(c) \/ EndTurn(c) \/ CancelTurn(c)
    PROVE UNCHANGED <<used, closes, stops>>
    BY <2>2 DEF TurnAdmit, Settle, EndTurn, Returns, CancelTurn
  <2>3. ASSUME NEW c \in Callers, NEW ok \in BOOLEAN, ForkIntent(c, ok) \/ Create(c, ok) \/
    OpenFinish(c, ok) \/ Bind(c, ok) \/ TurnIntent(c, ok) \/ TurnFinish(c, ok)
    PROVE UNCHANGED <<used, closes, stops>>
    BY <2>3 DEF ForkIntent, Create, OpenFinish, Bind, OpenFailed, IsFork, NoteCreateError,
      TurnIntent, TurnFinish
  <2>4. ASSUME NEW c \in Callers, NEW a \in AllAnswers, TurnReturn(c, a)
    PROVE UNCHANGED <<used, closes, stops>>
    BY <2>4 DEF TurnReturn
  <2>5. ASSUME NEW c \in Callers, NEW b \in Branches, Fork(c, b)
    PROVE UNCHANGED <<used, closes, stops>>
    BY <2>5 DEF Fork
  <2>6. ASSUME NEW c \in Callers, NEW s \in Sessions, Generate(c, s)
    PROVE UNCHANGED <<used, closes, stops>>
    BY <2>6 DEF Generate
  <2>7. ASSUME NEW s \in Sessions, Steer(s) \/ SteerEnd(s) PROVE UNCHANGED <<used, closes, stops>>
    BY <2>7 DEF Steer, SteerEnd
  <2>8. ASSUME Cancel \/ JournalFails \/ BodyReturn \/ EndScope \/ CloseMark \/ Stopped
    PROVE UNCHANGED <<used, closes, stops>>
    BY <2>8 DEF Cancel, JournalFails, BodyReturn, EndScope, CloseMark, Stopped, vars
  <2>9. ASSUME NEW ok \in BOOLEAN, CloseEvent(ok) \/ RunEnds(ok)
    PROVE UNCHANGED <<used, closes, stops>>
    BY <2>9 DEF CloseEvent, RunEnds
  <2> QED
    BY <1>1, <2>1, <2>2, <2>3, <2>4, <2>5, <2>6, <2>7, <2>8, <2>9 DEF vars
<1> USE DEF IInv, TypeOK, WorldTypes, NoNative
<1>2. ASSUME NEW c \in Callers, StopLate(c) PROVE WorldTypes'
  <2>1. on[c] \in Sessions /\ native[on[c]] \in 0..Len(closes)
    BY <1>2, InCall DEF StopLate, SessionTypes
  <2>2. closes' = IF HasFact(SessionNode(on[c]), "closed") \/ native[on[c]] = 0 THEN closes
                  ELSE [closes EXCEPT ![native[on[c]]] = closes[native[on[c]]] + 1]
    BY <1>2 DEF StopLate, StopNative
  <2>3. UNCHANGED <<used, stops>>
    BY <1>2 DEF StopLate
  <2> QED
    BY <2>1, <2>2, <2>3
<1>3. ASSUME NEW c \in Callers, TurnSend(c) PROVE WorldTypes'
  <2>1. nat[c] \in 1..Len(closes)
    BY <1>3, InCall DEF TurnSend
  <2> QED
    BY <1>3, <2>1 DEF TurnSend
<1>4. ASSUME NEW c \in Callers, NEW a \in CreateAnswers, NEW id \in {NoNative, Len(closes) + 1},
  OpenReturn(c, a, id)
  PROVE WorldTypes'
  BY <1>4 DEF OpenReturn
<1>5. ASSUME CloseStop PROVE WorldTypes'
  <2>1. Head(toClose) \in Sessions
    BY <1>5 DEF CloseStop, ScopeTypes, CloseInv
  <2> QED
    BY <1>5, <2>1 DEF CloseStop, StopNative, SessionTypes
<1>6. ASSUME Reenter PROVE WorldTypes'
  BY <1>6 DEF Reenter, All
<1>7. CASE Rest
  <2>1. UNCHANGED <<used, closes, stops>>
    BY <1>1, <1>7
  <2> QED
    BY <2>1
<1> QED
  BY <1>2, <1>3, <1>4, <1>5, <1>6, <1>7 DEF Next, CallerStep, OpenStep, TurnStep, BodyCall,
    ScopeStep

\* No step takes a native session back.
LEMMA NativesStay == IInv /\ [Next]_vars => closes' \in Seq(Nat) /\ Len(closes) <= Len(closes')
<1> SUFFICES ASSUME IInv, [Next]_vars PROVE closes' \in Seq(Nat) /\ Len(closes) <= Len(closes')
  OBVIOUS
<1>0. closes' \in Seq(Nat)
  BY StepWorld DEF WorldTypes
<1>00. closes \in Seq(Nat)
  BY DEF IInv, TypeOK, WorldTypes
<1>1. ASSUME NEW c \in Callers, StopLate(c) PROVE Len(closes) <= Len(closes')
  BY <1>00, <1>1 DEF StopLate, StopNative
<1>2. ASSUME CloseStop PROVE Len(closes) <= Len(closes')
  BY <1>00, <1>2 DEF CloseStop, StopNative
<1>3. ASSUME NEW c \in Callers, NEW a \in CreateAnswers, NEW id \in {NoNative, Len(closes) + 1},
  OpenReturn(c, a, id)
  PROVE Len(closes) <= Len(closes')
  BY <1>00, <1>3 DEF OpenReturn, StopNative
<1>4. ASSUME Reenter PROVE Len(closes) <= Len(closes')
  BY <1>00, <1>4 DEF Reenter, StopNative
<1>5. ASSUME UNCHANGED vars \/ (\E c \in Callers : NewSession(c) \/ Adopt(c) \/ Restore(c) \/
  OpenAdmit(c) \/ OpenSend(c) \/ AdoptNative(c) \/ TurnRefused(c) \/ StartTurn(c) \/ TurnAdmit(c) \/
  TurnSend(c) \/ Settle(c) \/ EndTurn(c) \/ CancelTurn(c)) \/ (\E c \in Callers, ok \in BOOLEAN :
  ForkIntent(c, ok) \/ Create(c, ok) \/ OpenFinish(c, ok) \/ Bind(c, ok) \/ TurnIntent(c, ok) \/
  TurnFinish(c, ok)) \/ (\E c \in Callers, a \in AllAnswers : TurnReturn(c, a)) \/ (\E c \in
  Callers, b \in Branches : Fork(c, b)) \/ (\E c \in Callers, s \in Sessions : Generate(c, s)) \/
  (\E s \in Sessions : Steer(s) \/ SteerEnd(s)) \/ Cancel \/ JournalFails \/ BodyReturn \/ EndScope
  \/ CloseMark \/ Stopped \/ (\E ok \in BOOLEAN : CloseEvent(ok) \/ RunEnds(ok))
  PROVE closes' = closes
  <2>1. ASSUME NEW c \in Callers, NewSession(c) \/ Adopt(c) \/ Restore(c) \/ OpenAdmit(c) \/
    OpenSend(c) \/ AdoptNative(c) \/ TurnRefused(c) \/ StartTurn(c)
    PROVE closes' = closes
    BY <2>1 DEF NewSession, Adopt, Restore, OpenAdmit, OpenFailed, LoseFork, IsFork, OpenSend,
      AdoptNative, TurnRefused, Returns, Refusal, StartTurn
  <2>2. ASSUME NEW c \in Callers, TurnAdmit(c) \/ TurnSend(c) \/ Settle(c) \/ EndTurn(c) \/
    CancelTurn(c)
    PROVE closes' = closes
    BY <2>2 DEF TurnAdmit, TurnSend, Settle, EndTurn, Returns, CancelTurn
  <2>3. ASSUME NEW c \in Callers, NEW ok \in BOOLEAN, ForkIntent(c, ok) \/ Create(c, ok) \/
    OpenFinish(c, ok) \/ Bind(c, ok) \/ TurnIntent(c, ok) \/ TurnFinish(c, ok)
    PROVE closes' = closes
    BY <2>3 DEF ForkIntent, Create, OpenFinish, Bind, OpenFailed, IsFork, NoteCreateError,
      TurnIntent, TurnFinish
  <2>4. ASSUME NEW c \in Callers, NEW a \in AllAnswers, TurnReturn(c, a) PROVE closes' = closes
    BY <2>4 DEF TurnReturn
  <2>5. ASSUME NEW c \in Callers, NEW b \in Branches, Fork(c, b) PROVE closes' = closes
    BY <2>5 DEF Fork
  <2>6. ASSUME NEW c \in Callers, NEW s \in Sessions, Generate(c, s) PROVE closes' = closes
    BY <2>6 DEF Generate
  <2>7. ASSUME NEW s \in Sessions, Steer(s) \/ SteerEnd(s) PROVE closes' = closes
    BY <2>7 DEF Steer, SteerEnd
  <2>8. ASSUME Cancel \/ JournalFails \/ BodyReturn \/ EndScope \/ CloseMark \/ Stopped
    PROVE closes' = closes
    BY <2>8 DEF Cancel, JournalFails, BodyReturn, EndScope, CloseMark, Stopped, vars
  <2>9. ASSUME NEW ok \in BOOLEAN, CloseEvent(ok) \/ RunEnds(ok) PROVE closes' = closes
    BY <2>9 DEF CloseEvent, RunEnds
  <2> QED
    BY <1>5, <2>1, <2>2, <2>3, <2>4, <2>5, <2>6, <2>7, <2>8, <2>9 DEF vars, worldVars
<1> QED
  BY <1>00, <1>0, <1>1, <1>2, <1>3, <1>4, <1>5 DEF Next, CallerStep, OpenStep, TurnStep, BodyCall,
    ScopeStep

\* So do the sessions.
LEMMA StepSession == IInv /\ [Next]_vars => SessionTypes'
<1> SUFFICES ASSUME IInv, [Next]_vars PROVE SessionTypes'
  OBVIOUS
<1> DEFINE Rest == UNCHANGED vars \/ (\E c \in Callers : NewSession(c) \/ OpenSend(c) \/
  TurnAdmit(c) \/ TurnSend(c) \/ CancelTurn(c)) \/ (\E c \in Callers, ok \in BOOLEAN : OpenFinish(c,
  ok) \/ TurnIntent(c, ok) \/ TurnFinish(c, ok)) \/ (\E c \in Callers, a \in CreateAnswers, id \in
  {NoNative, Len(closes) + 1} : OpenReturn(c, a, id)) \/ (\E c \in Callers, a \in AllAnswers :
  TurnReturn(c, a)) \/ (\E c \in Callers, b \in Branches : Fork(c, b)) \/ Cancel \/ JournalFails \/
  BodyReturn \/ EndScope \/ CloseStop \/ Stopped \/ (\E ok \in BOOLEAN : CloseEvent(ok) \/
  RunEnds(ok))
<1>1. ASSUME Rest PROVE UNCHANGED <<born, native, turns, gens, creates, turnID, createErr, running, closed,
    steering>>
  <2>1. ASSUME NEW c \in Callers, NewSession(c) \/ OpenSend(c) \/ TurnAdmit(c) \/ TurnSend(c) \/
    CancelTurn(c)
    PROVE UNCHANGED <<born, native, turns, gens, creates, turnID, createErr, running, closed,
      steering>>
    BY <2>1 DEF NewSession, OpenSend, TurnAdmit, TurnSend, CancelTurn
  <2>2. ASSUME NEW c \in Callers, NEW ok \in BOOLEAN, OpenFinish(c, ok) \/ TurnIntent(c, ok) \/
    TurnFinish(c, ok)
    PROVE UNCHANGED <<born, native, turns, gens, creates, turnID, createErr, running, closed,
      steering>>
    BY <2>2 DEF OpenFinish, TurnIntent, TurnFinish
  <2>3. ASSUME NEW c \in Callers, NEW a \in CreateAnswers, NEW id \in {NoNative, Len(closes) + 1},
    OpenReturn(c, a, id)
    PROVE UNCHANGED <<born, native, turns, gens, creates, turnID, createErr, running, closed,
      steering>>
    BY <2>3 DEF OpenReturn
  <2>4. ASSUME NEW c \in Callers, NEW a \in AllAnswers, TurnReturn(c, a)
    PROVE UNCHANGED <<born, native, turns, gens, creates, turnID, createErr, running, closed,
      steering>>
    BY <2>4 DEF TurnReturn
  <2>5. ASSUME NEW c \in Callers, NEW b \in Branches, Fork(c, b)
    PROVE UNCHANGED <<born, native, turns, gens, creates, turnID, createErr, running, closed,
      steering>>
    BY <2>5 DEF Fork
  <2>6. ASSUME Cancel \/ JournalFails \/ BodyReturn \/ EndScope \/ CloseStop \/ Stopped
    PROVE UNCHANGED <<born, native, turns, gens, creates, turnID, createErr, running, closed,
      steering>>
    BY <2>6 DEF Cancel, JournalFails, BodyReturn, EndScope, CloseStop, StopNative, Stopped, vars
  <2>7. ASSUME NEW ok \in BOOLEAN, CloseEvent(ok) \/ RunEnds(ok)
    PROVE UNCHANGED <<born, native, turns, gens, creates, turnID, createErr, running, closed,
      steering>>
    BY <2>7 DEF CloseEvent, RunEnds
  <2> QED
    BY <1>1, <2>1, <2>2, <2>3, <2>4, <2>5, <2>6, <2>7 DEF vars
<1> USE DEF IInv, TypeOK, SessionTypes, NoNative
<1>0. SessionTypes /\ WorldTypes
  BY DEF IInv, TypeOK
<1> native \in [Sessions -> 0..Len(closes')]
  BY <1>0, NativesStay, ClosesGrow DEF SessionTypes
<1>2. ASSUME NEW c \in Callers, Adopt(c) PROVE SessionTypes'
  <2>1. on[c] \in Sessions
    BY <1>2, InCall DEF Adopt
  <2> QED
    BY <1>2, <2>1 DEF Adopt, ScopeTypes
<1>3. ASSUME NEW c \in Callers, Restore(c) PROVE SessionTypes'
  <2>1. on[c] \in Sessions
    BY <1>3, InCall DEF Restore
  <2>2. SavedBinding(on[c]) \in 0..Len(closes')
    BY <1>0, <2>1, SavedBindingKnown, NativesStay, ClosesGrow
  <2> QED
    BY <1>3, <2>1, <2>2 DEF Restore
<1>4. ASSUME NEW c \in Callers, OpenAdmit(c) PROVE SessionTypes'
  BY <1>4 DEF OpenAdmit, OpenFailed, LoseFork, IsFork
<1>5. ASSUME NEW c \in Callers, AdoptNative(c) PROVE SessionTypes'
  <2>1. on[c] \in Sessions /\ got[c] \in 0..Len(closes)
    BY <1>5, InCall DEF AdoptNative, CallTypes
  <2>2. got[c] \in 0..Len(closes')
    BY <1>0, <2>1, NativesStay, ClosesGrow
  <2> QED
    BY <1>5, <2>1, <2>2 DEF AdoptNative
<1>6. ASSUME NEW c \in Callers, StopLate(c) PROVE SessionTypes'
  BY <1>6 DEF StopLate, OpenFailed, LoseFork, NoteCreateError, StopNative, IsFork
<1>7. ASSUME NEW c \in Callers, TurnRefused(c) PROVE SessionTypes'
  <2>1. on[c] \in Sessions
    BY <1>7, InCall DEF TurnRefused
  <2> QED
    BY <1>7, <2>1 DEF TurnRefused, Returns, Refusal
<1>8. ASSUME NEW c \in Callers, StartTurn(c) PROVE SessionTypes'
  <2>1. on[c] \in Sessions
    BY <1>8, InCall DEF StartTurn
  <2>2. /\ running' = [running EXCEPT ![on[c]] = TRUE]
        /\ turns' = [turns EXCEPT ![on[c]] = turns[on[c]] + 1] /\ turnID' = [turnID EXCEPT ![on[c]] = turns[on[c]] + 1]
        /\ UNCHANGED <<born, native, gens, creates, createErr, closed, steering>>
    BY <1>8 DEF StartTurn
  <2> QED
    BY <2>1, <2>2
<1>9. ASSUME NEW c \in Callers, Settle(c) PROVE SessionTypes'
  BY <1>9 DEF Settle
<1>10. ASSUME NEW c \in Callers, EndTurn(c) PROVE SessionTypes'
  BY <1>10 DEF EndTurn, Returns
<1>11. ASSUME NEW c \in Callers, NEW ok \in BOOLEAN, ForkIntent(c, ok) PROVE SessionTypes'
  BY <1>11 DEF ForkIntent
<1>12. ASSUME NEW c \in Callers, NEW ok \in BOOLEAN, Create(c, ok) PROVE SessionTypes'
  <2>1. on[c] \in Sessions
    BY <1>12, InCall DEF Create
  <2>2. /\ creates' = [creates EXCEPT ![on[c]] = creates[on[c]] + 1]
        /\ UNCHANGED <<born, native, turns, gens, turnID, createErr, running, closed, steering>>
    BY <1>12 DEF Create
  <2> QED
    BY <2>1, <2>2
<1>13. ASSUME NEW c \in Callers, NEW ok \in BOOLEAN, Bind(c, ok) PROVE SessionTypes'
  BY <1>13 DEF Bind, OpenFailed, IsFork, NoteCreateError
<1>14. ASSUME NEW c \in Callers, NEW s \in Sessions, Generate(c, s) PROVE SessionTypes'
  BY <1>14 DEF Generate
<1>15. ASSUME NEW s \in Sessions, Steer(s) PROVE SessionTypes'
  BY <1>15 DEF Steer
<1>16. ASSUME NEW s \in Sessions, SteerEnd(s) PROVE SessionTypes'
  BY <1>16 DEF SteerEnd
<1>17. ASSUME CloseMark PROVE SessionTypes'
  BY <1>17 DEF CloseMark
<1>18. ASSUME Reenter PROVE SessionTypes'
  BY <1>18 DEF Reenter, All
<1>19. CASE Rest
  <2>1. UNCHANGED <<born, native, turns, gens, creates, turnID, createErr, running, closed, steering>>
    BY <1>1, <1>19
  <2> QED
    BY <1>0, <2>1
<1> QED
  BY <1>2, <1>3, <1>4, <1>5, <1>6, <1>7, <1>8, <1>9, <1>10, <1>11, <1>12, <1>13, <1>14, <1>15,
    <1>16, <1>17, <1>18, <1>19 DEF Next, CallerStep, OpenStep, TurnStep, BodyCall, ScopeStep

\* So do the calls.
LEMMA StepCall == IInv /\ [Next]_vars => CallTypes'
<1> SUFFICES ASSUME IInv, [Next]_vars PROVE CallTypes'
  OBVIOUS
<1> DEFINE Rest == UNCHANGED vars \/ (\E s \in Sessions : Steer(s) \/ SteerEnd(s)) \/ Cancel \/
  JournalFails \/ BodyReturn \/ EndScope \/ CloseMark \/ CloseStop \/ Stopped \/ (\E ok \in BOOLEAN
  : CloseEvent(ok) \/ RunEnds(ok))
<1>1. ASSUME Rest PROVE UNCHANGED <<pc, on, gen, turn, act, nat, got, ans, verdict, recorded, killed, invalid,
    protocol>>
  BY <1>1 DEF Steer, SteerEnd, Cancel, JournalFails, BodyReturn, EndScope, CloseMark, CloseStop,
    StopNative, Stopped, vars, CloseEvent, RunEnds
<1> USE DEF IInv, TypeOK, CallTypes
<1>0. CallTypes /\ SessionTypes /\ WorldTypes
  BY DEF IInv, TypeOK
<1> nat \in [Callers -> 0..Len(closes')] /\ got \in [Callers -> 0..Len(closes')]
  BY <1>0, NativesStay, ClosesGrow DEF CallTypes
<1> native \in [Sessions -> 0..Len(closes')]
  BY <1>0, NativesStay, ClosesGrow DEF SessionTypes
<1>2. ASSUME NEW c \in Callers, NewSession(c) PROVE CallTypes'
  <2>1. NoNative \in 0..Len(closes') /\ Main \in Sessions
    BY NativesStay DEF NoNative, Sessions
  <2> QED
    BY <1>2, <2>1 DEF NewSession
<1>3. ASSUME NEW c \in Callers, Adopt(c) PROVE CallTypes'
  BY <1>3 DEF Adopt
<1>4. ASSUME NEW c \in Callers, Restore(c) PROVE CallTypes'
  BY <1>4 DEF Restore
<1>5. ASSUME NEW c \in Callers, OpenAdmit(c) PROVE CallTypes'
  BY <1>5 DEF OpenAdmit, OpenFailed, LoseFork, IsFork
<1>6. ASSUME NEW c \in Callers, OpenSend(c) PROVE CallTypes'
  BY <1>6 DEF OpenSend
<1>7. ASSUME NEW c \in Callers, AdoptNative(c) PROVE CallTypes'
  BY <1>7 DEF AdoptNative
<1>8. ASSUME NEW c \in Callers, StopLate(c) PROVE CallTypes'
  BY <1>8 DEF StopLate, OpenFailed, LoseFork, NoteCreateError, StopNative, IsFork
<1>9. ASSUME NEW c \in Callers, TurnRefused(c) PROVE CallTypes'
  BY <1>9 DEF TurnRefused, Returns, Refusal
<1>10. ASSUME NEW c \in Callers, StartTurn(c) PROVE CallTypes'
  <2>1. on[c] \in Sessions
    BY <1>10, InCall DEF StartTurn
  <2>2. TurnNode(on[c], gen[c], turns[on[c]] + 1) \in Nodes
    BY <1>0, <2>1, CallNodes DEF CallTypes, SessionTypes
  <2>3. native[on[c]] \in 0..Len(closes')
    BY <2>1
  <2>4. SavedVerdict(TurnNode(on[c], gen[c], turns[on[c]] + 1)) \in Verdicts
    BY SavedVerdictTypes DEF Verdicts
  <2> QED
    BY <1>10, <2>1, <2>2, <2>3, <2>4 DEF StartTurn, Refusal, Verdicts
<1>11. ASSUME NEW c \in Callers, TurnAdmit(c) PROVE CallTypes'
  BY <1>11 DEF TurnAdmit, AllAnswers
<1>12. ASSUME NEW c \in Callers, TurnSend(c) PROVE CallTypes'
  BY <1>12 DEF TurnSend
<1>13. ASSUME NEW c \in Callers, Settle(c) PROVE CallTypes'
  BY <1>13 DEF Settle
<1>14. ASSUME NEW c \in Callers, EndTurn(c) PROVE CallTypes'
  BY <1>14 DEF EndTurn, Returns
<1>15. ASSUME NEW c \in Callers, CancelTurn(c) PROVE CallTypes'
  BY <1>15 DEF CancelTurn
<1>16. ASSUME NEW c \in Callers, NEW ok \in BOOLEAN, ForkIntent(c, ok) PROVE CallTypes'
  <2>1. on[c] \in Sessions
    BY <1>16, InCall DEF ForkIntent
  <2>2. ForkNode(on[c]) \in Nodes
    BY <2>1, OtherNodes
  <2> QED
    BY <1>16, <2>1, <2>2 DEF ForkIntent
<1>17. ASSUME NEW c \in Callers, NEW ok \in BOOLEAN, Create(c, ok) PROVE CallTypes'
  <2>1. on[c] \in Sessions
    BY <1>17, InCall DEF Create
  <2>2. CreateNode(on[c], creates[on[c]] + 1) \in Nodes
    BY <1>0, <2>1, CallNodes DEF SessionTypes
  <2>3. Saved(CreateNode(on[c], creates[on[c]] + 1)) =>
          SavedNative(CreateNode(on[c], creates[on[c]] + 1)) \in 0..Len(closes')
    BY <1>0, <2>2, SavedNativeKnown, NativesStay, ClosesGrow
  <2>4. NoNative \in 0..Len(closes')
    BY NativesStay DEF NoNative
  <2> QED
    BY <1>17, <2>1, <2>2, <2>3, <2>4 DEF Create, Verdicts
<1>18. ASSUME NEW c \in Callers, NEW ok \in BOOLEAN, OpenFinish(c, ok) PROVE CallTypes'
  BY <1>18 DEF OpenFinish
<1>19. ASSUME NEW c \in Callers, NEW ok \in BOOLEAN, Bind(c, ok) PROVE CallTypes'
  <2>1. on[c] \in Sessions
    BY <1>19, InCall DEF Bind
  <2>2. native[on[c]] \in 0..Len(closes')
    BY <2>1
  <2> QED
    BY <1>19, <2>1, <2>2 DEF Bind, OpenFailed, IsFork, NoteCreateError
<1>20. ASSUME NEW c \in Callers, NEW ok \in BOOLEAN, TurnIntent(c, ok) PROVE CallTypes'
  BY <1>20 DEF TurnIntent, AllAnswers, Verdicts
<1>21. ASSUME NEW c \in Callers, NEW ok \in BOOLEAN, TurnFinish(c, ok) PROVE CallTypes'
  <2>1. Verdict(ans[c], cancelled \/ killed[c]) \in Verdicts
    BY <1>21 DEF TurnFinish, CallInv, CallOK, AllAnswers, Verdict, Verdicts
  <2> QED
    BY <1>21, <2>1 DEF TurnFinish
<1>22. ASSUME NEW c \in Callers, NEW a \in CreateAnswers, NEW id \in {NoNative, Len(closes) + 1},
  OpenReturn(c, a, id)
  PROVE CallTypes'
  <2>1. id \in 0..Len(closes')
    BY <1>22, <1>0 DEF OpenReturn, NoNative, WorldTypes
  <2>2. a \in AllCreateAnswers
    BY AnswersAreKnown
  <2> QED
    BY <1>22, <2>1, <2>2 DEF OpenReturn
<1>23. ASSUME NEW c \in Callers, NEW a \in AllAnswers, TurnReturn(c, a) PROVE CallTypes'
  BY <1>23 DEF TurnReturn
<1>24. ASSUME NEW c \in Callers, NEW b \in Branches, Fork(c, b) PROVE CallTypes'
  <2>1. native[Main] \in 0..Len(closes)
    BY <1>0 DEF SessionTypes, Sessions
  <2>2. native[Main] \in 0..Len(closes') /\ b \in Sessions
    BY <1>0, <2>1, NativesStay, ClosesGrow DEF Sessions
  <2> QED
    BY <1>24, <2>1, <2>2 DEF Fork
<1>25. ASSUME NEW c \in Callers, NEW s \in Sessions, Generate(c, s) PROVE CallTypes'
  <2>1. gens[s] + 1 \in Nat
    BY <1>0 DEF SessionTypes
  <2> QED
    BY <1>25, <2>1 DEF Generate
<1>26. ASSUME Reenter PROVE CallTypes'
  <2>1. NoNative \in 0..Len(closes') /\ Main \in Sessions
    BY NativesStay DEF NoNative, Sessions
  <2>2. NoNode \in Nodes
    BY <2>1, OtherNodes
  <2> QED
    BY <1>26, <2>1, <2>2 DEF Reenter, All, Verdicts
<1>27. CASE Rest
  <2>1. UNCHANGED <<pc, on, gen, turn, act, nat, got, ans, verdict, recorded, killed, invalid, protocol>>
    BY <1>1, <1>27
  <2> QED
    BY <1>0, <2>1
<1> QED
  BY <1>2, <1>3, <1>4, <1>5, <1>6, <1>7, <1>8, <1>9, <1>10, <1>11, <1>12, <1>13, <1>14, <1>15,
    <1>16, <1>17, <1>18, <1>19, <1>20, <1>21, <1>22, <1>23, <1>24, <1>25, <1>26, <1>27 DEF Next,
    CallerStep, OpenStep, TurnStep, BodyCall, ScopeStep

-----------------------------------------------------------------------------
(* What a step of a caller does *)

Same(d) ==
  /\ pc'[d] = pc[d] /\ on'[d] = on[d] /\ act'[d] = act[d] /\ turn'[d] = turn[d]
  /\ ans'[d] = ans[d] /\ got'[d] = got[d] /\ nat'[d] = nat[d]
Others(c) == \A d \in Callers \ {c} : Same(d)
KeepsNatives == \A s \in Sessions : native[s] # NoNative => native'[s] # NoNative

\* What NewSession does.
LEMMA NewSessionEffect ==
  ASSUME IInv, NEW c \in Callers, NewSession(c)
  PROVE  /\ pc[c] = "idle" /\ Others(c) /\ KeepsNatives
         /\ pc'[c] = "adopt" /\ on'[c] = Main
         /\ UNCHANGED <<act, turn, ans, got, journal, loaded, native, turns, creates, running,
           turnID, steering, sent, stops, closes, teardown, toClose>>
<1>1. CallTypes /\ SessionTypes
  BY DEF IInv, TypeOK
<1>2. UNCHANGED <<act, turn, ans, got, journal, loaded, native, turns, creates, running, turnID,
  steering, sent, stops, closes, teardown, toClose>>
  BY DEF NewSession
<1>3. Others(c)
  BY <1>1 DEF NewSession, CallTypes, Others, Same
<1>4. /\ pc[c] = "idle"
      /\ pc'[c] = "adopt" /\ on'[c] = Main
  BY <1>1 DEF NewSession, CallTypes
<1>5. KeepsNatives
  BY <1>2 DEF KeepsNatives
<1> QED
  BY <1>2, <1>3, <1>4, <1>5

\* What Fork does.
LEMMA ForkEffect ==
  ASSUME IInv, NEW c \in Callers, NEW b \in Branches, Fork(c, b)
  PROVE  /\ pc[c] = "idle" /\ Others(c) /\ KeepsNatives
         /\ pc'[c] = "adopt" /\ on'[c] = b
         /\ UNCHANGED <<act, turn, ans, got, journal, loaded, native, turns, creates, running,
           turnID, steering, sent, stops, closes, teardown, toClose>>
<1>1. CallTypes /\ SessionTypes
  BY DEF IInv, TypeOK
<1>2. UNCHANGED <<act, turn, ans, got, journal, loaded, native, turns, creates, running, turnID,
  steering, sent, stops, closes, teardown, toClose>>
  BY DEF Fork
<1>3. Others(c)
  BY <1>1 DEF Fork, CallTypes, Others, Same
<1>4. /\ pc[c] = "idle"
      /\ pc'[c] = "adopt" /\ on'[c] = b
  BY <1>1 DEF Fork, CallTypes
<1>5. KeepsNatives
  BY <1>2 DEF KeepsNatives
<1> QED
  BY <1>2, <1>3, <1>4, <1>5

\* What Adopt does.
LEMMA AdoptEffect ==
  ASSUME IInv, NEW c \in Callers, Adopt(c)
  PROVE  /\ pc[c] = "adopt" /\ Others(c) /\ KeepsNatives
         /\ pc'[c] \in {"restore", "fork"}
         /\ UNCHANGED <<on, act, turn, ans, got, nat, journal, loaded, native, turns, creates,
           running, turnID, steering, sent, stops, closes, teardown, toClose>>
<1>1. CallTypes /\ SessionTypes
  BY DEF IInv, TypeOK
<1>2. UNCHANGED <<on, act, turn, ans, got, nat, journal, loaded, native, turns, creates, running,
  turnID, steering, sent, stops, closes, teardown, toClose>>
  BY DEF Adopt
<1>3. Others(c)
  BY <1>1 DEF Adopt, CallTypes, Others, Same
<1>4. /\ pc[c] = "adopt"
      /\ pc'[c] \in {"restore", "fork"}
  BY <1>1 DEF Adopt, CallTypes
<1>5. KeepsNatives
  BY <1>2 DEF KeepsNatives
<1> QED
  BY <1>2, <1>3, <1>4, <1>5

\* What Restore does.
LEMMA RestoreEffect ==
  ASSUME IInv, NEW c \in Callers, Restore(c)
  PROVE  /\ pc[c] = "restore" /\ Others(c) /\ KeepsNatives
         /\ pc'[c] = "idle"
         /\ UNCHANGED <<on, act, turn, ans, got, nat, journal, loaded, turns, creates, running,
           turnID, steering, sent, stops, closes, teardown, toClose>>
<1>1. CallTypes /\ SessionTypes
  BY DEF IInv, TypeOK
<1>2. UNCHANGED <<on, act, turn, ans, got, nat, journal, loaded, turns, creates, running, turnID,
  steering, sent, stops, closes, teardown, toClose>>
  BY DEF Restore
<1>3. Others(c)
  BY <1>1 DEF Restore, CallTypes, Others, Same
<1>4. /\ pc[c] = "restore"
      /\ pc'[c] = "idle"
  BY <1>1 DEF Restore, CallTypes
<1>5. KeepsNatives
  <2>1. native' = [native EXCEPT ![on[c]] = IF SavedBinding(on[c]) # NoNative THEN SavedBinding(on[c]) ELSE @]
    BY DEF Restore
  <2> QED
    BY <1>1, <2>1 DEF KeepsNatives, SessionTypes
<1> QED
  BY <1>2, <1>3, <1>4, <1>5

\* What ForkIntent does.
LEMMA ForkIntentEffect ==
  ASSUME IInv, NEW c \in Callers, NEW ok \in BOOLEAN, ForkIntent(c, ok)
  PROVE  /\ pc[c] = "fork" /\ Others(c) /\ KeepsNatives
         /\ pc'[c] \in {"admit", "idle"} /\ act'[c] = ForkNode(on[c])
         /\ UNCHANGED <<on, turn, ans, got, nat, loaded, native, turns, creates, running, turnID,
           steering, sent, stops, closes, teardown, toClose>>
<1>1. CallTypes /\ SessionTypes
  BY DEF IInv, TypeOK
<1>2. UNCHANGED <<on, turn, ans, got, nat, loaded, native, turns, creates, running, turnID,
  steering, sent, stops, closes, teardown, toClose>>
  BY DEF ForkIntent
<1>3. Others(c)
  BY <1>1 DEF ForkIntent, CallTypes, Others, Same
<1>4. /\ pc[c] = "fork"
      /\ pc'[c] \in {"admit", "idle"} /\ act'[c] = ForkNode(on[c])
  BY <1>1 DEF ForkIntent, CallTypes
<1>5. KeepsNatives
  BY <1>2 DEF KeepsNatives
<1> QED
  BY <1>2, <1>3, <1>4, <1>5

\* What Create does.
LEMMA CreateEffect ==
  ASSUME IInv, NEW c \in Callers, NEW ok \in BOOLEAN, Create(c, ok)
  PROVE  /\ pc[c] = "create" /\ Others(c) /\ KeepsNatives
         /\ act'[c] = CreateNode(on[c], creates[on[c]] + 1)
         /\ pc'[c] \in {"return", "adoptNative", "admit"}
         /\ (Saved(CreateNode(on[c], creates[on[c]] + 1)) => pc'[c] # "admit")
         /\ (pc'[c] = "adoptNative" => Saved(CreateNode(on[c], creates[on[c]] + 1))
               /\ SavedVerdict(CreateNode(on[c], creates[on[c]] + 1)) = "ok"
               /\ got'[c] = SavedNative(CreateNode(on[c], creates[on[c]] + 1)))
         /\ creates' = [creates EXCEPT ![on[c]] = @ + 1]
         /\ UNCHANGED <<on, turn, nat, loaded, native, turns, running, turnID, steering, sent,
           stops, closes, teardown, toClose>>
<1>1. CallTypes /\ SessionTypes
  BY DEF IInv, TypeOK
<1>2. UNCHANGED <<on, turn, nat, loaded, native, turns, running, turnID, steering, sent, stops,
  closes, teardown, toClose>>
  BY DEF Create
<1>3. Others(c)
  BY <1>1 DEF Create, CallTypes, Others, Same
<1>4. /\ pc[c] = "create"
      /\ act'[c] = CreateNode(on[c], creates[on[c]] + 1)
      /\ pc'[c] \in {"return", "adoptNative", "admit"}
      /\ (Saved(CreateNode(on[c], creates[on[c]] + 1)) => pc'[c] # "admit")
      /\ (pc'[c] = "adoptNative" => Saved(CreateNode(on[c], creates[on[c]] + 1))
               /\ SavedVerdict(CreateNode(on[c], creates[on[c]] + 1)) = "ok"
               /\ got'[c] = SavedNative(CreateNode(on[c], creates[on[c]] + 1)))
      /\ creates' = [creates EXCEPT ![on[c]] = @ + 1]
  BY <1>1 DEF Create, CallTypes
<1>5. KeepsNatives
  BY <1>2 DEF KeepsNatives
<1> QED
  BY <1>2, <1>3, <1>4, <1>5

\* What OpenAdmit does.
LEMMA OpenAdmitEffect ==
  ASSUME IInv, NEW c \in Callers, OpenAdmit(c)
  PROVE  /\ pc[c] = "admit" /\ Others(c) /\ KeepsNatives
         /\ pc'[c] \in {"open", OpenFailed(c)}
         /\ UNCHANGED <<on, act, turn, ans, got, nat, journal, loaded, native, turns, creates,
           running, turnID, steering, sent, stops, closes, teardown, toClose>>
<1>1. CallTypes /\ SessionTypes
  BY DEF IInv, TypeOK
<1>2. UNCHANGED <<on, act, turn, ans, got, nat, journal, loaded, native, turns, creates, running,
  turnID, steering, sent, stops, closes, teardown, toClose>>
  BY DEF OpenAdmit, OpenFailed, LoseFork, IsFork
<1>3. Others(c)
  BY <1>1 DEF OpenAdmit, LoseFork, CallTypes, Others, Same
<1>4. /\ pc[c] = "admit"
      /\ pc'[c] \in {"open", OpenFailed(c)}
  BY <1>1 DEF OpenAdmit, LoseFork, CallTypes
<1>5. KeepsNatives
  BY <1>2 DEF KeepsNatives
<1> QED
  BY <1>2, <1>3, <1>4, <1>5

\* What OpenSend does.
LEMMA OpenSendEffect ==
  ASSUME IInv, NEW c \in Callers, OpenSend(c)
  PROVE  /\ pc[c] = "open" /\ Others(c) /\ KeepsNatives
         /\ pc'[c] = "opening"
         /\ sent' = sent \cup {Sent(act[c], NoNative, FALSE)}
         /\ UNCHANGED <<on, act, turn, ans, got, nat, journal, loaded, native, turns, creates,
           running, turnID, steering, stops, closes, teardown, toClose>>
<1>1. CallTypes /\ SessionTypes
  BY DEF IInv, TypeOK
<1>2. UNCHANGED <<on, act, turn, ans, got, nat, journal, loaded, native, turns, creates, running,
  turnID, steering, stops, closes, teardown, toClose>>
  BY DEF OpenSend
<1>3. Others(c)
  BY <1>1 DEF OpenSend, CallTypes, Others, Same
<1>4. /\ pc[c] = "open"
      /\ pc'[c] = "opening"
      /\ sent' = sent \cup {Sent(act[c], NoNative, FALSE)}
  BY <1>1 DEF OpenSend, CallTypes
<1>5. KeepsNatives
  BY <1>2 DEF KeepsNatives
<1> QED
  BY <1>2, <1>3, <1>4, <1>5

\* What OpenReturn does.
LEMMA OpenReturnEffect ==
  ASSUME IInv, NEW c \in Callers, NEW a \in CreateAnswers, NEW id \in {NoNative, Len(closes) + 1},
    OpenReturn(c, a, id)
  PROVE  /\ pc[c] = "opening" /\ Others(c) /\ KeepsNatives
         /\ pc'[c] = "opened" /\ ans'[c] = a /\ got'[c] = id /\ (a = "valid" => id # NoNative)
         /\ UNCHANGED <<on, act, turn, nat, journal, loaded, native, turns, creates, running,
           turnID, steering, sent, stops, teardown, toClose>>
<1>1. CallTypes /\ SessionTypes
  BY DEF IInv, TypeOK
<1>2. UNCHANGED <<on, act, turn, nat, journal, loaded, native, turns, creates, running, turnID,
  steering, sent, stops, teardown, toClose>>
  BY DEF OpenReturn
<1>3. Others(c)
  BY <1>1 DEF OpenReturn, CallTypes, Others, Same
<1>4. /\ pc[c] = "opening"
      /\ pc'[c] = "opened" /\ ans'[c] = a /\ got'[c] = id /\ (a = "valid" => id # NoNative)
  BY <1>1 DEF OpenReturn, CallTypes
<1>5. KeepsNatives
  BY <1>2 DEF KeepsNatives
<1> QED
  BY <1>2, <1>3, <1>4, <1>5

\* What OpenFinish does.
LEMMA OpenFinishEffect ==
  ASSUME IInv, NEW c \in Callers, NEW ok \in BOOLEAN, OpenFinish(c, ok)
  PROVE  /\ pc[c] = "opened" /\ Others(c) /\ KeepsNatives
         /\ pc'[c] = "adoptNative"
         /\ UNCHANGED <<on, act, turn, ans, got, nat, loaded, native, turns, creates, running,
           turnID, steering, sent, stops, closes, teardown, toClose>>
<1>1. CallTypes /\ SessionTypes
  BY DEF IInv, TypeOK
<1>2. UNCHANGED <<on, act, turn, ans, got, nat, loaded, native, turns, creates, running, turnID,
  steering, sent, stops, closes, teardown, toClose>>
  BY DEF OpenFinish
<1>3. Others(c)
  BY <1>1 DEF OpenFinish, CallTypes, Others, Same
<1>4. /\ pc[c] = "opened"
      /\ pc'[c] = "adoptNative"
  BY <1>1 DEF OpenFinish, CallTypes
<1>5. KeepsNatives
  BY <1>2 DEF KeepsNatives
<1> QED
  BY <1>2, <1>3, <1>4, <1>5

\* What AdoptNative does.
LEMMA AdoptNativeEffect ==
  ASSUME IInv, NEW c \in Callers, AdoptNative(c)
  PROVE  /\ pc[c] = "adoptNative" /\ Others(c) /\ KeepsNatives
         /\ pc'[c] \in {"stopLate", "bind"}
         /\ native' = [native EXCEPT ![on[c]] = IF got[c] = NoNative THEN @ ELSE got[c]]
         /\ UNCHANGED <<on, act, turn, ans, got, nat, journal, loaded, turns, creates, running,
           turnID, steering, sent, stops, closes, teardown, toClose>>
<1>1. CallTypes /\ SessionTypes
  BY DEF IInv, TypeOK
<1>2. UNCHANGED <<on, act, turn, ans, got, nat, journal, loaded, turns, creates, running, turnID,
  steering, sent, stops, closes, teardown, toClose>>
  BY DEF AdoptNative
<1>3. Others(c)
  BY <1>1 DEF AdoptNative, CallTypes, Others, Same
<1>4. /\ pc[c] = "adoptNative"
      /\ pc'[c] \in {"stopLate", "bind"}
      /\ native' = [native EXCEPT ![on[c]] = IF got[c] = NoNative THEN @ ELSE got[c]]
  BY <1>1 DEF AdoptNative, CallTypes
<1>5. KeepsNatives
  BY <1>1, <1>4 DEF KeepsNatives, SessionTypes
<1> QED
  BY <1>2, <1>3, <1>4, <1>5

\* What StopLate does.
LEMMA StopLateEffect ==
  ASSUME IInv, NEW c \in Callers, StopLate(c)
  PROVE  /\ pc[c] = "stopLate" /\ Others(c) /\ KeepsNatives
         /\ pc'[c] = OpenFailed(c)
         /\ UNCHANGED <<on, act, turn, ans, got, nat, journal, loaded, native, turns, creates,
           running, turnID, steering, sent, stops, teardown, toClose>>
<1>1. CallTypes /\ SessionTypes
  BY DEF IInv, TypeOK
<1>2. UNCHANGED <<on, act, turn, ans, got, nat, journal, loaded, native, turns, creates, running,
  turnID, steering, sent, stops, teardown, toClose>>
  BY DEF StopLate, OpenFailed, LoseFork, NoteCreateError, StopNative, IsFork
<1>3. Others(c)
  BY <1>1 DEF StopLate, LoseFork, NoteCreateError, StopNative, CallTypes, Others, Same
<1>4. /\ pc[c] = "stopLate"
      /\ pc'[c] = OpenFailed(c)
  BY <1>1 DEF StopLate, LoseFork, NoteCreateError, StopNative, CallTypes
<1>5. KeepsNatives
  BY <1>2 DEF KeepsNatives
<1> QED
  BY <1>2, <1>3, <1>4, <1>5

\* What Bind does.
LEMMA BindEffect ==
  ASSUME IInv, NEW c \in Callers, NEW ok \in BOOLEAN, Bind(c, ok)
  PROVE  /\ pc[c] = "bind" /\ Others(c) /\ KeepsNatives
         /\ nat'[c] = native[on[c]] /\ pc'[c] \in {OpenFailed(c), "idle", "prompt"}
         /\ (pc'[c] = "idle" => IsFork(c))
         /\ (pc'[c] = "prompt" => ~IsFork(c) /\ ans[c] \in {"valid", "saved"})
         /\ UNCHANGED <<on, act, turn, ans, got, loaded, native, turns, creates, running, turnID,
           steering, sent, stops, closes, teardown, toClose>>
<1>1. CallTypes /\ SessionTypes
  BY DEF IInv, TypeOK
<1>2. UNCHANGED <<on, act, turn, ans, got, loaded, native, turns, creates, running, turnID,
  steering, sent, stops, closes, teardown, toClose>>
  BY DEF Bind, OpenFailed, IsFork, NoteCreateError
<1>3. Others(c)
  BY <1>1 DEF Bind, OpenFailed, IsFork, NoteCreateError, CallTypes, Others, Same
<1>4. /\ pc[c] = "bind"
      /\ nat'[c] = native[on[c]] /\ pc'[c] \in {OpenFailed(c), "idle", "prompt"}
      /\ (pc'[c] = "idle" => IsFork(c))
      /\ (pc'[c] = "prompt" => ~IsFork(c) /\ ans[c] \in {"valid", "saved"})
  BY <1>1 DEF Bind, OpenFailed, IsFork, NoteCreateError, CallTypes
<1>5. KeepsNatives
  BY <1>2 DEF KeepsNatives
<1> QED
  BY <1>2, <1>3, <1>4, <1>5

\* What Generate does.
LEMMA GenerateEffect ==
  ASSUME IInv, NEW c \in Callers, NEW s \in Sessions, Generate(c, s)
  PROVE  /\ pc[c] = "idle" /\ Others(c) /\ KeepsNatives
         /\ on'[c] = s /\ pc'[c] \in {"idle", "turn"}
         /\ UNCHANGED <<act, turn, ans, got, nat, journal, loaded, native, turns, creates, running,
           turnID, steering, sent, stops, closes, teardown, toClose>>
<1>1. CallTypes /\ SessionTypes
  BY DEF IInv, TypeOK
<1>2. UNCHANGED <<act, turn, ans, got, nat, journal, loaded, native, turns, creates, running,
  turnID, steering, sent, stops, closes, teardown, toClose>>
  BY DEF Generate
<1>3. Others(c)
  BY <1>1 DEF Generate, CallTypes, Others, Same
<1>4. /\ pc[c] = "idle"
      /\ on'[c] = s /\ pc'[c] \in {"idle", "turn"}
  BY <1>1 DEF Generate, CallTypes
<1>5. KeepsNatives
  BY <1>2 DEF KeepsNatives
<1> QED
  BY <1>2, <1>3, <1>4, <1>5

\* What TurnRefused does.
LEMMA TurnRefusedEffect ==
  ASSUME IInv, NEW c \in Callers, TurnRefused(c)
  PROVE  /\ pc[c] = "turn" /\ Others(c) /\ KeepsNatives
         /\ pc'[c] = "idle"
         /\ turns' = [turns EXCEPT ![on[c]] = IF Refusal(on[c]) THEN @ ELSE @ + 1]
         /\ turnID' = [turnID EXCEPT ![on[c]] = IF Refusal(on[c]) THEN @ ELSE 0]
         /\ UNCHANGED <<on, act, turn, ans, got, nat, journal, loaded, native, creates, running,
           steering, sent, stops, closes, teardown, toClose>>
<1>1. CallTypes /\ SessionTypes
  BY DEF IInv, TypeOK
<1>2. UNCHANGED <<on, act, turn, ans, got, nat, journal, loaded, native, creates, running, steering,
  sent, stops, closes, teardown, toClose>>
  BY DEF TurnRefused, Returns, Refusal
<1>3. Others(c)
  BY <1>1 DEF TurnRefused, Returns, CallTypes, Others, Same
<1>4. /\ pc[c] = "turn"
      /\ pc'[c] = "idle"
      /\ turns' = [turns EXCEPT ![on[c]] = IF Refusal(on[c]) THEN @ ELSE @ + 1]
      /\ turnID' = [turnID EXCEPT ![on[c]] = IF Refusal(on[c]) THEN @ ELSE 0]
  BY <1>1 DEF TurnRefused, Returns, CallTypes
<1>5. KeepsNatives
  BY <1>2 DEF KeepsNatives
<1> QED
  BY <1>2, <1>3, <1>4, <1>5

\* What StartTurn does.
LEMMA StartTurnEffect ==
  ASSUME IInv, NEW c \in Callers, StartTurn(c)
  PROVE  /\ pc[c] = "turn" /\ Others(c) /\ KeepsNatives
         /\ turn'[c] = TurnNode(on[c], gen[c], turns[on[c]] + 1) /\ nat'[c] = native[on[c]]
         /\ pc'[c] \in {"return", "create", "prompt"}
         /\ (Saved(TurnNode(on[c], gen[c], turns[on[c]] + 1)) <=> pc'[c] = "return")
         /\ (pc'[c] = "prompt" => native[on[c]] # NoNative)
         /\ turns' = [turns EXCEPT ![on[c]] = @ + 1]
         /\ running' = [running EXCEPT ![on[c]] = TRUE]
         /\ turnID' = [turnID EXCEPT ![on[c]] = turns[on[c]] + 1] /\ ~Refusal(on[c])
         /\ UNCHANGED <<on, act, ans, got, journal, loaded, native, creates, steering, sent, stops,
           closes, teardown, toClose>>
<1>1. CallTypes /\ SessionTypes
  BY DEF IInv, TypeOK
<1>2. UNCHANGED <<on, act, ans, got, journal, loaded, native, creates, steering, sent, stops,
  closes, teardown, toClose>>
  BY DEF StartTurn, Refusal
<1>3. Others(c)
  BY <1>1 DEF StartTurn, CallTypes, Others, Same
<1>4. /\ pc[c] = "turn"
      /\ turn'[c] = TurnNode(on[c], gen[c], turns[on[c]] + 1) /\ nat'[c] = native[on[c]]
      /\ pc'[c] \in {"return", "create", "prompt"}
      /\ (Saved(TurnNode(on[c], gen[c], turns[on[c]] + 1)) <=> pc'[c] = "return")
      /\ (pc'[c] = "prompt" => native[on[c]] # NoNative)
      /\ turns' = [turns EXCEPT ![on[c]] = @ + 1]
      /\ running' = [running EXCEPT ![on[c]] = TRUE]
      /\ turnID' = [turnID EXCEPT ![on[c]] = turns[on[c]] + 1] /\ ~Refusal(on[c])
  BY <1>1 DEF StartTurn, CallTypes
<1>5. KeepsNatives
  BY <1>2 DEF KeepsNatives
<1> QED
  BY <1>2, <1>3, <1>4, <1>5

\* What TurnIntent does.
LEMMA TurnIntentEffect ==
  ASSUME IInv, NEW c \in Callers, NEW ok \in BOOLEAN, TurnIntent(c, ok)
  PROVE  /\ pc[c] = "prompt" /\ Others(c) /\ KeepsNatives
         /\ ans'[c] = "error" /\ pc'[c] \in {"return", "turnAdmit", "settle"}
         /\ UNCHANGED <<on, act, turn, got, nat, loaded, native, turns, creates, running, turnID,
           steering, sent, stops, closes, teardown, toClose>>
<1>1. CallTypes /\ SessionTypes
  BY DEF IInv, TypeOK
<1>2. UNCHANGED <<on, act, turn, got, nat, loaded, native, turns, creates, running, turnID,
  steering, sent, stops, closes, teardown, toClose>>
  BY DEF TurnIntent
<1>3. Others(c)
  BY <1>1 DEF TurnIntent, CallTypes, Others, Same
<1>4. /\ pc[c] = "prompt"
      /\ ans'[c] = "error" /\ pc'[c] \in {"return", "turnAdmit", "settle"}
  BY <1>1 DEF TurnIntent, CallTypes
<1>5. KeepsNatives
  BY <1>2 DEF KeepsNatives
<1> QED
  BY <1>2, <1>3, <1>4, <1>5

\* What TurnAdmit does.
LEMMA TurnAdmitEffect ==
  ASSUME IInv, NEW c \in Callers, TurnAdmit(c)
  PROVE  /\ pc[c] = "turnAdmit" /\ Others(c) /\ KeepsNatives
         /\ ans'[c] \in {"cancelled", "error"} /\ pc'[c] \in {"settle", "send"}
         /\ UNCHANGED <<on, act, turn, got, nat, journal, loaded, native, turns, creates, running,
           turnID, steering, sent, stops, closes, teardown, toClose>>
<1>1. CallTypes /\ SessionTypes
  BY DEF IInv, TypeOK
<1>2. UNCHANGED <<on, act, turn, got, nat, journal, loaded, native, turns, creates, running, turnID,
  steering, sent, stops, closes, teardown, toClose>>
  BY DEF TurnAdmit
<1>3. Others(c)
  BY <1>1 DEF TurnAdmit, CallTypes, Others, Same
<1>4. /\ pc[c] = "turnAdmit"
      /\ ans'[c] \in {"cancelled", "error"} /\ pc'[c] \in {"settle", "send"}
  BY <1>1 DEF TurnAdmit, CallTypes
<1>5. KeepsNatives
  BY <1>2 DEF KeepsNatives
<1> QED
  BY <1>2, <1>3, <1>4, <1>5

\* What TurnSend does.
LEMMA TurnSendEffect ==
  ASSUME IInv, NEW c \in Callers, TurnSend(c)
  PROVE  /\ pc[c] = "send" /\ Others(c) /\ KeepsNatives
         /\ pc'[c] = "native"
         /\ sent' = sent \cup {Sent(turn[c], nat[c], HasFact(turn[c], "intent"))}
         /\ UNCHANGED <<on, act, turn, ans, got, nat, journal, loaded, native, turns, creates,
           running, turnID, steering, stops, closes, teardown, toClose>>
<1>1. CallTypes /\ SessionTypes
  BY DEF IInv, TypeOK
<1>2. UNCHANGED <<on, act, turn, ans, got, nat, journal, loaded, native, turns, creates, running,
  turnID, steering, stops, closes, teardown, toClose>>
  BY DEF TurnSend
<1>3. Others(c)
  BY <1>1 DEF TurnSend, CallTypes, Others, Same
<1>4. /\ pc[c] = "send"
      /\ pc'[c] = "native"
      /\ sent' = sent \cup {Sent(turn[c], nat[c], HasFact(turn[c], "intent"))}
  BY <1>1 DEF TurnSend, CallTypes
<1>5. KeepsNatives
  BY <1>2 DEF KeepsNatives
<1> QED
  BY <1>2, <1>3, <1>4, <1>5

\* What TurnReturn does.
LEMMA TurnReturnEffect ==
  ASSUME IInv, NEW c \in Callers, NEW a \in AllAnswers, TurnReturn(c, a)
  PROVE  /\ pc[c] = "native" /\ Others(c) /\ KeepsNatives
         /\ ans'[c] = a /\ pc'[c] = "settle"
         /\ UNCHANGED <<on, act, turn, got, nat, journal, loaded, native, turns, creates, running,
           turnID, steering, sent, stops, closes, teardown, toClose>>
<1>1. CallTypes /\ SessionTypes
  BY DEF IInv, TypeOK
<1>2. UNCHANGED <<on, act, turn, got, nat, journal, loaded, native, turns, creates, running, turnID,
  steering, sent, stops, closes, teardown, toClose>>
  BY DEF TurnReturn
<1>3. Others(c)
  BY <1>1 DEF TurnReturn, CallTypes, Others, Same
<1>4. /\ pc[c] = "native"
      /\ ans'[c] = a /\ pc'[c] = "settle"
  BY <1>1 DEF TurnReturn, CallTypes
<1>5. KeepsNatives
  BY <1>2 DEF KeepsNatives
<1> QED
  BY <1>2, <1>3, <1>4, <1>5

\* What Settle does.
LEMMA SettleEffect ==
  ASSUME IInv, NEW c \in Callers, Settle(c)
  PROVE  /\ pc[c] = "settle" /\ Others(c) /\ KeepsNatives
         /\ pc'[c] = "finish"
         /\ ~steering[on[c]] /\ running' = [running EXCEPT ![on[c]] = FALSE]
         /\ UNCHANGED <<on, act, turn, ans, got, nat, journal, loaded, native, turns, creates,
           turnID, steering, sent, stops, closes, teardown, toClose>>
<1>1. CallTypes /\ SessionTypes
  BY DEF IInv, TypeOK
<1>2. UNCHANGED <<on, act, turn, ans, got, nat, journal, loaded, native, turns, creates, turnID,
  steering, sent, stops, closes, teardown, toClose>>
  BY DEF Settle
<1>3. Others(c)
  BY <1>1 DEF Settle, CallTypes, Others, Same
<1>4. /\ pc[c] = "settle"
      /\ pc'[c] = "finish"
      /\ ~steering[on[c]] /\ running' = [running EXCEPT ![on[c]] = FALSE]
  BY <1>1 DEF Settle, CallTypes
<1>5. KeepsNatives
  BY <1>2 DEF KeepsNatives
<1> QED
  BY <1>2, <1>3, <1>4, <1>5

\* What TurnFinish does.
LEMMA TurnFinishEffect ==
  ASSUME IInv, NEW c \in Callers, NEW ok \in BOOLEAN, TurnFinish(c, ok)
  PROVE  /\ pc[c] = "finish" /\ Others(c) /\ KeepsNatives
         /\ pc'[c] = "return"
         /\ UNCHANGED <<on, act, turn, ans, got, nat, loaded, native, turns, creates, running,
           turnID, steering, sent, stops, closes, teardown, toClose>>
<1>1. CallTypes /\ SessionTypes
  BY DEF IInv, TypeOK
<1>2. UNCHANGED <<on, act, turn, ans, got, nat, loaded, native, turns, creates, running, turnID,
  steering, sent, stops, closes, teardown, toClose>>
  BY DEF TurnFinish
<1>3. Others(c)
  BY <1>1 DEF TurnFinish, CallTypes, Others, Same
<1>4. /\ pc[c] = "finish"
      /\ pc'[c] = "return"
  BY <1>1 DEF TurnFinish, CallTypes
<1>5. KeepsNatives
  BY <1>2 DEF KeepsNatives
<1> QED
  BY <1>2, <1>3, <1>4, <1>5

\* What EndTurn does.
LEMMA EndTurnEffect ==
  ASSUME IInv, NEW c \in Callers, EndTurn(c)
  PROVE  /\ pc[c] = "return" /\ Others(c) /\ KeepsNatives
         /\ pc'[c] \in {"turn", "idle"}
         /\ ~steering[on[c]] /\ running' = [running EXCEPT ![on[c]] = FALSE]
         /\ turnID' = [turnID EXCEPT ![on[c]] = 0]
         /\ UNCHANGED <<on, act, turn, ans, got, nat, journal, loaded, native, turns, creates,
           steering, sent, stops, closes, teardown, toClose>>
<1>1. CallTypes /\ SessionTypes
  BY DEF IInv, TypeOK
<1>2. UNCHANGED <<on, act, turn, ans, got, nat, journal, loaded, native, turns, creates, steering,
  sent, stops, closes, teardown, toClose>>
  BY DEF EndTurn, Returns
<1>3. Others(c)
  BY <1>1 DEF EndTurn, Returns, CallTypes, Others, Same
<1>4. /\ pc[c] = "return"
      /\ pc'[c] \in {"turn", "idle"}
      /\ ~steering[on[c]] /\ running' = [running EXCEPT ![on[c]] = FALSE]
      /\ turnID' = [turnID EXCEPT ![on[c]] = 0]
  BY <1>1 DEF EndTurn, Returns, CallTypes
<1>5. KeepsNatives
  BY <1>2 DEF KeepsNatives
<1> QED
  BY <1>2, <1>3, <1>4, <1>5

-----------------------------------------------------------------------------
(* The calls *)

\* A step of one caller leaves what the others' places say.
LEMMA OthersCall ==
  ASSUME IInv, NEW c \in Callers, Others(c), KeepsNatives, CallOK(c)'
  PROVE  CallInv'
<1> SUFFICES ASSUME NEW d \in Callers, d # c PROVE CallOK(d)'
  BY DEF CallInv
<1>1. CallOK(d) /\ Same(d)
  BY DEF IInv, CallInv, Others
<1>2. pc[d] = "bind" => on[d] \in Sessions
  BY <1>1 DEF CallOK
<1>3. Turning(d)' <=> Turning(d)
  BY <1>1 DEF Same, Turning, IsFork
<1> QED
  BY <1>1, <1>2, <1>3 DEF CallOK, Same, KeepsNatives

\* A caller's place keeps saying what it is at.
LEMMA StepCallInv == IInv /\ [Next]_vars => CallInv'
<1> SUFFICES ASSUME IInv, [Next]_vars PROVE CallInv'
  OBVIOUS
<1> DEFINE Rest == UNCHANGED vars \/ (\E c \in Callers : CancelTurn(c)) \/ (\E s \in Sessions :
  Steer(s) \/ SteerEnd(s)) \/ Cancel \/ JournalFails \/ BodyReturn \/ EndScope \/ CloseMark \/
  CloseStop \/ Stopped \/ (\E ok \in BOOLEAN : CloseEvent(ok) \/ RunEnds(ok))
<1>1. ASSUME Rest PROVE UNCHANGED <<pc, on, act, turn, ans, got, native, nat>>
  BY <1>1 DEF CancelTurn, Steer, SteerEnd, Cancel, JournalFails, BodyReturn, EndScope, CloseMark,
    CloseStop, StopNative, Stopped, vars, CloseEvent, RunEnds
<1>0. CallTypes /\ SessionTypes /\ CallInv
  BY DEF IInv, TypeOK
<1>2. ASSUME NEW c \in Callers, NewSession(c) PROVE CallInv'
  <2>1. Main \in Sessions
    BY DEF Sessions
  <2>8. CallOK(c)'
    BY <1>2, <1>0, NewSessionEffect, <2>1 DEF CallInv, CallOK, Opening, OpenPlaces, TurnPlaces,
      Turning, IsFork
  <2> QED
    BY <1>2, <2>8, NewSessionEffect, OthersCall
<1>3. ASSUME NEW c \in Callers, Adopt(c) PROVE CallInv'
  <2>8. CallOK(c)'
    BY <1>3, <1>0, AdoptEffect DEF CallInv, CallOK, Opening, OpenPlaces, TurnPlaces, Turning, IsFork
  <2> QED
    BY <1>3, <2>8, AdoptEffect, OthersCall
<1>4. ASSUME NEW c \in Callers, Restore(c) PROVE CallInv'
  <2>8. CallOK(c)'
    BY <1>4, <1>0, RestoreEffect DEF CallInv, CallOK, Opening, OpenPlaces, TurnPlaces, Turning, IsFork
  <2> QED
    BY <1>4, <2>8, RestoreEffect, OthersCall
<1>5. ASSUME NEW c \in Callers, OpenAdmit(c) PROVE CallInv'
  <2>8. CallOK(c)'
    BY <1>5, <1>0, OpenAdmitEffect DEF CallInv, CallOK, Opening, OpenPlaces, TurnPlaces, Turning,
      IsFork, OpenFailed
  <2> QED
    BY <1>5, <2>8, OpenAdmitEffect, OthersCall
<1>6. ASSUME NEW c \in Callers, OpenSend(c) PROVE CallInv'
  <2>8. CallOK(c)'
    BY <1>6, <1>0, OpenSendEffect DEF CallInv, CallOK, Opening, OpenPlaces, TurnPlaces, Turning, IsFork
  <2> QED
    BY <1>6, <2>8, OpenSendEffect, OthersCall
<1>7. ASSUME NEW c \in Callers, AdoptNative(c) PROVE CallInv'
  <2>1. on[c] \in Sessions
    BY <1>7, InCall DEF AdoptNative
  <2>2. got[c] # NoNative => native'[on[c]] # NoNative
    BY <1>7, <1>0, <2>1, AdoptNativeEffect DEF SessionTypes
  <2>8. CallOK(c)'
    BY <1>7, <1>0, AdoptNativeEffect, <2>1, <2>2 DEF CallInv, CallOK, Opening, OpenPlaces, TurnPlaces,
      Turning, IsFork
  <2> QED
    BY <1>7, <2>8, AdoptNativeEffect, OthersCall
<1>8. ASSUME NEW c \in Callers, StopLate(c) PROVE CallInv'
  <2>8. CallOK(c)'
    BY <1>8, <1>0, StopLateEffect DEF CallInv, CallOK, Opening, OpenPlaces, TurnPlaces, Turning,
      IsFork, OpenFailed
  <2> QED
    BY <1>8, <2>8, StopLateEffect, OthersCall
<1>9. ASSUME NEW c \in Callers, TurnRefused(c) PROVE CallInv'
  <2>8. CallOK(c)'
    BY <1>9, <1>0, TurnRefusedEffect DEF CallInv, CallOK, Opening, OpenPlaces, TurnPlaces, Turning,
      IsFork
  <2> QED
    BY <1>9, <2>8, TurnRefusedEffect, OthersCall
<1>10. ASSUME NEW c \in Callers, StartTurn(c) PROVE CallInv'
  <2>1. on[c] \in Sessions
    BY <1>10, InCall DEF StartTurn
  <2>2. TurnNode(on[c], gen[c], turns[on[c]] + 1)[1] = on[c] /\ TurnNode(on[c], gen[c], turns[on[c]] + 1)[2] = "turn"
    BY DEF TurnNode
  <2>8. CallOK(c)'
    BY <1>10, <1>0, StartTurnEffect, <2>1, <2>2 DEF CallInv, CallOK, Opening, OpenPlaces, TurnPlaces,
      Turning, IsFork
  <2> QED
    BY <1>10, <2>8, StartTurnEffect, OthersCall
<1>11. ASSUME NEW c \in Callers, TurnAdmit(c) PROVE CallInv'
  <2>8. CallOK(c)'
    BY <1>11, <1>0, TurnAdmitEffect DEF CallInv, CallOK, Opening, OpenPlaces, TurnPlaces, Turning,
      IsFork, AllAnswers
  <2> QED
    BY <1>11, <2>8, TurnAdmitEffect, OthersCall
<1>12. ASSUME NEW c \in Callers, TurnSend(c) PROVE CallInv'
  <2>8. CallOK(c)'
    BY <1>12, <1>0, TurnSendEffect DEF CallInv, CallOK, Opening, OpenPlaces, TurnPlaces, Turning, IsFork
  <2> QED
    BY <1>12, <2>8, TurnSendEffect, OthersCall
<1>13. ASSUME NEW c \in Callers, Settle(c) PROVE CallInv'
  <2>8. CallOK(c)'
    BY <1>13, <1>0, SettleEffect DEF CallInv, CallOK, Opening, OpenPlaces, TurnPlaces, Turning, IsFork
  <2> QED
    BY <1>13, <2>8, SettleEffect, OthersCall
<1>14. ASSUME NEW c \in Callers, EndTurn(c) PROVE CallInv'
  <2>8. CallOK(c)'
    BY <1>14, <1>0, EndTurnEffect DEF CallInv, CallOK, Opening, OpenPlaces, TurnPlaces, Turning, IsFork
  <2> QED
    BY <1>14, <2>8, EndTurnEffect, OthersCall
<1>15. ASSUME NEW c \in Callers, NEW ok \in BOOLEAN, ForkIntent(c, ok) PROVE CallInv'
  <2>1. on[c] \in Sessions /\ ForkNode(on[c])[1] = on[c] /\ ForkNode(on[c])[2] = "fork"
    BY <1>15, InCall, OtherNodes DEF ForkIntent
  <2>8. CallOK(c)'
    BY <1>15, <1>0, ForkIntentEffect, <2>1 DEF CallInv, CallOK, Opening, OpenPlaces, TurnPlaces,
      Turning, IsFork
  <2> QED
    BY <1>15, <2>8, ForkIntentEffect, OthersCall
<1>16. ASSUME NEW c \in Callers, NEW ok \in BOOLEAN, Create(c, ok) PROVE CallInv'
  <2>1. on[c] \in Sessions
    BY <1>16, InCall DEF Create
  <2>2. CreateNode(on[c], creates[on[c]] + 1) \in Nodes
    BY <1>0, <2>1 DEF SessionTypes, CreateNode, Nodes
  <2>3. CreateNode(on[c], creates[on[c]] + 1)[1] = on[c] /\ CreateNode(on[c], creates[on[c]] + 1)[2] = "create"
    BY DEF CreateNode
  <2>4. pc'[c] = "adoptNative" => got'[c] # NoNative
    BY <1>16, <2>2, <2>3, CreateEffect, SavedNativeKnown
  <2>8. CallOK(c)'
    BY <1>16, <1>0, CreateEffect, <2>1, <2>2, <2>3, <2>4 DEF CallInv, CallOK, Opening, OpenPlaces,
      TurnPlaces, Turning, IsFork
  <2> QED
    BY <1>16, <2>8, CreateEffect, OthersCall
<1>17. ASSUME NEW c \in Callers, NEW ok \in BOOLEAN, OpenFinish(c, ok) PROVE CallInv'
  <2>8. CallOK(c)'
    BY <1>17, <1>0, OpenFinishEffect DEF CallInv, CallOK, Opening, OpenPlaces, TurnPlaces, Turning,
      IsFork
  <2> QED
    BY <1>17, <2>8, OpenFinishEffect, OthersCall
<1>18. ASSUME NEW c \in Callers, NEW ok \in BOOLEAN, Bind(c, ok) PROVE CallInv'
  <2>8. CallOK(c)'
    BY <1>18, <1>0, BindEffect DEF CallInv, CallOK, Opening, OpenPlaces, TurnPlaces, Turning, IsFork,
      OpenFailed
  <2> QED
    BY <1>18, <2>8, BindEffect, OthersCall
<1>19. ASSUME NEW c \in Callers, NEW ok \in BOOLEAN, TurnIntent(c, ok) PROVE CallInv'
  <2>8. CallOK(c)'
    BY <1>19, <1>0, TurnIntentEffect DEF CallInv, CallOK, Opening, OpenPlaces, TurnPlaces, Turning,
      IsFork, AllAnswers
  <2> QED
    BY <1>19, <2>8, TurnIntentEffect, OthersCall
<1>20. ASSUME NEW c \in Callers, NEW ok \in BOOLEAN, TurnFinish(c, ok) PROVE CallInv'
  <2>8. CallOK(c)'
    BY <1>20, <1>0, TurnFinishEffect DEF CallInv, CallOK, Opening, OpenPlaces, TurnPlaces, Turning,
      IsFork
  <2> QED
    BY <1>20, <2>8, TurnFinishEffect, OthersCall
<1>21. ASSUME NEW c \in Callers, NEW a \in CreateAnswers, NEW id \in {NoNative, Len(closes) + 1},
  OpenReturn(c, a, id)
  PROVE CallInv'
  <2>8. CallOK(c)'
    BY <1>21, <1>0, OpenReturnEffect, AnswersAreKnown DEF CallInv, CallOK, Opening, OpenPlaces,
      TurnPlaces, Turning, IsFork, AllCreateAnswers
  <2> QED
    BY <1>21, <2>8, OpenReturnEffect, OthersCall
<1>22. ASSUME NEW c \in Callers, NEW a \in AllAnswers, TurnReturn(c, a) PROVE CallInv'
  <2>8. CallOK(c)'
    BY <1>22, <1>0, TurnReturnEffect DEF CallInv, CallOK, Opening, OpenPlaces, TurnPlaces, Turning,
      IsFork
  <2> QED
    BY <1>22, <2>8, TurnReturnEffect, OthersCall
<1>23. ASSUME NEW c \in Callers, NEW b \in Branches, Fork(c, b) PROVE CallInv'
  <2>1. b \in Sessions
    BY DEF Sessions
  <2>8. CallOK(c)'
    BY <1>23, <1>0, ForkEffect, <2>1 DEF CallInv, CallOK, Opening, OpenPlaces, TurnPlaces, Turning,
      IsFork
  <2> QED
    BY <1>23, <2>8, ForkEffect, OthersCall
<1>24. ASSUME NEW c \in Callers, NEW s \in Sessions, Generate(c, s) PROVE CallInv'
  <2>8. CallOK(c)'
    BY <1>24, <1>0, GenerateEffect DEF CallInv, CallOK, Opening, OpenPlaces, TurnPlaces, Turning, IsFork
  <2> QED
    BY <1>24, <2>8, GenerateEffect, OthersCall
<1>25. ASSUME Reenter PROVE CallInv'
  BY <1>25 DEF Reenter, All, CallInv, CallOK, Opening, OpenPlaces, TurnPlaces, Turning
<1>26. CASE Rest
  <2>1. UNCHANGED <<pc, on, act, turn, ans, got, native, nat>>
    BY <1>1, <1>26
  <2> QED
    BY <1>0, <2>1 DEF IInv, CallInv, CallOK, Turning, IsFork
<1> QED
  BY <1>2, <1>3, <1>4, <1>5, <1>6, <1>7, <1>8, <1>9, <1>10, <1>11, <1>12, <1>13, <1>14, <1>15,
    <1>16, <1>17, <1>18, <1>19, <1>20, <1>21, <1>22, <1>23, <1>24, <1>25, <1>26 DEF Next,
    CallerStep, OpenStep, TurnStep, BodyCall, ScopeStep

\* Teardown still has the session it stops.
LEMMA StepCloseInv == IInv /\ [Next]_vars => CloseInv'
<1> SUFFICES ASSUME IInv, [Next]_vars PROVE CloseInv'
  OBVIOUS
<1> DEFINE Rest == UNCHANGED vars \/ (\E c \in Callers : NewSession(c) \/ Adopt(c) \/ Restore(c) \/
  OpenAdmit(c) \/ OpenSend(c) \/ AdoptNative(c) \/ StopLate(c) \/ TurnRefused(c) \/ StartTurn(c) \/
  TurnAdmit(c) \/ TurnSend(c) \/ Settle(c) \/ EndTurn(c) \/ CancelTurn(c)) \/ (\E c \in Callers, ok
  \in BOOLEAN : ForkIntent(c, ok) \/ Create(c, ok) \/ OpenFinish(c, ok) \/ Bind(c, ok) \/
  TurnIntent(c, ok) \/ TurnFinish(c, ok)) \/ (\E c \in Callers, a \in CreateAnswers, id \in
  {NoNative, Len(closes) + 1} : OpenReturn(c, a, id)) \/ (\E c \in Callers, a \in AllAnswers :
  TurnReturn(c, a)) \/ (\E c \in Callers, b \in Branches : Fork(c, b)) \/ (\E c \in Callers, s \in
  Sessions : Generate(c, s)) \/ (\E s \in Sessions : Steer(s) \/ SteerEnd(s)) \/ Cancel \/
  JournalFails \/ BodyReturn \/ Stopped \/ (\E ok \in BOOLEAN : RunEnds(ok))
<1>1. ASSUME Rest PROVE UNCHANGED <<teardown, toClose>>
  <2>1. ASSUME NEW c \in Callers, NewSession(c) \/ Adopt(c) \/ Restore(c) \/ OpenAdmit(c) \/
    OpenSend(c) \/ AdoptNative(c) \/ StopLate(c) \/ TurnRefused(c)
    PROVE UNCHANGED <<teardown, toClose>>
    BY <2>1 DEF NewSession, Adopt, Restore, OpenAdmit, OpenFailed, LoseFork, IsFork, OpenSend,
      AdoptNative, StopLate, NoteCreateError, StopNative, TurnRefused, Returns, Refusal
  <2>2. ASSUME NEW c \in Callers, StartTurn(c) \/ TurnAdmit(c) \/ TurnSend(c) \/ Settle(c) \/
    EndTurn(c) \/ CancelTurn(c)
    PROVE UNCHANGED <<teardown, toClose>>
    BY <2>2 DEF StartTurn, Refusal, TurnAdmit, TurnSend, Settle, EndTurn, Returns, CancelTurn
  <2>3. ASSUME NEW c \in Callers, NEW ok \in BOOLEAN, ForkIntent(c, ok) \/ Create(c, ok) \/
    OpenFinish(c, ok) \/ Bind(c, ok) \/ TurnIntent(c, ok) \/ TurnFinish(c, ok)
    PROVE UNCHANGED <<teardown, toClose>>
    BY <2>3 DEF ForkIntent, Create, OpenFinish, Bind, OpenFailed, IsFork, NoteCreateError,
      TurnIntent, TurnFinish
  <2>4. ASSUME NEW c \in Callers, NEW a \in CreateAnswers, NEW id \in {NoNative, Len(closes) + 1},
    OpenReturn(c, a, id)
    PROVE UNCHANGED <<teardown, toClose>>
    BY <2>4 DEF OpenReturn
  <2>5. ASSUME NEW c \in Callers, NEW a \in AllAnswers, TurnReturn(c, a)
    PROVE UNCHANGED <<teardown, toClose>>
    BY <2>5 DEF TurnReturn
  <2>6. ASSUME NEW c \in Callers, NEW b \in Branches, Fork(c, b)
    PROVE UNCHANGED <<teardown, toClose>>
    BY <2>6 DEF Fork
  <2>7. ASSUME NEW c \in Callers, NEW s \in Sessions, Generate(c, s)
    PROVE UNCHANGED <<teardown, toClose>>
    BY <2>7 DEF Generate
  <2>8. ASSUME NEW s \in Sessions, Steer(s) \/ SteerEnd(s) PROVE UNCHANGED <<teardown, toClose>>
    BY <2>8 DEF Steer, SteerEnd
  <2>9. ASSUME Cancel \/ JournalFails \/ BodyReturn \/ Stopped PROVE UNCHANGED <<teardown, toClose>>
    BY <2>9 DEF Cancel, JournalFails, BodyReturn, Stopped, vars
  <2>10. ASSUME NEW ok \in BOOLEAN, RunEnds(ok) PROVE UNCHANGED <<teardown, toClose>>
    BY <2>10 DEF RunEnds
  <2> QED
    BY <1>1, <2>1, <2>2, <2>3, <2>4, <2>5, <2>6, <2>7, <2>8, <2>9, <2>10 DEF vars
<1> USE DEF IInv, CloseInv
<1>2. ASSUME EndScope PROVE CloseInv'
  BY <1>2 DEF EndScope
<1>3. ASSUME CloseMark PROVE CloseInv'
  BY <1>3 DEF CloseMark
<1>4. ASSUME CloseStop PROVE CloseInv'
  BY <1>4 DEF CloseStop, StopNative
<1>5. ASSUME NEW ok \in BOOLEAN, CloseEvent(ok) PROVE CloseInv'
  BY <1>5 DEF CloseEvent
<1>6. ASSUME Reenter PROVE CloseInv'
  BY <1>6 DEF Reenter, All
<1>7. CASE Rest
  <2>1. UNCHANGED <<teardown, toClose>>
    BY <1>1, <1>7
  <2> QED
    BY <2>1
<1> QED
  BY <1>2, <1>3, <1>4, <1>5, <1>6, <1>7 DEF Next, CallerStep, OpenStep, TurnStep, BodyCall,
    ScopeStep

\* A fact that names a native session the adapter made keeps the journal so.
LEMMA WritesKnown ==
  ASSUME IInv, NEW f, Writes(f), Known(f), closes' \in Seq(Nat), Len(closes) <= Len(closes')
  PROVE  JournalInv'
<1>1. StoreTypes /\ WorldTypes /\ JournalInv
  BY DEF IInv, TypeOK
<1> SUFFICES ASSUME NEW i \in 1..Len(journal') PROVE Known(journal[i])'
  BY DEF JournalInv, Places
<1>2. CASE i \in Places
  <2>1. journal'[i] = journal[i] /\ Known(journal[i]) /\ journal[i] \in Facts
    BY <1>1, <1>2 DEF Writes, JournalInv, StoreTypes, Places
  <2>2. journal[i].native \in Nat
    BY <2>1 DEF Facts
  <2> QED
    BY <1>1, <2>1, <2>2 DEF Known, WorldTypes
<1>3. CASE i \notin Places
  <2>1. journal'[i] = f /\ f \in Facts
    BY <1>1, <1>3 DEF Writes, Places, StoreTypes
  <2>2. f.native \in Nat
    BY <2>1 DEF Facts
  <2> QED
    BY <1>1, <2>1, <2>2 DEF Known, WorldTypes
<1> QED
  BY <1>2, <1>3

\* The journal knows native sessions that exist.
LEMMA StepJournalInv == IInv /\ [Next]_vars => JournalInv'
<1> SUFFICES ASSUME IInv, [Next]_vars PROVE JournalInv'
  OBVIOUS
<1> DEFINE Rest == UNCHANGED vars \/ (\E c \in Callers : NewSession(c) \/ Adopt(c) \/ Restore(c) \/
  OpenAdmit(c) \/ OpenSend(c) \/ AdoptNative(c) \/ TurnRefused(c) \/ StartTurn(c) \/ TurnAdmit(c) \/
  TurnSend(c) \/ Settle(c) \/ EndTurn(c) \/ CancelTurn(c)) \/ (\E c \in Callers, a \in AllAnswers :
  TurnReturn(c, a)) \/ (\E c \in Callers, b \in Branches : Fork(c, b)) \/ (\E c \in Callers, s \in
  Sessions : Generate(c, s)) \/ (\E s \in Sessions : Steer(s) \/ SteerEnd(s)) \/ Cancel \/
  JournalFails \/ BodyReturn \/ EndScope \/ CloseMark \/ Stopped
<1>1. ASSUME Rest PROVE UNCHANGED <<journal, closes>>
  <2>1. ASSUME NEW c \in Callers, NewSession(c) \/ Adopt(c) \/ Restore(c) \/ OpenAdmit(c) \/
    OpenSend(c) \/ AdoptNative(c) \/ TurnRefused(c) \/ StartTurn(c)
    PROVE UNCHANGED <<journal, closes>>
    BY <2>1 DEF NewSession, Adopt, Restore, OpenAdmit, OpenFailed, LoseFork, IsFork, OpenSend,
      AdoptNative, TurnRefused, Returns, Refusal, StartTurn
  <2>2. ASSUME NEW c \in Callers, TurnAdmit(c) \/ TurnSend(c) \/ Settle(c) \/ EndTurn(c) \/
    CancelTurn(c)
    PROVE UNCHANGED <<journal, closes>>
    BY <2>2 DEF TurnAdmit, TurnSend, Settle, EndTurn, Returns, CancelTurn
  <2>3. ASSUME NEW c \in Callers, NEW a \in AllAnswers, TurnReturn(c, a)
    PROVE UNCHANGED <<journal, closes>>
    BY <2>3 DEF TurnReturn
  <2>4. ASSUME NEW c \in Callers, NEW b \in Branches, Fork(c, b) PROVE UNCHANGED <<journal, closes>>
    BY <2>4 DEF Fork
  <2>5. ASSUME NEW c \in Callers, NEW s \in Sessions, Generate(c, s)
    PROVE UNCHANGED <<journal, closes>>
    BY <2>5 DEF Generate
  <2>6. ASSUME NEW s \in Sessions, Steer(s) \/ SteerEnd(s) PROVE UNCHANGED <<journal, closes>>
    BY <2>6 DEF Steer, SteerEnd
  <2>7. ASSUME Cancel \/ JournalFails \/ BodyReturn \/ EndScope \/ CloseMark \/ Stopped
    PROVE UNCHANGED <<journal, closes>>
    BY <2>7 DEF Cancel, JournalFails, BodyReturn, EndScope, CloseMark, Stopped, vars
  <2> QED
    BY <1>1, <2>1, <2>2, <2>3, <2>4, <2>5, <2>6, <2>7 DEF vars
<1>0. CallTypes /\ WorldTypes /\ StoreTypes /\ CallInv /\ JournalInv
  BY DEF IInv, TypeOK
<1>2. ASSUME NEW c \in Callers, StopLate(c) PROVE JournalInv'
  <2>1. UNCHANGED journal
    BY <1>2 DEF StopLate, OpenFailed, LoseFork, NoteCreateError, StopNative, IsFork
  <2>2. \A i \in Places : journal[i].native \in Nat
    BY <1>0, PlaceFacts
  <2> QED
    BY <1>0, <2>1, <2>2, NativesStay DEF JournalInv, Known, Places, WorldTypes
<1>3. ASSUME NEW c \in Callers, NEW ok \in BOOLEAN, ForkIntent(c, ok) PROVE JournalInv'
  <2>1. Known(Fact(ForkNode(on[c]), "intent", "none", NoNative))
    BY <1>3, <1>0 DEF Known, Fact, NoNative, WorldTypes
  <2> QED
    BY <1>3, <2>1, ForkIntentWrites, WritesKnown, NativesStay
<1>4. ASSUME NEW c \in Callers, NEW ok \in BOOLEAN, Create(c, ok) PROVE JournalInv'
  <2>1. Known(Fact(CreateNode(on[c], creates[on[c]] + 1), "intent", "none", NoNative))
    BY <1>4, <1>0 DEF Known, Fact, NoNative, WorldTypes
  <2> QED
    BY <1>4, <2>1, CreateWrites, WritesKnown, NativesStay
<1>5. ASSUME NEW c \in Callers, NEW ok \in BOOLEAN, OpenFinish(c, ok) PROVE JournalInv'
  <2>1. got[c] \in 0..Len(closes) /\ (ans[c] = "valid" => got[c] # NoNative)
    BY <1>5, <1>0 DEF OpenFinish, CallTypes, CallInv, CallOK
  <2>2. Known(Outcome(act[c], ans[c], got[c]))
    BY <1>0, <2>1 DEF Known, Outcome, Fact, WorldTypes
  <2> QED
    BY <1>5, <2>2, OpenFinishWrites, WritesKnown, NativesStay
<1>6. ASSUME NEW c \in Callers, NEW ok \in BOOLEAN, Bind(c, ok) PROVE JournalInv'
  <2>1. Known(Fact(act[c], "native-binding", "none", got[c]))
    BY <1>6, <1>0 DEF Known, Fact, NoNative, CallTypes, WorldTypes
  <2> QED
    BY <1>6, <2>1, BindWrites, WritesKnown, NativesStay
<1>7. ASSUME NEW c \in Callers, NEW ok \in BOOLEAN, TurnIntent(c, ok) PROVE JournalInv'
  <2>1. Known(Fact(turn[c], "intent", "none", NoNative))
    BY <1>7, <1>0 DEF Known, Fact, NoNative, WorldTypes
  <2> QED
    BY <1>7, <2>1, TurnIntentWrites, WritesKnown, NativesStay
<1>8. ASSUME NEW c \in Callers, NEW ok \in BOOLEAN, TurnFinish(c, ok) PROVE JournalInv'
  <2>1. turn[c][2] = "turn"
    BY <1>8, <1>0 DEF TurnFinish, CallInv, CallOK, Turning, TurnPlaces
  <2>2. Known(Outcome(turn[c], ans[c], NoNative))
    BY <1>0, <2>1 DEF Known, Outcome, Fact, WorldTypes, NoNative
  <2> QED
    BY <1>8, <2>2, TurnFinishWrites, WritesKnown, NativesStay
<1>9. ASSUME NEW c \in Callers, NEW a \in CreateAnswers, NEW id \in {NoNative, Len(closes) + 1},
  OpenReturn(c, a, id)
  PROVE JournalInv'
  <2>1. UNCHANGED journal
    BY <1>9 DEF OpenReturn
  <2>2. \A i \in Places : journal[i].native \in Nat
    BY <1>0, PlaceFacts
  <2> QED
    BY <1>0, <2>1, <2>2, NativesStay DEF JournalInv, Known, Places, WorldTypes
<1>10. ASSUME CloseStop PROVE JournalInv'
  <2>1. UNCHANGED journal
    BY <1>10 DEF CloseStop, StopNative
  <2>2. \A i \in Places : journal[i].native \in Nat
    BY <1>0, PlaceFacts
  <2> QED
    BY <1>0, <2>1, <2>2, NativesStay DEF JournalInv, Known, Places, WorldTypes
<1>11. ASSUME NEW ok \in BOOLEAN, CloseEvent(ok) PROVE JournalInv'
  <2>1. Known(Fact(SessionNode(Head(toClose)), "closed", "none", NoNative))
    BY <1>11, <1>0 DEF Known, Fact, NoNative, WorldTypes
  <2> QED
    BY <1>11, <2>1, CloseEventWrites, WritesKnown, NativesStay
<1>12. ASSUME NEW ok \in BOOLEAN, RunEnds(ok) PROVE JournalInv'
  <2>1. Known(Fact(RunNode, "ended", "none", NoNative))
    BY <1>12, <1>0 DEF Known, Fact, NoNative, WorldTypes
  <2> QED
    BY <1>12, <2>1, RunEndsWrites, WritesKnown, NativesStay
<1>13. ASSUME Reenter PROVE JournalInv'
  <2>1. UNCHANGED journal
    BY <1>13 DEF Reenter, All
  <2>2. \A i \in Places : journal[i].native \in Nat
    BY <1>0, PlaceFacts
  <2> QED
    BY <1>0, <2>1, <2>2, NativesStay DEF JournalInv, Known, Places, WorldTypes
<1>14. CASE Rest
  <2>1. UNCHANGED <<journal, closes>>
    BY <1>1, <1>14
  <2> QED
    BY <1>0, <2>1 DEF IInv, JournalInv, Known, Places
<1> QED
  BY <1>2, <1>3, <1>4, <1>5, <1>6, <1>7, <1>8, <1>9, <1>10, <1>11, <1>12, <1>13, <1>14 DEF Next,
    CallerStep, OpenStep, TurnStep, BodyCall, ScopeStep

-----------------------------------------------------------------------------
(* Intents *)

\* An intent stays in the journal.
LEMMA IntentsStay ==
  ASSUME StoreTypes, Grows, NEW n, Intended(n)
  PROVE  NextIntended(n)
BY DEF StoreTypes, Grows, Intended, NextIntended, Places

\* A step of one caller leaves the others their intents.
LEMMA OthersIntent ==
  ASSUME IInv, [Next]_vars, NEW c \in Callers, Others(c), IntentOK(c)'
  PROVE  IntentInv'
<1> SUFFICES ASSUME NEW d \in Callers, d # c PROVE IntentOK(d)'
  BY DEF IntentInv
<1>1. IntentOK(d) /\ Same(d) /\ StoreTypes
  BY DEF IInv, TypeOK, IntentInv, Others
<1>2. /\ Intended(act[d]) => NextIntended(act[d])
      /\ Intended(turn[d]) => NextIntended(turn[d])
  BY <1>1, JournalGrows, IntentsStay
<1> QED
  BY <1>1, <1>2 DEF IntentOK, Same, Intended, NextIntended, Places

\* The intent of a call is there before it.
LEMMA StepIntents == IInv /\ [Next]_vars => IntentInv'
<1> SUFFICES ASSUME IInv, [Next]_vars PROVE IntentInv'
  OBVIOUS
<1> DEFINE Rest == UNCHANGED vars \/ (\E c \in Callers : CancelTurn(c)) \/ (\E s \in Sessions :
  Steer(s) \/ SteerEnd(s)) \/ Cancel \/ JournalFails \/ BodyReturn \/ EndScope \/ CloseMark \/
  CloseStop \/ Stopped \/ (\E ok \in BOOLEAN : CloseEvent(ok) \/ RunEnds(ok))
<1>1. ASSUME Rest PROVE UNCHANGED <<pc, act, turn>>
  BY <1>1 DEF CancelTurn, Steer, SteerEnd, Cancel, JournalFails, BodyReturn, EndScope, CloseMark,
    CloseStop, StopNative, Stopped, vars, CloseEvent, RunEnds
<1>0. StoreTypes /\ IntentInv
  BY DEF IInv, TypeOK
<1>00. \A n : Intended(n) => NextIntended(n)
  BY <1>0, JournalGrows, IntentsStay
<1>2. ASSUME NEW c \in Callers, NewSession(c) PROVE IntentInv'
  <2>8. IntentOK(c)'
    BY <1>2, NewSessionEffect DEF IntentOK, Intended, NextIntended, Places, OpenFailed
  <2> QED
    BY <1>2, <2>8, NewSessionEffect, OthersIntent
<1>3. ASSUME NEW c \in Callers, Adopt(c) PROVE IntentInv'
  <2>8. IntentOK(c)'
    BY <1>3, AdoptEffect DEF IntentOK, Intended, NextIntended, Places, OpenFailed
  <2> QED
    BY <1>3, <2>8, AdoptEffect, OthersIntent
<1>4. ASSUME NEW c \in Callers, Restore(c) PROVE IntentInv'
  <2>8. IntentOK(c)'
    BY <1>4, RestoreEffect DEF IntentOK, Intended, NextIntended, Places, OpenFailed
  <2> QED
    BY <1>4, <2>8, RestoreEffect, OthersIntent
<1>5. ASSUME NEW c \in Callers, OpenAdmit(c) PROVE IntentInv'
  <2>1. IntentOK(c) /\ pc[c] = "admit" /\ NextIntended(act[c])
    BY <1>5, <1>0, OpenAdmitEffect, JournalGrows, IntentsStay DEF IntentInv, IntentOK
  <2>8. IntentOK(c)'
    BY <1>5, OpenAdmitEffect, <2>1 DEF IntentOK, Intended, NextIntended, Places, OpenFailed
  <2> QED
    BY <1>5, <2>8, OpenAdmitEffect, OthersIntent
<1>6. ASSUME NEW c \in Callers, OpenSend(c) PROVE IntentInv'
  <2>8. IntentOK(c)'
    BY <1>6, OpenSendEffect DEF IntentOK, Intended, NextIntended, Places, OpenFailed
  <2> QED
    BY <1>6, <2>8, OpenSendEffect, OthersIntent
<1>7. ASSUME NEW c \in Callers, AdoptNative(c) PROVE IntentInv'
  <2>8. IntentOK(c)'
    BY <1>7, AdoptNativeEffect DEF IntentOK, Intended, NextIntended, Places, OpenFailed
  <2> QED
    BY <1>7, <2>8, AdoptNativeEffect, OthersIntent
<1>8. ASSUME NEW c \in Callers, StopLate(c) PROVE IntentInv'
  <2>8. IntentOK(c)'
    BY <1>8, StopLateEffect DEF IntentOK, Intended, NextIntended, Places, OpenFailed
  <2> QED
    BY <1>8, <2>8, StopLateEffect, OthersIntent
<1>9. ASSUME NEW c \in Callers, TurnRefused(c) PROVE IntentInv'
  <2>8. IntentOK(c)'
    BY <1>9, TurnRefusedEffect DEF IntentOK, Intended, NextIntended, Places, OpenFailed
  <2> QED
    BY <1>9, <2>8, TurnRefusedEffect, OthersIntent
<1>10. ASSUME NEW c \in Callers, StartTurn(c) PROVE IntentInv'
  <2>8. IntentOK(c)'
    BY <1>10, StartTurnEffect DEF IntentOK, Intended, NextIntended, Places, OpenFailed
  <2> QED
    BY <1>10, <2>8, StartTurnEffect, OthersIntent
<1>11. ASSUME NEW c \in Callers, TurnAdmit(c) PROVE IntentInv'
  <2>1. IntentOK(c) /\ pc[c] = "turnAdmit" /\ NextIntended(turn[c])
    BY <1>11, <1>0, TurnAdmitEffect, JournalGrows, IntentsStay DEF IntentInv, IntentOK
  <2>8. IntentOK(c)'
    BY <1>11, TurnAdmitEffect, <2>1 DEF IntentOK, Intended, NextIntended, Places, OpenFailed
  <2> QED
    BY <1>11, <2>8, TurnAdmitEffect, OthersIntent
<1>12. ASSUME NEW c \in Callers, TurnSend(c) PROVE IntentInv'
  <2>8. IntentOK(c)'
    BY <1>12, TurnSendEffect DEF IntentOK, Intended, NextIntended, Places, OpenFailed
  <2> QED
    BY <1>12, <2>8, TurnSendEffect, OthersIntent
<1>13. ASSUME NEW c \in Callers, Settle(c) PROVE IntentInv'
  <2>8. IntentOK(c)'
    BY <1>13, SettleEffect DEF IntentOK, Intended, NextIntended, Places, OpenFailed
  <2> QED
    BY <1>13, <2>8, SettleEffect, OthersIntent
<1>14. ASSUME NEW c \in Callers, EndTurn(c) PROVE IntentInv'
  <2>8. IntentOK(c)'
    BY <1>14, EndTurnEffect DEF IntentOK, Intended, NextIntended, Places, OpenFailed
  <2> QED
    BY <1>14, <2>8, EndTurnEffect, OthersIntent
<1>15. ASSUME NEW c \in Callers, NEW ok \in BOOLEAN, ForkIntent(c, ok) PROVE IntentInv'
  <2>8. IntentOK(c)'
    BY <1>15, ForkIntentEffect, ForkIntentWrites DEF IntentOK, Intended, NextIntended, Places,
      OpenFailed
  <2> QED
    BY <1>15, <2>8, ForkIntentEffect, OthersIntent
<1>16. ASSUME NEW c \in Callers, NEW ok \in BOOLEAN, Create(c, ok) PROVE IntentInv'
  <2>8. IntentOK(c)'
    BY <1>16, CreateEffect, CreateWrites DEF IntentOK, Intended, NextIntended, Places, OpenFailed
  <2> QED
    BY <1>16, <2>8, CreateEffect, OthersIntent
<1>17. ASSUME NEW c \in Callers, NEW ok \in BOOLEAN, OpenFinish(c, ok) PROVE IntentInv'
  <2>8. IntentOK(c)'
    BY <1>17, OpenFinishEffect DEF IntentOK, Intended, NextIntended, Places, OpenFailed
  <2> QED
    BY <1>17, <2>8, OpenFinishEffect, OthersIntent
<1>18. ASSUME NEW c \in Callers, NEW ok \in BOOLEAN, Bind(c, ok) PROVE IntentInv'
  <2>8. IntentOK(c)'
    BY <1>18, BindEffect DEF IntentOK, Intended, NextIntended, Places, OpenFailed
  <2> QED
    BY <1>18, <2>8, BindEffect, OthersIntent
<1>19. ASSUME NEW c \in Callers, NEW ok \in BOOLEAN, TurnIntent(c, ok) PROVE IntentInv'
  <2>8. IntentOK(c)'
    BY <1>19, TurnIntentEffect, TurnIntentWrites DEF IntentOK, Intended, NextIntended, Places,
      OpenFailed
  <2> QED
    BY <1>19, <2>8, TurnIntentEffect, OthersIntent
<1>20. ASSUME NEW c \in Callers, NEW ok \in BOOLEAN, TurnFinish(c, ok) PROVE IntentInv'
  <2>8. IntentOK(c)'
    BY <1>20, TurnFinishEffect DEF IntentOK, Intended, NextIntended, Places, OpenFailed
  <2> QED
    BY <1>20, <2>8, TurnFinishEffect, OthersIntent
<1>21. ASSUME NEW c \in Callers, NEW a \in CreateAnswers, NEW id \in {NoNative, Len(closes) + 1},
  OpenReturn(c, a, id)
  PROVE IntentInv'
  <2>8. IntentOK(c)'
    BY <1>21, OpenReturnEffect DEF IntentOK, Intended, NextIntended, Places, OpenFailed
  <2> QED
    BY <1>21, <2>8, OpenReturnEffect, OthersIntent
<1>22. ASSUME NEW c \in Callers, NEW a \in AllAnswers, TurnReturn(c, a) PROVE IntentInv'
  <2>8. IntentOK(c)'
    BY <1>22, TurnReturnEffect DEF IntentOK, Intended, NextIntended, Places, OpenFailed
  <2> QED
    BY <1>22, <2>8, TurnReturnEffect, OthersIntent
<1>23. ASSUME NEW c \in Callers, NEW b \in Branches, Fork(c, b) PROVE IntentInv'
  <2>8. IntentOK(c)'
    BY <1>23, ForkEffect DEF IntentOK, Intended, NextIntended, Places, OpenFailed
  <2> QED
    BY <1>23, <2>8, ForkEffect, OthersIntent
<1>24. ASSUME NEW c \in Callers, NEW s \in Sessions, Generate(c, s) PROVE IntentInv'
  <2>8. IntentOK(c)'
    BY <1>24, GenerateEffect DEF IntentOK, Intended, NextIntended, Places, OpenFailed
  <2> QED
    BY <1>24, <2>8, GenerateEffect, OthersIntent
<1>25. ASSUME Reenter PROVE IntentInv'
  BY <1>25 DEF Reenter, All, IntentInv, IntentOK
<1>26. CASE Rest
  <2>1. UNCHANGED <<pc, act, turn>>
    BY <1>1, <1>26
  <2> QED
    BY <1>0, <1>00, <2>1 DEF IntentInv, IntentOK, Intended, NextIntended, Places
<1> QED
  BY <1>2, <1>3, <1>4, <1>5, <1>6, <1>7, <1>8, <1>9, <1>10, <1>11, <1>12, <1>13, <1>14, <1>15,
    <1>16, <1>17, <1>18, <1>19, <1>20, <1>21, <1>22, <1>23, <1>24, <1>25, <1>26 DEF Next,
    CallerStep, OpenStep, TurnStep, BodyCall, ScopeStep

-----------------------------------------------------------------------------
(* Calls *)

\* What is kept of a native call.
LEMMA SentParts ==
  ASSUME NEW n, NEW id, NEW r \in BOOLEAN
  PROVE  /\ Sent(n, id, r).node = n /\ Sent(n, id, r).process = stops /\ Sent(n, id, r).reconstructing = r
         /\ Sent(n, id, r).settled => Settled(n)
         /\ Intended(n) => Sent(n, id, r).intended
BY DEF Sent, Settled, Intended, IsOutcome, Places

\* A call an earlier process intended stays loaded.
LEMMA LoadedStays ==
  ASSUME IInv, Grows, loaded' = loaded, NEW n, NEW kind
  PROVE  HasFact(n, kind) <=> \E i \in 1..loaded' : journal'[i].node = n /\ journal'[i].kind = kind
<1>1. StoreTypes /\ loaded \in Nat /\ 1..loaded \subseteq Places
  BY DEF IInv, TypeOK, StoreTypes, Places
<1> QED
  BY <1>1 DEF HasFact, Grows

\* An intent outlives the process that made the call.
LEMMA StepSent == IInv /\ [Next]_vars => SentInv'
<1> SUFFICES ASSUME IInv, [Next]_vars PROVE SentInv'
  OBVIOUS
<1> DEFINE Rest == UNCHANGED vars \/ (\E c \in Callers : NewSession(c) \/ Adopt(c) \/ Restore(c) \/
  OpenAdmit(c) \/ AdoptNative(c) \/ StopLate(c) \/ TurnRefused(c) \/ StartTurn(c) \/ TurnAdmit(c) \/
  Settle(c) \/ EndTurn(c) \/ CancelTurn(c)) \/ (\E c \in Callers, ok \in BOOLEAN : ForkIntent(c, ok)
  \/ Create(c, ok) \/ OpenFinish(c, ok) \/ Bind(c, ok) \/ TurnIntent(c, ok) \/ TurnFinish(c, ok)) \/
  (\E c \in Callers, a \in CreateAnswers, id \in {NoNative, Len(closes) + 1} : OpenReturn(c, a, id))
  \/ (\E c \in Callers, a \in AllAnswers : TurnReturn(c, a)) \/ (\E c \in Callers, b \in Branches :
  Fork(c, b)) \/ (\E c \in Callers, s \in Sessions : Generate(c, s)) \/ (\E s \in Sessions :
  Steer(s) \/ SteerEnd(s)) \/ Cancel \/ JournalFails \/ BodyReturn \/ EndScope \/ CloseMark \/
  CloseStop \/ Stopped \/ (\E ok \in BOOLEAN : CloseEvent(ok) \/ RunEnds(ok))
<1>1. ASSUME Rest PROVE UNCHANGED <<sent, stops, loaded>>
  <2>1. ASSUME NEW c \in Callers, NewSession(c) \/ Adopt(c) \/ Restore(c) \/ OpenAdmit(c) \/
    AdoptNative(c) \/ StopLate(c) \/ TurnRefused(c) \/ StartTurn(c)
    PROVE UNCHANGED <<sent, stops, loaded>>
    BY <2>1 DEF NewSession, Adopt, Restore, OpenAdmit, OpenFailed, LoseFork, IsFork, AdoptNative,
      StopLate, NoteCreateError, StopNative, TurnRefused, Returns, Refusal, StartTurn
  <2>2. ASSUME NEW c \in Callers, TurnAdmit(c) \/ Settle(c) \/ EndTurn(c) \/ CancelTurn(c)
    PROVE UNCHANGED <<sent, stops, loaded>>
    BY <2>2 DEF TurnAdmit, Settle, EndTurn, Returns, CancelTurn
  <2>3. ASSUME NEW c \in Callers, NEW ok \in BOOLEAN, ForkIntent(c, ok) \/ Create(c, ok) \/
    OpenFinish(c, ok) \/ Bind(c, ok) \/ TurnIntent(c, ok) \/ TurnFinish(c, ok)
    PROVE UNCHANGED <<sent, stops, loaded>>
    BY <2>3 DEF ForkIntent, Create, OpenFinish, Bind, OpenFailed, IsFork, NoteCreateError,
      TurnIntent, TurnFinish
  <2>4. ASSUME NEW c \in Callers, NEW a \in CreateAnswers, NEW id \in {NoNative, Len(closes) + 1},
    OpenReturn(c, a, id)
    PROVE UNCHANGED <<sent, stops, loaded>>
    BY <2>4 DEF OpenReturn
  <2>5. ASSUME NEW c \in Callers, NEW a \in AllAnswers, TurnReturn(c, a)
    PROVE UNCHANGED <<sent, stops, loaded>>
    BY <2>5 DEF TurnReturn
  <2>6. ASSUME NEW c \in Callers, NEW b \in Branches, Fork(c, b)
    PROVE UNCHANGED <<sent, stops, loaded>>
    BY <2>6 DEF Fork
  <2>7. ASSUME NEW c \in Callers, NEW s \in Sessions, Generate(c, s)
    PROVE UNCHANGED <<sent, stops, loaded>>
    BY <2>7 DEF Generate
  <2>8. ASSUME NEW s \in Sessions, Steer(s) \/ SteerEnd(s) PROVE UNCHANGED <<sent, stops, loaded>>
    BY <2>8 DEF Steer, SteerEnd
  <2>9. ASSUME Cancel \/ JournalFails \/ BodyReturn \/ EndScope \/ CloseMark \/ CloseStop \/ Stopped
    PROVE UNCHANGED <<sent, stops, loaded>>
    BY <2>9 DEF Cancel, JournalFails, BodyReturn, EndScope, CloseMark, CloseStop, StopNative,
      Stopped, vars
  <2>10. ASSUME NEW ok \in BOOLEAN, CloseEvent(ok) \/ RunEnds(ok)
    PROVE UNCHANGED <<sent, stops, loaded>>
    BY <2>10 DEF CloseEvent, RunEnds
  <2> QED
    BY <1>1, <2>1, <2>2, <2>3, <2>4, <2>5, <2>6, <2>7, <2>8, <2>9, <2>10 DEF vars
<1>0. StoreTypes /\ WorldTypes /\ IntentInv /\ SentInv
  BY DEF IInv, TypeOK
<1>2. ASSUME NEW c \in Callers, OpenSend(c) PROVE SentInv'
  <2> DEFINE m == Sent(act[c], NoNative, FALSE)
  <2>1. sent' = sent \cup {m} /\ UNCHANGED <<journal, stops, loaded>>
    BY <1>2, OpenSendEffect
  <2>2. m.node = act[c] /\ m.process = stops
    BY DEF Sent
  <2>3. Intended(m.node) /\ stops \in Nat
    BY <1>2, <1>0, <2>2, OpenSendEffect DEF IntentInv, IntentOK, WorldTypes
  <2> QED
    <3> HIDE DEF m
    <3> QED
      BY <1>0, <2>1, <2>2, <2>3 DEF SentInv, Intended, Places, HasFact
<1>3. ASSUME NEW c \in Callers, TurnSend(c) PROVE SentInv'
  <2> DEFINE m == Sent(turn[c], nat[c], HasFact(turn[c], "intent"))
  <2>1. sent' = sent \cup {m} /\ UNCHANGED <<journal, stops, loaded>>
    BY <1>3, TurnSendEffect
  <2>2. m.node = turn[c] /\ m.process = stops
    BY DEF Sent
  <2>3. Intended(m.node) /\ stops \in Nat
    BY <1>3, <1>0, <2>2, TurnSendEffect DEF IntentInv, IntentOK, WorldTypes
  <2> QED
    <3> HIDE DEF m
    <3> QED
      BY <1>0, <2>1, <2>2, <2>3 DEF SentInv, Intended, Places, HasFact
<1>4. ASSUME Reenter PROVE SentInv'
  <2>1. UNCHANGED <<journal, sent>> /\ loaded' = Len(journal) /\ stops' = stops + 1 /\ stops \in Nat
    BY <1>4, <1>0 DEF Reenter, WorldTypes
  <2> QED
    BY <1>0, <2>1 DEF SentInv, Intended, Places, HasFact
<1>5. CASE Rest
  <2>1. UNCHANGED <<sent, stops, loaded>>
    BY <1>1, <1>5
  <2>2. Grows
    BY JournalGrows
  <2> SUFFICES ASSUME NEW m \in sent
               PROVE  /\ Intended(m.node)'
                      /\ m.process < stops => HasFact(m.node, "intent")'
    BY <1>0, <2>1 DEF SentInv
  <2>3. NextIntended(m.node)
    BY <1>0, <2>2, IntentsStay DEF SentInv
  <2>4. m.process < stops => \E i \in 1..loaded' : journal'[i].node = m.node /\ journal'[i].kind = "intent"
    BY <1>0, <2>1, <2>2, LoadedStays DEF SentInv
  <2> QED
    BY <2>3, <2>4 DEF Intended, NextIntended, Places, HasFact
<1> QED
  BY <1>2, <1>3, <1>4, <1>5 DEF Next, CallerStep, OpenStep, TurnStep, BodyCall, ScopeStep

\* A call has its intent, its node is not settled, and a repeated turn is announced.
LEMMA StepCallsAreRight == IInv /\ [Next]_vars => CallsAreRight'
<1> SUFFICES ASSUME IInv, [Next]_vars PROVE CallsAreRight'
  OBVIOUS
<1> DEFINE Rest == UNCHANGED vars \/ (\E c \in Callers : NewSession(c) \/ Adopt(c) \/ Restore(c) \/
  OpenAdmit(c) \/ AdoptNative(c) \/ StopLate(c) \/ TurnRefused(c) \/ StartTurn(c) \/ TurnAdmit(c) \/
  Settle(c) \/ EndTurn(c) \/ CancelTurn(c)) \/ (\E c \in Callers, ok \in BOOLEAN : ForkIntent(c, ok)
  \/ Create(c, ok) \/ OpenFinish(c, ok) \/ Bind(c, ok) \/ TurnIntent(c, ok) \/ TurnFinish(c, ok)) \/
  (\E c \in Callers, a \in CreateAnswers, id \in {NoNative, Len(closes) + 1} : OpenReturn(c, a, id))
  \/ (\E c \in Callers, a \in AllAnswers : TurnReturn(c, a)) \/ (\E c \in Callers, b \in Branches :
  Fork(c, b)) \/ (\E c \in Callers, s \in Sessions : Generate(c, s)) \/ (\E s \in Sessions :
  Steer(s) \/ SteerEnd(s)) \/ Cancel \/ JournalFails \/ BodyReturn \/ EndScope \/ CloseMark \/
  CloseStop \/ Reenter \/ Stopped \/ (\E ok \in BOOLEAN : CloseEvent(ok) \/ RunEnds(ok))
<1>1. ASSUME Rest PROVE UNCHANGED <<sent>>
  <2>1. ASSUME NEW c \in Callers, NewSession(c) \/ Adopt(c) \/ Restore(c) \/ OpenAdmit(c) \/
    AdoptNative(c) \/ StopLate(c) \/ TurnRefused(c) \/ StartTurn(c)
    PROVE UNCHANGED <<sent>>
    BY <2>1 DEF NewSession, Adopt, Restore, OpenAdmit, OpenFailed, LoseFork, IsFork, AdoptNative,
      StopLate, NoteCreateError, StopNative, TurnRefused, Returns, Refusal, StartTurn
  <2>2. ASSUME NEW c \in Callers, TurnAdmit(c) \/ Settle(c) \/ EndTurn(c) \/ CancelTurn(c)
    PROVE UNCHANGED <<sent>>
    BY <2>2 DEF TurnAdmit, Settle, EndTurn, Returns, CancelTurn
  <2>3. ASSUME NEW c \in Callers, NEW ok \in BOOLEAN, ForkIntent(c, ok) \/ Create(c, ok) \/
    OpenFinish(c, ok) \/ Bind(c, ok) \/ TurnIntent(c, ok) \/ TurnFinish(c, ok)
    PROVE UNCHANGED <<sent>>
    BY <2>3 DEF ForkIntent, Create, OpenFinish, Bind, OpenFailed, IsFork, NoteCreateError,
      TurnIntent, TurnFinish
  <2>4. ASSUME NEW c \in Callers, NEW a \in CreateAnswers, NEW id \in {NoNative, Len(closes) + 1},
    OpenReturn(c, a, id)
    PROVE UNCHANGED <<sent>>
    BY <2>4 DEF OpenReturn
  <2>5. ASSUME NEW c \in Callers, NEW a \in AllAnswers, TurnReturn(c, a) PROVE UNCHANGED <<sent>>
    BY <2>5 DEF TurnReturn
  <2>6. ASSUME NEW c \in Callers, NEW b \in Branches, Fork(c, b) PROVE UNCHANGED <<sent>>
    BY <2>6 DEF Fork
  <2>7. ASSUME NEW c \in Callers, NEW s \in Sessions, Generate(c, s) PROVE UNCHANGED <<sent>>
    BY <2>7 DEF Generate
  <2>8. ASSUME NEW s \in Sessions, Steer(s) \/ SteerEnd(s) PROVE UNCHANGED <<sent>>
    BY <2>8 DEF Steer, SteerEnd
  <2>9. ASSUME Cancel \/ JournalFails \/ BodyReturn \/ EndScope \/ CloseMark \/ CloseStop \/ Reenter
    \/ Stopped
    PROVE UNCHANGED <<sent>>
    BY <2>9 DEF Cancel, JournalFails, BodyReturn, EndScope, CloseMark, CloseStop, StopNative,
      Reenter, All, Stopped, vars
  <2>10. ASSUME NEW ok \in BOOLEAN, CloseEvent(ok) \/ RunEnds(ok) PROVE UNCHANGED <<sent>>
    BY <2>10 DEF CloseEvent, RunEnds
  <2> QED
    BY <1>1, <2>1, <2>2, <2>3, <2>4, <2>5, <2>6, <2>7, <2>8, <2>9, <2>10 DEF vars
<1>0. WorldTypes /\ CallInv /\ IntentInv /\ SentInv /\ FreshInv /\ CallsAreRight
  BY DEF IInv, TypeOK
<1>2. ASSUME NEW c \in Callers, OpenSend(c) PROVE CallsAreRight'
  <2> DEFINE m == Sent(act[c], NoNative, FALSE)
  <2>1. sent' = sent \cup {m}
    BY <1>2, OpenSendEffect
  <2>2. m.node = act[c] /\ m.process = stops /\ m.reconstructing = FALSE
    BY DEF Sent
  <2>3. m.intended
    BY <1>2, <1>0, OpenSendEffect, SentParts DEF IntentInv, IntentOK, HasFact
  <2>4. m.node[2] \in {"create", "fork"}
    BY <1>2, <1>0, <2>2, OpenSendEffect DEF CallInv, CallOK, OpenPlaces, Opening, Turning, TurnPlaces
  <2>5. m.node[2] # "fork" => ~m.settled
    <3>1. m.node[2] # "fork" => ~Settled(act[c])
      BY <1>2, <1>0, <2>2, <2>4, OpenSendEffect DEF FreshInv, FreshOK, Turning, TurnPlaces, Creating, Opening, IsFork
    <3> QED
      BY <3>1, SentParts DEF HasFact
  <2> HIDE DEF m
  <2>6. IntentFirst' /\ CompletedNotRepeated'
    BY <1>0, <2>1, <2>3, <2>5 DEF CallsAreRight, IntentFirst, CompletedNotRepeated
  <2>7. RepeatIsAnnounced'
    BY <1>0, <2>1, <2>2, <2>4 DEF CallsAreRight, RepeatIsAnnounced, SentInv, WorldTypes
  <2> QED
    BY <2>6, <2>7 DEF CallsAreRight
<1>3. ASSUME NEW c \in Callers, TurnSend(c) PROVE CallsAreRight'
  <2> DEFINE m == Sent(turn[c], nat[c], HasFact(turn[c], "intent"))
  <2>1. sent' = sent \cup {m}
    BY <1>3, TurnSendEffect
  <2>2. m.node = turn[c] /\ m.process = stops /\ m.reconstructing = HasFact(turn[c], "intent")
    BY DEF Sent
  <2>3. m.intended
    BY <1>3, <1>0, TurnSendEffect, SentParts DEF IntentInv, IntentOK, HasFact
  <2>4. m.node[2] = "turn"
    BY <1>3, <1>0, <2>2, TurnSendEffect DEF CallInv, CallOK, OpenPlaces, Opening, Turning, TurnPlaces
  <2>5. m.node[2] # "fork" => ~m.settled
    <3>1. m.node[2] # "fork" => ~Settled(turn[c])
      BY <1>3, <1>0, <2>2, <2>4, TurnSendEffect DEF FreshInv, FreshOK, Turning, TurnPlaces, Creating, Opening, IsFork
    <3> QED
      BY <3>1, SentParts DEF HasFact
  <2> HIDE DEF m
  <2>6. IntentFirst' /\ CompletedNotRepeated'
    BY <1>0, <2>1, <2>3, <2>5 DEF CallsAreRight, IntentFirst, CompletedNotRepeated
  <2>7. RepeatIsAnnounced'
    BY <1>0, <2>1, <2>2, <2>4 DEF CallsAreRight, RepeatIsAnnounced, SentInv, WorldTypes
  <2> QED
    BY <2>6, <2>7 DEF CallsAreRight
<1>4. CASE Rest
  <2>1. UNCHANGED <<sent>>
    BY <1>1, <1>4
  <2> QED
    BY <1>0, <2>1 DEF IInv, CallsAreRight, IntentFirst, CompletedNotRepeated, RepeatIsAnnounced
<1> QED
  BY <1>2, <1>3, <1>4 DEF Next, CallerStep, OpenStep, TurnStep, BodyCall, ScopeStep

-----------------------------------------------------------------------------
(* Outcomes *)

OutcomeKinds == {"outcome", "resolved-outcome"}

\* The journal grows by no outcome.
Quiet ==
  /\ Grows
  /\ \A i \in 1..Len(journal') : i \notin Places => journal'[i].kind \notin OutcomeKinds

\* The node n is settled after the step.
NextSettled(n) ==
  \E i \in 1..Len(journal') :
    journal'[i].kind \in OutcomeKinds /\ journal'[i].node = n /\ journal'[i].res # "uncertain"

\* An Append of a fact that is no outcome is quiet.
LEMMA QuietWrites ==
  ASSUME StoreTypes, NEW f, Writes(f), f.kind \notin OutcomeKinds
  PROVE  Quiet
<1>1. Grows
  BY WritesGrows
<1>2. ASSUME NEW i \in 1..Len(journal'), i \notin Places PROVE journal'[i] = f
  BY <1>2 DEF Writes, Places, StoreTypes
<1> QED
  BY <1>1, <1>2 DEF Quiet

\* A quiet step settles nothing.
LEMMA QuietSettles ==
  ASSUME Quiet, NEW n, NextSettled(n)
  PROVE  Settled(n)
BY DEF Quiet, Grows, NextSettled, Settled, IsOutcome, OutcomeKinds

\* An appended fact settles its own node only.
LEMMA WritesSettle ==
  ASSUME StoreTypes, NEW f, Writes(f), NEW n, n # f.node, NextSettled(n)
  PROVE  Settled(n)
<1>1. PICK i \in 1..Len(journal') :
        journal'[i].kind \in OutcomeKinds /\ journal'[i].node = n /\ journal'[i].res # "uncertain"
  BY DEF NextSettled
<1>2. i \in Places /\ journal'[i] = journal[i]
  BY <1>1 DEF Writes, Places, StoreTypes
<1> QED
  BY <1>1, <1>2 DEF Settled, IsOutcome, OutcomeKinds

\* Only OpenFinish and TurnFinish record outcomes.
LEMMA OutcomeSteps ==
  IInv /\ [Next]_vars =>
    Quiet \/ (\E c \in Callers, ok \in BOOLEAN : OpenFinish(c, ok) \/ TurnFinish(c, ok))
<1> SUFFICES ASSUME IInv, [Next]_vars
             PROVE  Quiet \/ (\E c \in Callers, ok \in BOOLEAN : OpenFinish(c, ok) \/ TurnFinish(c, ok))
  OBVIOUS
<1>0. StoreTypes
  BY DEF IInv, TypeOK
<1>1. ASSUME NEW c \in Callers, NEW ok \in BOOLEAN, ForkIntent(c, ok) PROVE Quiet
  <2>1. Fact(ForkNode(on[c]), "intent", "none", NoNative).kind \notin OutcomeKinds
    BY DEF Fact, OutcomeKinds
  <2> QED
    BY <1>0, <1>1, <2>1, ForkIntentWrites, QuietWrites
<1>2. ASSUME NEW c \in Callers, NEW ok \in BOOLEAN, Create(c, ok) PROVE Quiet
  <2>1. Fact(CreateNode(on[c], creates[on[c]] + 1), "intent", "none", NoNative).kind \notin OutcomeKinds
    BY DEF Fact, OutcomeKinds
  <2> QED
    BY <1>0, <1>2, <2>1, CreateWrites, QuietWrites
<1>3. ASSUME NEW c \in Callers, NEW ok \in BOOLEAN, Bind(c, ok) PROVE Quiet
  <2>1. Fact(act[c], "native-binding", "none", got[c]).kind \notin OutcomeKinds
    BY DEF Fact, OutcomeKinds
  <2> QED
    BY <1>0, <1>3, <2>1, BindWrites, QuietWrites
<1>4. ASSUME NEW c \in Callers, NEW ok \in BOOLEAN, TurnIntent(c, ok) PROVE Quiet
  <2>1. Fact(turn[c], "intent", "none", NoNative).kind \notin OutcomeKinds
    BY DEF Fact, OutcomeKinds
  <2> QED
    BY <1>0, <1>4, <2>1, TurnIntentWrites, QuietWrites
<1>5. ASSUME NEW ok \in BOOLEAN, CloseEvent(ok) PROVE Quiet
  <2>1. Fact(SessionNode(Head(toClose)), "closed", "none", NoNative).kind \notin OutcomeKinds
    BY DEF Fact, OutcomeKinds
  <2> QED
    BY <1>0, <1>5, <2>1, CloseEventWrites, QuietWrites
<1>6. ASSUME NEW ok \in BOOLEAN, RunEnds(ok) PROVE Quiet
  <2>1. Fact(RunNode, "ended", "none", NoNative).kind \notin OutcomeKinds
    BY DEF Fact, OutcomeKinds
  <2> QED
    BY <1>0, <1>6, <2>1, RunEndsWrites, QuietWrites
<1>7. ASSUME UNCHANGED vars \/ (\E c \in Callers : NewSession(c) \/ Adopt(c) \/ Restore(c) \/
  OpenAdmit(c) \/ OpenSend(c) \/ AdoptNative(c) \/ StopLate(c) \/ TurnRefused(c) \/ StartTurn(c) \/
  TurnAdmit(c) \/ TurnSend(c) \/ Settle(c) \/ EndTurn(c) \/ CancelTurn(c)) \/ (\E c \in Callers, a
  \in CreateAnswers, id \in {NoNative, Len(closes) + 1} : OpenReturn(c, a, id)) \/ (\E c \in
  Callers, a \in AllAnswers : TurnReturn(c, a)) \/ (\E c \in Callers, b \in Branches : Fork(c, b))
  \/ (\E c \in Callers, s \in Sessions : Generate(c, s)) \/ (\E s \in Sessions : Steer(s) \/
  SteerEnd(s)) \/ Cancel \/ JournalFails \/ BodyReturn \/ EndScope \/ CloseMark \/ CloseStop \/
  Reenter \/ Stopped
  PROVE Quiet
  <2>1. ASSUME NEW c \in Callers, NewSession(c) \/ Adopt(c) \/ Restore(c) \/ OpenAdmit(c) \/
    OpenSend(c) \/ AdoptNative(c) \/ StopLate(c) \/ TurnRefused(c)
    PROVE UNCHANGED journal
    BY <2>1 DEF NewSession, Adopt, Restore, OpenAdmit, OpenFailed, LoseFork, IsFork, OpenSend,
      AdoptNative, StopLate, NoteCreateError, StopNative, TurnRefused, Returns, Refusal, storeVars
  <2>2. ASSUME NEW c \in Callers, StartTurn(c) \/ TurnAdmit(c) \/ TurnSend(c) \/ Settle(c) \/
    EndTurn(c) \/ CancelTurn(c)
    PROVE UNCHANGED journal
    BY <2>2 DEF StartTurn, Refusal, TurnAdmit, TurnSend, Settle, EndTurn, Returns, CancelTurn,
      storeVars
  <2>3. ASSUME NEW c \in Callers, NEW a \in CreateAnswers, NEW id \in {NoNative, Len(closes) + 1},
    OpenReturn(c, a, id)
    PROVE UNCHANGED journal
    BY <2>3 DEF OpenReturn, storeVars
  <2>4. ASSUME NEW c \in Callers, NEW a \in AllAnswers, TurnReturn(c, a) PROVE UNCHANGED journal
    BY <2>4 DEF TurnReturn, storeVars
  <2>5. ASSUME NEW c \in Callers, NEW b \in Branches, Fork(c, b) PROVE UNCHANGED journal
    BY <2>5 DEF Fork, storeVars
  <2>6. ASSUME NEW c \in Callers, NEW s \in Sessions, Generate(c, s) PROVE UNCHANGED journal
    BY <2>6 DEF Generate, storeVars
  <2>7. ASSUME NEW s \in Sessions, Steer(s) \/ SteerEnd(s) PROVE UNCHANGED journal
    BY <2>7 DEF Steer, SteerEnd, storeVars
  <2>8. ASSUME Cancel \/ JournalFails \/ BodyReturn \/ EndScope \/ CloseMark \/ CloseStop \/ Reenter
    \/ Stopped
    PROVE UNCHANGED journal
    BY <2>8 DEF Cancel, JournalFails, BodyReturn, EndScope, CloseMark, CloseStop, StopNative,
      Reenter, All, Stopped, vars, storeVars
  <2>9. UNCHANGED journal
    BY <1>7, <2>1, <2>2, <2>3, <2>4, <2>5, <2>6, <2>7, <2>8 DEF vars, storeVars
  <2> QED
    BY <2>9, JournalGrows DEF Quiet, Places
<1> QED
  BY <1>1, <1>2, <1>3, <1>4, <1>5, <1>6, <1>7 DEF Next, CallerStep, OpenStep, TurnStep, BodyCall,
    ScopeStep

\* The outcomes a caller is about to record: a create's or a turn's is not settled.
LEMMA OutcomeIsFresh ==
  ASSUME IInv, NEW c \in Callers
  PROVE  /\ pc[c] = "opened" => (act[c][2] \in {"turn", "create"} => ~Settled(act[c]) /\ Creating(c))
         /\ pc[c] = "finish" => turn[c][2] = "turn" /\ ~Settled(turn[c]) /\ Turning(c)
<1>1. CallOK(c) /\ FreshOK(c)
  BY DEF IInv, CallInv, FreshInv
<1> QED
  BY <1>1 DEF CallOK, FreshOK, Turning, TurnPlaces, Creating, Opening, OpenPlaces, IsFork

\* A recorded outcome that settles its node is its last.
LEMMA OutcomeIsLast ==
  ASSUME IInv, NEW f, Writes(f), f.node[2] \in {"turn", "create"} => ~Settled(f.node)
  PROVE  LastInv'
<1>1. StoreTypes /\ LastInv
  BY DEF IInv, TypeOK
<1> SUFFICES ASSUME NEW i \in 1..Len(journal'), NEW j \in 1..Len(journal'), i < j,
                    journal'[i].kind \in OutcomeKinds, journal'[j].kind \in OutcomeKinds,
                    journal'[i].node = journal'[j].node, journal'[j].node[2] \in {"turn", "create"}
             PROVE  journal'[i].res = "uncertain"
  BY DEF LastInv, Places, IsOutcome, OutcomeKinds
<1>2. i \in Places /\ journal'[i] = journal[i]
  BY <1>1 DEF Writes, Places, StoreTypes
<1>3. CASE j \in Places
  <2>1. journal'[j] = journal[j]
    BY <1>3 DEF Writes
  <2> QED
    BY <1>1, <1>2, <1>3, <2>1 DEF LastInv, IsOutcome, OutcomeKinds
<1>4. CASE j \notin Places
  <2>1. journal'[j] = f
    BY <1>1, <1>4 DEF Writes, Places, StoreTypes
  <2> QED
    BY <1>2, <2>1 DEF Settled, IsOutcome, OutcomeKinds
<1> QED
  BY <1>3, <1>4

\* An outcome that settles a create or a turn stays its last.
LEMMA StepLast == IInv /\ [Next]_vars => LastInv'
<1> SUFFICES ASSUME IInv, [Next]_vars PROVE LastInv'
  OBVIOUS
<1>1. CASE Quiet
  <2>1. LastInv /\ StoreTypes
    BY DEF IInv, TypeOK
  <2>2. ASSUME NEW i \in 1..Len(journal'), journal'[i].kind \in OutcomeKinds
        PROVE  i \in Places /\ journal'[i] = journal[i]
    BY <1>1, <2>2 DEF Quiet, Grows
  <2> QED
    BY <2>1, <2>2 DEF LastInv, Places, IsOutcome, OutcomeKinds
<1>2. ASSUME NEW c \in Callers, NEW ok \in BOOLEAN, OpenFinish(c, ok) PROVE LastInv'
  <2>1. Outcome(act[c], ans[c], got[c]).node = act[c]
    BY DEF Outcome, Fact
  <2> QED
    BY <1>2, <2>1, OpenFinishEffect, OpenFinishWrites, OutcomeIsFresh, OutcomeIsLast
<1>3. ASSUME NEW c \in Callers, NEW ok \in BOOLEAN, TurnFinish(c, ok) PROVE LastInv'
  <2>1. Outcome(turn[c], ans[c], NoNative).node = turn[c]
    BY DEF Outcome, Fact
  <2> QED
    BY <1>3, <2>1, TurnFinishEffect, TurnFinishWrites, OutcomeIsFresh, OutcomeIsLast
<1> QED
  BY <1>1, <1>2, <1>3, OutcomeSteps

\* The ordinals go up and the loaded part stays.
Counts ==
  /\ loaded' = loaded
  /\ \A s \in Sessions : turns[s] <= turns'[s] /\ creates[s] <= creates'[s]

\* In one process the ordinals only go up.
LEMMA StepCounts == IInv /\ [Next]_vars => (Reenter \/ Counts)
<1> SUFFICES ASSUME IInv, [Next]_vars PROVE (Reenter \/ Counts)
  OBVIOUS
<1> DEFINE Rest == UNCHANGED vars \/ (\E c \in Callers : NewSession(c) \/ Adopt(c) \/ Restore(c) \/
  OpenAdmit(c) \/ OpenSend(c) \/ AdoptNative(c) \/ StopLate(c) \/ TurnAdmit(c) \/ TurnSend(c) \/
  Settle(c) \/ EndTurn(c) \/ CancelTurn(c)) \/ (\E c \in Callers, ok \in BOOLEAN : ForkIntent(c, ok)
  \/ OpenFinish(c, ok) \/ Bind(c, ok) \/ TurnIntent(c, ok) \/ TurnFinish(c, ok)) \/ (\E c \in
  Callers, a \in CreateAnswers, id \in {NoNative, Len(closes) + 1} : OpenReturn(c, a, id)) \/ (\E c
  \in Callers, a \in AllAnswers : TurnReturn(c, a)) \/ (\E c \in Callers, b \in Branches : Fork(c,
  b)) \/ (\E c \in Callers, s \in Sessions : Generate(c, s)) \/ (\E s \in Sessions : Steer(s) \/
  SteerEnd(s)) \/ Cancel \/ JournalFails \/ BodyReturn \/ EndScope \/ CloseMark \/ CloseStop \/
  Stopped \/ (\E ok \in BOOLEAN : CloseEvent(ok) \/ RunEnds(ok))
<1>1. ASSUME Rest PROVE UNCHANGED <<loaded, turns, creates>>
  <2>1. ASSUME NEW c \in Callers, NewSession(c) \/ Adopt(c) \/ Restore(c) \/ OpenAdmit(c) \/
    OpenSend(c) \/ AdoptNative(c) \/ StopLate(c) \/ TurnAdmit(c)
    PROVE UNCHANGED <<loaded, turns, creates>>
    BY <2>1 DEF NewSession, Adopt, Restore, OpenAdmit, OpenFailed, LoseFork, IsFork, OpenSend,
      AdoptNative, StopLate, NoteCreateError, StopNative, TurnAdmit
  <2>2. ASSUME NEW c \in Callers, TurnSend(c) \/ Settle(c) \/ EndTurn(c) \/ CancelTurn(c)
    PROVE UNCHANGED <<loaded, turns, creates>>
    BY <2>2 DEF TurnSend, Settle, EndTurn, Returns, CancelTurn
  <2>3. ASSUME NEW c \in Callers, NEW ok \in BOOLEAN, ForkIntent(c, ok) \/ OpenFinish(c, ok) \/
    Bind(c, ok) \/ TurnIntent(c, ok) \/ TurnFinish(c, ok)
    PROVE UNCHANGED <<loaded, turns, creates>>
    BY <2>3 DEF ForkIntent, OpenFinish, Bind, OpenFailed, IsFork, NoteCreateError, TurnIntent,
      TurnFinish
  <2>4. ASSUME NEW c \in Callers, NEW a \in CreateAnswers, NEW id \in {NoNative, Len(closes) + 1},
    OpenReturn(c, a, id)
    PROVE UNCHANGED <<loaded, turns, creates>>
    BY <2>4 DEF OpenReturn
  <2>5. ASSUME NEW c \in Callers, NEW a \in AllAnswers, TurnReturn(c, a)
    PROVE UNCHANGED <<loaded, turns, creates>>
    BY <2>5 DEF TurnReturn
  <2>6. ASSUME NEW c \in Callers, NEW b \in Branches, Fork(c, b)
    PROVE UNCHANGED <<loaded, turns, creates>>
    BY <2>6 DEF Fork
  <2>7. ASSUME NEW c \in Callers, NEW s \in Sessions, Generate(c, s)
    PROVE UNCHANGED <<loaded, turns, creates>>
    BY <2>7 DEF Generate
  <2>8. ASSUME NEW s \in Sessions, Steer(s) \/ SteerEnd(s)
    PROVE UNCHANGED <<loaded, turns, creates>>
    BY <2>8 DEF Steer, SteerEnd
  <2>9. ASSUME Cancel \/ JournalFails \/ BodyReturn \/ EndScope \/ CloseMark \/ CloseStop \/ Stopped
    PROVE UNCHANGED <<loaded, turns, creates>>
    BY <2>9 DEF Cancel, JournalFails, BodyReturn, EndScope, CloseMark, CloseStop, StopNative,
      Stopped, vars
  <2>10. ASSUME NEW ok \in BOOLEAN, CloseEvent(ok) \/ RunEnds(ok)
    PROVE UNCHANGED <<loaded, turns, creates>>
    BY <2>10 DEF CloseEvent, RunEnds
  <2> QED
    BY <1>1, <2>1, <2>2, <2>3, <2>4, <2>5, <2>6, <2>7, <2>8, <2>9, <2>10 DEF vars
<1>2. ASSUME NEW c \in Callers, TurnRefused(c) PROVE (Reenter \/ Counts)
  <2>1. SessionTypes /\ loaded' = loaded
    BY <1>2 DEF IInv, TypeOK, TurnRefused, Returns, Refusal
  <2>2. on[c] \in Sessions
    BY <1>2, InCall, TurnRefusedEffect
  <2>3. /\ turns' = [turns EXCEPT ![on[c]] = IF Refusal(on[c]) THEN turns[on[c]] ELSE turns[on[c]] + 1]
        /\ creates' = creates
    BY <1>2, TurnRefusedEffect
  <2>4. \A x \in Sessions : turns[x] <= turns'[x] /\ creates[x] <= creates'[x]
    BY <2>1, <2>2, <2>3 DEF SessionTypes
  <2> QED
    BY <2>1, <2>4 DEF Counts
<1>3. ASSUME NEW c \in Callers, StartTurn(c) PROVE (Reenter \/ Counts)
  <2>1. SessionTypes /\ loaded' = loaded
    BY <1>3 DEF IInv, TypeOK, StartTurn, Refusal
  <2>2. on[c] \in Sessions
    BY <1>3, InCall, StartTurnEffect
  <2>3. turns' = [turns EXCEPT ![on[c]] = turns[on[c]] + 1] /\ creates' = creates
    BY <1>3, StartTurnEffect
  <2>4. \A x \in Sessions : turns[x] <= turns'[x] /\ creates[x] <= creates'[x]
    BY <2>1, <2>2, <2>3 DEF SessionTypes
  <2> QED
    BY <2>1, <2>4 DEF Counts
<1>4. ASSUME NEW c \in Callers, NEW ok \in BOOLEAN, Create(c, ok) PROVE (Reenter \/ Counts)
  <2>1. SessionTypes /\ loaded' = loaded
    BY <1>4 DEF IInv, TypeOK, Create
  <2>2. on[c] \in Sessions
    BY <1>4, InCall, CreateEffect
  <2>3. creates' = [creates EXCEPT ![on[c]] = creates[on[c]] + 1] /\ turns' = turns
    BY <1>4, CreateEffect
  <2>4. \A x \in Sessions : turns[x] <= turns'[x] /\ creates[x] <= creates'[x]
    BY <2>1, <2>2, <2>3 DEF SessionTypes
  <2> QED
    BY <2>1, <2>4 DEF Counts
<1>5. ASSUME Reenter PROVE (Reenter \/ Counts)
  BY <1>5
<1>6. CASE Rest
  <2>1. UNCHANGED <<loaded, turns, creates>>
    BY <1>1, <1>6
  <2> QED
    BY <2>1 DEF Counts, IInv, TypeOK, SessionTypes
<1> QED
  BY <1>2, <1>3, <1>4, <1>5, <1>6 DEF Next, CallerStep, OpenStep, TurnStep, BodyCall, ScopeStep

\* What a process recorded it has counted.
LEMMA StepCounted == IInv /\ [Next]_vars => CountedInv'
<1> SUFFICES ASSUME IInv, [Next]_vars PROVE CountedInv'
  OBVIOUS
<1>0. StoreTypes /\ SessionTypes /\ CountedInv /\ SessionTypes'
  BY StepSession DEF IInv, TypeOK
<1>1. CASE Reenter
  BY <1>0, <1>1 DEF Reenter, CountedInv, Places
<1> SUFFICES ASSUME Counts, NEW i \in 1..Len(journal'), i > loaded, journal'[i].kind \in OutcomeKinds
             PROVE  /\ journal'[i].node[2] = "turn" => journal'[i].node[4] <= turns'[journal'[i].node[1]]
                    /\ journal'[i].node[2] = "create" => journal'[i].node[4] <= creates'[journal'[i].node[1]]
  BY <1>1, StepCounts DEF CountedInv, Counts, Places, IsOutcome, OutcomeKinds
<1>2. CASE i \in Places
  <2>1. journal'[i] = journal[i] /\ journal[i].node[1] \in Sessions /\ journal[i].node[4] \in Nat
    BY <1>0, <1>2, JournalGrows, PlaceFacts DEF Grows
  <2> DEFINE s == journal[i].node[1]
  <2>2. turns[s] \in Nat /\ creates[s] \in Nat /\ turns'[s] \in Nat /\ creates'[s] \in Nat
    BY <1>0, <2>1 DEF SessionTypes
  <2>3. turns[s] <= turns'[s] /\ creates[s] <= creates'[s]
    BY <2>1 DEF Counts
  <2>4. /\ journal[i].node[2] = "turn" => journal[i].node[4] <= turns[s]
        /\ journal[i].node[2] = "create" => journal[i].node[4] <= creates[s]
    BY <1>0, <1>2, <2>1 DEF CountedInv, IsOutcome, OutcomeKinds
  <2> QED
    BY <2>1, <2>2, <2>3, <2>4
<1>3. CASE i \notin Places
  <2>1. PICK c \in Callers, ok \in BOOLEAN : OpenFinish(c, ok) \/ TurnFinish(c, ok)
    BY <1>3, OutcomeSteps DEF Quiet
  <2>2. CallOK(c) /\ FreshOK(c)
    BY DEF IInv, CallInv, FreshInv
  <2>3. CASE OpenFinish(c, ok)
    <3>1. journal'[i] = Outcome(act[c], ans[c], got[c])
      BY <1>0, <1>3, <2>3, OpenFinishWrites DEF Writes, Places, StoreTypes
    <3>2. journal'[i].node = act[c]
      BY <3>1 DEF Outcome, Fact
    <3>3. pc[c] = "opened" /\ UNCHANGED creates
      BY <2>3, OpenFinishEffect
    <3> QED
      BY <2>2, <3>2, <3>3 DEF CallOK, FreshOK, Creating, Opening, OpenPlaces, IsFork
  <2>4. CASE TurnFinish(c, ok)
    <3>1. journal'[i] = Outcome(turn[c], ans[c], NoNative)
      BY <1>0, <1>3, <2>4, TurnFinishWrites DEF Writes, Places, StoreTypes
    <3>2. journal'[i].node = turn[c]
      BY <3>1 DEF Outcome, Fact
    <3>3. pc[c] = "finish" /\ UNCHANGED turns
      BY <2>4, TurnFinishEffect
    <3> QED
      BY <2>2, <3>2, <3>3 DEF CallOK, FreshOK, Turning, TurnPlaces
  <2> QED
    BY <2>1, <2>3, <2>4
<1> QED
  BY <1>2, <1>3

\* A node with a new ordinal and no saved outcome is not settled.
LEMMA NewOrdinalIsFresh ==
  ASSUME IInv, NEW n \in Nodes, ~Saved(n),
         \/ n[2] = "turn" /\ n[4] > turns[n[1]]
         \/ n[2] = "create" /\ n[4] > creates[n[1]]
  PROVE  ~Settled(n)
<1>1. StoreTypes /\ SessionTypes /\ LastInv /\ CountedInv /\ n[1] \in Sessions /\ n[4] \in Nat
  BY NodeParts DEF IInv, TypeOK
<1> SUFFICES ASSUME NEW i \in Places, IsOutcome(i), journal[i].node = n PROVE journal[i].res = "uncertain"
  BY DEF Settled
<1>2. i \in 1..loaded
  <2>1. i \in Nat /\ loaded \in Nat /\ i >= 1 /\ turns[n[1]] \in Nat /\ creates[n[1]] \in Nat
    BY <1>1 DEF SessionTypes, StoreTypes, Places
  <2>2. ~(i > loaded)
    BY <1>1, <2>1 DEF CountedInv
  <2> QED
    BY <2>1, <2>2
<1> DEFINE S == SavedOutcomes(n)
<1>3. i \in S /\ S \subseteq 1..loaded
  BY <1>2 DEF SavedOutcomes, IsOutcome
<1>4. Max(S) \in S /\ Max(S) \in Places /\ i <= Max(S)
  <2> HIDE DEF S
  <2> QED
    BY <1>1, <1>3, LatestPlace
<1>5. journal[Max(S)].res = "uncertain"
  BY <1>3 DEF Saved, Latest
<1>6. IsOutcome(Max(S)) /\ journal[Max(S)].node = n
  BY <1>4 DEF SavedOutcomes, IsOutcome
<1>7. CASE i = Max(S)
  BY <1>5, <1>7
<1>8. CASE i < Max(S)
  BY <1>1, <1>4, <1>6, <1>8 DEF LastInv
<1> QED
  BY <1>4, <1>7, <1>8 DEF Places

-----------------------------------------------------------------------------
(* Creates and turns under way *)

\* The caller c begins no create and no turn.
Stays(c) ==
  /\ Turning(c)' => Turning(c) /\ turn'[c] = turn[c] /\ on'[c] = on[c]
  /\ Creating(c)' => Creating(c) /\ act'[c] = act[c] /\ on'[c] = on[c]

\* The step settles nothing that stays under way.
Spares(d) ==
  /\ Turning(d)' /\ NextSettled(turn[d]) => Settled(turn[d])
  /\ Creating(d)' /\ NextSettled(act[d]) => Settled(act[d])

\* A caller that another one's step leaves alone begins nothing.
LEMMA SameStays ==
  ASSUME NEW d, Same(d)
  PROVE  Stays(d) /\ (Turning(d)' <=> Turning(d)) /\ (Creating(d)' <=> Creating(d))
BY DEF Same, Stays, Turning, Creating, IsFork

\* What stays under way stays counted and unsettled.
LEMMA StaysFresh ==
  ASSUME IInv, NEW d \in Callers, Stays(d), Spares(d), Counts, SessionTypes', CallTypes'
  PROVE  FreshOK(d)'
<1>1. FreshOK(d) /\ CallOK(d) /\ SessionTypes /\ CallTypes
  BY DEF IInv, TypeOK, FreshInv, CallInv
<1>2. turn[d][4] \in Nat /\ act[d][4] \in Nat
  BY <1>1, NodeParts DEF CallTypes
<1>3. Turning(d) \/ Creating(d) => on[d] \in Sessions
  BY <1>1 DEF CallOK, Turning, Creating, TurnPlaces, OpenPlaces, Opening
<1>4. on[d] \in Sessions =>
        /\ turns[on[d]] \in Nat /\ creates[on[d]] \in Nat /\ turns'[on[d]] \in Nat /\ creates'[on[d]] \in Nat
        /\ turns[on[d]] <= turns'[on[d]] /\ creates[on[d]] <= creates'[on[d]]
  BY <1>1 DEF SessionTypes, Counts
<1>5. ASSUME Turning(d)' PROVE turn'[d][4] <= turns'[on'[d]] /\ ~NextSettled(turn'[d])
  BY <1>1, <1>2, <1>3, <1>4, <1>5 DEF FreshOK, Stays, Spares
<1>6. ASSUME Creating(d)' PROVE act'[d][4] <= creates'[on'[d]] /\ ~NextSettled(act'[d])
  BY <1>1, <1>2, <1>3, <1>4, <1>6 DEF FreshOK, Stays, Spares
<1> QED
  BY <1>5, <1>6 DEF FreshOK, Settled, NextSettled, IsOutcome, OutcomeKinds, Places

\* What stays under way stays apart.
LEMMA StaysApart ==
  ASSUME IInv, NEW c \in Callers, NEW d \in Callers, c # d, Stays(c), Stays(d)
  PROVE  ApartOK(c, d)'
<1>1. ApartOK(c, d)
  BY DEF IInv, ApartInv
<1> QED
  BY <1>1 DEF ApartOK, Stays

\* A step by which no caller begins anything, and nothing under way is settled.
LEMMA AllStay ==
  ASSUME IInv, SessionTypes', CallTypes', Counts, \A d \in Callers : Stays(d) /\ Spares(d)
  PROVE  FreshInv' /\ ApartInv'
BY StaysFresh, StaysApart DEF FreshInv, ApartInv

\* A quiet step settles nothing.
LEMMA QuietSpares ==
  ASSUME Quiet, NEW d
  PROVE  Spares(d)
BY QuietSettles DEF Spares

\* Only StartTurn begins a turn and only Create a create.
LEMMA StepStays ==
  IInv /\ [Next]_vars =>
    \/ Reenter
    \/ \E c \in Callers : StartTurn(c) \/ \E ok \in BOOLEAN : Create(c, ok)
    \/ \A d \in Callers : Stays(d)
<1> DEFINE AnyStay ==
      \/ Reenter
      \/ \E c \in Callers : StartTurn(c) \/ \E ok \in BOOLEAN : Create(c, ok)
      \/ \A d \in Callers : Stays(d)
<1> SUFFICES ASSUME IInv, [Next]_vars PROVE AnyStay
  OBVIOUS
<1> DEFINE Rest == UNCHANGED vars \/ (\E c \in Callers : CancelTurn(c)) \/ (\E s \in Sessions :
  Steer(s) \/ SteerEnd(s)) \/ Cancel \/ JournalFails \/ BodyReturn \/ EndScope \/ CloseMark \/
  CloseStop \/ Stopped \/ (\E ok \in BOOLEAN : CloseEvent(ok) \/ RunEnds(ok))
<1>1. ASSUME Rest PROVE UNCHANGED <<pc, on, act, turn>>
  BY <1>1 DEF CancelTurn, Steer, SteerEnd, Cancel, JournalFails, BodyReturn, EndScope, CloseMark,
    CloseStop, StopNative, Stopped, vars, CloseEvent, RunEnds
<1>2. ASSUME NEW c \in Callers, NewSession(c) PROVE AnyStay
  <2>8. Stays(c)
    BY <1>2, NewSessionEffect DEF Stays, Turning, Creating, IsFork, Opening, OpenPlaces, TurnPlaces
  <2> QED
    BY <1>2, <2>8, NewSessionEffect, SameStays DEF Others
<1>3. ASSUME NEW c \in Callers, Adopt(c) PROVE AnyStay
  <2>8. Stays(c)
    BY <1>3, AdoptEffect DEF Stays, Turning, Creating, IsFork, Opening, OpenPlaces, TurnPlaces
  <2> QED
    BY <1>3, <2>8, AdoptEffect, SameStays DEF Others
<1>4. ASSUME NEW c \in Callers, Restore(c) PROVE AnyStay
  <2>8. Stays(c)
    BY <1>4, RestoreEffect DEF Stays, Turning, Creating, IsFork, Opening, OpenPlaces, TurnPlaces
  <2> QED
    BY <1>4, <2>8, RestoreEffect, SameStays DEF Others
<1>5. ASSUME NEW c \in Callers, OpenAdmit(c) PROVE AnyStay
  <2>8. Stays(c)
    BY <1>5, OpenAdmitEffect DEF Stays, Turning, Creating, IsFork, Opening, OpenPlaces, TurnPlaces,
      OpenFailed
  <2> QED
    BY <1>5, <2>8, OpenAdmitEffect, SameStays DEF Others
<1>6. ASSUME NEW c \in Callers, OpenSend(c) PROVE AnyStay
  <2>8. Stays(c)
    BY <1>6, OpenSendEffect DEF Stays, Turning, Creating, IsFork, Opening, OpenPlaces, TurnPlaces
  <2> QED
    BY <1>6, <2>8, OpenSendEffect, SameStays DEF Others
<1>7. ASSUME NEW c \in Callers, AdoptNative(c) PROVE AnyStay
  <2>8. Stays(c)
    BY <1>7, AdoptNativeEffect DEF Stays, Turning, Creating, IsFork, Opening, OpenPlaces, TurnPlaces
  <2> QED
    BY <1>7, <2>8, AdoptNativeEffect, SameStays DEF Others
<1>8. ASSUME NEW c \in Callers, StopLate(c) PROVE AnyStay
  <2>8. Stays(c)
    BY <1>8, StopLateEffect DEF Stays, Turning, Creating, IsFork, Opening, OpenPlaces, TurnPlaces,
      OpenFailed
  <2> QED
    BY <1>8, <2>8, StopLateEffect, SameStays DEF Others
<1>9. ASSUME NEW c \in Callers, TurnRefused(c) PROVE AnyStay
  <2>8. Stays(c)
    BY <1>9, TurnRefusedEffect DEF Stays, Turning, Creating, IsFork, Opening, OpenPlaces, TurnPlaces
  <2> QED
    BY <1>9, <2>8, TurnRefusedEffect, SameStays DEF Others
<1>10. ASSUME NEW c \in Callers, StartTurn(c) PROVE AnyStay
  BY <1>10
<1>11. ASSUME NEW c \in Callers, TurnAdmit(c) PROVE AnyStay
  <2>8. Stays(c)
    BY <1>11, TurnAdmitEffect DEF Stays, Turning, Creating, IsFork, Opening, OpenPlaces, TurnPlaces
  <2> QED
    BY <1>11, <2>8, TurnAdmitEffect, SameStays DEF Others
<1>12. ASSUME NEW c \in Callers, TurnSend(c) PROVE AnyStay
  <2>8. Stays(c)
    BY <1>12, TurnSendEffect DEF Stays, Turning, Creating, IsFork, Opening, OpenPlaces, TurnPlaces
  <2> QED
    BY <1>12, <2>8, TurnSendEffect, SameStays DEF Others
<1>13. ASSUME NEW c \in Callers, Settle(c) PROVE AnyStay
  <2>8. Stays(c)
    BY <1>13, SettleEffect DEF Stays, Turning, Creating, IsFork, Opening, OpenPlaces, TurnPlaces
  <2> QED
    BY <1>13, <2>8, SettleEffect, SameStays DEF Others
<1>14. ASSUME NEW c \in Callers, EndTurn(c) PROVE AnyStay
  <2>8. Stays(c)
    BY <1>14, EndTurnEffect DEF Stays, Turning, Creating, IsFork, Opening, OpenPlaces, TurnPlaces
  <2> QED
    BY <1>14, <2>8, EndTurnEffect, SameStays DEF Others
<1>15. ASSUME NEW c \in Callers, NEW ok \in BOOLEAN, ForkIntent(c, ok) PROVE AnyStay
  <2>1. on[c] \in Sessions /\ ForkNode(on[c])[1] = on[c] /\ ForkNode(on[c])[2] = "fork"
    BY <1>15, InCall, OtherNodes DEF ForkIntent
  <2>8. Stays(c)
    BY <1>15, ForkIntentEffect, <2>1 DEF Stays, Turning, Creating, IsFork, Opening, OpenPlaces,
      TurnPlaces
  <2> QED
    BY <1>15, <2>8, ForkIntentEffect, SameStays DEF Others
<1>16. ASSUME NEW c \in Callers, NEW ok \in BOOLEAN, Create(c, ok) PROVE AnyStay
  BY <1>16
<1>17. ASSUME NEW c \in Callers, NEW ok \in BOOLEAN, OpenFinish(c, ok) PROVE AnyStay
  <2>8. Stays(c)
    BY <1>17, OpenFinishEffect DEF Stays, Turning, Creating, IsFork, Opening, OpenPlaces, TurnPlaces
  <2> QED
    BY <1>17, <2>8, OpenFinishEffect, SameStays DEF Others
<1>18. ASSUME NEW c \in Callers, NEW ok \in BOOLEAN, Bind(c, ok) PROVE AnyStay
  <2>8. Stays(c)
    BY <1>18, BindEffect DEF Stays, Turning, Creating, IsFork, Opening, OpenPlaces, TurnPlaces,
      OpenFailed
  <2> QED
    BY <1>18, <2>8, BindEffect, SameStays DEF Others
<1>19. ASSUME NEW c \in Callers, NEW ok \in BOOLEAN, TurnIntent(c, ok) PROVE AnyStay
  <2>8. Stays(c)
    BY <1>19, TurnIntentEffect DEF Stays, Turning, Creating, IsFork, Opening, OpenPlaces, TurnPlaces
  <2> QED
    BY <1>19, <2>8, TurnIntentEffect, SameStays DEF Others
<1>20. ASSUME NEW c \in Callers, NEW ok \in BOOLEAN, TurnFinish(c, ok) PROVE AnyStay
  <2>8. Stays(c)
    BY <1>20, TurnFinishEffect DEF Stays, Turning, Creating, IsFork, Opening, OpenPlaces, TurnPlaces
  <2> QED
    BY <1>20, <2>8, TurnFinishEffect, SameStays DEF Others
<1>21. ASSUME NEW c \in Callers, NEW a \in CreateAnswers, NEW id \in {NoNative, Len(closes) + 1},
  OpenReturn(c, a, id)
  PROVE AnyStay
  <2>8. Stays(c)
    BY <1>21, OpenReturnEffect DEF Stays, Turning, Creating, IsFork, Opening, OpenPlaces, TurnPlaces
  <2> QED
    BY <1>21, <2>8, OpenReturnEffect, SameStays DEF Others
<1>22. ASSUME NEW c \in Callers, NEW a \in AllAnswers, TurnReturn(c, a) PROVE AnyStay
  <2>8. Stays(c)
    BY <1>22, TurnReturnEffect DEF Stays, Turning, Creating, IsFork, Opening, OpenPlaces, TurnPlaces
  <2> QED
    BY <1>22, <2>8, TurnReturnEffect, SameStays DEF Others
<1>23. ASSUME NEW c \in Callers, NEW b \in Branches, Fork(c, b) PROVE AnyStay
  <2>8. Stays(c)
    BY <1>23, ForkEffect DEF Stays, Turning, Creating, IsFork, Opening, OpenPlaces, TurnPlaces
  <2> QED
    BY <1>23, <2>8, ForkEffect, SameStays DEF Others
<1>24. ASSUME NEW c \in Callers, NEW s \in Sessions, Generate(c, s) PROVE AnyStay
  <2>8. Stays(c)
    BY <1>24, GenerateEffect DEF Stays, Turning, Creating, IsFork, Opening, OpenPlaces, TurnPlaces
  <2> QED
    BY <1>24, <2>8, GenerateEffect, SameStays DEF Others
<1>25. ASSUME Reenter PROVE AnyStay
  BY <1>25
<1>26. CASE Rest
  <2>1. UNCHANGED <<pc, on, act, turn>>
    BY <1>1, <1>26
  <2> QED
    BY <2>1 DEF Stays, Turning, Creating, IsFork
<1> QED
  BY <1>2, <1>3, <1>4, <1>5, <1>6, <1>7, <1>8, <1>9, <1>10, <1>11, <1>12, <1>13, <1>14, <1>15,
    <1>16, <1>17, <1>18, <1>19, <1>20, <1>21, <1>22, <1>23, <1>24, <1>25, <1>26 DEF Next,
    CallerStep, OpenStep, TurnStep, BodyCall, ScopeStep

\* What is under way is counted, unsettled and under way once.
LEMMA StepFresh == IInv /\ [Next]_vars => FreshInv' /\ ApartInv'
<1> SUFFICES ASSUME IInv, [Next]_vars PROVE FreshInv' /\ ApartInv'
  OBVIOUS
<1>0. /\ StoreTypes /\ SessionTypes /\ CallTypes /\ CallInv /\ FreshInv /\ ApartInv
      /\ SessionTypes' /\ CallTypes'
  BY StepSession, StepCall DEF IInv, TypeOK
<1>1. CASE Reenter
  BY <1>1 DEF Reenter, All, FreshInv, FreshOK, ApartInv, ApartOK, Turning, Creating, TurnPlaces, OpenPlaces, Opening
<1>2. ASSUME Counts, NEW c \in Callers, StartTurn(c) PROVE FreshInv' /\ ApartInv'
  <2>1. on[c] \in Sessions /\ Others(c) /\ Quiet
    <3>1. UNCHANGED journal
      BY <1>2, StartTurnEffect
    <3> QED
      BY <1>2, <3>1, InCall, StartTurnEffect, JournalGrows DEF Quiet, Places
  <2> DEFINE n == TurnNode(on[c], gen[c], turns[on[c]] + 1)
  <2>2. n \in Nodes /\ n[1] = on[c] /\ n[2] = "turn" /\ n[4] = turns[on[c]] + 1 /\ turns[on[c]] \in Nat
    <3>1. turns[on[c]] \in Nat /\ gen[c] \in Nat
      BY <1>0, <2>1 DEF CallTypes, SessionTypes
    <3> QED
      BY <2>1, <3>1 DEF TurnNode, Nodes
  <2>3. turn'[c] = n /\ on'[c] = on[c] /\ turns'[on[c]] = turns[on[c]] + 1
    BY <1>0, <1>2, <2>1, StartTurnEffect DEF SessionTypes
  <2>4. pc'[c] \in {"return", "create", "prompt"} /\ (pc'[c] # "return" => ~Saved(n))
    BY <1>2, StartTurnEffect
  <2> HIDE DEF n
  <2>5. ~Creating(c)' /\ (Turning(c)' => pc'[c] # "return")
    BY <2>4 DEF Creating, Turning, Opening, OpenPlaces, TurnPlaces
  <2>6. pc'[c] # "return" => ~NextSettled(n)
    BY <2>1, <2>2, <2>4, NewOrdinalIsFresh, QuietSettles
  <2>7. FreshOK(c)'
    <3>1. Turning(c)' => turn'[c][4] <= turns'[on'[c]] /\ ~NextSettled(turn'[c])
      BY <2>2, <2>3, <2>5, <2>6
    <3> QED
      BY <2>5, <3>1 DEF FreshOK, Settled, NextSettled, IsOutcome, OutcomeKinds, Places
  <2>8. ASSUME NEW d \in Callers, d # c PROVE FreshOK(d)' /\ ApartOK(c, d)' /\ ApartOK(d, c)'
    <3>1. Same(d) /\ FreshOK(d)
      BY <1>0, <2>1, <2>8 DEF Others, FreshInv
    <3>2. FreshOK(d)'
      BY <1>0, <1>2, <2>1, <3>1, SameStays, StaysFresh, QuietSpares
    <3>3. turn[d][4] \in Nat
      BY <1>0, NodeParts DEF CallTypes
    <3>4. on[d] = on[c] /\ Turning(d) => turn[d][4] <= turns[on[c]]
      BY <3>1 DEF FreshOK
    <3>5. on'[d] = on'[c] /\ Turning(d)' => turn'[d][4] # turn'[c][4]
      <4>1. (Turning(d)' <=> Turning(d)) /\ turn'[d] = turn[d] /\ on'[d] = on[d]
        BY <3>1, SameStays DEF Same
      <4>2. turn'[c][4] = turns[on[c]] + 1
        BY <2>2, <2>3
      <4> QED
        BY <2>2, <2>3, <3>3, <3>4, <4>1, <4>2
    <3> QED
      BY <2>5, <3>2, <3>5 DEF ApartOK
  <2> QED
    BY <1>0, <2>1, <2>7, <2>8, SameStays, StaysApart DEF FreshInv, ApartInv, Others
<1>3. ASSUME Counts, NEW c \in Callers, NEW ok \in BOOLEAN, Create(c, ok) PROVE FreshInv' /\ ApartInv'
  <2> DEFINE n == CreateNode(on[c], creates[on[c]] + 1)
  <2>1. on[c] \in Sessions /\ Others(c) /\ Quiet
    <3>1. Fact(n, "intent", "none", NoNative).kind \notin OutcomeKinds
      BY DEF Fact, OutcomeKinds
    <3> QED
      BY <1>0, <1>3, <3>1, InCall, CreateEffect, CreateWrites, QuietWrites
  <2>2. n \in Nodes /\ n[1] = on[c] /\ n[2] = "create" /\ n[4] = creates[on[c]] + 1 /\ creates[on[c]] \in Nat
    <3>1. creates[on[c]] \in Nat
      BY <1>0, <2>1 DEF SessionTypes
    <3> QED
      BY <2>1, <3>1 DEF CreateNode, Nodes
  <2>3. act'[c] = n /\ on'[c] = on[c] /\ turn'[c] = turn[c] /\ creates'[on[c]] = creates[on[c]] + 1
    BY <1>0, <1>3, <2>1, CreateEffect DEF SessionTypes
  <2>4. pc[c] = "create" /\ pc'[c] \in {"return", "adoptNative", "admit"} /\ (pc'[c] = "admit" => ~Saved(n))
    BY <1>3, CreateEffect
  <2> HIDE DEF n
  <2>5. Turning(c) /\ (Creating(c)' => pc'[c] = "admit")
    BY <2>4 DEF Creating, Turning, Opening, TurnPlaces
  <2>6. pc'[c] = "admit" => ~NextSettled(n)
    BY <2>1, <2>2, <2>4, NewOrdinalIsFresh, QuietSettles
  <2>7. FreshOK(c)'
    <3>1. Creating(c)' => act'[c][4] <= creates'[on'[c]] /\ ~NextSettled(act'[c])
      BY <2>2, <2>3, <2>5, <2>6
    <3>2. turn'[c][4] <= turns'[on'[c]] /\ ~NextSettled(turn'[c])
      <4>1. turn[c][4] <= turns[on[c]] /\ ~Settled(turn[c])
        BY <1>0, <2>5 DEF FreshInv, FreshOK
      <4>2. turns' = turns
        BY <1>3, CreateEffect
      <4> QED
        BY <2>1, <2>3, <4>1, <4>2, QuietSettles
    <3> QED
      BY <3>1, <3>2 DEF FreshOK, Settled, NextSettled, IsOutcome, OutcomeKinds, Places
  <2>8. ASSUME NEW d \in Callers, d # c PROVE FreshOK(d)' /\ ApartOK(c, d)' /\ ApartOK(d, c)'
    <3>1. Same(d) /\ FreshOK(d) /\ ApartOK(c, d)
      BY <1>0, <2>1, <2>8 DEF Others, FreshInv, ApartInv
    <3>2. FreshOK(d)'
      BY <1>0, <1>3, <2>1, <3>1, SameStays, StaysFresh, QuietSpares
    <3>3. act[d][4] \in Nat
      BY <1>0, NodeParts DEF CallTypes
    <3>4. on[d] = on[c] /\ Creating(d) => act[d][4] <= creates[on[c]]
      BY <3>1 DEF FreshOK
    <3>5. on'[d] = on'[c] /\ Creating(d)' => act'[d][4] # act'[c][4]
      <4>1. (Creating(d)' <=> Creating(d)) /\ act'[d] = act[d] /\ on'[d] = on[d]
        BY <3>1, SameStays DEF Same
      <4>2. act'[c][4] = creates[on[c]] + 1
        BY <2>2, <2>3
      <4> QED
        BY <2>2, <2>3, <3>3, <3>4, <4>1, <4>2
    <3>6. on'[d] = on'[c] /\ Turning(d)' => turn'[d][4] # turn'[c][4]
      BY <2>3, <2>5, <3>1, SameStays DEF Same, ApartOK
    <3> QED
      BY <3>2, <3>5, <3>6 DEF ApartOK
  <2> QED
    BY <1>0, <2>1, <2>7, <2>8, SameStays, StaysApart DEF FreshInv, ApartInv, Others
<1>4. ASSUME Counts, \A d \in Callers : Stays(d) PROVE FreshInv' /\ ApartInv'
  <2>1. CASE Quiet
    BY <1>0, <1>4, <2>1, QuietSpares, AllStay
  <2>2. ASSUME NEW c \in Callers, NEW ok \in BOOLEAN, OpenFinish(c, ok) PROVE \A d \in Callers : Spares(d)
    <3> SUFFICES ASSUME NEW d \in Callers PROVE Spares(d)
      OBVIOUS
    <3> DEFINE f == Outcome(act[c], ans[c], got[c])
    <3>1. Writes(f) /\ f.node = act[c]
      BY <2>2, OpenFinishWrites DEF Outcome, Fact
    <3>2. CallOK(c) /\ CallOK(d) /\ Stays(d) /\ pc[c] = "opened" /\ pc'[c] = "adoptNative"
      BY <1>0, <1>4, <2>2, OpenFinishEffect DEF CallInv
    <3>3. Turning(d)' => turn[d] # act[c]
      BY <3>2 DEF Stays, CallOK, OpenPlaces, Opening
    <3>4. Creating(d)' => act[d] # act[c]
      <4> SUFFICES ASSUME Creating(d)', act[d] = act[c] PROVE FALSE
        OBVIOUS
      <4>1. Creating(d) /\ d # c
        BY <3>2 DEF Stays, Creating, Opening
      <4>2. Creating(c) /\ on[c] = on[d]
        BY <3>2, <4>1 DEF CallOK, Creating, OpenPlaces, Opening, IsFork
      <4> QED
        BY <1>0, <4>1, <4>2 DEF ApartInv, ApartOK
    <3> HIDE DEF f
    <3> QED
      BY <1>0, <3>1, <3>3, <3>4, WritesSettle DEF Spares
  <2>3. ASSUME NEW c \in Callers, NEW ok \in BOOLEAN, TurnFinish(c, ok) PROVE \A d \in Callers : Spares(d)
    <3> SUFFICES ASSUME NEW d \in Callers PROVE Spares(d)
      OBVIOUS
    <3> DEFINE f == Outcome(turn[c], ans[c], NoNative)
    <3>1. Writes(f) /\ f.node = turn[c]
      BY <2>3, TurnFinishWrites DEF Outcome, Fact
    <3>2. CallOK(c) /\ CallOK(d) /\ Stays(d) /\ pc[c] = "finish" /\ pc'[c] = "return"
      BY <1>0, <1>4, <2>3, TurnFinishEffect DEF CallInv
    <3>3. Turning(c) /\ turn[c][1] = on[c] /\ turn[c][2] = "turn"
      BY <3>2 DEF CallOK, Turning, TurnPlaces
    <3>4. Turning(d)' => turn[d] # turn[c]
      <4> SUFFICES ASSUME Turning(d)', turn[d] = turn[c] PROVE FALSE
        OBVIOUS
      <4>1. Turning(d) /\ d # c
        BY <3>2 DEF Stays, Turning, TurnPlaces, OpenPlaces, Opening
      <4>2. on[c] = on[d]
        BY <3>2, <3>3, <4>1 DEF CallOK
      <4> QED
        BY <1>0, <3>3, <4>1, <4>2 DEF ApartInv, ApartOK
    <3>5. Creating(d)' => act[d] # turn[c]
      BY <3>2, <3>3 DEF Stays, CallOK, Creating, Opening, OpenPlaces, IsFork
    <3> HIDE DEF f
    <3> QED
      BY <1>0, <3>1, <3>4, <3>5, WritesSettle DEF Spares
  <2> QED
    BY <1>0, <1>4, <2>1, <2>2, <2>3, OutcomeSteps, AllStay
<1> QED
  BY <1>1, <1>2, <1>3, <1>4, StepStays, StepCounts

-----------------------------------------------------------------------------
(* Running turns *)

\* A session goes on running when its turn does.
LEMMA RunsOn ==
  ASSUME IInv, NEW c \in Callers, Others(c), UNCHANGED <<running, turnID, steering>>,
         \/ /\ on'[c] = on[c] /\ turn'[c] = turn[c]
            /\ ((Turning(c) /\ pc[c] # "finish") \/ pc[c] = "return") =>
                 ((Turning(c)' /\ pc'[c] # "finish") \/ pc'[c] = "return")
         \/ ~(Turning(c) /\ pc[c] # "finish") /\ pc[c] # "return"
  PROVE  RunningInv'
<1>1. RunningInv
  BY DEF IInv
<1> SUFFICES ASSUME NEW s \in Sessions, running[s] PROVE \E d \in Callers : RunsTurn(d, s)'
  BY <1>1 DEF RunningInv
<1>2. PICK d \in Callers : RunsTurn(d, s)
  BY <1>1 DEF RunningInv
<1>3. CASE d = c
  BY <1>2, <1>3 DEF RunsTurn
<1>4. CASE d # c
  <2>1. Same(d)
    BY <1>4 DEF Others
  <2>2. Turning(d)' <=> Turning(d)
    BY <2>1, SameStays
  <2>3. RunsTurn(d, s)'
    BY <1>2, <2>1, <2>2 DEF RunsTurn, Same
  <2> QED
    BY <2>3
<1> QED
  BY <1>3, <1>4

\* A running session has a turn that has not settled.
LEMMA StepRunning == IInv /\ [Next]_vars => RunningInv'
<1> SUFFICES ASSUME IInv, [Next]_vars PROVE RunningInv'
  OBVIOUS
<1> DEFINE Rest == UNCHANGED vars \/ (\E c \in Callers : CancelTurn(c)) \/ Cancel \/ JournalFails \/
  BodyReturn \/ EndScope \/ CloseMark \/ CloseStop \/ Stopped \/ (\E ok \in BOOLEAN : CloseEvent(ok)
  \/ RunEnds(ok))
<1>1. ASSUME Rest PROVE UNCHANGED <<pc, on, act, turn, running, turnID, steering>>
  BY <1>1 DEF CancelTurn, Cancel, JournalFails, BodyReturn, EndScope, CloseMark, CloseStop,
    StopNative, Stopped, vars, CloseEvent, RunEnds
<1>0. SessionTypes /\ CallInv /\ RunningInv
  BY DEF IInv, TypeOK
<1>2. ASSUME NEW c \in Callers, NewSession(c) PROVE RunningInv'
  BY <1>2, <1>0, NewSessionEffect, RunsOn DEF CallInv, CallOK, Turning, IsFork, Opening, OpenPlaces,
    TurnPlaces
<1>3. ASSUME NEW c \in Callers, Adopt(c) PROVE RunningInv'
  BY <1>3, <1>0, AdoptEffect, RunsOn DEF CallInv, CallOK, Turning, IsFork, Opening, OpenPlaces,
    TurnPlaces
<1>4. ASSUME NEW c \in Callers, Restore(c) PROVE RunningInv'
  BY <1>4, <1>0, RestoreEffect, RunsOn DEF CallInv, CallOK, Turning, IsFork, Opening, OpenPlaces,
    TurnPlaces
<1>5. ASSUME NEW c \in Callers, OpenAdmit(c) PROVE RunningInv'
  BY <1>5, <1>0, OpenAdmitEffect, RunsOn DEF CallInv, CallOK, Turning, IsFork, Opening, OpenPlaces,
    TurnPlaces, OpenFailed
<1>6. ASSUME NEW c \in Callers, OpenSend(c) PROVE RunningInv'
  BY <1>6, <1>0, OpenSendEffect, RunsOn DEF CallInv, CallOK, Turning, IsFork, Opening, OpenPlaces,
    TurnPlaces
<1>7. ASSUME NEW c \in Callers, AdoptNative(c) PROVE RunningInv'
  BY <1>7, <1>0, AdoptNativeEffect, RunsOn DEF CallInv, CallOK, Turning, IsFork, Opening, OpenPlaces,
    TurnPlaces
<1>8. ASSUME NEW c \in Callers, StopLate(c) PROVE RunningInv'
  BY <1>8, <1>0, StopLateEffect, RunsOn DEF CallInv, CallOK, Turning, IsFork, Opening, OpenPlaces,
    TurnPlaces, OpenFailed
<1>9. ASSUME NEW c \in Callers, TurnRefused(c) PROVE RunningInv'
  <2>1. Others(c) /\ UNCHANGED <<running, steering>> /\ pc[c] = "turn"
    BY <1>9, TurnRefusedEffect
  <2>2. \A s \in Sessions : running[s] => turnID'[s] = turnID[s]
    <3>1. turnID' = [turnID EXCEPT ![on[c]] = IF Refusal(on[c]) THEN turnID[on[c]] ELSE 0]
      BY <1>9, TurnRefusedEffect
    <3> QED
      BY <1>0, <3>1 DEF SessionTypes, Refusal
  <2>3. ASSUME NEW s \in Sessions, running[s] PROVE \E d \in Callers : RunsTurn(d, s)'
    <3>1. PICK d \in Callers : RunsTurn(d, s)
      BY <1>0, <2>3 DEF RunningInv
    <3>2. Same(d) /\ turnID'[s] = turnID[s]
      BY <2>1, <2>2, <2>3, <3>1 DEF Others, RunsTurn, Turning, TurnPlaces, OpenPlaces, Opening
    <3> QED
      BY <3>1, <3>2, SameStays DEF RunsTurn, Same
  <2> QED
    BY <1>0, <2>1, <2>3 DEF RunningInv
<1>10. ASSUME NEW c \in Callers, StartTurn(c) PROVE RunningInv'
  <2>1. on[c] \in Sessions /\ Others(c) /\ on'[c] = on[c] /\ UNCHANGED steering
    BY <1>10, InCall, StartTurnEffect
  <2>2. running' = [running EXCEPT ![on[c]] = TRUE] /\ turnID' = [turnID EXCEPT ![on[c]] = turns[on[c]] + 1]
    BY <1>10, StartTurnEffect
  <2>3. RunsTurn(c, on[c])'
    <3>1. turn'[c] = TurnNode(on[c], gen[c], turns[on[c]] + 1) /\ pc'[c] \in {"return", "create", "prompt"}
      BY <1>10, StartTurnEffect
    <3>2. turn'[c][4] = turns[on[c]] + 1 /\ turnID'[on[c]] = turns[on[c]] + 1
      BY <1>0, <2>1, <2>2, <3>1 DEF TurnNode, SessionTypes
    <3> QED
      BY <2>1, <3>1, <3>2 DEF RunsTurn, Turning, TurnPlaces
  <2>4. ASSUME NEW s \in Sessions, s # on[c], running[s] PROVE \E d \in Callers : RunsTurn(d, s)'
    <3>1. PICK d \in Callers : RunsTurn(d, s)
      BY <1>0, <2>4 DEF RunningInv
    <3>2. Same(d) /\ turnID'[s] = turnID[s]
      BY <1>0, <2>1, <2>2, <2>4, <3>1 DEF Others, RunsTurn, SessionTypes
    <3> QED
      BY <3>1, <3>2, SameStays DEF RunsTurn, Same
  <2>5. \A s \in Sessions : running'[s] => \E d \in Callers : RunsTurn(d, s)'
    BY <1>0, <2>1, <2>2, <2>3, <2>4 DEF SessionTypes
  <2>6. \A s \in Sessions : steering'[s] => running'[s]
    BY <1>0, <2>1, <2>2 DEF RunningInv, SessionTypes
  <2> QED
    BY <2>5, <2>6 DEF RunningInv
<1>11. ASSUME NEW c \in Callers, TurnAdmit(c) PROVE RunningInv'
  BY <1>11, <1>0, TurnAdmitEffect, RunsOn DEF CallInv, CallOK, Turning, IsFork, Opening, OpenPlaces,
    TurnPlaces
<1>12. ASSUME NEW c \in Callers, TurnSend(c) PROVE RunningInv'
  BY <1>12, <1>0, TurnSendEffect, RunsOn DEF CallInv, CallOK, Turning, IsFork, Opening, OpenPlaces,
    TurnPlaces
<1>13. ASSUME NEW c \in Callers, Settle(c) PROVE RunningInv'
  <2>1. on[c] \in Sessions /\ Others(c) /\ UNCHANGED steering /\ ~steering[on[c]]
    BY <1>13, InCall, SettleEffect
  <2>2. running' = [running EXCEPT ![on[c]] = FALSE] /\ turnID' = turnID
    BY <1>13, SettleEffect
  <2>3. ASSUME NEW s \in Sessions, s # on[c], running[s] PROVE \E d \in Callers : RunsTurn(d, s)'
    <3>1. PICK d \in Callers : RunsTurn(d, s)
      BY <1>0, <2>3 DEF RunningInv
    <3>2. Same(d) /\ turnID'[s] = turnID[s]
      BY <1>0, <2>1, <2>2, <2>3, <3>1 DEF Others, RunsTurn, SessionTypes
    <3> QED
      BY <3>1, <3>2, SameStays DEF RunsTurn, Same
  <2>4. \A s \in Sessions : running'[s] => \E d \in Callers : RunsTurn(d, s)'
    BY <1>0, <2>1, <2>2, <2>3 DEF SessionTypes
  <2>5. \A s \in Sessions : steering'[s] => running'[s]
    BY <1>0, <2>1, <2>2 DEF RunningInv, SessionTypes
  <2> QED
    BY <2>4, <2>5 DEF RunningInv
<1>14. ASSUME NEW c \in Callers, EndTurn(c) PROVE RunningInv'
  <2>1. on[c] \in Sessions /\ Others(c) /\ UNCHANGED steering /\ ~steering[on[c]]
    BY <1>14, InCall, EndTurnEffect
  <2>2. running' = [running EXCEPT ![on[c]] = FALSE] /\ turnID' = [turnID EXCEPT ![on[c]] = 0]
    BY <1>14, EndTurnEffect
  <2>3. ASSUME NEW s \in Sessions, s # on[c], running[s] PROVE \E d \in Callers : RunsTurn(d, s)'
    <3>1. PICK d \in Callers : RunsTurn(d, s)
      BY <1>0, <2>3 DEF RunningInv
    <3>2. Same(d) /\ turnID'[s] = turnID[s]
      BY <1>0, <2>1, <2>2, <2>3, <3>1 DEF Others, RunsTurn, SessionTypes
    <3> QED
      BY <3>1, <3>2, SameStays DEF RunsTurn, Same
  <2>4. \A s \in Sessions : running'[s] => \E d \in Callers : RunsTurn(d, s)'
    BY <1>0, <2>1, <2>2, <2>3 DEF SessionTypes
  <2>5. \A s \in Sessions : steering'[s] => running'[s]
    BY <1>0, <2>1, <2>2 DEF RunningInv, SessionTypes
  <2> QED
    BY <2>4, <2>5 DEF RunningInv
<1>15. ASSUME NEW c \in Callers, NEW ok \in BOOLEAN, ForkIntent(c, ok) PROVE RunningInv'
  BY <1>15, <1>0, ForkIntentEffect, RunsOn DEF CallInv, CallOK, Turning, IsFork, Opening, OpenPlaces,
    TurnPlaces
<1>16. ASSUME NEW c \in Callers, NEW ok \in BOOLEAN, Create(c, ok) PROVE RunningInv'
  <2>1. CreateNode(on[c], creates[on[c]] + 1)[2] = "create"
    BY DEF CreateNode
  <2> QED
    BY <1>16, <2>1, CreateEffect, RunsOn DEF Turning, IsFork, Opening, OpenPlaces, TurnPlaces
<1>17. ASSUME NEW c \in Callers, NEW ok \in BOOLEAN, OpenFinish(c, ok) PROVE RunningInv'
  BY <1>17, <1>0, OpenFinishEffect, RunsOn DEF CallInv, CallOK, Turning, IsFork, Opening, OpenPlaces,
    TurnPlaces
<1>18. ASSUME NEW c \in Callers, NEW ok \in BOOLEAN, Bind(c, ok) PROVE RunningInv'
  BY <1>18, <1>0, BindEffect, RunsOn DEF CallInv, CallOK, Turning, IsFork, Opening, OpenPlaces,
    TurnPlaces, OpenFailed
<1>19. ASSUME NEW c \in Callers, NEW ok \in BOOLEAN, TurnIntent(c, ok) PROVE RunningInv'
  BY <1>19, <1>0, TurnIntentEffect, RunsOn DEF CallInv, CallOK, Turning, IsFork, Opening, OpenPlaces,
    TurnPlaces
<1>20. ASSUME NEW c \in Callers, NEW ok \in BOOLEAN, TurnFinish(c, ok) PROVE RunningInv'
  BY <1>20, <1>0, TurnFinishEffect, RunsOn DEF CallInv, CallOK, Turning, IsFork, Opening, OpenPlaces,
    TurnPlaces
<1>21. ASSUME NEW c \in Callers, NEW a \in CreateAnswers, NEW id \in {NoNative, Len(closes) + 1},
  OpenReturn(c, a, id)
  PROVE RunningInv'
  BY <1>21, <1>0, OpenReturnEffect, RunsOn DEF CallInv, CallOK, Turning, IsFork, Opening, OpenPlaces,
    TurnPlaces
<1>22. ASSUME NEW c \in Callers, NEW a \in AllAnswers, TurnReturn(c, a) PROVE RunningInv'
  BY <1>22, <1>0, TurnReturnEffect, RunsOn DEF CallInv, CallOK, Turning, IsFork, Opening, OpenPlaces,
    TurnPlaces
<1>23. ASSUME NEW c \in Callers, NEW b \in Branches, Fork(c, b) PROVE RunningInv'
  BY <1>23, <1>0, ForkEffect, RunsOn DEF CallInv, CallOK, Turning, IsFork, Opening, OpenPlaces,
    TurnPlaces
<1>24. ASSUME NEW c \in Callers, NEW s \in Sessions, Generate(c, s) PROVE RunningInv'
  BY <1>24, <1>0, GenerateEffect, RunsOn DEF CallInv, CallOK, Turning, IsFork, Opening, OpenPlaces,
    TurnPlaces
<1>25. ASSUME NEW s \in Sessions, Steer(s) PROVE RunningInv'
  <2>1. UNCHANGED <<pc, on, act, turn, running, turnID>> /\ \A x \in Sessions : steering'[x] => running[x]
    BY <1>25, <1>0 DEF Steer, RunningInv, SessionTypes
  <2> QED
    BY <1>0, <2>1 DEF RunningInv, RunsTurn, Turning, IsFork
<1>26. ASSUME NEW s \in Sessions, SteerEnd(s) PROVE RunningInv'
  <2>1. UNCHANGED <<pc, on, act, turn, running, turnID>> /\ \A x \in Sessions : steering'[x] => running[x]
    BY <1>26, <1>0 DEF SteerEnd, RunningInv, SessionTypes
  <2> QED
    BY <1>0, <2>1 DEF RunningInv, RunsTurn, Turning, IsFork
<1>27. ASSUME Reenter PROVE RunningInv'
  BY <1>27 DEF Reenter, All, RunningInv
<1>28. CASE Rest
  <2>1. UNCHANGED <<pc, on, act, turn, running, turnID, steering>>
    BY <1>1, <1>28
  <2> QED
    BY <1>0, <2>1 DEF IInv, RunningInv, RunsTurn, Turning, IsFork
<1> QED
  BY <1>2, <1>3, <1>4, <1>5, <1>6, <1>7, <1>8, <1>9, <1>10, <1>11, <1>12, <1>13, <1>14, <1>15,
    <1>16, <1>17, <1>18, <1>19, <1>20, <1>21, <1>22, <1>23, <1>24, <1>25, <1>26, <1>27, <1>28 DEF
    Next, CallerStep, OpenStep, TurnStep, BodyCall, ScopeStep

-----------------------------------------------------------------------------
(* The theorems *)

\* The invariant holds initially.
LEMMA InitInv == Init => IInv
<1> SUFFICES ASSUME Init PROVE IInv
  OBVIOUS
<1>0. Main \in Sessions
  BY DEF Sessions
<1>1. NoNode \in Nodes /\ NoNative \in 0..0
  BY <1>0, OtherNodes DEF NoNative
<1>2. <<>> \in Seq(Facts) /\ <<>> \in Seq(Sessions) /\ <<>> \in Seq(Nat) /\ Len(<<>>) = 0
  OBVIOUS
<1>3. StoreTypes
  <2>1. journal = <<>> /\ loaded = 0 /\ poison = FALSE /\ recordErr = FALSE
    BY DEF Init
  <2>2. journal \in Seq(Facts)
    BY <1>2, <2>1
  <2>3. loaded \in 0..Len(journal)
    BY <1>2, <2>1
  <2> QED
    BY <2>1, <2>2, <2>3 DEF StoreTypes
<1>10. ScopeTypes
  BY <1>2 DEF Init, ScopeTypes
<1>9. WorldTypes
  BY <1>2 DEF Init, WorldTypes
<1>4. SessionTypes
  BY <1>1, <1>2 DEF Init, All, SessionTypes
<1>5. CallTypes
  BY <1>1, <1>2 DEF Init, All, CallTypes, Verdicts
<1>6. CallInv /\ CloseInv /\ JournalInv /\ IntentInv /\ SentInv
  BY <1>2 DEF Init, All, CallInv, CallOK, CloseInv, JournalInv, IntentInv, IntentOK, SentInv, Places, Turning,
    OpenPlaces, Opening, TurnPlaces
<1>7. LastInv /\ CountedInv /\ FreshInv /\ ApartInv /\ RunningInv
  BY <1>2 DEF Init, All, LastInv, CountedInv, FreshInv, FreshOK, ApartInv, ApartOK, RunningInv, Places, Turning,
    Creating, OpenPlaces, Opening, TurnPlaces
<1>8. CallsAreRight
  BY DEF Init, CallsAreRight, IntentFirst, CompletedNotRepeated, RepeatIsAnnounced
<1> QED
  BY <1>3, <1>4, <1>5, <1>6, <1>7, <1>8, <1>9, <1>10 DEF IInv, TypeOK

\* Every step preserves it.
LEMMA StepInv == IInv /\ [Next]_vars => IInv'
<1> SUFFICES ASSUME IInv, [Next]_vars PROVE IInv'
  OBVIOUS
<1>1. TypeOK'
  BY StepStore, StepScope, StepSession, StepCall, StepWorld DEF TypeOK
<1>2. CallInv' /\ CloseInv' /\ JournalInv' /\ IntentInv' /\ SentInv'
  BY StepCallInv, StepCloseInv, StepJournalInv, StepIntents, StepSent
<1>3. LastInv' /\ CountedInv' /\ FreshInv' /\ ApartInv' /\ RunningInv' /\ CallsAreRight'
  BY StepLast, StepCounted, StepFresh, StepRunning, StepCallsAreRight
<1> QED
  BY <1>1, <1>2, <1>3 DEF IInv

\* The invariant holds in every reachable state.
LEMMA Invariant == Spec => []IInv
<1>1. Init => IInv
  BY InitInv
<1>2. IInv /\ [Next]_vars => IInv'
  BY StepInv
<1> QED
  BY <1>1, <1>2, PTL DEF Spec

\* The engine and its journal keep their types: whatever a re-entry restores from
\* the journal names a native session that the adapter made.
THEOREM TypeCorrect == Spec => []TypeOK
<1>1. IInv => TypeOK
  BY DEF IInv
<1> QED
  BY <1>1, Invariant, PTL

\* prepareAction commits before the adapter is called: whatever Append fails and
\* whoever dies, no native session is made and no turn is run without its intent.
THEOREM IntentIsFirst == Spec => []IntentFirst
<1>1. IInv => IntentFirst
  BY DEF IInv, CallsAreRight
<1> QED
  BY <1>1, Invariant, PTL

\* A create or a turn whose outcome is in the journal is never called again, by any
\* goroutine of any later process.
THEOREM SettledIsNotRepeated == Spec => []CompletedNotRepeated
<1>1. IInv => CompletedNotRepeated
  BY DEF IInv, CallsAreRight
<1> QED
  BY <1>1, Invariant, PTL

\* A turn that an earlier process may have run is run with reconstructing set.
THEOREM RepeatsAreAnnounced == Spec => []RepeatIsAnnounced
<1>1. IInv => RepeatIsAnnounced
  BY DEF IInv, CallsAreRight
<1> QED
  BY <1>1, Invariant, PTL

\* While a Steer is under way, the turn it was sent into has not settled.
THEOREM SteersSettleFirst == Spec => []SteerSettlesFirst
<1>1. IInv => SteerSettlesFirst
  <2> SUFFICES ASSUME IInv, NEW s \in Sessions, steering[s]
               PROVE  \E c \in Callers : /\ on[c] = s /\ turn[c][4] = turnID[s]
                                         /\ pc[c] \notin {"idle", "turn", "finish"}
    BY DEF SteerSettlesFirst
  <2>1. PICK c \in Callers : RunsTurn(c, s)
    BY DEF IInv, RunningInv
  <2> QED
    BY <2>1 DEF RunsTurn, Turning, TurnPlaces, OpenPlaces, Opening
<1> QED
  BY <1>1, Invariant, PTL
=============================================================================
