---------------------- MODULE SessionConversationProofs ----------------------
(***************************************************************************)
(* The conversation of the main session survives its processes: over any   *)
(* number of re-entries, whatever fails or is cancelled on the way, all    *)
(* its turns go to one native session.  The journal decides which: the one *)
(* that was bound, or else the first whose creation was answered with it.  *)
(***************************************************************************)
EXTENDS SessionNativeProofs

-----------------------------------------------------------------------------
(* The inductive invariant: the conversation of the main session *)

\* The outcomes in the journal of its k-th creation.  One that was answered and is
\* valid alone names its native session to every later process; one that was
\* answered and is not is passed over by all of them.
Outcomes(k) == {i \in Places : IsOutcome(i) /\ journal[i].node = CreateNode(Main, k)}
Good(k, n) ==
  /\ \E i \in Outcomes(k) : journal[i].native = n
  /\ \A i \in Outcomes(k) : journal[i].res = "valid"
Bad(k) ==
  /\ \E i \in Outcomes(k) : journal[i].res # "uncertain"
  /\ \E i \in Outcomes(k) : journal[i].res # "valid"
Tried(k) == \A j \in 1..k : Bad(j)

\* The native session that its turns go to: the one bound, or the first that was made.
IsBinding(i) == journal[i].kind = "native-binding" /\ journal[i].node[1] = Main
Bound == \E i \in Places : IsBinding(i)
Conversation(n) ==
  /\ \A i \in Places : IsBinding(i) => journal[i].native = n
  /\ Bound \/ \E k \in Nat : Good(k, n)

\* A creation is only answered when all before it were passed over.
OrderInv == \A k \in Nat : Outcomes(k) # {} => k # 0 /\ Tried(k - 1)

\* Its bindings are one, and an earlier process made them if the session has none.
BindingInv ==
  /\ \A i, j \in Places : IsBinding(i) /\ IsBinding(j) => journal[i].native = journal[j].native
  /\ \A i \in Places : IsBinding(i) =>
       /\ journal[i].native # NoNative
       /\ native[Main] # NoNative \/ (i <= loaded /\ born[Main] \in {"no", "adopted"})

\* All its turns were sent to it.
SentToInv == \A m \in sent : m.node[2] = "turn" /\ m.node[1] = Main => Conversation(m.native)

\* Who creates the native session of the main session, and what it knows.
Creator(c) == Creates(c) /\ on[c] = Main
Answered(c) ==
  /\ ans[c] \in AllCreateAnswers \cup {"saved"}
  /\ ans[c] = "rejected" => got[c] = NoNative
  /\ ans[c] = "saved" => Good(creates[Main], got[c])
  /\ ans[c] # "saved" /\ ~recorded[c] => recordErr
  /\ ans[c] # "saved" /\ recorded[c] =>
       /\ Tried(creates[Main] - 1)
       /\ \A k \in Nat : Outcomes(k) # {} => k <= creates[Main]
       /\ \E i \in Outcomes(creates[Main]) : journal[i].res = ans[c] /\ journal[i].native = got[c]
CreatorOK(c) ==
  Creator(c) =>
    /\ ~Bound /\ ~createErr[Main]
    /\ pc[c] # "create" => act[c] = CreateNode(Main, creates[Main]) /\ creates[Main] # 0
    /\ pc[c] = "admit" => Tried(creates[Main] - 1) \/ closed[Main] \/ cancelled
    /\ pc[c] \in {"open", "opening", "opened"} => Tried(creates[Main] - 1)
    /\ pc[c] = "opened" => (ans[c] = "rejected" => got[c] = NoNative)
    /\ pc[c] \in {"adoptNative", "stopLate", "bind"} => Answered(c)
CreatorInv == \A c \in Callers : CreatorOK(c)

\* A session that has none passed over all its creations, unless it is not used any
\* more; one that has one has the one of the conversation.
Sick == createErr[Main] \/ recordErr \/ closed[Main]
MainInv ==
  /\ born[Main] = "no" => creates[Main] = 0
  /\ native[Main] = NoNative =>
       Tried(creates[Main]) \/ Sick \/ cancelled \/ \E c \in Callers : Creator(c) /\ pc[c] # "create"
  /\ native[Main] # NoNative =>
       Conversation(native[Main]) \/ Sick \/ \E c \in Callers : Creator(c) /\ pc[c] \in {"stopLate", "bind"}

\* So has a turn that is about to be sent.
TurnOK(c) == pc[c] \in {"prompt", "turnAdmit", "send"} /\ on[c] = Main => Conversation(nat[c])
TurnInv == \A c \in Callers : TurnOK(c)

ConvInv == OrderInv /\ BindingInv /\ SentToInv /\ CreatorInv /\ MainInv /\ TurnInv
CInv == NInv /\ ConvInv

\* The abbreviations of tuples of variables.
USE DEF storeVars, endVars, scopeVars, counters, turnVars, sessionVars,
  argVars, resultVars, tries, callVars, worldVars

-----------------------------------------------------------------------------
(* What the journal says of the conversation *)

\* A creation that is valid alone is answered and not passed over.
LEMMA GoodIsAnswered ==
  ASSUME NEW k, NEW n, Good(k, n)
  PROVE  ~Bad(k) /\ Outcomes(k) # {}
BY DEF Good, Bad

\* A creation that is passed over is settled.
LEMMA BadIsSettled ==
  ASSUME NEW k, Bad(k)
  PROVE  Settled(CreateNode(Main, k)) /\ Outcomes(k) # {}
BY DEF Bad, Outcomes, Settled

\* A creation has one ordinal.
LEMMA CreateOrdinal ==
  ASSUME NEW k, NEW j, CreateNode(Main, k) = CreateNode(Main, j)
  PROVE  k = j
<1>1. CreateNode(Main, k)[4] = k /\ CreateNode(Main, j)[4] = j
  BY DEF CreateNode
<1> QED
  BY <1>1

\* Two outcomes of a creation do not both settle it.
LEMMA OneSettles ==
  ASSUME IInv, NEW k, NEW i \in Outcomes(k), NEW j \in Outcomes(k),
         journal[i].res # "uncertain", journal[j].res # "uncertain"
  PROVE  i = j
<1>1. /\ LastInv /\ i \in Places /\ j \in Places /\ IsOutcome(i) /\ IsOutcome(j)
      /\ journal[i].node = journal[j].node
  BY DEF IInv, Outcomes
<1>2. journal[i].node[2] = "create" /\ journal[j].node[2] = "create"
  BY DEF Outcomes, CreateNode
<1>3. i \in Nat /\ j \in Nat
  BY <1>1 DEF Places
<1> QED
  BY <1>1, <1>2, <1>3 DEF LastInv

\* What is in the journal on the main session: outcomes of its creations and bindings.
Telling(f) ==
  /\ f.node[1] = Main
  /\ (f.kind \in OutcomeKinds /\ f.node[2] = "create") \/ f.kind = "native-binding"

\* The journal grows by nothing of the kind.
MainQuiet ==
  /\ Grows
  /\ \A i \in 1..Len(journal') : i \notin Places => ~Telling(journal'[i])

\* An Append of another fact is such a step.
LEMMA WritesQuiet ==
  ASSUME StoreTypes, NEW f, Writes(f), ~Telling(f)
  PROVE  MainQuiet
<1>1. Grows
  BY WritesGrows
<1>2. ASSUME NEW i \in 1..Len(journal'), i \notin Places PROVE journal'[i] = f
  BY <1>2 DEF Writes, Places, StoreTypes
<1> QED
  BY <1>1, <1>2 DEF MainQuiet

\* So is a step that leaves the journal alone.
LEMMA SameQuiet ==
  ASSUME Grows, journal' = journal
  PROVE  MainQuiet
BY DEF MainQuiet, Places

\* Then the journal says of the conversation what it said.
LEMMA QuietOutcomes ==
  ASSUME StoreTypes, MainQuiet, NEW k
  PROVE  Outcomes(k)' = Outcomes(k) /\ \A i \in Outcomes(k) : journal'[i] = journal[i]
<1>1. ASSUME NEW i \in Outcomes(k) PROVE i \in Outcomes(k)' /\ journal'[i] = journal[i]
  BY DEF MainQuiet, Grows, Outcomes, IsOutcome, Places, StoreTypes
<1>2. ASSUME NEW i \in Outcomes(k)' PROVE i \in Outcomes(k)
  <2>1. i \in 1..Len(journal') /\ journal'[i].kind \in OutcomeKinds /\ journal'[i].node = CreateNode(Main, k)
    BY DEF Outcomes, IsOutcome, Places, OutcomeKinds
  <2>2. Telling(journal'[i])
    BY <2>1 DEF Telling, CreateNode
  <2>3. i \in Places /\ journal'[i] = journal[i]
    BY <2>1, <2>2 DEF MainQuiet, Grows
  <2> QED
    BY <2>1, <2>3 DEF Outcomes, IsOutcome, OutcomeKinds
<1> QED
  BY <1>1, <1>2

\* The same of the bindings.
LEMMA QuietBindings ==
  ASSUME StoreTypes, MainQuiet, NEW i
  PROVE  /\ i \in Places' /\ IsBinding(i)' <=> i \in Places /\ IsBinding(i)
         /\ i \in Places => journal'[i] = journal[i]
<1>1. i \in Places => i \in Places' /\ journal'[i] = journal[i]
  BY DEF MainQuiet, Grows, Places, StoreTypes
<1>2. ASSUME i \in Places', IsBinding(i)' PROVE i \in Places
  BY <1>2 DEF MainQuiet, Telling, IsBinding, Places
<1> QED
  BY <1>1, <1>2 DEF IsBinding

\* So all that is derived from them stays.
LEMMA Untold ==
  ASSUME StoreTypes, MainQuiet
  PROVE  /\ \A k : Outcomes(k)' = Outcomes(k) /\ (Bad(k)' <=> Bad(k)) /\ (Tried(k)' <=> Tried(k))
         /\ \A k, n : Good(k, n)' <=> Good(k, n)
         /\ Bound' <=> Bound
         /\ \A n : Conversation(n)' <=> Conversation(n)
<1>1. ASSUME NEW k PROVE Outcomes(k)' = Outcomes(k) /\ (Bad(k)' <=> Bad(k))
  BY QuietOutcomes DEF Bad
<1>2. ASSUME NEW k PROVE Tried(k)' <=> Tried(k)
  BY <1>1 DEF Tried
<1>3. ASSUME NEW k, NEW n PROVE Good(k, n)' <=> Good(k, n)
  BY QuietOutcomes DEF Good
<1>4. Bound' <=> Bound
  BY QuietBindings DEF Bound
<1>5. ASSUME NEW n PROVE Conversation(n)' <=> Conversation(n)
  BY <1>3, <1>4, QuietBindings DEF Conversation
<1> QED
  BY <1>1, <1>2, <1>3, <1>4, <1>5

\* A creation an earlier process has an answer for is answered with its native
\* session if it was valid alone, and is passed over if not.
LEMMA SavedCreation ==
  ASSUME IInv, NEW k \in Nat, Saved(CreateNode(Main, k))
  PROVE  IF SavedVerdict(CreateNode(Main, k)) = "ok"
         THEN Good(k, SavedNative(CreateNode(Main, k)))
         ELSE Bad(k)
<1> DEFINE n == CreateNode(Main, k)
           S == SavedOutcomes(n)
<1>1. StoreTypes /\ LastInv /\ n \in Nodes /\ n[2] = "create"
  BY CallNodes DEF IInv, TypeOK, Sessions
<1>2. S \subseteq 1..loaded /\ S # {} /\ S \subseteq Outcomes(k)
  BY <1>1 DEF Saved, SavedOutcomes, Outcomes, IsOutcome, Places, StoreTypes
<1>3. Max(S) \in S /\ Max(S) \in Places /\ \A i \in S : i <= Max(S)
  <2> HIDE DEF S
  <2> QED
    BY <1>1, <1>2, LatestPlace
<1>4. journal[Max(S)].res # "uncertain"
  BY DEF Saved, Latest
<1>5. ASSUME NEW i \in Outcomes(k) PROVE i \in S
  <2>1. i \in Places /\ IsOutcome(i) /\ journal[i].node = n
    BY DEF Outcomes
  <2>2. Max(S) \in Outcomes(k)
    BY <1>2, <1>3
  <2>3. Max(S) \in Places /\ IsOutcome(Max(S)) /\ journal[Max(S)].node = n
    BY <2>2 DEF Outcomes
  <2>4. ~(Max(S) < i)
    BY <1>1, <1>4, <2>1, <2>3 DEF LastInv
  <2>5. i \in 1..loaded
    BY <1>1, <1>2, <1>3, <2>1, <2>4 DEF Places, StoreTypes
  <2> QED
    BY <2>1, <2>5 DEF SavedOutcomes, IsOutcome
<1>6. CASE SavedVerdict(n) = "ok"
  <2>1. Failing(S) = {} /\ journal[Max(S)].res # "undecodable"
    BY <1>6 DEF SavedVerdict, Latest
  <2>2. ASSUME NEW i \in Outcomes(k) PROVE journal[i].res = "valid"
    <3>1. journal[i].res \in {"valid", "undecodable"}
      BY <1>5, <2>1 DEF Failing
    <3>2. i = Max(S)
      BY <1>2, <1>3, <1>4, <3>1, OneSettles
    <3> QED
      BY <2>1, <3>1, <3>2
  <2>3. journal[Max(S)].native = SavedNative(n)
    BY DEF SavedNative, Latest
  <2> QED
    BY <1>2, <1>3, <1>6, <2>2, <2>3 DEF Good
<1>7. CASE SavedVerdict(n) # "ok"
  <2>1. Failing(S) # {} \/ journal[Max(S)].res = "undecodable"
    BY <1>7 DEF SavedVerdict, Latest
  <2>2. \E i \in S : journal[i].res # "valid"
    BY <1>3, <2>1 DEF Failing
  <2> QED
    BY <1>2, <1>3, <1>4, <1>7, <2>2 DEF Bad
<1> QED
  BY <1>6, <1>7

\* At most one creation is valid alone, and with one native session.
LEMMA OneGood ==
  ASSUME IInv, OrderInv, NEW k \in Nat, NEW j \in Nat, NEW n, NEW m, Good(k, n), Good(j, m)
  PROVE  k = j /\ n = m
<1>1. k # 0 /\ j # 0 /\ Tried(k - 1) /\ Tried(j - 1) /\ ~Bad(k) /\ ~Bad(j)
  BY GoodIsAnswered DEF OrderInv
<1>2. ~(k < j)
  <2>1. k < j => k \in 1..(j - 1)
    BY <1>1
  <2> QED
    BY <1>1, <2>1 DEF Tried
<1>3. ~(j < k)
  <2>1. j < k => j \in 1..(k - 1)
    BY <1>1
  <2> QED
    BY <1>1, <2>1 DEF Tried
<1>4. k = j
  BY <1>2, <1>3
<1>5. PICK x \in Outcomes(k) : journal[x].native = n /\ journal[x].res = "valid"
  BY DEF Good
<1>6. PICK y \in Outcomes(k) : journal[y].native = m /\ journal[y].res = "valid"
  BY <1>4 DEF Good
<1>7. x = y
  BY <1>5, <1>6, OneSettles
<1> QED
  BY <1>4, <1>5, <1>6, <1>7

\* The conversation of the main session is with one native session.
LEMMA OneConversation ==
  ASSUME IInv, OrderInv, NEW n, NEW m, Conversation(n), Conversation(m)
  PROVE  n = m
<1>1. CASE Bound
  BY <1>1 DEF Conversation, Bound
<1>2. CASE ~Bound
  BY <1>2, OneGood DEF Conversation
<1> QED
  BY <1>1, <1>2

\* Before the answer to a creation nothing was said.
LEMMA NothingSaid ==
  ASSUME IInv, OrderInv, NEW k \in Nat, k # 0, Tried(k - 1), ~Settled(CreateNode(Main, k)), ~Bound
  PROVE  (\A j \in Nat : Outcomes(j) # {} => j <= k) /\ \A n : ~Conversation(n)
<1>1. ~Bad(k)
  BY BadIsSettled
<1>2. ASSUME NEW j \in Nat, Outcomes(j) # {} PROVE j <= k
  <2>1. Tried(j - 1)
    BY <1>2 DEF OrderInv
  <2>2. ~(k < j)
    <3>1. k < j => k \in 1..(j - 1)
      OBVIOUS
    <3> QED
      BY <1>1, <2>1, <3>1 DEF Tried
  <2> QED
    BY <2>2
<1>3. ASSUME NEW j \in Nat, NEW n, Good(j, n) PROVE FALSE
  <2>1. j # 0 /\ j <= k /\ ~Bad(j)
    BY <1>2, <1>3, GoodIsAnswered DEF OrderInv
  <2>2. j # k
    <3>1. PICK i \in Outcomes(j) : journal[i].res = "valid"
      BY <1>3 DEF Good
    <3> QED
      BY <3>1 DEF Outcomes, Settled
  <2>3. j \in 1..(k - 1)
    BY <2>1, <2>2
  <2> QED
    BY <2>1, <2>3 DEF Tried
<1> QED
  BY <1>2, <1>3 DEF Conversation

-----------------------------------------------------------------------------
(* Steps that leave the conversation alone *)

\* A caller that the step leaves alone.
Kept(d) == Same(d) /\ recorded'[d] = recorded[d]

\* The main session is left as it is, or closed; failures and cancellation stay.
MainKept ==
  /\ native'[Main] = native[Main] /\ born'[Main] = born[Main]
  /\ creates'[Main] = creates[Main] /\ createErr'[Main] = createErr[Main] /\ loaded' = loaded
  /\ closed[Main] => closed'[Main]
  /\ recordErr => recordErr'
  /\ cancelled => cancelled'

\* The calls of the step are no turns of it but those of the conversation.
SendsRight ==
  \A m \in sent' \ sent : m.node[2] = "turn" /\ m.node[1] = Main => Conversation(m.native)

\* A quiet step leaves the order of the creations, and what was sent.
LEMMA QuietOrder ==
  ASSUME CInv, MainQuiet, SendsRight
  PROVE  OrderInv' /\ SentToInv'
<1>1. StoreTypes /\ OrderInv /\ SentToInv
  BY DEF CInv, NInv, IInv, TypeOK, ConvInv
<1>2. OrderInv'
  BY <1>1, Untold DEF OrderInv
<1>3. SentToInv'
  BY <1>1, Untold DEF SentToInv, SendsRight
<1> QED
  BY <1>2, <1>3

\* It leaves the bindings, and so does the session with its native session.
LEMMA QuietBound ==
  ASSUME CInv, MainQuiet,
         \/ native'[Main] # NoNative \/ ~Bound
         \/ native'[Main] = native[Main] /\ loaded' = loaded /\ born'[Main] \in {born[Main], "adopted"}
  PROVE  BindingInv'
<1>1. StoreTypes /\ BindingInv
  BY DEF CInv, NInv, IInv, TypeOK, ConvInv
<1>2. \A i, j \in Places' : IsBinding(i)' /\ IsBinding(j)' => journal'[i].native = journal'[j].native
  BY <1>1, QuietBindings DEF BindingInv
<1>3. ASSUME NEW i \in Places', IsBinding(i)'
      PROVE  /\ journal'[i].native # NoNative
             /\ native'[Main] # NoNative \/ (i <= loaded' /\ born'[Main] \in {"no", "adopted"})
  <2>1. i \in Places /\ IsBinding(i) /\ journal'[i] = journal[i] /\ Bound
    BY <1>1, <1>3, QuietBindings DEF Bound
  <2> QED
    BY <1>1, <2>1 DEF BindingInv
<1> QED
  BY <1>2, <1>3 DEF BindingInv

\* It leaves what a caller that is left alone knows.
LEMMA KeptCaller ==
  ASSUME CInv, MainQuiet, MainKept, NEW d \in Callers, Kept(d)
  PROVE  CreatorOK(d)' /\ TurnOK(d)' /\ (Creator(d)' <=> Creator(d)) /\ pc'[d] = pc[d]
<1>1. StoreTypes /\ CreatorOK(d) /\ TurnOK(d) /\ Same(d) /\ recorded'[d] = recorded[d]
  BY DEF CInv, NInv, IInv, TypeOK, ConvInv, CreatorInv, TurnInv, Kept
<1>2. Creator(d)' <=> Creator(d)
  BY <1>1 DEF Same, Creator, Creates, IsFork
<1>3. Answered(d) => Answered(d)'
  <2>1. /\ ans'[d] = ans[d] /\ got'[d] = got[d] /\ creates'[Main] = creates[Main] /\ (recordErr => recordErr')
        /\ \A k : Outcomes(k)' = Outcomes(k) /\ \A i \in Outcomes(k) : journal'[i] = journal[i]
    BY <1>1, QuietOutcomes DEF Same, MainKept
  <2> QED
    BY <1>1, <2>1, Untold DEF Answered
<1>4. CreatorOK(d)'
  BY <1>1, <1>2, <1>3, Untold DEF CreatorOK, Same, MainKept
<1>5. TurnOK(d)'
  BY <1>1, Untold DEF TurnOK, Same
<1> QED
  BY <1>1, <1>2, <1>4, <1>5 DEF Same

\* A step that is quiet and keeps the main session keeps the conversation.
LEMMA CalmStep ==
  ASSUME CInv, MainQuiet, MainKept, SendsRight,
         \A d \in Callers : Kept(d) \/ (~Creator(d) /\ CreatorOK(d)' /\ TurnOK(d)')
  PROVE  ConvInv'
<1>1. OrderInv' /\ SentToInv'
  BY QuietOrder
<1>2. BindingInv'
  BY QuietBound DEF MainKept
<1>3. CreatorInv' /\ TurnInv'
  BY KeptCaller DEF CreatorInv, TurnInv
<1>4. MainInv'
  <2>1. StoreTypes /\ MainInv
    BY DEF CInv, NInv, IInv, TypeOK, ConvInv
  <2>2. \A d \in Callers : Creator(d) => Creator(d)' /\ pc'[d] = pc[d]
    BY KeptCaller
  <2>3. Sick => Sick'
    BY DEF Sick, MainKept
  <2>4. Tried(creates[Main]) => Tried(creates[Main])'
    BY <2>1, Untold DEF MainKept
  <2>5. Conversation(native[Main]) => Conversation(native[Main])'
    BY <2>1, Untold DEF MainKept
  <2> QED
    BY <2>1, <2>2, <2>3, <2>4, <2>5 DEF MainInv, MainKept
<1> QED
  BY <1>1, <1>2, <1>3, <1>4 DEF ConvInv

-----------------------------------------------------------------------------
(* Steps of the one who creates *)

\* Who creates the native session of the main session is alone with it.
LEMMA AloneCreator ==
  ASSUME CInv, NEW c \in Callers, Creator(c)
  PROVE  /\ pc[c] # "idle" /\ born[Main] = "yes" /\ running[Main] /\ (pc[c] \in OpenPlaces => ~IsFork(c))
         /\ \A d \in Callers : d # c => ~Creator(d) /\ ~(on[d] = Main /\ Active(d))
<1>1. NInv /\ IInv /\ on[c] = Main /\ Creates(c)
  BY DEF CInv, NInv, Creator
<1>2. Active(c) /\ pc[c] # "idle" /\ ~Making(c)
  BY <1>1, PlacesApart
<1>3. ASSUME NEW d \in Callers, d # c PROVE ~Creator(d) /\ ~(on[d] = Main /\ Active(d))
  <2>1. ~(on[d] = Main /\ Active(d))
    BY <1>1, <1>3 DEF NInv, AloneInv, AloneOK
  <2>2. Creates(d) => Active(d)
    BY <1>1, PlacesApart
  <2> QED
    BY <2>1, <2>2 DEF Creator
<1>4. born[Main] = "yes" /\ running[Main]
  BY <1>1, <1>2 DEF NInv, BornInv, BornOK, AloneInv, AloneOK
<1> QED
  BY <1>1, <1>2, <1>3, <1>4 DEF Creates, OpenPlaces, Opening

\* Its step is right if it leaves the journal, the session and itself right.
LEMMA CreatorStep ==
  ASSUME CInv, NEW c \in Callers, Creator(c), Others(c), OrderInv', BindingInv', SentToInv',
         CreatorOK(c)', TurnOK(c)', MainInv'
  PROVE  ConvInv'
<1>1. ASSUME NEW d \in Callers, d # c PROVE CreatorOK(d)' /\ TurnOK(d)'
  <2>1. ~Creator(d) /\ ~(on[d] = Main /\ Active(d)) /\ Same(d)
    BY <1>1, AloneCreator DEF Others
  <2>2. ~Creator(d)'
    BY <2>1 DEF Same, Creator, Creates, IsFork
  <2>3. ~(pc'[d] \in {"prompt", "turnAdmit", "send"} /\ on'[d] = Main)
    BY <2>1 DEF Same, Active, Turning, TurnPlaces
  <2> QED
    BY <2>2, <2>3 DEF CreatorOK, TurnOK
<1> QED
  BY <1>1 DEF ConvInv, CreatorInv, TurnInv

\* Where the journal tells nothing new, the place of the call decides.
LEMMA QuietCreatorStep ==
  ASSUME CInv, NEW c \in Callers, Creator(c), Others(c), MainQuiet, SendsRight, CreatorOK(c)', MainInv',
         pc'[c] \notin {"prompt", "turnAdmit", "send"}
  PROVE  ConvInv'
<1>1. ~Bound
  BY DEF CInv, ConvInv, CreatorInv, CreatorOK
<1>2. OrderInv' /\ SentToInv' /\ BindingInv'
  BY <1>1, QuietOrder, QuietBound
<1>3. TurnOK(c)'
  BY DEF TurnOK
<1> QED
  BY <1>2, <1>3, CreatorStep

\* A failed Append is remembered.
LEMMA RecordErrs ==
  ASSUME StoreTypes, NEW f, NEW ok \in BOOLEAN, Record(f, ok)
  PROVE  (recordErr => recordErr') /\ (~ok => recordErr')
BY DEF Record, StoreTypes

\* An intent is committed while nothing failed.
LEMMA PrepareErrs ==
  ASSUME StoreTypes, NEW n, NEW ok \in BOOLEAN, Prepare(n, ok)
  PROVE  (recordErr => recordErr') /\ (~ok => recordErr') /\ (ok => ~recordErr)
BY DEF Prepare, Record, StoreTypes

\* What the one who creates stands on.
LEMMA CreatorParts ==
  ASSUME CInv, NEW c \in Callers, Creator(c)
  PROVE  /\ IInv /\ StoreTypes /\ SessionTypes /\ CallTypes /\ OrderInv /\ MainInv /\ SentToInv
         /\ CallOK(c) /\ FreshOK(c) /\ NativeOK(c) /\ CreatorOK(c)
         /\ on[c] = Main /\ Main \in Sessions /\ creates[Main] \in Nat /\ act[c] \in Nodes
         /\ ~Bound /\ ~createErr[Main]
BY DEF CInv, ConvInv, NInv, NativeInv, IInv, TypeOK, CallInv, FreshInv, CreatorInv, CreatorOK,
   Creator, SessionTypes, CallTypes, Sessions

\* create passes over the creations that were, and takes the first that is valid.
LEMMA CreateConv ==
  ASSUME CInv, NEW c \in Callers, NEW ok \in BOOLEAN, Create(c, ok), on[c] = Main
  PROVE  ConvInv'
<1>1. pc[c] = "create" /\ Creator(c)
  BY DEF Create, Creator, Creates
<1>0. PICK k \in Nat : k = creates[Main] + 1
  BY <1>1, CreatorParts
<1> DEFINE n == CreateNode(Main, k)
<1>2. k # 0 /\ k - 1 = creates[Main] /\ n \in Nodes /\ n[2] = "create"
  BY <1>0, <1>1, CreatorParts, CallNodes
<1>3. /\ Others(c) /\ creates'[Main] = k /\ act'[c] = n /\ on' = on /\ native' = native /\ sent' = sent
      /\ UNCHANGED <<born, createErr, closed, cancelled>>
      /\ pc'[c] = IF ~ok THEN "return" ELSE IF Saved(n) THEN "adoptNative" ELSE "admit"
      /\ ans'[c] = IF Saved(n) THEN "saved" ELSE "none"
      /\ (Saved(n) /\ ok) => got'[c] = SavedNative(n)
  <2>1. CreateNode(on[c], creates[on[c]] + 1) = n /\ SessionTypes /\ CallTypes /\ on[c] \in Sessions
    BY <1>0, <1>1, CreatorParts
  <2>2. Others(c) /\ creates'[Main] = k /\ act'[c] = n
    BY <1>0, <1>1, <2>1, CreatorParts, CreateEffect DEF SessionTypes
  <2> HIDE DEF n
  <2>3. /\ pc' = [pc EXCEPT ![c] = IF ~ok THEN "return" ELSE IF Saved(n) THEN "adoptNative" ELSE "admit"]
        /\ ans' = [ans EXCEPT ![c] = IF Saved(n) THEN "saved" ELSE "none"]
        /\ got' = [got EXCEPT ![c] = IF Saved(n) /\ ok THEN SavedNative(n) ELSE NoNative]
    BY <2>1 DEF Create
  <2>4. UNCHANGED <<on, native, sent, born, createErr, closed, cancelled>>
    BY DEF Create
  <2> QED
    BY <2>1, <2>2, <2>3, <2>4 DEF CallTypes
<1>4. /\ Saved(n) => (ok <=> SavedVerdict(n) = "ok") /\ recordErr' = recordErr
      /\ ~Saved(n) => Prepare(n, ok)
  BY <1>0, <1>1, CreatorParts DEF Create
<1>5. (recordErr => recordErr') /\ (~Saved(n) => (~ok => recordErr') /\ (ok => ~recordErr))
  BY <1>1, <1>2, <1>4, CreatorParts, PrepareErrs
<1>6. MainQuiet
  <2>1. ~Telling(Fact(n, "intent", "none", NoNative))
    BY DEF Telling, Fact, OutcomeKinds
  <2>2. Writes(Fact(n, "intent", "none", NoNative))
    BY <1>0, <1>1, CreatorParts, CreateWrites
  <2> QED
    BY <1>1, <2>1, <2>2, CreatorParts, WritesQuiet
<1>7. native[Main] = NoNative /\ born[Main] = "yes" /\ ~createErr[Main]
  BY <1>1, CreatorParts, AloneCreator DEF NativeOK
<1>8. Tried(k - 1) \/ recordErr \/ closed[Main] \/ cancelled
  <2>1. \A d \in Callers : ~(Creator(d) /\ pc[d] # "create")
    BY <1>1, AloneCreator
  <2> QED
    BY <1>1, <1>2, <1>7, <2>1, CreatorParts DEF MainInv, Sick
<1>9. Saved(n) => IF ok THEN Good(k, SavedNative(n)) ELSE Bad(k)
  BY <1>1, <1>2, <1>4, CreatorParts, SavedCreation
<1>10. (Bad(k) /\ Tried(k - 1)) => Tried(k)
  BY <1>2 DEF Tried
<1> HIDE DEF n
<1>11. SendsRight
  BY <1>3 DEF SendsRight
<1>12. StoreTypes /\ act'[c][2] = "create" /\ act'[c] = CreateNode(Main, k) /\ ~Bound /\ on'[c] = Main
  BY <1>1, <1>2, <1>3, CreatorParts DEF n
<1>13. CreatorOK(c)'
  <2>1. pc'[c] = "adoptNative" => Answered(c)'
    BY <1>3, <1>6, <1>9, <1>12, Untold DEF Answered
  <2>2. pc'[c] = "admit" => Tried(k - 1)' \/ closed'[Main] \/ cancelled'
    BY <1>3, <1>5, <1>6, <1>8, <1>12, Untold
  <2> QED
    BY <1>2, <1>3, <1>6, <1>7, <1>12, <2>1, <2>2, Untold DEF CreatorOK, Creator, Creates,
       OpenPlaces, Opening
<1>14. MainInv'
  <2>1. CASE pc'[c] = "return"
    <3>1. Tried(k)' \/ recordErr' \/ closed'[Main] \/ cancelled'
      BY <1>3, <1>5, <1>6, <1>8, <1>9, <1>10, <1>12, <2>1, Untold
    <3> QED
      BY <1>3, <1>7, <3>1 DEF MainInv, Sick
  <2>2. CASE pc'[c] \in {"adoptNative", "admit"}
    <3>1. Creator(c)' /\ pc'[c] # "create"
      BY <1>12, <2>2 DEF Creator, Creates, OpenPlaces, Opening, IsFork
    <3> QED
      BY <1>3, <1>7, <3>1 DEF MainInv
  <2> QED
    BY <1>3, <2>1, <2>2
<1> QED
  BY <1>1, <1>3, <1>6, <1>11, <1>13, <1>14, QuietCreatorStep

\* The creation is called if nothing stopped it, and then all before it were passed over.
LEMMA OpenAdmitConv ==
  ASSUME CInv, Grows, NEW c \in Callers, OpenAdmit(c), Creator(c)
  PROVE  ConvInv'
<1>1. pc[c] = "admit" /\ on[c] = Main /\ ~IsFork(c)
  BY CreatorParts, AloneCreator DEF OpenAdmit, OpenPlaces, Opening
<1>2. /\ Others(c) /\ UNCHANGED <<on, act, native, creates, sent, born, createErr, closed, cancelled, journal>>
      /\ pc'[c] = IF ~cancelled /\ ~closed[Main] THEN "open" ELSE "return"
  BY <1>1, CreatorParts, OpenAdmitEffect DEF OpenAdmit, OpenFailed, LoseFork, CallTypes
<1>3. MainQuiet /\ SendsRight
  BY <1>2, SameQuiet DEF SendsRight
<1>4. CreatorOK(c)'
  BY <1>1, <1>2, <1>3, CreatorParts, Untold DEF CreatorOK, Creator, Creates, IsFork, OpenPlaces,
     Opening
<1>5. MainInv'
  <2>1. native[Main] = NoNative /\ born[Main] = "yes"
    BY <1>1, CreatorParts, AloneCreator DEF NativeOK, Opening
  <2>2. pc'[c] = "open" => Creator(c)' /\ pc'[c] # "create"
    BY <1>1, <1>2 DEF Creator, Creates, IsFork, OpenPlaces, Opening
  <2> QED
    BY <1>2, <2>1, <2>2 DEF MainInv, Sick
<1> QED
  BY <1>2, <1>3, <1>4, <1>5, QuietCreatorStep

\* The call is no turn.
LEMMA OpenSendConv ==
  ASSUME CInv, Grows, NEW c \in Callers, OpenSend(c), Creator(c)
  PROVE  ConvInv'
<1>1. pc[c] = "open" /\ on[c] = Main /\ ~IsFork(c) /\ act[c][2] \in {"create", "fork"}
  BY CreatorParts, AloneCreator DEF OpenSend, OpenPlaces, Opening, CallOK
<1>2. /\ Others(c) /\ UNCHANGED <<on, act, native, creates, born, createErr, journal>> /\ pc'[c] = "opening"
  BY CreatorParts, OpenSendEffect DEF OpenSend
<1>3. MainQuiet /\ SendsRight
  <2>1. \A m \in sent' \ sent : m.node = act[c]
    BY DEF OpenSend, Sent
  <2> QED
    BY <1>1, <1>2, <2>1, SameQuiet DEF SendsRight
<1>4. CreatorOK(c)'
  BY <1>1, <1>2, <1>3, CreatorParts, Untold DEF CreatorOK, Creator, Creates, IsFork, OpenPlaces,
     Opening
<1>5. MainInv'
  <2>1. native[Main] = NoNative /\ born[Main] = "yes"
    BY <1>1, CreatorParts, AloneCreator DEF NativeOK, Opening
  <2>2. Creator(c)' /\ pc'[c] # "create"
    BY <1>1, <1>2 DEF Creator, Creates, IsFork, OpenPlaces, Opening
  <2> QED
    BY <1>2, <2>1, <2>2 DEF MainInv
<1> QED
  BY <1>2, <1>3, <1>4, <1>5, QuietCreatorStep

\* A rejected creation has no native session.
LEMMA OpenReturnConv ==
  ASSUME CInv, Grows, NEW c \in Callers, NEW a \in CreateAnswers, NEW id \in {NoNative, Len(closes) + 1},
         OpenReturn(c, a, id), Creator(c)
  PROVE  ConvInv'
<1>1. pc[c] = "opening" /\ on[c] = Main /\ ~IsFork(c)
  BY CreatorParts, AloneCreator DEF OpenReturn, OpenPlaces, Opening
<1>2. /\ Others(c) /\ UNCHANGED <<on, act, native, creates, born, createErr, journal, sent>>
      /\ pc'[c] = "opened" /\ (ans'[c] = "rejected" => got'[c] = NoNative)
  BY CreatorParts, OpenReturnEffect DEF OpenReturn, CallTypes
<1>3. MainQuiet /\ SendsRight
  BY <1>2, SameQuiet DEF SendsRight
<1>4. CreatorOK(c)'
  BY <1>1, <1>2, <1>3, CreatorParts, Untold DEF CreatorOK, Creator, Creates, IsFork, OpenPlaces,
     Opening
<1>5. MainInv'
  <2>1. native[Main] = NoNative /\ born[Main] = "yes"
    BY <1>1, CreatorParts, AloneCreator DEF NativeOK, Opening
  <2>2. Creator(c)' /\ pc'[c] # "create"
    BY <1>1, <1>2 DEF Creator, Creates, IsFork, OpenPlaces, Opening
  <2> QED
    BY <1>2, <2>1, <2>2 DEF MainInv
<1> QED
  BY <1>2, <1>3, <1>4, <1>5, QuietCreatorStep

\* The session takes the native session that was made, whether or not it was recorded.
LEMMA AdoptNativeConv ==
  ASSUME CInv, Grows, NEW c \in Callers, AdoptNative(c), Creator(c)
  PROVE  ConvInv'
<1>1. pc[c] = "adoptNative" /\ on[c] = Main /\ ~IsFork(c) /\ born[Main] = "yes"
  BY CreatorParts, AloneCreator DEF AdoptNative, OpenPlaces
<1>2. /\ Others(c) /\ UNCHANGED <<on, act, ans, got, recorded, creates, born, createErr, journal, sent, recordErr>>
      /\ pc'[c] \in {"stopLate", "bind"}
  BY CreatorParts, AdoptNativeEffect DEF AdoptNative, CallTypes
<1>3. MainQuiet /\ SendsRight
  BY <1>2, SameQuiet DEF SendsRight
<1>4. Creator(c)' /\ pc'[c] \in {"stopLate", "bind"}
  BY <1>1, <1>2 DEF Creator, Creates, IsFork, OpenPlaces, Opening
<1>5. Answered(c)'
  <2>1. Answered(c)
    BY <1>1, CreatorParts DEF CreatorOK
  <2>2. StoreTypes
    BY CreatorParts
  <2>3. \A k : Outcomes(k)' = Outcomes(k) /\ \A i \in Outcomes(k) : journal'[i] = journal[i]
    BY <1>3, <2>2, QuietOutcomes
  <2>4. /\ \A k : Tried(k)' <=> Tried(k)
        /\ \A k, n : Good(k, n)' <=> Good(k, n)
    BY <1>3, <2>2, Untold
  <2> QED
    BY <1>2, <2>1, <2>3, <2>4 DEF Answered
<1>6. CreatorOK(c)'
  BY <1>1, <1>2, <1>3, <1>4, <1>5, CreatorParts, Untold DEF CreatorOK
<1>7. MainInv'
  BY <1>1, <1>2, <1>4 DEF MainInv
<1> QED
  BY <1>2, <1>3, <1>4, <1>6, <1>7, QuietCreatorStep

\* A session that is closed is not used any more.
LEMMA StopLateConv ==
  ASSUME CInv, Grows, NEW c \in Callers, StopLate(c), Creator(c)
  PROVE  ConvInv'
<1>1. pc[c] = "stopLate" /\ on[c] = Main /\ ~IsFork(c) /\ born[Main] = "yes" /\ closed[Main]
  BY CreatorParts, AloneCreator DEF StopLate, OpenPlaces, NativeOK
<1>2. Others(c) /\ UNCHANGED <<born, closed, journal, sent>> /\ pc'[c] = "return"
  BY <1>1, CreatorParts, StopLateEffect DEF StopLate, LoseFork, OpenFailed, CallTypes
<1>3. MainQuiet /\ SendsRight
  BY <1>2, SameQuiet DEF SendsRight
<1>4. CreatorOK(c)'
  BY <1>2 DEF CreatorOK, Creator, Creates, OpenPlaces, Opening
<1>5. MainInv'
  BY <1>1, <1>2 DEF MainInv, Sick
<1> QED
  BY <1>2, <1>3, <1>4, <1>5, QuietCreatorStep

\* What was passed over stays so.
LEMMA PassedOver ==
  ASSUME Grows, NEW k
  PROVE  /\ Outcomes(k) \subseteq Outcomes(k)' /\ \A i \in Outcomes(k) : journal'[i] = journal[i]
         /\ (Bad(k) => Bad(k)') /\ (Tried(k) => Tried(k)')
<1>1. ASSUME NEW j
      PROVE  Outcomes(j) \subseteq Outcomes(j)' /\ \A i \in Outcomes(j) : journal'[i] = journal[i]
  BY DEF Grows, Outcomes, IsOutcome, Places
<1>2. ASSUME NEW j, Bad(j) PROVE Bad(j)'
  BY <1>1, <1>2 DEF Bad
<1> QED
  BY <1>1, <1>2 DEF Tried

\* An outcome that is appended is one of its own creation only, and no binding.
LEMMA OutcomeAppended ==
  ASSUME StoreTypes, NEW f, Writes(f), f.kind \in OutcomeKinds, NEW k, f.node = CreateNode(Main, k)
  PROVE  /\ \A j : j # k => Outcomes(j)' = Outcomes(j)
         /\ Bound' => Bound
         /\ Len(journal') = Len(journal) + 1 =>
              Len(journal) + 1 \in Outcomes(k)' /\ journal'[Len(journal) + 1] = f
<1>1. Grows
  BY WritesGrows
<1>2. ASSUME NEW i \in 1..Len(journal'), i \notin Places PROVE journal'[i] = f
  BY <1>2 DEF Writes, Places, StoreTypes
<1>3. ASSUME NEW j, j # k PROVE Outcomes(j)' = Outcomes(j)
  <2>1. Outcomes(j) \subseteq Outcomes(j)'
    BY <1>1, PassedOver
  <2>2. ASSUME NEW i \in Outcomes(j)' PROVE i \in Outcomes(j)
    <3>1. /\ i \in 1..Len(journal') /\ journal'[i].kind \in OutcomeKinds
          /\ journal'[i].node = CreateNode(Main, j)
      BY DEF Outcomes, IsOutcome, Places, OutcomeKinds
    <3>2. i \in Places
      BY <1>2, <1>3, <3>1, CreateOrdinal
    <3>3. journal'[i] = journal[i]
      BY <1>1, <3>2 DEF Grows
    <3> QED
      BY <3>1, <3>2, <3>3 DEF Outcomes, IsOutcome, OutcomeKinds
  <2> QED
    BY <2>1, <2>2
<1>4. ASSUME Bound' PROVE Bound
  <2>1. PICK i \in 1..Len(journal') : journal'[i].kind = "native-binding" /\ journal'[i].node[1] = Main
    BY <1>4 DEF Bound, IsBinding, Places
  <2>2. i \in Places
    BY <1>2, <2>1 DEF OutcomeKinds
  <2> QED
    BY <1>1, <2>1, <2>2 DEF Bound, IsBinding, Grows
<1>5. ASSUME Len(journal') = Len(journal) + 1
      PROVE  Len(journal) + 1 \in Outcomes(k)' /\ journal'[Len(journal) + 1] = f
  <2>1. Len(journal) + 1 \in 1..Len(journal') /\ journal'[Len(journal) + 1] = f
    BY <1>5 DEF Writes, StoreTypes
  <2> QED
    BY <2>1 DEF Outcomes, IsOutcome, Places, OutcomeKinds
<1> QED
  BY <1>3, <1>4, <1>5

\* The answer to a creation is the first word on the conversation.
LEMMA OpenFinishConv ==
  ASSUME CInv, NEW c \in Callers, NEW ok \in BOOLEAN, OpenFinish(c, ok), Creator(c)
  PROVE  ConvInv'
<1>1. pc[c] = "opened" /\ on[c] = Main /\ ~IsFork(c) /\ born[Main] = "yes"
  BY CreatorParts, AloneCreator DEF OpenFinish, OpenPlaces, Opening
<1>2. PICK k \in Nat : k = creates[Main]
  BY CreatorParts
<1>3. /\ k # 0 /\ act[c] = CreateNode(Main, k) /\ Tried(k - 1) /\ (ans[c] = "rejected" => got[c] = NoNative)
      /\ ~Settled(CreateNode(Main, k)) /\ native[Main] = NoNative /\ ans[c] \in AllCreateAnswers
  BY <1>1, <1>2, CreatorParts DEF CreatorOK, FreshOK, Creating, Opening, NativeOK, CallOK
<1>4. /\ Others(c) /\ UNCHANGED <<on, act, ans, got, native, creates, born, createErr, closed, sent>>
      /\ pc'[c] = "adoptNative" /\ recorded'[c] = ok
  <2>1. /\ UNCHANGED <<on, act, ans, got, native, creates, born, createErr, closed, sent>>
        /\ recorded' = [recorded EXCEPT ![c] = ok]
    BY DEF OpenFinish
  <2> QED
    BY <2>1, CreatorParts, OpenFinishEffect DEF CallTypes
<1>5. PICK f : /\ f = Outcome(act[c], ans[c], got[c]) /\ Writes(f) /\ Record(f, ok)
  BY CreatorParts, OpenFinishWrites DEF OpenFinish
<1>6. /\ f \in Facts /\ f.node = CreateNode(Main, k) /\ f.kind \in OutcomeKinds /\ f.res = ans[c]
      /\ f.native = got[c]
  <2>1. act[c] \in Nodes /\ got[c] \in Nat
    BY CreatorParts DEF IInv, TypeOK, CallTypes, WorldTypes
  <2> QED
    BY <1>3, <1>5, <2>1, OutcomeFact DEF OutcomeKinds
<1>7. Grows /\ (~ok => recordErr') /\ (ok => Len(journal') = Len(journal) + 1)
  BY <1>5, <1>6, CreatorParts, WritesGrows, RecordErrs, RecordWrites
<1>8. (\A j \in Nat : Outcomes(j) # {} => j <= k) /\ \A n : ~Conversation(n)
  BY <1>3, CreatorParts, NothingSaid
<1>9. /\ \A j : j # k => Outcomes(j)' = Outcomes(j)
      /\ ~Bound'
      /\ ok => Len(journal) + 1 \in Outcomes(k)' /\ journal'[Len(journal) + 1] = f
  BY <1>5, <1>6, <1>7, CreatorParts, OutcomeAppended
<1>10. OrderInv' /\ \A j \in Nat : Outcomes(j)' # {} => j <= k
  <2>1. ASSUME NEW j \in Nat, Outcomes(j)' # {} PROVE j # 0 /\ Tried(j - 1)' /\ j <= k
    <3>1. CASE j = k
      BY <1>3, <1>7, <3>1, PassedOver
    <3>2. CASE j # k
      BY <1>7, <1>8, <1>9, <2>1, <3>2, CreatorParts, PassedOver DEF OrderInv
    <3> QED
      BY <3>1, <3>2
  <2> QED
    BY <2>1 DEF OrderInv
<1>11. BindingInv'
  BY <1>9 DEF BindingInv, Bound
<1>12. SentToInv'
  BY <1>4, <1>8, CreatorParts DEF SentToInv
<1>13. Creator(c)' /\ pc'[c] # "create"
  BY <1>1, <1>4 DEF Creator, Creates, IsFork, OpenPlaces, Opening
<1>14. Answered(c)'
  <2>1. ok => \E i \in Outcomes(k)' : journal'[i].res = ans[c] /\ journal'[i].native = got[c]
    BY <1>6, <1>9
  <2>2. Tried(k - 1)'
    BY <1>3, <1>7, PassedOver
  <2> QED
    BY <1>2, <1>3, <1>4, <1>7, <1>10, <2>1, <2>2 DEF Answered, AllCreateAnswers
<1>15. CreatorOK(c)'
  BY <1>2, <1>3, <1>4, <1>9, <1>13, <1>14, CreatorParts DEF CreatorOK
<1>16. MainInv' /\ TurnOK(c)'
  BY <1>1, <1>3, <1>4, <1>13 DEF MainInv, TurnOK
<1> QED
  BY <1>4, <1>10, <1>11, <1>12, <1>15, <1>16, CreatorStep

\* The end of create: a native session that was recorded and is taken is the one of
\* the conversation.
LEMMA AnsweredIsIt ==
  ASSUME CInv, NEW c \in Callers, Creator(c), pc[c] = "bind", ans[c] = "valid", recorded[c],
         NEW n, Conversation(n)
  PROVE  n = got[c]
<1>1. Answered(c) /\ ~Bound /\ IInv /\ OrderInv /\ creates[Main] \in Nat
  BY CreatorParts DEF CreatorOK
<1>2. PICK j \in Nat : Good(j, n)
  BY <1>1 DEF Conversation
<1>3. j # 0 /\ j <= creates[Main] /\ ~Bad(j) /\ Tried(creates[Main] - 1)
  BY <1>1, <1>2, GoodIsAnswered DEF Answered, OrderInv
<1>4. j = creates[Main]
  <2>1. j # creates[Main] => j \in 1..(creates[Main] - 1)
    BY <1>1, <1>3
  <2> QED
    BY <1>3, <2>1 DEF Tried
<1>5. PICK x \in Outcomes(j) : journal[x].res = "valid" /\ journal[x].native = got[c]
  BY <1>1, <1>4 DEF Answered
<1>6. PICK y \in Outcomes(j) : journal[y].res = "valid" /\ journal[y].native = n
  BY <1>2 DEF Good
<1> QED
  BY <1>1, <1>5, <1>6, OneSettles

\* A binding that is appended is one.
LEMMA BindingAppended ==
  ASSUME StoreTypes, NEW f, Writes(f), f.kind = "native-binding", f.node[1] = Main, ~Bound
  PROVE  /\ \A k : Outcomes(k)' = Outcomes(k)
         /\ \A k : Tried(k)' <=> Tried(k)
         /\ \A k, n : Good(k, n)' <=> Good(k, n)
         /\ \A i \in Places' : IsBinding(i)' => journal'[i] = f
         /\ Len(journal') = Len(journal) + 1 => Bound'
<1>1. Grows
  BY WritesGrows
<1>2. ASSUME NEW i \in 1..Len(journal'), i \notin Places PROVE journal'[i] = f
  BY <1>2 DEF Writes, Places, StoreTypes
<1>3. ASSUME NEW k PROVE Outcomes(k)' = Outcomes(k) /\ \A i \in Outcomes(k) : journal'[i] = journal[i]
  <2>1. Outcomes(k) \subseteq Outcomes(k)' /\ \A i \in Outcomes(k) : journal'[i] = journal[i]
    BY <1>1, PassedOver
  <2>2. ASSUME NEW i \in Outcomes(k)' PROVE i \in Outcomes(k)
    <3>1. /\ i \in 1..Len(journal') /\ journal'[i].kind \in OutcomeKinds
          /\ journal'[i].node = CreateNode(Main, k)
      BY DEF Outcomes, IsOutcome, Places, OutcomeKinds
    <3>2. i \in Places
      BY <1>2, <3>1 DEF OutcomeKinds
    <3>3. journal'[i] = journal[i]
      BY <1>1, <3>2 DEF Grows
    <3> QED
      BY <3>1, <3>2, <3>3 DEF Outcomes, IsOutcome, OutcomeKinds
  <2> QED
    BY <2>1, <2>2
<1>4. ASSUME NEW k PROVE Bad(k)' <=> Bad(k)
  BY <1>3 DEF Bad
<1>5. ASSUME NEW k PROVE Tried(k)' <=> Tried(k)
  BY <1>4 DEF Tried
<1>6. ASSUME NEW k, NEW n PROVE Good(k, n)' <=> Good(k, n)
  BY <1>3 DEF Good
<1>7. ASSUME NEW i \in Places', IsBinding(i)' PROVE journal'[i] = f
  <2>1. i \notin Places
    BY <1>1, <1>7 DEF Bound, IsBinding, Grows
  <2> QED
    BY <1>2, <2>1 DEF Places
<1>8. ASSUME Len(journal') = Len(journal) + 1 PROVE Bound'
  <2>1. Len(journal) + 1 \in 1..Len(journal') /\ journal'[Len(journal) + 1] = f
    BY <1>8 DEF Writes, StoreTypes
  <2> QED
    BY <2>1 DEF Bound, IsBinding, Places
<1> QED
  BY <1>3, <1>5, <1>6, <1>7, <1>8

\* Bind, of a native session whose creation was recorded.
LEMMA BindOpenConv ==
  ASSUME CInv, NEW c \in Callers, NEW ok \in BOOLEAN, Bind(c, ok), Creator(c), ans[c] = "valid", recorded[c]
  PROVE  ConvInv'
<1>1. /\ pc[c] = "bind" /\ on[c] = Main /\ ~IsFork(c) /\ born[Main] = "yes" /\ got[c] # NoNative
      /\ native[Main] = got[c] /\ act[c][1] = Main
  BY CreatorParts, AloneCreator DEF Bind, OpenPlaces, NativeOK, CallOK
<1>2. /\ Others(c) /\ UNCHANGED <<native, got, creates, born, sent>>
      /\ nat'[c] = native[Main] /\ pc'[c] = IF ok THEN "prompt" ELSE "return"
  <2>1. Others(c) /\ nat'[c] = native[Main] /\ UNCHANGED <<native, got, creates, sent>>
    BY <1>1, CreatorParts, BindEffect
  <2>2. born' = born
    BY <1>1 DEF Bind
  <2>3. pc' = [pc EXCEPT ![c] = IF ~ok THEN "return" ELSE "prompt"]
    BY <1>1 DEF Bind, OpenFailed
  <2> QED
    BY <2>1, <2>2, <2>3, CreatorParts DEF CallTypes
<1>3. PICK f : f = Fact(act[c], "native-binding", "none", got[c]) /\ Writes(f) /\ Record(f, ok)
  BY CreatorParts, BindWrites DEF Bind
<1>4. f.kind = "native-binding" /\ f.node[1] = Main /\ f.native = got[c] /\ f \in Facts
  <2>1. act[c] \in Nodes /\ got[c] \in Nat
    BY CreatorParts DEF IInv, TypeOK, CallTypes, WorldTypes
  <2> QED
    BY <1>1, <1>3, <2>1 DEF Fact, Facts
<1>5. (~ok => recordErr') /\ (ok => Len(journal') = Len(journal) + 1)
  BY <1>3, <1>4, CreatorParts, RecordErrs, RecordWrites
<1>6. /\ \A k : Outcomes(k)' = Outcomes(k)
      /\ \A k : Tried(k)' <=> Tried(k)
      /\ \A k, n : Good(k, n)' <=> Good(k, n)
      /\ \A i \in Places' : IsBinding(i)' => journal'[i] = f
      /\ ok => Bound'
  BY <1>3, <1>4, <1>5, CreatorParts, BindingAppended
<1>7. OrderInv'
  BY <1>6, CreatorParts DEF OrderInv
<1>8. BindingInv'
  BY <1>1, <1>2, <1>4, <1>6 DEF BindingInv
<1>9. ASSUME NEW n, Conversation(n) PROVE Conversation(n)'
  <2>1. n = got[c]
    BY <1>1, <1>9, AnsweredIsIt
  <2>2. ~Bound
    BY CreatorParts
  <2>3. PICK k \in Nat : Good(k, n)
    BY <1>9, <2>2 DEF Conversation
  <2> QED
    BY <1>4, <1>6, <2>1, <2>3 DEF Conversation
<1>10. SentToInv'
  BY <1>2, <1>9, CreatorParts DEF SentToInv
<1>11. ok => Conversation(got[c])'
  BY <1>2, <1>4, <1>6 DEF Conversation
<1>12. TurnOK(c)' /\ CreatorOK(c)'
  BY <1>1, <1>2, <1>11 DEF TurnOK, CreatorOK, Creator, Creates, OpenPlaces, Opening
<1>13. MainInv'
  BY <1>1, <1>2, <1>5, <1>11 DEF MainInv, Sick
<1> QED
  BY <1>2, <1>7, <1>8, <1>10, <1>12, <1>13, CreatorStep

\* Bind, of a native session an earlier process created, or of none.
LEMMA BindOtherConv ==
  ASSUME CInv, Grows, NEW c \in Callers, NEW ok \in BOOLEAN, Bind(c, ok), Creator(c),
         ~(ans[c] = "valid" /\ recorded[c])
  PROVE  ConvInv'
<1>1. /\ pc[c] = "bind" /\ on[c] = Main /\ ~IsFork(c) /\ born[Main] = "yes"
      /\ native[Main] = got[c] /\ Answered(c)
  BY CreatorParts, AloneCreator DEF Bind, OpenPlaces, NativeOK, CreatorOK
<1>2. /\ Others(c) /\ UNCHANGED <<native, got, creates, born, sent, journal, recordErr>>
      /\ nat'[c] = native[Main] /\ pc'[c] = (IF ok THEN "prompt" ELSE "return") /\ (ok <=> ans[c] = "saved")
      /\ ans[c] \in {"failed", "uncertain"} => createErr'[Main]
  BY <1>1, CreatorParts, BindEffect DEF Bind, OpenFailed, NoteCreateError, CallTypes, SessionTypes
<1>3. MainQuiet /\ SendsRight
  BY <1>2, SameQuiet DEF SendsRight
<1>4. OrderInv' /\ SentToInv' /\ BindingInv'
  BY <1>3, CreatorParts, QuietOrder, QuietBound
<1>5. CASE ans[c] = "saved"
  <2>1. Good(creates[Main], got[c]) /\ ~Bound /\ creates[Main] \in Nat
    BY <1>1, <1>5, CreatorParts DEF Answered
  <2>2. Conversation(got[c])
    BY <2>1 DEF Conversation, Bound
  <2>3. Conversation(got[c])'
    BY <1>2, <1>3, <2>2, CreatorParts, Untold
  <2>4. TurnOK(c)' /\ CreatorOK(c)'
    BY <1>1, <1>2, <1>5, <2>3 DEF TurnOK, CreatorOK, Creator, Creates, OpenPlaces, Opening
  <2>5. got[c] # NoNative
    BY <1>1, <1>5, CreatorParts DEF CallOK
  <2>6. MainInv'
    BY <1>1, <1>2, <2>3, <2>5 DEF MainInv
  <2> QED
    BY <1>2, <1>4, <2>4, <2>6, CreatorStep
<1>6. CASE ans[c] # "saved"
  <2>1. TurnOK(c)' /\ CreatorOK(c)'
    BY <1>2, <1>6 DEF TurnOK, CreatorOK, Creator, Creates, OpenPlaces, Opening
  <2>2. ans[c] \in {"rejected", "failed", "uncertain"} \/ (ans[c] = "valid" /\ ~recorded[c])
    BY <1>1, <1>6 DEF Answered, AllCreateAnswers
  <2>3. CASE ans[c] = "rejected" /\ recorded[c]
    <3>1. PICK k \in Nat : k = creates[Main]
      BY CreatorParts
    <3>2. Bad(k) /\ Tried(k - 1) /\ got[c] = NoNative
      BY <1>1, <2>3, <3>1 DEF Answered, Bad
    <3>3. Tried(k)
      BY <3>2 DEF Tried
    <3>4. Tried(k)'
      BY <1>3, <3>3, CreatorParts, Untold
    <3>5. MainInv'
      BY <1>1, <1>2, <3>1, <3>2, <3>4 DEF MainInv
    <3> QED
      BY <1>2, <1>4, <2>1, <3>5, CreatorStep
  <2>4. CASE ~(ans[c] = "rejected" /\ recorded[c])
    <3>1. Sick'
      BY <1>1, <1>2, <1>6, <2>2, <2>4 DEF Answered, Sick
    <3>2. MainInv'
      BY <1>1, <1>2, <3>1 DEF MainInv
    <3> QED
      BY <1>2, <1>4, <2>1, <3>2, CreatorStep
  <2> QED
    BY <2>3, <2>4
<1> QED
  BY <1>5, <1>6

-----------------------------------------------------------------------------
(* Every step *)

OthersKept(c) == \A d \in Callers \ {c} : Kept(d)

\* A calm step of one caller.
LEMMA CalmCall ==
  ASSUME CInv, NEW c \in Callers, OthersKept(c), MainQuiet, MainKept, SendsRight,
         ~Creator(c), CreatorOK(c)', TurnOK(c)'
  PROVE  ConvInv'
BY CalmStep DEF OthersKept

\* A step on another session.
LEMMA OtherSession ==
  ASSUME CInv, NEW c \in Callers, OthersKept(c), MainQuiet, MainKept, SendsRight,
         on[c] # Main, on'[c] # Main
  PROVE  ConvInv'
<1>1. ~Creator(c) /\ CreatorOK(c)' /\ TurnOK(c)'
  BY DEF Creator, CreatorOK, TurnOK
<1> QED
  BY <1>1, CalmCall

\* A call on the main session that is not creating, and does not begin a turn of it.
LEMMA IdleCall ==
  ASSUME CInv, NEW c \in Callers, OthersKept(c), MainQuiet, MainKept, SendsRight,
         pc[c] \notin OpenPlaces \cup {"create"},
         pc'[c] \notin OpenPlaces \cup {"create", "prompt", "turnAdmit", "send"}
  PROVE  ConvInv'
<1>1. ~Creator(c) /\ CreatorOK(c)' /\ TurnOK(c)'
  BY DEF Creator, Creates, CreatorOK, TurnOK
<1> QED
  BY <1>1, CalmCall

\* A turn of the main session goes on with the native session it has.
LEMMA TurnGoesOn ==
  ASSUME CInv, NEW c \in Callers, OthersKept(c), MainQuiet, MainKept, SendsRight,
         pc[c] \in {"prompt", "turnAdmit", "send"}, on'[c] = on[c], nat'[c] = nat[c],
         pc'[c] \notin OpenPlaces \cup {"create"}
  PROVE  ConvInv'
<1>1. ~Creator(c) /\ CreatorOK(c)'
  BY DEF Creator, Creates, CreatorOK, OpenPlaces, Opening
<1>2. TurnOK(c) /\ StoreTypes
  BY DEF CInv, ConvInv, TurnInv, NInv, IInv, TypeOK
<1>3. TurnOK(c)'
  BY <1>2, Untold DEF TurnOK
<1> QED
  BY <1>1, <1>3, CalmCall

\* Who opens a native session for the main session creates it.
LEMMA OpensMain ==
  ASSUME CInv, NEW c \in Callers, pc[c] \in OpenPlaces \cup {"create"}, on[c] = Main
  PROVE  Creator(c)
BY DEF CInv, NInv, BornInv, BornOK, Creator, Creates, OpenPlaces, Opening

\* Every step keeps the conversation.
LEMMA StepConv == CInv /\ [Next]_vars => ConvInv'
<1> SUFFICES ASSUME CInv, [Next]_vars PROVE ConvInv'
  OBVIOUS
<1> DEFINE Rest == UNCHANGED vars \/ (\E c \in Callers : CancelTurn(c)) \/ (\E s \in Sessions :
  Steer(s) \/ SteerEnd(s)) \/ BodyReturn \/ CloseStop \/ Stopped
<1>1. ASSUME Rest PROVE UNCHANGED <<pc, on, act, turn, ans, got, nat, recorded, journal, sent, loaded, native, born,
    creates, createErr, closed, recordErr, cancelled, poison>>
  BY <1>1 DEF CancelTurn, Steer, SteerEnd, BodyReturn, CloseStop, StopNative, Stopped, vars
<1>0. /\ IInv /\ NInv /\ StoreTypes /\ SessionTypes /\ CallTypes /\ CallInv /\ Grows
      /\ MainInv /\ BindingInv /\ TurnInv
      /\ Main \in Sessions /\ \A c \in Callers : BornOK(c) /\ NativeOK(c) /\ TurnOK(c)
  BY JournalGrows DEF CInv, NInv, IInv, TypeOK, ConvInv, BornInv, NativeInv, TurnInv, Sessions
<1>00. Grows
  BY <1>0
<1>2. ASSUME NEW c \in Callers, NewSession(c) PROVE ConvInv'
  <2>1. pc[c] = "idle" /\ pc'[c] = "adopt"
    BY <1>2, <1>0, NewSessionEffect DEF NewSession
  <2>2. OthersKept(c) /\ UNCHANGED <<sent, journal, loaded>>
    BY <1>2, <1>0, NewSessionEffect DEF NewSession, OthersKept, Kept, Others, CallTypes
  <2>3. MainQuiet
    BY <1>0, <2>2, SameQuiet
  <2>4. MainKept
    BY <1>2, <1>0, <2>1 DEF NewSession, MainKept, StoreTypes, SessionTypes
  <2>5. SendsRight
    BY <2>2 DEF SendsRight
  <2> QED
    BY <2>1, <2>2, <2>3, <2>4, <2>5, IdleCall DEF OpenPlaces, Opening
<1>3. ASSUME NEW c \in Callers, Adopt(c) PROVE ConvInv'
  <2>1. /\ pc[c] = "adopt" /\ on'[c] = on[c] /\ on[c] \in Sessions /\ UNCHANGED <<journal, sent, loaded>>
        /\ OthersKept(c) /\ (recordErr => recordErr') /\ pc'[c] \in {"restore", "fork"}
    BY <1>3, <1>0, AdoptEffect DEF Adopt, OthersKept, Kept, Others, StoreTypes, CallInv, CallOK
  <2>2. MainQuiet /\ SendsRight
    BY <1>0, <2>1, SameQuiet DEF SendsRight
  <2>3. CASE on[c] # Main
    <3>1. MainKept
      BY <1>3, <1>0, <2>1, <2>3 DEF Adopt, MainKept, SessionTypes, StoreTypes
    <3> QED
      BY <2>1, <2>2, <2>3, <3>1, OtherSession
  <2>4. CASE on[c] = Main
    <3>1. born[Main] = "no" /\ native[Main] = NoNative /\ creates[Main] = 0
      BY <1>0, <2>1, <2>4 DEF BornOK, BornInv, UnbornOK, MainInv, NInv
    <3>2. born'[Main] = "adopted" /\ native' = native /\ creates' = creates
      BY <1>3, <1>0, <2>1, <2>4 DEF Adopt, SessionTypes
    <3>3. OrderInv' /\ SentToInv' /\ BindingInv'
      BY <2>1, <2>2, <3>2, QuietOrder, QuietBound
    <3>4. ASSUME NEW d \in Callers PROVE CreatorOK(d)' /\ TurnOK(d)'
      <4>1. d # c => on'[d] # Main
        BY <1>0, <2>1, <2>4 DEF NInv, AloneInv, AloneOK, Making, OthersKept, Kept, Same
      <4> QED
        BY <2>1, <4>1 DEF CreatorOK, Creator, Creates, TurnOK, OpenPlaces, Opening
    <3>5. MainInv'
      BY <3>1, <3>2 DEF MainInv, Tried
    <3> QED
      BY <3>3, <3>4, <3>5 DEF ConvInv, CreatorInv, TurnInv
  <2> QED
    BY <2>3, <2>4
<1>4. ASSUME NEW c \in Callers, Restore(c) PROVE ConvInv'
  <2>1. /\ pc[c] = "restore" /\ pc'[c] = "idle" /\ on[c] = Main /\ native[Main] = NoNative
        /\ UNCHANGED <<on, journal, sent, loaded, creates, createErr, recordErr, closed, cancelled>>
        /\ OthersKept(c) /\ born[Main] # "yes" /\ Making(c)
    BY <1>4, <1>0, RestoreEffect DEF Restore, OthersKept, Kept, Others, BornOK, NativeOK, NInv,
       AloneInv, AloneOK, Making
  <2>2. born'[Main] = "yes" /\ native'[Main] = SavedBinding(Main)
    BY <1>4, <1>0, <2>1 DEF Restore, SessionTypes, NoNative
  <2>3. MainQuiet /\ SendsRight
    BY <1>0, <2>1, SameQuiet DEF SendsRight
  <2>4. \A d \in Callers : on'[d] = Main => d = c
    BY <1>0, <2>1 DEF NInv, AloneInv, AloneOK, OthersKept, Kept, Same
  <2>5. ASSUME NEW d \in Callers PROVE CreatorOK(d)' /\ TurnOK(d)'
    BY <2>1, <2>4 DEF CreatorOK, Creator, Creates, TurnOK, OpenPlaces, Opening
  <2>6. Bound =>
          /\ SavedBinding(Main) # NoNative
          /\ \A i \in Places : IsBinding(i) => journal[i].native = SavedBinding(Main)
    <3>1. SUFFICES ASSUME Bound
                   PROVE  /\ SavedBinding(Main) # NoNative
                          /\ \A i \in Places : IsBinding(i) => journal[i].native = SavedBinding(Main)
      OBVIOUS
    <3>2. Bindings(Main) # {} /\ Bindings(Main) \subseteq 1..loaded
      BY <1>0, <2>1, <3>1 DEF Bound, BindingInv, Bindings, IsBinding, Places, StoreTypes
    <3>3. Max(Bindings(Main)) \in Bindings(Main) /\ Max(Bindings(Main)) \in Places
      BY <1>0, <3>2, LatestPlace
    <3>4. IsBinding(Max(Bindings(Main))) /\ SavedBinding(Main) = journal[Max(Bindings(Main))].native
      BY <3>2, <3>3 DEF Bindings, IsBinding, SavedBinding, Latest
    <3> QED
      BY <1>0, <3>3, <3>4 DEF BindingInv
  <2>7. ~Bound => SavedBinding(Main) = NoNative
    <3>1. ~Bound => Bindings(Main) = {}
      BY <1>0 DEF Bound, Bindings, IsBinding, Places, StoreTypes
    <3> QED
      BY <3>1 DEF SavedBinding
  <2>8. OrderInv' /\ SentToInv' /\ BindingInv'
    BY <2>2, <2>3, <2>6, QuietOrder, QuietBound
  <2>9. MainInv'
    <3>1. Bound => Conversation(SavedBinding(Main))
      BY <2>6 DEF Conversation
    <3>2. PICK n : n = SavedBinding(Main)
      OBVIOUS
    <3>3. Bound => Conversation(n)'
      BY <1>0, <2>3, <3>1, <3>2, Untold
    <3>4. \A d \in Callers : ~Creator(d)
      BY <2>1, <2>4 DEF Creator, Creates, OpenPlaces, Opening
    <3>5. PICK k : k = creates[Main]
      OBVIOUS
    <3>6. Tried(k) => Tried(k)'
      BY <1>0, <2>3, Untold
    <3> QED
      BY <1>0, <2>1, <2>2, <2>6, <2>7, <3>2, <3>3, <3>4, <3>5, <3>6 DEF MainInv, Sick
  <2> QED
    BY <2>5, <2>8, <2>9 DEF ConvInv, CreatorInv, TurnInv
<1>5. ASSUME NEW c \in Callers, OpenAdmit(c) PROVE ConvInv'
  <2>0. pc[c] = "admit"
    BY <1>5 DEF OpenAdmit
  <2>10. CASE on[c] = Main
    BY <1>5, <1>0, <1>00, <2>0, <2>10, OpensMain, OpenAdmitConv DEF OpenPlaces, Opening
  <2>20. CASE on[c] # Main
    <3>1. on[c] # Main /\ on'[c] = on[c]
      BY <1>5, <1>0, OpenAdmitEffect, <2>0, <2>20 DEF OpenAdmit, OpenFailed, LoseFork, IsFork
    <3>2. OthersKept(c) /\ UNCHANGED <<sent, journal, loaded>>
      BY <1>5, <1>0, OpenAdmitEffect DEF OpenAdmit, OpenFailed, LoseFork, IsFork, OthersKept, Kept,
         Others, CallTypes
    <3>3. MainQuiet
      BY <1>0, <3>2, SameQuiet
    <3>4. MainKept
      BY <1>5, <1>0, <3>1 DEF OpenAdmit, OpenFailed, LoseFork, IsFork, MainKept, StoreTypes,
         SessionTypes
    <3>5. SendsRight
      BY <3>2 DEF SendsRight
    <3> QED
      BY <3>1, <3>2, <3>3, <3>4, <3>5, OtherSession
  <2> QED
    BY <2>10, <2>20
<1>6. ASSUME NEW c \in Callers, OpenSend(c) PROVE ConvInv'
  <2>0. pc[c] = "open"
    BY <1>6 DEF OpenSend
  <2>10. CASE on[c] = Main
    BY <1>6, <1>0, <1>00, <2>0, <2>10, OpensMain, OpenSendConv DEF OpenPlaces, Opening
  <2>20. CASE on[c] # Main
    <3>1. on[c] # Main /\ on'[c] = on[c]
      BY <1>6, <1>0, OpenSendEffect, <2>0, <2>20 DEF OpenSend
    <3>2. OthersKept(c) /\ UNCHANGED <<journal, loaded>>
      BY <1>6, <1>0, OpenSendEffect DEF OpenSend, OthersKept, Kept, Others, CallTypes
    <3>3. MainQuiet
      BY <1>0, <3>2, SameQuiet
    <3>4. MainKept
      BY <1>6, <1>0, <3>1 DEF OpenSend, MainKept, StoreTypes, SessionTypes
    <3>5. SendsRight
      <4>1. \A m \in sent' \ sent : m.node[1] = on[c]
        BY <1>6, <1>0, <2>0 DEF OpenSend, Sent, CallInv, CallOK, OpenPlaces, Opening
      <4> QED
        BY <3>1, <4>1 DEF SendsRight
    <3> QED
      BY <3>1, <3>2, <3>3, <3>4, <3>5, OtherSession
  <2> QED
    BY <2>10, <2>20
<1>7. ASSUME NEW c \in Callers, AdoptNative(c) PROVE ConvInv'
  <2>0. pc[c] = "adoptNative"
    BY <1>7 DEF AdoptNative
  <2>10. CASE on[c] = Main
    BY <1>7, <1>0, <1>00, <2>0, <2>10, OpensMain, AdoptNativeConv DEF OpenPlaces, Opening
  <2>20. CASE on[c] # Main
    <3>1. on[c] # Main /\ on'[c] = on[c]
      BY <1>7, <1>0, AdoptNativeEffect, <2>0, <2>20 DEF AdoptNative
    <3>2. OthersKept(c) /\ UNCHANGED <<sent, journal, loaded>>
      BY <1>7, <1>0, AdoptNativeEffect DEF AdoptNative, OthersKept, Kept, Others, CallTypes
    <3>3. MainQuiet
      BY <1>0, <3>2, SameQuiet
    <3>4. MainKept
      BY <1>7, <1>0, <3>1 DEF AdoptNative, MainKept, StoreTypes, SessionTypes
    <3>5. SendsRight
      BY <3>2 DEF SendsRight
    <3> QED
      BY <3>1, <3>2, <3>3, <3>4, <3>5, OtherSession
  <2> QED
    BY <2>10, <2>20
<1>8. ASSUME NEW c \in Callers, StopLate(c) PROVE ConvInv'
  <2>0. pc[c] = "stopLate"
    BY <1>8 DEF StopLate
  <2>10. CASE on[c] = Main
    BY <1>8, <1>0, <1>00, <2>0, <2>10, OpensMain, StopLateConv DEF OpenPlaces, Opening
  <2>20. CASE on[c] # Main
    <3>1. on[c] # Main /\ on'[c] = on[c]
      BY <1>8, <1>0, StopLateEffect, <2>0, <2>20 DEF StopLate, OpenFailed, LoseFork,
         NoteCreateError, StopNative, IsFork
    <3>2. OthersKept(c) /\ UNCHANGED <<sent, journal, loaded>>
      BY <1>8, <1>0, StopLateEffect DEF StopLate, OpenFailed, LoseFork, NoteCreateError, StopNative,
         IsFork, OthersKept, Kept, Others, CallTypes
    <3>3. MainQuiet
      BY <1>0, <3>2, SameQuiet
    <3>4. MainKept
      BY <1>8, <1>0, <3>1 DEF StopLate, OpenFailed, LoseFork, NoteCreateError, StopNative, IsFork,
         MainKept, StoreTypes, SessionTypes
    <3>5. SendsRight
      BY <3>2 DEF SendsRight
    <3> QED
      BY <3>1, <3>2, <3>3, <3>4, <3>5, OtherSession
  <2> QED
    BY <2>10, <2>20
<1>9. ASSUME NEW c \in Callers, TurnRefused(c) PROVE ConvInv'
  <2>1. pc[c] = "turn" /\ pc'[c] = "idle"
    BY <1>9, <1>0, TurnRefusedEffect DEF TurnRefused, Returns, Refusal
  <2>2. OthersKept(c) /\ UNCHANGED <<sent, journal, loaded>>
    BY <1>9, <1>0, TurnRefusedEffect DEF TurnRefused, Returns, Refusal, OthersKept, Kept, Others,
       CallTypes
  <2>3. MainQuiet
    BY <1>0, <2>2, SameQuiet
  <2>4. MainKept
    BY <1>9, <1>0, <2>1 DEF TurnRefused, Returns, Refusal, MainKept, StoreTypes, SessionTypes
  <2>5. SendsRight
    BY <2>2 DEF SendsRight
  <2> QED
    BY <2>1, <2>2, <2>3, <2>4, <2>5, IdleCall DEF OpenPlaces, Opening
<1>10. ASSUME NEW c \in Callers, StartTurn(c) PROVE ConvInv'
  <2>1. /\ pc[c] = "turn" /\ ~Refusal(on[c]) /\ ~recordErr /\ on'[c] = on[c] /\ act'[c] = act[c]
        /\ pc'[c] \in {"return", "create", "prompt"} /\ nat'[c] = native[on[c]] /\ on[c] \in Sessions
        /\ (pc'[c] = "create" => native[on[c]] = NoNative) /\ (pc'[c] = "prompt" => native[on[c]] # NoNative)
        /\ born[on[c]] = "yes"
    BY <1>10, <1>0, StartTurnEffect DEF StartTurn, CallTypes, CallInv, CallOK, BornOK, Making,
       OpenPlaces, Opening
  <2>2. OthersKept(c) /\ UNCHANGED <<sent, journal, loaded>>
    BY <1>10, <1>0, StartTurnEffect DEF StartTurn, OthersKept, Kept, Others, CallTypes
  <2>3. MainQuiet
    BY <1>0, <2>2, SameQuiet
  <2>4. MainKept
    BY <1>10, <1>0, <2>1 DEF StartTurn, MainKept, StoreTypes, SessionTypes
  <2>5. SendsRight
    BY <2>2 DEF SendsRight
  <2>6. ASSUME on[c] = Main, pc'[c] = "create" PROVE CreatorOK(c)'
    <3>1. ~Bound /\ ~createErr[Main]
      BY <1>0, <2>1, <2>6 DEF BindingInv, Bound, Refusal
    <3>2. ~Bound' /\ createErr'[Main] = createErr[Main]
      BY <1>0, <2>3, <2>4, <3>1, Untold DEF MainKept
    <3> QED
      BY <2>6, <3>1, <3>2 DEF CreatorOK
  <2>7. ASSUME on[c] = Main, pc'[c] = "prompt" PROVE TurnOK(c)'
    <3>1. \A d \in Callers : ~Creator(d)
      BY <2>1, <2>7, AloneCreator DEF Refusal
    <3>2. Conversation(native[Main])
      BY <1>0, <2>1, <2>7, <3>1 DEF MainInv, Sick, Refusal
    <3>3. PICK n : n = native[Main]
      OBVIOUS
    <3>4. Conversation(n)' /\ nat'[c] = n
      BY <1>0, <2>1, <2>3, <2>7, <3>2, <3>3, Untold
    <3> QED
      BY <3>4 DEF TurnOK
  <2>8. ~Creator(c) /\ CreatorOK(c)' /\ TurnOK(c)'
    BY <2>1, <2>6, <2>7 DEF Creator, Creates, CreatorOK, TurnOK, OpenPlaces, Opening
  <2> QED
    BY <2>2, <2>3, <2>4, <2>5, <2>8, CalmCall
<1>11. ASSUME NEW c \in Callers, TurnAdmit(c) PROVE ConvInv'
  <2>1. pc[c] = "turnAdmit" /\ pc'[c] \in {"settle", "send"} /\ on'[c] = on[c] /\ nat'[c] = nat[c]
    BY <1>11, <1>0, TurnAdmitEffect DEF TurnAdmit
  <2>2. OthersKept(c) /\ UNCHANGED <<sent, journal, loaded>>
    BY <1>11, <1>0, TurnAdmitEffect DEF TurnAdmit, OthersKept, Kept, Others, CallTypes
  <2>3. MainQuiet
    BY <1>0, <2>2, SameQuiet
  <2>4. MainKept
    BY <1>11, <1>0, <2>1 DEF TurnAdmit, MainKept, StoreTypes, SessionTypes
  <2>5. SendsRight
    BY <2>2 DEF SendsRight
  <2> QED
    BY <2>1, <2>2, <2>3, <2>4, <2>5, TurnGoesOn DEF OpenPlaces, Opening
<1>12. ASSUME NEW c \in Callers, TurnSend(c) PROVE ConvInv'
  <2>1. pc[c] = "send" /\ pc'[c] = "native" /\ turn[c][1] = on[c] /\ TurnOK(c)
    BY <1>12, <1>0, TurnSendEffect DEF TurnSend, CallInv, CallOK, Turning, TurnPlaces
  <2>2. OthersKept(c) /\ UNCHANGED <<journal, loaded>>
    BY <1>12, <1>0, TurnSendEffect DEF TurnSend, OthersKept, Kept, Others, CallTypes
  <2>3. MainQuiet
    BY <1>0, <2>2, SameQuiet
  <2>4. MainKept
    BY <1>12, <1>0, <2>1 DEF TurnSend, MainKept, StoreTypes, SessionTypes
  <2>5. SendsRight
    <3>1. \A m \in sent' \ sent : m.node = turn[c] /\ m.native = nat[c]
      BY <1>12 DEF TurnSend, Sent
    <3> QED
      BY <2>1, <3>1 DEF SendsRight, TurnOK
  <2> QED
    BY <2>1, <2>2, <2>3, <2>4, <2>5, IdleCall DEF OpenPlaces, Opening
<1>13. ASSUME NEW c \in Callers, Settle(c) PROVE ConvInv'
  <2>1. pc[c] = "settle" /\ pc'[c] = "finish"
    BY <1>13, <1>0, SettleEffect DEF Settle
  <2>2. OthersKept(c) /\ UNCHANGED <<sent, journal, loaded>>
    BY <1>13, <1>0, SettleEffect DEF Settle, OthersKept, Kept, Others, CallTypes
  <2>3. MainQuiet
    BY <1>0, <2>2, SameQuiet
  <2>4. MainKept
    BY <1>13, <1>0, <2>1 DEF Settle, MainKept, StoreTypes, SessionTypes
  <2>5. SendsRight
    BY <2>2 DEF SendsRight
  <2> QED
    BY <2>1, <2>2, <2>3, <2>4, <2>5, IdleCall DEF OpenPlaces, Opening
<1>14. ASSUME NEW c \in Callers, EndTurn(c) PROVE ConvInv'
  <2>1. pc[c] = "return" /\ pc'[c] \in {"idle", "turn"}
    BY <1>14, <1>0, EndTurnEffect DEF EndTurn, Returns
  <2>2. OthersKept(c) /\ UNCHANGED <<sent, journal, loaded>>
    BY <1>14, <1>0, EndTurnEffect DEF EndTurn, Returns, OthersKept, Kept, Others, CallTypes
  <2>3. MainQuiet
    BY <1>0, <2>2, SameQuiet
  <2>4. MainKept
    BY <1>14, <1>0, <2>1 DEF EndTurn, Returns, MainKept, StoreTypes, SessionTypes
  <2>5. SendsRight
    BY <2>2 DEF SendsRight
  <2> QED
    BY <2>1, <2>2, <2>3, <2>4, <2>5, IdleCall DEF OpenPlaces, Opening
<1>15. ASSUME NEW c \in Callers, NEW ok \in BOOLEAN, ForkIntent(c, ok) PROVE ConvInv'
  <2>1. pc[c] = "fork" /\ on[c] # Main /\ on'[c] = on[c]
    BY <1>15, <1>0, ForkIntentEffect DEF ForkIntent, BornOK
  <2>2. OthersKept(c) /\ UNCHANGED <<sent, loaded>>
    <3>1. recorded' = recorded /\ UNCHANGED <<sent, loaded>>
      BY <1>15 DEF ForkIntent
    <3> QED
      BY <1>15, <1>0, <3>1, ForkIntentEffect DEF OthersKept, Kept, Others, CallTypes
  <2>3. MainQuiet
    <3>1. ~Telling(Fact(ForkNode(on[c]), "intent", "none", NoNative))
      BY <2>1 DEF Telling, Fact, OutcomeKinds
    <3> QED
      BY <1>15, <1>0, <3>1, ForkIntentWrites, WritesQuiet
  <2>4. MainKept
    BY <1>15, <1>0, <2>1 DEF ForkIntent, MainKept, StoreTypes, SessionTypes, Prepare, Record
  <2>5. SendsRight
    BY <2>2 DEF SendsRight
  <2> QED
    BY <2>1, <2>2, <2>3, <2>4, <2>5, OtherSession
<1>16. ASSUME NEW c \in Callers, NEW ok \in BOOLEAN, Create(c, ok) PROVE ConvInv'
  <2>0. pc[c] = "create"
    BY <1>16 DEF Create
  <2>10. CASE on[c] = Main
    BY <1>16, <1>0, <1>00, <2>0, <2>10, OpensMain, CreateConv DEF OpenPlaces, Opening
  <2>20. CASE on[c] # Main
    <3>1. on[c] # Main /\ on'[c] = on[c]
      BY <1>16, <1>0, CreateEffect, <2>0, <2>20 DEF Create
    <3>2. OthersKept(c) /\ UNCHANGED <<sent, loaded>>
      <4>1. recorded' = recorded /\ UNCHANGED <<sent, loaded>>
        BY <1>16 DEF Create
      <4> QED
        BY <1>16, <1>0, <4>1, CreateEffect DEF OthersKept, Kept, Others, CallTypes
    <3>3. MainQuiet
      <4>1. ~Telling(Fact(CreateNode(on[c], creates[on[c]] + 1), "intent", "none", NoNative))
        BY <3>1 DEF Telling, Fact, OutcomeKinds
      <4> QED
        BY <1>16, <1>0, <4>1, CreateWrites, WritesQuiet
    <3>4. MainKept
      BY <1>16, <1>0, <3>1 DEF Create, MainKept, StoreTypes, SessionTypes, Prepare, Record
    <3>5. SendsRight
      BY <3>2 DEF SendsRight
    <3> QED
      BY <3>1, <3>2, <3>3, <3>4, <3>5, OtherSession
  <2> QED
    BY <2>10, <2>20
<1>17. ASSUME NEW c \in Callers, NEW ok \in BOOLEAN, OpenFinish(c, ok) PROVE ConvInv'
  <2>0. pc[c] = "opened"
    BY <1>17 DEF OpenFinish
  <2>10. CASE on[c] = Main
    BY <1>17, <1>0, <1>00, <2>0, <2>10, OpensMain, OpenFinishConv DEF OpenPlaces, Opening
  <2>20. CASE on[c] # Main
    <3>1. on[c] # Main /\ on'[c] = on[c] /\ act[c][1] = on[c]
      BY <1>17, <1>0, OpenFinishEffect, <2>0, <2>20 DEF OpenFinish, CallInv, CallOK, OpenPlaces,
         Opening
    <3>2. OthersKept(c) /\ UNCHANGED <<sent, loaded>>
      <4>1. recorded' = [recorded EXCEPT ![c] = ok] /\ UNCHANGED <<sent, loaded>>
        BY <1>17 DEF OpenFinish
      <4> QED
        BY <1>17, <1>0, <4>1, OpenFinishEffect DEF OthersKept, Kept, Others, CallTypes
    <3>3. MainQuiet
      <4>1. ~Telling(Outcome(act[c], ans[c], got[c]))
        BY <3>1 DEF Telling, Outcome, Fact
      <4> QED
        BY <1>17, <1>0, <4>1, OpenFinishWrites, WritesQuiet
    <3>4. MainKept
      BY <1>17, <1>0, <3>1 DEF OpenFinish, MainKept, StoreTypes, SessionTypes, Prepare, Record
    <3>5. SendsRight
      BY <3>2 DEF SendsRight
    <3> QED
      BY <3>1, <3>2, <3>3, <3>4, <3>5, OtherSession
  <2> QED
    BY <2>10, <2>20
<1>18. ASSUME NEW c \in Callers, NEW ok \in BOOLEAN, Bind(c, ok) PROVE ConvInv'
  <2>0. pc[c] = "bind"
    BY <1>18 DEF Bind
  <2>10. CASE on[c] = Main
    BY <1>18, <1>0, <1>00, <2>0, <2>10, OpensMain, BindOpenConv, BindOtherConv DEF OpenPlaces,
       Opening
  <2>20. CASE on[c] # Main
    <3>1. on[c] # Main /\ on'[c] = on[c] /\ act[c][1] = on[c]
      BY <1>18, <1>0, BindEffect, <2>0, <2>20 DEF Bind, OpenFailed, IsFork, NoteCreateError,
         CallInv, CallOK, OpenPlaces, Opening
    <3>2. OthersKept(c) /\ UNCHANGED <<sent, loaded>>
      <4>1. recorded' = recorded /\ UNCHANGED <<sent, loaded>>
        BY <1>18 DEF Bind, OpenFailed, IsFork, NoteCreateError
      <4> QED
        BY <1>18, <1>0, <4>1, BindEffect DEF OthersKept, Kept, Others, CallTypes
    <3>3. MainQuiet
      <4>1. ~Telling(Fact(act[c], "native-binding", "none", got[c]))
        BY <3>1 DEF Telling, Fact
      <4> QED
        BY <1>18, <1>0, <4>1, BindWrites, WritesQuiet
    <3>4. MainKept
      BY <1>18, <1>0, <3>1 DEF Bind, OpenFailed, IsFork, NoteCreateError, MainKept, StoreTypes,
         SessionTypes, Prepare, Record
    <3>5. SendsRight
      BY <3>2 DEF SendsRight
    <3> QED
      BY <3>1, <3>2, <3>3, <3>4, <3>5, OtherSession
  <2> QED
    BY <2>10, <2>20
<1>19. ASSUME NEW c \in Callers, NEW ok \in BOOLEAN, TurnIntent(c, ok) PROVE ConvInv'
  <2>1. pc[c] = "prompt" /\ pc'[c] \in {"turnAdmit", "settle", "return"} /\ on'[c] = on[c] /\ nat'[c] = nat[c]
    BY <1>19, <1>0, TurnIntentEffect DEF TurnIntent
  <2>2. OthersKept(c) /\ UNCHANGED <<sent, loaded>>
    <3>1. recorded' = recorded /\ UNCHANGED <<sent, loaded>>
      BY <1>19 DEF TurnIntent
    <3> QED
      BY <1>19, <1>0, <3>1, TurnIntentEffect DEF OthersKept, Kept, Others, CallTypes
  <2>3. MainQuiet
    <3>1. ~Telling(Fact(turn[c], "intent", "none", NoNative))
      BY <2>1 DEF Telling, Fact, OutcomeKinds
    <3> QED
      BY <1>19, <1>0, <3>1, TurnIntentWrites, WritesQuiet
  <2>4. MainKept
    BY <1>19, <1>0, <2>1 DEF TurnIntent, MainKept, StoreTypes, SessionTypes, Prepare, Record
  <2>5. SendsRight
    BY <2>2 DEF SendsRight
  <2> QED
    BY <2>1, <2>2, <2>3, <2>4, <2>5, TurnGoesOn DEF OpenPlaces, Opening
<1>20. ASSUME NEW c \in Callers, NEW ok \in BOOLEAN, TurnFinish(c, ok) PROVE ConvInv'
  <2>1. pc[c] = "finish" /\ pc'[c] = "return" /\ turn[c][2] = "turn"
    BY <1>20, <1>0, TurnFinishEffect DEF TurnFinish, CallInv, CallOK, Turning, TurnPlaces
  <2>2. OthersKept(c) /\ UNCHANGED <<sent, loaded>>
    <3>1. recorded' = recorded /\ UNCHANGED <<sent, loaded>>
      BY <1>20 DEF TurnFinish
    <3> QED
      BY <1>20, <1>0, <3>1, TurnFinishEffect DEF OthersKept, Kept, Others, CallTypes
  <2>3. MainQuiet
    <3>1. ~Telling(Outcome(turn[c], ans[c], NoNative))
      BY <2>1 DEF Telling, Outcome, Fact
    <3> QED
      BY <1>20, <1>0, <3>1, TurnFinishWrites, WritesQuiet
  <2>4. MainKept
    BY <1>20, <1>0, <2>1 DEF TurnFinish, MainKept, StoreTypes, SessionTypes, Prepare, Record
  <2>5. SendsRight
    BY <2>2 DEF SendsRight
  <2> QED
    BY <2>1, <2>2, <2>3, <2>4, <2>5, IdleCall DEF OpenPlaces, Opening
<1>21. ASSUME NEW c \in Callers, NEW a \in CreateAnswers, NEW id \in {NoNative, Len(closes) + 1},
  OpenReturn(c, a, id)
  PROVE ConvInv'
  <2>0. pc[c] = "opening"
    BY <1>21 DEF OpenReturn
  <2>10. CASE on[c] = Main
    BY <1>21, <1>0, <1>00, <2>0, <2>10, OpensMain, OpenReturnConv DEF OpenPlaces, Opening
  <2>20. CASE on[c] # Main
    <3>1. on[c] # Main /\ on'[c] = on[c]
      BY <1>21, <1>0, OpenReturnEffect, <2>0, <2>20 DEF OpenReturn
    <3>2. OthersKept(c) /\ UNCHANGED <<sent, journal, loaded>>
      BY <1>21, <1>0, OpenReturnEffect DEF OpenReturn, OthersKept, Kept, Others, CallTypes
    <3>3. MainQuiet
      BY <1>0, <3>2, SameQuiet
    <3>4. MainKept
      BY <1>21, <1>0, <3>1 DEF OpenReturn, MainKept, StoreTypes, SessionTypes
    <3>5. SendsRight
      BY <3>2 DEF SendsRight
    <3> QED
      BY <3>1, <3>2, <3>3, <3>4, <3>5, OtherSession
  <2> QED
    BY <2>10, <2>20
<1>22. ASSUME NEW c \in Callers, NEW a \in AllAnswers, TurnReturn(c, a) PROVE ConvInv'
  <2>1. pc[c] = "native" /\ pc'[c] = "settle"
    BY <1>22, <1>0, TurnReturnEffect DEF TurnReturn
  <2>2. OthersKept(c) /\ UNCHANGED <<sent, journal, loaded>>
    BY <1>22, <1>0, TurnReturnEffect DEF TurnReturn, OthersKept, Kept, Others, CallTypes
  <2>3. MainQuiet
    BY <1>0, <2>2, SameQuiet
  <2>4. MainKept
    BY <1>22, <1>0, <2>1 DEF TurnReturn, MainKept, StoreTypes, SessionTypes
  <2>5. SendsRight
    BY <2>2 DEF SendsRight
  <2> QED
    BY <2>1, <2>2, <2>3, <2>4, <2>5, IdleCall DEF OpenPlaces, Opening
<1>23. ASSUME NEW c \in Callers, NEW b \in Branches, Fork(c, b) PROVE ConvInv'
  <2>1. pc[c] = "idle" /\ pc'[c] = "adopt"
    BY <1>23, <1>0, ForkEffect DEF Fork
  <2>2. OthersKept(c) /\ UNCHANGED <<sent, journal, loaded>>
    BY <1>23, <1>0, ForkEffect DEF Fork, OthersKept, Kept, Others, CallTypes
  <2>3. MainQuiet
    BY <1>0, <2>2, SameQuiet
  <2>4. MainKept
    BY <1>23, <1>0, <2>1 DEF Fork, MainKept, StoreTypes, SessionTypes
  <2>5. SendsRight
    BY <2>2 DEF SendsRight
  <2> QED
    BY <2>1, <2>2, <2>3, <2>4, <2>5, IdleCall DEF OpenPlaces, Opening
<1>24. ASSUME NEW c \in Callers, NEW s \in Sessions, Generate(c, s) PROVE ConvInv'
  <2>1. pc[c] = "idle" /\ pc'[c] \in {"idle", "turn"}
    BY <1>24, <1>0, GenerateEffect DEF Generate
  <2>2. OthersKept(c) /\ UNCHANGED <<sent, journal, loaded>>
    BY <1>24, <1>0, GenerateEffect DEF Generate, OthersKept, Kept, Others, CallTypes
  <2>3. MainQuiet
    BY <1>0, <2>2, SameQuiet
  <2>4. MainKept
    BY <1>24, <1>0, <2>1 DEF Generate, MainKept, StoreTypes, SessionTypes
  <2>5. SendsRight
    BY <2>2 DEF SendsRight
  <2> QED
    BY <2>1, <2>2, <2>3, <2>4, <2>5, IdleCall DEF OpenPlaces, Opening
<1>25. ASSUME Cancel PROVE ConvInv'
  <2>1. UNCHANGED <<pc, on, act, turn, ans, got, nat, recorded, sent, journal>>
    BY <1>25 DEF Cancel
  <2>2. MainKept
    BY <1>25, <1>0 DEF Cancel, MainKept, StoreTypes, SessionTypes
  <2>3. MainQuiet
    BY <1>0, <2>1, SameQuiet
  <2>4. SendsRight /\ \A d \in Callers : Kept(d)
    BY <2>1 DEF SendsRight, Kept, Same
  <2> QED
    BY <2>2, <2>3, <2>4, CalmStep
<1>26. ASSUME JournalFails PROVE ConvInv'
  <2>1. UNCHANGED <<pc, on, act, turn, ans, got, nat, recorded, sent, journal>>
    BY <1>26 DEF JournalFails
  <2>2. MainKept
    BY <1>26, <1>0 DEF JournalFails, MainKept, StoreTypes, SessionTypes
  <2>3. MainQuiet
    BY <1>0, <2>1, SameQuiet
  <2>4. SendsRight /\ \A d \in Callers : Kept(d)
    BY <2>1 DEF SendsRight, Kept, Same
  <2> QED
    BY <2>2, <2>3, <2>4, CalmStep
<1>27. ASSUME EndScope PROVE ConvInv'
  <2>1. UNCHANGED <<pc, on, act, turn, ans, got, nat, recorded, sent, journal>>
    BY <1>27 DEF EndScope
  <2>2. MainKept
    BY <1>27, <1>0 DEF EndScope, MainKept, StoreTypes, SessionTypes
  <2>3. MainQuiet
    BY <1>0, <2>1, SameQuiet
  <2>4. SendsRight /\ \A d \in Callers : Kept(d)
    BY <2>1 DEF SendsRight, Kept, Same
  <2> QED
    BY <2>2, <2>3, <2>4, CalmStep
<1>28. ASSUME CloseMark PROVE ConvInv'
  <2>1. UNCHANGED <<pc, on, act, turn, ans, got, nat, recorded, sent, journal>>
    BY <1>28 DEF CloseMark
  <2>2. MainKept
    BY <1>28, <1>0 DEF CloseMark, MainKept, StoreTypes, SessionTypes
  <2>3. MainQuiet
    BY <1>0, <2>1, SameQuiet
  <2>4. SendsRight /\ \A d \in Callers : Kept(d)
    BY <2>1 DEF SendsRight, Kept, Same
  <2> QED
    BY <2>2, <2>3, <2>4, CalmStep
<1>29. ASSUME NEW ok \in BOOLEAN, CloseEvent(ok) PROVE ConvInv'
  <2>1. UNCHANGED <<pc, on, act, turn, ans, got, nat, recorded, sent>>
    BY <1>29 DEF CloseEvent
  <2>2. MainKept
    BY <1>29, <1>0 DEF CloseEvent, MainKept, StoreTypes, SessionTypes, Prepare, Record
  <2>3. MainQuiet
    BY <1>29, <1>0, CloseEventWrites, WritesQuiet DEF Telling, Fact, OutcomeKinds
  <2>4. SendsRight /\ \A d \in Callers : Kept(d)
    BY <2>1 DEF SendsRight, Kept, Same
  <2> QED
    BY <2>2, <2>3, <2>4, CalmStep
<1>30. ASSUME NEW ok \in BOOLEAN, RunEnds(ok) PROVE ConvInv'
  <2>1. UNCHANGED <<pc, on, act, turn, ans, got, nat, recorded, sent>>
    BY <1>30 DEF RunEnds
  <2>2. MainKept
    BY <1>30, <1>0 DEF RunEnds, MainKept, StoreTypes, SessionTypes, Prepare, Record
  <2>3. MainQuiet
    BY <1>30, <1>0, RunEndsWrites, WritesQuiet DEF Telling, Fact, OutcomeKinds
  <2>4. SendsRight /\ \A d \in Callers : Kept(d)
    BY <2>1 DEF SendsRight, Kept, Same
  <2> QED
    BY <2>2, <2>3, <2>4, CalmStep
<1>31. ASSUME Reenter PROVE ConvInv'
  <2>1. /\ UNCHANGED <<journal, sent>> /\ loaded' = Len(journal)
        /\ pc' = All(Callers, "idle") /\ native' = All(Sessions, NoNative) /\ creates' = All(Sessions, 0)
        /\ born' = All(Sessions, "no")
    BY <1>31 DEF Reenter
  <2>2. native'[Main] = NoNative /\ creates'[Main] = 0 /\ born'[Main] = "no" /\ \A c \in Callers : pc'[c] = "idle"
    BY <1>0, <2>1 DEF All
  <2>3. MainQuiet /\ SendsRight
    BY <1>0, <2>1, SameQuiet DEF SendsRight
  <2>4. OrderInv' /\ SentToInv'
    BY <2>3, QuietOrder
  <2>5. BindingInv'
    BY <1>0, <2>1, <2>2 DEF BindingInv, IsBinding, Places, StoreTypes
  <2>6. CreatorInv' /\ TurnInv'
    BY <2>2 DEF CreatorInv, CreatorOK, Creator, Creates, TurnInv, TurnOK, OpenPlaces, Opening
  <2>7. MainInv'
    BY <2>2 DEF MainInv, Tried
  <2> QED
    BY <2>4, <2>5, <2>6, <2>7 DEF ConvInv
<1>32. CASE Rest
  <2>1. UNCHANGED <<pc, on, act, turn, ans, got, nat, recorded, journal, sent, loaded, native,
                    born, creates, createErr, closed, recordErr, cancelled, poison>>
    BY <1>1, <1>32
  <2>2. MainKept
    BY <2>1 DEF MainKept
  <2>3. MainQuiet /\ SendsRight /\ \A d \in Callers : Kept(d)
    BY <1>0, <2>1, SameQuiet DEF SendsRight, Kept, Same
  <2> QED
    BY <2>2, <2>3, CalmStep
<1> QED
  BY <1>2, <1>3, <1>4, <1>5, <1>6, <1>7, <1>8, <1>9, <1>10, <1>11, <1>12, <1>13, <1>14, <1>15,
    <1>16, <1>17, <1>18, <1>19, <1>20, <1>21, <1>22, <1>23, <1>24, <1>25, <1>26, <1>27, <1>28,
    <1>29, <1>30, <1>31, <1>32 DEF Next, CallerStep, OpenStep, TurnStep, BodyCall, ScopeStep

-----------------------------------------------------------------------------
(* The theorems *)

\* The invariant holds initially.
LEMMA InitConv == Init => CInv
<1> SUFFICES ASSUME Init PROVE CInv
  OBVIOUS
<1>1. NInv
  BY InitRelease DEF RInv
<1>2. /\ pc = [c \in Callers |-> "idle"] /\ native = [s \in Sessions |-> NoNative] /\ journal = <<>>
      /\ creates = [s \in Sessions |-> 0] /\ sent = {} /\ Main \in Sessions
  BY DEF Init, All, Sessions
<1>3. Places = {}
  BY <1>2 DEF Places
<1>4. OrderInv /\ BindingInv /\ SentToInv
  BY <1>2, <1>3 DEF OrderInv, Outcomes, BindingInv, SentToInv
<1>5. CreatorInv /\ TurnInv
  BY <1>2 DEF CreatorInv, CreatorOK, Creator, Creates, TurnInv, TurnOK, OpenPlaces, Opening
<1>6. MainInv
  BY <1>2 DEF MainInv, Tried
<1> QED
  BY <1>1, <1>4, <1>5, <1>6 DEF CInv, ConvInv

\* Every step preserves it.
LEMMA StepConversation == CInv /\ [Next]_vars => CInv'
<1> SUFFICES ASSUME CInv, [Next]_vars PROVE CInv'
  OBVIOUS
<1>1. NInv'
  BY StepInv, StepNative DEF CInv, NInv
<1>2. ConvInv'
  BY StepConv
<1> QED
  BY <1>1, <1>2 DEF CInv

\* So it holds in every state.
LEMMA ConversationInvariant == Spec => []CInv
BY InitConv, StepConversation, PTL DEF Spec

\* What ResumesConversation says of the session NewSession makes.
MainResumes ==
  \A m, p \in sent :
    (m.node[2] = "turn" /\ p.node[2] = "turn" /\ m.node[1] = Main /\ p.node[1] = Main) => m.native = p.native

\* Whatever is forked from it, fails or is cancelled, and however often the body is
\* re-entered, NewSession and create find the native session that the turns of earlier
\* processes went to: all turns of the session go to one.
THEOREM MainConversationSurvives == Spec => []MainResumes
<1>1. CInv => MainResumes
  <2> SUFFICES ASSUME CInv, NEW m \in sent, NEW p \in sent, m.node[2] = "turn", p.node[2] = "turn",
                      m.node[1] = Main, p.node[1] = Main
               PROVE  m.native = p.native
    BY DEF MainResumes
  <2>1. IInv /\ OrderInv /\ Conversation(m.native) /\ Conversation(p.native)
    BY DEF CInv, NInv, ConvInv, SentToInv
  <2> QED
    BY <2>1, OneConversation
<1> QED
  BY <1>1, ConversationInvariant, PTL

\* So in a run that forks no session the conversation of every session survives the
\* restarts.  (A fork has no such promise: see the README.)
THEOREM ConversationSurvives ==
  ASSUME Branches = {}
  PROVE  Spec => []ResumesConversation
<1>1. CInv /\ MainResumes => ResumesConversation
  <2> SUFFICES ASSUME CInv, MainResumes PROVE ResumesConversation
    OBVIOUS
  <2>1. ASSUME NEW m \in sent PROVE m.node[1] = Main
    <3>1. Intended(m.node) /\ StoreTypes
      BY DEF CInv, NInv, IInv, TypeOK, SentInv
    <3>2. m.node[1] \in Sessions
      BY <3>1, PlaceFacts DEF Intended
    <3> QED
      BY <3>2 DEF Sessions
  <2> QED
    BY <2>1 DEF MainResumes, ResumesConversation
<1> QED
  BY <1>1, ConversationInvariant, MainConversationSurvives, PTL

=============================================================================
