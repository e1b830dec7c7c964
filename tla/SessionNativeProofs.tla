------------------------- MODULE SessionNativeProofs -------------------------
(***************************************************************************)
(* Which native session an agent session uses, and who closes it: in the   *)
(* first process of a run every native session the adapter made is closed  *)
(* exactly once, by the teardown or by the call that came too late for it. *)
(***************************************************************************)
EXTENDS SessionProofs

-----------------------------------------------------------------------------
(* The inductive invariant: one writer of a session's native session *)

\* Where a caller makes a session, creates a native one for it, and has one to use.
Making(c) == pc[c] \in {"adopt", "restore", "fork"} \/ (pc[c] \in OpenPlaces /\ IsFork(c))
Creates(c) == pc[c] = "create" \/ (pc[c] \in OpenPlaces /\ ~IsFork(c))
Equipped == {"prompt", "turnAdmit", "send", "native", "settle", "finish"}
Active(c) == Turning(c) \/ pc[c] = "return"

\* Who makes a session is alone with it; who creates its native session, or could not,
\* is alone in a turn of it, although running is cleared twice.
AloneOK(c) ==
  /\ Making(c) => born[on[c]] \in {"no", "adopted"} /\ \A d \in Callers : d # c => on[d] # on[c]
  /\ Creates(c) \/ (pc[c] = "return" /\ native[on[c]] = NoNative) =>
       running[on[c]] /\ \A d \in Callers : d # c /\ Active(d) => on[d] # on[c]
AloneInv == \A c \in Callers : AloneOK(c)

\* A turn has a native session, and who opens one finds none.
NativeOK(c) ==
  /\ pc[c] \in Equipped => native[on[c]] # NoNative
  /\ pc[c] \in Opening \cup {"adopt", "restore", "fork", "create", "adoptNative"} => native[on[c]] = NoNative
  /\ pc[c] \in {"stopLate", "bind"} => native[on[c]] = got[c]
  /\ pc[c] = "stopLate" => got[c] # NoNative /\ closed[on[c]]
NativeInv == \A c \in Callers : NativeOK(c)

\* A session is used by nobody before it is born, and only the main one is not a fork.
BornOK(c) ==
  /\ pc[c] # "idle" /\ ~Making(c) => born[on[c]] = "yes"
  /\ pc[c] = "adopt" => born[on[c]] = "no"
  /\ pc[c] = "restore" => on[c] = Main
  /\ pc[c] = "fork" \/ (pc[c] \in OpenPlaces /\ IsFork(c)) => on[c] # Main
UnbornOK(s) ==
  born[s] = "no" =>
    /\ native[s] = NoNative
    /\ \A c \in Callers : on[c] = s => pc[c] \in {"idle", "adopt"}
BornInv == (\A s \in Sessions : UnbornOK(s)) /\ \A c \in Callers : BornOK(c)

Fine(c) == AloneOK(c) /\ NativeOK(c) /\ BornOK(c)
NInv == IInv /\ AloneInv /\ NativeInv /\ BornInv

-----------------------------------------------------------------------------
(* The inductive invariant: who closes *)

\* The sessions the teardown has still to mark.
Unmarked ==
  IF teardown = "no" THEN owned
  ELSE IF teardown = "mark" THEN toClose
  ELSE IF teardown \in {"stop", "event"} THEN Tail(toClose) ELSE <<>>

\* They are those that are open, each once.
OpenOnce(q) ==
  /\ \A s \in Sessions : born[s] # "no" /\ ~closed[s] => \E i \in 1..Len(q) : q[i] = s
  /\ \A i \in 1..Len(q) : born[q[i]] # "no" /\ ~closed[q[i]]
  /\ \A i, j \in 1..Len(q) : q[i] = q[j] => i = j
UnmarkedInv == (teardown = "no" <=> ~ended) /\ OpenOnce(Unmarked)

\* A native session is with the call that opened it until its session has it.
Holds(c) == pc[c] \in {"opened", "adoptNative"} /\ got[c] # NoNative
HeldInv ==
  /\ \A c \in Callers : Holds(c) =>
       /\ closes[got[c]] = 0
       /\ \A s \in Sessions : native[s] # got[c]
       /\ \A d \in Callers : Holds(d) /\ got[d] = got[c] => d = c
  /\ \A s, t \in Sessions : native[s] # NoNative /\ native[t] = native[s] => s = t
  /\ \A n \in 1..Len(closes) :
       (\E c \in Callers : Holds(c) /\ got[c] = n) \/ (\E s \in Sessions : native[s] = n)

\* About to be closed, by the teardown or by the call that came late.
ByTeardown(s) == teardown = "stop" /\ Head(toClose) = s
ByCall(s) == \E c \in Callers : pc[c] = "stopLate" /\ on[c] = s

\* What is closed was closed once, or is about to be closed by one of the two.
CloseOK(s) ==
  native[s] # NoNative =>
    closes[native[s]] = IF closed[s] /\ ~ByTeardown(s) /\ ~ByCall(s) THEN 1 ELSE 0
ReleaseInv ==
  /\ \A s \in Sessions : CloseOK(s) /\ ~(ByTeardown(s) /\ ByCall(s))
  /\ \A s \in Sessions : ByTeardown(s) => native[s] # NoNative /\ closed[s]

\* The body has joined its goroutines when it returns, and Run waits for the teardown.
JoinInv ==
  /\ bodyDone => \A c \in Callers : pc[c] = "idle"
  /\ over => bodyDone /\ teardown = "done"

FirstInv == loaded = 0 /\ UnmarkedInv /\ HeldInv /\ ReleaseInv /\ JoinInv

RInv == NInv /\ (stops = 0 => FirstInv)

\* The abbreviations of tuples of variables.
USE DEF storeVars, endVars, scopeVars, counters, turnVars, sessionVars,
  argVars, resultVars, tries, callVars, worldVars

-----------------------------------------------------------------------------
(* What a step of one caller leaves of the others *)

\* The step changes no session but the caller's.
Elsewhere(c) ==
  \A t \in Sessions \ {on'[c]} :
    born'[t] = born[t] /\ native'[t] = native[t] /\ running'[t] = running[t] /\ closed'[t] = closed[t]

\* A caller that is in a call has a session; so does everyone who makes one or creates.
LEMMA PlacesApart ==
  ASSUME IInv, NEW c \in Callers
  PROVE  /\ pc[c] # "idle" => on[c] \in Sessions
         /\ Making(c) \/ Active(c) => pc[c] # "idle"
         /\ ~(Making(c) /\ Active(c))
         /\ Creates(c) => Active(c)
         /\ pc[c] \in OpenPlaces \cup {"adopt", "restore", "fork", "create"} => Making(c) \/ Creates(c)
         /\ Active(c) => Creates(c) \/ pc[c] \in Equipped \/ pc[c] = "return"
<1>1. CallOK(c)
  BY DEF IInv, CallInv
<1> QED
  BY <1>1 DEF CallOK, Making, Active, Creates, Equipped, Turning, TurnPlaces, OpenPlaces, Opening

\* Who is the same, and whose session is the same, is as fine as before if the
\* step's caller is not with it.
LEMMA FarStaysFine ==
  ASSUME NInv, NEW c \in Callers, Others(c), Elsewhere(c), NEW d \in Callers, d # c, on'[c] # on[d]
  PROVE  Fine(d)'
<1>1. Fine(d) /\ Same(d) /\ (pc[d] # "idle" => on[d] \in Sessions)
  BY PlacesApart DEF NInv, AloneInv, NativeInv, BornInv, Fine, Others
<1>2. /\ Making(d)' <=> Making(d)
      /\ Creates(d)' <=> Creates(d)
      /\ (pc[d] \in OpenPlaces /\ IsFork(d))' <=> (pc[d] \in OpenPlaces /\ IsFork(d))
  BY <1>1 DEF Same, Making, Creates, IsFork
<1>3. pc[d] # "idle" => /\ born'[on[d]] = born[on[d]] /\ native'[on[d]] = native[on[d]]
                        /\ running'[on[d]] = running[on[d]] /\ closed'[on[d]] = closed[on[d]]
  BY <1>1 DEF Elsewhere
<1>4. Making(d) \/ Creates(d) \/ pc[d] = "return" => pc[d] # "idle"
  BY PlacesApart DEF NInv, Active
<1>5. \A e \in Callers : e # d /\ e # c => on'[e] = on[e] /\ (Active(e)' <=> Active(e))
  BY DEF Others, Same, Active, Turning, IsFork
<1>6. AloneOK(d)'
  BY <1>1, <1>2, <1>3, <1>4, <1>5 DEF Fine, AloneOK, Same
<1>7. NativeOK(d)'
  BY <1>1, <1>2, <1>3 DEF Fine, NativeOK, Same, Equipped, Opening
<1>8. BornOK(d)'
  BY <1>1, <1>2, <1>3 DEF Fine, BornOK, Same
<1> QED
  BY <1>6, <1>7, <1>8 DEF Fine

\* Nobody else is at a session that is being made.
LEMMA MakerStep ==
  ASSUME NInv, NEW c \in Callers, Making(c), Others(c), Elsewhere(c), on'[c] = on[c],
         born'[on[c]] # "no", Fine(c)'
  PROVE  AloneInv' /\ NativeInv' /\ BornInv'
<1>1. ASSUME NEW d \in Callers, d # c PROVE on[d] # on[c]
  BY <1>1 DEF NInv, AloneInv, AloneOK
<1>2. ASSUME NEW d \in Callers PROVE Fine(d)'
  BY <1>1, FarStaysFine
<1>3. ASSUME NEW s \in Sessions PROVE UnbornOK(s)'
  <2>1. CASE s = on[c]
    BY <2>1 DEF UnbornOK
  <2>2. CASE s # on[c]
    <3>1. UnbornOK(s) /\ born'[s] = born[s] /\ native'[s] = native[s]
      BY <2>2 DEF NInv, BornInv, Elsewhere
    <3>2. \A d \in Callers : on'[d] = s => on[d] = s /\ pc'[d] = pc[d]
      BY <2>2 DEF Others, Same
    <3> QED
      BY <3>1, <3>2 DEF UnbornOK
  <2> QED
    BY <2>1, <2>2
<1> QED
  BY <1>2, <1>3 DEF AloneInv, NativeInv, BornInv, Fine

\* Nobody who is in a turn with another one makes or creates.
LEMMA ActiveStep ==
  ASSUME NInv, NEW c \in Callers, Active(c), Others(c), Elsewhere(c), KeepsNatives, on'[c] = on[c],
         born' = born, closed' = closed, Fine(c)'
  PROVE  AloneInv' /\ NativeInv' /\ BornInv'
<1>0. IInv /\ on[c] \in Sessions /\ born[on[c]] = "yes"
  BY PlacesApart DEF NInv, BornInv, BornOK
<1>1. ASSUME NEW d \in Callers, d # c, on[d] = on[c] PROVE Fine(d)'
  <2>1. Fine(d) /\ Same(d)
    BY <1>1 DEF NInv, AloneInv, NativeInv, BornInv, Fine, Others
  <2>2. ~Making(d)
    BY <1>1, <2>1 DEF Fine, AloneOK
  <2>3. ~Creates(d) /\ ~(pc[d] = "return" /\ native[on[d]] = NoNative)
    BY <1>1, <2>1 DEF Fine, AloneOK
  <2>4. pc[d] \notin OpenPlaces \cup {"adopt", "restore", "fork", "create"}
    BY <1>0, <2>2, <2>3, PlacesApart
  <2>5. ~Making(d)' /\ ~Creates(d)'
    BY <2>1, <2>2, <2>3 DEF Same, Making, Creates, IsFork
  <2>6. native[on[d]] # NoNative => native'[on[d]] # NoNative
    BY <1>0, <1>1 DEF KeepsNatives
  <2>7. AloneOK(d)'
    BY <2>1, <2>3, <2>5, <2>6 DEF AloneOK, Same
  <2>8. NativeOK(d)'
    BY <2>1, <2>4, <2>6 DEF Fine, NativeOK, Same, Opening, OpenPlaces, Equipped
  <2>9. BornOK(d)'
    BY <2>1, <2>2, <2>4 DEF Fine, BornOK, Same
  <2> QED
    BY <2>7, <2>8, <2>9 DEF Fine
<1>2. ASSUME NEW d \in Callers PROVE Fine(d)'
  BY <1>1, FarStaysFine
<1>3. ASSUME NEW s \in Sessions PROVE UnbornOK(s)'
  <2>1. CASE s = on[c]
    BY <1>0, <2>1 DEF UnbornOK
  <2>2. CASE s # on[c]
    <3>1. UnbornOK(s) /\ born'[s] = born[s] /\ native'[s] = native[s]
      BY <2>2 DEF NInv, BornInv, Elsewhere
    <3>2. \A d \in Callers : on'[d] = s => on[d] = s /\ pc'[d] = pc[d]
      BY <2>2 DEF Others, Same
    <3> QED
      BY <3>1, <3>2 DEF UnbornOK
  <2> QED
    BY <2>1, <2>2
<1> QED
  BY <1>2, <1>3 DEF AloneInv, NativeInv, BornInv, Fine

\* A call that begins, or is refused, joins nobody who makes or creates.
LEMMA CallStep ==
  ASSUME NInv, NEW c \in Callers, Others(c), native' = native, born' = born, closed' = closed, Fine(c)',
         \A t \in Sessions : running[t] => running'[t],
         Active(c)' => ~running[on'[c]],
         born[on'[c]] = "no" => pc'[c] \in {"idle", "adopt"},
         \A d \in Callers : d # c /\ Making(d) => on'[c] # on[d]
  PROVE  AloneInv' /\ NativeInv' /\ BornInv'
<1>1. ASSUME NEW d \in Callers, d # c PROVE Fine(d)'
  <2>1. Fine(d) /\ Same(d) /\ (pc[d] # "idle" => on[d] \in Sessions)
    BY <1>1, PlacesApart DEF NInv, AloneInv, NativeInv, BornInv, Fine, Others
  <2>2. /\ Making(d)' <=> Making(d)
        /\ Creates(d)' <=> Creates(d)
        /\ (pc[d] \in OpenPlaces /\ IsFork(d))' <=> (pc[d] \in OpenPlaces /\ IsFork(d))
    BY <2>1 DEF Same, Making, Creates, IsFork
  <2>3. \A e \in Callers : e # d /\ e # c => on'[e] = on[e] /\ (Active(e)' <=> Active(e))
    BY DEF Others, Same, Active, Turning, IsFork
  <2>4. Creates(d) \/ pc[d] = "return" => pc[d] # "idle"
    BY PlacesApart DEF NInv, Active
  <2>5. AloneOK(d)'
    <3>1. Making(d) => born'[on[d]] \in {"no", "adopted"} /\ \A e \in Callers : e # d => on'[e] # on[d]
      BY <1>1, <2>1, <2>3 DEF Fine, AloneOK
    <3>2. ASSUME Creates(d) \/ (pc[d] = "return" /\ native[on[d]] = NoNative)
          PROVE  running'[on[d]] /\ \A e \in Callers : e # d /\ Active(e)' => on'[e] # on[d]
      BY <1>1, <2>1, <2>3, <2>4, <3>2 DEF Fine, AloneOK
    <3> QED
      BY <2>1, <2>2, <3>1, <3>2 DEF AloneOK, Same
  <2>6. NativeOK(d)'
    BY <2>1 DEF Fine, NativeOK, Same
  <2>7. BornOK(d)'
    BY <2>1, <2>2 DEF Fine, BornOK, Same
  <2> QED
    BY <2>5, <2>6, <2>7 DEF Fine
<1>2. ASSUME NEW s \in Sessions PROVE UnbornOK(s)'
  BY DEF NInv, BornInv, UnbornOK, Others, Same
<1> QED
  BY <1>1, <1>2 DEF AloneInv, NativeInv, BornInv, Fine

\* A caller that moves on from one place to the next.
LEMMA FineParts ==
  ASSUME NInv, NEW c \in Callers
  PROVE  /\ IInv /\ CallTypes /\ SessionTypes /\ Fine(c)
         /\ pc[c] # "idle" => on[c] \in Sessions
BY PlacesApart DEF NInv, AloneInv, NativeInv, BornInv, Fine, IInv, TypeOK

\* A session that is being made has been adopted.
LEMMA MadeIsAdopted ==
  ASSUME NInv, NEW c \in Callers, Making(c), pc[c] # "adopt"
  PROVE  born[on[c]] = "adopted"
<1>1. on[c] \in Sessions /\ pc[c] # "idle" /\ born[on[c]] \in {"no", "adopted"}
  BY PlacesApart DEF NInv, AloneInv, AloneOK
<1> QED
  BY <1>1 DEF NInv, BornInv, UnbornOK

\* Every step keeps the writers of a native session apart.
LEMMA StepNative == NInv /\ [Next]_vars => (AloneInv /\ NativeInv /\ BornInv)'
<1> SUFFICES ASSUME NInv, [Next]_vars PROVE (AloneInv /\ NativeInv /\ BornInv)'
  OBVIOUS
<1> DEFINE Rest == UNCHANGED vars \/ (\E c \in Callers : CancelTurn(c)) \/ (\E s \in Sessions :
  Steer(s) \/ SteerEnd(s)) \/ Cancel \/ JournalFails \/ BodyReturn \/ EndScope \/ CloseStop \/
  Stopped \/ (\E ok \in BOOLEAN : CloseEvent(ok) \/ RunEnds(ok))
<1>1. ASSUME Rest PROVE UNCHANGED <<pc, on, act, got, born, native, running, closed>>
  BY <1>1 DEF CancelTurn, Steer, SteerEnd, Cancel, JournalFails, BodyReturn, EndScope, CloseStop,
    StopNative, Stopped, vars, CloseEvent, RunEnds
<1>0. IInv /\ CallTypes /\ SessionTypes
  BY DEF NInv, IInv, TypeOK
<1>2. ASSUME NEW c \in Callers, NewSession(c) PROVE (AloneInv /\ NativeInv /\ BornInv)'
  <2>1. /\ Others(c) /\ native' = native /\ born' = born /\ closed' = closed /\ act' = act
        /\ on'[c] = Main /\ Main \in Sessions /\ Fine(c)
    BY <1>2, NewSessionEffect, FineParts DEF NewSession, Sessions
  <2>2. /\ pc'[c] = "adopt" /\ running' = running /\ born[Main] = "no" /\ ~Active(c)'
        /\ \A d \in Callers : d # c => on'[d] # Main
    <3>1. pc'[c] = "adopt" /\ Others(c)
      BY <1>2, <1>0, NewSessionEffect
    <3>2. running' = running /\ born[Main] = "no" /\ \A d \in Callers : on[d] # Main
      BY <1>2 DEF NewSession
    <3> QED
      BY <3>1, <3>2 DEF Others, Same, Active, Turning, TurnPlaces, OpenPlaces, Opening
  <2>3. native[Main] = NoNative
    BY <2>1, <2>2 DEF NInv, BornInv, UnbornOK
  <2>4. Fine(c)' /\ \A d \in Callers : d # c /\ Making(d) => Main # on[d]
    BY <2>1, <2>2, <2>3 DEF Fine, AloneOK, NativeOK, BornOK, Making, Creates, Equipped, OpenPlaces,
       Opening, Others, Same
  <2> QED
    BY <2>1, <2>2, <2>3, <2>4, CallStep DEF Fine
<1>3. ASSUME NEW c \in Callers, Adopt(c) PROVE (AloneInv /\ NativeInv /\ BornInv)'
  <2>1. /\ Others(c) /\ on'[c] = on[c] /\ on[c] \in Sessions /\ Fine(c)
    BY <1>3, AdoptEffect, FineParts
  <2>2. Elsewhere(c)
    BY <1>3, <1>0, <2>1 DEF Adopt, Elsewhere, SessionTypes
  <2>3. Making(c)
    BY <1>3 DEF Making, Adopt
  <2>8. pc[c] # "adopt" => born[on[c]] = "adopted"
    BY <2>3, MadeIsAdopted
  <2>4. born'[on[c]] # "no"
    BY <1>3, <1>0, <2>1, <2>8 DEF Adopt, SessionTypes
  <2>5. Making(c)' => born'[on[c]] = "adopted"
    BY <1>3, <1>0, <2>1, <2>8 DEF Adopt, SessionTypes, CallTypes, Making, OpenPlaces, Opening, Fine,
       AloneOK
  <2>6. \A d \in Callers : d # c => on'[d] # on[c]
    BY <2>1, <2>3 DEF Fine, AloneOK, Others, Same
  <2>7. Fine(c)'
    BY <1>3, <1>0, <2>1, <2>3, <2>5, <2>6, AdoptEffect DEF Adopt, Fine, AloneOK, NativeOK, BornOK,
       Making, Creates, Active, Equipped, Turning, TurnPlaces, OpenPlaces, Opening, SessionTypes,
       CallTypes, IsFork
  <2> QED
    BY <2>1, <2>2, <2>3, <2>4, <2>7, MakerStep
<1>4. ASSUME NEW c \in Callers, Restore(c) PROVE (AloneInv /\ NativeInv /\ BornInv)'
  <2>1. /\ Others(c) /\ on'[c] = on[c] /\ on[c] \in Sessions /\ Fine(c)
    BY <1>4, RestoreEffect, FineParts
  <2>2. Elsewhere(c)
    BY <1>4, <1>0, <2>1 DEF Restore, Elsewhere, SessionTypes
  <2>3. Making(c)
    BY <1>4 DEF Making, Restore
  <2>8. pc[c] # "adopt" => born[on[c]] = "adopted"
    BY <2>3, MadeIsAdopted
  <2>4. born'[on[c]] # "no"
    BY <1>4, <1>0, <2>1, <2>8 DEF Restore, SessionTypes
  <2>5. Making(c)' => born'[on[c]] = "adopted"
    BY <1>4, <1>0, <2>1, <2>8 DEF Restore, SessionTypes, CallTypes, Making, OpenPlaces, Opening,
       Fine, AloneOK
  <2>6. \A d \in Callers : d # c => on'[d] # on[c]
    BY <2>1, <2>3 DEF Fine, AloneOK, Others, Same
  <2>7. Fine(c)'
    BY <1>4, <1>0, <2>1, <2>3, <2>5, <2>6, RestoreEffect DEF Restore, Fine, AloneOK, NativeOK,
       BornOK, Making, Creates, Active, Equipped, Turning, TurnPlaces, OpenPlaces, Opening,
       SessionTypes, CallTypes, IsFork
  <2> QED
    BY <2>1, <2>2, <2>3, <2>4, <2>7, MakerStep
<1>5. ASSUME NEW c \in Callers, OpenAdmit(c) PROVE (AloneInv /\ NativeInv /\ BornInv)'
  <2>1. /\ Others(c) /\ KeepsNatives /\ on'[c] = on[c] /\ on[c] \in Sessions /\ Fine(c)
        /\ closed' = closed /\ running' = running /\ act' = act
    BY <1>5, OpenAdmitEffect, FineParts DEF OpenAdmit
  <2>2. Elsewhere(c)
    BY <1>5, <1>0, <2>1 DEF OpenAdmit, OpenFailed, LoseFork, IsFork, Elsewhere, SessionTypes
  <2>3. pc[c] \in OpenPlaces /\ (IsFork(c)' <=> IsFork(c))
    BY <1>5, <1>0, <2>1, OpenAdmitEffect DEF OpenPlaces, Opening, IsFork
  <2>4. pc'[c] \in {"open", "idle", "return"}
    BY <1>5, OpenAdmitEffect, <1>0 DEF OpenFailed
  <2>5. native'[on[c]] = NoNative
    BY <1>5, <1>0, <2>1, OpenAdmitEffect DEF Fine, NativeOK, Opening
  <2>6. CASE IsFork(c)
    <3>1. Making(c) /\ born[on[c]] = "adopted" /\ \A d \in Callers : d # c => on'[d] # on[c]
      BY <1>0, <2>1, <2>3, <2>6, MadeIsAdopted DEF Making, OpenPlaces, Opening, Fine, AloneOK,
         Others, Same
    <3>2. /\ born'[on[c]] # "no" /\ (pc'[c] # "idle" => born'[on[c]] = "adopted")
          /\ pc'[c] \in OpenPlaces \cup {"idle"}
      BY <1>5, <1>0, <2>1, <2>4, <2>6, <3>1 DEF OpenAdmit, OpenFailed, LoseFork, IsFork,
         SessionTypes, CallTypes, OpenPlaces, Opening
    <3>3. Fine(c)'
      BY <2>1, <2>3, <2>4, <2>5, <2>6, <3>1, <3>2 DEF Fine, AloneOK, NativeOK, BornOK, Making,
         Creates, Equipped, OpenPlaces, Opening
    <3> QED
      BY <2>1, <2>2, <3>1, <3>2, <3>3, MakerStep
  <2>7. CASE ~IsFork(c)
    <3>1. Creates(c) /\ Active(c) /\ ~Making(c) /\ born' = born
      BY <1>5, <1>0, <2>3, <2>7, PlacesApart DEF OpenAdmit, OpenFailed, LoseFork, IsFork, Creates
    <3>2. pc'[c] \in OpenPlaces \cup {"return", "prompt"}
      BY <1>5, <1>0, <2>1, <2>4, <2>7 DEF OpenAdmit, OpenFailed, LoseFork, IsFork, CallTypes,
         OpenPlaces, Opening
    <3>3. running'[on[c]] /\ \A d \in Callers : d # c /\ Active(d)' => on'[d] # on[c]
      BY <2>1, <3>1 DEF Fine, AloneOK, Others, Same, Active, Turning, IsFork
    <3>4. Fine(c)'
      BY <2>1, <2>3, <2>4, <2>5, <2>7, <3>1, <3>2, <3>3 DEF Fine, AloneOK, NativeOK, BornOK, Making,
         Creates, Equipped, OpenPlaces, Opening
    <3> QED
      BY <2>1, <2>2, <3>1, <3>4, ActiveStep
  <2> QED
    BY <2>6, <2>7
<1>6. ASSUME NEW c \in Callers, OpenSend(c) PROVE (AloneInv /\ NativeInv /\ BornInv)'
  <2>1. /\ Others(c) /\ KeepsNatives /\ on'[c] = on[c] /\ on[c] \in Sessions /\ Fine(c)
        /\ closed' = closed /\ running' = running /\ act' = act
    BY <1>6, OpenSendEffect, FineParts DEF OpenSend
  <2>2. Elsewhere(c)
    BY <1>6, <1>0, <2>1 DEF OpenSend, Elsewhere, SessionTypes
  <2>3. pc[c] \in OpenPlaces /\ (IsFork(c)' <=> IsFork(c))
    BY <1>6, <1>0, <2>1, OpenSendEffect DEF OpenPlaces, Opening, IsFork
  <2>4. pc'[c] \in {"opening"}
    BY <1>6, OpenSendEffect, <1>0 DEF OpenFailed
  <2>5. native'[on[c]] = NoNative
    BY <1>6, <1>0, <2>1, OpenSendEffect DEF Fine, NativeOK, Opening
  <2>6. CASE IsFork(c)
    <3>1. Making(c) /\ born[on[c]] = "adopted" /\ \A d \in Callers : d # c => on'[d] # on[c]
      BY <1>0, <2>1, <2>3, <2>6, MadeIsAdopted DEF Making, OpenPlaces, Opening, Fine, AloneOK,
         Others, Same
    <3>2. /\ born'[on[c]] # "no" /\ (pc'[c] # "idle" => born'[on[c]] = "adopted")
          /\ pc'[c] \in OpenPlaces \cup {"idle"}
      BY <1>6, <1>0, <2>1, <2>4, <2>6, <3>1 DEF OpenSend, OpenFailed, SessionTypes, CallTypes,
         OpenPlaces, Opening
    <3>3. Fine(c)'
      BY <2>1, <2>3, <2>4, <2>5, <2>6, <3>1, <3>2 DEF Fine, AloneOK, NativeOK, BornOK, Making,
         Creates, Equipped, OpenPlaces, Opening
    <3> QED
      BY <2>1, <2>2, <3>1, <3>2, <3>3, MakerStep
  <2>7. CASE ~IsFork(c)
    <3>1. Creates(c) /\ Active(c) /\ ~Making(c) /\ born' = born
      BY <1>6, <1>0, <2>3, <2>7, PlacesApart DEF OpenSend, Creates, IsFork
    <3>2. pc'[c] \in OpenPlaces \cup {"return", "prompt"}
      BY <1>6, <1>0, <2>1, <2>4, <2>7 DEF OpenSend, CallTypes, OpenFailed, OpenPlaces, Opening
    <3>3. running'[on[c]] /\ \A d \in Callers : d # c /\ Active(d)' => on'[d] # on[c]
      BY <2>1, <3>1 DEF Fine, AloneOK, Others, Same, Active, Turning, IsFork
    <3>4. Fine(c)'
      BY <2>1, <2>3, <2>4, <2>5, <2>7, <3>1, <3>2, <3>3 DEF Fine, AloneOK, NativeOK, BornOK, Making,
         Creates, Equipped, OpenPlaces, Opening
    <3> QED
      BY <2>1, <2>2, <3>1, <3>4, ActiveStep
  <2> QED
    BY <2>6, <2>7
<1>7. ASSUME NEW c \in Callers, AdoptNative(c) PROVE (AloneInv /\ NativeInv /\ BornInv)'
  <2>1. /\ Others(c) /\ KeepsNatives /\ on'[c] = on[c] /\ on[c] \in Sessions /\ Fine(c)
        /\ closed' = closed /\ running' = running /\ act' = act
    BY <1>7, AdoptNativeEffect, FineParts DEF AdoptNative
  <2>2. Elsewhere(c)
    BY <1>7, <1>0, <2>1 DEF AdoptNative, Elsewhere, SessionTypes
  <2>3. pc[c] \in OpenPlaces /\ (IsFork(c)' <=> IsFork(c))
    BY <1>7, <1>0, <2>1, AdoptNativeEffect DEF OpenPlaces, Opening, IsFork
  <2>4. pc'[c] \in {"stopLate", "bind"}
    BY <1>7, AdoptNativeEffect, <1>0 DEF OpenFailed
  <2>5. /\ got' = got /\ native'[on[c]] = got[c]
        /\ pc'[c] = "stopLate" => got[c] # NoNative /\ closed[on[c]]
    BY <1>7, <1>0, <2>1 DEF AdoptNative, Fine, NativeOK, SessionTypes, CallTypes
  <2>6. CASE IsFork(c)
    <3>1. Making(c) /\ born[on[c]] = "adopted" /\ \A d \in Callers : d # c => on'[d] # on[c]
      BY <1>0, <2>1, <2>3, <2>6, MadeIsAdopted DEF Making, OpenPlaces, Opening, Fine, AloneOK,
         Others, Same
    <3>2. /\ born'[on[c]] # "no" /\ (pc'[c] # "idle" => born'[on[c]] = "adopted")
          /\ pc'[c] \in OpenPlaces \cup {"idle"}
      BY <1>7, <1>0, <2>1, <2>4, <2>6, <3>1 DEF AdoptNative, OpenFailed, SessionTypes, CallTypes,
         OpenPlaces, Opening
    <3>3. Fine(c)'
      BY <2>1, <2>3, <2>4, <2>5, <2>6, <3>1, <3>2 DEF Fine, AloneOK, NativeOK, BornOK, Making,
         Creates, Equipped, OpenPlaces, Opening
    <3> QED
      BY <2>1, <2>2, <3>1, <3>2, <3>3, MakerStep
  <2>7. CASE ~IsFork(c)
    <3>1. Creates(c) /\ Active(c) /\ ~Making(c) /\ born' = born
      BY <1>7, <1>0, <2>3, <2>7, PlacesApart DEF AdoptNative, Creates, IsFork
    <3>2. pc'[c] \in OpenPlaces \cup {"return", "prompt"}
      BY <1>7, <1>0, <2>1, <2>4, <2>7 DEF AdoptNative, CallTypes, OpenFailed, OpenPlaces, Opening
    <3>3. running'[on[c]] /\ \A d \in Callers : d # c /\ Active(d)' => on'[d] # on[c]
      BY <2>1, <3>1 DEF Fine, AloneOK, Others, Same, Active, Turning, IsFork
    <3>4. Fine(c)'
      BY <2>1, <2>3, <2>4, <2>5, <2>7, <3>1, <3>2, <3>3 DEF Fine, AloneOK, NativeOK, BornOK, Making,
         Creates, Equipped, OpenPlaces, Opening
    <3> QED
      BY <2>1, <2>2, <3>1, <3>4, ActiveStep
  <2> QED
    BY <2>6, <2>7
<1>8. ASSUME NEW c \in Callers, StopLate(c) PROVE (AloneInv /\ NativeInv /\ BornInv)'
  <2>1. /\ Others(c) /\ KeepsNatives /\ on'[c] = on[c] /\ on[c] \in Sessions /\ Fine(c)
        /\ closed' = closed /\ running' = running /\ act' = act
    BY <1>8, StopLateEffect, FineParts DEF StopLate
  <2>2. Elsewhere(c)
    BY <1>8, <1>0, <2>1 DEF StopLate, OpenFailed, LoseFork, NoteCreateError, StopNative, IsFork,
       Elsewhere, SessionTypes
  <2>3. pc[c] \in OpenPlaces /\ (IsFork(c)' <=> IsFork(c))
    BY <1>8, <1>0, <2>1, StopLateEffect DEF OpenPlaces, Opening, IsFork
  <2>4. pc'[c] \in {"idle", "return"}
    BY <1>8, StopLateEffect, <1>0 DEF OpenFailed
  <2>5. native'[on[c]] # NoNative
    BY <1>8, <1>0, <2>1, StopLateEffect DEF Fine, NativeOK
  <2>6. CASE IsFork(c)
    <3>1. Making(c) /\ born[on[c]] = "adopted" /\ \A d \in Callers : d # c => on'[d] # on[c]
      BY <1>0, <2>1, <2>3, <2>6, MadeIsAdopted DEF Making, OpenPlaces, Opening, Fine, AloneOK,
         Others, Same
    <3>2. /\ born'[on[c]] # "no" /\ (pc'[c] # "idle" => born'[on[c]] = "adopted")
          /\ pc'[c] \in OpenPlaces \cup {"idle"}
      BY <1>8, <1>0, <2>1, <2>4, <2>6, <3>1 DEF StopLate, OpenFailed, LoseFork, NoteCreateError,
         StopNative, IsFork, SessionTypes, CallTypes, OpenPlaces, Opening
    <3>3. Fine(c)'
      BY <2>1, <2>3, <2>4, <2>5, <2>6, <3>1, <3>2 DEF Fine, AloneOK, NativeOK, BornOK, Making,
         Creates, Equipped, OpenPlaces, Opening
    <3> QED
      BY <2>1, <2>2, <3>1, <3>2, <3>3, MakerStep
  <2>7. CASE ~IsFork(c)
    <3>1. Creates(c) /\ Active(c) /\ ~Making(c) /\ born' = born
      BY <1>8, <1>0, <2>3, <2>7, PlacesApart DEF StopLate, OpenFailed, LoseFork, NoteCreateError,
         StopNative, IsFork, Creates
    <3>2. pc'[c] \in OpenPlaces \cup {"return", "prompt"}
      BY <1>8, <1>0, <2>1, <2>4, <2>7 DEF StopLate, OpenFailed, LoseFork, NoteCreateError,
         StopNative, IsFork, CallTypes, OpenPlaces, Opening
    <3>3. running'[on[c]] /\ \A d \in Callers : d # c /\ Active(d)' => on'[d] # on[c]
      BY <2>1, <3>1 DEF Fine, AloneOK, Others, Same, Active, Turning, IsFork
    <3>4. Fine(c)'
      BY <2>1, <2>3, <2>4, <2>5, <2>7, <3>1, <3>2, <3>3 DEF Fine, AloneOK, NativeOK, BornOK, Making,
         Creates, Equipped, OpenPlaces, Opening
    <3> QED
      BY <2>1, <2>2, <3>1, <3>4, ActiveStep
  <2> QED
    BY <2>6, <2>7
<1>9. ASSUME NEW c \in Callers, TurnRefused(c) PROVE (AloneInv /\ NativeInv /\ BornInv)'
  <2>1. /\ Others(c) /\ native' = native /\ born' = born /\ closed' = closed /\ act' = act
        /\ on'[c] = on[c] /\ on[c] \in Sessions /\ Fine(c)
    BY <1>9, TurnRefusedEffect, FineParts DEF TurnRefused, Sessions
  <2>2. /\ pc'[c] = "idle" /\ running' = running /\ ~Active(c)' /\ ~Making(c) /\ pc[c] = "turn"
    BY <1>9, <1>0, TurnRefusedEffect DEF TurnRefused, Active, Turning, TurnPlaces, OpenPlaces,
       Opening, Making
  <2>3. /\ born[on[c]] = "yes"
        /\ \A d \in Callers : d # c /\ Making(d) => on[c] # on[d]
    BY <2>1, <2>2 DEF NInv, AloneInv, AloneOK, Fine, BornOK
  <2>4. Fine(c)'
    BY <2>1, <2>2, <2>3 DEF Fine, AloneOK, NativeOK, BornOK, Making, Creates, Equipped, OpenPlaces,
       Opening
  <2> QED
    BY <2>1, <2>2, <2>3, <2>4, CallStep DEF Fine
<1>10. ASSUME NEW c \in Callers, StartTurn(c) PROVE (AloneInv /\ NativeInv /\ BornInv)'
  <2>1. /\ Others(c) /\ native' = native /\ born' = born /\ closed' = closed /\ act' = act
        /\ on'[c] = on[c] /\ on[c] \in Sessions /\ Fine(c)
    BY <1>10, StartTurnEffect, FineParts DEF StartTurn, Sessions
  <2>2. /\ ~running[on[c]] /\ running'[on[c]] /\ \A t \in Sessions : running[t] => running'[t]
        /\ pc'[c] \in {"return", "create", "prompt"} /\ ~Making(c) /\ pc[c] = "turn"
        /\ pc'[c] = "prompt" => native[on[c]] # NoNative
        /\ pc'[c] = "create" => native[on[c]] = NoNative
    BY <1>10, <1>0, <2>1, StartTurnEffect DEF StartTurn, Refusal, SessionTypes, CallTypes, Making,
       OpenPlaces, Opening
  <2>3. /\ born[on[c]] = "yes"
        /\ \A d \in Callers : d # c /\ Making(d) => on[c] # on[d]
    BY <2>1, <2>2 DEF NInv, AloneInv, AloneOK, Fine, BornOK
  <2>5. ASSUME native[on[c]] = NoNative, NEW d \in Callers, d # c, Active(d) PROVE on[d] # on[c]
    BY <1>0, <2>2, <2>5, PlacesApart DEF NInv, AloneInv, AloneOK, NativeInv, NativeOK
  <2>6. native[on[c]] = NoNative => \A d \in Callers : d # c /\ Active(d)' => on'[d] # on[c]
    BY <2>1, <2>5 DEF Others, Same, Active, Turning, IsFork
  <2>4. Fine(c)'
    BY <2>1, <2>2, <2>3, <2>6 DEF Fine, AloneOK, NativeOK, BornOK, Making, Creates, Equipped,
       OpenPlaces, Opening
  <2> QED
    BY <2>1, <2>2, <2>3, <2>4, CallStep DEF Fine
<1>11. ASSUME NEW c \in Callers, TurnAdmit(c) PROVE (AloneInv /\ NativeInv /\ BornInv)'
  <2>1. /\ Others(c) /\ KeepsNatives /\ on'[c] = on[c] /\ on[c] \in Sessions /\ Fine(c)
        /\ born' = born /\ closed' = closed
    BY <1>11, TurnAdmitEffect, FineParts DEF TurnAdmit
  <2>2. Elsewhere(c)
    BY <1>11, <1>0, <2>1 DEF TurnAdmit, Elsewhere, SessionTypes
  <2>3. Active(c)
    BY <1>11, TurnAdmitEffect, FineParts DEF Active, Turning, TurnPlaces
  <2>4. Fine(c)'
    <3>1. native'[on[c]] # NoNative \/ pc'[c] \in {"turn", "idle"}
      BY <1>11, <1>0, <2>1, TurnAdmitEffect, FineParts DEF Fine, NativeOK, KeepsNatives, Equipped
    <3>2. pc'[c] \in {"turnAdmit", "send", "native", "settle", "finish", "return", "turn", "idle"}
      BY <1>11, <1>0, TurnAdmitEffect, FineParts
    <3>3. ~Making(c) /\ pc[c] # "idle"
      BY <1>0, <2>3, PlacesApart
    <3>4. ~Making(c)' /\ ~Creates(c)' /\ (pc'[c] \in Equipped \cup {"return"} \/ pc'[c] \in {"turn", "idle"})
      BY <3>2 DEF Making, Creates, OpenPlaces, Opening, Equipped
    <3> QED
      BY <2>1, <3>1, <3>2, <3>3, <3>4 DEF Fine, AloneOK, NativeOK, BornOK, Opening, OpenPlaces,
         Equipped
  <2> QED
    BY <2>1, <2>2, <2>3, <2>4, ActiveStep
<1>12. ASSUME NEW c \in Callers, TurnSend(c) PROVE (AloneInv /\ NativeInv /\ BornInv)'
  <2>1. /\ Others(c) /\ KeepsNatives /\ on'[c] = on[c] /\ on[c] \in Sessions /\ Fine(c)
        /\ born' = born /\ closed' = closed
    BY <1>12, TurnSendEffect, FineParts DEF TurnSend
  <2>2. Elsewhere(c)
    BY <1>12, <1>0, <2>1 DEF TurnSend, Elsewhere, SessionTypes
  <2>3. Active(c)
    BY <1>12, TurnSendEffect, FineParts DEF Active, Turning, TurnPlaces
  <2>4. Fine(c)'
    <3>1. native'[on[c]] # NoNative \/ pc'[c] \in {"turn", "idle"}
      BY <1>12, <1>0, <2>1, TurnSendEffect, FineParts DEF Fine, NativeOK, KeepsNatives, Equipped
    <3>2. pc'[c] \in {"turnAdmit", "send", "native", "settle", "finish", "return", "turn", "idle"}
      BY <1>12, <1>0, TurnSendEffect, FineParts
    <3>3. ~Making(c) /\ pc[c] # "idle"
      BY <1>0, <2>3, PlacesApart
    <3>4. ~Making(c)' /\ ~Creates(c)' /\ (pc'[c] \in Equipped \cup {"return"} \/ pc'[c] \in {"turn", "idle"})
      BY <3>2 DEF Making, Creates, OpenPlaces, Opening, Equipped
    <3> QED
      BY <2>1, <3>1, <3>2, <3>3, <3>4 DEF Fine, AloneOK, NativeOK, BornOK, Opening, OpenPlaces,
         Equipped
  <2> QED
    BY <2>1, <2>2, <2>3, <2>4, ActiveStep
<1>13. ASSUME NEW c \in Callers, Settle(c) PROVE (AloneInv /\ NativeInv /\ BornInv)'
  <2>1. /\ Others(c) /\ KeepsNatives /\ on'[c] = on[c] /\ on[c] \in Sessions /\ Fine(c)
        /\ born' = born /\ closed' = closed
    BY <1>13, SettleEffect, FineParts DEF Settle
  <2>2. Elsewhere(c)
    BY <1>13, <1>0, <2>1 DEF Settle, Elsewhere, SessionTypes
  <2>3. Active(c)
    BY <1>13, SettleEffect, FineParts DEF Active, Turning, TurnPlaces
  <2>4. Fine(c)'
    <3>1. native'[on[c]] # NoNative \/ pc'[c] \in {"turn", "idle"}
      BY <1>13, <1>0, <2>1, SettleEffect, FineParts DEF Fine, NativeOK, KeepsNatives, Equipped
    <3>2. pc'[c] \in {"turnAdmit", "send", "native", "settle", "finish", "return", "turn", "idle"}
      BY <1>13, <1>0, SettleEffect, FineParts
    <3>3. ~Making(c) /\ pc[c] # "idle"
      BY <1>0, <2>3, PlacesApart
    <3>4. ~Making(c)' /\ ~Creates(c)' /\ (pc'[c] \in Equipped \cup {"return"} \/ pc'[c] \in {"turn", "idle"})
      BY <3>2 DEF Making, Creates, OpenPlaces, Opening, Equipped
    <3> QED
      BY <2>1, <3>1, <3>2, <3>3, <3>4 DEF Fine, AloneOK, NativeOK, BornOK, Opening, OpenPlaces,
         Equipped
  <2> QED
    BY <2>1, <2>2, <2>3, <2>4, ActiveStep
<1>14. ASSUME NEW c \in Callers, EndTurn(c) PROVE (AloneInv /\ NativeInv /\ BornInv)'
  <2>1. /\ Others(c) /\ KeepsNatives /\ on'[c] = on[c] /\ on[c] \in Sessions /\ Fine(c)
        /\ born' = born /\ closed' = closed
    BY <1>14, EndTurnEffect, FineParts DEF EndTurn, Returns
  <2>2. Elsewhere(c)
    BY <1>14, <1>0, <2>1 DEF EndTurn, Returns, Elsewhere, SessionTypes
  <2>3. Active(c)
    BY <1>14, EndTurnEffect, FineParts DEF Active, Turning, TurnPlaces
  <2>4. Fine(c)'
    <3>1. native'[on[c]] # NoNative \/ pc'[c] \in {"turn", "idle"}
      BY <1>14, <1>0, <2>1, EndTurnEffect, FineParts DEF Fine, NativeOK, KeepsNatives, Equipped
    <3>2. pc'[c] \in {"turnAdmit", "send", "native", "settle", "finish", "return", "turn", "idle"}
      BY <1>14, <1>0, EndTurnEffect, FineParts
    <3>3. ~Making(c) /\ pc[c] # "idle"
      BY <1>0, <2>3, PlacesApart
    <3>4. ~Making(c)' /\ ~Creates(c)' /\ (pc'[c] \in Equipped \cup {"return"} \/ pc'[c] \in {"turn", "idle"})
      BY <3>2 DEF Making, Creates, OpenPlaces, Opening, Equipped
    <3> QED
      BY <2>1, <3>1, <3>2, <3>3, <3>4 DEF Fine, AloneOK, NativeOK, BornOK, Opening, OpenPlaces,
         Equipped
  <2> QED
    BY <2>1, <2>2, <2>3, <2>4, ActiveStep
<1>15. ASSUME NEW c \in Callers, NEW ok \in BOOLEAN, ForkIntent(c, ok)
  PROVE (AloneInv /\ NativeInv /\ BornInv)'
  <2>1. /\ Others(c) /\ on'[c] = on[c] /\ on[c] \in Sessions /\ Fine(c)
    BY <1>15, ForkIntentEffect, FineParts
  <2>2. Elsewhere(c)
    BY <1>15, <1>0, <2>1 DEF ForkIntent, Elsewhere, SessionTypes
  <2>3. Making(c)
    BY <1>15 DEF Making, ForkIntent
  <2>8. pc[c] # "adopt" => born[on[c]] = "adopted"
    BY <2>3, MadeIsAdopted
  <2>4. born'[on[c]] # "no"
    BY <1>15, <1>0, <2>1, <2>8 DEF ForkIntent, SessionTypes
  <2>5. Making(c)' => born'[on[c]] = "adopted"
    BY <1>15, <1>0, <2>1, <2>8 DEF ForkIntent, SessionTypes, CallTypes, Making, OpenPlaces, Opening,
       Fine, AloneOK
  <2>6. \A d \in Callers : d # c => on'[d] # on[c]
    BY <2>1, <2>3 DEF Fine, AloneOK, Others, Same
  <2>7. Fine(c)'
    <3>1. /\ pc'[c] \in {"admit", "idle"} /\ native'[on[c]] = NoNative /\ on[c] # Main
          /\ act'[c] = ForkNode(on[c])
      BY <1>15, <1>0, <2>1, ForkIntentEffect DEF Fine, NativeOK, BornOK
    <3>2. IsFork(c)'
      BY <3>1 DEF IsFork, ForkNode
    <3> QED
      BY <2>1, <2>5, <2>6, <3>1, <3>2 DEF Fine, AloneOK, NativeOK, BornOK, Making, Creates,
         Equipped, OpenPlaces, Opening
  <2> QED
    BY <2>1, <2>2, <2>3, <2>4, <2>7, MakerStep
<1>16. ASSUME NEW c \in Callers, NEW ok \in BOOLEAN, Create(c, ok)
  PROVE (AloneInv /\ NativeInv /\ BornInv)'
  <2>1. /\ Others(c) /\ KeepsNatives /\ on'[c] = on[c] /\ on[c] \in Sessions /\ Fine(c)
        /\ born' = born /\ closed' = closed /\ running' = running /\ native' = native
    BY <1>16, CreateEffect, FineParts DEF Create
  <2>2. Elsewhere(c)
    BY <2>1 DEF Elsewhere
  <2>3. Creates(c) /\ Active(c) /\ ~Making(c) /\ pc[c] = "create"
    BY <1>16, <1>0, CreateEffect, PlacesApart DEF Creates
  <2>7. act'[c][2] = "create"
    <3>1. act'[c] = CreateNode(on[c], creates[on[c]] + 1)
      BY <1>16, <1>0, CreateEffect
    <3> QED
      BY <3>1 DEF CreateNode
  <2>4. ~IsFork(c)' /\ pc'[c] \in {"return", "adoptNative", "admit"} /\ native[on[c]] = NoNative
    BY <1>16, <1>0, <2>1, <2>3, <2>7, CreateEffect DEF IsFork, Fine, NativeOK
  <2>5. running'[on[c]] /\ \A d \in Callers : d # c /\ Active(d)' => on'[d] # on[c]
    BY <2>1, <2>3 DEF Fine, AloneOK, Others, Same, Active, Turning, IsFork
  <2>6. Fine(c)'
    BY <2>1, <2>3, <2>4, <2>5 DEF Fine, AloneOK, NativeOK, BornOK, Making, Creates, Equipped,
       OpenPlaces, Opening
  <2> QED
    BY <2>1, <2>2, <2>3, <2>6, ActiveStep
<1>17. ASSUME NEW c \in Callers, NEW ok \in BOOLEAN, OpenFinish(c, ok)
  PROVE (AloneInv /\ NativeInv /\ BornInv)'
  <2>1. /\ Others(c) /\ KeepsNatives /\ on'[c] = on[c] /\ on[c] \in Sessions /\ Fine(c)
        /\ closed' = closed /\ running' = running /\ act' = act
    BY <1>17, OpenFinishEffect, FineParts DEF OpenFinish
  <2>2. Elsewhere(c)
    BY <1>17, <1>0, <2>1 DEF OpenFinish, Elsewhere, SessionTypes
  <2>3. pc[c] \in OpenPlaces /\ (IsFork(c)' <=> IsFork(c))
    BY <1>17, <1>0, <2>1, OpenFinishEffect DEF OpenPlaces, Opening, IsFork
  <2>4. pc'[c] \in {"adoptNative"}
    BY <1>17, OpenFinishEffect, <1>0 DEF OpenFailed
  <2>5. native'[on[c]] = NoNative
    BY <1>17, <1>0, <2>1, OpenFinishEffect DEF Fine, NativeOK, Opening
  <2>6. CASE IsFork(c)
    <3>1. Making(c) /\ born[on[c]] = "adopted" /\ \A d \in Callers : d # c => on'[d] # on[c]
      BY <1>0, <2>1, <2>3, <2>6, MadeIsAdopted DEF Making, OpenPlaces, Opening, Fine, AloneOK,
         Others, Same
    <3>2. /\ born'[on[c]] # "no" /\ (pc'[c] # "idle" => born'[on[c]] = "adopted")
          /\ pc'[c] \in OpenPlaces \cup {"idle"}
      BY <1>17, <1>0, <2>1, <2>4, <2>6, <3>1 DEF OpenFinish, OpenFailed, SessionTypes, CallTypes,
         OpenPlaces, Opening
    <3>3. Fine(c)'
      BY <2>1, <2>3, <2>4, <2>5, <2>6, <3>1, <3>2 DEF Fine, AloneOK, NativeOK, BornOK, Making,
         Creates, Equipped, OpenPlaces, Opening
    <3> QED
      BY <2>1, <2>2, <3>1, <3>2, <3>3, MakerStep
  <2>7. CASE ~IsFork(c)
    <3>1. Creates(c) /\ Active(c) /\ ~Making(c) /\ born' = born
      BY <1>17, <1>0, <2>3, <2>7, PlacesApart DEF OpenFinish, Creates, IsFork
    <3>2. pc'[c] \in OpenPlaces \cup {"return", "prompt"}
      BY <1>17, <1>0, <2>1, <2>4, <2>7 DEF OpenFinish, CallTypes, OpenFailed, OpenPlaces, Opening
    <3>3. running'[on[c]] /\ \A d \in Callers : d # c /\ Active(d)' => on'[d] # on[c]
      BY <2>1, <3>1 DEF Fine, AloneOK, Others, Same, Active, Turning, IsFork
    <3>4. Fine(c)'
      BY <2>1, <2>3, <2>4, <2>5, <2>7, <3>1, <3>2, <3>3 DEF Fine, AloneOK, NativeOK, BornOK, Making,
         Creates, Equipped, OpenPlaces, Opening
    <3> QED
      BY <2>1, <2>2, <3>1, <3>4, ActiveStep
  <2> QED
    BY <2>6, <2>7
<1>18. ASSUME NEW c \in Callers, NEW ok \in BOOLEAN, Bind(c, ok)
  PROVE (AloneInv /\ NativeInv /\ BornInv)'
  <2>1. /\ Others(c) /\ KeepsNatives /\ on'[c] = on[c] /\ on[c] \in Sessions /\ Fine(c)
        /\ closed' = closed /\ running' = running /\ act' = act
    BY <1>18, BindEffect, FineParts DEF Bind
  <2>2. Elsewhere(c)
    BY <1>18, <1>0, <2>1 DEF Bind, OpenFailed, IsFork, NoteCreateError, Elsewhere, SessionTypes
  <2>3. pc[c] \in OpenPlaces /\ (IsFork(c)' <=> IsFork(c))
    BY <1>18, <1>0, <2>1, BindEffect DEF OpenPlaces, Opening, IsFork
  <2>4. pc'[c] \in {"idle", "return", "prompt"}
    BY <1>18, BindEffect, <1>0 DEF OpenFailed
  <2>5. pc'[c] = "prompt" => native'[on[c]] # NoNative
    BY <1>18, <1>0, <2>1, BindEffect DEF IInv, CallInv, CallOK
  <2>6. CASE IsFork(c)
    <3>1. Making(c) /\ born[on[c]] = "adopted" /\ \A d \in Callers : d # c => on'[d] # on[c]
      BY <1>0, <2>1, <2>3, <2>6, MadeIsAdopted DEF Making, OpenPlaces, Opening, Fine, AloneOK,
         Others, Same
    <3>2. /\ born'[on[c]] # "no" /\ (pc'[c] # "idle" => born'[on[c]] = "adopted")
          /\ pc'[c] \in OpenPlaces \cup {"idle"}
      BY <1>18, <1>0, <2>1, <2>4, <2>6, <3>1 DEF Bind, OpenFailed, IsFork, NoteCreateError,
         SessionTypes, CallTypes, OpenPlaces, Opening
    <3>3. Fine(c)'
      BY <2>1, <2>3, <2>4, <2>5, <2>6, <3>1, <3>2 DEF Fine, AloneOK, NativeOK, BornOK, Making,
         Creates, Equipped, OpenPlaces, Opening
    <3> QED
      BY <2>1, <2>2, <3>1, <3>2, <3>3, MakerStep
  <2>7. CASE ~IsFork(c)
    <3>1. Creates(c) /\ Active(c) /\ ~Making(c) /\ born' = born
      BY <1>18, <1>0, <2>3, <2>7, PlacesApart DEF Bind, OpenFailed, IsFork, NoteCreateError, Creates
    <3>2. pc'[c] \in OpenPlaces \cup {"return", "prompt"}
      BY <1>18, <1>0, <2>1, <2>4, <2>7 DEF Bind, OpenFailed, IsFork, NoteCreateError, CallTypes,
         OpenPlaces, Opening
    <3>3. running'[on[c]] /\ \A d \in Callers : d # c /\ Active(d)' => on'[d] # on[c]
      BY <2>1, <3>1 DEF Fine, AloneOK, Others, Same, Active, Turning, IsFork
    <3>4. Fine(c)'
      BY <2>1, <2>3, <2>4, <2>5, <2>7, <3>1, <3>2, <3>3 DEF Fine, AloneOK, NativeOK, BornOK, Making,
         Creates, Equipped, OpenPlaces, Opening
    <3> QED
      BY <2>1, <2>2, <3>1, <3>4, ActiveStep
  <2> QED
    BY <2>6, <2>7
<1>19. ASSUME NEW c \in Callers, NEW ok \in BOOLEAN, TurnIntent(c, ok)
  PROVE (AloneInv /\ NativeInv /\ BornInv)'
  <2>1. /\ Others(c) /\ KeepsNatives /\ on'[c] = on[c] /\ on[c] \in Sessions /\ Fine(c)
        /\ born' = born /\ closed' = closed
    BY <1>19, TurnIntentEffect, FineParts DEF TurnIntent
  <2>2. Elsewhere(c)
    BY <1>19, <1>0, <2>1 DEF TurnIntent, Elsewhere, SessionTypes
  <2>3. Active(c)
    BY <1>19, TurnIntentEffect, FineParts DEF Active, Turning, TurnPlaces
  <2>4. Fine(c)'
    <3>1. native'[on[c]] # NoNative \/ pc'[c] \in {"turn", "idle"}
      BY <1>19, <1>0, <2>1, TurnIntentEffect, FineParts DEF Fine, NativeOK, KeepsNatives, Equipped
    <3>2. pc'[c] \in {"turnAdmit", "send", "native", "settle", "finish", "return", "turn", "idle"}
      BY <1>19, <1>0, TurnIntentEffect, FineParts
    <3>3. ~Making(c) /\ pc[c] # "idle"
      BY <1>0, <2>3, PlacesApart
    <3>4. ~Making(c)' /\ ~Creates(c)' /\ (pc'[c] \in Equipped \cup {"return"} \/ pc'[c] \in {"turn", "idle"})
      BY <3>2 DEF Making, Creates, OpenPlaces, Opening, Equipped
    <3> QED
      BY <2>1, <3>1, <3>2, <3>3, <3>4 DEF Fine, AloneOK, NativeOK, BornOK, Opening, OpenPlaces,
         Equipped
  <2> QED
    BY <2>1, <2>2, <2>3, <2>4, ActiveStep
<1>20. ASSUME NEW c \in Callers, NEW ok \in BOOLEAN, TurnFinish(c, ok)
  PROVE (AloneInv /\ NativeInv /\ BornInv)'
  <2>1. /\ Others(c) /\ KeepsNatives /\ on'[c] = on[c] /\ on[c] \in Sessions /\ Fine(c)
        /\ born' = born /\ closed' = closed
    BY <1>20, TurnFinishEffect, FineParts DEF TurnFinish
  <2>2. Elsewhere(c)
    BY <1>20, <1>0, <2>1 DEF TurnFinish, Elsewhere, SessionTypes
  <2>3. Active(c)
    BY <1>20, TurnFinishEffect, FineParts DEF Active, Turning, TurnPlaces
  <2>4. Fine(c)'
    <3>1. native'[on[c]] # NoNative \/ pc'[c] \in {"turn", "idle"}
      BY <1>20, <1>0, <2>1, TurnFinishEffect, FineParts DEF Fine, NativeOK, KeepsNatives, Equipped
    <3>2. pc'[c] \in {"turnAdmit", "send", "native", "settle", "finish", "return", "turn", "idle"}
      BY <1>20, <1>0, TurnFinishEffect, FineParts
    <3>3. ~Making(c) /\ pc[c] # "idle"
      BY <1>0, <2>3, PlacesApart
    <3>4. ~Making(c)' /\ ~Creates(c)' /\ (pc'[c] \in Equipped \cup {"return"} \/ pc'[c] \in {"turn", "idle"})
      BY <3>2 DEF Making, Creates, OpenPlaces, Opening, Equipped
    <3> QED
      BY <2>1, <3>1, <3>2, <3>3, <3>4 DEF Fine, AloneOK, NativeOK, BornOK, Opening, OpenPlaces,
         Equipped
  <2> QED
    BY <2>1, <2>2, <2>3, <2>4, ActiveStep
<1>21. ASSUME NEW c \in Callers, NEW a \in CreateAnswers, NEW id \in {NoNative, Len(closes) + 1},
  OpenReturn(c, a, id)
  PROVE (AloneInv /\ NativeInv /\ BornInv)'
  <2>1. /\ Others(c) /\ KeepsNatives /\ on'[c] = on[c] /\ on[c] \in Sessions /\ Fine(c)
        /\ closed' = closed /\ running' = running /\ act' = act
    BY <1>21, OpenReturnEffect, FineParts DEF OpenReturn
  <2>2. Elsewhere(c)
    BY <1>21, <1>0, <2>1 DEF OpenReturn, Elsewhere, SessionTypes
  <2>3. pc[c] \in OpenPlaces /\ (IsFork(c)' <=> IsFork(c))
    BY <1>21, <1>0, <2>1, OpenReturnEffect DEF OpenPlaces, Opening, IsFork
  <2>4. pc'[c] \in {"opened"}
    BY <1>21, OpenReturnEffect, <1>0 DEF OpenFailed
  <2>5. native'[on[c]] = NoNative
    BY <1>21, <1>0, <2>1, OpenReturnEffect DEF Fine, NativeOK, Opening
  <2>6. CASE IsFork(c)
    <3>1. Making(c) /\ born[on[c]] = "adopted" /\ \A d \in Callers : d # c => on'[d] # on[c]
      BY <1>0, <2>1, <2>3, <2>6, MadeIsAdopted DEF Making, OpenPlaces, Opening, Fine, AloneOK,
         Others, Same
    <3>2. /\ born'[on[c]] # "no" /\ (pc'[c] # "idle" => born'[on[c]] = "adopted")
          /\ pc'[c] \in OpenPlaces \cup {"idle"}
      BY <1>21, <1>0, <2>1, <2>4, <2>6, <3>1 DEF OpenReturn, OpenFailed, SessionTypes, CallTypes,
         OpenPlaces, Opening
    <3>3. Fine(c)'
      BY <2>1, <2>3, <2>4, <2>5, <2>6, <3>1, <3>2 DEF Fine, AloneOK, NativeOK, BornOK, Making,
         Creates, Equipped, OpenPlaces, Opening
    <3> QED
      BY <2>1, <2>2, <3>1, <3>2, <3>3, MakerStep
  <2>7. CASE ~IsFork(c)
    <3>1. Creates(c) /\ Active(c) /\ ~Making(c) /\ born' = born
      BY <1>21, <1>0, <2>3, <2>7, PlacesApart DEF OpenReturn, Creates, IsFork
    <3>2. pc'[c] \in OpenPlaces \cup {"return", "prompt"}
      BY <1>21, <1>0, <2>1, <2>4, <2>7 DEF OpenReturn, CallTypes, OpenFailed, OpenPlaces, Opening
    <3>3. running'[on[c]] /\ \A d \in Callers : d # c /\ Active(d)' => on'[d] # on[c]
      BY <2>1, <3>1 DEF Fine, AloneOK, Others, Same, Active, Turning, IsFork
    <3>4. Fine(c)'
      BY <2>1, <2>3, <2>4, <2>5, <2>7, <3>1, <3>2, <3>3 DEF Fine, AloneOK, NativeOK, BornOK, Making,
         Creates, Equipped, OpenPlaces, Opening
    <3> QED
      BY <2>1, <2>2, <3>1, <3>4, ActiveStep
  <2> QED
    BY <2>6, <2>7
<1>22. ASSUME NEW c \in Callers, NEW a \in AllAnswers, TurnReturn(c, a)
  PROVE (AloneInv /\ NativeInv /\ BornInv)'
  <2>1. /\ Others(c) /\ KeepsNatives /\ on'[c] = on[c] /\ on[c] \in Sessions /\ Fine(c)
        /\ born' = born /\ closed' = closed
    BY <1>22, TurnReturnEffect, FineParts DEF TurnReturn
  <2>2. Elsewhere(c)
    BY <1>22, <1>0, <2>1 DEF TurnReturn, Elsewhere, SessionTypes
  <2>3. Active(c)
    BY <1>22, TurnReturnEffect, FineParts DEF Active, Turning, TurnPlaces
  <2>4. Fine(c)'
    <3>1. native'[on[c]] # NoNative \/ pc'[c] \in {"turn", "idle"}
      BY <1>22, <1>0, <2>1, TurnReturnEffect, FineParts DEF Fine, NativeOK, KeepsNatives, Equipped
    <3>2. pc'[c] \in {"turnAdmit", "send", "native", "settle", "finish", "return", "turn", "idle"}
      BY <1>22, <1>0, TurnReturnEffect, FineParts
    <3>3. ~Making(c) /\ pc[c] # "idle"
      BY <1>0, <2>3, PlacesApart
    <3>4. ~Making(c)' /\ ~Creates(c)' /\ (pc'[c] \in Equipped \cup {"return"} \/ pc'[c] \in {"turn", "idle"})
      BY <3>2 DEF Making, Creates, OpenPlaces, Opening, Equipped
    <3> QED
      BY <2>1, <3>1, <3>2, <3>3, <3>4 DEF Fine, AloneOK, NativeOK, BornOK, Opening, OpenPlaces,
         Equipped
  <2> QED
    BY <2>1, <2>2, <2>3, <2>4, ActiveStep
<1>23. ASSUME NEW c \in Callers, NEW b \in Branches, Fork(c, b)
  PROVE (AloneInv /\ NativeInv /\ BornInv)'
  <2>1. /\ Others(c) /\ native' = native /\ born' = born /\ closed' = closed /\ act' = act
        /\ on'[c] = b /\ b \in Sessions /\ Fine(c)
    BY <1>23, ForkEffect, FineParts DEF Fork, Sessions
  <2>2. /\ pc'[c] = "adopt" /\ running' = running /\ born[b] = "no" /\ ~Active(c)'
        /\ \A d \in Callers : d # c => on'[d] # b
    <3>1. pc'[c] = "adopt" /\ Others(c)
      BY <1>23, <1>0, ForkEffect
    <3>2. running' = running /\ born[b] = "no" /\ \A d \in Callers : on[d] # b
      BY <1>23 DEF Fork
    <3> QED
      BY <3>1, <3>2 DEF Others, Same, Active, Turning, TurnPlaces, OpenPlaces, Opening
  <2>3. native[b] = NoNative
    BY <2>1, <2>2 DEF NInv, BornInv, UnbornOK
  <2>4. Fine(c)' /\ \A d \in Callers : d # c /\ Making(d) => b # on[d]
    BY <2>1, <2>2, <2>3 DEF Fine, AloneOK, NativeOK, BornOK, Making, Creates, Equipped, OpenPlaces,
       Opening, Others, Same
  <2> QED
    BY <2>1, <2>2, <2>3, <2>4, CallStep DEF Fine
<1>24. ASSUME NEW c \in Callers, NEW s \in Sessions, Generate(c, s)
  PROVE (AloneInv /\ NativeInv /\ BornInv)'
  <2>1. /\ Others(c) /\ native' = native /\ born' = born /\ closed' = closed /\ act' = act
        /\ on'[c] = s /\ s \in Sessions /\ Fine(c)
    BY <1>24, GenerateEffect, FineParts DEF Generate, Sessions
  <2>2. /\ pc'[c] \in {"idle", "turn"} /\ running' = running /\ born[s] = "yes" /\ ~Active(c)'
    BY <1>24, <1>0, GenerateEffect DEF Generate, Active, Turning, TurnPlaces, OpenPlaces, Opening
  <2>3. \A d \in Callers : d # c /\ Making(d) => s # on[d]
    BY <2>2 DEF NInv, AloneInv, AloneOK
  <2>4. Fine(c)'
    BY <2>1, <2>2 DEF Fine, AloneOK, NativeOK, BornOK, Making, Creates, Equipped, OpenPlaces,
       Opening
  <2> QED
    BY <2>1, <2>2, <2>3, <2>4, CallStep DEF Fine
<1>25. ASSUME CloseMark PROVE (AloneInv /\ NativeInv /\ BornInv)'
  <2>1. /\ UNCHANGED <<pc, on, act, got, born, native, running>>
        /\ \A s \in Sessions : closed[s] => closed'[s]
    BY <1>25, <1>0 DEF CloseMark, SessionTypes
  <2>2. \A d \in Callers : pc[d] # "idle" => on[d] \in Sessions
    BY <1>0, PlacesApart
  <2> QED
    BY <2>1, <2>2 DEF NInv, AloneInv, NativeInv, BornInv, AloneOK, NativeOK, BornOK, UnbornOK,
       Making, Creates, Active, Turning, IsFork
<1>26. ASSUME Reenter PROVE (AloneInv /\ NativeInv /\ BornInv)'
  <2>1. /\ pc' = [c \in Callers |-> "idle"] /\ on' = [c \in Callers |-> "none"]
        /\ native' = [s \in Sessions |-> NoNative]
    BY <1>26 DEF Reenter, All
  <2> QED
    BY <2>1 DEF AloneInv, NativeInv, BornInv, AloneOK, NativeOK, BornOK, UnbornOK, Making, Creates,
       OpenPlaces, Opening, Equipped
<1>27. CASE Rest
  <2>1. UNCHANGED <<pc, on, act, got, born, native, running, closed>>
    BY <1>1, <1>27
  <2> QED
    BY <1>0, <2>1 DEF NInv, AloneInv, NativeInv, BornInv, AloneOK, NativeOK, BornOK, UnbornOK,
       Making, Creates, Active, Turning, IsFork
<1> QED
  BY <1>2, <1>3, <1>4, <1>5, <1>6, <1>7, <1>8, <1>9, <1>10, <1>11, <1>12, <1>13, <1>14, <1>15,
    <1>16, <1>17, <1>18, <1>19, <1>20, <1>21, <1>22, <1>23, <1>24, <1>25, <1>26, <1>27 DEF Next,
    CallerStep, OpenStep, TurnStep, BodyCall, ScopeStep

-----------------------------------------------------------------------------
(* The first process *)

\* The first process stays the first until it dies.
LEMMA StepFirst == IInv /\ [Next]_vars => (Reenter \/ UNCHANGED <<stops, loaded>>)
<1> SUFFICES ASSUME IInv, [Next]_vars PROVE (Reenter \/ UNCHANGED <<stops, loaded>>)
  OBVIOUS
<1> DEFINE Rest == UNCHANGED vars \/ (\E c \in Callers : NewSession(c) \/ Adopt(c) \/ Restore(c) \/
  OpenAdmit(c) \/ OpenSend(c) \/ AdoptNative(c) \/ StopLate(c) \/ TurnRefused(c) \/ StartTurn(c) \/
  TurnAdmit(c) \/ TurnSend(c) \/ Settle(c) \/ EndTurn(c) \/ CancelTurn(c)) \/ (\E c \in Callers, ok
  \in BOOLEAN : ForkIntent(c, ok) \/ Create(c, ok) \/ OpenFinish(c, ok) \/ Bind(c, ok) \/
  TurnIntent(c, ok) \/ TurnFinish(c, ok)) \/ (\E c \in Callers, a \in CreateAnswers, id \in
  {NoNative, Len(closes) + 1} : OpenReturn(c, a, id)) \/ (\E c \in Callers, a \in AllAnswers :
  TurnReturn(c, a)) \/ (\E c \in Callers, b \in Branches : Fork(c, b)) \/ (\E c \in Callers, s \in
  Sessions : Generate(c, s)) \/ (\E s \in Sessions : Steer(s) \/ SteerEnd(s)) \/ Cancel \/
  JournalFails \/ BodyReturn \/ EndScope \/ CloseMark \/ CloseStop \/ Stopped \/ (\E ok \in BOOLEAN
  : CloseEvent(ok) \/ RunEnds(ok))
<1>1. ASSUME Rest PROVE UNCHANGED <<stops, loaded>>
  <2>1. ASSUME NEW c \in Callers, NewSession(c) \/ Adopt(c) \/ Restore(c) \/ OpenAdmit(c) \/
    OpenSend(c) \/ AdoptNative(c) \/ StopLate(c) \/ TurnRefused(c)
    PROVE UNCHANGED <<stops, loaded>>
    BY <2>1 DEF NewSession, Adopt, Restore, OpenAdmit, OpenFailed, LoseFork, IsFork, OpenSend,
      AdoptNative, StopLate, NoteCreateError, StopNative, TurnRefused, Returns, Refusal
  <2>2. ASSUME NEW c \in Callers, StartTurn(c) \/ TurnAdmit(c) \/ TurnSend(c) \/ Settle(c) \/
    EndTurn(c) \/ CancelTurn(c)
    PROVE UNCHANGED <<stops, loaded>>
    BY <2>2 DEF StartTurn, Refusal, TurnAdmit, TurnSend, Settle, EndTurn, Returns, CancelTurn
  <2>3. ASSUME NEW c \in Callers, NEW ok \in BOOLEAN, ForkIntent(c, ok) \/ Create(c, ok) \/
    OpenFinish(c, ok) \/ Bind(c, ok) \/ TurnIntent(c, ok) \/ TurnFinish(c, ok)
    PROVE UNCHANGED <<stops, loaded>>
    BY <2>3 DEF ForkIntent, Create, OpenFinish, Bind, OpenFailed, IsFork, NoteCreateError,
      TurnIntent, TurnFinish
  <2>4. ASSUME NEW c \in Callers, NEW a \in CreateAnswers, NEW id \in {NoNative, Len(closes) + 1},
    OpenReturn(c, a, id)
    PROVE UNCHANGED <<stops, loaded>>
    BY <2>4 DEF OpenReturn
  <2>5. ASSUME NEW c \in Callers, NEW a \in AllAnswers, TurnReturn(c, a)
    PROVE UNCHANGED <<stops, loaded>>
    BY <2>5 DEF TurnReturn
  <2>6. ASSUME NEW c \in Callers, NEW b \in Branches, Fork(c, b) PROVE UNCHANGED <<stops, loaded>>
    BY <2>6 DEF Fork
  <2>7. ASSUME NEW c \in Callers, NEW s \in Sessions, Generate(c, s)
    PROVE UNCHANGED <<stops, loaded>>
    BY <2>7 DEF Generate
  <2>8. ASSUME NEW s \in Sessions, Steer(s) \/ SteerEnd(s) PROVE UNCHANGED <<stops, loaded>>
    BY <2>8 DEF Steer, SteerEnd
  <2>9. ASSUME Cancel \/ JournalFails \/ BodyReturn \/ EndScope \/ CloseMark \/ CloseStop \/ Stopped
    PROVE UNCHANGED <<stops, loaded>>
    BY <2>9 DEF Cancel, JournalFails, BodyReturn, EndScope, CloseMark, CloseStop, StopNative,
      Stopped, vars
  <2>10. ASSUME NEW ok \in BOOLEAN, CloseEvent(ok) \/ RunEnds(ok) PROVE UNCHANGED <<stops, loaded>>
    BY <2>10 DEF CloseEvent, RunEnds
  <2> QED
    BY <1>1, <2>1, <2>2, <2>3, <2>4, <2>5, <2>6, <2>7, <2>8, <2>9, <2>10 DEF vars
<1>2. ASSUME Reenter PROVE (Reenter \/ UNCHANGED <<stops, loaded>>)
  BY <1>2
<1>3. CASE Rest
  <2>1. UNCHANGED <<stops, loaded>>
    BY <1>1, <1>3
  <2> QED
    BY <2>1
<1> QED
  BY <1>2, <1>3 DEF Next, CallerStep, OpenStep, TurnStep, BodyCall, ScopeStep


\* A step in the first process starts from a state of it.
LEMMA FirstStep ==
  ASSUME RInv, stops' = 0, [Next]_vars
  PROVE  /\ IInv /\ NInv /\ FirstInv /\ CallTypes /\ SessionTypes /\ ScopeTypes /\ WorldTypes
         /\ ~Reenter /\ loaded = 0 /\ loaded' = 0
<1>1. IInv /\ NInv /\ CallTypes /\ SessionTypes /\ ScopeTypes /\ WorldTypes
  BY DEF RInv, NInv, IInv, TypeOK
<1>2. ASSUME Reenter PROVE FALSE
  <2>1. stops' = stops + 1 /\ stops \in Nat
    BY <1>1, <1>2 DEF Reenter, WorldTypes
  <2> QED
    BY <2>1
<1> QED
  BY <1>1, <1>2, StepFirst DEF RInv, FirstInv

\* It finds nothing in the journal that an earlier one saved.
LEMMA NothingSaved ==
  ASSUME loaded = 0
  PROVE  /\ \A n, k : ~HasFact(n, k)
         /\ \A n : ~Saved(n)
         /\ \A s : SavedBinding(s) = NoNative
BY DEF HasFact, Saved, SavedOutcomes, SavedBinding, Bindings

\* The body joins its goroutines, and Run waits for the teardown.
LEMMA StepJoin == RInv /\ stops' = 0 /\ [Next]_vars => JoinInv'
<1> SUFFICES ASSUME RInv /\ stops' = 0, [Next]_vars PROVE JoinInv'
  OBVIOUS
<1> DEFINE Rest == UNCHANGED vars \/ (\E c \in Callers : CancelTurn(c)) \/ (\E s \in Sessions :
  Steer(s) \/ SteerEnd(s)) \/ Cancel \/ JournalFails \/ Stopped
<1>1. ASSUME Rest PROVE UNCHANGED <<bodyDone, pc, over, teardown>>
  BY <1>1 DEF CancelTurn, Steer, SteerEnd, Cancel, JournalFails, Stopped, vars
<1>0. IInv /\ NInv /\ FirstInv /\ CallTypes /\ SessionTypes /\ ScopeTypes /\ WorldTypes /\ loaded = 0
  BY FirstStep
<1>2. ASSUME NEW c \in Callers, NewSession(c) PROVE JoinInv'
  <2>1. ~bodyDone /\ UNCHANGED <<bodyDone, over, teardown>>
    BY <1>2, <1>0 DEF NewSession, FirstInv, JoinInv
  <2> QED
    BY <1>0, <2>1 DEF FirstInv, JoinInv
<1>3. ASSUME NEW c \in Callers, Adopt(c) PROVE JoinInv'
  <2>1. ~bodyDone /\ UNCHANGED <<bodyDone, over, teardown>>
    BY <1>3, <1>0 DEF Adopt, FirstInv, JoinInv
  <2> QED
    BY <1>0, <2>1 DEF FirstInv, JoinInv
<1>4. ASSUME NEW c \in Callers, Restore(c) PROVE JoinInv'
  <2>1. ~bodyDone /\ UNCHANGED <<bodyDone, over, teardown>>
    BY <1>4, <1>0 DEF Restore, FirstInv, JoinInv
  <2> QED
    BY <1>0, <2>1 DEF FirstInv, JoinInv
<1>5. ASSUME NEW c \in Callers, OpenAdmit(c) PROVE JoinInv'
  <2>1. ~bodyDone /\ UNCHANGED <<bodyDone, over, teardown>>
    BY <1>5, <1>0 DEF OpenAdmit, OpenFailed, LoseFork, IsFork, FirstInv, JoinInv
  <2> QED
    BY <1>0, <2>1 DEF FirstInv, JoinInv
<1>6. ASSUME NEW c \in Callers, OpenSend(c) PROVE JoinInv'
  <2>1. ~bodyDone /\ UNCHANGED <<bodyDone, over, teardown>>
    BY <1>6, <1>0 DEF OpenSend, FirstInv, JoinInv
  <2> QED
    BY <1>0, <2>1 DEF FirstInv, JoinInv
<1>7. ASSUME NEW c \in Callers, AdoptNative(c) PROVE JoinInv'
  <2>1. ~bodyDone /\ UNCHANGED <<bodyDone, over, teardown>>
    BY <1>7, <1>0 DEF AdoptNative, FirstInv, JoinInv
  <2> QED
    BY <1>0, <2>1 DEF FirstInv, JoinInv
<1>8. ASSUME NEW c \in Callers, StopLate(c) PROVE JoinInv'
  <2>1. ~bodyDone /\ UNCHANGED <<bodyDone, over, teardown>>
    BY <1>8, <1>0 DEF StopLate, OpenFailed, LoseFork, NoteCreateError, StopNative, IsFork, FirstInv,
       JoinInv
  <2> QED
    BY <1>0, <2>1 DEF FirstInv, JoinInv
<1>9. ASSUME NEW c \in Callers, TurnRefused(c) PROVE JoinInv'
  <2>1. ~bodyDone /\ UNCHANGED <<bodyDone, over, teardown>>
    BY <1>9, <1>0 DEF TurnRefused, Returns, Refusal, FirstInv, JoinInv
  <2> QED
    BY <1>0, <2>1 DEF FirstInv, JoinInv
<1>10. ASSUME NEW c \in Callers, StartTurn(c) PROVE JoinInv'
  <2>1. ~bodyDone /\ UNCHANGED <<bodyDone, over, teardown>>
    BY <1>10, <1>0 DEF StartTurn, Refusal, FirstInv, JoinInv
  <2> QED
    BY <1>0, <2>1 DEF FirstInv, JoinInv
<1>11. ASSUME NEW c \in Callers, TurnAdmit(c) PROVE JoinInv'
  <2>1. ~bodyDone /\ UNCHANGED <<bodyDone, over, teardown>>
    BY <1>11, <1>0 DEF TurnAdmit, FirstInv, JoinInv
  <2> QED
    BY <1>0, <2>1 DEF FirstInv, JoinInv
<1>12. ASSUME NEW c \in Callers, TurnSend(c) PROVE JoinInv'
  <2>1. ~bodyDone /\ UNCHANGED <<bodyDone, over, teardown>>
    BY <1>12, <1>0 DEF TurnSend, FirstInv, JoinInv
  <2> QED
    BY <1>0, <2>1 DEF FirstInv, JoinInv
<1>13. ASSUME NEW c \in Callers, Settle(c) PROVE JoinInv'
  <2>1. ~bodyDone /\ UNCHANGED <<bodyDone, over, teardown>>
    BY <1>13, <1>0 DEF Settle, FirstInv, JoinInv
  <2> QED
    BY <1>0, <2>1 DEF FirstInv, JoinInv
<1>14. ASSUME NEW c \in Callers, EndTurn(c) PROVE JoinInv'
  <2>1. ~bodyDone /\ UNCHANGED <<bodyDone, over, teardown>>
    BY <1>14, <1>0 DEF EndTurn, Returns, FirstInv, JoinInv
  <2> QED
    BY <1>0, <2>1 DEF FirstInv, JoinInv
<1>15. ASSUME NEW c \in Callers, NEW ok \in BOOLEAN, ForkIntent(c, ok) PROVE JoinInv'
  <2>1. ~bodyDone /\ UNCHANGED <<bodyDone, over, teardown>>
    BY <1>15, <1>0 DEF ForkIntent, FirstInv, JoinInv
  <2> QED
    BY <1>0, <2>1 DEF FirstInv, JoinInv
<1>16. ASSUME NEW c \in Callers, NEW ok \in BOOLEAN, Create(c, ok) PROVE JoinInv'
  <2>1. ~bodyDone /\ UNCHANGED <<bodyDone, over, teardown>>
    BY <1>16, <1>0 DEF Create, FirstInv, JoinInv
  <2> QED
    BY <1>0, <2>1 DEF FirstInv, JoinInv
<1>17. ASSUME NEW c \in Callers, NEW ok \in BOOLEAN, OpenFinish(c, ok) PROVE JoinInv'
  <2>1. ~bodyDone /\ UNCHANGED <<bodyDone, over, teardown>>
    BY <1>17, <1>0 DEF OpenFinish, FirstInv, JoinInv
  <2> QED
    BY <1>0, <2>1 DEF FirstInv, JoinInv
<1>18. ASSUME NEW c \in Callers, NEW ok \in BOOLEAN, Bind(c, ok) PROVE JoinInv'
  <2>1. ~bodyDone /\ UNCHANGED <<bodyDone, over, teardown>>
    BY <1>18, <1>0 DEF Bind, OpenFailed, IsFork, NoteCreateError, FirstInv, JoinInv
  <2> QED
    BY <1>0, <2>1 DEF FirstInv, JoinInv
<1>19. ASSUME NEW c \in Callers, NEW ok \in BOOLEAN, TurnIntent(c, ok) PROVE JoinInv'
  <2>1. ~bodyDone /\ UNCHANGED <<bodyDone, over, teardown>>
    BY <1>19, <1>0 DEF TurnIntent, FirstInv, JoinInv
  <2> QED
    BY <1>0, <2>1 DEF FirstInv, JoinInv
<1>20. ASSUME NEW c \in Callers, NEW ok \in BOOLEAN, TurnFinish(c, ok) PROVE JoinInv'
  <2>1. ~bodyDone /\ UNCHANGED <<bodyDone, over, teardown>>
    BY <1>20, <1>0 DEF TurnFinish, FirstInv, JoinInv
  <2> QED
    BY <1>0, <2>1 DEF FirstInv, JoinInv
<1>21. ASSUME NEW c \in Callers, NEW a \in CreateAnswers, NEW id \in {NoNative, Len(closes) + 1},
  OpenReturn(c, a, id)
  PROVE JoinInv'
  <2>1. ~bodyDone /\ UNCHANGED <<bodyDone, over, teardown>>
    BY <1>21, <1>0 DEF OpenReturn, FirstInv, JoinInv
  <2> QED
    BY <1>0, <2>1 DEF FirstInv, JoinInv
<1>22. ASSUME NEW c \in Callers, NEW a \in AllAnswers, TurnReturn(c, a) PROVE JoinInv'
  <2>1. ~bodyDone /\ UNCHANGED <<bodyDone, over, teardown>>
    BY <1>22, <1>0 DEF TurnReturn, FirstInv, JoinInv
  <2> QED
    BY <1>0, <2>1 DEF FirstInv, JoinInv
<1>23. ASSUME NEW c \in Callers, NEW b \in Branches, Fork(c, b) PROVE JoinInv'
  <2>1. ~bodyDone /\ UNCHANGED <<bodyDone, over, teardown>>
    BY <1>23, <1>0 DEF Fork, FirstInv, JoinInv
  <2> QED
    BY <1>0, <2>1 DEF FirstInv, JoinInv
<1>24. ASSUME NEW c \in Callers, NEW s \in Sessions, Generate(c, s) PROVE JoinInv'
  <2>1. ~bodyDone /\ UNCHANGED <<bodyDone, over, teardown>>
    BY <1>24, <1>0 DEF Generate, FirstInv, JoinInv
  <2> QED
    BY <1>0, <2>1 DEF FirstInv, JoinInv
<1>25. ASSUME BodyReturn PROVE JoinInv'
  BY <1>25, <1>0 DEF BodyReturn, FirstInv, JoinInv
<1>26. ASSUME EndScope PROVE JoinInv'
  BY <1>26, <1>0 DEF EndScope, FirstInv, JoinInv
<1>27. ASSUME CloseMark PROVE JoinInv'
  BY <1>27, <1>0 DEF CloseMark, FirstInv, JoinInv
<1>28. ASSUME CloseStop PROVE JoinInv'
  BY <1>28, <1>0 DEF CloseStop, StopNative, FirstInv, JoinInv
<1>29. ASSUME NEW ok \in BOOLEAN, CloseEvent(ok) PROVE JoinInv'
  BY <1>29, <1>0 DEF CloseEvent, FirstInv, JoinInv
<1>30. ASSUME NEW ok \in BOOLEAN, RunEnds(ok) PROVE JoinInv'
  BY <1>30, <1>0 DEF RunEnds, FirstInv, JoinInv
<1>31. ASSUME Reenter PROVE JoinInv'
  BY <1>31, FirstStep
<1>32. CASE Rest
  <2>1. UNCHANGED <<bodyDone, pc, over, teardown>>
    BY <1>1, <1>32
  <2> QED
    BY <1>0, <2>1 DEF FirstInv, JoinInv
<1> QED
  BY <1>2, <1>3, <1>4, <1>5, <1>6, <1>7, <1>8, <1>9, <1>10, <1>11, <1>12, <1>13, <1>14, <1>15,
    <1>16, <1>17, <1>18, <1>19, <1>20, <1>21, <1>22, <1>23, <1>24, <1>25, <1>26, <1>27, <1>28,
    <1>29, <1>30, <1>31, <1>32 DEF Next, CallerStep, OpenStep, TurnStep, BodyCall, ScopeStep

\* What is left of a sequence without its head.
LEMMA TailParts ==
  ASSUME NEW q \in Seq(Sessions), q # <<>>
  PROVE  /\ Tail(q) \in Seq(Sessions) /\ Len(Tail(q)) = Len(q) - 1 /\ Len(q) \in Nat \ {0}
         /\ Head(q) = q[1] /\ Head(q) \in Sessions
         /\ \A i \in 1..Len(Tail(q)) : i + 1 \in 1..Len(q) /\ Tail(q)[i] = q[i + 1]
OBVIOUS

\* Making a session that is adopted leaves it to be closed.
LEMMA SameUnmarked ==
  ASSUME UnmarkedInv, UNCHANGED <<teardown, ended, owned, toClose, closed>>,
         \A s \in Sessions : born'[s] = "no" <=> born[s] = "no",
         ScopeTypes, Unmarked \in Seq(Sessions)
  PROVE  UnmarkedInv'
<1>1. Unmarked' = Unmarked
  BY DEF Unmarked
<1>2. \A i \in 1..Len(Unmarked) : Unmarked[i] \in Sessions
  OBVIOUS
<1>3. OpenOnce(Unmarked)'
  <2> DEFINE q == Unmarked
  <2>1. q' = q /\ OpenOnce(q) /\ \A i \in 1..Len(q) : q[i] \in Sessions
    BY <1>1, <1>2 DEF UnmarkedInv
  <2> HIDE DEF q
  <2>2. OpenOnce(q)'
    BY <2>1 DEF OpenOnce
  <2> QED
    BY <2>2 DEF q
<1> QED
  BY <1>3 DEF UnmarkedInv

\* The sessions still to be marked are sessions.
LEMMA UnmarkedTypes ==
  ASSUME ScopeTypes, CloseInv
  PROVE  Unmarked \in Seq(Sessions)
<1>1. toClose # <<>> => Tail(toClose) \in Seq(Sessions)
  BY TailParts DEF ScopeTypes
<1>2. <<>> \in Seq(Sessions)
  OBVIOUS
<1> QED
  BY <1>1, <1>2 DEF Unmarked, ScopeTypes, CloseInv

\* What is still to be marked is what is still open.
LEMMA StepUnmarked == RInv /\ stops' = 0 /\ [Next]_vars => UnmarkedInv'
<1> SUFFICES ASSUME RInv /\ stops' = 0, [Next]_vars PROVE UnmarkedInv'
  OBVIOUS
<1> DEFINE Rest == UNCHANGED vars \/ (\E c \in Callers : NewSession(c) \/ OpenSend(c) \/
  AdoptNative(c) \/ TurnRefused(c) \/ StartTurn(c) \/ TurnAdmit(c) \/ TurnSend(c) \/ Settle(c) \/
  EndTurn(c) \/ CancelTurn(c)) \/ (\E c \in Callers, ok \in BOOLEAN : Create(c, ok) \/ OpenFinish(c,
  ok) \/ TurnIntent(c, ok) \/ TurnFinish(c, ok)) \/ (\E c \in Callers, a \in CreateAnswers, id \in
  {NoNative, Len(closes) + 1} : OpenReturn(c, a, id)) \/ (\E c \in Callers, a \in AllAnswers :
  TurnReturn(c, a)) \/ (\E c \in Callers, b \in Branches : Fork(c, b)) \/ (\E c \in Callers, s \in
  Sessions : Generate(c, s)) \/ (\E s \in Sessions : Steer(s) \/ SteerEnd(s)) \/ Cancel \/
  JournalFails \/ BodyReturn \/ Stopped \/ (\E ok \in BOOLEAN : RunEnds(ok))
<1>1. ASSUME Rest PROVE UNCHANGED <<teardown, ended, owned, toClose, born, closed>>
  <2>1. ASSUME NEW c \in Callers, NewSession(c) \/ OpenSend(c) \/ AdoptNative(c) \/ TurnRefused(c)
    \/ StartTurn(c) \/ TurnAdmit(c) \/ TurnSend(c) \/ Settle(c)
    PROVE UNCHANGED <<teardown, ended, owned, toClose, born, closed>>
    BY <2>1 DEF NewSession, OpenSend, AdoptNative, TurnRefused, Returns, Refusal, StartTurn,
      TurnAdmit, TurnSend, Settle
  <2>2. ASSUME NEW c \in Callers, EndTurn(c) \/ CancelTurn(c)
    PROVE UNCHANGED <<teardown, ended, owned, toClose, born, closed>>
    BY <2>2 DEF EndTurn, Returns, CancelTurn
  <2>3. ASSUME NEW c \in Callers, NEW ok \in BOOLEAN, Create(c, ok) \/ OpenFinish(c, ok) \/
    TurnIntent(c, ok) \/ TurnFinish(c, ok)
    PROVE UNCHANGED <<teardown, ended, owned, toClose, born, closed>>
    BY <2>3 DEF Create, OpenFinish, TurnIntent, TurnFinish
  <2>4. ASSUME NEW c \in Callers, NEW a \in CreateAnswers, NEW id \in {NoNative, Len(closes) + 1},
    OpenReturn(c, a, id)
    PROVE UNCHANGED <<teardown, ended, owned, toClose, born, closed>>
    BY <2>4 DEF OpenReturn
  <2>5. ASSUME NEW c \in Callers, NEW a \in AllAnswers, TurnReturn(c, a)
    PROVE UNCHANGED <<teardown, ended, owned, toClose, born, closed>>
    BY <2>5 DEF TurnReturn
  <2>6. ASSUME NEW c \in Callers, NEW b \in Branches, Fork(c, b)
    PROVE UNCHANGED <<teardown, ended, owned, toClose, born, closed>>
    BY <2>6 DEF Fork
  <2>7. ASSUME NEW c \in Callers, NEW s \in Sessions, Generate(c, s)
    PROVE UNCHANGED <<teardown, ended, owned, toClose, born, closed>>
    BY <2>7 DEF Generate
  <2>8. ASSUME NEW s \in Sessions, Steer(s) \/ SteerEnd(s)
    PROVE UNCHANGED <<teardown, ended, owned, toClose, born, closed>>
    BY <2>8 DEF Steer, SteerEnd
  <2>9. ASSUME Cancel \/ JournalFails \/ BodyReturn \/ Stopped
    PROVE UNCHANGED <<teardown, ended, owned, toClose, born, closed>>
    BY <2>9 DEF Cancel, JournalFails, BodyReturn, Stopped, vars
  <2>10. ASSUME NEW ok \in BOOLEAN, RunEnds(ok)
    PROVE UNCHANGED <<teardown, ended, owned, toClose, born, closed>>
    BY <2>10 DEF RunEnds
  <2> QED
    BY <1>1, <2>1, <2>2, <2>3, <2>4, <2>5, <2>6, <2>7, <2>8, <2>9, <2>10 DEF vars
<1>0. IInv /\ NInv /\ FirstInv /\ CallTypes /\ SessionTypes /\ ScopeTypes /\ WorldTypes /\ loaded = 0
  BY FirstStep
<1>00. Unmarked \in Seq(Sessions)
  BY <1>0, UnmarkedTypes DEF IInv
<1>2. ASSUME NEW c \in Callers, Adopt(c) PROVE UnmarkedInv'
  <2>1. /\ on[c] \in Sessions /\ born[on[c]] = "no" /\ owned' = Append(owned, on[c])
        /\ born' = [born EXCEPT ![on[c]] = "adopted"] /\ closed' = [closed EXCEPT ![on[c]] = ended]
        /\ UNCHANGED <<teardown, ended, toClose>>
    BY <1>2, <1>0, FineParts DEF Adopt, Fine, BornOK
  <2> DEFINE q == Unmarked
  <2>2. q \in Seq(Sessions) /\ OpenOnce(q)
    BY <1>0, <1>00 DEF FirstInv, UnmarkedInv
  <2>3. CASE ended
    <3>1. q' = q
      BY <1>0, <2>1, <2>3 DEF FirstInv, UnmarkedInv, Unmarked
    <3> HIDE DEF q
    <3>3. \A i \in 1..Len(q) : q[i] # on[c] /\ q[i] \in Sessions
      BY <2>1, <2>2 DEF OpenOnce
    <3>4. /\ closed'[on[c]] /\ \A s \in Sessions : s # on[c] => born'[s] = born[s] /\ closed'[s] = closed[s]
      BY <1>0, <2>1, <2>3 DEF SessionTypes
    <3>2. OpenOnce(q)'
      BY <2>2, <3>1, <3>3, <3>4 DEF OpenOnce
    <3> QED
      BY <1>0, <2>1, <3>2 DEF FirstInv, UnmarkedInv, q
  <2>4. CASE ~ended
    <3>1. q = owned /\ q' = Append(q, on[c])
      BY <1>0, <2>1, <2>4 DEF FirstInv, UnmarkedInv, Unmarked
    <3> HIDE DEF q
    <3>2. /\ Len(q') = Len(q) + 1 /\ Len(q) \in Nat /\ q'[Len(q) + 1] = on[c]
          /\ \A i \in 1..Len(q) : q'[i] = q[i] /\ q[i] \in Sessions
      BY <2>1, <2>2, <3>1
    <3>3. \A i \in 1..Len(q) : q[i] # on[c]
      BY <2>1, <2>2 DEF OpenOnce
    <3>4. ASSUME NEW s \in Sessions, born'[s] # "no", ~closed'[s] PROVE \E i \in 1..Len(q') : q'[i] = s
      <4>1. CASE s = on[c]
        BY <3>2, <4>1
      <4>2. CASE s # on[c]
        <5>1. PICK i \in 1..Len(q) : q[i] = s
          BY <1>0, <2>1, <2>2, <3>4, <4>2 DEF OpenOnce, SessionTypes
        <5> QED
          BY <3>2, <5>1
      <4> QED
        BY <4>1, <4>2
    <3>5. ASSUME NEW i \in 1..Len(q') PROVE born'[q'[i]] # "no" /\ ~closed'[q'[i]]
      <4>1. CASE i \in 1..Len(q)
        BY <1>0, <2>1, <2>2, <3>2, <3>3, <4>1 DEF OpenOnce, SessionTypes
      <4>2. CASE i = Len(q) + 1
        BY <1>0, <2>1, <2>4, <3>2, <4>2 DEF SessionTypes
      <4> QED
        BY <3>2, <4>1, <4>2
    <3>6. ASSUME NEW i \in 1..Len(q'), NEW j \in 1..Len(q'), q'[i] = q'[j] PROVE i = j
      BY <2>2, <3>2, <3>3, <3>6 DEF OpenOnce
    <3>7. OpenOnce(q)'
      BY <3>4, <3>5, <3>6 DEF OpenOnce
    <3> QED
      BY <1>0, <2>1, <3>7 DEF FirstInv, UnmarkedInv, q
  <2> QED
    BY <2>3, <2>4
<1>3. ASSUME NEW c \in Callers, Restore(c) PROVE UnmarkedInv'
  <2>1. UNCHANGED <<teardown, ended, owned, toClose, closed>> /\ on[c] \in Sessions
    BY <1>3, <1>0, RestoreEffect, FineParts DEF Restore
  <2>2. Making(c) => born[on[c]] = "adopted"
    BY <1>3, <1>0, MadeIsAdopted DEF Restore
  <2>3. born' # born => Making(c)
    BY <1>3 DEF Restore, Making, OpenPlaces, Opening
  <2>4. \A s \in Sessions : born'[s] = "no" <=> born[s] = "no"
    <3>1. CASE born' = born
      BY <3>1
    <3>2. CASE born' # born
      BY <1>3, <1>0, <2>1, <2>2, <2>3, <3>2 DEF Restore, SessionTypes
    <3> QED
      BY <3>1, <3>2
  <2> QED
    BY <1>0, <1>00, <2>1, <2>4, SameUnmarked DEF FirstInv
<1>4. ASSUME NEW c \in Callers, OpenAdmit(c) PROVE UnmarkedInv'
  <2>1. UNCHANGED <<teardown, ended, owned, toClose, closed>> /\ on[c] \in Sessions
    BY <1>4, <1>0, OpenAdmitEffect, FineParts DEF OpenAdmit, OpenFailed, LoseFork, IsFork
  <2>2. Making(c) => born[on[c]] = "adopted"
    BY <1>4, <1>0, MadeIsAdopted DEF OpenAdmit
  <2>3. born' # born => Making(c)
    BY <1>4 DEF OpenAdmit, OpenFailed, LoseFork, IsFork, Making, OpenPlaces, Opening
  <2>4. \A s \in Sessions : born'[s] = "no" <=> born[s] = "no"
    <3>1. CASE born' = born
      BY <3>1
    <3>2. CASE born' # born
      BY <1>4, <1>0, <2>1, <2>2, <2>3, <3>2 DEF OpenAdmit, OpenFailed, LoseFork, IsFork,
         SessionTypes
    <3> QED
      BY <3>1, <3>2
  <2> QED
    BY <1>0, <1>00, <2>1, <2>4, SameUnmarked DEF FirstInv
<1>5. ASSUME NEW c \in Callers, StopLate(c) PROVE UnmarkedInv'
  <2>1. UNCHANGED <<teardown, ended, owned, toClose, closed>> /\ on[c] \in Sessions
    BY <1>5, <1>0, StopLateEffect, FineParts DEF StopLate, OpenFailed, LoseFork, NoteCreateError,
       StopNative, IsFork
  <2>2. Making(c) => born[on[c]] = "adopted"
    BY <1>5, <1>0, MadeIsAdopted DEF StopLate
  <2>3. born' # born => Making(c)
    BY <1>5 DEF StopLate, OpenFailed, LoseFork, NoteCreateError, StopNative, IsFork, Making,
       OpenPlaces, Opening
  <2>4. \A s \in Sessions : born'[s] = "no" <=> born[s] = "no"
    <3>1. CASE born' = born
      BY <3>1
    <3>2. CASE born' # born
      BY <1>5, <1>0, <2>1, <2>2, <2>3, <3>2 DEF StopLate, OpenFailed, LoseFork, NoteCreateError,
         StopNative, IsFork, SessionTypes
    <3> QED
      BY <3>1, <3>2
  <2> QED
    BY <1>0, <1>00, <2>1, <2>4, SameUnmarked DEF FirstInv
<1>6. ASSUME NEW c \in Callers, NEW ok \in BOOLEAN, ForkIntent(c, ok) PROVE UnmarkedInv'
  <2>1. UNCHANGED <<teardown, ended, owned, toClose, closed>> /\ on[c] \in Sessions
    BY <1>6, <1>0, ForkIntentEffect, FineParts DEF ForkIntent
  <2>2. Making(c) => born[on[c]] = "adopted"
    BY <1>6, <1>0, MadeIsAdopted DEF ForkIntent
  <2>3. born' # born => Making(c)
    BY <1>6 DEF ForkIntent, Making, OpenPlaces, Opening
  <2>4. \A s \in Sessions : born'[s] = "no" <=> born[s] = "no"
    <3>1. CASE born' = born
      BY <3>1
    <3>2. CASE born' # born
      BY <1>6, <1>0, <2>1, <2>2, <2>3, <3>2 DEF ForkIntent, SessionTypes
    <3> QED
      BY <3>1, <3>2
  <2> QED
    BY <1>0, <1>00, <2>1, <2>4, SameUnmarked DEF FirstInv
<1>7. ASSUME NEW c \in Callers, NEW ok \in BOOLEAN, Bind(c, ok) PROVE UnmarkedInv'
  <2>1. UNCHANGED <<teardown, ended, owned, toClose, closed>> /\ on[c] \in Sessions
    BY <1>7, <1>0, BindEffect, FineParts DEF Bind, OpenFailed, IsFork, NoteCreateError
  <2>2. Making(c) => born[on[c]] = "adopted"
    BY <1>7, <1>0, MadeIsAdopted DEF Bind
  <2>3. born' # born => Making(c)
    BY <1>7 DEF Bind, OpenFailed, IsFork, NoteCreateError, Making, OpenPlaces, Opening
  <2>4. \A s \in Sessions : born'[s] = "no" <=> born[s] = "no"
    <3>1. CASE born' = born
      BY <3>1
    <3>2. CASE born' # born
      BY <1>7, <1>0, <2>1, <2>2, <2>3, <3>2 DEF Bind, OpenFailed, IsFork, NoteCreateError,
         SessionTypes
    <3> QED
      BY <3>1, <3>2
  <2> QED
    BY <1>0, <1>00, <2>1, <2>4, SameUnmarked DEF FirstInv
<1>8. ASSUME EndScope PROVE UnmarkedInv'
  <2>1. /\ teardown = "no" /\ teardown' = "mark" /\ ended' = TRUE /\ toClose' = owned
        /\ UNCHANGED <<born, closed>>
    BY <1>8 DEF EndScope
  <2> DEFINE q == Unmarked
  <2>2. q' = q
    BY <2>1 DEF Unmarked
  <2>3. OpenOnce(q)
    BY <1>0 DEF FirstInv, UnmarkedInv
  <2> HIDE DEF q
  <2>4. OpenOnce(q)'
    BY <2>1, <2>2, <2>3 DEF OpenOnce
  <2> QED
    BY <2>1, <2>4 DEF UnmarkedInv, q
<1>9. ASSUME CloseMark PROVE UnmarkedInv'
  <2>1. /\ teardown = "mark" /\ UNCHANGED <<toClose, born, ended>> /\ ended
    BY <1>9, <1>0 DEF CloseMark, FirstInv, UnmarkedInv
  <2> DEFINE q == Unmarked
             p == toClose
  <2>2. q = p /\ p \in Seq(Sessions) /\ OpenOnce(q)
    BY <1>0, <2>1 DEF FirstInv, UnmarkedInv, Unmarked, ScopeTypes
  <2>3. CASE p = <<>>
    <3>1. closed' = closed /\ teardown' = "done" /\ q' = q
      BY <1>9, <2>1, <2>3 DEF CloseMark, Unmarked
    <3> HIDE DEF q
    <3>2. OpenOnce(q)'
      BY <2>1, <2>2, <3>1 DEF OpenOnce
    <3> QED
      BY <2>1, <3>1, <3>2 DEF UnmarkedInv, q
  <2>4. CASE p # <<>>
    <3>1. /\ closed' = [closed EXCEPT ![Head(p)] = TRUE] /\ teardown' \in {"stop", "event"} /\ q' = Tail(p)
      BY <1>9, <2>1, <2>4 DEF CloseMark, Unmarked
    <3> HIDE DEF q, p
    <3>2. /\ Len(q') = Len(p) - 1 /\ Len(p) \in Nat \ {0} /\ Head(p) = p[1] /\ Head(p) \in Sessions
          /\ \A i \in 1..Len(q') : i + 1 \in 1..Len(p) /\ q'[i] = p[i + 1]
      BY <2>2, <2>4, <3>1, TailParts
    <3>3. OpenOnce(p) /\ \A i \in 1..Len(p) : p[i] \in Sessions
      BY <2>2
    <3>4. ASSUME NEW s \in Sessions, born'[s] # "no", ~closed'[s] PROVE \E i \in 1..Len(q') : q'[i] = s
      <4>1. s # Head(p) /\ ~closed[s] /\ born[s] # "no"
        BY <1>0, <2>1, <3>1, <3>2, <3>4 DEF SessionTypes
      <4>2. PICK i \in 1..Len(p) : p[i] = s
        BY <3>3, <4>1 DEF OpenOnce
      <4>3. i # 1 /\ i - 1 \in 1..Len(q') /\ (i - 1) + 1 = i
        BY <3>2, <4>1, <4>2
      <4>4. q'[i - 1] = p[i]
        BY <3>2, <4>3
      <4> QED
        BY <4>2, <4>3, <4>4
    <3>5. ASSUME NEW i \in 1..Len(q') PROVE born'[q'[i]] # "no" /\ ~closed'[q'[i]]
      <4>1. i + 1 \in 1..Len(p) /\ q'[i] = p[i + 1] /\ i + 1 # 1 /\ 1 \in 1..Len(p)
        BY <3>2
      <4>2. q'[i] # Head(p) /\ q'[i] \in Sessions /\ born[q'[i]] # "no" /\ ~closed[q'[i]]
        BY <3>2, <3>3, <4>1 DEF OpenOnce
      <4> QED
        BY <1>0, <2>1, <3>1, <4>2 DEF SessionTypes
    <3>6. ASSUME NEW i \in 1..Len(q'), NEW j \in 1..Len(q'), q'[i] = q'[j] PROVE i = j
      <4>1. i + 1 = j + 1
        BY <3>2, <3>3, <3>6 DEF OpenOnce
      <4> QED
        BY <3>2, <4>1
    <3>7. OpenOnce(q)'
      BY <3>4, <3>5, <3>6 DEF OpenOnce
    <3> QED
      BY <2>1, <3>1, <3>7 DEF UnmarkedInv, q
  <2> QED
    BY <2>3, <2>4
<1>10. ASSUME CloseStop PROVE UnmarkedInv'
  <2>1. /\ teardown \in {"stop", "event"} /\ teardown' \in {"event", "mark"}
        /\ (teardown' = "mark" => toClose' = Tail(toClose)) /\ (teardown' = "event" => toClose' = toClose)
        /\ UNCHANGED <<born, closed, ended>>
    BY <1>10 DEF CloseStop, StopNative
  <2> DEFINE q == Unmarked
  <2>2. q' = q
    BY <2>1 DEF Unmarked
  <2>3. OpenOnce(q)
    BY <1>0 DEF FirstInv, UnmarkedInv
  <2> HIDE DEF q
  <2>4. OpenOnce(q)'
    BY <2>1, <2>2, <2>3 DEF OpenOnce
  <2> QED
    BY <1>0, <2>1, <2>4 DEF FirstInv, UnmarkedInv, q
<1>11. ASSUME NEW ok \in BOOLEAN, CloseEvent(ok) PROVE UnmarkedInv'
  <2>1. /\ teardown \in {"stop", "event"} /\ teardown' \in {"event", "mark"}
        /\ (teardown' = "mark" => toClose' = Tail(toClose)) /\ (teardown' = "event" => toClose' = toClose)
        /\ UNCHANGED <<born, closed, ended>>
    BY <1>11 DEF CloseEvent
  <2> DEFINE q == Unmarked
  <2>2. q' = q
    BY <2>1 DEF Unmarked
  <2>3. OpenOnce(q)
    BY <1>0 DEF FirstInv, UnmarkedInv
  <2> HIDE DEF q
  <2>4. OpenOnce(q)'
    BY <2>1, <2>2, <2>3 DEF OpenOnce
  <2> QED
    BY <1>0, <2>1, <2>4 DEF FirstInv, UnmarkedInv, q
<1>12. ASSUME Reenter PROVE UnmarkedInv'
  BY <1>12, FirstStep
<1>13. CASE Rest
  <2>1. UNCHANGED <<teardown, ended, owned, toClose, born, closed>>
    BY <1>1, <1>13
  <2> QED
    BY <1>0, <2>1 DEF FirstInv, UnmarkedInv, OpenOnce, Unmarked
<1> QED
  BY <1>2, <1>3, <1>4, <1>5, <1>6, <1>7, <1>8, <1>9, <1>10, <1>11, <1>12, <1>13 DEF Next,
    CallerStep, OpenStep, TurnStep, BodyCall, ScopeStep

\* A call that neither takes nor gives up a native session leaves all of them.
LEMMA QuietStep ==
  ASSUME HeldInv, ReleaseInv, NEW c \in Callers, Others(c),
         pc[c] \notin {"opened", "adoptNative", "stopLate"}, pc'[c] \notin {"opened", "adoptNative", "stopLate"},
         UNCHANGED <<native, closes, closed, teardown, toClose>>
  PROVE  HeldInv' /\ ReleaseInv'
<1>1. \A d \in Callers : (Holds(d)' <=> Holds(d)) /\ (Holds(d) => got'[d] = got[d])
  BY DEF Others, Same, Holds
<1>2. \A s \in Sessions : (ByTeardown(s)' <=> ByTeardown(s)) /\ (ByCall(s)' <=> ByCall(s))
  BY DEF Others, Same, ByTeardown, ByCall
<1> QED
  BY <1>1, <1>2 DEF HeldInv, ReleaseInv, CloseOK

\* A native session that is in the state is one the adapter made.
LEMMA NativeRange ==
  ASSUME SessionTypes, CallTypes, WorldTypes
  PROVE  /\ closes \in Seq(Nat) /\ Len(closes) \in Nat
         /\ \A s \in Sessions : native[s] \in 0..Len(closes) /\ (native[s] # NoNative => native[s] \in 1..Len(closes))
         /\ \A c \in Callers : got[c] \in 0..Len(closes) /\ (got[c] # NoNative => got[c] \in 1..Len(closes))
BY DEF SessionTypes, CallTypes, WorldTypes, NoNative

\* Only one call stops the native session of a session that was closed too early for it.
LEMMA StopsAlone ==
  ASSUME NInv, NEW c \in Callers, NEW d \in Callers, pc[c] = "stopLate", pc[d] = "stopLate", on[c] = on[d]
  PROVE  c = d
<1>1. Making(c) \/ Creates(c)
  BY PlacesApart DEF NInv, OpenPlaces
<1>2. Making(d) \/ Active(d)
  BY PlacesApart DEF NInv, OpenPlaces
<1> QED
  BY <1>1, <1>2 DEF NInv, AloneInv, AloneOK

\* Every native session stays with one call or one session, and one of them closes it.
LEMMA StepHeld == RInv /\ stops' = 0 /\ [Next]_vars => (HeldInv /\ ReleaseInv)'
<1> SUFFICES ASSUME RInv /\ stops' = 0, [Next]_vars PROVE (HeldInv /\ ReleaseInv)'
  OBVIOUS
<1> DEFINE Rest == UNCHANGED vars \/ (\E c \in Callers : CancelTurn(c)) \/ (\E s \in Sessions :
  Steer(s) \/ SteerEnd(s)) \/ Cancel \/ JournalFails \/ BodyReturn \/ Stopped \/ (\E ok \in BOOLEAN
  : RunEnds(ok))
<1>1. ASSUME Rest PROVE UNCHANGED <<pc, on, got, native, closes, closed, teardown, toClose>>
  BY <1>1 DEF CancelTurn, Steer, SteerEnd, Cancel, JournalFails, BodyReturn, Stopped, vars, RunEnds
<1>0. IInv /\ NInv /\ FirstInv /\ CallTypes /\ SessionTypes /\ ScopeTypes /\ WorldTypes /\ loaded = 0
  BY FirstStep
<1>00. (\A n, k : ~HasFact(n, k)) /\ (\A n : ~Saved(n)) /\ (\A s : SavedBinding(s) = NoNative)
  BY <1>0, NothingSaved
<1>2. ASSUME NEW c \in Callers, NewSession(c) PROVE (HeldInv /\ ReleaseInv)'
  <2>1. /\ Others(c) /\ pc[c] \notin {"opened", "adoptNative", "stopLate"}
        /\ pc'[c] \notin {"opened", "adoptNative", "stopLate"}
    BY <1>2, <1>0, <1>00, NewSessionEffect DEF OpenFailed
  <2>2. UNCHANGED <<native, closes, closed, teardown, toClose>>
    BY <1>2, <1>0, <1>00 DEF NewSession
  <2> QED
    BY <1>0, <2>1, <2>2, QuietStep DEF FirstInv
<1>3. ASSUME NEW c \in Callers, Adopt(c) PROVE (HeldInv /\ ReleaseInv)'
  <2>1. /\ Others(c) /\ pc[c] = "adopt" /\ pc'[c] \in {"restore", "fork"} /\ on[c] \in Sessions
        /\ native[on[c]] = NoNative
    BY <1>3, <1>0, AdoptEffect, FineParts DEF Fine, NativeOK
  <2>2. /\ UNCHANGED <<native, closes, teardown, toClose>>
        /\ \A s \in Sessions : s # on[c] => closed'[s] = closed[s]
    BY <1>3, <1>0 DEF Adopt, SessionTypes
  <2>3. \A d \in Callers : (Holds(d)' <=> Holds(d)) /\ (Holds(d) => got'[d] = got[d])
    BY <2>1 DEF Others, Same, Holds
  <2>4. \A s \in Sessions : (ByTeardown(s)' <=> ByTeardown(s)) /\ (ByCall(s)' <=> ByCall(s))
    BY <2>1, <2>2 DEF Others, Same, ByTeardown, ByCall
  <2>5. HeldInv'
    BY <1>0, <2>2, <2>3 DEF FirstInv, HeldInv
  <2>6. ReleaseInv'
    BY <1>0, <2>1, <2>2, <2>4 DEF FirstInv, ReleaseInv, CloseOK
  <2> QED
    BY <2>5, <2>6
<1>4. ASSUME NEW c \in Callers, Restore(c) PROVE (HeldInv /\ ReleaseInv)'
  <2>1. /\ Others(c) /\ pc[c] \notin {"opened", "adoptNative", "stopLate"}
        /\ pc'[c] \notin {"opened", "adoptNative", "stopLate"}
    BY <1>4, <1>0, <1>00, RestoreEffect DEF OpenFailed
  <2>2. UNCHANGED <<native, closes, closed, teardown, toClose>>
    <3>1. native' = [native EXCEPT ![on[c]] = IF SavedBinding(on[c]) # NoNative THEN SavedBinding(on[c])
                                              ELSE native[on[c]]]
      BY <1>4 DEF Restore
    <3>2. native' = native
      BY <1>0, <1>00, <3>1 DEF SessionTypes
    <3> QED
      BY <1>4, <3>2 DEF Restore
  <2> QED
    BY <1>0, <2>1, <2>2, QuietStep DEF FirstInv
<1>5. ASSUME NEW c \in Callers, OpenAdmit(c) PROVE (HeldInv /\ ReleaseInv)'
  <2>1. /\ Others(c) /\ pc[c] \notin {"opened", "adoptNative", "stopLate"}
        /\ pc'[c] \notin {"opened", "adoptNative", "stopLate"}
    BY <1>5, <1>0, <1>00, OpenAdmitEffect DEF OpenFailed
  <2>2. UNCHANGED <<native, closes, closed, teardown, toClose>>
    BY <1>5, <1>0, <1>00 DEF OpenAdmit, OpenFailed, LoseFork, IsFork
  <2> QED
    BY <1>0, <2>1, <2>2, QuietStep DEF FirstInv
<1>6. ASSUME NEW c \in Callers, OpenSend(c) PROVE (HeldInv /\ ReleaseInv)'
  <2>1. /\ Others(c) /\ pc[c] \notin {"opened", "adoptNative", "stopLate"}
        /\ pc'[c] \notin {"opened", "adoptNative", "stopLate"}
    BY <1>6, <1>0, <1>00, OpenSendEffect DEF OpenFailed
  <2>2. UNCHANGED <<native, closes, closed, teardown, toClose>>
    BY <1>6, <1>0, <1>00 DEF OpenSend
  <2> QED
    BY <1>0, <2>1, <2>2, QuietStep DEF FirstInv
<1>7. ASSUME NEW c \in Callers, AdoptNative(c) PROVE (HeldInv /\ ReleaseInv)'
  <2>1. /\ Others(c) /\ pc[c] = "adoptNative" /\ got' = got /\ on' = on /\ on[c] \in Sessions
        /\ UNCHANGED <<closes, closed, teardown, toClose>> /\ native[on[c]] = NoNative
    BY <1>7, <1>0, AdoptNativeEffect, FineParts DEF AdoptNative, Fine, NativeOK
  <2>2. /\ \A s \in Sessions : s # on[c] => native'[s] = native[s]
        /\ native'[on[c]] = got[c]
        /\ pc'[c] = IF got[c] # NoNative /\ closed[on[c]] THEN "stopLate" ELSE "bind"
    BY <1>7, <1>0, <2>1 DEF AdoptNative, SessionTypes, CallTypes
  <2>3. /\ ~Holds(c)' /\ (Holds(c) <=> got[c] # NoNative)
        /\ \A d \in Callers : d # c => (Holds(d)' <=> Holds(d))
    BY <2>1, <2>2 DEF Others, Same, Holds
  <2>4. ~ByTeardown(on[c]) /\ \A s \in Sessions : ByTeardown(s)' <=> ByTeardown(s)
    BY <1>0, <2>1 DEF FirstInv, ReleaseInv, ByTeardown
  <2>5. /\ \A s \in Sessions : s # on[c] => (ByCall(s)' <=> ByCall(s))
        /\ got[c] # NoNative => (ByCall(on[c])' <=> closed[on[c]])
    <3>1. ASSUME NEW d \in Callers, d # c, on[d] = on[c], pc[d] = "stopLate" PROVE FALSE
      BY <1>0, <2>1, <3>1 DEF NInv, NativeInv, NativeOK
    <3>2. \A d \in Callers : d # c => pc'[d] = pc[d]
      BY <2>1 DEF Others, Same
    <3>3. pc'[c] = "stopLate" <=> got[c] # NoNative /\ closed[on[c]]
      BY <2>2
    <3> QED
      BY <2>1, <3>1, <3>2, <3>3 DEF ByCall
  <2>6. HeldInv'
    <3>1. ASSUME NEW s \in Sessions, NEW t \in Sessions, native'[s] # NoNative, native'[t] = native'[s] PROVE s = t
      BY <1>0, <2>1, <2>2, <2>3, <3>1 DEF FirstInv, HeldInv
    <3>2. ASSUME NEW d \in Callers, Holds(d)'
          PROVE  /\ closes'[got'[d]] = 0
                 /\ \A s \in Sessions : native'[s] # got'[d]
                 /\ \A e \in Callers : Holds(e)' /\ got'[e] = got'[d] => e = d
      <4>1. d # c /\ Holds(d)
        BY <2>3, <3>2
      <4>2. got[c] # got[d]
        BY <1>0, <2>3, <4>1 DEF FirstInv, HeldInv, Holds
      <4> QED
        BY <1>0, <2>1, <2>2, <2>3, <4>1, <4>2 DEF FirstInv, HeldInv
    <3>3. ASSUME NEW n \in 1..Len(closes')
          PROVE  (\E d \in Callers : Holds(d)' /\ got'[d] = n) \/ (\E s \in Sessions : native'[s] = n)
      <4>1. (\E d \in Callers : Holds(d) /\ got[d] = n) \/ (\E s \in Sessions : native[s] = n)
        BY <1>0, <2>1 DEF FirstInv, HeldInv
      <4>2. n # NoNative
        BY <1>0, <2>1 DEF NoNative
      <4> QED
        BY <2>1, <2>2, <2>3, <4>1, <4>2
    <3> QED
      BY <3>1, <3>2, <3>3 DEF HeldInv
  <2>7. ReleaseInv'
    <3>1. ASSUME NEW s \in Sessions PROVE CloseOK(s)' /\ ~(ByTeardown(s) /\ ByCall(s))'
      <4>1. CASE s = on[c]
        <5>1. got[c] # NoNative => closes[got[c]] = 0
          BY <1>0, <2>3 DEF FirstInv, HeldInv
        <5> QED
          BY <2>1, <2>2, <2>4, <2>5, <4>1, <5>1 DEF CloseOK
      <4>2. CASE s # on[c]
        BY <1>0, <2>1, <2>2, <2>4, <2>5, <4>2 DEF FirstInv, ReleaseInv, CloseOK
      <4> QED
        BY <4>1, <4>2
    <3>2. ASSUME NEW s \in Sessions, ByTeardown(s)' PROVE native'[s] # NoNative /\ closed'[s]
      BY <1>0, <2>1, <2>2, <2>4, <3>2 DEF FirstInv, ReleaseInv
    <3> QED
      BY <3>1, <3>2 DEF ReleaseInv
  <2> QED
    BY <2>6, <2>7
<1>8. ASSUME NEW c \in Callers, StopLate(c) PROVE (HeldInv /\ ReleaseInv)'
  <2>1. /\ Others(c) /\ pc[c] = "stopLate" /\ pc'[c] \in {"idle", "return"} /\ on[c] \in Sessions
        /\ UNCHANGED <<native, closed, teardown, toClose, got, on>> /\ native[on[c]] # NoNative /\ closed[on[c]]
    BY <1>8, <1>0, StopLateEffect, FineParts DEF StopLate, OpenFailed, Fine, NativeOK
  <2>2. ByCall(on[c]) /\ ~ByTeardown(on[c])
    BY <1>0, <2>1 DEF ByCall, FirstInv, ReleaseInv
  <2>3. native[on[c]] \in 1..Len(closes)
    BY <1>0, <2>1, NativeRange
  <2>4. closes' = [closes EXCEPT ![native[on[c]]] = closes[native[on[c]]] + 1] /\ closes[native[on[c]]] = 0
    BY <1>8, <1>0, <1>00, <2>1, <2>2 DEF StopLate, StopNative, FirstInv, ReleaseInv, CloseOK
  <2>5. /\ Len(closes') = Len(closes) /\ closes'[native[on[c]]] = 1
        /\ \A n \in 1..Len(closes) : n # native[on[c]] => closes'[n] = closes[n]
    BY <1>0, <2>3, <2>4, NativeRange
  <2>6. /\ \A d \in Callers : Holds(d) => closes'[got[d]] = closes[got[d]]
        /\ \A t \in Sessions : t # on[c] /\ native[t] # NoNative => closes'[native[t]] = closes[native[t]]
    BY <1>0, <2>1, <2>5, NativeRange DEF FirstInv, HeldInv, Holds
  <2>7. /\ \A d \in Callers : Holds(d)' <=> Holds(d)
        /\ \A s \in Sessions : ByTeardown(s)' <=> ByTeardown(s)
        /\ \A s \in Sessions : ByCall(s)' <=> ByCall(s) /\ s # on[c]
    <3>1. \A d \in Callers : (Holds(d)' <=> Holds(d)) /\ (pc'[d] = "stopLate" <=> pc[d] = "stopLate" /\ d # c)
      BY <2>1 DEF Others, Same, Holds
    <3>2. \A d \in Callers : d # c /\ pc[d] = "stopLate" => on[d] # on[c]
      BY <1>0, <2>1, StopsAlone
    <3> QED
      BY <2>1, <3>1, <3>2 DEF ByTeardown, ByCall
  <2>8. HeldInv'
    BY <1>0, <2>1, <2>5, <2>6, <2>7 DEF FirstInv, HeldInv
  <2>9. ReleaseInv'
    BY <1>0, <2>1, <2>2, <2>5, <2>6, <2>7 DEF FirstInv, ReleaseInv, CloseOK
  <2> QED
    BY <2>8, <2>9
<1>9. ASSUME NEW c \in Callers, TurnRefused(c) PROVE (HeldInv /\ ReleaseInv)'
  <2>1. /\ Others(c) /\ pc[c] \notin {"opened", "adoptNative", "stopLate"}
        /\ pc'[c] \notin {"opened", "adoptNative", "stopLate"}
    BY <1>9, <1>0, <1>00, TurnRefusedEffect DEF OpenFailed
  <2>2. UNCHANGED <<native, closes, closed, teardown, toClose>>
    BY <1>9, <1>0, <1>00 DEF TurnRefused, Returns, Refusal
  <2> QED
    BY <1>0, <2>1, <2>2, QuietStep DEF FirstInv
<1>10. ASSUME NEW c \in Callers, StartTurn(c) PROVE (HeldInv /\ ReleaseInv)'
  <2>1. /\ Others(c) /\ pc[c] \notin {"opened", "adoptNative", "stopLate"}
        /\ pc'[c] \notin {"opened", "adoptNative", "stopLate"}
    BY <1>10, <1>0, <1>00, StartTurnEffect DEF OpenFailed
  <2>2. UNCHANGED <<native, closes, closed, teardown, toClose>>
    BY <1>10, <1>0, <1>00 DEF StartTurn, Refusal
  <2> QED
    BY <1>0, <2>1, <2>2, QuietStep DEF FirstInv
<1>11. ASSUME NEW c \in Callers, TurnAdmit(c) PROVE (HeldInv /\ ReleaseInv)'
  <2>1. /\ Others(c) /\ pc[c] \notin {"opened", "adoptNative", "stopLate"}
        /\ pc'[c] \notin {"opened", "adoptNative", "stopLate"}
    BY <1>11, <1>0, <1>00, TurnAdmitEffect DEF OpenFailed
  <2>2. UNCHANGED <<native, closes, closed, teardown, toClose>>
    BY <1>11, <1>0, <1>00 DEF TurnAdmit
  <2> QED
    BY <1>0, <2>1, <2>2, QuietStep DEF FirstInv
<1>12. ASSUME NEW c \in Callers, TurnSend(c) PROVE (HeldInv /\ ReleaseInv)'
  <2>1. /\ Others(c) /\ pc[c] \notin {"opened", "adoptNative", "stopLate"}
        /\ pc'[c] \notin {"opened", "adoptNative", "stopLate"}
    BY <1>12, <1>0, <1>00, TurnSendEffect DEF OpenFailed
  <2>2. UNCHANGED <<native, closes, closed, teardown, toClose>>
    BY <1>12, <1>0, <1>00 DEF TurnSend
  <2> QED
    BY <1>0, <2>1, <2>2, QuietStep DEF FirstInv
<1>13. ASSUME NEW c \in Callers, Settle(c) PROVE (HeldInv /\ ReleaseInv)'
  <2>1. /\ Others(c) /\ pc[c] \notin {"opened", "adoptNative", "stopLate"}
        /\ pc'[c] \notin {"opened", "adoptNative", "stopLate"}
    BY <1>13, <1>0, <1>00, SettleEffect DEF OpenFailed
  <2>2. UNCHANGED <<native, closes, closed, teardown, toClose>>
    BY <1>13, <1>0, <1>00 DEF Settle
  <2> QED
    BY <1>0, <2>1, <2>2, QuietStep DEF FirstInv
<1>14. ASSUME NEW c \in Callers, EndTurn(c) PROVE (HeldInv /\ ReleaseInv)'
  <2>1. /\ Others(c) /\ pc[c] \notin {"opened", "adoptNative", "stopLate"}
        /\ pc'[c] \notin {"opened", "adoptNative", "stopLate"}
    BY <1>14, <1>0, <1>00, EndTurnEffect DEF OpenFailed
  <2>2. UNCHANGED <<native, closes, closed, teardown, toClose>>
    BY <1>14, <1>0, <1>00 DEF EndTurn, Returns
  <2> QED
    BY <1>0, <2>1, <2>2, QuietStep DEF FirstInv
<1>15. ASSUME NEW c \in Callers, NEW ok \in BOOLEAN, ForkIntent(c, ok)
  PROVE (HeldInv /\ ReleaseInv)'
  <2>1. /\ Others(c) /\ pc[c] \notin {"opened", "adoptNative", "stopLate"}
        /\ pc'[c] \notin {"opened", "adoptNative", "stopLate"}
    BY <1>15, <1>0, <1>00, ForkIntentEffect DEF OpenFailed
  <2>2. UNCHANGED <<native, closes, closed, teardown, toClose>>
    BY <1>15, <1>0, <1>00 DEF ForkIntent
  <2> QED
    BY <1>0, <2>1, <2>2, QuietStep DEF FirstInv
<1>16. ASSUME NEW c \in Callers, NEW ok \in BOOLEAN, Create(c, ok) PROVE (HeldInv /\ ReleaseInv)'
  <2>1. /\ Others(c) /\ pc[c] \notin {"opened", "adoptNative", "stopLate"}
        /\ pc'[c] \notin {"opened", "adoptNative", "stopLate"}
    BY <1>16, <1>0, <1>00, CreateEffect DEF OpenFailed
  <2>2. UNCHANGED <<native, closes, closed, teardown, toClose>>
    BY <1>16, <1>0, <1>00 DEF Create
  <2> QED
    BY <1>0, <2>1, <2>2, QuietStep DEF FirstInv
<1>17. ASSUME NEW c \in Callers, NEW ok \in BOOLEAN, OpenFinish(c, ok)
  PROVE (HeldInv /\ ReleaseInv)'
  <2>1. /\ Others(c) /\ pc[c] = "opened" /\ pc'[c] = "adoptNative" /\ got' = got
        /\ UNCHANGED <<native, closes, closed, teardown, toClose>>
    BY <1>17, <1>0, OpenFinishEffect DEF OpenFinish
  <2>2. \A d \in Callers : (Holds(d)' <=> Holds(d)) /\ got'[d] = got[d]
    BY <2>1 DEF Others, Same, Holds
  <2>3. \A s \in Sessions : (ByTeardown(s)' <=> ByTeardown(s)) /\ (ByCall(s)' <=> ByCall(s))
    BY <2>1 DEF Others, Same, ByTeardown, ByCall
  <2> QED
    BY <1>0, <2>1, <2>2, <2>3 DEF FirstInv, HeldInv, ReleaseInv, CloseOK
<1>18. ASSUME NEW c \in Callers, NEW ok \in BOOLEAN, Bind(c, ok) PROVE (HeldInv /\ ReleaseInv)'
  <2>1. /\ Others(c) /\ pc[c] \notin {"opened", "adoptNative", "stopLate"}
        /\ pc'[c] \notin {"opened", "adoptNative", "stopLate"}
    BY <1>18, <1>0, <1>00, BindEffect DEF OpenFailed
  <2>2. UNCHANGED <<native, closes, closed, teardown, toClose>>
    BY <1>18, <1>0, <1>00 DEF Bind, OpenFailed, IsFork, NoteCreateError
  <2> QED
    BY <1>0, <2>1, <2>2, QuietStep DEF FirstInv
<1>19. ASSUME NEW c \in Callers, NEW ok \in BOOLEAN, TurnIntent(c, ok)
  PROVE (HeldInv /\ ReleaseInv)'
  <2>1. /\ Others(c) /\ pc[c] \notin {"opened", "adoptNative", "stopLate"}
        /\ pc'[c] \notin {"opened", "adoptNative", "stopLate"}
    BY <1>19, <1>0, <1>00, TurnIntentEffect DEF OpenFailed
  <2>2. UNCHANGED <<native, closes, closed, teardown, toClose>>
    BY <1>19, <1>0, <1>00 DEF TurnIntent
  <2> QED
    BY <1>0, <2>1, <2>2, QuietStep DEF FirstInv
<1>20. ASSUME NEW c \in Callers, NEW ok \in BOOLEAN, TurnFinish(c, ok)
  PROVE (HeldInv /\ ReleaseInv)'
  <2>1. /\ Others(c) /\ pc[c] \notin {"opened", "adoptNative", "stopLate"}
        /\ pc'[c] \notin {"opened", "adoptNative", "stopLate"}
    BY <1>20, <1>0, <1>00, TurnFinishEffect DEF OpenFailed
  <2>2. UNCHANGED <<native, closes, closed, teardown, toClose>>
    BY <1>20, <1>0, <1>00 DEF TurnFinish
  <2> QED
    BY <1>0, <2>1, <2>2, QuietStep DEF FirstInv
<1>21. ASSUME NEW c \in Callers, NEW a \in CreateAnswers, NEW id \in {NoNative, Len(closes) + 1},
  OpenReturn(c, a, id)
  PROVE (HeldInv /\ ReleaseInv)'
  <2>1. /\ Others(c) /\ pc[c] = "opening" /\ pc'[c] = "opened" /\ got'[c] = id
        /\ UNCHANGED <<native, closed, teardown, toClose>>
        /\ closes' = IF id = NoNative THEN closes ELSE Append(closes, 0)
    BY <1>21, <1>0, OpenReturnEffect DEF OpenReturn
  <2>2. \A d \in Callers : d # c => (Holds(d)' <=> Holds(d)) /\ got'[d] = got[d]
    BY <2>1 DEF Others, Same, Holds
  <2>3. \A s \in Sessions : (ByTeardown(s)' <=> ByTeardown(s)) /\ (ByCall(s)' <=> ByCall(s))
    BY <2>1 DEF Others, Same, ByTeardown, ByCall
  <2>4. ~Holds(c) /\ (Holds(c)' <=> id # NoNative)
    BY <2>1 DEF Holds
  <2>5. CASE id = NoNative
    <3>1. closes' = closes /\ \A d \in Callers : (Holds(d)' <=> Holds(d)) /\ (Holds(d) => got'[d] = got[d])
      BY <2>1, <2>2, <2>4, <2>5
    <3> QED
      BY <1>0, <2>1, <2>3, <3>1 DEF FirstInv, HeldInv, ReleaseInv, CloseOK
  <2>6. CASE id # NoNative
    <3>1. /\ id = Len(closes) + 1 /\ Len(closes') = Len(closes) + 1 /\ closes'[id] = 0 /\ Len(closes) \in Nat
          /\ \A n \in 1..Len(closes) : closes'[n] = closes[n]
      BY <1>0, <2>1, <2>6, NativeRange
    <3>2. /\ \A s \in Sessions : native[s] # id /\ (native[s] # NoNative => closes'[native[s]] = closes[native[s]])
          /\ \A d \in Callers : got[d] # id /\ (Holds(d) => closes'[got[d]] = closes[got[d]])
      BY <1>0, <3>1, NativeRange DEF Holds
    <3>3. ReleaseInv'
      BY <1>0, <2>1, <2>3, <3>2 DEF FirstInv, ReleaseInv, CloseOK
    <3>4. ASSUME NEW d \in Callers, Holds(d)'
          PROVE  /\ closes'[got'[d]] = 0
                 /\ \A s \in Sessions : native'[s] # got'[d]
                 /\ \A e \in Callers : Holds(e)' /\ got'[e] = got'[d] => e = d
      <4>1. CASE d = c
        BY <2>1, <2>2, <3>1, <3>2, <4>1
      <4>2. CASE d # c
        <5>1. Holds(d) /\ got'[d] = got[d] /\ got[d] # id
          BY <2>2, <3>2, <3>4, <4>2
        <5>2. closes[got[d]] = 0 /\ \A s \in Sessions : native[s] # got[d]
          BY <1>0, <5>1 DEF FirstInv, HeldInv
        <5>3. \A e \in Callers : Holds(e) /\ got[e] = got[d] => e = d
          BY <1>0, <5>1 DEF FirstInv, HeldInv
        <5> QED
          BY <2>1, <2>2, <3>2, <5>1, <5>2, <5>3
      <4> QED
        BY <4>1, <4>2
    <3>5. ASSUME NEW n \in 1..Len(closes')
          PROVE  (\E d \in Callers : Holds(d)' /\ got'[d] = n) \/ (\E s \in Sessions : native'[s] = n)
      <4>1. CASE n = id
        BY <2>1, <2>4, <2>6, <4>1
      <4>2. CASE n # id
        <5>1. n \in 1..Len(closes)
          BY <3>1, <4>2
        <5>2. (\E d \in Callers : Holds(d) /\ got[d] = n) \/ (\E s \in Sessions : native[s] = n)
          BY <1>0, <5>1 DEF FirstInv, HeldInv
        <5> QED
          BY <2>1, <2>2, <2>4, <5>2
      <4> QED
        BY <4>1, <4>2
    <3>6. \A s, t \in Sessions : native'[s] # NoNative /\ native'[t] = native'[s] => s = t
      BY <1>0, <2>1 DEF FirstInv, HeldInv
    <3>7. HeldInv'
      BY <3>4, <3>5, <3>6 DEF HeldInv
    <3> QED
      BY <3>3, <3>7
  <2> QED
    BY <2>5, <2>6
<1>22. ASSUME NEW c \in Callers, NEW a \in AllAnswers, TurnReturn(c, a)
  PROVE (HeldInv /\ ReleaseInv)'
  <2>1. /\ Others(c) /\ pc[c] \notin {"opened", "adoptNative", "stopLate"}
        /\ pc'[c] \notin {"opened", "adoptNative", "stopLate"}
    BY <1>22, <1>0, <1>00, TurnReturnEffect DEF OpenFailed
  <2>2. UNCHANGED <<native, closes, closed, teardown, toClose>>
    BY <1>22, <1>0, <1>00 DEF TurnReturn
  <2> QED
    BY <1>0, <2>1, <2>2, QuietStep DEF FirstInv
<1>23. ASSUME NEW c \in Callers, NEW b \in Branches, Fork(c, b) PROVE (HeldInv /\ ReleaseInv)'
  <2>1. /\ Others(c) /\ pc[c] \notin {"opened", "adoptNative", "stopLate"}
        /\ pc'[c] \notin {"opened", "adoptNative", "stopLate"}
    BY <1>23, <1>0, <1>00, ForkEffect DEF OpenFailed
  <2>2. UNCHANGED <<native, closes, closed, teardown, toClose>>
    BY <1>23, <1>0, <1>00 DEF Fork
  <2> QED
    BY <1>0, <2>1, <2>2, QuietStep DEF FirstInv
<1>24. ASSUME NEW c \in Callers, NEW s \in Sessions, Generate(c, s) PROVE (HeldInv /\ ReleaseInv)'
  <2>1. /\ Others(c) /\ pc[c] \notin {"opened", "adoptNative", "stopLate"}
        /\ pc'[c] \notin {"opened", "adoptNative", "stopLate"}
    BY <1>24, <1>0, <1>00, GenerateEffect DEF OpenFailed
  <2>2. UNCHANGED <<native, closes, closed, teardown, toClose>>
    BY <1>24, <1>0, <1>00 DEF Generate
  <2> QED
    BY <1>0, <2>1, <2>2, QuietStep DEF FirstInv
<1>25. ASSUME EndScope PROVE (HeldInv /\ ReleaseInv)'
  <2>1. UNCHANGED <<pc, on, got, native, closes, closed>> /\ teardown # "stop" /\ teardown' # "stop"
    BY <1>25 DEF EndScope
  <2>2. /\ \A d \in Callers : Holds(d)' <=> Holds(d)
        /\ \A s \in Sessions : (ByCall(s)' <=> ByCall(s)) /\ ~ByTeardown(s) /\ ~ByTeardown(s)'
    BY <2>1 DEF Holds, ByTeardown, ByCall
  <2> QED
    BY <1>0, <2>1, <2>2 DEF FirstInv, HeldInv, ReleaseInv, CloseOK
<1>26. ASSUME CloseMark PROVE (HeldInv /\ ReleaseInv)'
  <2>1. UNCHANGED <<pc, on, got, native, closes, toClose>> /\ teardown = "mark"
    BY <1>26 DEF CloseMark
  <2>2. /\ \A d \in Callers : Holds(d)' <=> Holds(d)
        /\ \A s \in Sessions : (ByCall(s)' <=> ByCall(s)) /\ ~ByTeardown(s)
    BY <2>1 DEF Holds, ByTeardown, ByCall
  <2>3. HeldInv'
    BY <1>0, <2>1, <2>2 DEF FirstInv, HeldInv
  <2>4. CASE toClose = <<>>
    <3>1. closed' = closed /\ \A s \in Sessions : ~ByTeardown(s)'
      BY <1>26, <2>4 DEF CloseMark, ByTeardown
    <3>2. ReleaseInv'
      BY <1>0, <2>1, <2>2, <3>1 DEF FirstInv, ReleaseInv, CloseOK
    <3> QED
      BY <2>3, <3>2
  <2>5. CASE toClose # <<>>
    <3> DEFINE h == Head(toClose)
    <3>1. /\ h \in Sessions /\ closed'[h] /\ \A s \in Sessions : s # h => closed'[s] = closed[s]
          /\ teardown' = IF native[h] # NoNative THEN "stop" ELSE "event"
      BY <1>26, <1>0, <2>5, TailParts DEF CloseMark, ScopeTypes, SessionTypes
    <3>2. ~closed[h]
      BY <1>0, <2>1, <2>5, TailParts DEF FirstInv, UnmarkedInv, OpenOnce, Unmarked, ScopeTypes
    <3>3. \A s \in Sessions : ByTeardown(s)' <=> s = h /\ native[h] # NoNative
      BY <2>1, <3>1 DEF ByTeardown
    <3>4. ~ByCall(h)
      BY <1>0, <3>2 DEF ByCall, NInv, NativeInv, NativeOK
    <3> HIDE DEF h
    <3>5. ReleaseInv'
      BY <1>0, <2>1, <2>2, <3>1, <3>2, <3>3, <3>4 DEF FirstInv, ReleaseInv, CloseOK
    <3> QED
      BY <2>3, <3>5
  <2> QED
    BY <2>4, <2>5
<1>27. ASSUME CloseStop PROVE (HeldInv /\ ReleaseInv)'
  <2>1. /\ UNCHANGED <<pc, on, got, native, closed, toClose>> /\ teardown = "stop" /\ teardown' = "event"
        /\ Head(toClose) \in Sessions /\ native[Head(toClose)] # NoNative /\ closed[Head(toClose)]
    BY <1>27, <1>0, TailParts DEF CloseStop, ScopeTypes, IInv, CloseInv, FirstInv, ReleaseInv,
       ByTeardown
  <2>2. ByTeardown(Head(toClose)) /\ ~ByCall(Head(toClose))
    BY <1>0, <2>1 DEF ByTeardown, FirstInv, ReleaseInv
  <2>3. native[Head(toClose)] \in 1..Len(closes)
    BY <1>0, <2>1, NativeRange
  <2>4. /\ closes' = [closes EXCEPT ![native[Head(toClose)]] = closes[native[Head(toClose)]] + 1]
        /\ closes[native[Head(toClose)]] = 0
    BY <1>27, <1>0, <1>00, <2>1, <2>2 DEF CloseStop, StopNative, FirstInv, ReleaseInv, CloseOK
  <2>5. /\ Len(closes') = Len(closes) /\ closes'[native[Head(toClose)]] = 1
        /\ \A n \in 1..Len(closes) : n # native[Head(toClose)] => closes'[n] = closes[n]
    BY <1>0, <2>3, <2>4, NativeRange
  <2>6. /\ \A d \in Callers : Holds(d) => closes'[got[d]] = closes[got[d]]
        /\ \A t \in Sessions : t # Head(toClose) /\ native[t] # NoNative => closes'[native[t]] = closes[native[t]]
    BY <1>0, <2>1, <2>5, NativeRange DEF FirstInv, HeldInv, Holds
  <2>7. /\ \A d \in Callers : Holds(d)' <=> Holds(d)
        /\ \A s \in Sessions : ByCall(s)' <=> ByCall(s)
        /\ \A s \in Sessions : ByTeardown(s)' <=> ByTeardown(s) /\ s # Head(toClose)
    BY <2>1 DEF Holds, ByTeardown, ByCall
  <2>8. HeldInv'
    BY <1>0, <2>1, <2>5, <2>6, <2>7 DEF FirstInv, HeldInv
  <2>9. ReleaseInv'
    BY <1>0, <2>1, <2>2, <2>5, <2>6, <2>7 DEF FirstInv, ReleaseInv, CloseOK
  <2> QED
    BY <2>8, <2>9
<1>28. ASSUME NEW ok \in BOOLEAN, CloseEvent(ok) PROVE (HeldInv /\ ReleaseInv)'
  <2>1. UNCHANGED <<pc, on, got, native, closes, closed>> /\ teardown # "stop" /\ teardown' # "stop"
    BY <1>28 DEF CloseEvent
  <2>2. /\ \A d \in Callers : Holds(d)' <=> Holds(d)
        /\ \A s \in Sessions : (ByCall(s)' <=> ByCall(s)) /\ ~ByTeardown(s) /\ ~ByTeardown(s)'
    BY <2>1 DEF Holds, ByTeardown, ByCall
  <2> QED
    BY <1>0, <2>1, <2>2 DEF FirstInv, HeldInv, ReleaseInv, CloseOK
<1>29. ASSUME Reenter PROVE (HeldInv /\ ReleaseInv)'
  BY <1>29, FirstStep
<1>30. CASE Rest
  <2>1. UNCHANGED <<pc, on, got, native, closes, closed, teardown, toClose>>
    BY <1>1, <1>30
  <2> QED
    BY <1>0, <2>1 DEF FirstInv, HeldInv, ReleaseInv, CloseOK, Holds, ByTeardown, ByCall
<1> QED
  BY <1>2, <1>3, <1>4, <1>5, <1>6, <1>7, <1>8, <1>9, <1>10, <1>11, <1>12, <1>13, <1>14, <1>15,
    <1>16, <1>17, <1>18, <1>19, <1>20, <1>21, <1>22, <1>23, <1>24, <1>25, <1>26, <1>27, <1>28,
    <1>29, <1>30 DEF Next, CallerStep, OpenStep, TurnStep, BodyCall, ScopeStep

-----------------------------------------------------------------------------
(* The theorem *)

\* The invariant holds initially.
LEMMA InitRelease == Init => RInv
<1> SUFFICES ASSUME Init PROVE RInv
  OBVIOUS
<1>1. IInv
  BY InitInv
<1>2. /\ pc = [c \in Callers |-> "idle"] /\ native = [s \in Sessions |-> NoNative] /\ closes = <<>>
      /\ born = [s \in Sessions |-> "no"] /\ owned = <<>> /\ teardown = "no" /\ loaded = 0
      /\ ended = FALSE /\ bodyDone = FALSE /\ over = FALSE
  BY DEF Init, All
<1>3. AloneInv /\ NativeInv /\ BornInv
  BY <1>2 DEF AloneInv, NativeInv, BornInv, AloneOK, NativeOK, BornOK, UnbornOK, Making, Creates,
     OpenPlaces, Opening, Equipped
<1>4. UnmarkedInv
  BY <1>2 DEF UnmarkedInv, OpenOnce, Unmarked
<1>5. HeldInv /\ ReleaseInv /\ JoinInv
  BY <1>2 DEF HeldInv, ReleaseInv, CloseOK, JoinInv, Holds, ByTeardown, ByCall
<1> QED
  BY <1>1, <1>2, <1>3, <1>4, <1>5 DEF RInv, NInv, FirstInv

\* Every step preserves it.
LEMMA StepRelease == RInv /\ [Next]_vars => RInv'
<1> SUFFICES ASSUME RInv, [Next]_vars PROVE RInv'
  OBVIOUS
<1>1. NInv'
  BY StepInv, StepNative DEF RInv, NInv
<1>2. ASSUME stops' = 0 PROVE FirstInv'
  BY <1>2, FirstStep, StepUnmarked, StepHeld, StepJoin DEF FirstInv
<1> QED
  BY <1>1, <1>2 DEF RInv

\* In the first process of a run every native session is closed at most once, by the
\* teardown or by the call whose creation or fork came too late for it (scope.go), and
\* when Run returns each of them was closed: none leaks, whatever fails or is cancelled.
THEOREM NativesAreReleased == Spec => [](stops = 0 => ReleasedOnce)
<1>1. RInv => (stops = 0 => ReleasedOnce)
  <2> SUFFICES ASSUME RInv, stops = 0, NEW n \in 1..Len(closes)
               PROVE  closes[n] <= 1 /\ (over => closes[n] = 1)
    BY DEF ReleasedOnce
  <2>0. FirstInv /\ NInv /\ SessionTypes /\ CallTypes /\ WorldTypes /\ n # NoNative
    BY DEF RInv, NInv, IInv, TypeOK, NoNative
  <2>1. CASE \E c \in Callers : Holds(c) /\ got[c] = n
    BY <2>0, <2>1 DEF FirstInv, HeldInv, JoinInv, Holds
  <2>2. CASE \E s \in Sessions : native[s] = n
    <3>1. PICK s \in Sessions : native[s] = n
      BY <2>2
    <3>2. closes[n] \in {0, 1}
      BY <2>0, <3>1 DEF FirstInv, ReleaseInv, CloseOK
    <3>3. ASSUME over PROVE closes[n] = 1
      <4>1. teardown = "done" /\ Unmarked = <<>> /\ \A c \in Callers : pc[c] = "idle"
        BY <2>0, <3>3 DEF FirstInv, JoinInv, Unmarked
      <4>2. closed[s] /\ ~ByTeardown(s) /\ ~ByCall(s)
        BY <2>0, <3>1, <4>1 DEF FirstInv, UnmarkedInv, OpenOnce, NInv, BornInv, UnbornOK,
           ByTeardown, ByCall
      <4> QED
        BY <2>0, <3>1, <4>2 DEF FirstInv, ReleaseInv, CloseOK
    <3> QED
      BY <3>2, <3>3
  <2> QED
    BY <2>0, <2>1, <2>2 DEF FirstInv, HeldInv
<1> QED
  BY <1>1, InitRelease, StepRelease, PTL DEF Spec

=============================================================================
