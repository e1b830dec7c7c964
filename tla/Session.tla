------------------------------ MODULE Session ------------------------------
(***************************************************************************)
(* Agent sessions inside one scope of a recorded run (session.go, scope.go,*)
(* run_recording.go, replay.go, run.go): creation, forks, turns, steering, *)
(* cancellation, teardown, the facts the run's journal gets on the way,    *)
(* and the re-entry of the same workflow body by a later process, which    *)
(* answers from those facts.                                               *)
(*                                                                         *)
(* Abstractions.  The scope is the run's root scope and has no children or *)
(* services.  The journal is what runstore.Run promises (module Journal):  *)
(* an Append is one step, and one that fails may or may not have left its  *)
(* fact.  Of the facts kept are those the engine reads back: intents,      *)
(* outcomes, native bindings, SessionClosed and RunEnded; a failure to     *)
(* record any other event is JournalFails.  A prompt and its answer are    *)
(* left out but for how the turn ended.  A call that is refused before it  *)
(* changes anything is not a step.  Interactive is a module of its own.    *)
(***************************************************************************)
EXTENDS Naturals, Sequences, FiniteSetsExt

CONSTANTS
  Callers,           \* goroutines of the workflow body
  Main,              \* the session NewSession makes
  Branches,          \* the sessions Fork may make from it
  GenerateAttempts,  \* generateAttempts
  ProtocolAttempts,  \* protocolAttempts
  Answers,           \* how a native turn may end
  CreateAnswers,     \* how CreateSession and the adapter's Fork may end
  Cancels,           \* what may be cancelled: a "turn", the "scope"
  Faults,            \* whether the run store may fail
  MaxGens,           \* bound: Generate calls on a session in one process
  MaxStops           \* bound: processes that die

Sessions == {Main} \cup Branches
NoNative == 0

AllAnswers == {"valid", "undecodable", "invalid", "error", "protocol", "cancelled", "uncertain"}
AllCreateAnswers == {"valid", "rejected", "failed", "uncertain"}

ASSUME AnswersAreKnown == Answers \subseteq AllAnswers /\ CreateAnswers \subseteq AllCreateAnswers
ASSUME FlagsAreKnown == Cancels \subseteq {"turn", "scope"} /\ Faults \in BOOLEAN
ASSUME AttemptsAreNat ==
  GenerateAttempts \in Nat /\ ProtocolAttempts \in Nat /\ MaxGens \in Nat /\ MaxStops \in Nat
ASSUME MainIsNoBranch == Main \notin Branches

VARIABLES
  \* what outlives the process
  journal,    \* the committed facts, in order
  \* the process: the run and its root scope
  loaded,     \* r.replay is the first `loaded` facts
  poison,     \* the store refuses appends
  recordErr,  \* r.recordErr # nil
  cancelled,  \* the scope's ctx is done
  ended,      \* scope.ended
  owned,      \* scope.sessions
  teardown,   \* stopOwnedWork: "no", "mark", "stop", "event" or "done"
  toClose,    \* the sessions it has still to close
  bodyDone,   \* the body has returned
  over,       \* Run has returned
  \* its sessions
  born,       \* "no", "adopted" (no caller has it yet), "yes", or "lost" by a failed Fork
  native, turns, gens, creates, createErr, running, turnID, closed,
  steering,   \* a Steer holds deliveryMu
  \* its goroutines
  pc, on,
  gen,        \* the ordinal of this Generate
  turn,       \* the node of this turn
  act,        \* the node of this creation or fork
  nat,        \* the native session this call works with
  got,        \* the native session a creation returned
  ans,        \* how the native call ended
  recorded,   \* its outcome was recorded
  verdict,    \* how this turn ended for Generate
  killed,     \* CancelTurn reached this turn
  invalid, protocol,  \* invalidAttempts, protocolFailures
  \* the adapter in this process
  used,       \* native sessions it was asked to make or to run a turn on
  closes,     \* how often each native session was closed
  \* history and bounds
  sent,       \* the native calls made: node, native session, process, circumstances
  returned,   \* the Generate calls that returned: with a result, or because the turn was stopped
  stops

storeVars   == <<journal, poison, recordErr>>
endVars     == <<ended, owned, teardown, toClose, bodyDone, over>>
scopeVars   == <<loaded, cancelled, endVars>>
counters    == <<turns, gens, creates>>
turnVars    == <<running, turnID>>
sessionVars == <<born, native, counters, createErr, turnVars, closed, steering>>
argVars     == <<on, gen, turn, act, nat>>
resultVars  == <<got, ans, recorded, verdict>>
tries       == <<killed, invalid, protocol>>
callVars    == <<pc, argVars, resultVars, tries>>
worldVars   == <<used, closes, sent, returned, stops>>
vars        == <<storeVars, scopeVars, sessionVars, callVars, worldVars>>

-----------------------------------------------------------------------------
(* Nodes and facts *)

TurnNode(s, g, n) == <<s, "turn", g, n>>
CreateNode(s, n)  == <<s, "create", 0, n>>
ForkNode(s)       == <<s, "fork", 0, 1>>
SessionNode(s)    == <<s, "session", 0, 0>>
RunNode           == <<Main, "run", 0, 0>>
NoNode            == <<Main, "none", 0, 0>>

Fact(n, kind, res, id) == [node |-> n, kind |-> kind, res |-> res, native |-> id]

\* The store keeps one such fact for a node.
Taken(f) ==
  /\ f.kind \in {"intent", "outcome", "native-binding"}
  /\ \E i \in 1..Len(journal) : journal[i].node = f.node /\ journal[i].kind = f.kind

\* One committed Append.  A failed one is kept as recordErr; it may have left
\* its fact behind, and then the store refuses every later one.
Record(f, ok) ==
  IF ok
  THEN /\ ~poison /\ ~Taken(f)
       /\ journal' = Append(journal, f)
       /\ UNCHANGED <<poison, recordErr>>
  ELSE /\ recordErr' = TRUE
       /\ \/ (poison \/ Taken(f)) /\ UNCHANGED <<journal, poison>>
          \/ /\ Faults /\ ~poison /\ ~Taken(f)
             /\ poison' = TRUE
             /\ journal' \in {journal, Append(journal, f)}

HasFact(n, kind) == \E i \in 1..loaded : journal[i].node = n /\ journal[i].kind = kind

\* Mutant of Prepare: the error of the Append is dropped.
PrepareIgnoringError(n, ok) ==
  /\ ok
  /\ IF recordErr \/ HasFact(n, "intent") THEN UNCHANGED storeVars
     ELSE \E done \in BOOLEAN : Record(Fact(n, "intent", "none", NoNative), done)

\* prepareAction: the intent is committed before the native call, unless an
\* earlier process committed it.
Prepare(n, ok) ==
  IF recordErr \/ HasFact(n, "intent")
  THEN ok = ~recordErr /\ UNCHANGED storeVars
  ELSE Record(Fact(n, "intent", "none", NoNative), ok)

\* finishAction: a node that already had an outcome gets a resolved one.
Outcome(n, res, id) ==
  Fact(n, IF HasFact(n, "outcome") THEN "resolved-outcome" ELSE "outcome", res, id)

-----------------------------------------------------------------------------
(* What an earlier process saved *)

\* The facts an earlier process saved are known by their places in the journal.
SavedOutcomes(n) ==
  {i \in 1..loaded : journal[i].node = n /\ journal[i].kind \in {"outcome", "resolved-outcome"}}

\* Outcomes recorded with an error text.
Failing(outs) == {i \in outs : journal[i].res \notin {"valid", "undecodable"}}

Latest(places) == journal[Max(places)]

\* Mutant of Saved: only a success counts.
SavedSuccess(n) == SavedOutcomes(n) # {} /\ Latest(SavedOutcomes(n)).res = "valid"

\* outcome: an unresolved one counts as none.
Saved(n) == SavedOutcomes(n) # {} /\ Latest(SavedOutcomes(n)).res # "uncertain"

SavedNative(n) == Latest(SavedOutcomes(n)).native

\* Mutant of SavedVerdict: a saved provider error is not recognised.
SavedVerdictPlain(n) ==
  LET outs == SavedOutcomes(n)
  IN  IF Failing(outs) # {} \/ Latest(outs).res = "undecodable" THEN "error" ELSE "ok"

\* Every outcome is unmarshalled into one envelope, and success writes no error
\* field: the last error text that was written is the one returned.  A saved
\* error is a plain one; only the provider error is known by its text.
SavedVerdict(n) ==
  LET outs  == SavedOutcomes(n)
      fails == Failing(outs)
  IN  IF fails # {}
      THEN IF Latest(fails).res = "protocol" THEN "protocol" ELSE "error"
      ELSE IF Latest(outs).res = "undecodable" THEN "error" ELSE "ok"

\* NewSession restores the last native binding saved for the session.
Bindings(s) == {i \in 1..loaded : journal[i].kind = "native-binding" /\ journal[i].node[1] = s}
SavedBinding(s) == IF Bindings(s) = {} THEN NoNative ELSE Latest(Bindings(s)).native

-----------------------------------------------------------------------------
(* NewSession and Fork *)

\* NewSession finds its scope alive.
NewSession(c) ==
  /\ pc[c] = "idle" /\ ~bodyDone /\ ~ended
  /\ born[Main] = "no" /\ \A d \in Callers : on[d] # Main
  /\ pc' = [pc EXCEPT ![c] = "adopt"]
  /\ on' = [on EXCEPT ![c] = Main]
  /\ nat' = [nat EXCEPT ![c] = NoNative]
  /\ UNCHANGED <<storeVars, scopeVars, sessionVars, gen, turn, act, resultVars, tries, worldVars>>

\* Fork finds its scope alive and its source usable.
Fork(c, b) ==
  /\ pc[c] = "idle" /\ ~bodyDone /\ ~ended
  /\ born[Main] = "yes" /\ ~closed[Main] /\ ~createErr[Main] /\ ~running[Main]
  /\ born[b] = "no" /\ \A d \in Callers : on[d] # b
  /\ pc' = [pc EXCEPT ![c] = "adopt"]
  /\ on' = [on EXCEPT ![c] = b]
  /\ nat' = [nat EXCEPT ![c] = native[Main]]
  /\ UNCHANGED <<storeVars, scopeVars, sessionVars, gen, turn, act, resultVars, tries, worldVars>>

\* scope.adopt: a scope that ended meanwhile takes the session as closed, and
\* reports a recording failure if it was already ended at the first look.
Adopt(c) ==
  LET s == on[c]
  IN  /\ pc[c] = "adopt"
      /\ born' = [born EXCEPT ![s] = "adopted"]
      /\ closed' = [closed EXCEPT ![s] = ended]
      /\ owned' = Append(owned, s)
      /\ recordErr' \in IF ended THEN {recordErr, TRUE} ELSE {recordErr}
      /\ pc' = [pc EXCEPT ![c] = IF s = Main THEN "restore" ELSE "fork"]
      /\ UNCHANGED <<journal, poison, loaded, cancelled, ended, teardown, toClose, bodyDone, over, native,
                     counters, createErr, turnVars, steering, argVars, resultVars, tries, worldVars>>

\* The rest of NewSession, without a lock: the native binding is restored.
Restore(c) ==
  LET s == on[c]
  IN  /\ pc[c] = "restore"
      /\ born' = [born EXCEPT ![s] = "yes"]
      /\ native' = [native EXCEPT ![s] = IF SavedBinding(s) # NoNative THEN SavedBinding(s) ELSE @]
      /\ pc' = [pc EXCEPT ![c] = "idle"]
      /\ UNCHANGED <<storeVars, scopeVars, counters, createErr, turnVars, closed, steering, argVars, resultVars,
                     tries, worldVars>>

\* The rest of Fork up to the native call: a source that never started has no
\* conversation to copy; an ended scope gives the fork no node.
ForkIntent(c, ok) ==
  LET s == on[c]
      fresh == nat[c] = NoNative /\ ~recordErr
  IN  /\ pc[c] = "fork"
      /\ act' = [act EXCEPT ![c] = ForkNode(s)]
      /\ IF recordErr \/ fresh THEN ok = fresh /\ UNCHANGED storeVars
         ELSE IF ended THEN ok = FALSE /\ recordErr' = TRUE /\ UNCHANGED <<journal, poison>>
         ELSE Prepare(ForkNode(s), ok)
      /\ born' = [born EXCEPT ![s] = IF ~ok THEN "lost" ELSE IF fresh THEN "yes" ELSE @]
      /\ pc' = [pc EXCEPT ![c] = IF ok /\ ~fresh THEN "admit" ELSE "idle"]
      /\ UNCHANGED <<scopeVars, native, counters, createErr, turnVars, closed, steering, on, gen, turn, nat,
                     resultVars, tries, worldVars>>

-----------------------------------------------------------------------------
(* Opening a native session: create, and the rest of Fork *)

IsFork(c) == act[c][2] = "fork"

\* Where a caller goes when opening failed: create ends its turn, Fork returns.
OpenFailed(c) == IF IsFork(c) THEN "idle" ELSE "return"

LoseFork(c, failed) == born' = IF failed /\ IsFork(c) THEN [born EXCEPT ![on[c]] = "lost"] ELSE born

\* create: a saved outcome answers; otherwise the intent is committed.  (usable
\* has refused a session with a createErr, and only create sets one.)
Create(c, ok) ==
  LET s    == on[c]
      n    == CreateNode(s, creates[s] + 1)
      done == Saved(n)
  IN  /\ pc[c] = "create"
      /\ creates' = [creates EXCEPT ![s] = @ + 1]
      /\ act' = [act EXCEPT ![c] = n]
      /\ IF done THEN ok = (SavedVerdict(n) = "ok") /\ UNCHANGED storeVars ELSE Prepare(n, ok)
      /\ got' = [got EXCEPT ![c] = IF done /\ ok THEN SavedNative(n) ELSE NoNative]
      /\ ans' = [ans EXCEPT ![c] = IF done THEN "saved" ELSE "none"]
      /\ verdict' = [verdict EXCEPT ![c] = "error"]
      /\ pc' = [pc EXCEPT ![c] = IF ~ok THEN "return" ELSE IF done THEN "adoptNative" ELSE "admit"]
      /\ UNCHANGED <<scopeVars, born, native, turns, gens, createErr, turnVars, closed, steering, on, gen, turn,
                     nat, recorded, tries, worldVars>>

\* admissionError, with the intent committed and before the native call.
OpenAdmit(c) ==
  LET admitted == ~cancelled /\ ~closed[on[c]]
  IN  /\ pc[c] = "admit"
      /\ pc' = [pc EXCEPT ![c] = IF admitted THEN "open" ELSE OpenFailed(c)]
      /\ LoseFork(c, ~admitted)
      /\ UNCHANGED <<storeVars, scopeVars, native, counters, createErr, turnVars, closed, steering, argVars,
                     resultVars, tries, worldVars>>

\* What is known of a native call when it is made.
Sent(n, id, reconstructing) ==
  [node |-> n, native |-> id, process |-> stops, reconstructing |-> reconstructing,
   settled |-> \E i \in 1..Len(journal) :
                 /\ journal[i].node = n /\ journal[i].res # "uncertain"
                 /\ journal[i].kind \in {"outcome", "resolved-outcome"},
   unknown |-> \E i \in 1..Len(journal) :
                 journal[i].node[1] = n[1] /\ journal[i].node[2] = "create" /\ journal[i].res = "uncertain",
   intended |-> \E i \in 1..Len(journal) : journal[i].node = n /\ journal[i].kind = "intent"]

\* The adapter's CreateSession or Fork is called.
OpenSend(c) ==
  /\ pc[c] = "open"
  /\ sent' = sent \cup {Sent(act[c], NoNative, FALSE)}
  /\ pc' = [pc EXCEPT ![c] = "opening"]
  /\ UNCHANGED <<storeVars, scopeVars, sessionVars, argVars, resultVars, tries, used, closes, returned, stops>>

\* It returns.  A failed or uncertain one may return a native session as well.
OpenReturn(c, a, id) ==
  /\ pc[c] = "opening" /\ a \in CreateAnswers
  /\ id \in {NoNative, Len(closes) + 1}
  /\ a = "valid" => id # NoNative
  /\ a = "rejected" => id = NoNative
  /\ ans' = [ans EXCEPT ![c] = a]
  /\ got' = [got EXCEPT ![c] = id]
  /\ closes' = IF id = NoNative THEN closes ELSE Append(closes, 0)
  /\ used' = IF id = NoNative THEN used ELSE used \cup {id}
  /\ pc' = [pc EXCEPT ![c] = "opened"]
  /\ UNCHANGED <<storeVars, scopeVars, sessionVars, argVars, recorded, verdict, tries, sent, returned, stops>>

\* finishAction.
OpenFinish(c, ok) ==
  /\ pc[c] = "opened"
  /\ Record(Outcome(act[c], ans[c], got[c]), ok)
  /\ recorded' = [recorded EXCEPT ![c] = ok]
  /\ pc' = [pc EXCEPT ![c] = "adoptNative"]
  /\ UNCHANGED <<scopeVars, sessionVars, argVars, got, ans, verdict, tries, worldVars>>

\* Mutant of AdoptNative: the mark of the teardown is not looked at.
AdoptNativeUnchecked(c) ==
  LET s == on[c]
  IN  /\ pc[c] = "adoptNative"
      /\ native' = [native EXCEPT ![s] = IF got[c] = NoNative THEN @ ELSE got[c]]
      /\ pc' = [pc EXCEPT ![c] = "bind"]
      /\ UNCHANGED <<storeVars, scopeVars, born, counters, createErr, turnVars, closed, steering, argVars,
                     resultVars, tries, worldVars>>

\* adoptNative, under the session's mutex: a teardown that already passed saw
\* no native session, so this call has to release it.
AdoptNative(c) ==
  LET s == on[c]
  IN  /\ pc[c] = "adoptNative"
      /\ native' = [native EXCEPT ![s] = IF got[c] = NoNative THEN @ ELSE got[c]]
      /\ pc' = [pc EXCEPT ![c] = IF got[c] # NoNative /\ closed[s] THEN "stopLate" ELSE "bind"]
      /\ UNCHANGED <<storeVars, scopeVars, born, counters, createErr, turnVars, closed, steering, argVars,
                     resultVars, tries, worldVars>>

\* stopNative: a session an earlier process closed is not closed again.
StopNative(s) ==
  closes' = IF HasFact(SessionNode(s), "closed") \/ native[s] = NoNative THEN closes
            ELSE [closes EXCEPT ![native[s]] = @ + 1]

\* Only an authoritative rejection lets create be tried again.
NoteCreateError(c) ==
  createErr' = [createErr EXCEPT ![on[c]] = @ \/ (~IsFork(c) /\ ans[c] \in {"failed", "uncertain"})]

StopLate(c) ==
  /\ pc[c] = "stopLate"
  /\ StopNative(on[c])
  /\ NoteCreateError(c)
  /\ LoseFork(c, TRUE)
  /\ pc' = [pc EXCEPT ![c] = OpenFailed(c)]
  /\ UNCHANGED <<storeVars, scopeVars, native, counters, turnVars, closed, steering, argVars, resultVars, tries,
                 used, sent, returned, stops>>

\* The end of create and of Fork: the native session is bound to the node.
Bind(c, ok) ==
  LET s    == on[c]
      open == ans[c] = "valid" /\ recorded[c]
  IN  /\ pc[c] = "bind"
      /\ IF open THEN Record(Fact(act[c], "native-binding", "none", got[c]), ok)
         ELSE ok = (ans[c] = "saved") /\ UNCHANGED storeVars
      /\ NoteCreateError(c)
      /\ born' = IF ~IsFork(c) THEN born ELSE [born EXCEPT ![s] = IF ok THEN "yes" ELSE "lost"]
      /\ nat' = [nat EXCEPT ![c] = native[s]]
      /\ pc' = [pc EXCEPT ![c] = IF ~ok THEN OpenFailed(c) ELSE IF IsFork(c) THEN "idle" ELSE "prompt"]
      /\ UNCHANGED <<scopeVars, native, counters, turnVars, closed, steering, on, gen, turn, act, resultVars,
                     tries, worldVars>>

-----------------------------------------------------------------------------
(* Generate and its turns *)

Refusal(s) == closed[s] \/ createErr[s] \/ running[s]

\* Generate on a session that is reachable.
Generate(c, s) ==
  /\ pc[c] = "idle" /\ ~bodyDone
  /\ born[s] = "yes" /\ ~ended /\ ~closed[s] /\ gens[s] < MaxGens
  /\ gens' = [gens EXCEPT ![s] = @ + 1]
  /\ on' = [on EXCEPT ![c] = s]
  /\ gen' = [gen EXCEPT ![c] = gens[s] + 1]
  /\ invalid' = [invalid EXCEPT ![c] = 0]
  /\ protocol' = [protocol EXCEPT ![c] = 0]
  /\ pc' = [pc EXCEPT ![c] = IF recordErr THEN "idle" ELSE "turn"]
  /\ UNCHANGED <<storeVars, scopeVars, born, native, turns, creates, createErr, turnVars, closed, steering,
                 turn, act, nat, resultVars, killed, worldVars>>

\* Generate returns; what it returned is kept unless the recording failed, the
\* run was being cancelled or the outcome is still unresolved.
Returns(c, v) ==
  returned' = IF recordErr \/ cancelled \/ v = "uncertain" THEN returned
              ELSE returned \cup {[session |-> on[c], gen |-> gen[c], ok |-> v = "ok", stopped |-> v = "cancelled"]}

\* turn is refused, or stops at once because the recording failed.
TurnRefused(c) ==
  LET s == on[c]
  IN  /\ pc[c] = "turn" /\ (Refusal(s) \/ recordErr)
      /\ turns' = [turns EXCEPT ![s] = IF Refusal(s) THEN @ ELSE @ + 1]
      /\ turnID' = [turnID EXCEPT ![s] = IF Refusal(s) THEN @ ELSE 0]
      /\ Returns(c, "error")
      /\ pc' = [pc EXCEPT ![c] = "idle"]
      /\ UNCHANGED <<storeVars, scopeVars, born, native, gens, creates, createErr, running, closed, steering,
                     argVars, resultVars, tries, used, closes, sent, stops>>

\* Mutant of StartTurn: a native session is created for every turn.
StartTurnFresh(c) ==
  LET s == on[c]
      n == TurnNode(s, gen[c], turns[s] + 1)
  IN  /\ pc[c] = "turn" /\ ~Refusal(s) /\ ~recordErr
      /\ running' = [running EXCEPT ![s] = TRUE]
      /\ turns' = [turns EXCEPT ![s] = @ + 1]
      /\ turnID' = [turnID EXCEPT ![s] = turns[s] + 1]
      /\ turn' = [turn EXCEPT ![c] = n]
      /\ nat' = [nat EXCEPT ![c] = native[s]]
      /\ killed' = [killed EXCEPT ![c] = FALSE]
      /\ verdict' = [verdict EXCEPT ![c] = IF Saved(n) THEN SavedVerdict(n) ELSE "error"]
      /\ pc' = [pc EXCEPT ![c] = IF Saved(n) THEN "return" ELSE "create"]
      /\ UNCHANGED <<storeVars, scopeVars, born, native, gens, creates, createErr, closed, steering, on, gen,
                     act, got, ans, recorded, invalid, protocol, worldVars>>

\* turn starts: a saved outcome answers, a session without a native one is
\* created first.
StartTurn(c) ==
  LET s == on[c]
      n == TurnNode(s, gen[c], turns[s] + 1)
  IN  /\ pc[c] = "turn" /\ ~Refusal(s) /\ ~recordErr
      /\ running' = [running EXCEPT ![s] = TRUE]
      /\ turns' = [turns EXCEPT ![s] = @ + 1]
      /\ turnID' = [turnID EXCEPT ![s] = turns[s] + 1]
      /\ turn' = [turn EXCEPT ![c] = n]
      /\ nat' = [nat EXCEPT ![c] = native[s]]
      /\ killed' = [killed EXCEPT ![c] = FALSE]
      /\ verdict' = [verdict EXCEPT ![c] = IF Saved(n) THEN SavedVerdict(n) ELSE "error"]
      /\ pc' = [pc EXCEPT ![c] = IF Saved(n) THEN "return"
                                 ELSE IF native[s] = NoNative THEN "create" ELSE "prompt"]
      /\ UNCHANGED <<storeVars, scopeVars, born, native, gens, creates, createErr, closed, steering, on, gen,
                     act, got, ans, recorded, invalid, protocol, worldVars>>

\* The turn enters the run's table and commits its intent; one that cannot
\* goes on as a turn that failed.  A scope that ended meanwhile stops it.
TurnIntent(c, ok) ==
  /\ pc[c] = "prompt"
  /\ IF ended THEN ~ok /\ UNCHANGED storeVars ELSE Prepare(turn[c], ok)
  /\ verdict' = [verdict EXCEPT ![c] = "error"]
  /\ ans' = [ans EXCEPT ![c] = "error"]
  /\ pc' = [pc EXCEPT ![c] = IF ended THEN "return" ELSE IF ok THEN "turnAdmit" ELSE "settle"]
  /\ UNCHANGED <<scopeVars, sessionVars, argVars, got, recorded, tries, worldVars>>

TurnAdmit(c) ==
  LET stopped == cancelled \/ killed[c]
  IN  /\ pc[c] = "turnAdmit"
      /\ ans' = [ans EXCEPT ![c] = IF stopped THEN "cancelled" ELSE "error"]
      /\ pc' = [pc EXCEPT ![c] = IF stopped \/ closed[on[c]] THEN "settle" ELSE "send"]
      /\ UNCHANGED <<storeVars, scopeVars, sessionVars, argVars, got, recorded, verdict, tries, worldVars>>

\* Mutant of TurnSend: the flag is taken from the outcome.
TurnSendLateFlag(c) ==
  /\ pc[c] = "send"
  /\ sent' = sent \cup {Sent(turn[c], nat[c], HasFact(turn[c], "outcome"))}
  /\ used' = used \cup {nat[c]}
  /\ pc' = [pc EXCEPT ![c] = "native"]
  /\ UNCHANGED <<storeVars, scopeVars, sessionVars, argVars, resultVars, tries, closes, returned, stops>>

\* RunTurn is called; it is told when an earlier process may have called it.
TurnSend(c) ==
  /\ pc[c] = "send"
  /\ sent' = sent \cup {Sent(turn[c], nat[c], HasFact(turn[c], "intent"))}
  /\ used' = used \cup {nat[c]}
  /\ pc' = [pc EXCEPT ![c] = "native"]
  /\ UNCHANGED <<storeVars, scopeVars, sessionVars, argVars, resultVars, tries, closes, returned, stops>>

\* RunTurn returns; a stopped one may return that it was cancelled.
TurnReturn(c, a) ==
  /\ pc[c] = "native"
  /\ a \in Answers \/ (a = "cancelled" /\ (cancelled \/ killed[c]))
  /\ ans' = [ans EXCEPT ![c] = a]
  /\ pc' = [pc EXCEPT ![c] = "settle"]
  /\ UNCHANGED <<storeVars, scopeVars, sessionVars, argVars, got, recorded, verdict, tries, worldVars>>

\* Mutant of Settle: without deliveryMu.
SettleUnlocked(c) ==
  /\ pc[c] = "settle"
  /\ running' = [running EXCEPT ![on[c]] = FALSE]
  /\ pc' = [pc EXCEPT ![c] = "finish"]
  /\ UNCHANGED <<storeVars, scopeVars, born, native, counters, createErr, turnID, closed, steering, argVars,
                 resultVars, tries, worldVars>>

\* Under deliveryMu: after this a Steer finds the session idle.
Settle(c) ==
  /\ pc[c] = "settle" /\ ~steering[on[c]]
  /\ running' = [running EXCEPT ![on[c]] = FALSE]
  /\ pc' = [pc EXCEPT ![c] = "finish"]
  /\ UNCHANGED <<storeVars, scopeVars, born, native, counters, createErr, turnID, closed, steering, argVars,
                 resultVars, tries, worldVars>>

\* How the turn ended for Generate: a stop outweighs any answer but one that
\* is unresolved.
Verdict(a, stopped) ==
  IF a = "uncertain" THEN "uncertain"
  ELSE IF stopped \/ a = "cancelled" THEN "cancelled"
  ELSE IF a \in {"invalid", "undecodable"} THEN "invalid"
  ELSE IF a = "valid" THEN "ok" ELSE a

\* The native result is recorded, whatever the turn is then said to be.
TurnFinish(c, ok) ==
  /\ pc[c] = "finish"
  /\ Record(Outcome(turn[c], ans[c], NoNative), ok)
  /\ verdict' = [verdict EXCEPT ![c] = Verdict(ans[c], cancelled \/ killed[c])]
  /\ pc' = [pc EXCEPT ![c] = "return"]
  /\ UNCHANGED <<scopeVars, sessionVars, argVars, got, ans, recorded, tries, worldVars>>

\* Generate asks again after an invalid answer and after a provider error.
Again(c) ==
  \/ verdict[c] = "invalid" /\ invalid[c] + 1 < GenerateAttempts
  \/ verdict[c] = "protocol" /\ protocol[c] + 1 < ProtocolAttempts /\ ~cancelled

\* turn's deferred exit, under deliveryMu, and what Generate does next.
EndTurn(c) ==
  LET s == on[c]
  IN  /\ pc[c] = "return" /\ ~steering[s]
      /\ running' = [running EXCEPT ![s] = FALSE]
      /\ turnID' = [turnID EXCEPT ![s] = 0]
      /\ invalid' = [invalid EXCEPT ![c] = IF verdict[c] = "invalid" THEN @ + 1 ELSE @]
      /\ protocol' = [protocol EXCEPT ![c] = IF verdict[c] = "protocol" THEN @ + 1 ELSE @]
      /\ pc' = [pc EXCEPT ![c] = IF Again(c) THEN "turn" ELSE "idle"]
      /\ IF Again(c) THEN UNCHANGED returned ELSE Returns(c, verdict[c])
      /\ UNCHANGED <<storeVars, scopeVars, born, native, counters, createErr, closed, steering, argVars,
                     resultVars, killed, used, closes, sent, stops>>

-----------------------------------------------------------------------------
(* Steer and the operator's controls *)

\* A Steer that finds a running turn holds deliveryMu until the adapter took
\* or dropped the message; one that finds none is dropped.
Steer(s) ==
  /\ born[s] = "yes" /\ ~steering[s] /\ running[s] /\ native[s] # NoNative
  /\ steering' = [steering EXCEPT ![s] = TRUE]
  /\ UNCHANGED <<storeVars, scopeVars, born, native, counters, createErr, turnVars, closed, callVars,
                 worldVars>>

\* Mutant of SteerEnd: deliveryMu stays locked when the turn ended first.
SteerEndIfRunning(s) ==
  /\ steering[s] /\ \E c \in Callers : on[c] = s /\ pc[c] = "native"
  /\ steering' = [steering EXCEPT ![s] = FALSE]
  /\ UNCHANGED <<storeVars, scopeVars, born, native, counters, createErr, turnVars, closed, callVars,
                 worldVars>>

SteerEnd(s) ==
  /\ steering[s]
  /\ steering' = [steering EXCEPT ![s] = FALSE]
  /\ UNCHANGED <<storeVars, scopeVars, born, native, counters, createErr, turnVars, closed, callVars,
                 worldVars>>

\* A turn is in the run's table from before its intent until its outcome.
Listed(c) == pc[c] \in {"turnAdmit", "send", "native", "settle", "finish"}

CancelTurn(c) ==
  /\ "turn" \in Cancels /\ Listed(c) /\ ~killed[c]
  /\ killed' = [killed EXCEPT ![c] = TRUE]
  /\ UNCHANGED <<storeVars, scopeVars, sessionVars, pc, argVars, resultVars, invalid, protocol, worldVars>>

\* The root scope's ctx is cancelled: CancelScope, or the caller's own ctx.
Cancel ==
  /\ "scope" \in Cancels /\ ~cancelled
  /\ cancelled' = TRUE
  /\ UNCHANGED <<storeVars, loaded, endVars, sessionVars, callVars, worldVars>>

\* An Append of some other event fails.
JournalFails ==
  /\ Faults /\ ~poison /\ ~over
  /\ poison' = TRUE /\ recordErr' = TRUE
  /\ UNCHANGED <<journal, scopeVars, sessionVars, callVars, worldVars>>

-----------------------------------------------------------------------------
(* The end of the scope and of the run *)

\* The body returns once the goroutines it started are joined.
BodyReturn ==
  /\ ~bodyDone /\ \A c \in Callers : pc[c] = "idle"
  /\ bodyDone' = TRUE
  /\ UNCHANGED <<storeVars, loaded, cancelled, ended, owned, teardown, toClose, over, sessionVars, callVars,
                 worldVars>>

\* stopOwnedWork runs once, for whichever comes first: the end of the ctx or
\* the return of the body.
EndScope ==
  /\ teardown = "no" /\ (cancelled \/ bodyDone)
  /\ ended' = TRUE /\ cancelled' = TRUE
  /\ toClose' = owned /\ owned' = <<>>
  /\ teardown' = "mark"
  /\ UNCHANGED <<storeVars, loaded, bodyDone, over, sessionVars, callVars, worldVars>>

\* Mutant of CloseMark: the native session is only looked up when it is closed.
CloseMarkLateLook ==
  /\ teardown = "mark"
  /\ IF toClose = <<>> THEN teardown' = "done" /\ UNCHANGED closed
     ELSE closed' = [closed EXCEPT ![Head(toClose)] = TRUE] /\ teardown' = "stop"
  /\ UNCHANGED <<storeVars, loaded, cancelled, ended, owned, toClose, bodyDone, over, born, native, counters,
                 createErr, turnVars, steering, callVars, worldVars>>

\* The next session is marked closed, under its mutex.
CloseMark ==
  /\ teardown = "mark"
  /\ IF toClose = <<>> THEN teardown' = "done" /\ UNCHANGED closed
     ELSE /\ closed' = [closed EXCEPT ![Head(toClose)] = TRUE]
          /\ teardown' = IF native[Head(toClose)] # NoNative THEN "stop" ELSE "event"
  /\ UNCHANGED <<storeVars, loaded, cancelled, ended, owned, toClose, bodyDone, over, born, native, counters,
                 createErr, turnVars, steering, callVars, worldVars>>

CloseStop ==
  /\ teardown = "stop"
  /\ StopNative(Head(toClose))
  /\ teardown' = "event"
  /\ UNCHANGED <<storeVars, loaded, cancelled, ended, owned, toClose, bodyDone, over, sessionVars, callVars,
                 used, sent, returned, stops>>

\* SessionClosed is recorded unless an earlier process recorded it.
CloseEvent(ok) ==
  LET n == SessionNode(Head(toClose))
  IN  /\ teardown = "event"
      /\ IF HasFact(n, "closed") THEN ok /\ UNCHANGED storeVars ELSE Record(Fact(n, "closed", "none", NoNative), ok)
      /\ toClose' = Tail(toClose)
      /\ teardown' = "mark"
      /\ UNCHANGED <<loaded, cancelled, ended, owned, bodyDone, over, sessionVars, callVars, worldVars>>

\* Run records RunEnded and returns.
RunEnds(ok) ==
  /\ bodyDone /\ teardown = "done" /\ ~over
  /\ Record(Fact(RunNode, "ended", "none", NoNative), ok)
  /\ over' = TRUE
  /\ UNCHANGED <<loaded, cancelled, ended, owned, teardown, toClose, bodyDone, sessionVars, callVars,
                 worldVars>>

Stopped == over /\ UNCHANGED vars

-----------------------------------------------------------------------------
(* Re-entry *)

Completed == \E i \in 1..Len(journal) : journal[i].kind = "ended"

All(S, v) == [x \in S |-> v]

\* The process dies, and another one enters the same body with the same run
\* ID.  A run whose end was recorded is refused.
Reenter ==
  /\ stops < MaxStops /\ ~Completed
  /\ stops' = stops + 1
  /\ loaded' = Len(journal)
  /\ poison' = FALSE /\ recordErr' = FALSE /\ cancelled' = FALSE /\ ended' = FALSE
  /\ owned' = <<>> /\ teardown' = "no" /\ toClose' = <<>> /\ bodyDone' = FALSE /\ over' = FALSE
  /\ born' = All(Sessions, "no") /\ native' = All(Sessions, NoNative) /\ closed' = All(Sessions, FALSE)
  /\ turns' = All(Sessions, 0) /\ gens' = All(Sessions, 0) /\ creates' = All(Sessions, 0)
  /\ createErr' = All(Sessions, FALSE) /\ running' = All(Sessions, FALSE)
  /\ turnID' = All(Sessions, 0) /\ steering' = All(Sessions, FALSE)
  /\ pc' = All(Callers, "idle") /\ on' = All(Callers, "none") /\ gen' = All(Callers, 0)
  /\ turn' = All(Callers, NoNode) /\ act' = All(Callers, NoNode)
  /\ nat' = All(Callers, NoNative) /\ got' = All(Callers, NoNative) /\ ans' = All(Callers, "none")
  /\ recorded' = All(Callers, FALSE) /\ verdict' = All(Callers, "none") /\ killed' = All(Callers, FALSE)
  /\ invalid' = All(Callers, 0) /\ protocol' = All(Callers, 0) /\ used' = {}
  /\ closes' = [i \in 1..Len(closes) |-> 0]
  /\ UNCHANGED <<journal, sent, returned>>

-----------------------------------------------------------------------------
Init ==
  /\ journal = <<>> /\ loaded = 0 /\ closes = <<>>
  /\ poison = FALSE /\ recordErr = FALSE /\ cancelled = FALSE /\ ended = FALSE
  /\ owned = <<>> /\ teardown = "no" /\ toClose = <<>> /\ bodyDone = FALSE /\ over = FALSE
  /\ born = All(Sessions, "no") /\ native = All(Sessions, NoNative) /\ closed = All(Sessions, FALSE)
  /\ turns = All(Sessions, 0) /\ gens = All(Sessions, 0) /\ creates = All(Sessions, 0)
  /\ createErr = All(Sessions, FALSE) /\ running = All(Sessions, FALSE)
  /\ turnID = All(Sessions, 0) /\ steering = All(Sessions, FALSE)
  /\ pc = All(Callers, "idle") /\ on = All(Callers, "none") /\ gen = All(Callers, 0)
  /\ turn = All(Callers, NoNode) /\ act = All(Callers, NoNode)
  /\ nat = All(Callers, NoNative) /\ got = All(Callers, NoNative) /\ ans = All(Callers, "none")
  /\ recorded = All(Callers, FALSE) /\ verdict = All(Callers, "none") /\ killed = All(Callers, FALSE)
  /\ invalid = All(Callers, 0) /\ protocol = All(Callers, 0) /\ used = {}
  /\ sent = {} /\ returned = {} /\ stops = 0

OpenStep(c) ==
  \/ \E ok \in BOOLEAN : ForkIntent(c, ok) \/ Create(c, ok) \/ OpenFinish(c, ok) \/ Bind(c, ok)
  \/ Adopt(c) \/ Restore(c) \/ OpenAdmit(c) \/ OpenSend(c) \/ AdoptNative(c) \/ StopLate(c)
  \/ \E a \in CreateAnswers, id \in {NoNative, Len(closes) + 1} : OpenReturn(c, a, id)

TurnStep(c) ==
  \/ TurnRefused(c) \/ StartTurn(c) \/ TurnAdmit(c) \/ TurnSend(c) \/ Settle(c) \/ EndTurn(c)
  \/ \E ok \in BOOLEAN : TurnIntent(c, ok) \/ TurnFinish(c, ok)
  \/ \E a \in AllAnswers : TurnReturn(c, a)

CallerStep(c) == OpenStep(c) \/ TurnStep(c)

BodyCall(c) ==
  \/ NewSession(c)
  \/ \E b \in Branches : Fork(c, b)
  \/ \E s \in Sessions : Generate(c, s)

ScopeStep == EndScope \/ CloseMark \/ CloseStop \/ \E ok \in BOOLEAN : CloseEvent(ok) \/ RunEnds(ok)

Next ==
  \/ \E c \in Callers : CallerStep(c) \/ BodyCall(c) \/ CancelTurn(c)
  \/ \E s \in Sessions : Steer(s) \/ SteerEnd(s)
  \/ Cancel \/ JournalFails \/ BodyReturn \/ ScopeStep \/ Reenter \/ Stopped

Spec == Init /\ [][Next]_vars

\* A call of the workflow goes on, except that a native call is only certain to
\* return once its ctx is done (HarnessAdapter); Steer's native call returns.
\* Steers may come without end, but Go's mutexes starve no waiter.
Goes(c) == CallerStep(c) /\ (pc[c] \in {"native", "opening"} => cancelled)
Fairness ==
  /\ \A c \in Callers : WF_vars(Goes(c)) /\ SF_vars(Settle(c)) /\ SF_vars(EndTurn(c))
  /\ \A s \in Sessions : WF_vars(SteerEnd(s))
  /\ WF_vars(BodyReturn) /\ WF_vars(ScopeStep)

FairSpec == Spec /\ Fairness

-----------------------------------------------------------------------------
(* Properties *)

Nodes == Sessions \X {"turn", "create", "fork", "session", "run", "none"} \X Nat \X Nat
Verdicts == {"none", "ok", "uncertain", "cancelled", "invalid", "error", "protocol"}

Facts ==
  [node : Nodes, kind : {"intent", "outcome", "resolved-outcome", "native-binding", "closed", "ended"},
   res : AllAnswers \cup AllCreateAnswers \cup {"none"}, native : Nat]

StoreTypes ==
  /\ journal \in Seq(Facts)
  /\ loaded \in 0..Len(journal)
  /\ poison \in BOOLEAN /\ recordErr \in BOOLEAN

ScopeTypes ==
  /\ cancelled \in BOOLEAN /\ ended \in BOOLEAN /\ bodyDone \in BOOLEAN /\ over \in BOOLEAN
  /\ owned \in Seq(Sessions) /\ toClose \in Seq(Sessions)
  /\ teardown \in {"no", "mark", "stop", "event", "done"}

SessionTypes ==
  /\ born \in [Sessions -> {"no", "adopted", "yes", "lost"}]
  /\ native \in [Sessions -> 0..Len(closes)]
  /\ turns \in [Sessions -> Nat] /\ gens \in [Sessions -> Nat] /\ creates \in [Sessions -> Nat]
  /\ turnID \in [Sessions -> Nat]
  /\ createErr \in [Sessions -> BOOLEAN] /\ running \in [Sessions -> BOOLEAN]
  /\ closed \in [Sessions -> BOOLEAN] /\ steering \in [Sessions -> BOOLEAN]

CallTypes ==
  /\ pc \in [Callers -> {"idle", "adopt", "restore", "fork", "create", "admit", "open", "opening", "opened",
                         "adoptNative", "stopLate", "bind", "turn", "prompt", "turnAdmit", "send", "native",
                         "settle", "finish", "return"}]
  /\ on \in [Callers -> Sessions \cup {"none"}]
  /\ gen \in [Callers -> Nat] /\ invalid \in [Callers -> Nat] /\ protocol \in [Callers -> Nat]
  /\ turn \in [Callers -> Nodes] /\ act \in [Callers -> Nodes]
  /\ nat \in [Callers -> 0..Len(closes)] /\ got \in [Callers -> 0..Len(closes)]
  /\ ans \in [Callers -> AllAnswers \cup AllCreateAnswers \cup {"none", "saved"}]
  /\ verdict \in [Callers -> Verdicts]
  /\ recorded \in [Callers -> BOOLEAN] /\ killed \in [Callers -> BOOLEAN]

WorldTypes == used \subseteq 1..Len(closes) /\ closes \in Seq(Nat) /\ stops \in Nat

\* The state keeps its types; native sessions are the ones the adapter made.
TypeOK == StoreTypes /\ ScopeTypes /\ SessionTypes /\ CallTypes /\ WorldTypes

\* Whatever fails or is cancelled on the way, no native session is made and no
\* native turn is run whose intent is not in the journal: a later process can
\* tell every call that may have happened.
IntentFirst == \A m \in sent : m.intended

\* A create or turn whose outcome is in the journal is never called again, in
\* any later process (specs/durable-interactive.md, C2).
CompletedNotRepeated == \A m \in sent : m.node[2] # "fork" => ~m.settled

\* The same of a fork.
ForkNotRepeated == \A m \in sent : m.node[2] = "fork" => ~m.settled

\* A turn an earlier process may have run is only run again with the adapter
\* told that it is reconstructing.
RepeatIsAnnounced ==
  \A m, p \in sent :
    (m.node = p.node /\ p.process < m.process /\ m.node[2] = "turn") => m.reconstructing

\* All the turns of a session, in every process, go to one native session, so
\* the conversation survives the restarts.
ResumesConversation ==
  \A m, p \in sent :
    (m.node[2] = "turn" /\ p.node[2] = "turn" /\ m.node[1] = p.node[1]) => m.native = p.native

\* What the journal does not lead a later process through again: an answer that
\* is asked again as invalid is saved as a plain error, an unresolved outcome
\* leaves its error in the resolved one, only a successful creation is bound,
\* and a stopped turn is saved with the answer it had.
Astray(s, g) ==
  \/ \E i \in 1..Len(journal) :
       LET n == journal[i].node
       IN  /\ n[1] = s
           /\ \/ n[2] = "turn" /\ n[3] <= g /\ journal[i].res \in {"invalid", "undecodable", "uncertain"}
              \/ n[2] = "create" /\ journal[i].res \notin {"valid", "none"}
  \/ \E r \in returned : r.session = s /\ r.gen <= g /\ r.stopped

\* When the body is re-entered, a Generate returns a result exactly if it did
\* before, with its failures and its retried provider errors, wherever the
\* process died, as long as no Generate of the session up to it went astray:
\* its attempts have to be numbered and answered as they were, and those before
\* it too.
ReplayAgrees ==
  \A r, q \in returned :
    (r.session = q.session /\ r.gen = q.gen /\ ~Astray(r.session, r.gen)) => r.ok = q.ok

\* "Completed library calls reuse recorded results" (skills/gimbal-runs/SKILL.md,
\* line 318): a Generate that returned a result does not fail when the body is
\* re-entered.
ResultsReused ==
  [][\A q \in returned' \ returned, r \in returned :
       (r.session = q.session /\ r.gen = q.gen /\ r.ok) => q.ok]_vars

\* Once creation is uncertain, the session creates nothing and runs nothing
\* more.
UncertainCreationHolds == \A m \in sent : m.node[2] \in {"create", "turn"} => ~m.unknown

\* When Run returns, the adapter was told to close every native session it made
\* or ran a turn on, also one whose creation or fork returned after the teardown,
\* and a late admission and the teardown never both close one.
ReleasedOnce ==
  \A n \in 1..Len(closes) : closes[n] <= 1 /\ (over /\ n \in used => closes[n] = 1)

\* A turn does not settle, and its outcome is not recorded, while a steer into
\* it is on its way.
SteerSettlesFirst ==
  \A s \in Sessions : steering[s] =>
    \E c \in Callers :
      /\ on[c] = s /\ turn[c][4] = turnID[s]
      /\ pc[c] \notin {"idle", "turn", "finish"}

\* A session runs one native turn at a time (usable refuses a second one).
OneTurnAtATime == \A c, d \in Callers : (pc[c] = "native" /\ pc[d] = "native" /\ on[c] = on[d]) => c = d

\* A run that is cancelled ends: its calls return, its sessions are closed and
\* Run returns.
CancelledRunEnds == cancelled ~> over

=============================================================================
