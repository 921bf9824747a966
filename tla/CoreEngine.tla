----------------------------- MODULE CoreEngine -----------------------------
(***************************************************************************)
(* OhMyPiCoreEngine (core/index.ts) over LocalSessionStore: sessions,      *)
(* settings, prompts and their streamed turns, and the life of the process *)
(* (start, init, kill).                                                    *)
(*                                                                         *)
(* A handler runs from one await to the next without interruption: each    *)
(* such segment is one action.  Handlers of several commands interleave,   *)
(* for dispatch() starts each command at once, whatever is still running.  *)
(*                                                                         *)
(* A turn is the life of one prompt command.  Its messages are             *)
(* <<turn, "user">> and <<turn, "assistant">>.  Session ids are numbered   *)
(* in creation order (the clock that names them is taken to advance        *)
(* between two creations).                                                 *)
(***************************************************************************)
EXTENDS LocalSessionStore, Sequences

CONSTANTS
  Turns,          \* prompts of a run: bound
  NoTurn,
  Tokens,         \* tokens of a reply
  MaxSessions,    \* bound: session ids are 1..MaxSessions
  MaxSaves        \* bound: setting commands whose saves overlap

ASSUME TokensIsPos       == Tokens \in Nat \ {0}
ASSUME MaxSessionsIsPos  == MaxSessions \in Nat \ {0}
ASSUME MaxSavesIsPos     == MaxSaves \in Nat \ {0}
ASSUME NoTurnIsNone      == NoTurn \notin Turns

VARIABLES
  state,      \* this.state: sessionId, settings, isStreaming
  messages,   \* this.messages
  ctl,        \* the turn whose AbortController this.abortController is
  pc,         \* turn -> where its handler is
  left,       \* turn -> tokens still to be streamed
  saves,      \* setting commands whose save has written the record only
  ready,      \* init() has finished
  nextId,     \* the next session id
  home,       \* history: turn -> the session its prompt was typed in
  cut         \* history: turns in flight when the conversation was replaced

engineVars == <<state, messages, ctl, pc, left, saves, ready, nextId, home, cut>>
vars       == <<storeVars, engineVars>>

SessionIds == 1..MaxSessions
Message    == Turns \X {"user", "assistant"}
User(t)    == <<t, "user">>
Reply(t)   == <<t, "assistant">>

Streaming  == {t \in Turns : pc[t] = "streaming"}
InFlight   == {t \in Turns : pc[t] \in {"streaming", "saving", "saved"}}

In(m, ms)      == \E i \in DOMAIN ms : ms[i] = m
Answered(t, ms) == \E i, j \in DOMAIN ms : i < j /\ ms[i] = User(t) /\ ms[j] = Reply(t)

-----------------------------------------------------------------------------
(***************************************************************************)
(* init().  The hosts (ui.js:35 and the tests) dispatch commands only when *)
(* it has finished, so nothing comes between its reads.                    *)
(***************************************************************************)
\* Mutant: the settings are restored, the conversation is not.
BootWithoutMessages ==
  /\ ~ready
  /\ ready' = TRUE
  /\ state' = IF active \in DOMAIN rec THEN Restored(active) ELSE state
  /\ UNCHANGED <<storeVars, messages, ctl, pc, left, saves, nextId, home, cut>>

Boot ==
  /\ ~ready
  /\ ready' = TRUE
  /\ IF active \in DOMAIN rec
     THEN /\ state' = Restored(active)
          /\ messages' = rec[active].messages
     ELSE UNCHANGED <<state, messages>>
  /\ UNCHANGED <<storeVars, ctl, pc, left, saves, nextId, home, cut>>

-----------------------------------------------------------------------------
(***************************************************************************)
(* Commands that change the state and save it.                             *)
(***************************************************************************)
\* The segment of a handler that mutates and calls persist().
Mutate(st, ms) ==
  \E ok \in WriteOutcomes :
    /\ saves < MaxSaves
    /\ state' = st
    /\ messages' = ms
    /\ WriteRecord(st.sid, Stored(st, ms), ok)
    /\ saves' = IF ok THEN saves + 1 ELSE saves

SetPrefs(p) ==
  /\ ready
  /\ Mutate([state EXCEPT !.prefs = p], messages)
  /\ UNCHANGED <<ctl, pc, left, ready, nextId, home, cut>>

SetTodos(td) ==
  /\ ready
  /\ Mutate([state EXCEPT !.todos = td], messages)
  /\ UNCHANGED <<ctl, pc, left, ready, nextId, home, cut>>

\* Mutant: only the record is written.
NewSessionRecordOnly ==
  /\ ready
  /\ nextId \in SessionIds
  /\ state' = [state EXCEPT !.sid = nextId, !.todos = NoTodos]
  /\ messages' = <<>>
  /\ WriteRecord(nextId, Stored(state', <<>>), TRUE)
  /\ nextId' = nextId + 1
  /\ cut' = cut \cup InFlight
  /\ UNCHANGED <<ctl, pc, left, saves, ready, home>>

\* The running turns, the streaming flag and the controller are left alone.
NewSession ==
  /\ ready
  /\ nextId \in SessionIds
  /\ Mutate([state EXCEPT !.sid = nextId, !.todos = NoTodos], <<>>)
  /\ nextId' = nextId + 1
  /\ cut' = cut \cup InFlight
  /\ UNCHANGED <<ctl, pc, left, ready, home>>

\* The second segment of such a command's save.
CommandSaved ==
  /\ saves > 0
  /\ \E ok \in WriteOutcomes : WriteActive(state.sid, ok)
  /\ saves' = saves - 1
  /\ UNCHANGED <<state, messages, ctl, pc, left, ready, nextId, home, cut>>

\* abort: the flag is cleared, and the controller's signal, which no one reads.
Abort ==
  /\ ready
  /\ ctl' = NoTurn
  /\ state' = [state EXCEPT !.streaming = FALSE]
  /\ UNCHANGED <<storeVars, messages, pc, left, saves, ready, nextId, home, cut>>

-----------------------------------------------------------------------------
(***************************************************************************)
(* prompt: handlePrompt().                                                 *)
(***************************************************************************)
Prompt(t) ==
  /\ ready
  /\ pc[t] = "free"
  /\ pc' = [pc EXCEPT ![t] = "streaming"]
  /\ left' = [left EXCEPT ![t] = Tokens]
  /\ home' = [home EXCEPT ![t] = state.sid]
  /\ messages' = Append(messages, User(t))
  /\ state' = [state EXCEPT !.streaming = TRUE]
  /\ ctl' = t
  /\ UNCHANGED <<storeVars, saves, ready, nextId, cut>>

\* A timer fires: one more token is emitted.
Token(t) ==
  /\ pc[t] = "streaming" /\ left[t] > 1
  /\ left' = [left EXCEPT ![t] = @ - 1]
  /\ UNCHANGED <<storeVars, state, messages, ctl, pc, saves, ready, nextId, home, cut>>

\* Mutant: the save comes before the reply is pushed.
FinishTurnSavesFirst(t) ==
  /\ pc[t] = "streaming" /\ left[t] = 1
  /\ left' = [left EXCEPT ![t] = 0]
  /\ messages' = Append(messages, Reply(t))
  /\ state' = [state EXCEPT !.streaming = FALSE]
  /\ ctl' = NoTurn
  /\ WriteRecord(state.sid, Stored(state', messages), TRUE)
  /\ pc' = [pc EXCEPT ![t] = "saving"]
  /\ UNCHANGED <<saves, ready, nextId, home, cut>>
\* The last token, the reply, and the finally block up to its persist().
FinishTurn(t) ==
  /\ pc[t] = "streaming" /\ left[t] = 1
  /\ left' = [left EXCEPT ![t] = 0]
  /\ ctl' = NoTurn
  /\ LET st == [state EXCEPT !.streaming = FALSE]
         ms == Append(messages, Reply(t))
     IN  /\ state' = st
         /\ messages' = ms
         /\ \E ok \in WriteOutcomes :
              /\ WriteRecord(st.sid, Stored(st, ms), ok)
              /\ pc' = [pc EXCEPT ![t] = IF ok THEN "saving" ELSE "failed"]
  /\ UNCHANGED <<saves, ready, nextId, home, cut>>

TurnSaved(t) ==
  /\ pc[t] = "saving"
  /\ \E ok \in WriteOutcomes :
       /\ WriteActive(state.sid, ok)
       /\ pc' = [pc EXCEPT ![t] = IF ok THEN "saved" ELSE "failed"]
  /\ UNCHANGED <<state, messages, ctl, left, saves, ready, nextId, home, cut>>

\* turn_end and the last state_update are emitted.
EndTurn(t) ==
  /\ pc[t] = "saved"
  /\ pc' = [pc EXCEPT ![t] = "ended"]
  /\ UNCHANGED <<storeVars, state, messages, ctl, left, saves, ready, nextId, home, cut>>

-----------------------------------------------------------------------------
\* The process is killed and started again: the constructor.
Restart ==
  /\ nextId \in SessionIds
  /\ state' = Fresh(nextId)
  /\ nextId' = nextId + 1
  /\ messages' = <<>>
  /\ ctl' = NoTurn
  /\ pc' = [t \in Turns |-> IF t \in InFlight THEN "lost" ELSE pc[t]]
  /\ saves' = 0
  /\ ready' = FALSE
  /\ UNCHANGED <<storeVars, left, home, cut>>

Init ==
  /\ StoreInit
  /\ state = Fresh(1)
  /\ nextId = 2
  /\ messages = <<>>
  /\ ctl = NoTurn
  /\ pc = [t \in Turns |-> "free"]
  /\ left = [t \in Turns |-> 0]
  /\ saves = 0
  /\ ready = FALSE
  /\ home = [t \in Turns |-> NoSession]
  /\ cut = {}

TurnStep(t) == Token(t) \/ FinishTurn(t) \/ TurnSaved(t) \/ EndTurn(t)

Next ==
  \/ Boot
  \/ \E p \in Prefs : SetPrefs(p)
  \/ \E td \in Todos : SetTodos(td)
  \/ NewSession
  \/ CommandSaved
  \/ Abort
  \/ \E t \in Turns : Prompt(t)
  \/ \E t \in Turns : Token(t)
  \/ \E t \in Turns : FinishTurn(t)
  \/ \E t \in Turns : TurnSaved(t)
  \/ \E t \in Turns : EndTurn(t)
  \/ Restart

Spec == Init /\ [][Next]_vars

-----------------------------------------------------------------------------
PcValues == {"free", "streaming", "saving", "saved", "ended", "failed", "lost"}

SessionRecord ==
  [prefs : Prefs, todos : Todos, streaming : BOOLEAN, messages : Seq(Message)]

TypeOK ==
  /\ DOMAIN rec \subseteq 1..(nextId - 1)
  /\ rec \in [DOMAIN rec -> SessionRecord]
  /\ active \in 1..(nextId - 1) \cup {NoSession}
  /\ nextId \in 2..(MaxSessions + 1)
  /\ state \in [sid : 1..(nextId - 1), prefs : Prefs, todos : Todos, streaming : BOOLEAN]
  /\ messages \in Seq(Message)
  /\ ctl \in Turns \cup {NoTurn}
  /\ pc \in [Turns -> PcValues]
  /\ left \in [Turns -> 0..Tokens]
  /\ saves \in 0..MaxSaves
  /\ ready \in BOOLEAN
  /\ home \in [Turns -> 1..(nextId - 1) \cup {NoSession}]
  /\ cut \subseteq Turns

\* The store as a durable log: one log of messages per recorded session.
Log == INSTANCE DurableLog WITH
         Sessions <- SessionIds, Messages <- Message,
         log <- [s \in DOMAIN rec |-> rec[s].messages]

\* storage.ts:93-98 keeps the promise of DurableLog: no save, crash or
\* restart loses or rewrites a stored message, or stores it in two sessions.
ImplementsDurableLog == Log!LogSpec

\* The active key never names a session that cannot be loaded: a restart
\* between the two writes of a save finds the session before or after it.
ActiveSessionLoads == active # NoSession => active \in DOMAIN rec

\* turn_end is a promise: the prompt and its reply are stored, in that order,
\* in the session of the prompt and survive any restart, unless the
\* conversation was replaced under the turn.
EndedTurnsAreStored ==
  \A t \in Turns :
    (pc[t] = "ended" /\ t \notin cut) =>
      /\ home[t] \in DOMAIN rec
      /\ Answered(t, rec[home[t]].messages)

\* Once no turn is streaming, nothing in memory is newer than the store,
\* whatever commands overlapped: a kill would lose nothing.
IdleIsStored ==
  (ready /\ Streaming = {} /\ ~StorageFails) =>
    IF state.sid \in DOMAIN rec
    THEN /\ rec[state.sid].messages = messages
         /\ rec[state.sid].prefs = state.prefs
         /\ rec[state.sid].todos = state.todos
    ELSE messages = <<>>

\* When every handler has finished, the session a restart would reopen is the
\* one on screen (unless nothing was saved in it yet).
RestartReopensCurrent ==
  (ready /\ InFlight = {} /\ saves = 0 /\ ~StorageFails /\ state.sid \in DOMAIN rec)
    => active = state.sid

\* The controller an abort would signal is that of a turn still streaming.
AbortTargetsLiveTurn == ctl # NoTurn => pc[ctl] = "streaming"

\* A prompt is stored in the session it was typed in and in no other.
PromptsStayHome ==
  \A s \in DOMAIN rec, t \in Turns :
    In(User(t), rec[s].messages) => s = home[t]

=============================================================================
