--------------------------- MODULE RpcDispatcher ---------------------------
(***************************************************************************)
(* RpcDispatcher (core/rpc/dispatcher.ts) running the turns of             *)
(* MobileAgentLoop (core/agent/loop.ts) over LocalSessionStore.            *)
(*                                                                         *)
(* Unlike CoreEngine, a turn here keeps the message array it was given:    *)
(* new_session gives the dispatcher another array and leaves the turn its  *)
(* own.  An array belongs to one session for as long as the process lives, *)
(* so arrays are named by session ids.                                     *)
(*                                                                         *)
(* A turn calls the model up to MaxIterations times.  Each call streams    *)
(* tokens and ends with a reply, a reply that calls tools, or an error, as *)
(* the stream client's interface allows (ai/stream.ts:27-38); message      *)
(* <<t, n>> is the n-th message of turn t, its prompt being the 0-th.      *)
(***************************************************************************)
EXTENDS LocalSessionStore, Sequences

CONSTANTS
  Turns,          \* prompts of a run: bound
  NoTurn,
  Tokens,         \* tokens of a reply
  MaxIterations,  \* loop.ts:183
  MaxCalls,       \* bound: tool calls of a reply
  Results,        \* how a model call may end
  MaxSessions,    \* bound: session ids are 1..MaxSessions
  MaxSaves        \* bound: setting commands whose saves overlap

ASSUME TokensIsPos        == Tokens \in Nat \ {0}
ASSUME MaxIterationsIsPos == MaxIterations \in Nat \ {0}
ASSUME MaxCallsIsPos      == MaxCalls \in Nat \ {0}
ASSUME ResultsAreKnown    == Results \subseteq {"text", "tools", "throws"}
ASSUME MaxSessionsIsPos   == MaxSessions \in Nat \ {0}
ASSUME MaxSavesIsPos      == MaxSaves \in Nat \ {0}
ASSUME NoTurnIsNone       == NoTurn \notin Turns

VARIABLES
  state,      \* this.state; this.messages is chat[state.sid]
  chat,       \* session id -> the message array made for it
  ctl,        \* the turn whose AbortController this.abortController is
  aborted,    \* the running turns whose signal has fired
  pc,         \* turn -> where its handler is
  left,       \* turn -> tokens the model has still to stream
  iter,       \* turn -> turnIterations
  calls,      \* turn -> tool calls of the last reply still to be run
  sent,       \* turn -> the messages it has pushed
  saves,      \* setting commands whose save has written the record only
  ready,      \* init() has finished
  nextId,     \* the next session id
  home,       \* turn -> the session whose array it holds
  cut         \* history: turns running when their session was left

turnVars == <<pc, left, iter, calls, sent, home>>
rpcVars  == <<state, chat, ctl, aborted, turnVars, saves, ready, nextId, cut>>
vars     == <<storeVars, rpcVars>>

SessionIds == 1..MaxSessions
Message    == Turns \X Nat
In(m, ms)  == \E i \in DOMAIN ms : ms[i] = m
Running    == {t \in Turns : pc[t] \in {"streaming", "tool", "saving"}}
Pushing    == {t \in Turns : pc[t] \in {"streaming", "tool"}}

-----------------------------------------------------------------------------
(***************************************************************************)
(* init() and the commands on settings and sessions.                       *)
(***************************************************************************)
Boot ==
  /\ ~ready
  /\ ready' = TRUE
  /\ IF active \in DOMAIN rec
     THEN /\ state' = Restored(active)
          /\ chat' = [chat EXCEPT ![active] = rec[active].messages]
     ELSE UNCHANGED <<state, chat>>
  /\ UNCHANGED <<storeVars, ctl, aborted, turnVars, saves, nextId, cut>>

\* The segment of a handler that changes the state and saves its session.
Mutate(st) ==
  \E ok \in WriteOutcomes :
    /\ saves < MaxSaves
    /\ state' = st
    /\ WriteRecord(st.sid, Stored(st, chat[st.sid]), ok)
    /\ saves' = IF ok THEN saves + 1 ELSE saves

SetPrefs(p) ==
  /\ ready
  /\ Mutate([state EXCEPT !.prefs = p])
  /\ UNCHANGED <<chat, ctl, aborted, turnVars, ready, nextId, cut>>

SetTodos(td) ==
  /\ ready
  /\ Mutate([state EXCEPT !.todos = td])
  /\ UNCHANGED <<chat, ctl, aborted, turnVars, ready, nextId, cut>>

\* Mutant: the session gets its id, not an array of its own.
NewSessionSharesArray ==
  /\ ready /\ nextId \in SessionIds
  /\ state' = [state EXCEPT !.sid = nextId, !.todos = NoTodos]
  /\ chat' = [chat EXCEPT ![nextId] = chat[state.sid]]
  /\ WriteRecord(nextId, Stored(state', chat'[nextId]), TRUE)
  /\ saves < MaxSaves /\ saves' = saves + 1
  /\ nextId' = nextId + 1
  /\ cut' = cut \cup Running
  /\ UNCHANGED <<ctl, aborted, turnVars, ready>>

NewSession ==
  /\ ready /\ nextId \in SessionIds
  /\ Mutate([state EXCEPT !.sid = nextId, !.todos = NoTodos])
  /\ nextId' = nextId + 1
  /\ cut' = cut \cup Running
  /\ UNCHANGED <<chat, ctl, aborted, turnVars, ready>>

CommandSaved ==
  /\ saves > 0
  /\ \E ok \in WriteOutcomes : WriteActive(state.sid, ok)
  /\ saves' = saves - 1
  /\ UNCHANGED <<state, chat, ctl, aborted, turnVars, ready, nextId, cut>>

\* The last prompt's signal fires; other turns cannot be reached any more.
Abort ==
  /\ ready
  /\ aborted' = IF ctl = NoTurn THEN aborted ELSE aborted \cup {ctl}
  /\ ctl' = NoTurn
  /\ state' = [state EXCEPT !.streaming = FALSE]
  /\ UNCHANGED <<storeVars, chat, turnVars, saves, ready, nextId, cut>>

-----------------------------------------------------------------------------
(***************************************************************************)
(* prompt: the turn, its model calls and its tools.                        *)
(***************************************************************************)
Prompt(t) ==
  /\ ready
  /\ pc[t] = "free"
  /\ pc' = [pc EXCEPT ![t] = "streaming"]
  /\ left' = [left EXCEPT ![t] = Tokens]
  /\ iter' = [iter EXCEPT ![t] = 1]
  /\ home' = [home EXCEPT ![t] = state.sid]
  /\ chat' = [chat EXCEPT ![state.sid] = Append(@, <<t, 0>>)]
  /\ sent' = [sent EXCEPT ![t] = 1]
  /\ state' = [state EXCEPT !.streaming = TRUE]
  /\ ctl' = t
  /\ UNCHANGED <<storeVars, aborted, calls, saves, ready, nextId, cut>>

Token(t) ==
  /\ pc[t] = "streaming" /\ left[t] > 1 /\ t \notin aborted
  /\ left' = [left EXCEPT ![t] = @ - 1]
  /\ UNCHANGED <<storeVars, state, chat, ctl, aborted, pc, iter, calls, sent, saves, ready,
                 nextId, home, cut>>

\* Mutant: the turn pushes to the dispatcher's array, not to the one it was given.
PushToCurrent(t) ==
  /\ chat' = [chat EXCEPT ![state.sid] = Append(@, <<t, sent[t]>>)]
  /\ sent' = [sent EXCEPT ![t] = @ + 1]

\* The turn pushes its next message to the array it holds.
Push(t) ==
  /\ chat' = [chat EXCEPT ![home[t]] = Append(@, <<t, sent[t]>>)]
  /\ sent' = [sent EXCEPT ![t] = @ + 1]

\* runTurn returns: its count and its signal are out of use.
EndsLocals(t) ==
  /\ iter' = [iter EXCEPT ![t] = 0]
  /\ aborted' = aborted \ {t}

\* Mutant: the save starts before the turn's last message is pushed.
FinishSavesFirst(t) ==
  /\ ctl' = NoTurn
  /\ state' = [state EXCEPT !.streaming = FALSE]
  /\ WriteRecord(state.sid, Stored(state', chat[state.sid]), TRUE)
  /\ pc' = [pc EXCEPT ![t] = "saving"]
  /\ EndsLocals(t)

\* Mutant: a turn whose controller is gone leaves the end to others.
FinishIfCurrent(t) ==
  /\ EndsLocals(t)
  /\ ctl' = IF ctl = t THEN NoTurn ELSE ctl
  /\ state' = [state EXCEPT !.streaming = @ /\ ctl # t]
  /\ WriteRecord(state.sid, Stored(state', chat'[state.sid]), ctl = t)
  /\ pc' = [pc EXCEPT ![t] = IF ctl = t THEN "saving" ELSE "failed"]

\* The dispatcher's finally block up to its save: of its current session.
Finish(t) ==
  /\ ctl' = NoTurn
  /\ state' = [state EXCEPT !.streaming = FALSE]
  /\ \E ok \in WriteOutcomes :
       /\ WriteRecord(state.sid, Stored(state', chat'[state.sid]), ok)
       /\ pc' = [pc EXCEPT ![t] = IF ok THEN "saving" ELSE "failed"]
  /\ EndsLocals(t)

\* The stream settles at its last token, or at the first one after an abort.
StreamSettles(t) ==
  pc[t] = "streaming" /\ (left[t] = 1 \/ t \in aborted)

\* A reply that calls no tool: the turn ends.  (Between the last push of a turn and
\* its finally block lies the await of runTurn, a microtask no command can come into.)
ReplyEnds(t) ==
  /\ StreamSettles(t) /\ "text" \in Results
  /\ left' = [left EXCEPT ![t] = 0]
  /\ Push(t)
  /\ Finish(t)
  /\ UNCHANGED <<calls, saves, ready, nextId, home, cut>>

\* The same, but the reply calls tools: the first is started.
ReplyCallsTools(t) ==
  /\ StreamSettles(t) /\ "tools" \in Results
  /\ left' = [left EXCEPT ![t] = 0]
  /\ Push(t)
  /\ \E n \in 1..MaxCalls : calls' = [calls EXCEPT ![t] = n]
  /\ pc' = [pc EXCEPT ![t] = "tool"]
  /\ UNCHANGED <<storeVars, state, ctl, aborted, iter, saves, ready, nextId, home, cut>>

\* The call of the model fails: no message, an error event.
ReplyFails(t) ==
  /\ pc[t] = "streaming" /\ "throws" \in Results
  /\ left' = [left EXCEPT ![t] = 0]
  /\ UNCHANGED <<chat, sent>>
  /\ Finish(t)
  /\ UNCHANGED <<calls, saves, ready, nextId, home, cut>>

\* A tool ends and the next one of the reply is started, aborted or not.
NextTool(t) ==
  /\ pc[t] = "tool" /\ calls[t] > 1
  /\ Push(t)
  /\ calls' = [calls EXCEPT ![t] = @ - 1]
  /\ UNCHANGED <<storeVars, state, ctl, aborted, pc, left, iter, saves, ready, nextId, home, cut>>

\* The loop goes on: the signal has not fired and a call of the model is left.
GoesOn(t) == t \notin aborted /\ iter[t] < MaxIterations

\* Mutant: the signal is not looked at.
LastToolUnchecked(t) ==
  /\ pc[t] = "tool" /\ calls[t] = 1
  /\ Push(t)
  /\ calls' = [calls EXCEPT ![t] = 0]
  /\ IF iter[t] < MaxIterations
     THEN /\ iter' = [iter EXCEPT ![t] = @ + 1]
          /\ left' = [left EXCEPT ![t] = Tokens]
          /\ pc' = [pc EXCEPT ![t] = "streaming"]
          /\ UNCHANGED <<storeVars, state, ctl, aborted>>
     ELSE Finish(t) /\ UNCHANGED left
  /\ UNCHANGED <<saves, ready, nextId, home, cut>>

\* The last tool of the reply ends: the model is called again, or the turn ends.
LastTool(t) ==
  /\ pc[t] = "tool" /\ calls[t] = 1
  /\ Push(t)
  /\ calls' = [calls EXCEPT ![t] = 0]
  /\ IF GoesOn(t)
     THEN /\ iter' = [iter EXCEPT ![t] = @ + 1]
          /\ left' = [left EXCEPT ![t] = Tokens]
          /\ pc' = [pc EXCEPT ![t] = "streaming"]
          /\ UNCHANGED <<storeVars, state, ctl, aborted>>
     ELSE Finish(t) /\ UNCHANGED left
  /\ UNCHANGED <<saves, ready, nextId, home, cut>>

\* The save's second write; the last state_update is emitted.
TurnSaved(t) ==
  /\ pc[t] = "saving"
  /\ \E ok \in WriteOutcomes :
       /\ WriteActive(state.sid, ok)
       /\ pc' = [pc EXCEPT ![t] = IF ok THEN "done" ELSE "failed"]
  /\ UNCHANGED <<state, chat, ctl, aborted, left, iter, calls, sent, saves, ready, nextId,
                 home, cut>>

-----------------------------------------------------------------------------
NewArrays == [s \in SessionIds |-> <<>>]

\* What a killed process kept in memory only.
ForgetsTurns ==
  /\ ctl' = NoTurn
  /\ aborted' = {}
  /\ pc' = [t \in Turns |-> IF t \in Running THEN "lost" ELSE pc[t]]
  /\ left' = [t \in Turns |-> 0]
  /\ iter' = [t \in Turns |-> 0]
  /\ calls' = [t \in Turns |-> 0]
  /\ sent' = [t \in Turns |-> IF t \in Running THEN 0 ELSE sent[t]]
  /\ saves' = 0
  /\ ready' = FALSE

\* The process is killed and started again.
Restart ==
  /\ nextId \in SessionIds
  /\ state' = Fresh(nextId)
  /\ nextId' = nextId + 1
  /\ chat' = NewArrays
  /\ ForgetsTurns
  /\ UNCHANGED <<storeVars, home, cut>>

Init ==
  /\ StoreInit
  /\ state = Fresh(1)
  /\ nextId = 2
  /\ chat = NewArrays
  /\ ctl = NoTurn
  /\ aborted = {}
  /\ pc = [t \in Turns |-> "free"]
  /\ left = [t \in Turns |-> 0]
  /\ iter = [t \in Turns |-> 0]
  /\ calls = [t \in Turns |-> 0]
  /\ sent = [t \in Turns |-> 0]
  /\ saves = 0
  /\ ready = FALSE
  /\ home = [t \in Turns |-> NoSession]
  /\ cut = {}

TurnStep(t) ==
  \/ Token(t) \/ ReplyEnds(t) \/ ReplyCallsTools(t) \/ ReplyFails(t)
  \/ NextTool(t) \/ LastTool(t) \/ TurnSaved(t)

Next ==
  \/ Boot
  \/ \E p \in Prefs : SetPrefs(p)
  \/ \E td \in Todos : SetTodos(td)
  \/ NewSession
  \/ CommandSaved
  \/ Abort
  \/ \E t \in Turns : Prompt(t)
  \/ \E t \in Turns : Token(t)
  \/ \E t \in Turns : ReplyEnds(t)
  \/ \E t \in Turns : ReplyCallsTools(t)
  \/ \E t \in Turns : ReplyFails(t)
  \/ \E t \in Turns : NextTool(t)
  \/ \E t \in Turns : LastTool(t)
  \/ \E t \in Turns : TurnSaved(t)
  \/ Restart

Spec == Init /\ [][Next]_vars

\* Streams and tools end (timers fire, answers or errors come), and settled
\* promises resume their handlers.
FairSpec ==
  /\ Spec
  /\ \A t \in Turns : WF_vars(TurnStep(t))
  /\ WF_vars(Boot) /\ WF_vars(CommandSaved)

-----------------------------------------------------------------------------
PcValues == {"free", "streaming", "tool", "saving", "done", "failed", "lost"}

SessionRecord ==
  [prefs : Prefs, todos : Todos, streaming : BOOLEAN, messages : Seq(Message)]

TypeOK ==
  /\ DOMAIN rec \subseteq 1..(nextId - 1)
  /\ rec \in [DOMAIN rec -> SessionRecord]
  /\ active \in 1..(nextId - 1) \cup {NoSession}
  /\ nextId \in 2..(MaxSessions + 1)
  /\ state \in [sid : 1..(nextId - 1), prefs : Prefs, todos : Todos, streaming : BOOLEAN]
  /\ chat \in [SessionIds -> Seq(Message)]
  /\ ctl \in Turns \cup {NoTurn}
  /\ aborted \subseteq Turns
  /\ pc \in [Turns -> PcValues]
  /\ left \in [Turns -> 0..Tokens]
  /\ iter \in [Turns -> 0..MaxIterations]
  /\ calls \in [Turns -> 0..MaxCalls]
  /\ sent \in [Turns -> Nat]
  /\ saves \in 0..MaxSaves
  /\ ready \in BOOLEAN
  /\ home \in [Turns -> 1..(nextId - 1) \cup {NoSession}]
  /\ cut \subseteq Turns

Log == INSTANCE DurableLog WITH
         Sessions <- SessionIds, Messages <- Message,
         log <- [s \in DOMAIN rec |-> rec[s].messages]

\* The records are a durable log under this dispatcher too, whatever turns,
\* tools, session changes, refused writes and restarts interleave.
ImplementsDurableLog == Log!LogSpec

\* Prompts, replies and tool results alike are stored in the session of their
\* prompt only: a turn that outlives its session writes to its own array.
MessagesStayHome ==
  \A s \in DOMAIN rec : \A i \in DOMAIN rec[s].messages :
    home[rec[s].messages[i][1]] = s

\* No stored conversation has a hole: a message is stored only with all the
\* earlier messages of its turn before it.
NoHoles ==
  \A s \in DOMAIN rec : \A i \in DOMAIN rec[s].messages :
    LET m == rec[s].messages[i] IN
    m[2] > 0 => \E j \in 1..(i - 1) : rec[s].messages[j] = <<m[1], m[2] - 1>>

\* When its last state_update is out, everything a turn has said is stored,
\* unless its session was left (then nothing after the leaving ever is).
DoneTurnsAreStored ==
  \A t \in Turns \ cut :
    pc[t] = "done" =>
      /\ home[t] \in DOMAIN rec
      /\ \A n \in 0..(sent[t] - 1) : In(<<t, n>>, rec[home[t]].messages)

\* The active key never names a session that cannot be loaded, whichever turns
\* and commands save with which between their two writes.
ActiveSessionLoads == active # NoSession => active \in DOMAIN rec

\* While no turn pushes to the current array, nothing in memory is newer than the
\* store, whatever turns of sessions that were left go on and save.
IdleIsStored ==
  ~StorageFails /\ {t \in Pushing : home[t] = state.sid} = {} =>
    IF state.sid \in DOMAIN rec
    THEN /\ rec[state.sid].messages = chat[state.sid]
         /\ rec[state.sid].prefs = state.prefs
         /\ rec[state.sid].todos = state.todos
    ELSE chat[state.sid] = <<>>

\* When no save is between its two writes, the session a restart would reopen is
\* the current one (unless nothing was saved in it yet).
RestartReopensCurrent ==
  ~StorageFails /\ saves = 0 /\ (\A t \in Turns : pc[t] # "saving") /\ state.sid \in DOMAIN rec
    => active = state.sid

\* A turn whose signal has fired calls the model no more and streams no more
\* than the token that was due.
AbortStopsTurn ==
  [][\A t \in aborted : iter'[t] \in {iter[t], 0} /\ left'[t] \in {left[t], 0}]_vars

\* Every turn comes to its end: the model is called a bounded number of times,
\* each reply's tools are run once, and a turn no abort can reach any more
\* (its controller was replaced or cleared) ends nevertheless.
TurnsEnd == \A t \in Turns : pc[t] = "streaming" ~> pc[t] \in {"done", "lost"}
=============================================================================
