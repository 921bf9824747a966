# Verification of oh-my-pi-mobile

TLA+ modules, TLC configurations and TLAPS proofs for two bodies of code:

* the port's own: `core/` (the engine in TypeScript), the page
  `app/assets/js/ui.js` that drives it, and the native bridge in `app/src`;
* the concurrent parts of the upstream project, a copy of which is in `packages/`:
  the runs of an agent, the batches of tool calls inside a run, and the refresh of
  OAuth credentials that several processes share. Nothing in `core/` or `app/`
  imports `packages/` and the Android build leaves it out, so the two halves
  are separate systems here as well: no module composes one with the other.

## 1. Inventory

| Part | State it keeps | Operations | Talks to |
|---|---|---|---|
| Core engine `core/index.ts` | `state` (session id, model, thinking level, todos, `isStreaming`), `messages`, `abortController` | `init`, `dispatch` of prompt, abort, new_session, set_model, set_thinking_level, set_todos, execute_tool, configure_keys, get_state, get_messages | session store (await), the tools of an agent loop, one event sink (callback) |
| Session store `core/session/storage.ts` | one JSON record per session, the active session's id, the key vault | save, load, list, delete, API keys | `localStorage` or a map |
| RPC dispatcher `core/rpc/dispatcher.ts` | the same state and messages as the engine, one `abortController` | the engine's commands, execute_tool, answer_ask, configure_keys | agent loop, session store |
| Agent loop `core/agent/loop.ts` | per turn: iteration count, pending tool calls; owns the tools | `runTurn`, `executeTool`, `extractEvidence` | stream client, tools, dispatcher's message array (shared) |
| Stream client `core/ai/stream.ts` | per request: SSE buffer, text and tool-call accumulators | `streamCompletion`, three provider adapters, abort poll | `fetch` |
| Todo tool `core/tools/todo.ts` | phases and their items | init, start, done, drop, block, unblock, append, rm, view | agent loop |
| Ask tool `core/tools/ask.ts` | active questions, answers | set, submit, complete | agent loop, dispatcher |
| Hashline `core/hashline/index.ts` | none (per call: the lines of the document) | tag, parse, apply | edit tool |
| File tools `core/tools/fs.ts` | none (the files) | read, write, grep, glob, safe paths | bridge or `node:fs` |
| Terminal, git `core/tools/terminal.ts`, `git.ts` | per call: child process, buffers, timer | execute | bridge or `child_process` |
| SQLite store `core/session/sqlite-store.ts` | seven tables | init, save, load, delete, settings, migration from `localStorage` | bridge or `bun:sqlite`; used by its tests only |
| Page `app/assets/js/ui.js` | composer enabled or not, thread, active card, bottom sheets | send, new session, model menu, quick chips (execute_tool), event handlers | engine (dispatch, events) |
| Bridge `OmpCoreBridge.java`, `MainActivity.java` | SQLite handle, keystore key | files, exec, SQL, secure values | Android |
| Agent runs `packages/agent/src/agent.ts`, `agent-loop.ts` | transcript, steering and follow-up queues, streaming flag, controller; per run: the model's context, messages taken and deferred, deadline | prompt, continue, steer, followUp, take back, abort; the loop's polls, model calls, gates and endings | the host's hooks, the model, tool batches |
| Tool batches `agent-loop.ts` (`executeToolCalls`), `pause.ts` | per batch: the promise of every call, what interrupted it; the pause gate | schedule, run, interrupt, park, answer | the tools, the run's signal, the steering queue |
| Credential refresh `packages/ai/src/auth-storage.ts`, `auth/sqlite-credential-store.ts` | per process: credentials in memory, the refresh in flight; shared: the credential's row and its lease | get a token, forced refresh, login, removal, lease, compare-and-set update and disable | the provider, other processes through SQLite |
| Other upstream code `packages/` | provider adapters, broker and remote store, compaction, telemetry, type library, utilities | translation of data | - |

How they interact. Everything in JavaScript runs on one thread; a handler is
interrupted at its `await`s only. But `dispatch()` does not queue: every command
starts at once, so prompts overlap with each other, with session changes and
with the two-step saves of other commands. The dispatcher and a turn share a
message array by reference; the engine's turn reads `this.messages` afresh.
The process can be killed at any await and starts again from the store.

Upstream, a run of the agent is one asynchronous loop: the user steers, queues,
takes back and aborts at any of its awaits, and a listener of its last event may
start the next run before the old one has closed. A batch is as many
asynchronous functions as it has calls, tied by promises. The credential store is
a database that several processes write between any two statements of each other.

What makes each part correct, and what is hard about it:

* **engine, store** - a conversation that was stored is never lost, rewritten
  or filed under another session; `turn_end` means stored; a restart finds the
  session that was open. Hard: overlapping handlers, the gap between a save's
  two writes, kills, refused writes.
* **dispatcher, loop** - the same with turns of many messages that keep an
  array after the session was left; an abort ends the calls of the model; every
  turn ends. Hard: stale references, one controller for several turns.
* **page** - one turn at a time although the engine allows more; what is shown
  is what was said; the composer comes back. Hard: events of a turn whose
  session was left, clearing the thread asynchronously.
* **todo tool** - one active task whenever one is possible, blocked tasks
  untouched by ops on other tasks, promotion in order, after any sequence of ops. Hard: duplicate task
  texts, ops on whole phases, items that were done or dropped.
* **hashline** - line numbers mean those of the original whatever is applied
  first. Hard: overlapping and backward ranges, several chunks at a line.
* **SQLite store** - nothing saved or waiting to be migrated is lost, no orphans
  and no holes, the right session opens. Hard: saves, deletes and the migration
  are single statements, and a kill can come before each of them.
* **terminal, bridge** - the whole output, an exit code that means what it says,
  a call that returns. Hard: threads, a time limit that races the command's end,
  background processes that hold the pipes.
* **agent runs** - the model is shown what the transcript keeps, calls have their
  results next to them, no message of the user is lost, said twice or out of
  order, `abort()` reaches the run that is going, every run ends. Hard: messages
  join the context before their events reach the transcript, four polls take
  from one queue, hooks throw, deadlines and leaks leave the loop in the middle.
* **tool batches** - an exclusive call runs alone and in its turn, work is never skipped, what a
  call did is what it is answered with, waits give way to steering, an abort ends
  the batch. Hard: a signal that races a call's end, a subscription that
  races the check, a closed gate.
* **credential refresh** - a token that is good for one use is used once, a newer
  token is not overwritten by an older one, a credential is disabled only when it is dead,
  every call comes back. Hard: a lease that runs out under its holder, logins
  and restarts during a request, selections that grow old over an await.
* **ask, edit, streams, key vault** - section 6.

## 2. Modules

| Module | Models | Role |
|---|---|---|
| `DurableLog` | - | abstract specification: per session an append-only log, each message in one session |
| `OrderedCalls` | - | abstract specification: the calls of one message that exclude each other take turns in its order, and each is answered once |
| `LocalSessionStore` | `storage.ts` | the records and the active key; a save as two separate writes |
| `CoreEngine` | `index.ts` over the store | implements `DurableLog` |
| `MobileUI` | `ui.js` over `CoreEngine` | EXTENDS the engine; every action of the page is an engine action under the page's guards |
| `RpcDispatcher` | `dispatcher.ts` + `loop.ts` over the store | implements `DurableLog` |
| `TodoStateMachine` | `todo.ts` | |
| `HashlinePatch` | `applyHashlinePatch` | with a meaning of patches to check against |
| `SqliteSessionStore` | `sqlite-store.ts` | saves, deletes and the migration, statement by statement |
| `CommandRunner` | `terminal.ts`, `OmpCoreBridge.execCommand` | one command under either runner |
| `MCTodo`, `MCHashline`, `MCSqlite` | - | finite instances for TLC; the other modules are run as they are |
| `AgentRuns` | `agent.ts` (prompt, continue, queues, `#runLoop`), `runLoopBody` of `agent-loop.ts` | tool batches appear as one step that yields their results |
| `ToolBatch` | `executeToolCalls`, `pause.ts` | one batch inside a run; implements `OrderedCalls` |
| `CredentialRefresh` | the path of one OAuth credential through `auth-storage.ts` and `sqlite-credential-store.ts` | |
| `MobileUI_proofs` | - | theorems about the page and, since it EXTENDS the engine, about `CoreEngine` |
| `Tools_proofs` | - | theorems about `HashlinePatch` and `CommandRunner`, whose state and actions are named apart (`PatchInit`, `RunnerInit`) so that one module can extend both |
| `RpcDispatcher_proofs`, `TodoStateMachine_proofs`, `SqliteSessionStore_proofs`, `AgentRuns_proofs`, `ToolBatch_proofs`, `CredentialRefresh_proofs` | - | theorems about the module of that name |

Correspondence with the code (PROJECT.json maps each definition to its lines):

* An **action is the code between two awaits**. `handlePrompt` is `Prompt` (up to
  the first timer), `Token` (one timer), `FinishTurn` (last token, reply pushed,
  the `finally` block up to the record's write), `TurnSaved` (the active key's
  write), `EndTurn` (the last events). A setting command is `Mutate` (change and
  record) and `CommandSaved` (active key). The write that a handler starts in a
  segment takes effect in it, as `localStorage` does.
* `Restart` is a kill followed by the constructor; `Boot` is `init()`.
* A record holds what was in memory when it was written, the streaming flag
  included.
* In `RpcDispatcher` the arrays are separate objects: `chat[s]` is the array made
  for session `s`, `home[t]` the array turn `t` was given. A model call ends with
  a reply, a reply that calls tools, or an error (`ReplyEnds`, `ReplyCallsTools`,
  `ReplyFails`); a tool's result is one message. The last push of a turn and the
  `finally` block behind it are one step: between them lies the `await` of `runTurn`
  (dispatcher.ts:186), a microtask in which no command can arrive and which no
  property turns on; a kill there leaves what a kill before the push leaves.
* In `MobileUI` the guard `Calm` says that the microtasks of the previous event
  have run: on the page only a kill comes between the writes of a save.
* In `HashlinePatch` a line is named by its origin (line *k* of the original, or
  row *i* of chunk *c*), so that what happened to it can be stated.
* In `SqliteSessionStore` an action is one statement (`job` is the call in progress
  and its next statement), and `Kill` can come before any of them. Callers await
  a call before the next, as the tests and `init()` do. `owed` and `chosen` record
  what callers were promised: the messages of a save that returned, the session
  last made active. The active session of `localStorage` is one with a record
  there, which is what `ActiveSessionLoads` says of the store that wrote it.
  Malformed records, which the migration leaves where they are, and the rows of
  tool calls are left out. No foreign key ties the tables. A message is a position in its
  session, while the table has one key for all messages, their id (sqlite-store.ts:132),
  and replaces on it (219): two sessions must not use an id twice, which holds as far as
  ids are taken from a clock that advances.
* In `CommandRunner` lines are counted. `host` says which runner is at work; the
  bridge's collectors race with `getOutput()` on a `StringBuilder` that is not
  synchronised, so a read while one is at work may also throw. That a collector
  gets through what is left in a closed pipe within the second `join` allows is an
  assumption.
* In `AgentRuns` a message of the loop is its kind. `transcript` is `state.messages`,
  which grows by events (each counted as taken in the step that pushes it); `ctx` is the
  list the model is shown. `leaks > 0` says that the turn is still open because its reply
  leaked (`TurnOpen`): a reply thrown away stays in the transcript as one entry,
  `"discarded"`, calls and all. `recovered` is a reply that stands for a leaked one. `input` holds messages
  that are in `ctx` while their events are still deferred, `held` those a poll has
  taken that are in neither. `pc` is the await the loop has come to: `poll`, `top`,
  `prepare`, `stream`, `tools`, `boundary`, `yield`, `late` are the awaits of
  `runLoopBody` in their order, `takeSteering` and `takeFollowUps` those of
  `continue()`, `ending` is agent_end pushed and not consumed, `closing` the
  `finally` block of the run still to come. A run that has lost its place to
  another one keeps its `pc` until then. `Retry` is the host's
  replaceMessages-and-continue, which is what the calls left without results are run again for.
* In `ToolBatch` a call is a promise with the places it awaits (`tool[i].pc`); `awaits`
  is what the scheduling loop chained it to. For `OrderedCalls` a call is `fresh` until it
  passes the gate, `working`, then `done` or, when its promise was rejected, `broken`
  (`Place`). Preparation (validation, hooks, the
  refusals) is a choice of its outcome. `watch` is the promise that watches the steering queue.
* In `CredentialRefresh` a token is its generation, so that rotation is `+ 1` and
  reuse is asking with an old number. A process does nothing else between the
  synchronous parts of one step (`Quiet`); statements of other processes fall
  between any two of its statements. `flight` is the shared refresh of a process,
  `call` the requests that wait for it, with their preflight and final passes; forced
  refreshes by id share one wait (`byId` is the first of them, `joined` the others), which
  ends for all when the signal of the first fires. `stray` says that the provider may still
  get round to a request nobody waits for any more (`LateRotation`).
  `slept` notes whose lease ran out while it held it.

Abstracted data: settings, todos and messages are values or pairs; ids are
numbered in creation order (the code takes them from the clock in milliseconds
and so assumes that it advances between two creations, which the models assume
as well); tokens are counted; text, formatting and time stamps are left out.

## 3. Runs

Bounds are constants of the modules. Two turns are enough to have one finish,
abort or be replaced under the other; two or three sessions give a new session
and a restart (each takes a fresh id); one overlapping setting save per command
at a time is enough to come between the two writes of any other save.

| Run | Instance | Distinct states | Shows |
|---|---|---|---|
| `todo` | 2 texts, 2 phases, at most 4 tasks, four initial lists (one empty) | 244,979 | after any ops at most one task is active; only a start takes the active task's place |
| `engine` | 2 prompts of 2 tokens, 3 sessions, 2 settings, any write may be refused | 2,018,267 | a turn that ended is stored; the records refine the durable log |
| `mobile_ui` | 2 prompts of 2 tokens, 4 sessions, kills | 162,890 | a restart reopens the current session; replies stand behind their prompts; the thread shows the conversation; tokens reach their own card; the composer comes back |
| `rpc` | 2 turns that may overlap, 2 calls of the model each, 2 sessions | 441,204 | messages stay in their session; finished turns are stored; the records refine the durable log; turns end |
| `rpc_turn` | 1 turn of 5 calls of the model with up to 2 tools each, 4 sessions | 1,501,741 | no hole in a conversation, also when the limit of calls ends the turn; an abort stops the turn |
| `hashline` | every patch of up to 2 chunks (0 or 2 rows) or 3 chunks, lines 0 to 4, documents of 1 to 3 lines | 1,898,978 | patches apply as written; earlier lines stay in place |
| `sqlite` | 3 sessions of up to 2 messages, 2 kills | 386,247 | migration, saves and deletes lose nothing, orphan nothing, leave no holes; the chosen session stays |
| `command` | both runners, 2 lines of output | 2,796 | output is whole; the call returns |
| `auth` | 2 processes, 2 calls, a suspended holder, a login or a removal, a crash, a late rotation | 821,260 | only a dead token is disabled, but by the user; one request at a time; only outdated calls overwrite a newer token; calls return |
| `tool_batch` | 3 calls, immediate interrupts | 970,872 | calls that exclude each other take turns in the order of the message; work is answered with what it did; steering ends waits; an abort ends the batch |
| `agent` | 2 runs, 1 prompt, 2 steering messages, 1 follow-up, one of each fault | 2,931,448 | abort reaches the run; calls are paired with results; order of what was said; who may lose a queued message; runs end |
| `agent_leak` | the same | counterexample of 13 states | the disagreement of section 5 |

Two kills cut the migration and its repetition; three sessions let one be moved,
one be under way and one be left. Two lines let a collector be behind by more
than the end of the pipe. In `agent` two runs give a run and the one that takes
its place or goes on from what it left, two steering messages an order and a
message left behind in one-at-a-time mode, one follow-up a late poll that takes
both kinds; one trouble at a time is an abort, deadline, throwing hook or
leak against any interleaving of the rest (a run with three runs, two prompts and one
steering message, 610,068 states, was checked by hand as well). Three calls are
the fewest that have an exclusive one between shared ones. Two processes with two
calls have every race for a lease; a login or a removal by the user, a crash and an
expired generation each happen once, and one process is suspended past its lease. The other value of `Immediate` ("wait") takes the checks for steering
out of `ToolBatch` and has no run of its own: the theorems hold for both.

No run uses symmetry. Deadlock is checked except for `hashline`, `command`,
`tool_batch` and the two runs of `AgentRuns`, whose systems come to rest: the call
returns, the batch ends, the user has nothing more to say.
The `engine` run lets any write be refused; what holds only while none is refused
is checked in `mobile_ui` and proved under the hypothesis `~StorageFails`.

**Fairness.** Weak fairness on the steps of a turn, `Boot` and `CommandSaved`:
timers fire, settled promises resume their handlers, the model and tools answer
or fail. Nothing is assumed of the user (prompts, aborts, session changes) nor
of kills. On the page a timer's event loop turn can be held up by microtasks
again and again but not for ever: strong fairness on `Delta`. In `CommandRunner` the
runner's own steps and the delivery of data are fair; the command and what it
leaves behind need not do anything, ever. A model that never
answers is outside this assumption; the code has no timeout for it.

In `AgentRuns` the steps of a run are fair: hooks, streams and tools settle and
promises resume the loop. In `ToolBatch` work comes to an end by itself, a pure wait
only once its signal fires, and nothing is assumed of the user, the gate or peers. In
`CredentialRefresh` the steps of calls and flights are fair (a request fails at its
time limit if nothing else) and so is time itself, by which a lease that is not
renewed runs out; crashes, logins, removals, late
rotations and the renewal timer are not.

## 4. Proofs

All theorems hold for every value of the constants under the modules' named
assumptions (a bound is positive, the "none" value is not a member of the set it
stands beside).

* **CoreEngine** (in `MobileUI_proofs`) - `TypeCorrect`, `EndedStored`, `PromptsHome`, `AbortIsLive`,
  `DurableLogImplemented`, and, while no write is refused, `ActiveLoads`,
  `IdleStored`, `ReopensCurrent`. The safety properties are not inductive. `IInv`
  adds: a turn not yet prompted has left no trace (`Quiet`); what is in memory
  extends the record of its session (`GrowsFromRecord`: a later save can then
  only append); only prompted turns occur anywhere (`SentOnly`); a message is in
  one record (`OneHome`) or, unless its turn was cut off, in the conversation
  in memory of its own session (`PromptsHere`, `TurnsAtHome`). For the last
  three theorems `SInv` adds that a pending second write has its record
  (`PendingHasRecord`), that memory and record agree when idle (`UpToDate`) and
  that a pending save will name the current session (`ReopensSoon`). The step is
  first reduced to the few kinds of step that disturb these (lemma
  `StepKinds`). The refinement follows: every step appends to at most one log or
  changes none.
* **MobileUI** - `PageRunsEngine`: each step of the page is a step of the engine
  or leaves it unchanged, so the engine's theorems apply. `PageTypes`.
  `TurnsAreSerial`: with the invariant that an enabled composer means no turn is in flight.
  `RepliesInPlace`: while a turn streams in its own session its prompt is the
  last message of the conversation in memory (`PromptIsLast`). `StreamsHome`: the
  active card is that of the turn in flight (`CardInv`), whatever is cleared
  meanwhile. `ThreadIsConversation` needs to know the thread at every moment
  (`ThreadInv`): before the page is loaded it is empty; between a click on "new
  session" and its clearing the conversation is empty and every turn in flight is
  cut off from it (`ClearsNothingNew`), so that what is cleared is not missed; in
  between the thread is what was said and, while a turn streams into the conversation
  on screen, the card of its reply (`Shown`).
* **RpcDispatcher** - `TypeCorrect`, `StayHome`, `WholeConversations`, `DoneStored`,
  `DurableLogImplemented`, `AbortStops`, for any number of overlapping turns, tools and
  calls of the model, and a store that may refuse writes. The records are written
  from arrays that turns keep after their session was left, so `IInv` speaks of
  the arrays: the array of a session holds messages of that session's turns only
  (`AllAtHome`), without holes (`AllWhole`), with all its running turns have said
  (`HoldsItsWords`); the current one extends its record (`GrowsFromRecord`); a turn
  whose session was not left runs in the current one, and what it has said is in
  the record once that is written (`TurnsAtHome`). `AbortStops` adds that only a
  turn that may still push has been signalled or can be (`SignalsInv`). `ActiveLoads`,
  `IdleStored` and `ReopensCurrent` are what the engine's theorems of these names say,
  here with turns that go on after their session was left: such a turn saves whatever
  session is current by then. `Reopening` says that a save between its two
  writes has its record (`PendingHasRecord`), that the record of the current session is
  behind memory only by what running turns have pushed (`UpToDate`), and that the active
  key names that session or a save is about to make it so (`ReopensSoon`). A
  refused write can break all three, hence the hypothesis `~StorageFails`.
* **TodoStateMachine** - `TypeCorrect`, `AutoPromotion`, `BlockedImmune`,
  `NoPreemption`, `PromotionOrder`, `ViewReads`, for any tasks, phase names and
  initial lists. The lemma `LeastNatural` gives that the positions of a list have an
  earliest member, on which promotion rests.
* **HashlinePatch** (in `Tools_proofs`) - `LinesStayInPlace`: for every patch, the
  lines above a chunk still to come are where the original had them. It
  is inductive on top of the type invariant (`PatchTyped`), because the sort hands out start
  lines in descending order and `splice` leaves what is before its place alone
  (`SpliceFacts`). `PatchMeansWhatItSays`: a patch whose chunks do not touch each
  other, listed bottom up where they share a line, is not refused and does what its headers say. The
  invariant (`SoFar`) gives the meaning of the part that was applied: the document
  shows the original lines that part spared and its bodies (`OnlyShown`,
  `AllShown`), in the order of their places (`Sorted`: every line has a rank, the place it
  belongs to and what stands first there), what is still to come lies above all
  that was applied (`InOrder`) and is as the original had it (`Untouched`).
* **SqliteSessionStore** - `TypeCorrect`, `NothingLost`, `NoneOrphaned`,
  `NoneMissing`, `ActiveStays`, under the hypothesis that no statement fails
  (section 5 says why it is needed). `IInv` says how far a save or a delete
  under way has come (`SavedSoFar`, `DeletedSoFar`), that a record whose key was
  noted for removal is in the tables (`MovedLoads`), and that the chosen session
  is the tables' or still `localStorage`'s while anything is left to migrate
  (`ChosenKept`): a kill may come in any of these states.
* **CommandRunner** (in `Tools_proofs`) - `OutputIsWhole`, `ZeroIsSuccess`. The
  strengthening: a kill by the runner is noted (`KillNoted`), and after the first
  join the first pipe is closed and empty for good unless there was a background
  process (`FirstJoined`).
* **CredentialRefresh** - `Types`, `DisabledIsDead`, `OneRequest`, `GoesBackOnlyOutdated`,
  for any number of processes, calls, logins and crashes. `IInv` bounds every
  generation anywhere by the provider's (`RowOK`, `FlightOK`, `CallOK`): an answer is a
  generation newer than the row it was asked for, and a refused one, or that of a row
  disabled by anything but the user, is dead. `Fenced`
  is the lease: a flight between acquiring and letting go holds it unless its
  process was suspended past it.
* **ToolBatch** - `Types`, `InOrder`, `NoneStuck`, `Alone`, `NotSkipped`, `ResultKept`, for any number of calls
  and both interrupt modes. The invariant says what the scheduling loop has chained
  (`AwaitsOK`: call *i* waits for some exclusive call *l* and, if it is exclusive,
  for all shared ones after it), so that the calls before an exclusive one have
  settled when it begins (`OrderOK`, by way of `EarlierSettled`), that calls wait for
  earlier ones only (`AwaitsEarlier`), and what an answer says of its call (`AnswerOK`).
  `InOrder` is the refinement: every step of a call is one of `Start`, `LetGo`, `Finish`
  and `Drop` of `OrderedCalls` or moves no call (`SeenStep`), and the rest is invisible.
  `NoneStuck` rests on `AwaitsEarlier`: the earliest call that still waits has nothing to wait for.
* **AgentRuns** - `Types`, `ReachesTheRun`, `QueuesKept`, `Pairing`, `EndsWithReply`, `NoneLost`,
  `OrderKept`, `SeesTranscript`, for any messages, numbers of runs and faults. `AbortReachesTheRun` is inductive on
  top of the types and says that at most one run writes the transcript, which
  the other proofs need: the run they follow is then the only one. `Pairing` follows
  transcript and context at once (`Paired`): both are well formed lists (`Well`), they
  end with open calls only where the loop is about to answer them, and what is deferred
  or held may follow what they end with; a call may also have an error or a prompt behind it, the
  exceptions of section 5. `EndsWithReply` follows what the last
  entry is at each await (`Answering`). `NoneLost` knows at which awaits a run has
  messages in its hands (`HandsInv`): some are deferred only until the model is called,
  and taken only between a poll and the top of the loop; that what a poll writes
  does not drop them from the transcript rests on `Pairing`'s invariant. `OrderKept`
  follows a message from the user to the transcript (`LineInv`): what is said, what is
  deferred, what a poll holds and what is queued are one line, in which steering stands in
  the order it was given and nothing stands twice, and every move takes from the
  front of one part to the back of the one before. It must know the parts that
  the property does not name, because each of the polls moves between them at another
  await. `SeesTranscript` says that the context is at all times what has been said
  and what is deferred (`ViewInv`), except for a run that took messages into an open turn
  (`muted`, section 5); at the model's call nothing is deferred any more. The property
  counts how many kept entries come before one, which agrees with
  the n-th of both lists being equal and lets finite cardinality be reasoned about
  (`RankConcat`) where a filter could not.

Model-checked only: liveness (`TurnsEnd`, `ComposerReturns`, `CallReturns`, `CallsReturn`,
`SteerEndsWaits`, `AbortEndsBatch`, `RunsEnd`), which rests on fairness and is
beyond the prover. Every other property of a passing run is stated by a theorem, for
all values of the constants. `ActiveSessionLoads`, `IdleIsStored`,
`PromptsStayHome`, `AbortTargetsLiveTurn`, `OneTurnAtATime`, `ZeroMeansSuccess`, `BlockedIsImmune`
`PromotesEarliest`, `ExclusiveRunsAlone`, `SomeCallMoves` and the dispatcher's own
`ActiveSessionLoads`, `IdleIsStored` and `RestartReopensCurrent` are proved and no run repeats them.
The type invariants are proved as well, and left to the proofs.

## 5. Where the code and its words disagree

Run `agent_leak`: a reply that leaks the model's protocol, without a call to
recover, is to be sampled again in the same turn (agent-loop.ts:1083-1084).
The `continue` at 1299 goes back to the condition at 1134, which the messages that woke
the turn no longer satisfy once they are in the context: if the turn before had
no calls, the run ends and the last message has no answer. `AnsweredUnlessLeaked`
says that this is the only such case.

Read in the code, without a run of their own:

* todo.ts:84 and 129 take a done task back to active or blocked; todo.ts:9 says never.
* hashline/index.ts:132 sorts chunks of one start line stably, so `PUT <3` listed before `PUT >3`
  puts the second body after a line that has moved (7-8 say before and after line N);
  `AppliesAsWritten` leaves such patches out.
* A refused write in `handlePrompt`'s `finally` block (index.ts:257) leaves the page
  without `turn_end`: the composer stays disabled.
* A statement that fails is answered with `false`, which nobody reads: the migration
  removes the record from `localStorage` all the same (sqlite-store.ts:417, 436 against 435).
* `isStreaming: true` in a record comes back after a kill (index.ts:83); the SQLite
  store resets it (sqlite-store.ts:276).
* RECONCILIATION_REPORT.md:72 lists commands (`steer`) the engine has no branch for;
  index.ts:272 tells the user that state is persisted before the prompt is.
* terminal.ts:6 promises strict timeouts, but on a workstation a background
  process that holds the pipes delays `close` (the second half of `CallReturns`); a
  command ended by a signal is answered with exit code 0 there (the exception in
  `ZeroMeansSuccess`); on the phone a torn read of the output turns a time-out into
  an execution error.
* auth-storage.ts:2447-2449 says that a peer rotation wins the comparison and is reloaded instead of being overwritten. A call
  that selected a credential before an await and found it fresh after it writes it
  back under a comparison with its process's memory, which a login or refresh has
  brought up to date meanwhile: the comparison succeeds. `OnlyOutdatedCallsGoBack`
  says that nothing else overwrites a newer token.
* auth-storage.ts:7089 takes the first caller's signal into a refresh that later callers
  join (the broker passes the signal of each request, auth-broker/server.ts:768): its
  abort fails them too, as it does in the model (`Abort`). They come back, so `CallsReturn`
  holds.
* agent-loop.ts:1148-1150 says that the events of queued messages are deferred until the call is
  prepared or fails. A message that is taken while a turn is open, which a leak leaves it, has
  its events emitted by neither (1247-1251, and 1198-1204 when preparation throws): the
  model is shown it, the transcript never has it. `ModelSeesTranscript` leaves out such
  runs (`muted`), and `OnlyBrokenRunsLose` excepts the input of an open turn.
* A reply that leaks is thrown away (2121-2131) with an event that keeps it in the transcript,
  with calls that nothing answers; `CallsArePaired` counts it as one discarded entry.
* agent.ts:992-993 says that an interrupt skips the remaining tools; `runTool` says that
  work is never skipped, and does so (`WorkIsNotSkipped`).
* A check for steering that throws rejects its call's promise, and the calls chained
  behind it never run (agent-loop.ts:2778): they are answered with placeholders.
* Messages a poll has taken are lost when the deadline passes, a hook throws, or a
  call that is run again ends the run before they are in the context:
  the exceptions in `OnlyBrokenRunsLose`.
* A soft requirement that is given up and a retry that is out of time leave calls without
  results, with an error or the next prompt behind them: the exceptions in
  `CallsArePaired`.
* reset() in the middle of a run clears the flag but not the controller
  (agent.ts:1140): a prompt then starts a second loop over one transcript.

## 6. Not modelled

In `core/` and `app/`:

* the SSE frames and delta accumulators of `stream.ts`: what goes wrong there
  depends on how a server splits its stream (the last line of a stream without a
  final newline is dropped, 512; fragments without an id join the wrong call, 147);
* `AskManager`: the loop awaits no answer, so nothing interleaves with it; only the
  first question of an ask is sent (loop.ts:312), and answers are matched by ids
  the model chose (ask.ts:57);
* the read-modify-write of `edit` (loop.ts:293) against writes of other tools: the
  tag a patch was made under is compared with nothing, so a lost write is certain and
  there is nothing to check;
* `execute_tool` of engine and dispatcher (core/index.ts:178-192): it runs one tool outside any turn,
  changes the tool's own list or files and emits `tool_end`; no state of the conversation
  changes. The quick chips of the page dispatch it (ui.js:507-570);
* `configure_keys` (core/index.ts:193-198) and `saveApiKey`'s read-modify-write of the vault
  (storage.ts:143): one command saves its keys one after another, but `dispatch()` does not
  queue, so that of two overlapping ones a key can be lost. The page never dispatches the
  command;
* the todo tool's list against `set_todos` (loop.ts:304): nothing reads
  both; the keystore fallback (OmpCoreBridge.java:300): its failure modes are Android's;
* commands before `init()` has finished (index.ts:78): the hosts wait for it;
* regular-expression parsing (`parseHashlinePatch`, `extractEvidence`, grep and
  glob patterns), which is wording; the bottom sheets of the page (ask, model list, evidence,
  raw JSON), its tool and error cards and toasts, which keep no state of the conversation; `MainActivity` and the single
  Android calls of the bridge; the generated bundle `app/assets/js/index.js`.

In `packages/`:

* of the agent: the pause gate between turns, the contents of asides, Cursor's buffered
  results, reminders, clearing and replacing queues, the signal of `continue()`'s
  caller, `reset()`, compaction and telemetry;
* of the credentials: several credentials of one provider with their ranking, blocks
  (a call chooses whether its credential is blocked) and usage reports, among them the new row
  that a login makes when the old one was disabled, API keys, the broker and its remote store;
* the provider adapters, `omptype` and `utils`: some 150,000 lines that translate
  data between formats, keep no state that two actors share, and would be copied
  rather than modelled line by line. This is why the models stand for a small part
  of the repository's lines while they cover the places where its parts race.

Every bound is a CONSTANT of its module and named where it is declared.
