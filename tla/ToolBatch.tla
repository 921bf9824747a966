------------------------------ MODULE ToolBatch ------------------------------
(***************************************************************************)
(* How the agent loop runs the tool calls of one assistant message          *)
(* (executeToolCalls, packages/agent/src/agent-loop.ts): which call waits    *)
(* for which, what a queued steering message or a peer message interrupts,  *)
(* the pause gate, and which result each call is answered with.             *)
(*                                                                          *)
(* A call is exclusive or shared, and it is a pure wait that may be         *)
(* interrupted or work that must not be.  Each call is a promise that       *)
(* settles when the call and the check for steering after it are over.      *)
(***************************************************************************)
EXTENDS Naturals

CONSTANTS
  N,          \* the number of calls of the message
  Immediate   \* interruptMode: TRUE for "immediate", FALSE for "wait"

ASSUME SizeAssumption == N \in Nat
ASSUME ModeAssumption == Immediate \in BOOLEAN

Calls == 1..N

VARIABLES
  exclusive,      \* the concurrency of each call
  interruptible,  \* the calls that are pure waits
  next,           \* the scheduling loop: the call it has come to,
  lastExclusive,  \*   the exclusive call it has met last (0: none),
  sharedTasks,    \*   the shared calls since then,
  awaits,         \*   and the calls whose promises each call waits for
  tool,           \* where each call is; completed: it returned, and is to be answered
  result,         \* how each call is answered: "own" with what it did
                  \* (a refusal included), "lost" with a placeholder
  triggered,      \* interruptState: steering or a peer interrupted the batch
  aborted,        \* the signal of the run
  queued,         \* a steering message is queued
  paused,         \* the pause gate
  watch,          \* the event-driven watch for steering
  woken,          \* the wait the watch subscribed to has resolved
  failed,         \* a check for steering threw
  ended           \* executeToolCalls has returned

kinds == <<exclusive, interruptible>>
schedule == <<next, lastExclusive, sharedTasks, awaits>>
tools == <<tool, result>>
world == <<queued, paused>>
vars == <<kinds, schedule, tools, triggered, aborted, world, watch, woken, failed, ended>>

ToolPC == {"waiting", "parked", "running", "after", "settled", "rejected"}
Results == {"none", "own", "lost"}
Idle == [pc |-> "waiting", completed |-> FALSE]

TypeOK ==
  /\ exclusive \in [Calls -> BOOLEAN]
  /\ interruptible \in [Calls -> BOOLEAN]
  /\ next \in 1..(N + 1)
  /\ lastExclusive \in 0..N
  /\ sharedTasks \subseteq Calls
  /\ awaits \in [Calls -> SUBSET Calls]
  /\ tool \in [Calls -> [pc : ToolPC, completed : BOOLEAN]]
  /\ result \in [Calls -> Results]
  /\ {triggered, aborted, queued, paused, woken, failed, ended} \subseteq BOOLEAN
  /\ watch \in {"subscribe", "check", "wait", "over"}

Init ==
  /\ exclusive \in [Calls -> BOOLEAN]
  /\ interruptible \in [Calls -> BOOLEAN]
  /\ next = 1 /\ lastExclusive = 0 /\ sharedTasks = {}
  /\ awaits = [i \in Calls |-> {}]
  /\ tool = [i \in Calls |-> Idle]
  /\ result = [i \in Calls |-> "none"]
  /\ triggered = FALSE /\ aborted = FALSE /\ queued = FALSE
  /\ paused = FALSE
  /\ watch = IF Immediate THEN "subscribe" ELSE "over"
  /\ woken = FALSE /\ failed = FALSE /\ ended = FALSE

\* The signal a call is given: steering and peers abort pure waits only.
Signalled(i) == aborted \/ (interruptible[i] /\ triggered)

(*************************** scheduling *************************************)
\* Mutant: an exclusive call waits for exclusive calls only.
ScheduleBehindExclusive ==
  /\ next \in Calls
  /\ awaits' = [awaits EXCEPT ![next] = IF lastExclusive = 0 THEN {} ELSE {lastExclusive}]
  /\ lastExclusive' = IF exclusive[next] THEN next ELSE lastExclusive
  /\ sharedTasks' = {}
  /\ next' = next + 1
  /\ UNCHANGED <<kinds, tools, triggered, aborted, world, watch, woken, failed, ended>>

Schedule ==
  /\ next \in Calls
  /\ LET first == IF lastExclusive = 0 THEN {} ELSE {lastExclusive}
     IN  IF exclusive[next]
         THEN /\ awaits' = [awaits EXCEPT ![next] = first \cup sharedTasks]
              /\ lastExclusive' = next
              /\ sharedTasks' = {}
         ELSE /\ awaits' = [awaits EXCEPT ![next] = first]
              /\ sharedTasks' = sharedTasks \cup {next}
              /\ UNCHANGED lastExclusive
  /\ next' = next + 1
  /\ UNCHANGED <<kinds, tools, triggered, aborted, world, watch, woken, failed, ended>>

\* The loop is synchronous: no call starts before all are scheduled.
Scheduled == next = N + 1

\* The batch runs and is not aborted: after that nobody reads its messages.
Live == Scheduled /\ ~ended /\ ~aborted

(*************************** steering checks ********************************)
\* What a check finds: nothing when the run is aborted or its messages wait for
\* the end of the batch.
Interrupts == Immediate /\ ~aborted /\ queued

CheckSteering == triggered' = (triggered \/ Interrupts)

(*************************** a call *****************************************)
Move(i, pc) == tool' = [tool EXCEPT ![i].pc = pc] /\ UNCHANGED result

\* A call that is answered before it starts is not followed by a check.
Refuse(i, r) ==
  /\ tool' = [tool EXCEPT ![i].pc = "settled"]
  /\ result' = [result EXCEPT ![i] = r]

\* runTool ends with a check for steering, which may throw.
Settle(i, r) ==
  /\ result' = [result EXCEPT ![i] = r]
  /\ \/ /\ tool' = [tool EXCEPT ![i] = [pc |-> "settled", completed |-> FALSE]]
        /\ CheckSteering /\ UNCHANGED failed
     \/ /\ Immediate /\ ~aborted
        /\ tool' = [tool EXCEPT ![i] = [pc |-> "rejected", completed |-> FALSE]]
        /\ failed' = TRUE /\ UNCHANGED triggered

\* Past the gate: a call that was refused in preparation or is aborted by now is
\* answered at once, any other starts.
Enter(i) ==
  \/ Refuse(i, "own")
  \/ Signalled(i) /\ Refuse(i, "lost")
  \/ ~Signalled(i) /\ Move(i, "running")

\* Mutant: an interrupt skips every call that has not started.
BeginUnlessTriggered(i) ==
  /\ Scheduled /\ tool[i].pc = "waiting"
  /\ \A j \in awaits[i] : tool[j].pc = "settled"
  /\ \/ triggered /\ Move(i, "settled")
     \/ /\ ~triggered
        /\ IF paused /\ ~Signalled(i) THEN Move(i, "parked") ELSE Enter(i)
  /\ UNCHANGED <<kinds, schedule, triggered, aborted, world, watch, woken, failed, ended>>

Begin(i) ==
  /\ Scheduled /\ tool[i].pc = "waiting"
  /\ \A j \in awaits[i] : tool[j].pc = "settled"
  /\ \/ triggered /\ interruptible[i] /\ Move(i, "settled")
     \/ /\ ~(triggered /\ interruptible[i])
        /\ IF paused /\ ~Signalled(i) THEN Move(i, "parked") ELSE Enter(i)
  /\ UNCHANGED <<kinds, schedule, triggered, aborted, world, watch, woken, failed, ended>>

\* A promise this one waits for was rejected: the call never runs.
Reject(i) ==
  /\ Scheduled /\ tool[i].pc = "waiting"
  /\ \E j \in awaits[i] : tool[j].pc = "rejected"
  /\ Move(i, "rejected")
  /\ UNCHANGED <<kinds, schedule, triggered, aborted, world, watch, woken, failed, ended>>

\* Mutant: the parked call does not listen to its signal.
UnparkOnResume(i) ==
  /\ tool[i].pc = "parked" /\ ~paused
  /\ Enter(i)
  /\ UNCHANGED <<kinds, schedule, triggered, aborted, world, watch, woken, failed, ended>>

Unpark(i) ==
  /\ tool[i].pc = "parked" /\ (~paused \/ Signalled(i))
  /\ Enter(i)
  /\ UNCHANGED <<kinds, schedule, triggered, aborted, world, watch, woken, failed, ended>>

\* execute returned a result, or threw.  The hook afterToolCall is awaited,
\* unless the call was aborted before it had a result.
Returns(i) ==
  /\ tool[i].pc = "running"
  /\ tool' = [tool EXCEPT ![i] = [pc |-> "after", completed |-> TRUE]]
  /\ UNCHANGED <<kinds, schedule, result, triggered, aborted, world, watch, woken, failed, ended>>

Throws(i) ==
  /\ tool[i].pc = "running"
  /\ IF Signalled(i)
     THEN Settle(i, IF triggered THEN "lost" ELSE "own")
     ELSE Move(i, "after") /\ UNCHANGED <<triggered, failed>>
  /\ UNCHANGED <<kinds, schedule, aborted, world, watch, woken, ended>>

\* Mutant: every call whose signal fired is answered as interrupted.
ConcludeAsInterrupted(i) ==
  /\ tool[i].pc = "after"
  /\ Settle(i, IF triggered /\ Signalled(i) THEN "lost" ELSE "own")
  /\ UNCHANGED <<kinds, schedule, aborted, world, watch, woken, ended>>

\* The hook is over, and may have failed.  A call that was aborted meanwhile and
\* has no result of its own is answered as interrupted, every other with what
\* it did.
Conclude(i) ==
  /\ tool[i].pc = "after"
  /\ LET dropped == triggered /\ Signalled(i) /\ ~tool[i].completed
     IN  Settle(i, IF dropped THEN "lost" ELSE "own")
  /\ UNCHANGED <<kinds, schedule, aborted, world, watch, woken, ended>>

\* When every promise has settled, calls without a result are answered.
EndBatch ==
  /\ Scheduled /\ ~ended
  /\ \A i \in Calls : tool[i].pc \in {"settled", "rejected"}
  /\ result' = [i \in Calls |-> IF result[i] = "none" THEN "lost" ELSE result[i]]
  /\ watch' = "over" /\ ended' = TRUE
  /\ UNCHANGED <<kinds, schedule, tool, triggered, aborted, world, woken, failed>>

(*************************** the watch **************************************)
\* The watch subscribes to the queue before it checks it: a message that comes
\* between the two resolves the wait.
Subscribe ==
  /\ Scheduled /\ watch = "subscribe"
  /\ woken' = queued
  /\ watch' = "check"
  /\ UNCHANGED <<kinds, schedule, tools, triggered, aborted, world, failed, ended>>

WatchCheck ==
  /\ watch = "check"
  /\ \/ /\ CheckSteering
        /\ watch' = IF aborted \/ triggered' THEN "over" ELSE "wait"
        /\ UNCHANGED failed
     \/ /\ ~aborted /\ watch' = "over" /\ failed' = TRUE /\ UNCHANGED triggered
  /\ UNCHANGED <<kinds, schedule, tools, aborted, world, woken, ended>>

\* Mutant: the watch ends with the first message.
WatchWaitOnce ==
  /\ watch = "wait" /\ (woken \/ aborted)
  /\ watch' = "over"
  /\ UNCHANGED <<kinds, schedule, tools, triggered, aborted, world, woken, failed, ended>>

WatchWait ==
  /\ watch = "wait" /\ (woken \/ aborted)
  /\ watch' = IF aborted THEN "over" ELSE "subscribe"
  /\ UNCHANGED <<kinds, schedule, tools, triggered, aborted, world, woken, failed, ended>>

\* A check or the timer finds an interrupting message of a peer.
PeerInterrupts ==
  /\ Live /\ Immediate /\ ~triggered
  /\ triggered' = TRUE
  /\ UNCHANGED <<kinds, schedule, tools, aborted, world, watch, woken, failed, ended>>

(*************************** the world **************************************)
Steer ==
  /\ Live /\ ~queued
  /\ queued' = TRUE
  /\ woken' = (woken \/ watch \in {"check", "wait"})
  /\ UNCHANGED <<kinds, schedule, tools, triggered, aborted, paused, watch, failed, ended>>

\* The user takes the queued messages back.
ClearSteering ==
  /\ Live /\ queued
  /\ queued' = FALSE
  /\ UNCHANGED <<kinds, schedule, tools, triggered, aborted, paused, watch, woken, failed, ended>>

Abort ==
  /\ Live
  /\ aborted' = TRUE
  /\ UNCHANGED <<kinds, schedule, tools, triggered, world, watch, woken, failed, ended>>

Pause ==
  /\ Live /\ ~paused
  /\ paused' = TRUE
  /\ UNCHANGED <<kinds, schedule, tools, triggered, aborted, queued, watch, woken, failed, ended>>

Resume ==
  /\ paused
  /\ paused' = FALSE
  /\ UNCHANGED <<kinds, schedule, tools, triggered, aborted, queued, watch, woken, failed, ended>>

CallStep(i) ==
  Begin(i) \/ Reject(i) \/ Unpark(i) \/ Conclude(i)

Next ==
  \/ Schedule \/ EndBatch
  \/ \E i \in Calls : CallStep(i) \/ Returns(i) \/ Throws(i)
  \/ Subscribe \/ WatchCheck \/ WatchWait \/ PeerInterrupts
  \/ Steer \/ ClearSteering \/ Abort \/ Pause \/ Resume

\* Work comes to an end by itself; a pure wait need not, but gives up when its
\* signal fires.
ToolProgress(i) ==
  /\ ~interruptible[i] \/ Signalled(i)
  /\ Returns(i) \/ Throws(i)

Spec ==
  /\ Init
  /\ [][Next]_vars
  /\ WF_vars(Schedule) /\ WF_vars(EndBatch)
  /\ \A i \in Calls : WF_vars(CallStep(i)) /\ WF_vars(ToolProgress(i))
  /\ WF_vars(Subscribe \/ WatchCheck \/ WatchWait)

(*************************** properties *************************************)
Running(i) == tool[i].pc \in {"running", "after"}

\* Where a call is, seen from outside: one parked at the gate has not started.
Place(i) == CASE Running(i) -> "working"
              [] tool[i].pc = "settled" -> "done"
              [] tool[i].pc = "rejected" -> "broken"
              [] OTHER -> "fresh"

Ordered == INSTANCE OrderedCalls WITH
             at <- [i \in Calls |-> Place(i)], answer <- result, over <- ended

\* The promises each call waits for, the gate, the interrupts and the aborts
\* come to no more than this: calls that exclude each other take their turns in
\* the order of the message, and every call is answered once.
RunsInOrder == Ordered!OrderedSpec

\* An exclusive call runs alone.
ExclusiveRunsAlone ==
  \A i, j \in Calls : i # j /\ exclusive[i] /\ Running(i) => ~Running(j)

\* The calls never all wait for one another: a batch that runs has a call that
\* works or stands at the gate, or one that waits for nothing any more (it
\* starts, or is rejected with a promise it waited for), or it may end.
Answered(i) == tool[i].pc \in {"settled", "rejected"}

SomeCallMoves ==
  Scheduled /\ ~ended =>
    \/ \A i \in Calls : Answered(i)
    \/ \E i \in Calls : Running(i) \/ tool[i].pc = "parked"
    \/ \E i \in Calls : /\ tool[i].pc = "waiting"
                       /\ \A j \in awaits[i] : Answered(j)

\* The comment on runTool: "Non-interruptible work is never skipped, whatever
\* the source".  Only the abort of the run keeps work from running to its end,
\* or a check for steering that throws.
WorkIsNotSkipped ==
  ended /\ ~aborted /\ ~failed =>
    \A i \in Calls : ~interruptible[i] => result[i] = "own"

\* The comment on runTool: "a completed tool already ran its side effects, so
\* the model must see what actually happened".
CompletedResultKept ==
  [][\A i \in Calls : tool[i].completed => result'[i] # "lost"]_vars

\* Queued steering is not left waiting for a wait that has no end of its own:
\* the batch ends, unless the gate is closed, the message is taken back, or a
\* check threw.
SteerEndsWaits == Immediate /\ queued ~> ended \/ ~queued \/ paused \/ failed

\* Aborting the run ends the batch, the calls parked at a closed gate included.
AbortEndsBatch == aborted ~> ended
=============================================================================
