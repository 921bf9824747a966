------------------------------ MODULE AgentRuns ------------------------------
(***************************************************************************)
(* The runs of an Agent (packages/agent/src/agent.ts) and the loop each of   *)
(* them is (runLoopBody, packages/agent/src/agent-loop.ts): how steering and *)
(* follow-up messages come from their queues into the transcript, what the   *)
(* model is shown, and how runs follow one another.                          *)
(*                                                                           *)
(* The transcript is state.messages, which grows by the events of the run;   *)
(* ctx is the loop's own list.  The events wait in a stream that the run     *)
(* reads in order, up to agent_end: they are taken as read at once, which no *)
(* other run can tell, since none starts before.                             *)
(*                                                                           *)
(* A message of the loop is its kind: "call" is a reply that calls tools and *)
(* "result" stands for the results of them all (ToolBatch says how they come *)
(* about); the calls of a reply that was "cut" off are never run; an "error" *)
(* has the placeholders of its calls with it.  A "discarded" reply is in the *)
(* transcript only, until the next run takes that for its context; it may    *)
(* hold calls that never ran, but it has stopReason "error", so no run goes  *)
(* on from them and transformMessages does not send them.                    *)
(***************************************************************************)
EXTENDS Integers, Sequences, FiniteSets

CONSTANTS
  MaxRuns,     \* bound: prompts and continuations
  Prompts, Steers, FollowUps,   \* the messages of the user
  MaxReplies,  \* bound: replies that make a run go on
  MaxForced,   \* MAX_SOFT_TOOL_ESCALATIONS
  MaxLeaks,    \* leaks in a row that are sampled again, or recovered from
  MaxTroubles  \* bound: aborts, deadlines, failures, leaks and detours

ASSUME BoundsAssumption ==
  {MaxRuns, MaxReplies, MaxForced, MaxLeaks, MaxTroubles} \subseteq Nat

Runs == 1..MaxRuns
NoRun == 0
Messages == Prompts \cup Steers \cup FollowUps
Kinds == {"reply", "call", "cut", "result", "error", "discarded"}

ASSUME MessagesAssumption ==
  /\ Prompts \cap Steers = {} /\ Steers \cap FollowUps = {} /\ FollowUps \cap Prompts = {}
  /\ Messages \cap Kinds = {}

VARIABLES
  steering, followUps,  \* the queues
  oneAtATime,           \* steeringMode and followUpMode
  transcript,           \* state.messages
  streaming,            \* state.isStreaming
  ctl,                  \* the run whose controller abort() reaches
  run,                  \* what each run holds
  replies, troubles,    \* what the bounds count
  steered, asked        \* history: steering in its order; the other messages

queues == <<steering, followUps>>
agent == <<streaming, ctl>>
bounds == <<replies, troubles>>
history == <<steered, asked>>
vars == <<queues, oneAtATime, transcript, agent, run, bounds, history>>

InSeq(s) == {s[i] : i \in DOMAIN s}
Last(s) == s[Len(s)]
Front(s) == SubSeq(s, 1, Len(s) - 1)

\* input: messages in ctx whose events are still to come; held: messages taken
\* from a queue that are not in ctx; more: hasMoreToolCalls; leaks and saved:
\* harmonyRetryAttempt and harmonyTruncateResumeCount; muted (history): messages
\* of the input have been passed over.
NewRun == [pc |-> "free", aborted |-> FALSE, expired |-> FALSE, input |-> <<>>,
           held |-> <<>>, ctx |-> <<>>, more |-> TRUE, skip |-> FALSE, leaks |-> 0,
           saved |-> 0, forced |-> 0, muted |-> FALSE, end |-> "none"]

\* The loop can still take messages and write the transcript.
Active(r) == run[r].pc \notin {"free", "closing", "over"}

Init ==
  /\ steering = <<>> /\ followUps = <<>>
  /\ oneAtATime \in BOOLEAN
  /\ transcript = <<>>
  /\ streaming = FALSE /\ ctl = NoRun
  /\ run = [r \in Runs |-> NewRun]
  /\ replies = 0 /\ troubles = 0
  /\ steered = <<>> /\ asked = {}

-----------------------------------------------------------------------------
(* What the steps of a run are made of.                                      *)

Becomes(r, k) == run' = [run EXCEPT ![r] = k]

\* The messages a poll takes.
First(q) == SubSeq(q, 1, IF oneAtATime /\ q # <<>> THEN 1 ELSE Len(q))

\* Mutant: the poll does not look at the signal.
TakeAlways(r, q) == First(q)

\* A poll of an aborted run takes nothing.
Take(r, q) == IF run[r].aborted THEN <<>> ELSE First(q)

\* Mutant: what "all" mode takes stays in the queue.
LeftUnlessAll(r, q) == IF oneAtATime THEN SubSeq(q, Len(Take(r, q)) + 1, Len(q)) ELSE q

\* The rest of a queue once a poll has taken its share.
Left(r, q) == SubSeq(q, Len(Take(r, q)) + 1, Len(q))

\* The hook before a dequeue; without messages there is none to run.
HookRuns(r, q) == ~run[r].aborted /\ q # <<>>

\* Something goes wrong.
Trouble == troubles < MaxTroubles /\ troubles' = troubles + 1

\* Mutant: the messages of the deferred events are forgotten.
EmitNothing(r) == transcript' = transcript

\* The events of the deferred messages are out.
Emit(r) == transcript' = transcript \o run[r].input

\* The turn is open already: its reply leaked and is sampled again.
TurnOpen(r) == run[r].leaks > 0

\* The deferred events come out as the turn is opened, so those of messages taken
\* into an open turn never do.
OpenTurn(r) == IF TurnOpen(r) THEN UNCHANGED transcript ELSE Emit(r)
Opened(r) ==
  [run[r] EXCEPT !.input = <<>>, !.muted = @ \/ (TurnOpen(r) /\ run[r].input # <<>>)]

\* The gate stops the run: the deferred events come out all the same, and an open
\* turn gets a last word.
GateStop(r) == IF TurnOpen(r) THEN <<"error">> ELSE <<>>
Stopped(r) == [run[r] EXCEPT !.input = <<>>, !.ctx = @ \o GateStop(r)]

\* The loop says ms: to the model's context and by events, which the agent takes from
\* the stream one by one and the model with the step that pushes them.
Says(r, k, ms) ==
  /\ transcript' = transcript \o ms
  /\ Becomes(r, [k EXCEPT !.ctx = @ \o ms])

\* agent_end is pushed, or the loop throws.
Ended(k, why) == [k EXCEPT !.pc = "ending", !.end = why, !.held = <<>>]
Failed(k) == [k EXCEPT !.pc = "failing", !.held = <<>>]

\* What the run held is given up.
Closing == [NewRun EXCEPT !.pc = "closing"]

\* A run is claimed: prompt() and continue() refuse while one is going.
Claims(r) ==
  /\ ~streaming
  /\ run[r].pc = "free" /\ \A s \in 1..(r - 1) : run[s].pc # "free"
  /\ streaming' = TRUE /\ ctl' = r

\* Messages are named in the order they come in.
NextOf(S) == LET F == S \ (asked \cup InSeq(steered)) IN IF F = {} THEN {} ELSE {CHOOSE m \in F : TRUE}

-----------------------------------------------------------------------------
(* prompt() and continue().                                                  *)

Prompt(r, p) ==
  /\ Claims(r)
  /\ Becomes(r, [NewRun EXCEPT !.pc = "poll", !.input = <<p>>, !.ctx = Append(transcript, p)])
  /\ asked' = asked \cup {p}
  /\ UNCHANGED <<queues, oneAtATime, transcript, bounds, steered>>

\* A transcript that ends with a reply needs a queued message; one that ends
\* with calls or with a message goes on from there.
Continue(r) ==
  /\ Claims(r)
  /\ LET open == transcript # <<>> /\ Last(transcript) \notin {"reply", "error", "discarded"}
     IN  Becomes(r, [NewRun EXCEPT !.pc = IF open THEN "poll" ELSE "takeSteering",
                                   !.ctx = transcript])
  /\ UNCHANGED <<queues, oneAtATime, transcript, bounds, history>>

\* The host strips the results of the last calls (replaceMessages) and continues,
\* to have the calls run again.
Retry(r) ==
  /\ Claims(r)
  /\ Len(transcript) > 1 /\ Last(transcript) = "result"
  /\ transcript[Len(transcript) - 1] = "call"
  /\ transcript' = SubSeq(transcript, 1, Len(transcript) - 1)
  /\ Becomes(r, [NewRun EXCEPT !.pc = "poll", !.ctx = transcript'])
  /\ UNCHANGED <<queues, oneAtATime, bounds, history>>

\* The steering taken is the input of the run; otherwise follow-ups are looked for.
TakeSteering(r) ==
  /\ run[r].pc = "takeSteering"
  /\ LET ms == Take(r, steering) IN
     Becomes(r, IF ms = <<>> THEN [run[r] EXCEPT !.pc = "takeFollowUps"]
                ELSE [run[r] EXCEPT !.pc = "poll", !.input = ms, !.ctx = @ \o ms,
                                    !.skip = TRUE])
  /\ steering' = Left(r, steering)
  /\ UNCHANGED <<followUps, oneAtATime, transcript, agent, bounds, history>>

TakeFollowUps(r) ==
  /\ run[r].pc = "takeFollowUps"
  /\ LET ms == Take(r, followUps) IN
     Becomes(r, IF ms = <<>> THEN Closing
                ELSE [run[r] EXCEPT !.pc = "poll", !.input = ms, !.ctx = @ \o ms])
  /\ followUps' = Left(r, followUps)
  /\ UNCHANGED <<steering, oneAtATime, transcript, agent, bounds, history>>

-----------------------------------------------------------------------------
(* The loop up to the call of the model.                                     *)

\* The first poll for steering, then the calls an earlier run left without a
\* result, if the transcript ends with such.
Poll(r) ==
  /\ run[r].pc = "poll"
  /\ \/ /\ run[r].expired
        /\ Emit(r) /\ Becomes(r, Ended([run[r] EXCEPT !.input = <<>>], "deadline"))
        /\ UNCHANGED steering
     \/ /\ ~run[r].expired
        /\ LET skips == run[r].skip /\ ~run[r].aborted
               next  == IF Last(run[r].ctx) = "call" THEN "resume" ELSE "top"
           IN  /\ steering' = IF skips THEN steering ELSE Left(r, steering)
               /\ Becomes(r, [run[r] EXCEPT !.pc = next, !.skip = FALSE,
                                            !.held = IF skips THEN <<>> ELSE Take(r, steering)])
        /\ UNCHANGED transcript
  /\ UNCHANGED <<followUps, oneAtATime, agent, bounds, history>>

\* The calls left without a result are run.
Resume(r) ==
  /\ run[r].pc = "resume"
  /\ \/ Says(r, [run[r] EXCEPT !.pc = "top"], <<"result">>)
     \/ Says(r, [Ended(run[r], "yielded") EXCEPT !.aborted = TRUE], <<"result">>)
  /\ UNCHANGED <<queues, oneAtATime, agent, bounds, history>>

\* The messages taken go into the context, with their events deferred; between
\* turns messages of the host, which are not modelled, have joined them.  After
\* the deadline the run ends instead.
Top(r) ==
  /\ run[r].pc \in {"top", "asides"}
  /\ LET ms == run[r].held IN
     IF run[r].expired
     THEN /\ Emit(r)
          /\ Becomes(r, Ended([run[r] EXCEPT !.input = <<>>], "deadline"))
     ELSE /\ Becomes(r, [run[r] EXCEPT !.pc = "prepare", !.input = @ \o ms, !.ctx = @ \o ms,
                                       !.held = <<>>])
          /\ UNCHANGED transcript
  /\ UNCHANGED <<queues, oneAtATime, agent, bounds, history>>

\* The call is prepared, or stopped by the gate.
Prepare(r) ==
  /\ run[r].pc = "prepare"
  /\ \/ OpenTurn(r) /\ Becomes(r, [Opened(r) EXCEPT !.pc = "stream"])
     \/ /\ transcript' = transcript \o run[r].input \o GateStop(r)
        /\ Becomes(r, Ended(Stopped(r), "stopped"))
  /\ UNCHANGED <<queues, oneAtATime, agent, bounds, history>>

-----------------------------------------------------------------------------
(* The call of the model and what follows from its reply.                    *)

\* A reply has come: in full, or recovered.
Sampled(r) ==
  [run[r] EXCEPT !.leaks = 0, !.saved = IF run[r].pc = "recovered" THEN @ ELSE 0]
Replied(r) == [Sampled(r) EXCEPT !.forced = 0]
\* The bound on replies that keep the run going.
OneMoreReply == replies < MaxReplies /\ replies' = replies + 1

\* A reply without calls; one that only paused the turn has the model called
\* again.
Reply(r) ==
  /\ run[r].pc = "stream"
  /\ \/ /\ Says(r, [Replied(r) EXCEPT !.pc = "boundary", !.more = FALSE], <<"reply">>)
        /\ UNCHANGED replies
     \/ /\ OneMoreReply
        /\ Says(r, [Replied(r) EXCEPT !.pc = "boundary", !.more = TRUE], <<"reply">>)
  /\ UNCHANGED <<queues, oneAtATime, agent, troubles, history>>

\* Mutant: the calls of a reply that was cut off are dropped.
CallWithoutPlaceholders(r) ==
  /\ \/ run[r].pc = "stream" /\ OneMoreReply
     \/ run[r].pc = "recovered" /\ UNCHANGED replies
  /\ \/ Says(r, [Replied(r) EXCEPT !.pc = "tools"], <<"call">>)
     \/ Says(r, [Replied(r) EXCEPT !.pc = "boundary", !.more = TRUE], <<"call">>)
  /\ UNCHANGED <<queues, oneAtATime, agent, troubles, history>>

\* A reply with calls: they are run, or answered with placeholders because the
\* reply was cut off at its length or the deadline has passed.
Call(r) ==
  /\ \/ run[r].pc = "stream" /\ OneMoreReply
     \/ run[r].pc = "recovered" /\ UNCHANGED replies
  /\ \/ Says(r, [Replied(r) EXCEPT !.pc = "tools"], <<"call">>)
     \/ Says(r, [Replied(r) EXCEPT !.pc = "boundary", !.more = ~run[r].expired],
             <<"cut", "result">>)
  /\ UNCHANGED <<queues, oneAtATime, agent, troubles, history>>

\* A reply that ignores the tool the host requires: its calls are skipped and
\* the tool is forced, until the run gives up.  (Without calls it is a reply that
\* has the model called again, or an error.)
Detour(r) ==
  /\ run[r].pc \in {"stream", "recovered"}
  /\ LET k == Sampled(r) IN
     IF run[r].forced < MaxForced
     THEN /\ Says(r, [k EXCEPT !.pc = "boundary", !.more = TRUE, !.forced = @ + 1],
                  <<"call", "result">>)
          /\ Trouble
     ELSE Says(r, Failed(k), <<"call">>) /\ UNCHANGED troubles
  /\ UNCHANGED <<queues, oneAtATime, agent, replies, history>>

\* The stream ends with an error or by the signal: the calls that had come get
\* placeholders and the run ends.
Breaks(r) ==
  /\ run[r].pc = "stream"
  /\ Trouble \/ (run[r].aborted /\ UNCHANGED troubles)
  /\ \E ms \in {<<"error">>, <<"cut", "result">>} : Says(r, Ended(run[r], "broken"), ms)
  /\ UNCHANGED <<queues, oneAtATime, agent, replies, history>>

\* The reply leaks the model's protocol: what had been said of it stays in the
\* transcript, calls and all.  The same turn is to be sampled again (the inner loop goes on only
\* if the last reply had made it to), or a call is recovered from the reply and
\* stands for it, or the loop gives up: after too many, or as the hook that is
\* told of the leak throws.
Leaks(r) ==
  /\ run[r].pc = "stream"
  /\ transcript' = Append(transcript, "discarded")
  /\ \/ /\ run[r].leaks < MaxLeaks /\ Trouble /\ UNCHANGED replies
        /\ Becomes(r, [run[r] EXCEPT !.leaks = @ + 1,
                                     !.pc = IF run[r].more THEN "top" ELSE "yield"])
     \/ /\ run[r].saved < MaxLeaks /\ Trouble /\ OneMoreReply
        /\ Becomes(r, [run[r] EXCEPT !.saved = @ + 1, !.leaks = 0, !.pc = "recovered"])
     \/ /\ Trouble \/ (MaxLeaks \in {run[r].leaks, run[r].saved} /\ UNCHANGED troubles)
        /\ Becomes(r, Failed(run[r])) /\ UNCHANGED replies
  /\ UNCHANGED <<queues, oneAtATime, agent, history>>

\* The batch of tools is over.  One of them may have been the last word of the
\* run: it aborts the run's signal.
Tools(r) ==
  /\ run[r].pc = "tools"
  /\ \E yields \in BOOLEAN :
       Says(r, [run[r] EXCEPT !.pc = "boundary", !.more = ~yields, !.aborted = @ \/ yields],
            <<"result">>)
  /\ UNCHANGED <<queues, oneAtATime, agent, bounds, history>>

\* Mutant: only messages keep the loop going, not the results of tools.
OnwardIfTold(k, ms) == IF ms # <<>> THEN "top" ELSE "yield"

\* Where the loop goes from a boundary, with ms taken.
Onward(k, ms) == IF k.more THEN "asides" ELSE IF ms # <<>> THEN "top" ELSE "yield"

\* The turn is over: the poll for steering.
Boundary(r) ==
  /\ run[r].pc = "boundary"
  /\ LET ms == Take(r, steering) IN
     \/ /\ run[r].expired /\ Becomes(r, Ended(run[r], "deadline"))
        /\ UNCHANGED steering
     \/ /\ ~run[r].expired
        /\ steering' = Left(r, steering)
        /\ Becomes(r, [run[r] EXCEPT !.pc = Onward(run[r], ms), !.held = ms])
  /\ UNCHANGED <<followUps, oneAtATime, transcript, agent, bounds, history>>

\* The run would end here: steering that came since.
Yield(r) ==
  /\ run[r].pc = "yield"
  /\ \/ run[r].expired /\ Becomes(r, Ended(run[r], "deadline")) /\ UNCHANGED steering
     \/ /\ ~run[r].expired
        /\ steering' = Left(r, steering)
        /\ Becomes(r, [run[r] EXCEPT !.pc = "late", !.held = Take(r, steering)])
  /\ UNCHANGED <<followUps, oneAtATime, transcript, agent, bounds, history>>

\* Mutant: follow-ups take the place of the late steering.
LateReplaces(r) ==
  /\ run[r].pc = "late"
  /\ LET fs == Take(r, followUps)
         ms == IF fs = <<>> THEN run[r].held ELSE fs
     IN  /\ followUps' = Left(r, followUps)
         /\ Becomes(r, IF ms = <<>>
                       THEN Ended(run[r], IF run[r].aborted THEN "aborted" ELSE "normal")
                       ELSE [run[r] EXCEPT !.pc = "top", !.held = ms, !.more = TRUE])
  /\ UNCHANGED <<steering, oneAtATime, transcript, agent, bounds, history>>

\* The host's messages, then the follow-ups, which join the late steering; with
\* nothing at hand the run is over.
Late(r) ==
  /\ run[r].pc = "late"
  /\ LET ms == run[r].held \o Take(r, followUps) IN
     Becomes(r, IF ms = <<>>
                THEN Ended(run[r], IF run[r].aborted THEN "aborted" ELSE "normal")
                ELSE [run[r] EXCEPT !.pc = "top", !.held = ms, !.more = TRUE])
  /\ followUps' = Left(r, followUps)
  /\ UNCHANGED <<steering, oneAtATime, transcript, agent, bounds, history>>

\* A hook of the host or the stream itself throws: the hook before a dequeue,
\* in the preparation of a call, at the end of a turn, for the host's messages,
\* after a turn that the gate stopped, before the run yields.  What was in the
\* hands of the loop is lost, but the deferred events come out as they would.
HookThrows(r) ==
  /\ Trouble
  /\ \/ /\ \/ run[r].pc = "takeSteering" /\ HookRuns(r, steering)
           \/ run[r].pc = "takeFollowUps" /\ HookRuns(r, followUps)
        /\ Becomes(r, Closing) /\ UNCHANGED transcript
     \/ /\ \/ run[r].pc = "poll" /\ ~run[r].skip /\ HookRuns(r, steering)
           \/ run[r].pc \in {"prepare", "stream", "yield"}
           \/ run[r].pc \in {"boundary", "asides", "late"} /\ ~run[r].aborted
        /\ ~(run[r].pc = "yield" /\ run[r].expired)
        /\ OpenTurn(r) /\ Becomes(r, Failed(Opened(r)))
     \/ /\ run[r].pc = "prepare" /\ TurnOpen(r) /\ ~run[r].aborted
        /\ transcript' = transcript \o run[r].input \o GateStop(r)
        /\ Becomes(r, Failed(Stopped(r)))
     \/ /\ run[r].pc = "resume" /\ ~run[r].aborted
        /\ Says(r, Failed(run[r]), <<"result">>)
  /\ UNCHANGED <<queues, oneAtATime, agent, replies, history>>

-----------------------------------------------------------------------------
(* The end of a run.                                                         *)

\* agent_end is consumed: a listener can prompt before the run is closed.
AgentEnd(r) ==
  /\ run[r].pc = "ending"
  /\ streaming' = FALSE
  /\ Becomes(r, Closing)
  /\ UNCHANGED <<queues, oneAtATime, transcript, ctl, bounds, history>>

\* The loop threw: the error joins the transcript.
Fails(r) ==
  /\ run[r].pc = "failing"
  /\ transcript' = Append(transcript, "error")
  /\ Becomes(r, Closing)
  /\ UNCHANGED <<queues, oneAtATime, agent, bounds, history>>

\* Mutant: the run clears whatever is there.
CloseAlways(r) ==
  /\ run[r].pc = "closing"
  /\ Becomes(r, [NewRun EXCEPT !.pc = "over"])
  /\ streaming' = FALSE /\ ctl' = NoRun
  /\ UNCHANGED <<queues, oneAtATime, transcript, bounds, history>>

\* Mutant: a run whose place was taken is not closed.
CloseIfCurrent(r) ==
  /\ run[r].pc = "closing" /\ ctl = r
  /\ Becomes(r, [NewRun EXCEPT !.pc = "over"])
  /\ streaming' = FALSE /\ ctl' = NoRun
  /\ UNCHANGED <<queues, oneAtATime, transcript, bounds, history>>

\* The finally block: the promise of the run resolves, and the agent is free
\* again unless another run has taken its place.
Close(r) ==
  /\ run[r].pc = "closing"
  /\ Becomes(r, [NewRun EXCEPT !.pc = "over"])
  /\ IF ctl = r THEN streaming' = FALSE /\ ctl' = NoRun ELSE UNCHANGED agent
  /\ UNCHANGED <<queues, oneAtATime, transcript, bounds, history>>

-----------------------------------------------------------------------------
(* The user and the host.                                                    *)

Steer(m) ==
  /\ steering' = Append(steering, m) /\ steered' = Append(steered, m)
  /\ UNCHANGED <<followUps, oneAtATime, transcript, agent, run, bounds, asked>>

FollowUp(m) ==
  /\ followUps' = Append(followUps, m) /\ asked' = asked \cup {m}
  /\ UNCHANGED <<steering, oneAtATime, transcript, agent, run, bounds, steered>>

\* popLastSteer, popLastFollowUp.
TakeBack ==
  /\ \/ steering # <<>> /\ steering' = Front(steering) /\ UNCHANGED followUps
     \/ followUps # <<>> /\ followUps' = Front(followUps) /\ UNCHANGED steering
  /\ UNCHANGED <<oneAtATime, transcript, agent, run, bounds, history>>

Abort ==
  /\ ctl # NoRun /\ ~run[ctl].aborted /\ Trouble
  /\ Becomes(ctl, [run[ctl] EXCEPT !.aborted = TRUE])
  /\ UNCHANGED <<queues, oneAtATime, transcript, agent, replies, history>>

\* The deadline of a run passes, which aborts its signal.
Expire(r) ==
  /\ Active(r) /\ ~run[r].expired /\ Trouble
  /\ Becomes(r, [run[r] EXCEPT !.expired = TRUE, !.aborted = TRUE])
  /\ UNCHANGED <<queues, oneAtATime, transcript, agent, replies, history>>

RunStep(r) ==
  \/ TakeSteering(r) \/ TakeFollowUps(r) \/ Poll(r) \/ Resume(r) \/ Top(r) \/ Prepare(r)
  \/ Reply(r) \/ Call(r) \/ Detour(r) \/ Breaks(r) \/ HookThrows(r) \/ Leaks(r) \/ Tools(r)
  \/ Boundary(r) \/ Yield(r) \/ Late(r) \/ AgentEnd(r) \/ Fails(r) \/ Close(r)

Next ==
  \/ \E r \in Runs : RunStep(r) \/ Continue(r) \/ Retry(r) \/ Expire(r)
  \/ \E r \in Runs : \E p \in NextOf(Prompts) : Prompt(r, p)
  \/ \E m \in NextOf(Steers) : Steer(m)
  \/ \E m \in NextOf(FollowUps) : FollowUp(m)
  \/ TakeBack \/ Abort

\* Hooks, streams and tools settle, and promises resume the loop.
Spec == Init /\ [][Next]_vars /\ \A r \in Runs : WF_vars(RunStep(r))

-----------------------------------------------------------------------------
(* Properties.                                                               *)

PCs == {"free", "takeSteering", "takeFollowUps", "poll", "resume", "top", "prepare", "stream",
        "recovered", "tools", "boundary", "asides", "yield", "late", "ending", "failing", "closing", "over"}

Entries == Messages \cup Kinds

RunRecord ==
  [pc : PCs, aborted : BOOLEAN, expired : BOOLEAN, input : Seq(Messages),
   held : Seq(Messages), ctx : Seq(Entries), more : BOOLEAN, skip : BOOLEAN,
   leaks : 0..MaxLeaks, saved : 0..MaxLeaks, forced : 0..MaxForced, muted : BOOLEAN,
   end : {"none", "normal", "aborted", "deadline", "stopped", "broken", "yielded"}]

TypeOK ==
  /\ steering \in Seq(Steers) /\ followUps \in Seq(FollowUps)
  /\ {oneAtATime, streaming} \subseteq BOOLEAN
  /\ transcript \in Seq(Entries)
  /\ ctl \in Runs \cup {NoRun}
  /\ replies \in 0..MaxReplies /\ troubles \in 0..MaxTroubles
  /\ steered \in Seq(Steers) /\ asked \subseteq Messages
  /\ run \in [Runs -> RunRecord]

\* Whatever prompts, continuations and late ends interleave: a run that is not
\* over is the one abort() reaches, and the agent says that it is busy, so no
\* two loops write one transcript.
AbortReachesTheRun == \A r \in Runs : Active(r) => ctl = r /\ streaming

\* What the model is shown is what the transcript keeps, apart from replies that
\* were thrown away: no message is put in one and forgotten in the other, and they
\* stand in the same order.  Only a run that took messages into a turn that was
\* still open, for its reply had leaked, shows what the transcript never gets.
KeptAt(s) == {i \in DOMAIN s : s[i] # "discarded"}
Rank(s, i) == Cardinality({j \in KeptAt(s) : j <= i})
SameKept(a, b) ==
  /\ Cardinality(KeptAt(a)) = Cardinality(KeptAt(b))
  /\ \A i \in KeptAt(a), j \in KeptAt(b) : Rank(a, i) = Rank(b, j) => a[i] = b[j]
ModelSeesTranscript ==
  \A r \in Runs : run[r].pc = "stream" /\ ~run[r].muted => SameKept(run[r].ctx, transcript)

\* The comment on unpairedToolCallTail: a message between calls and their
\* results would break the provider's pairing.  Wherever steering and follow-ups
\* come from, the calls the model is shown are followed by their results, and
\* results follow calls.  Only a run that failed (its error stands there) or was
\* out of time before the calls could run again (the next prompt does) leaves
\* calls without results.
CallsArePaired ==
  \A r \in Runs : run[r].pc = "stream" =>
    LET s == run[r].ctx IN
    \A i \in DOMAIN s :
      /\ s[i] = "cut" => i < Len(s) /\ s[i + 1] = "result"
      /\ s[i] = "call" => i < Len(s) /\ s[i + 1] \in {"result", "error"} \cup Prompts
      /\ s[i] = "result" => i > 1 /\ s[i - 1] \in {"call", "cut"}

\* Steering is said in the order it was given, and no message is said twice,
\* whichever of the polls took it.
Position(s, m) == CHOOSE i \in DOMAIN s : s[i] = m
SaidInOrder ==
  \A i, j \in DOMAIN transcript : i < j /\ transcript[i] \in Messages =>
    /\ transcript[i] # transcript[j]
    /\ {transcript[i], transcript[j]} \subseteq Steers =>
         Position(steered, transcript[i]) < Position(steered, transcript[j])

\* CHANGELOG.md:146 and the comments at the polls: while an aborted run unwinds,
\* the queues keep all the user does not take back.
AbortKeepsQueues ==
  [][(\E r \in Runs : Active(r) /\ run[r].aborted) =>
       \/ TakeBack
       \/ InSeq(steering) \cup InSeq(followUps)
            \subseteq InSeq(steering') \cup InSeq(followUps')]_vars

\* A message the agent has accepted stays in a queue, in the hands of a run or
\* in the transcript, until the user takes it back.  What a run has taken from a
\* queue and not yet put in its context is lost when its deadline passes or a
\* hook throws just then, or a tool that is run again ends the run; the input of
\* a run never is (CHANGELOG.md:201), but that of an open turn is not said.
Accepted ==
  InSeq(steering) \cup InSeq(followUps) \cup (InSeq(transcript) \cap Messages)
    \cup UNION {InSeq(run[r].input) \cup InSeq(run[r].held) : r \in Runs}
OnlyBrokenRunsLose ==
  [][\A m \in Accepted \ Accepted' :
       \/ TakeBack
       \/ \E r \in Runs : \/ /\ m \in InSeq(run[r].held)
                             /\ \/ run'[r].pc = "failing"
                                \/ run'[r].end \in {"deadline", "yielded"}
                          \/ m \in InSeq(run[r].input) /\ TurnOpen(r)]_vars

\* A run that comes to its end by itself has answered the last message of the
\* user, unless the reply to it leaked and was not sampled again.
AnsweredUnlessLeaked ==
  \A r \in Runs : run[r].pc = "ending" /\ run[r].end = "normal" /\ run[r].leaks = 0 =>
    Last(transcript) = "reply"

\* The comment at the tool directive: a leaked reply is sampled again, "which
\* re-enter[s] the same turn".  So every run that ends by itself has answered.
LeakedTurnIsReentered ==
  \A r \in Runs : run[r].pc = "ending" /\ run[r].end = "normal" => Last(transcript) = "reply"

\* Every run comes to an end and its promise resolves, also that of a run whose
\* place another has taken, and the agent is not left streaming: it comes to rest
\* again and again.
RunsEnd == []<>(~streaming /\ \A r \in Runs : run[r].pc \in {"free", "over"})
=============================================================================
