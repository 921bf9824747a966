---------------------------- MODULE CommandRunner ----------------------------
(***************************************************************************)
(* One command of TerminalTool (core/tools/terminal.ts): on the phone by   *)
(* OmpCoreBridge.execCommand, a waiting thread and two collector threads,  *)
(* on a workstation by RealProcessRunner's handlers of a child process.    *)
(*                                                                         *)
(* The command writes lines to its two pipes, may leave a heir that holds  *)
(* them (a background job), and ends by itself, by a signal of someone     *)
(* else, or killed by the runner.                                          *)
(***************************************************************************)
EXTENDS Integers

CONSTANTS
  Hosts,      \* the runners looked at, of "bridge" and "node"
  MaxLines    \* bound: lines written to a pipe

ASSUME HostsAreKnown == Hosts \subseteq {"bridge", "node"}
ASSUME MaxLinesIsNat == MaxLines \in Nat

Pipes == {"out", "err"}

VARIABLES
  host,      \* where the command runs
  pc,        \* of the call: "called", "waiting", "killed", "joinOut", "joinErr", "returned"
  child,     \* of the command: "unborn", "running", "ok", "failed", "signalled", "killed"
  heir,      \* a process the command has started holds the pipes
  written,   \* pipe -> lines written
  read,      \* pipe -> lines collected
  fired,     \* the runner's time is over
  result,    \* exit code, and the lines returned for each pipe
  bore       \* history: the command had a heir

runnerVars == <<host, pc, child, heir, written, read, fired, result, bore>>

Held       == child = "running" \/ heir
Drained(p) == ~Held /\ read[p] = written[p]
Nothing    == [p \in Pipes |-> 0]
Returns(code, lines) == pc' = "returned" /\ result' = [code |-> code, lines |-> lines]

-----------------------------------------------------------------------------
(***************************************************************************)
(* The command, its heir and its pipes.                                    *)
(***************************************************************************)
Write(p) ==
  /\ Held /\ written[p] < MaxLines
  /\ written' = [written EXCEPT ![p] = @ + 1]
  /\ UNCHANGED <<host, pc, child, heir, read, fired, result, bore>>

Bears ==
  /\ child = "running" /\ ~heir
  /\ heir' = TRUE /\ bore' = TRUE
  /\ UNCHANGED <<host, pc, child, written, read, fired, result>>

Ends ==
  /\ child = "running"
  /\ child' \in {"ok", "failed", "signalled"}
  /\ UNCHANGED <<host, pc, heir, written, read, fired, result, bore>>

HeirEnds ==
  /\ heir
  /\ heir' = FALSE
  /\ UNCHANGED <<host, pc, child, written, read, fired, result, bore>>

\* A collector thread reads a line, or the data handler is called.
Collect(p) ==
  /\ pc # "returned" /\ read[p] < written[p]
  /\ read' = [read EXCEPT ![p] = @ + 1]
  /\ UNCHANGED <<host, pc, child, heir, written, fired, result, bore>>

-----------------------------------------------------------------------------
(***************************************************************************)
(* Both runners: a command that is empty or cannot be started.             *)
(***************************************************************************)
Empty ==
  /\ pc = "called"
  /\ Returns("empty", Nothing)
  /\ UNCHANGED <<host, child, heir, written, read, fired, bore>>

Unstartable ==
  /\ pc = "called"
  /\ Returns("error", Nothing)
  /\ UNCHANGED <<host, child, heir, written, read, fired, bore>>

Start ==
  /\ pc = "called"
  /\ pc' = "waiting"
  /\ child' = "running"
  /\ UNCHANGED <<host, heir, written, read, fired, result, bore>>

-----------------------------------------------------------------------------
(***************************************************************************)
(* execCommand.                                                            *)
(***************************************************************************)
\* getOutput() of both collectors.  A collector that is still at work races
\* with it on an unsynchronised StringBuilder: what it has read so far, or the
\* call throws (an old array with a new length) and the catch block answers.
ReturnsCollected(code) ==
  \/ Returns(code, read)
  \/ /\ \E p \in Pipes : ~Drained(p)
     /\ Returns("error", Nothing)

WaitForEnds ==
  /\ host = "bridge" /\ pc = "waiting" /\ child # "running"
  /\ pc' = "joinOut"
  /\ UNCHANGED <<host, child, heir, written, read, fired, result, bore>>

WaitForTimesOut ==
  /\ host = "bridge" /\ pc = "waiting" /\ child = "running"
  /\ fired' = TRUE
  /\ child' = "killed"
  /\ pc' = "killed"
  /\ UNCHANGED <<host, heir, written, read, result, bore>>

AnswerTimeout ==
  /\ host = "bridge" /\ pc = "killed"
  /\ ReturnsCollected("timeout")
  /\ UNCHANGED <<host, child, heir, written, read, fired, bore>>

\* join(1000) ends with the collector, or while a heir holds the pipe: what is
\* in a closed pipe is taken to be read within the second.
Joined(p) == Drained(p) \/ heir

\* Mutants: the output is read without waiting; the wait has no limit.
JoinAtOnce ==
  /\ host = "bridge" /\ pc = "joinOut"
  /\ ReturnsCollected(IF child = "ok" THEN "ok" ELSE "failed")
  /\ UNCHANGED <<host, child, heir, written, read, fired, bore>>

JoinWithoutLimit ==
  /\ host = "bridge" /\ pc = "joinOut" /\ Drained("out")
  /\ pc' = "joinErr"
  /\ UNCHANGED <<host, child, heir, written, read, fired, result, bore>>

JoinOut ==
  /\ host = "bridge" /\ pc = "joinOut" /\ Joined("out")
  /\ pc' = "joinErr"
  /\ UNCHANGED <<host, child, heir, written, read, fired, result, bore>>

\* exitValue() of a process that a signal ended is 128 and the signal.
JoinErr ==
  /\ host = "bridge" /\ pc = "joinErr" /\ Joined("err")
  /\ ReturnsCollected(IF child = "ok" THEN "ok" ELSE "failed")
  /\ UNCHANGED <<host, child, heir, written, read, fired, bore>>

-----------------------------------------------------------------------------
(***************************************************************************)
(* RealProcessRunner.exec.                                                 *)
(***************************************************************************)
Kill == child' = IF child = "running" THEN "killed" ELSE child

\* It may fire after the command has ended, until "close" has come.
Timer ==
  /\ host = "node" /\ pc = "waiting" /\ ~fired
  /\ fired' = TRUE
  /\ Kill
  /\ UNCHANGED <<host, pc, heir, written, read, result, bore>>

\* "close" comes when the command has ended and both pipes are at their end.
\* The exit code of a process that a signal ended is null, answered as 0.
Close ==
  /\ host = "node" /\ pc = "waiting"
  /\ \A p \in Pipes : Drained(p)
  /\ Returns(IF fired THEN "timeout" ELSE IF child = "failed" THEN "failed" ELSE "ok", read)
  /\ UNCHANGED <<host, child, heir, written, read, fired, bore>>

-----------------------------------------------------------------------------
RunnerInit ==
  /\ host \in Hosts
  /\ pc = "called"
  /\ child = "unborn"
  /\ heir = FALSE
  /\ written = Nothing
  /\ read = Nothing
  /\ fired = FALSE
  /\ result = [code |-> "none", lines |-> Nothing]
  /\ bore = FALSE

\* A step of the runner.
RunnerStep ==
  \/ Empty \/ Unstartable \/ Start
  \/ WaitForEnds \/ WaitForTimesOut \/ AnswerTimeout \/ JoinOut \/ JoinErr
  \/ Timer \/ Close

RunnerNext ==
  \/ \E p \in Pipes : Write(p)
  \/ Bears
  \/ Ends
  \/ HeirEnds
  \/ \E p \in Pipes : Collect(p)
  \/ Empty
  \/ Unstartable
  \/ Start
  \/ WaitForEnds
  \/ WaitForTimesOut
  \/ AnswerTimeout
  \/ JoinOut
  \/ JoinErr
  \/ Timer
  \/ Close

RunnerSpec == RunnerInit /\ [][RunnerNext]_runnerVars

\* Threads run, timers fire, data and "close" are delivered.  The command and
\* its heir need not do anything, ever.
FairRunnerSpec ==
  /\ RunnerSpec
  /\ WF_runnerVars(RunnerStep)
  /\ \A p \in Pipes : WF_runnerVars(Collect(p))

-----------------------------------------------------------------------------
RunnerTypeOK ==
  /\ host \in Hosts
  /\ pc \in {"called", "waiting", "killed", "joinOut", "joinErr", "returned"}
  /\ child \in {"unborn", "running", "ok", "failed", "signalled", "killed"}
  /\ heir \in BOOLEAN /\ bore \in BOOLEAN /\ fired \in BOOLEAN
  /\ written \in [Pipes -> 0..MaxLines]
  /\ read \in [Pipes -> 0..MaxLines]
  /\ \A p \in Pipes : read[p] <= written[p]
  /\ result \in [code : {"none", "empty", "error", "timeout", "ok", "failed"},
                 lines : [Pipes -> 0..MaxLines]]

\* A call that returns the command's own exit code returns all it has written;
\* the bridge may cut it short only if a heir held the pipes.
WholeOutput ==
  (result.code \in {"ok", "failed"} /\ ~(host = "bridge" /\ bore)) => result.lines = written

\* Exit code 0 is never returned for a command that has failed or that the
\* runner has killed, whatever the timer, the end and the pipes race.
ZeroMeansSuccess ==
  result.code = "ok" => child = "ok" \/ (host = "node" /\ child = "signalled")

\* The call returns, whatever the command does: on a workstation unless a heir
\* holds the pipes for ever.
CallReturns == <>(pc = "returned") \/ <>[](host = "node" /\ heir)
=============================================================================
