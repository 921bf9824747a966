---------------------------- MODULE OrderedCalls ----------------------------
(***************************************************************************)
(* What the agent loop promises of the tool calls of one message, however   *)
(* their promises, the interrupts and the aborts interleave: a call and an  *)
(* exclusive one are never at work together, and take their turns in the    *)
(* order of the message; a call behind one that broke never works; every    *)
(* call is answered once.                                                   *)
(***************************************************************************)
EXTENDS Naturals

CONSTANT Calls    \* the calls, numbered in the order of the message

VARIABLES
  exclusive,      \* the calls that want to be alone
  at,             \* where each call is
  answer,         \* what each call is answered with
  over            \* the batch has returned

orderedVars == <<exclusive, at, answer, over>>

\* The earlier calls that exclude call i, or that it excludes.
InTheWay(i) == {j \in Calls : j < i /\ (exclusive[i] \/ exclusive[j])}

HasItsTurn(i) == at[i] = "fresh" /\ \A j \in InTheWay(i) : at[j] = "done"

Goes(i, place, r) ==
  /\ UNCHANGED <<exclusive, over>>
  /\ answer' = [answer EXCEPT ![i] = r]
  /\ at' = [at EXCEPT ![i] = place]

OrderedInit ==
  /\ exclusive \in [Calls -> BOOLEAN]
  /\ at = [i \in Calls |-> "fresh"]
  /\ answer = [i \in Calls |-> "none"]
  /\ over = FALSE

Start(i) == HasItsTurn(i) /\ Goes(i, "working", "none")

\* The call is let go without work, answered or for Close to answer.
LetGo(i) == HasItsTurn(i) /\ \E r \in {"none", "own", "lost"} : Goes(i, "done", r)

Finish(i) ==
  /\ at[i] = "working"
  /\ \E r \in {"own", "lost"}, place \in {"done", "broken"} : Goes(i, place, r)

\* The call stood behind one that broke.
Drop(i) ==
  /\ at[i] = "fresh"
  /\ \E j \in InTheWay(i) : at[j] = "broken"
  /\ Goes(i, "broken", "none")

Close ==
  /\ ~over /\ over' = TRUE
  /\ \A i \in Calls : at[i] \in {"done", "broken"}
  /\ answer' \in [Calls -> {"own", "lost"}]
  /\ \A i \in Calls : answer[i] # "none" => answer'[i] = answer[i]
  /\ UNCHANGED <<exclusive, at>>

OrderedNext == Close \/ \E i \in Calls : Start(i) \/ LetGo(i) \/ Finish(i) \/ Drop(i)

OrderedSpec == OrderedInit /\ [][OrderedNext]_orderedVars
=============================================================================
