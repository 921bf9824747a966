----------------------------- MODULE DurableLog -----------------------------
(***************************************************************************)
(* What a session store promises its users, whatever the interleavings and *)
(* the crashes behind it: every session has a log of messages that only    *)
(* ever grows at its end, and a message is recorded in one session only.   *)
(***************************************************************************)
EXTENDS Integers, Sequences

CONSTANTS Sessions, Messages

VARIABLE log      \* session -> sequence of messages, for the sessions recorded

Occurs(s)       == {s[i] : i \in DOMAIN s}
Recorded        == UNION {Occurs(log[s]) : s \in DOMAIN log}
Extends(long, short) ==
  /\ Len(short) <= Len(long)
  /\ \A i \in DOMAIN short : long[i] = short[i]

LogOf(s) == IF s \in DOMAIN log THEN log[s] ELSE <<>>

LogInit == log = [s \in {} |-> <<>>]

\* Session s gets recorded: its log is extended, by messages new to every log.
Record(s) ==
  /\ DOMAIN log' = DOMAIN log \cup {s}
  /\ \A r \in DOMAIN log \ {s} : log'[r] = log[r]
  /\ log'[s] \in Seq(Messages)
  /\ Extends(log'[s], LogOf(s))
  /\ \A m \in Occurs(log'[s]) \ Occurs(LogOf(s)) : m \notin Recorded

LogNext == \E s \in Sessions : Record(s)

LogSpec == LogInit /\ [][LogNext]_log
=============================================================================
