------------------------- MODULE SqliteSessionStore -------------------------
(***************************************************************************)
(* SqliteSessionStore (core/session/sqlite-store.ts): a save or a delete   *)
(* is a row of single statements without a transaction, and init() moves   *)
(* the records of localStorage into the tables.                            *)
(*                                                                         *)
(* Its callers await one call before the next.  The process may be killed  *)
(* before any statement, and between two removals from localStorage.       *)
(* execute() answers false when a statement fails, and no one looks at it. *)
(*                                                                         *)
(* The k-th message of session s is <<s, k>>; conversations only grow.     *)
(* The rows of recorded tool calls, which nothing refers to, are left out. *)
(***************************************************************************)
EXTENDS Integers

CONSTANTS
  Sessions,
  NoSession,
  Records,         \* what localStorage may hold at first: session -> messages
  MaxMessages,     \* bound: messages of a conversation
  MaxKills,        \* bound
  StatementsFail   \* TRUE: a statement may fail

ASSUME MaxMessagesIsPos  == MaxMessages \in Nat \ {0}
ASSUME MaxKillsIsNat     == MaxKills \in Nat
ASSUME NoSessionIsNone   == NoSession \notin Sessions
ASSUME FailIsBool        == StatementsFail \in BOOLEAN
ASSUME RecordsAreLengths ==
  \A r \in Records : DOMAIN r \subseteq Sessions /\ r \in [DOMAIN r -> 0..MaxMessages]

VARIABLES
  rows,          \* table sessions: the ids
  msgs,          \* table messages: <<s, k>>
  pointer,       \* settings.active_session_id
  legacy,        \* omp_session_* of localStorage
  legacyActive,  \* omp_active_session_id of localStorage
  phase,         \* of the process: "migrating", "cleaning", "ready"
  moved,         \* the keys to remove
  job,           \* the call in progress and its next statement
  kills,
  owed,          \* history: messages a session has been promised to keep
  chosen         \* history: the session last made the active one

vars == <<rows, msgs, pointer, legacy, legacyActive, phase, moved, job, kills, owed, chosen>>

Idle       == [op |-> "none", s |-> NoSession, n |-> 0, at |-> 0]
Call(o, s, n) == [op |-> o, s |-> s, n |-> n, at |-> 0]
Advance(j) == [j EXCEPT !.at = @ + 1]
Outcomes   == IF StatementsFail THEN BOOLEAN ELSE {TRUE}
At(op, k)  == job.op = op /\ job.at = k

-----------------------------------------------------------------------------
(***************************************************************************)
(* saveSession.                                                            *)
(***************************************************************************)
PutSession ==
  /\ At("save", 0)
  /\ \E ok \in Outcomes : rows' = IF ok THEN rows \cup {job.s} ELSE rows
  /\ job' = Advance(job)
  /\ UNCHANGED <<msgs, pointer, legacy, legacyActive, phase, moved, kills, owed, chosen>>

\* Mutant: the messages are put the last first.
PutLastMessage ==
  /\ job.op = "save" /\ job.at \in 1..job.n
  /\ msgs' = msgs \cup {<<job.s, job.n + 1 - job.at>>}
  /\ job' = Advance(job)
  /\ UNCHANGED <<rows, pointer, legacy, legacyActive, phase, moved, kills, owed, chosen>>

\* A message is its position in its session: the table's only key is the message's id,
\* which no two sessions share as long as the clock ids are taken from advances.
PutMessage ==
  /\ job.op = "save" /\ job.at \in 1..job.n
  /\ \E ok \in Outcomes : msgs' = IF ok THEN msgs \cup {<<job.s, job.at>>} ELSE msgs
  /\ job' = Advance(job)
  /\ UNCHANGED <<rows, pointer, legacy, legacyActive, phase, moved, kills, owed, chosen>>

\* The save is complete; what a caller was told to be saved is owed to him.
PutActive ==
  /\ At("save", job.n + 1)
  /\ \E ok \in Outcomes : pointer' = IF ok THEN job.s ELSE pointer
  /\ job' = Idle
  /\ IF phase = "ready"
     THEN owed' = [owed EXCEPT ![job.s] = job.n] /\ chosen' = job.s
     ELSE UNCHANGED <<owed, chosen>>
  /\ UNCHANGED <<rows, msgs, legacy, legacyActive, phase, moved, kills>>

Save(s) ==
  /\ phase = "ready" /\ job = Idle
  /\ \E n \in owed[s]..MaxMessages : job' = Call("save", s, n)
  /\ UNCHANGED <<rows, msgs, pointer, legacy, legacyActive, phase, moved, kills, owed, chosen>>

(***************************************************************************)
(* deleteSession.                                                          *)
(***************************************************************************)
Delete(s) ==
  /\ phase = "ready" /\ job = Idle
  /\ job' = Call("delete", s, 0)
  /\ owed' = [owed EXCEPT ![s] = 0]
  /\ UNCHANGED <<rows, msgs, pointer, legacy, legacyActive, phase, moved, kills, chosen>>

\* Mutant: the session's row goes first.
DeleteRowFirst ==
  /\ At("delete", 0)
  /\ rows' = rows \ {job.s}
  /\ job' = Advance(job)
  /\ UNCHANGED <<msgs, pointer, legacy, legacyActive, phase, moved, kills, owed, chosen>>

DeleteMessages ==
  /\ At("delete", 0)
  /\ \E ok \in Outcomes : msgs' = IF ok THEN {m \in msgs : m[1] # job.s} ELSE msgs
  /\ job' = Advance(job)
  /\ UNCHANGED <<rows, pointer, legacy, legacyActive, phase, moved, kills, owed, chosen>>

DeleteSession ==
  /\ At("delete", 1)
  /\ \E ok \in Outcomes : rows' = IF ok THEN rows \ {job.s} ELSE rows
  /\ job' = Advance(job)
  /\ UNCHANGED <<msgs, pointer, legacy, legacyActive, phase, moved, kills, owed, chosen>>

\* The pointer is read, and cleared if it names the session.
ClearActive ==
  /\ At("delete", 2)
  /\ \E ok \in Outcomes : pointer' = IF ok /\ pointer = job.s THEN NoSession ELSE pointer
  /\ chosen' = IF chosen = job.s THEN NoSession ELSE chosen
  /\ job' = Idle
  /\ UNCHANGED <<rows, msgs, legacy, legacyActive, phase, moved, kills, owed>>

-----------------------------------------------------------------------------
(***************************************************************************)
(* init(): migrateFromLocalStorage, each time the process starts.          *)
(***************************************************************************)
\* Mutant: the record is removed before its save is complete.
MigrateRemoves(s) ==
  /\ phase = "migrating" /\ job = Idle
  /\ s \in DOMAIN legacy \ moved
  /\ job' = Call("save", s, legacy[s])
  /\ legacy' = [r \in DOMAIN legacy \ {s} |-> legacy[r]]
  /\ UNCHANGED <<rows, msgs, pointer, legacyActive, phase, moved, kills, owed, chosen>>

MigrateSession(s) ==
  /\ phase = "migrating" /\ job = Idle
  /\ s \in DOMAIN legacy \ moved
  /\ job' = Call("save", s, legacy[s])
  /\ moved' = moved \cup {s}
  /\ UNCHANGED <<rows, msgs, pointer, legacy, legacyActive, phase, kills, owed, chosen>>

\* The saves have left the pointer at the last session moved; it is set again.
MigrateActive ==
  /\ phase = "migrating" /\ job = Idle
  /\ DOMAIN legacy \subseteq moved
  /\ \E ok \in Outcomes :
       pointer' = IF ok /\ legacyActive # NoSession THEN legacyActive ELSE pointer
  /\ phase' = "cleaning"
  /\ UNCHANGED <<rows, msgs, legacy, legacyActive, moved, job, kills, owed, chosen>>

\* Mutant: the key of the active session is removed first.
RemoveActiveFirst(s) ==
  /\ phase = "cleaning"
  /\ s \in DOMAIN legacy
  /\ legacyActive' = NoSession
  /\ legacy' = IF legacyActive # NoSession THEN legacy
               ELSE [r \in DOMAIN legacy \ {s} |-> legacy[r]]
  /\ UNCHANGED <<rows, msgs, pointer, phase, moved, job, kills, owed, chosen>>

\* The keys are removed in the order in which they were noted: sessions first.
RemoveRecord(s) ==
  /\ phase = "cleaning"
  /\ s \in DOMAIN legacy \cap moved
  /\ legacy' = [r \in DOMAIN legacy \ {s} |-> legacy[r]]
  /\ UNCHANGED <<rows, msgs, pointer, legacyActive, phase, moved, job, kills, owed, chosen>>

RemoveActive ==
  /\ phase = "cleaning"
  /\ DOMAIN legacy \cap moved = {}
  /\ legacyActive' = NoSession
  /\ phase' = "ready"
  /\ UNCHANGED <<rows, msgs, pointer, legacy, moved, job, kills, owed, chosen>>

\* The process dies, whatever it was doing, and init() starts over.
Kill ==
  /\ kills < MaxKills
  /\ kills' = kills + 1
  /\ phase' = "migrating"
  /\ moved' = {}
  /\ job' = Idle
  /\ UNCHANGED <<rows, msgs, pointer, legacy, legacyActive, owed, chosen>>

Init ==
  /\ rows = {}
  /\ msgs = {}
  /\ pointer = NoSession
  /\ legacy \in Records
  /\ legacyActive \in DOMAIN legacy \cup {NoSession}
  /\ phase = "migrating"
  /\ moved = {}
  /\ job = Idle
  /\ kills = 0
  /\ owed = [s \in Sessions |-> IF s \in DOMAIN legacy THEN legacy[s] ELSE 0]
  /\ chosen = legacyActive

Next ==
  \/ PutSession
  \/ PutMessage
  \/ PutActive
  \/ \E s \in Sessions : Save(s)
  \/ \E s \in Sessions : Delete(s)
  \/ DeleteMessages
  \/ DeleteSession
  \/ ClearActive
  \/ \E s \in Sessions : MigrateSession(s)
  \/ MigrateActive
  \/ \E s \in Sessions : RemoveRecord(s)
  \/ RemoveActive
  \/ Kill

Spec == Init /\ [][Next]_vars

-----------------------------------------------------------------------------
TypeOK ==
  /\ rows \subseteq Sessions
  /\ msgs \subseteq Sessions \X (1..MaxMessages)
  /\ pointer \in Sessions \cup {NoSession}
  /\ DOMAIN legacy \subseteq Sessions /\ legacy \in [DOMAIN legacy -> 0..MaxMessages]
  /\ legacyActive \in Sessions \cup {NoSession}
  /\ phase \in {"migrating", "cleaning", "ready"}
  /\ moved \subseteq Sessions
  /\ job \in [op : {"none", "save", "delete"}, s : Sessions \cup {NoSession},
              n : 0..MaxMessages, at : 0..(MaxMessages + 1)]
  /\ job.op # "none" => job.s # NoSession
  /\ job.op = "save" => job.at <= job.n + 1
  /\ job.op = "delete" => job.n = 0 /\ job.at <= 2
  /\ kills \in 0..MaxKills
  /\ owed \in [Sessions -> 0..MaxMessages]
  /\ chosen \in Sessions \cup {NoSession}

\* loadSession(s) would return message k.
Loads(s, k) == s \in rows /\ <<s, k>> \in msgs

\* What was in localStorage or was saved since, and not deleted, is in the
\* tables, or still in the record the migration starts from, whenever the
\* process dies and however often init() starts over.
NothingIsLost ==
  \A s \in Sessions : \A k \in 1..owed[s] :
    Loads(s, k) \/ (s \in DOMAIN legacy /\ k <= legacy[s])

\* No row of messages is left that no session shows: neither by a save nor by
\* a delete that was cut off.
NoOrphans == \A m \in msgs : m[1] \in rows

\* A save that was cut off leaves a conversation without holes.
NoHoles == \A m \in msgs : m[2] > 1 => <<m[1], m[2] - 1>> \in msgs

\* When init() has finished, and between calls, the active session is the one
\* last chosen, in localStorage or by a save: not the last one migrated.
ActiveIsChosen ==
  (phase = "ready" /\ job = Idle /\ chosen # NoSession) => pointer = chosen

=============================================================================
