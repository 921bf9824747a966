---------------------- MODULE SqliteSessionStore_proofs ----------------------
(***************************************************************************)
(* Theorems about SqliteSessionStore while no statement fails: kills at    *)
(* any statement, any sessions, any content of localStorage.               *)
(***************************************************************************)
EXTENDS SqliteSessionStore, TLAPS

\* What each phase has behind it: localStorage is empty of sessions when init()
\* has finished, and the migration starts no call of its own kind later.
Phases ==
  /\ phase = "ready" => DOMAIN legacy = {} /\ legacyActive = NoSession
  /\ phase = "cleaning" => job = Idle /\ DOMAIN legacy \subseteq moved
  /\ (phase = "migrating" /\ job # Idle) =>
       /\ job.op = "save"
       /\ job.s \in DOMAIN legacy \cap moved
       /\ job.n = legacy[job.s]
  /\ job.op = "none" => job = Idle

\* A save under way: its row, and its messages one after the other.
SavedSoFar ==
  job.op = "save" =>
    /\ job.at > 0 => job.s \in rows
    /\ \A k \in 1..MaxMessages : k < job.at => <<job.s, k>> \in msgs

\* A delete under way: its session is owed nothing, and its messages go first.
DeletedSoFar ==
  job.op = "delete" =>
    /\ phase = "ready"
    /\ owed[job.s] = 0
    /\ job.at > 0 => \A m \in msgs : m[1] # job.s

\* The record of a session that was moved is in the tables, but for the one
\* whose save is under way.
MovedLoads ==
  phase \in {"migrating", "cleaning"} =>
    \A s \in DOMAIN legacy \cap moved : s # job.s =>
      \A k \in 1..legacy[s] : Loads(s, k)

\* The session last chosen is the active one of the tables, or that of
\* localStorage as long as the migration can bring up another.
ChosenKept ==
  /\ legacyActive # NoSession => chosen = legacyActive
  /\ chosen # NoSession =>
       /\ legacyActive = chosen \/ DOMAIN legacy = {}
       /\ pointer = chosen \/ (phase = "migrating" /\ legacyActive = chosen)

IInv ==
  /\ TypeOK /\ Phases /\ SavedSoFar /\ DeletedSoFar /\ MovedLoads /\ ChosenKept
  /\ NothingIsLost /\ NoOrphans /\ NoHoles

-----------------------------------------------------------------------------
LEMMA TypeInit == Init => TypeOK
<1> SUFFICES ASSUME Init PROVE TypeOK
  OBVIOUS
<1>1. DOMAIN legacy \subseteq Sessions /\ legacy \in [DOMAIN legacy -> 0..MaxMessages]
  BY RecordsAreLengths DEF Init
<1>2. owed \in [Sessions -> 0..MaxMessages]
  BY <1>1, MaxMessagesIsPos DEF Init
<1> QED
  BY <1>1, <1>2, MaxMessagesIsPos, MaxKillsIsNat DEF Init, TypeOK, Idle

LEMMA TypeStep == ~StatementsFail /\ TypeOK /\ [Next]_vars => TypeOK'
<1> SUFFICES ASSUME ~StatementsFail, TypeOK, [Next]_vars PROVE TypeOK'
  OBVIOUS
<1> USE MaxMessagesIsPos, MaxKillsIsNat, NoSessionIsNone DEF TypeOK, Outcomes, At, Advance, Idle, Call
<1>1. CASE PutSession BY <1>1 DEF PutSession
<1>2. CASE PutMessage BY <1>2 DEF PutMessage
<1>3. CASE PutActive BY <1>3 DEF PutActive
<1>4. ASSUME NEW s \in Sessions, Save(s) PROVE TypeOK'
  BY <1>4 DEF Save
<1>5. ASSUME NEW s \in Sessions, Delete(s) PROVE TypeOK'
  BY <1>5 DEF Delete
<1>6. CASE DeleteMessages BY <1>6 DEF DeleteMessages
<1>7. CASE DeleteSession BY <1>7 DEF DeleteSession
<1>8. CASE ClearActive BY <1>8 DEF ClearActive
<1>9. ASSUME NEW s \in Sessions, MigrateSession(s) PROVE TypeOK'
  BY <1>9 DEF MigrateSession
<1>10. CASE MigrateActive BY <1>10 DEF MigrateActive
<1>11. ASSUME NEW s \in Sessions, RemoveRecord(s) PROVE TypeOK'
  BY <1>11 DEF RemoveRecord
<1>12. CASE RemoveActive BY <1>12 DEF RemoveActive
<1>13. CASE Kill BY <1>13 DEF Kill
<1>14. CASE UNCHANGED vars BY <1>14 DEF vars
<1> QED
  BY <1>1, <1>2, <1>3, <1>4, <1>5, <1>6, <1>7, <1>8, <1>9, <1>10, <1>11, <1>12, <1>13,
     <1>14 DEF Next

LEMMA Starts == Init => IInv
<1> SUFFICES ASSUME Init PROVE IInv
  OBVIOUS
<1>0. TypeOK
  BY TypeInit
<1>1. Phases /\ SavedSoFar /\ DeletedSoFar /\ MovedLoads
  BY <1>0 DEF Init, Phases, SavedSoFar, DeletedSoFar, MovedLoads, Idle
<1>2. ChosenKept
  BY <1>0 DEF Init, ChosenKept
<1>3. NothingIsLost /\ NoOrphans /\ NoHoles
  BY <1>0, MaxMessagesIsPos, SMTT(60) DEF Init, TypeOK, NothingIsLost, NoOrphans, NoHoles
<1> QED
  BY <1>0, <1>1, <1>2, <1>3 DEF IInv

LEMMA Steps == ~StatementsFail /\ IInv /\ [Next]_vars => IInv'
<1> SUFFICES ASSUME ~StatementsFail, IInv, [Next]_vars PROVE IInv'
  OBVIOUS
<1>0. TypeOK /\ TypeOK'
  BY TypeStep DEF IInv
<1> DEFINE Rest == /\ Phases /\ SavedSoFar /\ DeletedSoFar /\ MovedLoads /\ ChosenKept
                   /\ NothingIsLost /\ NoOrphans /\ NoHoles
<1> USE <1>0, MaxMessagesIsPos, NoSessionIsNone
        DEF IInv, TypeOK, Phases, SavedSoFar, DeletedSoFar, MovedLoads, ChosenKept,
            NothingIsLost, NoOrphans, NoHoles, Loads, Outcomes, At, Advance, Idle, Call
<1>1. CASE PutSession BY <1>1, SMTT(60) DEF PutSession
<1>2. CASE PutMessage
  <2> USE <1>2 DEF PutMessage
  <2>1. /\ job' = [job EXCEPT !.at = @ + 1] /\ job.op = "save"
        /\ job.at \in 1..job.n /\ job.s \in Sessions /\ job.n \in 0..MaxMessages
        /\ msgs' = msgs \cup {<<job.s, job.at>>}
    OBVIOUS
  <2>2. Phases' /\ SavedSoFar' /\ DeletedSoFar' /\ MovedLoads' /\ ChosenKept'
    BY <2>1, SMTT(60)
  <2>3. NothingIsLost' /\ NoOrphans'
    BY <2>1, SMTT(60)
  <2>4. NoHoles'
    <3> SUFFICES ASSUME NEW m \in msgs', m[2] > 1 PROVE <<m[1], m[2] - 1>> \in msgs'
      BY DEF NoHoles
    <3>1. CASE m \in msgs
      BY <2>1, <3>1
    <3>2. CASE m = <<job.s, job.at>>
      <4>1. job.at - 1 \in 1..MaxMessages /\ job.at - 1 < job.at
        BY <2>1, <3>2, SMTT(60)
      <4>2. <<job.s, job.at - 1>> \in msgs
        BY <2>1, <4>1
      <4> QED BY <2>1, <3>2, <4>2
    <3> QED BY <2>1, <3>1, <3>2
  <2> QED
    BY <2>2, <2>3, <2>4
<1>3. CASE PutActive
  <2> USE <1>3 DEF PutActive
  <2>1. /\ job.op = "save" /\ job.at = job.n + 1
        /\ job.s \in Sessions /\ job.n \in 0..MaxMessages
        /\ job' = Idle /\ pointer' = job.s
    OBVIOUS
  <2>2. \A k \in 1..job.n : Loads(job.s, k)
    BY <2>1, SMTT(60)
  <2>3. Phases' /\ SavedSoFar' /\ DeletedSoFar' /\ NoOrphans' /\ NoHoles'
    BY <2>1, SMTT(60)
  <2>4. MovedLoads'
    BY <2>1, <2>2, ZenonT(60)
  <2>5. ChosenKept'
    BY <2>1
  <2>6. NothingIsLost'
    BY <2>1, <2>2, ZenonT(60)
  <2> QED
    BY <2>3, <2>4, <2>5, <2>6
<1>4. ASSUME NEW s \in Sessions, Save(s) PROVE Rest'
  BY <1>4 DEF Save
<1>5. ASSUME NEW s \in Sessions, Delete(s) PROVE Rest'
  BY <1>5, SMTT(60) DEF Delete
<1>6. CASE DeleteMessages BY <1>6 DEF DeleteMessages
<1>7. CASE DeleteSession BY <1>7, SMTT(60) DEF DeleteSession
<1>8. CASE ClearActive BY <1>8 DEF ClearActive
<1>9. ASSUME NEW s \in Sessions, MigrateSession(s) PROVE Rest'
  <2> USE <1>9 DEF MigrateSession
  <2>1. Phases' /\ SavedSoFar' /\ DeletedSoFar' /\ ChosenKept'
    OBVIOUS
  <2>2. MovedLoads'
    <3>1. job.s = NoSession /\ job'.s = s /\ moved' = moved \cup {s} /\ NoSession \notin DOMAIN legacy
      OBVIOUS
    <3> QED BY <3>1
  <2>3. NothingIsLost' /\ NoOrphans' /\ NoHoles'
    OBVIOUS
  <2> QED
    BY <2>1, <2>2, <2>3
<1>10. CASE MigrateActive BY <1>10 DEF MigrateActive
<1>11. ASSUME NEW s \in Sessions, RemoveRecord(s) PROVE Rest'
  <2> USE <1>11 DEF RemoveRecord
  <2>1. /\ DOMAIN legacy' = DOMAIN legacy \ {s}
        /\ \A r \in DOMAIN legacy' : legacy'[r] = legacy[r]
        /\ s \in DOMAIN legacy \cap moved /\ phase = "cleaning" /\ s # job.s
    OBVIOUS
  <2>2. Phases' /\ SavedSoFar' /\ DeletedSoFar' /\ MovedLoads' /\ ChosenKept'
    BY <2>1
  <2>3. \A k \in 1..legacy[s] : Loads(s, k)
    BY <2>1
  <2>4. NothingIsLost'
    <3> SUFFICES ASSUME NEW r \in Sessions, NEW k \in 1..owed[r]
                 PROVE Loads(r, k) \/ (r \in DOMAIN legacy' /\ k <= legacy'[r])
      OBVIOUS
    <3>1. Loads(r, k) \/ (r \in DOMAIN legacy /\ k <= legacy[r])
      OBVIOUS
    <3>2. CASE r = s
      <4>1. legacy[s] \in 0..MaxMessages /\ k \in Nat \ {0}
        BY <2>1
      <4> QED BY <2>3, <3>1, <3>2, <4>1
    <3>3. CASE r # s
      BY <2>1, <3>1, <3>3
    <3> QED BY <3>2, <3>3
  <2>5. NoOrphans' /\ NoHoles'
    OBVIOUS
  <2> QED
    BY <2>2, <2>4, <2>5
<1>12. CASE RemoveActive BY <1>12 DEF RemoveActive
<1>13. CASE Kill BY <1>13 DEF Kill
<1>14. CASE UNCHANGED vars BY <1>14 DEF vars
<1> QED
  BY <1>1, <1>2, <1>3, <1>4, <1>5, <1>6, <1>7, <1>8, <1>9, <1>10, <1>11, <1>12, <1>13,
     <1>14, ZenonT(60) DEF Next

LEMMA Inductive == ~StatementsFail /\ Spec => []IInv
<1> SUFFICES ASSUME ~StatementsFail PROVE Spec => []IInv
  OBVIOUS
<1>1. Init => IInv
  BY Starts
<1>2. IInv /\ [Next]_vars => IInv'
  BY Steps
<1> QED
  BY <1>1, <1>2, PTL DEF Spec

\* The tables, localStorage and the call under way keep their types.
THEOREM TypeCorrect == ~StatementsFail /\ Spec => []TypeOK
<1>1. IInv => TypeOK BY DEF IInv
<1> QED BY <1>1, Inductive, PTL

\* Whenever the process is killed, and however often the migration starts over,
\* every message promised is in the tables or still in localStorage.
THEOREM NothingLost == ~StatementsFail /\ Spec => []NothingIsLost
<1>1. IInv => NothingIsLost BY DEF IInv
<1> QED BY <1>1, Inductive, PTL

\* No kill in a save or a delete leaves messages of a session without a row.
THEOREM NoneOrphaned == ~StatementsFail /\ Spec => []NoOrphans
<1>1. IInv => NoOrphans BY DEF IInv
<1> QED BY <1>1, Inductive, PTL

\* No kill in a save leaves a hole in a conversation.
THEOREM NoneMissing == ~StatementsFail /\ Spec => []NoHoles
<1>1. IInv => NoHoles BY DEF IInv
<1> QED BY <1>1, Inductive, PTL

\* init() ends with the active session the user had, not with the last one moved.
THEOREM ActiveStays == ~StatementsFail /\ Spec => []ActiveIsChosen
<1>1. IInv => ActiveIsChosen BY DEF IInv, ChosenKept, ActiveIsChosen
<1> QED BY <1>1, Inductive, PTL
=============================================================================
