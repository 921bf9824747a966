------------------------ MODULE RpcDispatcher_proofs ------------------------
(***************************************************************************)
(* The theorems about the dispatcher and the turns it runs, for any number *)
(* of turns, sessions, settings, tokens, tools and calls of the model, and *)
(* for a store that may refuse writes.                                     *)
(*                                                                         *)
(* Turns overlap here, and a turn outlives its session with the array it   *)
(* was given.  The inductive invariant says what that array is: the array  *)
(* of a session holds messages of that session's turns only, without holes *)
(* and with everything its running turns have said; the array of the       *)
(* current session extends the session's record.                           *)
(***************************************************************************)
EXTENDS RpcDispatcher, SequenceTheorems, TLAPS

-----------------------------------------------------------------------------
(***************************************************************************)
(* Type correctness.                                                       *)
(***************************************************************************)
States(n) == [sid : 1..n, prefs : Prefs, todos : Todos, streaming : BOOLEAN]

\* What a write does to the records, whatever its outcome.
LEMMA WriteTyped ==
  ASSUME NEW n \in Nat, DOMAIN rec \subseteq 1..n, rec \in [DOMAIN rec -> SessionRecord],
         NEW s \in 1..n, NEW r \in SessionRecord, NEW ok \in BOOLEAN, WriteRecord(s, r, ok)
  PROVE  /\ DOMAIN rec' \subseteq 1..n
         /\ rec' \in [DOMAIN rec' -> SessionRecord]
         /\ active' = active
BY DEF WriteRecord

\* The segment shared by the commands that change the state and save it.
LEMMA MutateTyped ==
  ASSUME TypeOK, NEW n \in 1..MaxSessions, n >= nextId - 1,
         NEW st \in States(n), Mutate(st)
  PROVE  /\ DOMAIN rec' \subseteq 1..n
         /\ rec' \in [DOMAIN rec' -> SessionRecord]
         /\ active' = active
         /\ state' = st
         /\ saves' \in 0..MaxSaves
<1>0. n \in Nat /\ nextId \in Nat BY MaxSessionsIsPos, SMTT(60) DEF TypeOK
<1>1. PICK ok \in WriteOutcomes : /\ saves < MaxSaves
                                  /\ state' = st
                                  /\ WriteRecord(st.sid, Stored(st, chat[st.sid]), ok)
                                  /\ saves' = IF ok THEN saves + 1 ELSE saves
  BY DEF Mutate
<1>2. ok \in BOOLEAN BY DEF WriteOutcomes
<1>3. st.sid \in 1..n /\ st.sid \in SessionIds
  BY MaxSessionsIsPos DEF States, SessionIds
<1>4. Stored(st, chat[st.sid]) \in SessionRecord
  BY <1>3 DEF Stored, SessionRecord, States, TypeOK
<1>5. DOMAIN rec \subseteq 1..n /\ rec \in [DOMAIN rec -> SessionRecord]
  BY <1>0, SMTT(60) DEF TypeOK
<1>6. saves' \in 0..MaxSaves BY <1>1, <1>2, MaxSavesIsPos DEF TypeOK
<1>7. /\ DOMAIN rec' \subseteq 1..n
      /\ rec' \in [DOMAIN rec' -> SessionRecord]
      /\ active' = active
  BY <1>0, <1>1, <1>2, <1>3, <1>4, <1>5, WriteTyped
<1> QED BY <1>1, <1>6, <1>7

\* A turn pushes a message to the array it holds.
LEMMA PushTyped ==
  ASSUME TypeOK, NEW t \in Turns, Push(t)
  PROVE  chat' \in [SessionIds -> Seq(Message)] /\ sent' \in [Turns -> Nat]
<1>1. sent[t] \in Nat /\ <<t, sent[t]>> \in Message BY DEF TypeOK, Message
<1>2. \A s \in SessionIds : Append(chat[s], <<t, sent[t]>>) \in Seq(Message)
  BY <1>1 DEF TypeOK
<1>3. chat' = [chat EXCEPT ![home[t]] = Append(chat[home[t]], <<t, sent[t]>>)]
  BY DEF Push
<1>4. chat' \in [SessionIds -> Seq(Message)] BY <1>2, <1>3 DEF TypeOK
<1>5. sent' = [sent EXCEPT ![t] = @ + 1] BY DEF Push
<1>6. sent \in [Turns -> Nat] BY DEF TypeOK
<1>7. sent' \in [Turns -> Nat] BY <1>5, <1>6
<1> QED BY <1>4, <1>7

\* The end of a turn, once its array is well formed.
LEMMA FinishTyped ==
  ASSUME TypeOK, chat' \in [SessionIds -> Seq(Message)], NEW t \in Turns, Finish(t),
         nextId' = nextId
  PROVE  /\ DOMAIN rec' \subseteq 1..(nextId - 1)
         /\ rec' \in [DOMAIN rec' -> SessionRecord]
         /\ active' = active
         /\ state' \in States(nextId - 1)
         /\ ctl' = NoTurn
         /\ pc' \in [Turns -> PcValues]
         /\ iter' \in [Turns -> 0..MaxIterations]
         /\ aborted' \subseteq Turns
<1>0. nextId - 1 \in Nat /\ 1..(nextId - 1) \subseteq SessionIds
  <2>1. nextId \in 2..(MaxSessions + 1) BY DEF TypeOK
  <2> QED BY <2>1, MaxSessionsIsPos DEF SessionIds
<1>1. PICK ok \in WriteOutcomes :
        /\ WriteRecord(state.sid, Stored(state', chat'[state.sid]), ok)
        /\ pc' = [pc EXCEPT ![t] = IF ok THEN "saving" ELSE "failed"]
  BY DEF Finish
<1>2. ok \in BOOLEAN BY DEF WriteOutcomes
<1>3. state' \in States(nextId - 1) /\ state.sid \in 1..(nextId - 1)
  BY DEF Finish, States, TypeOK
<1>4. chat'[state.sid] \in Seq(Message) BY <1>0, <1>3
<1>5. Stored(state', chat'[state.sid]) \in SessionRecord
  BY <1>3, <1>4 DEF Stored, SessionRecord, States
<1>6. DOMAIN rec \subseteq 1..(nextId - 1) /\ rec \in [DOMAIN rec -> SessionRecord]
  BY DEF TypeOK
<1>7. /\ DOMAIN rec' \subseteq 1..(nextId - 1)
      /\ rec' \in [DOMAIN rec' -> SessionRecord]
      /\ active' = active
  BY <1>0, <1>1, <1>2, <1>3, <1>5, <1>6, WriteTyped
<1>8. pc' \in [Turns -> PcValues] BY <1>1, <1>2 DEF TypeOK, PcValues
<1>9. iter' \in [Turns -> 0..MaxIterations]
  BY MaxIterationsIsPos DEF Finish, EndsLocals, TypeOK
<1> QED BY <1>3, <1>7, <1>8, <1>9 DEF Finish, EndsLocals, TypeOK

LEMMA InitTyped == Init => TypeOK
<1> SUFFICES ASSUME Init PROVE TypeOK OBVIOUS
<1>1. state \in States(1) BY DefaultsAreValues DEF Init, Fresh, States
<1>2. 0 \in 0..Tokens /\ 0 \in 0..MaxSaves /\ 0 \in 0..MaxIterations /\ 0 \in 0..MaxCalls
  BY TokensIsPos, MaxSavesIsPos, MaxIterationsIsPos, MaxCallsIsPos
<1>3. nextId - 1 = 1 /\ nextId \in 2..(MaxSessions + 1) BY MaxSessionsIsPos DEF Init
<1>4. DOMAIN rec = {} /\ rec \in [DOMAIN rec -> SessionRecord] /\ active = NoSession
  BY DEF Init, StoreInit
<1>5. chat \in [SessionIds -> Seq(Message)] BY DEF Init, NewArrays
<1>6. DOMAIN rec \subseteq 1..(nextId - 1) BY <1>4
<1>7. /\ pc \in [Turns -> PcValues] /\ left \in [Turns -> 0..Tokens]
      /\ iter \in [Turns -> 0..MaxIterations] /\ calls \in [Turns -> 0..MaxCalls]
      /\ sent \in [Turns -> Nat]
  BY <1>2 DEF Init, PcValues
<1>8. home \in [Turns -> 1..(nextId - 1) \cup {NoSession}] BY DEF Init
<1> QED BY <1>1, <1>2, <1>3, <1>4, <1>5, <1>6, <1>7, <1>8 DEF Init, TypeOK, States

LEMMA NextTyped == TypeOK /\ [Next]_vars => TypeOK'
<1> SUFFICES ASSUME TypeOK, [Next]_vars PROVE TypeOK' OBVIOUS
<1> USE DEF turnVars
<1>0. /\ nextId \in Nat /\ nextId >= 2 /\ nextId - 1 \in Nat /\ MaxSessions \in Nat
      /\ 1..(nextId - 1) \subseteq SessionIds
  BY MaxSessionsIsPos, SMTT(60) DEF TypeOK, SessionIds
<1>n. /\ 0 \in 0..Tokens /\ Tokens \in 0..Tokens /\ 0 \in 0..MaxSaves
      /\ 0 \in 0..MaxIterations /\ 1 \in 0..MaxIterations /\ 0 \in 0..MaxCalls
  BY TokensIsPos, MaxSavesIsPos, MaxIterationsIsPos, MaxCallsIsPos
<1>f. state \in States(nextId - 1) BY DEF TypeOK, States
<1>1. CASE Boot
  <2>1. CASE active \in DOMAIN rec
    <3>1. active \in 1..(nextId - 1) /\ rec[active] \in SessionRecord BY <2>1 DEF TypeOK
    <3>2. Restored(active) \in States(nextId - 1)
      BY <3>1 DEF Restored, SessionRecord, States
    <3>3. rec[active].messages \in Seq(Message) BY <3>1 DEF SessionRecord
    <3>4. chat' \in [SessionIds -> Seq(Message)] BY <1>1, <2>1, <3>3 DEF Boot, TypeOK
    <3> QED BY <1>1, <2>1, <3>2, <3>4 DEF Boot, TypeOK, storeVars, States
  <2>2. CASE active \notin DOMAIN rec
    BY <1>1, <2>2 DEF Boot, TypeOK, storeVars
  <2> QED BY <2>1, <2>2
<1>m. ASSUME NEW st \in States(nextId - 1), Mutate(st),
             UNCHANGED <<chat, ctl, aborted, turnVars, ready, nextId, cut>>
      PROVE  TypeOK'
  <2>1. nextId - 1 \in 1..MaxSessions /\ nextId - 1 >= nextId - 1
    BY <1>0, SMTT(60) DEF TypeOK
  <2>2. /\ DOMAIN rec' \subseteq 1..(nextId - 1) /\ rec' \in [DOMAIN rec' -> SessionRecord]
        /\ active' = active /\ state' = st /\ saves' \in 0..MaxSaves
    BY <1>m, <2>1, MutateTyped
  <2> QED BY <1>m, <2>2 DEF TypeOK, States
<1>2. ASSUME NEW p \in Prefs, SetPrefs(p) PROVE TypeOK'
  <2>1. [state EXCEPT !.prefs = p] \in States(nextId - 1) BY DEF TypeOK, States
  <2> QED BY <1>2, <1>m, <2>1 DEF SetPrefs
<1>3. ASSUME NEW td \in Todos, SetTodos(td) PROVE TypeOK'
  <2>1. [state EXCEPT !.todos = td] \in States(nextId - 1) BY DEF TypeOK, States
  <2> QED BY <1>3, <1>m, <2>1 DEF SetTodos
<1>4. CASE NewSession
  <2> DEFINE st == [state EXCEPT !.sid = nextId, !.todos = NoTodos]
  <2>0. /\ 1..(nextId - 1) \subseteq 1..nextId /\ nextId \in 1..nextId
        /\ nextId \in 1..MaxSessions /\ nextId >= nextId - 1
    BY <1>0, <1>4 DEF NewSession, SessionIds
  <2>1. st \in States(nextId) BY <2>0, DefaultsAreValues DEF TypeOK, States
  <2>2. Mutate(st) BY <1>4 DEF NewSession
  <2> HIDE DEF st
  <2>3. /\ DOMAIN rec' \subseteq 1..nextId /\ rec' \in [DOMAIN rec' -> SessionRecord]
        /\ active' = active /\ state' = st /\ saves' \in 0..MaxSaves
    BY <2>0, <2>1, <2>2, MutateTyped
  <2>4. nextId' = nextId + 1 /\ nextId' \in 2..(MaxSessions + 1) /\ nextId' - 1 = nextId
    BY <1>0, <1>4 DEF NewSession, SessionIds
  <2>5. cut' \subseteq Turns BY <1>4 DEF NewSession, Running, TypeOK
  <2>6. home \in [Turns -> 1..nextId \cup {NoSession}] /\ active \in 1..nextId \cup {NoSession}
    BY <1>0, SMTT(60) DEF TypeOK
  <2> QED BY <1>4, <2>1, <2>3, <2>4, <2>5, <2>6 DEF NewSession, TypeOK, States
<1>5. CASE CommandSaved
  <2>1. active' \in 1..(nextId - 1) \cup {NoSession} /\ rec' = rec
    BY <1>5 DEF CommandSaved, WriteActive, TypeOK
  <2>2. saves' \in 0..MaxSaves BY <1>5, MaxSavesIsPos, SMTT(60) DEF CommandSaved, TypeOK
  <2> QED BY <1>5, <2>1, <2>2 DEF CommandSaved, TypeOK
<1>6. CASE Abort
  <2>1. aborted' \subseteq Turns /\ ctl' = NoTurn BY <1>6 DEF Abort, TypeOK
  <2>2. state' \in States(nextId - 1) BY <1>6 DEF Abort, TypeOK, States
  <2> QED BY <1>6, <2>1, <2>2 DEF Abort, TypeOK, storeVars, States
<1>7. ASSUME NEW t \in Turns, Prompt(t) PROVE TypeOK'
  <2>1. <<t, 0>> \in Message /\ state.sid \in 1..(nextId - 1) BY DEF Message, TypeOK
  <2>2. \A s \in SessionIds : Append(chat[s], <<t, 0>>) \in Seq(Message) BY <2>1 DEF TypeOK
  <2>3. chat' \in [SessionIds -> Seq(Message)]
    <3>1. chat' = [chat EXCEPT ![state.sid] = Append(chat[state.sid], <<t, 0>>)]
      BY <1>7 DEF Prompt
    <3> QED BY <2>2, <3>1 DEF TypeOK
  <2>4. /\ left' \in [Turns -> 0..Tokens] /\ pc' \in [Turns -> PcValues]
        /\ iter' \in [Turns -> 0..MaxIterations] /\ sent' \in [Turns -> Nat]
    BY <1>7, <1>n DEF Prompt, TypeOK, PcValues
  <2>5. home' \in [Turns -> 1..(nextId - 1) \cup {NoSession}]
    BY <1>7, <2>1 DEF Prompt, TypeOK
  <2>6. state' \in States(nextId - 1) BY <1>7 DEF Prompt, TypeOK, States
  <2> QED BY <1>7, <2>3, <2>4, <2>5, <2>6 DEF Prompt, TypeOK, storeVars, States
<1>8. ASSUME NEW t \in Turns, Token(t) PROVE TypeOK'
  <2>1. left' \in [Turns -> 0..Tokens] BY <1>8, TokensIsPos, SMTT(60) DEF Token, TypeOK
  <2> QED BY <1>8, <2>1 DEF Token, TypeOK, storeVars
<1>e. ASSUME NEW t \in Turns, chat' \in [SessionIds -> Seq(Message)], sent' \in [Turns -> Nat],
             left' \in [Turns -> 0..Tokens], calls' \in [Turns -> 0..MaxCalls],
             Finish(t), UNCHANGED <<saves, ready, nextId, home, cut>>
      PROVE  TypeOK'
  <2>1. /\ DOMAIN rec' \subseteq 1..(nextId - 1) /\ rec' \in [DOMAIN rec' -> SessionRecord]
        /\ active' = active /\ state' \in States(nextId - 1) /\ ctl' = NoTurn
        /\ pc' \in [Turns -> PcValues] /\ iter' \in [Turns -> 0..MaxIterations]
        /\ aborted' \subseteq Turns
    BY <1>e, FinishTyped
  <2> QED BY <1>e, <2>1 DEF TypeOK, States
<1>9. ASSUME NEW t \in Turns, ReplyEnds(t) PROVE TypeOK'
  <2>1. chat' \in [SessionIds -> Seq(Message)] /\ sent' \in [Turns -> Nat]
    BY <1>9, PushTyped DEF ReplyEnds
  <2>2. left' \in [Turns -> 0..Tokens] /\ calls' \in [Turns -> 0..MaxCalls]
    BY <1>9, <1>n DEF ReplyEnds, TypeOK
  <2> QED BY <1>9, <1>e, <2>1, <2>2 DEF ReplyEnds
<1>10. ASSUME NEW t \in Turns, ReplyCallsTools(t) PROVE TypeOK'
  <2>1. chat' \in [SessionIds -> Seq(Message)] /\ sent' \in [Turns -> Nat]
    BY <1>10, PushTyped DEF ReplyCallsTools
  <2>2. /\ left' \in [Turns -> 0..Tokens] /\ calls' \in [Turns -> 0..MaxCalls]
        /\ pc' \in [Turns -> PcValues]
    BY <1>10, <1>n, MaxCallsIsPos, SMTT(60) DEF ReplyCallsTools, TypeOK, PcValues
  <2> QED BY <1>10, <2>1, <2>2 DEF ReplyCallsTools, TypeOK, storeVars
<1>11. ASSUME NEW t \in Turns, ReplyFails(t) PROVE TypeOK'
  <2>1. chat' \in [SessionIds -> Seq(Message)] /\ sent' \in [Turns -> Nat]
    BY <1>11 DEF ReplyFails, TypeOK
  <2>2. left' \in [Turns -> 0..Tokens] /\ calls' \in [Turns -> 0..MaxCalls]
    BY <1>11, <1>n DEF ReplyFails, TypeOK
  <2> QED BY <1>11, <1>e, <2>1, <2>2 DEF ReplyFails
<1>12. ASSUME NEW t \in Turns, NextTool(t) PROVE TypeOK'
  <2>1. chat' \in [SessionIds -> Seq(Message)] /\ sent' \in [Turns -> Nat]
    BY <1>12, PushTyped DEF NextTool
  <2>2. calls' \in [Turns -> 0..MaxCalls]
    BY <1>12, MaxCallsIsPos, SMTT(60) DEF NextTool, TypeOK
  <2> QED BY <1>12, <2>1, <2>2 DEF NextTool, TypeOK, storeVars
<1>13. ASSUME NEW t \in Turns, LastTool(t) PROVE TypeOK'
  <2>1. chat' \in [SessionIds -> Seq(Message)] /\ sent' \in [Turns -> Nat]
    BY <1>13, PushTyped DEF LastTool
  <2>2. calls' \in [Turns -> 0..MaxCalls] BY <1>13, <1>n DEF LastTool, TypeOK
  <2>3. CASE GoesOn(t)
    <3>1. /\ iter' = [iter EXCEPT ![t] = iter[t] + 1] /\ left' = [left EXCEPT ![t] = Tokens]
          /\ pc' = [pc EXCEPT ![t] = "streaming"]
          /\ UNCHANGED <<storeVars, state, ctl, aborted, saves, ready, nextId, home, cut>>
      BY <1>13, <2>3 DEF LastTool
    <3>2. iter[t] + 1 \in 0..MaxIterations
      BY <2>3, MaxIterationsIsPos, SMTT(60) DEF GoesOn, TypeOK
    <3>3. /\ left' \in [Turns -> 0..Tokens] /\ iter' \in [Turns -> 0..MaxIterations]
          /\ pc' \in [Turns -> PcValues]
      BY <1>n, <3>1, <3>2 DEF TypeOK, PcValues
    <3> QED BY <2>1, <2>2, <3>1, <3>3 DEF TypeOK, storeVars
  <2>4. CASE ~GoesOn(t)
    <3>1. Finish(t) /\ left' = left BY <1>13, <2>4 DEF LastTool
    <3>2. left' \in [Turns -> 0..Tokens] BY <3>1 DEF TypeOK
    <3> QED BY <1>13, <1>e, <2>1, <2>2, <3>1, <3>2 DEF LastTool
  <2> QED BY <2>3, <2>4
<1>14. ASSUME NEW t \in Turns, TurnSaved(t) PROVE TypeOK'
  <2>1. PICK ok \in WriteOutcomes :
          /\ WriteActive(state.sid, ok)
          /\ pc' = [pc EXCEPT ![t] = IF ok THEN "done" ELSE "failed"]
    BY <1>14 DEF TurnSaved
  <2>2. active' \in 1..(nextId - 1) \cup {NoSession} /\ rec' = rec
    BY <2>1 DEF WriteActive, TypeOK
  <2>3. pc' \in [Turns -> PcValues] BY <2>1 DEF TypeOK, PcValues
  <2> QED BY <1>14, <2>2, <2>3 DEF TurnSaved, TypeOK
<1>15. CASE Restart
  <2>1. nextId' = nextId + 1 /\ nextId' \in 2..(MaxSessions + 1) /\ nextId' - 1 = nextId
    BY <1>0, <1>15 DEF Restart, SessionIds
  <2>2. state' \in States(nextId)
    BY <1>0, <1>15, DefaultsAreValues DEF Restart, Fresh, States
  <2>3. /\ home \in [Turns -> 1..nextId \cup {NoSession}] /\ DOMAIN rec \subseteq 1..nextId
        /\ active \in 1..nextId \cup {NoSession} /\ rec \in [DOMAIN rec -> SessionRecord]
    BY <1>0, SMTT(60) DEF TypeOK
  <2>4. /\ pc' \in [Turns -> PcValues] /\ left' \in [Turns -> 0..Tokens]
        /\ iter' \in [Turns -> 0..MaxIterations] /\ calls' \in [Turns -> 0..MaxCalls]
        /\ sent' \in [Turns -> Nat]
    BY <1>15, <1>n DEF Restart, ForgetsTurns, TypeOK, PcValues
  <2>5. chat' \in [SessionIds -> Seq(Message)] BY <1>15 DEF Restart, NewArrays
  <2>6. /\ saves' \in 0..MaxSaves /\ ctl' = NoTurn /\ aborted' = {} /\ ready' = FALSE
        /\ rec' = rec /\ active' = active /\ home' = home /\ cut' = cut
    BY <1>15, <1>n DEF Restart, ForgetsTurns, storeVars
  <2> QED BY <2>1, <2>2, <2>3, <2>4, <2>5, <2>6 DEF TypeOK, States
<1>16. CASE UNCHANGED vars BY <1>16 DEF vars, storeVars, rpcVars, TypeOK
<1> QED
  BY <1>1, <1>2, <1>3, <1>4, <1>5, <1>6, <1>7, <1>8, <1>9, <1>10, <1>11, <1>12, <1>13,
     <1>14, <1>15, <1>16 DEF Next

\* Every variable keeps its type, for any settings, turns and bounds.
THEOREM TypeCorrect == Spec => []TypeOK
BY InitTyped, NextTyped, PTL DEF Spec
-----------------------------------------------------------------------------
(***************************************************************************)
(* Where the messages are.                                                 *)
(***************************************************************************)
\* Before init() has finished no turn runs.
Quiet == ~ready => Running = {}

\* The array of the current session extends the session's record.
GrowsFromRecord ==
  state.sid \in DOMAIN rec => Log!Extends(chat[state.sid], rec[state.sid].messages)

\* The messages of ms are of turns that were started in session s.
Theirs(s, ms) ==
  \A m \in Message : In(m, ms) => home[m[1]] = s /\ pc[m[1]] # "free"

AllAtHome ==
  /\ \A s \in SessionIds : Theirs(s, chat[s])
  /\ \A s \in DOMAIN rec : Theirs(s, rec[s].messages)

\* A message has all the earlier ones of its turn before it.
Whole(ms) ==
  \A i \in DOMAIN ms :
    ms[i][2] > 0 => \E j \in 1..(i - 1) : ms[j] = <<ms[i][1], ms[i][2] - 1>>

AllWhole ==
  /\ \A s \in SessionIds : Whole(chat[s])
  /\ \A s \in DOMAIN rec : Whole(rec[s].messages)

\* Everything turn t has said is in ms.
Said(t, ms) == \A n \in 0..(sent[t] - 1) : In(<<t, n>>, ms)

\* A running turn has pushed all it has said to the array of its session.
HoldsItsWords ==
  \A t \in Pushing : home[t] \in SessionIds /\ sent[t] > 0 /\ Said(t, chat[home[t]])

\* A turn whose session was not left runs in the current one, and all it has
\* said is stored there when its save has written the record.
TurnsAtHome ==
  \A t \in Turns \ cut :
    /\ t \in Running => home[t] = state.sid
    /\ pc[t] \in {"saving", "done"} => home[t] \in DOMAIN rec /\ Said(t, rec[home[t]].messages)

IInv ==
  /\ TypeOK
  /\ Quiet
  /\ GrowsFromRecord
  /\ AllAtHome
  /\ AllWhole
  /\ HoldsItsWords
  /\ TurnsAtHome

\* Only a turn that may still push can be signalled, or has been.
SignalsInv == aborted \subseteq Pushing /\ ctl \in Pushing \cup {NoTurn}

-----------------------------------------------------------------------------
(***************************************************************************)
(* The steps, as far as messages are concerned.                            *)
(***************************************************************************)
Stores(s, ms) ==
  /\ DOMAIN rec' = DOMAIN rec \cup {s}
  /\ rec'[s].messages = ms
  /\ \A r \in DOMAIN rec \ {s} : rec'[r] = rec[r]

\* The records stay, or the array of session s is stored.
MayStore(s) == rec' = rec \/ Stores(s, chat'[s])

\* Nothing is said and no turn moves but one that saves.
KeepStep ==
  /\ state'.sid = state.sid /\ UNCHANGED <<chat, sent, home, cut>>
  /\ \A t \in Turns : \/ pc'[t] = pc[t]
                      \/ pc[t] = "saving" /\ pc'[t] \in {"done", "failed"}
  /\ MayStore(state.sid)

BootStep ==
  /\ ~ready /\ active \in DOMAIN rec
  /\ state'.sid = active
  /\ chat' = [chat EXCEPT ![active] = rec[active].messages]
  /\ UNCHANGED <<rec, pc, sent, home, cut>>

NewStep ==
  /\ state'.sid = nextId /\ nextId \in SessionIds
  /\ MayStore(nextId)
  /\ cut' = cut \cup Running
  /\ UNCHANGED <<chat, pc, sent, home>>

PromptStep(t) ==
  /\ pc[t] = "free" /\ pc' = [pc EXCEPT ![t] = "streaming"]
  /\ home' = [home EXCEPT ![t] = state.sid]
  /\ chat' = [chat EXCEPT ![state.sid] = Append(@, <<t, 0>>)]
  /\ sent' = [sent EXCEPT ![t] = 1]
  /\ state'.sid = state.sid /\ UNCHANGED <<rec, cut>>

\* A turn says something and goes on.
SayStep(t) ==
  /\ t \in Pushing /\ pc'[t] \in {"streaming", "tool"}
  /\ \A u \in Turns \ {t} : pc'[u] = pc[u]
  /\ Push(t)
  /\ state'.sid = state.sid /\ UNCHANGED <<rec, home, cut>>

\* A turn ends, with or without a last message.
EndStep(t) ==
  /\ t \in Pushing
  /\ Push(t) \/ UNCHANGED <<chat, sent>>
  /\ \/ rec' = rec /\ pc'[t] = "failed"
     \/ Stores(state.sid, chat'[state.sid]) /\ pc'[t] = "saving"
  /\ \A u \in Turns \ {t} : pc'[u] = pc[u]
  /\ state'.sid = state.sid /\ UNCHANGED <<home, cut>>

RestartStep ==
  /\ state'.sid = nextId
  /\ chat' = NewArrays
  /\ \A t \in Turns :
       IF t \in Running THEN pc'[t] = "lost" /\ sent'[t] = 0
                        ELSE pc'[t] = pc[t] /\ sent'[t] = sent[t]
  /\ UNCHANGED <<rec, home, cut>>

Kinds ==
  \/ KeepStep \/ BootStep \/ NewStep \/ RestartStep
  \/ \E t \in Turns : PromptStep(t) \/ SayStep(t) \/ EndStep(t)

LEMMA Written ==
  ASSUME NEW s, NEW st, NEW ms, NEW ok \in BOOLEAN, WriteRecord(s, Stored(st, ms), ok)
  PROVE  /\ ok => Stores(s, ms)
         /\ ~ok => rec' = rec
BY DEF WriteRecord, Stored, Stores

LEMMA MutateKind ==
  ASSUME NEW st, Mutate(st), chat' = chat
  PROVE  state' = st /\ MayStore(st.sid)
<1>1. PICK ok \in WriteOutcomes : WriteRecord(st.sid, Stored(st, chat[st.sid]), ok)
  BY DEF Mutate
<1>2. ok \in BOOLEAN BY DEF WriteOutcomes
<1> QED BY <1>1, <1>2, Written DEF Mutate, MayStore

LEMMA FinishKind ==
  ASSUME TypeOK, NEW t \in Turns, Finish(t)
  PROVE  /\ \/ rec' = rec /\ pc'[t] = "failed"
            \/ Stores(state.sid, chat'[state.sid]) /\ pc'[t] = "saving"
         /\ \A u \in Turns \ {t} : pc'[u] = pc[u]
         /\ state'.sid = state.sid
<1>1. PICK ok \in WriteOutcomes :
        /\ WriteRecord(state.sid, Stored(state', chat'[state.sid]), ok)
        /\ pc' = [pc EXCEPT ![t] = IF ok THEN "saving" ELSE "failed"]
  BY DEF Finish
<1>2. ok \in BOOLEAN BY DEF WriteOutcomes
<1>3. (ok => Stores(state.sid, chat'[state.sid])) /\ (~ok => rec' = rec)
  BY <1>1, <1>2, Written
<1>4. /\ pc'[t] = IF ok THEN "saving" ELSE "failed"
      /\ \A u \in Turns \ {t} : pc'[u] = pc[u]
  BY <1>1 DEF TypeOK
<1>5. state'.sid = state.sid BY DEF Finish, TypeOK
<1> QED BY <1>3, <1>4, <1>5

LEMMA StepKinds == ASSUME TypeOK, [Next]_vars PROVE Kinds
<1> USE DEF MayStore, turnVars, Kinds
<1>1. CASE Boot
  <2>1. CASE active \in DOMAIN rec
    BY <1>1, <2>1 DEF Boot, Restored, BootStep, storeVars
  <2>2. CASE active \notin DOMAIN rec
    BY <1>1, <2>2 DEF Boot, KeepStep, storeVars
  <2> QED BY <2>1, <2>2
<1>2. ASSUME NEW p \in Prefs, SetPrefs(p) PROVE KeepStep
  <2> DEFINE st == [state EXCEPT !.prefs = p]
  <2>1. st.sid = state.sid BY DEF TypeOK
  <2>2. Mutate(st) /\ chat' = chat BY <1>2 DEF SetPrefs
  <2> HIDE DEF st
  <2>3. state' = st /\ MayStore(st.sid) BY <2>2, MutateKind
  <2> QED BY <1>2, <2>1, <2>3 DEF SetPrefs, KeepStep
<1>3. ASSUME NEW td \in Todos, SetTodos(td) PROVE KeepStep
  <2> DEFINE st == [state EXCEPT !.todos = td]
  <2>1. st.sid = state.sid BY DEF TypeOK
  <2>2. Mutate(st) /\ chat' = chat BY <1>3 DEF SetTodos
  <2> HIDE DEF st
  <2>3. state' = st /\ MayStore(st.sid) BY <2>2, MutateKind
  <2> QED BY <1>3, <2>1, <2>3 DEF SetTodos, KeepStep
<1>4. CASE NewSession
  <2> DEFINE st == [state EXCEPT !.sid = nextId, !.todos = NoTodos]
  <2>1. st.sid = nextId BY DEF TypeOK
  <2>2. Mutate(st) /\ chat' = chat BY <1>4 DEF NewSession
  <2> HIDE DEF st
  <2>3. state' = st /\ MayStore(st.sid) BY <2>2, MutateKind
  <2> QED BY <1>4, <2>1, <2>3 DEF NewSession, NewStep
<1>5. CASE CommandSaved BY <1>5 DEF CommandSaved, WriteActive, KeepStep
<1>6. CASE Abort BY <1>6 DEF Abort, KeepStep, storeVars, TypeOK
<1>7. ASSUME NEW t \in Turns, Prompt(t) PROVE PromptStep(t)
  BY <1>7 DEF Prompt, PromptStep, storeVars, TypeOK
<1>8. ASSUME NEW t \in Turns, Token(t) PROVE KeepStep
  BY <1>8 DEF Token, KeepStep, storeVars
<1>9. ASSUME NEW t \in Turns, ReplyEnds(t) PROVE EndStep(t)
  <2>1. t \in Pushing BY <1>9 DEF ReplyEnds, StreamSettles, Pushing
  <2> QED BY <1>9, <2>1, FinishKind DEF ReplyEnds, EndStep
<1>10. ASSUME NEW t \in Turns, ReplyCallsTools(t) PROVE SayStep(t)
  <2>1. t \in Pushing BY <1>10 DEF ReplyCallsTools, StreamSettles, Pushing
  <2>2. pc'[t] = "tool" /\ \A u \in Turns \ {t} : pc'[u] = pc[u]
    BY <1>10 DEF ReplyCallsTools, TypeOK
  <2> QED BY <1>10, <2>1, <2>2 DEF ReplyCallsTools, SayStep, storeVars
<1>11. ASSUME NEW t \in Turns, ReplyFails(t) PROVE EndStep(t)
  <2>1. t \in Pushing BY <1>11 DEF ReplyFails, Pushing
  <2> QED BY <1>11, <2>1, FinishKind DEF ReplyFails, EndStep
<1>12. ASSUME NEW t \in Turns, NextTool(t) PROVE SayStep(t)
  BY <1>12 DEF NextTool, SayStep, storeVars, Pushing
<1>13. ASSUME NEW t \in Turns, LastTool(t) PROVE SayStep(t) \/ EndStep(t)
  <2>1. t \in Pushing BY <1>13 DEF LastTool, Pushing
  <2>2. CASE GoesOn(t)
    <3>1. pc'[t] = "streaming" /\ \A u \in Turns \ {t} : pc'[u] = pc[u]
      BY <1>13, <2>2 DEF LastTool, TypeOK
    <3> QED BY <1>13, <2>1, <2>2, <3>1 DEF LastTool, SayStep, storeVars
  <2>3. CASE ~GoesOn(t)
    BY <1>13, <2>1, <2>3, FinishKind DEF LastTool, EndStep
  <2> QED BY <2>2, <2>3
<1>14. ASSUME NEW t \in Turns, TurnSaved(t) PROVE KeepStep
  BY <1>14 DEF TurnSaved, WriteActive, KeepStep, TypeOK
<1>15. CASE Restart
  BY <1>15 DEF Restart, Fresh, RestartStep, ForgetsTurns, storeVars
<1>16. CASE UNCHANGED vars BY <1>16 DEF vars, storeVars, rpcVars, KeepStep
<1> QED
  BY <1>1, <1>2, <1>3, <1>4, <1>5, <1>6, <1>7, <1>8, <1>9, <1>10, <1>11, <1>12, <1>13,
     <1>14, <1>15, <1>16 DEF Next

LEMMA QuietKept ==
  ASSUME TypeOK, Quiet, [Next]_vars
  PROVE  Quiet'
<1> USE DEF Quiet
<1>1. CASE Restart
  <2>1. Running' = {} BY <1>1 DEF Restart, ForgetsTurns, Running
  <2> QED BY <2>1
<1>2. CASE ~Restart /\ ready
  <2>1. ready' = ready
    BY <1>2
    DEF Next, Boot, SetPrefs, SetTodos, NewSession, CommandSaved, Abort, Prompt, Token,
        ReplyEnds, ReplyCallsTools, ReplyFails, NextTool, LastTool, TurnSaved, vars, rpcVars
  <2> QED BY <1>2, <2>1
<1>3. CASE ~Restart /\ ~ready
  <2>1. CASE Boot BY <2>1 DEF Boot
  <2>2. CASE UNCHANGED vars BY <1>3, <2>2 DEF vars, rpcVars, turnVars, Running
  <2>3. CASE CommandSaved BY <1>3, <2>3 DEF CommandSaved, turnVars, Running
  <2>4. /\ \A p : ~SetPrefs(p) /\ ~SetTodos(p)
        /\ ~NewSession /\ ~Abort
    BY <1>3 DEF SetPrefs, SetTodos, NewSession, Abort
  <2>5. \A t \in Turns : ~Prompt(t) /\ ~TurnSaved(t)
    BY <1>3 DEF Prompt, TurnSaved, Running
  <2>6. \A t \in Turns : ~Token(t) /\ ~ReplyEnds(t) /\ ~ReplyCallsTools(t) /\ ~ReplyFails(t)
    BY <1>3 DEF Token, ReplyEnds, ReplyCallsTools, ReplyFails, StreamSettles, Running
  <2>7. \A t \in Turns : ~NextTool(t) /\ ~LastTool(t)
    BY <1>3 DEF NextTool, LastTool, Running
  <2> QED BY <1>3, <2>1, <2>2, <2>3, <2>4, <2>5, <2>6, <2>7 DEF Next
<1> QED BY <1>1, <1>2, <1>3

-----------------------------------------------------------------------------
(***************************************************************************)
(* Facts about the messages of a sequence.                                 *)
(***************************************************************************)
LEMMA Appended ==
  ASSUME NEW ms \in Seq(Message), NEW m \in Message
  PROVE  /\ Append(ms, m) \in Seq(Message)
         /\ \A x : In(x, Append(ms, m)) <=> In(x, ms) \/ x = m
         /\ Log!Extends(Append(ms, m), ms)
         /\ Log!Extends(ms, ms)
<1>1. /\ Append(ms, m) \in Seq(Message)
      /\ Len(Append(ms, m)) = Len(ms) + 1
      /\ \A i \in 1..Len(ms) : Append(ms, m)[i] = ms[i]
      /\ Append(ms, m)[Len(ms) + 1] = m
      /\ DOMAIN ms = 1..Len(ms) /\ DOMAIN Append(ms, m) = 1..(Len(ms) + 1)
      /\ Len(ms) \in Nat
  OBVIOUS
<1> DEFINE n == Len(ms)
           a == Append(ms, m)
<1> HIDE DEF n, a
<1>2. /\ \A i \in 1..n : a[i] = ms[i]
      /\ a[n + 1] = m
      /\ DOMAIN ms = 1..n /\ DOMAIN a = 1..(n + 1) /\ n \in Nat /\ Len(a) = n + 1 /\ Len(ms) = n
  BY <1>1 DEF n, a
<1>3. \A x : In(x, a) <=> In(x, ms) \/ x = m BY <1>2 DEF In
<1>4. Log!Extends(a, ms) BY <1>2 DEF Log!Extends
<1>5. Log!Extends(ms, ms) BY <1>2 DEF Log!Extends
<1> QED BY <1>1, <1>3, <1>4, <1>5 DEF a

LEMMA ExtendsKeeps ==
  ASSUME NEW long \in Seq(Message), NEW short \in Seq(Message), Log!Extends(long, short)
  PROVE  /\ \A x : In(x, short) => In(x, long)
         /\ \A x \in Message : Log!Extends(Append(long, x), short)
<1>1. /\ DOMAIN long = 1..Len(long) /\ DOMAIN short = 1..Len(short)
      /\ Len(long) \in Nat /\ Len(short) \in Nat
      /\ Len(short) <= Len(long) /\ \A i \in DOMAIN short : long[i] = short[i]
  BY DEF Log!Extends
<1>2. DOMAIN short \subseteq DOMAIN long BY <1>1
<1>3. \A x : In(x, short) => In(x, long) BY <1>1, <1>2 DEF In
<1>4. ASSUME NEW x \in Message PROVE Log!Extends(Append(long, x), short)
  <2>1. /\ Len(Append(long, x)) = Len(long) + 1
        /\ \A i \in 1..Len(long) : Append(long, x)[i] = long[i]
    OBVIOUS
  <2> QED BY <1>1, <2>1 DEF Log!Extends
<1> QED BY <1>3, <1>4

\* The next message of a turn makes no hole.
LEMMA WholeAppended ==
  ASSUME NEW ms \in Seq(Message), Whole(ms), NEW t \in Turns, NEW n \in Nat,
         n > 0 => In(<<t, n - 1>>, ms)
  PROVE  Whole(Append(ms, <<t, n>>))
<1> DEFINE a == Append(ms, <<t, n>>)
           k == Len(ms)
<1>1. /\ k \in Nat /\ DOMAIN ms = 1..k /\ DOMAIN a = 1..(k + 1)
      /\ \A i \in 1..k : a[i] = ms[i]
      /\ a[k + 1] = <<t, n>>
  OBVIOUS
<1> HIDE DEF a, k
<1>2. ASSUME NEW i \in DOMAIN a, a[i][2] > 0
      PROVE  \E j \in 1..(i - 1) : a[j] = <<a[i][1], a[i][2] - 1>>
  <2>1. CASE i \in 1..k
    <3>1. PICK j \in 1..(i - 1) : ms[j] = <<ms[i][1], ms[i][2] - 1>>
      BY <1>1, <1>2, <2>1 DEF Whole
    <3>2. j \in 1..k BY <1>1, <2>1
    <3> QED BY <1>1, <2>1, <3>1, <3>2
  <2>2. CASE i = k + 1
    <3>1. a[i] = <<t, n>> /\ n > 0 BY <1>1, <1>2, <2>2
    <3>2. PICK j \in 1..k : ms[j] = <<t, n - 1>> BY <1>1, <3>1 DEF In
    <3> QED BY <1>1, <2>2, <3>1, <3>2
  <2> QED BY <1>1, <2>1, <2>2
<1> QED BY <1>2 DEF Whole, a

-----------------------------------------------------------------------------
(***************************************************************************)
(* What a step does to an array, to a record and to a turn.                *)
(***************************************************************************)
\* Turn t says its n-th message in session s.
Says(t, n, s) ==
  /\ n \in Nat /\ s \in SessionIds
  /\ chat' = [chat EXCEPT ![s] = Append(@, <<t, n>>)]
  /\ sent' = [sent EXCEPT ![t] = n + 1]
  /\ home'[t] = s /\ pc'[t] # "free"
  /\ n > 0 => In(<<t, n - 1>>, chat[s])

\* The current session is one of the sessions, the next one is not yet.
LEMMA Sessions ==
  ASSUME TypeOK
  PROVE  state.sid \in SessionIds /\ nextId \notin DOMAIN rec /\ DOMAIN rec \subseteq SessionIds
BY MaxSessionsIsPos, SMTT(60) DEF TypeOK, SessionIds

LEMMA PromptSays ==
  ASSUME IInv, NEW t \in Turns, PromptStep(t)
  PROVE  Says(t, 0, state.sid)
<1>1. state.sid \in SessionIds BY MaxSessionsIsPos, SMTT(60) DEF IInv, TypeOK, SessionIds
<1>2. home'[t] = state.sid /\ pc'[t] = "streaming" BY DEF IInv, TypeOK, PromptStep
<1> QED BY <1>1, <1>2 DEF PromptStep, Says

LEMMA PushSays ==
  ASSUME IInv, NEW t \in Turns, t \in Pushing, Push(t), home' = home, pc'[t] # "free"
  PROVE  Says(t, sent[t], home[t])
<1>1. sent[t] \in Nat /\ home[t] \in SessionIds /\ sent[t] > 0 /\ Said(t, chat[home[t]])
  BY DEF IInv, TypeOK, HoldsItsWords
<1>2. In(<<t, sent[t] - 1>>, chat[home[t]]) BY <1>1 DEF Said
<1> QED BY <1>1, <1>2 DEF Push, Says

\* The array of session s gets the n-th message of turn t.
Gets(s, t, n) ==
  /\ chat'[s] = Append(chat[s], <<t, n>>)
  /\ home'[t] = s /\ pc'[t] # "free"
  /\ n > 0 => In(<<t, n - 1>>, chat[s])

\* The array of a session is left, emptied, loaded or gets one more message.
LEMMA ArrayStep ==
  ASSUME IInv, Kinds, NEW s \in SessionIds
  PROVE  \/ chat'[s] = chat[s]
         \/ chat'[s] = <<>>
         \/ s \in DOMAIN rec /\ chat'[s] = rec[s].messages
         \/ \E t \in Turns, n \in Nat : Gets(s, t, n)
<1>0. DOMAIN chat = SessionIds BY DEF IInv, TypeOK
<1>1. CASE KeepStep BY <1>1 DEF KeepStep
<1>2. CASE BootStep BY <1>0, <1>2 DEF BootStep
<1>3. CASE NewStep BY <1>3 DEF NewStep
<1>4. CASE RestartStep BY <1>4 DEF RestartStep, NewArrays
<1>5. ASSUME NEW t \in Turns, NEW n \in Nat, NEW r, Says(t, n, r)
      PROVE  chat'[s] = chat[s] \/ Gets(s, t, n)
  BY <1>0, <1>5 DEF Says, Gets
<1>6. ASSUME NEW t \in Turns, PromptStep(t) PROVE Says(t, 0, state.sid)
  BY <1>6, PromptSays
<1>7. ASSUME NEW t \in Turns, SayStep(t) \/ EndStep(t)
      PROVE  Says(t, sent[t], home[t]) \/ chat' = chat
  <2>1. t \in Pushing /\ home' = home /\ pc'[t] # "free" BY <1>7 DEF SayStep, EndStep
  <2> QED BY <1>7, <2>1, PushSays DEF SayStep, EndStep
<1>8. \A t \in Turns : sent[t] \in Nat BY DEF IInv, TypeOK
<1> QED BY <1>1, <1>2, <1>3, <1>4, <1>5, <1>6, <1>7, <1>8 DEF Kinds

\* A record is left, or is what the array of its session has become.
LEMMA RecordStep ==
  ASSUME TypeOK, Kinds, NEW s \in DOMAIN rec'
  PROVE  \/ s \in DOMAIN rec /\ rec'[s] = rec[s]
         \/ s \in SessionIds /\ rec'[s].messages = chat'[s]
<1>1. state.sid \in SessionIds BY MaxSessionsIsPos DEF TypeOK, SessionIds
<1>2. rec' = rec \/ \E r \in SessionIds : Stores(r, chat'[r])
  BY <1>1
  DEF Kinds, KeepStep, BootStep, NewStep, RestartStep, PromptStep, SayStep, EndStep, MayStore
<1> QED BY <1>2 DEF Stores

\* A turn that was started stays started, in its session.
LEMMA TurnStays ==
  ASSUME TypeOK, Kinds, NEW t \in Turns, pc[t] # "free"
  PROVE  home'[t] = home[t] /\ pc'[t] # "free"
BY ZenonT(60) DEF TypeOK, Kinds, KeepStep, BootStep, NewStep, RestartStep, PromptStep, SayStep, EndStep

-----------------------------------------------------------------------------
\* Each part of the invariant is kept, by kinds of step.

LEMMA AllAtHomeKept ==
  ASSUME IInv, TypeOK', Kinds
  PROVE  AllAtHome'
<1>0. /\ TypeOK /\ AllAtHome /\ \A s \in SessionIds : chat[s] \in Seq(Message)
      /\ \A m \in Message : m[1] \in Turns
  BY DEF IInv, TypeOK, Message
<1>1. ASSUME NEW s \in SessionIds PROVE Theirs(s, chat[s])'
  <2>1. ASSUME NEW m \in Message, In(m, chat'[s])
        PROVE  home'[m[1]] = s /\ pc'[m[1]] # "free"
    <3>1. /\ In(m, chat[s]) => home'[m[1]] = s /\ pc'[m[1]] # "free"
          /\ s \in DOMAIN rec /\ In(m, rec[s].messages) => home'[m[1]] = s /\ pc'[m[1]] # "free"
      BY <1>0, TurnStays DEF AllAtHome, Theirs
    <3>2. ASSUME NEW t \in Turns, NEW n \in Nat, Gets(s, t, n)
          PROVE  home'[m[1]] = s /\ pc'[m[1]] # "free"
      <4>1. <<t, n>> \in Message BY DEF Message
      <4>2. In(m, chat[s]) \/ m = <<t, n>> BY <1>0, <2>1, <3>2, <4>1, Appended DEF Gets
      <4> QED BY <3>1, <3>2, <4>2 DEF Gets
    <3>3. chat'[s] # <<>> BY <2>1 DEF In
    <3>4. \/ chat'[s] = chat[s]
          \/ chat'[s] = <<>>
          \/ s \in DOMAIN rec /\ chat'[s] = rec[s].messages
          \/ \E t \in Turns, n \in Nat : Gets(s, t, n)
      BY ArrayStep
    <3>5. CASE chat'[s] = chat[s] BY <2>1, <3>1, <3>5
    <3>6. CASE s \in DOMAIN rec /\ chat'[s] = rec[s].messages BY <2>1, <3>1, <3>6
    <3> QED BY <3>2, <3>3, <3>4, <3>5, <3>6
  <2> QED BY <2>1 DEF Theirs
<1>2. ASSUME NEW s \in DOMAIN rec' PROVE Theirs(s, rec[s].messages)'
  <2>1. CASE s \in DOMAIN rec /\ rec'[s] = rec[s]
    BY <1>0, <2>1, TurnStays DEF AllAtHome, Theirs
  <2>2. CASE s \in SessionIds /\ rec'[s].messages = chat'[s]
    BY <1>1, <2>2 DEF Theirs
  <2> QED BY <1>0, <2>1, <2>2, RecordStep
<1> QED BY <1>1, <1>2 DEF AllAtHome

LEMMA AllWholeKept ==
  ASSUME IInv, TypeOK', Kinds
  PROVE  AllWhole'
<1>0. TypeOK /\ AllWhole /\ \A s \in SessionIds : chat[s] \in Seq(Message)
  BY DEF IInv, TypeOK
<1>1. ASSUME NEW s \in SessionIds PROVE Whole(chat'[s])
  <2>1. Whole(chat[s]) /\ (s \in DOMAIN rec => Whole(rec[s].messages)) BY <1>0 DEF AllWhole
  <2>2. Whole(<<>>) BY DEF Whole
  <2>3. ASSUME NEW t \in Turns, NEW n \in Nat, Gets(s, t, n)
        PROVE  Whole(chat'[s])
    BY <1>0, <2>1, <2>3, WholeAppended DEF Gets
  <2> QED BY <2>1, <2>2, <2>3, ArrayStep
<1>2. ASSUME NEW s \in DOMAIN rec' PROVE Whole(rec'[s].messages)
  BY <1>0, <1>1, RecordStep DEF AllWhole
<1> QED BY <1>1, <1>2 DEF AllWhole, Whole

\* An array only grows as long as the process lives and its session is not
\* just being opened.
LEMMA ArraysGrow ==
  ASSUME IInv, Kinds, ~BootStep, ~RestartStep, NEW s \in SessionIds
  PROVE  \/ chat'[s] = chat[s]
         \/ \E m \in Message : chat'[s] = Append(chat[s], m)
<1>0. DOMAIN chat = SessionIds BY DEF IInv, TypeOK
<1>1. CASE KeepStep \/ NewStep BY <1>1 DEF KeepStep, NewStep
<1>2. ASSUME NEW t \in Turns, NEW n \in Nat, NEW r, Says(t, n, r)
      PROVE  chat'[s] = chat[s] \/ \E m \in Message : chat'[s] = Append(chat[s], m)
  <2>1. <<t, n>> \in Message BY DEF Message
  <2> QED BY <1>0, <1>2, <2>1 DEF Says
<1>3. ASSUME NEW t \in Turns, PromptStep(t)
      PROVE  chat'[s] = chat[s] \/ \E m \in Message : chat'[s] = Append(chat[s], m)
  <2>1. Says(t, 0, state.sid) BY <1>3, PromptSays
  <2> QED BY <1>2, <2>1
<1>4. ASSUME NEW t \in Turns, SayStep(t) \/ EndStep(t)
      PROVE  chat'[s] = chat[s] \/ \E m \in Message : chat'[s] = Append(chat[s], m)
  <2>1. t \in Pushing /\ home' = home /\ pc'[t] # "free" BY <1>4 DEF SayStep, EndStep
  <2>2. Says(t, sent[t], home[t]) \/ chat' = chat
    BY <1>4, <2>1, PushSays DEF SayStep, EndStep
  <2>3. sent[t] \in Nat BY DEF IInv, TypeOK
  <2> QED BY <1>2, <2>2, <2>3
<1> QED BY <1>1, <1>3, <1>4 DEF Kinds

\* What is in an array stays there, and it goes on extending its record.
LEMMA ArraysKeep ==
  ASSUME IInv, Kinds, ~BootStep, ~RestartStep, NEW s \in SessionIds
  PROVE  /\ \A x : In(x, chat[s]) => In(x, chat'[s])
         /\ \A ms \in Seq(Message) : Log!Extends(chat[s], ms) => Log!Extends(chat'[s], ms)
<1>1. chat[s] \in Seq(Message) BY DEF IInv, TypeOK
<1>2. ASSUME NEW m \in Message, chat'[s] = Append(chat[s], m)
      PROVE  /\ \A x : In(x, chat[s]) => In(x, chat'[s])
             /\ \A ms \in Seq(Message) : Log!Extends(chat[s], ms) => Log!Extends(chat'[s], ms)
  <2>1. \A x : In(x, chat[s]) => In(x, Append(chat[s], m)) BY <1>1, Appended
  <2>2. ASSUME NEW ms \in Seq(Message), Log!Extends(chat[s], ms)
        PROVE  Log!Extends(Append(chat[s], m), ms)
    BY <1>1, <2>2, ExtendsKeeps
  <2> QED BY <1>2, <2>1, <2>2
<1>3. chat'[s] = chat[s] \/ \E m \in Message : chat'[s] = Append(chat[s], m)
  BY ArraysGrow
<1> QED BY <1>2, <1>3

\* What a record holds stays in it: it is only replaced by what extends it.
LEMMA RecordsKeep ==
  ASSUME IInv, TypeOK', Kinds, NEW s \in DOMAIN rec
  PROVE  s \in DOMAIN rec' /\ Log!Extends(rec'[s].messages, rec[s].messages)
<1>0. /\ \A r \in DOMAIN rec : rec[r].messages \in Seq(Message)
      /\ state.sid \in SessionIds /\ nextId \notin DOMAIN rec /\ TypeOK
  BY Sessions DEF IInv, TypeOK, SessionRecord
<1>1. Log!Extends(rec[s].messages, rec[s].messages) BY <1>0 DEF Log!Extends
<1>2. CASE rec' = rec BY <1>1, <1>2
<1>3. CASE Stores(nextId, chat'[nextId]) BY <1>0, <1>1, <1>3 DEF Stores
<1>4. CASE Stores(state.sid, chat'[state.sid]) /\ ~BootStep /\ ~RestartStep
  <2>1. s # state.sid => rec'[s] = rec[s] BY <1>4 DEF Stores
  <2>2. s = state.sid => Log!Extends(chat'[s], rec[s].messages)
    BY <1>0, <1>4, ArraysKeep DEF IInv, GrowsFromRecord
  <2>3. s = state.sid => rec'[s].messages = chat'[s] BY <1>4 DEF Stores
  <2> QED BY <1>1, <1>4, <2>1, <2>2, <2>3 DEF Stores
<1>5. \/ rec' = rec \/ Stores(nextId, chat'[nextId])
      \/ Stores(state.sid, chat'[state.sid]) /\ ~BootStep /\ ~RestartStep
  BY DEF Kinds, KeepStep, BootStep, NewStep, RestartStep, PromptStep, SayStep, EndStep, MayStore
<1> QED BY <1>2, <1>3, <1>4, <1>5

LEMMA GrowsKept ==
  ASSUME IInv, TypeOK', Kinds
  PROVE  GrowsFromRecord'
<1>0. /\ \A s \in SessionIds : chat'[s] \in Seq(Message)
      /\ \A s \in DOMAIN rec' : rec'[s].messages \in Seq(Message)
      /\ \A s \in DOMAIN rec : rec[s].messages \in Seq(Message)
      /\ state.sid \in SessionIds /\ nextId \notin DOMAIN rec /\ DOMAIN chat = SessionIds
  <2>1. TypeOK BY DEF IInv
    <2>2. \A s \in DOMAIN rec' : rec'[s].messages \in Seq(Message)
      BY DEF TypeOK, SessionRecord
    <2> QED BY <2>1, <2>2, Sessions DEF TypeOK, SessionRecord
<1>s. state'.sid \in SessionIds
    BY MaxSessionsIsPos DEF TypeOK, SessionIds
<1>1. \A ms \in Seq(Message) : Log!Extends(ms, ms) BY DEF Log!Extends
<1>2. CASE BootStep
  BY <1>0, <1>1, <1>2, <1>s DEF BootStep, GrowsFromRecord
<1>3. CASE RestartStep
  BY <1>0, <1>3, <1>s DEF RestartStep, GrowsFromRecord
<1>4. CASE NewStep
  BY <1>0, <1>1, <1>4, <1>s DEF NewStep, MayStore, Stores, GrowsFromRecord
<1>5. CASE /\ state'.sid = state.sid /\ ~BootStep /\ ~RestartStep
           /\ rec' = rec \/ Stores(state.sid, chat'[state.sid])
  <2>1. CASE rec' = rec
    BY <1>0, <1>5, <2>1, ArraysKeep DEF IInv, GrowsFromRecord
  <2>2. CASE Stores(state.sid, chat'[state.sid])
    BY <1>0, <1>1, <1>5, <2>2 DEF Stores, GrowsFromRecord
  <2> QED BY <1>5, <2>1, <2>2
<1>6. \/ BootStep \/ RestartStep \/ NewStep
      \/ state'.sid = state.sid /\ (rec' = rec \/ Stores(state.sid, chat'[state.sid]))
  BY DEF Kinds, KeepStep, PromptStep, SayStep, EndStep, MayStore
<1> QED BY <1>2, <1>3, <1>4, <1>5, <1>6

\* After its n-th message a turn that had said all the earlier ones has said
\* all of them.
LEMMA SaysAll ==
  ASSUME IInv, NEW t \in Turns, NEW n \in Nat, NEW s \in SessionIds, Says(t, n, s),
         \A k \in 0..(n - 1) : In(<<t, k>>, chat[s])
  PROVE  /\ sent'[t] > 0 /\ Said(t, chat[s])'
         /\ \A u \in Turns \ {t} : sent'[u] = sent[u]
<1>1. /\ chat'[s] = Append(chat[s], <<t, n>>) /\ chat[s] \in Seq(Message)
      /\ sent'[t] = n + 1 /\ \A u \in Turns \ {t} : sent'[u] = sent[u]
      /\ <<t, n>> \in Message
  BY DEF IInv, TypeOK, Says, Message
<1>2. \A x : In(x, chat'[s]) <=> In(x, chat[s]) \/ x = <<t, n>> BY <1>1, Appended
<1>3. ASSUME NEW k \in 0..n PROVE In(<<t, k>>, chat'[s])
  <2>1. k = n \/ k \in 0..(n - 1) OBVIOUS
  <2> QED BY <1>2, <2>1
<1>4. sent'[t] - 1 = n BY <1>1
<1>5. Said(t, chat[s])' BY <1>3, <1>4 DEF Said
<1> QED BY <1>1, <1>5

LEMMA HoldsKept ==
  ASSUME IInv, TypeOK', Kinds
  PROVE  HoldsItsWords'
<1>0. /\ TypeOK /\ HoldsItsWords /\ Quiet /\ state.sid \in SessionIds
      /\ \A t \in Turns : sent[t] \in Nat
  BY Sessions DEF IInv, TypeOK
<1> DEFINE Holds(t) == home[t] \in SessionIds /\ sent[t] > 0 /\ Said(t, chat[home[t]])
<1>1. CASE KeepStep \/ NewStep
  <2>1. chat' = chat /\ sent' = sent /\ home' = home /\ Pushing' \subseteq Pushing
    BY <1>1 DEF KeepStep, NewStep, Pushing
  <2> QED BY <1>0, <2>1 DEF HoldsItsWords, Said
<1>2. CASE BootStep \/ RestartStep
  <2>1. Pushing' = {} BY <1>0, <1>2 DEF BootStep, RestartStep, Quiet, Running, Pushing
  <2> QED BY <2>1 DEF HoldsItsWords
<1>3. ASSUME NEW t \in Turns, NEW n \in Nat, NEW s \in SessionIds, Says(t, n, s),
             \A k \in 0..(n - 1) : In(<<t, k>>, chat[s]), ~BootStep, ~RestartStep,
             \A u \in Turns \ {t} : pc'[u] = pc[u] /\ home'[u] = home[u]
      PROVE  HoldsItsWords'
  <2>1. Holds(t)' BY <1>3, SaysAll DEF Says
  <2>2. ASSUME NEW u \in Turns \ {t}, u \in Pushing' PROVE Holds(u)'
    <3>1. u \in Pushing /\ home'[u] = home[u] BY <1>3, <2>2 DEF Pushing
    <3>2. sent'[u] = sent[u] BY <1>3, SaysAll
    <3>3. home[u] \in SessionIds /\ sent[u] > 0 /\ Said(u, chat[home[u]])
      BY <1>0, <3>1 DEF HoldsItsWords
    <3>4. \A x : In(x, chat[home[u]]) => In(x, chat'[home[u]]) BY <1>3, <3>3, ArraysKeep
    <3> QED BY <3>1, <3>2, <3>3, <3>4 DEF Said
  <2> QED BY <2>1, <2>2 DEF HoldsItsWords, Pushing
<1>4. ASSUME NEW t \in Turns, PromptStep(t), ~BootStep, ~RestartStep PROVE HoldsItsWords'
  <2>1. Says(t, 0, state.sid) BY <1>4, PromptSays
  <2>2. \A k \in 0..(0 - 1) : In(<<t, k>>, chat[state.sid]) OBVIOUS
  <2>3. \A u \in Turns \ {t} : pc'[u] = pc[u] /\ home'[u] = home[u]
    BY <1>0, <1>4 DEF PromptStep, TypeOK
  <2> QED BY <1>0, <1>3, <1>4, <2>1, <2>2, <2>3
<1>5. ASSUME NEW t \in Turns, SayStep(t) \/ EndStep(t), ~BootStep, ~RestartStep
      PROVE  HoldsItsWords'
  <2>1. /\ t \in Pushing /\ home' = home /\ pc'[t] # "free"
        /\ \A u \in Turns \ {t} : pc'[u] = pc[u]
    BY <1>5 DEF SayStep, EndStep
  <2>2. CASE Push(t)
    <3>1. Says(t, sent[t], home[t]) BY <2>1, <2>2, PushSays
    <3>2. home[t] \in SessionIds /\ Said(t, chat[home[t]]) BY <1>0, <2>1 DEF HoldsItsWords
    <3> QED BY <1>0, <1>3, <1>5, <2>1, <3>1, <3>2 DEF Said
  <2>3. CASE EndStep(t) /\ UNCHANGED <<chat, sent>>
    <3>1. Pushing' \subseteq Pushing BY <2>1, <2>3 DEF EndStep, Pushing
    <3> QED BY <1>0, <2>1, <2>3, <3>1 DEF HoldsItsWords, Said
  <2> QED BY <1>5, <2>2, <2>3 DEF SayStep, EndStep
<1> QED BY <1>1, <1>2, <1>4, <1>5 DEF Kinds

LEMMA TurnsAtHomeKept ==
  ASSUME IInv, TypeOK', Kinds
  PROVE  TurnsAtHome'
<1>0. /\ TypeOK /\ TurnsAtHome /\ HoldsItsWords /\ Quiet
      /\ pc \in [Turns -> PcValues] /\ cut \subseteq Turns
      /\ \A s \in DOMAIN rec : rec[s].messages \in Seq(Message)
      /\ \A s \in DOMAIN rec' : rec'[s].messages \in Seq(Message)
  BY DEF IInv, TypeOK, SessionRecord
<1>r. ASSUME NEW t \in Turns, home'[t] = home[t], sent'[t] = sent[t],
             home[t] \in DOMAIN rec, Said(t, rec[home[t]].messages)
      PROVE  home'[t] \in DOMAIN rec' /\ Said(t, rec[home[t]].messages)'
  <2>1. home[t] \in DOMAIN rec' /\ Log!Extends(rec'[home[t]].messages, rec[home[t]].messages)
    BY <1>r, RecordsKeep
  <2>2. \A x : In(x, rec[home[t]].messages) => In(x, rec'[home[t]].messages)
    BY <1>0, <1>r, <2>1, ExtendsKeeps
  <2> QED BY <1>r, <2>1, <2>2 DEF Said
<1>1. CASE KeepStep
  <2>1. ASSUME NEW t \in Turns \ cut'
        PROVE  /\ t \in Running' => home'[t] = state'.sid
               /\ pc'[t] \in {"saving", "done"} =>
                    home'[t] \in DOMAIN rec' /\ Said(t, rec[home[t]].messages)'
    <3>1. t \in Turns \ cut /\ home'[t] = home[t] /\ sent'[t] = sent[t] /\ state'.sid = state.sid
      BY <1>1 DEF KeepStep
    <3>2. t \in Running' => t \in Running BY <1>1 DEF KeepStep, Running
    <3>3. pc'[t] \in {"saving", "done"} => pc[t] \in {"saving", "done"} BY <1>1 DEF KeepStep
    <3> QED BY <1>0, <1>r, <3>1, <3>2, <3>3 DEF TurnsAtHome
  <2> QED BY <2>1 DEF TurnsAtHome
<1>2. CASE BootStep \/ NewStep \/ RestartStep
  <2>1. ASSUME NEW t \in Turns \ cut'
        PROVE  /\ t \notin Running'
               /\ pc'[t] \in {"saving", "done"} =>
                    home'[t] \in DOMAIN rec' /\ Said(t, rec[home[t]].messages)'
    <3>1. t \in Turns \ cut /\ home'[t] = home[t]
      BY <1>2 DEF BootStep, NewStep, RestartStep
    <3>2. t \notin Running' BY <1>0, <1>2 DEF BootStep, NewStep, RestartStep, Quiet, Running
    <3>3. pc'[t] \in {"saving", "done"} => pc[t] \in {"saving", "done"} /\ sent'[t] = sent[t]
      BY <1>2 DEF BootStep, NewStep, RestartStep, Running
    <3> QED BY <1>0, <1>r, <3>1, <3>2, <3>3 DEF TurnsAtHome
  <2> QED BY <2>1 DEF TurnsAtHome
<1>3. ASSUME NEW t \in Turns, state'.sid = state.sid, cut' = cut,
             \A u \in Turns \ {t} :
               pc'[u] = pc[u] /\ home'[u] = home[u] /\ sent'[u] = sent[u],
             t \notin cut /\ t \in Running' => home'[t] = state.sid,
             t \notin cut /\ pc'[t] \in {"saving", "done"} =>
               home'[t] \in DOMAIN rec' /\ Said(t, rec[home[t]].messages)'
      PROVE  TurnsAtHome'
  <2>1. ASSUME NEW u \in Turns \ cut, u # t
        PROVE  /\ u \in Running' => home'[u] = state'.sid
               /\ pc'[u] \in {"saving", "done"} =>
                    home'[u] \in DOMAIN rec' /\ Said(u, rec[home[u]].messages)'
    <3>1. pc'[u] = pc[u] /\ home'[u] = home[u] /\ sent'[u] = sent[u] BY <1>3, <2>1
    <3>2. u \in Running' <=> u \in Running BY <3>1 DEF Running
    <3> QED BY <1>0, <1>3, <1>r, <2>1, <3>1, <3>2 DEF TurnsAtHome
  <2> QED BY <1>3, <2>1 DEF TurnsAtHome
<1>4. ASSUME NEW t \in Turns, PromptStep(t) PROVE TurnsAtHome'
  <2>1. /\ state'.sid = state.sid /\ cut' = cut /\ home'[t] = state.sid /\ pc'[t] = "streaming"
        /\ \A u \in Turns \ {t} : pc'[u] = pc[u] /\ home'[u] = home[u] /\ sent'[u] = sent[u]
    BY <1>0, <1>4 DEF PromptStep, TypeOK
  <2> QED BY <1>3, <2>1
<1>5. ASSUME NEW t \in Turns, SayStep(t) \/ EndStep(t) PROVE TurnsAtHome'
  <2>1. /\ t \in Pushing /\ home' = home /\ cut' = cut /\ state'.sid = state.sid
        /\ pc'[t] # "free" /\ \A u \in Turns \ {t} : pc'[u] = pc[u]
    BY <1>5 DEF SayStep, EndStep
  <2>2. \A u \in Turns \ {t} : sent'[u] = sent[u]
    BY <1>0, <1>5 DEF SayStep, EndStep, Push, TypeOK
  <2>3. t \notin cut => home[t] = state.sid BY <1>0, <2>1 DEF TurnsAtHome, Running, Pushing
  <2>4. ASSUME t \notin cut, pc'[t] \in {"saving", "done"}
        PROVE  home[t] \in DOMAIN rec' /\ Said(t, rec[home[t]].messages)'
    <3>1. EndStep(t) /\ Stores(state.sid, chat'[state.sid]) BY <1>5, <2>4 DEF SayStep, EndStep
    <3>2. home[t] \in DOMAIN rec' /\ rec'[home[t]].messages = chat'[home[t]]
      BY <2>3, <2>4, <3>1 DEF Stores
    <3>3. Said(t, chat[home[t]])'
      <4>1. home[t] \in SessionIds /\ Said(t, chat[home[t]]) /\ sent[t] \in Nat
        BY <1>0, <2>1 DEF HoldsItsWords, TypeOK
      <4>2. CASE Push(t)
        <5>1. Says(t, sent[t], home[t]) BY <2>1, <4>2, PushSays
        <5>2. Said(t, chat[home[t]])' <=> \A n \in 0..(sent'[t] - 1) : In(<<t, n>>, chat'[home[t]])
          BY <2>1 DEF Said
        <5> DEFINE s == home[t]
        <5>3. /\ s \in SessionIds /\ Says(t, sent[t], s)
              /\ \A k \in 0..(sent[t] - 1) : In(<<t, k>>, chat[s])
          BY <4>1, <5>1 DEF Said
        <5>4. s' = s BY <2>1
        <5> HIDE DEF s
        <5>5. \A n \in 0..(sent'[t] - 1) : In(<<t, n>>, chat'[s])
          BY <4>1, <5>3, <5>4, SaysAll DEF Said
        <5> QED BY <5>2, <5>5 DEF s
      <4>3. CASE UNCHANGED <<chat, sent>> BY <2>1, <4>1, <4>3 DEF Said
      <4> QED BY <3>1, <4>2, <4>3 DEF EndStep
    <3> QED BY <2>1, <3>2, <3>3 DEF Said
  <2> QED BY <1>3, <2>1, <2>2, <2>3, <2>4
<1> QED BY <1>1, <1>2, <1>4, <1>5 DEF Kinds

-----------------------------------------------------------------------------
LEMMA InvInit == Init => IInv
<1> SUFFICES ASSUME Init PROVE IInv OBVIOUS
<1>1. TypeOK BY InitTyped
<1>2. Running = {} /\ Pushing = {} BY DEF Init, Running, Pushing
<1>3. rec = [s \in {} |-> NoSession] /\ DOMAIN rec = {} BY DEF Init, StoreInit
<1>4. \A s \in SessionIds : chat[s] = <<>> BY DEF Init, NewArrays
<1>5. Quiet /\ GrowsFromRecord /\ HoldsItsWords
  BY <1>2, <1>3 DEF Quiet, GrowsFromRecord, HoldsItsWords
<1>6. AllAtHome BY <1>3, <1>4 DEF AllAtHome, Theirs, In
<1>7. AllWhole BY <1>3, <1>4 DEF AllWhole, Whole
<1>8. \A t \in Turns : pc[t] = "free" BY DEF Init
<1>9. TurnsAtHome BY <1>2, <1>8 DEF TurnsAtHome
<1> QED BY <1>1, <1>5, <1>6, <1>7, <1>9 DEF IInv

LEMMA InvKept == IInv /\ [Next]_vars => IInv'
<1> SUFFICES ASSUME IInv, [Next]_vars PROVE IInv' OBVIOUS
<1>1. TypeOK /\ Quiet BY DEF IInv
<1>2. TypeOK' BY <1>1, NextTyped
<1>3. Kinds BY <1>1, StepKinds
<1>4. Quiet' BY <1>1, QuietKept
<1> QED
  BY <1>2, <1>3, <1>4, GrowsKept, AllAtHomeKept, AllWholeKept, HoldsKept, TurnsAtHomeKept
  DEF IInv

\* The invariant holds in every state of every behaviour.
THEOREM Inductive == Spec => []IInv
BY InvInit, InvKept, PTL DEF Spec

LEMMA RecordsTyped ==
  ASSUME TypeOK, NEW s \in DOMAIN rec
  PROVE  rec[s].messages \in Seq(Message)
BY DEF TypeOK, SessionRecord

\* Whatever is stored in a session was said there: a turn that goes on after
\* new_session does not leak into the session made meanwhile.
THEOREM StayHome == Spec => []MessagesStayHome
<1>1. IInv => MessagesStayHome
  <2> SUFFICES ASSUME IInv, NEW s \in DOMAIN rec, NEW i \in DOMAIN rec[s].messages
               PROVE  home[rec[s].messages[i][1]] = s
    BY DEF MessagesStayHome
  <2>1. rec[s].messages \in Seq(Message) BY RecordsTyped DEF IInv
  <2>2. rec[s].messages[i] \in Message BY <2>1
  <2>3. In(rec[s].messages[i], rec[s].messages) BY DEF In
  <2> QED BY <2>2, <2>3 DEF IInv, AllAtHome, Theirs
<1> QED BY <1>1, Inductive, PTL

\* A stored conversation never lacks an earlier message of a turn it holds.
THEOREM WholeConversations == Spec => []NoHoles
<1>1. IInv => NoHoles BY DEF IInv, AllWhole, Whole, NoHoles
<1> QED BY <1>1, Inductive, PTL

\* What a finished turn has said is stored, unless its session was left.
THEOREM DoneStored == Spec => []DoneTurnsAreStored
<1>1. IInv => DoneTurnsAreStored BY DEF IInv, TurnsAtHome, Said, DoneTurnsAreStored
<1> QED BY <1>1, Inductive, PTL

-----------------------------------------------------------------------------
(***************************************************************************)
(* The records as a durable log.                                           *)
(***************************************************************************)
LogNow == [s \in DOMAIN rec |-> rec[s].messages]

\* Storing the array of session s records it in the log of s.
LEMMA StoreRecords ==
  ASSUME IInv, TypeOK', AllAtHome', Kinds, NEW s \in SessionIds, Stores(s, chat'[s]),
         s \in DOMAIN rec => Log!Extends(chat'[s], rec[s].messages)
  PROVE  Log!LogNext
<1> DEFINE ms == chat'[s]
<1>0. /\ ms \in Seq(Message) /\ TypeOK
      /\ \A r \in DOMAIN rec : rec[r].messages \in Seq(Message)
  BY RecordsTyped DEF IInv, TypeOK
<1>a. \A m \in Message : In(m, ms) => home'[m[1]] = s
  BY DEF AllAtHome, Theirs
<1>b. ASSUME NEW r \in DOMAIN rec \ {s}, NEW m \in Message, In(m, ms)
      PROVE  ~In(m, rec[r].messages)
  <2> SUFFICES ASSUME In(m, rec[r].messages) PROVE FALSE OBVIOUS
  <2>1. m[1] \in Turns BY DEF Message
  <2>2. home[m[1]] = r /\ pc[m[1]] # "free" BY <1>b DEF IInv, AllAtHome, Theirs
  <2>3. home'[m[1]] = home[m[1]] BY <1>0, <2>1, <2>2, TurnStays
  <2> QED BY <1>a, <1>b, <2>2, <2>3
<1> HIDE DEF ms
<1>1. DOMAIN LogNow' = DOMAIN LogNow \cup {s} BY DEF Stores, LogNow
<1>2. \A r \in DOMAIN LogNow \ {s} : LogNow'[r] = LogNow[r] BY DEF Stores, LogNow
<1>3. LogNow'[s] = ms BY DEF Stores, LogNow, ms
<1>4. \A r \in DOMAIN LogNow : LogNow[r] = rec[r].messages BY DEF LogNow
<1>5. DOMAIN LogNow = DOMAIN rec BY DEF LogNow
<1>6. Log!LogOf(s) = IF s \in DOMAIN rec THEN rec[s].messages ELSE <<>>
  BY DEF Log!LogOf
<1>7. Log!Extends(ms, Log!LogOf(s))
  <2>1. Log!Extends(ms, <<>>)
    <3>1. Len(<<>>) = 0 /\ DOMAIN <<>> = {} /\ Len(ms) >= 0 BY <1>0
    <3> QED BY <3>1 DEF Log!Extends
  <2> QED BY <1>6, <2>1 DEF ms
<1>8. ASSUME NEW m \in Log!Occurs(ms) \ Log!Occurs(Log!LogOf(s)) PROVE m \notin Log!Recorded
  <2>1. In(m, ms) BY DEF Log!Occurs, In
  <2>2. m \in Message BY <1>0, <2>1 DEF In
  <2>3. \A r \in DOMAIN rec \ {s} : ~In(m, rec[r].messages) BY <1>b, <2>1, <2>2
  <2>4. s \in DOMAIN rec => ~In(m, rec[s].messages) BY <1>6 DEF Log!Occurs, In
  <2>5. \A r \in DOMAIN rec : ~In(m, rec[r].messages) BY <2>3, <2>4
  <2>6. \A r \in DOMAIN rec : m \notin Log!Occurs(rec[r].messages)
    BY <2>5 DEF Log!Occurs, In
  <2>7. m \notin UNION {Log!Occurs(LogNow[r]) : r \in DOMAIN LogNow} BY <1>4, <1>5, <2>6
  <2> QED BY <2>7 DEF Log!Recorded, LogNow
<1>9. Log!Record(s)
  BY <1>0, <1>1, <1>2, <1>3, <1>7, <1>8 DEF Log!Record, LogNow
<1> QED BY <1>9 DEF Log!LogNext

LEMMA StepRecords == IInv /\ [Next]_vars => [Log!LogNext]_LogNow
<1> SUFFICES ASSUME IInv, [Next]_vars, LogNow' # LogNow PROVE Log!LogNext
  BY DEF LogNow
<1>0. rec' # rec BY DEF LogNow
<1>1. Kinds BY StepKinds DEF IInv
<1>2. TypeOK' /\ AllAtHome' BY InvKept DEF IInv
<1>3. PICK s \in SessionIds : Stores(s, chat'[s])
  <2>1. \/ nextId \in SessionIds /\ Stores(nextId, chat'[nextId])
        \/ Stores(state.sid, chat'[state.sid])
    BY <1>0, <1>1
    DEF Kinds, KeepStep, BootStep, NewStep, RestartStep, PromptStep, SayStep, EndStep, MayStore
  <2> QED BY <2>1, Sessions DEF IInv
<1>4. s \in DOMAIN rec => Log!Extends(chat'[s], rec[s].messages)
  BY <1>1, <1>2, <1>3, RecordsKeep DEF Stores
<1> QED BY <1>1, <1>2, <1>3, <1>4, StoreRecords

\* The dispatcher's records implement the durable log: with turns that overlap
\* and outlive their session, logs only grow at their end and no message is
\* recorded in two sessions.
THEOREM DurableLogImplemented == Spec => ImplementsDurableLog
<1>1. Init => Log!LogInit
  BY DEF Init, StoreInit, Log!LogInit
<1>2. IInv /\ [Next]_vars => [Log!LogNext]_LogNow BY StepRecords
<1> QED
  BY <1>1, <1>2, Inductive, PTL DEF Spec, ImplementsDurableLog, Log!LogSpec, LogNow

-----------------------------------------------------------------------------
(***************************************************************************)
(* Aborts.                                                                 *)
(***************************************************************************)
\* A signal is set only for a turn that streams or runs its tools.
LEMMA SignalsKept ==
  ASSUME TypeOK, SignalsInv, [Next]_vars
  PROVE  SignalsInv'
<1> USE DEF SignalsInv
<1>a. ASSUME NEW t \in Turns, Finish(t) PROVE SignalsInv'
  <2>1. \A u \in Turns \ {t} : pc'[u] = pc[u] BY <1>a, FinishKind
  <2>2. ctl' = NoTurn /\ aborted' = aborted \ {t} BY <1>a DEF Finish, EndsLocals
  <2> QED BY <2>1, <2>2 DEF Pushing
<1>1. CASE \/ Boot \/ NewSession \/ CommandSaved \/ UNCHANGED vars
           \/ \E p \in Prefs : SetPrefs(p)
           \/ \E td \in Todos : SetTodos(td)
           \/ \E t \in Turns : Token(t) \/ NextTool(t)
  <2>1. ctl' = ctl /\ aborted' = aborted /\ pc' = pc
    BY <1>1
    DEF Boot, NewSession, CommandSaved, SetPrefs, SetTodos, Token, NextTool, vars, rpcVars,
        turnVars
  <2> QED BY <2>1 DEF Pushing
<1>2. CASE Abort BY <1>2 DEF Abort, Pushing, turnVars
<1>3. ASSUME NEW t \in Turns, Prompt(t) PROVE SignalsInv'
  <2>1. pc' = [pc EXCEPT ![t] = "streaming"] /\ ctl' = t /\ aborted' = aborted
    BY <1>3 DEF Prompt
  <2> QED BY <2>1 DEF Pushing, TypeOK
<1>4. ASSUME NEW t \in Turns, ReplyEnds(t) \/ ReplyFails(t) PROVE SignalsInv'
  BY <1>4, <1>a DEF ReplyEnds, ReplyFails
<1>5. ASSUME NEW t \in Turns, ReplyCallsTools(t) PROVE SignalsInv'
  <2>1. pc' = [pc EXCEPT ![t] = "tool"] /\ UNCHANGED <<ctl, aborted>>
    BY <1>5 DEF ReplyCallsTools
  <2> QED BY <2>1 DEF Pushing, TypeOK
<1>6. ASSUME NEW t \in Turns, LastTool(t) PROVE SignalsInv'
  <2>1. CASE GoesOn(t)
    <3>1. pc' = [pc EXCEPT ![t] = "streaming"] /\ UNCHANGED <<ctl, aborted>>
      BY <1>6, <2>1 DEF LastTool
    <3> QED BY <3>1 DEF Pushing, TypeOK
  <2>2. CASE ~GoesOn(t) BY <1>6, <1>a, <2>2 DEF LastTool
  <2> QED BY <2>1, <2>2
<1>7. ASSUME NEW t \in Turns, TurnSaved(t) PROVE SignalsInv'
  <2>1. /\ UNCHANGED <<ctl, aborted>> /\ pc[t] = "saving"
        /\ \A u \in Turns \ {t} : pc'[u] = pc[u]
    BY <1>7 DEF TurnSaved, TypeOK
  <2> QED BY <2>1 DEF Pushing
<1>8. CASE Restart BY <1>8 DEF Restart, ForgetsTurns
<1> QED BY <1>1, <1>2, <1>3, <1>4, <1>5, <1>6, <1>7, <1>8 DEF Next

\* A turn whose signal has fired makes no further call of the model, takes no
\* further token, and gets no other turn's count: what is left for it is the
\* tools it was running, and its end.
THEOREM AbortStops == Spec => AbortStopsTurn
<1>1. Init => SignalsInv BY DEF Init, SignalsInv
<1>2. TypeOK /\ SignalsInv /\ [Next]_vars => SignalsInv' BY SignalsKept
<1>3. TypeOK /\ SignalsInv /\ [Next]_vars =>
        [\A t \in aborted : iter'[t] \in {iter[t], 0} /\ left'[t] \in {left[t], 0}]_vars
  <2> SUFFICES ASSUME TypeOK, SignalsInv, Next, NEW t \in aborted
               PROVE  iter'[t] \in {iter[t], 0} /\ left'[t] \in {left[t], 0}
    OBVIOUS
  <2>0. t \in Turns /\ pc[t] # "free" BY DEF SignalsInv, Pushing
  <2> USE DEF TypeOK
  <2>a. ASSUME NEW u \in Turns, EndsLocals(u) PROVE iter'[t] \in {iter[t], 0}
    BY <2>0, <2>a DEF EndsLocals
  <2>1. CASE \/ Boot \/ NewSession \/ CommandSaved \/ Abort
             \/ \E p \in Prefs : SetPrefs(p)
             \/ \E td \in Todos : SetTodos(td)
             \/ \E u \in Turns : NextTool(u) \/ TurnSaved(u)
    <3>1. iter' = iter /\ left' = left
      BY <2>1
      DEF Boot, NewSession, CommandSaved, Abort, SetPrefs, SetTodos, NextTool, TurnSaved,
          turnVars
    <3> QED BY <3>1
  <2>2. ASSUME NEW u \in Turns, Prompt(u)
        PROVE  iter'[t] \in {iter[t], 0} /\ left'[t] \in {left[t], 0}
    <3>1. u # t BY <2>0, <2>2 DEF Prompt
    <3> QED BY <2>0, <2>2, <3>1 DEF Prompt
  <2>3. ASSUME NEW u \in Turns, Token(u)
        PROVE  iter'[t] \in {iter[t], 0} /\ left'[t] \in {left[t], 0}
    BY <2>0, <2>3 DEF Token
  <2>4. ASSUME NEW u \in Turns, ReplyEnds(u) \/ ReplyFails(u)
        PROVE  iter'[t] \in {iter[t], 0} /\ left'[t] \in {left[t], 0}
    <3>1. EndsLocals(u) /\ left' = [left EXCEPT ![u] = 0]
      BY <2>4 DEF ReplyEnds, ReplyFails, Finish
    <3> QED BY <2>0, <2>a, <3>1
  <2>5. ASSUME NEW u \in Turns, ReplyCallsTools(u)
        PROVE  iter'[t] \in {iter[t], 0} /\ left'[t] \in {left[t], 0}
    BY <2>0, <2>5 DEF ReplyCallsTools
  <2>6. ASSUME NEW u \in Turns, LastTool(u)
        PROVE  iter'[t] \in {iter[t], 0} /\ left'[t] \in {left[t], 0}
    <3>1. CASE GoesOn(u)
      <4>1. /\ u # t /\ iter' = [iter EXCEPT ![u] = @ + 1]
            /\ left' = [left EXCEPT ![u] = Tokens]
        BY <2>6, <3>1 DEF LastTool, GoesOn
      <4> QED BY <2>0, <4>1
    <3>2. CASE ~GoesOn(u)
      <4>1. EndsLocals(u) /\ left' = left BY <2>6, <3>2 DEF LastTool, Finish
      <4> QED BY <2>0, <2>a, <4>1
    <3> QED BY <3>1, <3>2
  <2>7. CASE Restart BY <2>0, <2>7 DEF Restart, ForgetsTurns
  <2> QED BY <2>1, <2>2, <2>3, <2>4, <2>5, <2>6, <2>7 DEF Next
<1> QED BY <1>1, <1>2, <1>3, TypeCorrect, PTL DEF Spec, AbortStopsTurn

-----------------------------------------------------------------------------
(***************************************************************************)
(* What a restart finds, while no write is refused.  Any save, of a        *)
(* command or of a turn of any session, writes what memory then has of the *)
(* current session.                                                        *)
(***************************************************************************)
Talking == {t \in Pushing : home[t] = state.sid}
Saving == saves > 0 \/ \E t \in Turns : pc[t] = "saving"

\* A save that still has to write the active key has written the record.
PendingHasRecord == Saving => state.sid \in DOMAIN rec

\* Nothing in memory is newer than the store, but for what turns still add.
UpToDate ==
  /\ state.sid \in DOMAIN rec =>
       /\ rec[state.sid].prefs = state.prefs
       /\ rec[state.sid].todos = state.todos
       /\ Talking = {} => rec[state.sid].messages = chat[state.sid]
  /\ state.sid \notin DOMAIN rec /\ Talking = {} => chat[state.sid] = <<>>

\* If the active key is not the current session, a save will make it so.
ReopensSoon == state.sid \in DOMAIN rec /\ active # state.sid => Saving

Reopening == ActiveSessionLoads /\ PendingHasRecord /\ UpToDate /\ ReopensSoon

SInv == TypeOK /\ Reopening

StoresAll(st, ms) ==
  /\ DOMAIN rec' = DOMAIN rec \cup {st.sid}
  /\ rec'[st.sid] = Stored(st, ms)

\* A save that is not refused leaves the record of the session up to date and
\* its second write to come.
LEMMA SaveReopens ==
  ASSUME SInv, NEW st, state' = st,
         WriteRecord(st.sid, Stored(st, chat'[st.sid]), TRUE), Saving'
  PROVE  Reopening'
<1>1. StoresAll(st, chat'[st.sid]) /\ active' = active
  BY DEF WriteRecord, StoresAll
<1>2. state'.sid \in DOMAIN rec' /\ rec'[state'.sid] = Stored(state', chat'[state'.sid])
  BY <1>1 DEF StoresAll
<1>3. ActiveSessionLoads'
  BY <1>1 DEF SInv, Reopening, ActiveSessionLoads, StoresAll
<1>4. UpToDate'
  BY <1>2 DEF UpToDate, Stored
<1> QED BY <1>2, <1>3, <1>4 DEF Reopening, PendingHasRecord, ReopensSoon

LEMMA MutateReopens ==
  ASSUME ~StorageFails, SInv, NEW st, Mutate(st), chat' = chat
  PROVE  Reopening'
<1>1. WriteOutcomes = {TRUE} BY DEF WriteOutcomes
<1>2. state' = st /\ WriteRecord(st.sid, Stored(st, chat'[st.sid]), TRUE) /\ saves' = saves + 1
  BY <1>1 DEF Mutate
<1>3. saves \in Nat BY MaxSavesIsPos DEF SInv, TypeOK
<1>4. Saving' BY <1>2, <1>3 DEF Saving
<1> QED BY <1>2, <1>4, SaveReopens

LEMMA FinishReopens ==
  ASSUME ~StorageFails, SInv, NEW t \in Turns, Finish(t)
  PROVE  Reopening'
<1>1. WriteOutcomes = {TRUE} BY DEF WriteOutcomes
<1>2. /\ state' = [state EXCEPT !.streaming = FALSE]
      /\ WriteRecord(state.sid, Stored(state', chat'[state.sid]), TRUE)
      /\ pc' = [pc EXCEPT ![t] = "saving"]
  BY <1>1 DEF Finish
<1>3. state'.sid = state.sid BY <1>2 DEF SInv, TypeOK
<1>4. Saving'
  <2>1. pc'[t] = "saving" BY <1>2 DEF SInv, TypeOK
  <2> QED BY <2>1 DEF Saving
<1> QED BY <1>2, <1>3, <1>4, SaveReopens

\* A turn that says something and goes on: in the current session it is still
\* talking, elsewhere it leaves the current array alone.
LEMMA SayReopens ==
  ASSUME SInv, NEW t \in Turns, SayStep(t), UNCHANGED <<state, active, saves>>
  PROVE  Reopening'
<1>1. /\ chat \in [SessionIds -> Seq(Message)] /\ rec' = rec /\ home' = home
      /\ t \in Pushing /\ pc'[t] \in {"streaming", "tool"}
      /\ \A u \in Turns \ {t} : pc'[u] = pc[u]
      /\ chat' = [chat EXCEPT ![home[t]] = Append(chat[home[t]], <<t, sent[t]>>)]
  BY DEF SInv, TypeOK, SayStep, Push
<1>2. Talking' = Talking BY <1>1 DEF Talking, Pushing
<1>3. Talking = {} => chat'[state.sid] = chat[state.sid]
  <2>1. home[t] = state.sid => Talking # {} BY <1>1 DEF Talking
  <2>2. state.sid \in SessionIds BY MaxSessionsIsPos, SMTT(60) DEF SInv, TypeOK, SessionIds
  <2> QED BY <1>1, <2>1, <2>2
<1>4. Saving' <=> Saving BY <1>1 DEF Saving, Pushing
<1>5. UpToDate' BY <1>1, <1>2, <1>3 DEF SInv, Reopening, UpToDate
<1> QED BY <1>1, <1>4, <1>5
        DEF SInv, Reopening, ActiveSessionLoads, PendingHasRecord, ReopensSoon

\* A step that moves no turn but one whose save is over, and says nothing.
LEMMA StillReopens ==
  ASSUME SInv, rec' = rec, chat' = chat, home' = home,
         state'.sid = state.sid, state'.prefs = state.prefs, state'.todos = state.todos,
         Pushing' = Pushing, \/ active' = active /\ (Saving' <=> Saving)
                             \/ active' = state.sid /\ Saving
  PROVE  Reopening'
<1>1. Talking' = Talking BY DEF Talking
<1>2. UpToDate' BY <1>1 DEF SInv, Reopening, UpToDate
<1>3. CASE active' = active /\ (Saving' <=> Saving)
  BY <1>2, <1>3 DEF SInv, Reopening, ActiveSessionLoads, PendingHasRecord, ReopensSoon
<1>4. CASE active' = state.sid /\ Saving
  BY <1>2, <1>4 DEF SInv, Reopening, ActiveSessionLoads, PendingHasRecord, ReopensSoon
<1> QED BY <1>3, <1>4

LEMMA ReopeningKept ==
  ASSUME ~StorageFails, SInv, [Next]_vars
  PROVE  Reopening'
<1>0. /\ TypeOK /\ TypeOK' /\ Kinds /\ pc \in [Turns -> PcValues]
      /\ nextId \notin DOMAIN rec /\ WriteOutcomes = {TRUE}
  BY NextTyped, StepKinds, Sessions DEF SInv, TypeOK, WriteOutcomes
<1>1. CASE Boot
  <2>1. rec' = rec /\ active' = active /\ UNCHANGED <<saves, pc, home>>
    BY <1>1 DEF Boot, storeVars, turnVars
  <2>2. CASE active \in DOMAIN rec
    <3>1. state'.sid = active /\ state'.prefs = rec[active].prefs /\ state'.todos = rec[active].todos
      BY <1>1, <2>2 DEF Boot, Restored
    <3>2. chat'[active] = rec[active].messages
      BY <1>1, <2>2, RecordsTyped, MaxSessionsIsPos, SMTT(60) DEF Boot, TypeOK, SInv, SessionIds
    <3> QED BY <2>1, <2>2, <3>1, <3>2
            DEF Reopening, ActiveSessionLoads, PendingHasRecord, UpToDate, ReopensSoon
  <2>3. CASE active \notin DOMAIN rec
    <3>1. state' = state /\ chat' = chat BY <1>1, <2>3 DEF Boot
    <3> QED BY <2>1, <3>1, StillReopens DEF Pushing, Saving
  <2> QED BY <2>2, <2>3
<1>2. ASSUME NEW p \in Prefs, SetPrefs(p) PROVE Reopening'
  BY <1>2, MutateReopens DEF SetPrefs
<1>3. ASSUME NEW td \in Todos, SetTodos(td) PROVE Reopening'
  BY <1>3, MutateReopens DEF SetTodos
<1>4. CASE NewSession
  BY <1>4, MutateReopens DEF NewSession
<1>5. CASE CommandSaved
  <2>1. /\ active' = state.sid /\ rec' = rec /\ saves > 0
        /\ UNCHANGED <<state, chat, pc, home>>
    BY <1>0, <1>5 DEF CommandSaved, WriteActive, turnVars
  <2> QED BY <2>1, StillReopens DEF Pushing, Saving
<1>6. CASE Abort
  <2>1. /\ state'.sid = state.sid /\ state'.prefs = state.prefs /\ state'.todos = state.todos
        /\ UNCHANGED <<rec, active, chat, pc, home, saves>>
    BY <1>0, <1>6 DEF Abort, storeVars, turnVars, TypeOK
  <2> QED BY <2>1, StillReopens DEF Pushing, Saving
<1>7. ASSUME NEW t \in Turns, Prompt(t) PROVE Reopening'
  <2>1. /\ state'.sid = state.sid /\ state'.prefs = state.prefs /\ state'.todos = state.todos
        /\ UNCHANGED <<rec, active, saves>> /\ home'[t] = state.sid
        /\ pc[t] = "free" /\ pc'[t] = "streaming" /\ \A u \in Turns \ {t} : pc'[u] = pc[u]
    BY <1>0, <1>7 DEF Prompt, storeVars, TypeOK
  <2>2. t \in Talking' BY <2>1 DEF Talking, Pushing
  <2>3. Saving' <=> Saving BY <2>1 DEF Saving
  <2> QED BY <2>1, <2>2, <2>3
          DEF SInv, Reopening, ActiveSessionLoads, PendingHasRecord, UpToDate, ReopensSoon
<1>8. ASSUME NEW t \in Turns, Token(t) PROVE Reopening'
  <2>1. UNCHANGED <<rec, active, state, chat, pc, home, saves>>
    BY <1>8 DEF Token, storeVars
  <2> QED BY <2>1, StillReopens DEF Pushing, Saving
<1>9. ASSUME NEW t \in Turns, ReplyEnds(t) \/ ReplyFails(t) PROVE Reopening'
  BY <1>9, FinishReopens DEF ReplyEnds, ReplyFails
<1>10. ASSUME NEW t \in Turns, ReplyCallsTools(t) PROVE Reopening'
  <2>1. UNCHANGED <<rec, active, state, saves, home, cut>> /\ Push(t) /\ t \in Pushing
    BY <1>10 DEF ReplyCallsTools, StreamSettles, Pushing, storeVars
  <2>2. pc'[t] = "tool" /\ \A u \in Turns \ {t} : pc'[u] = pc[u]
    BY <1>0, <1>10 DEF ReplyCallsTools
  <2> QED BY <2>1, <2>2, SayReopens DEF SayStep
<1>11. ASSUME NEW t \in Turns, NextTool(t) PROVE Reopening'
  BY <1>11, SayReopens DEF NextTool, SayStep, Pushing, storeVars
<1>12. ASSUME NEW t \in Turns, LastTool(t) PROVE Reopening'
  <2>1. CASE GoesOn(t)
    <3>1. UNCHANGED <<rec, active, state, saves, home, cut>> /\ Push(t) /\ t \in Pushing
      BY <1>12, <2>1 DEF LastTool, Pushing, storeVars
    <3>2. pc'[t] = "streaming" /\ \A u \in Turns \ {t} : pc'[u] = pc[u]
      BY <1>0, <1>12, <2>1 DEF LastTool
    <3> QED BY <3>1, <3>2, SayReopens DEF SayStep
  <2>2. CASE ~GoesOn(t)
    BY <1>12, <2>2, FinishReopens DEF LastTool
  <2> QED BY <2>1, <2>2
<1>13. ASSUME NEW t \in Turns, TurnSaved(t) PROVE Reopening'
  <2>1. /\ active' = state.sid /\ rec' = rec /\ UNCHANGED <<state, chat, home, saves>>
        /\ pc[t] = "saving" /\ pc' = [pc EXCEPT ![t] = "done"]
    BY <1>0, <1>13 DEF TurnSaved, WriteActive
  <2>2. Pushing' = Pushing /\ Saving BY <1>0, <2>1 DEF Pushing, Saving
  <2> QED BY <2>1, <2>2, StillReopens
<1>14. CASE Restart
  <2>1. /\ state'.sid = nextId /\ chat' = NewArrays /\ nextId \in SessionIds
        /\ UNCHANGED <<rec, active>> /\ saves' = 0
        /\ pc' = [t \in Turns |-> IF t \in Running THEN "lost" ELSE pc[t]]
    BY <1>14 DEF Restart, Fresh, ForgetsTurns, storeVars
  <2>2. ~Saving' BY <2>1 DEF Saving, Running
  <2>3. chat'[nextId] = <<>> BY <2>1 DEF NewArrays
  <2> QED BY <1>0, <2>1, <2>2, <2>3
          DEF SInv, Reopening, ActiveSessionLoads, PendingHasRecord, UpToDate, ReopensSoon
<1>15. CASE UNCHANGED vars
  <2>1. UNCHANGED <<rec, active, state, chat, pc, home, saves>>
    BY <1>15 DEF vars, storeVars, rpcVars, turnVars
  <2> QED BY <2>1, StillReopens DEF Pushing, Saving
<1> QED BY <1>1, <1>2, <1>3, <1>4, <1>5, <1>6, <1>7, <1>8, <1>9, <1>10, <1>11, <1>12, <1>13,
           <1>14, <1>15 DEF Next

LEMMA ReopeningInit == Init => Reopening
<1> SUFFICES ASSUME Init PROVE Reopening OBVIOUS
<1>1. /\ DOMAIN rec = {} /\ active = NoSession /\ saves = 0 /\ pc = [t \in Turns |-> "free"]
      /\ state.sid = 1 /\ chat[1] = <<>>
  BY MaxSessionsIsPos DEF Init, StoreInit, Fresh, NewArrays, SessionIds
<1> QED BY <1>1
        DEF Reopening, ActiveSessionLoads, PendingHasRecord, UpToDate, ReopensSoon, Saving

LEMMA AlwaysReopens == ~StorageFails /\ Spec => []Reopening
<1>1. ~StorageFails /\ Init => SInv BY InitTyped, ReopeningInit DEF SInv
<1>2. ~StorageFails /\ SInv /\ [Next]_vars => SInv'
  BY NextTyped, ReopeningKept DEF SInv
<1>3. SInv => Reopening BY DEF SInv
<1>4. CASE ~StorageFails BY <1>1, <1>2, <1>3, <1>4, PTL DEF Spec
<1> QED BY <1>4

\* init() always finds the session the active key names (dispatcher.ts, storage.ts),
\* while no write is refused: a save names a session only after writing its record,
\* although by then the current session may be another one.
THEOREM ActiveLoads == ~StorageFails /\ Spec => []ActiveSessionLoads
<1>1. Reopening => ActiveSessionLoads BY DEF Reopening
<1> QED BY <1>1, AlwaysReopens, PTL

\* While no turn pushes to the current array a kill would lose nothing: a turn
\* that outlives its session saves the current one as memory has it.
THEOREM IdleStored == Spec => []IdleIsStored
<1>1. Reopening => IdleIsStored BY DEF Reopening, UpToDate, IdleIsStored, Talking
<1>2. CASE ~StorageFails BY <1>1, <1>2, AlwaysReopens, PTL
<1>3. StorageFails => IdleIsStored BY DEF IdleIsStored
<1>4. CASE StorageFails BY <1>3, <1>4, PTL
<1> QED BY <1>2, <1>4

\* When all saves are over a restart reopens the current session, whatever turns
\* of other sessions saved last.
THEOREM ReopensCurrent == Spec => []RestartReopensCurrent
<1>1. Reopening => RestartReopensCurrent
  BY MaxSavesIsPos DEF Reopening, ReopensSoon, Saving, RestartReopensCurrent
<1>2. CASE ~StorageFails BY <1>1, <1>2, AlwaysReopens, PTL
<1>3. StorageFails => RestartReopensCurrent BY DEF RestartReopensCurrent
<1>4. CASE StorageFails BY <1>3, <1>4, PTL
<1> QED BY <1>2, <1>4
=============================================================================
