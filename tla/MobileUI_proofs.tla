-------------------------- MODULE MobileUI_proofs --------------------------
(***************************************************************************)
(* The theorems about the engine and, below them, about the page over it.  *)
(*                                                                         *)
(* The engine's hold for any number of prompts, sessions, settings and     *)
(* tokens, and for a store that may refuse writes unless a theorem assumes *)
(* otherwise.  The inductive invariant says where each message is: a       *)
(* prompt not typed yet is nowhere, a message is in the conversations of   *)
(* one session only, the conversation in memory extends the record of its  *)
(* session, and a turn that nobody cut off has its messages in its own     *)
(* session.                                                                *)
(*                                                                         *)
(* The page adds that the composer serialises the turns, so that the       *)
(* stored conversations alternate although the engine would let prompts    *)
(* overlap, that a reply streams into its own card, and that the thread    *)
(* shows what was said in the session on screen.                           *)
(***************************************************************************)
EXTENDS MobileUI, SequenceTheorems, TLAPS

-----------------------------------------------------------------------------
\* Type correctness.

\* What a write does to the records, whatever its outcome.
LEMMA WriteTyped ==
  ASSUME NEW n \in Nat, DOMAIN rec \subseteq 1..n, rec \in [DOMAIN rec -> SessionRecord],
         NEW s \in 1..n, NEW r \in SessionRecord, NEW ok \in BOOLEAN, WriteRecord(s, r, ok)
  PROVE  /\ DOMAIN rec' \subseteq 1..n
         /\ rec' \in [DOMAIN rec' -> SessionRecord]
         /\ active' = active
BY DEF WriteRecord

\* The segment shared by the commands that change the state and save it.
LEMMA MutateTyped ==
  ASSUME TypeOK, NEW n \in Nat, n >= nextId - 1,
         NEW st, st \in [sid : 1..n, prefs : Prefs, todos : Todos, streaming : BOOLEAN],
         NEW ms \in Seq(Message), Mutate(st, ms)
  PROVE  /\ DOMAIN rec' \subseteq 1..n
         /\ rec' \in [DOMAIN rec' -> SessionRecord]
         /\ active' = active
         /\ state' = st /\ messages' = ms
         /\ saves' \in 0..MaxSaves
<1>1. PICK ok \in WriteOutcomes : /\ saves < MaxSaves
                                  /\ state' = st
                                  /\ messages' = ms
                                  /\ WriteRecord(st.sid, Stored(st, ms), ok)
                                  /\ saves' = IF ok THEN saves + 1 ELSE saves
  BY DEF Mutate
<1>2. ok \in BOOLEAN BY DEF WriteOutcomes
<1>3. Stored(st, ms) \in SessionRecord BY DEF Stored, SessionRecord
<1>4. DOMAIN rec \subseteq 1..n BY SMTT(60) DEF TypeOK
<1>5. saves' \in 0..MaxSaves BY <1>1, <1>2, MaxSavesIsPos, SMTT(60) DEF TypeOK
<1>6. st.sid \in 1..n /\ rec \in [DOMAIN rec -> SessionRecord] BY DEF TypeOK
<1>7. /\ DOMAIN rec' \subseteq 1..n
      /\ rec' \in [DOMAIN rec' -> SessionRecord]
      /\ active' = active
  BY <1>1, <1>2, <1>3, <1>4, <1>6, WriteTyped
<1> QED BY <1>1, <1>5, <1>7

LEMMA InitTyped == Init => TypeOK
<1> SUFFICES ASSUME Init PROVE TypeOK OBVIOUS
<1>1. Fresh(1) \in [sid : 1..1, prefs : Prefs, todos : Todos, streaming : BOOLEAN]
  BY DefaultsAreValues DEF Fresh
<1>2. 0 \in 0..Tokens /\ 0 \in 0..MaxSaves BY TokensIsPos, MaxSavesIsPos
<1>3. nextId - 1 = 1 /\ nextId \in 2..(MaxSessions + 1) BY MaxSessionsIsPos DEF Init
<1>4. DOMAIN rec = {} /\ rec \in [DOMAIN rec -> SessionRecord] /\ active = NoSession
  BY DEF Init, StoreInit
<1>5. messages \in Seq(Message) BY DEF Init
<1> QED BY <1>1, <1>2, <1>3, <1>4, <1>5 DEF Init, TypeOK, PcValues

LEMMA NextTyped == TypeOK /\ [Next]_vars => TypeOK'
<1> SUFFICES ASSUME TypeOK, [Next]_vars PROVE TypeOK' OBVIOUS
<1> USE DEF PcValues
<1>0. nextId \in Nat /\ nextId >= 2 /\ nextId - 1 \in Nat /\ MaxSessions \in Nat
  BY MaxSessionsIsPos DEF TypeOK
<1>a. \A t \in Turns : User(t) \in Message /\ Reply(t) \in Message
  BY DEF User, Reply, Message
<1>1. CASE Boot
  <2>1. CASE active \in DOMAIN rec
    <3>1. active \in 1..(nextId - 1) /\ rec[active] \in SessionRecord BY <2>1 DEF TypeOK
    <3>2. Restored(active) \in [sid : 1..(nextId - 1), prefs : Prefs, todos : Todos,
                                streaming : BOOLEAN]
      BY <3>1 DEF Restored, SessionRecord
    <3>3. rec[active].messages \in Seq(Message) BY <3>1 DEF SessionRecord
    <3> QED BY <1>1, <2>1, <3>2, <3>3 DEF Boot, TypeOK, storeVars
  <2>2. CASE active \notin DOMAIN rec
    BY <1>1, <2>2 DEF Boot, TypeOK, storeVars
  <2> QED BY <2>1, <2>2
<1>2. ASSUME NEW p \in Prefs, SetPrefs(p) PROVE TypeOK'
  <2> DEFINE st == [state EXCEPT !.prefs = p]
  <2>1. st \in [sid : 1..(nextId - 1), prefs : Prefs, todos : Todos, streaming : BOOLEAN]
    BY DEF TypeOK
  <2>2. Mutate(st, messages) /\ messages \in Seq(Message) BY <1>2 DEF SetPrefs, TypeOK
  <2> HIDE DEF st
  <2>3. /\ DOMAIN rec' \subseteq 1..(nextId - 1) /\ rec' \in [DOMAIN rec' -> SessionRecord]
        /\ active' = active /\ state' = st /\ messages' = messages /\ saves' \in 0..MaxSaves
    BY <1>0, <2>1, <2>2, MutateTyped
  <2> QED BY <1>2, <2>1, <2>3 DEF SetPrefs, TypeOK
<1>3. ASSUME NEW td \in Todos, SetTodos(td) PROVE TypeOK'
  <2> DEFINE st == [state EXCEPT !.todos = td]
  <2>1. st \in [sid : 1..(nextId - 1), prefs : Prefs, todos : Todos, streaming : BOOLEAN]
    BY DEF TypeOK
  <2>2. Mutate(st, messages) /\ messages \in Seq(Message) BY <1>3 DEF SetTodos, TypeOK
  <2> HIDE DEF st
  <2>3. /\ DOMAIN rec' \subseteq 1..(nextId - 1) /\ rec' \in [DOMAIN rec' -> SessionRecord]
        /\ active' = active /\ state' = st /\ messages' = messages /\ saves' \in 0..MaxSaves
    BY <1>0, <2>1, <2>2, MutateTyped
  <2> QED BY <1>3, <2>1, <2>3 DEF SetTodos, TypeOK
<1>4. CASE NewSession
  <2> DEFINE st == [state EXCEPT !.sid = nextId, !.todos = NoTodos]
  <2>0. 1..(nextId - 1) \subseteq 1..nextId /\ nextId \in 1..nextId BY <1>0
  <2>1. st \in [sid : 1..nextId, prefs : Prefs, todos : Todos, streaming : BOOLEAN]
    BY <2>0, DefaultsAreValues DEF TypeOK
  <2>2. Mutate(st, <<>>) /\ <<>> \in Seq(Message) BY <1>4 DEF NewSession
  <2> HIDE DEF st
  <2>3. /\ DOMAIN rec' \subseteq 1..nextId /\ rec' \in [DOMAIN rec' -> SessionRecord]
        /\ active' = active /\ state' = st /\ messages' = <<>> /\ saves' \in 0..MaxSaves
    <3>1. nextId \in Nat /\ nextId >= nextId - 1 BY <1>0
    <3> QED BY <3>1, <2>1, <2>2, MutateTyped
  <2>4. nextId' = nextId + 1 /\ nextId' \in 2..(MaxSessions + 1) /\ nextId' - 1 = nextId
    BY <1>0, <1>4 DEF NewSession, SessionIds
  <2>5. cut' \subseteq Turns BY <1>4 DEF NewSession, InFlight, TypeOK
  <2>6. home \in [Turns -> 1..nextId \cup {NoSession}] /\ active \in 1..nextId \cup {NoSession}
    BY <1>0, SMTT(60) DEF TypeOK
  <2> QED BY <1>4, <2>1, <2>2, <2>3, <2>4, <2>5, <2>6 DEF NewSession, TypeOK
<1>5. CASE CommandSaved
  <2>1. active' \in 1..(nextId - 1) \cup {NoSession} /\ rec' = rec
    BY <1>5 DEF CommandSaved, WriteActive, TypeOK
  <2>2. saves' \in 0..MaxSaves BY <1>5, MaxSavesIsPos, SMTT(60) DEF CommandSaved, TypeOK
  <2> QED BY <1>5, <2>1, <2>2 DEF CommandSaved, TypeOK
<1>6. CASE Abort BY <1>6 DEF Abort, TypeOK, storeVars
<1>7. ASSUME NEW t \in Turns, Prompt(t) PROVE TypeOK'
  <2>1. messages' \in Seq(Message) BY <1>7, <1>a DEF Prompt, TypeOK
  <2>2. Tokens \in 0..Tokens BY TokensIsPos
  <2>3. left' \in [Turns -> 0..Tokens] /\ pc' \in [Turns -> PcValues]
    BY <1>7, <2>2 DEF Prompt, TypeOK
  <2>4. home' \in [Turns -> 1..(nextId - 1) \cup {NoSession}] BY <1>7 DEF Prompt, TypeOK
  <2> QED BY <1>7, <2>1, <2>3, <2>4 DEF Prompt, TypeOK, storeVars
<1>8. ASSUME NEW t \in Turns, Token(t) PROVE TypeOK'
  <2>1. left' \in [Turns -> 0..Tokens] BY <1>8, TokensIsPos, SMTT(60) DEF Token, TypeOK
  <2> QED BY <1>8, <2>1 DEF Token, TypeOK, storeVars
<1>9. ASSUME NEW t \in Turns, FinishTurn(t) PROVE TypeOK'
  <2> DEFINE st == [state EXCEPT !.streaming = FALSE]
             ms == Append(messages, Reply(t))
  <2>1. /\ state' = st /\ messages' = ms
        /\ st \in [sid : 1..(nextId - 1), prefs : Prefs, todos : Todos, streaming : BOOLEAN]
        /\ ms \in Seq(Message)
    <3>1. state' = st /\ messages' = ms BY <1>9 DEF FinishTurn
    <3>2. st \in [sid : 1..(nextId - 1), prefs : Prefs, todos : Todos, streaming : BOOLEAN]
      BY DEF TypeOK
    <3>3. ms \in Seq(Message) BY <1>a DEF TypeOK
    <3> QED BY <3>1, <3>2, <3>3
  <2>2. PICK ok \in WriteOutcomes : /\ WriteRecord(st.sid, Stored(st, ms), ok)
                                    /\ pc' = [pc EXCEPT ![t] = IF ok THEN "saving" ELSE "failed"]
    BY <1>9 DEF FinishTurn
  <2> HIDE DEF st, ms
  <2>3. Stored(st, ms) \in SessionRecord /\ ok \in BOOLEAN
    BY <2>1 DEF Stored, SessionRecord, WriteOutcomes
  <2>4. DOMAIN rec \subseteq 1..(nextId - 1) /\ rec \in [DOMAIN rec -> SessionRecord]
        /\ st.sid \in 1..(nextId - 1)
    BY <2>1 DEF TypeOK
  <2>5. DOMAIN rec' \subseteq 1..(nextId - 1) /\ rec' \in [DOMAIN rec' -> SessionRecord]
        /\ active' = active
    BY <1>0, <2>2, <2>3, <2>4, WriteTyped
  <2>6. left' \in [Turns -> 0..Tokens] BY <1>9, TokensIsPos DEF FinishTurn, TypeOK
  <2>7. pc' \in [Turns -> PcValues] BY <2>2, <2>3 DEF TypeOK
  <2> QED BY <1>9, <2>1, <2>5, <2>6, <2>7 DEF FinishTurn, TypeOK
<1>10. ASSUME NEW t \in Turns, TurnSaved(t) PROVE TypeOK'
  <2>1. PICK ok \in WriteOutcomes :
          /\ WriteActive(state.sid, ok)
          /\ pc' = [pc EXCEPT ![t] = IF ok THEN "saved" ELSE "failed"]
    BY <1>10 DEF TurnSaved
  <2>2. active' \in 1..(nextId - 1) \cup {NoSession} /\ rec' = rec
    BY <2>1 DEF WriteActive, TypeOK
  <2>3. pc' \in [Turns -> PcValues] BY <2>1 DEF TypeOK
  <2> QED BY <1>10, <2>2, <2>3 DEF TurnSaved, TypeOK
<1>11. ASSUME NEW t \in Turns, EndTurn(t) PROVE TypeOK'
  <2>1. pc' \in [Turns -> PcValues] BY <1>11 DEF EndTurn, TypeOK
  <2> QED BY <1>11, <2>1 DEF EndTurn, TypeOK, storeVars
<1>12. CASE Restart
  <2>1. nextId' = nextId + 1 /\ nextId' \in 2..(MaxSessions + 1) /\ nextId' - 1 = nextId
    BY <1>0, <1>12 DEF Restart, SessionIds
  <2>2. state' \in [sid : 1..nextId, prefs : Prefs, todos : Todos, streaming : BOOLEAN]
    BY <1>0, <1>12, DefaultsAreValues DEF Restart, Fresh
  <2>3. /\ home \in [Turns -> 1..nextId \cup {NoSession}] /\ DOMAIN rec \subseteq 1..nextId
        /\ active \in 1..nextId \cup {NoSession}
    BY <1>0, SMTT(60) DEF TypeOK
  <2>4. pc' \in [Turns -> PcValues] BY <1>12 DEF Restart, TypeOK
  <2>5. saves' \in 0..MaxSaves /\ messages' \in Seq(Message) /\ ctl' = NoTurn
        /\ ready' = FALSE /\ rec' = rec /\ active' = active /\ left' = left
        /\ home' = home /\ cut' = cut
    BY <1>12, MaxSavesIsPos DEF Restart, storeVars
  <2>6. state' \in [sid : 1..(nextId' - 1), prefs : Prefs, todos : Todos,
                    streaming : BOOLEAN]
    BY <2>1, <2>2
  <2>7. /\ DOMAIN rec' \subseteq 1..(nextId' - 1) /\ active' \in 1..(nextId' - 1) \cup {NoSession}
        /\ home' \in [Turns -> 1..(nextId' - 1) \cup {NoSession}]
    BY <2>1, <2>3, <2>5
  <2> QED BY <2>1, <2>4, <2>5, <2>6, <2>7 DEF TypeOK
<1>13. CASE UNCHANGED vars BY <1>13 DEF vars, storeVars, engineVars, TypeOK
<1> QED
  BY <1>1, <1>2, <1>3, <1>4, <1>5, <1>6, <1>7, <1>8, <1>9, <1>10, <1>11, <1>12, <1>13 DEF Next

\* Every variable keeps its type, for any settings, turns and bounds.
THEOREM TypeCorrect == Spec => []TypeOK
BY InitTyped, NextTyped, PTL DEF Spec

-----------------------------------------------------------------------------
(***************************************************************************)
(* Where the messages are.                                                 *)
(***************************************************************************)
Holding == {t \in Turns : pc[t] \in {"saving", "saved", "ended"}}

\* Before init() has finished nothing runs and the conversation is new.
Quiet ==
  ~ready => InFlight = {} /\ saves = 0 /\ messages = <<>> /\ state.sid \notin DOMAIN rec

\* The conversation in memory extends the record of its session.
GrowsFromRecord == state.sid \in DOMAIN rec => Log!Extends(messages, rec[state.sid].messages)

\* No message is in a conversation before its turn has sent it.
Unsent(ms) ==
  \A t \in Turns :
    /\ pc[t] = "free" => ~In(User(t), ms)
    /\ pc[t] \in {"free", "streaming"} => ~In(Reply(t), ms)

SentOnly == Unsent(messages) /\ \A s \in DOMAIN rec : Unsent(rec[s].messages)

\* Every message is in the conversations of one session.
OneHome ==
  \A s \in DOMAIN rec, m \in Message :
    In(m, rec[s].messages) =>
      /\ s # state.sid => ~In(m, messages)
      /\ \A r \in DOMAIN rec \ {s} : ~In(m, rec[r].messages)

\* The prompts in memory were typed in the session on screen.
PromptsHere == \A t \in Turns : In(User(t), messages) => home[t] = state.sid

\* A turn that was not cut off streams in its own session, where its messages
\* are stored once it is over.
TurnsAtHome ==
  \A t \in Turns \ cut :
    /\ pc[t] = "streaming" => home[t] = state.sid /\ In(User(t), messages)
    /\ t \in Holding => home[t] \in DOMAIN rec /\ Answered(t, rec[home[t]].messages)

IInv ==
  /\ TypeOK
  /\ Quiet
  /\ GrowsFromRecord
  /\ SentOnly
  /\ OneHome
  /\ PromptsHere
  /\ PromptsStayHome
  /\ TurnsAtHome

-----------------------------------------------------------------------------
\* Facts about the messages of a sequence.

LEMMA Appended ==
  ASSUME NEW ms \in Seq(Message), NEW m \in Message
  PROVE  /\ \A x : In(x, Append(ms, m)) <=> In(x, ms) \/ x = m
         /\ Log!Extends(Append(ms, m), ms)
         /\ Log!Extends(ms, ms)
         /\ \A t \in Turns : In(User(t), ms) /\ m = Reply(t) => Answered(t, Append(ms, m))
<1>1. /\ Append(ms, m) \in Seq(Message)
      /\ Len(Append(ms, m)) = Len(ms) + 1
      /\ \A i \in 1..Len(ms) : Append(ms, m)[i] = ms[i]
      /\ Append(ms, m)[Len(ms) + 1] = m
      /\ DOMAIN ms = 1..Len(ms) /\ DOMAIN Append(ms, m) = 1..(Len(ms) + 1)
      /\ Len(ms) \in Nat
  OBVIOUS
<1> DEFINE n == Len(ms)
           a == Append(ms, m)
<1> HIDE DEF n, a
<1>2. /\ \A i \in 1..n : a[i] = ms[i]
      /\ a[n + 1] = m
      /\ DOMAIN ms = 1..n /\ DOMAIN a = 1..(n + 1) /\ n \in Nat /\ Len(a) = n + 1 /\ Len(ms) = n
  BY <1>1 DEF n, a
<1>3. \A x : In(x, a) <=> In(x, ms) \/ x = m BY <1>2 DEF In
<1>4. Log!Extends(a, ms) BY <1>2 DEF Log!Extends
<1>5. Log!Extends(ms, ms) BY <1>2 DEF Log!Extends
<1>6. ASSUME NEW t \in Turns, In(User(t), ms), m = Reply(t) PROVE Answered(t, a)
  <2>1. PICK i \in 1..n : ms[i] = User(t) BY <1>2, <1>6 DEF In
  <2>2. i \in DOMAIN a /\ n + 1 \in DOMAIN a /\ i < n + 1 BY <1>2, <2>1
  <2>3. a[i] = User(t) /\ a[n + 1] = Reply(t) BY <1>2, <1>6, <2>1
  <2> QED BY <2>2, <2>3 DEF Answered
<1> QED BY <1>3, <1>4, <1>5, <1>6 DEF a

LEMMA ExtendsKeeps ==
  ASSUME NEW long \in Seq(Message), NEW short \in Seq(Message), Log!Extends(long, short)
  PROVE  /\ \A x : In(x, short) => In(x, long)
         /\ \A t \in Turns : Answered(t, short) => Answered(t, long)
         /\ \A x \in Message : Log!Extends(Append(long, x), short)
<1>1. /\ DOMAIN long = 1..Len(long) /\ DOMAIN short = 1..Len(short)
      /\ Len(long) \in Nat /\ Len(short) \in Nat
      /\ Len(short) <= Len(long) /\ \A i \in DOMAIN short : long[i] = short[i]
  BY DEF Log!Extends
<1>2. DOMAIN short \subseteq DOMAIN long BY <1>1
<1>3. \A x : In(x, short) => In(x, long) BY <1>1, <1>2 DEF In
<1>4. \A t \in Turns : Answered(t, short) => Answered(t, long)
  BY <1>1, <1>2 DEF Answered
<1>5. ASSUME NEW x \in Message PROVE Log!Extends(Append(long, x), short)
  <2>1. /\ Len(Append(long, x)) = Len(long) + 1
        /\ \A i \in 1..Len(long) : Append(long, x)[i] = long[i]
    OBVIOUS
  <2> QED BY <1>1, <2>1 DEF Log!Extends
<1> QED BY <1>3, <1>4, <1>5

\* A prompt is not a reply, and messages of different turns differ.
LEMMA Distinct ==
  ASSUME NEW t \in Turns, NEW u \in Turns
  PROVE  /\ User(t) \in Message /\ Reply(t) \in Message
         /\ User(t) # Reply(u)
         /\ User(t) = User(u) => t = u
         /\ Reply(t) = Reply(u) => t = u
BY DEF User, Reply, Message

-----------------------------------------------------------------------------
(***************************************************************************)
(* The steps, as far as messages are concerned.                            *)
(***************************************************************************)
Stores(s, ms) ==
  /\ DOMAIN rec' = DOMAIN rec \cup {s}
  /\ rec'[s].messages = ms
  /\ \A r \in DOMAIN rec \ {s} : rec'[r] = rec[r]

\* The records stay, or the conversation ms of session s is stored.
MayStore(s, ms) == rec' = rec \/ Stores(s, ms)

Stays == state'.sid = state.sid /\ home' = home /\ cut' = cut

\* Turns only move towards their end.
TurnsRest ==
  \A t \in Turns : \/ pc'[t] = pc[t]
                   \/ pc[t] = "saving" /\ pc'[t] \in {"saved", "failed"}
                   \/ pc[t] = "saved" /\ pc'[t] = "ended"

KeepStep == Stays /\ messages' = messages /\ TurnsRest /\ MayStore(state.sid, messages)

BootStep ==
  /\ ~ready /\ active \in DOMAIN rec
  /\ state'.sid = active /\ messages' = rec[active].messages
  /\ rec' = rec /\ pc' = pc /\ home' = home /\ cut' = cut

NewStep ==
  /\ state'.sid = nextId /\ messages' = <<>>
  /\ MayStore(nextId, <<>>)
  /\ pc' = pc /\ home' = home /\ cut' = cut \cup InFlight

PromptStep(t) ==
  /\ ready
  /\ pc[t] = "free" /\ pc' = [pc EXCEPT ![t] = "streaming"]
  /\ home' = [home EXCEPT ![t] = state.sid]
  /\ messages' = Append(messages, User(t))
  /\ state'.sid = state.sid /\ cut' = cut /\ rec' = rec

FinishStep(t) ==
  /\ Stays
  /\ messages' = Append(messages, Reply(t))
  /\ pc[t] = "streaming"
  /\ \/ rec' = rec /\ pc' = [pc EXCEPT ![t] = "failed"]
     \/ Stores(state.sid, messages') /\ pc' = [pc EXCEPT ![t] = "saving"]

RestartStep ==
  /\ state'.sid = nextId /\ messages' = <<>> /\ rec' = rec
  /\ pc' = [t \in Turns |-> IF t \in InFlight THEN "lost" ELSE pc[t]]
  /\ home' = home /\ cut' = cut

LEMMA Written ==
  ASSUME NEW s, NEW st, NEW ms, NEW ok \in BOOLEAN, WriteRecord(s, Stored(st, ms), ok)
  PROVE  /\ ok => Stores(s, ms)
         /\ ~ok => rec' = rec
BY DEF WriteRecord, Stored, Stores

LEMMA MutateKind ==
  ASSUME NEW st, NEW ms, Mutate(st, ms)
  PROVE  state' = st /\ messages' = ms /\ MayStore(st.sid, ms)
<1>1. PICK ok \in WriteOutcomes : WriteRecord(st.sid, Stored(st, ms), ok) BY DEF Mutate
<1>2. ok \in BOOLEAN BY DEF WriteOutcomes
<1> QED BY <1>1, <1>2, Written DEF Mutate, MayStore

LEMMA StepKinds ==
  ASSUME TypeOK, [Next]_vars
  PROVE  \/ KeepStep \/ BootStep \/ NewStep \/ RestartStep
         \/ \E t \in Turns : PromptStep(t) \/ FinishStep(t)
<1> USE DEF Stays, TurnsRest, MayStore
<1>1. CASE Boot
  <2>1. CASE active \in DOMAIN rec
    BY <1>1, <2>1 DEF Boot, Restored, BootStep, storeVars
  <2>2. CASE active \notin DOMAIN rec
    BY <1>1, <2>2 DEF Boot, KeepStep, storeVars
  <2> QED BY <2>1, <2>2
<1>2. ASSUME NEW p \in Prefs, SetPrefs(p) PROVE KeepStep
  <2> DEFINE st == [state EXCEPT !.prefs = p]
  <2>1. st.sid = state.sid BY DEF TypeOK
  <2>2. Mutate(st, messages) BY <1>2 DEF SetPrefs
  <2> HIDE DEF st
  <2>3. state' = st /\ messages' = messages /\ MayStore(st.sid, messages)
    BY <2>2, MutateKind
  <2> QED BY <1>2, <2>1, <2>3 DEF SetPrefs, KeepStep
<1>3. ASSUME NEW td \in Todos, SetTodos(td) PROVE KeepStep
  <2> DEFINE st == [state EXCEPT !.todos = td]
  <2>1. st.sid = state.sid BY DEF TypeOK
  <2>2. Mutate(st, messages) BY <1>3 DEF SetTodos
  <2> HIDE DEF st
  <2>3. state' = st /\ messages' = messages /\ MayStore(st.sid, messages)
    BY <2>2, MutateKind
  <2> QED BY <1>3, <2>1, <2>3 DEF SetTodos, KeepStep
<1>4. CASE NewSession
  <2> DEFINE st == [state EXCEPT !.sid = nextId, !.todos = NoTodos]
  <2>1. st.sid = nextId BY DEF TypeOK
  <2>2. Mutate(st, <<>>) BY <1>4 DEF NewSession
  <2> HIDE DEF st
  <2>3. state' = st /\ messages' = <<>> /\ MayStore(st.sid, <<>>)
    BY <2>2, MutateKind
  <2> QED BY <1>4, <2>1, <2>3 DEF NewSession, NewStep
<1>5. CASE CommandSaved BY <1>5 DEF CommandSaved, WriteActive, KeepStep
<1>6. CASE Abort BY <1>6 DEF Abort, KeepStep, storeVars, TypeOK
<1>7. ASSUME NEW t \in Turns, Prompt(t) PROVE PromptStep(t)
  BY <1>7 DEF Prompt, PromptStep, storeVars, TypeOK
<1>8. ASSUME NEW t \in Turns, Token(t) PROVE KeepStep
  BY <1>8 DEF Token, KeepStep, storeVars
<1>9. ASSUME NEW t \in Turns, FinishTurn(t) PROVE FinishStep(t)
  <2> DEFINE st == [state EXCEPT !.streaming = FALSE]
             ms == Append(messages, Reply(t))
  <2>1. state' = st /\ messages' = ms /\ pc[t] = "streaming" /\ home' = home /\ cut' = cut
    BY <1>9 DEF FinishTurn
  <2>2. st.sid = state.sid BY DEF TypeOK
  <2>3. PICK ok \in WriteOutcomes : /\ WriteRecord(st.sid, Stored(st, ms), ok)
                                    /\ pc' = [pc EXCEPT ![t] = IF ok THEN "saving" ELSE "failed"]
    BY <1>9 DEF FinishTurn
  <2>4. ok \in BOOLEAN BY DEF WriteOutcomes
  <2>5. messages' = Append(messages, Reply(t)) BY <2>1
  <2> HIDE DEF st, ms
  <2>6. (ok => Stores(state.sid, ms)) /\ (~ok => rec' = rec) BY <2>2, <2>3, <2>4, Written
  <2> QED BY <2>1, <2>2, <2>3, <2>4, <2>5, <2>6 DEF FinishStep
<1>10. ASSUME NEW t \in Turns, TurnSaved(t) PROVE KeepStep
  BY <1>10 DEF TurnSaved, WriteActive, KeepStep, TypeOK
<1>11. ASSUME NEW t \in Turns, EndTurn(t) PROVE KeepStep
  BY <1>11 DEF EndTurn, KeepStep, storeVars, TypeOK
<1>12. CASE Restart BY <1>12 DEF Restart, Fresh, RestartStep, storeVars
<1>13. CASE UNCHANGED vars BY <1>13 DEF vars, storeVars, engineVars, KeepStep
<1> QED
  BY <1>1, <1>2, <1>3, <1>4, <1>5, <1>6, <1>7, <1>8, <1>9, <1>10, <1>11, <1>12, <1>13 DEF Next

LEMMA QuietKept ==
  ASSUME TypeOK, Quiet, [Next]_vars
  PROVE  Quiet'
<1> USE DEF Quiet
<1>1. CASE ready
  <2>1. CASE Restart
    <3>1. nextId \notin DOMAIN rec BY DEF TypeOK
    <3>2. InFlight' = {} BY <2>1 DEF Restart, InFlight
    <3> QED BY <2>1, <3>1, <3>2 DEF Restart, Fresh, storeVars
  <2>2. CASE ~Restart
    <3>1. ready' = ready
      BY <1>1, <2>2
      DEF Next, Boot, SetPrefs, SetTodos, NewSession, CommandSaved, Abort, Prompt, Token,
          FinishTurn, TurnSaved, EndTurn, vars, engineVars
    <3> QED BY <1>1, <3>1
  <2> QED BY <2>1, <2>2
<1>2. CASE ~ready
  <2>1. CASE Restart
    <3>1. nextId \notin DOMAIN rec BY DEF TypeOK
    <3>2. InFlight' = {} BY <2>1 DEF Restart, InFlight
    <3> QED BY <2>1, <3>1, <3>2 DEF Restart, Fresh, storeVars
  <2>2. CASE Boot BY <2>2 DEF Boot
  <2>3. CASE UNCHANGED vars
    BY <1>2, <2>3 DEF vars, storeVars, engineVars, InFlight
  <2>4. /\ \A p : ~SetPrefs(p) /\ ~SetTodos(p)
        /\ ~NewSession /\ ~CommandSaved /\ ~Abort
    BY <1>2 DEF SetPrefs, SetTodos, NewSession, CommandSaved, Abort
  <2>5. \A t \in Turns : ~Prompt(t) /\ ~Token(t) /\ ~FinishTurn(t) /\ ~TurnSaved(t) /\ ~EndTurn(t)
    BY <1>2 DEF Prompt, Token, FinishTurn, TurnSaved, EndTurn, InFlight
  <2> QED BY <2>1, <2>2, <2>3, <2>4, <2>5 DEF Next
<1> QED BY <1>1, <1>2

-----------------------------------------------------------------------------
\* Each part of the invariant is kept, by kinds of step.

Kinds == \/ KeepStep \/ BootStep \/ NewStep \/ RestartStep
         \/ \E t \in Turns : PromptStep(t) \/ FinishStep(t)

LEMMA TailKept ==
  ASSUME IInv, TypeOK', Kinds
  PROVE  GrowsFromRecord'
<1> USE DEF IInv
<1>0. /\ messages \in Seq(Message) /\ messages' \in Seq(Message)
      /\ \A s \in DOMAIN rec : rec[s].messages \in Seq(Message)
      /\ nextId \notin DOMAIN rec
  BY SMTT(60) DEF TypeOK, SessionRecord
<1>a. \A ms \in Seq(Message) : Log!Extends(ms, ms) BY DEF Log!Extends
<1>1. CASE KeepStep
  BY <1>0, <1>a, <1>1 DEF KeepStep, Stays, MayStore, Stores, GrowsFromRecord
<1>2. CASE BootStep BY <1>0, <1>a, <1>2 DEF BootStep, GrowsFromRecord
<1>3. CASE NewStep
  BY <1>0, <1>a, <1>3 DEF NewStep, MayStore, Stores, GrowsFromRecord
<1>4. CASE RestartStep BY <1>0, <1>4 DEF RestartStep, GrowsFromRecord
<1>5. ASSUME NEW t \in Turns, PromptStep(t) PROVE GrowsFromRecord'
  <2>1. User(t) \in Message BY Distinct
  <2>2. \A x \in Message : state.sid \in DOMAIN rec =>
          Log!Extends(Append(messages, x), rec[state.sid].messages)
    BY <1>0, ExtendsKeeps DEF GrowsFromRecord
  <2> QED BY <1>5, <2>1, <2>2 DEF PromptStep, GrowsFromRecord
<1>6. ASSUME NEW t \in Turns, FinishStep(t) PROVE GrowsFromRecord'
  <2>1. Reply(t) \in Message BY Distinct
  <2>2. \A x \in Message : state.sid \in DOMAIN rec =>
          Log!Extends(Append(messages, x), rec[state.sid].messages)
    BY <1>0, ExtendsKeeps DEF GrowsFromRecord
  <2>3. CASE rec' = rec BY <1>6, <2>1, <2>2, <2>3 DEF FinishStep, Stays, GrowsFromRecord
  <2>4. CASE Stores(state.sid, messages')
    BY <1>0, <1>a, <1>6, <2>4 DEF FinishStep, Stays, Stores, GrowsFromRecord
  <2> QED BY <1>6, <2>3, <2>4 DEF FinishStep
<1> QED BY <1>1, <1>2, <1>3, <1>4, <1>5, <1>6 DEF Kinds

LEMMA SentOnlyKept ==
  ASSUME IInv, TypeOK', Kinds
  PROVE  SentOnly'
<1> USE DEF IInv
<1>0. /\ messages \in Seq(Message) /\ pc \in [Turns -> PcValues]
      /\ nextId \notin DOMAIN rec
  BY SMTT(60) DEF TypeOK
<1>a. \A x : ~In(x, <<>>) BY DEF In
<1>1. CASE KeepStep
  BY <1>0, <1>1 DEF KeepStep, Stays, TurnsRest, MayStore, Stores, SentOnly, Unsent
<1>2. CASE BootStep BY <1>2 DEF BootStep, SentOnly, Unsent
<1>3. CASE NewStep
  BY <1>0, <1>a, <1>3 DEF NewStep, MayStore, Stores, SentOnly, Unsent
<1>4. CASE RestartStep
  <2>1. \A t \in Turns : pc'[t] = pc[t] \/ pc'[t] = "lost"
    BY <1>4 DEF RestartStep
  <2> QED BY <1>a, <1>4, <2>1 DEF RestartStep, SentOnly, Unsent
<1>5. ASSUME NEW t \in Turns, PromptStep(t) PROVE SentOnly'
  <2>1. \A x : In(x, messages') <=> In(x, messages) \/ x = User(t)
    BY <1>0, <1>5, Appended, Distinct DEF PromptStep
  <2>2. pc'[t] = "streaming" /\ \A u \in Turns \ {t} : pc'[u] = pc[u]
    BY <1>0, <1>5 DEF PromptStep
  <2>3. Unsent(messages)'
    <3>1. \A u \in Turns \ {t} : User(u) # User(t) BY Distinct
    <3>2. \A u \in Turns : Reply(u) # User(t) BY Distinct
    <3> QED BY <1>5, <2>1, <2>2, <3>1, <3>2 DEF SentOnly, Unsent, PromptStep
  <2>4. \A s \in DOMAIN rec : Unsent(rec[s].messages)'
    BY <1>5, <2>2 DEF SentOnly, Unsent, PromptStep
  <2> QED BY <1>5, <2>3, <2>4 DEF SentOnly, Unsent, PromptStep
<1>6. ASSUME NEW t \in Turns, FinishStep(t) PROVE SentOnly'
  <2>1. \A x : In(x, messages') <=> In(x, messages) \/ x = Reply(t)
    BY <1>0, <1>6, Appended, Distinct DEF FinishStep
  <2>2. pc'[t] \in {"failed", "saving"} /\ \A u \in Turns \ {t} : pc'[u] = pc[u]
    BY <1>0, <1>6 DEF FinishStep
  <2>3. Unsent(messages)'
    <3>1. \A u \in Turns \ {t} : Reply(u) # Reply(t) BY Distinct
    <3>2. \A u \in Turns : User(u) # Reply(t) BY Distinct
    <3> QED BY <1>6, <2>1, <2>2, <3>1, <3>2 DEF SentOnly, Unsent, FinishStep
  <2>4. rec' = rec \/ Stores(state.sid, messages') BY <1>6 DEF FinishStep
  <2>5. \A s \in DOMAIN rec' : \/ rec'[s].messages = messages'
                               \/ (s \in DOMAIN rec /\ rec'[s] = rec[s])
    BY <2>4 DEF Stores
  <2>6. \A s \in DOMAIN rec : \A u \in Turns :
          /\ pc'[u] = "free" => ~In(User(u), rec[s].messages)
          /\ pc'[u] \in {"free", "streaming"} => ~In(Reply(u), rec[s].messages)
    BY <2>2 DEF SentOnly, Unsent
  <2> QED BY <2>3, <2>5, <2>6 DEF SentOnly, Unsent
<1> QED BY <1>1, <1>2, <1>3, <1>4, <1>5, <1>6 DEF Kinds

LEMMA OneHomeKept ==
  ASSUME IInv, TypeOK', Kinds
  PROVE  OneHome'
<1> USE DEF IInv
<1>0. /\ messages \in Seq(Message) /\ pc \in [Turns -> PcValues]
      /\ nextId \notin DOMAIN rec
      /\ \A s \in DOMAIN rec : rec[s].messages \in Seq(Message)
  BY SMTT(60) DEF TypeOK, SessionRecord
<1>a. \A x : ~In(x, <<>>) BY DEF In
<1>b. \A m \in Message : state.sid \in DOMAIN rec =>
        (In(m, rec[state.sid].messages) => In(m, messages))
  BY <1>0, ExtendsKeeps DEF GrowsFromRecord
<1>1. CASE KeepStep
  BY <1>0, <1>b, <1>1 DEF KeepStep, Stays, MayStore, Stores, OneHome
<1>2. CASE BootStep BY <1>2 DEF BootStep, OneHome
<1>3. CASE NewStep
  BY <1>0, <1>a, <1>3, SMTT(60) DEF NewStep, MayStore, Stores, OneHome
<1>4. CASE RestartStep BY <1>a, <1>4 DEF RestartStep, OneHome
<1>5. ASSUME NEW t \in Turns, PromptStep(t) PROVE OneHome'
  <2>1. \A x : In(x, messages') <=> In(x, messages) \/ x = User(t)
    BY <1>0, <1>5, Appended, Distinct DEF PromptStep
  <2>2. \A s \in DOMAIN rec : ~In(User(t), rec[s].messages)
    BY <1>5 DEF PromptStep, SentOnly, Unsent
  <2> QED BY <1>5, <2>1, <2>2 DEF PromptStep, OneHome
<1>6. ASSUME NEW t \in Turns, FinishStep(t) PROVE OneHome'
  <2>1. \A x : In(x, messages') <=> In(x, messages) \/ x = Reply(t)
    BY <1>0, <1>6, Appended, Distinct DEF FinishStep
  <2>2. \A s \in DOMAIN rec : ~In(Reply(t), rec[s].messages)
    BY <1>6 DEF FinishStep, SentOnly, Unsent
  <2>3. CASE rec' = rec
    BY <1>6, <2>1, <2>2, <2>3 DEF FinishStep, Stays, OneHome
  <2>4. CASE Stores(state.sid, messages')
    <3>1. state'.sid = state.sid BY <1>6 DEF FinishStep, Stays
    <3>2. /\ DOMAIN rec' = DOMAIN rec \cup {state.sid}
          /\ rec'[state.sid].messages = messages'
          /\ \A r \in DOMAIN rec \ {state.sid} : rec'[r] = rec[r]
      BY <2>4 DEF Stores
    <3>3. \A s \in DOMAIN rec \ {state.sid}, m \in Message :
            In(m, rec[s].messages) => ~In(m, messages')
      BY <2>1, <2>2 DEF OneHome
    <3> QED BY <3>1, <3>2, <3>3 DEF OneHome
  <2> QED BY <1>6, <2>3, <2>4 DEF FinishStep
<1> QED BY <1>1, <1>2, <1>3, <1>4, <1>5, <1>6 DEF Kinds

LEMMA PromptsKept ==
  ASSUME IInv, TypeOK', Kinds
  PROVE  PromptsHere' /\ PromptsStayHome'
<1> USE DEF IInv, PromptsHere, PromptsStayHome
<1>0. /\ messages \in Seq(Message) /\ home \in [Turns -> 1..(nextId - 1) \cup {NoSession}]
      /\ \A s \in DOMAIN rec : rec[s].messages \in Seq(Message)
  BY DEF TypeOK, SessionRecord
<1>a. \A x : ~In(x, <<>>) BY DEF In
<1>1. CASE KeepStep BY <1>1 DEF KeepStep, Stays, MayStore, Stores
<1>2. CASE BootStep BY <1>2 DEF BootStep
<1>3. CASE NewStep BY <1>a, <1>3 DEF NewStep, MayStore, Stores
<1>4. CASE RestartStep BY <1>a, <1>4 DEF RestartStep
<1>5. ASSUME NEW t \in Turns, PromptStep(t) PROVE PromptsHere' /\ PromptsStayHome'
  <2>1. \A x : In(x, messages') <=> In(x, messages) \/ x = User(t)
    BY <1>0, <1>5, Appended, Distinct DEF PromptStep
  <2>2. \A s \in DOMAIN rec : ~In(User(t), rec[s].messages)
    BY <1>5 DEF PromptStep, SentOnly, Unsent
  <2>3. \A u \in Turns \ {t} : User(u) # User(t) BY Distinct
  <2>4. home'[t] = state.sid /\ \A u \in Turns \ {t} : home'[u] = home[u]
    BY <1>0, <1>5 DEF PromptStep
  <2> QED BY <1>5, <2>1, <2>2, <2>3, <2>4 DEF PromptStep
<1>6. ASSUME NEW t \in Turns, FinishStep(t) PROVE PromptsHere' /\ PromptsStayHome'
  <2>1. \A x : In(x, messages') <=> In(x, messages) \/ x = Reply(t)
    BY <1>0, <1>6, Appended, Distinct DEF FinishStep
  <2>2. \A u \in Turns : User(u) # Reply(t) BY Distinct
  <2>3. state'.sid = state.sid /\ home' = home BY <1>6 DEF FinishStep, Stays
  <2>4. \A u \in Turns : In(User(u), messages') => home[u] = state.sid BY <2>1, <2>2
  <2>5. rec' = rec \/ Stores(state.sid, messages') BY <1>6 DEF FinishStep
  <2>6. \A s \in DOMAIN rec' : \/ (rec'[s].messages = messages' /\ s = state.sid)
                               \/ (s \in DOMAIN rec /\ rec'[s] = rec[s])
    BY <2>5 DEF Stores
  <2> QED BY <2>3, <2>4, <2>6
<1> QED BY <1>1, <1>2, <1>3, <1>4, <1>5, <1>6 DEF Kinds

LEMMA TurnsAtHomeKept ==
  ASSUME IInv, TypeOK', Kinds
  PROVE  TurnsAtHome'
<1> USE DEF IInv, Holding
<1>0. /\ messages \in Seq(Message) /\ home \in [Turns -> 1..(nextId - 1) \cup {NoSession}]
      /\ pc \in [Turns -> PcValues] /\ cut \subseteq Turns
      /\ \A s \in DOMAIN rec : rec[s].messages \in Seq(Message)
      /\ nextId \notin DOMAIN rec
  BY SMTT(60) DEF TypeOK, SessionRecord
<1>b. \A t \in Turns : state.sid \in DOMAIN rec =>
        (Answered(t, rec[state.sid].messages) => Answered(t, messages))
  BY <1>0, ExtendsKeeps DEF GrowsFromRecord
<1>1. CASE KeepStep
  <2>1. ASSUME NEW t \in Turns \ cut, pc'[t] = "streaming"
        PROVE home'[t] = state'.sid /\ In(User(t), messages')
    BY <1>1, <2>1 DEF KeepStep, Stays, TurnsRest, TurnsAtHome
  <2>2. ASSUME NEW t \in Turns \ cut, pc'[t] \in {"saving", "saved", "ended"}
        PROVE home'[t] \in DOMAIN rec' /\ Answered(t, rec'[home'[t]].messages)
    <3>1. pc[t] \in {"saving", "saved", "ended"} BY <1>1, <2>2 DEF KeepStep, TurnsRest
    <3>2. home[t] \in DOMAIN rec /\ Answered(t, rec[home[t]].messages) /\ home'[t] = home[t]
      BY <1>1, <3>1 DEF TurnsAtHome, KeepStep, Stays
    <3> QED BY <1>1, <1>b, <3>2 DEF KeepStep, MayStore, Stores
  <2> QED BY <1>1, <2>1, <2>2 DEF TurnsAtHome, KeepStep, Stays
<1>2. CASE BootStep
  BY <1>2 DEF BootStep, TurnsAtHome, Quiet, InFlight
<1>3. CASE NewStep
  BY <1>0, <1>3 DEF NewStep, MayStore, Stores, TurnsAtHome, InFlight
<1>4. CASE RestartStep
  BY <1>4 DEF RestartStep, TurnsAtHome, InFlight
<1>5. ASSUME NEW t \in Turns, PromptStep(t) PROVE TurnsAtHome'
  <2>1. \A x : In(x, messages') <=> In(x, messages) \/ x = User(t)
    BY <1>0, <1>5, Appended, Distinct DEF PromptStep
  <2>2. /\ home'[t] = state.sid /\ \A u \in Turns \ {t} : home'[u] = home[u]
        /\ pc'[t] = "streaming" /\ \A u \in Turns \ {t} : pc'[u] = pc[u]
    BY <1>0, <1>5 DEF PromptStep
  <2> QED BY <1>5, <2>1, <2>2 DEF PromptStep, TurnsAtHome
<1>6. ASSUME NEW t \in Turns, FinishStep(t) PROVE TurnsAtHome'
  <2>1. \A x : In(x, messages') <=> In(x, messages) \/ x = Reply(t)
    BY <1>0, <1>6, Appended, Distinct DEF FinishStep
  <2>2. pc'[t] \in {"failed", "saving"} /\ \A u \in Turns \ {t} : pc'[u] = pc[u]
    BY <1>0, <1>6 DEF FinishStep
  <2>3. \A u \in Turns : Answered(u, messages) => Answered(u, messages')
    <3>1. Reply(t) \in Message BY Distinct
    <3>2. Log!Extends(messages', messages) /\ messages' \in Seq(Message)
      BY <1>0, <1>6, <3>1, Appended DEF FinishStep
    <3> QED BY <1>0, <3>2, ExtendsKeeps
  <2>4. In(User(t), messages) => Answered(t, messages')
    BY <1>0, <1>6, Appended, Distinct DEF FinishStep
  <2>5. ASSUME NEW u \in Turns \ cut, pc'[u] = "streaming"
        PROVE home'[u] = state'.sid /\ In(User(u), messages')
    BY <1>6, <2>1, <2>2, <2>5 DEF FinishStep, Stays, TurnsAtHome
  <2>6. ASSUME NEW u \in Turns \ cut, pc'[u] \in {"saving", "saved", "ended"}
        PROVE home'[u] \in DOMAIN rec' /\ Answered(u, rec'[home'[u]].messages)
    <3>1. CASE u = t
      <4>1. Stores(state.sid, messages') BY <1>0, <1>6, <2>6, <3>1 DEF FinishStep
      <4>2. home[t] = state.sid /\ In(User(t), messages)
        BY <1>6, <3>1 DEF TurnsAtHome, FinishStep
      <4> QED BY <1>6, <2>4, <3>1, <4>1, <4>2 DEF FinishStep, Stays, Stores
    <3>2. CASE u # t
      <4>1. home[u] \in DOMAIN rec /\ Answered(u, rec[home[u]].messages) /\ home'[u] = home[u]
        BY <1>6, <2>2, <2>6, <3>2 DEF TurnsAtHome, FinishStep, Stays
      <4> QED BY <1>6, <1>b, <2>3, <4>1 DEF FinishStep, Stores
    <3> QED BY <3>1, <3>2
  <2> QED BY <1>6, <2>5, <2>6 DEF TurnsAtHome, FinishStep, Stays
<1> QED BY <1>1, <1>2, <1>3, <1>4, <1>5, <1>6 DEF Kinds

LEMMA InvInit == Init => IInv
<1> SUFFICES ASSUME Init PROVE IInv OBVIOUS
<1>1. DOMAIN rec = {} /\ messages = <<>> /\ pc = [t \in Turns |-> "free"] /\ saves = 0
  BY DEF Init, StoreInit
<1>2. \A x : ~In(x, <<>>) BY DEF In
<1>3. InFlight = {} BY <1>1 DEF InFlight
<1>4. TypeOK BY InitTyped
<1> QED
  BY <1>1, <1>2, <1>3, <1>4
  DEF IInv, Quiet, GrowsFromRecord, SentOnly, Unsent, OneHome, PromptsHere,
      PromptsStayHome, TurnsAtHome, Holding

LEMMA InvKept == IInv /\ [Next]_vars => IInv'
<1> SUFFICES ASSUME IInv, [Next]_vars PROVE IInv' OBVIOUS
<1>1. TypeOK' BY NextTyped DEF IInv
<1>2. Kinds BY StepKinds DEF IInv, Kinds
<1>3. Quiet' BY QuietKept DEF IInv
<1> QED
  BY <1>1, <1>2, <1>3, TailKept, SentOnlyKept, OneHomeKept, PromptsKept, TurnsAtHomeKept
  DEF IInv

\* A turn that has ended is stored, both its messages in the session of its
\* prompt, and stays so through every later step and restart, even with a
\* store that refuses writes.
THEOREM EndedStored == Spec => []EndedTurnsAreStored
<1>1. IInv => EndedTurnsAreStored
  BY DEF IInv, TurnsAtHome, Holding, EndedTurnsAreStored
<1> QED BY <1>1, InvInit, InvKept, PTL DEF Spec

\* No prompt is ever stored in a session other than the one it was typed in.
THEOREM PromptsHome == Spec => []PromptsStayHome
<1>1. IInv => PromptsStayHome BY DEF IInv
<1> QED BY <1>1, InvInit, InvKept, PTL DEF Spec

-----------------------------------------------------------------------------
(***************************************************************************)
(* The store as a durable log.                                             *)
(***************************************************************************)
LogNow == [s \in DOMAIN rec |-> rec[s].messages]

\* Storing the conversation of session s records it in the log of s.
LEMMA StoreRecords ==
  ASSUME IInv, NEW s \in SessionIds, NEW ms \in Seq(Message), Stores(s, ms),
         s \in DOMAIN rec => Log!Extends(ms, rec[s].messages),
         \A m \in Message : In(m, ms) =>
           \A r \in DOMAIN rec \ {s} : ~In(m, rec[r].messages)
  PROVE  Log!LogNext
<1>0. \A r \in DOMAIN rec : rec[r].messages \in Seq(Message)
  BY DEF IInv, TypeOK, SessionRecord
<1>1. DOMAIN LogNow' = DOMAIN LogNow \cup {s} BY DEF Stores, LogNow
<1>2. \A r \in DOMAIN LogNow \ {s} : LogNow'[r] = LogNow[r] BY DEF Stores, LogNow
<1>3. LogNow'[s] = ms BY DEF Stores, LogNow
<1>4. \A r \in DOMAIN LogNow : LogNow[r] = rec[r].messages BY DEF LogNow
<1>5. DOMAIN LogNow = DOMAIN rec BY DEF LogNow
<1>6. Log!LogOf(s) = IF s \in DOMAIN rec THEN rec[s].messages ELSE <<>>
  BY DEF Log!LogOf
<1>7. Log!Extends(ms, Log!LogOf(s))
  <2>1. Log!Extends(ms, <<>>)
    <3>1. Len(<<>>) = 0 /\ DOMAIN <<>> = {} /\ Len(ms) >= 0 OBVIOUS
    <3> QED BY <3>1 DEF Log!Extends
  <2> QED BY <1>6, <2>1
<1>8. ASSUME NEW m \in Log!Occurs(ms) \ Log!Occurs(Log!LogOf(s)) PROVE m \notin Log!Recorded
  <2>1. In(m, ms) BY DEF Log!Occurs, In
  <2>2. m \in Message BY <2>1 DEF In
  <2>3. \A r \in DOMAIN rec \ {s} : ~In(m, rec[r].messages) BY <2>1, <2>2
  <2>4. s \in DOMAIN rec => ~In(m, rec[s].messages) BY <1>6 DEF Log!Occurs, In
  <2>5. \A r \in DOMAIN rec : ~In(m, rec[r].messages) BY <2>3, <2>4
  <2>6. \A r \in DOMAIN rec : m \notin Log!Occurs(rec[r].messages)
    BY <2>5 DEF Log!Occurs, In
  <2>7. m \notin UNION {Log!Occurs(LogNow[r]) : r \in DOMAIN LogNow} BY <1>4, <1>5, <2>6
  <2> QED BY <2>7 DEF Log!Recorded, LogNow
<1>9. Log!Record(s)
  BY <1>1, <1>2, <1>3, <1>7, <1>8 DEF Log!Record, LogNow
<1> QED BY <1>9 DEF Log!LogNext

LEMMA StepRecords == IInv /\ [Next]_vars => [Log!LogNext]_LogNow
<1> SUFFICES ASSUME IInv, [Next]_vars, LogNow' # LogNow PROVE Log!LogNext
  BY DEF LogNow
<1>0. rec' # rec BY DEF LogNow
<1>a. /\ messages \in Seq(Message)
      /\ state.sid \in SessionIds
      /\ nextId - 1 <= MaxSessions /\ nextId \notin DOMAIN rec
  BY MaxSessionsIsPos DEF IInv, TypeOK, SessionIds
<1>b. Kinds BY StepKinds DEF IInv, Kinds
<1>c. TypeOK' BY NextTyped DEF IInv
<1>1. CASE KeepStep
  <2>1. Stores(state.sid, messages) BY <1>0, <1>1 DEF KeepStep, MayStore
  <2>2. \A m \in Message : In(m, messages) =>
          \A r \in DOMAIN rec \ {state.sid} : ~In(m, rec[r].messages)
    BY DEF IInv, OneHome
  <2>3. state.sid \in DOMAIN rec => Log!Extends(messages, rec[state.sid].messages)
    BY DEF IInv, GrowsFromRecord
  <2> QED BY <1>a, <2>1, <2>2, <2>3, StoreRecords
<1>2. CASE NewStep
  <2>1. Stores(nextId, <<>>) BY <1>0, <1>2 DEF NewStep, MayStore
  <2>2. nextId \in SessionIds
    <3>1. state'.sid = nextId BY <1>2 DEF NewStep
    <3>2. state'.sid \in 1..(nextId' - 1) /\ nextId' \in 2..(MaxSessions + 1)
      BY <1>c DEF TypeOK
    <3> QED BY <3>1, <3>2, MaxSessionsIsPos DEF SessionIds
  <2>3. <<>> \in Seq(Message) /\ \A m \in Message : ~In(m, <<>>) BY DEF In
  <2> QED BY <1>a, <2>1, <2>2, <2>3, StoreRecords
<1>3. ASSUME NEW t \in Turns, FinishStep(t) PROVE Log!LogNext
  <2>1. Stores(state.sid, messages') BY <1>0, <1>3 DEF FinishStep
  <2>3. messages' \in Seq(Message) BY <1>c DEF TypeOK
  <2>4. \A x : In(x, messages') <=> In(x, messages) \/ x = Reply(t)
    BY <1>a, <1>3, Appended, Distinct DEF FinishStep
  <2>5. \A s \in DOMAIN rec : ~In(Reply(t), rec[s].messages)
    BY <1>3 DEF FinishStep, IInv, SentOnly, Unsent
  <2>6. \A m \in Message : In(m, messages') =>
          \A r \in DOMAIN rec \ {state.sid} : ~In(m, rec[r].messages)
    BY <2>4, <2>5 DEF IInv, OneHome
  <2>7. state.sid \in DOMAIN rec => Log!Extends(messages', rec[state.sid].messages)
    <3>1. Reply(t) \in Message BY Distinct
    <3>2. \A r \in DOMAIN rec : rec[r].messages \in Seq(Message)
      BY DEF IInv, TypeOK, SessionRecord
    <3>3. state.sid \in DOMAIN rec => Log!Extends(messages, rec[state.sid].messages)
      BY DEF IInv, GrowsFromRecord
    <3>4. messages' = Append(messages, Reply(t)) BY <1>3 DEF FinishStep
    <3> QED BY <1>a, <3>1, <3>2, <3>3, <3>4, ExtendsKeeps
  <2> QED BY <1>a, <2>1, <2>3, <2>6, <2>7, StoreRecords
<1> QED
  BY <1>0, <1>1, <1>2, <1>3, <1>b DEF Kinds, BootStep, RestartStep, PromptStep

\* The records of storage.ts implement the durable log: whatever the handlers
\* interleave and wherever the process dies, logs only grow at their end and
\* no message is recorded in two sessions.
THEOREM DurableLogImplemented == Spec => ImplementsDurableLog
<1>1. Init => Log!LogInit
  BY DEF Init, StoreInit, Log!LogInit
<1>2. IInv /\ [Next]_vars => [Log!LogNext]_LogNow BY StepRecords
<1> QED
  BY <1>1, <1>2, InvInit, InvKept, PTL DEF Spec, ImplementsDurableLog, Log!LogSpec, LogNow

-----------------------------------------------------------------------------
(***************************************************************************)
(* Aborts.                                                                 *)
(***************************************************************************)
\* The controller in use is that of a turn still streaming: an abort never
\* signals a turn that is over.
THEOREM AbortIsLive == Spec => []AbortTargetsLiveTurn
<1>1. Init => AbortTargetsLiveTurn BY DEF Init, AbortTargetsLiveTurn
<1>2. TypeOK /\ AbortTargetsLiveTurn /\ [Next]_vars => AbortTargetsLiveTurn'
  <2> SUFFICES ASSUME TypeOK, AbortTargetsLiveTurn, [Next]_vars
               PROVE  AbortTargetsLiveTurn'
    OBVIOUS
  <2> USE DEF AbortTargetsLiveTurn
  <2>0. ctl \in Turns \cup {NoTurn} /\ pc \in [Turns -> PcValues] BY DEF TypeOK
  <2>1. CASE \/ Boot \/ NewSession \/ CommandSaved
             \/ \E p \in Prefs : SetPrefs(p)
             \/ \E td \in Todos : SetTodos(td)
             \/ \E t \in Turns : Token(t)
             \/ UNCHANGED vars
    BY <2>1
    DEF Boot, NewSession, CommandSaved, SetPrefs, SetTodos, Token, vars, engineVars
  <2>2. CASE Abort BY <2>2 DEF Abort
  <2>3. ASSUME NEW t \in Turns, Prompt(t) PROVE AbortTargetsLiveTurn'
    BY <2>0, <2>3 DEF Prompt
  <2>4. ASSUME NEW t \in Turns, FinishTurn(t) PROVE AbortTargetsLiveTurn'
    BY <2>4 DEF FinishTurn
  <2>5. ASSUME NEW t \in Turns, TurnSaved(t) \/ EndTurn(t) PROVE AbortTargetsLiveTurn'
    <3>1. ctl' = ctl /\ pc[t] \in {"saving", "saved"} BY <2>5 DEF TurnSaved, EndTurn
    <3>2. \A u \in Turns \ {t} : pc'[u] = pc[u] BY <2>0, <2>5 DEF TurnSaved, EndTurn
    <3> QED BY <2>0, <3>1, <3>2
  <2>6. CASE Restart BY <2>6 DEF Restart
  <2> QED BY <2>1, <2>2, <2>3, <2>4, <2>5, <2>6 DEF Next
<1> QED BY <1>1, <1>2, InitTyped, NextTyped, PTL DEF Spec

-----------------------------------------------------------------------------
(***************************************************************************)
(* With a store that takes every write.                                    *)
(***************************************************************************)
Saving == saves > 0 \/ \E t \in Turns : pc[t] = "saving"

\* A save that still has to write the active key has written the record.
PendingHasRecord == Saving => state.sid \in DOMAIN rec

\* Nothing in memory is newer than the store, but for what turns still add.
UpToDate ==
  /\ state.sid \in DOMAIN rec =>
       /\ rec[state.sid].prefs = state.prefs
       /\ rec[state.sid].todos = state.todos
       /\ Streaming = {} => rec[state.sid].messages = messages
  /\ state.sid \notin DOMAIN rec /\ Streaming = {} => messages = <<>>

\* If the active key is not the session on screen, a save will make it so.
ReopensSoon == ready /\ state.sid \in DOMAIN rec /\ active # state.sid => Saving

SInv == IInv /\ ActiveSessionLoads /\ PendingHasRecord /\ UpToDate /\ ReopensSoon

\* The settings part of the invariant needs the settings of a stored record.
StoresAll(st, ms) ==
  /\ DOMAIN rec' = DOMAIN rec \cup {st.sid}
  /\ rec'[st.sid] = Stored(st, ms)

LEMMA AllStored ==
  ASSUME NEW st, NEW ms, WriteRecord(st.sid, Stored(st, ms), TRUE)
  PROVE  StoresAll(st, ms) /\ active' = active
BY DEF WriteRecord, StoresAll

LEMMA MutateStores ==
  ASSUME ~StorageFails, TypeOK, NEW st, NEW ms, Mutate(st, ms)
  PROVE  state' = st /\ messages' = ms /\ active' = active /\ StoresAll(st, ms) /\ saves' > 0
<1>1. WriteOutcomes = {TRUE} BY DEF WriteOutcomes
<1>2. WriteRecord(st.sid, Stored(st, ms), TRUE) BY <1>1 DEF Mutate
<1>3. saves' = saves + 1 /\ saves \in Nat BY <1>1, MaxSavesIsPos DEF Mutate, TypeOK
<1>4. StoresAll(st, ms) /\ active' = active BY <1>2, AllStored
<1>5. state' = st /\ messages' = ms BY DEF Mutate
<1> QED BY <1>3, <1>4, <1>5

LEMMA SInvKept == ~StorageFails /\ SInv /\ [Next]_vars => SInv'
<1> SUFFICES ASSUME ~StorageFails, SInv, [Next]_vars
             PROVE  ActiveSessionLoads' /\ PendingHasRecord' /\ UpToDate' /\ ReopensSoon'
  BY InvKept DEF SInv
<1> DEFINE Goal == ActiveSessionLoads /\ PendingHasRecord /\ UpToDate /\ ReopensSoon
<1>0. /\ TypeOK /\ TypeOK' /\ Quiet
      /\ ActiveSessionLoads /\ PendingHasRecord /\ UpToDate /\ ReopensSoon
      /\ pc \in [Turns -> PcValues] /\ saves \in Nat /\ nextId \notin DOMAIN rec
      /\ NoSession \notin DOMAIN rec /\ state.sid # NoSession
  <2>1. TypeOK /\ TypeOK' /\ Quiet BY NextTyped DEF SInv, IInv
  <2>2. ActiveSessionLoads /\ PendingHasRecord /\ UpToDate /\ ReopensSoon BY DEF SInv
  <2>3. pc \in [Turns -> PcValues] /\ saves \in Nat BY <2>1, MaxSavesIsPos DEF TypeOK
  <2>4. DOMAIN rec \subseteq 1..(nextId - 1) /\ state.sid \in 1..(nextId - 1) /\ nextId \in Nat
    BY <2>1, MaxSessionsIsPos, SMTT(60) DEF TypeOK
  <2>5. nextId \notin DOMAIN rec /\ NoSession \notin DOMAIN rec /\ state.sid # NoSession
    BY <2>4, NoSessionIsNone
  <2> QED BY <2>1, <2>2, <2>3, <2>5
<1>a. WriteOutcomes = {TRUE} BY DEF WriteOutcomes
<1> USE DEF ActiveSessionLoads, PendingHasRecord, UpToDate, ReopensSoon, Saving, Streaming
<1>1. CASE Boot
  <2>1. saves = 0 /\ \A t \in Turns : pc[t] \notin {"streaming", "saving"}
    BY <1>0, <1>1 DEF Boot, Quiet, InFlight
  <2>2. rec' = rec /\ active' = active /\ saves' = saves /\ pc' = pc BY <1>1 DEF Boot, storeVars
  <2>3. CASE active \in DOMAIN rec
    BY <1>0, <1>1, <2>1, <2>2, <2>3 DEF Boot, Restored
  <2>4. CASE active \notin DOMAIN rec
    BY <1>0, <1>1, <2>1, <2>2, <2>4 DEF Boot, Quiet
  <2> QED BY <2>3, <2>4
<1>2. ASSUME NEW p \in Prefs, SetPrefs(p) PROVE Goal'
  <2> DEFINE st == [state EXCEPT !.prefs = p]
  <2>1. st.sid = state.sid BY <1>0 DEF TypeOK
  <2>2. Mutate(st, messages) /\ pc' = pc BY <1>2 DEF SetPrefs
  <2> HIDE DEF st
  <2>3. state' = st /\ messages' = messages /\ active' = active /\ StoresAll(st, messages) /\ saves' > 0
    BY <1>0, <2>2, MutateStores
  <2> QED BY <1>0, <2>1, <2>2, <2>3 DEF StoresAll, Stored
<1>3. ASSUME NEW td \in Todos, SetTodos(td) PROVE Goal'
  <2> DEFINE st == [state EXCEPT !.todos = td]
  <2>1. st.sid = state.sid BY <1>0 DEF TypeOK
  <2>2. Mutate(st, messages) /\ pc' = pc BY <1>3 DEF SetTodos
  <2> HIDE DEF st
  <2>3. state' = st /\ messages' = messages /\ active' = active /\ StoresAll(st, messages) /\ saves' > 0
    BY <1>0, <2>2, MutateStores
  <2> QED BY <1>0, <2>1, <2>2, <2>3 DEF StoresAll, Stored
<1>4. CASE NewSession
  <2> DEFINE st == [state EXCEPT !.sid = nextId, !.todos = NoTodos]
  <2>2. Mutate(st, <<>>) /\ pc' = pc BY <1>4 DEF NewSession
  <2> HIDE DEF st
  <2>3. state' = st /\ messages' = <<>> /\ active' = active /\ StoresAll(st, <<>>) /\ saves' > 0
    BY <1>0, <2>2, MutateStores
  <2> QED BY <1>0, <2>2, <2>3 DEF StoresAll, Stored
<1>5. CASE CommandSaved
  <2>1. active' = state.sid /\ rec' = rec /\ state' = state /\ messages' = messages /\ pc' = pc
    BY <1>5, <1>a DEF CommandSaved, WriteActive
  <2>2. saves > 0 BY <1>5 DEF CommandSaved
  <2> QED BY <1>0, <2>1, <2>2
<1>6. CASE Abort
  <2>1. /\ state'.sid = state.sid /\ state'.prefs = state.prefs /\ state'.todos = state.todos
        /\ rec' = rec /\ active' = active /\ messages' = messages /\ pc' = pc /\ saves' = saves
        /\ ready' = ready
    BY <1>0, <1>6 DEF Abort, storeVars, TypeOK
  <2> QED BY <1>0, <2>1
<1>7. ASSUME NEW t \in Turns, Prompt(t) PROVE Goal'
  <2>1. /\ state'.sid = state.sid /\ state'.prefs = state.prefs /\ state'.todos = state.todos
        /\ rec' = rec /\ active' = active /\ saves' = saves /\ ready' = ready
        /\ pc'[t] = "streaming" /\ pc[t] = "free" /\ \A u \in Turns \ {t} : pc'[u] = pc[u]
    BY <1>0, <1>7 DEF Prompt, storeVars, TypeOK
  <2>2. Streaming' # {} BY <2>1
  <2>3. Saving' <=> Saving BY <2>1
  <2> QED BY <1>0, <2>1, <2>2, <2>3
<1>8. ASSUME NEW t \in Turns, Token(t) PROVE Goal'
  BY <1>0, <1>8 DEF Token, storeVars
<1>9. ASSUME NEW t \in Turns, FinishTurn(t) PROVE Goal'
  <2> DEFINE st == [state EXCEPT !.streaming = FALSE]
             ms == Append(messages, Reply(t))
  <2>1. state' = st /\ messages' = ms /\ ready' = ready BY <1>9 DEF FinishTurn
  <2>2. WriteRecord(st.sid, Stored(st, ms), TRUE) /\ pc' = [pc EXCEPT ![t] = "saving"]
    BY <1>9, <1>a DEF FinishTurn
  <2>3. pc'[t] = "saving" BY <1>0, <2>2
  <2> HIDE DEF st, ms
  <2>4. StoresAll(st, ms) /\ active' = active BY <2>2, AllStored
  <2>5. Saving' BY <2>3
  <2> QED BY <1>0, <2>1, <2>4, <2>5 DEF StoresAll, Stored
<1>10. ASSUME NEW t \in Turns, TurnSaved(t) PROVE Goal'
  <2>1. /\ active' = state.sid /\ rec' = rec /\ state' = state /\ messages' = messages
        /\ saves' = saves /\ pc[t] = "saving" /\ pc' = [pc EXCEPT ![t] = "saved"]
    BY <1>10, <1>a DEF TurnSaved, WriteActive
  <2>2. Streaming' = Streaming BY <1>0, <2>1
  <2>3. state.sid \in DOMAIN rec BY <1>0, <2>1
  <2> QED BY <1>0, <2>1, <2>2, <2>3
<1>11. ASSUME NEW t \in Turns, EndTurn(t) PROVE Goal'
  <2>1. /\ rec' = rec /\ active' = active /\ state' = state /\ messages' = messages
        /\ saves' = saves /\ ready' = ready
        /\ pc[t] = "saved" /\ pc' = [pc EXCEPT ![t] = "ended"]
    BY <1>11 DEF EndTurn, storeVars
  <2>2. Streaming' = Streaming /\ (Saving' <=> Saving) BY <1>0, <2>1
  <2> QED BY <1>0, <2>1, <2>2
<1>12. CASE Restart
  <2>1. /\ rec' = rec /\ active' = active /\ state'.sid = nextId /\ messages' = <<>>
        /\ saves' = 0 /\ ready' = FALSE
        /\ \A t \in Turns : pc'[t] \notin {"streaming", "saving"}
    BY <1>12 DEF Restart, Fresh, storeVars, InFlight
  <2> QED BY <1>0, <2>1
<1>13. CASE UNCHANGED vars BY <1>0, <1>13 DEF vars, storeVars, engineVars
<1> QED
  BY <1>1, <1>2, <1>3, <1>4, <1>5, <1>6, <1>7, <1>8, <1>9, <1>10, <1>11, <1>12, <1>13 DEF Next

LEMMA SInvInit == Init => SInv
<1> SUFFICES ASSUME Init PROVE SInv OBVIOUS
<1>1. DOMAIN rec = {} /\ messages = <<>> /\ pc = [t \in Turns |-> "free"] /\ saves = 0
      /\ active = NoSession
  BY DEF Init, StoreInit
<1> QED
  BY <1>1, InvInit
  DEF SInv, ActiveSessionLoads, PendingHasRecord, UpToDate, ReopensSoon, Saving, Streaming

\* With a store that takes every write, the active session can be loaded
\* after any step: a kill between the two writes of a save is harmless.
THEOREM ActiveLoads == ASSUME ~StorageFails PROVE Spec => []ActiveSessionLoads
<1>1. SInv => ActiveSessionLoads BY DEF SInv
<1>2. SInv /\ [Next]_vars => SInv' BY SInvKept
<1> QED BY <1>1, <1>2, SInvInit, PTL DEF Spec

\* Once no turn streams, the store has all there is in memory.
THEOREM IdleStored == Spec => []IdleIsStored
<1>1. CASE StorageFails
  <2>1. IdleIsStored BY <1>1 DEF IdleIsStored
  <2> QED BY <2>1, PTL
<1>2. CASE ~StorageFails
  <2>1. SInv => IdleIsStored BY DEF SInv, UpToDate, IdleIsStored
  <2>2. SInv /\ [Next]_vars => SInv' BY <1>2, SInvKept
  <2> QED BY <2>1, <2>2, SInvInit, PTL DEF Spec
<1> QED BY <1>1, <1>2

\* When every handler has finished, a restart reopens the session on screen.
THEOREM ReopensCurrent == Spec => []RestartReopensCurrent
<1>1. CASE StorageFails
  <2>1. RestartReopensCurrent BY <1>1 DEF RestartReopensCurrent
  <2> QED BY <2>1, PTL
<1>2. CASE ~StorageFails
  <2>1. SInv => RestartReopensCurrent
    BY MaxSavesIsPos
    DEF SInv, IInv, TypeOK, ReopensSoon, Saving, RestartReopensCurrent, InFlight
  <2>2. SInv /\ [Next]_vars => SInv' BY <1>2, SInvKept
  <2> QED BY <2>1, <2>2, SInvInit, PTL DEF Spec
<1> QED BY <1>1, <1>2

-----------------------------------------------------------------------------
(* The page over the engine.                                                 *)

\* Whatever the page does, the engine takes a step of its own or none: every
\* theorem about the engine is one about the app.
LEMMA StepIsEngineStep == [UINext]_uiAll => [Next]_vars
BY DEF UINext, Send, ChooseModel, ClickNewSession, ClearThread, Delta, Settle, TurnEnd,
       LoadPage, Kill, Next, uiAll

\* The behaviours of the page are behaviours of the engine.
THEOREM PageRunsEngine == UISpec => Spec
<1>1. UIInit => Init BY DEF UIInit
<1> QED BY <1>1, StepIsEngineStep, PTL DEF UISpec, Spec

-----------------------------------------------------------------------------
LEMMA PageTyped ==
  ASSUME UITypeOK, [UINext]_uiAll
  PROVE  UITypeOK'
<1> DEFINE Goal == /\ composer \in BOOLEAN
                   /\ thread \in Seq(Message)
                   /\ card \in Turns \cup {NoTurn}
                   /\ clearing \in BOOLEAN
                   /\ base \in Nat
<1>a. TypeOK /\ Goal BY DEF UITypeOK
<1>b. TypeOK' BY <1>a, StepIsEngineStep, NextTyped
<1>c. messages' \in Seq(Message) BY <1>b DEF TypeOK
<1>d. <<>> \in Seq(Message) OBVIOUS
<1>1. ASSUME NEW t \in Turns, Send(t) PROVE Goal'
  <2>1. User(t) \in Message /\ Reply(t) \in Message BY Distinct
  <2>2. thread' \in Seq(Message) BY <1>a, <1>1, <2>1 DEF Send
  <2> QED BY <1>a, <1>1, <2>2 DEF Send
<1>2. ASSUME NEW p \in Prefs, ChooseModel(p) PROVE Goal'
  BY <1>a, <1>2 DEF ChooseModel, uiVars
<1>3. ASSUME ClickNewSession PROVE Goal'
  <2>1. (saves' > saves) \in BOOLEAN OBVIOUS
  <2>2. clearing' \in BOOLEAN BY <1>3, <2>1, Zenon DEF ClickNewSession
  <2> QED BY <1>a, <1>3, <2>2 DEF ClickNewSession
<1>4. ASSUME ClearThread PROVE Goal'
  BY <1>a, <1>d, <1>4 DEF ClearThread
<1>5. ASSUME NEW t \in Turns, Delta(t) PROVE Goal'
  BY <1>a, <1>5 DEF Delta, uiVars
<1>6. ASSUME Settle PROVE Goal'
  BY <1>a, <1>6 DEF Settle, uiVars
<1>7. ASSUME NEW t \in Turns, TurnEnd(t) PROVE Goal'
  BY <1>a, <1>7 DEF TurnEnd
<1>8. ASSUME LoadPage PROVE Goal'
  BY <1>a, <1>c, <1>8 DEF LoadPage
<1>9. ASSUME Kill PROVE Goal'
  BY <1>d, <1>9 DEF Kill
<1>10. ASSUME UNCHANGED uiAll PROVE Goal'
  BY <1>a, <1>10 DEF uiAll, uiVars
<1>11. Goal'
  BY <1>1, <1>2, <1>3, <1>4, <1>5, <1>6, <1>7, <1>8, <1>9, <1>10 DEF UINext
<1> QED BY <1>b, <1>11 DEF UITypeOK

\* The page's variables keep their types as the engine's do.
THEOREM PageTypes == UISpec => []UITypeOK
<1>1. UIInit => UITypeOK
  <2> SUFFICES ASSUME UIInit PROVE UITypeOK OBVIOUS
  <2>1. TypeOK BY InitTyped DEF UIInit
  <2>2. <<>> \in Seq(Message) OBVIOUS
  <2> QED BY <2>1, <2>2 DEF UIInit, UITypeOK
<1>2. UITypeOK /\ [UINext]_uiAll => UITypeOK' BY PageTyped
<1> QED BY <1>1, <1>2, PTL DEF UISpec

-----------------------------------------------------------------------------
\* The composer keeps a second prompt out.
Serial ==
  /\ InFlight # {} => ~composer
  /\ OneTurnAtATime

LEMMA SerialKept ==
  ASSUME TypeOK, Serial, [UINext]_uiAll
  PROVE  Serial'
<1> USE DEF Serial, OneTurnAtATime, InFlight
<1>0. pc \in [Turns -> PcValues] BY DEF TypeOK
<1>1. ASSUME NEW t \in Turns, Send(t) PROVE Serial'
  <2>1. InFlight = {} /\ composer' = FALSE /\ pc' = [pc EXCEPT ![t] = "streaming"]
    BY <1>1 DEF Send, Prompt
  <2>2. \A u \in Turns : u \in InFlight' <=> u = t BY <1>0, <2>1
  <2> QED BY <2>1, <2>2
<1>2. ASSUME NEW p \in Prefs, ChooseModel(p) PROVE Serial'
  BY <1>2 DEF ChooseModel, SetPrefs, uiVars
<1>3. CASE ClickNewSession BY <1>3 DEF ClickNewSession, NewSession
<1>4. CASE ClearThread BY <1>4 DEF ClearThread, vars, engineVars
<1>5. ASSUME NEW t \in Turns, Delta(t) PROVE Serial'
  <2>1. CASE Token(t) BY <1>5, <2>1 DEF Delta, Token, uiVars
  <2>2. CASE FinishTurn(t)
    <3>1. composer' = composer /\ pc[t] = "streaming" BY <1>5, <2>2 DEF Delta, FinishTurn, uiVars
    <3>2. PICK ok \in WriteOutcomes : pc' = [pc EXCEPT ![t] = IF ok THEN "saving" ELSE "failed"]
      BY <2>2 DEF FinishTurn
    <3>3. InFlight' \subseteq InFlight BY <1>0, <3>1, <3>2
    <3> QED BY <3>1, <3>3
  <2> QED BY <1>5, <2>1, <2>2 DEF Delta
<1>6. CASE Settle
  <2>1. composer' = composer BY <1>6 DEF Settle, uiVars
  <2>2. InFlight' \subseteq InFlight
    <3>1. CASE CommandSaved BY <3>1 DEF CommandSaved
    <3>2. ASSUME NEW t \in Turns, TurnSaved(t) PROVE InFlight' \subseteq InFlight
      <4>1. pc[t] = "saving" BY <3>2 DEF TurnSaved
      <4>2. \A u \in Turns \ {t} : pc'[u] = pc[u] BY <1>0, <3>2 DEF TurnSaved
      <4> QED BY <4>1, <4>2
    <3> QED BY <1>6, <3>1, <3>2 DEF Settle
  <2> QED BY <2>1, <2>2
<1>7. ASSUME NEW t \in Turns, TurnEnd(t) PROVE Serial'
  <2>1. pc[t] = "saved" /\ pc' = [pc EXCEPT ![t] = "ended"] BY <1>7 DEF TurnEnd, EndTurn
  <2>2. InFlight' = {} BY <1>0, <2>1
  <2> QED BY <2>2
<1>8. CASE LoadPage BY <1>8 DEF LoadPage, Boot
<1>9. CASE Kill
  <2>1. InFlight' = {} BY <1>9 DEF Kill, Restart
  <2> QED BY <2>1
<1>10. CASE UNCHANGED uiAll BY <1>10 DEF uiAll, vars, engineVars, uiVars
<1> QED BY <1>1, <1>2, <1>3, <1>4, <1>5, <1>6, <1>7, <1>8, <1>9, <1>10 DEF UINext

LEMMA SerialInit == UIInit => Serial
BY DEF UIInit, Init, Serial, OneTurnAtATime, InFlight

\* At most one prompt is between its turn_start and its turn_end.
THEOREM TurnsAreSerial == UISpec => []OneTurnAtATime
<1>1. Serial => OneTurnAtATime BY DEF Serial
<1>2. TypeOK /\ Serial /\ [UINext]_uiAll => Serial' BY SerialKept
<1>3. TypeOK /\ [UINext]_uiAll => TypeOK' BY StepIsEngineStep, NextTyped
<1>4. UIInit => TypeOK BY InitTyped DEF UIInit
<1> QED BY <1>1, <1>2, <1>3, <1>4, SerialInit, PTL DEF UISpec

-----------------------------------------------------------------------------
(***************************************************************************)
(* Because turns are serial, the prompt of a running turn is the last      *)
(* message of the conversation until its reply comes.                      *)
(***************************************************************************)
Paired(ms) ==
  \A i \in DOMAIN ms : \A t \in Turns \ cut :
    ms[i] = Reply(t) => i > 1 /\ ms[i - 1] = User(t)

PromptIsLast ==
  \A t \in Streaming \ cut : messages # <<>> /\ messages[Len(messages)] = User(t)

PInv ==
  /\ IInv
  /\ Serial
  /\ Paired(messages)
  /\ RepliesFollowPrompts
  /\ PromptIsLast

\* A reply may follow its own prompt, and a prompt may follow anything.
LEMMA PairedAppend ==
  ASSUME NEW ms \in Seq(Message), Paired(ms), NEW m \in Message,
         \A t \in Turns \ cut : m = Reply(t) => ms # <<>> /\ ms[Len(ms)] = User(t)
  PROVE  Paired(Append(ms, m))
<1> DEFINE a == Append(ms, m)
           n == Len(ms)
<1>1. /\ n \in Nat /\ DOMAIN ms = 1..n /\ DOMAIN a = 1..(n + 1)
      /\ \A i \in 1..n : a[i] = ms[i]
      /\ a[n + 1] = m
  OBVIOUS
<1>2. ms # <<>> => n > 0 OBVIOUS
<1> HIDE DEF a
<1>3. ASSUME NEW i \in DOMAIN a, NEW t \in Turns \ cut, a[i] = Reply(t)
      PROVE  i > 1 /\ a[i - 1] = User(t)
  <2>1. CASE i \in 1..n
    <3>1. i > 1 /\ ms[i - 1] = User(t) BY <1>1, <1>3, <2>1 DEF Paired
    <3>2. i - 1 \in 1..n BY <1>1, <2>1, <3>1
    <3> QED BY <1>1, <3>1, <3>2
  <2>2. CASE i = n + 1
    <3>1. m = Reply(t) BY <1>1, <1>3, <2>2
    <3>2. ms # <<>> /\ ms[n] = User(t) BY <3>1
    <3>3. n \in 1..n BY <1>1, <1>2, <3>2
    <3> QED BY <1>1, <1>2, <2>2, <3>2, <3>3
  <2> QED BY <1>1, <2>1, <2>2
<1> QED BY <1>3 DEF Paired, a

LEMMA PInvKept ==
  ASSUME PInv, [UINext]_uiAll
  PROVE  PInv'
<1>a. /\ IInv /\ TypeOK /\ Serial /\ Paired(messages) /\ RepliesFollowPrompts /\ PromptIsLast
      /\ Quiet
  BY DEF PInv, IInv
<1>b. IInv' /\ TypeOK' BY <1>a, StepIsEngineStep, InvKept DEF IInv
<1>c. Serial' BY <1>a, SerialKept
<1>d. KeepStep \/ BootStep \/ NewStep \/ RestartStep
      \/ \E t \in Turns : PromptStep(t) \/ FinishStep(t)
  BY <1>a, StepIsEngineStep, StepKinds
<1>e. /\ messages \in Seq(Message) /\ messages' \in Seq(Message) /\ pc \in [Turns -> PcValues]
  BY <1>a, <1>b DEF TypeOK
<1> DEFINE Goal == Paired(messages) /\ RepliesFollowPrompts /\ PromptIsLast
<1> USE DEF Streaming, InFlight
<1>1. ASSUME KeepStep PROVE Goal'
  <2>1. cut' = cut /\ messages' = messages BY <1>1 DEF KeepStep, Stays
  <2>2. rec' = rec \/ Stores(state.sid, messages) BY <1>1 DEF KeepStep, MayStore
  <2>3. \A t \in Turns : pc'[t] = "streaming" => pc[t] = "streaming"
    BY <1>1 DEF KeepStep, TurnsRest
  <2>4. Paired(messages)' BY <1>a, <2>1 DEF Paired
  <2>5. RepliesFollowPrompts' BY <1>a, <2>1, <2>2 DEF Paired, RepliesFollowPrompts, Stores
  <2>6. PromptIsLast' BY <1>a, <2>1, <2>3 DEF PromptIsLast
  <2> QED BY <2>4, <2>5, <2>6
<1>2. ASSUME BootStep PROVE Goal'
  <2>1. /\ active \in DOMAIN rec /\ messages' = rec[active].messages
        /\ rec' = rec /\ cut' = cut /\ pc' = pc /\ InFlight = {}
    BY <1>a, <1>2 DEF BootStep, Quiet
  <2> QED BY <1>a, <2>1 DEF Paired, RepliesFollowPrompts, PromptIsLast
<1>3. ASSUME NewStep PROVE Goal'
  <2>1. /\ messages' = <<>> /\ cut' = cut \cup InFlight /\ pc' = pc
        /\ rec' = rec \/ Stores(nextId, <<>>)
    BY <1>3 DEF NewStep, MayStore
  <2>2. Paired(messages)' BY <2>1 DEF Paired
  <2>3. RepliesFollowPrompts' BY <1>a, <2>1 DEF RepliesFollowPrompts, Stores
  <2>4. PromptIsLast' BY <2>1 DEF PromptIsLast
  <2> QED BY <2>2, <2>3, <2>4
<1>4. ASSUME RestartStep PROVE Goal'
  <2>1. messages' = <<>> /\ cut' = cut /\ rec' = rec /\ \A t \in Turns : pc'[t] # "streaming"
    BY <1>4 DEF RestartStep
  <2> QED BY <1>a, <2>1 DEF Paired, RepliesFollowPrompts, PromptIsLast
<1>5. ASSUME NEW t \in Turns, PromptStep(t) PROVE Goal'
  <2>1. /\ messages' = Append(messages, User(t)) /\ rec' = rec /\ cut' = cut
        /\ pc'[t] = "streaming"
    BY <1>5, <1>e DEF PromptStep
  <2>2. Paired(Append(messages, User(t)))
    <3>1. User(t) \in Message /\ \A u \in Turns : User(t) # Reply(u) BY Distinct
    <3> QED BY <1>a, <1>e, <3>1, PairedAppend
  <2>3. Paired(messages)' BY <2>1, <2>2 DEF Paired
  <2>4. RepliesFollowPrompts' BY <1>a, <2>1 DEF RepliesFollowPrompts
  <2>5. \A u \in Turns : pc'[u] = "streaming" => u = t
    BY <1>c, <2>1 DEF Serial, OneTurnAtATime
  <2>6. messages' # <<>> /\ messages'[Len(messages')] = User(t) BY <1>e, <2>1
  <2>7. PromptIsLast' BY <2>5, <2>6 DEF PromptIsLast
  <2> QED BY <2>3, <2>4, <2>7
<1>6. ASSUME NEW t \in Turns, FinishStep(t) PROVE Goal'
  <2>1. /\ messages' = Append(messages, Reply(t)) /\ cut' = cut /\ pc[t] = "streaming"
        /\ rec' = rec \/ Stores(state.sid, messages')
    BY <1>6 DEF FinishStep, Stays
  <2>2. Paired(Append(messages, Reply(t)))
    <3>1. Reply(t) \in Message /\ \A u \in Turns : Reply(t) = Reply(u) => u = t BY Distinct
    <3>2. t \notin cut => messages # <<>> /\ messages[Len(messages)] = User(t)
      BY <1>a, <2>1 DEF PromptIsLast
    <3> QED BY <1>a, <1>e, <3>1, <3>2, PairedAppend
  <2>3. Paired(messages)' BY <2>1, <2>2 DEF Paired
  <2>4. RepliesFollowPrompts'
    <3>1. \A s \in DOMAIN rec' : rec'[s].messages = messages' \/ (s \in DOMAIN rec /\ rec'[s] = rec[s])
      BY <2>1 DEF Stores
    <3> QED BY <1>a, <2>1, <2>3, <3>1, SMTT(60) DEF RepliesFollowPrompts, Paired
  <2>5. \A u \in Turns : pc'[u] # "streaming"
    <3>1. \A u \in Turns : pc[u] = "streaming" => u = t
      BY <1>a, <2>1 DEF Serial, OneTurnAtATime
    <3>2. pc'[t] # "streaming" /\ \A u \in Turns \ {t} : pc'[u] = pc[u]
      BY <1>6, <1>e DEF FinishStep
    <3> QED BY <3>1, <3>2
  <2>6. PromptIsLast' BY <2>5 DEF PromptIsLast
  <2> QED BY <2>3, <2>4, <2>6
<1>7. Goal' BY <1>1, <1>2, <1>3, <1>4, <1>5, <1>6, <1>d
<1> QED BY <1>b, <1>c, <1>7 DEF PInv

LEMMA PInvInit == UIInit => PInv
<1> SUFFICES ASSUME UIInit PROVE PInv OBVIOUS
<1>1. messages = <<>> /\ DOMAIN rec = {} /\ \A t \in Turns : pc[t] # "streaming"
  BY DEF UIInit, Init, StoreInit
<1>2. IInv /\ Serial BY InvInit, SerialInit DEF UIInit
<1> QED BY <1>1, <1>2 DEF PInv, Paired, RepliesFollowPrompts, PromptIsLast, Streaming

\* In every stored conversation a reply follows its own prompt, unless its
\* session was replaced under it.
THEOREM RepliesInPlace == UISpec => []RepliesFollowPrompts
<1>1. PInv => RepliesFollowPrompts BY DEF PInv
<1>2. PInv /\ [UINext]_uiAll => PInv' BY PInvKept
<1> QED BY <1>1, <1>2, PInvInit, PTL DEF UISpec

-----------------------------------------------------------------------------
(***************************************************************************)
(* The active card is that of the turn in flight, whatever the page does   *)
(* to the thread meanwhile.                                                *)
(***************************************************************************)
CardInv ==
  /\ TypeOK
  /\ Serial
  /\ \A t \in InFlight : card = t

LEMMA CardKept ==
  ASSUME CardInv, [UINext]_uiAll
  PROVE  CardInv' /\ \A t \in Turns : left'[t] < left[t] => card = t
<1> DEFINE Ours == \A t \in InFlight : card = t
           Streamed == \A t \in Turns : left'[t] < left[t] => card = t
<1>a. TypeOK /\ Serial /\ Ours BY DEF CardInv
<1>b. TypeOK' /\ Serial' BY <1>a, StepIsEngineStep, NextTyped, SerialKept
<1>c. /\ pc \in [Turns -> PcValues] /\ left \in [Turns -> 0..Tokens]
      /\ \A t \in Turns : left[t] \in Nat /\ left[t] <= Tokens /\ ~(left[t] < left[t])
      /\ Tokens \in Nat
  BY <1>a, TokensIsPos DEF TypeOK
<1> USE DEF InFlight
<1>1. ASSUME NEW t \in Turns, Send(t) PROVE Ours' /\ Streamed
  <2>1. InFlight = {} /\ card' = t /\ pc' = [pc EXCEPT ![t] = "streaming"]
        /\ left' = [left EXCEPT ![t] = Tokens]
    BY <1>1, <1>a DEF Send, Prompt, Serial
  <2>2. \A u \in InFlight' : u = t BY <1>c, <2>1
  <2>3. Streamed BY <1>c, <2>1
  <2> QED BY <2>1, <2>2, <2>3
<1>2. ASSUME NEW p \in Prefs, ChooseModel(p) PROVE Ours' /\ Streamed
  BY <1>a, <1>c, <1>2 DEF ChooseModel, SetPrefs, uiVars
<1>3. ASSUME ClickNewSession PROVE Ours' /\ Streamed
  BY <1>a, <1>c, <1>3 DEF ClickNewSession, NewSession
<1>4. ASSUME ClearThread PROVE Ours' /\ Streamed
  BY <1>a, <1>c, <1>4 DEF ClearThread, vars, engineVars
<1>5. ASSUME NEW t \in Turns, Delta(t) PROVE Ours' /\ Streamed
  <2>1. card' = card /\ pc[t] = "streaming" /\ \A u \in Turns \ {t} : left'[u] = left[u]
    BY <1>5, <1>c DEF Delta, Token, FinishTurn, uiVars
  <2>2. card = t BY <1>a, <2>1
  <2>3. InFlight' \subseteq InFlight
    <3>1. CASE Token(t) BY <3>1 DEF Token
    <3>2. CASE FinishTurn(t)
      <4>1. \A u \in Turns \ {t} : pc'[u] = pc[u] BY <1>c, <3>2 DEF FinishTurn
      <4> QED BY <2>1, <4>1
    <3> QED BY <1>5, <3>1, <3>2 DEF Delta
  <2>4. Streamed BY <1>c, <2>1, <2>2
  <2> QED BY <1>a, <2>1, <2>3, <2>4
<1>6. ASSUME Settle PROVE Ours' /\ Streamed
  <2>1. card' = card /\ left' = left
    BY <1>6 DEF Settle, CommandSaved, TurnSaved, uiVars
  <2>2. InFlight' \subseteq InFlight
    <3>1. CASE CommandSaved BY <3>1 DEF CommandSaved
    <3>2. ASSUME NEW t \in Turns, TurnSaved(t) PROVE InFlight' \subseteq InFlight
      <4>1. pc[t] = "saving" BY <3>2 DEF TurnSaved
      <4>2. \A u \in Turns \ {t} : pc'[u] = pc[u] BY <1>c, <3>2 DEF TurnSaved
      <4> QED BY <4>1, <4>2
    <3> QED BY <1>6, <3>1, <3>2 DEF Settle
  <2> QED BY <1>a, <1>c, <2>1, <2>2
<1>7. ASSUME NEW t \in Turns, TurnEnd(t) PROVE Ours' /\ Streamed
  <2>1. /\ pc[t] = "saved" /\ pc' = [pc EXCEPT ![t] = "ended"] /\ left' = left
    BY <1>7 DEF TurnEnd, EndTurn
  <2>2. InFlight' = {} BY <1>a, <1>c, <2>1 DEF Serial, OneTurnAtATime
  <2> QED BY <1>c, <2>1, <2>2
<1>8. ASSUME LoadPage PROVE Ours' /\ Streamed
  BY <1>a, <1>c, <1>8 DEF LoadPage, Boot
<1>9. ASSUME Kill PROVE Ours' /\ Streamed
  <2>1. InFlight' = {} /\ left' = left BY <1>9 DEF Kill, Restart
  <2> QED BY <1>c, <2>1
<1>10. ASSUME UNCHANGED uiAll PROVE Ours' /\ Streamed
  BY <1>a, <1>c, <1>10 DEF uiAll, vars, engineVars, uiVars
<1>11. Ours' /\ Streamed
  BY <1>1, <1>2, <1>3, <1>4, <1>5, <1>6, <1>7, <1>8, <1>9, <1>10 DEF UINext
<1> QED BY <1>b, <1>11 DEF CardInv

\* A token never lands in the card of another turn, nor in none, although
\* deltas carry no message id.
THEOREM StreamsHome == UISpec => StreamsIntoOwnCard
<1>1. UIInit => CardInv
  <2> SUFFICES ASSUME UIInit PROVE CardInv OBVIOUS
  <2>1. TypeOK /\ Serial BY InitTyped, SerialInit DEF UIInit
  <2>2. InFlight = {} BY DEF UIInit, Init, InFlight
  <2> QED BY <2>1, <2>2 DEF CardInv
<1>2. CardInv /\ [UINext]_uiAll => CardInv' BY CardKept
<1>3. CardInv /\ [UINext]_uiAll => [\A t \in Turns : left'[t] < left[t] => card = t]_uiAll
  BY CardKept
<1> QED BY <1>1, <1>2, <1>3, PTL DEF UISpec, StreamsIntoOwnCard

-----------------------------------------------------------------------------
(***************************************************************************)
(* What the thread shows.                                                  *)
(***************************************************************************)
\* What was said since the launch, in the session on screen.
Said == SubSeq(messages, base + 1, Len(messages))

\* The turn that streams into the conversation on screen, if there is one.
Answering == Streaming \ cut

\* A reply that outlived its session is in the conversation on screen.
Outlived == \E t \in cut : In(Reply(t), messages)

\* The thread is what was said and the card of the reply on its way.
Shown ==
  (~clearing /\ ~Outlived) =>
    /\ Answering = {} => thread = Said
    /\ \A t \in Answering : thread = Said \o <<Reply(t)>>

\* Between a click on "new session" and its clearThread() the conversation is
\* empty and every running turn is cut off from it.
ClearsNothingNew == clearing => messages = <<>> /\ InFlight \subseteq cut

NotLoaded == ~ready => thread = <<>> /\ base = 0 /\ ~clearing

ThreadInv ==
  /\ IInv
  /\ Serial
  /\ base \in 0..Len(messages)
  /\ \A t \in cut : pc[t] # "free"
  /\ NotLoaded
  /\ ClearsNothingNew
  /\ Shown

\* One more message in the conversation is one more that was said.
LEMMA SaidMore ==
  ASSUME NEW ms \in Seq(Message), NEW m \in Message, NEW b \in 0..Len(ms)
  PROVE  SubSeq(Append(ms, m), b + 1, Len(Append(ms, m)))
           = SubSeq(ms, b + 1, Len(ms)) \o <<m>>
<1> DEFINE more == Append(ms, m)
           n == Len(ms)
<1>1. /\ more \in Seq(Message) /\ Len(more) = n + 1 /\ more[n + 1] = m
      /\ n \in Nat /\ \A i \in 1..n : more[i] = ms[i] /\ ms[i] \in Message
  OBVIOUS
<1> HIDE DEF more, n
<1>2. b + 1 \in 1..(n + 1) /\ n + 1 \in (b + 1)..(n + 1) /\ (n + 1) - 1 = n
      /\ b + 1 \in Int /\ n \in Int /\ b \in Nat
  BY <1>1 DEF n
<1>3. SubSeq(more, b + 1, n + 1) = SubSeq(more, b + 1, n) \o <<m>>
  <2>1. b + 1 \in 1..Len(more) /\ n + 1 \in (b + 1)..Len(more) BY <1>1, <1>2
  <2>2. SubSeq(more, b + 1, n + 1) = SubSeq(more, b + 1, (n + 1) - 1) \o <<more[n + 1]>>
    BY <1>1, <2>1, SubSeqRecursiveSecond
  <2> QED BY <1>1, <1>2, <2>2
<1>4. SubSeq(more, b + 1, n) = SubSeq(ms, b + 1, n)
  <2>1. \A i \in (b + 1)..n : more[i] \in Message /\ ms[i] \in Message /\ more[i] = ms[i]
    BY <1>1, <1>2
  <2>2. /\ SubSeq(more, b + 1, n) \in Seq(Message)
        /\ Len(SubSeq(more, b + 1, n)) = IF b + 1 <= n THEN n - (b + 1) + 1 ELSE 0
        /\ \A i \in 1..(n - (b + 1) + 1) : SubSeq(more, b + 1, n)[i] = more[(b + 1) + i - 1]
    BY <1>2, <2>1, SubSeqProperties
  <2>3. /\ SubSeq(ms, b + 1, n) \in Seq(Message)
        /\ Len(SubSeq(ms, b + 1, n)) = IF b + 1 <= n THEN n - (b + 1) + 1 ELSE 0
        /\ \A i \in 1..(n - (b + 1) + 1) : SubSeq(ms, b + 1, n)[i] = ms[(b + 1) + i - 1]
    BY <1>2, <2>1, SubSeqProperties
  <2> DEFINE x == SubSeq(more, b + 1, n)
             y == SubSeq(ms, b + 1, n)
  <2> HIDE DEF x, y
  <2>4. \A i \in 1..Len(x) : i \in 1..(n - (b + 1) + 1) /\ (b + 1) + i - 1 \in (b + 1)..n
    BY <1>1, <1>2, <2>2, SMTT(60) DEF x
  <2>5. x \in Seq(Message) /\ y \in Seq(Message) /\ Len(x) = Len(y)
        /\ \A i \in 1..Len(x) : x[i] = y[i]
    BY <2>1, <2>2, <2>3, <2>4 DEF x, y
  <2>6. x = y BY <2>5, SeqEqual
  <2> QED BY <2>6 DEF x, y
<1> QED BY <1>1, <1>3, <1>4 DEF more, n

LEMMA SaidTyped ==
  ASSUME NEW ms \in Seq(Message), NEW b \in 0..Len(ms)
  PROVE  SubSeq(ms, b + 1, Len(ms)) \in Seq(Message)
<1>1. \A i \in (b + 1)..Len(ms) : ms[i] \in Message OBVIOUS
<1>2. b + 1 \in Int /\ Len(ms) \in Int OBVIOUS
<1> QED BY <1>1, <1>2, SubSeqProperties

\* Nothing was said in a conversation that is all older than the launch.
LEMMA NothingSaid ==
  ASSUME NEW ms \in Seq(Message)
  PROVE  SubSeq(ms, Len(ms) + 1, Len(ms)) = <<>>
<1>1. Len(ms) + 1 \in Int /\ Len(ms) \in Int /\ Len(ms) < Len(ms) + 1 OBVIOUS
<1> QED BY <1>1, SubSeqEmpty

\* What the steps that leave the conversation, the thread and the streaming
\* turns alone need.
LEMMA ShownStays ==
  ASSUME Shown, messages' = messages, base' = base, cut' = cut, thread' = thread,
         clearing' = clearing, Streaming' = Streaming
  PROVE  Shown'
BY DEF Shown, Said, Answering, Outlived

LEMMA ThreadKept ==
  ASSUME ~StorageFails, ThreadInv, [UINext]_uiAll
  PROVE  ThreadInv'
<1> DEFINE Goal == /\ base \in 0..Len(messages)
                   /\ \A t \in cut : pc[t] # "free"
                   /\ NotLoaded
                   /\ ClearsNothingNew
                   /\ Shown
<1>a. IInv /\ Serial /\ Goal /\ TypeOK /\ Quiet BY DEF ThreadInv, IInv
<1>b. IInv' /\ TypeOK' BY <1>a, StepIsEngineStep, InvKept DEF IInv
<1>c. Serial' BY <1>a, SerialKept
<1>d. /\ messages \in Seq(Message) /\ messages' \in Seq(Message) /\ cut \subseteq Turns
      /\ pc \in [Turns -> PcValues] /\ saves \in Nat
  BY <1>a, <1>b, MaxSavesIsPos, SMTT(60) DEF TypeOK
<1>e. \A ok \in WriteOutcomes : ok = TRUE BY DEF WriteOutcomes
<1> USE DEF Streaming, InFlight
<1>1. ASSUME NEW t \in Turns, Send(t) PROVE Goal'
  <2>1. /\ ready /\ ~clearing /\ composer /\ pc[t] = "free" /\ ready' = ready
        /\ pc' = [pc EXCEPT ![t] = "streaming"]
        /\ messages' = Append(messages, User(t))
        /\ thread' = thread \o <<User(t), Reply(t)>>
        /\ clearing' = clearing /\ base' = base /\ cut' = cut
    BY <1>1 DEF Send, Prompt, Calm
  <2>2. InFlight = {} /\ t \notin cut BY <1>a, <2>1 DEF Serial
  <2>3. Streaming' = {t} /\ \A u \in cut : pc'[u] # "free"
    BY <1>a, <1>d, <2>1, <2>2
  <2>4. base' \in 0..Len(messages')
    <3>1. Len(messages') = Len(messages) + 1 BY <1>d, <2>1
    <3> QED BY <1>a, <1>d, <2>1, <3>1
  <2>5. Said' = Said \o <<User(t)>> /\ Said \in Seq(Message)
    BY <1>a, <1>d, <2>1, Distinct, SaidMore, SaidTyped DEF Said
  <2>6. Outlived' <=> Outlived
    <3>1. User(t) \in Message /\ \A u \in Turns : User(t) # Reply(u) BY Distinct
    <3>2. \A x : In(x, messages') <=> In(x, messages) \/ x = User(t)
      BY <1>d, <2>1, <3>1, Appended
    <3> QED BY <1>d, <2>1, <3>1, <3>2 DEF Outlived
  <2>7. ~Outlived => thread = Said
    BY <1>a, <2>1, <2>2 DEF Shown, Answering
  <2>8. Said \o <<User(t), Reply(t)>> = (Said \o <<User(t)>>) \o <<Reply(t)>>
    BY <2>5, Distinct
  <2>9. Shown'
    BY <2>1, <2>2, <2>3, <2>5, <2>6, <2>7, <2>8 DEF Shown, Answering
  <2> QED BY <2>1, <2>3, <2>4, <2>9 DEF NotLoaded, ClearsNothingNew
<1>2. ASSUME NEW p \in Prefs, ChooseModel(p) PROVE Goal'
  <2>1. /\ messages' = messages /\ cut' = cut /\ pc' = pc /\ ready' = ready
        /\ base' = base /\ thread' = thread /\ clearing' = clearing
    BY <1>2 DEF ChooseModel, SetPrefs, Mutate, uiVars
  <2>2. Shown' BY <1>a, <2>1, ShownStays
  <2> QED BY <1>a, <2>1, <2>2 DEF NotLoaded, ClearsNothingNew
<1>3. ASSUME ClickNewSession PROVE Goal'
  <2>1. /\ ready /\ messages' = <<>> /\ cut' = cut \cup InFlight /\ pc' = pc
        /\ ready' = ready /\ base' = 0 /\ saves' = saves + 1 /\ clearing' = (saves' > saves)
    BY <1>3, <1>e DEF ClickNewSession, NewSession, Mutate
  <2>2. clearing'
    <3>1. saves' > saves BY <1>d, <2>1
    <3> QED BY <2>1, <3>1, Zenon
  <2>3. base' \in 0..Len(messages') BY <2>1
  <2>4. \A t \in cut' : pc'[t] # "free" BY <1>a, <2>1
  <2> QED BY <2>1, <2>2, <2>3, <2>4 DEF NotLoaded, ClearsNothingNew, Shown
<1>4. ASSUME ClearThread PROVE Goal'
  <2>1. /\ clearing /\ messages' = messages /\ cut' = cut /\ pc' = pc /\ ready' = ready
        /\ base' = base /\ thread' = <<>> /\ clearing' = FALSE
    BY <1>4 DEF ClearThread, vars, engineVars
  <2>2. messages = <<>> /\ InFlight \subseteq cut /\ base = 0
    BY <1>a, <2>1 DEF ClearsNothingNew
  <2>3. Said' = <<>> BY <2>1, <2>2, NothingSaid DEF Said
  <2>4. Answering' = {} BY <2>1, <2>2 DEF Answering
  <2>5. Shown' BY <2>1, <2>3, <2>4 DEF Shown
  <2> QED BY <1>a, <2>1, <2>5 DEF NotLoaded, ClearsNothingNew
<1>5. ASSUME NEW t \in Turns, Delta(t) PROVE Goal'
  <2>0. /\ ready /\ ~clearing /\ ready' = ready /\ cut' = cut /\ pc[t] = "streaming"
        /\ base' = base /\ thread' = thread /\ clearing' = clearing
    BY <1>5 DEF Delta, Calm, Token, FinishTurn, uiVars
  <2>1. CASE Token(t)
    <3>1. messages' = messages /\ pc' = pc BY <2>1 DEF Token
    <3>2. Shown' BY <1>a, <2>0, <3>1, ShownStays
    <3> QED BY <1>a, <2>0, <3>1, <3>2 DEF NotLoaded, ClearsNothingNew
  <2>2. CASE FinishTurn(t)
    <3>1. messages' = Append(messages, Reply(t)) /\ pc' = [pc EXCEPT ![t] = "saving"]
      BY <2>2, <1>e DEF FinishTurn
    <3>2. Streaming = {t} BY <1>a, <1>d, <2>0 DEF Serial, OneTurnAtATime
    <3>3. Streaming' = {} /\ \A u \in cut : pc'[u] # "free" BY <1>a, <1>d, <3>1, <3>2
    <3>4. base' \in 0..Len(messages')
      <4>1. Len(messages') = Len(messages) + 1 BY <1>d, <3>1
      <4> QED BY <1>a, <1>d, <2>0, <4>1
    <3>5. Said' = Said \o <<Reply(t)>>
      BY <1>a, <1>d, <2>0, <3>1, Distinct, SaidMore DEF Said
    <3>6. \A x : In(x, messages') <=> In(x, messages) \/ x = Reply(t)
      BY <1>d, <3>1, Distinct, Appended
    <3>7. ~Outlived' => ~Outlived /\ t \notin cut BY <2>0, <3>6 DEF Outlived
    <3>8. ~Outlived' => thread = Said \o <<Reply(t)>>
      BY <1>a, <2>0, <3>2, <3>7 DEF Shown, Answering
    <3>9. Shown' BY <2>0, <3>3, <3>5, <3>8 DEF Shown, Answering
    <3> QED BY <2>0, <3>3, <3>4, <3>9 DEF NotLoaded, ClearsNothingNew
  <2> QED BY <1>5, <2>1, <2>2 DEF Delta
<1>6. ASSUME Settle PROVE Goal'
  <2>1. /\ messages' = messages /\ cut' = cut /\ ready' = ready
        /\ base' = base /\ thread' = thread /\ clearing' = clearing
    BY <1>6 DEF Settle, CommandSaved, TurnSaved, uiVars
  <2>2. Streaming' = Streaming /\ InFlight' \subseteq InFlight
        /\ \A u \in Turns : pc[u] # "free" => pc'[u] # "free"
    <3>1. CASE CommandSaved BY <3>1 DEF CommandSaved
    <3>2. ASSUME NEW t \in Turns, TurnSaved(t)
          PROVE  /\ Streaming' = Streaming /\ InFlight' \subseteq InFlight
                 /\ \A u \in Turns : pc[u] # "free" => pc'[u] # "free"
      <4>1. pc[t] = "saving" /\ pc' = [pc EXCEPT ![t] = "saved"] BY <1>e, <3>2 DEF TurnSaved
      <4> QED BY <1>d, <4>1
    <3> QED BY <1>6, <3>1, <3>2 DEF Settle
  <2>3. Shown' BY <1>a, <2>1, <2>2, ShownStays
  <2> QED BY <1>a, <1>d, <2>1, <2>2, <2>3 DEF NotLoaded, ClearsNothingNew
<1>7. ASSUME NEW t \in Turns, TurnEnd(t) PROVE Goal'
  <2>1. /\ messages' = messages /\ cut' = cut /\ ready' = ready
        /\ base' = base /\ thread' = thread /\ clearing' = clearing
        /\ pc[t] = "saved" /\ pc' = [pc EXCEPT ![t] = "ended"]
    BY <1>7 DEF TurnEnd, EndTurn
  <2>2. Streaming' = Streaming /\ InFlight' \subseteq InFlight
        /\ \A u \in Turns : pc[u] # "free" => pc'[u] # "free"
    BY <1>d, <2>1
  <2>3. Shown' BY <1>a, <2>1, <2>2, ShownStays
  <2> QED BY <1>a, <1>d, <2>1, <2>2, <2>3 DEF NotLoaded, ClearsNothingNew
<1>8. ASSUME LoadPage PROVE Goal'
  <2>1. /\ ~ready /\ ready' /\ cut' = cut /\ pc' = pc /\ base' = Len(messages')
        /\ thread' = thread /\ clearing' = clearing
    BY <1>8 DEF LoadPage, Boot
  <2>2. thread = <<>> /\ ~clearing /\ InFlight = {} BY <1>a, <2>1 DEF NotLoaded, Quiet
  <2>3. Said' = <<>> BY <1>d, <2>1, NothingSaid DEF Said
  <2>4. base' \in 0..Len(messages') BY <1>d, <2>1
  <2>5. Answering' = {} BY <2>1, <2>2 DEF Answering
  <2>6. Shown' BY <2>1, <2>2, <2>3, <2>5 DEF Shown
  <2> QED BY <1>a, <2>1, <2>2, <2>4, <2>6 DEF NotLoaded, ClearsNothingNew
<1>9. ASSUME Kill PROVE Goal'
  <2>1. /\ messages' = <<>> /\ cut' = cut /\ thread' = <<>> /\ ~clearing' /\ base' = 0
        /\ pc' = [t \in Turns |-> IF t \in InFlight THEN "lost" ELSE pc[t]]
    BY <1>9 DEF Kill, Restart
  <2>2. Streaming' = {} BY <1>d, <2>1
  <2>3. \A t \in cut : pc'[t] # "free" BY <1>a, <1>d, <2>1
  <2>4. Said' = <<>> BY <2>1, NothingSaid DEF Said
  <2>5. base' \in 0..Len(messages') BY <2>1
  <2>6. Shown' BY <2>1, <2>2, <2>4 DEF Shown, Answering
  <2> QED BY <2>1, <2>3, <2>5, <2>6 DEF NotLoaded, ClearsNothingNew
<1>10. ASSUME UNCHANGED uiAll PROVE Goal'
  <2>1. /\ messages' = messages /\ cut' = cut /\ pc' = pc /\ ready' = ready
        /\ base' = base /\ thread' = thread /\ clearing' = clearing
    BY <1>10 DEF uiAll, vars, engineVars, uiVars
  <2>2. Shown' BY <1>a, <2>1, ShownStays
  <2> QED BY <1>a, <2>1, <2>2 DEF NotLoaded, ClearsNothingNew
<1>11. Goal'
  BY <1>1, <1>2, <1>3, <1>4, <1>5, <1>6, <1>7, <1>8, <1>9, <1>10 DEF UINext
<1> QED BY <1>b, <1>c, <1>11 DEF ThreadInv

LEMMA ThreadInit == UIInit => ThreadInv
<1> SUFFICES ASSUME UIInit PROVE ThreadInv OBVIOUS
<1>1. /\ messages = <<>> /\ thread = <<>> /\ base = 0 /\ clearing = FALSE /\ cut = {}
      /\ Streaming = {}
  BY DEF UIInit, Init, Streaming
<1>2. IInv /\ Serial BY InvInit, SerialInit DEF UIInit
<1>3. Said = <<>> BY <1>1, NothingSaid DEF Said
<1>4. Shown BY <1>1, <1>3 DEF Shown, Answering
<1> QED BY <1>1, <1>2, <1>4 DEF ThreadInv, NotLoaded, ClearsNothingNew

\* Between turns the thread shows all that was said in the session on screen
\* since the launch, and nothing else, whatever was clicked or killed (a reply
\* that outlived its session is the exception, and no write is refused).
THEOREM ThreadIsConversation == UISpec => []ThreadShowsConversation
<1>1. CASE StorageFails
  <2>1. ThreadShowsConversation BY <1>1 DEF ThreadShowsConversation
  <2> QED BY <2>1, PTL
<1>2. CASE ~StorageFails
  <2>1. ThreadInv => ThreadShowsConversation
    BY DEF ThreadInv, Shown, Answering, Outlived, Said, ThreadShowsConversation, Calm,
           Streaming, InFlight
  <2>2. ThreadInv /\ [UINext]_uiAll => ThreadInv' BY <1>2, ThreadKept
  <2> QED BY <2>1, <2>2, ThreadInit, PTL DEF UISpec
<1> QED BY <1>1, <1>2
=============================================================================
