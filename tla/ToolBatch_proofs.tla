--------------------------- MODULE ToolBatch_proofs ---------------------------
(***************************************************************************)
(* What holds of a batch of any number of tool calls.                       *)
(*                                                                          *)
(* The scheduling loop leaves each call waiting for the exclusive call      *)
(* before it, and an exclusive one for the shared calls after that; so a    *)
(* call that got going has behind it every earlier call it excludes.  The   *)
(* inductive invariant adds what a call's place says of its answer.         *)
(***************************************************************************)
EXTENDS ToolBatch, WellFoundedInduction, TLAPS

ToolRec == [pc : ToolPC, completed : BOOLEAN]

Typed ==
  /\ exclusive \in [Calls -> BOOLEAN] /\ interruptible \in [Calls -> BOOLEAN]
  /\ awaits \in [Calls -> SUBSET Calls]
  /\ tool \in [Calls -> ToolRec]
  /\ result \in [Calls -> Results]
  /\ {triggered, aborted, queued, paused, woken, failed, ended} \subseteq BOOLEAN
  /\ watch \in {"subscribe", "check", "wait", "over"}

\* Assigning the place of a call leaves its other field.
LEMMA PlaceOf ==
  ASSUME NEW P, NEW C, NEW r \in [pc : P, completed : C], NEW p \in P, NEW c \in C,
         r.completed = c
  PROVE  [r EXCEPT !.pc = p] = [pc |-> p, completed |-> c]
OBVIOUS

\* A call that has no result is sent to another place.
LEMMA Placed ==
  ASSUME Typed, NEW i \in Calls, NEW pc \in ToolPC, ~tool[i].completed
  PROVE  [tool EXCEPT ![i].pc = pc] = [tool EXCEPT ![i] = [pc |-> pc, completed |-> FALSE]]
<1>1. PICK C : C = BOOLEAN
  OBVIOUS
<1>2. PICK r \in [pc : ToolPC, completed : C] : r = tool[i]
  BY <1>1 DEF Typed, ToolRec
<1>3. PICK c \in C : c = FALSE
  BY <1>1
<1>4. r.completed = c
  BY <1>1, <1>2, <1>3
<1>5. [r EXCEPT !.pc = pc] = [pc |-> pc, completed |-> c]
  BY <1>4, PlaceOf
<1>6. QED  BY <1>2, <1>3, <1>5

LEMMA Moved ==
  ASSUME Typed, NEW i \in Calls, NEW pc \in ToolPC, Move(i, pc),
         ~tool[i].completed, result[i] = "none"
  PROVE  /\ tool' = [tool EXCEPT ![i] = [pc |-> pc, completed |-> FALSE]]
         /\ result' = [result EXCEPT ![i] = "none"]
<1>1. result = [result EXCEPT ![i] = "none"]
  BY DEF Typed
<1>2. QED  BY <1>1, Placed DEF Move

\* Where the scheduling loop is.
LoopOK ==
  /\ next \in 1..(N + 1)
  /\ lastExclusive \in 0..(next - 1)
  /\ lastExclusive # 0 => exclusive[lastExclusive]
  /\ sharedTasks = (lastExclusive + 1)..(next - 1)
  /\ \A j \in sharedTasks : ~exclusive[j]

\* What a scheduled call waits for: the last exclusive call l before it, and if
\* it is exclusive itself all calls after l.
Behind(i, l) ==
  /\ l # 0 => exclusive[l] /\ l \in awaits[i]
  /\ \A j \in (l + 1)..(i - 1) : ~exclusive[j] /\ (exclusive[i] => j \in awaits[i])

AwaitsOK == \A i \in Calls : i < next => \E l \in 0..(i - 1) : Behind(i, l)

\* Nothing else: a call waits for earlier calls that exclude it, or that it excludes.
AwaitsEarlier ==
  \A i \in Calls : \A j \in awaits[i] : j < i /\ (exclusive[i] \/ exclusive[j])

Begun(i) == tool[i].pc \notin {"waiting", "rejected"}

OrderOK ==
  /\ \A i \in Calls : Begun(i) => Scheduled
  /\ \A i, j \in Calls :
       j < i /\ (exclusive[i] \/ exclusive[j]) /\ Begun(i) => tool[j].pc = "settled"

AnswerOK(i) ==
  /\ tool[i].completed => tool[i].pc = "after"
  /\ tool[i].pc \notin {"settled", "rejected"} => result[i] = "none"
  /\ ~failed => tool[i].pc # "rejected"
  /\ ~failed /\ ~aborted /\ ~interruptible[i] /\ tool[i].pc = "settled" => result[i] = "own"

EndedOK == ended => \A i \in Calls : tool[i].pc \in {"settled", "rejected"}

IInv ==
  /\ Typed /\ LoopOK /\ AwaitsOK /\ AwaitsEarlier /\ OrderOK
  /\ \A i \in Calls : AnswerOK(i)
  /\ EndedOK

-----------------------------------------------------------------------------
LEMMA InitOK == Init => IInv
<1> SUFFICES ASSUME Init PROVE IInv
  OBVIOUS
<1>1. Typed
  BY DEF Init, Typed, ToolRec, Idle, ToolPC, Results
<1>2. LoopOK /\ AwaitsOK /\ AwaitsEarlier
  BY SizeAssumption DEF Init, LoopOK, AwaitsOK, AwaitsEarlier, Calls
<1>3. OrderOK /\ EndedOK
  BY DEF Init, OrderOK, EndedOK, Begun, Idle
<1>4. \A i \in Calls : AnswerOK(i)
  BY DEF Init, AnswerOK, Idle
<1>5. QED  BY <1>1, <1>2, <1>3, <1>4 DEF IInv

\* The scheduling loop takes one call.
LEMMA ScheduleOK ==
  ASSUME IInv, Schedule
  PROVE  IInv'
<1>1. PICK n \in 1..N, l \in 0..N : n = next /\ l = lastExclusive /\ l < n
  BY SizeAssumption DEF Schedule, IInv, LoopOK, Calls
<1> DEFINE first == IF l = 0 THEN {} ELSE {l}
<1>2. /\ UNCHANGED <<exclusive, interruptible, tool, result, triggered, aborted, queued,
                     paused, watch, woken, failed, ended>>
      /\ next' = n + 1
      /\ n \in Calls
  BY <1>1 DEF Schedule, kinds, tools, world, Calls
<1>3. /\ sharedTasks = (l + 1)..(n - 1)
      /\ l # 0 => exclusive[l]
      /\ \A j \in sharedTasks : ~exclusive[j]
  BY <1>1 DEF IInv, LoopOK
<1>4. first \subseteq Calls /\ sharedTasks \subseteq Calls
  BY SizeAssumption, <1>3 DEF Calls
<1>5. awaits' = [awaits EXCEPT ![n] = IF exclusive[n] THEN first \cup sharedTasks ELSE first]
  BY <1>1 DEF Schedule
<1>6. Typed'
  BY <1>2, <1>4, <1>5 DEF IInv, Typed
<1>7. LoopOK'
  <2>1. CASE exclusive[n]
    <3>1. lastExclusive' = n /\ sharedTasks' = {}
      BY <1>1, <2>1 DEF Schedule
    <3>2. sharedTasks' = (n + 1)..n
      BY <3>1
    <3>3. QED  BY SizeAssumption, <1>2, <2>1, <3>1, <3>2 DEF LoopOK
  <2>2. CASE ~exclusive[n]
    <3>1. lastExclusive' = l /\ sharedTasks' = sharedTasks \cup {n}
      BY <1>1, <2>2 DEF Schedule
    <3>2. sharedTasks' = (l + 1)..n
      BY <1>1, <1>3, <3>1
    <3>3. \A j \in sharedTasks' : ~exclusive[j]
      BY <1>3, <2>2, <3>1
    <3>4. n + 1 \in 1..(N + 1) /\ l \in 0..((n + 1) - 1) /\ (n + 1) - 1 = n
      BY SizeAssumption, <1>1
    <3>5. QED  BY <1>2, <1>3, <3>1, <3>2, <3>3, <3>4 DEF LoopOK
  <2>3. QED  BY <2>1, <2>2
<1>8. Behind(n, l)'
  <2>1. awaits'[n] = IF exclusive[n] THEN first \cup sharedTasks ELSE first
    BY <1>2, <1>5 DEF IInv, Typed
  <2>2. QED
    BY <1>2, <1>3, <2>1 DEF Behind
<1>9. AwaitsOK'
  <2> SUFFICES ASSUME NEW i \in Calls, i < n + 1
               PROVE  \E k \in 0..(i - 1) : Behind(i, k)'
    BY <1>2 DEF AwaitsOK
  <2>1. CASE i = n
    BY <1>1, <1>8, <2>1
  <2>2. CASE i # n
    <3>1. i < n
      BY <2>2 DEF Calls
    <3>2. PICK k \in 0..(i - 1) : Behind(i, k)
      BY <1>1, <3>1 DEF IInv, AwaitsOK
    <3>3. awaits'[i] = awaits[i]
      BY <1>5, <2>2 DEF IInv, Typed
    <3>4. QED  BY <1>2, <3>2, <3>3 DEF Behind
  <2>3. QED  BY <2>1, <2>2
<1>e. AwaitsEarlier'
  <2>1. \A j \in first : j < n /\ exclusive[j]
    BY <1>1, <1>3
  <2>2. \A j \in sharedTasks : j < n
    BY <1>1, <1>3
  <2> HIDE DEF first
  <2>3. awaits'[n] = IF exclusive[n] THEN first \cup sharedTasks ELSE first
    BY <1>2, <1>5 DEF IInv, Typed
  <2>4. \A i \in Calls \ {n} : awaits'[i] = awaits[i]
    BY <1>5 DEF IInv, Typed
  <2> SUFFICES ASSUME NEW i \in Calls, NEW j \in awaits'[i]
               PROVE  j < i /\ (exclusive[i] \/ exclusive[j])
    BY <1>2 DEF AwaitsEarlier
  <2>5. CASE i = n
    BY <2>1, <2>2, <2>3, <2>5
  <2>6. CASE i # n
    BY <2>4, <2>6 DEF IInv, AwaitsEarlier
  <2>7. QED  BY <2>5, <2>6
<1>10. \A i \in Calls : ~Begun(i)
  BY SizeAssumption, <1>1 DEF IInv, OrderOK, Scheduled
<1>11. OrderOK' /\ EndedOK' /\ \A i \in Calls : AnswerOK(i)'
  BY <1>2, <1>10 DEF IInv, OrderOK, EndedOK, AnswerOK, Begun
<1>12. QED  BY <1>6, <1>7, <1>9, <1>e, <1>11 DEF IInv

-----------------------------------------------------------------------------
(* What a step of one call may do.                                          *)

\* A call that waited for its promises has behind it every earlier call that
\* it excludes: the last exclusive call before it, and through that one all the
\* calls before it.
LEMMA EarlierSettled ==
  ASSUME IInv, NEW i \in Calls, Scheduled, \A j \in awaits[i] : tool[j].pc = "settled"
  PROVE  \A j \in Calls : j < i /\ (exclusive[i] \/ exclusive[j]) => tool[j].pc = "settled"
<1> SUFFICES ASSUME NEW j \in Calls, j < i, exclusive[i] \/ exclusive[j]
             PROVE  tool[j].pc = "settled"
  OBVIOUS
<1>1. PICK l \in 0..(i - 1) : Behind(i, l)
  <2>1. i < next
    BY SizeAssumption DEF Scheduled, Calls
  <2>2. QED  BY <2>1 DEF IInv, AwaitsOK
<1>2. CASE l < j
  BY SizeAssumption, <1>1, <1>2 DEF Behind, Calls
<1>3. CASE j = l
  BY SizeAssumption, <1>1, <1>3 DEF Behind, Calls
<1>4. CASE j < l
  <2>1. l \in Calls /\ exclusive[l] /\ tool[l].pc = "settled"
    BY SizeAssumption, <1>1, <1>4 DEF Behind, Calls
  <2>2. QED  BY <1>4, <2>1 DEF IInv, OrderOK, Begun
<1>5. QED  BY SizeAssumption, <1>1, <1>2, <1>3, <1>4 DEF Calls

\* A step of call i, which goes from one place to a later one.
LEMMA OneCall ==
  ASSUME IInv, NEW i \in Calls, NEW t \in ToolRec, NEW r \in Results,
         UNCHANGED <<kinds, schedule, aborted, world, watch, woken, ended>>,
         triggered' \in BOOLEAN, failed' \in BOOLEAN, failed => failed',
         tool[i].pc \notin {"settled", "rejected"},
         tool' = [tool EXCEPT ![i] = t], result' = [result EXCEPT ![i] = r],
         \/ Begun(i) \/ t.pc = "rejected"
         \/ Scheduled /\ \A j \in awaits[i] : tool[j].pc = "settled",
         t.completed => t.pc = "after",
         t.pc \notin {"settled", "rejected"} => r = "none",
         t.pc = "rejected" => failed',
         ~failed' /\ ~aborted /\ ~interruptible[i] /\ t.pc = "settled" => r = "own"
  PROVE  IInv'
<1>1. UNCHANGED <<exclusive, interruptible, next, lastExclusive, sharedTasks, awaits,
                  aborted, queued, paused, watch, woken, ended>>
  BY DEF kinds, schedule, world
<1>2. /\ tool'[i] = t /\ result'[i] = r
      /\ \A j \in Calls \ {i} : tool'[j] = tool[j] /\ result'[j] = result[j]
  BY DEF IInv, Typed
<1>3. Typed'
  BY <1>1 DEF IInv, Typed
<1>4. LoopOK' /\ AwaitsOK' /\ AwaitsEarlier'
  BY <1>1 DEF IInv, LoopOK, AwaitsOK, AwaitsEarlier, Behind
<1>5. Begun(i)' => Scheduled /\ \A j \in Calls :
                     j < i /\ (exclusive[i] \/ exclusive[j]) => tool[j].pc = "settled"
  <2>1. CASE Begun(i)
    BY <2>1 DEF IInv, OrderOK
  <2>2. CASE t.pc = "rejected"
    BY <1>2, <2>2 DEF Begun
  <2>3. CASE Scheduled /\ \A j \in awaits[i] : tool[j].pc = "settled"
    BY <2>3, EarlierSettled
  <2>4. QED  BY <2>1, <2>2, <2>3
<1>6. OrderOK'
  <2>1. \A k \in Calls : Begun(k)' => Scheduled'
    BY <1>1, <1>2, <1>5 DEF IInv, OrderOK, Begun, Scheduled
  <2>2. ASSUME NEW k \in Calls, NEW j \in Calls,
               j < k, exclusive[k] \/ exclusive[j], Begun(k)'
        PROVE  tool'[j].pc = "settled"
    <3>1. tool[j].pc = "settled"
      BY <1>2, <1>5, <2>2 DEF IInv, OrderOK, Begun
    <3>2. QED  BY <1>2, <3>1
  <2>3. QED  BY <1>1, <2>1, <2>2 DEF OrderOK
<1>7. \A j \in Calls : AnswerOK(j)'
  <2>1. AnswerOK(i)'
    BY <1>1, <1>2 DEF AnswerOK
  <2>2. ASSUME NEW j \in Calls \ {i} PROVE AnswerOK(j)'
    BY <1>1, <1>2, <2>2 DEF IInv, AnswerOK
  <2>3. QED  BY <2>1, <2>2
<1>8. EndedOK'
  BY <1>1 DEF IInv, EndedOK
<1>9. QED  BY <1>3, <1>4, <1>6, <1>7, <1>8 DEF IInv

\* A step that moves no call: of the watch, of a peer, of the world.
LEMMA NoCall ==
  ASSUME IInv, UNCHANGED <<kinds, schedule, tools, ended>>,
         {triggered', aborted', queued', paused', woken', failed'} \subseteq BOOLEAN,
         watch' \in {"subscribe", "check", "wait", "over"},
         failed => failed', aborted => aborted'
  PROVE  IInv'
<1>1. UNCHANGED <<exclusive, interruptible, next, lastExclusive, sharedTasks, awaits,
                  tool, result, ended>>
  BY DEF kinds, schedule, tools
<1>2. Typed'
  BY <1>1 DEF IInv, Typed
<1>3. LoopOK' /\ AwaitsOK' /\ AwaitsEarlier' /\ OrderOK' /\ EndedOK'
  BY <1>1 DEF IInv, LoopOK, AwaitsOK, AwaitsEarlier, Behind, OrderOK, Begun, Scheduled, EndedOK
<1>4. \A i \in Calls : AnswerOK(i)'
  BY <1>1 DEF IInv, AnswerOK
<1>5. QED  BY <1>2, <1>3, <1>4 DEF IInv

-----------------------------------------------------------------------------
(* The steps of a call.                                                     *)

\* A call passes the gate: it starts, or is answered without.
LEMMA EnterOK ==
  ASSUME IInv, NEW i \in Calls, Enter(i),
         UNCHANGED <<kinds, schedule, triggered, aborted, world, watch, woken, failed, ended>>,
         \/ tool[i].pc = "parked"
         \/ /\ tool[i].pc = "waiting" /\ Scheduled
            /\ \A j \in awaits[i] : tool[j].pc = "settled"
  PROVE  IInv'
<1>1. tool[i] \in ToolRec /\ tool \in [Calls -> ToolRec] /\ result \in [Calls -> Results]
      /\ {triggered, aborted, failed} \subseteq BOOLEAN
  BY DEF IInv, Typed
<1>2. ~tool[i].completed /\ result[i] = "none"
  BY DEF IInv, AnswerOK
<1>3. tool[i].pc = "parked" => Begun(i)
  BY DEF Begun
<1>4. ASSUME NEW pc \in ToolPC
      PROVE  [tool EXCEPT ![i].pc = pc] = [tool EXCEPT ![i] = [pc |-> pc, completed |-> FALSE]]
  BY <1>2, Placed DEF IInv
<1>5. CASE Refuse(i, "own")
  <2>1. tool' = [tool EXCEPT ![i] = [pc |-> "settled", completed |-> FALSE]]
        /\ result' = [result EXCEPT ![i] = "own"]
    BY <1>4, <1>5 DEF Refuse, ToolPC
  <2>2. [pc |-> "settled", completed |-> FALSE] \in ToolRec /\ "own" \in Results
    BY DEF ToolRec, ToolPC, Results
  <2>3. QED  BY <1>1, <1>3, <2>1, <2>2, OneCall
<1>6. CASE Signalled(i) /\ Refuse(i, "lost")
  <2>1. tool' = [tool EXCEPT ![i] = [pc |-> "settled", completed |-> FALSE]]
        /\ result' = [result EXCEPT ![i] = "lost"]
    BY <1>4, <1>6 DEF Refuse, ToolPC
  <2>2. [pc |-> "settled", completed |-> FALSE] \in ToolRec /\ "lost" \in Results
    BY DEF ToolRec, ToolPC, Results
  <2>3. aborted \/ interruptible[i]
    BY <1>6 DEF Signalled
  <2>4. QED  BY <1>1, <1>3, <2>1, <2>2, <2>3, OneCall
<1>7. CASE Move(i, "running")
  <2>1. tool' = [tool EXCEPT ![i] = [pc |-> "running", completed |-> FALSE]]
        /\ result' = [result EXCEPT ![i] = "none"]
    BY <1>2, <1>7, Moved DEF IInv, ToolPC
  <2>2. [pc |-> "running", completed |-> FALSE] \in ToolRec /\ "none" \in Results
    BY DEF ToolRec, ToolPC, Results
  <2>3. QED  BY <1>1, <1>3, <2>1, <2>2, OneCall
<1>8. QED  BY <1>5, <1>6, <1>7 DEF Enter

LEMMA BeginOK ==
  ASSUME IInv, NEW i \in Calls, Begin(i)
  PROVE  IInv'
<1>1. /\ UNCHANGED <<kinds, schedule, triggered, aborted, world, watch, woken, failed, ended>>
      /\ tool[i].pc = "waiting" /\ Scheduled
      /\ \A j \in awaits[i] : tool[j].pc = "settled"
  BY DEF Begin
<1>2. tool[i] \in ToolRec /\ tool \in [Calls -> ToolRec] /\ result \in [Calls -> Results]
      /\ {triggered, aborted, failed} \subseteq BOOLEAN
  BY DEF IInv, Typed
<1>3. ~tool[i].completed /\ result[i] = "none"
  BY <1>1 DEF IInv, AnswerOK
<1>4. CASE Enter(i)
  BY <1>1, <1>4, EnterOK
<1>5. CASE interruptible[i] /\ Move(i, "settled")
  <2>1. tool' = [tool EXCEPT ![i] = [pc |-> "settled", completed |-> FALSE]]
        /\ result' = [result EXCEPT ![i] = "none"]
    BY <1>3, <1>5, Moved DEF IInv, ToolPC
  <2>2. [pc |-> "settled", completed |-> FALSE] \in ToolRec /\ "none" \in Results
    BY DEF ToolRec, ToolPC, Results
  <2>3. QED  BY <1>1, <1>2, <1>5, <2>1, <2>2, OneCall
<1>6. CASE Move(i, "parked")
  <2>1. tool' = [tool EXCEPT ![i] = [pc |-> "parked", completed |-> FALSE]]
        /\ result' = [result EXCEPT ![i] = "none"]
    BY <1>3, <1>6, Moved DEF IInv, ToolPC
  <2>2. [pc |-> "parked", completed |-> FALSE] \in ToolRec /\ "none" \in Results
    BY DEF ToolRec, ToolPC, Results
  <2>3. QED  BY <1>1, <1>2, <2>1, <2>2, OneCall
<1>7. QED  BY <1>4, <1>5, <1>6 DEF Begin

LEMMA RejectOK ==
  ASSUME IInv, NEW i \in Calls, Reject(i)
  PROVE  IInv'
<1>1. /\ UNCHANGED <<kinds, schedule, triggered, aborted, world, watch, woken, failed, ended>>
      /\ tool[i].pc = "waiting" /\ Move(i, "rejected")
  BY DEF Reject
<1>2. tool[i] \in ToolRec /\ tool \in [Calls -> ToolRec] /\ result \in [Calls -> Results]
      /\ {triggered, aborted, failed} \subseteq BOOLEAN /\ awaits[i] \subseteq Calls
  BY DEF IInv, Typed
<1>3. ~tool[i].completed /\ result[i] = "none"
  BY <1>1 DEF IInv, AnswerOK
<1>4. failed
  BY <1>2 DEF Reject, IInv, AnswerOK
<1>5. tool' = [tool EXCEPT ![i] = [pc |-> "rejected", completed |-> FALSE]]
      /\ result' = [result EXCEPT ![i] = "none"]
  BY <1>1, <1>3, Moved DEF IInv, ToolPC
<1>6. [pc |-> "rejected", completed |-> FALSE] \in ToolRec /\ "none" \in Results
  BY DEF ToolRec, ToolPC, Results
<1>7. QED  BY <1>1, <1>2, <1>4, <1>5, <1>6, OneCall

LEMMA UnparkOK ==
  ASSUME IInv, NEW i \in Calls, Unpark(i)
  PROVE  IInv'
BY EnterOK DEF Unpark

\* A call that runs settles, or its check for steering throws.
LEMMA SettleOK ==
  ASSUME IInv, NEW i \in Calls, NEW r \in {"own", "lost"}, Settle(i, r),
         UNCHANGED <<kinds, schedule, aborted, world, watch, woken, ended>>,
         Running(i), r = "own" \/ Signalled(i)
  PROVE  IInv'
<1>1. {triggered, aborted, failed, queued} \subseteq BOOLEAN
  BY DEF IInv, Typed
<1>2. Begun(i) /\ tool[i].pc \notin {"settled", "rejected"} /\ r \in Results
  BY DEF Running, Begun, Results
<1>3. r = "own" \/ aborted \/ interruptible[i]
  BY DEF Signalled
<1>4. CASE /\ tool' = [tool EXCEPT ![i] = [pc |-> "settled", completed |-> FALSE]]
           /\ CheckSteering /\ UNCHANGED failed
  <2>1. [pc |-> "settled", completed |-> FALSE] \in ToolRec
    BY DEF ToolRec, ToolPC
  <2>2. triggered' \in BOOLEAN /\ failed' \in BOOLEAN /\ (failed => failed')
    BY <1>1, <1>4, ModeAssumption DEF CheckSteering, Interrupts
  <2>3. result' = [result EXCEPT ![i] = r]
    BY DEF Settle
  <2>4. tool' = [tool EXCEPT ![i] = [pc |-> "settled", completed |-> FALSE]]
    BY <1>4
  <2>5. QED  BY <1>2, <1>3, <2>1, <2>2, <2>3, <2>4, OneCall
<1>5. CASE /\ tool' = [tool EXCEPT ![i] = [pc |-> "rejected", completed |-> FALSE]]
           /\ failed' = TRUE /\ UNCHANGED triggered
  <2>1. [pc |-> "rejected", completed |-> FALSE] \in ToolRec
    BY DEF ToolRec, ToolPC
  <2>2. QED  BY <1>1, <1>2, <1>5, <2>1, OneCall DEF Settle
<1>6. QED  BY <1>4, <1>5 DEF Settle

LEMMA ReturnsOK ==
  ASSUME IInv, NEW i \in Calls, Returns(i)
  PROVE  IInv'
<1>1. /\ UNCHANGED <<kinds, schedule, triggered, aborted, world, watch, woken, failed, ended>>
      /\ tool[i].pc = "running" /\ result' = result
      /\ tool' = [tool EXCEPT ![i] = [pc |-> "after", completed |-> TRUE]]
  BY DEF Returns
<1>2. result \in [Calls -> Results] /\ {triggered, aborted, failed} \subseteq BOOLEAN
  BY DEF IInv, Typed
<1>3. result[i] = "none" /\ Begun(i)
  BY <1>1 DEF IInv, AnswerOK, Begun
<1>4. result' = [result EXCEPT ![i] = "none"]
  BY <1>1, <1>2, <1>3
<1>5. [pc |-> "after", completed |-> TRUE] \in ToolRec /\ "none" \in Results
  BY DEF ToolRec, ToolPC, Results
<1>6. QED  BY <1>1, <1>2, <1>3, <1>4, <1>5, OneCall

LEMMA ThrowsOK ==
  ASSUME IInv, NEW i \in Calls, Throws(i)
  PROVE  IInv'
<1>1. /\ UNCHANGED <<kinds, schedule, aborted, world, watch, woken, ended>>
      /\ tool[i].pc = "running"
  BY DEF Throws
<1>2. tool[i] \in ToolRec /\ tool \in [Calls -> ToolRec] /\ result \in [Calls -> Results]
      /\ {triggered, aborted, failed} \subseteq BOOLEAN
  BY DEF IInv, Typed
<1>3. result[i] = "none" /\ Begun(i) /\ ~tool[i].completed
  BY <1>1 DEF IInv, AnswerOK, Begun
<1>4. CASE Signalled(i)
  BY <1>1, <1>4, SettleOK DEF Throws, Running
<1>5. CASE ~Signalled(i)
  <2>1. Move(i, "after") /\ UNCHANGED <<triggered, failed>>
    BY <1>5 DEF Throws
  <2>2. tool' = [tool EXCEPT ![i] = [pc |-> "after", completed |-> FALSE]]
        /\ result' = [result EXCEPT ![i] = "none"]
    BY <1>3, <2>1, Moved DEF IInv, ToolPC
  <2>3. [pc |-> "after", completed |-> FALSE] \in ToolRec /\ "none" \in Results
    BY DEF ToolRec, ToolPC, Results
  <2>4. QED  BY <1>1, <1>2, <1>3, <2>1, <2>2, <2>3, OneCall
<1>6. QED  BY <1>4, <1>5

LEMMA ConcludeOK ==
  ASSUME IInv, NEW i \in Calls, Conclude(i)
  PROVE  IInv'
<1>1. /\ UNCHANGED <<kinds, schedule, aborted, world, watch, woken, ended>>
      /\ Running(i)
  BY DEF Conclude, Running
<1>2. CASE triggered /\ Signalled(i) /\ ~tool[i].completed
  <2>1. Settle(i, "lost")
    BY <1>2 DEF Conclude
  <2>2. QED  BY <1>1, <1>2, <2>1, SettleOK
<1>3. CASE ~(triggered /\ Signalled(i) /\ ~tool[i].completed)
  <2>1. Settle(i, "own")
    BY <1>3 DEF Conclude
  <2>2. QED  BY <1>1, <2>1, SettleOK
<1>4. QED  BY <1>2, <1>3

\* The calls that are left without an answer are answered; none of them is work
\* that was free to run.
LEMMA EndBatchOK ==
  ASSUME IInv, EndBatch
  PROVE  IInv'
<1>1. /\ UNCHANGED <<exclusive, interruptible, next, lastExclusive, sharedTasks, awaits,
                     tool, triggered, aborted, queued, paused, woken, failed>>
      /\ watch' = "over" /\ ended' = TRUE
      /\ result' = [i \in Calls |-> IF result[i] = "none" THEN "lost" ELSE result[i]]
      /\ \A i \in Calls : tool[i].pc \in {"settled", "rejected"}
  BY DEF EndBatch, kinds, schedule, world
<1>2. Typed'
  BY <1>1 DEF IInv, Typed, Results
<1>3. LoopOK' /\ AwaitsOK' /\ AwaitsEarlier' /\ OrderOK' /\ EndedOK'
  BY <1>1 DEF IInv, LoopOK, AwaitsOK, AwaitsEarlier, Behind, OrderOK, Begun, Scheduled, EndedOK
<1>4. \A i \in Calls : AnswerOK(i)'
  BY <1>1 DEF IInv, AnswerOK
<1>5. QED  BY <1>2, <1>3, <1>4 DEF IInv

\* The watch, the peers and the world.
LEMMA OthersOK ==
  ASSUME IInv, \/ Subscribe \/ WatchCheck \/ WatchWait \/ PeerInterrupts
               \/ Steer \/ ClearSteering \/ Abort \/ Pause \/ Resume
  PROVE  IInv'
<1>1. {triggered, aborted, queued, paused, woken, failed} \subseteq BOOLEAN
      /\ watch \in {"subscribe", "check", "wait", "over"}
  BY DEF IInv, Typed
<1>2. CASE Subscribe
  BY <1>1, <1>2, NoCall DEF Subscribe, world, tools
<1>3. CASE WatchCheck
  <2>1. triggered' \in BOOLEAN /\ watch' \in {"over", "wait"} /\ failed' \in BOOLEAN
    BY <1>1, <1>3, ModeAssumption DEF WatchCheck, CheckSteering, Interrupts
  <2>2. (failed => failed') /\ UNCHANGED <<kinds, schedule, tools, aborted, world, woken, ended>>
    BY <1>3 DEF WatchCheck
  <2>3. QED  BY <1>1, <2>1, <2>2, NoCall DEF world
<1>4. CASE WatchWait
  BY <1>1, <1>4, NoCall DEF WatchWait, world
<1>5. CASE PeerInterrupts
  BY <1>1, <1>5, NoCall DEF PeerInterrupts, world
<1>6. CASE Steer
  BY <1>1, <1>6, NoCall DEF Steer
<1>7. CASE ClearSteering
  BY <1>1, <1>7, NoCall DEF ClearSteering
<1>8. CASE Abort
  BY <1>1, <1>8, NoCall DEF Abort, world
<1>9. CASE Pause
  BY <1>1, <1>9, NoCall DEF Pause
<1>10. CASE Resume
  BY <1>1, <1>10, NoCall DEF Resume
<1>11. QED  BY <1>2, <1>3, <1>4, <1>5, <1>6, <1>7, <1>8, <1>9, <1>10

LEMMA StepOK == IInv /\ [Next]_vars => IInv'
<1> SUFFICES ASSUME IInv, [Next]_vars PROVE IInv'
  OBVIOUS
<1>1. CASE Next
  BY <1>1, ScheduleOK, BeginOK, RejectOK, UnparkOK, ReturnsOK, ThrowsOK, ConcludeOK,
     EndBatchOK, OthersOK DEF Next, CallStep
<1>2. CASE UNCHANGED vars
  <2>1. UNCHANGED <<kinds, schedule, tools, triggered, aborted, queued, paused, watch,
                    woken, failed, ended>>
    BY <1>2 DEF vars, world
  <2>2. {triggered, aborted, queued, paused, woken, failed} \subseteq BOOLEAN
        /\ watch \in {"subscribe", "check", "wait", "over"}
    BY DEF IInv, Typed
  <2>3. QED  BY <2>1, <2>2, NoCall
<1>3. QED  BY <1>1, <1>2

-----------------------------------------------------------------------------
\* The invariant holds of every batch.
THEOREM Inductive == Spec => []IInv
<1>1. Init => IInv
  BY InitOK
<1>2. IInv /\ [Next]_vars => IInv'
  BY StepOK
<1>3. QED  BY <1>1, <1>2, PTL DEF Spec

\* The state has its type: agent-loop.ts:2411-2461.
THEOREM Types == Spec => []TypeOK
<1>1. IInv => TypeOK
  <2> SUFFICES ASSUME IInv PROVE TypeOK
    OBVIOUS
  <2>1. lastExclusive \in 0..N /\ sharedTasks \subseteq Calls /\ next \in 1..(N + 1)
    BY SizeAssumption DEF IInv, LoopOK, Calls
  <2>2. QED  BY <2>1 DEF IInv, Typed, TypeOK, ToolRec
<1>2. QED  BY <1>1, Inductive, PTL

\* An exclusive call runs alone, in a batch of any length: the promises the
\* scheduling loop hands each call (agent-loop.ts:2781-2868) are enough.
THEOREM Alone == Spec => []ExclusiveRunsAlone
<1>1. IInv => ExclusiveRunsAlone
  <2> SUFFICES ASSUME IInv, NEW i \in Calls, NEW j \in Calls, i # j, exclusive[i],
                      Running(i), Running(j)
               PROVE  FALSE
    BY DEF ExclusiveRunsAlone
  <2>1. Begun(i) /\ Begun(j) /\ tool[i].pc # "settled" /\ tool[j].pc # "settled"
    BY DEF Running, Begun
  <2>2. i < j \/ j < i
    BY SizeAssumption DEF Calls
  <2>3. QED  BY <2>1, <2>2 DEF IInv, OrderOK
<1>2. QED  BY <1>1, Inductive, PTL

\* Work that nothing aborts is answered with what it did, whatever interrupts the
\* pure waits around it: runTool, agent-loop.ts:2560-2779.
THEOREM NotSkipped == Spec => []WorkIsNotSkipped
<1>1. IInv => WorkIsNotSkipped
  BY DEF IInv, EndedOK, AnswerOK, WorkIsNotSkipped
<1>2. QED  BY <1>1, Inductive, PTL

\* A call that returned is never answered with a placeholder, by its own end or
\* by the sweep at the end of the batch.
THEOREM ResultKept == Spec => CompletedResultKept
<1>1. IInv /\ [Next]_vars => [\A i \in Calls : tool[i].completed => result'[i] # "lost"]_vars
  <2> SUFFICES ASSUME IInv, Next, NEW i \in Calls, tool[i].completed
               PROVE  result'[i] # "lost"
    OBVIOUS
  <2>1. tool[i].pc = "after" /\ result[i] = "none" /\ result \in [Calls -> Results]
    BY DEF IInv, AnswerOK, Typed
  <2>2. CASE UNCHANGED result
    BY <2>1, <2>2
  <2>3. CASE EndBatch
    BY <2>1, <2>3 DEF EndBatch
  <2>4. ASSUME NEW j \in Calls, j # i, NEW r, result' = [result EXCEPT ![j] = r]
        PROVE  result'[i] # "lost"
    BY <2>1, <2>4
  <2>5. CASE Conclude(i)
    BY <2>1, <2>5 DEF Conclude, Settle
  <2>6. ASSUME NEW j \in Calls, Begin(j) \/ Unpark(j) \/ Throws(j) \/ Conclude(j)
        PROVE  result'[i] # "lost"
    <3>1. CASE j = i
      BY <2>1, <2>5, <2>6, <3>1 DEF Begin, Unpark, Throws
    <3>2. CASE j # i
      BY <2>2, <2>4, <2>6, <3>2 DEF Begin, Unpark, Throws, Conclude, Enter, Refuse, Move, Settle
    <3>3. QED  BY <3>1, <3>2
  <2>7. ASSUME NEW j \in Calls, Reject(j) \/ Returns(j) PROVE UNCHANGED result
    BY <2>7 DEF Reject, Move, Returns
  <2>8. CASE \/ Schedule \/ Subscribe \/ WatchCheck \/ WatchWait \/ PeerInterrupts
             \/ Steer \/ ClearSteering \/ Abort \/ Pause \/ Resume
    BY <2>2, <2>8 DEF Schedule, Subscribe, WatchCheck, WatchWait, PeerInterrupts,
       Steer, ClearSteering, Abort, Pause, Resume, tools
  <2>9. QED  BY <2>2, <2>3, <2>6, <2>7, <2>8 DEF Next, CallStep
<1>2. QED  BY <1>1, Inductive, PTL DEF Spec, CompletedResultKept

\* The calls of a message of any length never all wait for one another: they
\* wait for earlier calls only, so the earliest one that waits has nothing left
\* to wait for (agent-loop.ts:2781-2868).
THEOREM NoneStuck == Spec => []SomeCallMoves
<1>1. IInv => SomeCallMoves
  <2> SUFFICES ASSUME IInv, NEW k \in Calls, ~Answered(k),
                      \A i \in Calls : ~Running(i) /\ tool[i].pc # "parked"
               PROVE  \E i \in Calls : /\ tool[i].pc = "waiting"
                                      /\ \A j \in awaits[i] : Answered(j)
    BY DEF SomeCallMoves
  <2>1. \A i \in Calls : tool[i].pc = "waiting" \/ Answered(i)
    BY DEF IInv, Typed, ToolRec, ToolPC, Running, Answered
  <2> DEFINE waiting == {i \in Calls : tool[i].pc = "waiting"}
  <2>2. PICK i \in waiting : \A j \in waiting : ~(<<j, i>> \in OpToRel(<, Nat))
    <3>1. k \in waiting
      BY <2>1
    <3>2. waiting \subseteq Nat
      BY SizeAssumption DEF Calls
    <3> HIDE DEF waiting
    <3>3. QED  BY <3>1, <3>2, WFMin, NatLessThanWellFounded
  <2>3. ASSUME NEW j \in awaits[i] PROVE Answered(j)
    <3>1. j \in Calls /\ i \in Calls /\ j < i
      BY DEF IInv, Typed, AwaitsEarlier
    <3>2. <<j, i>> \in OpToRel(<, Nat)
      BY SizeAssumption, <3>1 DEF OpToRel, Calls
    <3>3. QED  BY <2>1, <2>2, <3>1, <3>2
  <2>4. QED  BY <2>3
<1>2. QED  BY <1>1, Inductive, PTL

-----------------------------------------------------------------------------
(* The batch is a run of OrderedCalls.                                      *)

SeenAt == [k \in Calls |-> Place(k)]

Sits(pc) == CASE pc \in {"running", "after"} -> "working"
              [] pc = "settled" -> "done"
              [] pc = "rejected" -> "broken"
              [] OTHER -> "fresh"

LEMMA PlaceSits == \A k : Place(k) = Sits(tool[k].pc)
BY DEF Place, Sits, Running

\* Call i alone moves, to t, and is answered with r.
MovesTo(i, t, r) ==
  /\ t \in ToolRec /\ r \in Results
  /\ tool' = [tool EXCEPT ![i] = t]
  /\ result' = [result EXCEPT ![i] = r]
  /\ UNCHANGED <<exclusive, ended>>

LEMMA GoesAsSeen ==
  ASSUME IInv, NEW i \in Calls, NEW t, NEW r, MovesTo(i, t, r)
  PROVE  Ordered!Goes(i, Sits(t.pc), r)
<1>1. tool \in [Calls -> ToolRec]
  BY DEF IInv, Typed
<1>2. \A k \in Calls : tool'[k] = IF k = i THEN t ELSE tool[k]
  BY <1>1 DEF MovesTo
<1>3. \A k \in Calls : Place(k)' = IF k = i THEN Sits(t.pc) ELSE Place(k)
  BY <1>2 DEF Place, Sits, Running
<1>4. SeenAt' = [SeenAt EXCEPT ![i] = Sits(t.pc)]
  BY <1>3 DEF SeenAt
<1>5. QED  BY <1>4 DEF MovesTo, SeenAt, Ordered!Goes

\* It is call i's turn.
Turn(i) ==
  /\ tool[i].pc \in {"waiting", "parked"}
  /\ \A j \in Calls : j < i /\ (exclusive[i] \/ exclusive[j]) => tool[j].pc = "settled"

LEMMA TurnSeen ==
  ASSUME NEW i \in Calls, Turn(i)
  PROVE  Ordered!HasItsTurn(i)
<1>1. SeenAt[i] = "fresh"
  BY DEF Turn, SeenAt, Place, Running
<1>2. \A j \in Calls : j < i /\ (exclusive[i] \/ exclusive[j]) => SeenAt[j] = "done"
  BY DEF Turn, SeenAt, Place, Running
<1>3. QED  BY <1>1, <1>2 DEF SeenAt, Ordered!HasItsTurn, Ordered!InTheWay

\* The moves of one call.
Seen(i, t, r) ==
  /\ MovesTo(i, t, r)
  /\ \/ Sits(t.pc) = Sits(tool[i].pc) /\ r = result[i]
     \/ Turn(i) /\ t.pc = "running" /\ r = "none"
     \/ Turn(i) /\ t.pc = "settled"
     \/ Running(i) /\ t.pc \in {"settled", "rejected"} /\ r \in {"own", "lost"}
     \/ /\ tool[i].pc = "waiting" /\ t.pc = "rejected" /\ r = "none"
        /\ \E j \in awaits[i] : tool[j].pc = "rejected"

LEMMA SeenStep ==
  ASSUME IInv, NEW i \in Calls, NEW t, NEW r, Seen(i, t, r)
  PROVE  [Ordered!OrderedNext]_(Ordered!orderedVars)
<1>1. Ordered!Goes(i, Sits(t.pc), r)
  BY GoesAsSeen DEF Seen
<1>2. Place(i) = Sits(tool[i].pc) /\ SeenAt[i] = Place(i)
  BY PlaceSits DEF SeenAt
<1>3. CASE Sits(t.pc) = Sits(tool[i].pc) /\ r = result[i]
  <2>1. result' = result /\ UNCHANGED <<exclusive, ended>>
    BY <1>3 DEF IInv, Typed, Seen, MovesTo
  <2>2. SeenAt' = [SeenAt EXCEPT ![i] = SeenAt[i]]
    BY <1>1, <1>2, <1>3 DEF Ordered!Goes, SeenAt
  <2>3. SeenAt' = SeenAt
    BY <2>2 DEF SeenAt
  <2>4. QED  BY <2>1, <2>3 DEF Ordered!orderedVars, SeenAt
<1>4. CASE Turn(i) /\ t.pc = "running" /\ r = "none"
  <2>1. Sits(t.pc) = "working"
    BY <1>4 DEF Sits
  <2>2. Ordered!Start(i)
    BY <1>1, <1>4, <2>1, TurnSeen DEF Ordered!Start
  <2>3. QED  BY <2>2 DEF Ordered!OrderedNext
<1>5. CASE Turn(i) /\ t.pc = "settled"
  <2>1. Sits(t.pc) = "done" /\ r \in {"none", "own", "lost"}
    BY <1>5 DEF Sits, Seen, MovesTo, Results
  <2>2. Ordered!LetGo(i)
    BY <1>1, <1>5, <2>1, TurnSeen DEF Ordered!LetGo
  <2>3. QED  BY <2>2 DEF Ordered!OrderedNext
<1>6. CASE Running(i) /\ t.pc \in {"settled", "rejected"} /\ r \in {"own", "lost"}
  <2>1. Sits(t.pc) \in {"done", "broken"}
    BY <1>6 DEF Sits
  <2>2. SeenAt[i] = "working"
    BY <1>2, <1>6 DEF Running, Sits
  <2>3. Ordered!Finish(i)
    BY <1>1, <1>6, <2>1, <2>2 DEF Ordered!Finish, SeenAt
  <2>4. QED  BY <2>3 DEF Ordered!OrderedNext
<1>7. ASSUME tool[i].pc = "waiting", t.pc = "rejected", r = "none",
             NEW j \in awaits[i], tool[j].pc = "rejected"
      PROVE  [Ordered!OrderedNext]_(Ordered!orderedVars)
  <2>1. j \in Calls /\ j < i /\ (exclusive[i] \/ exclusive[j])
    BY DEF IInv, Typed, AwaitsEarlier
  <2>2. SeenAt[i] = "fresh" /\ SeenAt[j] = "broken" /\ Sits(t.pc) = "broken"
    BY <1>2, <1>7, <2>1, PlaceSits DEF Sits, SeenAt
  <2>3. j \in Ordered!InTheWay(i)
    BY <2>1 DEF Ordered!InTheWay
  <2>4. Ordered!Drop(i)
    BY <1>1, <1>7, <2>2, <2>3 DEF Ordered!Drop, SeenAt
  <2>5. QED  BY <2>4 DEF Ordered!OrderedNext
<1>8. QED  BY <1>3, <1>4, <1>5, <1>6, <1>7 DEF Seen

LEMMA EnterSeen ==
  ASSUME IInv, NEW i \in Calls, Enter(i), Turn(i), UNCHANGED <<exclusive, ended>>
  PROVE  \E t, r : Seen(i, t, r)
<1>1. ~tool[i].completed /\ result[i] = "none"
  BY DEF IInv, AnswerOK, Turn
<1>2. ASSUME NEW r \in {"own", "lost"}, Refuse(i, r) PROVE \E t, x : Seen(i, t, x)
  <2> DEFINE t == [pc |-> "settled", completed |-> FALSE]
  <2>1. tool' = [tool EXCEPT ![i] = t]
    BY <1>1, <1>2, Placed DEF Refuse, ToolPC, IInv
  <2>2. MovesTo(i, t, r)
    BY <1>2, <2>1 DEF MovesTo, Refuse, ToolRec, ToolPC, Results
  <2>3. QED  BY <2>2 DEF Seen
<1>3. ASSUME Move(i, "running") PROVE \E t, r : Seen(i, t, r)
  <2> DEFINE t == [pc |-> "running", completed |-> FALSE]
  <2>1. tool' = [tool EXCEPT ![i] = t] /\ result' = [result EXCEPT ![i] = "none"]
    BY <1>1, <1>3, Moved DEF ToolPC, IInv
  <2>2. MovesTo(i, t, "none")
    BY <2>1 DEF MovesTo, ToolRec, ToolPC, Results
  <2>3. QED  BY <2>2 DEF Seen
<1>4. QED  BY <1>2, <1>3 DEF Enter

LEMMA BeginSeen ==
  ASSUME IInv, NEW i \in Calls, Begin(i)
  PROVE  \E t, r : Seen(i, t, r)
<1>1. tool[i].pc = "waiting" /\ UNCHANGED <<exclusive, ended>>
  BY DEF Begin, kinds
<1>2. Turn(i)
  <2>1. \A j \in Calls : j < i /\ (exclusive[i] \/ exclusive[j]) => tool[j].pc = "settled"
    BY EarlierSettled DEF Begin
  <2>2. QED  BY <1>1, <2>1 DEF Turn
<1>3. ~tool[i].completed /\ result[i] = "none"
  BY <1>1 DEF IInv, AnswerOK
<1>4. ASSUME NEW pc \in {"parked", "settled"}, Move(i, pc) PROVE \E t, r : Seen(i, t, r)
  <2> DEFINE t == [pc |-> pc, completed |-> FALSE]
  <2>1. tool' = [tool EXCEPT ![i] = t] /\ result' = [result EXCEPT ![i] = "none"]
    BY <1>3, <1>4, Moved DEF ToolPC, IInv
  <2>2. MovesTo(i, t, "none")
    BY <1>1, <2>1 DEF MovesTo, ToolRec, ToolPC, Results
  <2>3. QED  BY <1>1, <1>2, <1>3, <2>2 DEF Seen, Sits
<1>5. QED  BY <1>1, <1>2, <1>4, EnterSeen DEF Begin

LEMMA RejectSeen ==
  ASSUME IInv, NEW i \in Calls, Reject(i)
  PROVE  \E t, r : Seen(i, t, r)
<1> DEFINE t == [pc |-> "rejected", completed |-> FALSE]
<1>1. tool[i].pc = "waiting" /\ UNCHANGED <<exclusive, ended>>
  BY DEF Reject, kinds
<1>2. tool' = [tool EXCEPT ![i] = t] /\ result' = [result EXCEPT ![i] = "none"]
  BY <1>1, Moved DEF Reject, IInv, AnswerOK, ToolPC
<1>3. MovesTo(i, t, "none")
  BY <1>1, <1>2 DEF MovesTo, ToolRec, ToolPC, Results
<1>4. QED  BY <1>1, <1>3 DEF Seen, Reject

LEMMA UnparkSeen ==
  ASSUME IInv, NEW i \in Calls, Unpark(i)
  PROVE  \E t, r : Seen(i, t, r)
<1>1. tool[i].pc = "parked" /\ Begun(i) /\ Enter(i) /\ UNCHANGED <<exclusive, ended>>
  BY DEF Unpark, Begun, kinds
<1>2. Turn(i)
  BY <1>1 DEF Turn, IInv, OrderOK
<1>3. QED  BY <1>1, <1>2, EnterSeen

LEMMA SettleSeen ==
  ASSUME IInv, NEW i \in Calls, NEW r \in {"own", "lost"}, Settle(i, r), Running(i),
         UNCHANGED <<exclusive, ended>>
  PROVE  \E t, x : Seen(i, t, x)
<1>1. PICK pc \in {"settled", "rejected"} :
        tool' = [tool EXCEPT ![i] = [pc |-> pc, completed |-> FALSE]]
  BY DEF Settle
<1> DEFINE t == [pc |-> pc, completed |-> FALSE]
<1>2. MovesTo(i, t, r)
  BY <1>1 DEF MovesTo, Settle, ToolRec, ToolPC, Results
<1>3. QED  BY <1>2 DEF Seen

LEMMA ReturnsSeen ==
  ASSUME IInv, NEW i \in Calls, Returns(i) \/ Throws(i)
  PROVE  \E t, r : Seen(i, t, r)
<1>1. Running(i) /\ tool[i].pc = "running" /\ UNCHANGED <<exclusive, ended>>
  BY DEF Returns, Throws, Running, kinds
<1>2. result[i] = "none" /\ ~tool[i].completed
  BY <1>1 DEF IInv, AnswerOK
<1>3. ASSUME NEW c \in BOOLEAN,
             tool' = [tool EXCEPT ![i] = [pc |-> "after", completed |-> c]],
             UNCHANGED result
      PROVE  \E t, r : Seen(i, t, r)
  <2> DEFINE t == [pc |-> "after", completed |-> c]
  <2>1. result' = [result EXCEPT ![i] = "none"]
    BY <1>2, <1>3 DEF IInv, Typed
  <2>2. MovesTo(i, t, "none")
    BY <1>1, <1>3, <2>1 DEF MovesTo, ToolRec, ToolPC, Results
  <2>3. QED  BY <1>1, <1>2, <2>2 DEF Seen, Sits
<1>4. CASE Returns(i)
  BY <1>3, <1>4 DEF Returns
<1>5. CASE Throws(i) /\ Signalled(i)
  BY <1>1, <1>5, SettleSeen DEF Throws
<1>6. CASE Throws(i) /\ ~Signalled(i)
  <2>1. Move(i, "after")
    BY <1>6 DEF Throws
  <2>2. tool' = [tool EXCEPT ![i] = [pc |-> "after", completed |-> FALSE]] /\ UNCHANGED result
    BY <1>2, <2>1, Placed DEF Move, ToolPC, IInv
  <2>3. QED  BY <1>3, <2>2
<1>7. QED  BY <1>4, <1>5, <1>6

LEMMA ConcludeSeen ==
  ASSUME IInv, NEW i \in Calls, Conclude(i)
  PROVE  \E t, r : Seen(i, t, r)
<1>1. Running(i) /\ UNCHANGED <<exclusive, ended>>
  BY DEF Conclude, Running, kinds
<1>2. PICK r \in {"own", "lost"} : Settle(i, r)
  BY DEF Conclude
<1>3. QED  BY <1>1, <1>2, SettleSeen

LEMMA EndSeen ==
  ASSUME IInv, EndBatch
  PROVE  Ordered!Close
<1>1. result \in [Calls -> Results] /\ ended = FALSE
  BY DEF IInv, Typed, EndBatch
<1>2. /\ result' \in [Calls -> {"own", "lost"}]
      /\ \A i \in Calls : result[i] # "none" => result'[i] = result[i]
  BY <1>1 DEF EndBatch, Results
<1>3. SeenAt' = SeenAt /\ exclusive' = exclusive /\ ended' = TRUE
  BY DEF EndBatch, SeenAt, Place, Running, kinds
<1>4. \A i \in Calls : SeenAt[i] \in {"done", "broken"}
  BY DEF EndBatch, SeenAt, Place, Running
<1>5. QED  BY <1>1, <1>2, <1>3, <1>4 DEF Ordered!Close, SeenAt

\* Whatever becomes of the promises, the gate, the interrupts and the aborts, a
\* batch of any number of calls is a run of OrderedCalls: calls that exclude
\* each other take their turns in the order of the message, none works behind
\* one that broke, and each is answered once (agent-loop.ts:2560-2892).
THEOREM InOrder == Spec => RunsInOrder
<1>1. Init => Ordered!OrderedInit
  BY DEF Init, Idle, Place, Running, Ordered!OrderedInit
<1>2. IInv /\ [Next]_vars => [Ordered!OrderedNext]_(Ordered!orderedVars)
  <2> SUFFICES ASSUME IInv, [Next]_vars PROVE [Ordered!OrderedNext]_(Ordered!orderedVars)
    OBVIOUS
  <2>1. ASSUME UNCHANGED <<exclusive, tool, result, ended>>
        PROVE  [Ordered!OrderedNext]_(Ordered!orderedVars)
    <3>1. SeenAt' = SeenAt
      BY <2>1 DEF SeenAt, Place, Running
    <3>2. QED  BY <2>1, <3>1 DEF Ordered!orderedVars, SeenAt
  <2>2. ASSUME NEW i \in Calls, CallStep(i) \/ Returns(i) \/ Throws(i)
        PROVE  [Ordered!OrderedNext]_(Ordered!orderedVars)
    <3>1. PICK t, r : Seen(i, t, r)
      BY <2>2, BeginSeen, RejectSeen, UnparkSeen, ConcludeSeen, ReturnsSeen DEF CallStep
    <3>2. QED  BY <3>1, SeenStep
  <2>3. CASE EndBatch
    BY <2>3, EndSeen DEF Ordered!OrderedNext
  <2>4. CASE UNCHANGED vars
    BY <2>1, <2>4 DEF vars, kinds, tools
  <2>5. CASE \/ Schedule \/ Subscribe \/ WatchCheck \/ WatchWait \/ PeerInterrupts
             \/ Steer \/ ClearSteering \/ Abort \/ Pause \/ Resume
    <3>1. UNCHANGED <<exclusive, tool, result, ended>>
      BY <2>5 DEF Schedule, Subscribe, WatchCheck, WatchWait, PeerInterrupts,
         Steer, ClearSteering, Abort, Pause, Resume, kinds, tools
    <3>2. QED  BY <2>1, <3>1
  <2>6. QED  BY <2>2, <2>3, <2>4, <2>5 DEF Next
<1>3. QED  BY <1>1, <1>2, Inductive, PTL DEF Spec, RunsInOrder, Ordered!OrderedSpec
=============================================================================
