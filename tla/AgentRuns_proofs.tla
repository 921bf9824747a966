-------------------------- MODULE AgentRuns_proofs --------------------------
(***************************************************************************)
(* What holds of the runs of an agent for any number of runs and messages, *)
(* any bounds and both queue modes.                                        *)
(***************************************************************************)
EXTENDS AgentRuns, SequenceTheorems, FiniteSetTheorems, TLAPS

-----------------------------------------------------------------------------
\* Sequences and queues.

LEMMA Concat ==
  ASSUME NEW S, NEW a \in Seq(S), NEW b \in Seq(S)
  PROVE  /\ a \o b \in Seq(S) /\ Len(a \o b) = Len(a) + Len(b)
         /\ \A i \in DOMAIN a : (a \o b)[i] = a[i]
         /\ \A i \in DOMAIN b : (a \o b)[Len(a) + i] = b[i]
         /\ InSeq(a \o b) = InSeq(a) \cup InSeq(b)
<1>1. /\ a \o b \in Seq(S) /\ Len(a \o b) = Len(a) + Len(b)
      /\ \A i \in 1..(Len(a) + Len(b)) : (a \o b)[i] = IF i <= Len(a) THEN a[i] ELSE b[i - Len(a)]
  BY ConcatProperties
<1>2. DOMAIN a = 1..Len(a) /\ DOMAIN b = 1..Len(b) /\ DOMAIN (a \o b) = 1..(Len(a) + Len(b))
  BY <1>1
<1>3. Len(a) \in Nat /\ Len(b) \in Nat OBVIOUS
<1>4. \A i \in DOMAIN a : (a \o b)[i] = a[i] BY <1>1, <1>2, <1>3
<1>5. \A i \in DOMAIN b : (a \o b)[Len(a) + i] = b[i]
  <2> TAKE i \in DOMAIN b
  <2>1. Len(a) + i \in 1..(Len(a) + Len(b)) /\ ~(Len(a) + i <= Len(a)) /\ (Len(a) + i) - Len(a) = i
    BY <1>2, <1>3
  <2> QED BY <1>1, <2>1
<1>6. InSeq(a \o b) \subseteq InSeq(a) \cup InSeq(b)
  <2> SUFFICES ASSUME NEW i \in DOMAIN (a \o b) PROVE (a \o b)[i] \in InSeq(a) \cup InSeq(b)
    BY DEF InSeq
  <2>1. CASE i <= Len(a) BY <2>1, <1>1, <1>2, <1>3 DEF InSeq
  <2>2. CASE ~(i <= Len(a))
    <3>1. i - Len(a) \in DOMAIN b BY <2>2, <1>2, <1>3
    <3> QED BY <3>1, <2>2, <1>1, <1>2 DEF InSeq
  <2> QED BY <2>1, <2>2
<1>7. InSeq(a) \cup InSeq(b) \subseteq InSeq(a \o b)
  <2>1. \A i \in DOMAIN a : i \in DOMAIN (a \o b) BY <1>2, <1>3
  <2>2. \A i \in DOMAIN b : Len(a) + i \in DOMAIN (a \o b) BY <1>2, <1>3
  <2> QED BY <2>1, <2>2, <1>4, <1>5 DEF InSeq
<1> QED BY <1>1, <1>4, <1>5, <1>6, <1>7

LEMMA ConcatFirst ==
  ASSUME NEW S, NEW a \in Seq(S), NEW b \in Seq(S), a # <<>>
  PROVE  a \o b # <<>> /\ (a \o b)[1] = a[1]
<1>1. Len(a) \in Nat /\ Len(a) > 0 /\ Len(b) \in Nat /\ DOMAIN a = 1..Len(a)
  BY EmptySeq, LenProperties
<1>2. 1 \in DOMAIN a BY <1>1
<1>3. Len(a \o b) > 0 /\ (a \o b)[1] = a[1] BY <1>1, <1>2, Concat
<1>4. a \o b # <<>>
  <2>1. Len(<<>>) = 0 BY EmptySeq
  <2> QED BY <2>1, <1>3
<1> QED BY <1>3, <1>4

\* A poll cuts a queue in two.
LEMMA Polled ==
  ASSUME NEW S, NEW q \in Seq(S), NEW r
  PROVE  /\ Take(r, q) \in Seq(S) /\ Left(r, q) \in Seq(S)
         /\ Take(r, q) \o Left(r, q) = q
         /\ run[r].aborted => Take(r, q) = <<>> /\ Left(r, q) = q
<1> DEFINE n == Len(Take(r, q))
<1>1. /\ Take(r, q) \in Seq(S) /\ n \in 0..Len(q) /\ Take(r, q) = SubSeq(q, 1, n)
  <2>1. CASE run[r].aborted BY <2>1, SubSeqEmpty DEF Take
  <2>2. CASE ~run[r].aborted
    <3> DEFINE c == IF oneAtATime /\ q # <<>> THEN 1 ELSE Len(q)
    <3>1. Take(r, q) = SubSeq(q, 1, c) BY <2>2 DEF Take, First
    <3>2. c \in 0..Len(q) BY EmptySeq, LenProperties
    <3>3. \A i \in 1..c : q[i] \in S BY <3>2, ElementOfSeq
    <3>4. SubSeq(q, 1, c) \in Seq(S) /\ Len(SubSeq(q, 1, c)) = IF 1 <= c THEN c - 1 + 1 ELSE 0
      BY <3>2, <3>3, SubSeqProperties
    <3> QED BY <3>1, <3>2, <3>4
  <2> QED BY <2>1, <2>2
<1>2. Left(r, q) = SubSeq(q, n + 1, Len(q)) BY DEF Left
<1>3. Left(r, q) \in Seq(S)
  <2>1. \A i \in (n + 1)..Len(q) : q[i] \in S BY <1>1, ElementOfSeq
  <2> QED BY <2>1, <1>1, <1>2, SubSeqProperties
<1>4. Take(r, q) \o Left(r, q) = SubSeq(q, 1, Len(q))
  BY <1>1, <1>2, ConcatAdjacentSubSeq
<1>5. ASSUME run[r].aborted PROVE Take(r, q) = <<>> /\ Left(r, q) = q
  <2>1. Take(r, q) = <<>> BY <1>5 DEF Take
  <2> QED BY <2>1, <1>2, SubSeqFull
<1> QED BY <1>1, <1>3, <1>4, <1>5, SubSeqFull

-----------------------------------------------------------------------------
\* Type correctness.

LEMMA Numbers ==
  /\ MaxRuns \in Nat /\ MaxReplies \in Nat /\ MaxForced \in Nat
  /\ MaxLeaks \in Nat /\ MaxTroubles \in Nat
  /\ Runs \subseteq Nat /\ NoRun \notin Runs /\ NoRun \in Nat
BY BoundsAssumption DEF Runs, NoRun

LEMMA RunSet ==
  ASSUME run \in [Runs -> RunRecord], NEW r \in Runs, NEW k \in RunRecord, Becomes(r, k)
  PROVE  /\ run' \in [Runs -> RunRecord] /\ run'[r] = k
         /\ \A s \in Runs : s # r => run'[s] = run[s]
BY DEF Becomes

LEMMA MessagesAreEntries ==
  ASSUME NEW q \in Seq(Messages)
  PROVE  q \in Seq(Entries)
BY SeqMonotonic DEF Entries

LEMMA QueuedAreMessages ==
  /\ \A q \in Seq(Steers) : q \in Seq(Messages)
  /\ \A q \in Seq(FollowUps) : q \in Seq(Messages)
<1>1. Steers \subseteq Messages /\ FollowUps \subseteq Messages BY DEF Messages
<1> QED BY <1>1, SeqMonotonic

LEMMA NewRunTyped == NewRun \in RunRecord /\ Closing \in RunRecord
  /\ [NewRun EXCEPT !.pc = "over"] \in RunRecord
<1>1. <<>> \in Seq(Messages) /\ <<>> \in Seq(Entries) BY EmptySeq
<1>2. 0 \in 0..MaxLeaks /\ 0 \in 0..MaxForced BY Numbers
<1>3. NewRun \in RunRecord BY <1>1, <1>2 DEF NewRun, RunRecord, PCs
<1> QED BY <1>3, ZenonT(60) DEF Closing, RunRecord, PCs

\* The counters of a run stay in their bounds.
LEMMA OneMore ==
  ASSUME NEW k \in RunRecord
  PROVE  /\ k.forced < MaxForced => k.forced + 1 \in 0..MaxForced
         /\ k.leaks < MaxLeaks => k.leaks + 1 \in 0..MaxLeaks
         /\ k.saved < MaxLeaks => k.saved + 1 \in 0..MaxLeaks
<1>1. k.forced \in 0..MaxForced /\ k.leaks \in 0..MaxLeaks /\ k.saved \in 0..MaxLeaks
  BY DEF RunRecord
<1>2. \A b \in Nat : \A n \in 0..b : n < b => n + 1 \in 0..b OBVIOUS
<1> QED BY <1>1, <1>2, Numbers

LEMMA FrontTyped ==
  ASSUME NEW S, NEW q \in Seq(S), q # <<>>
  PROVE  /\ Front(q) \in Seq(S) /\ Len(Front(q)) = Len(q) - 1
         /\ \A i \in DOMAIN Front(q) : Front(q)[i] = q[i]
<1>1. Len(q) \in Nat /\ Len(q) > 0 BY EmptySeq
<1>2. \A i \in 1..(Len(q) - 1) : q[i] \in S BY <1>1, ElementOfSeq
<1>3. /\ Front(q) \in Seq(S)
      /\ Len(Front(q)) = IF 1 <= Len(q) - 1 THEN Len(q) - 1 - 1 + 1 ELSE 0
      /\ \A i \in 1..(Len(q) - 1 - 1 + 1) : Front(q)[i] = q[1 + i - 1]
  BY <1>1, <1>2, SubSeqProperties DEF Front
<1>4. DOMAIN Front(q) = 1..Len(Front(q)) BY <1>3, LenProperties
<1>5. \A i \in DOMAIN Front(q) : i \in 1..(Len(q) - 1 - 1 + 1) /\ 1 + i - 1 = i
  BY <1>1, <1>3, <1>4
<1>6. Len(Front(q)) = Len(q) - 1
  <2>1. CASE 1 <= Len(q) - 1 BY <2>1, <1>1, <1>3
  <2>2. CASE ~(1 <= Len(q) - 1)
    <3>1. Len(Front(q)) = 0 BY <2>2, <1>3
    <3>2. \A n \in Nat : n > 0 /\ ~(1 <= n - 1) => n - 1 = 0 OBVIOUS
    <3>3. Len(q) - 1 = 0 BY <3>2, <2>2, <1>1
    <3> QED BY <3>1, <3>3
  <2> QED BY <2>1, <2>2
<1>7. ASSUME NEW i \in DOMAIN Front(q) PROVE Front(q)[i] = q[i]
  <2>1. Front(q)[i] = q[1 + i - 1] BY <1>3, <1>5
  <2> QED BY <2>1, <1>5
<1> QED BY <1>3, <1>6, <1>7

\* Messages are named with those not given yet.
LEMMA NextIsNew ==
  ASSUME NEW S, NEW m \in NextOf(S)
  PROVE  m \in S /\ m \notin asked /\ m \notin InSeq(steered)
BY DEF NextOf

\* What the run says is typed.
LEMMA SaysTyped ==
  ASSUME TypeOK, NEW r \in Runs, NEW k \in RunRecord, NEW ms \in Seq(Entries), Says(r, k, ms)
  PROVE  /\ transcript' \in Seq(Entries) /\ run' \in [Runs -> RunRecord]
         /\ transcript' = transcript \o ms
         /\ run'[r] = [k EXCEPT !.ctx = @ \o ms]
         /\ \A s \in Runs : s # r => run'[s] = run[s]
<1>1. k.ctx \in Seq(Entries) BY DEF RunRecord
<1>2. k.ctx \o ms \in Seq(Entries) /\ transcript \o ms \in Seq(Entries)
  BY <1>1, ConcatProperties DEF TypeOK
<1>3. [k EXCEPT !.ctx = @ \o ms] \in RunRecord BY <1>2 DEF RunRecord
<1> QED BY <1>2, <1>3, RunSet DEF Says, TypeOK

LEMMA EmitTyped ==
  ASSUME TypeOK, NEW r \in Runs, Emit(r)
  PROVE  transcript' \in Seq(Entries)
<1>1. run[r].input \in Seq(Messages) BY DEF TypeOK, RunRecord
<1> QED BY <1>1, MessagesAreEntries, ConcatProperties DEF TypeOK, Emit

LEMMA StopTyped ==
  ASSUME NEW r
  PROVE  GateStop(r) \in Seq(Kinds) /\ GateStop(r) \in Seq(Entries)
<1>1. <<>> \in Seq(Kinds) /\ <<"error">> \in Seq(Kinds) BY EmptySeq DEF Kinds
<1>2. GateStop(r) \in Seq(Kinds) BY <1>1 DEF GateStop
<1> QED BY <1>2, SeqMonotonic DEF Entries

\* What an opened, a stopped and an answered run keep.
LEMMA Fields ==
  ASSUME NEW r \in Runs, run[r] \in RunRecord
  PROVE  /\ Opened(r) \in RunRecord /\ Opened(r).input = <<>>
         /\ \A f \in DOMAIN NewRun \ {"input", "muted"} : Opened(r)[f] = run[r][f]
         /\ Stopped(r) \in RunRecord /\ Stopped(r).input = <<>>
         /\ Stopped(r).ctx = run[r].ctx \o GateStop(r)
         /\ \A f \in DOMAIN NewRun \ {"input", "ctx"} : Stopped(r)[f] = run[r][f]
         /\ Sampled(r) \in RunRecord /\ Sampled(r).leaks = 0
         /\ \A f \in DOMAIN NewRun \ {"leaks", "saved"} : Sampled(r)[f] = run[r][f]
         /\ Replied(r) \in RunRecord /\ Replied(r).leaks = 0
         /\ \A f \in DOMAIN NewRun \ {"leaks", "saved", "forced"} : Replied(r)[f] = run[r][f]
<1> DEFINE k == run[r]
<1>1. DOMAIN NewRun = {"pc", "aborted", "expired", "input", "held", "ctx", "more", "skip",
                       "leaks", "saved", "forced", "muted", "end"}
  BY DEF NewRun
<1>2. DOMAIN k = DOMAIN NewRun BY <1>1 DEF RunRecord
<1>3. <<>> \in Seq(Messages) /\ 0 \in 0..MaxLeaks /\ 0 \in 0..MaxForced
  BY EmptySeq, Numbers
<1>4. k \in RunRecord /\ k.saved \in 0..MaxLeaks BY DEF RunRecord
<1>5. /\ Opened(r) \in RunRecord /\ Opened(r).input = <<>>
      /\ \A f \in DOMAIN NewRun \ {"input", "muted"} : Opened(r)[f] = run[r][f]
  <2> DEFINE b == k.muted \/ (TurnOpen(r) /\ k.input # <<>>)
  <2>1. b \in BOOLEAN OBVIOUS
  <2>2. Opened(r) = [k EXCEPT !.input = <<>>, !.muted = b] BY DEF Opened
  <2> HIDE DEF b, k
  <2> QED BY <2>1, <2>2, <1>1, <1>2, <1>3, <1>4 DEF RunRecord, k
<1>6. /\ Stopped(r) \in RunRecord /\ Stopped(r).input = <<>>
      /\ Stopped(r).ctx = run[r].ctx \o GateStop(r)
      /\ \A f \in DOMAIN NewRun \ {"input", "ctx"} : Stopped(r)[f] = run[r][f]
  <2>1. GateStop(r) \in Seq(Entries) BY StopTyped
  <2>2. k.ctx \o GateStop(r) \in Seq(Entries) BY <1>4, <2>1, ConcatProperties DEF RunRecord
  <2>3. Stopped(r) = [k EXCEPT !.input = <<>>, !.ctx = k.ctx \o GateStop(r)]
    BY <1>1, <1>2 DEF Stopped
  <2> DEFINE c == k.ctx \o GateStop(r)
  <2> HIDE DEF c, k
  <2> QED BY <2>2, <2>3, <1>1, <1>2, <1>3, <1>4 DEF RunRecord, k, c
<1>7. /\ Sampled(r) \in RunRecord /\ Sampled(r).leaks = 0
      /\ \A f \in DOMAIN NewRun \ {"leaks", "saved"} : Sampled(r)[f] = run[r][f]
  <2> DEFINE n == IF k.pc = "recovered" THEN k.saved ELSE 0
  <2>1. n \in 0..MaxLeaks BY <1>3, <1>4
  <2>2. Sampled(r) = [k EXCEPT !.leaks = 0, !.saved = n] BY <1>1, <1>2 DEF Sampled
  <2> HIDE DEF n, k
  <2> QED BY <2>1, <2>2, <1>1, <1>2, <1>3, <1>4 DEF RunRecord, k
<1>8. /\ Replied(r) \in RunRecord /\ Replied(r).leaks = 0
      /\ \A f \in DOMAIN NewRun \ {"leaks", "saved", "forced"} : Replied(r)[f] = run[r][f]
  BY <1>7, <1>1, <1>3 DEF Replied, RunRecord
<1> QED BY <1>5, <1>6, <1>7, <1>8

LEMMA TypeInit == Init => TypeOK
<1>1. \A S : <<>> \in Seq(S) BY EmptySeq
<1>2. 0 \in 0..MaxReplies /\ 0 \in 0..MaxTroubles BY Numbers
<1> QED BY <1>1, <1>2, NewRunTyped DEF Init, TypeOK

LEMMA TypeKept ==
  ASSUME TypeOK, [Next]_vars
  PROVE  TypeOK'
<1> USE DEF TypeOK
<1>e. \A S : <<>> \in Seq(S) BY EmptySeq
<1>k. /\ \A x \in Messages \cup Kinds : <<x>> \in Seq(Entries)
      /\ <<"error">> \in Seq(Entries) /\ <<"cut", "result">> \in Seq(Entries)
      /\ <<"call", "result">> \in Seq(Entries)
  BY DEF Entries, Kinds
<1>q. \A r : /\ Take(r, steering) \in Seq(Steers) /\ Left(r, steering) \in Seq(Steers)
             /\ Take(r, followUps) \in Seq(FollowUps) /\ Left(r, followUps) \in Seq(FollowUps)
             /\ Take(r, steering) \in Seq(Messages) /\ Take(r, followUps) \in Seq(Messages)
  BY Polled, QueuedAreMessages
<1>n. NewRun \in RunRecord /\ Closing \in RunRecord /\ [NewRun EXCEPT !.pc = "over"] \in RunRecord
  BY NewRunTyped
<1>t. Trouble => troubles' \in 0..MaxTroubles BY Numbers DEF Trouble
<1>g. OneMoreReply => replies' \in 0..MaxReplies BY Numbers DEF OneMoreReply
<1>r. \A r \in Runs : run[r] \in RunRecord OBVIOUS
<1>1. ASSUME NEW r \in Runs, NEW p \in NextOf(Prompts), Prompt(r, p) PROVE TypeOK'
  <2>1. p \in Prompts BY NextIsNew
  <2>2. <<p>> \in Seq(Messages) /\ p \in Entries /\ p \in Messages BY <2>1 DEF Messages, Entries
  <2>3. Append(transcript, p) \in Seq(Entries) BY <2>2, AppendProperties
  <2>4. [NewRun EXCEPT !.pc = "poll", !.input = <<p>>, !.ctx = Append(transcript, p)] \in RunRecord
    BY <2>2, <2>3, <1>n, ZenonT(60) DEF RunRecord, PCs
  <2>5. run' \in [Runs -> RunRecord] BY <1>1, <2>4, RunSet DEF Prompt
  <2> QED BY <1>1, <2>2, <2>5 DEF Prompt, Claims, queues, bounds
<1>2. ASSUME NEW r \in Runs, Continue(r) PROVE TypeOK'
  <2>1. \A c \in {"poll", "takeSteering"} :
          [NewRun EXCEPT !.pc = c, !.ctx = transcript] \in RunRecord
    BY <1>n, ZenonT(60) DEF RunRecord, PCs
  <2>2. run' \in [Runs -> RunRecord] BY <1>2, <2>1, RunSet DEF Continue
  <2> QED BY <1>2, <2>2 DEF Continue, Claims, queues, bounds, history
<1>3. ASSUME NEW r \in Runs, Retry(r) PROVE TypeOK'
  <2>1. transcript # <<>> /\ transcript' = Front(transcript) BY <1>3 DEF Retry, Front
  <2>2. transcript' \in Seq(Entries) BY <2>1, FrontTyped
  <2>3. [NewRun EXCEPT !.pc = "poll", !.ctx = transcript'] \in RunRecord
    BY <2>2, <1>n, ZenonT(60) DEF RunRecord, PCs
  <2>4. run' \in [Runs -> RunRecord] BY <1>3, <2>3, RunSet DEF Retry
  <2> QED BY <1>3, <2>2, <2>4 DEF Retry, Claims, queues, bounds, history
<1>4. ASSUME NEW r \in Runs, TakeSteering(r) PROVE TypeOK'
  <2>1. run[r].ctx \o Take(r, steering) \in Seq(Entries)
    BY <1>q, <1>r, MessagesAreEntries, ConcatProperties DEF RunRecord
  <2>2. /\ [run[r] EXCEPT !.pc = "takeFollowUps"] \in RunRecord
        /\ [run[r] EXCEPT !.pc = "poll", !.input = Take(r, steering),
                          !.ctx = @ \o Take(r, steering), !.skip = TRUE] \in RunRecord
    BY <1>q, <1>r, <2>1, ZenonT(200) DEF RunRecord, PCs
  <2>3. run' \in [Runs -> RunRecord] BY <1>4, <2>2, RunSet DEF TakeSteering
  <2> QED BY <1>4, <1>q, <2>3 DEF TakeSteering, agent, bounds, history
<1>5. ASSUME NEW r \in Runs, TakeFollowUps(r) PROVE TypeOK'
  <2>1. run[r].ctx \o Take(r, followUps) \in Seq(Entries)
    BY <1>q, <1>r, MessagesAreEntries, ConcatProperties DEF RunRecord
  <2>2. [run[r] EXCEPT !.pc = "poll", !.input = Take(r, followUps),
                       !.ctx = @ \o Take(r, followUps)] \in RunRecord
    BY <1>q, <1>r, <2>1, ZenonT(200) DEF RunRecord, PCs
  <2>3. run' \in [Runs -> RunRecord] BY <1>5, <1>n, <2>2, RunSet DEF TakeFollowUps
  <2> QED BY <1>5, <1>q, <2>3 DEF TakeFollowUps, agent, bounds, history
<1>6. ASSUME NEW r \in Runs, Poll(r) PROVE TypeOK'
  <2>1. Ended([run[r] EXCEPT !.input = <<>>], "deadline") \in RunRecord
    BY <1>r, <1>e, ZenonT(200) DEF RunRecord, PCs, Ended
  <2>2. \A c \in {"resume", "top"}, ms \in Seq(Messages) :
          [run[r] EXCEPT !.pc = c, !.skip = FALSE, !.held = ms] \in RunRecord
    BY <1>r, ZenonT(200) DEF RunRecord, PCs
  <2>3. run' \in [Runs -> RunRecord] BY <1>6, <1>q, <1>e, <2>1, <2>2, RunSet DEF Poll
  <2>4. transcript' \in Seq(Entries) BY <1>6, EmitTyped DEF Poll
  <2> QED BY <1>6, <1>q, <2>3, <2>4 DEF Poll, agent, bounds, history
<1>7. ASSUME NEW r \in Runs, Resume(r) PROVE TypeOK'
  <2>1. /\ [run[r] EXCEPT !.pc = "top"] \in RunRecord
        /\ [Ended(run[r], "yielded") EXCEPT !.aborted = TRUE] \in RunRecord
    BY <1>r, <1>e, ZenonT(200) DEF RunRecord, PCs, Ended
  <2>2. <<"result">> \in Seq(Entries) BY DEF Entries, Kinds
  <2>3. run' \in [Runs -> RunRecord] /\ transcript' \in Seq(Entries)
    BY <1>7, <2>1, <2>2, SaysTyped DEF Resume
  <2> QED BY <1>7, <2>3 DEF Resume, queues, agent, bounds, history
<1>8. ASSUME NEW r \in Runs, Top(r) PROVE TypeOK'
  <2>1. Ended([run[r] EXCEPT !.input = <<>>], "deadline") \in RunRecord
    BY <1>r, <1>e DEF RunRecord, PCs, Ended
  <2>2. run[r].input \o run[r].held \in Seq(Messages) /\ run[r].ctx \o run[r].held \in Seq(Entries)
    BY <1>r, MessagesAreEntries, ConcatProperties DEF RunRecord
  <2>3. [run[r] EXCEPT !.pc = "prepare", !.input = @ \o run[r].held, !.ctx = @ \o run[r].held,
                       !.held = <<>>] \in RunRecord
    BY <1>r, <1>e, <2>2, ZenonT(200) DEF RunRecord, PCs
  <2>4. run' \in [Runs -> RunRecord] /\ transcript' \in Seq(Entries)
    BY <1>8, <2>1, <2>3, RunSet, EmitTyped DEF Top
  <2> QED BY <1>8, <2>4 DEF Top, queues, agent, bounds, history
<1>o. \A r \in Runs : OpenTurn(r) => transcript' \in Seq(Entries)
  BY EmitTyped DEF OpenTurn
<1>s. \A r \in Runs : transcript \o run[r].input \o GateStop(r) \in Seq(Entries)
  <2> TAKE r \in Runs
  <2>1. run[r].input \in Seq(Entries) BY <1>r, MessagesAreEntries DEF RunRecord
  <2>2. GateStop(r) \in Seq(Entries) BY StopTyped
  <2>3. transcript \o run[r].input \in Seq(Entries) BY <2>1, ConcatProperties
  <2> QED BY <2>2, <2>3, ConcatProperties
<1>9. ASSUME NEW r \in Runs, Prepare(r) PROVE TypeOK'
  <2>1. Opened(r) \in RunRecord /\ Stopped(r) \in RunRecord BY <1>r, Fields
  <2>2. /\ [Opened(r) EXCEPT !.pc = "stream"] \in RunRecord
        /\ Ended(Stopped(r), "stopped") \in RunRecord
    BY <2>1, <1>e, ZenonT(60) DEF RunRecord, PCs, Ended
  <2>3. run' \in [Runs -> RunRecord] BY <1>9, <2>2, RunSet DEF Prepare
  <2>4. transcript' \in Seq(Entries)
    BY <1>9, <1>o, <1>s, EmitTyped DEF Prepare, OpenTurn
  <2> QED BY <1>9, <2>3, <2>4 DEF Prepare, queues, agent, bounds, history
<1>z. 0 \in 0..MaxLeaks /\ 0 \in 0..MaxForced BY Numbers
<1>p. \A r \in Runs : Replied(r) \in RunRecord BY <1>r, Fields
<1>10. ASSUME NEW r \in Runs, Reply(r) PROVE TypeOK'
  <2>1. \A b \in BOOLEAN : [Replied(r) EXCEPT !.pc = "boundary", !.more = b] \in RunRecord
    BY <1>p, ZenonT(200) DEF RunRecord, PCs
  <2>2. <<"reply">> \in Seq(Entries) BY DEF Entries, Kinds
  <2>3. run' \in [Runs -> RunRecord] /\ transcript' \in Seq(Entries)
    BY <1>10, <2>1, <2>2, SaysTyped DEF Reply
  <2>4. replies' \in 0..MaxReplies BY <1>10, <1>g DEF Reply
  <2> QED BY <1>10, <2>3, <2>4 DEF Reply, queues, agent, history
<1>11. ASSUME NEW r \in Runs, Call(r) PROVE TypeOK'
  <2>1. /\ [Replied(r) EXCEPT !.pc = "tools"] \in RunRecord
        /\ [Replied(r) EXCEPT !.pc = "boundary", !.more = ~run[r].expired] \in RunRecord
    BY <1>p, <1>r, ZenonT(200) DEF RunRecord, PCs
  <2>2. <<"call">> \in Seq(Entries) BY DEF Entries, Kinds
  <2>3. run' \in [Runs -> RunRecord] /\ transcript' \in Seq(Entries)
    BY <1>11, <1>k, <2>1, <2>2, SaysTyped DEF Call
  <2>4. replies' \in 0..MaxReplies BY <1>11, <1>g DEF Call
  <2> QED BY <1>11, <2>3, <2>4 DEF Call, queues, agent, history
<1>12. ASSUME NEW r \in Runs, Detour(r) PROVE TypeOK'
  <2> DEFINE k == Sampled(r)
  <2>0. k \in RunRecord /\ k.forced = run[r].forced BY <1>r, Fields DEF NewRun
  <2> HIDE DEF k
  <2>1. k \in RunRecord /\ k.forced = run[r].forced /\ Failed(k) \in RunRecord
    BY <2>0, <1>e DEF RunRecord, PCs, Failed
  <2>2. run[r].forced < MaxForced => run[r].forced + 1 \in 0..MaxForced
    BY <1>r, OneMore
  <2>3. run[r].forced < MaxForced =>
          [k EXCEPT !.pc = "boundary", !.more = TRUE, !.forced = @ + 1] \in RunRecord
    BY <2>1, <2>2 DEF RunRecord, PCs
  <2>4. <<"call">> \in Seq(Entries) BY DEF Entries, Kinds
  <2>5. run' \in [Runs -> RunRecord] /\ transcript' \in Seq(Entries)
    BY <1>12, <1>k, <2>1, <2>3, <2>4, SaysTyped DEF Detour, k
  <2>6. troubles' \in 0..MaxTroubles BY <1>12, <1>t DEF Detour
  <2> QED BY <1>12, <2>5, <2>6 DEF Detour, queues, agent, history
<1>13. ASSUME NEW r \in Runs, Breaks(r) PROVE TypeOK'
  <2>1. Ended(run[r], "broken") \in RunRecord
    BY <1>r, <1>e, ZenonT(60) DEF RunRecord, PCs, Ended
  <2>2. run' \in [Runs -> RunRecord] /\ transcript' \in Seq(Entries)
    BY <1>13, <1>k, <2>1, SaysTyped DEF Breaks
  <2>3. troubles' \in 0..MaxTroubles BY <1>13, <1>t DEF Breaks
  <2> QED BY <1>13, <2>2, <2>3 DEF Breaks, queues, agent, history
<1>14. ASSUME NEW r \in Runs, HookThrows(r) PROVE TypeOK'
  <2>0. Opened(r) \in RunRecord /\ Stopped(r) \in RunRecord BY <1>r, Fields
  <2>1. /\ Failed(Opened(r)) \in RunRecord /\ Failed(Stopped(r)) \in RunRecord
        /\ Failed(run[r]) \in RunRecord
    BY <2>0, <1>r, <1>e, ZenonT(60) DEF RunRecord, PCs, Failed
  <2>2. <<"result">> \in Seq(Entries) BY DEF Entries, Kinds
  <2>3. run' \in [Runs -> RunRecord] /\ transcript' \in Seq(Entries)
    BY <1>14, <1>n, <1>o, <1>s, <2>1, <2>2, RunSet, SaysTyped DEF HookThrows
  <2>4. troubles' \in 0..MaxTroubles BY <1>14, <1>t DEF HookThrows
  <2> QED BY <1>14, <2>3, <2>4 DEF HookThrows, queues, agent, history
<1>15. ASSUME NEW r \in Runs, Leaks(r) PROVE TypeOK'
  <2>1. run[r].leaks < MaxLeaks => run[r].leaks + 1 \in 0..MaxLeaks
    BY <1>r, OneMore
  <2>0. run[r].saved < MaxLeaks => run[r].saved + 1 \in 0..MaxLeaks
    BY <1>r, OneMore
  <2>2. /\ Failed(run[r]) \in RunRecord
        /\ \A c \in {"top", "yield"} : run[r].leaks < MaxLeaks =>
             [run[r] EXCEPT !.leaks = @ + 1, !.pc = c] \in RunRecord
        /\ run[r].saved < MaxLeaks =>
             [run[r] EXCEPT !.saved = @ + 1, !.leaks = 0, !.pc = "recovered"] \in RunRecord
    BY <1>r, <1>e, <1>z, <2>0, <2>1, ZenonT(60) DEF RunRecord, PCs, Failed
  <2>3. run' \in [Runs -> RunRecord] BY <1>15, <2>2, RunSet DEF Leaks
  <2>4. transcript' \in Seq(Entries) BY <1>15, AppendProperties DEF Leaks, Entries, Kinds
  <2>5. troubles' \in 0..MaxTroubles BY <1>15, <1>t DEF Leaks
  <2>6. replies' \in 0..MaxReplies BY <1>15, <1>g DEF Leaks
  <2> QED BY <1>15, <2>3, <2>4, <2>5, <2>6 DEF Leaks, queues, agent, history
<1>16. ASSUME NEW r \in Runs, Tools(r) PROVE TypeOK'
  <2>1. \A y \in BOOLEAN :
          [run[r] EXCEPT !.pc = "boundary", !.more = ~y, !.aborted = @ \/ y] \in RunRecord
    BY <1>r, ZenonT(200) DEF RunRecord, PCs
  <2>2. <<"result">> \in Seq(Entries) BY DEF Entries, Kinds
  <2>3. run' \in [Runs -> RunRecord] /\ transcript' \in Seq(Entries)
    BY <1>16, <2>1, <2>2, SaysTyped DEF Tools
  <2> QED BY <1>16, <2>3 DEF Tools, queues, agent, bounds, history
<1>17. ASSUME NEW r \in Runs, Boundary(r) PROVE TypeOK'
  <2>1. /\ Ended(run[r], "deadline") \in RunRecord
        /\ \A ms \in Seq(Messages) :
             [run[r] EXCEPT !.pc = Onward(run[r], ms), !.held = ms] \in RunRecord
    <3>1. Ended(run[r], "deadline") \in RunRecord
      BY <1>r, <1>e, ZenonT(60) DEF RunRecord, PCs, Ended
    <3>2. ASSUME NEW ms \in Seq(Messages), NEW c \in PCs
          PROVE  [run[r] EXCEPT !.pc = c, !.held = ms] \in RunRecord
      BY <1>r DEF RunRecord
    <3>3. \A ms : Onward(run[r], ms) \in PCs BY DEF Onward, PCs
    <3> QED BY <3>1, <3>2, <3>3
  <2>2. run' \in [Runs -> RunRecord] BY <1>17, <1>q, <2>1, RunSet DEF Boundary
  <2> QED BY <1>17, <1>q, <2>2 DEF Boundary, agent, bounds, history
<1>18. ASSUME NEW r \in Runs, Yield(r) PROVE TypeOK'
  <2>1. /\ Ended(run[r], "deadline") \in RunRecord
        /\ \A ms \in Seq(Messages) : [run[r] EXCEPT !.pc = "late", !.held = ms] \in RunRecord
    BY <1>r, <1>e, ZenonT(60) DEF RunRecord, PCs, Ended
  <2>2. run' \in [Runs -> RunRecord] BY <1>18, <1>q, <2>1, RunSet DEF Yield
  <2> QED BY <1>18, <1>q, <2>2 DEF Yield, agent, bounds, history
<1>19. ASSUME NEW r \in Runs, Late(r) PROVE TypeOK'
  <2>1. run[r].held \o Take(r, followUps) \in Seq(Messages)
    BY <1>q, <1>r, ConcatProperties DEF RunRecord
  <2>2. /\ \A w \in {"aborted", "normal"} : Ended(run[r], w) \in RunRecord
        /\ \A ms \in Seq(Messages) :
             [run[r] EXCEPT !.pc = "top", !.held = ms, !.more = TRUE] \in RunRecord
    BY <1>r, <1>e, ZenonT(60) DEF RunRecord, PCs, Ended
  <2>3. run' \in [Runs -> RunRecord] BY <1>19, <2>1, <2>2, RunSet DEF Late
  <2> QED BY <1>19, <1>q, <2>3 DEF Late, agent, bounds, history
<1>20. ASSUME NEW r \in Runs, AgentEnd(r) PROVE TypeOK'
  BY <1>20, <1>n, RunSet DEF AgentEnd, queues, bounds, history
<1>21. ASSUME NEW r \in Runs, Fails(r) PROVE TypeOK'
  <2>1. transcript' \in Seq(Entries) BY <1>21, AppendProperties DEF Fails, Entries, Kinds
  <2> QED BY <1>21, <2>1, <1>n, RunSet DEF Fails, queues, agent, bounds, history
<1>22. ASSUME NEW r \in Runs, Close(r) PROVE TypeOK'
  BY <1>22, <1>n, RunSet DEF Close, queues, agent, bounds, history
<1>23. ASSUME NEW m \in NextOf(Steers), Steer(m) PROVE TypeOK'
  <2>1. m \in Steers BY NextIsNew
  <2> QED BY <1>23, <2>1, AppendProperties DEF Steer, agent, bounds
<1>24. ASSUME NEW m \in NextOf(FollowUps), FollowUp(m) PROVE TypeOK'
  <2>1. m \in FollowUps /\ m \in Messages BY NextIsNew DEF Messages
  <2> QED BY <1>24, <2>1, AppendProperties DEF FollowUp, agent, bounds
<1>25. CASE TakeBack BY <1>25, FrontTyped DEF TakeBack, agent, bounds, history
<1>26. CASE Abort
  <2>1. ctl \in Runs BY <1>26 DEF Abort
  <2>2. [run[ctl] EXCEPT !.aborted = TRUE] \in RunRecord BY <2>1, <1>r DEF RunRecord
  <2>3. run' \in [Runs -> RunRecord] BY <1>26, <2>1, <2>2, RunSet DEF Abort
  <2> QED BY <1>26, <1>t, <2>3 DEF Abort, queues, agent, history
<1>27. ASSUME NEW r \in Runs, Expire(r) PROVE TypeOK'
  <2>1. [run[r] EXCEPT !.expired = TRUE, !.aborted = TRUE] \in RunRecord
    BY <1>r DEF RunRecord
  <2>2. run' \in [Runs -> RunRecord] BY <1>27, <2>1, RunSet DEF Expire
  <2> QED BY <1>27, <1>t, <2>2 DEF Expire, queues, agent, history
<1>28. CASE UNCHANGED vars BY <1>28 DEF vars, queues, agent, bounds, history
<1> QED
  BY <1>1, <1>2, <1>3, <1>4, <1>5, <1>6, <1>7, <1>8, <1>9, <1>10, <1>11, <1>12, <1>13, <1>14,
     <1>15, <1>16, <1>17, <1>18, <1>19, <1>20, <1>21, <1>22, <1>23, <1>24, <1>25, <1>26, <1>27,
     <1>28 DEF Next, RunStep

\* The state of every run and queue is well formed.
THEOREM Types == Spec => []TypeOK
<1>1. TypeOK /\ [Next]_vars => TypeOK' BY TypeKept
<1> QED BY <1>1, TypeInit, PTL DEF Spec

-----------------------------------------------------------------------------
\* One run at a time.

\* A run begins.
Begins(r) ==
  /\ Claims(r)
  /\ \A s \in Runs : s # r => run'[s] = run[s]

\* A run goes on; it may come to its end, but it does not come back.
GoesOn(r) ==
  /\ Active(r)' => Active(r)
  /\ \A s \in Runs : s # r => run'[s] = run[s]
  /\ \/ UNCHANGED agent
     \/ Active(r) /\ ~Active(r)'
     \/ ~Active(r) /\ ctl = r

LEMMA KindsOfSteps ==
  ASSUME TypeOK, [Next]_vars
  PROVE  \/ \E r \in Runs : Begins(r) \/ GoesOn(r)
         \/ UNCHANGED agent /\ \A s \in Runs : run'[s] = run[s]
<1> DEFINE Frame(r) == \A s \in Runs : s # r => run'[s] = run[s]
<1>f. \A r, k : Becomes(r, k) => Frame(r)
  BY DEF Becomes, TypeOK
<1>b. \A r \in Runs : \A k : Becomes(r, k) => run'[r] = k
  BY DEF Becomes, TypeOK
<1>r. \A r \in Runs : run[r] \in RunRecord BY DEF TypeOK
<1>1. ASSUME NEW r \in Runs, \/ \E p \in NextOf(Prompts) : Prompt(r, p)
                             \/ Continue(r) \/ Retry(r)
      PROVE  Begins(r)
  <2>1. CASE \E p \in NextOf(Prompts) : Prompt(r, p) BY <2>1, <1>f DEF Begins, Prompt
  <2>2. CASE Continue(r) BY <2>2, <1>f DEF Begins, Continue
  <2>3. CASE Retry(r) BY <2>3, <1>f DEF Begins, Retry
  <2> QED BY <1>1, <2>1, <2>2, <2>3
<1>2. ASSUME NEW r \in Runs, RunStep(r), ~AgentEnd(r), ~Close(r)
      PROVE  GoesOn(r)
  <2>1. Frame(r) /\ UNCHANGED agent
    <3>1. CASE TakeSteering(r) BY <3>1, <1>f DEF TakeSteering, agent
    <3>2. CASE TakeFollowUps(r) BY <3>2, <1>f DEF TakeFollowUps, agent
    <3>3. CASE Poll(r) BY <3>3, <1>f DEF Poll, agent
    <3>4. CASE Resume(r) BY <3>4, <1>f DEF Resume, Says, agent
    <3>5. CASE Top(r) BY <3>5, <1>f DEF Top, agent
    <3>6. CASE Prepare(r) BY <3>6, <1>f DEF Prepare, agent
    <3>7. CASE Reply(r) BY <3>7, <1>f DEF Reply, Says, agent
    <3>8. CASE Call(r) BY <3>8, <1>f DEF Call, Says, agent
    <3>9. CASE Detour(r) BY <3>9, <1>f DEF Detour, Says, agent
    <3>10. CASE Breaks(r) BY <3>10, <1>f DEF Breaks, Says, agent
    <3>11. CASE HookThrows(r) BY <3>11, <1>f DEF HookThrows, Says, agent
    <3>12. CASE Leaks(r) BY <3>12, <1>f DEF Leaks, agent
    <3>13. CASE Tools(r) BY <3>13, <1>f DEF Tools, Says, agent
    <3>14. CASE Boundary(r) BY <3>14, <1>f DEF Boundary, agent
    <3>15. CASE Yield(r) BY <3>15, <1>f DEF Yield, agent
    <3>16. CASE Late(r) BY <3>16, <1>f DEF Late, agent
    <3>17. CASE Fails(r) BY <3>17, <1>f DEF Fails, agent
    <3> QED
      BY <1>2, <3>1, <3>2, <3>3, <3>4, <3>5, <3>6, <3>7, <3>8, <3>9, <3>10, <3>11, <3>12, <3>13,
         <3>14, <3>15, <3>16, <3>17 DEF RunStep
  <2>2. Active(r)
    BY <1>2 DEF RunStep, TakeSteering, TakeFollowUps, Poll, Resume, Top, Prepare, Reply,
      Call, Detour, Breaks, HookThrows, Leaks, Tools, Boundary, Yield, Late, Fails, Active
  <2> QED BY <2>1, <2>2 DEF GoesOn, Active
<1>3. ASSUME NEW r \in Runs, AgentEnd(r) PROVE GoesOn(r)
  <2>1. run'[r] = Closing /\ Frame(r) BY <1>3, <1>f, <1>b DEF AgentEnd
  <2>2. run'[r].pc = "closing" BY <2>1 DEF Closing, NewRun
  <2> QED BY <1>3, <2>1, <2>2 DEF AgentEnd, GoesOn, Active
<1>4. ASSUME NEW r \in Runs, Close(r) PROVE GoesOn(r)
  <2>1. run'[r] = [NewRun EXCEPT !.pc = "over"] /\ Frame(r) BY <1>4, <1>f, <1>b DEF Close
  <2>2. run'[r].pc = "over" BY <2>1 DEF NewRun
  <2> QED BY <1>4, <2>1, <2>2 DEF Close, GoesOn, Active
<1>5. ASSUME NEW r \in Runs, Expire(r) PROVE GoesOn(r)
  <2>1. Frame(r) /\ run'[r] = [run[r] EXCEPT !.expired = TRUE, !.aborted = TRUE]
    BY <1>5, <1>f, <1>b DEF Expire
  <2>2. run'[r].pc = run[r].pc BY <2>1, <1>r DEF RunRecord
  <2> QED BY <1>5, <2>1, <2>2 DEF Expire, GoesOn, Active
<1>6. CASE Abort
  <2>1. ctl \in Runs BY <1>6 DEF Abort, TypeOK
  <2>2. Frame(ctl) /\ run'[ctl] = [run[ctl] EXCEPT !.aborted = TRUE]
    BY <1>6, <2>1, <1>f, <1>b DEF Abort
  <2>3. run'[ctl].pc = run[ctl].pc BY <2>1, <2>2, <1>r DEF RunRecord
  <2> QED BY <1>6, <2>1, <2>2, <2>3 DEF Abort, GoesOn, Active
<1>7. CASE \/ \E m \in NextOf(Steers) : Steer(m)
           \/ \E m \in NextOf(FollowUps) : FollowUp(m)
           \/ TakeBack \/ UNCHANGED vars
  BY <1>7 DEF Steer, FollowUp, TakeBack, vars
<1> QED BY <1>1, <1>2, <1>3, <1>4, <1>5, <1>6, <1>7 DEF Next, Abort, TypeOK

LEMMA ReachInit == Init => AbortReachesTheRun
BY DEF Init, AbortReachesTheRun, Active, NewRun

LEMMA ReachKept ==
  ASSUME TypeOK, AbortReachesTheRun, [Next]_vars
  PROVE  AbortReachesTheRun'
<1> USE DEF AbortReachesTheRun
<1>1. ASSUME NEW r \in Runs, Begins(r) PROVE AbortReachesTheRun'
  <2>1. \A s \in Runs : ~Active(s) BY <1>1 DEF Begins, Claims
  <2>2. \A s \in Runs : s # r => ~Active(s)' BY <1>1, <2>1 DEF Begins, Active
  <2> QED BY <1>1, <2>2 DEF Begins, Claims
<1>2. ASSUME NEW r \in Runs, GoesOn(r) PROVE AbortReachesTheRun'
  <2>1. \A s \in Runs : Active(s)' => Active(s) BY <1>2 DEF GoesOn, Active
  <2>2. CASE UNCHANGED agent BY <2>1, <2>2 DEF agent
  <2>3. CASE Active(r) /\ ~Active(r)' BY <2>1, <2>3
  <2>4. CASE ~Active(r) /\ ctl = r BY <2>1, <2>4
  <2> QED BY <1>2, <2>2, <2>3, <2>4 DEF GoesOn
<1>3. CASE UNCHANGED agent /\ \A s \in Runs : run'[s] = run[s]
  BY <1>3 DEF agent, Active
<1> QED BY <1>1, <1>2, <1>3, KindsOfSteps

\* No two loops write one transcript, and abort() reaches the one that does.
THEOREM ReachesTheRun == Spec => []AbortReachesTheRun
<1>1. TypeOK /\ AbortReachesTheRun /\ [Next]_vars => AbortReachesTheRun' BY ReachKept
<1> QED BY <1>1, ReachInit, Types, PTL DEF Spec

-----------------------------------------------------------------------------
\* An aborted run leaves the queues alone.

LEMMA AppendKeeps ==
  ASSUME NEW S, NEW q \in Seq(S), NEW m \in S
  PROVE  InSeq(Append(q, m)) = InSeq(q) \cup {m}
<1>1. /\ Append(q, m) \in Seq(S) /\ Len(Append(q, m)) = Len(q) + 1
      /\ \A i \in 1..Len(q) : Append(q, m)[i] = q[i]
      /\ Append(q, m)[Len(q) + 1] = m
  BY AppendProperties
<1>2. DOMAIN q = 1..Len(q) /\ DOMAIN Append(q, m) = 1..(Len(q) + 1) /\ Len(q) \in Nat
  BY <1>1, LenProperties
<1> QED BY <1>1, <1>2 DEF InSeq

LEMMA QueuesOfAborted ==
  ASSUME TypeOK, AbortReachesTheRun, [Next]_vars, ~TakeBack,
         NEW a \in Runs, Active(a), run[a].aborted
  PROVE  InSeq(steering) \cup InSeq(followUps) \subseteq InSeq(steering') \cup InSeq(followUps')
<1>1. \A r \in Runs : Active(r) => r = a BY DEF AbortReachesTheRun
<1>2. \A r \in Runs : Active(r) => Left(r, steering) = steering /\ Left(r, followUps) = followUps
  BY <1>1, Polled DEF TypeOK
<1>3. ASSUME NEW r \in Runs, \/ TakeSteering(r) \/ TakeFollowUps(r) \/ Poll(r)
                             \/ Boundary(r) \/ Yield(r) \/ Late(r)
      PROVE  UNCHANGED queues
  <2>1. Active(r)
    BY <1>3 DEF TakeSteering, TakeFollowUps, Poll, Boundary, Yield, Late, Active
  <2>2. CASE TakeSteering(r) BY <2>1, <2>2, <1>2 DEF TakeSteering, queues
  <2>3. CASE TakeFollowUps(r) BY <2>1, <2>3, <1>2 DEF TakeFollowUps, queues
  <2>4. CASE Poll(r) BY <2>1, <2>4, <1>2 DEF Poll, queues
  <2>5. CASE Boundary(r) BY <2>1, <2>5, <1>2 DEF Boundary, queues
  <2>6. CASE Yield(r) BY <2>1, <2>6, <1>2 DEF Yield, queues
  <2>7. CASE Late(r) BY <2>1, <2>7, <1>2 DEF Late, queues
  <2> QED BY <1>3, <2>2, <2>3, <2>4, <2>5, <2>6, <2>7
<1>4. ASSUME NEW r \in Runs,
             \/ \E p \in NextOf(Prompts) : Prompt(r, p)
             \/ Continue(r) \/ Retry(r) \/ Expire(r) \/ Resume(r) \/ Top(r) \/ Prepare(r)
             \/ Reply(r) \/ Call(r) \/ Detour(r) \/ Breaks(r) \/ HookThrows(r) \/ Leaks(r)
             \/ Tools(r) \/ AgentEnd(r) \/ Fails(r) \/ Close(r)
      PROVE  UNCHANGED queues
  BY <1>4 DEF Prompt, Continue, Retry, Expire, Resume, Top, Prepare, Reply, Call, Detour, Breaks,
              HookThrows, Leaks, Tools, AgentEnd, Fails, Close
<1>5. CASE Abort \/ UNCHANGED vars BY <1>5 DEF Abort, vars, queues
<1>6. CASE \E m \in NextOf(Steers) : Steer(m)
  <2>1. PICK m \in Steers : steering' = Append(steering, m) /\ followUps' = followUps
    BY <1>6, NextIsNew DEF Steer
  <2> QED BY <2>1, AppendKeeps DEF TypeOK
<1>7. CASE \E m \in NextOf(FollowUps) : FollowUp(m)
  <2>1. PICK m \in FollowUps : followUps' = Append(followUps, m) /\ steering' = steering
    BY <1>7, NextIsNew DEF FollowUp
  <2> QED BY <2>1, AppendKeeps DEF TypeOK
<1> QED BY <1>3, <1>4, <1>5, <1>6, <1>7 DEF Next, RunStep, queues

\* While an aborted run unwinds the queues lose only what the user takes back.
THEOREM QueuesKept == Spec => AbortKeepsQueues
<1>1. TypeOK /\ AbortReachesTheRun /\ [Next]_vars =>
        [(\E r \in Runs : Active(r) /\ run[r].aborted) =>
           \/ TakeBack
           \/ InSeq(steering) \cup InSeq(followUps)
                \subseteq InSeq(steering') \cup InSeq(followUps')]_vars
  BY QueuesOfAborted
<1> QED BY <1>1, Types, ReachesTheRun, PTL DEF Spec, AbortKeepsQueues

-----------------------------------------------------------------------------
\* Calls and their results.

\* The last word is a call.
Open(s) == s # <<>> /\ s[Len(s)] = "call"

\* Calls and results are paired, up to calls at the end.
Well(s) ==
  \A i \in DOMAIN s :
    /\ s[i] = "cut" => i < Len(s) /\ s[i + 1] = "result"
    /\ s[i] = "call" /\ i < Len(s) => s[i + 1] \in {"result", "error"} \cup Prompts
    /\ s[i] = "result" => i > 1 /\ s[i - 1] \in {"call", "cut"}

LEMMA WellConcat ==
  ASSUME NEW s \in Seq(Entries), NEW ms \in Seq(Entries), Well(s), Well(ms),
         Open(s) /\ ms # <<>> => ms[1] \in {"error"} \cup Prompts
  PROVE  /\ Well(s \o ms)
         /\ Open(s \o ms) => IF ms = <<>> THEN Open(s) ELSE Open(ms)
<1> DEFINE w == s \o ms
<1>1. /\ w \in Seq(Entries) /\ Len(w) = Len(s) + Len(ms)
      /\ \A i \in DOMAIN s : w[i] = s[i]
      /\ \A i \in DOMAIN ms : w[Len(s) + i] = ms[i]
  BY Concat
<1>2. /\ DOMAIN s = 1..Len(s) /\ DOMAIN ms = 1..Len(ms) /\ DOMAIN w = 1..Len(w)
      /\ Len(s) \in Nat /\ Len(ms) \in Nat
  BY <1>1, LenProperties
<1> HIDE DEF w
<1>3. ASSUME NEW i \in DOMAIN w
      PROVE  /\ w[i] = "cut" => i < Len(w) /\ w[i + 1] = "result"
             /\ w[i] = "call" /\ i < Len(w) => w[i + 1] \in {"result", "error"} \cup Prompts
             /\ w[i] = "result" => i > 1 /\ w[i - 1] \in {"call", "cut"}
  <2>1. CASE i < Len(s)
    <3>1. i \in DOMAIN s /\ i + 1 \in DOMAIN s /\ i < Len(w) BY <2>1, <1>1, <1>2
    <3>2. w[i] = s[i] /\ w[i + 1] = s[i + 1] BY <3>1, <1>1
    <3>3. i > 1 => i - 1 \in DOMAIN s BY <2>1, <1>2
    <3>4. i > 1 => w[i - 1] = s[i - 1] BY <3>3, <1>1
    <3> QED BY <2>1, <3>1, <3>2, <3>4 DEF Well
  <2>2. CASE i = Len(s)
    <3>1. i \in DOMAIN s /\ s # <<>> BY <2>2, <1>1, <1>2
    <3>2. w[i] = s[i] /\ s[i] # "cut" BY <2>2, <3>1, <1>1, <1>2 DEF Well
    <3>3. i > 1 => i - 1 \in DOMAIN s BY <2>2, <1>2
    <3>4. i > 1 => w[i - 1] = s[i - 1] BY <3>3, <1>1
    <3>5. ASSUME s[i] = "call", i < Len(w) PROVE w[i + 1] \in {"result", "error"} \cup Prompts
      <4>1. Len(ms) > 0 /\ 1 \in DOMAIN ms BY <2>2, <3>5, <1>1, <1>2
      <4>2. ms # <<>> BY <4>1
      <4>3. w[i + 1] = ms[1] BY <2>2, <4>1, <1>1
      <4> QED BY <2>2, <3>1, <3>5, <4>2, <4>3 DEF Open
    <3> QED BY <3>1, <3>2, <3>4, <3>5 DEF Well
  <2>3. CASE i > Len(s)
    <3> DEFINE j == i - Len(s)
    <3>1. j \in DOMAIN ms /\ i = Len(s) + j BY <2>3, <1>1, <1>2
    <3>2. w[i] = ms[j] BY <3>1, <1>1
    <3>3. i < Len(w) => j < Len(ms) /\ j + 1 \in DOMAIN ms /\ i + 1 = Len(s) + (j + 1)
      BY <3>1, <1>1, <1>2
    <3>4. i < Len(w) => w[i + 1] = ms[j + 1] BY <3>3, <1>1
    <3>5. j > 1 => i > 1 /\ j - 1 \in DOMAIN ms /\ i - 1 = Len(s) + (j - 1) BY <3>1, <1>1, <1>2
    <3>6. j > 1 => w[i - 1] = ms[j - 1] BY <3>5, <1>1
    <3>7. j < Len(ms) => i < Len(w) BY <3>1, <1>1, <1>2
    <3> HIDE DEF j
    <3> QED BY <3>1, <3>2, <3>3, <3>4, <3>5, <3>6, <3>7 DEF Well
  <2> QED BY <2>1, <2>2, <2>3, <1>1, <1>2
<1>4. Well(w) BY <1>3 DEF Well
<1>5. CASE ms = <<>>
  <2>1. w = s BY <1>5, ConcatEmptySeq DEF w
  <2> QED BY <1>4, <1>5, <2>1 DEF w
<1>6. CASE ms # <<>>
  <2>1. Len(ms) > 0 /\ Len(ms) \in DOMAIN ms BY <1>6, <1>2, EmptySeq
  <2>2. w[Len(w)] = ms[Len(ms)] BY <2>1, <1>1
  <2>3. Open(w) => Open(ms) BY <2>2, <1>6 DEF Open
  <2> QED BY <1>4, <1>6, <2>3 DEF w
<1> QED BY <1>5, <1>6

LEMMA WellResult ==
  ASSUME NEW s \in Seq(Entries), Well(s), Open(s)
  PROVE  Well(s \o <<"result">>) /\ ~Open(s \o <<"result">>)
<1> DEFINE w == s \o <<"result">>
<1>0. <<"result">> \in Seq(Entries) /\ DOMAIN <<"result">> = {1} /\ <<"result">>[1] = "result"
  BY DEF Entries, Kinds
<1>1. /\ w \in Seq(Entries) /\ Len(w) = Len(s) + 1
      /\ \A i \in DOMAIN s : w[i] = s[i]
      /\ w[Len(s) + 1] = "result"
  BY <1>0, Concat
<1>2. /\ DOMAIN s = 1..Len(s) /\ DOMAIN w = 1..(Len(s) + 1)
      /\ Len(s) \in Nat /\ Len(s) > 0
  BY <1>1, LenProperties, EmptySeq DEF Open
<1> HIDE DEF w
<1>3. ASSUME NEW i \in DOMAIN w
      PROVE  /\ w[i] = "cut" => i < Len(w) /\ w[i + 1] = "result"
             /\ w[i] = "call" /\ i < Len(w) => w[i + 1] \in {"result", "error"} \cup Prompts
             /\ w[i] = "result" => i > 1 /\ w[i - 1] \in {"call", "cut"}
  <2>1. CASE i < Len(s)
    <3>1. i \in DOMAIN s /\ i + 1 \in DOMAIN s /\ i < Len(w) BY <2>1, <1>1, <1>2
    <3>2. w[i] = s[i] /\ w[i + 1] = s[i + 1] BY <3>1, <1>1
    <3>3. i > 1 => i - 1 \in DOMAIN s BY <2>1, <1>2
    <3>4. i > 1 => w[i - 1] = s[i - 1] BY <3>3, <1>1
    <3> QED BY <2>1, <3>1, <3>2, <3>4 DEF Well
  <2>2. CASE i = Len(s)
    <3>1. i \in DOMAIN s /\ w[i] = "call" BY <2>2, <1>1, <1>2 DEF Open
    <3> QED BY <2>2, <3>1, <1>1
  <2>3. CASE i = Len(s) + 1
    <3>1. Len(s) \in DOMAIN s /\ i - 1 = Len(s) /\ i > 1 BY <2>3, <1>2
    <3>2. w[i - 1] = "call" BY <3>1, <1>1 DEF Open
    <3> QED BY <2>3, <3>1, <3>2, <1>1
  <2> QED BY <2>1, <2>2, <2>3, <1>1, <1>2
<1>4. Well(w) BY <1>3 DEF Well
<1>5. ~Open(w) BY <1>1 DEF Open
<1> QED BY <1>4, <1>5 DEF w

\* What the loop says at once.
LEMMA WellSaid ==
  /\ \A e \in {"reply", "error", "discarded", "call"} : <<e>> \in Seq(Entries) /\ Well(<<e>>)
  /\ \A e \in {"reply", "error", "discarded"} : ~Open(<<e>>)
  /\ \A e \in {"call", "cut"} :
       <<e, "result">> \in Seq(Entries) /\ Well(<<e, "result">>) /\ ~Open(<<e, "result">>)
  /\ Open(<<"call">>)
BY DEF Well, Open, Entries, Kinds

\* Messages of the user are none of these.
LEMMA WellMessages ==
  ASSUME NEW ms \in Seq(Messages)
  PROVE  ms \in Seq(Entries) /\ Well(ms) /\ ~Open(ms)
<1>1. \A i \in DOMAIN ms : ms[i] \in Messages BY LenProperties
<1>2. \A m \in Messages : m \notin {"cut", "call", "result"} BY MessagesAssumption DEF Kinds
<1>3. ms # <<>> => Len(ms) \in DOMAIN ms BY LenProperties, EmptySeq
<1> QED BY <1>1, <1>2, <1>3, MessagesAreEntries DEF Well, Open

\* What a loop with state k may rely on when the transcript is t.
Paired(k, t) ==
  /\ Well(k.ctx)
  /\ k.pc = "poll" => k.ctx # <<>> /\ (Open(k.ctx) => Open(t) /\ k.input = <<>>)
  /\ k.pc \in {"resume", "tools"} => Open(k.ctx) /\ Open(t) /\ k.input = <<>>
  /\ k.pc \in {"poll", "top", "asides", "prepare"} /\ Open(t) =>
       \/ k.input # <<>> /\ k.input[1] \in Prompts
       \/ k.pc = "poll" /\ Open(k.ctx)
  /\ k.pc \in {"takeSteering", "takeFollowUps", "poll"} => k.leaks = 0
  /\ k.pc \in {"top", "asides", "prepare"} => ~Open(k.ctx) /\ (k.leaks # 0 => ~Open(t))
  /\ k.pc \in {"takeSteering", "takeFollowUps", "stream", "recovered", "boundary", "yield",
               "late"} => ~Open(k.ctx) /\ ~Open(t) /\ k.input = <<>>

PairInv ==
  /\ Well(transcript)
  /\ \A r \in Runs : Active(r) => Paired(run[r], transcript)

LEMMA PairInit == Init => PairInv
BY DEF Init, PairInv, Active, NewRun, Well

\* The deferred events of messages keep the transcript well.
LEMMA EmitWell ==
  ASSUME TypeOK, NEW r \in Runs, Emit(r), Well(transcript),
         Open(transcript) /\ run[r].input # <<>> => run[r].input[1] \in Prompts
  PROVE  Well(transcript') /\ (Open(transcript') => run[r].input = <<>> /\ Open(transcript))
<1>1. run[r].input \in Seq(Messages) /\ transcript \in Seq(Entries) BY DEF TypeOK, RunRecord
<1>2. /\ run[r].input \in Seq(Entries) /\ Well(run[r].input) /\ ~Open(run[r].input)
  BY <1>1, WellMessages
<1>3. transcript' = transcript \o run[r].input BY DEF Emit
<1> QED BY <1>1, <1>2, <1>3, WellConcat

\* Nor does the last word of a turn that the gate stops break it.
LEMMA StopWell ==
  ASSUME TypeOK, NEW r \in Runs, Well(transcript), Well(run[r].ctx),
         Open(transcript) /\ run[r].input # <<>> => run[r].input[1] \in Prompts
  PROVE  /\ Well(transcript \o run[r].input \o GateStop(r))
         /\ Well(run[r].ctx \o GateStop(r))
<1>1. run[r].input \in Seq(Messages) /\ transcript \in Seq(Entries) /\ run[r].ctx \in Seq(Entries)
  BY DEF TypeOK, RunRecord
<1>2. /\ run[r].input \in Seq(Entries) /\ Well(run[r].input) /\ ~Open(run[r].input)
  BY <1>1, WellMessages
<1>3. Well(transcript \o run[r].input) /\ transcript \o run[r].input \in Seq(Entries)
  BY <1>1, <1>2, WellConcat, ConcatProperties
<1>4. GateStop(r) \in Seq(Entries) /\ Well(GateStop(r)) /\ (GateStop(r) # <<>> => GateStop(r)[1] = "error")
  <2>1. <<"error">> \in Seq(Entries) /\ Well(<<"error">>) BY WellSaid
  <2>2. <<>> \in Seq(Entries) /\ Well(<<>>) BY EmptySeq DEF Well
  <2> QED BY <2>1, <2>2 DEF GateStop
<1>5. \A w \in Seq(Entries) : Well(w) => Well(w \o GateStop(r))
  BY <1>4, WellConcat
<1> QED BY <1>1, <1>3, <1>5

\* Anything but a result can be said after anything but a call.
LEMMA SaysWell ==
  ASSUME NEW s \in Seq(Entries), Well(s), ~Open(s)
  PROVE  /\ \A e \in {"reply", "error", "discarded"} : Well(s \o <<e>>) /\ ~Open(s \o <<e>>)
         /\ \A e \in {"call", "cut"} : Well(s \o <<e, "result">>) /\ ~Open(s \o <<e, "result">>)
         /\ Well(s \o <<"call">>) /\ Open(s \o <<"call">>)
<1>1. \A e \in {"reply", "error", "discarded"} : Well(s \o <<e>>) /\ ~Open(s \o <<e>>)
  <2> TAKE e \in {"reply", "error", "discarded"}
  <2>1. <<e>> \in Seq(Entries) /\ Well(<<e>>) /\ ~Open(<<e>>) /\ <<e>> # <<>> BY WellSaid
  <2> QED BY <2>1, WellConcat
<1>2. \A e \in {"call", "cut"} : Well(s \o <<e, "result">>) /\ ~Open(s \o <<e, "result">>)
  <2> TAKE e \in {"call", "cut"}
  <2>1. /\ <<e, "result">> \in Seq(Entries) /\ Well(<<e, "result">>)
        /\ ~Open(<<e, "result">>) /\ <<e, "result">> # <<>>
    BY WellSaid
  <2> QED BY <2>1, WellConcat
<1>3. Well(s \o <<"call">>)
  <2>1. <<"call">> \in Seq(Entries) /\ Well(<<"call">>) BY WellSaid
  <2> QED BY <2>1, WellConcat
<1>4. Open(s \o <<"call">>)
  <2>1. s \o <<"call">> = Append(s, "call") BY AppendIsConcat DEF Entries, Kinds
  <2>2. "call" \in Entries BY DEF Entries, Kinds
  <2>3. /\ Append(s, "call") \in Seq(Entries) /\ Append(s, "call") # <<>>
        /\ Len(Append(s, "call")) = Len(s) + 1 /\ Append(s, "call")[Len(s) + 1] = "call"
    BY <2>2, AppendProperties
  <2> QED BY <2>1, <2>3 DEF Open
<1> QED BY <1>1, <1>2, <1>3, <1>4

\* A loop that ends says nothing more.
LEMMA PairedWhenEnding ==
  ASSUME NEW k, NEW t, Well(k.ctx), k.pc \in {"ending", "failing"}
  PROVE  Paired(k, t)
BY DEF Paired

\* It is enough to look at the run that takes the step.
LEMMA PairStep ==
  ASSUME TypeOK, AbortReachesTheRun, PairInv, NEW r \in Runs, Active(r),
         \A s \in Runs : s # r => run'[s] = run[s],
         Well(transcript'), Active(r)' => Paired(run'[r], transcript')
  PROVE  PairInv'
<1>1. \A s \in Runs : s # r => ~Active(s) BY DEF AbortReachesTheRun
<1>2. \A s \in Runs : s # r => ~Active(s)' BY <1>1 DEF Active
<1> QED BY <1>2 DEF PairInv

LEMMA After ==
  ASSUME TypeOK, NEW r \in Runs, NEW k, Becomes(r, k)
  PROVE  run'[r] = k /\ \A s \in Runs : s # r => run'[s] = run[s]
BY DEF Becomes, TypeOK

LEMMA SaysAfter ==
  ASSUME TypeOK, NEW r \in Runs, NEW k, NEW ms, Says(r, k, ms)
  PROVE  /\ run'[r] = [k EXCEPT !.ctx = @ \o ms] /\ transcript' = transcript \o ms
         /\ \A s \in Runs : s # r => run'[s] = run[s]
BY After DEF Says

\* A run begins with a paired context.
LEMMA PairBegin ==
  ASSUME TypeOK, AbortReachesTheRun, PairInv, NEW r \in Runs,
         \/ \E p \in NextOf(Prompts) : Prompt(r, p)
         \/ Continue(r) \/ Retry(r)
  PROVE  PairInv'
<1>1. \A s \in Runs : ~Active(s)
  BY DEF Prompt, Continue, Retry, Claims, AbortReachesTheRun
<1>2. SUFFICES /\ Well(transcript') /\ Paired(run'[r], transcript')
               /\ \A s \in Runs : s # r => run'[s] = run[s]
  <2>1. ASSUME \A s \in Runs : s # r => run'[s] = run[s], NEW s \in Runs, s # r PROVE ~Active(s)'
    BY <1>1, <2>1 DEF Active
  <2> QED BY <2>1 DEF PairInv
<1>t. transcript \in Seq(Entries) /\ Well(transcript) BY DEF TypeOK, PairInv
<1>3. ASSUME NEW p \in NextOf(Prompts), Prompt(r, p)
      PROVE  /\ Well(transcript') /\ Paired(run'[r], transcript')
             /\ \A s \in Runs : s # r => run'[s] = run[s]
  <2>1. p \in Prompts /\ p \in Messages /\ p \in Entries BY NextIsNew DEF Messages, Entries
  <2>2. /\ <<p>> \in Seq(Messages) /\ <<p>> # <<>> /\ <<p>>[1] = p
        /\ Append(transcript, p) = transcript \o <<p>> /\ Append(transcript, p) # <<>>
    BY <2>1, <1>t, AppendIsConcat, AppendProperties
  <2>3. Well(<<p>>) /\ ~Open(<<p>>) /\ <<p>> \in Seq(Entries) BY <2>2, WellMessages
  <2>4. Well(Append(transcript, p)) /\ ~Open(Append(transcript, p))
    BY <2>1, <2>2, <2>3, <1>t, WellConcat
  <2>5. /\ run'[r] = [NewRun EXCEPT !.pc = "poll", !.input = <<p>>, !.ctx = Append(transcript, p)]
        /\ \A s \in Runs : s # r => run'[s] = run[s]
    BY <1>3, After DEF Prompt
  <2>6. /\ run'[r].pc = "poll" /\ run'[r].input = <<p>> /\ run'[r].ctx = Append(transcript, p)
        /\ run'[r].leaks = 0
    BY <2>5 DEF NewRun
  <2>7. transcript' = transcript BY <1>3 DEF Prompt
  <2> QED BY <1>t, <2>1, <2>2, <2>4, <2>5, <2>6, <2>7 DEF Paired
<1>4. ASSUME Continue(r)
      PROVE  /\ Well(transcript') /\ Paired(run'[r], transcript')
             /\ \A s \in Runs : s # r => run'[s] = run[s]
  <2> DEFINE goes == transcript # <<>> /\ Last(transcript) \notin {"reply", "error", "discarded"}
  <2>1. /\ run'[r] = [NewRun EXCEPT !.pc = IF goes THEN "poll" ELSE "takeSteering",
                                    !.ctx = transcript]
        /\ \A s \in Runs : s # r => run'[s] = run[s]
    BY <1>4, After DEF Continue
  <2>2. /\ run'[r].pc = (IF goes THEN "poll" ELSE "takeSteering")
        /\ run'[r].ctx = transcript /\ run'[r].input = <<>> /\ run'[r].leaks = 0
    BY <2>1 DEF NewRun
  <2>3. transcript' = transcript BY <1>4 DEF Continue
  <2>4. CASE goes BY <1>t, <2>1, <2>2, <2>3, <2>4 DEF Paired
  <2>5. CASE ~goes
    <3>1. ~Open(transcript) BY <2>5 DEF Open, Last
    <3> QED BY <1>t, <2>1, <2>2, <2>3, <2>5, <3>1 DEF Paired
  <2> QED BY <2>4, <2>5
<1>5. ASSUME Retry(r)
      PROVE  /\ Well(transcript') /\ Paired(run'[r], transcript')
             /\ \A s \in Runs : s # r => run'[s] = run[s]
  <2>0. /\ transcript' = Front(transcript) /\ Len(transcript) > 1
        /\ transcript[Len(transcript) - 1] = "call"
    BY <1>5 DEF Retry, Front
  <2>1. transcript # <<>> BY <2>0, EmptySeq
  <2>2. /\ transcript' \in Seq(Entries) /\ Len(transcript') = Len(transcript) - 1
        /\ \A i \in DOMAIN transcript' : transcript'[i] = transcript[i]
    BY <2>0, <2>1, <1>t, FrontTyped
  <2>3. /\ DOMAIN transcript = 1..Len(transcript) /\ DOMAIN transcript' = 1..Len(transcript')
        /\ Len(transcript) \in Nat
    BY <1>t, <2>2, LenProperties
  <2>4. transcript' # <<>> /\ Open(transcript')
    <3>1. Len(transcript') \in DOMAIN transcript' BY <2>0, <2>2, <2>3
    <3>2. transcript'[Len(transcript')] = "call" BY <3>1, <2>0, <2>2
    <3>3. transcript' # <<>> BY <2>0, <2>2, <2>3
    <3> QED BY <3>2, <3>3 DEF Open
  <2>5. Well(transcript')
    <3> SUFFICES ASSUME NEW i \in DOMAIN transcript'
                 PROVE  /\ transcript'[i] = "cut" =>
                              i < Len(transcript') /\ transcript'[i + 1] = "result"
                        /\ transcript'[i] = "call" /\ i < Len(transcript') =>
                              transcript'[i + 1] \in {"result", "error"} \cup Prompts
                        /\ transcript'[i] = "result" =>
                              i > 1 /\ transcript'[i - 1] \in {"call", "cut"}
      BY DEF Well
    <3>1. i \in DOMAIN transcript /\ transcript'[i] = transcript[i] BY <2>0, <2>2, <2>3
    <3>2. i < Len(transcript') => i + 1 \in DOMAIN transcript' /\ i + 1 < Len(transcript)
      BY <2>0, <2>2, <2>3
    <3>3. i < Len(transcript') => transcript'[i + 1] = transcript[i + 1] BY <3>2, <2>2
    <3>4. i > 1 => i - 1 \in DOMAIN transcript' BY <2>0, <2>2, <2>3
    <3>5. i > 1 => transcript'[i - 1] = transcript[i - 1] BY <3>4, <2>2
    <3>6. ~(i < Len(transcript')) => i = Len(transcript) - 1 BY <2>0, <2>2, <2>3
    <3>7. transcript'[i] = "cut" => i < Len(transcript') BY <3>1, <3>6, <2>0
    <3>8. i < Len(transcript') => i < Len(transcript) BY <2>2, <2>3
    <3> QED BY <1>t, <3>1, <3>3, <3>5, <3>7, <3>8 DEF Well
  <2>6. /\ run'[r] = [NewRun EXCEPT !.pc = "poll", !.ctx = transcript']
        /\ \A s \in Runs : s # r => run'[s] = run[s]
    BY <1>5, After DEF Retry
  <2>7. /\ run'[r].pc = "poll" /\ run'[r].ctx = transcript' /\ run'[r].input = <<>>
        /\ run'[r].leaks = 0
    BY <2>6 DEF NewRun
  <2> QED BY <2>4, <2>5, <2>6, <2>7 DEF Paired
<1> QED BY <1>3, <1>4, <1>5

\* Up to the call of the model messages join the context and the transcript.
LEMMA PairBefore ==
  ASSUME TypeOK, AbortReachesTheRun, PairInv, NEW r \in Runs,
         \/ TakeSteering(r) \/ TakeFollowUps(r) \/ Poll(r) \/ Resume(r) \/ Top(r) \/ Prepare(r)
  PROVE  PairInv'
<1> DEFINE k == run[r]
<1>1. Active(r)
  BY DEF TakeSteering, TakeFollowUps, Poll, Resume, Top, Prepare, Active
<1>2. Well(transcript) /\ Paired(k, transcript) BY <1>1 DEF PairInv
<1>3. k \in RunRecord /\ transcript \in Seq(Entries) BY DEF TypeOK
<1>4. k.ctx \in Seq(Entries) /\ k.input \in Seq(Messages) /\ k.held \in Seq(Messages)
  BY <1>3 DEF RunRecord
<1>5. Take(r, steering) \in Seq(Messages) /\ Take(r, followUps) \in Seq(Messages)
  BY Polled, QueuedAreMessages DEF TypeOK
<1>6. ASSUME NEW ms \in Seq(Messages), ~Open(k.ctx)
      PROVE  /\ Well(k.ctx \o ms) /\ ~Open(k.ctx \o ms)
             /\ ms # <<>> => k.ctx \o ms # <<>>
  <2>1. ms \in Seq(Entries) /\ Well(ms) /\ ~Open(ms) BY WellMessages
  <2>2. Well(k.ctx) BY <1>2 DEF Paired
  <2>3. Well(k.ctx \o ms) /\ ~Open(k.ctx \o ms) BY <1>4, <1>6, <2>1, <2>2, WellConcat
  <2>4. ms # <<>> => k.ctx \o ms # <<>>
    <3>1. Len(k.ctx \o ms) = Len(k.ctx) + Len(ms) BY <1>4, <2>1, Concat
    <3> QED BY <3>1, <1>4, EmptySeq
  <2> QED BY <2>3, <2>4
<1>7. ASSUME TakeSteering(r) PROVE PairInv'
  <2> DEFINE ms == Take(r, steering)
  <2>0. k.pc = "takeSteering" /\ transcript' = transcript BY <1>7 DEF TakeSteering
  <2>1. ~Open(k.ctx) /\ ~Open(transcript) /\ k.input = <<>> /\ k.leaks = 0
    BY <2>0, <1>2 DEF Paired
  <2>2. CASE ms = <<>>
    <3>1. /\ run'[r] = [k EXCEPT !.pc = "takeFollowUps"]
          /\ \A s \in Runs : s # r => run'[s] = run[s]
      BY <1>7, <2>2, After DEF TakeSteering
    <3>2. /\ run'[r].pc = "takeFollowUps" /\ run'[r].ctx = k.ctx /\ run'[r].input = k.input
          /\ run'[r].leaks = k.leaks
      BY <3>1, <1>3 DEF RunRecord
    <3>3. Paired(run'[r], transcript') BY <3>2, <2>0, <2>1, <1>2 DEF Paired
    <3> QED BY <3>1, <3>3, <2>0, <1>1, <1>2, PairStep
  <2>3. CASE ms # <<>>
    <3>1. /\ run'[r] = [k EXCEPT !.pc = "poll", !.input = ms, !.ctx = @ \o ms, !.skip = TRUE]
          /\ \A s \in Runs : s # r => run'[s] = run[s]
      BY <1>7, <2>3, After DEF TakeSteering
    <3>2. run'[r].pc = "poll" /\ run'[r].ctx = k.ctx \o ms /\ run'[r].leaks = k.leaks
      BY <3>1, <1>3 DEF RunRecord
    <3>3. Paired(run'[r], transcript') BY <3>2, <2>0, <2>1, <2>3, <1>5, <1>6 DEF Paired
    <3> QED BY <3>1, <3>3, <2>0, <1>1, <1>2, PairStep
  <2> QED BY <2>2, <2>3
<1>8. ASSUME TakeFollowUps(r) PROVE PairInv'
  <2> DEFINE ms == Take(r, followUps)
  <2>0. k.pc = "takeFollowUps" /\ transcript' = transcript BY <1>8 DEF TakeFollowUps
  <2>1. ~Open(k.ctx) /\ ~Open(transcript) /\ k.input = <<>> /\ k.leaks = 0
    BY <2>0, <1>2 DEF Paired
  <2>2. CASE ms = <<>>
    <3>1. run'[r] = Closing /\ \A s \in Runs : s # r => run'[s] = run[s]
      BY <1>8, <2>2, After DEF TakeFollowUps
    <3>2. ~Active(r)' BY <3>1 DEF Active, Closing, NewRun
    <3> QED BY <3>1, <3>2, <2>0, <1>1, <1>2, PairStep
  <2>3. CASE ms # <<>>
    <3>1. /\ run'[r] = [k EXCEPT !.pc = "poll", !.input = ms, !.ctx = @ \o ms]
          /\ \A s \in Runs : s # r => run'[s] = run[s]
      BY <1>8, <2>3, After DEF TakeFollowUps
    <3>2. run'[r].pc = "poll" /\ run'[r].ctx = k.ctx \o ms /\ run'[r].leaks = k.leaks
      BY <3>1, <1>3 DEF RunRecord
    <3>3. Paired(run'[r], transcript') BY <3>2, <2>0, <2>1, <2>3, <1>5, <1>6 DEF Paired
    <3> QED BY <3>1, <3>3, <2>0, <1>1, <1>2, PairStep
  <2> QED BY <2>2, <2>3
<1>9. ASSUME k.pc \in {"poll", "top", "asides", "prepare"}, Emit(r)
      PROVE  /\ Well(transcript')
             /\ Open(transcript') => k.pc = "poll" /\ Open(k.ctx)
  BY <1>2, <1>9, EmitWell DEF Paired
<1>10. ASSUME Poll(r) PROVE PairInv'
  <2>0. k.pc = "poll" BY <1>10 DEF Poll
  <2>1. CASE k.expired
    <3>1. Emit(r) BY <1>10, <2>1 DEF Poll
    <3>2. /\ run'[r] = Ended([k EXCEPT !.input = <<>>], "deadline")
          /\ \A s \in Runs : s # r => run'[s] = run[s]
      BY <1>10, <2>1, After DEF Poll
    <3>3. run'[r].pc = "ending" /\ run'[r].ctx = k.ctx BY <3>2, <1>3 DEF RunRecord, Ended
    <3>4. Paired(run'[r], transcript') BY <3>3, <1>2, PairedWhenEnding DEF Paired
    <3> QED BY <3>1, <3>2, <3>4, <2>0, <1>1, <1>9, PairStep
  <2>2. CASE ~k.expired
    <3>0. transcript' = transcript BY <1>10, <2>2 DEF Poll
    <3>1. PICK ms : /\ run'[r] = [k EXCEPT !.pc = IF Last(k.ctx) = "call" THEN "resume" ELSE "top",
                                         !.skip = FALSE, !.held = ms]
                    /\ \A s \in Runs : s # r => run'[s] = run[s]
      BY <1>10, <2>2, After DEF Poll
    <3>2. /\ run'[r].pc = (IF Last(k.ctx) = "call" THEN "resume" ELSE "top")
          /\ run'[r].ctx = k.ctx /\ run'[r].input = k.input /\ run'[r].leaks = k.leaks
      BY <3>1, <1>3 DEF RunRecord
    <3>3. Last(k.ctx) = "call" <=> Open(k.ctx) BY <2>0, <1>2 DEF Paired, Open, Last
    <3>4. Paired(run'[r], transcript') BY <3>0, <3>2, <3>3, <2>0, <1>2 DEF Paired
    <3> QED BY <3>0, <3>1, <3>4, <1>1, <1>2, PairStep
  <2> QED BY <2>1, <2>2
<1>11. ASSUME Resume(r) PROVE PairInv'
  <2>0. k.pc = "resume" BY <1>11 DEF Resume
  <2>1. PICK n \in {[k EXCEPT !.pc = "top"], [Ended(k, "yielded") EXCEPT !.aborted = TRUE]} :
          Says(r, n, <<"result">>)
    BY <1>11 DEF Resume
  <2>2. n.pc \in {"top", "ending"} /\ n.ctx = k.ctx /\ n.input = k.input /\ DOMAIN n = DOMAIN k
    BY <2>1, <1>3 DEF RunRecord, Ended
  <2>3. /\ run'[r] = [n EXCEPT !.ctx = @ \o <<"result">>]
        /\ transcript' = transcript \o <<"result">>
        /\ \A s \in Runs : s # r => run'[s] = run[s]
    BY <2>1, SaysAfter, ZenonT(60)
  <2>4. /\ run'[r].pc \in {"top", "ending"} /\ run'[r].input = k.input
        /\ run'[r].ctx = k.ctx \o <<"result">>
    <3>1. <<>> \in Seq(Messages) BY EmptySeq
    <3>2. [k EXCEPT !.pc = "top"] \in RunRecord BY <1>3 DEF RunRecord, PCs
    <3>3. [Ended(k, "yielded") EXCEPT !.aborted = TRUE] \in RunRecord
      BY <1>3, <3>1 DEF RunRecord, PCs, Ended
    <3>4. n \in RunRecord BY <3>2, <3>3
    <3> QED BY <3>4, <2>2, <2>3 DEF RunRecord
  <2>5. Open(k.ctx) /\ Open(transcript) /\ Well(k.ctx) /\ k.input = <<>>
    BY <2>0, <1>2 DEF Paired
  <2>6. /\ Well(transcript') /\ ~Open(transcript')
        /\ Well(k.ctx \o <<"result">>) /\ ~Open(k.ctx \o <<"result">>)
    BY <2>3, <2>5, <1>2, <1>3, <1>4, WellResult
  <2>7. Paired(run'[r], transcript') BY <2>4, <2>5, <2>6 DEF Paired
  <2> QED BY <2>3, <2>6, <2>7, <1>1, PairStep
<1>12. ASSUME Top(r) PROVE PairInv'
  <2>0. k.pc \in {"top", "asides"} BY <1>12 DEF Top
  <2>1. CASE k.expired
    <3>1. Emit(r) BY <1>12, <2>1 DEF Top
    <3>2. /\ run'[r] = Ended([k EXCEPT !.input = <<>>], "deadline")
          /\ \A s \in Runs : s # r => run'[s] = run[s]
      BY <1>12, <2>1, After DEF Top
    <3>3. run'[r].pc = "ending" /\ run'[r].ctx = k.ctx BY <3>2, <1>3 DEF RunRecord, Ended
    <3>4. Paired(run'[r], transcript') BY <3>3, <1>2, PairedWhenEnding DEF Paired
    <3> QED BY <3>1, <3>2, <3>4, <2>0, <1>1, <1>9, PairStep
  <2>2. CASE ~k.expired
    <3>0. transcript' = transcript BY <1>12, <2>2 DEF Top
    <3>1. /\ run'[r] = [k EXCEPT !.pc = "prepare", !.input = @ \o k.held, !.ctx = @ \o k.held,
                                 !.held = <<>>]
          /\ \A s \in Runs : s # r => run'[s] = run[s]
      BY <1>12, <2>2, After DEF Top
    <3>2. /\ run'[r].pc = "prepare" /\ run'[r].ctx = k.ctx \o k.held
          /\ run'[r].input = k.input \o k.held /\ run'[r].leaks = k.leaks
      BY <3>1, <1>3 DEF RunRecord
    <3>3. /\ ~Open(k.ctx) /\ (Open(transcript) => k.input # <<>> /\ k.input[1] \in Prompts)
          /\ k.leaks # 0 => ~Open(transcript)
      BY <2>0, <1>2 DEF Paired
    <3>4. ASSUME k.input # <<>>
          PROVE  k.input \o k.held # <<>> /\ (k.input \o k.held)[1] = k.input[1]
      BY <3>4, <1>4, ConcatFirst
    <3>5. Paired(run'[r], transcript') BY <3>0, <3>2, <3>3, <3>4, <1>4, <1>6 DEF Paired
    <3> QED BY <3>0, <3>1, <3>5, <1>1, <1>2, PairStep
  <2> QED BY <2>1, <2>2
<1>s. ASSUME k.pc = "prepare"
       PROVE  /\ Well(transcript \o k.input \o GateStop(r))
              /\ Well(k.ctx \o GateStop(r))
  BY <1>2, <1>3, <1>s, StopWell DEF Paired
<1>13. ASSUME Prepare(r) PROVE PairInv'
  <2>0. k.pc = "prepare" BY <1>13 DEF Prepare
  <2>1. Well(k.ctx) /\ ~Open(k.ctx) BY <2>0, <1>2 DEF Paired
  <2>2. ASSUME OpenTurn(r) PROVE Well(transcript') /\ ~Open(transcript')
    <3>1. CASE TurnOpen(r)
      <4>1. ~Open(transcript) BY <3>1, <2>0, <1>2 DEF Paired, TurnOpen
      <4> QED BY <4>1, <3>1, <2>2, <1>2 DEF OpenTurn
    <3>2. CASE ~TurnOpen(r) BY <3>2, <2>0, <2>2, <1>9 DEF OpenTurn
    <3> QED BY <3>1, <3>2
  <2>3. CASE OpenTurn(r) /\ Becomes(r, [Opened(r) EXCEPT !.pc = "stream"])
    <3> DEFINE n == [Opened(r) EXCEPT !.pc = "stream"]
    <3>1. run'[r] = n /\ \A s \in Runs : s # r => run'[s] = run[s] BY <2>3, After
    <3>2. n.pc = "stream" /\ n.ctx = k.ctx /\ n.input = <<>>
      BY <1>3, Fields DEF NewRun, RunRecord
    <3> HIDE DEF n
    <3>3. Paired(run'[r], transcript') BY <3>1, <3>2, <2>1, <2>2, <2>3 DEF Paired
    <3> QED BY <3>1, <3>3, <2>2, <2>3, <1>1, PairStep
  <2>4. CASE /\ transcript' = transcript \o run[r].input \o GateStop(r)
             /\ Becomes(r, Ended(Stopped(r), "stopped"))
    <3> DEFINE n == Ended(Stopped(r), "stopped")
    <3>1. run'[r] = n /\ \A s \in Runs : s # r => run'[s] = run[s] BY <2>4, After
    <3>2. n.pc = "ending" /\ n.ctx = k.ctx \o GateStop(r)
      BY <1>3, Fields DEF NewRun, RunRecord, Ended
    <3> HIDE DEF n
    <3>3. Well(transcript') /\ Well(k.ctx \o GateStop(r)) BY <2>4, <2>0, <1>s
    <3>4. Paired(run'[r], transcript') BY <3>1, <3>2, <3>3, PairedWhenEnding
    <3> QED BY <3>1, <3>3, <3>4, <1>1, PairStep
  <2> QED BY <1>13, <2>3, <2>4 DEF Prepare
<1> QED BY <1>7, <1>8, <1>10, <1>11, <1>12, <1>13

\* What the call of the model and the tools say.
LEMMA PairDuring ==
  ASSUME TypeOK, AbortReachesTheRun, PairInv, NEW r \in Runs,
         \/ Reply(r) \/ Call(r) \/ Detour(r) \/ Breaks(r) \/ Leaks(r) \/ Tools(r)
  PROVE  PairInv'
<1> DEFINE k == run[r]
<1>1. Active(r) BY DEF Reply, Call, Detour, Breaks, Leaks, Tools, Active
<1>2. Well(transcript) /\ Paired(k, transcript) BY <1>1 DEF PairInv
<1>3. k \in RunRecord /\ transcript \in Seq(Entries) BY DEF TypeOK
<1>4. k.ctx \in Seq(Entries) BY <1>3 DEF RunRecord
<1>5. /\ Well(k.ctx)
      /\ k.pc \in {"stream", "recovered"} => ~Open(k.ctx) /\ ~Open(transcript) /\ k.input = <<>>
      /\ k.pc = "tools" => Open(k.ctx) /\ Open(transcript) /\ k.input = <<>>
  BY <1>2 DEF Paired
\* Whatever the loop goes on to, its state differs in other fields.
<1>6. ASSUME NEW n, NEW ms, Says(r, n, ms), k.pc \in {"stream", "recovered"},
             n.ctx = k.ctx, n.input = k.input, DOMAIN n = DOMAIN k,
             \/ /\ ms \in {<<"reply">>, <<"error">>, <<"call", "result">>, <<"cut", "result">>}
                /\ n.pc \in {"boundary", "ending", "failing"}
             \/ ms = <<"call">> /\ n.pc \in {"tools", "failing"}
      PROVE  PairInv'
  <2>1. /\ run'[r] = [n EXCEPT !.ctx = @ \o ms] /\ transcript' = transcript \o ms
        /\ \A s \in Runs : s # r => run'[s] = run[s]
    BY <1>6, SaysAfter
  <2>2. "ctx" \in DOMAIN n /\ "pc" \in DOMAIN n /\ "input" \in DOMAIN n
    BY <1>6, <1>3 DEF RunRecord
  <2>3. run'[r].pc = n.pc /\ run'[r].ctx = k.ctx \o ms /\ run'[r].input = <<>>
    BY <2>1, <2>2, <1>5, <1>6
  <2>4. CASE ms # <<"call">>
    <3>1. Well(transcript') /\ ~Open(transcript') /\ Well(k.ctx \o ms) /\ ~Open(k.ctx \o ms)
      BY <2>1, <2>4, <1>2, <1>3, <1>4, <1>5, <1>6, SaysWell
    <3>2. Paired(run'[r], transcript') BY <2>3, <2>4, <3>1, <1>6 DEF Paired
    <3> QED BY <2>1, <3>1, <3>2, <1>1, PairStep
  <2>5. CASE ms = <<"call">>
    <3>1. Well(transcript') /\ Open(transcript') /\ Well(k.ctx \o ms) /\ Open(k.ctx \o ms)
      BY <2>1, <2>5, <1>2, <1>3, <1>4, <1>5, <1>6, SaysWell
    <3>2. n.pc \in {"tools", "failing"} BY <1>6, <2>5
    <3>3. Paired(run'[r], transcript') BY <2>3, <3>1, <3>2 DEF Paired
    <3> QED BY <2>1, <3>1, <3>3, <1>1, PairStep
  <2> QED BY <2>4, <2>5
<1>r. /\ Replied(r) \in RunRecord /\ Replied(r).ctx = k.ctx /\ Replied(r).input = k.input
      /\ DOMAIN Replied(r) = DOMAIN k
      /\ Sampled(r) \in RunRecord /\ Sampled(r).ctx = k.ctx /\ Sampled(r).input = k.input
      /\ DOMAIN Sampled(r) = DOMAIN k
  BY <1>3, Fields DEF NewRun, RunRecord
<1>7. ASSUME Reply(r) PROVE PairInv'
  <2>1. PICK b \in BOOLEAN : Says(r, [Replied(r) EXCEPT !.pc = "boundary", !.more = b], <<"reply">>)
    BY <1>7 DEF Reply
  <2> DEFINE n == [Replied(r) EXCEPT !.pc = "boundary", !.more = b]
  <2>2. n.pc = "boundary" /\ n.ctx = k.ctx /\ n.input = k.input /\ DOMAIN n = DOMAIN k
    BY <1>r DEF RunRecord
  <2> HIDE DEF n
  <2> QED BY <1>7, <2>1, <2>2, <1>6 DEF Reply, n
<1>8. ASSUME Call(r) PROVE PairInv'
  <2> DEFINE n == [Replied(r) EXCEPT !.pc = "tools"]
             l == [Replied(r) EXCEPT !.pc = "boundary", !.more = ~run[r].expired]
  <2>1. Says(r, n, <<"call">>) \/ Says(r, l, <<"cut", "result">>) BY <1>8 DEF Call
  <2>2. /\ n.pc = "tools" /\ n.ctx = k.ctx /\ n.input = k.input /\ DOMAIN n = DOMAIN k
        /\ l.pc = "boundary" /\ l.ctx = k.ctx /\ l.input = k.input /\ DOMAIN l = DOMAIN k
    BY <1>r DEF RunRecord
  <2>3. k.pc \in {"stream", "recovered"} BY <1>8 DEF Call
  <2> HIDE DEF n, l
  <2> QED BY <2>1, <2>2, <2>3, <1>6
<1>9. ASSUME Detour(r) PROVE PairInv'
  <2> DEFINE d == Sampled(r)
             n == [d EXCEPT !.pc = "boundary", !.more = TRUE, !.forced = @ + 1]
  <2>1. Says(r, n, <<"call", "result">>) \/ Says(r, Failed(d), <<"call">>) BY <1>9 DEF Detour
  <2>2. /\ n.pc = "boundary" /\ n.ctx = k.ctx /\ n.input = k.input /\ DOMAIN n = DOMAIN k
        /\ Failed(d).pc = "failing" /\ Failed(d).ctx = k.ctx /\ Failed(d).input = k.input
        /\ DOMAIN Failed(d) = DOMAIN k
    BY <1>r DEF RunRecord, Failed
  <2>3. k.pc \in {"stream", "recovered"} BY <1>9 DEF Detour
  <2> HIDE DEF n, d
  <2> QED BY <2>1, <2>2, <2>3, <1>6
<1>10. ASSUME Breaks(r) PROVE PairInv'
  <2>1. PICK ms \in {<<"error">>, <<"cut", "result">>} : Says(r, Ended(run[r], "broken"), ms)
    BY <1>10 DEF Breaks
  <2>2. /\ Ended(k, "broken").pc = "ending" /\ Ended(k, "broken").ctx = k.ctx
        /\ Ended(k, "broken").input = k.input /\ DOMAIN Ended(k, "broken") = DOMAIN k
    BY <1>3 DEF RunRecord, Ended
  <2>3. k.pc = "stream" BY <1>10 DEF Breaks
  <2> QED BY <2>1, <2>2, <2>3, <1>6
<1>11. ASSUME Leaks(r) PROVE PairInv'
  <2>0. k.pc = "stream" BY <1>11 DEF Leaks
  <2>1. PICK n : /\ Becomes(r, n) /\ n.pc \in {"top", "yield", "recovered", "failing"}
                 /\ n.ctx = k.ctx /\ n.input = k.input
    <3> DEFINE n == [k EXCEPT !.leaks = @ + 1, !.pc = IF k.more THEN "top" ELSE "yield"]
               m == [k EXCEPT !.saved = @ + 1, !.leaks = 0, !.pc = "recovered"]
    <3>1. Becomes(r, n) \/ Becomes(r, m) \/ Becomes(r, Failed(k)) BY <1>11 DEF Leaks
    <3>2. /\ n.pc \in {"top", "yield"} /\ n.ctx = k.ctx /\ n.input = k.input
          /\ m.pc = "recovered" /\ m.ctx = k.ctx /\ m.input = k.input
      BY <1>3 DEF RunRecord
    <3>3. Failed(k).pc = "failing" /\ Failed(k).ctx = k.ctx /\ Failed(k).input = k.input
      BY <1>3 DEF RunRecord, Failed
    <3> HIDE DEF n, m
    <3> QED BY <3>1, <3>2, <3>3
  <2>2. run'[r] = n /\ \A s \in Runs : s # r => run'[s] = run[s] BY <2>1, After
  <2>3. transcript' = transcript \o <<"discarded">>
    BY <1>11, <1>3, AppendIsConcat DEF Leaks, Entries, Kinds
  <2>4. Well(transcript') /\ ~Open(transcript') BY <2>0, <2>3, <1>2, <1>3, <1>5, SaysWell
  <2>5. Paired(run'[r], transcript') BY <2>0, <2>1, <2>2, <2>4, <1>5 DEF Paired
  <2> QED BY <2>2, <2>4, <2>5, <1>1, PairStep
<1>12. ASSUME Tools(r) PROVE PairInv'
  <2>0. k.pc = "tools" BY <1>12 DEF Tools
  <2>1. PICK n : /\ Says(r, n, <<"result">>) /\ DOMAIN n = DOMAIN k
                 /\ n.pc = "boundary" /\ n.ctx = k.ctx /\ n.input = k.input
    <3> DEFINE after(y) == [k EXCEPT !.pc = "boundary", !.more = ~y, !.aborted = @ \/ y]
    <3>1. PICK y \in BOOLEAN : Says(r, after(y), <<"result">>) BY <1>12 DEF Tools
    <3>2. /\ after(y).pc = "boundary" /\ after(y).ctx = k.ctx /\ after(y).input = k.input
          /\ DOMAIN after(y) = DOMAIN k
      BY <1>3 DEF RunRecord
    <3> HIDE DEF after
    <3> QED BY <3>1, <3>2
  <2>2. /\ run'[r] = [n EXCEPT !.ctx = @ \o <<"result">>]
        /\ transcript' = transcript \o <<"result">>
        /\ \A s \in Runs : s # r => run'[s] = run[s]
    <3>1. Says(r, n, <<"result">>) BY <2>1
    <3>2. /\ transcript' = transcript \o <<"result">>
          /\ Becomes(r, [n EXCEPT !.ctx = n.ctx \o <<"result">>])
      BY <3>1 DEF Says
    <3> QED BY <3>2, After
  <2>a. "ctx" \in DOMAIN n /\ "pc" \in DOMAIN n /\ "input" \in DOMAIN n
    BY <2>1, <1>3 DEF RunRecord
  <2>3. /\ run'[r].pc = "boundary" /\ run'[r].ctx = k.ctx \o <<"result">>
        /\ run'[r].input = k.input
    BY <2>1, <2>2, <2>a
  <2>4. /\ Well(transcript') /\ ~Open(transcript')
        /\ Well(k.ctx \o <<"result">>) /\ ~Open(k.ctx \o <<"result">>)
    BY <2>0, <2>2, <1>2, <1>3, <1>4, <1>5, WellResult
  <2>5. Paired(run'[r], transcript') BY <2>0, <2>3, <2>4, <1>5 DEF Paired
  <2> QED BY <2>2, <2>4, <2>5, <1>1, PairStep
<1> QED BY <1>7, <1>8, <1>9, <1>10, <1>11, <1>12

\* The end of a turn and of a run; what fails between them.
LEMMA PairAfter ==
  ASSUME TypeOK, AbortReachesTheRun, PairInv, NEW r \in Runs,
         \/ Boundary(r) \/ Yield(r) \/ Late(r) \/ HookThrows(r)
         \/ AgentEnd(r) \/ Fails(r) \/ Close(r)
  PROVE  PairInv'
<1> DEFINE k == run[r]
<1>1. k \in RunRecord /\ transcript \in Seq(Entries) BY DEF TypeOK
<1>2. Well(transcript) /\ (Active(r) => Paired(k, transcript)) BY DEF PairInv
\* A run that is closed holds nothing, and nobody else is active.
<1>3. ASSUME Becomes(r, Closing) \/ Becomes(r, [NewRun EXCEPT !.pc = "over"]), Well(transcript')
      PROVE  PairInv'
  <2>1. ~Active(r)' /\ \A s \in Runs : s # r => run'[s] = run[s]
    <3>1. \A n : Becomes(r, n) => run'[r] = n /\ \A s \in Runs : s # r => run'[s] = run[s]
      BY After
    <3>2. run'[r].pc \in {"closing", "over"}
      BY <1>3, <3>1 DEF Closing, NewRun
    <3> QED BY <1>3, <3>1, <3>2 DEF Active
  <2>2. CASE Active(r) BY <2>1, <2>2, <1>3, PairStep
  <2>3. CASE ~Active(r)
    <3>1. SUFFICES ASSUME NEW s \in Runs, Active(s)' PROVE Paired(run'[s], transcript')
      BY <1>3 DEF PairInv
    <3>2. s # r /\ run'[s] = run[s] /\ Active(s) BY <2>1, <3>1 DEF Active
    <3>3. CASE transcript' = transcript BY <3>2, <3>3 DEF PairInv
    <3>4. CASE transcript' # transcript
      <4>1. HookThrows(r) \/ Fails(r)
        BY <3>4 DEF Boundary, Yield, Late, AgentEnd, Close
      <4>2. Active(r) BY <4>1 DEF HookThrows, Fails, Active
      <4> QED BY <4>2, <2>3
    <3> QED BY <3>3, <3>4
  <2> QED BY <2>2, <2>3
\* A step that says nothing.
<1>4. ASSUME NEW n, Becomes(r, n), k.pc \in {"boundary", "yield", "late"}, n.ctx = k.ctx,
             n.input = k.input, n.pc \in {"top", "asides", "yield", "late", "ending"},
             transcript' = transcript
      PROVE  PairInv'
  <2>1. Active(r) BY <1>4 DEF Active
  <2>2. run'[r] = n /\ \A s \in Runs : s # r => run'[s] = run[s] BY <1>4, After
  <2>3. Paired(run'[r], transcript') BY <2>1, <2>2, <1>2, <1>4 DEF Paired
  <2> QED BY <2>1, <2>2, <2>3, <1>2, <1>4, PairStep
<1>5. ASSUME Boundary(r) PROVE PairInv'
  <2> DEFINE ms == Take(r, steering)
             n == [k EXCEPT !.pc = Onward(k, ms), !.held = ms]
             e == Ended(k, "deadline")
  <2>1. (Becomes(r, n) \/ Becomes(r, e)) /\ k.pc = "boundary" /\ transcript' = transcript
    BY <1>5 DEF Boundary
  <2>2. /\ n.pc \in {"top", "asides", "yield"} /\ n.ctx = k.ctx /\ n.input = k.input
        /\ e.pc = "ending" /\ e.ctx = k.ctx /\ e.input = k.input
    BY <1>1 DEF RunRecord, Ended, Onward
  <2> HIDE DEF n, e
  <2> QED BY <2>1, <2>2, <1>4
<1>6. ASSUME Yield(r) PROVE PairInv'
  <2> DEFINE n == [k EXCEPT !.pc = "late", !.held = Take(r, steering)]
             e == Ended(k, "deadline")
  <2>1. (Becomes(r, n) \/ Becomes(r, e)) /\ k.pc = "yield" /\ transcript' = transcript
    BY <1>6 DEF Yield
  <2>2. /\ n.pc = "late" /\ n.ctx = k.ctx /\ n.input = k.input
        /\ e.pc = "ending" /\ e.ctx = k.ctx /\ e.input = k.input
    BY <1>1 DEF RunRecord, Ended
  <2> HIDE DEF n, e
  <2> QED BY <2>1, <2>2, <1>4
<1>7. ASSUME Late(r) PROVE PairInv'
  <2> DEFINE ms == k.held \o Take(r, followUps)
             n == [k EXCEPT !.pc = "top", !.held = ms, !.more = TRUE]
             e == Ended(k, IF k.aborted THEN "aborted" ELSE "normal")
  <2>1. (Becomes(r, n) \/ Becomes(r, e)) /\ k.pc = "late" /\ transcript' = transcript
    BY <1>7 DEF Late
  <2>2. /\ n.pc = "top" /\ n.ctx = k.ctx /\ n.input = k.input
        /\ e.pc = "ending" /\ e.ctx = k.ctx /\ e.input = k.input
    BY <1>1 DEF RunRecord, Ended
  <2> HIDE DEF n, e
  <2> QED BY <2>1, <2>2, <1>4
<1>8. ASSUME HookThrows(r) PROVE PairInv'
  <2>1. Active(r) /\ Paired(k, transcript) BY <1>8, <1>2 DEF HookThrows, Active
  <2>2. CASE Becomes(r, Closing) /\ transcript' = transcript BY <2>2, <1>2, <1>3
  <2>3. CASE /\ OpenTurn(r) /\ Becomes(r, Failed(Opened(r)))
             /\ k.pc \in {"poll", "prepare", "stream", "yield", "boundary", "asides", "late"}
    <3>1. Open(transcript) /\ k.input # <<>> => k.input[1] \in Prompts
      BY <2>1, <2>3 DEF Paired
    <3>2. Well(transcript') BY <2>3, <3>1, <1>2, EmitWell DEF OpenTurn
    <3>3. /\ run'[r] = Failed(Opened(r))
          /\ \A s \in Runs : s # r => run'[s] = run[s]
      BY <2>3, After
    <3>a. Opened(r) \in RunRecord /\ Opened(r).ctx = k.ctx BY <1>1, Fields DEF NewRun
    <3>4. run'[r].pc = "failing" /\ run'[r].ctx = k.ctx BY <3>a, <3>3 DEF RunRecord, Failed
    <3>5. Paired(run'[r], transcript') BY <3>4, <2>1, PairedWhenEnding DEF Paired
    <3> QED BY <2>1, <3>2, <3>3, <3>5, PairStep
  <2>5. CASE /\ k.pc = "prepare" /\ transcript' = transcript \o run[r].input \o GateStop(r)
             /\ Becomes(r, Failed(Stopped(r)))
    <3>1. Open(transcript) /\ k.input # <<>> => k.input[1] \in Prompts
      BY <2>1, <2>5 DEF Paired
    <3>2. Well(k.ctx) BY <2>1 DEF Paired
    <3>3. Well(transcript') /\ Well(k.ctx \o GateStop(r)) BY <2>5, <3>1, <3>2, <1>2, StopWell
    <3>4. /\ run'[r] = Failed(Stopped(r))
          /\ \A s \in Runs : s # r => run'[s] = run[s]
      BY <2>5, After
    <3>5. run'[r].pc = "failing" /\ run'[r].ctx = k.ctx \o GateStop(r)
      BY <3>4, <1>1, Fields DEF RunRecord, Failed
    <3>6. Paired(run'[r], transcript') BY <3>3, <3>5, PairedWhenEnding
    <3> QED BY <2>1, <3>3, <3>4, <3>6, PairStep
  <2>4. CASE Says(r, Failed(k), <<"result">>) /\ k.pc = "resume"
    <3> DEFINE n == Failed(k)
    <3>1. /\ n.pc = "failing" /\ n.ctx = k.ctx /\ "pc" \in DOMAIN n /\ "ctx" \in DOMAIN n
      BY <1>1 DEF RunRecord, Failed
    <3> HIDE DEF n
    <3>2. /\ run'[r] = [n EXCEPT !.ctx = @ \o <<"result">>]
          /\ transcript' = transcript \o <<"result">>
          /\ \A s \in Runs : s # r => run'[s] = run[s]
      BY <2>4, SaysAfter, ZenonT(60) DEF n
    <3>3. run'[r].pc = "failing" /\ run'[r].ctx = k.ctx \o <<"result">> BY <3>1, <3>2
    <3>4. Open(k.ctx) /\ Open(transcript) /\ Well(k.ctx) /\ k.ctx \in Seq(Entries)
      BY <2>1, <2>4, <1>1 DEF Paired, RunRecord
    <3>5. Well(transcript') /\ Well(k.ctx \o <<"result">>)
      BY <3>2, <3>4, <1>1, <1>2, WellResult
    <3>6. Paired(run'[r], transcript') BY <3>3, <3>5, PairedWhenEnding
    <3> QED BY <2>1, <3>2, <3>5, <3>6, PairStep
  <2> QED BY <1>8, <2>2, <2>3, <2>4, <2>5 DEF HookThrows
<1>9. ASSUME AgentEnd(r) PROVE PairInv'
  BY <1>2, <1>3, <1>9 DEF AgentEnd
<1>10. ASSUME Fails(r) PROVE PairInv'
  <2>1. <<"error">> \in Seq(Entries) /\ Well(<<"error">>) /\ <<"error">>[1] = "error"
    BY WellSaid
  <2>2. transcript' = transcript \o <<"error">>
    BY <1>10, <1>1, AppendIsConcat DEF Fails, Entries, Kinds
  <2>3. Well(transcript') BY <2>1, <2>2, <1>1, <1>2, WellConcat
  <2> QED BY <2>3, <1>3, <1>10 DEF Fails
<1>11. ASSUME Close(r) PROVE PairInv'
  BY <1>2, <1>3, <1>11 DEF Close
<1> QED BY <1>5, <1>6, <1>7, <1>8, <1>9, <1>10, <1>11

LEMMA PairKept == TypeOK /\ AbortReachesTheRun /\ PairInv /\ [Next]_vars => PairInv'
<1> SUFFICES ASSUME TypeOK, AbortReachesTheRun, PairInv, [Next]_vars PROVE PairInv'
  OBVIOUS
<1>1. ASSUME UNCHANGED <<transcript, run>> PROVE PairInv'
  BY <1>1 DEF PairInv, Active
\* A signal that fires changes nothing that pairing looks at.
<1>2. ASSUME NEW r \in Runs, NEW x \in BOOLEAN, transcript' = transcript,
             Becomes(r, [run[r] EXCEPT !.expired = x, !.aborted = TRUE])
      PROVE  PairInv'
  <2> DEFINE n == [run[r] EXCEPT !.expired = x, !.aborted = TRUE]
  <2>1. n.pc = run[r].pc /\ n.ctx = run[r].ctx /\ n.input = run[r].input /\ n.leaks = run[r].leaks
    BY DEF TypeOK, RunRecord
  <2> HIDE DEF n
  <2>2. run'[r] = n /\ \A s \in Runs : s # r => run'[s] = run[s] BY <1>2, After DEF n
  <2>3. Paired(run[r], transcript) => Paired(run'[r], transcript')
    BY <2>1, <2>2, <1>2 DEF Paired
  <2>4. Active(r)' <=> Active(r) BY <2>1, <2>2 DEF Active
  <2>5. ASSUME NEW s \in Runs, Active(s)' PROVE Paired(run'[s], transcript')
    BY <2>2, <2>3, <2>4, <2>5, <1>2 DEF PairInv, Active
  <2> QED BY <2>5, <1>2 DEF PairInv
<1>3. ASSUME NEW r \in Runs, RunStep(r) PROVE PairInv'
  BY <1>3, PairBefore, PairDuring, PairAfter DEF RunStep
<1>4. ASSUME NEW r \in Runs, Continue(r) \/ Retry(r) PROVE PairInv'
  BY <1>4, PairBegin
<1>5. ASSUME NEW r \in Runs, Expire(r) PROVE PairInv'
  BY <1>2, <1>5 DEF Expire
<1>6. ASSUME NEW r \in Runs, NEW p \in NextOf(Prompts), Prompt(r, p) PROVE PairInv'
  BY <1>6, PairBegin
<1>7. ASSUME Abort PROVE PairInv'
  <2>1. ctl \in Runs BY <1>7 DEF Abort, TypeOK
  <2>2. [run[ctl] EXCEPT !.expired = run[ctl].expired, !.aborted = TRUE]
          = [run[ctl] EXCEPT !.aborted = TRUE]
    BY <2>1 DEF TypeOK, RunRecord
  <2>3. run[ctl].expired \in BOOLEAN BY <2>1 DEF TypeOK, RunRecord
  <2> QED BY <2>1, <2>2, <2>3, <1>2, <1>7 DEF Abort
<1>8. ASSUME \/ \E m \in NextOf(Steers) : Steer(m)
             \/ \E m \in NextOf(FollowUps) : FollowUp(m)
             \/ TakeBack
      PROVE  PairInv'
  BY <1>1, <1>8 DEF Steer, FollowUp, TakeBack
<1>9. CASE UNCHANGED vars BY <1>1, <1>9 DEF vars
<1> QED BY <1>3, <1>4, <1>5, <1>6, <1>7, <1>8, <1>9 DEF Next

\* The calls the model is shown are followed by their results, but for those of a
\* reply a run gave up on: an error stands behind them when a soft requirement was
\* given up, the next prompt when the run was out of time before it could run them
\* again.  Steering and follow-ups, wherever they come from, never come between
\* (the comment on unpairedToolCallTail, agent-loop.ts).
THEOREM Pairing == Spec => []CallsArePaired
<1>1. Init => TypeOK /\ AbortReachesTheRun /\ PairInv BY TypeInit, ReachInit, PairInit
<1>2. TypeOK /\ AbortReachesTheRun /\ PairInv /\ [Next]_vars
        => (TypeOK /\ AbortReachesTheRun /\ PairInv)'
  BY TypeKept, ReachKept, PairKept
<1>3. TypeOK /\ PairInv => CallsArePaired
  <2> SUFFICES ASSUME TypeOK, PairInv, NEW r \in Runs, run[r].pc = "stream",
                      NEW i \in DOMAIN run[r].ctx
               PROVE  LET s == run[r].ctx IN
                      /\ s[i] = "cut" => i < Len(s) /\ s[i + 1] = "result"
                      /\ s[i] = "call" =>
                           i < Len(s) /\ s[i + 1] \in {"result", "error"} \cup Prompts
                      /\ s[i] = "result" => i > 1 /\ s[i - 1] \in {"call", "cut"}
    BY DEF CallsArePaired
  <2> DEFINE s == run[r].ctx
  <2>1. Well(s) /\ ~Open(s) BY DEF PairInv, Active, Paired
  <2>2. s \in Seq(Entries) BY DEF TypeOK, RunRecord
  <2>3. i \in 1..Len(s) /\ Len(s) \in Nat /\ s # <<>> BY <2>2, LenProperties
  <2>4. s[i] = "call" => i < Len(s) BY <2>1, <2>3 DEF Open
  <2> QED BY <2>1, <2>4 DEF Well
<1> QED BY <1>1, <1>2, <1>3, PTL DEF Spec

-----------------------------------------------------------------------------
\* The last word of a run.

\* What a loop with state k may rely on when the transcript is t.
Answering(k, t) ==
  /\ k.expired => k.aborted
  /\ /\ ~k.aborted
     /\ \/ k.pc = "boundary" /\ ~k.more
        \/ k.pc \in {"yield", "late"} /\ k.leaks = 0
     => Last(t) = "reply"
  /\ k.pc = "ending" /\ k.end = "normal" /\ k.leaks = 0 => Last(t) = "reply"

AnswerInv == \A r \in Runs : Active(r) => Answering(run[r], transcript)

LEMMA AnswerInit == Init => AnswerInv
BY DEF Init, AnswerInv, Active, NewRun

LEMMA AnswerStep ==
  ASSUME AbortReachesTheRun, NEW r \in Runs, Active(r),
         \A s \in Runs : s # r => run'[s] = run[s],
         Active(r)' => Answering(run'[r], transcript')
  PROVE  AnswerInv'
<1>1. \A s \in Runs : s # r => ~Active(s) BY DEF AbortReachesTheRun
<1>2. \A s \in Runs : s # r => ~Active(s)' BY <1>1 DEF Active
<1> QED BY <1>2 DEF AnswerInv

\* Saying something changes nothing of the loop but its context.
LEMMA SaysKeeps ==
  ASSUME TypeOK, NEW r \in Runs, NEW n, NEW ms, Says(r, n, ms), DOMAIN n = DOMAIN run[r]
  PROVE  /\ run'[r].pc = n.pc /\ run'[r].aborted = n.aborted /\ run'[r].expired = n.expired
         /\ run'[r].more = n.more /\ run'[r].leaks = n.leaks /\ run'[r].end = n.end
         /\ transcript' = transcript \o ms
         /\ \A s \in Runs : s # r => run'[s] = run[s]
<1>1. /\ run'[r] = [n EXCEPT !.ctx = @ \o ms] /\ transcript' = transcript \o ms
      /\ \A s \in Runs : s # r => run'[s] = run[s]
  <2>1. Becomes(r, [n EXCEPT !.ctx = @ \o ms]) /\ transcript' = transcript \o ms BY DEF Says
  <2> QED BY <2>1, After
<1>2. DOMAIN n = {"pc", "aborted", "expired", "input", "held", "ctx", "more", "skip", "leaks",
                  "saved", "forced", "muted", "end"}
  BY DEF TypeOK, RunRecord
<1> QED BY <1>1, <1>2

LEMMA AnswerBegin ==
  ASSUME TypeOK, AbortReachesTheRun, NEW r \in Runs,
         \/ \E p \in NextOf(Prompts) : Prompt(r, p)
         \/ Continue(r) \/ Retry(r)
  PROVE  AnswerInv'
<1>1. \A s \in Runs : ~Active(s)
  BY DEF Prompt, Continue, Retry, Claims, AbortReachesTheRun
<1>2. /\ run'[r].pc \in {"poll", "takeSteering"} /\ ~run'[r].expired
      /\ \A s \in Runs : s # r => run'[s] = run[s]
  <2>1. PICK n : Becomes(r, n) /\ n.pc \in {"poll", "takeSteering"} /\ ~n.expired
    <3> DEFINE told(c, i) == [NewRun EXCEPT !.pc = "poll", !.input = i, !.ctx = c]
               goes(c, pc) == [NewRun EXCEPT !.pc = pc, !.ctx = c]
    <3>1. \A c, i : told(c, i).pc = "poll" /\ ~told(c, i).expired BY DEF NewRun
    <3>2. \A c, pc : goes(c, pc).pc = pc /\ ~goes(c, pc).expired BY DEF NewRun
    <3>3. CASE \E p \in NextOf(Prompts) : Prompt(r, p)
      <4>1. \E c, i : Becomes(r, told(c, i)) BY <3>3 DEF Prompt
      <4> QED BY <4>1, <3>1
    <3>4. CASE Continue(r) \/ Retry(r)
      <4>1. \E c : \E pc \in {"poll", "takeSteering"} : Becomes(r, goes(c, pc))
        BY <3>4 DEF Continue, Retry
      <4> QED BY <4>1, <3>2
    <3> QED BY <3>3, <3>4
  <2> QED BY <2>1, After
<1>3. \A s \in Runs : s # r => ~Active(s)' BY <1>1, <1>2 DEF Active
<1>4. Answering(run'[r], transcript') BY <1>2 DEF Answering
<1> QED BY <1>3, <1>4 DEF AnswerInv

LEMMA AnswerDuring ==
  ASSUME TypeOK, AbortReachesTheRun, AnswerInv, NEW r \in Runs, RunStep(r), Active(r)
  PROVE  AnswerInv'
<1> DEFINE k == run[r]
<1>1. Answering(k, transcript) BY DEF AnswerInv
<1>2. k \in RunRecord /\ transcript \in Seq(Entries) BY DEF TypeOK
\* Where the last word does not matter.
<1>3. ASSUME run'[r].expired => run'[r].aborted,
             \/ run'[r].pc \notin {"boundary", "yield", "late", "ending"}
             \/ run'[r].pc = "boundary" /\ (run'[r].more \/ run'[r].aborted)
             \/ run'[r].pc = "yield" /\ run'[r].leaks # 0
             \/ run'[r].pc = "ending" /\ run'[r].end # "normal",
             \A s \in Runs : s # r => run'[s] = run[s]
      PROVE  AnswerInv'
  <2>1. Answering(run'[r], transcript') BY <1>3 DEF Answering
  <2> QED BY <2>1, <1>3, AnswerStep
<1>4. ASSUME NEW n, Becomes(r, n), n.expired => n.aborted,
             \/ n.pc \notin {"boundary", "yield", "late", "ending"}
             \/ n.pc = "yield" /\ n.leaks # 0
             \/ n.pc = "ending" /\ n.end # "normal"
      PROVE  AnswerInv'
  <2>1. run'[r] = n /\ \A s \in Runs : s # r => run'[s] = run[s] BY <1>4, After
  <2> QED BY <2>1, <1>3, <1>4
<1>5. ASSUME NEW n, NEW ms, Says(r, n, ms), DOMAIN n = DOMAIN k, n.expired => n.aborted,
             \/ n.pc \in {"top", "tools", "failing"}
             \/ n.pc = "boundary" /\ (n.more \/ n.aborted)
             \/ n.pc = "ending" /\ n.end # "normal"
      PROVE  AnswerInv'
  BY <1>5, <1>3, SaysKeeps
<1>6. k.expired => k.aborted BY <1>1 DEF Answering
\* What is kept of the loop's state.
<1>p. \A d \in {Opened(r), Stopped(r), Sampled(r), Replied(r)} :
         /\ d \in RunRecord /\ d.expired = k.expired /\ d.aborted = k.aborted
         /\ DOMAIN d = DOMAIN k
  <2>1. /\ Opened(r) \in RunRecord /\ Stopped(r) \in RunRecord
        /\ Sampled(r) \in RunRecord /\ Replied(r) \in RunRecord
    BY <1>2, Fields
  <2>2. \A d \in RunRecord : DOMAIN d = DOMAIN k BY <1>2 DEF RunRecord
  <2>3. {"expired", "aborted"} \subseteq DOMAIN NewRun BY DEF NewRun
  <2>4. /\ Opened(r).expired = k.expired /\ Opened(r).aborted = k.aborted
        /\ Stopped(r).expired = k.expired /\ Stopped(r).aborted = k.aborted
    BY <1>2, <2>3, Fields
  <2>5. /\ Sampled(r).expired = k.expired /\ Sampled(r).aborted = k.aborted
        /\ Replied(r).expired = k.expired /\ Replied(r).aborted = k.aborted
    BY <1>2, <2>3, Fields
  <2> QED BY <2>1, <2>2, <2>4, <2>5
<1>7. ASSUME NEW d, d \in {k, [k EXCEPT !.input = <<>>], Opened(r), Stopped(r), Sampled(r),
                           Replied(r)}
      PROVE  /\ d.expired = k.expired /\ d.aborted = k.aborted /\ DOMAIN d = DOMAIN k
             /\ \A why \in {"deadline", "stopped", "broken", "yielded"} :
                  /\ Ended(d, why).pc = "ending" /\ Ended(d, why).end = why
                  /\ Ended(d, why).expired = k.expired /\ Ended(d, why).aborted = k.aborted
                  /\ DOMAIN Ended(d, why) = DOMAIN k
             /\ Failed(d).pc = "failing" /\ DOMAIN Failed(d) = DOMAIN k
             /\ Failed(d).expired = k.expired /\ Failed(d).aborted = k.aborted
  <2>1. d \in RunRecord /\ d.expired = k.expired /\ d.aborted = k.aborted /\ DOMAIN d = DOMAIN k
    <3>1. CASE d \in {k, [k EXCEPT !.input = <<>>]}
      <4>1. <<>> \in Seq(Messages) BY EmptySeq
      <4> QED BY <4>1, <3>1, <1>2 DEF RunRecord
    <3> QED BY <3>1, <1>7, <1>p
  <2> QED BY <2>1 DEF RunRecord, Ended, Failed
<1>8. Closing.pc = "closing" /\ ~Closing.expired BY DEF Closing, NewRun
<1>9. ASSUME TakeSteering(r) \/ TakeFollowUps(r) PROVE AnswerInv'
  <2> DEFINE next == [k EXCEPT !.pc = "takeFollowUps"]
             told(ms) == [k EXCEPT !.pc = "poll", !.input = ms, !.ctx = @ \o ms, !.skip = TRUE]
             also(ms) == [k EXCEPT !.pc = "poll", !.input = ms, !.ctx = @ \o ms]
  <2>1. \/ Becomes(r, next) \/ Becomes(r, Closing)
        \/ \E ms : Becomes(r, told(ms)) \/ Becomes(r, also(ms))
    BY <1>9 DEF TakeSteering, TakeFollowUps
  <2>2. next.pc = "takeFollowUps" /\ next.expired = k.expired /\ next.aborted = k.aborted
    BY <1>2 DEF RunRecord
  <2>3. \A ms : /\ told(ms).pc = "poll" /\ also(ms).pc = "poll"
                /\ told(ms).expired = k.expired /\ told(ms).aborted = k.aborted
                /\ also(ms).expired = k.expired /\ also(ms).aborted = k.aborted
    BY <1>2 DEF RunRecord
  <2> HIDE DEF next, told, also
  <2> QED BY <2>1, <2>2, <2>3, <1>4, <1>6, <1>8
<1>10. ASSUME Poll(r) PROVE AnswerInv'
  <2>1. CASE k.expired BY <2>1, <1>4, <1>6, <1>7, <1>10 DEF Poll
  <2>2. CASE ~k.expired
    <3> DEFINE n(ms) == [k EXCEPT !.pc = IF Last(k.ctx) = "call" THEN "resume" ELSE "top",
                                  !.skip = FALSE, !.held = ms]
    <3>1. Becomes(r, n(<<>>)) \/ Becomes(r, n(Take(r, steering))) BY <1>10, <2>2 DEF Poll
    <3>2. \A ms : n(ms).pc \in {"resume", "top"} /\ ~n(ms).expired BY <1>2, <2>2 DEF RunRecord
    <3> HIDE DEF n
    <3> QED BY <3>1, <3>2, <1>4
  <2> QED BY <2>1, <2>2
<1>11. ASSUME Resume(r) PROVE AnswerInv'
  <2> DEFINE n == [k EXCEPT !.pc = "top"]
             e == [Ended(k, "yielded") EXCEPT !.aborted = TRUE]
  <2>1. Says(r, n, <<"result">>) \/ Says(r, e, <<"result">>) BY <1>11 DEF Resume
  <2>2. /\ n.pc = "top" /\ n.expired = k.expired /\ n.aborted = k.aborted /\ DOMAIN n = DOMAIN k
        /\ e.pc = "ending" /\ e.end = "yielded" /\ e.aborted /\ DOMAIN e = DOMAIN k
    BY <1>2 DEF RunRecord, Ended
  <2> HIDE DEF n, e
  <2> QED BY <2>1, <2>2, <1>5, <1>6
<1>12. ASSUME Top(r) PROVE AnswerInv'
  <2>1. CASE k.expired BY <2>1, <1>4, <1>6, <1>7, <1>12 DEF Top
  <2>2. CASE ~k.expired
    <3> DEFINE n == [k EXCEPT !.pc = "prepare", !.input = @ \o k.held, !.ctx = @ \o k.held,
                              !.held = <<>>]
    <3>1. Becomes(r, n) BY <1>12, <2>2 DEF Top
    <3>2. n.pc = "prepare" /\ ~n.expired BY <1>2, <2>2 DEF RunRecord
    <3> HIDE DEF n
    <3> QED BY <3>1, <3>2, <1>4
  <2> QED BY <2>1, <2>2
<1>13. ASSUME Prepare(r) PROVE AnswerInv'
  <2> DEFINE n == [Opened(r) EXCEPT !.pc = "stream"]
  <2>1. Becomes(r, n) \/ Becomes(r, Ended(Stopped(r), "stopped")) BY <1>13 DEF Prepare
  <2>2. n.pc = "stream" /\ n.expired = k.expired /\ n.aborted = k.aborted
    BY <1>p DEF RunRecord
  <2> HIDE DEF n
  <2> QED BY <2>1, <2>2, <1>4, <1>6, <1>7
\* A reply without calls is the last word, or the model is called again.
<1>14. ASSUME Reply(r) PROVE AnswerInv'
  <2> DEFINE n == [Replied(r) EXCEPT !.pc = "boundary", !.more = TRUE]
             l == [Replied(r) EXCEPT !.pc = "boundary", !.more = FALSE]
  <2>1. Says(r, n, <<"reply">>) \/ Says(r, l, <<"reply">>) BY <1>14 DEF Reply
  <2>2. /\ n.pc = "boundary" /\ n.more /\ DOMAIN n = DOMAIN k
        /\ n.expired = k.expired /\ n.aborted = k.aborted
        /\ l.pc = "boundary" /\ DOMAIN l = DOMAIN k
        /\ l.expired = k.expired /\ l.aborted = k.aborted
    BY <1>p DEF RunRecord
  <2> HIDE DEF n, l
  <2>3. CASE Says(r, n, <<"reply">>) BY <2>2, <2>3, <1>5, <1>6
  <2>4. CASE Says(r, l, <<"reply">>)
    <3>1. /\ run'[r].pc = "boundary" /\ (run'[r].expired => run'[r].aborted)
          /\ transcript' = transcript \o <<"reply">>
          /\ \A s \in Runs : s # r => run'[s] = run[s]
      BY <2>2, <2>4, <1>6, SaysKeeps
    <3>2. "reply" \in Entries BY DEF Entries, Kinds
    <3>3. transcript' = Append(transcript, "reply") BY <3>1, <3>2, <1>2, AppendIsConcat
    <3>4. Last(transcript') = "reply" BY <3>2, <3>3, <1>2, AppendProperties DEF Last
    <3>5. Answering(run'[r], transcript') BY <3>1, <3>4 DEF Answering
    <3> QED BY <3>1, <3>5, AnswerStep
  <2> QED BY <2>1, <2>3, <2>4
<1>15. ASSUME Call(r) PROVE AnswerInv'
  <2> DEFINE n == [Replied(r) EXCEPT !.pc = "tools"]
             l == [Replied(r) EXCEPT !.pc = "boundary", !.more = ~k.expired]
  <2>1. Says(r, n, <<"call">>) \/ Says(r, l, <<"cut", "result">>) BY <1>15 DEF Call
  <2>2. /\ n.pc = "tools" /\ n.expired = k.expired /\ n.aborted = k.aborted /\ DOMAIN n = DOMAIN k
        /\ l.pc = "boundary" /\ l.expired = k.expired /\ l.aborted = k.aborted
        /\ l.more = ~k.expired /\ DOMAIN l = DOMAIN k
    BY <1>p DEF RunRecord
  <2> HIDE DEF n, l
  <2> QED BY <2>1, <2>2, <1>5, <1>6
<1>16. ASSUME Detour(r) PROVE AnswerInv'
  <2> DEFINE d == Sampled(r)
             n == [d EXCEPT !.pc = "boundary", !.more = TRUE, !.forced = @ + 1]
  <2>1. Says(r, n, <<"call", "result">>) \/ Says(r, Failed(d), <<"call">>) BY <1>16 DEF Detour
  <2>2. /\ n.pc = "boundary" /\ n.more /\ n.expired = k.expired /\ n.aborted = k.aborted
        /\ DOMAIN n = DOMAIN k
    BY <1>p DEF RunRecord
  <2> HIDE DEF n
  <2> QED BY <2>1, <2>2, <1>5, <1>6, <1>7
<1>17. ASSUME Breaks(r) PROVE AnswerInv'
  <2>1. PICK ms : Says(r, Ended(k, "broken"), ms) BY <1>17 DEF Breaks
  <2> QED BY <2>1, <1>5, <1>6, <1>7
\* A run that goes on to its end from a leak has the leak on record.
<1>18. ASSUME Leaks(r) PROVE AnswerInv'
  <2> DEFINE n == [k EXCEPT !.leaks = @ + 1, !.pc = IF k.more THEN "top" ELSE "yield"]
             m == [k EXCEPT !.saved = @ + 1, !.leaks = 0, !.pc = "recovered"]
  <2>1. Becomes(r, n) \/ Becomes(r, m) \/ Becomes(r, Failed(k)) BY <1>18 DEF Leaks
  <2>2. /\ n.pc \in {"top", "yield"} /\ n.leaks # 0
        /\ n.expired = k.expired /\ n.aborted = k.aborted
    BY <1>2, BoundsAssumption DEF RunRecord
  <2>3. m.pc = "recovered" /\ m.expired = k.expired /\ m.aborted = k.aborted
    BY <1>2 DEF RunRecord
  <2> HIDE DEF n, m
  <2> QED BY <2>1, <2>2, <2>3, <1>4, <1>6, <1>7
<1>19. ASSUME Tools(r) PROVE AnswerInv'
  <2> DEFINE n(y) == [k EXCEPT !.pc = "boundary", !.more = ~y, !.aborted = @ \/ y]
  <2>1. PICK y \in BOOLEAN : Says(r, n(y), <<"result">>) BY <1>19 DEF Tools
  <2>2. /\ n(y).pc = "boundary" /\ n(y).more = ~y /\ (n(y).aborted <=> k.aborted \/ y)
        /\ n(y).expired = k.expired /\ DOMAIN n(y) = DOMAIN k
    BY <1>2 DEF RunRecord
  <2> HIDE DEF n
  <2> QED BY <2>1, <2>2, <1>5, <1>6
\* The run goes on to its end only if nothing keeps it.
<1>20. ASSUME Boundary(r) PROVE AnswerInv'
  <2>1. CASE k.expired
    <3>1. Becomes(r, Ended(k, "deadline")) BY <1>20, <2>1 DEF Boundary
    <3> QED BY <3>1, <1>4, <1>6, <1>7
  <2>2. CASE ~k.expired
    <3> DEFINE ms == Take(r, steering)
               n == [k EXCEPT !.pc = Onward(k, ms), !.held = ms]
    <3>1. Becomes(r, n) /\ k.pc = "boundary" /\ transcript' = transcript
      BY <1>20, <2>2 DEF Boundary
    <3>2. /\ n.pc \in {"top", "asides", "yield"} /\ (n.pc = "yield" => ~k.more)
          /\ ~n.expired /\ n.aborted = k.aborted
      BY <1>2, <2>2 DEF RunRecord, Onward
    <3> HIDE DEF n
    <3>3. run'[r] = n /\ \A s \in Runs : s # r => run'[s] = run[s] BY <3>1, After
    <3>4. Answering(run'[r], transcript') BY <3>1, <3>2, <3>3, <1>1 DEF Answering
    <3> QED BY <3>3, <3>4, AnswerStep
  <2> QED BY <2>1, <2>2
<1>21. ASSUME Yield(r) PROVE AnswerInv'
  <2>1. CASE k.expired
    <3>1. Becomes(r, Ended(k, "deadline")) BY <1>21, <2>1 DEF Yield
    <3> QED BY <3>1, <1>4, <1>6, <1>7
  <2>2. CASE ~k.expired
    <3> DEFINE n == [k EXCEPT !.pc = "late", !.held = Take(r, steering)]
    <3>1. Becomes(r, n) /\ k.pc = "yield" /\ transcript' = transcript
      BY <1>21, <2>2 DEF Yield
    <3>2. n.pc = "late" /\ ~n.expired /\ n.aborted = k.aborted /\ n.leaks = k.leaks
      BY <1>2, <2>2 DEF RunRecord
    <3> HIDE DEF n
    <3>3. run'[r] = n /\ \A s \in Runs : s # r => run'[s] = run[s] BY <3>1, After
    <3>4. Answering(run'[r], transcript') BY <3>1, <3>2, <3>3, <1>1 DEF Answering
    <3> QED BY <3>3, <3>4, AnswerStep
  <2> QED BY <2>1, <2>2
<1>22. ASSUME Late(r) PROVE AnswerInv'
  <2> DEFINE ms == k.held \o Take(r, followUps)
             why == IF k.aborted THEN "aborted" ELSE "normal"
             n == [k EXCEPT !.pc = "top", !.held = ms, !.more = TRUE]
             e == Ended(k, why)
  <2>1. (Becomes(r, n) \/ Becomes(r, e)) /\ k.pc = "late" /\ transcript' = transcript
    BY <1>22 DEF Late
  <2>2. /\ n.pc = "top" /\ n.expired = k.expired /\ n.aborted = k.aborted
        /\ e.pc = "ending" /\ e.expired = k.expired /\ e.aborted = k.aborted
        /\ e.leaks = k.leaks /\ (e.end = "normal" => ~k.aborted)
    BY <1>2 DEF RunRecord, Ended
  <2> HIDE DEF n, e
  <2>3. CASE Becomes(r, n) BY <2>2, <2>3, <1>4, <1>6
  <2>4. CASE Becomes(r, e)
    <3>1. run'[r] = e /\ \A s \in Runs : s # r => run'[s] = run[s] BY <2>4, After
    <3>2. Answering(run'[r], transcript') BY <2>1, <2>2, <3>1, <1>1 DEF Answering
    <3> QED BY <3>1, <3>2, AnswerStep
  <2> QED BY <2>1, <2>3, <2>4
<1>23. ASSUME HookThrows(r) PROVE AnswerInv'
  <2>1. \/ Becomes(r, Closing) \/ Becomes(r, Failed(Opened(r))) \/ Becomes(r, Failed(Stopped(r)))
        \/ Says(r, Failed(k), <<"result">>)
    BY <1>23 DEF HookThrows
  <2> QED BY <2>1, <1>4, <1>5, <1>6, <1>7, <1>8
<1>24. ASSUME AgentEnd(r) \/ Fails(r) PROVE AnswerInv'
  BY <1>4, <1>8, <1>24 DEF AgentEnd, Fails
<1>25. ~Close(r) BY DEF Close, Active
<1> QED BY <1>9, <1>10, <1>11, <1>12, <1>13, <1>14, <1>15, <1>16, <1>17, <1>18, <1>19, <1>20,
           <1>21, <1>22, <1>23, <1>24, <1>25 DEF RunStep

LEMMA AnswerKept == TypeOK /\ AbortReachesTheRun /\ AnswerInv /\ [Next]_vars => AnswerInv'
<1> SUFFICES ASSUME TypeOK, AbortReachesTheRun, AnswerInv, [Next]_vars PROVE AnswerInv'
  OBVIOUS
<1>1. ASSUME UNCHANGED <<transcript, run>> PROVE AnswerInv'
  BY <1>1 DEF AnswerInv, Active
<1>2. ASSUME NEW r \in Runs, NEW x \in BOOLEAN, transcript' = transcript,
             Becomes(r, [run[r] EXCEPT !.expired = x, !.aborted = TRUE])
      PROVE  AnswerInv'
  <2> DEFINE n == [run[r] EXCEPT !.expired = x, !.aborted = TRUE]
  <2>1. n.pc = run[r].pc /\ n.aborted /\ n.end = run[r].end /\ n.leaks = run[r].leaks
    BY DEF TypeOK, RunRecord
  <2> HIDE DEF n
  <2>2. run'[r] = n /\ \A s \in Runs : s # r => run'[s] = run[s] BY <1>2, After DEF n
  <2>3. Answering(run[r], transcript) => Answering(run'[r], transcript')
    BY <2>1, <2>2, <1>2 DEF Answering
  <2>4. Active(r)' <=> Active(r) BY <2>1, <2>2 DEF Active
  <2>5. ASSUME NEW s \in Runs, Active(s)' PROVE Answering(run'[s], transcript')
    BY <2>2, <2>3, <2>4, <2>5, <1>2 DEF AnswerInv, Active
  <2> QED BY <2>5 DEF AnswerInv
<1>3. ASSUME NEW r \in Runs, RunStep(r) PROVE AnswerInv'
  <2>1. CASE Active(r) BY <1>3, <2>1, AnswerDuring
  <2>2. CASE ~Active(r)
    <3>1. Close(r)
      BY <1>3, <2>2 DEF RunStep, Active, TakeSteering, TakeFollowUps, Poll, Resume, Top, Prepare,
         Reply, Call, Detour, Breaks, HookThrows, Leaks, Tools, Boundary, Yield, Late, AgentEnd,
         Fails
    <3>2. /\ run'[r] = [NewRun EXCEPT !.pc = "over"] /\ transcript' = transcript
          /\ \A s \in Runs : s # r => run'[s] = run[s]
      BY <3>1, After DEF Close
    <3>3. ~Active(r)' BY <3>2 DEF Active, NewRun
    <3> QED BY <3>2, <3>3 DEF AnswerInv, Active
  <2> QED BY <2>1, <2>2
<1>4. ASSUME NEW r \in Runs, Continue(r) \/ Retry(r) PROVE AnswerInv'
  BY <1>4, AnswerBegin
<1>5. ASSUME NEW r \in Runs, Expire(r) PROVE AnswerInv'
  BY <1>2, <1>5 DEF Expire
<1>6. ASSUME NEW r \in Runs, NEW p \in NextOf(Prompts), Prompt(r, p) PROVE AnswerInv'
  BY <1>6, AnswerBegin
<1>7. ASSUME Abort PROVE AnswerInv'
  <2>1. ctl \in Runs BY <1>7 DEF Abort, TypeOK
  <2>2. [run[ctl] EXCEPT !.expired = run[ctl].expired, !.aborted = TRUE]
          = [run[ctl] EXCEPT !.aborted = TRUE]
    BY <2>1 DEF TypeOK, RunRecord
  <2>3. run[ctl].expired \in BOOLEAN BY <2>1 DEF TypeOK, RunRecord
  <2> QED BY <2>1, <2>2, <2>3, <1>2, <1>7 DEF Abort
<1>8. ASSUME \/ \E m \in NextOf(Steers) : Steer(m)
             \/ \E m \in NextOf(FollowUps) : FollowUp(m)
             \/ TakeBack
      PROVE  AnswerInv'
  BY <1>1, <1>8 DEF Steer, FollowUp, TakeBack
<1>9. CASE UNCHANGED vars BY <1>1, <1>9 DEF vars
<1> QED BY <1>3, <1>4, <1>5, <1>6, <1>7, <1>8, <1>9 DEF Next

\* A run that comes to its end by itself has answered, however steering,
\* follow-ups, aborts and deadlines came in, unless a leaked reply kept it from
\* it (the end of runLoopBody).
THEOREM EndsWithReply == Spec => []AnsweredUnlessLeaked
<1>1. Init => TypeOK /\ AbortReachesTheRun /\ AnswerInv BY TypeInit, ReachInit, AnswerInit
<1>2. TypeOK /\ AbortReachesTheRun /\ AnswerInv /\ [Next]_vars
        => (TypeOK /\ AbortReachesTheRun /\ AnswerInv)'
  BY TypeKept, ReachKept, AnswerKept
<1>3. AnswerInv => AnsweredUnlessLeaked
  BY DEF AnswerInv, Answering, Active, AnsweredUnlessLeaked
<1> QED BY <1>1, <1>2, <1>3, PTL DEF Spec

-----------------------------------------------------------------------------
\* What is in the hands of a run.

\* Where a loop can hold messages: deferred ones only before the call of the
\* model, taken ones only between a poll and the top of the loop.
Hands(k) ==
  /\ k.input # <<>> => k.pc \in {"poll", "top", "prepare"}
  /\ k.held # <<>> => k.pc \in {"resume", "top", "asides", "late"}

HandsInv == \A r \in Runs : Hands(run[r])

LEMMA HandsInit == Init => HandsInv
BY DEF Init, HandsInv, Hands, NewRun

Queued == InSeq(steering) \cup InSeq(followUps)
Said == InSeq(transcript) \cap Messages
InHand(k) == InSeq(k.input) \cup InSeq(k.held)

\* The step is one of run r, which keeps its messages or breaks.
KeepsOrBreaks(r) ==
  /\ \A s \in Runs : s # r => run'[s] = run[s]
  /\ Hands(run'[r])
  /\ \A m \in Queued \cup Said \cup InHand(run[r]) :
       \/ m \in Queued' \cup Said' \cup InHand(run'[r])
       \/ /\ m \in InSeq(run[r].held)
          /\ run'[r].pc = "failing" \/ run'[r].end \in {"deadline", "yielded"}
       \/ m \in InSeq(run[r].input) /\ TurnOpen(r)

LEMMA EmptyHolds == InSeq(<<>>) = {}
BY EmptySeq DEF InSeq

LEMMA HoldsMessages ==
  ASSUME NEW ms \in Seq(Messages)
  PROVE  InSeq(ms) \subseteq Messages
BY ElementOfSeq, LenProperties DEF InSeq

LEMMA PollKeeps ==
  ASSUME NEW S, NEW q \in Seq(S), NEW r
  PROVE  InSeq(Take(r, q)) \cup InSeq(Left(r, q)) = InSeq(q)
<1> DEFINE t == Take(r, q)
           l == Left(r, q)
<1>1. t \in Seq(S) /\ l \in Seq(S) /\ t \o l = q BY Polled
<1> HIDE DEF t, l
<1>2. InSeq(t \o l) = InSeq(t) \cup InSeq(l)
  BY <1>1, Concat, ZenonT(60)
<1> QED BY <1>1, <1>2 DEF t, l

LEMMA EmitSays ==
  ASSUME TypeOK, NEW r \in Runs, Emit(r)
  PROVE  Said' = Said \cup InSeq(run[r].input)
<1>1. run[r].input \in Seq(Messages) /\ transcript \in Seq(Entries) BY DEF TypeOK, RunRecord
<1>2. InSeq(transcript') = InSeq(transcript) \cup InSeq(run[r].input)
  BY <1>1, MessagesAreEntries, Concat DEF Emit
<1> QED BY <1>1, <1>2, HoldsMessages DEF Said

LEMMA OpenSays ==
  ASSUME TypeOK, NEW r \in Runs, OpenTurn(r)
  PROVE  Said \subseteq Said' /\ (TurnOpen(r) \/ InSeq(run[r].input) \subseteq Said')
<1>1. CASE TurnOpen(r) BY <1>1 DEF OpenTurn, Said
<1>2. CASE ~TurnOpen(r) BY <1>2, EmitSays DEF OpenTurn
<1> QED BY <1>1, <1>2

LEMMA StopSays ==
  ASSUME TypeOK, NEW r \in Runs, transcript' = transcript \o run[r].input \o GateStop(r)
  PROVE  Said \cup InSeq(run[r].input) \subseteq Said'
<1>1. run[r].input \in Seq(Messages) /\ transcript \in Seq(Entries) BY DEF TypeOK, RunRecord
<1>2. GateStop(r) \in Seq(Entries) BY StopTyped
<1>3. /\ transcript \o run[r].input \in Seq(Entries)
      /\ InSeq(transcript \o run[r].input) = InSeq(transcript) \cup InSeq(run[r].input)
  BY <1>1, MessagesAreEntries, Concat
<1>4. InSeq(transcript') = InSeq(transcript \o run[r].input) \cup InSeq(GateStop(r))
  <2> DEFINE w == transcript \o run[r].input
             g == GateStop(r)
  <2>1. w \in Seq(Entries) /\ g \in Seq(Entries) /\ transcript' = w \o g BY <1>2, <1>3
  <2> HIDE DEF w, g
  <2>2. InSeq(w \o g) = InSeq(w) \cup InSeq(g) BY <2>1, Concat
  <2> QED BY <2>1, <2>2 DEF w, g
<1> QED BY <1>1, <1>3, <1>4, HoldsMessages DEF Said

LEMMA SaysMore ==
  ASSUME TypeOK, NEW r \in Runs, NEW n, NEW ms \in Seq(Entries), Says(r, n, ms),
         DOMAIN n = DOMAIN run[r]
  PROVE  /\ Said \subseteq Said'
         /\ run'[r].input = n.input /\ run'[r].held = n.held
         /\ run'[r].pc = n.pc /\ run'[r].end = n.end
         /\ \A s \in Runs : s # r => run'[s] = run[s]
<1>1. /\ run'[r] = [n EXCEPT !.ctx = @ \o ms] /\ transcript' = transcript \o ms
      /\ \A s \in Runs : s # r => run'[s] = run[s]
  BY SaysAfter
<1>2. InSeq(transcript) \subseteq InSeq(transcript') BY <1>1, Concat DEF TypeOK
<1>3. DOMAIN n = {"pc", "aborted", "expired", "input", "held", "ctx", "more", "skip", "leaks",
                  "saved", "forced", "muted", "end"}
  BY DEF TypeOK, RunRecord
<1> QED BY <1>1, <1>2, <1>3 DEF Said

LEMMA HandsDuring ==
  ASSUME TypeOK, AbortReachesTheRun, PairInv, HandsInv, NEW r \in Runs, RunStep(r)
  PROVE  KeepsOrBreaks(r)
<1> DEFINE k == run[r]
<1>1. k \in RunRecord /\ Hands(k) BY DEF TypeOK, HandsInv
<1>2. /\ k.input \in Seq(Messages) /\ k.held \in Seq(Messages)
      /\ steering \in Seq(Messages) /\ followUps \in Seq(Messages)
  BY <1>1, QueuedAreMessages DEF RunRecord, TypeOK
<1>3. k.input = <<>> => InSeq(k.input) = {} BY EmptyHolds
<1>4. k.held = <<>> => InSeq(k.held) = {} BY EmptyHolds
\* What is said leaves the queues and the hands of the run alone.
<1>5. ASSUME NEW n, NEW ms \in Seq(Entries), Says(r, n, ms), DOMAIN n = DOMAIN k,
             n.input = k.input, n.held = <<>>, k.input = <<>>,
             UNCHANGED queues,
             k.held = <<>> \/ n.pc = "failing" \/ n.end \in {"deadline", "yielded"}
      PROVE  KeepsOrBreaks(r)
  <2>1. /\ Said \subseteq Said' /\ run'[r].input = <<>> /\ run'[r].held = <<>>
        /\ run'[r].pc = n.pc /\ run'[r].end = n.end
        /\ \A s \in Runs : s # r => run'[s] = run[s]
    BY <1>5, SaysMore
  <2>2. Queued' = Queued BY <1>5 DEF Queued, queues
  <2> QED BY <1>3, <1>4, <1>5, <2>1, <2>2 DEF KeepsOrBreaks, Hands, InHand
\* The step moves messages from the queues to the hands, or says what is deferred.
<1>6. ASSUME NEW n, Becomes(r, n), Hands(n),
             \A m \in Queued \cup Said \cup InHand(k) :
               \/ m \in Queued' \cup Said' \cup InHand(n)
               \/ /\ m \in InSeq(k.held)
                  /\ n.pc = "failing" \/ n.end \in {"deadline", "yielded"}
               \/ m \in InSeq(k.input) /\ TurnOpen(r)
      PROVE  KeepsOrBreaks(r)
  BY <1>6, After DEF KeepsOrBreaks
<1>7. /\ "result" \in Entries /\ "call" \in Entries /\ "reply" \in Entries /\ "cut" \in Entries
      /\ "error" \in Entries
  BY DEF Entries, Kinds
<1>8. \A e, f \in Entries : <<e>> \in Seq(Entries) /\ <<e, f>> \in Seq(Entries) OBVIOUS
<1>9. ASSUME TakeSteering(r) PROVE KeepsOrBreaks(r)
  <2> DEFINE ms == Take(r, steering)
             next == [k EXCEPT !.pc = "takeFollowUps"]
             told == [k EXCEPT !.pc = "poll", !.input = ms, !.ctx = @ \o ms, !.skip = TRUE]
  <2>1. /\ k.input = <<>> /\ k.held = <<>> BY <1>1, <1>9 DEF TakeSteering, Hands
  <2>2. InSeq(ms) \cup InSeq(steering') = InSeq(steering) /\ followUps' = followUps
        /\ transcript' = transcript
    BY <1>2, <1>9, PollKeeps DEF TakeSteering
  <2>3. /\ next.pc = "takeFollowUps" /\ next.input = k.input /\ next.held = k.held
        /\ told.pc = "poll" /\ told.input = ms /\ told.held = k.held
    BY <1>1 DEF RunRecord
  <2>4. CASE ms = <<>>
    <3>1. Becomes(r, next) BY <1>9, <2>4 DEF TakeSteering
    <3>2. InSeq(ms) = {} BY <2>4, EmptyHolds
    <3> HIDE DEF next, ms
    <3> QED BY <1>3, <1>4, <1>6, <2>1, <2>2, <2>3, <3>1, <3>2 DEF Hands, Queued, Said, InHand
  <2>5. CASE ms # <<>>
    <3>1. Becomes(r, told) BY <1>9, <2>5 DEF TakeSteering
    <3> HIDE DEF told, ms
    <3> QED BY <1>3, <1>4, <1>6, <2>1, <2>2, <2>3, <3>1 DEF Hands, Queued, Said, InHand
  <2> QED BY <2>4, <2>5
<1>10. ASSUME TakeFollowUps(r) PROVE KeepsOrBreaks(r)
  <2> DEFINE ms == Take(r, followUps)
             told == [k EXCEPT !.pc = "poll", !.input = ms, !.ctx = @ \o ms]
  <2>1. /\ k.input = <<>> /\ k.held = <<>> BY <1>1, <1>10 DEF TakeFollowUps, Hands
  <2>2. InSeq(ms) \cup InSeq(followUps') = InSeq(followUps) /\ steering' = steering
        /\ transcript' = transcript
    BY <1>2, <1>10, PollKeeps DEF TakeFollowUps
  <2>3. /\ Closing.input = <<>> /\ Closing.held = <<>>
        /\ told.pc = "poll" /\ told.input = ms /\ told.held = k.held
    BY <1>1 DEF RunRecord, Closing, NewRun
  <2>4. CASE ms = <<>>
    <3>1. Becomes(r, Closing) BY <1>10, <2>4 DEF TakeFollowUps
    <3>2. InSeq(ms) = {} BY <2>4, EmptyHolds
    <3> HIDE DEF ms
    <3> QED BY <1>3, <1>4, <1>6, <2>1, <2>2, <2>3, <3>1, <3>2 DEF Hands, Queued, Said, InHand
  <2>5. CASE ms # <<>>
    <3>1. Becomes(r, told) BY <1>10, <2>5 DEF TakeFollowUps
    <3> HIDE DEF told, ms
    <3> QED BY <1>3, <1>4, <1>6, <2>1, <2>2, <2>3, <3>1 DEF Hands, Queued, Said, InHand
  <2> QED BY <2>4, <2>5
\* Deferred messages go on from the poll only when no call is open.
<1>11. ASSUME Poll(r) PROVE KeepsOrBreaks(r)
  <2>1. k.pc = "poll" /\ k.held = <<>> BY <1>1, <1>11 DEF Poll, Hands
  <2>2. Last(k.ctx) = "call" => k.input = <<>>
    <3>1. Active(r) BY <2>1 DEF Active
    <3>2. Paired(k, transcript) BY <3>1 DEF PairInv
    <3> QED BY <2>1, <3>2 DEF Paired, Open, Last
  <2>3. CASE k.expired
    <3> DEFINE d == [k EXCEPT !.input = <<>>]
               n == Ended(d, "deadline")
    <3>1. Emit(r) /\ Becomes(r, n) /\ UNCHANGED queues BY <1>11, <2>3 DEF Poll, queues
    <3>2. n.input = <<>> /\ n.held = <<>> BY <1>1 DEF RunRecord, Ended
    <3> HIDE DEF n
    <3>3. Said' = Said \cup InSeq(k.input) BY <3>1, EmitSays
    <3> QED BY <1>4, <1>6, <2>1, <3>1, <3>2, <3>3 DEF Hands, Queued, queues, InHand
  <2>4. CASE ~k.expired
    <3> DEFINE n(ms) == [k EXCEPT !.pc = IF Last(k.ctx) = "call" THEN "resume" ELSE "top",
                                  !.skip = FALSE, !.held = ms]
    <3>1. /\ followUps' = followUps /\ transcript' = transcript
          /\ \/ Becomes(r, n(<<>>)) /\ steering' = steering
             \/ Becomes(r, n(Take(r, steering))) /\ steering' = Left(r, steering)
      BY <1>11, <2>4 DEF Poll
    <3>2. \A ms : /\ n(ms).pc \in {"resume", "top"} /\ n(ms).input = k.input /\ n(ms).held = ms
                  /\ n(ms).pc = "resume" => Last(k.ctx) = "call"
      BY <1>1 DEF RunRecord
    <3> HIDE DEF n
    <3>3. \A ms : Hands(n(ms)) BY <2>2, <3>2 DEF Hands
    <3>4. InSeq(Take(r, steering)) \cup InSeq(Left(r, steering)) = InSeq(steering)
      BY <1>2, PollKeeps
    <3>5. CASE Becomes(r, n(<<>>)) /\ steering' = steering
      BY <1>4, <1>6, <2>1, <3>1, <3>2, <3>3, <3>5 DEF Queued, Said, InHand
    <3>6. CASE Becomes(r, n(Take(r, steering))) /\ steering' = Left(r, steering)
      BY <1>4, <1>6, <2>1, <3>1, <3>2, <3>3, <3>4, <3>6 DEF Queued, Said, InHand
    <3> QED BY <3>1, <3>5, <3>6
  <2> QED BY <2>3, <2>4
<1>12. ASSUME Resume(r) PROVE KeepsOrBreaks(r)
  <2> DEFINE n == [k EXCEPT !.pc = "top"]
             e == [Ended(k, "yielded") EXCEPT !.aborted = TRUE]
  <2>1. /\ Says(r, n, <<"result">>) \/ Says(r, e, <<"result">>)
        /\ UNCHANGED queues /\ k.input = <<>>
    BY <1>1, <1>12 DEF Resume, Hands
  <2>2. /\ n.pc = "top" /\ n.input = k.input /\ n.held = k.held /\ DOMAIN n = DOMAIN k
        /\ e.end = "yielded" /\ e.input = k.input /\ e.held = <<>> /\ DOMAIN e = DOMAIN k
    BY <1>1 DEF RunRecord, Ended
  <2> HIDE DEF n, e
  <2>3. CASE Says(r, n, <<"result">>)
    <3>1. /\ Said \subseteq Said' /\ run'[r].input = k.input /\ run'[r].held = k.held
          /\ run'[r].pc = "top" /\ \A s \in Runs : s # r => run'[s] = run[s]
      BY <2>2, <2>3, <1>7, <1>8, SaysMore
    <3> QED BY <2>1, <3>1 DEF KeepsOrBreaks, Hands, InHand, Queued, queues
  <2>4. CASE Says(r, e, <<"result">>) BY <2>1, <2>2, <2>4, <1>5, <1>7, <1>8
  <2> QED BY <2>1, <2>3, <2>4
<1>13. ASSUME Top(r) PROVE KeepsOrBreaks(r)
  <2>1. CASE k.expired
    <3> DEFINE d == [k EXCEPT !.input = <<>>]
               n == Ended(d, "deadline")
    <3>1. Emit(r) /\ Becomes(r, n) /\ UNCHANGED queues BY <1>13, <2>1 DEF Top
    <3>2. n.input = <<>> /\ n.held = <<>> /\ n.end = "deadline" BY <1>1 DEF RunRecord, Ended
    <3> HIDE DEF n
    <3>3. Said' = Said \cup InSeq(k.input) BY <3>1, EmitSays
    <3> QED BY <1>6, <3>1, <3>2, <3>3 DEF Hands, Queued, queues, InHand
  <2>2. CASE ~k.expired
    <3> DEFINE n == [k EXCEPT !.pc = "prepare", !.input = @ \o k.held, !.ctx = @ \o k.held,
                              !.held = <<>>]
    <3>1. Becomes(r, n) /\ UNCHANGED queues /\ transcript' = transcript BY <1>13, <2>2 DEF Top
    <3>2. n.pc = "prepare" /\ n.input = k.input \o k.held /\ n.held = <<>> BY <1>1 DEF RunRecord
    <3> HIDE DEF n
    <3>3. InSeq(n.input) = InSeq(k.input) \cup InSeq(k.held) BY <1>2, <3>2, Concat
    <3> QED BY <1>6, <3>1, <3>2, <3>3 DEF Hands, Queued, queues, InHand, Said
  <2> QED BY <2>1, <2>2
<1>p. \A d \in {Opened(r), Stopped(r), Sampled(r), Replied(r)} :
        d \in RunRecord /\ d.held = k.held /\ DOMAIN d = DOMAIN k
  <2>1. /\ Opened(r) \in RunRecord /\ Stopped(r) \in RunRecord
        /\ Sampled(r) \in RunRecord /\ Replied(r) \in RunRecord
    BY <1>1, Fields
  <2>2. \A d \in RunRecord : DOMAIN d = DOMAIN k BY <1>1 DEF RunRecord
  <2>3. "held" \in DOMAIN NewRun BY DEF NewRun
  <2>4. /\ Opened(r).held = k.held /\ Stopped(r).held = k.held
        /\ Sampled(r).held = k.held /\ Replied(r).held = k.held
    BY <1>1, <2>3, Fields
  <2> QED BY <2>1, <2>2, <2>4
<1>i. /\ Opened(r).input = <<>> /\ Stopped(r).input = <<>>
      /\ Sampled(r).input = k.input /\ Replied(r).input = k.input
  <2>1. "input" \in DOMAIN NewRun BY DEF NewRun
  <2> QED BY <1>1, <2>1, Fields
<1>14. ASSUME Prepare(r) PROVE KeepsOrBreaks(r)
  <2> DEFINE n == [Opened(r) EXCEPT !.pc = "stream"]
             e == Ended(Stopped(r), "stopped")
  <2>1. /\ \/ OpenTurn(r) /\ Becomes(r, n)
           \/ transcript' = transcript \o k.input \o GateStop(r) /\ Becomes(r, e)
        /\ UNCHANGED queues /\ k.held = <<>>
    BY <1>1, <1>14 DEF Prepare, Hands
  <2>2. n.input = <<>> /\ n.held = k.held /\ e.input = <<>> /\ e.held = <<>>
    BY <1>p, <1>i DEF RunRecord, Ended
  <2> HIDE DEF n, e
  <2>3. CASE OpenTurn(r) /\ Becomes(r, n)
    <3>1. Said \subseteq Said' /\ (TurnOpen(r) \/ InSeq(k.input) \subseteq Said')
      BY <2>3, OpenSays
    <3> QED BY <1>4, <1>6, <2>1, <2>2, <2>3, <3>1 DEF Hands, Queued, queues, InHand
  <2>4. CASE transcript' = transcript \o k.input \o GateStop(r) /\ Becomes(r, e)
    <3>1. Said \cup InSeq(k.input) \subseteq Said' BY <2>4, StopSays
    <3> QED BY <1>4, <1>6, <2>1, <2>2, <2>4, <3>1 DEF Hands, Queued, queues, InHand
  <2> QED BY <2>1, <2>3, <2>4
<1>15. ASSUME Reply(r) PROVE KeepsOrBreaks(r)
  <2> DEFINE n(m) == [Replied(r) EXCEPT !.pc = "boundary", !.more = m]
  <2>0. UNCHANGED queues /\ k.input = <<>> /\ k.held = <<>> BY <1>1, <1>15 DEF Reply, Hands
  <2>1. Says(r, n(TRUE), <<"reply">>) \/ Says(r, n(FALSE), <<"reply">>) BY <1>15 DEF Reply
  <2>2. \A m : n(m).input = k.input /\ n(m).held = k.held /\ DOMAIN n(m) = DOMAIN k
    BY <1>p, <1>i DEF RunRecord
  <2> HIDE DEF n
  <2> QED BY <2>0, <2>1, <2>2, <1>5, <1>7, <1>8
<1>16. ASSUME Call(r) PROVE KeepsOrBreaks(r)
  <2> DEFINE n == [Replied(r) EXCEPT !.pc = "tools"]
             l == [Replied(r) EXCEPT !.pc = "boundary", !.more = ~k.expired]
  <2>1. /\ Says(r, n, <<"call">>) \/ Says(r, l, <<"cut", "result">>)
        /\ UNCHANGED queues /\ k.input = <<>> /\ k.held = <<>>
    BY <1>1, <1>16 DEF Call, Hands
  <2>2. /\ n.input = k.input /\ n.held = k.held /\ DOMAIN n = DOMAIN k
        /\ l.input = k.input /\ l.held = k.held /\ DOMAIN l = DOMAIN k
    BY <1>p, <1>i DEF RunRecord
  <2> HIDE DEF n, l
  <2> QED BY <2>1, <2>2, <1>5, <1>7, <1>8
<1>17. ASSUME Detour(r) PROVE KeepsOrBreaks(r)
  <2> DEFINE d == Sampled(r)
             n == [d EXCEPT !.pc = "boundary", !.more = TRUE, !.forced = @ + 1]
             e == Failed(d)
  <2>1. /\ Says(r, n, <<"call", "result">>) \/ Says(r, e, <<"call">>)
        /\ UNCHANGED queues /\ k.input = <<>> /\ k.held = <<>>
    BY <1>1, <1>17 DEF Detour, Hands
  <2>2. /\ n.input = k.input /\ n.held = k.held /\ DOMAIN n = DOMAIN k
        /\ e.input = k.input /\ e.held = <<>> /\ DOMAIN e = DOMAIN k
    BY <1>p, <1>i DEF RunRecord, Failed
  <2> HIDE DEF n, e
  <2> QED BY <2>1, <2>2, <1>5, <1>7, <1>8
<1>18. ASSUME Breaks(r) PROVE KeepsOrBreaks(r)
  <2> DEFINE e == Ended(k, "broken")
  <2>1. PICK ms \in {<<"error">>, <<"cut", "result">>} : Says(r, e, ms) BY <1>18 DEF Breaks
  <2>2. UNCHANGED queues /\ k.input = <<>> /\ k.held = <<>> BY <1>1, <1>18 DEF Breaks, Hands
  <2>3. e.input = k.input /\ e.held = <<>> /\ DOMAIN e = DOMAIN k BY <1>1 DEF RunRecord, Ended
  <2>4. ms \in Seq(Entries) BY <2>1, <1>7, <1>8
  <2> HIDE DEF e
  <2> QED BY <2>1, <2>2, <2>3, <2>4, <1>5
<1>19. ASSUME Leaks(r) PROVE KeepsOrBreaks(r)
  <2> DEFINE n == [k EXCEPT !.leaks = @ + 1, !.pc = IF k.more THEN "top" ELSE "yield"]
             m == [k EXCEPT !.saved = @ + 1, !.leaks = 0, !.pc = "recovered"]
             e == Failed(k)
  <2>1. /\ Becomes(r, n) \/ Becomes(r, m) \/ Becomes(r, e)
        /\ UNCHANGED queues /\ k.input = <<>> /\ k.held = <<>>
        /\ transcript' = Append(transcript, "discarded")
    BY <1>1, <1>19 DEF Leaks, Hands
  <2>2. /\ n.input = k.input /\ n.held = k.held /\ e.input = k.input /\ e.held = <<>>
        /\ m.input = k.input /\ m.held = k.held
    BY <1>1 DEF RunRecord, Failed
  <2> HIDE DEF n, m, e
  <2>3. "discarded" \in Entries BY DEF Entries, Kinds
  <2>4. Said \subseteq Said' BY <2>1, <2>3, AppendKeeps DEF Said, TypeOK
  <2> QED BY <1>3, <1>4, <1>6, <2>1, <2>2, <2>4 DEF Hands, Queued, queues, InHand
<1>20. ASSUME Tools(r) PROVE KeepsOrBreaks(r)
  <2> DEFINE n(y) == [k EXCEPT !.pc = "boundary", !.more = ~y, !.aborted = @ \/ y]
  <2>0. UNCHANGED queues /\ k.input = <<>> /\ k.held = <<>> BY <1>1, <1>20 DEF Tools, Hands
  <2>1. PICK y \in BOOLEAN : Says(r, n(y), <<"result">>) BY <1>20 DEF Tools
  <2>2. n(y).input = k.input /\ n(y).held = k.held /\ DOMAIN n(y) = DOMAIN k
    BY <1>1 DEF RunRecord
  <2> HIDE DEF n
  <2> QED BY <2>0, <2>1, <2>2, <1>5, <1>7, <1>8
<1>21. ASSUME Boundary(r) \/ Yield(r) PROVE KeepsOrBreaks(r)
  <2>1. k.input = <<>> /\ k.held = <<>> BY <1>1, <1>21 DEF Boundary, Yield, Hands
  <2>2. CASE k.expired
    <3> DEFINE n == Ended(k, "deadline")
    <3>1. Becomes(r, n) /\ UNCHANGED <<queues, transcript>>
      BY <1>21, <2>2 DEF Boundary, Yield, queues
    <3>2. n.input = k.input /\ n.held = <<>> BY <1>1 DEF RunRecord, Ended
    <3> HIDE DEF n
    <3> QED BY <1>3, <1>4, <1>6, <2>1, <3>1, <3>2 DEF Hands, Queued, queues, Said, InHand
  <2>3. CASE ~k.expired
    <3> DEFINE ms == Take(r, steering)
               b == [k EXCEPT !.pc = Onward(k, ms), !.held = ms]
               y == [k EXCEPT !.pc = "late", !.held = ms]
    <3>1. /\ Becomes(r, b) \/ Becomes(r, y)
          /\ steering' = Left(r, steering) /\ UNCHANGED <<followUps, transcript>>
      BY <1>21, <2>3 DEF Boundary, Yield
    <3>2. /\ b.pc \in {"top", "asides", "yield"} /\ (ms # <<>> => b.pc \in {"top", "asides"})
          /\ b.input = k.input /\ b.held = ms /\ y.pc = "late" /\ y.input = k.input /\ y.held = ms
      BY <1>1 DEF RunRecord, Onward
    <3>3. InSeq(ms) \cup InSeq(Left(r, steering)) = InSeq(steering) BY <1>2, PollKeeps
    <3> HIDE DEF b, y, ms
    <3> QED BY <1>3, <1>4, <1>6, <2>1, <3>1, <3>2, <3>3 DEF Hands, Queued, Said, InHand
  <2> QED BY <2>2, <2>3
<1>22. ASSUME Late(r) PROVE KeepsOrBreaks(r)
  <2> DEFINE fs == Take(r, followUps)
             ms == k.held \o fs
             n == [k EXCEPT !.pc = "top", !.held = ms, !.more = TRUE]
             e == Ended(k, IF k.aborted THEN "aborted" ELSE "normal")
  <2>1. /\ (ms # <<>> /\ Becomes(r, n)) \/ (ms = <<>> /\ Becomes(r, e))
        /\ followUps' = Left(r, followUps) /\ UNCHANGED <<steering, transcript>>
        /\ k.input = <<>>
    BY <1>1, <1>22 DEF Late, Hands
  <2>2. /\ n.pc = "top" /\ n.input = k.input /\ n.held = ms
        /\ e.input = k.input /\ e.held = <<>>
    BY <1>1 DEF RunRecord, Ended
  <2>3. InSeq(fs) \cup InSeq(Left(r, followUps)) = InSeq(followUps) BY <1>2, PollKeeps
  <2>4. InSeq(ms) = InSeq(k.held) \cup InSeq(fs)
    <3>1. fs \in Seq(Messages) BY <1>2, Polled
    <3> HIDE DEF fs
    <3> QED BY <1>2, <3>1, Concat
  <2>5. ms = <<>> => InSeq(ms) = {} BY EmptyHolds
  <2> HIDE DEF n, e, ms, fs
  <2> QED BY <1>3, <1>6, <2>1, <2>2, <2>3, <2>4, <2>5 DEF Hands, Queued, Said, InHand
<1>23. ASSUME HookThrows(r) PROVE KeepsOrBreaks(r)
  <2> DEFINE n == Failed(Opened(r))
             l == Failed(Stopped(r))
             e == Failed(k)
  <2>1. UNCHANGED queues
    BY <1>23 DEF HookThrows
  <2>2. /\ Closing.input = <<>> /\ Closing.held = <<>>
        /\ n.pc = "failing" /\ n.input = <<>> /\ n.held = <<>>
        /\ l.pc = "failing" /\ l.input = <<>> /\ l.held = <<>>
        /\ e.pc = "failing" /\ e.input = k.input /\ e.held = <<>> /\ DOMAIN e = DOMAIN k
    BY <1>1, <1>p, <1>i DEF RunRecord, Failed, Closing, NewRun
  <2>3. \/ /\ k.pc \in {"takeSteering", "takeFollowUps"} /\ Becomes(r, Closing)
           /\ transcript' = transcript
        \/ OpenTurn(r) /\ Becomes(r, n)
        \/ transcript' = transcript \o k.input \o GateStop(r) /\ Becomes(r, l)
        \/ k.pc = "resume" /\ Says(r, e, <<"result">>)
    BY <1>23 DEF HookThrows
  <2> HIDE DEF n, l, e
  <2>4. CASE /\ k.pc \in {"takeSteering", "takeFollowUps"} /\ Becomes(r, Closing)
             /\ transcript' = transcript
    <3>1. k.input = <<>> /\ k.held = <<>> BY <1>1, <2>4 DEF Hands
    <3> QED BY <1>3, <1>4, <1>6, <2>1, <2>2, <2>4, <3>1 DEF Hands, Queued, queues, Said, InHand
  <2>5. CASE OpenTurn(r) /\ Becomes(r, n)
    <3>1. Said \subseteq Said' /\ (TurnOpen(r) \/ InSeq(k.input) \subseteq Said')
      BY <2>5, OpenSays
    <3> QED BY <1>6, <2>1, <2>2, <2>5, <3>1 DEF Hands, Queued, queues, InHand
  <2>6. CASE transcript' = transcript \o k.input \o GateStop(r) /\ Becomes(r, l)
    <3>1. Said \cup InSeq(k.input) \subseteq Said' BY <2>6, StopSays
    <3> QED BY <1>6, <2>1, <2>2, <2>6, <3>1 DEF Hands, Queued, queues, InHand
  <2>7. CASE k.pc = "resume" /\ Says(r, e, <<"result">>)
    <3>1. k.input = <<>> BY <1>1, <2>7 DEF Hands
    <3> QED BY <1>5, <1>7, <1>8, <2>1, <2>2, <2>7, <3>1
  <2> QED BY <2>3, <2>4, <2>5, <2>6, <2>7
<1>24. ASSUME AgentEnd(r) \/ Fails(r) \/ Close(r) PROVE KeepsOrBreaks(r)
  <2> DEFINE o == [NewRun EXCEPT !.pc = "over"]
  <2>1. /\ Becomes(r, Closing) \/ Becomes(r, o)
        /\ UNCHANGED queues /\ k.input = <<>> /\ k.held = <<>>
        /\ transcript' = transcript \/ transcript' = Append(transcript, "error")
    BY <1>1, <1>24 DEF AgentEnd, Fails, Close, Hands
  <2>2. Closing.input = <<>> /\ Closing.held = <<>> /\ o.input = <<>> /\ o.held = <<>>
    BY DEF Closing, NewRun
  <2>3. Said \subseteq Said' BY <2>1, <1>7, AppendKeeps DEF Said, TypeOK
  <2> HIDE DEF o
  <2> QED BY <1>3, <1>4, <1>6, <2>1, <2>2, <2>3 DEF Hands, Queued, queues, InHand
<1> QED BY <1>9, <1>10, <1>11, <1>12, <1>13, <1>14, <1>15, <1>16, <1>17, <1>18, <1>19, <1>20,
           <1>21, <1>22, <1>23, <1>24 DEF RunStep

\* A run that begins has nothing in hand yet, and what a host strips off are
\* results.
LEMMA HandsBegin ==
  ASSUME TypeOK, HandsInv, NEW r \in Runs,
         \/ \E p \in NextOf(Prompts) : Prompt(r, p)
         \/ Continue(r) \/ Retry(r)
  PROVE  KeepsOrBreaks(r)
<1> DEFINE told(c, i) == [NewRun EXCEPT !.pc = "poll", !.input = i, !.ctx = c]
           goes(c, pc) == [NewRun EXCEPT !.pc = pc, !.ctx = c]
<1>1. /\ \A c, i : told(c, i).pc = "poll" /\ told(c, i).held = <<>>
      /\ \A c, pc : goes(c, pc).held = <<>> /\ goes(c, pc).input = <<>>
  BY DEF NewRun
<1>2. run[r].input = <<>> /\ run[r].held = <<>>
  <2>1. Claims(r) BY DEF Prompt, Continue, Retry
  <2> QED BY <2>1 DEF HandsInv, Hands, Claims
<1>3. UNCHANGED queues
  <2>1. CASE \E p \in NextOf(Prompts) : Prompt(r, p) BY <2>1 DEF Prompt
  <2>2. CASE Continue(r) BY <2>2 DEF Continue
  <2>3. CASE Retry(r) BY <2>3 DEF Retry
  <2> QED BY <2>1, <2>2, <2>3
<1>4. Said \subseteq Said'
  <2>1. CASE transcript' = transcript BY <2>1 DEF Said
  <2>2. CASE Retry(r)
    <3>1. /\ transcript # <<>> /\ transcript' = Front(transcript) /\ Last(transcript) = "result"
          /\ transcript \in Seq(Entries)
      BY <2>2, EmptySeq DEF Retry, Front, TypeOK
    <3>2. "result" \notin Messages BY MessagesAssumption DEF Kinds
    <3>3. ASSUME NEW m \in Said PROVE m \in InSeq(transcript')
      <4>1. PICK i \in DOMAIN transcript : m = transcript[i] BY <3>3 DEF Said, InSeq
      <4>2. i # Len(transcript) BY <3>1, <3>2, <3>3, <4>1 DEF Said, Last
      <4>3. /\ DOMAIN transcript = 1..Len(transcript) /\ Len(transcript) \in Nat
            /\ Front(transcript) \in Seq(Entries) /\ Len(Front(transcript)) = Len(transcript) - 1
        BY <3>1, FrontTyped
      <4>4. DOMAIN Front(transcript) = 1..(Len(transcript) - 1) BY <4>3, LenProperties
      <4>5. i \in DOMAIN Front(transcript) BY <4>1, <4>2, <4>3, <4>4
      <4>6. Front(transcript)[i] = m BY <3>1, <4>1, <4>5, FrontTyped
      <4> QED BY <3>1, <4>5, <4>6 DEF InSeq
    <3> QED BY <3>3 DEF Said
  <2>3. CASE \E p \in NextOf(Prompts) : Prompt(r, p) BY <2>1, <2>3 DEF Prompt
  <2>4. CASE Continue(r) BY <2>1, <2>4 DEF Continue
  <2> QED BY <2>2, <2>3, <2>4
<1>5. \/ \E c, i : Becomes(r, told(c, i))
      \/ \E c, pc : Becomes(r, goes(c, pc))
  <2>1. CASE \E p \in NextOf(Prompts) : Prompt(r, p)
    <3>1. \E c, i : Becomes(r, told(c, i)) BY <2>1 DEF Prompt
    <3> QED BY <3>1
  <2>2. CASE Continue(r) \/ Retry(r)
    <3>1. \E c, pc : Becomes(r, goes(c, pc)) BY <2>2 DEF Continue, Retry
    <3> QED BY <3>1
  <2> QED BY <2>1, <2>2
<1>6. /\ Hands(run'[r]) /\ \A s \in Runs : s # r => run'[s] = run[s]
  <2> HIDE DEF told, goes
  <2>1. \A n : Becomes(r, n) => run'[r] = n /\ \A s \in Runs : s # r => run'[s] = run[s]
    BY After
  <2> QED BY <1>1, <1>5, <2>1 DEF Hands
<1>7. InHand(run[r]) = {} BY <1>2, EmptyHolds DEF InHand
<1> QED BY <1>3, <1>4, <1>6, <1>7 DEF KeepsOrBreaks, Queued, queues

\* A signal that fires moves nothing.
LEMMA HandsSignalled ==
  ASSUME TypeOK, HandsInv, NEW r \in Runs, NEW x \in BOOLEAN,
         steering' = steering, followUps' = followUps, transcript' = transcript,
         Becomes(r, [run[r] EXCEPT !.expired = x, !.aborted = TRUE])
  PROVE  KeepsOrBreaks(r)
<1> DEFINE n == [run[r] EXCEPT !.expired = x, !.aborted = TRUE]
<1>1. n.pc = run[r].pc /\ n.input = run[r].input /\ n.held = run[r].held
  BY DEF TypeOK, RunRecord
<1> HIDE DEF n
<1>2. run'[r] = n /\ \A s \in Runs : s # r => run'[s] = run[s] BY After DEF n
<1> QED BY <1>1, <1>2 DEF KeepsOrBreaks, HandsInv, Hands, InHand, Queued, Said

LEMMA HandsStep ==
  ASSUME TypeOK, AbortReachesTheRun, PairInv, HandsInv, [Next]_vars
  PROVE  \/ \E r \in Runs : KeepsOrBreaks(r)
         \/ UNCHANGED run /\ (TakeBack \/ Queued \cup Said \subseteq Queued' \cup Said')
<1>1. ASSUME NEW r \in Runs, RunStep(r) PROVE KeepsOrBreaks(r)
  BY <1>1, HandsDuring
<1>2. ASSUME NEW r \in Runs, Continue(r) \/ Retry(r) PROVE KeepsOrBreaks(r)
  BY <1>2, HandsBegin
<1>3. ASSUME NEW r \in Runs, Expire(r) PROVE KeepsOrBreaks(r)
  <2>1. /\ steering' = steering /\ followUps' = followUps /\ transcript' = transcript
        /\ Becomes(r, [run[r] EXCEPT !.expired = TRUE, !.aborted = TRUE])
    BY <1>3 DEF Expire, queues
  <2> QED BY <2>1, HandsSignalled
<1>4. ASSUME NEW r \in Runs, NEW p \in NextOf(Prompts), Prompt(r, p) PROVE KeepsOrBreaks(r)
  BY <1>4, HandsBegin
<1>5. ASSUME Abort PROVE \E r \in Runs : KeepsOrBreaks(r)
  <2>1. ctl \in Runs BY <1>5 DEF Abort, TypeOK
  <2>2. [run[ctl] EXCEPT !.expired = run[ctl].expired, !.aborted = TRUE]
          = [run[ctl] EXCEPT !.aborted = TRUE]
    BY <2>1 DEF TypeOK, RunRecord
  <2>3. run[ctl].expired \in BOOLEAN BY <2>1 DEF TypeOK, RunRecord
  <2>4. /\ steering' = steering /\ followUps' = followUps /\ transcript' = transcript
        /\ Becomes(ctl, [run[ctl] EXCEPT !.aborted = TRUE])
    BY <1>5 DEF Abort, queues
  <2>5. KeepsOrBreaks(ctl) BY <2>1, <2>2, <2>3, <2>4, HandsSignalled
  <2> QED BY <2>1, <2>5
<1>6. ASSUME NEW m \in NextOf(Steers), Steer(m)
      PROVE  UNCHANGED run /\ Queued \cup Said \subseteq Queued' \cup Said'
  <2>1. m \in Steers /\ steering' = Append(steering, m)
        /\ UNCHANGED <<run, followUps, transcript>>
    BY <1>6, NextIsNew DEF Steer
  <2> QED BY <2>1, AppendKeeps DEF TypeOK, Queued, Said
<1>7. ASSUME NEW m \in NextOf(FollowUps), FollowUp(m)
      PROVE  UNCHANGED run /\ Queued \cup Said \subseteq Queued' \cup Said'
  <2>1. m \in FollowUps /\ followUps' = Append(followUps, m)
        /\ UNCHANGED <<run, steering, transcript>>
    BY <1>7, NextIsNew DEF FollowUp
  <2> QED BY <2>1, AppendKeeps DEF TypeOK, Queued, Said
<1>8. TakeBack => UNCHANGED run BY DEF TakeBack
<1>9. CASE UNCHANGED vars BY <1>9 DEF vars, queues, Queued, Said
<1> QED BY <1>1, <1>2, <1>3, <1>4, <1>5, <1>6, <1>7, <1>8, <1>9 DEF Next

LEMMA HandsKept == TypeOK /\ AbortReachesTheRun /\ PairInv /\ HandsInv /\ [Next]_vars => HandsInv'
<1> SUFFICES ASSUME TypeOK, AbortReachesTheRun, PairInv, HandsInv, [Next]_vars PROVE HandsInv'
  OBVIOUS
<1>1. ASSUME NEW r \in Runs, KeepsOrBreaks(r) PROVE HandsInv'
  BY <1>1 DEF KeepsOrBreaks, HandsInv
<1> QED BY <1>1, HandsStep DEF HandsInv

\* A message the agent has accepted is lost only by a run that breaks with it in
\* its hands, or is the input of a turn that is still open, whose input nobody says;
\* whichever poll took it and whatever came in between.
THEOREM NoneLost == Spec => OnlyBrokenRunsLose
<1> DEFINE Loses(m) == \/ TakeBack
                       \/ \E r \in Runs : \/ /\ m \in InSeq(run[r].held)
                                             /\ \/ run'[r].pc = "failing"
                                                \/ run'[r].end \in {"deadline", "yielded"}
                                          \/ m \in InSeq(run[r].input) /\ TurnOpen(r)
<1>1. Init => TypeOK /\ AbortReachesTheRun /\ PairInv /\ HandsInv
  BY TypeInit, ReachInit, PairInit, HandsInit
<1>2. TypeOK /\ AbortReachesTheRun /\ PairInv /\ HandsInv /\ [Next]_vars
        => (TypeOK /\ AbortReachesTheRun /\ PairInv /\ HandsInv)'
  BY TypeKept, ReachKept, PairKept, HandsKept
<1>3. TypeOK /\ AbortReachesTheRun /\ PairInv /\ HandsInv /\ [Next]_vars
        => [\A m \in Accepted \ Accepted' : Loses(m)]_vars
  <2> SUFFICES ASSUME TypeOK, AbortReachesTheRun, PairInv, HandsInv, [Next]_vars,
                      NEW m \in Accepted \ Accepted'
               PROVE  Loses(m)
    OBVIOUS
  <2>1. m \in Queued \cup Said \cup UNION {InHand(run[s]) : s \in Runs}
    BY DEF Accepted, Queued, Said, InHand
  <2>2. m \notin Queued' \cup Said' /\ \A s \in Runs : m \notin InHand(run'[s])
    BY DEF Accepted, Queued, Said, InHand
  <2>3. ASSUME NEW r \in Runs, KeepsOrBreaks(r) PROVE Loses(m)
    <3>1. \A s \in Runs : s # r => m \notin InHand(run[s]) BY <2>2, <2>3 DEF KeepsOrBreaks
    <3>2. m \in Queued \cup Said \cup InHand(run[r]) BY <2>1, <3>1
    <3> QED BY <2>2, <2>3, <3>2 DEF KeepsOrBreaks
  <2>4. CASE UNCHANGED run /\ (TakeBack \/ Queued \cup Said \subseteq Queued' \cup Said')
    <3>1. \A s \in Runs : m \notin InHand(run[s]) BY <2>2, <2>4
    <3> QED BY <2>1, <2>2, <2>4, <3>1
  <2> QED BY <2>3, <2>4, HandsStep
<1> QED BY <1>1, <1>2, <1>3, PTL DEF Spec, OnlyBrokenRunsLose

-----------------------------------------------------------------------------
\* In which order messages are said.

\* One message comes ahead of another: it is another one, and steering (o tells
\* when it was given) keeps its order.
Ahead(o, x, y) ==
  /\ x # y
  /\ {x, y} \subseteq Steers => Position(o, x) < Position(o, y)

InOrder(o, s) ==
  \A i, j \in DOMAIN s : i < j /\ s[i] \in Messages => Ahead(o, s[i], s[j])

\* Whatever of a is said is said ahead of all of b.
Before(o, a, b) == \A x \in InSeq(a) \cap Messages : \A y \in InSeq(b) : Ahead(o, x, y)

\* The messages of s have been given by the user.
Given(o, a, s) ==
  \A x \in InSeq(s) \cap Messages : IF x \in Steers THEN x \in InSeq(o) ELSE x \in a

\* The way of the messages: what is in transcript t, deferred in i, in hand in h
\* and queued in q as steering is in one line; the follow-ups in f come after what a
\* run has, and are other messages than the rest.
Line(o, a, t, i, h, q, f) ==
  /\ InOrder(o, t) /\ InOrder(o, i) /\ InOrder(o, h) /\ InOrder(o, q) /\ InOrder(o, f)
  /\ Before(o, t, i) /\ Before(o, t, h) /\ Before(o, t, q) /\ Before(o, t, f)
  /\ Before(o, i, h) /\ Before(o, i, q) /\ Before(o, i, f)
  /\ Before(o, h, q) /\ Before(o, h, f)
  /\ Given(o, a, t) /\ Given(o, a, i) /\ Given(o, a, h) /\ Given(o, a, q) /\ Given(o, a, f)

GivenOnce(o) == \A i, j \in DOMAIN o : o[i] = o[j] => i = j

LineInv ==
  /\ GivenOnce(steered)
  /\ Line(steered, asked, transcript, <<>>, <<>>, steering, followUps)
  /\ \A r \in Runs : Line(steered, asked, transcript, run[r].input, run[r].held,
                          steering, followUps)

LEMMA LineConcat ==
  ASSUME NEW o, NEW g, NEW a \in Seq(Entries), NEW b \in Seq(Entries)
  PROVE  /\ InOrder(o, a \o b) <=> InOrder(o, a) /\ InOrder(o, b) /\ Before(o, a, b)
         /\ \A c : Before(o, c, a \o b) <=> Before(o, c, a) /\ Before(o, c, b)
         /\ \A c : Before(o, a \o b, c) <=> Before(o, a, c) /\ Before(o, b, c)
         /\ Given(o, g, a \o b) <=> Given(o, g, a) /\ Given(o, g, b)
<1> DEFINE s == a \o b
<1>1. /\ InSeq(s) = InSeq(a) \cup InSeq(b) /\ Len(s) = Len(a) + Len(b)
      /\ \A i \in DOMAIN a : s[i] = a[i]
      /\ \A i \in DOMAIN b : s[Len(a) + i] = b[i]
      /\ s \in Seq(Entries)
  BY Concat
<1>2. /\ DOMAIN a = 1..Len(a) /\ DOMAIN b = 1..Len(b) /\ Len(a) \in Nat /\ Len(b) \in Nat
      /\ DOMAIN s = 1..(Len(a) + Len(b))
  BY <1>1, LenProperties
<1> HIDE DEF s
<1>3. ASSUME NEW i \in DOMAIN s
      PROVE  \/ i \in DOMAIN a /\ s[i] = a[i]
             \/ \E j \in DOMAIN b : i = Len(a) + j /\ s[i] = b[j]
  <2>1. CASE i <= Len(a) BY <2>1, <1>1, <1>2
  <2>2. CASE ~(i <= Len(a))
    <3>1. i - Len(a) \in DOMAIN b /\ i = Len(a) + (i - Len(a)) BY <2>2, <1>2
    <3>2. s[Len(a) + (i - Len(a))] = b[i - Len(a)] BY <3>1, <1>1
    <3> QED BY <3>1, <3>2
  <2> QED BY <2>1, <2>2
<1>4. ASSUME InOrder(o, s)
      PROVE  InOrder(o, a) /\ InOrder(o, b) /\ Before(o, a, b)
  <2>1. DOMAIN a \subseteq DOMAIN s BY <1>2
  <2>2. \A i \in DOMAIN b : Len(a) + i \in DOMAIN s BY <1>2
  <2>3. InOrder(o, a) BY <1>1, <1>4, <2>1 DEF InOrder
  <2>4. ASSUME NEW i \in DOMAIN b, NEW j \in DOMAIN b, i < j, b[i] \in Messages
        PROVE  Ahead(o, b[i], b[j])
    <3>1. Len(a) + i < Len(a) + j BY <2>4, <1>2
    <3>2. s[Len(a) + i] = b[i] /\ s[Len(a) + j] = b[j] BY <1>1
    <3> QED BY <1>4, <2>2, <2>4, <3>1, <3>2 DEF InOrder
  <2>5. ASSUME NEW i \in DOMAIN a, NEW j \in DOMAIN b, a[i] \in Messages
        PROVE  Ahead(o, a[i], b[j])
    <3>1. i < Len(a) + j BY <1>2
    <3>2. s[i] = a[i] /\ s[Len(a) + j] = b[j] BY <1>1
    <3> QED BY <1>4, <2>1, <2>2, <2>5, <3>1, <3>2 DEF InOrder
  <2> QED BY <2>3, <2>4, <2>5 DEF InOrder, Before, InSeq
<1>5. ASSUME InOrder(o, a), InOrder(o, b), Before(o, a, b)
      PROVE  InOrder(o, s)
  <2> SUFFICES ASSUME NEW i \in DOMAIN s, NEW j \in DOMAIN s, i < j, s[i] \in Messages
               PROVE  Ahead(o, s[i], s[j])
    BY DEF InOrder
  <2>1. CASE i \in DOMAIN a /\ j \in DOMAIN a BY <2>1, <1>1, <1>5 DEF InOrder
  <2>2. ASSUME i \in DOMAIN a, NEW m \in DOMAIN b, j = Len(a) + m, s[j] = b[m]
        PROVE  Ahead(o, s[i], s[j])
    BY <2>2, <1>1, <1>5 DEF Before, InSeq
  <2>3. ASSUME NEW n \in DOMAIN b, i = Len(a) + n, s[i] = b[n],
               NEW m \in DOMAIN b, j = Len(a) + m, s[j] = b[m]
        PROVE  Ahead(o, s[i], s[j])
    <3>1. n < m BY <2>3, <1>2
    <3> QED BY <2>3, <3>1, <1>5 DEF InOrder
  <2>4. ~(j \in DOMAIN a /\ \E n \in DOMAIN b : i = Len(a) + n) BY <1>2
  <2> QED BY <2>1, <2>2, <2>3, <2>4, <1>3
<1>6. InOrder(o, s) <=> InOrder(o, a) /\ InOrder(o, b) /\ Before(o, a, b) BY <1>4, <1>5
<1> QED BY <1>1, <1>6 DEF Before, Given, s

\* What the loop itself says is in nobody's way.
LEMMA Silent ==
  ASSUME NEW o, NEW g, NEW s \in Seq(Kinds)
  PROVE  /\ s \in Seq(Entries) /\ InOrder(o, s) /\ Given(o, g, s)
         /\ \A c : Before(o, s, c) /\ Before(o, c, s)
<1>1. InSeq(s) \subseteq Kinds /\ \A i \in DOMAIN s : s[i] \in InSeq(s)
  BY ElementOfSeq, LenProperties DEF InSeq
<1>2. Kinds \cap Messages = {} /\ Steers \subseteq Messages BY MessagesAssumption DEF Messages
<1>3. s \in Seq(Entries) BY SeqMonotonic DEF Entries
<1> QED BY <1>1, <1>2, <1>3 DEF InOrder, Given, Before, Ahead

\* A message that is new comes after all that were given.
LEMMA NewComer ==
  ASSUME NEW o, NEW g, NEW m \in Messages \ Steers, m \notin InSeq(o), m \notin g
  PROVE  /\ InOrder(o, <<m>>) /\ Given(o, g \cup {m}, <<m>>)
         /\ \A c : Given(o, g, c) =>
              Before(o, c, <<m>>) /\ Before(o, <<m>>, c) /\ Given(o, g \cup {m}, c)
<1>1. DOMAIN <<m>> = {1} /\ <<m>>[1] = m BY Z3
<1>2. InSeq(<<m>>) = {m} BY <1>1 DEF InSeq
<1>3. InOrder(o, <<m>>) BY <1>1 DEF InOrder
<1>4. Given(o, g \cup {m}, <<m>>) BY <1>2 DEF Given
<1>5. ASSUME NEW c, Given(o, g, c)
      PROVE  Before(o, c, <<m>>) /\ Before(o, <<m>>, c) /\ Given(o, g \cup {m}, c)
  <2>1. ASSUME NEW x \in InSeq(c) PROVE x # m BY <1>5 DEF Given
  <2> QED BY <1>2, <1>5, <2>1 DEF Before, Ahead, Given
<1> QED BY <1>3, <1>4, <1>5

LEMMA PositionIs ==
  ASSUME NEW o, GivenOnce(o), NEW i \in DOMAIN o
  PROVE  Position(o, o[i]) = i
BY DEF Position, GivenOnce

\* Steering that comes in leaves the order of the rest as it is.
LEMMA NewSteer ==
  ASSUME NEW o \in Seq(Steers), NEW g, GivenOnce(o), NEW m \in Steers, m \notin InSeq(o)
  PROVE  LET p == Append(o, m) IN
         /\ GivenOnce(p) /\ InOrder(p, <<m>>) /\ Given(p, g, <<m>>)
         /\ \A c : Given(o, g, c) =>
              /\ Before(p, c, <<m>>) /\ Given(p, g, c)
              /\ InOrder(o, c) => InOrder(p, c)
              /\ \A d : Given(o, g, d) /\ Before(o, c, d) => Before(p, c, d)
<1> DEFINE p == Append(o, m)
           n == Len(o) + 1
<1>1. /\ p \in Seq(Steers) /\ Len(p) = n /\ p[n] = m
      /\ \A i \in 1..Len(o) : p[i] = o[i]
  BY AppendProperties
<1>2. DOMAIN o = 1..Len(o) /\ Len(o) \in Nat /\ DOMAIN p = 1..n BY <1>1, LenProperties
<1> HIDE DEF p
<1>3. \A i \in DOMAIN p : i = n \/ (i \in DOMAIN o /\ i < n /\ p[i] = o[i])
  BY <1>1, <1>2
<1>a. n \in DOMAIN p /\ DOMAIN o \subseteq DOMAIN p BY <1>2
<1>4. GivenOnce(p) BY <1>1, <1>3 DEF GivenOnce, InSeq
<1>5. Position(p, m) = n BY <1>1, <1>a, <1>4, PositionIs
<1>6. ASSUME NEW x \in InSeq(o)
      PROVE  x \in InSeq(p) /\ Position(p, x) = Position(o, x) /\ Position(p, x) < n /\ x # m
  <2>1. PICK i \in DOMAIN o : x = o[i] BY DEF InSeq
  <2>2. p[i] = x /\ i \in DOMAIN p BY <1>1, <1>2, <1>a, <2>1
  <2>3. Position(o, x) = i BY <2>1, PositionIs
  <2>4. Position(p, x) = i BY <1>4, <2>2, PositionIs
  <2>5. i < n BY <1>2
  <2>6. x # m OBVIOUS
  <2>7. x \in InSeq(p) BY <2>2 DEF InSeq
  <2> QED BY <2>3, <2>4, <2>5, <2>6, <2>7
<1>7. DOMAIN <<m>> = {1} /\ <<m>>[1] = m BY Z3
<1>8. InSeq(<<m>>) = {m} BY <1>7 DEF InSeq
<1>9. InOrder(p, <<m>>) BY <1>7 DEF InOrder
<1>10. m \in InSeq(p) BY <1>1, <1>a DEF InSeq
<1>11. Given(p, g, <<m>>) BY <1>8, <1>10 DEF Given
<1>12. ASSUME NEW c, Given(o, g, c)
       PROVE  /\ Before(p, c, <<m>>) /\ Given(p, g, c)
              /\ InOrder(o, c) => InOrder(p, c)
              /\ \A d : Given(o, g, d) /\ Before(o, c, d) => Before(p, c, d)
  <2>1. \A x \in InSeq(c) \cap Steers : x \in InSeq(o) BY <1>12 DEF Given, Messages
  <2>2. Before(p, c, <<m>>) BY <1>5, <1>6, <1>8, <2>1 DEF Before, Ahead
  <2>3. Given(p, g, c) BY <1>6, <1>12 DEF Given
  <2>4. \A i \in DOMAIN c : c[i] \in InSeq(c) BY DEF InSeq
  <2>5. InOrder(o, c) => InOrder(p, c)
    <3> SUFFICES ASSUME InOrder(o, c), NEW i \in DOMAIN c, NEW j \in DOMAIN c, i < j,
                        c[i] \in Messages
                 PROVE  Ahead(p, c[i], c[j])
      BY DEF InOrder
    <3>1. Ahead(o, c[i], c[j]) BY DEF InOrder
    <3> QED BY <1>6, <2>1, <2>4, <3>1 DEF Ahead
  <2>6. ASSUME NEW d, Given(o, g, d), Before(o, c, d) PROVE Before(p, c, d)
    <3>1. \A x \in InSeq(d) \cap Steers : x \in InSeq(o) BY <2>6 DEF Given, Messages
    <3> SUFFICES ASSUME NEW x \in InSeq(c) \cap Messages, NEW y \in InSeq(d)
                 PROVE  Ahead(p, x, y)
      BY DEF Before
    <3>2. Ahead(o, x, y) BY <2>6 DEF Before
    <3> QED BY <1>6, <2>1, <3>1, <3>2 DEF Ahead
  <2> QED BY <2>2, <2>3, <2>5, <2>6
<1> QED BY <1>4, <1>9, <1>11, <1>12 DEF p

\* How messages move along the line, in a step of a run.
Moves(t, i, h, q, f, t1, i1, h1, q1, f1) ==
  \/ \E ms \in Seq(Kinds) : /\ t1 = t \o ms /\ q1 = q /\ f1 = f
                            /\ i1 \in {i, <<>>} /\ h1 \in {h, <<>>}
  \/ \E ms \in Seq(Kinds) : /\ t1 = (t \o i) \o ms /\ q1 = q /\ f1 = f
                            /\ i1 = <<>> /\ h1 \in {h, <<>>}
  \/ t1 = t /\ i1 = i \o h /\ h1 = <<>> /\ q1 = q /\ f1 = f
  \/ t1 = t /\ i1 = i /\ q = h1 \o q1 /\ f1 = f
  \/ t1 = t /\ q = i1 \o q1 /\ h1 = <<>> /\ f1 = f
  \/ \E fs \in Seq(Messages) : t1 = t /\ i1 = i /\ h1 = h \o fs /\ f = fs \o f1 /\ q1 = q
  \/ t1 = t /\ h1 = <<>> /\ f = i1 \o f1 /\ q1 = q

\* Steering and follow-ups are never in each other's way.
LEMMA Apart ==
  ASSUME NEW o, NEW q \in Seq(Steers), NEW f \in Seq(FollowUps)
  PROVE  Before(o, q, f) /\ Before(o, f, q)
<1>1. InSeq(q) \subseteq Steers /\ InSeq(f) \subseteq FollowUps
  BY ElementOfSeq, LenProperties DEF InSeq
<1> QED BY <1>1, MessagesAssumption DEF Before, Ahead

LEMMA LineMoves ==
  ASSUME NEW o, NEW g,
         NEW t \in Seq(Entries), NEW i \in Seq(Messages), NEW h \in Seq(Messages),
         NEW q \in Seq(Messages), NEW f \in Seq(Messages), Before(o, q, f), Before(o, f, q),
         NEW t1, NEW i1 \in Seq(Messages), NEW h1 \in Seq(Messages),
         NEW q1 \in Seq(Messages), NEW f1 \in Seq(Messages),
         Line(o, g, t, i, h, q, f), Moves(t, i, h, q, f, t1, i1, h1, q1, f1)
  PROVE  Line(o, g, t1, i1, h1, q1, f1)
<1>1. \A s \in Seq(Messages) : s \in Seq(Entries) BY MessagesAreEntries
<1>2. \A a, b \in Seq(Entries) :
        /\ InOrder(o, a \o b) <=> InOrder(o, a) /\ InOrder(o, b) /\ Before(o, a, b)
        /\ \A c : Before(o, c, a \o b) <=> Before(o, c, a) /\ Before(o, c, b)
        /\ \A c : Before(o, a \o b, c) <=> Before(o, a, c) /\ Before(o, b, c)
        /\ Given(o, g, a \o b) <=> Given(o, g, a) /\ Given(o, g, b)
  BY LineConcat
<1>3. \A s \in Seq(Kinds) : /\ s \in Seq(Entries) /\ InOrder(o, s) /\ Given(o, g, s)
                            /\ \A c : Before(o, s, c) /\ Before(o, c, s)
  BY Silent
<1>4. <<>> \in Seq(Kinds) BY EmptySeq
<1>5. InOrder(o, <<>>) /\ Given(o, g, <<>>) /\ \A c : Before(o, <<>>, c) /\ Before(o, c, <<>>)
  BY <1>3, <1>4
<1> USE DEF Line
<1>6. CASE \E ms \in Seq(Kinds) : /\ t1 = t \o ms /\ q1 = q /\ f1 = f
                                  /\ i1 \in {i, <<>>} /\ h1 \in {h, <<>>}
  <2> PICK ms \in Seq(Kinds) : /\ t1 = t \o ms /\ q1 = q /\ f1 = f
                               /\ i1 \in {i, <<>>} /\ h1 \in {h, <<>>}
    BY <1>6
  <2>1. /\ InOrder(o, t1) /\ Given(o, g, t1)
        /\ \A c : Before(o, t, c) => Before(o, t1, c)
    BY <1>2, <1>3
  <2> QED BY <1>5, <2>1
<1>7. CASE \E ms \in Seq(Kinds) : /\ t1 = (t \o i) \o ms /\ q1 = q /\ f1 = f
                                  /\ i1 = <<>> /\ h1 \in {h, <<>>}
  <2> PICK ms \in Seq(Kinds) : /\ t1 = (t \o i) \o ms /\ q1 = q /\ f1 = f
                               /\ i1 = <<>> /\ h1 \in {h, <<>>}
    BY <1>7
  <2> DEFINE w == t \o i
  <2>1. /\ w \in Seq(Entries) /\ InOrder(o, w) /\ Given(o, g, w)
        /\ \A c : Before(o, t, c) /\ Before(o, i, c) => Before(o, w, c)
    BY <1>1, <1>2, ConcatProperties
  <2> HIDE DEF w
  <2>2. /\ InOrder(o, w \o ms) /\ Given(o, g, w \o ms)
        /\ \A c : Before(o, w, c) => Before(o, w \o ms, c)
    BY <1>2, <1>3, <2>1
  <2>3. t1 = w \o ms BY DEF w
  <2> QED BY <1>5, <2>1, <2>2, <2>3
<1>8. CASE t1 = t /\ i1 = i \o h /\ h1 = <<>> /\ q1 = q /\ f1 = f
  BY <1>1, <1>2, <1>5, <1>8
<1>9. CASE t1 = t /\ i1 = i /\ q = h1 \o q1 /\ f1 = f
  BY <1>1, <1>2, <1>9
<1>10. CASE t1 = t /\ q = i1 \o q1 /\ h1 = <<>> /\ f1 = f
  BY <1>1, <1>2, <1>5, <1>10
<1>11. CASE \E fs \in Seq(Messages) : t1 = t /\ i1 = i /\ h1 = h \o fs /\ f = fs \o f1 /\ q1 = q
  BY <1>1, <1>2, <1>11
<1>12. CASE t1 = t /\ h1 = <<>> /\ f = i1 \o f1 /\ q1 = q
  BY <1>1, <1>2, <1>5, <1>12
<1> QED BY <1>6, <1>7, <1>8, <1>9, <1>10, <1>11, <1>12 DEF Moves

\* A step of run r that moves its messages along the line.
MovesOn(r) ==
  /\ UNCHANGED history
  /\ \A s \in Runs : s # r => run'[s] = run[s]
  /\ Moves(transcript, run[r].input, run[r].held, steering, followUps,
           transcript', run'[r].input, run'[r].held, steering', followUps')

LEMMA MovesDuring ==
  ASSUME TypeOK, HandsInv, NEW r \in Runs, RunStep(r)
  PROVE  MovesOn(r)
<1> DEFINE k == run[r]
           Along(n) == Moves(transcript, k.input, k.held, steering, followUps,
                             transcript', n.input, n.held, steering', followUps')
<1>1. k \in RunRecord /\ Hands(k) BY DEF TypeOK, HandsInv
<1>2. /\ k.input \in Seq(Messages) /\ k.held \in Seq(Messages) /\ transcript \in Seq(Entries)
      /\ steering \in Seq(Messages) /\ followUps \in Seq(Messages)
  BY <1>1, QueuedAreMessages DEF RunRecord, TypeOK
<1>h. UNCHANGED history
  BY DEF RunStep, TakeSteering, TakeFollowUps, Poll, Resume, Top, Prepare, Reply, Call, Detour,
         Breaks, HookThrows, Leaks, Tools, Boundary, Yield, Late, AgentEnd, Fails, Close, history
<1>k. /\ \A x, y \in Kinds : <<x>> \in Seq(Kinds) /\ <<x, y>> \in Seq(Kinds)
      /\ {"reply", "call", "cut", "result", "error", "discarded"} \subseteq Kinds
  BY DEF Kinds
<1>e. <<>> \in Seq(Kinds) /\ transcript = transcript \o <<>> BY <1>2, EmptySeq, ConcatEmptySeq
<1>p. /\ steering = Take(r, steering) \o Left(r, steering)
      /\ followUps = Take(r, followUps) \o Left(r, followUps)
      /\ Take(r, followUps) \in Seq(Messages)
  BY <1>2, Polled
\* What the loop says.
<1>5. ASSUME NEW n, NEW ms \in Seq(Kinds), Says(r, n, ms), DOMAIN n = DOMAIN k,
             n.input = k.input, n.held \in {k.held, <<>>}, UNCHANGED queues
      PROVE  MovesOn(r)
  <2>1. ms \in Seq(Entries) BY Silent
  <2>2. /\ run'[r].input = k.input /\ run'[r].held \in {k.held, <<>>}
        /\ \A s \in Runs : s # r => run'[s] = run[s]
    BY <1>5, <2>1, SaysMore
  <2>3. transcript' = transcript \o ms BY <1>5 DEF Says
  <2>4. steering' = steering /\ followUps' = followUps BY <1>5 DEF queues
  <2> QED BY <1>h, <2>2, <2>3, <2>4 DEF MovesOn, Moves
\* What becomes of what the run holds.
<1>6. ASSUME NEW n, Becomes(r, n), Along(n) PROVE MovesOn(r)
  <2>1. run'[r] = n /\ \A s \in Runs : s # r => run'[s] = run[s] BY <1>6, After
  <2> QED BY <1>6, <1>h, <2>1 DEF MovesOn
\* Some of it may be given up.
<1>7. ASSUME NEW n, n.input \in {k.input, <<>>}, n.held \in {k.held, <<>>}, UNCHANGED queues,
             transcript' = transcript \/ \E x \in Kinds : transcript' = Append(transcript, x)
      PROVE  Along(n)
  <2>1. \E ms \in Seq(Kinds) : transcript' = transcript \o ms
    <3>1. CASE transcript' = transcript BY <3>1, <1>e
    <3>2. ASSUME NEW x \in Kinds, transcript' = Append(transcript, x)
          PROVE  \E ms \in Seq(Kinds) : transcript' = transcript \o ms
      <4>1. x \in Entries BY DEF Entries
      <4>2. transcript' = transcript \o <<x>> BY <1>2, <3>2, <4>1, AppendIsConcat
      <4> QED BY <4>2, <1>k
    <3> QED BY <1>7, <3>1, <3>2
  <2> QED BY <1>7, <2>1 DEF Moves, queues
\* What was deferred comes out.
<1>8. ASSUME NEW n, NEW ms \in Seq(Kinds), transcript' = (transcript \o k.input) \o ms,
             n.input = <<>>, n.held \in {k.held, <<>>}, UNCHANGED queues
      PROVE  Along(n)
  BY <1>8 DEF Moves, queues
<1>m. ASSUME Emit(r) PROVE transcript' = (transcript \o k.input) \o <<>>
  <2>1. k.input \in Seq(Entries) BY <1>2, MessagesAreEntries
  <2>2. transcript \o k.input \in Seq(Entries) BY <1>2, <2>1, ConcatProperties
  <2> QED BY <1>m, <2>2, ConcatEmptySeq DEF Emit
\* Or it is given up, as the turn was open.
<1>o. ASSUME NEW n, OpenTurn(r), n.input = <<>>, n.held \in {k.held, <<>>}, UNCHANGED queues
      PROVE  Along(n)
  <2>1. CASE TurnOpen(r) BY <1>7, <1>o, <2>1 DEF OpenTurn
  <2>2. CASE ~TurnOpen(r) BY <1>8, <1>e, <1>m, <1>o, <2>2 DEF OpenTurn
  <2> QED BY <2>1, <2>2
<1>r. \A d \in {Opened(r), Stopped(r), Sampled(r), Replied(r)} :
        d \in RunRecord /\ d.held = k.held /\ DOMAIN d = DOMAIN k
  <2>1. /\ Opened(r) \in RunRecord /\ Stopped(r) \in RunRecord
        /\ Sampled(r) \in RunRecord /\ Replied(r) \in RunRecord
    BY <1>1, Fields
  <2>2. \A d \in RunRecord : DOMAIN d = DOMAIN k BY <1>1 DEF RunRecord
  <2>3. "held" \in DOMAIN NewRun BY DEF NewRun
  <2>4. /\ Opened(r).held = k.held /\ Stopped(r).held = k.held
        /\ Sampled(r).held = k.held /\ Replied(r).held = k.held
    BY <1>1, <2>3, Fields
  <2> QED BY <2>1, <2>2, <2>4
<1>i. /\ Opened(r).input = <<>> /\ Stopped(r).input = <<>>
      /\ Sampled(r).input = k.input /\ Replied(r).input = k.input
  <2>1. "input" \in DOMAIN NewRun BY DEF NewRun
  <2> QED BY <1>1, <2>1, Fields
<1>9. ASSUME TakeSteering(r) PROVE MovesOn(r)
  <2> DEFINE ms == Take(r, steering)
             next == [k EXCEPT !.pc = "takeFollowUps"]
             told == [k EXCEPT !.pc = "poll", !.input = ms, !.ctx = @ \o ms, !.skip = TRUE]
  <2>1. k.input = <<>> /\ k.held = <<>> BY <1>1, <1>9 DEF TakeSteering, Hands
  <2>2. /\ steering' = Left(r, steering) /\ followUps' = followUps /\ transcript' = transcript
        /\ \/ ms = <<>> /\ Becomes(r, next)
           \/ Becomes(r, told)
    BY <1>9 DEF TakeSteering
  <2>3. next.input = k.input /\ next.held = k.held /\ told.input = ms /\ told.held = k.held
    BY <1>1 DEF RunRecord
  <2>4. steering = ms \o steering' BY <1>p, <2>2
  <2> HIDE DEF next, told, ms
  <2>5. ms = <<>> => Along(next) BY <2>1, <2>2, <2>3, <2>4 DEF Moves
  <2>6. Along(told) BY <2>1, <2>2, <2>3, <2>4 DEF Moves
  <2> QED BY <1>6, <2>2, <2>5, <2>6
<1>10. ASSUME TakeFollowUps(r) PROVE MovesOn(r)
  <2> DEFINE ms == Take(r, followUps)
             told == [k EXCEPT !.pc = "poll", !.input = ms, !.ctx = @ \o ms]
  <2>1. k.input = <<>> /\ k.held = <<>> BY <1>1, <1>10 DEF TakeFollowUps, Hands
  <2>2. /\ followUps' = Left(r, followUps) /\ steering' = steering /\ transcript' = transcript
        /\ \/ ms = <<>> /\ Becomes(r, Closing)
           \/ Becomes(r, told)
    BY <1>10 DEF TakeFollowUps
  <2>3. /\ told.input = ms /\ told.held = k.held
        /\ Closing.input = <<>> /\ Closing.held = <<>>
    BY <1>1 DEF RunRecord, Closing, NewRun
  <2>4. followUps = ms \o followUps' BY <1>p, <2>2
  <2> HIDE DEF told, ms
  <2>5. ms = <<>> => Along(Closing) BY <2>1, <2>2, <2>3, <2>4 DEF Moves
  <2>6. Along(told) BY <2>1, <2>2, <2>3, <2>4 DEF Moves
  <2> QED BY <1>6, <2>2, <2>5, <2>6
<1>11. ASSUME Poll(r) PROVE MovesOn(r)
  <2>1. k.held = <<>> BY <1>1, <1>11 DEF Poll, Hands
  <2>2. CASE k.expired
    <3> DEFINE d == [k EXCEPT !.input = <<>>]
               n == Ended(d, "deadline")
    <3>1. Emit(r) /\ Becomes(r, n) /\ UNCHANGED queues BY <1>11, <2>2 DEF Poll, queues
    <3>2. n.input = <<>> /\ n.held = <<>> BY <1>1 DEF RunRecord, Ended
    <3> HIDE DEF n
    <3> QED BY <1>6, <1>8, <1>e, <1>m, <3>1, <3>2
  <2>3. CASE ~k.expired
    <3> DEFINE n(ms) == [k EXCEPT !.pc = IF Last(k.ctx) = "call" THEN "resume" ELSE "top",
                                  !.skip = FALSE, !.held = ms]
    <3>1. /\ followUps' = followUps /\ transcript' = transcript
          /\ \/ Becomes(r, n(<<>>)) /\ steering' = steering
             \/ Becomes(r, n(Take(r, steering))) /\ steering' = Left(r, steering)
      BY <1>11, <2>3 DEF Poll
    <3>2. \A ms : n(ms).input = k.input /\ n(ms).held = ms BY <1>1 DEF RunRecord
    <3> HIDE DEF n
    <3>3. CASE Becomes(r, n(<<>>)) /\ steering' = steering
      BY <1>6, <1>7, <3>1, <3>2, <3>3 DEF queues
    <3>4. CASE Becomes(r, n(Take(r, steering))) /\ steering' = Left(r, steering)
      <4>1. Along(n(Take(r, steering))) BY <1>p, <3>1, <3>2, <3>4 DEF Moves
      <4> QED BY <1>6, <3>4, <4>1
    <3> QED BY <3>1, <3>3, <3>4
  <2> QED BY <2>2, <2>3
<1>12. ASSUME Resume(r) PROVE MovesOn(r)
  <2> DEFINE n == [k EXCEPT !.pc = "top"]
             e == [Ended(k, "yielded") EXCEPT !.aborted = TRUE]
  <2>1. (Says(r, n, <<"result">>) \/ Says(r, e, <<"result">>)) /\ UNCHANGED queues
    BY <1>12 DEF Resume
  <2>2. /\ n.input = k.input /\ n.held = k.held /\ DOMAIN n = DOMAIN k
        /\ e.input = k.input /\ e.held = <<>> /\ DOMAIN e = DOMAIN k
    BY <1>1 DEF RunRecord, Ended
  <2> HIDE DEF n, e
  <2> QED BY <2>1, <2>2, <1>5, <1>k
<1>13. ASSUME Top(r) PROVE MovesOn(r)
  <2>1. CASE k.expired
    <3> DEFINE d == [k EXCEPT !.input = <<>>]
               n == Ended(d, "deadline")
    <3>1. Emit(r) /\ Becomes(r, n) /\ UNCHANGED queues BY <1>13, <2>1 DEF Top
    <3>2. n.input = <<>> /\ n.held = <<>> BY <1>1 DEF RunRecord, Ended
    <3> HIDE DEF n
    <3> QED BY <1>6, <1>8, <1>e, <1>m, <3>1, <3>2
  <2>2. CASE ~k.expired
    <3> DEFINE n == [k EXCEPT !.pc = "prepare", !.input = @ \o k.held, !.ctx = @ \o k.held,
                              !.held = <<>>]
    <3>1. Becomes(r, n) /\ UNCHANGED queues /\ transcript' = transcript BY <1>13, <2>2 DEF Top
    <3>2. n.input = k.input \o k.held /\ n.held = <<>> BY <1>1 DEF RunRecord
    <3> HIDE DEF n
    <3>3. Along(n) BY <3>1, <3>2 DEF Moves, queues
    <3> QED BY <1>6, <3>1, <3>3
  <2> QED BY <2>1, <2>2
<1>14. ASSUME Prepare(r) PROVE MovesOn(r)
  <2> DEFINE n == [Opened(r) EXCEPT !.pc = "stream"]
             e == Ended(Stopped(r), "stopped")
  <2>1. /\ \/ OpenTurn(r) /\ Becomes(r, n)
           \/ transcript' = transcript \o k.input \o GateStop(r) /\ Becomes(r, e)
        /\ UNCHANGED queues
    BY <1>14 DEF Prepare
  <2>2. n.input = <<>> /\ n.held = k.held /\ e.input = <<>> /\ e.held = <<>>
    BY <1>r, <1>i DEF RunRecord, Ended
  <2> HIDE DEF n, e
  <2>3. CASE OpenTurn(r) /\ Becomes(r, n) BY <1>6, <1>o, <2>1, <2>2, <2>3
  <2>4. CASE transcript' = transcript \o k.input \o GateStop(r) /\ Becomes(r, e)
    BY <1>6, <1>8, <2>1, <2>2, <2>4, StopTyped
  <2> QED BY <2>1, <2>3, <2>4
<1>15. ASSUME Reply(r) PROVE MovesOn(r)
  <2> DEFINE n(m) == [Replied(r) EXCEPT !.pc = "boundary", !.more = m]
  <2>1. /\ Says(r, n(TRUE), <<"reply">>) \/ Says(r, n(FALSE), <<"reply">>)
        /\ UNCHANGED queues
    BY <1>15 DEF Reply
  <2>2. \A m : n(m).input = k.input /\ n(m).held = k.held /\ DOMAIN n(m) = DOMAIN k
    BY <1>r, <1>i DEF RunRecord
  <2> HIDE DEF n
  <2> QED BY <2>1, <2>2, <1>5, <1>k
<1>16. ASSUME Call(r) PROVE MovesOn(r)
  <2> DEFINE n == [Replied(r) EXCEPT !.pc = "tools"]
             l == [Replied(r) EXCEPT !.pc = "boundary", !.more = ~k.expired]
  <2>1. /\ Says(r, n, <<"call">>) \/ Says(r, l, <<"cut", "result">>)
        /\ UNCHANGED queues
    BY <1>16 DEF Call
  <2>2. /\ n.input = k.input /\ n.held = k.held /\ DOMAIN n = DOMAIN k
        /\ l.input = k.input /\ l.held = k.held /\ DOMAIN l = DOMAIN k
    BY <1>r, <1>i DEF RunRecord
  <2> HIDE DEF n, l
  <2> QED BY <2>1, <2>2, <1>5, <1>k
<1>17. ASSUME Detour(r) PROVE MovesOn(r)
  <2> DEFINE d == Sampled(r)
             n == [d EXCEPT !.pc = "boundary", !.more = TRUE, !.forced = @ + 1]
             e == Failed(d)
  <2>1. /\ Says(r, n, <<"call", "result">>) \/ Says(r, e, <<"call">>)
        /\ UNCHANGED queues
    BY <1>17 DEF Detour
  <2>2. /\ n.input = k.input /\ n.held = k.held /\ DOMAIN n = DOMAIN k
        /\ e.input = k.input /\ e.held = <<>> /\ DOMAIN e = DOMAIN k
    BY <1>r, <1>i DEF RunRecord, Failed
  <2> HIDE DEF n, e
  <2> QED BY <2>1, <2>2, <1>5, <1>k
<1>18. ASSUME Breaks(r) PROVE MovesOn(r)
  <2> DEFINE e == Ended(k, "broken")
  <2>1. PICK ms \in {<<"error">>, <<"cut", "result">>} : Says(r, e, ms) BY <1>18 DEF Breaks
  <2>2. UNCHANGED queues BY <1>18 DEF Breaks
  <2>3. e.input = k.input /\ e.held = <<>> /\ DOMAIN e = DOMAIN k BY <1>1 DEF RunRecord, Ended
  <2>4. ms \in Seq(Kinds) BY <2>1, <1>k
  <2> HIDE DEF e
  <2> QED BY <2>1, <2>2, <2>3, <2>4, <1>5
<1>19. ASSUME Leaks(r) PROVE MovesOn(r)
  <2> DEFINE n == [k EXCEPT !.leaks = @ + 1, !.pc = IF k.more THEN "top" ELSE "yield"]
             m == [k EXCEPT !.saved = @ + 1, !.leaks = 0, !.pc = "recovered"]
             e == Failed(k)
  <2>1. /\ Becomes(r, n) \/ Becomes(r, m) \/ Becomes(r, e)
        /\ UNCHANGED queues /\ transcript' = Append(transcript, "discarded")
    BY <1>19 DEF Leaks
  <2>2. /\ n.input = k.input /\ n.held = k.held /\ e.input = k.input /\ e.held = <<>>
        /\ m.input = k.input /\ m.held = k.held
    BY <1>1 DEF RunRecord, Failed
  <2> HIDE DEF n, m, e
  <2> QED BY <1>6, <1>7, <1>k, <2>1, <2>2
<1>20. ASSUME Tools(r) PROVE MovesOn(r)
  <2> DEFINE n(y) == [k EXCEPT !.pc = "boundary", !.more = ~y, !.aborted = @ \/ y]
  <2>1. PICK y \in BOOLEAN : Says(r, n(y), <<"result">>) BY <1>20 DEF Tools
  <2>2. n(y).input = k.input /\ n(y).held = k.held /\ DOMAIN n(y) = DOMAIN k
    BY <1>1 DEF RunRecord
  <2>3. UNCHANGED queues BY <1>20 DEF Tools
  <2> HIDE DEF n
  <2> QED BY <2>1, <2>2, <2>3, <1>5, <1>k
<1>21. ASSUME Boundary(r) \/ Yield(r) PROVE MovesOn(r)
  <2>1. CASE k.expired
    <3> DEFINE n == Ended(k, "deadline")
    <3>1. Becomes(r, n) /\ UNCHANGED <<queues, transcript>>
      BY <1>21, <2>1 DEF Boundary, Yield, queues
    <3>2. n.input = k.input /\ n.held = <<>> BY <1>1 DEF RunRecord, Ended
    <3> HIDE DEF n
    <3> QED BY <1>6, <1>7, <3>1, <3>2
  <2>2. CASE ~k.expired
    <3> DEFINE ms == Take(r, steering)
               b == [k EXCEPT !.pc = Onward(k, ms), !.held = ms]
               y == [k EXCEPT !.pc = "late", !.held = ms]
    <3>1. /\ Becomes(r, b) \/ Becomes(r, y)
          /\ steering' = Left(r, steering) /\ UNCHANGED <<followUps, transcript>>
      BY <1>21, <2>2 DEF Boundary, Yield
    <3>2. b.input = k.input /\ b.held = ms /\ y.input = k.input /\ y.held = ms
      BY <1>1 DEF RunRecord
    <3>3. steering = ms \o steering' BY <1>p, <3>1
    <3> HIDE DEF b, y, ms
    <3>4. Along(b) /\ Along(y) BY <3>1, <3>2, <3>3 DEF Moves
    <3> QED BY <1>6, <3>1, <3>4
  <2> QED BY <2>1, <2>2
<1>22. ASSUME Late(r) PROVE MovesOn(r)
  <2> DEFINE fs == Take(r, followUps)
             ms == k.held \o fs
             n == [k EXCEPT !.pc = "top", !.held = ms, !.more = TRUE]
             e == Ended(k, IF k.aborted THEN "aborted" ELSE "normal")
  <2>1. /\ Becomes(r, n) \/ (ms = <<>> /\ Becomes(r, e))
        /\ followUps' = Left(r, followUps) /\ UNCHANGED <<steering, transcript>>
    BY <1>22 DEF Late
  <2>2. n.input = k.input /\ n.held = ms /\ e.input = k.input /\ e.held = <<>>
    BY <1>1 DEF RunRecord, Ended
  <2>3. fs \in Seq(Messages) /\ followUps = fs \o followUps' BY <1>p, <2>1
  <2> HIDE DEF n, e, fs
  <2>4. Along(n) BY <2>1, <2>2, <2>3 DEF Moves
  <2>5. ms = <<>> => Along(e) BY <2>1, <2>2, <2>3 DEF Moves
  <2> QED BY <1>6, <2>1, <2>4, <2>5
<1>23. ASSUME HookThrows(r) PROVE MovesOn(r)
  <2> DEFINE n == Failed(Opened(r))
             l == Failed(Stopped(r))
             e == Failed(k)
  <2>1. UNCHANGED queues BY <1>23 DEF HookThrows
  <2>2. /\ Closing.input = <<>> /\ Closing.held = <<>>
        /\ n.input = <<>> /\ n.held = <<>> /\ l.input = <<>> /\ l.held = <<>>
        /\ e.input = k.input /\ e.held = <<>> /\ DOMAIN e = DOMAIN k
    BY <1>1, <1>r, <1>i DEF RunRecord, Failed, Closing, NewRun
  <2>3. \/ Becomes(r, Closing) /\ transcript' = transcript
        \/ OpenTurn(r) /\ Becomes(r, n)
        \/ transcript' = transcript \o k.input \o GateStop(r) /\ Becomes(r, l)
        \/ Says(r, e, <<"result">>)
    BY <1>23 DEF HookThrows
  <2> HIDE DEF n, l, e
  <2>4. CASE Becomes(r, Closing) /\ transcript' = transcript BY <1>6, <1>7, <2>1, <2>2, <2>4
  <2>5. CASE OpenTurn(r) /\ Becomes(r, n) BY <1>6, <1>o, <2>1, <2>2, <2>5
  <2>6. CASE transcript' = transcript \o k.input \o GateStop(r) /\ Becomes(r, l)
    BY <1>6, <1>8, <2>1, <2>2, <2>6, StopTyped
  <2>7. CASE Says(r, e, <<"result">>) BY <1>5, <1>k, <2>1, <2>2, <2>7
  <2> QED BY <2>3, <2>4, <2>5, <2>6, <2>7
<1>24. ASSUME AgentEnd(r) \/ Fails(r) \/ Close(r) PROVE MovesOn(r)
  <2> DEFINE o == [NewRun EXCEPT !.pc = "over"]
  <2>1. /\ Becomes(r, Closing) \/ Becomes(r, o)
        /\ UNCHANGED queues
        /\ transcript' = transcript \/ transcript' = Append(transcript, "error")
    BY <1>24 DEF AgentEnd, Fails, Close
  <2>2. Closing.input = <<>> /\ Closing.held = <<>> /\ o.input = <<>> /\ o.held = <<>>
    BY DEF Closing, NewRun
  <2> HIDE DEF o
  <2> QED BY <1>6, <1>7, <1>k, <2>1, <2>2
<1> QED BY <1>9, <1>10, <1>11, <1>12, <1>13, <1>14, <1>15, <1>16, <1>17, <1>18, <1>19, <1>20,
           <1>21, <1>22, <1>23, <1>24 DEF RunStep

\* A run that holds nothing leaves the rest of the line as it is.
LEMMA LineWithout ==
  ASSUME NEW o, NEW g, NEW t, NEW i, NEW h, NEW q, NEW f, Line(o, g, t, i, h, q, f)
  PROVE  Line(o, g, t, <<>>, <<>>, q, f)
<1>1. <<>> \in Seq(Kinds) BY EmptySeq
<1>2. InOrder(o, <<>>) /\ Given(o, g, <<>>) /\ \A c : Before(o, <<>>, c) /\ Before(o, c, <<>>)
  BY <1>1, Silent
<1> QED BY <1>2 DEF Line

\* The runs other than the one that goes on, or begins, have nothing in hand.
LEMMA OthersIdle ==
  ASSUME HandsInv, NEW r \in Runs, \A s \in Runs : s # r => ~Active(s),
         NEW s \in Runs, s # r
  PROVE  run[s].input = <<>> /\ run[s].held = <<>>
BY DEF HandsInv, Hands, Active

\* What holds of the run that goes on and of one that holds nothing holds of all.
LEMMA LineOfAll ==
  ASSUME HandsInv, NEW r \in Runs, \A s \in Runs : s # r => ~Active(s),
         \A s \in Runs : s # r => run'[s] = run[s],
         GivenOnce(steered'),
         Line(steered', asked', transcript', run'[r].input, run'[r].held, steering', followUps')
  PROVE  LineInv'
<1>1. Line(steered', asked', transcript', <<>>, <<>>, steering', followUps') BY LineWithout
<1>2. \A s \in Runs : s # r => run'[s].input = <<>> /\ run'[s].held = <<>> BY OthersIdle
<1> QED BY <1>1, <1>2 DEF LineInv

LEMMA LineInit == Init => LineInv
<1>1. <<>> \in Seq(Kinds) /\ DOMAIN <<>> = {} BY EmptySeq
<1>2. \A o, g : /\ InOrder(o, <<>>) /\ Given(o, g, <<>>)
                /\ \A c : Before(o, <<>>, c) /\ Before(o, c, <<>>)
  BY <1>1, Silent
<1>3. \A o, g : Line(o, g, <<>>, <<>>, <<>>, <<>>, <<>>) BY <1>2 DEF Line
<1> QED BY <1>1, <1>3 DEF Init, LineInv, NewRun, GivenOnce

\* The user's own steps.
LEMMA LineSteer ==
  ASSUME TypeOK, LineInv, NEW m \in NextOf(Steers), Steer(m)
  PROVE  LineInv'
<1>1. m \in Steers /\ m \notin InSeq(steered) /\ m \in Entries BY NextIsNew DEF Messages, Entries
<1>2. /\ steering \in Seq(Steers) /\ steered \in Seq(Steers) /\ steering \in Seq(Entries)
      /\ <<m>> \in Seq(Entries)
  BY <1>1, QueuedAreMessages, MessagesAreEntries DEF TypeOK
<1>3. steering' = steering \o <<m>> /\ steered' = Append(steered, m)
      /\ UNCHANGED <<run, followUps, transcript, asked>>
  BY <1>1, <1>2, AppendIsConcat DEF Steer
<1> DEFINE p == Append(steered, m)
<1>4. GivenOnce(steered) BY DEF LineInv
<1>5. /\ GivenOnce(p) /\ InOrder(p, <<m>>) /\ Given(p, asked, <<m>>)
      /\ \A c : Given(steered, asked, c) =>
           /\ Before(p, c, <<m>>) /\ Given(p, asked, c)
           /\ InOrder(steered, c) => InOrder(p, c)
           /\ \A d : Given(steered, asked, d) /\ Before(steered, c, d) => Before(p, c, d)
  BY <1>1, <1>2, <1>4, NewSteer
<1>6. /\ InOrder(p, steering \o <<m>>) <=>
           InOrder(p, steering) /\ InOrder(p, <<m>>) /\ Before(p, steering, <<m>>)
      /\ \A c : Before(p, c, steering \o <<m>>) <=> Before(p, c, steering) /\ Before(p, c, <<m>>)
      /\ Given(p, asked, steering \o <<m>>) <=>
           Given(p, asked, steering) /\ Given(p, asked, <<m>>)
  BY <1>2, LineConcat
<1> HIDE DEF p
<1>7. ASSUME NEW i, NEW h, Line(steered, asked, transcript, i, h, steering, followUps)
      PROVE  Line(p, asked, transcript, i, h, steering \o <<m>>, followUps)
  BY <1>5, <1>6, <1>7 DEF Line
<1> QED BY <1>3, <1>5, <1>7 DEF LineInv, p

LEMMA LineFollowUp ==
  ASSUME TypeOK, LineInv, NEW m \in NextOf(FollowUps), FollowUp(m)
  PROVE  LineInv'
<1>1. m \in Messages \ Steers /\ m \in FollowUps /\ m \notin InSeq(steered) /\ m \notin asked
      /\ m \in Entries
  BY NextIsNew, MessagesAssumption DEF Messages, Entries
<1>2. followUps \in Seq(FollowUps) /\ followUps \in Seq(Entries) /\ <<m>> \in Seq(Entries)
  BY <1>1, QueuedAreMessages, MessagesAreEntries DEF TypeOK
<1>3. followUps' = followUps \o <<m>> /\ asked' = asked \cup {m}
      /\ UNCHANGED <<run, steering, transcript, steered>>
  BY <1>1, <1>2, AppendIsConcat DEF FollowUp
<1> DEFINE b == asked \cup {m}
           o == steered
<1>4. /\ InOrder(o, <<m>>) /\ Given(o, b, <<m>>)
      /\ \A c : Given(o, asked, c) =>
           Before(o, c, <<m>>) /\ Before(o, <<m>>, c) /\ Given(o, b, c)
  BY <1>1, NewComer
<1>5. /\ InOrder(o, followUps \o <<m>>) <=>
           InOrder(o, followUps) /\ InOrder(o, <<m>>) /\ Before(o, followUps, <<m>>)
      /\ \A c : Before(o, c, followUps \o <<m>>) <=>
           Before(o, c, followUps) /\ Before(o, c, <<m>>)
      /\ Given(o, b, followUps \o <<m>>) <=> Given(o, b, followUps) /\ Given(o, b, <<m>>)
  BY <1>2, LineConcat
<1> HIDE DEF b, o
<1>6. ASSUME NEW i, NEW h, Line(o, asked, transcript, i, h, steering, followUps)
      PROVE  Line(o, b, transcript, i, h, steering, followUps \o <<m>>)
  BY <1>4, <1>5, <1>6 DEF Line
<1> QED BY <1>3, <1>6 DEF LineInv, b, o

\* A sequence without its last element is the first part of it.
LEMMA FrontIsPart ==
  ASSUME NEW S, NEW s \in Seq(S), s # <<>>
  PROVE  \E e \in Seq(S) : Front(s) \in Seq(S) /\ s = Front(s) \o e
<1> DEFINE n == Len(s) - 1
           e == SubSeq(s, n + 1, Len(s))
<1>1. Len(s) \in Nat /\ Len(s) > 0 BY EmptySeq, LenProperties
<1>2. n \in 0..Len(s) /\ Front(s) = SubSeq(s, 1, n) BY <1>1 DEF Front
<1>3. e \in Seq(S)
  <2>1. \A i \in (n + 1)..Len(s) : s[i] \in S BY <1>1, ElementOfSeq
  <2> QED BY <1>1, <2>1, SubSeqProperties
<1>4. Front(s) \o e = SubSeq(s, 1, Len(s))
  <2>1. SubSeq(s, 1, n) \o SubSeq(s, n + 1, Len(s)) = SubSeq(s, 1, Len(s))
    <3>1. \A m \in 0..Len(s) : SubSeq(s, 1, m) \o SubSeq(s, m + 1, Len(s)) = SubSeq(s, 1, Len(s))
      <4> TAKE m \in 0..Len(s)
      <4>1. 1 \in 1..Len(s) + 1 /\ m \in (1 - 1)..Len(s) /\ Len(s) \in m..Len(s)
        BY <1>1
      <4> QED BY <1>1, <4>1, ConcatAdjacentSubSeq
    <3> QED BY <1>2, <3>1
  <2> QED BY <1>2, <2>1
<1>5. Front(s) \o e = s BY <1>4, SubSeqFull
<1>6. Front(s) \in Seq(S) BY FrontTyped
<1> QED BY <1>3, <1>5, <1>6

LEMMA LineTakeBack ==
  ASSUME TypeOK, LineInv, TakeBack
  PROVE  LineInv'
<1>1. UNCHANGED <<run, transcript, steered, asked>> BY DEF TakeBack, history
<1>2. steering \in Seq(Entries) /\ followUps \in Seq(Entries)
  BY QueuedAreMessages, MessagesAreEntries DEF TypeOK
<1> DEFINE Cut(q, p) == \/ p = q
                        \/ \E e \in Seq(Entries) : p \in Seq(Entries) /\ q = p \o e
<1>3. Cut(steering, steering') /\ Cut(followUps, followUps')
  <2>1. \A q \in Seq(Entries) : q # <<>> => Cut(q, Front(q)) BY FrontIsPart
  <2>2. \A q : Cut(q, q) OBVIOUS
  <2> HIDE DEF Cut
  <2> QED BY <1>2, <2>1, <2>2 DEF TakeBack
<1> DEFINE o == steered
           Part(q, p) == /\ InOrder(o, q) => InOrder(o, p)
                         /\ \A c : Before(o, c, q) => Before(o, c, p)
                         /\ Given(o, asked, q) => Given(o, asked, p)
<1>4. \A p \in Seq(Entries) : \A e \in Seq(Entries) : Part(p \o e, p) BY LineConcat
<1>5. \A p : Part(p, p) OBVIOUS
<1>6. Part(steering, steering') /\ Part(followUps, followUps')
  <2> HIDE DEF Part
  <2> QED BY <1>3, <1>4, <1>5 DEF Cut
<1>7. ASSUME NEW i, NEW h, Line(o, asked, transcript, i, h, steering, followUps)
      PROVE  Line(o, asked, transcript, i, h, steering', followUps')
  BY <1>6, <1>7 DEF Line
<1> HIDE DEF o
<1> QED BY <1>1, <1>7 DEF LineInv, o

\* A run begins with a message that is new, or with none.
LEMMA LineBegin ==
  ASSUME TypeOK, AbortReachesTheRun, HandsInv, LineInv, NEW r \in Runs,
         \/ \E p \in NextOf(Prompts) : Prompt(r, p)
         \/ Continue(r) \/ Retry(r)
  PROVE  LineInv'
<1> DEFINE o == steered
           told(c, i) == [NewRun EXCEPT !.pc = "poll", !.input = i, !.ctx = c]
           goes(c, pc) == [NewRun EXCEPT !.pc = pc, !.ctx = c]
<1>1. /\ \A c, i : told(c, i).input = i /\ told(c, i).held = <<>>
      /\ \A c, pc : goes(c, pc).held = <<>> /\ goes(c, pc).input = <<>>
  BY DEF NewRun
<1>2. \A n : Becomes(r, n) => run'[r] = n /\ \A s \in Runs : s # r => run'[s] = run[s]
  BY After
<1>3. Claims(r) /\ UNCHANGED <<queues, steered>>
  <2>1. CASE \E p \in NextOf(Prompts) : Prompt(r, p) BY <2>1 DEF Prompt
  <2>2. CASE Continue(r) BY <2>2 DEF Continue, history
  <2>3. CASE Retry(r) BY <2>3 DEF Retry, history
  <2> QED BY <2>1, <2>2, <2>3
<1>4. \A s \in Runs : ~Active(s) BY <1>3 DEF Claims, AbortReachesTheRun
<1>5. Line(o, asked, transcript, <<>>, <<>>, steering, followUps) /\ GivenOnce(o) BY DEF LineInv
<1>6. CASE \E p \in NextOf(Prompts) : Prompt(r, p)
  <2> PICK p \in NextOf(Prompts) : Prompt(r, p) BY <1>6
  <2>1. p \in Messages \ Steers /\ p \notin asked /\ p \notin InSeq(o)
    BY NextIsNew, MessagesAssumption DEF Messages
  <2>2. Becomes(r, told(Append(transcript, p), <<p>>)) /\ asked' = asked \cup {p}
        /\ transcript' = transcript
    BY DEF Prompt
  <2> HIDE DEF told
  <2>3. /\ run'[r].input = <<p>> /\ run'[r].held = <<>>
        /\ \A s \in Runs : s # r => run'[s] = run[s]
    BY <1>1, <1>2, <2>2
  <2> DEFINE b == asked \cup {p}
  <2>4. /\ InOrder(o, <<p>>) /\ Given(o, b, <<p>>)
        /\ \A c : Given(o, asked, c) =>
             Before(o, c, <<p>>) /\ Before(o, <<p>>, c) /\ Given(o, b, c)
    BY <2>1, NewComer
  <2> HIDE DEF b
  <2>5. Line(o, b, transcript, <<p>>, <<>>, steering, followUps) BY <1>5, <2>4 DEF Line
  <2> QED BY <1>3, <1>4, <1>5, <2>2, <2>3, <2>5, LineOfAll DEF queues, b
<1>7. CASE Continue(r) \/ Retry(r)
  <2>1. \E c, pc : Becomes(r, goes(c, pc)) BY <1>7 DEF Continue, Retry
  <2>2. UNCHANGED history BY <1>7 DEF Continue, Retry
  <2> HIDE DEF goes
  <2>3. /\ run'[r].input = <<>> /\ run'[r].held = <<>>
        /\ \A s \in Runs : s # r => run'[s] = run[s]
    BY <1>1, <1>2, <2>1
  <2>4. \/ transcript' = transcript
        \/ \E e \in Seq(Entries) : transcript' \in Seq(Entries) /\ transcript = transcript' \o e
    <3>1. CASE Continue(r) BY <3>1 DEF Continue
    <3>2. CASE Retry(r)
      <4>1. transcript # <<>> /\ transcript' = Front(transcript) BY <3>2, EmptySeq DEF Retry, Front
      <4> QED BY <4>1, FrontIsPart, ZenonT(60) DEF TypeOK
    <3> QED BY <1>7, <3>1, <3>2
  <2>5. ASSUME NEW e \in Seq(Entries), transcript' \in Seq(Entries), transcript = transcript' \o e
        PROVE  Line(o, asked, transcript', <<>>, <<>>, steering, followUps)
    <3>1. /\ InOrder(o, transcript) => InOrder(o, transcript')
          /\ \A c : Before(o, transcript, c) => Before(o, transcript', c)
          /\ Given(o, asked, transcript) => Given(o, asked, transcript')
      BY <2>5, LineConcat
    <3> QED BY <1>5, <3>1 DEF Line
  <2>6. Line(o, asked, transcript', <<>>, <<>>, steering, followUps) BY <1>5, <2>4, <2>5
  <2> QED BY <1>3, <1>4, <1>5, <2>2, <2>3, <2>6, LineOfAll DEF queues, history
<1> QED BY <1>6, <1>7

\* What a run that goes on does.
LEMMA LineDuring ==
  ASSUME TypeOK, TypeOK', AbortReachesTheRun, HandsInv, LineInv, NEW r \in Runs, RunStep(r)
  PROVE  LineInv'
<1>1. MovesOn(r) BY MovesDuring
<1>2. CASE Active(r)
  <2>1. \A s \in Runs : s # r => ~Active(s) BY <1>2 DEF AbortReachesTheRun
  <2>2. /\ transcript \in Seq(Entries)
        /\ steering \in Seq(Messages) /\ followUps \in Seq(Messages)
        /\ steering' \in Seq(Messages) /\ followUps' \in Seq(Messages)
        /\ run[r].input \in Seq(Messages) /\ run[r].held \in Seq(Messages)
        /\ run'[r].input \in Seq(Messages) /\ run'[r].held \in Seq(Messages)
    BY QueuedAreMessages DEF TypeOK, RunRecord
  <2>3. Before(steered, steering, followUps) /\ Before(steered, followUps, steering)
    BY Apart DEF TypeOK
  <2>4. GivenOnce(steered) /\ Line(steered, asked, transcript, run[r].input, run[r].held,
                                   steering, followUps)
    BY DEF LineInv
  <2>5. /\ UNCHANGED history
        /\ Moves(transcript, run[r].input, run[r].held, steering, followUps,
                 transcript', run'[r].input, run'[r].held, steering', followUps')
        /\ \A s \in Runs : s # r => run'[s] = run[s]
    BY <1>1 DEF MovesOn
  <2>6. Line(steered, asked, transcript', run'[r].input, run'[r].held, steering', followUps')
    BY <2>2, <2>3, <2>4, <2>5, LineMoves
  <2> QED BY <2>1, <2>4, <2>5, <2>6, LineOfAll DEF history
<1>3. CASE ~Active(r)
  <2>1. Close(r)
    BY <1>3 DEF RunStep, TakeSteering, TakeFollowUps, Poll, Resume, Top, Prepare, Reply,
      Call, Detour, Breaks, HookThrows, Leaks, Tools, Boundary, Yield, Late, AgentEnd, Fails,
      Active
  <2>2. UNCHANGED <<queues, transcript, history>> BY <1>1, <2>1 DEF Close, MovesOn
  <2>3. run'[r] = [NewRun EXCEPT !.pc = "over"] /\ \A s \in Runs : s # r => run'[s] = run[s]
    BY <2>1, After DEF Close
  <2>4. run'[r].input = <<>> /\ run'[r].held = <<>> BY <2>3 DEF NewRun
  <2> QED BY <2>2, <2>3, <2>4 DEF LineInv, queues, history
<1> QED BY <1>2, <1>3

LEMMA LineKept ==
  TypeOK /\ TypeOK' /\ AbortReachesTheRun /\ HandsInv /\ LineInv /\ [Next]_vars => LineInv'
<1> SUFFICES ASSUME TypeOK, TypeOK', AbortReachesTheRun, HandsInv, LineInv, [Next]_vars
             PROVE  LineInv'
  OBVIOUS
<1>1. ASSUME UNCHANGED <<queues, transcript, history>>,
             \A s \in Runs : run'[s].input = run[s].input /\ run'[s].held = run[s].held
      PROVE  LineInv'
  BY <1>1 DEF LineInv, queues, history
<1>2. ASSUME NEW r \in Runs, Expire(r) PROVE LineInv'
  <2> DEFINE n == [run[r] EXCEPT !.expired = TRUE, !.aborted = TRUE]
  <2>1. Becomes(r, n) /\ UNCHANGED <<queues, transcript, history>> BY <1>2 DEF Expire
  <2>2. n.input = run[r].input /\ n.held = run[r].held BY DEF TypeOK, RunRecord
  <2> HIDE DEF n
  <2>3. run'[r] = n /\ \A s \in Runs : s # r => run'[s] = run[s] BY <2>1, After
  <2> QED BY <1>1, <2>1, <2>2, <2>3
<1>3. CASE Abort
  <2> DEFINE n == [run[ctl] EXCEPT !.aborted = TRUE]
  <2>1. ctl \in Runs /\ Becomes(ctl, n) /\ UNCHANGED <<queues, transcript, history>>
    BY <1>3 DEF Abort, TypeOK
  <2>2. n.input = run[ctl].input /\ n.held = run[ctl].held BY <2>1 DEF TypeOK, RunRecord
  <2> HIDE DEF n
  <2>3. run'[ctl] = n /\ \A s \in Runs : s # ctl => run'[s] = run[s] BY <2>1, After
  <2> QED BY <1>1, <2>1, <2>2, <2>3
<1>4. CASE UNCHANGED vars BY <1>1, <1>4 DEF vars
<1> QED BY <1>2, <1>3, <1>4, LineDuring, LineBegin, LineSteer, LineFollowUp, LineTakeBack DEF Next

\* Steering is said in the order it was given, and nothing is said twice, whichever
\* polls, runs, aborts and failures come in between.
THEOREM OrderKept == Spec => []SaidInOrder
<1> DEFINE I == TypeOK /\ AbortReachesTheRun /\ PairInv /\ HandsInv /\ LineInv
<1>1. Init => I BY TypeInit, ReachInit, PairInit, HandsInit, LineInit
<1>2. I /\ [Next]_vars => I'
  BY TypeKept, ReachKept, PairKept, HandsKept, LineKept
<1>3. I => SaidInOrder
  <2> SUFFICES ASSUME I, NEW i \in DOMAIN transcript, NEW j \in DOMAIN transcript,
                      i < j, transcript[i] \in Messages
               PROVE  Ahead(steered, transcript[i], transcript[j])
    BY DEF SaidInOrder, Ahead
  <2> QED BY DEF LineInv, Line, InOrder
<1> QED BY <1>1, <1>2, <1>3, PTL DEF Spec

-----------------------------------------------------------------------------
\* What the model is shown.

LEMMA Shifted ==
  ASSUME NEW c \in Nat, NEW X, X \subseteq Nat, IsFiniteSet(X)
  PROVE  LET Y == {c + x : x \in X} IN IsFiniteSet(Y) /\ Cardinality(Y) = Cardinality(X)
<1> DEFINE Y == {c + x : x \in X}
           f == [x \in X |-> c + x]
<1>1. f \in [X -> Y] /\ \A x, y \in X : f[x] = f[y] => x = y OBVIOUS
<1>2. \A y \in Y : \E x \in X : f[x] = y OBVIOUS
<1>3. f \in Bijection(X, Y) BY <1>1, <1>2 DEF Bijection, Injection, Surjection, IsInjective
<1>4. ExistsBijection(X, Y) BY <1>3 DEF ExistsBijection
<1> HIDE DEF f, Y
<1>5. IsFiniteSet(Y) /\ Cardinality(Y) = Cardinality(X) BY <1>4, FS_Bijection
<1> QED BY <1>5 DEF Y

\* What is kept of a sequence up to a place.
UpTo(s, i) == {j \in KeptAt(s) : j <= i}

LEMMA KeptFinite ==
  ASSUME NEW S, NEW s \in Seq(S)
  PROVE  /\ KeptAt(s) \subseteq 1..Len(s) /\ KeptAt(s) \subseteq Nat
         /\ IsFiniteSet(KeptAt(s)) /\ Cardinality(KeptAt(s)) \in Nat
         /\ \A i : /\ IsFiniteSet(UpTo(s, i)) /\ Rank(s, i) = Cardinality(UpTo(s, i))
                   /\ UpTo(s, i) \subseteq KeptAt(s)
                   /\ Rank(s, i) \in Nat /\ Rank(s, i) <= Cardinality(KeptAt(s))
<1>1. DOMAIN s = 1..Len(s) /\ Len(s) \in Nat BY LenProperties
<1>2. KeptAt(s) \subseteq 1..Len(s) BY <1>1 DEF KeptAt
<1>3. IsFiniteSet(1..Len(s)) BY <1>1, FS_Interval
<1>4. IsFiniteSet(KeptAt(s)) BY <1>2, <1>3, FS_Subset
<1>5. ASSUME NEW i
      PROVE  /\ IsFiniteSet(UpTo(s, i)) /\ Rank(s, i) = Cardinality(UpTo(s, i))
             /\ UpTo(s, i) \subseteq KeptAt(s)
             /\ Rank(s, i) \in Nat /\ Rank(s, i) <= Cardinality(KeptAt(s))
  <2>1. UpTo(s, i) \subseteq KeptAt(s) /\ Rank(s, i) = Cardinality(UpTo(s, i)) BY DEF UpTo, Rank
  <2>2. IsFiniteSet(UpTo(s, i)) /\ Cardinality(UpTo(s, i)) <= Cardinality(KeptAt(s))
    BY <1>4, <2>1, FS_Subset
  <2>3. Cardinality(UpTo(s, i)) \in Nat BY <2>2, FS_CardinalityType
  <2> QED BY <2>1, <2>2, <2>3
<1>6. Cardinality(KeptAt(s)) \in Nat BY <1>4, FS_CardinalityType
<1>7. KeptAt(s) \subseteq Nat BY <1>1, <1>2
<1> QED BY <1>2, <1>4, <1>5, <1>6, <1>7

\* Every place that is kept has a rank of its own.
LEMMA OwnRank ==
  ASSUME NEW S, NEW s \in Seq(S), NEW i \in KeptAt(s), NEW j \in KeptAt(s),
         Rank(s, i) = Rank(s, j)
  PROVE  i = j
<1>1. /\ KeptAt(s) \subseteq Nat
      /\ \A n : IsFiniteSet(UpTo(s, n)) /\ Rank(s, n) = Cardinality(UpTo(s, n))
  BY KeptFinite
<1>2. ASSUME NEW m \in KeptAt(s), NEW n \in KeptAt(s), m < n, Rank(s, m) = Rank(s, n)
      PROVE  FALSE
  <2>1. UpTo(s, m) \subseteq UpTo(s, n) BY <1>1, <1>2 DEF UpTo
  <2>2. n \in UpTo(s, n) /\ n \notin UpTo(s, m) BY <1>1, <1>2 DEF UpTo
  <2>3. UpTo(s, m) = UpTo(s, n) BY <1>1, <1>2, <2>1, FS_Subset
  <2> QED BY <2>2, <2>3
<1> QED BY <1>1, <1>2

LEMMA FirstRank ==
  ASSUME NEW S, NEW s \in Seq(S), NEW i \in KeptAt(s)
  PROVE  Rank(s, i) > 0
<1>1. /\ IsFiniteSet(UpTo(s, i)) /\ Rank(s, i) = Cardinality(UpTo(s, i))
      /\ Rank(s, i) \in Nat /\ KeptAt(s) \subseteq Nat
  BY KeptFinite
<1>2. i \in UpTo(s, i) BY <1>1 DEF UpTo
<1>3. Cardinality(UpTo(s, i)) # 0 BY <1>1, <1>2, FS_EmptySet
<1> QED BY <1>1, <1>3

\* The ranks in two sequences that are put together.
LEMMA RankConcat ==
  ASSUME NEW S, NEW a \in Seq(S), NEW m \in Seq(S)
  PROVE  /\ KeptAt(a \o m) = KeptAt(a) \cup {Len(a) + i : i \in KeptAt(m)}
         /\ Cardinality(KeptAt(a \o m)) = Cardinality(KeptAt(a)) + Cardinality(KeptAt(m))
         /\ \A i \in KeptAt(a) : Rank(a \o m, i) = Rank(a, i) /\ (a \o m)[i] = a[i]
         /\ \A i \in KeptAt(m) : /\ Rank(a \o m, Len(a) + i) = Cardinality(KeptAt(a)) + Rank(m, i)
                                 /\ (a \o m)[Len(a) + i] = m[i]
<1> DEFINE s == a \o m
           Far(X) == {Len(a) + i : i \in X}
<1>1. /\ s \in Seq(S) /\ Len(s) = Len(a) + Len(m)
      /\ \A i \in DOMAIN a : s[i] = a[i]
      /\ \A i \in DOMAIN m : s[Len(a) + i] = m[i]
  BY Concat
<1>2. /\ DOMAIN a = 1..Len(a) /\ DOMAIN m = 1..Len(m) /\ Len(a) \in Nat /\ Len(m) \in Nat
      /\ DOMAIN s = 1..(Len(a) + Len(m))
  BY <1>1, LenProperties
<1> HIDE DEF s
<1>3. KeptAt(s) = KeptAt(a) \cup Far(KeptAt(m))
  <2>1. ASSUME NEW i \in KeptAt(s) PROVE i \in KeptAt(a) \cup Far(KeptAt(m))
    <3>1. CASE i <= Len(a) BY <1>1, <1>2, <2>1, <3>1 DEF KeptAt
    <3>2. CASE ~(i <= Len(a))
      <4>1. i - Len(a) \in DOMAIN m /\ i = Len(a) + (i - Len(a)) BY <1>2, <2>1, <3>2 DEF KeptAt
      <4>2. s[i] = m[i - Len(a)] BY <1>1, <4>1
      <4>3. i - Len(a) \in KeptAt(m) BY <2>1, <4>1, <4>2 DEF KeptAt
      <4> QED BY <4>1, <4>3
    <3> QED BY <2>1, <3>1, <3>2, <1>2 DEF KeptAt
  <2>2. ASSUME NEW i \in KeptAt(a) PROVE i \in KeptAt(s) BY <1>1, <1>2, <2>2 DEF KeptAt
  <2>3. ASSUME NEW i \in KeptAt(m) PROVE Len(a) + i \in KeptAt(s)
    <3>1. i \in DOMAIN m /\ m[i] # "discarded" BY <2>3 DEF KeptAt
    <3>2. Len(a) + i \in DOMAIN s BY <1>2, <3>1
    <3> QED BY <1>1, <3>1, <3>2 DEF KeptAt
  <2> QED BY <2>1, <2>2, <2>3
<1>4. /\ KeptAt(a) \subseteq 1..Len(a) /\ IsFiniteSet(KeptAt(a)) /\ Cardinality(KeptAt(a)) \in Nat
      /\ KeptAt(m) \subseteq 1..Len(m) /\ IsFiniteSet(KeptAt(m)) /\ Cardinality(KeptAt(m)) \in Nat
      /\ \A i : Rank(m, i) = Cardinality(UpTo(m, i)) /\ IsFiniteSet(UpTo(m, i))
      /\ \A i : UpTo(m, i) \subseteq KeptAt(m)
      /\ \A i : Rank(s, i) = Cardinality(UpTo(s, i)) /\ Rank(a, i) = Cardinality(UpTo(a, i))
  BY <1>1, KeptFinite
<1>5. ASSUME NEW X, X \subseteq KeptAt(m), IsFiniteSet(X)
      PROVE  Cardinality(KeptAt(a) \cup Far(X)) = Cardinality(KeptAt(a)) + Cardinality(X)
  <2>1. X \subseteq Nat BY <1>2, <1>4, <1>5
  <2>2. IsFiniteSet(Far(X)) /\ Cardinality(Far(X)) = Cardinality(X) BY <1>2, <1>5, <2>1, Shifted
  <2>3. KeptAt(a) \cap Far(X) = {} BY <1>2, <1>4, <1>5
  <2>4. Cardinality(X) \in Nat BY <1>5, FS_CardinalityType
  <2> HIDE DEF Far
  <2>5. Cardinality(KeptAt(a) \cup Far(X))
          = Cardinality(KeptAt(a)) + Cardinality(Far(X)) - Cardinality(KeptAt(a) \cap Far(X))
    BY <1>4, <2>2, FS_Union
  <2>6. Cardinality(KeptAt(a) \cap Far(X)) = 0 BY <2>3, FS_EmptySet
  <2>7. \A x, y \in Nat : x + y - 0 = x + y OBVIOUS
  <2> QED BY <1>4, <2>2, <2>4, <2>5, <2>6, <2>7
<1>6. Cardinality(KeptAt(s)) = Cardinality(KeptAt(a)) + Cardinality(KeptAt(m))
  <2> HIDE DEF Far
  <2> QED BY <1>3, <1>4, <1>5
<1>7. ASSUME NEW i \in KeptAt(a) PROVE Rank(s, i) = Rank(a, i) /\ s[i] = a[i]
  <2>1. UpTo(s, i) = UpTo(a, i)
    <3>1. ASSUME NEW j \in Far(KeptAt(m)) PROVE ~(j <= i)
      BY <1>2, <1>4, <1>7, <3>1
    <3> HIDE DEF Far
    <3> QED BY <1>3, <3>1 DEF UpTo
  <2>2. i \in DOMAIN a BY DEF KeptAt
  <2> QED BY <1>1, <1>4, <2>1, <2>2
<1>8. ASSUME NEW i \in KeptAt(m)
      PROVE  Rank(s, Len(a) + i) = Cardinality(KeptAt(a)) + Rank(m, i) /\ s[Len(a) + i] = m[i]
  <2>1. UpTo(s, Len(a) + i) = KeptAt(a) \cup Far(UpTo(m, i))
    <3>1. \A j \in KeptAt(a) : j <= Len(a) + i BY <1>2, <1>4, <1>8
    <3>2. \A j \in KeptAt(m) : Len(a) + j <= Len(a) + i <=> j <= i BY <1>2, <1>4, <1>8
    <3>3. ASSUME NEW j \in UpTo(s, Len(a) + i) PROVE j \in KeptAt(a) \cup Far(UpTo(m, i))
      BY <1>3, <3>2, <3>3 DEF UpTo
    <3>4. ASSUME NEW j \in KeptAt(a) \cup Far(UpTo(m, i)) PROVE j \in UpTo(s, Len(a) + i)
      BY <1>3, <3>1, <3>2, <3>4 DEF UpTo
    <3> QED BY <3>3, <3>4
  <2>2. i \in DOMAIN m BY DEF KeptAt
  <2> HIDE DEF Far
  <2>3. Cardinality(KeptAt(a) \cup Far(UpTo(m, i)))
          = Cardinality(KeptAt(a)) + Cardinality(UpTo(m, i))
    BY <1>4, <1>5
  <2> QED BY <1>1, <1>4, <2>1, <2>2, <2>3
<1> QED BY <1>3, <1>6, <1>7, <1>8 DEF s

LEMMA SameSelf ==
  ASSUME NEW S, NEW s \in Seq(S)
  PROVE  SameKept(s, s)
BY OwnRank DEF SameKept

\* Two contexts that keep the same go on keeping the same, whatever is added to both.
LEMMA SameMore ==
  ASSUME NEW S, NEW a \in Seq(S), NEW b \in Seq(S), NEW m \in Seq(S), SameKept(a, b)
  PROVE  SameKept(a \o m, b \o m)
<1> DEFINE c == Cardinality(KeptAt(a))
<1>1. /\ KeptAt(a \o m) = KeptAt(a) \cup {Len(a) + i : i \in KeptAt(m)}
      /\ Cardinality(KeptAt(a \o m)) = c + Cardinality(KeptAt(m))
      /\ \A i \in KeptAt(a) : Rank(a \o m, i) = Rank(a, i) /\ (a \o m)[i] = a[i]
      /\ \A i \in KeptAt(m) : Rank(a \o m, Len(a) + i) = c + Rank(m, i)
                              /\ (a \o m)[Len(a) + i] = m[i]
  BY RankConcat, ZenonT(60)
<1>2. /\ KeptAt(b \o m) = KeptAt(b) \cup {Len(b) + i : i \in KeptAt(m)}
      /\ Cardinality(KeptAt(b \o m)) = c + Cardinality(KeptAt(m))
      /\ \A i \in KeptAt(b) : Rank(b \o m, i) = Rank(b, i) /\ (b \o m)[i] = b[i]
      /\ \A i \in KeptAt(m) : Rank(b \o m, Len(b) + i) = c + Rank(m, i)
                              /\ (b \o m)[Len(b) + i] = m[i]
  <2>1. /\ KeptAt(b \o m) = KeptAt(b) \cup {Len(b) + i : i \in KeptAt(m)}
        /\ Cardinality(KeptAt(b \o m)) = Cardinality(KeptAt(b)) + Cardinality(KeptAt(m))
        /\ \A i \in KeptAt(b) : Rank(b \o m, i) = Rank(b, i) /\ (b \o m)[i] = b[i]
        /\ \A i \in KeptAt(m) :
             /\ Rank(b \o m, Len(b) + i) = Cardinality(KeptAt(b)) + Rank(m, i)
             /\ (b \o m)[Len(b) + i] = m[i]
    BY RankConcat, ZenonT(60)
  <2>2. Cardinality(KeptAt(b)) = c BY DEF SameKept
  <2> HIDE DEF c
  <2> QED BY <2>1, <2>2
<1>3. /\ c \in Nat /\ \A i : Rank(a, i) \in Nat /\ Rank(a, i) <= c
      /\ \A i : Rank(b, i) \in Nat /\ Rank(b, i) <= c
      /\ \A i : Rank(m, i) \in Nat
      /\ \A i \in KeptAt(m) : Rank(m, i) > 0
  BY KeptFinite, FirstRank DEF SameKept
<1> HIDE DEF c
<1>4. ASSUME NEW i \in KeptAt(a \o m), NEW j \in KeptAt(b \o m),
             Rank(a \o m, i) = Rank(b \o m, j)
      PROVE  (a \o m)[i] = (b \o m)[j]
  <2>1. CASE i \in KeptAt(a) /\ j \in KeptAt(b) BY <1>1, <1>2, <1>4, <2>1, ZenonT(60) DEF SameKept
  <2>2. ASSUME i \in KeptAt(a), NEW y \in KeptAt(m), j = Len(b) + y PROVE FALSE
    <3>1. Rank(a, i) = c + Rank(m, y) BY <1>1, <1>2, <1>4, <2>2
    <3> QED BY <1>3, <3>1
  <2>3. ASSUME NEW x \in KeptAt(m), i = Len(a) + x, j \in KeptAt(b) PROVE FALSE
    <3>1. c + Rank(m, x) = Rank(b, j) BY <1>1, <1>2, <1>4, <2>3
    <3> QED BY <1>3, <3>1
  <2>4. ASSUME NEW x \in KeptAt(m), i = Len(a) + x, NEW y \in KeptAt(m), j = Len(b) + y
        PROVE  (a \o m)[i] = (b \o m)[j]
    <3>1. c + Rank(m, x) = c + Rank(m, y) BY <1>1, <1>2, <1>4, <2>4
    <3>2. Rank(m, x) = Rank(m, y) BY <1>3, <3>1
    <3>3. x = y BY <3>2, OwnRank
    <3> QED BY <1>1, <1>2, <2>4, <3>3
  <2> QED BY <1>1, <1>2, <2>1, <2>2, <2>3, <2>4
<1> QED BY <1>1, <1>2, <1>4 DEF SameKept

\* A reply that is thrown away changes nothing.
LEMMA SameUnless ==
  ASSUME NEW S, NEW a \in Seq(S), NEW b \in Seq(S), NEW d \in Seq(S)
  PROVE  KeptAt(d) = {} /\ SameKept(a, b) => SameKept(a, b \o d)
<1>1. /\ KeptAt(b \o d) = KeptAt(b) \cup {Len(b) + i : i \in KeptAt(d)}
      /\ Cardinality(KeptAt(b \o d)) = Cardinality(KeptAt(b)) + Cardinality(KeptAt(d))
      /\ \A i \in KeptAt(b) : Rank(b \o d, i) = Rank(b, i) /\ (b \o d)[i] = b[i]
      /\ \A i \in KeptAt(d) :
           /\ Rank(b \o d, Len(b) + i) = Cardinality(KeptAt(b)) + Rank(d, i)
           /\ (b \o d)[Len(b) + i] = d[i]
  BY RankConcat, ZenonT(60)
<1>2. KeptAt(d) = {} => KeptAt(b \o d) = KeptAt(b) BY <1>1
<1> QED BY <1>1, <1>2 DEF SameKept

LEMMA SameDiscarded ==
  ASSUME NEW a \in Seq(Entries), NEW b \in Seq(Entries), SameKept(a, b)
  PROVE  SameKept(a, Append(b, "discarded"))
<1>1. "discarded" \in Entries BY DEF Entries, Kinds
<1>2. /\ Append(b, "discarded") = b \o <<"discarded">> /\ <<"discarded">> \in Seq(Entries)
  BY <1>1, AppendIsConcat
<1>3. DOMAIN <<"discarded">> = {1} /\ <<"discarded">>[1] = "discarded" BY Z3
<1>4. KeptAt(<<"discarded">>) = {} BY <1>3 DEF KeptAt
<1> QED BY <1>2, <1>4, SameUnless

\* What the loop shows the model is what is said, and what it is going to say,
\* unless it has passed messages over.
ViewInv ==
  \A r \in Runs : Active(r) /\ ~run[r].muted =>
    SameKept(run[r].ctx, transcript \o run[r].input)

LEMMA ViewInit == Init => ViewInv
BY DEF Init, ViewInv, Active, NewRun

\* It is enough to look at the run that takes the step.
LEMMA ViewStep ==
  ASSUME AbortReachesTheRun, NEW r \in Runs, Active(r),
         \A s \in Runs : s # r => run'[s] = run[s],
         Active(r)' /\ ~run'[r].muted => SameKept(run'[r].ctx, transcript' \o run'[r].input)
  PROVE  ViewInv'
<1>1. \A s \in Runs : s # r => ~Active(s) BY DEF AbortReachesTheRun
<1>2. \A s \in Runs : s # r => ~Active(s)' BY <1>1 DEF Active
<1> QED BY <1>2 DEF ViewInv

LEMMA ViewBegin ==
  ASSUME TypeOK, TypeOK', AbortReachesTheRun, NEW r \in Runs,
         \/ \E p \in NextOf(Prompts) : Prompt(r, p)
         \/ Continue(r) \/ Retry(r)
  PROVE  ViewInv'
<1> DEFINE told(c, i) == [NewRun EXCEPT !.pc = "poll", !.input = i, !.ctx = c]
           goes(c, pc) == [NewRun EXCEPT !.pc = pc, !.ctx = c]
<1>1. /\ \A c, i : told(c, i).input = i /\ told(c, i).ctx = c
      /\ \A c, pc : goes(c, pc).ctx = c /\ goes(c, pc).input = <<>>
  BY DEF NewRun
<1>2. \A n : Becomes(r, n) => run'[r] = n /\ \A s \in Runs : s # r => run'[s] = run[s]
  BY After
<1>3. Claims(r)
  <2>1. CASE \E p \in NextOf(Prompts) : Prompt(r, p) BY <2>1 DEF Prompt
  <2>2. CASE Continue(r) BY <2>2 DEF Continue
  <2>3. CASE Retry(r) BY <2>3 DEF Retry
  <2> QED BY <2>1, <2>2, <2>3
<1>4. \A s \in Runs : ~Active(s) BY <1>3 DEF Claims, AbortReachesTheRun
<1>t. transcript \in Seq(Entries) /\ transcript' \in Seq(Entries) BY DEF TypeOK
<1>5. SUFFICES /\ \A s \in Runs : s # r => run'[s] = run[s]
               /\ run'[r].ctx = transcript' \o run'[r].input
               /\ run'[r].ctx \in Seq(Entries)
  <2>1. ASSUME \A s \in Runs : s # r => run'[s] = run[s], NEW s \in Runs, s # r PROVE ~Active(s)'
    BY <1>4, <2>1 DEF Active
  <2> QED BY <2>1, SameSelf DEF ViewInv
<1>6. CASE \E p \in NextOf(Prompts) : Prompt(r, p)
  <2> PICK p \in NextOf(Prompts) : Prompt(r, p) BY <1>6
  <2> DEFINE c == Append(transcript, p)
             i == <<p>>
  <2>1. Becomes(r, told(c, i)) /\ transcript' = transcript BY DEF Prompt
  <2>2. p \in Entries BY NextIsNew DEF Messages, Entries
  <2>3. c = transcript \o i /\ c \in Seq(Entries)
    BY <1>t, <2>2, AppendIsConcat, AppendProperties
  <2> HIDE DEF told, goes, c, i
  <2>4. run'[r] = told(c, i) /\ \A s \in Runs : s # r => run'[s] = run[s] BY <1>2, <2>1
  <2>5. run'[r].input = i /\ run'[r].ctx = c BY <1>1, <2>4
  <2> QED BY <2>1, <2>3, <2>4, <2>5
<1>7. CASE Continue(r) \/ Retry(r)
  <2>1. \E pc : Becomes(r, goes(transcript', pc))
    <3>1. CASE Continue(r) BY <3>1 DEF Continue
    <3>2. CASE Retry(r) BY <3>2 DEF Retry
    <3> QED BY <1>7, <3>1, <3>2
  <2>2. transcript' \o <<>> = transcript' BY <1>t, ConcatEmptySeq
  <2> HIDE DEF goes
  <2> QED BY <1>1, <1>2, <1>t, <2>1, <2>2
<1> QED BY <1>6, <1>7

LEMMA ViewDuring ==
  ASSUME TypeOK, TypeOK', AbortReachesTheRun, HandsInv, ViewInv,
         NEW r \in Runs, RunStep(r), Active(r)
  PROVE  ViewInv'
<1> DEFINE k == run[r]
           Shows(n) == \/ n.pc \in {"closing", "over"} \/ n.muted
                       \/ SameKept(n.ctx, transcript' \o n.input)
<1>1. k \in RunRecord /\ Hands(k) BY DEF TypeOK, HandsInv
<1>2. /\ k.input \in Seq(Messages) /\ k.held \in Seq(Messages) /\ k.ctx \in Seq(Entries)
      /\ transcript \in Seq(Entries) /\ k.input \in Seq(Entries) /\ k.held \in Seq(Entries)
      /\ steering \in Seq(Messages) /\ followUps \in Seq(Messages)
  BY <1>1, QueuedAreMessages, MessagesAreEntries DEF RunRecord, TypeOK
<1>3. k.muted \/ SameKept(k.ctx, transcript \o k.input) BY DEF ViewInv
<1>e. /\ transcript \o <<>> = transcript /\ <<>> \in Seq(Entries)
      /\ transcript \o k.input \in Seq(Entries)
      /\ \A s \in Seq(Entries) : s \o <<>> = s
      /\ \A s \in Seq(Entries) : <<>> \o s = s
  BY <1>2, EmptySeq, ConcatEmptySeq, ConcatProperties
<1>k. /\ \A x, y \in Entries : <<x>> \in Seq(Entries) /\ <<x, y>> \in Seq(Entries)
      /\ {"reply", "call", "cut", "result", "error", "discarded"} \subseteq Entries
  BY DEF Kinds, Entries
<1>p. Take(r, followUps) \in Seq(Entries) /\ Take(r, steering) \in Seq(Entries)
  BY <1>2, Polled, MessagesAreEntries
\* What the loop says goes to its context and to the transcript.
<1>5. ASSUME NEW n, NEW ms \in Seq(Entries), Says(r, n, ms), DOMAIN n = DOMAIN k,
             k.input = <<>>, n.input = <<>>, n.ctx = k.ctx, n.muted = k.muted
      PROVE  ViewInv'
  <2>1. /\ run'[r] = [n EXCEPT !.ctx = @ \o ms] /\ transcript' = transcript \o ms
        /\ \A s \in Runs : s # r => run'[s] = run[s]
    BY <1>5, SaysAfter
  <2>2. DOMAIN k = {"pc", "aborted", "expired", "input", "held", "ctx", "more", "skip", "leaks",
                    "saved", "forced", "muted", "end"}
    BY <1>1 DEF RunRecord
  <2>3. run'[r].input = <<>> /\ run'[r].ctx = k.ctx \o ms /\ run'[r].muted = k.muted
    BY <1>5, <2>1, <2>2
  <2>4. k.muted \/ SameKept(k.ctx, transcript) BY <1>3, <1>5, <1>e
  <2>5. k.muted \/ SameKept(k.ctx \o ms, transcript \o ms) BY <1>2, <2>4, SameMore
  <2>6. (transcript \o ms) \o <<>> = transcript \o ms BY <1>2, <1>e, ConcatProperties
  <2> QED BY <2>1, <2>3, <2>5, <2>6, ViewStep
\* What becomes of what the run holds.
<1>6. ASSUME NEW n, Becomes(r, n), Shows(n) PROVE ViewInv'
  <2>1. run'[r] = n /\ \A s \in Runs : s # r => run'[s] = run[s] BY <1>6, After
  <2> QED BY <1>6, <2>1, ViewStep DEF Active
<1>7. ASSUME NEW n, n.ctx = k.ctx, n.input = k.input, k.muted => n.muted,
             transcript' = transcript
      PROVE  Shows(n)
  BY <1>3, <1>7
\* What was deferred comes out.
<1>8. ASSUME NEW n, Emit(r), n.input = <<>>, n.ctx = k.ctx, k.muted => n.muted PROVE Shows(n)
  BY <1>3, <1>8, <1>e DEF Emit
\* Messages go to the context, and are deferred.
<1>9. ASSUME NEW n, NEW ms \in Seq(Entries), n.ctx = k.ctx \o ms, n.input = k.input \o ms,
             n.muted = k.muted, transcript' = transcript
      PROVE  Shows(n)
  <2>1. k.muted \/ SameKept(k.ctx \o ms, (transcript \o k.input) \o ms)
    BY <1>2, <1>3, <1>e, <1>9, SameMore
  <2>2. (transcript \o k.input) \o ms = transcript \o (k.input \o ms)
    <3>1. \A a, b, c \in Seq(Entries) : (a \o b) \o c = a \o (b \o c) BY ConcatAssociative
    <3> QED BY <1>2, <1>9, <3>1
  <2> QED BY <1>9, <2>1, <2>2
<1>r. /\ Sampled(r) \in RunRecord /\ Sampled(r).input = k.input /\ Sampled(r).ctx = k.ctx
      /\ Sampled(r).muted = k.muted /\ DOMAIN Sampled(r) = DOMAIN k
      /\ Replied(r) \in RunRecord /\ Replied(r).input = k.input /\ Replied(r).ctx = k.ctx
      /\ Replied(r).muted = k.muted /\ DOMAIN Replied(r) = DOMAIN k
  <2>1. {"input", "ctx", "muted"} \subseteq DOMAIN NewRun BY DEF NewRun
  <2>2. Sampled(r) \in RunRecord /\ Replied(r) \in RunRecord BY <1>1, Fields
  <2>3. \A d \in RunRecord : DOMAIN d = DOMAIN k BY <1>1 DEF RunRecord
  <2>4. \A f \in {"input", "ctx", "muted"} : Sampled(r)[f] = k[f] /\ Replied(r)[f] = k[f]
    BY <1>1, <2>1, Fields
  <2> QED BY <2>2, <2>3, <2>4
\* What a turn that is opened, or was open when the gate stopped the run, makes of them.
<1>o. Opened(r).ctx = k.ctx /\ Opened(r).input = <<>> /\ Opened(r) \in RunRecord
  <2>1. "ctx" \in DOMAIN NewRun BY DEF NewRun
  <2> QED BY <1>1, <2>1, Fields
<1>m. Opened(r).muted = (k.muted \/ (TurnOpen(r) /\ k.input # <<>>))
  <2> DEFINE b == k.muted \/ (TurnOpen(r) /\ k.input # <<>>)
  <2>1. Opened(r) = [k EXCEPT !.input = <<>>, !.muted = b] BY DEF Opened
  <2>2. "muted" \in DOMAIN k BY <1>1 DEF RunRecord
  <2> HIDE DEF b, k
  <2>3. Opened(r).muted = b BY <2>1, <2>2
  <2> QED BY <2>3 DEF b, k
<1>a. ASSUME NEW n, OpenTurn(r), n.input = Opened(r).input, n.ctx = Opened(r).ctx,
             n.muted = Opened(r).muted
      PROVE  Shows(n)
  <2>1. CASE TurnOpen(r) /\ k.input # <<>>
    <3>1. n.muted BY <1>a, <1>m, <2>1
    <3> QED BY <3>1
  <2>2. CASE TurnOpen(r) /\ k.input = <<>>
    <3>1. k.muted => n.muted BY <1>a, <1>m
    <3>2. transcript' = transcript BY <1>a, <2>2 DEF OpenTurn
    <3> HIDE DEF Shows
    <3> QED BY <1>7, <1>a, <1>o, <2>2, <3>1, <3>2
  <2>3. CASE ~TurnOpen(r)
    <3>1. k.muted => n.muted BY <1>a, <1>m
    <3>2. Emit(r) BY <1>a, <2>3 DEF OpenTurn
    <3> HIDE DEF Shows
    <3> QED BY <1>8, <1>a, <1>o, <3>1, <3>2
  <2> QED BY <2>1, <2>2, <2>3
<1>s. /\ Stopped(r).ctx = k.ctx \o GateStop(r) /\ Stopped(r).input = <<>>
      /\ Stopped(r).muted = k.muted /\ Stopped(r) \in RunRecord
  <2>1. "muted" \in DOMAIN NewRun BY DEF NewRun
  <2> QED BY <1>1, <2>1, Fields
<1>b. ASSUME NEW n, transcript' = transcript \o k.input \o GateStop(r),
             n.input = Stopped(r).input, n.ctx = Stopped(r).ctx, n.muted = Stopped(r).muted
      PROVE  Shows(n)
  <2> DEFINE g == GateStop(r)
             w == transcript \o k.input
  <2>1. g \in Seq(Entries) /\ w \in Seq(Entries) BY <1>e, StopTyped
  <2>2. transcript' = w \o g BY <1>b
  <2>3. k.muted \/ SameKept(k.ctx, w) BY <1>3
  <2> HIDE DEF g, w
  <2>4. k.muted \/ SameKept(k.ctx \o g, w \o g) BY <1>2, <2>1, <2>3, SameMore
  <2>5. transcript' \o <<>> = transcript' BY <1>e DEF TypeOK
  <2>6. n.ctx = k.ctx \o g /\ n.input = <<>> /\ n.muted = k.muted BY <1>b, <1>s DEF g
  <2> QED BY <2>2, <2>4, <2>5, <2>6
<1>c. Shows(Closing) /\ Shows([NewRun EXCEPT !.pc = "over"]) BY DEF Closing, NewRun
<1> HIDE DEF Shows
<1>10. ASSUME TakeSteering(r) PROVE ViewInv'
  <2> DEFINE ms == Take(r, steering)
             next == [k EXCEPT !.pc = "takeFollowUps"]
             told == [k EXCEPT !.pc = "poll", !.input = ms, !.ctx = @ \o ms, !.skip = TRUE]
  <2>1. k.input = <<>> BY <1>1, <1>10 DEF TakeSteering, Hands
  <2>2. transcript' = transcript /\ (Becomes(r, next) \/ Becomes(r, told))
    BY <1>10 DEF TakeSteering
  <2>3. /\ next.input = k.input /\ next.ctx = k.ctx /\ next.muted = k.muted
        /\ told.input = ms /\ told.ctx = k.ctx \o ms /\ told.muted = k.muted
    BY <1>1 DEF RunRecord
  <2>4. told.input = k.input \o ms BY <1>e, <1>p, <2>1, <2>3
  <2>5. ms \in Seq(Entries) BY <1>p
  <2> HIDE DEF next, told, ms
  <2>6. Shows(next) BY <1>7, <2>2, <2>3
  <2>7. Shows(told) BY <1>9, <2>2, <2>3, <2>4, <2>5
  <2> QED BY <1>6, <2>2, <2>6, <2>7
<1>11. ASSUME TakeFollowUps(r) PROVE ViewInv'
  <2> DEFINE ms == Take(r, followUps)
             told == [k EXCEPT !.pc = "poll", !.input = ms, !.ctx = @ \o ms]
  <2>1. k.input = <<>> BY <1>1, <1>11 DEF TakeFollowUps, Hands
  <2>2. transcript' = transcript /\ (Becomes(r, Closing) \/ Becomes(r, told))
    BY <1>11 DEF TakeFollowUps
  <2>3. told.input = ms /\ told.ctx = k.ctx \o ms /\ told.muted = k.muted
    BY <1>1 DEF RunRecord
  <2>4. told.input = k.input \o ms BY <1>e, <1>p, <2>1, <2>3
  <2>5. ms \in Seq(Entries) BY <1>p
  <2> HIDE DEF told, ms
  <2>6. Shows(told) BY <1>9, <2>2, <2>3, <2>4, <2>5
  <2> QED BY <1>6, <1>c, <2>2, <2>6
<1>12. ASSUME Poll(r) PROVE ViewInv'
  <2> DEFINE d == [k EXCEPT !.input = <<>>]
             e == Ended(d, "deadline")
             n(ms) == [k EXCEPT !.pc = IF Last(k.ctx) = "call" THEN "resume" ELSE "top",
                                !.skip = FALSE, !.held = ms]
  <2>1. \/ Emit(r) /\ Becomes(r, e)
        \/ /\ transcript' = transcript
           /\ \/ Becomes(r, n(<<>>))
              \/ Becomes(r, n(Take(r, steering)))
    BY <1>12 DEF Poll
  <2>2. /\ e.input = <<>> /\ e.ctx = k.ctx /\ e.muted = k.muted
        /\ \A ms : n(ms).input = k.input /\ n(ms).ctx = k.ctx /\ n(ms).muted = k.muted
    BY <1>1 DEF RunRecord, Ended
  <2> HIDE DEF e, n
  <2>3. Emit(r) => Shows(e) BY <1>8, <2>2
  <2>4. transcript' = transcript => \A ms : Shows(n(ms)) BY <1>7, <2>2
  <2> QED BY <1>6, <2>1, <2>3, <2>4
<1>13. ASSUME Resume(r) PROVE ViewInv'
  <2> DEFINE n == [k EXCEPT !.pc = "top"]
             e == [Ended(k, "yielded") EXCEPT !.aborted = TRUE]
  <2>1. (Says(r, n, <<"result">>) \/ Says(r, e, <<"result">>)) /\ k.input = <<>>
    BY <1>1, <1>13 DEF Resume, Hands
  <2>2. /\ n.input = k.input /\ n.ctx = k.ctx /\ n.muted = k.muted /\ DOMAIN n = DOMAIN k
        /\ e.input = k.input /\ e.ctx = k.ctx /\ e.muted = k.muted /\ DOMAIN e = DOMAIN k
    BY <1>1 DEF RunRecord, Ended
  <2> HIDE DEF n, e
  <2> QED BY <2>1, <2>2, <1>5, <1>k
<1>14. ASSUME Top(r) PROVE ViewInv'
  <2> DEFINE d == [k EXCEPT !.input = <<>>]
             e == Ended(d, "deadline")
             n == [k EXCEPT !.pc = "prepare", !.input = @ \o k.held, !.ctx = @ \o k.held,
                            !.held = <<>>]
  <2>1. \/ Emit(r) /\ Becomes(r, e)
        \/ Becomes(r, n) /\ transcript' = transcript
    BY <1>14 DEF Top
  <2>2. /\ e.input = <<>> /\ e.ctx = k.ctx /\ e.muted = k.muted
        /\ n.input = k.input \o k.held /\ n.ctx = k.ctx \o k.held /\ n.muted = k.muted
    BY <1>1 DEF RunRecord, Ended
  <2> HIDE DEF e, n
  <2>3. Emit(r) => Shows(e) BY <1>8, <2>2
  <2>4. transcript' = transcript => Shows(n) BY <1>2, <1>9, <2>2
  <2> QED BY <1>6, <2>1, <2>3, <2>4
<1>15. ASSUME Prepare(r) PROVE ViewInv'
  <2> DEFINE n == [Opened(r) EXCEPT !.pc = "stream"]
             e == Ended(Stopped(r), "stopped")
  <2>1. \/ Becomes(r, n) /\ OpenTurn(r)
        \/ Becomes(r, e) /\ transcript' = transcript \o k.input \o GateStop(r)
    BY <1>15 DEF Prepare
  <2>2. n.input = Opened(r).input /\ n.ctx = Opened(r).ctx /\ n.muted = Opened(r).muted
    BY <1>o DEF RunRecord
  <2>3. e.input = Stopped(r).input /\ e.ctx = Stopped(r).ctx /\ e.muted = Stopped(r).muted
    BY <1>s DEF RunRecord, Ended
  <2> HIDE DEF n, e
  <2>4. OpenTurn(r) => Shows(n) BY <1>a, <2>2
  <2>5. transcript' = transcript \o k.input \o GateStop(r) => Shows(e) BY <1>b, <2>3
  <2> QED BY <1>6, <2>1, <2>4, <2>5
<1>16. ASSUME Reply(r) PROVE ViewInv'
  <2> DEFINE n(m) == [Replied(r) EXCEPT !.pc = "boundary", !.more = m]
  <2>1. /\ Says(r, n(TRUE), <<"reply">>) \/ Says(r, n(FALSE), <<"reply">>)
        /\ k.input = <<>>
    BY <1>1, <1>16 DEF Reply, Hands
  <2>2. \A m : /\ n(m).input = k.input /\ n(m).ctx = k.ctx /\ n(m).muted = k.muted
               /\ DOMAIN n(m) = DOMAIN k
    BY <1>r DEF RunRecord
  <2> HIDE DEF n
  <2> QED BY <2>1, <2>2, <1>5, <1>k
<1>17. ASSUME Call(r) PROVE ViewInv'
  <2> DEFINE n == [Replied(r) EXCEPT !.pc = "tools"]
             l == [Replied(r) EXCEPT !.pc = "boundary", !.more = ~k.expired]
  <2>1. /\ Says(r, n, <<"call">>) \/ Says(r, l, <<"cut", "result">>)
        /\ k.input = <<>>
    BY <1>1, <1>17 DEF Call, Hands
  <2>2. /\ n.input = k.input /\ n.ctx = k.ctx /\ n.muted = k.muted /\ DOMAIN n = DOMAIN k
        /\ l.input = k.input /\ l.ctx = k.ctx /\ l.muted = k.muted /\ DOMAIN l = DOMAIN k
    BY <1>r DEF RunRecord
  <2> HIDE DEF n, l
  <2> QED BY <2>1, <2>2, <1>5, <1>k
<1>18. ASSUME Detour(r) PROVE ViewInv'
  <2> DEFINE d == Sampled(r)
             n == [d EXCEPT !.pc = "boundary", !.more = TRUE, !.forced = @ + 1]
             e == Failed(d)
  <2>1. /\ Says(r, n, <<"call", "result">>) \/ Says(r, e, <<"call">>)
        /\ k.input = <<>>
    BY <1>1, <1>18 DEF Detour, Hands
  <2>2. /\ n.input = k.input /\ n.ctx = k.ctx /\ n.muted = k.muted /\ DOMAIN n = DOMAIN k
        /\ e.input = k.input /\ e.ctx = k.ctx /\ e.muted = k.muted /\ DOMAIN e = DOMAIN k
    BY <1>r DEF RunRecord, Failed
  <2> HIDE DEF n, e
  <2> QED BY <2>1, <2>2, <1>5, <1>k
<1>19. ASSUME Breaks(r) PROVE ViewInv'
  <2> DEFINE e == Ended(k, "broken")
  <2>1. PICK ms \in {<<"error">>, <<"cut", "result">>} : Says(r, e, ms) BY <1>19 DEF Breaks
  <2>2. k.input = <<>> BY <1>1, <1>19 DEF Breaks, Hands
  <2>3. e.input = k.input /\ e.ctx = k.ctx /\ e.muted = k.muted /\ DOMAIN e = DOMAIN k
    BY <1>1 DEF RunRecord, Ended
  <2>4. ms \in Seq(Entries) BY <2>1, <1>k
  <2> HIDE DEF e
  <2> QED BY <2>1, <2>2, <2>3, <2>4, <1>5
\* A reply that is thrown away is in the transcript only.
<1>20. ASSUME Leaks(r) PROVE ViewInv'
  <2> DEFINE n == [k EXCEPT !.leaks = @ + 1, !.pc = IF k.more THEN "top" ELSE "yield"]
             m == [k EXCEPT !.saved = @ + 1, !.leaks = 0, !.pc = "recovered"]
             e == Failed(k)
  <2>1. /\ Becomes(r, n) \/ Becomes(r, m) \/ Becomes(r, e)
        /\ k.input = <<>> /\ transcript' = Append(transcript, "discarded")
    BY <1>1, <1>20 DEF Leaks, Hands
  <2>2. /\ n.input = k.input /\ n.ctx = k.ctx /\ n.muted = k.muted
        /\ m.input = k.input /\ m.ctx = k.ctx /\ m.muted = k.muted
        /\ e.input = k.input /\ e.ctx = k.ctx /\ e.muted = k.muted
    BY <1>1 DEF RunRecord, Failed
  <2> HIDE DEF n, m, e
  <2>3. k.muted \/ SameKept(k.ctx, transcript) BY <1>3, <1>e, <2>1
  <2>4. k.muted \/ SameKept(k.ctx, transcript') BY <1>2, <2>1, <2>3, SameDiscarded
  <2>5. transcript' \o <<>> = transcript' BY <1>e DEF TypeOK
  <2>6. Shows(n) /\ Shows(m) /\ Shows(e) BY <2>1, <2>2, <2>4, <2>5 DEF Shows
  <2> QED BY <1>6, <2>1, <2>6
<1>21. ASSUME Tools(r) PROVE ViewInv'
  <2> DEFINE n(y) == [k EXCEPT !.pc = "boundary", !.more = ~y, !.aborted = @ \/ y]
  <2>1. PICK y \in BOOLEAN : Says(r, n(y), <<"result">>) BY <1>21 DEF Tools
  <2>2. /\ n(y).input = k.input /\ n(y).ctx = k.ctx /\ n(y).muted = k.muted
        /\ DOMAIN n(y) = DOMAIN k
    BY <1>1 DEF RunRecord
  <2>3. k.input = <<>> BY <1>1, <1>21 DEF Tools, Hands
  <2> HIDE DEF n
  <2> QED BY <2>1, <2>2, <2>3, <1>5, <1>k
<1>22. ASSUME Boundary(r) \/ Yield(r) \/ Late(r) PROVE ViewInv'
  <2> DEFINE Quits(w) == Ended(k, w)
             Goes(pc, ms) == [k EXCEPT !.pc = pc, !.held = ms]
             Again(ms) == [k EXCEPT !.pc = "top", !.held = ms, !.more = TRUE]
  <2>1. /\ transcript' = transcript
        /\ \/ \E w : Becomes(r, Quits(w))
           \/ \E pc, ms : Becomes(r, Goes(pc, ms))
           \/ \E ms : Becomes(r, Again(ms))
    <3>1. CASE Boundary(r) BY <3>1 DEF Boundary
    <3>2. CASE Yield(r) BY <3>2 DEF Yield
    <3>3. CASE Late(r) BY <3>3 DEF Late
    <3> QED BY <1>22, <3>1, <3>2, <3>3
  <2>2. /\ \A w : /\ Quits(w).input = k.input /\ Quits(w).ctx = k.ctx
                  /\ Quits(w).muted = k.muted
        /\ \A pc, ms : /\ Goes(pc, ms).input = k.input /\ Goes(pc, ms).ctx = k.ctx
                       /\ Goes(pc, ms).muted = k.muted
        /\ \A ms : /\ Again(ms).input = k.input /\ Again(ms).ctx = k.ctx
                   /\ Again(ms).muted = k.muted
    BY <1>1 DEF RunRecord, Ended
  <2> HIDE DEF Quits, Goes, Again
  <2>3. /\ \A w : Shows(Quits(w)) /\ \A pc, ms : Shows(Goes(pc, ms))
        /\ \A ms : Shows(Again(ms))
    BY <1>7, <2>1, <2>2
  <2> QED BY <1>6, <2>1, <2>3
<1>23. ASSUME HookThrows(r) PROVE ViewInv'
  <2> DEFINE n == Failed(Opened(r))
             l == Failed(Stopped(r))
             e == Failed(k)
  <2>1. \/ Becomes(r, Closing)
        \/ OpenTurn(r) /\ Becomes(r, n)
        \/ transcript' = transcript \o k.input \o GateStop(r) /\ Becomes(r, l)
        \/ Says(r, e, <<"result">>) /\ k.input = <<>>
    BY <1>1, <1>23 DEF HookThrows, Hands
  <2>2. /\ e.input = k.input /\ e.ctx = k.ctx /\ e.muted = k.muted /\ DOMAIN e = DOMAIN k
    BY <1>1 DEF RunRecord, Failed
  <2>3. n.input = Opened(r).input /\ n.ctx = Opened(r).ctx /\ n.muted = Opened(r).muted
    BY <1>o DEF RunRecord, Failed
  <2>4. l.input = Stopped(r).input /\ l.ctx = Stopped(r).ctx /\ l.muted = Stopped(r).muted
    BY <1>s DEF RunRecord, Failed
  <2> HIDE DEF n, l, e
  <2>5. OpenTurn(r) => Shows(n) BY <1>a, <2>3
  <2>6. transcript' = transcript \o k.input \o GateStop(r) => Shows(l) BY <1>b, <2>4
  <2>7. CASE Says(r, e, <<"result">>) /\ k.input = <<>> BY <1>5, <1>k, <2>2, <2>7
  <2> QED BY <1>6, <1>c, <2>1, <2>5, <2>6, <2>7
<1>24. ASSUME AgentEnd(r) \/ Fails(r) \/ Close(r) PROVE ViewInv'
  BY <1>6, <1>c, <1>24 DEF AgentEnd, Fails, Close
<1> QED BY <1>10, <1>11, <1>12, <1>13, <1>14, <1>15, <1>16, <1>17, <1>18, <1>19, <1>20,
           <1>21, <1>22, <1>23, <1>24 DEF RunStep

LEMMA ViewKept ==
  TypeOK /\ TypeOK' /\ AbortReachesTheRun /\ HandsInv /\ ViewInv /\ [Next]_vars => ViewInv'
<1> SUFFICES ASSUME TypeOK, TypeOK', AbortReachesTheRun, HandsInv, ViewInv, [Next]_vars
             PROVE  ViewInv'
  OBVIOUS
\* A step that moves nothing.
<1>1. ASSUME transcript' = transcript,
             \A s \in Runs : /\ run'[s].input = run[s].input /\ run'[s].ctx = run[s].ctx
                             /\ run'[s].muted = run[s].muted
                             /\ Active(s)' => Active(s)
      PROVE  ViewInv'
  BY <1>1 DEF ViewInv
<1>2. ASSUME NEW r \in Runs, Expire(r) PROVE ViewInv'
  <2> DEFINE n == [run[r] EXCEPT !.expired = TRUE, !.aborted = TRUE]
  <2>1. Becomes(r, n) /\ transcript' = transcript BY <1>2 DEF Expire
  <2>2. /\ n.input = run[r].input /\ n.ctx = run[r].ctx /\ n.pc = run[r].pc
        /\ n.muted = run[r].muted
    BY DEF TypeOK, RunRecord
  <2> HIDE DEF n
  <2>3. run'[r] = n /\ \A s \in Runs : s # r => run'[s] = run[s] BY <2>1, After
  <2> QED BY <1>1, <2>1, <2>2, <2>3 DEF Active
<1>3. CASE Abort
  <2> DEFINE n == [run[ctl] EXCEPT !.aborted = TRUE]
  <2>1. ctl \in Runs /\ Becomes(ctl, n) /\ transcript' = transcript BY <1>3 DEF Abort, TypeOK
  <2>2. /\ n.input = run[ctl].input /\ n.ctx = run[ctl].ctx /\ n.pc = run[ctl].pc
        /\ n.muted = run[ctl].muted
    BY <2>1 DEF TypeOK, RunRecord
  <2> HIDE DEF n
  <2>3. run'[ctl] = n /\ \A s \in Runs : s # ctl => run'[s] = run[s] BY <2>1, After
  <2> QED BY <1>1, <2>1, <2>2, <2>3 DEF Active
<1>4. CASE \/ \E m \in NextOf(Steers) : Steer(m)
           \/ \E m \in NextOf(FollowUps) : FollowUp(m)
           \/ TakeBack
  BY <1>1, <1>4 DEF Steer, FollowUp, TakeBack, Active
<1>5. CASE UNCHANGED vars BY <1>1, <1>5 DEF vars, Active
<1>6. ASSUME NEW r \in Runs, RunStep(r) PROVE ViewInv'
  <2>1. CASE Active(r) BY <1>6, <2>1, ViewDuring
  <2>2. CASE ~Active(r)
    <3>1. Close(r)
      BY <1>6, <2>2 DEF RunStep, TakeSteering, TakeFollowUps, Poll, Resume, Top, Prepare, Reply,
        Call, Detour, Breaks, HookThrows, Leaks, Tools, Boundary, Yield, Late, AgentEnd,
        Fails, Active
    <3>2. transcript' = transcript BY <3>1 DEF Close
    <3>3. run'[r] = [NewRun EXCEPT !.pc = "over"] /\ \A s \in Runs : s # r => run'[s] = run[s]
      BY <3>1, After DEF Close
    <3>4. run'[r].pc = "over" BY <3>3 DEF NewRun
    <3> QED BY <3>2, <3>3, <3>4 DEF ViewInv, Active
  <2> QED BY <2>1, <2>2
<1> QED BY <1>2, <1>3, <1>4, <1>5, <1>6, ViewBegin DEF Next

\* What the model is called with is what the transcript keeps, in its order: no poll,
\* abort, failure or retry makes one of them forget what the other has.  Only a run
\* that took messages into a turn that was still open, its reply having leaked, may
\* show what the transcript never gets.
THEOREM SeesTranscript == Spec => []ModelSeesTranscript
<1> DEFINE I == TypeOK /\ AbortReachesTheRun /\ PairInv /\ HandsInv /\ ViewInv
<1>1. Init => I BY TypeInit, ReachInit, PairInit, HandsInit, ViewInit
<1>2. I /\ [Next]_vars => I'
  BY TypeKept, ReachKept, PairKept, HandsKept, ViewKept
<1>3. I => ModelSeesTranscript
  <2> SUFFICES ASSUME I, NEW r \in Runs, run[r].pc = "stream", ~run[r].muted
               PROVE  SameKept(run[r].ctx, transcript)
    BY DEF ModelSeesTranscript
  <2>1. run[r].input = <<>> BY DEF HandsInv, Hands
  <2>2. Active(r) BY DEF Active
  <2>3. SameKept(run[r].ctx, transcript \o <<>>) BY <2>1, <2>2 DEF ViewInv
  <2>4. transcript \o <<>> = transcript BY ConcatEmptySeq DEF TypeOK
  <2> QED BY <2>3, <2>4
<1> QED BY <1>1, <1>2, <1>3, PTL DEF Spec

=============================================================================
