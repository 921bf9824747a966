---------------------------- MODULE Tools_proofs ----------------------------
(***************************************************************************)
(* Theorems about two of the tools a turn may call: the hashline patches   *)
(* of the edit tool and the commands of the terminal tool.  The first hold *)
(* for all documents and patches, the second for any runners and any       *)
(* amount of output.                                                       *)
(***************************************************************************)
EXTENDS HashlinePatch, CommandRunner, SequenceTheorems, TLAPS

-----------------------------------------------------------------------------
(***************************************************************************)
(* Hashline patches.                                                       *)
(***************************************************************************)
\* The lines splice() keeps at the front, and where it goes on after them.
From(s, at)        == AtMost(at, Len(s))
Upto(s, at, count) == AtMost(From(s, at) + AtLeast(count, 0), Len(s))

\* splice() returns a sequence, keeps the lines before the place, shows the
\* new lines there and the rest of the old ones after them.
Spliced(S, r, s, at, count, new) ==
  /\ From(s, at) \in 0..Len(s) /\ Upto(s, at, count) \in From(s, at)..Len(s)
  /\ r \in Seq(S)
  /\ Len(r) = From(s, at) + Len(new) + (Len(s) - Upto(s, at, count))
  /\ \A i \in 1..From(s, at) : r[i] = s[i]
  /\ \A i \in 1..Len(new) : r[From(s, at) + i] = new[i]
  /\ \A i \in 1..(Len(s) - Upto(s, at, count)) :
       r[From(s, at) + Len(new) + i] = s[Upto(s, at, count) + i]

LEMMA SpliceFacts ==
  ASSUME NEW S, NEW s \in Seq(S), NEW new \in Seq(S), NEW at \in Nat, NEW count \in Int
  PROVE  Spliced(S, Splice(s, at, count, new), s, at, count, new)
<1> DEFINE r == Splice(s, at, count, new)
           from == From(s, at)
           upto == Upto(s, at, count)
           head == SubSeq(s, 1, from)
           tail == SubSeq(s, upto + 1, Len(s))
           front == head \o new
<1>1. Len(s) \in Nat /\ Len(new) \in Nat
  OBVIOUS
<1>2. from \in 0..Len(s)
  BY <1>1 DEF AtMost, From
<1>3. AtLeast(count, 0) \in Nat
  BY DEF AtLeast
<1>4. upto \in from..Len(s)
  <2> HIDE DEF from
  <2>1. upto = AtMost(from + AtLeast(count, 0), Len(s))
    BY DEF Upto, from
  <2> HIDE DEF upto
  <2> QED
    BY <1>1, <1>2, <1>3, <2>1 DEF AtMost
<1>5. r = front \o tail
  BY DEF Splice, From, Upto
<1> HIDE DEF from, upto, r
<1>6. head \in Seq(S) /\ Len(head) = from /\ \A j \in 1..from : head[j] = s[j]
  BY <1>1, <1>2
<1>7. /\ tail \in Seq(S) /\ Len(tail) = Len(s) - upto
      /\ \A j \in 1..(Len(s) - upto) : tail[j] = s[upto + j]
  BY <1>1, <1>2, <1>4
<1> HIDE DEF head, tail
<1>8. front \in Seq(S) /\ Len(front) = from + Len(new)
  BY <1>6, ConcatProperties
<1>9. /\ \A j \in 1..from : front[j] = head[j]
      /\ \A j \in 1..Len(new) : front[from + j] = new[j]
  BY <1>1, <1>2, <1>6, SMTT(60)
<1> HIDE DEF front
<1>10. r \in Seq(S) /\ Len(r) = Len(front) + Len(tail)
  BY <1>5, <1>7, <1>8, ConcatProperties
<1>11. \A j \in 1..Len(front) : r[j] = front[j]
  BY <1>5, <1>7, <1>8
<1>12. \A j \in 1..Len(tail) : r[Len(front) + j] = tail[j]
  BY <1>5, <1>7, <1>8, SMTT(60)
<1>13. \A j \in 1..from : r[j] = s[j]
  BY <1>1, <1>2, <1>6, <1>8, <1>9, <1>11
<1>14. \A j \in 1..Len(new) : r[from + j] = new[j]
  BY <1>1, <1>2, <1>8, <1>9, <1>11
<1>15. \A j \in 1..(Len(s) - upto) : r[from + Len(new) + j] = s[upto + j]
  BY <1>7, <1>8, <1>12
<1>16. Len(r) = from + Len(new) + (Len(s) - upto)
  BY <1>7, <1>8, <1>10
<1> QED
  BY <1>2, <1>4, <1>10, <1>13, <1>14, <1>15, <1>16 DEF Spliced, from, upto, r

\* What is used of the type of the variables.
LEMMA ChunkTypes ==
  ASSUME PatchTypeOK, NEW c \in pending
  PROVE  /\ patch[c] \in Chunk
         /\ patch[c].start \in Nat /\ patch[c].end \in Nat
         /\ Zero(c) \in Int /\ DeleteCount(c) \in Int
         /\ ValidStart(c) => Zero(c) \in Nat
         /\ Body(c) \in Seq(Nat \X Nat)
         /\ \A i \in DOMAIN Body(c) : Body(c)[i][1] = c
<1>1. c \in DOMAIN patch /\ patch \in Seq(Chunk) /\ c \in Nat
  BY DEF PatchTypeOK
<1>2. patch[c] \in Chunk
  BY <1>1
<1>3. patch[c].start \in Nat /\ patch[c].end \in Nat /\ patch[c].rows \in Nat
  BY <1>2 DEF Chunk
<1>4. Body(c) \in Seq(Nat \X Nat) /\ \A i \in DOMAIN Body(c) : Body(c)[i][1] = c
  BY <1>1, <1>3, SMTT(60) DEF Body
<1> QED
  BY <1>2, <1>3, <1>4 DEF Zero, DeleteCount, ValidStart

\* A step is a chunk applied at or below its start line, or changes neither
\* the document nor the list of chunks.
StillStep ==
  /\ UNCHANGED <<size, patch, doc, pending>>
  /\ status' \in {"running", "ok", "failed"}
  /\ status' = "running" => status = "running"
ApplyStep(c) ==
  /\ Turn(c) /\ ValidStart(c)
  /\ \E at \in Nat, count \in Int, new \in {Body(c), <<>>} :
       at >= Zero(c) /\ Apply(c, at, count, new)

\* The rows a chunk may put.
LEMMA NewRows ==
  ASSUME PatchTypeOK, NEW c \in pending, NEW new \in {Body(c), <<>>}
  PROVE  new \in Seq(Nat \X Nat) /\ \A i \in 1..Len(new) : new[i][1] = c
<1>1. CASE new = Body(c)
  <2>1. Body(c) \in Seq(Nat \X Nat) /\ \A i \in DOMAIN Body(c) : Body(c)[i][1] = c
    BY ChunkTypes
  <2> QED BY <1>1, <2>1, SMTT(60)
<1>2. CASE new = <<>> BY <1>2
<1> QED BY <1>1, <1>2

\* A chunk applied, position by position.
LEMMA ApplyFacts ==
  ASSUME PatchTypeOK, NEW c \in pending, NEW at \in Nat, NEW count \in Int,
         NEW new \in Seq(Nat \X Nat), Apply(c, at, count, new)
  PROVE  /\ From(doc, at) \in 0..Len(doc)
         /\ Upto(doc, at, count) \in From(doc, at)..Len(doc)
         /\ Len(new) \in Nat
         /\ doc' \in Seq(Nat \X Nat)
         /\ Len(doc') = From(doc, at) + Len(new) + (Len(doc) - Upto(doc, at, count))
         /\ \A i \in 1..From(doc, at) : doc'[i] = doc[i]
         /\ \A i \in 1..Len(new) : doc'[From(doc, at) + i] = new[i]
         /\ \A i \in 1..(Len(doc) - Upto(doc, at, count)) :
              doc'[From(doc, at) + Len(new) + i] = doc[Upto(doc, at, count) + i]
<1>1. doc' = Splice(doc, at, count, new)
  BY DEF Apply
<1>2. doc \in Seq(Nat \X Nat) /\ new \in Seq(Nat \X Nat)
  BY DEF PatchTypeOK
<1> DEFINE S == Nat \X Nat
<1> HIDE DEF S
<1>3. doc \in Seq(S) /\ new \in Seq(S)
  BY <1>2 DEF S
<1>4. Len(new) \in Nat
  BY <1>3
<1>5. Spliced(S, Splice(doc, at, count, new), doc, at, count, new)
  BY <1>3, SpliceFacts, Zenon
<1> QED
  BY <1>1, <1>4, <1>5 DEF S, Spliced

LEMMA StepKinds ==
  ASSUME PatchTypeOK, [PatchNext]_patchVars
  PROVE  StillStep \/ \E c \in pending : ApplyStep(c)
<1>1. CASE UNCHANGED patchVars
  BY <1>1 DEF patchVars, StillStep, PatchTypeOK
<1>2. CASE Return
  BY <1>2 DEF Return, StillStep
<1>3. ASSUME NEW c \in pending, BadStart(c) PROVE StillStep
  BY <1>3 DEF BadStart, Reject, StillStep
<1>4. ASSUME NEW c \in pending, PutRange(c) PROVE StillStep \/ ApplyStep(c)
  <2>1. CASE ValidRange(c)
    <3>1. Apply(c, Zero(c), DeleteCount(c), Body(c)) /\ Turn(c) /\ ValidStart(c)
      BY <1>4, <2>1 DEF PutRange
    <3>2. Zero(c) \in Nat /\ DeleteCount(c) \in Int
      BY <3>1, ChunkTypes
    <3>3. Zero(c) >= Zero(c)
      BY <3>2
    <3> QED
      BY <3>1, <3>2, <3>3 DEF ApplyStep
  <2>2. CASE ~ValidRange(c)
    BY <1>4, <2>2 DEF PutRange, Reject, StillStep
  <2> QED
    BY <2>1, <2>2
<1>5. ASSUME NEW c \in pending, PutBefore(c) PROVE ApplyStep(c)
  <2>1. Apply(c, Zero(c), 0, Body(c)) /\ Turn(c) /\ ValidStart(c)
    BY <1>5 DEF PutBefore
  <2>2. Zero(c) \in Nat /\ Zero(c) >= Zero(c)
    BY <2>1, ChunkTypes
  <2> QED
    BY <2>1, <2>2 DEF ApplyStep
<1>6. ASSUME NEW c \in pending, PutAfter(c) PROVE ApplyStep(c)
  <2>1. Apply(c, Zero(c) + 1, 0, Body(c)) /\ Turn(c) /\ ValidStart(c)
    BY <1>6 DEF PutAfter
  <2>2. Zero(c) + 1 \in Nat /\ Zero(c) + 1 >= Zero(c)
    BY <2>1, ChunkTypes
  <2> QED
    BY <2>1, <2>2 DEF ApplyStep
<1>7. ASSUME NEW c \in pending, Cut(c) PROVE ApplyStep(c)
  <2>1. Apply(c, Zero(c), DeleteCount(c), <<>>) /\ Turn(c) /\ ValidStart(c)
    BY <1>7 DEF Cut
  <2>2. Zero(c) \in Nat /\ DeleteCount(c) \in Int /\ Zero(c) >= Zero(c)
    BY <2>1, ChunkTypes
  <2> QED
    BY <2>1, <2>2 DEF ApplyStep
<1> QED
  BY <1>1, <1>2, <1>3, <1>4, <1>5, <1>6, <1>7 DEF PatchNext

-----------------------------------------------------------------------------
LEMMA InitType == ASSUME PatchInit PROVE PatchTypeOK
<1>1. size \in Nat \ {0} /\ patch \in Seq(Chunk)
  BY DocumentsAreNats, PatchesAreChunks DEF PatchInit
<1>2. doc \in Seq(Nat \X Nat) /\ \A i \in DOMAIN doc : doc[i][1] = 0
  BY <1>1 DEF PatchInit, Original, Old
<1> QED
  BY <1>1, <1>2 DEF PatchInit, PatchTypeOK

LEMMA StepType == ASSUME PatchTypeOK, [PatchNext]_patchVars PROVE PatchTypeOK'
<1>1. CASE StillStep
  BY <1>1 DEF StillStep, PatchTypeOK
<1>2. ASSUME NEW c \in pending, ApplyStep(c) PROVE PatchTypeOK'
  <2>1. PICK at \in Nat, count \in Int, new \in {Body(c), <<>>} :
          at >= Zero(c) /\ Apply(c, at, count, new)
    BY <1>2 DEF ApplyStep
  <2>2. doc \in Seq(Nat \X Nat) /\ new \in Seq(Nat \X Nat)
    BY <2>1, NewRows, ZenonT(60) DEF PatchTypeOK
  <2>a. /\ From(doc, at) \in 0..Len(doc)
        /\ Upto(doc, at, count) \in From(doc, at)..Len(doc)
        /\ Len(new) \in Nat
        /\ doc' \in Seq(Nat \X Nat)
        /\ Len(doc') = From(doc, at) + Len(new) + (Len(doc) - Upto(doc, at, count))
        /\ \A i \in 1..From(doc, at) : doc'[i] = doc[i]
        /\ \A i \in 1..Len(new) : doc'[From(doc, at) + i] = new[i]
        /\ \A i \in 1..(Len(doc) - Upto(doc, at, count)) :
             doc'[From(doc, at) + Len(new) + i] = doc[Upto(doc, at, count) + i]
    BY <2>1, <2>2, ApplyFacts, ZenonT(200)
  <2> DEFINE from == From(doc, at)
             upto == Upto(doc, at, count)
             rows == Len(new)
  <2>3. pending' = pending \ {c} /\ UNCHANGED <<size, patch, status>>
    BY <2>1 DEF Apply
  <2>4. /\ from \in 0..Len(doc) /\ upto \in from..Len(doc) /\ rows \in Nat
        /\ doc' \in Seq(Nat \X Nat)
        /\ Len(doc') = from + rows + (Len(doc) - upto)
        /\ \A i \in 1..from : doc'[i] = doc[i]
        /\ \A i \in 1..rows : doc'[from + i] = new[i]
        /\ \A i \in 1..(Len(doc) - upto) : doc'[from + rows + i] = doc[upto + i]
    BY <2>a, ZenonT(60)
  <2>5. \A i \in 1..Len(doc) : doc[i][1] \in (DOMAIN patch \ pending) \cup {0}
    BY <2>2, SMTT(60) DEF PatchTypeOK
  <2>6. \A i \in 1..rows : new[i][1] = c
    BY <2>1, NewRows
  <2>7. c \in DOMAIN patch
    BY DEF PatchTypeOK
  <2> HIDE DEF from, upto, rows
  <2>8. ASSUME NEW i \in 1..Len(doc')
        PROVE  doc'[i][1] \in (DOMAIN patch \ (pending \ {c})) \cup {0}
    <3>1. Len(doc) \in Nat /\ Len(doc') \in Nat
      BY <2>2, <2>4
    <3>2. CASE i \in 1..from
      <4>1. doc'[i] = doc[i] /\ i \in 1..Len(doc)
        BY <2>4, <3>1, <3>2, SMTT(60)
      <4> QED
        BY <2>5, <4>1
    <3>3. ASSUME NEW j \in 1..rows, i = from + j
          PROVE  doc'[i][1] \in (DOMAIN patch \ (pending \ {c})) \cup {0}
      <4>1. doc'[i] = new[j]
        BY <2>4, <3>3
      <4> QED
        BY <2>6, <2>7, <4>1
    <3>4. ASSUME NEW j \in 1..(Len(doc) - upto), i = from + rows + j
          PROVE  doc'[i][1] \in (DOMAIN patch \ (pending \ {c})) \cup {0}
      <4>1. doc'[i] = doc[upto + j]
        BY <2>4, <3>4
      <4>2. upto + j \in 1..Len(doc)
        BY <2>4, <3>1
      <4> QED
        BY <2>5, <4>1, <4>2
    <3>5. \/ i \in 1..from
          \/ i - from \in 1..rows /\ i = from + (i - from)
          \/ /\ i - from - rows \in 1..(Len(doc) - upto)
             /\ i = from + rows + (i - from - rows)
      BY <2>4, <3>1
    <3> QED
      BY <3>2, <3>3, <3>4, <3>5
  <2>9. DOMAIN doc' = 1..Len(doc')
    BY <2>4
  <2> QED
    BY <2>3, <2>4, <2>8, <2>9 DEF PatchTypeOK
<1> QED
  BY <1>1, <1>2, StepKinds

\* At every point of every call, each line of the document comes from the
\* original or from a chunk already applied.
THEOREM PatchTyped == PatchSpec => []PatchTypeOK
<1>1. PatchInit => PatchTypeOK
  BY InitType
<1>2. PatchTypeOK /\ [PatchNext]_patchVars => PatchTypeOK'
  BY StepType
<1> QED
  BY <1>1, <1>2, PTL DEF PatchSpec

-----------------------------------------------------------------------------
LEMMA StepInPlace ==
  ASSUME PatchTypeOK, EarlierLinesInPlace, [PatchNext]_patchVars
  PROVE  EarlierLinesInPlace'
<1>1. CASE StillStep
  BY <1>1 DEF StillStep, EarlierLinesInPlace
<1>2. ASSUME NEW c \in pending, ApplyStep(c) PROVE EarlierLinesInPlace'
  <2>1. PICK at \in Nat, count \in Int, new \in {Body(c), <<>>} :
          at >= Zero(c) /\ Apply(c, at, count, new)
    BY <1>2 DEF ApplyStep
  <2>2. doc \in Seq(Nat \X Nat) /\ new \in Seq(Nat \X Nat) /\ size \in Nat
    BY <2>1, NewRows DEF PatchTypeOK
  <2>a. /\ From(doc, at) \in 0..Len(doc)
        /\ Upto(doc, at, count) \in From(doc, at)..Len(doc)
        /\ Len(new) \in Nat
        /\ doc' \in Seq(Nat \X Nat)
        /\ Len(doc') = From(doc, at) + Len(new) + (Len(doc) - Upto(doc, at, count))
        /\ \A i \in 1..From(doc, at) : doc'[i] = doc[i]
        /\ \A i \in 1..Len(new) : doc'[From(doc, at) + i] = new[i]
        /\ \A i \in 1..(Len(doc) - Upto(doc, at, count)) :
             doc'[From(doc, at) + Len(new) + i] = doc[Upto(doc, at, count) + i]
    BY <2>1, <2>2, ApplyFacts, ZenonT(200)
  <2> DEFINE from == From(doc, at)
             upto == Upto(doc, at, count)
             rows == Len(new)
  <2>3. pending' = pending \ {c} /\ UNCHANGED <<size, patch, status>>
    BY <2>1 DEF Apply
  <2>4. /\ from \in 0..Len(doc) /\ upto \in from..Len(doc) /\ rows \in Nat
        /\ Len(doc') = from + rows + (Len(doc) - upto)
        /\ \A i \in 1..from : doc'[i] = doc[i]
    BY <2>1, <2>2, ApplyFacts
  <2>5. ASSUME NEW d \in pending', NEW k \in 1..size, k < patch[d].start
        PROVE  k <= Len(doc') /\ doc'[k] = Old(k)
    <3>1. d \in pending /\ d # c
      BY <2>3
    <3>2. patch[c].start \in Nat /\ patch[d].start \in Nat
      BY <3>1, ChunkTypes
    <3>3. k < patch[c].start
      <4>1. patch[d].start < patch[c].start \/ patch[d].start = patch[c].start
        BY <1>2, <3>1 DEF ApplyStep, Turn
      <4>2. k < patch[d].start
        BY <2>3, <2>5
      <4> QED
        BY <3>2, <4>1, <4>2
    <3>4. k <= Len(doc) /\ doc[k] = Old(k)
      BY <1>2, <3>3 DEF ApplyStep, Turn, EarlierLinesInPlace
    <3>5. k <= at
      BY <2>1, <3>2, <3>3 DEF Zero
    <3>6. k \in 1..from
      BY <2>2, <3>4, <3>5 DEF AtMost, From
    <3> HIDE DEF from, upto, rows
    <3>7. doc'[k] = doc[k]
      BY <2>4, <3>6
    <3>8. k <= Len(doc')
      BY <2>2, <2>4, <3>6
    <3> QED
      BY <3>4, <3>7, <3>8 DEF Old
  <2> QED
    BY <2>3, <2>5 DEF EarlierLinesInPlace
<1> QED
  BY <1>1, <1>2, StepKinds

\* index.ts:131 - while a patch is applied, whatever its chunks, the lines
\* above those still to come are where the original has them.
THEOREM LinesStayInPlace == PatchSpec => []EarlierLinesInPlace
<1>1. PatchInit => EarlierLinesInPlace
  <2> SUFFICES ASSUME PatchInit, NEW c \in pending, NEW k \in 1..size
               PROVE  k <= Len(doc) /\ doc[k] = Old(k)
    BY DEF EarlierLinesInPlace
  <2>1. size \in Nat /\ doc = [j \in 1..size |-> Old(j)]
    BY DocumentsAreNats DEF PatchInit, Original
  <2> QED
    BY <2>1
<1>2. PatchTypeOK /\ EarlierLinesInPlace /\ [PatchNext]_patchVars => EarlierLinesInPlace'
  BY StepInPlace
<1> QED
  BY <1>1, <1>2, PatchTyped, PTL DEF PatchSpec

-----------------------------------------------------------------------------
(***************************************************************************)
(* What a patch does.  Under the hypotheses of AppliesAsWritten, chunk c   *)
(* puts its rows after line At(c) of the original and takes the lines from *)
(* there up to Reach(c) away; chunks come in the descending order of their *)
(* start and level, so that the lines up to Reach(c) are still the         *)
(* original's when c comes.                                                *)
(***************************************************************************)
At(c)    == IF patch[c].op = "PUT_AFTER" THEN patch[c].start ELSE Zero(c)
Reach(c) == IF Deletes(c) THEN patch[c].end ELSE At(c)
Lines(c)  == IF patch[c].op = "CUT" THEN <<>> ELSE Body(c)
Count(c) == IF patch[c].op = "CUT" THEN 0 ELSE patch[c].rows
Applied  == DOMAIN patch \ pending

\* Chunk c comes after chunk d.
Later(c, d) ==
  \/ patch[c].start < patch[d].start
  \/ patch[c].start = patch[d].start /\ Level(c) < Level(d)

\* Line x is in the document when the chunks of A have been applied.
Shown(x, A) ==
  \/ \E k \in 1..size : x = Old(k) /\ \A c \in A : k \notin Gone(c)
  \/ \E c \in A : \E i \in 1..Count(c) : x = <<c, i>>

InOrder  == \A c \in pending, d \in Applied : Later(c, d)
Untouched ==
  \A c \in pending : Reach(c) <= Len(doc) /\ \A k \in 1..Reach(c) : doc[k] = Old(k)
OnlyShown == \A i \in DOMAIN doc : Shown(doc[i], Applied)
AllShown  == \A x : Shown(x, Applied) => \E i \in DOMAIN doc : doc[i] = x
Sorted    == \A i, j \in DOMAIN doc : i < j => Below(Rank(doc[i]), Rank(doc[j]))

SoFar ==
  /\ status # "failed" /\ (status = "ok" => pending = {})
  /\ InOrder
  /\ Untouched
  /\ OnlyShown
  /\ AllShown
  /\ Sorted

Sound == WellFormed /\ BottomUp
MeansInv == Sound => SoFar

\* The places of a chunk of a sound patch.
LEMMA Places ==
  ASSUME PatchTypeOK, Sound, NEW c \in DOMAIN patch
  PROVE  /\ c \in Nat \ {0} /\ size \in Nat \ {0} /\ patch[c].start \in 1..size
         /\ patch[c].end \in Nat /\ patch[c].op \in Ops /\ Count(c) \in Nat
         /\ Level(c) \in 0..2 /\ At(c) \in 0..size /\ Reach(c) \in At(c)..size
         /\ \/ Deletes(c) /\ At(c) = patch[c].start - 1 /\ Reach(c) = patch[c].end
               /\ Level(c) = 1 /\ Gone(c) = patch[c].start..patch[c].end
               /\ patch[c].start <= patch[c].end
            \/ /\ ~Deletes(c) /\ patch[c].op = "PUT_BEFORE" /\ Gone(c) = {}
               /\ Level(c) = 0 /\ At(c) = patch[c].start - 1 /\ Reach(c) = At(c)
            \/ /\ ~Deletes(c) /\ patch[c].op = "PUT_AFTER" /\ Gone(c) = {}
               /\ Level(c) = 2 /\ At(c) = patch[c].start /\ Reach(c) = At(c)
<1>1. patch[c] \in Chunk /\ c \in Nat \ {0} /\ size \in Nat \ {0}
  BY DEF PatchTypeOK
<1>2. /\ patch[c].start \in Nat /\ patch[c].end \in Nat /\ patch[c].rows \in Nat
      /\ patch[c].op \in Ops
  BY <1>1 DEF Chunk
<1>3. /\ patch[c].start \in 1..size
      /\ Deletes(c) => patch[c].start <= patch[c].end /\ patch[c].end <= size
  BY DEF Sound, WellFormed, InDocument
<1>4. Count(c) \in Nat BY <1>2 DEF Count
<1>5. CASE Deletes(c)
  <2>1. Level(c) = 1 /\ At(c) = patch[c].start - 1 BY <1>5 DEF Level, At, Deletes, Zero
  <2>2. Reach(c) = patch[c].end /\ Gone(c) = patch[c].start..patch[c].end
    BY <1>5 DEF Reach, Gone
  <2> QED BY <1>1, <1>2, <1>3, <1>4, <1>5, <2>1, <2>2
<1>6. CASE patch[c].op = "PUT_BEFORE"
  <2>1. ~Deletes(c) /\ Level(c) = 0 /\ At(c) = patch[c].start - 1
    BY <1>6 DEF Level, At, Deletes, Zero
  <2>2. Reach(c) = At(c) /\ Gone(c) = {} BY <2>1 DEF Reach, Gone
  <2> QED BY <1>1, <1>2, <1>3, <1>4, <1>6, <2>1, <2>2
<1>7. CASE patch[c].op = "PUT_AFTER"
  <2>1. ~Deletes(c) /\ Level(c) = 2 /\ At(c) = patch[c].start
    BY <1>7 DEF Level, At, Deletes
  <2>2. Reach(c) = At(c) /\ Gone(c) = {} BY <2>1 DEF Reach, Gone
  <2> QED BY <1>1, <1>2, <1>3, <1>4, <1>7, <2>1, <2>2
<1> QED BY <1>2, <1>5, <1>6, <1>7 DEF Deletes, Ops

LEMMA Ranks ==
  ASSUME PatchTypeOK
  PROVE  /\ \A k : Rank(Old(k)) = <<k, 1, 0>>
         /\ \A c \in DOMAIN patch, i \in Nat :
              Rank(<<c, i>>) = <<patch[c].start, Level(c), i>>
<1>1. ASSUME NEW k PROVE Rank(Old(k)) = <<k, 1, 0>>
  BY DEF Rank, Old
<1>2. ASSUME NEW c \in DOMAIN patch, NEW i \in Nat
      PROVE  Rank(<<c, i>>) = <<patch[c].start, Level(c), i>>
  <2>1. c # 0 BY DEF PatchTypeOK
  <2>2. <<c, i>>[1] = c /\ <<c, i>>[2] = i OBVIOUS
  <2> DEFINE l == <<c, i>>
  <2>3. l[1] # 0 /\ l[1] = c /\ l[2] = i BY <2>1, <2>2
  <2> HIDE DEF l
  <2>4. Rank(l) = <<patch[c].start, Level(c), i>>
    <3>1. CASE patch[c].op = "PUT_BEFORE" BY <2>3, <3>1 DEF Rank, Level
    <3>2. CASE patch[c].op = "PUT_AFTER" BY <2>3, <3>2 DEF Rank, Level
    <3>3. CASE patch[c].op \notin {"PUT_BEFORE", "PUT_AFTER"} BY <2>3, <3>3 DEF Rank, Level
    <3> QED BY <3>1, <3>2, <3>3
  <2> QED BY <2>4 DEF l
<1> QED BY <1>1, <1>2

\* Of two chunks of a sound patch the one that comes later ends where the other
\* starts, or above.
LEMMA LaterIsAbove ==
  ASSUME PatchTypeOK, Sound, NEW c \in DOMAIN patch, NEW d \in DOMAIN patch, Later(d, c)
  PROVE  Reach(d) <= At(c)
<1>1. c # d
  <2>1. patch[c].start \in Nat /\ Level(c) \in Nat BY Places, SMTT(60)
  <2> QED BY <2>1 DEF Later
<1>2. Apart(c, d) /\ Apart(d, c) BY <1>1 DEF Sound, WellFormed
<1> DEFINE sc == patch[c].start
           sd == patch[d].start
<1>p. /\ sc \in Nat /\ sd \in Nat /\ At(c) \in Nat /\ Reach(d) \in Nat
      /\ sc - 1 <= At(c)
  BY Places, SMTT(60)
<1>3. CASE ~Deletes(d)
  <2>1. Reach(d) = At(d) BY <1>3 DEF Reach
  <2>2. At(d) = sd \/ At(d) = sd - 1 BY DEF At, Zero
  <2>3. CASE sd < sc BY <1>p, <2>1, <2>2, <2>3
  <2>4. CASE sd = sc /\ Level(d) < Level(c)
    <3>1. Level(d) # 2
      <4>1. Level(c) \in 0..2 /\ Level(d) \in 0..2 BY Places
      <4> QED BY <2>4, <4>1
    <3>2. At(d) = sd - 1 BY <3>1 DEF At, Zero, Level
    <3> QED BY <1>p, <2>1, <2>4, <3>2
  <2> QED BY <2>3, <2>4 DEF Later
<1>4. CASE Deletes(d)
  <2>1. Reach(d) = patch[d].end /\ Level(d) = 1 /\ Gone(d) = sd..patch[d].end /\ patch[d].end \in Nat
    BY <1>4, Places
  <2>2. CASE Deletes(c)
    <3>1. At(c) = sc - 1 /\ Level(c) = 1 /\ sc \in Gone(c) BY <1>p, <2>2, Places, SMTT(60)
    <3>2. sc \notin Gone(d) BY <1>2, <3>1 DEF Apart
    <3>3. sd < sc BY <2>1, <3>1 DEF Later
    <3> QED BY <1>p, <2>1, <3>1, <3>2, <3>3
  <2>3. CASE patch[c].op = "PUT_BEFORE"
    <3>1. At(c) = sc - 1 /\ Level(c) = 0 /\ ~Deletes(c) BY <2>3, Places DEF Deletes
    <3>2. sd < sc BY <2>1, <3>1 DEF Later
    <3>3. sc \notin Gone(d) \ {sd} BY <1>2, <2>3, <3>1 DEF Apart
    <3> QED BY <1>p, <2>1, <3>1, <3>2, <3>3
  <2>4. CASE patch[c].op = "PUT_AFTER"
    <3>1. At(c) = sc /\ ~Deletes(c) BY <2>4, Places DEF Deletes
    <3>2. sd <= sc BY <1>p DEF Later
    <3>3. sc \notin Gone(d) \ {patch[d].end} BY <1>2, <2>4, <3>1 DEF Apart
    <3> QED BY <1>p, <2>1, <3>1, <3>2, <3>3
  <2> QED BY <2>2, <2>3, <2>4, Places DEF Deletes, Ops
<1> QED BY <1>3, <1>4

\* The chunk whose turn it is comes before all that are left.
LEMMA TurnIsNext ==
  ASSUME PatchTypeOK, Sound, NEW c \in pending, Turn(c)
  PROVE  \A d \in pending \ {c} : Later(d, c)
<1> SUFFICES ASSUME NEW d \in pending \ {c} PROVE Later(d, c) OBVIOUS
<1>1. c \in DOMAIN patch /\ d \in DOMAIN patch BY DEF PatchTypeOK
<1>2. \/ patch[d].start < patch[c].start
      \/ patch[d].start = patch[c].start /\ c < d
  BY DEF Turn
<1>3. c < d /\ patch[d].start = patch[c].start => Level(d) < Level(c)
  <2>1. Level(c) \in Int /\ Level(d) \in Int BY <1>1, Places
  <2>2. c < d /\ patch[c].start = patch[d].start => Level(c) > Level(d)
    BY <1>1 DEF Sound, BottomUp
  <2> QED BY <2>1, <2>2
<1> QED BY <1>2, <1>3 DEF Later

LEMMA LinesOf ==
  ASSUME PatchTypeOK, NEW c \in pending
  PROVE  /\ Lines(c) \in {Body(c), <<>>} /\ Lines(c) \in Seq(Nat \X Nat)
         /\ Len(Lines(c)) = Count(c)
         /\ \A i \in 1..Count(c) : Lines(c)[i] = <<c, i>>
<1>1. c \in DOMAIN patch /\ patch[c] \in Chunk BY ChunkTypes DEF PatchTypeOK
<1>2. patch[c].rows \in Nat BY <1>1 DEF Chunk
<1>3. Lines(c) \in {Body(c), <<>>} BY DEF Lines
<1>4. Lines(c) \in Seq(Nat \X Nat) BY <1>3, NewRows
<1>5. CASE patch[c].op = "CUT" BY <1>3, <1>4, <1>5 DEF Lines, Count
<1>6. CASE patch[c].op # "CUT"
  <2>1. Len(Body(c)) = patch[c].rows /\ \A i \in 1..patch[c].rows : Body(c)[i] = <<c, i>>
    BY <1>2 DEF Body
  <2> QED BY <1>3, <1>4, <1>6, <2>1 DEF Lines, Count
<1> QED BY <1>5, <1>6

\* A chunk of a sound patch is never refused, and is put in its places.
LEMMA SoundStep ==
  ASSUME PatchTypeOK, Sound, SoFar, [PatchNext]_patchVars
  PROVE  \/ StillStep /\ status' # "failed" /\ (status' = "ok" => pending = {})
         \/ \E c \in pending : Turn(c) /\ Apply(c, At(c), Reach(c) - At(c), Lines(c))
<1>1. CASE UNCHANGED patchVars
  BY <1>1 DEF patchVars, StillStep, PatchTypeOK, SoFar
<1>2. CASE Return BY <1>2 DEF Return, StillStep
<1>3. ASSUME NEW c \in pending
      PROVE  /\ ValidStart(c) /\ Zero(c) = patch[c].start - 1 /\ patch[c].start \in Nat
             /\ Deletes(c) =>
                  /\ ValidRange(c) /\ At(c) = Zero(c)
                  /\ Reach(c) - At(c) = DeleteCount(c)
             /\ ~Deletes(c) => Reach(c) - At(c) = 0 /\ patch[c].op # "CUT"
             /\ patch[c].op = "PUT_BEFORE" => At(c) = Zero(c)
             /\ patch[c].op = "PUT_AFTER" => At(c) = Zero(c) + 1
  <2>1. c \in DOMAIN patch BY DEF PatchTypeOK
  <2>2. Reach(c) <= Len(doc) /\ Len(doc) \in Nat BY DEF SoFar, Untouched, PatchTypeOK
  <2>3. /\ patch[c].start \in Nat /\ patch[c].start >= 1 /\ patch[c].end \in Nat
        /\ At(c) \in Nat /\ Reach(c) \in Nat /\ At(c) <= Reach(c)
    BY <2>1, Places
  <2>4. At(c) = patch[c].start - 1 \/ (patch[c].op = "PUT_AFTER" /\ At(c) = patch[c].start)
    BY DEF At, Zero
  <2>5. ValidStart(c) BY <2>2, <2>3, <2>4 DEF ValidStart
  <2>6. ASSUME Deletes(c)
        PROVE  ValidRange(c) /\ At(c) = Zero(c) /\ Reach(c) - At(c) = DeleteCount(c)
    <3>1. At(c) = patch[c].start - 1 /\ Reach(c) = patch[c].end
      BY <2>4, <2>6 DEF Deletes, Reach
    <3>2. patch[c].start <= patch[c].end BY <2>1, <2>6 DEF Sound, WellFormed, InDocument
    <3> QED BY <2>2, <2>3, <3>1, <3>2, SMTT(60) DEF ValidRange, Zero, DeleteCount
  <2>7. ~Deletes(c) => Reach(c) = At(c) /\ patch[c].op # "CUT" BY DEF Reach, Deletes
  <2> QED BY <2>3, <2>5, <2>6, <2>7 DEF At, Zero
<1>4. ASSUME NEW c \in pending, BadStart(c) PROVE FALSE
  BY <1>3, <1>4 DEF BadStart
<1>5. ASSUME NEW c \in pending, PutRange(c)
      PROVE  Turn(c) /\ Apply(c, At(c), Reach(c) - At(c), Lines(c))
  <2>1. Lines(c) = Body(c) /\ Deletes(c) BY <1>5 DEF PutRange, Lines, Deletes
  <2> QED BY <1>3, <1>5, <2>1 DEF PutRange
<1>6. ASSUME NEW c \in pending, PutBefore(c)
      PROVE  Turn(c) /\ Apply(c, At(c), Reach(c) - At(c), Lines(c))
  <2>1. Lines(c) = Body(c) /\ ~Deletes(c) BY <1>6 DEF PutBefore, Lines, Deletes
  <2> QED BY <1>3, <1>6, <2>1 DEF PutBefore
<1>7. ASSUME NEW c \in pending, PutAfter(c)
      PROVE  Turn(c) /\ Apply(c, At(c), Reach(c) - At(c), Lines(c))
  <2>1. Lines(c) = Body(c) /\ ~Deletes(c) BY <1>7 DEF PutAfter, Lines, Deletes
  <2> QED BY <1>3, <1>7, <2>1 DEF PutAfter
<1>8. ASSUME NEW c \in pending, Cut(c)
      PROVE  Turn(c) /\ Apply(c, At(c), Reach(c) - At(c), Lines(c))
  <2>1. Lines(c) = <<>> /\ Deletes(c) BY <1>8 DEF Cut, Lines, Deletes
  <2> QED BY <1>3, <1>8, <2>1 DEF Cut
<1> QED BY <1>1, <1>2, <1>4, <1>5, <1>6, <1>7, <1>8 DEF PatchNext

\* The document after chunk c: the lines up to At(c), its rows, and the lines
\* after Reach(c).
Placed(c) ==
  /\ doc' \in Seq(Nat \X Nat)
  /\ Len(doc') = At(c) + Count(c) + (Len(doc) - Reach(c))
  /\ \A i \in 1..At(c) : doc'[i] = doc[i]
  /\ \A i \in 1..Count(c) : doc'[At(c) + i] = <<c, i>>
  /\ \A i \in (Reach(c) + 1)..Len(doc) : doc'[At(c) + Count(c) + (i - Reach(c))] = doc[i]

LEMMA ApplyPlaces ==
  ASSUME PatchTypeOK, Sound, SoFar, NEW c \in pending,
         Apply(c, At(c), Reach(c) - At(c), Lines(c))
  PROVE  Placed(c)
<1> DEFINE a == At(c)
           r == Reach(c)
           n == Len(doc)
           w == Count(c)
<1>1. a \in Nat /\ r \in Nat /\ a <= r /\ w \in Nat
  BY Places DEF PatchTypeOK
<1>2. r <= n /\ n \in Nat BY DEF SoFar, Untouched, PatchTypeOK
<1>3. /\ Lines(c) \in Seq(Nat \X Nat) /\ Len(Lines(c)) = w
      /\ \A i \in 1..w : Lines(c)[i] = <<c, i>>
  BY LinesOf
<1>4. From(doc, a) = a BY <1>1, <1>2 DEF From, AtMost
<1>5. Upto(doc, a, r - a) = r
  <2>1. AtLeast(r - a, 0) = r - a BY <1>1 DEF AtLeast
  <2>2. a + (r - a) = r BY <1>1
  <2> QED BY <1>1, <1>2, <1>4, <2>1, <2>2 DEF Upto, AtMost
<1>6. /\ doc' \in Seq(Nat \X Nat)
      /\ Len(doc') = From(doc, a) + Len(Lines(c)) + (Len(doc) - Upto(doc, a, r - a))
      /\ \A i \in 1..From(doc, a) : doc'[i] = doc[i]
      /\ \A i \in 1..Len(Lines(c)) : doc'[From(doc, a) + i] = Lines(c)[i]
      /\ \A i \in 1..(Len(doc) - Upto(doc, a, r - a)) :
           doc'[From(doc, a) + Len(Lines(c)) + i] = doc[Upto(doc, a, r - a) + i]
  <2>1. a \in Nat /\ r - a \in Int BY <1>1
  <2> HIDE DEF a, r
  <2>2. Apply(c, a, r - a, Lines(c)) BY DEF a, r
  <2> QED BY <1>3, <2>1, <2>2, ApplyFacts, ZenonT(60)
<1> HIDE DEF a, r, n, w
<1>7. ASSUME NEW i \in (r + 1)..n PROVE doc'[a + w + (i - r)] = doc[i]
  <2>1. i - r \in 1..(n - r) /\ r + (i - r) = i BY <1>1, <1>2
  <2> QED BY <1>3, <1>4, <1>5, <1>6, <2>1 DEF n
<1> QED BY <1>3, <1>4, <1>5, <1>6, <1>7 DEF Placed, a, r, n, w

\* The lines after Reach(c) come after the rows of chunk c, and stay.
LEMMA TailIsBelow ==
  ASSUME PatchTypeOK, Sound, SoFar, NEW c \in pending, NEW j \in (Reach(c) + 1)..Len(doc)
  PROVE  \/ \E k \in 1..size :
              /\ doc[j] = Old(k) /\ k > Reach(c)
              /\ \A d \in Applied : k \notin Gone(d)
         \/ \E d \in Applied : \E i \in 1..Count(d) : doc[j] = <<d, i>> /\ Later(c, d)
<1> DEFINE r == Reach(c)
<1>0. c \in DOMAIN patch /\ r \in Nat /\ Len(doc) \in Nat /\ DOMAIN doc = 1..Len(doc)
  BY Places, SMTT(60) DEF PatchTypeOK
<1>1. j \in DOMAIN doc /\ Shown(doc[j], Applied) BY <1>0 DEF SoFar, OnlyShown
<1>2. ASSUME NEW k \in 1..size, doc[j] = Old(k) PROVE k > r
  <2>1. CASE r = 0 BY <2>1
  <2>2. CASE r > 0
    <3>1. r \in 1..r /\ r <= Len(doc) /\ r \in DOMAIN doc /\ r < j
      BY <1>0, <2>2 DEF SoFar, Untouched
    <3>2. doc[r] = Old(r) BY <3>1 DEF SoFar, Untouched
    <3>3. Below(Rank(doc[r]), Rank(doc[j])) BY <1>1, <3>1 DEF SoFar, Sorted
    <3>4. Below(<<r, 1, 0>>, <<k, 1, 0>>) BY <1>2, <3>2, <3>3, Ranks
    <3> QED BY <1>0, <3>4 DEF Below
  <2> QED BY <1>0, <2>1, <2>2
<1>3. ASSUME NEW d \in Applied PROVE Later(c, d) BY DEF SoFar, InOrder
<1> QED BY <1>1, <1>2, <1>3 DEF Shown

\* Where the lines of the document after chunk c come from.
LEMMA Origins ==
  ASSUME PatchTypeOK, Sound, SoFar, NEW c \in pending, Placed(c), NEW i \in DOMAIN doc'
  PROVE  \/ i \in 1..At(c) /\ doc'[i] = doc[i] /\ doc[i] = Old(i) /\ i \in DOMAIN doc
         \/ \E m \in 1..Count(c) : i = At(c) + m /\ doc'[i] = <<c, m>>
         \/ \E j \in (Reach(c) + 1)..Len(doc) :
              i = At(c) + Count(c) + (j - Reach(c)) /\ doc'[i] = doc[j]
<1> DEFINE a == At(c)
           r == Reach(c)
           n == Len(doc)
           w == Count(c)
<1>1. /\ a \in Nat /\ r \in Nat /\ a <= r /\ w \in Nat /\ r <= n /\ n \in Nat
      /\ DOMAIN doc = 1..n /\ \A k \in 1..r : doc[k] = Old(k)
  BY Places DEF PatchTypeOK, SoFar, Untouched
<1>2. DOMAIN doc' = 1..(a + w + (n - r)) BY DEF Placed
<1>3. /\ \A k \in 1..a : doc'[k] = doc[k]
      /\ \A m \in 1..w : doc'[a + m] = <<c, m>>
      /\ \A j \in (r + 1)..n : doc'[a + w + (j - r)] = doc[j]
  BY DEF Placed
<1> HIDE DEF a, r, n, w
<1>4. CASE i \in 1..a
  <2>1. i \in 1..r /\ i \in 1..n BY <1>1, <1>4
  <2> QED BY <1>1, <1>3, <1>4, <2>1 DEF a
<1>5. CASE i - a \in 1..w
  <2>1. i = a + (i - a) BY <1>1, <1>2
  <2>2. doc'[i] = <<c, i - a>> BY <1>3, <1>5, <2>1
  <2> QED BY <1>5, <2>1, <2>2 DEF a, w
<1>6. CASE i > a + w
  <2> DEFINE j == i - a - w + r
  <2>1. j \in (r + 1)..n /\ i = a + w + (j - r) BY <1>1, <1>2, <1>6, SMTT(60)
  <2> HIDE DEF j
  <2>2. doc'[i] = doc[j] BY <1>3, <2>1
  <2> QED BY <2>1, <2>2 DEF a, r, n, w
<1> QED BY <1>1, <1>2, <1>4, <1>5, <1>6

\* The rows of chunk c rank above the lines after them and below those before.
LEMMA RowsFit ==
  ASSUME PatchTypeOK, Sound, SoFar, NEW c \in pending, NEW m \in 1..Count(c)
  PROVE  /\ \A k \in 1..At(c) : Below(Rank(Old(k)), Rank(<<c, m>>))
         /\ \A l \in 1..Count(c) : m < l => Below(Rank(<<c, m>>), Rank(<<c, l>>))
         /\ \A j \in (Reach(c) + 1)..Len(doc) : Below(Rank(<<c, m>>), Rank(doc[j]))
<1>0. c \in DOMAIN patch BY DEF PatchTypeOK
<1> DEFINE s == patch[c].start
           v == Level(c)
<1>1. /\ s \in Nat /\ At(c) \in Nat /\ v \in Nat /\ Count(c) \in Nat /\ Reach(c) \in Nat
      /\ m \in Nat
  BY <1>0, Places
<1>2. \A l \in 1..Count(c) : Rank(<<c, l>>) = <<s, v, l>> BY <1>0, <1>1, Ranks
<1>3. \/ v = 1 /\ At(c) = s - 1 /\ Reach(c) >= s
      \/ v = 0 /\ At(c) = s - 1 /\ Reach(c) = s - 1
      \/ v = 2 /\ At(c) = s /\ Reach(c) = s
  BY <1>0, Places
<1> HIDE DEF s, v
<1>4. ASSUME NEW k \in 1..At(c) PROVE Below(Rank(Old(k)), Rank(<<c, m>>))
  <2>1. Rank(Old(k)) = <<k, 1, 0>> BY Ranks
  <2>2. k < s \/ (k = s /\ v = 2) BY <1>1, <1>3
  <2> QED BY <1>1, <1>2, <2>1, <2>2 DEF Below
<1>5. ASSUME NEW l \in 1..Count(c), m < l PROVE Below(Rank(<<c, m>>), Rank(<<c, l>>))
  BY <1>2, <1>5 DEF Below
<1>6. ASSUME NEW j \in (Reach(c) + 1)..Len(doc) PROVE Below(Rank(<<c, m>>), Rank(doc[j]))
  <2>1. ASSUME NEW k \in 1..size, doc[j] = Old(k), k > Reach(c)
        PROVE  Below(Rank(<<c, m>>), Rank(doc[j]))
    <3>1. Rank(doc[j]) = <<k, 1, 0>> BY <2>1, Ranks
    <3>2. s < k \/ (s = k /\ v < 1) BY <1>1, <1>3, <2>1, SMTT(60)
    <3> QED BY <1>1, <1>2, <3>1, <3>2, SMTT(60) DEF Below
  <2>2. ASSUME NEW d \in Applied, NEW i \in 1..Count(d), doc[j] = <<d, i>>, Later(c, d)
        PROVE  Below(Rank(<<c, m>>), Rank(doc[j]))
    <3>1. Rank(doc[j]) = <<patch[d].start, Level(d), i>> BY <2>2, Ranks DEF Applied
    <3>2. s < patch[d].start \/ (s = patch[d].start /\ v < Level(d))
      BY <2>2 DEF Later, s, v
    <3> QED BY <1>2, <3>1, <3>2 DEF Below
  <2> QED BY <2>1, <2>2, TailIsBelow
<1> QED BY <1>4, <1>5, <1>6

LEMMA SortedKept ==
  ASSUME PatchTypeOK, Sound, SoFar, NEW c \in pending, Placed(c), patch' = patch
  PROVE  Sorted'
<1>0. /\ At(c) \in Nat /\ Count(c) \in Nat /\ Reach(c) \in Nat /\ At(c) <= Reach(c)
      /\ Len(doc) \in Nat /\ DOMAIN doc = 1..Len(doc)
  BY Places DEF PatchTypeOK
<1>1. ASSUME NEW i \in DOMAIN doc', NEW j \in DOMAIN doc', i < j
      PROVE  Below(Rank(doc'[i]), Rank(doc'[j]))
  <2>i. \/ i \in 1..At(c) /\ doc'[i] = doc[i] /\ doc[i] = Old(i) /\ i \in DOMAIN doc
        \/ \E m \in 1..Count(c) : i = At(c) + m /\ doc'[i] = <<c, m>>
        \/ \E k \in (Reach(c) + 1)..Len(doc) :
             i = At(c) + Count(c) + (k - Reach(c)) /\ doc'[i] = doc[k]
    BY Origins
  <2>j. \/ j \in 1..At(c) /\ doc'[j] = doc[j] /\ doc[j] = Old(j) /\ j \in DOMAIN doc
        \/ \E m \in 1..Count(c) : j = At(c) + m /\ doc'[j] = <<c, m>>
        \/ \E k \in (Reach(c) + 1)..Len(doc) :
             j = At(c) + Count(c) + (k - Reach(c)) /\ doc'[j] = doc[k]
    BY Origins
  <2>s. \A k, l \in DOMAIN doc : k < l => Below(Rank(doc[k]), Rank(doc[l]))
    BY DEF SoFar, Sorted
  <2>1. CASE i \in 1..At(c) /\ doc'[i] = doc[i] /\ doc[i] = Old(i) /\ i \in DOMAIN doc
    <3>1. CASE j \in DOMAIN doc /\ doc'[j] = doc[j] BY <1>1, <2>1, <2>s, <3>1
    <3>2. ASSUME NEW m \in 1..Count(c), doc'[j] = <<c, m>>
          PROVE  Below(Rank(doc'[i]), Rank(doc'[j]))
      BY <2>1, <3>2, RowsFit
    <3>3. ASSUME NEW k \in (Reach(c) + 1)..Len(doc), doc'[j] = doc[k]
          PROVE  Below(Rank(doc'[i]), Rank(doc'[j]))
      <4>1. i < k /\ k \in DOMAIN doc BY <1>0, <2>1
      <4> QED BY <2>1, <2>s, <3>3, <4>1
    <3> QED BY <2>j, <3>1, <3>2, <3>3
  <2>2. ASSUME NEW m \in 1..Count(c), i = At(c) + m, doc'[i] = <<c, m>>
        PROVE  Below(Rank(doc'[i]), Rank(doc'[j]))
    <3>1. j \notin 1..At(c) BY <1>0, <1>1, <2>2
    <3>2. ASSUME NEW l \in 1..Count(c), j = At(c) + l, doc'[j] = <<c, l>>
          PROVE  Below(Rank(doc'[i]), Rank(doc'[j]))
      <4>1. m < l BY <1>0, <1>1, <2>2, <3>2
      <4> QED BY <2>2, <3>2, <4>1, RowsFit
    <3>3. ASSUME NEW k \in (Reach(c) + 1)..Len(doc), doc'[j] = doc[k]
          PROVE  Below(Rank(doc'[i]), Rank(doc'[j]))
      BY <2>2, <3>3, RowsFit
    <3> QED BY <2>j, <3>1, <3>2, <3>3
  <2>3. ASSUME NEW k \in (Reach(c) + 1)..Len(doc), doc'[i] = doc[k],
               i = At(c) + Count(c) + (k - Reach(c))
        PROVE  Below(Rank(doc'[i]), Rank(doc'[j]))
    <3>1. j \notin 1..At(c) /\ \A m \in 1..Count(c) : j # At(c) + m
      BY <1>0, <1>1, <2>3, SMTT(60)
    <3>2. PICK l \in (Reach(c) + 1)..Len(doc) :
            j = At(c) + Count(c) + (l - Reach(c)) /\ doc'[j] = doc[l]
      BY <2>j, <3>1
    <3>3. k < l /\ k \in DOMAIN doc /\ l \in DOMAIN doc BY <1>0, <1>1, <2>3, <3>2, SMTT(60)
    <3> QED BY <2>3, <2>s, <3>2, <3>3
  <2> QED BY <2>i, <2>1, <2>2, <2>3
<1>2. ASSUME NEW i \in DOMAIN doc', NEW j \in DOMAIN doc', i < j
      PROVE  Below(Rank(doc[i])', Rank(doc[j])')
  <2>1. Rank(doc[i])' = Rank(doc'[i]) /\ Rank(doc[j])' = Rank(doc'[j]) BY DEF Rank
  <2> QED BY <1>1, <1>2, <2>1
<1> QED BY <1>2 DEF Sorted

LEMMA OnlyShownKept ==
  ASSUME PatchTypeOK, Sound, SoFar, NEW c \in pending, Placed(c), UNCHANGED <<size, patch>>,
         Applied' = Applied \cup {c}
  PROVE  OnlyShown'
<1>0. c \in DOMAIN patch /\ Applied \subseteq DOMAIN patch /\ 0 \notin DOMAIN patch
  BY DEF PatchTypeOK, Applied
<1>1. \A k : k \in Gone(c) => At(c) < k /\ k <= Reach(c)
  BY <1>0, Places
<1>2. ASSUME NEW k \in 1..size, \A d \in Applied : k \notin Gone(d), k \notin Gone(c)
      PROVE  Shown(Old(k), Applied \cup {c})
  BY <1>2 DEF Shown
<1>3. ASSUME NEW i \in DOMAIN doc' PROVE Shown(doc'[i], Applied \cup {c})
  <2>1. CASE i \in 1..At(c) /\ doc'[i] = doc[i] /\ doc[i] = Old(i) /\ i \in DOMAIN doc
    <3>1. Shown(Old(i), Applied) BY <2>1 DEF SoFar, OnlyShown
    <3>2. i \in 1..size /\ \A d \in Applied : i \notin Gone(d)
      <4>1. \A d \in Applied : \A m \in 1..Count(d) : Old(i) # <<d, m>> BY <1>0 DEF Old
      <4>2. \A k : Old(k) = Old(i) => k = i BY DEF Old
      <4> QED BY <3>1, <4>1, <4>2 DEF Shown
    <3>3. i \notin Gone(c)
      <4>1. At(c) \in Nat BY <1>0, Places
      <4> QED BY <1>1, <2>1, <4>1
    <3> QED BY <1>2, <2>1, <3>2, <3>3
  <2>2. ASSUME NEW m \in 1..Count(c), doc'[i] = <<c, m>>
        PROVE  Shown(doc'[i], Applied \cup {c})
    BY <2>2 DEF Shown
  <2>3. ASSUME NEW j \in (Reach(c) + 1)..Len(doc), doc'[i] = doc[j]
        PROVE  Shown(doc'[i], Applied \cup {c})
    <3>1. ASSUME NEW k \in 1..size, doc[j] = Old(k), k > Reach(c),
                 \A d \in Applied : k \notin Gone(d)
          PROVE  Shown(doc'[i], Applied \cup {c})
      <4>1. Reach(c) \in Nat BY <1>0, Places
      <4>2. k \notin Gone(c) BY <1>1, <3>1, <4>1
      <4> QED BY <1>2, <2>3, <3>1, <4>2
    <3>2. ASSUME NEW d \in Applied, NEW l \in 1..Count(d), doc[j] = <<d, l>>
          PROVE  Shown(doc'[i], Applied \cup {c})
      BY <2>3, <3>2 DEF Shown
    <3> QED BY <3>1, <3>2, TailIsBelow
  <2> QED BY <2>1, <2>2, <2>3, Origins
<1> QED BY <1>3 DEF OnlyShown, Shown, Count, Gone, Deletes

LEMMA AllShownKept ==
  ASSUME PatchTypeOK, Sound, SoFar, NEW c \in pending, Placed(c), UNCHANGED <<size, patch>>,
         Applied' = Applied \cup {c}
  PROVE  AllShown'
<1>0. c \in DOMAIN patch /\ Applied \subseteq DOMAIN patch /\ 0 \notin DOMAIN patch
  BY DEF PatchTypeOK, Applied
<1>1. /\ At(c) \in Nat /\ Count(c) \in Nat /\ Reach(c) \in Nat /\ At(c) <= Reach(c)
      /\ Len(doc) \in Nat /\ DOMAIN doc = 1..Len(doc) /\ Reach(c) <= Len(doc)
      /\ \A k \in 1..Reach(c) : doc[k] = Old(k)
  BY Places DEF PatchTypeOK, SoFar, Untouched
<1>2. DOMAIN doc' = 1..(At(c) + Count(c) + (Len(doc) - Reach(c))) BY DEF Placed
<1>3. ASSUME NEW j \in DOMAIN doc, j \notin (At(c) + 1)..Reach(c)
      PROVE  \E i \in DOMAIN doc' : doc'[i] = doc[j]
  <2>1. CASE j \in 1..At(c)
    <3>1. j \in DOMAIN doc' /\ doc'[j] = doc[j] BY <1>1, <1>2, <2>1 DEF Placed
    <3> QED BY <3>1
  <2>2. CASE j \in (Reach(c) + 1)..Len(doc)
    <3> DEFINE i == At(c) + Count(c) + (j - Reach(c))
    <3>1. i \in DOMAIN doc' BY <1>1, <1>2, <2>2, SMTT(60)
    <3>2. doc'[i] = doc[j] BY <2>2 DEF Placed
    <3> QED BY <3>1, <3>2
  <2> QED BY <1>1, <1>3, <2>1, <2>2
<1>4. \A k : k \in (At(c) + 1)..Reach(c) => k \in Gone(c)
  BY <1>0, <1>1, Places, SMTT(60)
<1>5. ASSUME NEW x, Shown(x, Applied \cup {c})
      PROVE  \E i \in DOMAIN doc' : doc'[i] = x
  <2>1. ASSUME NEW k \in 1..size, x = Old(k), \A d \in Applied \cup {c} : k \notin Gone(d)
        PROVE  \E i \in DOMAIN doc' : doc'[i] = x
    <3>1. Shown(x, Applied) BY <2>1 DEF Shown
    <3>2. PICK j \in DOMAIN doc : doc[j] = x BY <3>1 DEF SoFar, AllShown
    <3>3. j \in 1..Reach(c) => j = k BY <1>1, <2>1, <3>2 DEF Old
    <3>4. j \notin (At(c) + 1)..Reach(c) BY <1>1, <1>4, <2>1, <3>3
    <3> QED BY <1>3, <3>2, <3>4
  <2>2. ASSUME NEW d \in Applied, NEW m \in 1..Count(d), x = <<d, m>>
        PROVE  \E i \in DOMAIN doc' : doc'[i] = x
    <3>1. Shown(x, Applied) BY <2>2 DEF Shown
    <3>2. PICK j \in DOMAIN doc : doc[j] = x BY <3>1 DEF SoFar, AllShown
    <3>3. j \notin 1..Reach(c) BY <1>0, <1>1, <2>2, <3>2 DEF Old
    <3>4. j \notin (At(c) + 1)..Reach(c) BY <1>1, <3>3
    <3> QED BY <1>3, <3>2, <3>4
  <2>3. ASSUME NEW m \in 1..Count(c), x = <<c, m>>
        PROVE  \E i \in DOMAIN doc' : doc'[i] = x
    <3>1. At(c) + m \in DOMAIN doc' BY <1>1, <1>2
    <3> QED BY <2>3, <3>1 DEF Placed
  <2> QED BY <1>5, <2>1, <2>2, <2>3 DEF Shown
<1> QED BY <1>5 DEF AllShown, Shown, Count, Gone, Deletes

LEMMA SoFarKept ==
  ASSUME PatchTypeOK, Sound, SoFar, NEW c \in pending, Turn(c),
         Apply(c, At(c), Reach(c) - At(c), Lines(c))
  PROVE  SoFar'
<1>1. Placed(c) BY ApplyPlaces
<1>2. UNCHANGED <<size, patch, status>> /\ pending' = pending \ {c} BY DEF Apply
<1>3. /\ c \in DOMAIN patch /\ pending \subseteq DOMAIN patch
      /\ Applied' = Applied \cup {c}
  BY <1>2 DEF PatchTypeOK, Applied
<1>4. \A d \in pending \ {c} : Later(d, c) BY TurnIsNext
<1>5. InOrder'
  <2>1. \A d \in pending \ {c}, e \in Applied \cup {c} : Later(d, e)
    BY <1>4 DEF SoFar, InOrder
  <2> QED BY <1>2, <1>3, <2>1 DEF InOrder, Later, Level
<1>6. Untouched'
  <2>1. /\ At(c) \in Nat /\ Count(c) \in Nat /\ Reach(c) \in Nat /\ At(c) <= Reach(c)
        /\ Len(doc) \in Nat /\ Reach(c) <= Len(doc) /\ \A k \in 1..Reach(c) : doc[k] = Old(k)
    BY <1>3, Places DEF PatchTypeOK, SoFar, Untouched
  <2>2. ASSUME NEW d \in pending \ {c}
        PROVE  Reach(d) <= Len(doc') /\ \A k \in 1..Reach(d) : doc'[k] = Old(k)
    <3>1. Reach(d) <= At(c) /\ Reach(d) \in Nat BY <1>3, <1>4, LaterIsAbove, Places
    <3>2. Len(doc') = At(c) + Count(c) + (Len(doc) - Reach(c))
          /\ \A k \in 1..At(c) : doc'[k] = doc[k]
      BY <1>1 DEF Placed
    <3>3. Reach(d) <= Len(doc') BY <2>1, <3>1, <3>2
    <3>4. ASSUME NEW k \in 1..Reach(d) PROVE doc'[k] = Old(k)
      <4>1. k \in 1..At(c) /\ k \in 1..Reach(c) BY <2>1, <3>1
      <4> QED BY <2>1, <3>2, <4>1
    <3> QED BY <3>3, <3>4
  <2> QED BY <1>2, <2>2 DEF Untouched, Reach, At, Zero, Deletes, Old
<1>7. OnlyShown' /\ AllShown' /\ Sorted'
  BY <1>1, <1>2, <1>3, OnlyShownKept, AllShownKept, SortedKept
<1>8. status' = "running" BY <1>2 DEF Turn
<1> QED BY <1>5, <1>6, <1>7, <1>8 DEF SoFar

LEMMA MeansInit == ASSUME PatchInit, PatchTypeOK, Sound PROVE SoFar
<1>1. /\ size \in Nat /\ doc = [k \in 1..size |-> Old(k)] /\ Applied = {}
      /\ status = "running"
  BY DEF PatchInit, PatchTypeOK, Original, Applied
<1>2. Len(doc) = size /\ DOMAIN doc = 1..size /\ \A k \in 1..size : doc[k] = Old(k)
  BY <1>1
<1>3. InOrder BY <1>1 DEF InOrder
<1>4. Untouched
  <2>1. \A c \in pending : Reach(c) \in 0..size BY Places DEF PatchTypeOK
  <2> QED BY <1>1, <1>2, <2>1 DEF Untouched
<1>5. OnlyShown /\ AllShown BY <1>1, <1>2 DEF OnlyShown, AllShown, Shown
<1>6. Sorted
  <2>1. ASSUME NEW i \in 1..size, NEW j \in 1..size, i < j
        PROVE  Below(Rank(doc[i]), Rank(doc[j]))
    <3>1. Rank(doc[i]) = <<i, 1, 0>> /\ Rank(doc[j]) = <<j, 1, 0>> BY <1>2, Ranks
    <3> QED BY <2>1, <3>1 DEF Below
  <2> QED BY <1>2, <2>1 DEF Sorted
<1> QED BY <1>1, <1>3, <1>4, <1>5, <1>6 DEF SoFar

\* A patch whose chunks do not touch each other and that lists those of one
\* line bottom up is never refused and leaves exactly the lines no chunk took
\* away and the rows of its chunks, in the order its headers say.
THEOREM PatchMeansWhatItSays == PatchSpec => []AppliesAsWritten
<1>1. PatchInit /\ PatchTypeOK => MeansInv BY MeansInit DEF MeansInv
<1>2. PatchTypeOK /\ MeansInv /\ [PatchNext]_patchVars => MeansInv'
  <2> SUFFICES ASSUME PatchTypeOK, MeansInv, [PatchNext]_patchVars, Sound' PROVE SoFar'
    BY DEF MeansInv
  <2>1. UNCHANGED <<size, patch>>
    BY StepKinds DEF StillStep, ApplyStep, Apply
  <2>2. Sound
    BY <2>1
    DEF Sound, WellFormed, BottomUp, InDocument, Apart, Gone, Deletes, Level
  <2>3. SoFar BY <2>2 DEF MeansInv
  <2>4. CASE StillStep /\ status' # "failed" /\ (status' = "ok" => pending = {})
    BY <2>3, <2>4, SMTT(60)
    DEF StillStep, SoFar, InOrder, Untouched, OnlyShown, AllShown, Sorted, Applied, Later,
        Level, Reach, At, Zero, Deletes, Old, Shown, Count, Gone, Rank
  <2> QED BY <2>2, <2>3, <2>4, SoundStep, SoFarKept
<1>3. PatchTypeOK /\ MeansInv => AppliesAsWritten
  <2> SUFFICES ASSUME PatchTypeOK, Sound, SoFar
               PROVE  status # "failed" /\ (status = "ok" => MeansWhatItSays)
    BY DEF MeansInv, Sound, AppliesAsWritten
  <2> SUFFICES ASSUME status = "ok" PROVE MeansWhatItSays BY DEF SoFar
  <2>1. Applied = DOMAIN patch BY DEF SoFar, Applied
  <2>2. ASSUME NEW x PROVE x \in Kept \cup Put <=> Shown(x, Applied)
    <3>1. x \in Kept <=> \E k \in 1..size : x = Old(k) /\ \A c \in Applied : k \notin Gone(c)
      BY <2>1 DEF Kept
    <3>2. x \in Put <=> \E c \in Applied : \E i \in 1..Count(c) : x = <<c, i>>
      BY <2>1 DEF Put, Count
    <3> QED BY <3>1, <3>2 DEF Shown
  <2>3. {doc[i] : i \in DOMAIN doc} = Kept \cup Put
    BY <2>2 DEF SoFar, OnlyShown, AllShown
  <2> QED BY <2>3 DEF MeansWhatItSays, SoFar, Sorted
<1> QED BY <1>1, <1>2, <1>3, PatchTyped, PTL DEF PatchSpec

-----------------------------------------------------------------------------
(***************************************************************************)
(* Commands.                                                               *)
(***************************************************************************)
\* A heir has been noted.  Before the call waits nothing has run; a result is
\* there only when it has returned, and then the command has ended.
Course ==
  /\ heir => bore
  /\ pc = "called" => child = "unborn" /\ ~heir /\ written = Nothing
  /\ child = "unborn" => pc \in {"called", "returned"} /\ ~heir
  /\ pc # "returned" => result.code = "none"
  /\ pc \in {"killed", "joinOut", "joinErr", "returned"} => child # "running"
  /\ host = "node" => pc \in {"called", "waiting", "returned"}

\* The runner is the only one to kill, and has then noted that time is over.
KillNoted ==
  /\ child = "killed" => fired
  /\ (host = "bridge" /\ child = "killed") => pc \in {"killed", "returned"}

\* Past the first join the standard output is complete, unless there was a heir.
FirstJoined == (pc = "joinErr" /\ ~bore) => Drained("out")

\* An answer that is meant to be complete was given when nothing held the pipes.
Complete ==
  (result.code \in {"ok", "failed"} /\ ~(host = "bridge" /\ bore))
    => ~Held /\ result.lines = written

RunnerInv == RunnerTypeOK /\ Course /\ KillNoted /\ FirstJoined /\ Complete /\ ZeroMeansSuccess

USE DEF Pipes

LEMMA RunnerInitTyped == RunnerInit => RunnerTypeOK
<1> SUFFICES ASSUME RunnerInit PROVE RunnerTypeOK
  OBVIOUS
<1>1. Nothing \in [Pipes -> 0..MaxLines] /\ \A p \in Pipes : Nothing[p] <= Nothing[p]
  BY MaxLinesIsNat DEF Nothing
<1> QED
  BY <1>1 DEF RunnerInit, RunnerTypeOK

LEMMA RunnerStepTyped == RunnerTypeOK /\ [RunnerNext]_runnerVars => RunnerTypeOK'
<1> SUFFICES ASSUME RunnerTypeOK, [RunnerNext]_runnerVars PROVE RunnerTypeOK'
  OBVIOUS
<1> USE MaxLinesIsNat DEF RunnerTypeOK
<1>1. ASSUME NEW p \in Pipes, Write(p) PROVE RunnerTypeOK'
  BY <1>1 DEF Write
<1>2. ASSUME NEW p \in Pipes, Collect(p) PROVE RunnerTypeOK'
  BY <1>2 DEF Collect
<1>3. CASE Bears BY <1>3 DEF Bears
<1>4. CASE Ends BY <1>4 DEF Ends
<1>5. CASE HeirEnds BY <1>5, ZenonT(60) DEF HeirEnds
<1>6. CASE Empty BY <1>6 DEF Empty, Returns, Nothing
<1>7. CASE Unstartable BY <1>7 DEF Unstartable, Returns, Nothing
<1>8. CASE Start BY <1>8 DEF Start
<1>9. CASE WaitForEnds BY <1>9 DEF WaitForEnds
<1>10. CASE WaitForTimesOut BY <1>10 DEF WaitForTimesOut
<1>11. CASE AnswerTimeout BY <1>11 DEF AnswerTimeout, ReturnsCollected, Returns, Nothing
<1>12. CASE JoinOut BY <1>12 DEF JoinOut
<1>13. CASE JoinErr BY <1>13 DEF JoinErr, ReturnsCollected, Returns, Nothing
<1>14. CASE Timer BY <1>14 DEF Timer, Kill
<1>15. CASE Close BY <1>15 DEF Close, Returns
<1>16. CASE UNCHANGED runnerVars BY <1>16 DEF runnerVars
<1> QED
  BY <1>1, <1>2, <1>3, <1>4, <1>5, <1>6, <1>7, <1>8, <1>9, <1>10, <1>11, <1>12, <1>13,
     <1>14, <1>15, <1>16 DEF RunnerNext

LEMMA RunnerInvInit == RunnerInit => RunnerInv
  BY RunnerInitTyped
  DEF RunnerInit, RunnerInv, Course, KillNoted, FirstJoined, Complete, ZeroMeansSuccess, Nothing

LEMMA RunnerInvKept == RunnerInv /\ [RunnerNext]_runnerVars => RunnerInv'
<1> SUFFICES ASSUME RunnerInv, [RunnerNext]_runnerVars PROVE RunnerInv'
  OBVIOUS
<1>0. RunnerTypeOK /\ RunnerTypeOK'
  BY RunnerStepTyped DEF RunnerInv
<1> DEFINE Rest == Course /\ KillNoted /\ FirstJoined /\ Complete /\ ZeroMeansSuccess
<1> USE <1>0 DEF RunnerInv, RunnerTypeOK, Course, KillNoted, FirstJoined, Complete, ZeroMeansSuccess,
                 Held, Drained
<1>1. ASSUME NEW p \in Pipes, Write(p) PROVE Rest'
  BY <1>1 DEF Write, Nothing
<1>2. ASSUME NEW p \in Pipes, Collect(p) PROVE Rest'
  BY <1>2 DEF Collect
<1>3. CASE Bears BY <1>3 DEF Bears
<1>4. CASE Ends BY <1>4 DEF Ends
<1>5. CASE HeirEnds BY <1>5 DEF HeirEnds
<1>6. CASE Empty BY <1>6 DEF Empty, Returns
<1>7. CASE Unstartable BY <1>7 DEF Unstartable, Returns
<1>8. CASE Start BY <1>8 DEF Start
<1>9. CASE WaitForEnds
  BY <1>9 DEF WaitForEnds
<1>10. CASE WaitForTimesOut BY <1>10 DEF WaitForTimesOut
<1>11. CASE AnswerTimeout BY <1>11 DEF AnswerTimeout, ReturnsCollected, Returns
<1>12. CASE JoinOut BY <1>12 DEF JoinOut, Joined
<1>13. CASE JoinErr BY <1>13 DEF JoinErr, Joined, ReturnsCollected, Returns
<1>14. CASE Timer BY <1>14 DEF Timer, Kill
<1>15. CASE Close BY <1>15 DEF Close, Returns
<1>16. CASE UNCHANGED runnerVars BY <1>16 DEF runnerVars
<1> QED
  BY <1>1, <1>2, <1>3, <1>4, <1>5, <1>6, <1>7, <1>8, <1>9, <1>10, <1>11, <1>12, <1>13,
     <1>14, <1>15, <1>16 DEF RunnerNext

LEMMA RunnerInvHolds == RunnerSpec => []RunnerInv
  BY RunnerInvInit, RunnerInvKept, PTL DEF RunnerSpec

\* The variables keep their types, and no collector reads more than was written.
THEOREM RunnerTyped == RunnerSpec => []RunnerTypeOK
<1>1. RunnerInv => RunnerTypeOK BY DEF RunnerInv
<1> QED BY <1>1, RunnerInvHolds, PTL

\* The command's own exit code comes with the whole of its output, under both
\* runners, if nothing it has started held the bridge's pipes.
THEOREM OutputIsWhole == RunnerSpec => []WholeOutput
<1>1. RunnerInv => WholeOutput BY DEF RunnerInv, Complete, WholeOutput
<1> QED BY <1>1, RunnerInvHolds, PTL

\* Exit code 0 is not answered for a command that failed or ran out of time.
THEOREM ZeroIsSuccess == RunnerSpec => []ZeroMeansSuccess
<1>1. RunnerInv => ZeroMeansSuccess BY DEF RunnerInv
<1> QED BY <1>1, RunnerInvHolds, PTL
=============================================================================
