--------------------------- MODULE HashlinePatch ---------------------------
(***************************************************************************)
(* applyHashlinePatch (core/hashline/index.ts): a parsed patch, a sequence *)
(* of chunks, is applied to a document one chunk per step.                 *)
(*                                                                         *)
(* Lines are known by where they come from: <<0, k>> is line k of the      *)
(* original, <<c, i>> the i-th body row of chunk c of the patch.           *)
(***************************************************************************)
EXTENDS Integers, Sequences

CONSTANTS
  Documents,    \* numbers of lines a document may have
  Patches       \* sequences of chunks

Ops    == {"PUT_RANGE", "PUT_BEFORE", "PUT_AFTER", "CUT"}
Chunk  == [op : Ops, start : Nat, end : Nat, rows : Nat]

ASSUME DocumentsAreNats == Documents \subseteq Nat \ {0}
ASSUME PatchesAreChunks == Patches \subseteq Seq(Chunk)

VARIABLES
  size,      \* lines of the original
  patch,     \* the chunks, in the order of the patch text
  doc,       \* docLines
  pending,   \* the chunks still to be applied
  status     \* "running", or how the call has returned

patchVars == <<size, patch, doc, pending, status>>

Old(k)      == <<0, k>>
Body(c)     == [i \in 1..patch[c].rows |-> <<c, i>>]
Original(n) == [k \in 1..n |-> Old(k)]

AtMost(a, b)  == IF a < b THEN a ELSE b
AtLeast(a, b) == IF a > b THEN a ELSE b

\* Array.prototype.splice(at, count, ...new): at and count are clamped.
Splice(s, at, count, new) ==
  LET from == AtMost(at, Len(s))
      upto == AtMost(from + AtLeast(count, 0), Len(s))
  IN  SubSeq(s, 1, from) \o new \o SubSeq(s, upto + 1, Len(s))

-----------------------------------------------------------------------------
\* Mutant: the chunks are taken from the top.
TurnFromTop(c) ==
  /\ status = "running"
  /\ c \in pending
  /\ \A d \in pending \ {c} :
       \/ patch[c].start < patch[d].start
       \/ patch[d].start = patch[c].start /\ c < d

\* The sort: by start line, the last first; it is stable.
Turn(c) ==
  /\ status = "running"
  /\ c \in pending
  /\ \A d \in pending \ {c} :
       \/ patch[d].start < patch[c].start
       \/ patch[d].start = patch[c].start /\ c < d

ValidStart(c) == patch[c].start >= 1 /\ patch[c].start <= Len(doc) + 1
Zero(c)       == patch[c].start - 1
DeleteCount(c) == patch[c].end - patch[c].start + 1

ValidRange(c) == DeleteCount(c) >= 0 /\ Zero(c) + DeleteCount(c) <= Len(doc)

Apply(c, at, count, new) ==
  /\ doc' = Splice(doc, at, count, new)
  /\ pending' = pending \ {c}
  /\ UNCHANGED <<size, patch, status>>

\* An error: the original content is returned, whatever was applied before.
Reject ==
  /\ status' = "failed"
  /\ UNCHANGED <<size, patch, doc, pending>>

BadStart(c) == Turn(c) /\ ~ValidStart(c) /\ Reject

PutRange(c) ==
  /\ Turn(c) /\ patch[c].op = "PUT_RANGE" /\ ValidStart(c)
  /\ IF ValidRange(c) THEN Apply(c, Zero(c), DeleteCount(c), Body(c)) ELSE Reject

PutBefore(c) ==
  /\ Turn(c) /\ patch[c].op = "PUT_BEFORE" /\ ValidStart(c)
  /\ Apply(c, Zero(c), 0, Body(c))

\* Mutant: the body is put before the line.
PutAfterBefore(c) ==
  /\ Turn(c) /\ patch[c].op = "PUT_AFTER" /\ ValidStart(c)
  /\ Apply(c, Zero(c), 0, Body(c))

PutAfter(c) ==
  /\ Turn(c) /\ patch[c].op = "PUT_AFTER" /\ ValidStart(c)
  /\ Apply(c, Zero(c) + 1, 0, Body(c))

\* The range of a CUT is not checked; it puts nothing, whatever rows it has.
Cut(c) ==
  /\ Turn(c) /\ patch[c].op = "CUT" /\ ValidStart(c)
  /\ Apply(c, Zero(c), DeleteCount(c), <<>>)

Return ==
  /\ status = "running" /\ pending = {}
  /\ status' = "ok"
  /\ UNCHANGED <<size, patch, doc, pending>>

PatchInit ==
  /\ size \in Documents
  /\ patch \in Patches
  /\ doc = Original(size)
  /\ pending = DOMAIN patch
  /\ status = "running"

PatchNext ==
  \/ \E c \in pending : BadStart(c)
  \/ \E c \in pending : PutRange(c)
  \/ \E c \in pending : PutBefore(c)
  \/ \E c \in pending : PutAfter(c)
  \/ \E c \in pending : Cut(c)
  \/ Return

PatchSpec == PatchInit /\ [][PatchNext]_patchVars

-----------------------------------------------------------------------------
(***************************************************************************)
(* What a patch means, from the line numbers of the original alone.        *)
(***************************************************************************)
Deletes(c)  == patch[c].op \in {"PUT_RANGE", "CUT"}
Gone(c)     == IF Deletes(c) THEN patch[c].start..patch[c].end ELSE {}

\* Lines in the order in which the result has to show them: the rows put
\* before a line, those in place of it (or itself), those put after it.
Rank(l) ==
  CASE l[1] = 0 -> <<l[2], 1, 0>>
    [] l[1] # 0 /\ patch[l[1]].op = "PUT_BEFORE" -> <<patch[l[1]].start, 0, l[2]>>
    [] l[1] # 0 /\ patch[l[1]].op = "PUT_AFTER"  -> <<patch[l[1]].start, 2, l[2]>>
    [] OTHER -> <<patch[l[1]].start, 1, l[2]>>

Below(a, b) ==
  \/ a[1] < b[1]
  \/ a[1] = b[1] /\ a[2] < b[2]
  \/ a[1] = b[1] /\ a[2] = b[2] /\ a[3] < b[3]

Kept == {Old(k) : k \in {j \in 1..size : \A c \in DOMAIN patch : j \notin Gone(c)}}
Put  == UNION {{<<c, i>> : i \in 1..(IF patch[c].op = "CUT" THEN 0 ELSE patch[c].rows)} :
                c \in DOMAIN patch}

MeansWhatItSays ==
  /\ {doc[i] : i \in DOMAIN doc} = Kept \cup Put
  /\ \A i, j \in DOMAIN doc : i < j => Below(Rank(doc[i]), Rank(doc[j]))

\* The chunks lie in the document and do not touch each other's lines.
InDocument(c) ==
  /\ patch[c].start \in 1..size
  /\ Deletes(c) => patch[c].start <= patch[c].end /\ patch[c].end <= size
Apart(c, d) ==
  /\ Gone(c) \cap Gone(d) = {}
  /\ ~Deletes(d) =>
       /\ ~Deletes(c) => patch[c].op # patch[d].op \/ patch[c].start # patch[d].start
       /\ patch[d].op = "PUT_BEFORE" => patch[d].start \notin Gone(c) \ {patch[c].start}
       /\ patch[d].op = "PUT_AFTER"  => patch[d].start \notin Gone(c) \ {patch[c].end}
WellFormed ==
  /\ \A c \in DOMAIN patch : InDocument(c)
  /\ \A c, d \in DOMAIN patch : c # d => Apart(c, d)

\* Chunks of one start line come bottom up: after it, in its place, before it.
Level(c) ==
  CASE patch[c].op = "PUT_AFTER" -> 2 [] patch[c].op = "PUT_BEFORE" -> 0 [] OTHER -> 1
BottomUp ==
  \A c, d \in DOMAIN patch :
    (c < d /\ patch[c].start = patch[d].start) => Level(c) > Level(d)

-----------------------------------------------------------------------------
\* Every line of the document is one of the original or of a chunk applied.
PatchTypeOK ==
  /\ size \in Nat \ {0}
  /\ patch \in Seq(Chunk)
  /\ doc \in Seq(Nat \X Nat)
  /\ \A i \in DOMAIN doc : doc[i][1] \in (DOMAIN patch \ pending) \cup {0}
  /\ pending \subseteq DOMAIN patch
  /\ status \in {"running", "ok", "failed"}

\* index.ts:131 - whatever the patch (overlapping, out of range, backward),
\* what was applied has left every line above the chunks to come where it was.
EarlierLinesInPlace ==
  status = "running" =>
    \A c \in pending : \A k \in 1..size :
      k < patch[c].start => k <= Len(doc) /\ doc[k] = Old(k)

\* A patch whose chunks do not touch each other, listed bottom up where they
\* share a line, does exactly what its headers say, and is not refused.
AppliesAsWritten ==
  (WellFormed /\ BottomUp) =>
    /\ status # "failed"
    /\ status = "ok" => MeansWhatItSays

=============================================================================
