----------------------------- MODULE MCHashline -----------------------------
(***************************************************************************)
(* All patches of up to two chunks, and of three with one body row each,   *)
(* over line numbers 0..MaxLine, for documents of up to MaxSize lines:     *)
(* overlapping and backward ranges and lines past the end included.        *)
(***************************************************************************)
EXTENDS HashlinePatch

CONSTANTS MaxSize, MaxLine, Rows, ChunksOfThree

ChunksWith(rows) ==
  [op : {"PUT_RANGE"}, start : 0..MaxLine, end : 0..MaxLine, rows : rows]
  \cup [op : {"CUT"}, start : 0..MaxLine, end : 0..MaxLine, rows : {0}]
  \cup {[op |-> o, start |-> n, end |-> n, rows |-> r] :
          o \in {"PUT_BEFORE", "PUT_AFTER"}, n \in 0..MaxLine, r \in rows}

MCDocuments == 1..MaxSize
MCPatches ==
  UNION {[1..n -> ChunksWith(Rows)] : n \in 0..2}
  \cup IF ChunksOfThree THEN [1..3 -> ChunksWith({1})] ELSE {}
=============================================================================
