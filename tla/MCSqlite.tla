------------------------------ MODULE MCSqlite ------------------------------
(***************************************************************************)
(* Every content of localStorage over a small set of sessions.             *)
(***************************************************************************)
EXTENDS SqliteSessionStore

MCRecords == UNION {[S -> 0..MaxMessages] : S \in SUBSET Sessions}
=============================================================================
