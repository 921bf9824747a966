------------------------- MODULE LocalSessionStore -------------------------
(***************************************************************************)
(* The key-value store of core/session/storage.ts as its clients see it:   *)
(* one record per session and the key that names the active one.           *)
(*                                                                         *)
(* Every method is asynchronous; a backend call takes effect when it is    *)
(* made and its caller goes on later, so a method with two backend calls   *)
(* is two steps, between which other handlers may run or the process die.  *)
(* A write may be refused (the quota of localStorage): the method rejects. *)
(***************************************************************************)
EXTENDS Integers

CONSTANTS
  NoSession,      \* the absent value of a key
  StorageFails,   \* TRUE: a write may be refused
  Prefs,          \* values of the model and thinking-level settings
  DefaultPrefs,
  Todos,          \* values of todoPhases
  NoTodos

ASSUME StorageFailsIsBool == StorageFails \in BOOLEAN
ASSUME DefaultsAreValues  == DefaultPrefs \in Prefs /\ NoTodos \in Todos
ASSUME NoSessionIsNone    == NoSession \notin Nat

VARIABLES
  rec,      \* session id -> its stored record
  active    \* omp_active_session_id, or NoSession

storeVars == <<rec, active>>

\* What a record keeps of a session: its state and its conversation.
Stored(st, ms) == [prefs |-> st.prefs, todos |-> st.todos,
                   streaming |-> st.streaming, messages |-> ms]

\* The state a record gives back, the streaming flag included.
Restored(s) == [sid |-> s, prefs |-> rec[s].prefs, todos |-> rec[s].todos,
                streaming |-> rec[s].streaming]

\* The state the constructors make.
Fresh(s) == [sid |-> s, prefs |-> DefaultPrefs, todos |-> NoTodos, streaming |-> FALSE]

StoreInit ==
  /\ rec = [s \in {} |-> NoSession]
  /\ active = NoSession

\* The outcomes a write can have.
WriteOutcomes == IF StorageFails THEN BOOLEAN ELSE {TRUE}

\* saveSession, first segment: the record is written under the id the state
\* has now.
WriteRecord(s, r, ok) ==
  /\ rec' = IF ok THEN [x \in DOMAIN rec \cup {s} |-> IF x = s THEN r ELSE rec[x]] ELSE rec
  /\ UNCHANGED active

\* saveSession, second segment: the active key gets the id the state has by then.
WriteActive(s, ok) ==
  /\ active' = IF ok THEN s ELSE active
  /\ UNCHANGED rec
=============================================================================
