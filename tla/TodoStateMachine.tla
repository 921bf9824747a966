-------------------------- MODULE TodoStateMachine --------------------------
(***************************************************************************)
(* The phased todo list of core/tools/todo.ts: one call of execute() per   *)
(* step, each ending with enforceAutoPromotion().                          *)
(*                                                                         *)
(* A list position is a key <<phase, place>> of two naturals; the order of *)
(* the nested arrays is the lexicographic order of the keys, so removing   *)
(* an entry leaves a gap instead of renumbering its successors, and an     *)
(* item keeps its key for life as it keeps its id in the code.  Ids, texts *)
(* of reasons and the rendered summary are left out.                       *)
(***************************************************************************)
EXTENDS Integers

CONSTANTS
  Tasks,        \* task texts (two items may carry the same text)
  PhaseNames,   \* phase names (two phases may carry the same name)
  General,      \* the default phase name
  InitLists,    \* the lists a call of "init" may bring
  MaxPhases,    \* bound: phase keys are 1..MaxPhases
  MaxPlace      \* bound: places within a phase are 1..MaxPlace

Status == {"pending", "in_progress", "done", "blocked", "dropped"}
Item   == [task : Tasks, status : Status]

\* An init list: phase names and the task texts at its positions.
IsList(l) ==
  /\ DOMAIN l.phases \subseteq Nat
  /\ l.phases \in [DOMAIN l.phases -> PhaseNames]
  /\ DOMAIN l.tasks \subseteq (DOMAIN l.phases) \X Nat
  /\ l.tasks \in [DOMAIN l.tasks -> Tasks]

ASSUME GeneralIsPhase == General \in PhaseNames
ASSUME BoundsAreNat   == MaxPhases \in Nat /\ MaxPlace \in Nat
ASSUME ListsAreLists  == \A l \in InitLists : IsList(l)

\* What a call names: a task text, a phase name, or neither.
Nothing == [by |-> "none", name |-> General]
Target  == [by : {"task"}, name : Tasks]
             \cup [by : {"phase"}, name : PhaseNames] \cup {Nothing}

VARIABLES
  phases,   \* phase key -> phase name
  items,    \* <<phase key, place>> -> item
  call      \* the last call: its op and its target (read by the properties)

vars == <<phases, items, call>>

-----------------------------------------------------------------------------
Before(k, l)        == k[1] < l[1] \/ (k[1] = l[1] /\ k[2] < l[2])
\* The earliest of a set of positions, as a singleton; {} for the empty set.
Earliest(S)         == {k \in S : \A l \in S \ {k} : Before(k, l)}
Having(it, st)      == {k \in DOMAIN it : it[k].status = st}
Mark(it, S, st)     == [k \in DOMAIN it |->
                          IF k \in S THEN [it[k] EXCEPT !.status = st] ELSE it[k]]
Keep(f, S)          == [x \in S |-> f[x]]

\* Both lookups stop at the first match.
FindItem(text)      == Earliest({k \in DOMAIN items : items[k].task = text})
FindPhase(name)     == {p \in DOMAIN phases :
                          /\ phases[p] = name
                          /\ \A q \in DOMAIN phases : phases[q] = name => p <= q}
InPhases(P)         == {k \in DOMAIN items : k[1] \in P}
Selected(target)    ==
  CASE target.by = "task"  -> FindItem(target.name)
    [] target.by = "phase" -> InPhases(FindPhase(target.name))
    [] target.by = "none"  -> {}

\* Statuses a call that names a whole phase passes over; naming one task
\* passes over none.
Spared(target, sts) ==
  IF target.by = "phase" THEN UNION {Having(items, st) : st \in sts} ELSE {}

\* Mutant: the active tasks are demoted to one, and nothing is promoted.
EnforceDemotesOnly(it) ==
  LET active == Having(it, "in_progress") IN Mark(it, active \ Earliest(active), "pending")

EnforceAutoPromotion(it) ==
  LET active == Having(it, "in_progress") IN
  IF active = {}
  THEN Mark(it, Earliest(Having(it, "pending")), "in_progress")
  ELSE Mark(it, active \ Earliest(active), "pending")

\* The common end of execute().
Finish(it, op, target) ==
  /\ items' = EnforceAutoPromotion(it)
  /\ call' = [op |-> op, target |-> target]

-----------------------------------------------------------------------------
InitList(l) ==
  /\ phases' = l.phases
  /\ Finish([k \in DOMAIN l.tasks |-> [task |-> l.tasks[k], status |-> "pending"]],
            "init", Nothing)

Start(text) ==
  LET found   == FindItem(text)
      demoted == Mark(items, Having(items, "in_progress"), "pending")
  IN  /\ Finish(IF found = {} THEN items ELSE Mark(demoted, found, "in_progress"),
                "start", [by |-> "task", name |-> text])
      /\ UNCHANGED phases

Done(target) ==
  /\ Finish(Mark(items, Selected(target) \ Spared(target, {"dropped"}), "done"),
            "done", target)
  /\ UNCHANGED phases

Drop(target) ==
  /\ Finish(Mark(items, Selected(target), "dropped"), "drop", target)
  /\ UNCHANGED phases

Block(target) ==
  /\ Finish(Mark(items, Selected(target) \ Spared(target, {"done", "dropped"}), "blocked"),
            "block", target)
  /\ UNCHANGED phases

\* Mutant: an unblocked task resumes at once.
UnblockResumes(target) ==
  /\ Finish(Mark(items, Selected(target) \cap Having(items, "blocked"), "in_progress"),
            "unblock", target)
  /\ UNCHANGED phases

Unblock(target) ==
  /\ Finish(Mark(items, Selected(target) \cap Having(items, "blocked"), "pending"),
            "unblock", target)
  /\ UNCHANGED phases

\* top is the last of the naturals S in use, 0 when none is.
IsTop(top, S) == (top = 0 \/ top \in S) /\ \A n \in S : n <= top

\* append finds the phase, or pushes a new last one, and pushes its items.
AppendItems(name, texts) ==
  \E last \in 0..MaxPhases, top \in 0..MaxPlace :
    LET p     == IF FindPhase(name) = {} THEN last + 1
                 ELSE CHOOSE q \in FindPhase(name) : TRUE
        added == {p} \X {top + i : i \in DOMAIN texts}
    IN  /\ IsTop(last, DOMAIN phases)
        /\ IsTop(top, {k[2] : k \in InPhases({p})})
        /\ p <= MaxPhases /\ \A i \in DOMAIN texts : top + i <= MaxPlace
        /\ phases' = [q \in DOMAIN phases \cup {p} |-> IF q = p THEN name ELSE phases[q]]
        /\ Finish([k \in DOMAIN items \cup added |->
                     IF k \in added
                     THEN [task |-> texts[k[2] - top], status |-> "pending"]
                     ELSE items[k]],
                  "append", [by |-> "phase", name |-> name])

\* Every item with the text goes; every phase with the name; or all phases.
Remove(target) ==
  LET gone == CASE target.by = "task"  -> {}
                [] target.by = "phase" -> {p \in DOMAIN phases : phases[p] = target.name}
                [] target.by = "none"  -> DOMAIN phases
  IN  /\ phases' = Keep(phases, DOMAIN phases \ gone)
      /\ Finish(Keep(items, {k \in DOMAIN items :
                               /\ k[1] \notin gone
                               /\ ~(target.by = "task" /\ items[k].task = target.name)}),
                "rm", target)

View == Finish(items, "view", Nothing) /\ UNCHANGED phases

-----------------------------------------------------------------------------
\* new TodoStateMachine(), as MobileAgentLoop makes it: an empty list.
Init ==
  /\ phases = [p \in {} |-> General]
  /\ items = [k \in {} |-> General]
  /\ call = [op |-> "view", target |-> Nothing]

Next ==
  \/ \E l \in InitLists : InitList(l)
  \/ \E t \in Tasks : Start(t)
  \/ \E target \in Target : Done(target)
  \/ \E target \in Target : Drop(target)
  \/ \E target \in Target : Block(target)
  \/ \E target \in Target : Unblock(target)
  \/ \E n \in PhaseNames, m \in 0..MaxPlace : \E texts \in [1..m -> Tasks] : AppendItems(n, texts)
  \/ \E target \in Target : Remove(target)
  \/ View

Spec == Init /\ [][Next]_vars

-----------------------------------------------------------------------------
Ops == {"init", "start", "done", "drop", "block", "unblock", "append", "rm", "view"}

\* The lists are well formed: every item lies in a phase of the list.
TypeOK ==
  /\ DOMAIN phases \subseteq Nat
  /\ phases \in [DOMAIN phases -> PhaseNames]
  /\ DOMAIN items \subseteq (DOMAIN phases) \X Nat
  /\ items \in [DOMAIN items -> Item]
  /\ call \in [op : Ops, target : Target]

AtMostOneActive(it) == \A k, l \in Having(it, "in_progress") : k = l
NotIdle(it)         == Having(it, "in_progress") = {} => Having(it, "pending") = {}

\* todo.ts:6-7 - never two tasks in progress, and pending work exists only behind
\* an active task, whatever the calls before: demotion, promotion and the ops that
\* write statuses must agree about it.
OneActive == AtMostOneActive(items) /\ NotIdle(items)

\* todo.ts:8 - a blocked task becomes anything else only through a call that
\* selects it: no promotion, no demotion and no other task's call moves it.
UnblockedByName ==
  \A k \in DOMAIN items \cap DOMAIN items' :
    (call'.op # "init" /\ items[k].status = "blocked" /\ items'[k].status # "blocked")
    => call'.op \in {"start", "done", "drop", "unblock"} /\ k \in Selected(call'.target)
BlockedIsImmune == [][UnblockedByName]_vars

\* The task in progress is set back to pending only by starting another one:
\* unblocking or appending earlier work never preempts it.
KeepsActive ==
  \A k \in DOMAIN items \cap DOMAIN items' :
    (items[k].status = "in_progress" /\ items'[k].status = "pending")
    => call'.op \in {"start", "init"}
PreemptedOnlyByStart == [][KeepsActive]_vars

\* A task that becomes active without being started is the earliest of all
\* that are left to do.
PromotedInOrder ==
  \A k \in Having(items', "in_progress") :
    (call'.op # "start" /\ k \notin Having(items, "in_progress"))
    => \A l \in Having(items', "pending") : Before(k, l)
PromotesEarliest == [][PromotedInOrder]_vars

=============================================================================
