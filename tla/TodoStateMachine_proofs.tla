---------------------- MODULE TodoStateMachine_proofs ----------------------
(***************************************************************************)
(* What holds of every todo list, for any tasks, phases and bounds: the    *)
(* promotion restores its two invariants from any list of items, and the   *)
(* action properties follow from them.                                     *)
(***************************************************************************)
EXTENDS TodoStateMachine, FiniteSetTheorems, TLAPS

\* A nonempty set of natural numbers has a least element.  (The first-match
\* searches of todo.ts:204-211 and 241-246 rest on it.)
LEMMA LeastNatural ==
  ASSUME NEW T \in SUBSET Nat, T # {}
  PROVE  \E m \in T : \A n \in T : m <= n
<1> DEFINE Upto(n) == 0..n
           U == {Upto(n) : n \in T}
           R == StrictSubsetOrdering(Nat)
           F == FiniteSubsetsOf(Nat)
<1>1. U \subseteq F
  <2>1. ASSUME NEW n \in T PROVE Upto(n) \in F
    <3>1. IsFiniteSet(0..n) BY FS_Interval
    <3>2. 0..n \subseteq Nat OBVIOUS
    <3> QED BY <3>1, <3>2 DEF FiniteSubsetsOf
  <2> QED BY <2>1
<1>2. IsWellFoundedOn(R, F) BY FS_StrictSubsetOrderingWellFounded
<1>3. U # {} OBVIOUS
<1> HIDE DEF U, R, F
<1>4. \E x \in U : \A y \in U : ~(<<y, x>> \in R) BY <1>1, <1>2, <1>3, WFMin
<1>5. PICK m \in T : \A y \in U : ~(<<y, Upto(m)>> \in R) BY <1>4 DEF U
<1>6. ASSUME NEW n \in T, n < m PROVE FALSE
  <2>1. Upto(n) \in U BY DEF U
  <2>2. Upto(n) \subseteq Upto(m) BY <1>6
  <2>3. m \in Upto(m) /\ m \notin Upto(n) BY <1>6
  <2>4. Upto(n) # Upto(m) BY <2>3
  <2>5. Upto(n) \in SUBSET Nat /\ Upto(m) \in SUBSET Nat OBVIOUS
  <2> HIDE DEF Upto
  <2>6. <<Upto(n), Upto(m)>> \in R BY <2>2, <2>4, <2>5 DEF R, StrictSubsetOrdering
  <2> QED BY <2>1, <2>6, <1>5
<1> QED BY <1>6, <1>5

\* Every nonempty set of positions has an earliest one, and only one: the
\* scans of todo.ts:223-249 find it.
LEMMA EarliestExists ==
  ASSUME NEW S \in SUBSET (Nat \X Nat), S # {}
  PROVE  \E k \in S : Earliest(S) = {k}
<1>1. PICK m \in {k[1] : k \in S} : \A n \in {k[1] : k \in S} : m <= n
  <2>1. {k[1] : k \in S} # {} OBVIOUS
  <2>2. {k[1] : k \in S} \in SUBSET Nat OBVIOUS
  <2> QED BY <2>1, <2>2, LeastNatural
<1>2. PICK n \in {k[2] : k \in {l \in S : l[1] = m}} :
         \A j \in {k[2] : k \in {l \in S : l[1] = m}} : n <= j
  <2>1. {k[2] : k \in {l \in S : l[1] = m}} # {} BY <1>1
  <2>2. {k[2] : k \in {l \in S : l[1] = m}} \in SUBSET Nat OBVIOUS
  <2> QED BY <2>1, <2>2, LeastNatural
<1>3. PICK k \in S : k[1] = m /\ k[2] = n BY <1>2
<1>4. \A l \in S \ {k} : Before(k, l) /\ ~Before(l, k)
  <2> TAKE l \in S \ {k}
  <2>1. m <= l[1] /\ (l[1] = m => n <= l[2]) BY <1>1, <1>2
  <2>2. l[1] # k[1] \/ l[2] # k[2] OBVIOUS
  <2>3. k[1] \in Nat /\ k[2] \in Nat /\ l[1] \in Nat /\ l[2] \in Nat OBVIOUS
  <2> QED BY <2>1, <2>2, <2>3, <1>3 DEF Before
<1> QED BY <1>3, <1>4 DEF Earliest

\* Lists of items at positions.
IsBoard(it) ==
  /\ DOMAIN it \subseteq Nat \X Nat
  /\ it \in [DOMAIN it -> Item]

\* Setting the status of some items keeps the list's shape.
LEMMA MarkKeepsBoard ==
  ASSUME NEW it, IsBoard(it), NEW S, NEW st \in Status
  PROVE  /\ IsBoard(Mark(it, S, st))
         /\ DOMAIN Mark(it, S, st) = DOMAIN it
         /\ \A k \in DOMAIN it :
              Mark(it, S, st)[k].status = IF k \in S THEN st ELSE it[k].status
BY DEF IsBoard, Mark, Item

\* enforceAutoPromotion, by cases: what becomes of each status.
LEMMA EnforceEffect ==
  ASSUME NEW it, IsBoard(it), NEW e, e = EnforceAutoPromotion(it)
  PROVE  /\ IsBoard(e)
         /\ DOMAIN e = DOMAIN it
         /\ AtMostOneActive(e)
         /\ NotIdle(e)
         /\ \A k \in DOMAIN it :
              it[k].status \notin {"pending", "in_progress"} => e[k].status = it[k].status
         /\ AtMostOneActive(it) =>
              \A k \in DOMAIN it : it[k].status = "in_progress" => e[k].status = "in_progress"
         /\ (AtMostOneActive(it) /\ NotIdle(it)) => e = it
         /\ \A k, l \in DOMAIN it :
              (/\ e[k].status = "in_progress" /\ it[k].status # "in_progress"
               /\ e[l].status = "pending") => Before(k, l)
<1> DEFINE active == Having(it, "in_progress")
           waiting == Having(it, "pending")
<1>0. active \subseteq DOMAIN it /\ waiting \subseteq DOMAIN it BY DEF Having
<1>1. CASE active = {} /\ waiting = {}
  <2>1. Earliest(waiting) = {} BY <1>1 DEF Earliest
  <2>2. e = it BY <1>1, <2>1 DEF EnforceAutoPromotion, Mark, IsBoard
  <2> QED BY <2>2, <1>1 DEF AtMostOneActive, NotIdle, Having
<1>2. CASE active = {} /\ waiting # {}
  <2>1. PICK f \in waiting : Earliest(waiting) = {f}
    BY <1>0, <1>2, EarliestExists DEF IsBoard
  <2>2. e = Mark(it, {f}, "in_progress") BY <1>2, <2>1 DEF EnforceAutoPromotion
  <2>3. /\ IsBoard(e)
        /\ DOMAIN e = DOMAIN it
        /\ \A k \in DOMAIN it :
             e[k].status = IF k \in {f} THEN "in_progress" ELSE it[k].status
    BY <2>2, MarkKeepsBoard DEF Status
  <2>4. Having(e, "in_progress") = {f} BY <2>3, <1>2, <1>0 DEF Having
  <2>5. \A l \in DOMAIN it : e[l].status = "pending" => Before(f, l)
    BY <2>1, <2>3 DEF Earliest, Having
  <2>6. it[f].status = "pending" /\ f \in DOMAIN it
    BY <2>1 DEF Having
  <2>7. \A k \in DOMAIN it : it[k].status # "in_progress" BY <1>2 DEF Having
  <2>8. AtMostOneActive(e) /\ NotIdle(e) BY <2>4 DEF AtMostOneActive, NotIdle
  <2>9. ~NotIdle(it) BY <1>2 DEF NotIdle
  <2>10. \A k \in DOMAIN it :
           it[k].status \notin {"pending", "in_progress"} => e[k].status = it[k].status
    BY <2>3, <2>6
  <2>11. \A k, l \in DOMAIN it :
           (/\ e[k].status = "in_progress" /\ it[k].status # "in_progress"
            /\ e[l].status = "pending") => Before(k, l)
    BY <2>3, <2>5
  <2> HIDE DEF active, waiting
  <2> QED BY <2>3, <2>7, <2>8, <2>9, <2>10, <2>11
<1>3. CASE active # {}
  <2>1. PICK f \in active : Earliest(active) = {f}
    BY <1>0, <1>3, EarliestExists DEF IsBoard
  <2>2. e = Mark(it, active \ {f}, "pending") BY <1>3, <2>1 DEF EnforceAutoPromotion
  <2>3. /\ IsBoard(e)
        /\ DOMAIN e = DOMAIN it
        /\ \A k \in DOMAIN it :
             e[k].status = IF k \in active \ {f} THEN "pending" ELSE it[k].status
    BY <2>2, MarkKeepsBoard DEF Status
  <2>4. Having(e, "in_progress") = {f} BY <2>3, <2>1 DEF Having
  <2>5. AtMostOneActive(it) => active \ {f} = {} BY DEF AtMostOneActive
  <2>6. AtMostOneActive(it) => e = it
    BY <2>2, <2>5 DEF Mark, IsBoard
  <2>7. AtMostOneActive(e) /\ NotIdle(e) BY <2>4 DEF AtMostOneActive, NotIdle
  <2>8. \A k \in DOMAIN it :
          /\ it[k].status # "in_progress" => e[k].status = it[k].status
          /\ e[k].status = "in_progress" => it[k].status = "in_progress"
    BY <2>3 DEF Having
  <2> HIDE DEF active, waiting
  <2> QED BY <2>3, <2>6, <2>7, <2>8
<1> QED BY <1>1, <1>2, <1>3

-----------------------------------------------------------------------------
(***************************************************************************)
(* Before the promotion, a call turns the items into some list X.          *)
(***************************************************************************)
ActivatesNone(X) ==
  \A k \in DOMAIN X : X[k].status = "in_progress"
                      => k \in DOMAIN items /\ items[k].status = "in_progress"
DemotesNone(X) ==
  \A k \in DOMAIN X \cap DOMAIN items :
    items[k].status = "in_progress" => X[k].status # "pending"
UnblocksSelected(X, c) ==
  \A k \in DOMAIN X \cap DOMAIN items :
    (items[k].status = "blocked" /\ X[k].status # "blocked")
    => c.op \in {"start", "done", "drop", "unblock"} /\ k \in Selected(c.target)

WellPlaced(X, ph) ==
  /\ DOMAIN ph \subseteq Nat
  /\ ph \in [DOMAIN ph -> PhaseNames]
  /\ DOMAIN X \subseteq (DOMAIN ph) \X Nat
  /\ X \in [DOMAIN X -> Item]

Reaches(X, ph, c) ==
  /\ WellPlaced(X, ph)
  /\ c \in [op : Ops, target : Target]
  /\ c.op # "start" => ActivatesNone(X)
  /\ c.op \notin {"start", "init"} => DemotesNone(X)
  /\ c.op # "init" => UnblocksSelected(X, c)
  /\ c.op = "view" => X = items /\ ph = phases

LEMMA PlacedIsBoard ==
  ASSUME NEW X, NEW ph, WellPlaced(X, ph)
  PROVE  IsBoard(X)
BY DEF WellPlaced, IsBoard

\* Marking items of the current list, without activating or demoting.
LEMMA MarkReaches ==
  ASSUME TypeOK, NEW S, NEW st \in {"done", "dropped", "blocked", "pending"},
         NEW c \in [op : {"done", "drop", "block", "unblock"}, target : Target],
         st = "pending" => S \subseteq Having(items, "blocked"),
         c.op = "block" => st = "blocked",
         S \subseteq Selected(c.target)
  PROVE  Reaches(Mark(items, S, st), phases, c)
<1> DEFINE X == Mark(items, S, st)
<1>1. IsBoard(items) BY DEF TypeOK, IsBoard
<1>2. /\ IsBoard(X) /\ DOMAIN X = DOMAIN items
      /\ \A k \in DOMAIN items : X[k].status = IF k \in S THEN st ELSE items[k].status
  BY <1>1, MarkKeepsBoard DEF Status
<1> HIDE DEF X
<1>3. WellPlaced(X, phases) BY <1>2 DEF TypeOK, WellPlaced, IsBoard
<1>4. ActivatesNone(X) BY <1>2 DEF ActivatesNone
<1>5. DemotesNone(X) BY <1>2 DEF DemotesNone, Having
<1>6. UnblocksSelected(X, c) BY <1>2 DEF UnblocksSelected
<1> QED BY <1>3, <1>4, <1>5, <1>6 DEF Reaches, Ops, X

\* Every call of execute() is such a list followed by the promotion.
LEMMA StepShape ==
  ASSUME TypeOK, Next
  PROVE  \E X : Reaches(X, phases', call') /\ items' = EnforceAutoPromotion(X)
<1>0. IsBoard(items) BY DEF TypeOK, IsBoard
<1>1. ASSUME NEW l \in InitLists, InitList(l)
      PROVE  \E X : Reaches(X, phases', call') /\ items' = EnforceAutoPromotion(X)
  <2> DEFINE X == [k \in DOMAIN l.tasks |-> [task |-> l.tasks[k], status |-> "pending"]]
  <2>1. IsList(l) BY ListsAreLists
  <2>2. WellPlaced(X, l.phases)
    BY <2>1 DEF IsList, WellPlaced, Item, Status
  <2>3. call' = [op |-> "init", target |-> Nothing] /\ phases' = l.phases
        /\ items' = EnforceAutoPromotion(X)
    BY <1>1 DEF InitList, Finish
  <2>4. ActivatesNone(X) BY DEF ActivatesNone
  <2> HIDE DEF X
  <2> QED BY <2>2, <2>3, <2>4 DEF Reaches, Ops, Target
<1>2. ASSUME NEW t \in Tasks, Start(t)
      PROVE  \E X : Reaches(X, phases', call') /\ items' = EnforceAutoPromotion(X)
  <2> DEFINE found   == FindItem(t)
             demoted == Mark(items, Having(items, "in_progress"), "pending")
             X == IF found = {} THEN items ELSE Mark(demoted, found, "in_progress")
             c == [op |-> "start", target |-> [by |-> "task", name |-> t]]
  <2>1. /\ IsBoard(demoted) /\ DOMAIN demoted = DOMAIN items
        /\ \A k \in DOMAIN items :
             demoted[k].status = IF k \in Having(items, "in_progress") THEN "pending" ELSE items[k].status
    BY <1>0, MarkKeepsBoard DEF Status
  <2>2. IsBoard(Mark(demoted, found, "in_progress"))
        /\ DOMAIN Mark(demoted, found, "in_progress") = DOMAIN items
        /\ \A k \in DOMAIN items :
             Mark(demoted, found, "in_progress")[k].status
               = IF k \in found THEN "in_progress" ELSE demoted[k].status
    <3> HIDE DEF demoted, found
    <3> QED BY <2>1, MarkKeepsBoard DEF Status
  <2>3. phases' = phases /\ call' = c /\ items' = EnforceAutoPromotion(X)
    BY <1>2 DEF Start, Finish
  <2>4. found = Selected(c.target) BY DEF Selected
  <2>5. WellPlaced(X, phases)
    <3>1. IsBoard(X) /\ DOMAIN X = DOMAIN items
      <4> HIDE DEF found, demoted
      <4> QED BY <1>0, <2>2
    <3> HIDE DEF X
    <3> QED BY <3>1 DEF WellPlaced, IsBoard, TypeOK
  <2>6. UnblocksSelected(X, c)
    <3>1. CASE found = {} BY <3>1 DEF UnblocksSelected
    <3>2. CASE found # {}
      <4> HIDE DEF found, demoted
      <4>1. X = Mark(demoted, found, "in_progress") BY <3>2
      <4> HIDE DEF X
      <4> QED BY <4>1, <2>1, <2>2, <2>4 DEF UnblocksSelected, Having
    <3> QED BY <3>1, <3>2
  <2>7. c \in [op : Ops, target : Target] BY DEF Ops, Target
  <2>8. c.op = "start" OBVIOUS
  <2> HIDE DEF X, c, found
  <2> QED BY <2>3, <2>5, <2>6, <2>7, <2>8 DEF Reaches
<1>3. ASSUME NEW target \in Target, Done(target)
      PROVE  \E X : Reaches(X, phases', call') /\ items' = EnforceAutoPromotion(X)
  <2> DEFINE S == Selected(target) \ Spared(target, {"dropped"})
  <2>1. Reaches(Mark(items, S, "done"), phases, [op |-> "done", target |-> target])
    BY MarkReaches
  <2> QED BY <1>3, <2>1 DEF Done, Finish
<1>4. ASSUME NEW target \in Target, Drop(target)
      PROVE  \E X : Reaches(X, phases', call') /\ items' = EnforceAutoPromotion(X)
  <2>1. Reaches(Mark(items, Selected(target), "dropped"), phases,
                [op |-> "drop", target |-> target])
    BY MarkReaches
  <2> QED BY <1>4, <2>1 DEF Drop, Finish
<1>5. ASSUME NEW target \in Target, Block(target)
      PROVE  \E X : Reaches(X, phases', call') /\ items' = EnforceAutoPromotion(X)
  <2> DEFINE S == Selected(target) \ Spared(target, {"done", "dropped"})
  <2>1. Reaches(Mark(items, S, "blocked"), phases, [op |-> "block", target |-> target])
    BY MarkReaches
  <2> QED BY <1>5, <2>1 DEF Block, Finish
<1>6. ASSUME NEW target \in Target, Unblock(target)
      PROVE  \E X : Reaches(X, phases', call') /\ items' = EnforceAutoPromotion(X)
  <2> DEFINE S == Selected(target) \cap Having(items, "blocked")
  <2>1. Reaches(Mark(items, S, "pending"), phases, [op |-> "unblock", target |-> target])
    BY MarkReaches
  <2> QED BY <1>6, <2>1 DEF Unblock, Finish
<1>7. ASSUME NEW n \in PhaseNames, NEW m \in 0..MaxPlace, NEW texts \in [1..m -> Tasks],
             AppendItems(n, texts)
      PROVE  \E X : Reaches(X, phases', call') /\ items' = EnforceAutoPromotion(X)
  <2> DEFINE P(last) == IF FindPhase(n) = {} THEN last + 1
                        ELSE CHOOSE q \in FindPhase(n) : TRUE
             Added(p, top) == {p} \X {top + i : i \in DOMAIN texts}
             X(p, top) == [k \in DOMAIN items \cup Added(p, top) |->
                             IF k \in Added(p, top)
                             THEN [task |-> texts[k[2] - top], status |-> "pending"]
                             ELSE items[k]]
             c == [op |-> "append", target |-> [by |-> "phase", name |-> n]]
  <2>1. PICK last \in 0..MaxPhases, top \in 0..MaxPlace :
          /\ IsTop(top, {k[2] : k \in InPhases({P(last)})})
          /\ phases' = [q \in DOMAIN phases \cup {P(last)} |->
                          IF q = P(last) THEN n ELSE phases[q]]
          /\ Finish(X(P(last), top), "append", c.target)
    BY <1>7, ZenonT(60) DEF AppendItems
  <2>2. PICK p : p = P(last) OBVIOUS
  <2>3. p \in Nat
    <3>1. FindPhase(n) \subseteq Nat BY DEF FindPhase, TypeOK
    <3>2. last + 1 \in Nat BY BoundsAreNat
    <3> QED BY <2>2, <3>1, <3>2
  <2>4. top \in Nat BY BoundsAreNat
  <2>5. PICK Y : Y = X(p, top) OBVIOUS
  <2>6. \A k \in Added(p, top) : k[1] = p /\ k[2] \in Nat /\ texts[k[2] - top] \in Tasks
    BY <2>4
  <2>7. Added(p, top) \subseteq {p} \X Nat BY <2>4
  <2>8. \A k \in Added(p, top) : k \notin DOMAIN items
    <3> SUFFICES ASSUME NEW k \in Added(p, top), k \in DOMAIN items PROVE FALSE
      OBVIOUS
    <3>1. k \in InPhases({p}) BY <2>6 DEF InPhases
    <3>2. k[2] <= top BY <3>1, <2>1, <2>2 DEF IsTop
    <3>3. k[2] > top BY <2>4
    <3> QED BY <3>2, <3>3, <2>4, <2>6
  <2>9. /\ DOMAIN Y = DOMAIN items \cup Added(p, top)
        /\ \A k \in DOMAIN items : Y[k] = items[k]
        /\ \A k \in Added(p, top) : Y[k] \in Item /\ Y[k].status = "pending"
    BY <2>5, <2>6, <2>8 DEF Item, Status
  <2>10. phases' = [q \in DOMAIN phases \cup {p} |-> IF q = p THEN n ELSE phases[q]]
         /\ items' = EnforceAutoPromotion(Y) /\ call' = c
    BY <2>1, <2>2, <2>5 DEF Finish
  <2> HIDE DEF Added, X, P
  <2>11. DOMAIN phases' = DOMAIN phases \cup {p} BY <2>10
  <2>12. WellPlaced(Y, phases')
    <3>1. DOMAIN Y \subseteq (DOMAIN phases') \X Nat BY <2>9, <2>7, <2>11 DEF TypeOK
    <3>2. Y \in [DOMAIN Y -> Item]
      <4>1. \A k \in DOMAIN Y : Y[k] \in Item BY <2>9 DEF TypeOK
      <4>2. Y = [k \in DOMAIN Y |-> Y[k]] BY <2>5 DEF X
      <4> QED BY <4>1, <4>2
    <3>3. DOMAIN phases' \subseteq Nat /\ phases' \in [DOMAIN phases' -> PhaseNames]
      BY <2>3, <2>10, <2>11 DEF TypeOK
    <3> QED BY <3>1, <3>2, <3>3 DEF WellPlaced
  <2>13. ActivatesNone(Y) /\ DemotesNone(Y) /\ UnblocksSelected(Y, c)
    BY <2>8, <2>9 DEF ActivatesNone, DemotesNone, UnblocksSelected
  <2>14. c \in [op : Ops, target : Target] /\ c.op = "append" BY DEF Ops, Target
  <2> HIDE DEF c
  <2> QED BY <2>10, <2>12, <2>13, <2>14 DEF Reaches
<1>8. ASSUME NEW target \in Target, Remove(target)
      PROVE  \E X : Reaches(X, phases', call') /\ items' = EnforceAutoPromotion(X)
  <2> DEFINE c == [op |-> "rm", target |-> target]
  <2>1. PICK gone : /\ phases' = Keep(phases, DOMAIN phases \ gone)
                    /\ Finish(Keep(items, {k \in DOMAIN items :
                                 /\ k[1] \notin gone
                                 /\ ~(target.by = "task" /\ items[k].task = target.name)}),
                              "rm", target)
    BY <1>8 DEF Remove
  <2> DEFINE S == {k \in DOMAIN items :
                     /\ k[1] \notin gone
                     /\ ~(target.by = "task" /\ items[k].task = target.name)}
  <2>2. /\ S \subseteq DOMAIN items
        /\ items' = EnforceAutoPromotion(Keep(items, S))
        /\ \A k \in S : k[1] \notin gone
    BY <2>1 DEF Finish
  <2> HIDE DEF S
  <2>3. PICK Y : Y = Keep(items, S) OBVIOUS
  <2>4. DOMAIN Y = S /\ Y = [k \in S |-> items[k]] BY <2>3 DEF Keep
  <2>5. WellPlaced(Y, phases')
    <3>1. phases' = [p \in DOMAIN phases \ gone |-> phases[p]] BY <2>1 DEF Keep
    <3>2. DOMAIN Y \subseteq (DOMAIN phases') \X Nat BY <2>2, <2>4, <3>1 DEF TypeOK
    <3>3. Y \in [DOMAIN Y -> Item] BY <2>2, <2>4 DEF TypeOK
    <3>4. DOMAIN phases' \subseteq Nat /\ phases' \in [DOMAIN phases' -> PhaseNames]
      BY <3>1 DEF TypeOK
    <3> QED BY <3>2, <3>3, <3>4 DEF WellPlaced
  <2>6. ActivatesNone(Y) /\ DemotesNone(Y) /\ UnblocksSelected(Y, c)
    BY <2>2, <2>4 DEF ActivatesNone, DemotesNone, UnblocksSelected
  <2>7. c \in [op : Ops, target : Target] /\ c.op = "rm" BY DEF Ops
  <2>8. call' = c BY <2>1 DEF Finish
  <2> HIDE DEF c
  <2> QED BY <2>2, <2>3, <2>5, <2>6, <2>7, <2>8 DEF Reaches
<1>9. CASE View
  <2>1. Reaches(items, phases, [op |-> "view", target |-> Nothing])
    BY DEF TypeOK, Reaches, WellPlaced, ActivatesNone, DemotesNone, UnblocksSelected, Ops, Target
  <2> QED BY <1>9, <2>1 DEF View, Finish
<1> QED BY <1>1, <1>2, <1>3, <1>4, <1>5, <1>6, <1>7, <1>8, <1>9 DEF Next

-----------------------------------------------------------------------------
IInv == TypeOK /\ OneActive

LEMMA InitHolds == Init => IInv
BY DEF Init, IInv, TypeOK, OneActive, AtMostOneActive, NotIdle, Having,
       Ops, Target

\* "view" reads: the promotion it runs finds nothing to do.
ViewChangesNothing == call'.op = "view" => items' = items /\ phases' = phases

LEMMA NextKeeps ==
  ASSUME IInv, Next
  PROVE  IInv' /\ UnblockedByName /\ KeepsActive /\ PromotedInOrder /\ ViewChangesNothing
<1>1. TypeOK /\ OneActive BY DEF IInv
<1>2. PICK X : Reaches(X, phases', call') /\ items' = EnforceAutoPromotion(X)
  BY <1>1, StepShape
<1>3. IsBoard(X) BY <1>2, PlacedIsBoard DEF Reaches
<1>4. /\ IsBoard(items') /\ DOMAIN items' = DOMAIN X
      /\ AtMostOneActive(items') /\ NotIdle(items')
      /\ \A k \in DOMAIN X :
           X[k].status \notin {"pending", "in_progress"} => items'[k].status = X[k].status
      /\ AtMostOneActive(X) =>
           \A k \in DOMAIN X : X[k].status = "in_progress" => items'[k].status = "in_progress"
      /\ (AtMostOneActive(X) /\ NotIdle(X)) => items' = X
      /\ \A k, l \in DOMAIN X :
           (/\ items'[k].status = "in_progress" /\ X[k].status # "in_progress"
            /\ items'[l].status = "pending") => Before(k, l)
  BY <1>2, <1>3, EnforceEffect
<1>5. TypeOK' BY <1>2, <1>4 DEF TypeOK, Reaches, WellPlaced, IsBoard
<1>6. OneActive'
  BY <1>4 DEF OneActive, AtMostOneActive, NotIdle, Having
<1>7. UnblockedByName BY <1>2, <1>4 DEF UnblockedByName, Reaches, UnblocksSelected
<1>8. KeepsActive
  <2> SUFFICES ASSUME NEW k \in DOMAIN items \cap DOMAIN items', items[k].status = "in_progress",
                      call'.op \notin {"start", "init"}
               PROVE  items'[k].status # "pending"
    BY DEF KeepsActive
  <2>1. ActivatesNone(X) /\ X[k].status # "pending" BY <1>2, <1>4 DEF Reaches, DemotesNone
  <2>2. AtMostOneActive(X)
    BY <1>1, <2>1 DEF ActivatesNone, OneActive, AtMostOneActive, Having
  <2> QED BY <1>4, <2>1, <2>2
<1>9. PromotedInOrder
  BY <1>2, <1>4 DEF PromotedInOrder, Reaches, ActivatesNone, Having
<1>10. ViewChangesNothing
  BY <1>1, <1>2, <1>4 DEF ViewChangesNothing, Reaches, OneActive
<1> QED BY <1>5, <1>6, <1>7, <1>8, <1>9, <1>10 DEF IInv

LEMMA StutterKeeps ==
  ASSUME IInv, UNCHANGED vars
  PROVE  IInv'
BY DEF IInv, vars, TypeOK, OneActive, AtMostOneActive, NotIdle, Having

\* The list is well formed and every item lies in one of its phases
\* (todo.ts:53-202).
THEOREM TypeCorrect == Spec => []TypeOK
<1>1. IInv /\ [Next]_vars => IInv' BY NextKeeps, StutterKeeps
<1>2. IInv => TypeOK BY DEF IInv
<1> QED BY InitHolds, <1>1, <1>2, PTL DEF Spec

\* At most one task is in progress, and none is pending while none is in
\* progress: the invariant of todo.ts:5-7, for lists of any size.
THEOREM AutoPromotion == Spec => []OneActive
<1>1. IInv /\ [Next]_vars => IInv' BY NextKeeps, StutterKeeps
<1>2. IInv => OneActive BY DEF IInv
<1> QED BY InitHolds, <1>1, <1>2, PTL DEF Spec

\* Blocked tasks are moved only by calls that select them (todo.ts:8).
THEOREM BlockedImmune == Spec => BlockedIsImmune
<1>1. IInv /\ [Next]_vars => IInv' BY NextKeeps, StutterKeeps
<1>2. IInv /\ [Next]_vars => [UnblockedByName]_vars BY NextKeeps
<1> QED BY InitHolds, <1>1, <1>2, PTL DEF Spec, BlockedIsImmune

\* Only "start" preempts the active task.
THEOREM NoPreemption == Spec => PreemptedOnlyByStart
<1>1. IInv /\ [Next]_vars => IInv' BY NextKeeps, StutterKeeps
<1>2. IInv /\ [Next]_vars => [KeepsActive]_vars BY NextKeeps
<1> QED BY InitHolds, <1>1, <1>2, PTL DEF Spec, PreemptedOnlyByStart

\* A promotion picks the earliest of the work that is left (todo.ts:6).
THEOREM PromotionOrder == Spec => PromotesEarliest
<1>1. IInv /\ [Next]_vars => IInv' BY NextKeeps, StutterKeeps
<1>2. IInv /\ [Next]_vars => [PromotedInOrder]_vars BY NextKeeps
<1> QED BY InitHolds, <1>1, <1>2, PTL DEF Spec, PromotesEarliest

\* A "view" call changes nothing, although it runs the promotion (todo.ts:193-199).
THEOREM ViewReads == Spec => [][ViewChangesNothing]_vars
<1>1. IInv /\ [Next]_vars => IInv' BY NextKeeps, StutterKeeps
<1>2. IInv /\ [Next]_vars => [ViewChangesNothing]_vars BY NextKeeps
<1> QED BY InitHolds, <1>1, <1>2, PTL DEF Spec
=============================================================================
