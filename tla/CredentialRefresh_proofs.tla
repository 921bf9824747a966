----------------------- MODULE CredentialRefresh_proofs -----------------------
(***************************************************************************)
(* What holds of the credential refresh for any number of processes, calls, *)
(* logins, crashes and expiries.                                            *)
(*                                                                          *)
(* The inductive invariant bounds every generation anybody holds by the one *)
(* the provider accepts (with a strict bound where the provider has refused *)
(* the token or the row is disabled), and says that a process which is past *)
(* the acquisition holds the lease unless it has been suspended.            *)
(***************************************************************************)
EXTENDS CredentialRefresh, TLAPS

CallRec == [pc : CallPC, at : Procs \cup {Nobody}, force : BOOLEAN,
            round : Rounds, pass : 1..2, sel : Nat]
FlightRec == [pc : FlightPC, force : BOOLEAN, seen : Nat, answer : Nat]

RowOK(r, taken, g) ==
  /\ r \in [gen : Nat, live : BOOLEAN]
  /\ r.gen <= g
  /\ ~r.live => taken \/ r.gen < g

FlightOK(f, g) ==
  /\ f \in FlightRec
  /\ f.seen <= g
  /\ f.pc = "answered" => f.seen < f.answer /\ f.answer <= g
  /\ f.pc = "refused" => f.seen < g

CallOK(k, g) == k \in CallRec /\ k.sel <= g

DataOK == data \in [Procs -> 0..grant]
FlightsOK == /\ flight \in [Procs -> FlightRec]
             /\ \A p \in Procs : FlightOK(flight[p], grant)
CallsOK == /\ call \in [Calls -> CallRec]
           /\ \A c \in Calls : CallOK(call[c], grant)
OthersOK == /\ grant \in Nat \ {0}
            /\ stale \in Nat /\ logins \in Nat /\ crashes \in Nat
            /\ slept \subseteq Procs
            /\ lease \in [owner : Procs \cup {Nobody, Orphan}, valid : BOOLEAN]

Leased == {"held", "asked", "answered", "refused", "failed"}
Fenced == \A p \in Procs : flight[p].pc \in Leased /\ p \notin slept => Holds(p)

IInv == RowOK(row, removed, grant) /\ DataOK /\ FlightsOK /\ CallsOK /\ OthersOK /\ Fenced

-----------------------------------------------------------------------------
\* What the helpers build.

LEMMA NewCallOK == NewCall \in CallRec /\ NewCall.sel = 0
BY DEF NewCall, CallRec, CallPC, Rounds

LEMMA HelpersOK ==
  ASSUME NEW g \in Nat, NEW k, CallOK(k, g)
  PROVE  CallOK(Done, g) /\ CallOK(Ready(k), g) /\ CallOK(Missed(k), g)
<1>1. NewCall \in CallRec /\ NewCall.sel = 0
  BY NewCallOK
<1>2. Done \in CallRec /\ Done.sel = 0
  BY <1>1 DEF Done, CallRec, CallPC
<1>3. \A j \in CallRec : Ready(j) \in CallRec /\ Ready(j).sel = 0
  BY ZenonT(60) DEF Ready, NewCall, CallRec, CallPC, Rounds
<1>4. k \in CallRec /\ [k EXCEPT !.pass = 2] \in CallRec
  BY DEF CallOK, CallRec
<1>5. QED  BY <1>2, <1>3, <1>4 DEF CallOK, Missed

LEMMA NoFlightOK ==
  ASSUME NEW g \in Nat
  PROVE  FlightOK(NoFlight, g) /\ NoFlight.pc \notin Leased
BY DEF NoFlight, FlightOK, FlightRec, FlightPC, Leased

\* A bound stays one when it grows.
LEMMA Grow ==
  ASSUME NEW g \in Nat, NEW h \in Nat, g <= h
  PROVE  /\ \A r, taken : RowOK(r, taken, g) => RowOK(r, taken, h)
         /\ \A f : FlightOK(f, g) => FlightOK(f, h)
         /\ \A k : CallOK(k, g) => CallOK(k, h)
<1>1. \A r, taken : RowOK(r, taken, g) => RowOK(r, taken, h)
  BY DEF RowOK
<1>2. \A f : FlightOK(f, g) => FlightOK(f, h)
  BY DEF FlightOK, FlightRec
<1>3. \A k : CallOK(k, g) => CallOK(k, h)
  BY DEF CallOK, CallRec
<1>4. QED  BY <1>1, <1>2, <1>3

LEMMA JoinOK ==
  ASSUME IInv, NEW c \in Calls, NEW p, NEW f \in BOOLEAN,
         NEW k \in CallRec, Join(c, p, f, k),
         lease' = lease, grant' = grant, slept' = slept
  PROVE  FlightsOK' /\ CallsOK' /\ Fenced'
<1>1. [k EXCEPT !.pc = "waiting", !.sel = 0, !.force = FALSE] \in CallRec
  BY DEF CallRec, CallPC
<1>2. [k EXCEPT !.pc = "waiting", !.sel = 0, !.force = FALSE].sel = 0
  BY DEF CallRec
<1>3. CallsOK'
  BY <1>1, <1>2 DEF IInv, CallsOK, OthersOK, Join, CallOK
<1> DEFINE new == [NoFlight EXCEPT !.pc = "look", !.force = f]
<1>4. new \in FlightRec /\ new.pc = "look" /\ new.seen = 0
  BY DEF NoFlight, FlightRec, FlightPC
<1>5. FlightOK(new, grant)
  BY <1>4 DEF FlightOK, IInv, OthersOK
<1>6. FlightsOK'
  BY <1>4, <1>5 DEF IInv, FlightsOK, Join
<1>7. Fenced'
  BY <1>4 DEF IInv, FlightsOK, Fenced, Leased, Holds, Join
<1>8. QED  BY <1>3, <1>6, <1>7

LEMMA UseOK ==
  ASSUME IInv, NEW c \in Calls, NEW p, NEW k, CallOK(k, grant), Use(c, p, k),
         lease' = lease, grant' = grant, slept' = slept
  PROVE  FlightsOK' /\ CallsOK' /\ Fenced'
<1>1. k \in CallRec
  BY DEF CallOK
<1>2. CASE Join(c, p, FALSE, k)
  BY <1>1, <1>2, JoinOK
<1>3. CASE call' = [call EXCEPT ![c] = [k EXCEPT !.pc = "won"]] /\ UNCHANGED flight
  <2>1. CallOK([k EXCEPT !.pc = "won"], grant)
    BY DEF CallOK, CallRec, CallPC
  <2>2. CallsOK'
    BY <1>3, <2>1 DEF IInv, CallsOK, CallOK
  <2>3. QED  BY <1>3, <2>2 DEF IInv, FlightsOK, Fenced, Holds
<1>4. QED  BY <1>2, <1>3 DEF Use

\* The promise of p's flight settles, and p gives the lease back or never had it.
LEMMA ResolveOK ==
  ASSUME IInv, NEW p \in Procs, NEW g \in 0..grant, Resolve(p, g),
         grant' = grant, slept' = slept,
         UNCHANGED <<stale, logins, crashes, removed>>,
         Release(p) \/ lease' = lease
  PROVE  FlightsOK' /\ CallsOK' /\ Fenced' /\ OthersOK'
<1>1. grant \in Nat /\ grant \in Nat \ {0}
  BY DEF IInv, OthersOK
<1>2. ASSUME NEW c \in Calls PROVE CallOK(call'[c], grant)
  <2>1. CallOK(call[c], grant)
    BY DEF IInv, CallsOK
  <2>2. CallOK(Missed(call[c]), grant)
    BY <1>1, <2>1, HelpersOK
  <2>3. CallOK([call[c] EXCEPT !.pc = "won", !.sel = g], grant)
    <3>1. call[c] \in CallRec /\ g \in Nat /\ g <= grant
      BY <1>1, <2>1 DEF CallOK
    <3>2. [call[c] EXCEPT !.pc = "won", !.sel = g] \in CallRec
      BY <3>1 DEF CallRec, CallPC
    <3>3. [call[c] EXCEPT !.pc = "won", !.sel = g].sel = g
      BY <3>1 DEF CallRec
    <3>4. QED  BY <3>1, <3>2, <3>3 DEF CallOK
  <2>4. QED  BY <2>1, <2>2, <2>3 DEF Resolve
<1>3. CallsOK'
  BY <1>2, ZenonT(60) DEF CallsOK, Resolve, CallOK
<1>4. FlightsOK'
  BY <1>1, NoFlightOK DEF IInv, FlightsOK, Resolve, FlightOK
<1>5. Free \in [owner : Procs \cup {Nobody, Orphan}, valid : BOOLEAN]
  BY DEF Free
<1>6. lease' \in [owner : Procs \cup {Nobody, Orphan}, valid : BOOLEAN]
  BY <1>5 DEF IInv, OthersOK, Release
<1>7. ASSUME NEW q \in Procs, flight'[q].pc \in Leased, q \notin slept'
      PROVE  Holds(q)'
  <2>1. q # p /\ flight'[q] = flight[q]
    BY <1>1, <1>7, NoFlightOK DEF IInv, FlightsOK, Resolve
  <2>2. lease = [owner |-> q, valid |-> TRUE]
    BY <1>7, <2>1 DEF IInv, Fenced, Holds
  <2>3. lease.owner = q
    BY <2>2
  <2>4. lease' = lease
    BY <2>1, <2>3 DEF Release
  <2>5. QED  BY <2>2, <2>4, SMTT(60) DEF Holds
<1>8. Fenced'
  BY <1>7 DEF Fenced
<1>9. QED  BY <1>1, <1>3, <1>4, <1>6, <1>8 DEF IInv, OthersOK

-----------------------------------------------------------------------------
\* One lemma per group of actions.

LEMMA InitOK == Init => IInv
<1> SUFFICES ASSUME Init PROVE IInv
  OBVIOUS
<1>1. RowOK(row, removed, grant) /\ DataOK
  BY DEF Init, RowOK, DataOK
<1>2. FlightsOK /\ Fenced
  BY NoFlightOK DEF Init, FlightsOK, Fenced, FlightOK
<1>3. CallsOK
  BY DEF Init, CallsOK, CallOK, CallRec, NewCall, CallPC, Rounds
<1>4. OthersOK
  BY DEF Init, OthersOK, Free
<1>5. QED  BY <1>1, <1>2, <1>3, <1>4 DEF IInv

LEMMA StoredOK == IInv => Stored \in 0..grant
BY DEF IInv, RowOK, OthersOK, Stored

\* The steps of a call that write nothing but the call and the flight.
LEMMA StartOK ==
  ASSUME IInv, NEW c \in Calls, NEW p \in Procs, NEW f \in BOOLEAN,
         Start(c, p, f) \/ StartById(c, p)
  PROVE  IInv'
<1>1. UNCHANGED <<row, lease, data, stale, grant, slept, logins, crashes, removed>>
  BY DEF Start, StartById, outside, faults
<1>2. RowOK(row, removed, grant)' /\ DataOK' /\ OthersOK'
  BY <1>1 DEF IInv, DataOK, OthersOK
<1>3. data[p] \in 0..grant /\ grant \in Nat
  BY DEF IInv, DataOK, OthersOK
<1>4. CASE Start(c, p, f)
  <2> DEFINE k == [NewCall EXCEPT !.pc = "listed", !.at = p, !.force = f, !.sel = data[p]]
  <2>1. k \in CallRec /\ k.sel = data[p]
    <3>1. data[p] \in Nat /\ p \in Procs \cup {Nobody}
      BY <1>3
    <3>2. QED  BY <3>1, NewCallOK DEF CallRec, CallPC
  <2>2. CallOK(k, grant)
    BY <1>3, <2>1 DEF CallOK
  <2>3. CallsOK'
    BY <1>1, <1>4, <2>1, <2>2 DEF Start, IInv, CallsOK
  <2>4. FlightsOK' /\ Fenced'
    BY <1>1, <1>4 DEF Start, IInv, FlightsOK, Fenced, Holds
  <2>5. QED  BY <1>2, <2>3, <2>4 DEF IInv
<1>5. CASE StartById(c, p)
  <2> DEFINE r == IF Shared(p) THEN "joined" ELSE "byId"
             k == [NewCall EXCEPT !.at = p, !.round = r, !.sel = data[p]]
  <2>1. k \in CallRec
    <3>1. data[p] \in Nat /\ p \in Procs \cup {Nobody} /\ r \in Rounds
      BY <1>3 DEF Rounds
    <3>2. QED  BY <3>1, NewCallOK DEF CallRec
  <2>2. Join(c, p, TRUE, k)
    BY <1>5 DEF StartById
  <2>3. FlightsOK' /\ CallsOK' /\ Fenced'
    <3> HIDE DEF k
    <3>1. QED  BY <1>1, <2>1, <2>2, JoinOK
  <2>4. QED  BY <1>2, <2>3 DEF IInv
<1>6. QED  BY <1>4, <1>5

\* A call becomes k, and nothing of the flights changes.
LEMMA SetCallOK ==
  ASSUME IInv, NEW c \in Calls, NEW k, CallOK(k, grant),
         call' = [call EXCEPT ![c] = k], UNCHANGED <<flight, lease, grant, slept>>
  PROVE  FlightsOK' /\ CallsOK' /\ Fenced'
<1>1. k \in CallRec
  BY DEF CallOK
<1>2. CallsOK'
  BY <1>1 DEF IInv, CallsOK
<1>3. QED  BY <1>2 DEF IInv, FlightsOK, Fenced, Holds

LEMMA ReadyOK ==
  ASSUME NEW g \in Nat, NEW k, k \in CallRec
  PROVE  CallOK(Ready(k), g)
<1>1. Ready(k) \in CallRec /\ Ready(k).sel = 0
  BY NewCallOK DEF Ready, CallRec, CallPC, Rounds
<1>2. QED  BY <1>1 DEF CallOK

\* The steps of a call.
LEMMA CallStepOK ==
  ASSUME IInv, NEW c \in Calls, CallStep(c) \/ Abort(c)
  PROVE  IInv'
<1> DEFINE p == call[c].at
           k == [call[c] EXCEPT !.sel = Stored]
<1>1. grant \in Nat /\ Stored \in 0..grant
  BY StoredOK DEF IInv, OthersOK
<1>2. call[c] \in CallRec /\ CallOK(call[c], grant)
  BY DEF IInv, CallsOK
<1>3. CallOK(Done, grant)
  BY <1>1, <1>2, HelpersOK
<1>4. k \in CallRec /\ CallOK(k, grant)
  <2>1. k \in CallRec /\ k.sel = Stored
    BY <1>1, <1>2 DEF CallRec
  <2>2. QED  BY <1>1, <2>1 DEF CallOK
<1>5. call[c].force \in BOOLEAN /\ k.force = call[c].force
  BY <1>2 DEF CallRec
<1>6. CASE Preflight(c)
  <2>1. UNCHANGED <<row, lease, stale, grant, slept, logins, crashes, removed>>
    BY <1>6 DEF Preflight, outside, faults
  <2>2. DataOK'
    BY <1>1, <1>6, <2>1 DEF Preflight, IInv, DataOK
  <2>3. FlightsOK' /\ CallsOK' /\ Fenced'
    <3>1. CASE call' = [call EXCEPT ![c] = Done] /\ UNCHANGED flight
      BY <1>3, <2>1, <3>1, SetCallOK
    <3>2. CASE call' = [call EXCEPT ![c] = Ready(k)] /\ UNCHANGED flight
      <4>1. CallOK(Ready(k), grant)
        BY <1>1, <1>4, ReadyOK
      <4>2. QED  BY <2>1, <3>2, <4>1, SetCallOK
    <3>3. CASE Join(c, p, k.force, k)
      BY <1>4, <1>5, <2>1, <3>3, JoinOK
    <3>4. QED  BY <1>6, <3>1, <3>2, <3>3 DEF Preflight
  <2>4. QED  BY <2>1, <2>2, <2>3 DEF IInv, OthersOK
<1>7. CASE Prepare(c)
  <2>1. UNCHANGED <<row, lease, stale, grant, slept, logins, crashes, removed>>
    BY <1>7 DEF Prepare, outside, faults
  <2>2. DataOK'
    BY <1>1, <1>7, <2>1 DEF Prepare, IInv, DataOK
  <2>3. FlightsOK' /\ CallsOK' /\ Fenced'
    <3>1. CASE call' = [call EXCEPT ![c] = Done] /\ UNCHANGED flight
      BY <1>3, <2>1, <3>1, SetCallOK
    <3>2. CASE call' = [call EXCEPT ![c] = [k EXCEPT !.pc = "usage"]] /\ UNCHANGED flight
      <4>1. CallOK([k EXCEPT !.pc = "usage"], grant)
        BY <1>4 DEF CallOK, CallRec, CallPC
      <4>2. QED  BY <2>1, <3>2, <4>1, SetCallOK
    <3>3. CASE Use(c, p, k)
      BY <1>4, <2>1, <3>3, UseOK
    <3>4. QED  BY <1>7, <3>1, <3>2, <3>3 DEF Prepare
  <2>4. QED  BY <2>1, <2>2, <2>3 DEF IInv, OthersOK
<1>8. CASE SkipBlocked(c)
  <2>1. CallOK([call[c] EXCEPT !.pass = 2], grant)
    BY <1>2 DEF CallOK, CallRec
  <2>2. call' = [call EXCEPT ![c] = [call[c] EXCEPT !.pass = 2]]
    BY <1>8 DEF SkipBlocked
  <2>3. UNCHANGED <<row, lease, data, flight, stale, grant, slept, logins, crashes, removed>>
    BY <1>8 DEF SkipBlocked, outside, faults
  <2>4. FlightsOK' /\ CallsOK' /\ Fenced'
    BY <2>1, <2>2, <2>3, SetCallOK
  <2>5. QED  BY <2>3, <2>4 DEF IInv, DataOK, OthersOK
<1>9. CASE UsageDone(c)
  <2>1. UNCHANGED <<row, lease, data, stale, grant, slept, logins, crashes, removed>>
    BY <1>9 DEF UsageDone, outside, faults
  <2>2. FlightsOK' /\ CallsOK' /\ Fenced'
    <3>1. CASE call' = [call EXCEPT ![c] = Missed(call[c])] /\ UNCHANGED flight
      <4>1. CallOK(Missed(call[c]), grant)
        BY <1>1, <1>2, HelpersOK
      <4>2. QED  BY <2>1, <3>1, <4>1, SetCallOK
    <3>2. CASE Use(c, p, call[c])
      BY <1>2, <2>1, <3>2, UseOK
    <3>3. QED  BY <1>9, <3>1, <3>2 DEF UsageDone
  <2>3. QED  BY <2>1, <2>2 DEF IInv, DataOK, OthersOK
<1>10. CASE Won(c)
  <2>1. UNCHANGED <<lease, flight, stale, grant, slept, logins, crashes, removed>>
    BY <1>10 DEF Won, outside, faults
  <2>2. call[c].sel \in 0..grant /\ call[c].sel \in Nat
    BY <1>1, <1>2 DEF CallOK, CallRec
  <2>3. DataOK'
    BY <1>1, <1>10, <2>1, <2>2 DEF Won, Replace, IInv, DataOK
  <2>4. RowOK(row, removed, grant)'
    BY <1>1, <1>10, <2>1, <2>2 DEF Won, Replace, Matches, IInv, RowOK
  <2>5. FlightsOK' /\ CallsOK' /\ Fenced'
    <3>1. PICK d : CallOK(d, grant) /\ call' = [call EXCEPT ![c] = d]
      <4>1. CallOK(Ready(call[c]), grant)
        BY <1>1, <1>2, ReadyOK
      <4>2. CASE call[c].round = "preflight"
        BY <1>2, <1>10, <4>1, <4>2 DEF Won, IInv, CallsOK
      <4>3. CASE call[c].round # "preflight"
        BY <1>2, <1>3, <1>10, <4>3 DEF Won, IInv, CallsOK
      <4>4. QED  BY <4>2, <4>3
    <3>2. QED  BY <2>1, <3>1, SetCallOK
  <2>6. QED  BY <2>1, <2>3, <2>4, <2>5 DEF IInv, OthersOK
<1>11. CASE Abort(c)
  <2>1. UNCHANGED <<row, lease, data, flight, stale, grant, slept, logins, crashes, removed>>
    BY <1>11 DEF Abort, outside, faults
  <2>2. FlightsOK' /\ Fenced'
    BY <2>1 DEF IInv, FlightsOK, Fenced, Holds
  <2>3. ASSUME NEW d \in Calls PROVE CallOK(call'[d], grant)
    <3>1. CallOK(call[d], grant)
      BY DEF IInv, CallsOK
    <3>2. CallOK(Missed(call[d]), grant)
      BY <1>1, <3>1, HelpersOK
    <3>3. call'[d] = Missed(call[d]) \/ call'[d] = call[d]
      BY <1>11 DEF Abort
    <3>4. QED  BY <3>1, <3>2, <3>3
  <2>4. CallsOK'
    BY <1>11, <2>1, <2>3, ZenonT(60) DEF CallsOK, Abort, CallOK
  <2>5. QED  BY <2>1, <2>2, <2>4 DEF IInv, DataOK, OthersOK
<1>12. QED  BY <1>6, <1>7, <1>8, <1>9, <1>10, <1>11 DEF CallStep

\* The steps of a flight that settles, by what they do to the shared state.
LEMMA FlightStepOK ==
  ASSUME IInv, NEW p \in Procs, FlightStep(p) \/ Renew(p)
  PROVE  IInv'
<1>1. grant \in Nat /\ Stored \in 0..grant /\ Stored \in Nat
  BY StoredOK DEF IInv, OthersOK
<1>2. flight[p] \in FlightRec /\ FlightOK(flight[p], grant)
  BY DEF IInv, FlightsOK
<1>3. UNCHANGED <<stale, slept, logins, crashes, removed>>
  BY DEF FlightStep, Renew, Look, Acquire, Recheck, Provider, RequestFails,
         Persist, Discard, Disable, GiveUp, outside, faults
<1>4. data' = data \/ data' = [data EXCEPT ![p] = Stored] => (grant' = grant => DataOK')
  BY <1>1 DEF IInv, DataOK
<1>5. CASE Look(p)
  <2>1. UNCHANGED <<row, lease, grant>> /\ data' = [data EXCEPT ![p] = Stored]
    BY <1>5 DEF Look, outside
  <2>2. CASE Resolve(p, Stored)
    BY <1>1, <1>3, <1>4, <2>1, <2>2, ResolveOK DEF IInv
  <2>3. CASE flight' = [flight EXCEPT ![p].pc = "acquire"] /\ UNCHANGED call
    <3>1. FlightOK([flight[p] EXCEPT !.pc = "acquire"], grant)
      BY <1>2 DEF FlightOK, FlightRec, FlightPC
    <3>2. FlightsOK'
      BY <2>1, <2>3, <3>1 DEF IInv, FlightsOK, FlightOK
    <3>3. Fenced'
      BY <1>2, <1>3, <2>1, <2>3 DEF IInv, FlightsOK, Fenced, Holds, Leased, FlightRec
    <3>4. QED  BY <1>3, <1>4, <2>1, <2>3, <3>2, <3>3 DEF IInv, CallsOK, OthersOK
  <2>4. QED  BY <1>5, <2>2, <2>3 DEF Look
<1>6. CASE Acquire(p)
  <2>1. UNCHANGED <<row, data, call, grant>>
    BY <1>6 DEF Acquire, outside
  <2>2. \A pc \in {"held", "look"} : FlightOK([flight[p] EXCEPT !.pc = pc], grant)
    BY <1>2 DEF FlightOK, FlightRec, FlightPC
  <2>3. CASE LeaseFree /\ lease' = [owner |-> p, valid |-> TRUE]
             /\ flight' = [flight EXCEPT ![p].pc = "held"]
    <3>1. FlightsOK'
      BY <2>1, <2>2, <2>3 DEF IInv, FlightsOK, FlightOK
    <3>2. ASSUME NEW q \in Procs, flight'[q].pc \in Leased, q \notin slept' PROVE Holds(q)'
      <4>1. CASE q = p
        BY <2>3, <4>1 DEF Holds
      <4>2. CASE q # p
        <5>1. lease = [owner |-> q, valid |-> TRUE]
          BY <1>3, <2>3, <3>2, <4>2 DEF IInv, FlightsOK, Fenced, Holds
        <5>2. lease.owner = q /\ lease.valid
          BY <5>1
        <5>3. QED  BY <2>3, <5>2, OwnersAssumption DEF LeaseFree
      <4>3. QED  BY <4>1, <4>2
    <3>3. lease' \in [owner : Procs \cup {Nobody, Orphan}, valid : BOOLEAN]
      BY <2>3
    <3>4. QED  BY <1>3, <2>1, <3>1, <3>2, <3>3 DEF IInv, DataOK, CallsOK, OthersOK, Fenced
  <2>4. CASE flight' = [flight EXCEPT ![p].pc = "look"] /\ UNCHANGED lease
    <3>1. FlightsOK'
      BY <2>1, <2>2, <2>4 DEF IInv, FlightsOK, FlightOK
    <3>2. Fenced'
      BY <1>2, <1>3, <2>4 DEF IInv, FlightsOK, Fenced, Holds, Leased, FlightRec
    <3>3. QED  BY <1>3, <2>1, <2>4, <3>1, <3>2 DEF IInv, DataOK, CallsOK, OthersOK
  <2>5. QED  BY <1>6, <2>3, <2>4 DEF Acquire
<1>7. CASE Recheck(p)
  <2>1. UNCHANGED <<row, grant>> /\ data' = [data EXCEPT ![p] = Stored]
    BY <1>7 DEF Recheck, outside
  <2>2. CASE Resolve(p, Stored) /\ Release(p)
    BY <1>1, <1>3, <1>4, <2>1, <2>2, ResolveOK DEF IInv
  <2>3. CASE flight' = [flight EXCEPT ![p] = [NoFlight EXCEPT !.pc = "asked", !.seen = Stored]]
             /\ UNCHANGED <<call, lease>>
    <3> DEFINE f == [NoFlight EXCEPT !.pc = "asked", !.seen = Stored]
    <3>1. f \in FlightRec /\ f.seen = Stored /\ f.pc = "asked"
      BY <1>1 DEF NoFlight, FlightRec, FlightPC
    <3>2. FlightOK(f, grant)
      BY <1>1, <3>1 DEF FlightOK
    <3>3. flight' = [flight EXCEPT ![p] = f]
      BY <2>3
    <3>4. FlightsOK'
      BY <2>1, <3>1, <3>2, <3>3 DEF IInv, FlightsOK
    <3>5. flight[p].pc = "held"
      BY <1>7 DEF Recheck
    <3>6. Fenced'
      BY <1>3, <2>3, <3>3, <3>5 DEF IInv, FlightsOK, Fenced, Holds, Leased
    <3>7. QED  BY <1>3, <1>4, <2>1, <2>3, <3>4, <3>6 DEF IInv, CallsOK, OthersOK
  <2>4. QED  BY <1>7, <2>2, <2>3 DEF Recheck
<1>8. CASE Provider(p)
  <2>1. UNCHANGED <<row, lease, data, call>> /\ flight[p].pc = "asked"
    BY <1>8 DEF Provider, faults
  <2>2. CASE /\ flight[p].seen = grant /\ grant' = grant + 1
             /\ flight' = [flight EXCEPT ![p].pc = "answered", ![p].answer = grant + 1]
    <3> DEFINE f == [flight[p] EXCEPT !.pc = "answered", !.answer = grant + 1]
    <3>1. f \in FlightRec /\ f.seen = grant /\ f.answer = grant + 1 /\ f.pc = "answered"
      <4>1. grant + 1 \in Nat /\ flight[p].seen = grant
        BY <1>1, <2>2
      <4>2. QED  BY <1>2, <4>1 DEF FlightRec, FlightPC
    <3>2. FlightOK(f, grant')
      BY <1>1, <2>2, <3>1 DEF FlightOK
    <3>3. flight' = [flight EXCEPT ![p] = f]
      BY <1>2, <2>2 DEF IInv, FlightsOK, FlightRec
    <3>4. grant' \in Nat /\ grant <= grant' /\ grant' \in Nat \ {0}
      BY <1>1, <2>2
    <3>5. FlightsOK'
      BY <1>1, <3>1, <3>2, <3>3, <3>4, Grow DEF IInv, FlightsOK
    <3>6. RowOK(row, removed, grant)' /\ CallsOK'
      BY <1>1, <1>3, <2>1, <3>4, Grow DEF IInv, CallsOK
    <3>7. DataOK'
      BY <1>1, <2>1, <3>4 DEF IInv, DataOK
    <3>8. Fenced'
      <4>1. flight[p].pc \in Leased
        BY <2>1 DEF Leased
      <4>2. \A q \in Procs : flight'[q].pc \in Leased => flight[q].pc \in Leased
        BY <3>3, <4>1 DEF IInv, FlightsOK
      <4>3. QED  BY <1>3, <2>1, <4>2 DEF IInv, Fenced, Holds
    <3>9. QED  BY <1>3, <2>1, <3>4, <3>5, <3>6, <3>7, <3>8 DEF IInv, OthersOK
  <2>3. CASE /\ flight[p].seen # grant /\ UNCHANGED grant
             /\ flight' = [flight EXCEPT ![p].pc = "refused"]
    <3>1. FlightOK([flight[p] EXCEPT !.pc = "refused"], grant)
      BY <1>1, <1>2, <2>3 DEF FlightOK, FlightRec, FlightPC
    <3>2. FlightsOK'
      BY <2>1, <2>3, <3>1 DEF IInv, FlightsOK, FlightOK
    <3>3. Fenced'
      BY <1>2, <1>3, <2>1, <2>3 DEF IInv, FlightsOK, Fenced, Holds, Leased, FlightRec
    <3>4. QED  BY <1>3, <2>1, <2>3, <3>2, <3>3 DEF IInv, DataOK, CallsOK, OthersOK
  <2>4. QED  BY <1>8, <2>2, <2>3 DEF Provider
<1>9. CASE RequestFails(p)
  <2> DEFINE f == [NoFlight EXCEPT !.pc = "failed"]
  <2>1. UNCHANGED <<row, lease, data, call, grant>> /\ flight[p].pc \in Leased
    BY <1>9 DEF RequestFails, Leased
  <2>2. f \in FlightRec /\ f.seen = 0 /\ f.pc = "failed"
    BY DEF NoFlight, FlightRec, FlightPC
  <2>3. FlightOK(f, grant)
    BY <1>1, <2>2 DEF FlightOK
  <2>4. flight' = [flight EXCEPT ![p] = f]
    BY <1>9 DEF RequestFails
  <2>5. FlightsOK'
    BY <2>1, <2>2, <2>3, <2>4 DEF IInv, FlightsOK
  <2>6. Fenced'
    BY <1>3, <2>1, <2>4 DEF IInv, FlightsOK, Fenced, Holds
  <2>7. QED  BY <1>3, <2>1, <2>5, <2>6 DEF IInv, DataOK, CallsOK, OthersOK
<1>10. CASE Persist(p)
  <2> DEFINE g == flight[p].answer
  <2>1. UNCHANGED grant /\ Resolve(p, g) /\ Release(p)
    BY <1>10 DEF Persist, outside
  <2>2. g \in 0..grant /\ g \in Nat
    BY <1>1, <1>2, <1>10 DEF Persist, FlightOK, FlightRec
  <2>3. RowOK(row, removed, grant)'
    BY <1>1, <1>10, <2>1, <2>2 DEF Persist, Matches, IInv, RowOK
  <2>4. DataOK'
    BY <1>10, <2>1, <2>2 DEF Persist, IInv, DataOK
  <2>5. QED  BY <1>3, <2>1, <2>2, <2>3, <2>4, ResolveOK DEF IInv
<1>11. CASE Discard(p)
  <2>1. UNCHANGED <<row, grant>> /\ Release(p)
    BY <1>11 DEF Discard, outside
  <2>2. Usable \in 0..grant /\ 0 \in 0..grant
    BY <1>1 DEF Usable
  <2>3. PICK g \in 0..grant : Resolve(p, g)
    BY <1>11, <2>2 DEF Discard
  <2>4. data' = data \/ data' = [data EXCEPT ![p] = Stored]
    BY <1>11 DEF Discard
  <2>5. QED  BY <1>3, <1>4, <2>1, <2>3, <2>4, ResolveOK DEF IInv
<1>12. CASE Disable(p)
  <2>1. UNCHANGED grant /\ Release(p)
    BY <1>12 DEF Disable, outside
  <2>2. CASE Matches(flight[p].seen) /\ row' = [row EXCEPT !.live = FALSE]
             /\ data' = [data EXCEPT ![p] = 0] /\ Resolve(p, 0)
    <3>1. row.gen < grant
      BY <1>1, <1>2, <1>12, <2>2 DEF Disable, Matches, FlightOK
    <3>2. RowOK(row, removed, grant)'
      BY <1>1, <2>1, <2>2, <3>1 DEF IInv, RowOK
    <3>3. DataOK' /\ 0 \in 0..grant
      BY <1>1, <2>1, <2>2 DEF IInv, DataOK
    <3>4. QED  BY <1>3, <2>1, <2>2, <3>2, <3>3, ResolveOK DEF IInv
  <2>3. CASE data' = [data EXCEPT ![p] = Stored] /\ Resolve(p, Usable) /\ UNCHANGED row
    <3>1. Usable \in 0..grant
      BY <1>1 DEF Usable
    <3>2. QED  BY <1>3, <1>4, <2>1, <2>3, <3>1, ResolveOK DEF IInv
  <2>4. QED  BY <1>12, <2>2, <2>3 DEF Disable
<1>13. CASE GiveUp(p)
  <2>1. UNCHANGED <<row, data, grant>> /\ Release(p) /\ Resolve(p, 0) /\ 0 \in 0..grant
    BY <1>1, <1>13 DEF GiveUp, outside
  <2>2. QED  BY <1>3, <1>4, <2>1, ResolveOK DEF IInv
<1>14. CASE Renew(p)
  <2>1. UNCHANGED <<row, data, flight, call, grant>>
    BY <1>14 DEF Renew, outside
  <2>2. lease.owner = p /\ lease.valid = FALSE
    BY <1>14 DEF Renew
  <2>3. \A q \in Procs : flight[q].pc \in Leased => q \in slept
    BY <2>2 DEF IInv, Fenced, Holds
  <2>4. lease' \in [owner : Procs \cup {Nobody, Orphan}, valid : BOOLEAN]
    BY <1>14 DEF Renew, IInv, OthersOK
  <2>5. QED  BY <1>3, <2>1, <2>3, <2>4 DEF IInv, DataOK, FlightsOK, CallsOK, OthersOK, Fenced
<1>15. QED
  BY <1>5, <1>6, <1>7, <1>8, <1>9, <1>10, <1>11, <1>12, <1>13, <1>14 DEF FlightStep

\* Time, the user, and the loss of a process.
LEMMA WorldOK ==
  ASSUME IInv, \/ LeaseExpires \/ Expire \/ LateRotation
               \/ \E p \in Procs : Login(p) \/ Remove(p) \/ Crash(p)
  PROVE  IInv'
<1>1. grant \in Nat /\ Stored \in 0..grant
  BY StoredOK DEF IInv, OthersOK
<1>2. CASE LeaseExpires
  <2>1. UNCHANGED <<row, data, flight, call, stale, grant, logins, crashes, removed>>
    BY <1>2 DEF LeaseExpires
  <2>2. lease' \in [owner : Procs \cup {Nobody, Orphan}, valid : BOOLEAN] /\ slept' \subseteq Procs
    BY <1>2, OwnersAssumption DEF LeaseExpires, IInv, OthersOK
  <2>3. ASSUME NEW q \in Procs, flight'[q].pc \in Leased, q \notin slept' PROVE Holds(q)'
    <3>1. q \notin slept
      BY <1>2, <2>3 DEF LeaseExpires
    <3>2. lease = [owner |-> q, valid |-> TRUE]
      BY <2>1, <2>3, <3>1 DEF IInv, Fenced, Holds
    <3>3. q \in slept'
      BY <1>2, <3>2, OwnersAssumption DEF LeaseExpires
    <3>4. QED  BY <2>3, <3>3
  <2>4. QED  BY <2>1, <2>2, <2>3 DEF IInv, DataOK, FlightsOK, CallsOK, OthersOK, Fenced
<1>3. CASE Expire
  BY <1>3 DEF Expire, faults, IInv, DataOK, FlightsOK, CallsOK, OthersOK, Fenced, Holds
<1>4. ASSUME NEW p \in Procs, Login(p) PROVE IInv'
  <2>1. UNCHANGED <<lease, flight, call, stale, slept, crashes, removed>> /\ grant' = grant + 1
    BY <1>4 DEF Login
  <2>2. grant' \in Nat /\ grant <= grant' /\ grant' \in Nat \ {0} /\ logins' \in Nat
    BY <1>1, <1>4 DEF Login, IInv, OthersOK
  <2>3. FlightsOK' /\ CallsOK'
    BY <1>1, <2>1, <2>2, Grow DEF IInv, FlightsOK, CallsOK
  <2>4. RowOK(row, removed, grant)'
    BY <1>1, <1>4, <2>1 DEF Login, IInv, RowOK
  <2>5. DataOK'
    BY <1>1, <1>4, <2>1 DEF Login, IInv, DataOK
  <2>6. QED  BY <2>1, <2>2, <2>3, <2>4, <2>5 DEF IInv, OthersOK, Fenced, Holds
<1>5. ASSUME NEW p \in Procs, Crash(p) PROVE IInv'
  <2>1. UNCHANGED <<row, stale, grant, slept, logins, removed>> /\ crashes' \in Nat
    BY <1>5 DEF Crash, IInv, OthersOK
  <2>2. DataOK'
    BY <1>1, <1>5, <2>1 DEF Crash, IInv, DataOK
  <2>3. CallOK(Done, grant)
    BY <1>1, NewCallOK DEF Done, CallOK, CallRec, CallPC
  <2>4. CallsOK'
    BY <1>5, <2>1, <2>3 DEF Crash, IInv, CallsOK, CallOK
  <2>5. FlightsOK'
    BY <1>1, <1>5, <2>1, NoFlightOK DEF Crash, IInv, FlightsOK, FlightOK
  <2>6. lease' \in [owner : Procs \cup {Nobody, Orphan}, valid : BOOLEAN]
    BY <1>5 DEF Crash, IInv, OthersOK
  <2>7. ASSUME NEW q \in Procs, flight'[q].pc \in Leased, q \notin slept' PROVE Holds(q)'
    <3>1. q # p /\ flight'[q] = flight[q]
      BY <1>1, <1>5, <2>7, NoFlightOK DEF Crash, IInv, FlightsOK
    <3>2. lease = [owner |-> q, valid |-> TRUE]
      BY <2>1, <2>7, <3>1 DEF IInv, Fenced, Holds
    <3>3. lease.owner = q
      BY <3>2
    <3>4. lease' = lease
      BY <1>5, <3>1, <3>3 DEF Crash
    <3>5. QED  BY <3>2, <3>4 DEF Holds
  <2>8. QED  BY <2>1, <2>2, <2>4, <2>5, <2>6, <2>7 DEF IInv, OthersOK, Fenced
<1>6. CASE LateRotation
  <2>1. UNCHANGED <<row, lease, data, flight, call, stale, slept, logins, crashes, removed>>
        /\ grant' = grant + 1
    BY <1>6 DEF LateRotation, faults
  <2>2. grant' \in Nat /\ grant <= grant' /\ grant' \in Nat \ {0}
    BY <1>1, <2>1
  <2>3. RowOK(row, removed, grant)' /\ FlightsOK' /\ CallsOK'
    BY <1>1, <2>1, <2>2, Grow DEF IInv, FlightsOK, CallsOK
  <2>4. DataOK'
    BY <1>1, <2>1, <2>2 DEF IInv, DataOK
  <2>5. QED  BY <2>1, <2>2, <2>3, <2>4 DEF IInv, OthersOK, Fenced, Holds
<1>7. ASSUME NEW p \in Procs, Remove(p) PROVE IInv'
  <2>1. UNCHANGED <<lease, flight, call, stale, grant, slept, crashes>> /\ logins' \in Nat
    BY <1>7 DEF Remove, IInv, OthersOK
  <2>2. removed' /\ row' = [row EXCEPT !.live = FALSE] /\ data' = [data EXCEPT ![p] = 0]
    BY <1>7 DEF Remove
  <2>3. RowOK(row, removed, grant)'
    BY <1>1, <2>1, <2>2 DEF IInv, RowOK
  <2>4. DataOK'
    BY <1>1, <2>1, <2>2 DEF IInv, DataOK
  <2>5. QED  BY <2>1, <2>3, <2>4 DEF IInv, FlightsOK, CallsOK, OthersOK, Fenced, Holds
<1>8. QED  BY <1>2, <1>3, <1>4, <1>5, <1>6, <1>7

LEMMA StutterOK == IInv /\ UNCHANGED vars => IInv'
BY DEF vars, IInv, DataOK, FlightsOK, CallsOK, OthersOK, Fenced, Holds

LEMMA NextOK == IInv /\ [Next]_vars => IInv'
BY StartOK, CallStepOK, FlightStepOK, WorldOK, StutterOK DEF Next

LEMMA Always == Spec => []IInv
<1>1. QED  BY InitOK, NextOK, PTL DEF Spec

-----------------------------------------------------------------------------
\* The two flags, which nothing else turns on the type of.
FlagsOK == {stray, removed} \subseteq BOOLEAN

LEMMA FlagsAlways == Spec => []FlagsOK
<1>1. Init => FlagsOK
  BY DEF Init, FlagsOK
<1>2. FlagsOK /\ [Next]_vars => FlagsOK'
  <2> SUFFICES ASSUME FlagsOK, [Next]_vars PROVE FlagsOK'
    OBVIOUS
  <2>1. stray' = stray \/ stray' \in BOOLEAN
    BY ZenonT(60)
       DEF Next, vars, CallStep, FlightStep, Start, StartById, Preflight, Prepare, SkipBlocked,
           UsageDone, Won, Abort, Look, Acquire, Recheck, Provider, RequestFails, GoesAstray,
           Persist, Discard, Disable, GiveUp, Renew, LeaseExpires, Expire, LateRotation, Login,
           Remove, Crash, outside
  <2>2. removed' = removed \/ removed' \in BOOLEAN
    BY ZenonT(60)
       DEF Next, vars, CallStep, FlightStep, Start, StartById, Preflight, Prepare, SkipBlocked,
           UsageDone, Won, Abort, Look, Acquire, Recheck, Provider, RequestFails,
           Persist, Discard, Disable, GiveUp, Renew, LeaseExpires, Expire, LateRotation, Login,
           Remove, Crash, outside, faults
  <2>3. QED  BY <2>1, <2>2 DEF FlagsOK
<1>3. QED  BY <1>1, <1>2, PTL DEF Spec

\* The types of the variables.
THEOREM Types == Spec => []TypeOK
<1>1. IInv /\ FlagsOK => TypeOK
  <2> SUFFICES ASSUME IInv, FlagsOK PROVE TypeOK
    OBVIOUS
  <2>1. data \in [Procs -> Nat] /\ grant \in Nat
    BY DEF IInv, DataOK, OthersOK
  <2>2. QED
    BY <2>1 DEF IInv, RowOK, FlightsOK, CallsOK, OthersOK, FlagsOK, TypeOK, CallRec, FlightRec
<1>2. QED  BY <1>1, Always, FlagsAlways, PTL

\* A credential the user has not taken away is disabled only when the provider refuses
\* its token.
THEOREM DisabledIsDead == Spec => []DisabledOnlyDead
<1>1. IInv => DisabledOnlyDead
  BY DEF IInv, RowOK, OthersOK, DisabledOnlyDead
<1>2. QED  BY <1>1, Always, PTL

\* Two refreshes at a time need a lease that ran out under a suspended process.
THEOREM OneRequest == Spec => []OneRequestAtATime
<1>1. IInv => OneRequestAtATime
  <2> SUFFICES ASSUME IInv, NEW p \in Procs, NEW q \in Procs, p # q,
                      flight[p].pc \in {"asked", "answered"},
                      flight[q].pc \in {"asked", "answered"},
                      p \notin slept, q \notin slept
               PROVE  FALSE
    BY DEF OneRequestAtATime
  <2>1. lease = [owner |-> p, valid |-> TRUE] /\ lease = [owner |-> q, valid |-> TRUE]
    BY DEF IInv, Fenced, Leased, Holds
  <2>2. lease.owner = p /\ lease.owner = q
    BY <2>1, SMTT(60)
  <2>3. QED  BY <2>2
<1>2. QED  BY <1>1, Always, PTL

\* Only a call with a token its process has seen replaced writes an older one.
THEOREM GoesBackOnlyOutdated == Spec => OnlyOutdatedCallsGoBack
<1> DEFINE A == row'.gen < row.gen =>
                  \E c \in Calls : call[c].pc = "won" /\ call[c].sel < data[call[c].at]
<1>1. IInv /\ [Next]_vars => A
  <2> SUFFICES ASSUME IInv, [Next]_vars, row'.gen < row.gen
               PROVE  \E c \in Calls : call[c].pc = "won" /\ call[c].sel < data[call[c].at]
    OBVIOUS
  <2>1. row \in [gen : Nat, live : BOOLEAN] /\ grant \in Nat /\ row.gen <= grant
    BY DEF IInv, RowOK, OthersOK
  <2>2. row' # row
    BY <2>1
  <2>3. CASE \E c \in Calls : Won(c)
    <3>1. PICK c \in Calls : Won(c)
      BY <2>3
    <3>2. /\ row.gen = data[call[c].at]
          /\ row' = [row EXCEPT !.gen = call[c].sel]
      BY <2>2, <3>1 DEF Won, Replace, Matches
    <3>3. QED  BY <2>1, <3>1, <3>2 DEF Won
  <2>4. CASE \E p \in Procs : Persist(p)
    <3>1. PICK p \in Procs : Persist(p)
      BY <2>4
    <3>2. flight[p].seen < flight[p].answer /\ flight[p].seen = row.gen /\ row'.gen = flight[p].answer
      BY <2>1, <3>1 DEF Persist, Matches, IInv, FlightsOK, FlightOK
    <3>3. flight[p].answer \in Nat
      BY DEF IInv, FlightsOK, FlightRec
    <3>4. QED  BY <2>1, <3>2, <3>3
  <2>5. CASE \E p \in Procs : Disable(p)
    BY <2>1, <2>5 DEF Disable
  <2>6. CASE \E p \in Procs : Login(p)
    BY <2>1, <2>6 DEF Login
  <2>7. CASE \E p \in Procs : Remove(p)
    BY <2>1, <2>7 DEF Remove
  <2>8. QED
    BY <2>2, <2>3, <2>4, <2>5, <2>6, <2>7, ZenonT(60)
       DEF Next, vars, CallStep, FlightStep, Start, StartById, Preflight, Prepare, SkipBlocked,
           UsageDone, Abort, Look, Acquire, Recheck, Provider, RequestFails, Discard, GiveUp,
           Renew, LeaseExpires, Expire, LateRotation, Crash, outside
<1>2. QED  BY <1>1, Always, PTL DEF Spec, OnlyOutdatedCallsGoBack
=============================================================================
