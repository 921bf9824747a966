-------------------------- MODULE CredentialRefresh --------------------------
(***************************************************************************)
(* How one stored OAuth credential is refreshed by several processes that   *)
(* share the SQLite credential store (packages/ai/src/auth-storage.ts and   *)
(* auth/sqlite-credential-store.ts).                                        *)
(*                                                                          *)
(* A refresh token is good for one use: the provider answers it with the    *)
(* next one and refuses it afterwards.  Tokens are therefore generations,   *)
(* 1, 2, 3...; a credential is known by the generation it carries.  In a    *)
(* process all calls that need the token share one refresh (the flight);    *)
(* among processes a lease in the store lets one of them ask the provider.  *)
(* JavaScript runs a step to its next await, so a process does nothing else *)
(* between the synchronous parts of one step (Quiet), while the statements  *)
(* of other processes on the shared database fall between any two.          *)
(***************************************************************************)
EXTENDS Naturals, FiniteSets

CONSTANTS
  Procs,         \* the processes that share the credential store
  Calls,         \* the requests for an access token, each made once
  Nobody,        \* the owner of a lease that is not taken
  Orphan,        \* the owner of a lease whose process is gone
  MaxStale,      \* bound: the last generation that runs out
  MaxLogins,     \* bound: how often a user logs in again, or takes the credential away
  MaxCrashes,    \* bound: how often a process dies and starts again
  MaxSuspended   \* bound: how many processes are suspended longer than their lease

ASSUME OwnersAssumption ==
  Nobody \notin Procs /\ Orphan \notin Procs /\ Nobody # Orphan
ASSUME BoundsAssumption == {MaxStale, MaxLogins, MaxCrashes, MaxSuspended} \subseteq Nat

VARIABLES
  row,      \* the credential's row: its generation, and whether it is enabled
  lease,    \* the row of auth_credential_refresh_leases
  data,     \* #data: the generation each process has in memory, 0 for none
  flight,   \* #oauthCredentialRefreshInFlight: the refresh of each process
  call,     \* the calls and how far each of them is
  stale,    \* up to this generation access tokens are within the refresh skew
  grant,    \* the generation the provider accepts
  stray,    \* a request with that generation was given up and may still arrive
  slept,    \* the processes that were suspended longer than their lease
  logins,
  crashes,
  removed   \* history: the user took the credential away

vars == <<row, lease, data, flight, call, stale, grant, stray, slept, logins, crashes, removed>>
faults == <<slept, logins, crashes, removed>>
outside == <<stale, grant, stray, faults>>

NoFlight == [pc |-> "none", force |-> FALSE, seen |-> 0, answer |-> 0]
Free == [owner |-> Nobody, valid |-> FALSE]
NewCall == [pc |-> "idle", at |-> Nobody, force |-> FALSE, round |-> "preflight", pass |-> 1, sel |-> 0]
Done == [NewCall EXCEPT !.pc = "done"]

FlightPC == {"none", "look", "acquire", "held", "asked", "answered", "refused", "failed"}
CallPC == {"idle", "listed", "ready", "usage", "waiting", "won", "done"}
Rounds == {"preflight", "final", "byId", "joined"}

TypeOK ==
  /\ row \in [gen : Nat, live : BOOLEAN]
  /\ lease \in [owner : Procs \cup {Nobody, Orphan}, valid : BOOLEAN]
  /\ data \in [Procs -> Nat]
  /\ flight \in [Procs -> [pc : FlightPC, force : BOOLEAN, seen : Nat, answer : Nat]]
  /\ call \in [Calls -> [pc : CallPC, at : Procs \cup {Nobody}, force : BOOLEAN,
                         round : Rounds, pass : 1..2, sel : Nat]]
  /\ stale \in Nat
  /\ grant \in Nat /\ {stray, removed} \subseteq BOOLEAN
  /\ slept \subseteq Procs
  /\ logins \in Nat
  /\ crashes \in Nat

Init ==
  /\ row = [gen |-> 1, live |-> TRUE]
  /\ lease = Free
  /\ data = [p \in Procs |-> 1]
  /\ flight = [p \in Procs |-> NoFlight]
  /\ call = [c \in Calls |-> NewCall]
  /\ stale = 0
  /\ grant = 1 /\ stray = FALSE
  /\ slept = {}
  /\ logins = 0
  /\ crashes = 0
  /\ removed = FALSE

Fresh(g) == g > stale
Stored == IF row.live THEN row.gen ELSE 0
Holds(p) == lease = [owner |-> p, valid |-> TRUE]
Matches(g) == row.live /\ row.gen = g

\* No synchronous piece of code is half-way in process p.
Quiet(p) ==
  /\ \A c \in Calls : call[c].at = p => call[c].pc # "won"
  /\ flight[p].pc \notin {"acquire", "held"}

(***************************** calls ****************************************)
\* Join the process's flight, or start one (#refreshOAuthCredential).  What a
\* call selected, and whether it forces, is not read again after this.
Join(c, p, f, k) ==
  /\ call' = [call EXCEPT ![c] = [k EXCEPT !.pc = "waiting", !.sel = 0, !.force = FALSE]]
  /\ flight' = IF flight[p].pc = "none"
               THEN [flight EXCEPT ![p] = [NoFlight EXCEPT !.pc = "look", !.force = f]]
               ELSE flight

\* A refresh of a credential that turns out to be fresh needs no flight.
Use(c, p, k) ==
  IF flight[p].pc = "none" /\ Fresh(k.sel)
  THEN call' = [call EXCEPT ![c] = [k EXCEPT !.pc = "won"]] /\ UNCHANGED flight
  ELSE Join(c, p, FALSE, k)

\* A call that is ready for a final pass selects again.
Ready(k) == [NewCall EXCEPT !.pc = "ready", !.at = k.at, !.round = "final", !.pass = k.pass]

\* What is left of a call whose attempt came to nothing: the first final pass
\* is followed by the one that takes blocked credentials too.
Missed(k) ==
  IF k.round = "final" /\ k.pass = 1
  THEN Ready([k EXCEPT !.pass = 2])
  ELSE Done

Start(c, p, f) ==
  /\ call[c].pc = "idle" /\ Quiet(p) /\ data[p] # 0
  /\ call' = [call EXCEPT ![c] = [NewCall EXCEPT !.pc = "listed", !.at = p,
                                                 !.force = f, !.sel = data[p]]]
  /\ UNCHANGED <<row, lease, data, flight, outside>>

\* refreshCredentialById goes to the flight directly and always forces it.  Its
\* calls share one wait as well (#oauthRefreshInFlight): that of the first.
Shared(p) == \E d \in Calls : call[d].pc = "waiting" /\ call[d].at = p /\ call[d].round = "byId"
StartById(c, p) ==
  /\ call[c].pc = "idle" /\ Quiet(p) /\ data[p] # 0
  /\ Join(c, p, TRUE, [NewCall EXCEPT !.at = p, !.round = IF Shared(p) THEN "joined" ELSE "byId",
                                      !.sel = data[p]])
  /\ UNCHANGED <<row, lease, data, outside>>

Preflight(c) ==
  LET p == call[c].at
      k == [call[c] EXCEPT !.sel = Stored]
      synced == Stored # call[c].sel
  IN  /\ call[c].pc = "listed" /\ Quiet(p)
      /\ data' = [data EXCEPT ![p] = Stored]
      /\ \/ /\ Stored = 0
            /\ call' = [call EXCEPT ![c] = Done]
            /\ UNCHANGED flight
         \/ /\ Stored # 0 /\ Fresh(Stored) /\ (k.force => synced)
            /\ call' = [call EXCEPT ![c] = Ready(k)]
            /\ UNCHANGED flight
         \/ /\ Stored # 0 /\ ~(Fresh(Stored) /\ (k.force => synced))
            /\ Join(c, p, k.force, k)
      /\ UNCHANGED <<row, lease, outside>>

\* The start of #tryOAuthCredential, up to its first real await.  The first pass
\* asks for the usage report where the provider has a ranking strategy.
Prepare(c) ==
  LET p == call[c].at
      k == [call[c] EXCEPT !.sel = Stored]
  IN  /\ call[c].pc = "ready" /\ Quiet(p)
      /\ data' = [data EXCEPT ![p] = Stored]
      /\ \/ /\ Stored = 0
            /\ call' = [call EXCEPT ![c] = Done]
            /\ UNCHANGED flight
         \/ /\ Stored # 0
            /\ \/ k.pass = 1 /\ call' = [call EXCEPT ![c] = [k EXCEPT !.pc = "usage"]] /\ UNCHANGED flight
               \/ Use(c, p, k)
      /\ UNCHANGED <<row, lease, outside>>

\* The first pass leaves out a credential that is blocked.
SkipBlocked(c) ==
  /\ call[c].pc = "ready" /\ call[c].pass = 1 /\ Quiet(call[c].at)
  /\ call' = [call EXCEPT ![c].pass = 2]
  /\ UNCHANGED <<row, lease, data, flight, outside>>

\* The usage report is there: the limit is reached, or the credential the call
\* took before it asked for the report is used now.
UsageDone(c) ==
  LET p == call[c].at
  IN  /\ call[c].pc = "usage" /\ Quiet(p)
      /\ \/ call' = [call EXCEPT ![c] = Missed(call[c])] /\ UNCHANGED flight
         \/ Use(c, p, call[c])
      /\ UNCHANGED <<row, lease, data, outside>>

\* #replaceCredentialById: the row is written only when it still is what this
\* process has in memory; otherwise the process takes what is stored.
Replace(p, g) ==
  \/ /\ data[p] = 0
     /\ UNCHANGED <<row, data>>
  \/ /\ data[p] # 0 /\ Matches(data[p])
     /\ row' = [row EXCEPT !.gen = g]
     /\ data' = [data EXCEPT ![p] = g]
  \/ /\ data[p] # 0 /\ ~Matches(data[p])
     /\ data' = [data EXCEPT ![p] = Stored]
     /\ UNCHANGED row

Won(c) ==
  /\ call[c].pc = "won"
  /\ Replace(call[c].at, call[c].sel)
  /\ call' = [call EXCEPT ![c] = IF @.round = "preflight"
                                 THEN Ready(@) ELSE Done]
  /\ UNCHANGED <<lease, flight, outside>>

\* The caller's signal takes it out of the wait, and with the first call by id those
\* that joined it; the flight goes on without them.
Abort(c) ==
  /\ call[c].pc = "waiting" /\ Quiet(call[c].at)
  /\ call' = [d \in Calls |->
                IF \/ d = c
                   \/ /\ call[c].round = "byId" /\ call[d].round = "joined"
                      /\ call[d].pc = "waiting" /\ call[d].at = call[c].at
                THEN Missed(call[d]) ELSE call[d]]
  /\ UNCHANGED <<row, lease, data, flight, outside>>

(***************************** the flight ***********************************)
\* The flight's promise settles: with generation g, or with an error for 0.  Of the
\* calls by id that share a wait the first one writes what came.
Resolve(p, g) ==
  /\ call' = [c \in Calls |->
                IF call[c].pc # "waiting" \/ call[c].at # p THEN call[c]
                ELSE IF g = 0 \/ call[c].round = "joined" THEN Missed(call[c])
                ELSE [call[c] EXCEPT !.pc = "won", !.sel = g]]
  /\ flight' = [flight EXCEPT ![p] = NoFlight]

Release(p) == lease' = IF lease.owner = p THEN Free ELSE lease

\* What a flight hands out after it has read the row again.
Usable == IF Stored # 0 /\ Fresh(Stored) THEN Stored ELSE 0

\* The flight need not ask when the row is gone, or fresh and not forced.
Settled(p) == Stored = 0 \/ (~flight[p].force /\ Fresh(Stored))

Look(p) ==
  /\ flight[p].pc = "look" /\ Quiet(p)
  /\ data' = [data EXCEPT ![p] = Stored]
  /\ \/ Settled(p) /\ Resolve(p, Stored)
     \/ ~Settled(p) /\ flight' = [flight EXCEPT ![p].pc = "acquire"] /\ UNCHANGED call
  /\ UNCHANGED <<row, lease, outside>>

\* Mutants: a lease is taken whoever has it; it is not taken over when it ran out.
LeaseFreeAlways == TRUE
LeaseFreeNever == lease.owner = Nobody
LeaseFree == lease.owner = Nobody \/ ~lease.valid

Acquire(p) ==
  /\ flight[p].pc = "acquire"
  /\ IF LeaseFree
     THEN /\ lease' = [owner |-> p, valid |-> TRUE]
          /\ flight' = [flight EXCEPT ![p].pc = "held"]
     ELSE /\ flight' = [flight EXCEPT ![p].pc = "look"]
          /\ UNCHANGED lease
  /\ UNCHANGED <<row, data, call, outside>>

Recheck(p) ==
  /\ flight[p].pc = "held"
  /\ data' = [data EXCEPT ![p] = Stored]
  /\ \/ Settled(p) /\ Resolve(p, Stored) /\ Release(p)
     \/ /\ ~Settled(p)
        /\ flight' = [flight EXCEPT ![p] = [NoFlight EXCEPT !.pc = "asked", !.seen = Stored]]
        /\ UNCHANGED <<call, lease>>
  /\ UNCHANGED <<row, outside>>

\* The provider rotates the token it accepts and refuses every other.
Provider(p) ==
  /\ flight[p].pc = "asked"
  /\ IF flight[p].seen = grant
     THEN /\ grant' = grant + 1 /\ stray' = FALSE
          /\ flight' = [flight EXCEPT ![p].pc = "answered", ![p].answer = grant + 1]
     ELSE /\ flight' = [flight EXCEPT ![p].pc = "refused"]
          /\ UNCHANGED <<grant, stray>>
  /\ UNCHANGED <<row, lease, data, call, stale, faults>>

\* Nobody waits any longer for the answer to p's request, if one is out: with the
\* token the provider accepts it may still arrive there.
GoesAstray(p) ==
  stray' = (stray \/ (flight[p].pc = "asked" /\ flight[p].seen = grant))

\* The request fails or runs into its time limit (10 s), before or after the
\* provider rotated the token, or before it does.
RequestFails(p) ==
  /\ flight[p].pc \in {"asked", "answered"}
  /\ flight' = [flight EXCEPT ![p] = [NoFlight EXCEPT !.pc = "failed"]]
  /\ GoesAstray(p)
  /\ UNCHANGED <<row, lease, data, call, stale, grant, faults>>

\* The provider takes a request that was given up: nobody hears of the new token.
LateRotation ==
  /\ stray
  /\ grant' = grant + 1 /\ stray' = FALSE
  /\ UNCHANGED <<row, lease, data, flight, call, stale, faults>>

\* Mutant: the answer is stored without the compare and the fence.
PersistUnconditionally(p) ==
  /\ flight[p].pc = "answered" /\ Quiet(p)
  /\ row' = [row EXCEPT !.gen = flight[p].answer]
  /\ data' = [data EXCEPT ![p] = flight[p].answer]
  /\ Resolve(p, flight[p].answer)
  /\ Release(p)
  /\ UNCHANGED outside

Persist(p) ==
  /\ flight[p].pc = "answered" /\ Quiet(p)
  /\ Matches(flight[p].seen) /\ Holds(p)
  /\ row' = [row EXCEPT !.gen = flight[p].answer]
  /\ data' = [data EXCEPT ![p] = flight[p].answer]
  /\ Resolve(p, flight[p].answer)
  /\ Release(p)
  /\ UNCHANGED outside

\* The fenced update changed no row, or the renewal loop had noticed that the
\* lease is somebody else's.
Discard(p) ==
  /\ flight[p].pc = "answered" /\ Quiet(p)
  /\ \/ /\ ~(Matches(flight[p].seen) /\ Holds(p))
        /\ data' = [data EXCEPT ![p] = Stored]
        /\ Resolve(p, Usable)
     \/ /\ lease.owner # p
        /\ Resolve(p, 0)
        /\ UNCHANGED data
  /\ Release(p)
  /\ UNCHANGED <<row, outside>>

\* Mutant: the row is disabled without the compare and the fence.
DisableUnconditionally(p) ==
  /\ flight[p].pc = "refused" /\ Quiet(p)
  /\ row' = [row EXCEPT !.live = FALSE]
  /\ data' = [data EXCEPT ![p] = 0]
  /\ Resolve(p, 0)
  /\ Release(p)
  /\ UNCHANGED outside

Disable(p) ==
  /\ flight[p].pc = "refused" /\ Quiet(p)
  /\ \/ /\ Matches(flight[p].seen) /\ Holds(p)
        /\ row' = [row EXCEPT !.live = FALSE]
        /\ data' = [data EXCEPT ![p] = 0]
        /\ Resolve(p, 0)
     \/ /\ ~(Matches(flight[p].seen) /\ Holds(p))
        /\ data' = [data EXCEPT ![p] = Stored]
        /\ Resolve(p, Usable)
        /\ UNCHANGED row
  /\ Release(p)
  /\ UNCHANGED outside

GiveUp(p) ==
  /\ flight[p].pc = "failed" /\ Quiet(p)
  /\ Resolve(p, 0)
  /\ Release(p)
  /\ UNCHANGED <<row, data, outside>>

\* The renewal timer does not look whether the lease has run out meanwhile.
Renew(p) ==
  /\ flight[p].pc \in {"asked", "answered", "refused", "failed"}
  /\ lease = [owner |-> p, valid |-> FALSE]
  /\ lease' = [lease EXCEPT !.valid = TRUE]
  /\ UNCHANGED <<row, data, flight, call, outside>>

(***************************** the world ************************************)
\* Time passes: the lease of a dead process runs out, and that of a process
\* that is suspended (each once at most, a bound).
LeaseExpires ==
  /\ lease.valid
  /\ \/ lease.owner = Orphan
     \/ lease.owner \in Procs \ slept /\ Cardinality(slept) < MaxSuspended
  /\ lease' = [lease EXCEPT !.valid = FALSE]
  /\ slept' = slept \cup ({lease.owner} \ {Orphan})
  /\ UNCHANGED <<row, data, flight, call, stale, grant, stray, logins, crashes, removed>>

\* Access tokens run out in the order they were minted.
Expire ==
  /\ stale < grant /\ stale < MaxStale
  /\ stale' = stale + 1
  /\ UNCHANGED <<row, lease, data, flight, call, grant, stray, faults>>

\* The user logs in again in process p: the provider starts a new grant.  A row that
\* was disabled is not taken up again: the login makes another one, another credential.
Login(p) ==
  /\ row.live /\ Quiet(p) /\ logins < MaxLogins
  /\ logins' = logins + 1
  /\ grant' = grant + 1 /\ stray' = FALSE
  /\ row' = [row EXCEPT !.gen = grant + 1]
  /\ data' = [data EXCEPT ![p] = grant + 1]
  /\ UNCHANGED <<lease, flight, call, stale, slept, crashes, removed>>

\* The user logs out in process p, or removes or disables the credential: its row is
\* disabled whatever it holds.
Remove(p) ==
  /\ row.live /\ Quiet(p) /\ data[p] # 0 /\ logins < MaxLogins
  /\ logins' = logins + 1
  /\ removed' = TRUE
  /\ row' = [row EXCEPT !.live = FALSE]
  /\ data' = [data EXCEPT ![p] = 0]
  /\ UNCHANGED <<lease, flight, call, stale, grant, stray, slept, crashes>>

\* Process p dies and starts again with what is stored.
Crash(p) ==
  /\ crashes < MaxCrashes
  /\ crashes' = crashes + 1
  /\ call' = [c \in Calls |-> IF call[c].at = p THEN Done ELSE call[c]]
  /\ flight' = [flight EXCEPT ![p] = NoFlight]
  /\ data' = [data EXCEPT ![p] = Stored]
  /\ lease' = IF lease.owner = p THEN [lease EXCEPT !.owner = Orphan] ELSE lease
  /\ GoesAstray(p)
  /\ UNCHANGED <<row, stale, grant, slept, logins, removed>>

CallStep(c) ==
  \/ Preflight(c) \/ Prepare(c) \/ SkipBlocked(c) \/ UsageDone(c) \/ Won(c)

FlightStep(p) ==
  \/ Look(p) \/ Acquire(p) \/ Recheck(p) \/ Provider(p) \/ RequestFails(p)
  \/ Persist(p) \/ Discard(p) \/ Disable(p) \/ GiveUp(p)

Next ==
  \/ \E c \in Calls, p \in Procs, f \in BOOLEAN : Start(c, p, f)
  \/ \E c \in Calls, p \in Procs : StartById(c, p)
  \/ \E c \in Calls : CallStep(c) \/ Abort(c)
  \/ \E p \in Procs : FlightStep(p) \/ Renew(p) \/ Login(p) \/ Remove(p) \/ Crash(p)
  \/ Expire \/ LateRotation
  \/ LeaseExpires

Spec ==
  /\ Init
  /\ [][Next]_vars
  /\ \A c \in Calls : WF_vars(CallStep(c))
  /\ \A p \in Procs : WF_vars(FlightStep(p))
  /\ WF_vars(LeaseExpires)

(***************************** properties ***********************************)
\* The one way a token is overwritten by an older one is a call that carries a
\* token its own process has seen replaced since: no refresh, login, lease
\* takeover or restart does it, and no call whose process is up to date.
OnlyOutdatedCallsGoBack ==
  [][row'.gen < row.gen =>
       \E c \in Calls : call[c].pc = "won" /\ call[c].sel < data[call[c].at]]_vars

\* A credential the user has not taken away is disabled only when the provider
\* really refuses its token, whatever rotation, login, removal or lost lease raced
\* the refusal.
DisabledOnlyDead == ~row.live /\ ~removed => row.gen # grant

\* Two processes wait for a refresh at the same time only when the lease of one
\* of them ran out while it was suspended.  (A request is over for its process when
\* its time limit has passed, whatever becomes of it.)
OneRequestAtATime ==
  \A p, q \in Procs :
    p # q /\ flight[p].pc \in {"asked", "answered"} /\ flight[q].pc \in {"asked", "answered"}
      => {p, q} \cap slept # {}

\* A call that asks for a token comes back, with one or without, also when the
\* process that held the lease died: the lease runs out and is taken over.
CallsReturn == \A c \in Calls : call[c].pc # "idle" ~> call[c].pc = "done"
=============================================================================
