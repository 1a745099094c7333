-------------------------- MODULE ClientActivity --------------------------
(***************************************************************************)
(* FClientActivityService: who is connected to the Editor, which requests  *)
(* keep a session alive, who holds the advisory leases (pie, compile,      *)
(* editorRestart, performance), and the ledger of one-shot CLI             *)
(* invocations.                                                            *)
(*                                                                         *)
(* Public methods are called from HTTP worker threads and from the Game    *)
(* Thread; a mutex makes each lock section atomic.  RegisterClient,        *)
(* Heartbeat, BeginRequest and AcquireLease take it twice: first inside    *)
(* ExpireSessions, whose clock value is read before the lock, then for     *)
(* their own work.  A call of those is a record in calls[t] that goes      *)
(* through the two lock sections in two steps; BeginActivity reads the     *)
(* clock before its one lock section and is two steps too; the other       *)
(* methods take the mutex once and are one step.  A method that only       *)
(* reports an error changes nothing and has no step of its own beyond its  *)
(* return.                                                                 *)
(***************************************************************************)
EXTENDS Integers, Sequences, FiniteSets, Functions

CONSTANTS
  Threads,            \* callers of the service: HTTP workers, the Game Thread
  Clients,            \* client processes, by the identity they register
  InstanceOf,         \* the instanceId each client registers
  KindOf,             \* "mcp" or "cli"
  InvocationOf,       \* the invocationId of each client ("cli" clients only)
  LegacyInvocations,  \* invocationIds of CLI callers that hold no session
  SessionIds,         \* opaque session ids (NewOpaqueId never repeats one)
  LeaseTypes,         \* the lease types in play
  LeaseIds,           \* opaque lease ids
  Requests,           \* slots for HTTP requests between Begin and EndRequest
  None,               \* no session, no approval
  MaxSessions,        \* FClientActivityService::MaxSessions (128)
  SessionTimeout,     \* SessionTimeoutSeconds (15)
  LeaseTTL,           \* lease life time (30)
  MaxTerminal,        \* MaxRecentCliInvocations (100)
  AuditCapacity,      \* length of LeaseAudit (100)
  MaxClock,           \* bound on the clock
  MaxStall,           \* bound on the time one call takes, start to end
  MaxRecords          \* bound on ledger records made by session-less callers

ASSUME ActivityAssumption ==
  /\ InstanceOf \in [Clients -> Range(InstanceOf)]
  /\ KindOf \in [Clients -> {"mcp", "cli"}]
  /\ IsFiniteSet(SessionIds) /\ IsFiniteSet(Requests)
  /\ IsFiniteSet(LeaseIds) /\ SessionIds \cap LeaseIds = {}
  /\ MaxSessions \in Nat \ {0} /\ SessionTimeout \in Nat \ {0}
  /\ LeaseTTL \in Nat \ {0} /\ MaxTerminal \in Nat /\ AuditCapacity \in Nat \ {0}
  /\ MaxClock \in Nat /\ MaxStall \in Nat /\ MaxRecords \in Nat

\* A CLI process makes up a fresh invocationId: no other client shares it.
ASSUME InvocationAssumption ==
  \A c, d \in {x \in Clients : KindOf[x] = "cli"} :
     /\ InvocationOf[c] \notin LegacyInvocations
     /\ InvocationOf[c] = InvocationOf[d] => c = d

VARIABLES
  clock,        \* FPlatformTime::Seconds
  sessions,     \* Sessions: id -> registered client, last activity, requests
  byInstance,   \* SessionByInstanceId
  leases,       \* Leases: type -> id, owner, expiry
  audit,        \* LeaseAudit: the approved overrides, oldest first
  ledger,       \* CliInvocations: invocationId -> record
  recorded,     \* Statistics.CliInvocations, which also orders the ledger
  calls,        \* the call each thread is in, if any
  usedIds,      \* every session and lease id handed out so far
  requests,     \* the callers that began a request and did not end it yet
  digests,      \* override digests returned by refused acquisitions
  heard         \* when each live session was last heard from

serviceVars == <<sessions, byInstance, leases, audit, ledger, recorded>>
vars == <<clock, serviceVars, calls, usedIds, requests, digests, heard>>

Live == DOMAIN sessions
With(f, x, v) == [y \in DOMAIN f \cup {x} |-> IF y = x THEN v ELSE f[y]]
IsCli(c) == KindOf[c] = "cli"

Idle == [op |-> "idle"]
NoTime == -1
Session == [client : Clients, last : 0..MaxClock, active : Nat]
Lease == [id : LeaseIds, owner : SessionIds, expires : Nat]
Digest == [type : LeaseTypes, id : LeaseIds, owner : SessionIds, to : SessionIds]

ASSUME NoneAssumption == None \notin SessionIds \cup Digest

Status == {"running", "completed", "failed", "expired", "disconnected"}

Init ==
  /\ clock = 0
  /\ sessions = << >> /\ byInstance = << >> /\ leases = << >>
  /\ audit = << >> /\ ledger = << >> /\ recorded = 0
  /\ calls = [t \in Threads |-> Idle]
  /\ usedIds = {}
  /\ requests = << >>
  /\ digests = {}
  /\ heard = << >>

---------------------------------------------------------------------------
(* The ledger of CLI invocations.                                          *)

Terminal(l) == {i \in DOMAIN l : l[i].status # "running"}

\* PruneCliInvocationsLocked: while too many records are terminal, the oldest
\* terminal one goes.  Running records are never pruned.
Pruned(l) ==
  LET newer(i) == {j \in Terminal(l) : l[j].born > l[i].born}
  IN  Restrict(l, {i \in DOMAIN l :
                      i \in Terminal(l) => Cardinality(newer(i)) < MaxTerminal})

\* FinishInvocationLocked for every invocation in ids, each with its outcome.
Finished(l, ids, outcome) ==
  Pruned([i \in DOMAIN l |->
            IF i \in ids THEN [l[i] EXCEPT !.status = outcome] ELSE l[i]])

\* Mutant: an invocation that comes back keeps its finished status.
RecordedNotReopened(l, i) ==
  IF i \in DOMAIN l THEN l
  ELSE Pruned(With(l, i, [status |-> "running", active |-> 0,
                          hadFailure |-> FALSE, born |-> recorded + 1]))

\* RecordCliInvocationLocked: a known invocation runs again, keeping its failure
\* flag and its request count; an unknown one is added to the end.
Recorded(l, i) ==
  IF i \in DOMAIN l
  THEN [l EXCEPT ![i].status = "running"]
  ELSE Pruned(With(l, i, [status |-> "running", active |-> 0,
                          hadFailure |-> FALSE, born |-> recorded + 1]))

RecordCount(i) == IF i \in DOMAIN ledger THEN recorded ELSE recorded + 1

\* Mutant: an invocation with a failure is left as it is.
OutcomeOnlyOfSuccess(l, i) == IF l[i].hadFailure THEN l[i].status ELSE "completed"

Outcome(l, i) == IF i \in DOMAIN l /\ l[i].hadFailure THEN "failed" ELSE "completed"

InvocationsOf(S) == {InvocationOf[sessions[s].client] :
                        s \in {x \in S : IsCli(sessions[x].client)}}

---------------------------------------------------------------------------
(* Dropping sessions: expiry, unregistration, service shutdown.            *)

\* Mutant: the index entry of a dropped session stays.
DropKeepsIndex(S) ==
  /\ sessions' = Restrict(sessions, Live \ S)
  /\ heard' = Restrict(heard, Live \ S)
  /\ UNCHANGED byInstance

\* A dropped session takes its index entry and its leases with it.
Drop(S) ==
  /\ sessions' = Restrict(sessions, Live \ S)
  /\ heard' = Restrict(heard, Live \ S)
  /\ byInstance' = Restrict(byInstance,
        DOMAIN byInstance \ {InstanceOf[sessions[s].client] : s \in S})

\* Mutant: dropped sessions keep their leases.
LeasesOfAnybody(S) == DOMAIN leases

LeasesNotOwnedBy(S) == {t \in DOMAIN leases : leases[t].owner \notin S}

\* Mutant: expiry comes a tick early.
ExpiredEarly(now) == {s \in Live : /\ sessions[s].active = 0
                                   /\ sessions[s].last <= now - SessionTimeout}

\* Sessions that expire at time now: silent for too long, and no open request.
Expired(now) == {s \in Live : /\ sessions[s].active = 0
                              /\ sessions[s].last < now - SessionTimeout}

\* ExpireSessions(now): the sessions, then the leases past their time.
ExpireSessions(now) ==
  /\ Drop(Expired(now))
  /\ leases' = Restrict(leases,
        {t \in LeasesNotOwnedBy(Expired(now)) : leases[t].expires > now})
  /\ ledger' = Finished(ledger, InvocationsOf(Expired(now)), "expired")
  /\ UNCHANGED <<audit, recorded>>

---------------------------------------------------------------------------
(* Calls that take the mutex twice.                                        *)

Start(t, call) ==
  /\ calls[t] = Idle
  /\ calls' = [calls EXCEPT ![t] = call]
  /\ UNCHANGED <<clock, serviceVars, usedIds, requests, digests, heard>>

\* Bound: a call that may need a fresh id starts only while one is left for it.
IdLeft(op, ids) ==
  Cardinality(ids \cap usedIds) + Cardinality({u \in Threads : calls[u].op = op})
    < Cardinality(ids)

StartRegister(t) == \E c \in Clients :
  /\ IdLeft("register", SessionIds)
  /\ Start(t, [op |-> "register", client |-> c, now |-> clock, swept |-> FALSE])
StartHeartbeat(t) == \E s \in usedIds \cap SessionIds :
  Start(t, [op |-> "heartbeat", session |-> s, now |-> clock, swept |-> FALSE])
StartBegin(t) == \E s \in usedIds \cap SessionIds :
  Start(t, [op |-> "begin", session |-> s, now |-> clock, swept |-> FALSE])
StartAcquire(t) ==
  \E s \in usedIds \cap SessionIds, type \in LeaseTypes, d \in digests \cup {None} :
    /\ IdLeft("acquire", LeaseIds)
    /\ Start(t, [op |-> "acquire", session |-> s, type |-> type, approval |-> d,
                 now |-> clock, swept |-> FALSE])
\* The subsystem's Tick, the snapshots and CanAccessLease only expire sessions.
StartSweep(t) ==
  Start(t, [op |-> "sweep", now |-> clock, swept |-> FALSE])

\* The first lock section, with the clock value read before the lock was taken.
Sweep(t) ==
  /\ calls[t] # Idle /\ ~calls[t].swept
  /\ ExpireSessions(calls[t].now)
  /\ calls' = [calls EXCEPT ![t] =
        IF calls[t].op = "sweep" THEN Idle ELSE [calls[t] EXCEPT !.swept = TRUE]]
  /\ UNCHANGED <<clock, usedIds, requests, digests>>

InBody(t, op) == calls[t].op = op /\ calls[t].swept
Return(t) == calls' = [calls EXCEPT ![t] = Idle]

Known(i) == i \in DOMAIN byInstance /\ byInstance[i] \in Live
\* Mutant: one session too many.
RegistryHasRoomOffByOne == Cardinality(Live) <= MaxSessions
RegistryHasRoom == Cardinality(Live) < MaxSessions
\* Mutant: registering again starts the request count from zero.
RefreshedAnew(s, now) == [sessions EXCEPT ![s].last = now, ![s].active = 0]
Refreshed(s, now) == [sessions EXCEPT ![s].last = now]

\* RegisterClient: a known instance gets its session back, refreshed to the time
\* read when the call began, or an error if another client registered it.
RegisterKnown(t) ==
  LET c == calls[t].client
      s == byInstance[InstanceOf[c]]
  IN  /\ InBody(t, "register") /\ Known(InstanceOf[c])
      /\ IF sessions[s].client = c
         THEN /\ sessions' = Refreshed(s, calls[t].now)
              /\ heard' = [heard EXCEPT ![s] = clock]
         ELSE UNCHANGED <<sessions, heard>>
      /\ Return(t)
      /\ UNCHANGED <<clock, byInstance, leases, audit, ledger, recorded, usedIds,
                     requests, digests>>

RegisterNew(t) ==
  LET c == calls[t].client IN
  /\ InBody(t, "register") /\ ~Known(InstanceOf[c])
  /\ RegistryHasRoom
  /\ \E s \in SessionIds \ usedIds :
       /\ sessions' = With(sessions, s,
                           [client |-> c, last |-> calls[t].now, active |-> 0])
       /\ byInstance' = With(byInstance, InstanceOf[c], s)
       /\ heard' = With(heard, s, clock)
       /\ usedIds' = usedIds \cup {s}
  /\ IF IsCli(c)
     THEN /\ ledger' = Recorded(ledger, InvocationOf[c])
          /\ recorded' = RecordCount(InvocationOf[c])
     ELSE UNCHANGED <<ledger, recorded>>
  /\ Return(t)
  /\ UNCHANGED <<clock, leases, audit, requests, digests>>

RegistryFull(t) ==
  LET i == InstanceOf[calls[t].client] IN
  /\ InBody(t, "register") /\ ~Known(i)
  /\ ~RegistryHasRoom
  /\ byInstance' = Restrict(byInstance, DOMAIN byInstance \ {i})
  /\ Return(t)
  /\ UNCHANGED <<clock, sessions, leases, audit, ledger, recorded, usedIds, requests,
                 digests, heard>>

\* Heartbeat: refreshes the session and renews every lease it owns.
Heartbeat(t) ==
  LET s == calls[t].session IN
  /\ InBody(t, "heartbeat")
  /\ IF s \in Live
     THEN /\ sessions' = Refreshed(s, clock)
          /\ leases' = [x \in DOMAIN leases |->
                          IF leases[x].owner = s
                          THEN [leases[x] EXCEPT !.expires = clock + LeaseTTL]
                          ELSE leases[x]]
          /\ heard' = [heard EXCEPT ![s] = clock]
     ELSE UNCHANGED <<sessions, leases, heard>>
  /\ Return(t)
  /\ UNCHANGED <<clock, byInstance, audit, ledger, recorded, usedIds, requests, digests>>

\* BeginRequest with a session id: pins the session until EndRequest.
BeginRequest(t) ==
  LET s == calls[t].session IN
  /\ InBody(t, "begin")
  /\ IF s \in Live
     THEN \E r \in Requests \ DOMAIN requests :
            /\ sessions' = [sessions EXCEPT ![s].last = clock, ![s].active = @ + 1]
            /\ heard' = [heard EXCEPT ![s] = clock]
            /\ requests' = With(requests, r,
                 [session |-> s, invocation |->
                    IF IsCli(sessions[s].client)
                    THEN InvocationOf[sessions[s].client] ELSE None,
                  logged |-> FALSE, stamp |-> NoTime])
     ELSE UNCHANGED <<sessions, requests, heard>>
  /\ Return(t)
  /\ UNCHANGED <<clock, byInstance, leases, audit, ledger, recorded, usedIds, digests>>

\* LeaseOverrideDigest: server instance, type, lease, current and next owner.
OverrideDigest(type, s) ==
  [type |-> type, id |-> leases[type].id, owner |-> leases[type].owner, to |-> s]

OwnedBy(type, s) == type \in DOMAIN leases /\ leases[type].owner = s
OwnedByOther(type, s) == type \in DOMAIN leases /\ leases[type].owner # s
\* Mutant: any approval will do.
ApprovedByAny(d, type, s) == d # None
Approved(d, type, s) == d = OverrideDigest(type, s)

\* Mutant: a takeover keeps the lease id.
GrantIdsKept(type, s) ==
  IF type \in DOMAIN leases THEN {leases[type].id} ELSE LeaseIds \ usedIds

\* The owner renews under the same lease id; a free lease, or one taken over, gets
\* a fresh one.
GrantIds(type, s) ==
  IF OwnedBy(type, s) THEN {leases[type].id} ELSE LeaseIds \ usedIds

\* AcquireLease refused: the caller is gone (404), or another session owns the
\* lease and the digest of this very override was not presented (409).
AcquireRefused(t) ==
  LET s == calls[t].session
      type == calls[t].type
  IN  /\ InBody(t, "acquire")
      /\ \/ /\ s \notin Live
            /\ UNCHANGED digests
         \/ /\ s \in Live
            /\ OwnedByOther(type, s)
            /\ ~Approved(calls[t].approval, type, s)
            /\ digests' = digests \cup {OverrideDigest(type, s)}
      /\ Return(t)
      /\ UNCHANGED <<clock, serviceVars, usedIds, requests, heard>>

LastOf(n, seq) == IF Len(seq) > n THEN SubSeq(seq, Len(seq) - n + 1, Len(seq)) ELSE seq

\* AcquireLease granted: a free lease, a renewal, or an approved override.
AcquireGranted(t) ==
  LET s == calls[t].session
      type == calls[t].type
      override == OwnedByOther(type, s)
  IN  /\ InBody(t, "acquire")
      /\ s \in Live
      /\ override => Approved(calls[t].approval, type, s)
      /\ \E id \in GrantIds(type, s) :
           /\ leases' = With(leases, type,
                [id |-> id, owner |-> s, expires |-> clock + LeaseTTL])
           /\ usedIds' = usedIds \cup {id}
      /\ audit' = IF override
                  THEN LastOf(AuditCapacity, Append(audit, OverrideDigest(type, s)))
                  ELSE audit
      /\ Return(t)
      /\ UNCHANGED <<clock, sessions, byInstance, ledger, recorded, requests, digests,
                     heard>>

---------------------------------------------------------------------------
(* Methods that take the mutex once.                                       *)

UnregisterClient(s) ==
  /\ s \in Live /\ sessions[s].active = 0
  /\ Drop({s})
  /\ leases' = Restrict(leases, LeasesNotOwnedBy({s}))
  /\ ledger' = IF IsCli(sessions[s].client)
               THEN LET i == InvocationOf[sessions[s].client]
                    IN  Finished(ledger, {i}, Outcome(ledger, i))
               ELSE ledger
  /\ UNCHANGED <<clock, audit, recorded, calls, usedIds, requests, digests>>

\* The subsystem disables or restarts the service.
DisconnectAllSessions ==
  /\ Live # {}
  /\ ledger' = Finished(ledger, InvocationsOf(Live), "disconnected")
  /\ sessions' = << >> /\ byInstance' = << >> /\ leases' = << >> /\ heard' = << >>
  /\ UNCHANGED <<clock, audit, recorded, calls, usedIds, requests, digests>>

\* BeginRequest of a CLI caller without a session: its invocation counts it.
BeginLegacyRequest(i) ==
  /\ recorded < MaxRecords
  /\ \E r \in Requests \ DOMAIN requests :
       requests' = With(requests, r, [session |-> None, invocation |-> i,
                                      logged |-> FALSE, stamp |-> NoTime])
  /\ ledger' = [Recorded(ledger, i) EXCEPT ![i].active = @ + 1]
  /\ recorded' = RecordCount(i)
  /\ UNCHANGED <<clock, sessions, byInstance, leases, audit, calls, usedIds, digests,
                 heard>>

\* BeginActivity reads the clock before it takes the lock.
StampActivity(r) ==
  /\ ~requests[r].logged /\ requests[r].stamp = NoTime
  /\ requests' = [requests EXCEPT ![r].stamp = clock]
  /\ UNCHANGED <<clock, serviceVars, calls, usedIds, digests, heard>>

\* BeginActivity, another lock section after BeginRequest: the session gets the time
\* read before the lock, even if a later one was written since, and the CLI
\* invocation runs, again if it was finished in between.  (The list of activities
\* it also writes is left out.)
BeginActivity(r) ==
  LET s == requests[r].session
      i == requests[r].invocation
  IN  /\ requests[r].stamp # NoTime
      /\ requests' = [requests EXCEPT ![r].logged = TRUE, ![r].stamp = NoTime]
      /\ IF s \in Live
         THEN /\ sessions' = Refreshed(s, requests[r].stamp)
              /\ heard' = [heard EXCEPT ![s] = clock]
         ELSE UNCHANGED <<sessions, heard>>
      /\ IF i # None
         THEN ledger' = Recorded(ledger, i) /\ recorded' = RecordCount(i)
         ELSE UNCHANGED <<ledger, recorded>>
      /\ UNCHANGED <<clock, byInstance, leases, audit, calls, usedIds, digests>>

\* CompleteActivityFromHttp of a request that failed, was blocked or rejected:
\* the invocation it belongs to remembers it.
CompleteWithFailure(r) ==
  LET i == requests[r].invocation IN
  /\ requests[r].logged
  /\ i \in DOMAIN ledger
  /\ ledger' = [ledger EXCEPT ![i].hadFailure = TRUE]
  /\ UNCHANGED <<clock, sessions, byInstance, leases, audit, recorded, calls, usedIds,
                 requests, digests, heard>>

Decremented(n) == IF n > 0 THEN n - 1 ELSE 0

\* EndRequest: the session's count, or the invocation's, which finishes at zero.  The
\* handler calls it after BeginActivity returned.
EndRequest(r) ==
  LET s == requests[r].session
      i == requests[r].invocation
  IN  /\ requests[r].stamp = NoTime
      /\ requests' = Restrict(requests, DOMAIN requests \ {r})
      /\ IF s \in Live
         THEN /\ sessions' = [sessions EXCEPT ![s].active = Decremented(@),
                                              ![s].last = clock]
              /\ heard' = [heard EXCEPT ![s] = clock]
         ELSE UNCHANGED <<sessions, heard>>
      /\ IF s = None /\ i \in DOMAIN ledger
         THEN LET l == [ledger EXCEPT ![i].active = Decremented(@)]
              IN  ledger' = IF l[i].active = 0
                            THEN Finished(l, {i}, Outcome(l, i)) ELSE l
         ELSE UNCHANGED ledger
      /\ UNCHANGED <<clock, byInstance, leases, audit, recorded, calls, usedIds, digests>>

ReleaseLease(type, s) ==
  /\ OwnedBy(type, s)
  /\ leases' = Restrict(leases, DOMAIN leases \ {type})
  /\ UNCHANGED <<clock, sessions, byInstance, audit, ledger, recorded, calls, usedIds,
                 requests, digests, heard>>

\* Time passes, but no call stays between its clock reading and its return for
\* more than MaxStall.
Tick ==
  /\ clock < MaxClock
  /\ \A t \in {u \in Threads : calls[u] # Idle} : clock < calls[t].now + MaxStall
  /\ \A r \in DOMAIN requests : requests[r].stamp # NoTime =>
                                  clock < requests[r].stamp + MaxStall
  /\ clock' = clock + 1
  /\ UNCHANGED <<serviceVars, calls, usedIds, requests, digests, heard>>

Method(t) ==
  \/ StartRegister(t) \/ StartHeartbeat(t) \/ StartBegin(t) \/ StartAcquire(t)
  \/ StartSweep(t) \/ Sweep(t)
  \/ RegisterKnown(t) \/ RegisterNew(t) \/ RegistryFull(t)
  \/ Heartbeat(t) \/ BeginRequest(t) \/ AcquireRefused(t) \/ AcquireGranted(t)

Next ==
  \/ \E t \in Threads : Method(t)
  \/ \E s \in Live : UnregisterClient(s)
  \/ DisconnectAllSessions
  \/ \E i \in LegacyInvocations : BeginLegacyRequest(i)
  \/ \E r \in DOMAIN requests :
        StampActivity(r) \/ BeginActivity(r) \/ CompleteWithFailure(r) \/ EndRequest(r)
  \/ \E type \in LeaseTypes, s \in Live : ReleaseLease(type, s)
  \/ Tick

Spec == Init /\ [][Next]_vars

---------------------------------------------------------------------------
(* Properties.                                                             *)

Record == [status : Status, active : Nat, hadFailure : BOOLEAN, born : Nat]
RegisterCall == [op : {"register"}, client : Clients, now : 0..MaxClock, swept : BOOLEAN]
SessionCall == [op : {"heartbeat", "begin"}, session : SessionIds, now : 0..MaxClock,
                swept : BOOLEAN]
AcquireCall == [op : {"acquire"}, session : SessionIds, type : LeaseTypes,
                approval : Digest \cup {None}, now : 0..MaxClock, swept : BOOLEAN]
SweepCall == [op : {"sweep"}, now : 0..MaxClock, swept : {FALSE}]
InvocationIds == {InvocationOf[c] : c \in Clients} \cup LegacyInvocations
Request == [session : SessionIds \cup {None}, invocation : InvocationIds \cup {None},
            logged : BOOLEAN, stamp : 0..MaxClock \cup {NoTime}]
Call == {Idle} \cup RegisterCall \cup SessionCall \cup AcquireCall \cup SweepCall

\* The variables have their types, and the containers the sizes the service
\* promises: at most MaxSessions sessions and AuditCapacity audit entries.
SessionsOK ==
  /\ Live \subseteq SessionIds \cap usedIds
  /\ \A s \in Live : sessions[s] \in Session
  /\ Cardinality(Live) <= MaxSessions
  /\ \A i \in DOMAIN byInstance : byInstance[i] \in SessionIds
  /\ DOMAIN heard = Live /\ \A s \in Live : heard[s] \in 0..MaxClock
LeasesOK ==
  /\ usedIds \subseteq SessionIds \cup LeaseIds
  /\ DOMAIN leases \subseteq LeaseTypes /\ \A t \in DOMAIN leases : leases[t] \in Lease
  /\ audit \in Seq(Digest) /\ Len(audit) <= AuditCapacity
  /\ digests \subseteq Digest
LedgerOK == recorded \in Nat /\ \A i \in DOMAIN ledger : ledger[i] \in Record
CallsOK ==
  /\ clock \in 0..MaxClock
  /\ calls \in [Threads -> Call]
  /\ DOMAIN requests \subseteq Requests
  /\ \A r \in DOMAIN requests : requests[r] \in Request
TypeOK == SessionsOK /\ LeasesOK /\ LedgerOK /\ CallsOK

\* A lease belongs to a registered session: no session leaves the registry, by
\* any of the three ways out, and keeps a lease, and an acquisition whose session
\* expires between the two lock sections gets nothing.
LeaseOwnerIsLive == \A t \in DOMAIN leases : leases[t].owner \in Live

\* SessionByInstanceId is the exact inverse of the registry: a client that comes
\* back finds its session, and two live sessions never share an instanceId.
InstanceIndexExact ==
  /\ \A i \in DOMAIN byInstance :
        byInstance[i] \in Live /\ InstanceOf[sessions[byInstance[i]].client] = i
  /\ \A s \in Live : LET i == InstanceOf[sessions[s].client]
                     IN  i \in DOMAIN byInstance /\ byInstance[i] = s

OpenRequests(s) == {r \in DOMAIN requests : requests[r].session = s}

\* ActiveRequestCount is the number of requests the session began and did not
\* end, also when sessions were disconnected under open requests and the same
\* client registered again.
RequestCountExact ==
  \A s \in Live : sessions[s].active = Cardinality(OpenRequests(s))

\* A session with an open request is pinned: only a disconnect of everybody
\* removes it.
PinnedSessionStays ==
  [][\A s \in Live \ DOMAIN sessions' : OpenRequests(s) # {} => sessions' = << >>]_vars

\* Lease grants are told apart by their id: a step that keeps the id keeps the
\* owner, so an override digest names one grant and no later one.
GrantKeepsItsOwner ==
  [][\A t \in DOMAIN leases \cap DOMAIN leases' :
       leases'[t].id = leases[t].id => leases'[t].owner = leases[t].owner]_vars

\* A lease passes from one owner to another in one step only if a refusal about
\* this grant, and this pair of sessions, was returned before.
TakeoverWasAnnounced ==
  [][\A t \in DOMAIN leases \cap DOMAIN leases' :
       leases'[t].owner # leases[t].owner =>
         [type |-> t, id |-> leases[t].id, owner |-> leases[t].owner,
          to |-> leases'[t].owner] \in digests]_vars

\* One approval moves a lease once: no digest is used for two overrides, however
\* the lease goes back and forth between the sessions.
ApprovalSpentOnce == IsInjective(audit)

SweepStep == \E t \in Threads :
  calls[t] # Idle /\ ~calls[t].swept /\ calls'[t] # calls[t]

\* Expiry takes only sessions the service did not hear from for SessionTimeout,
\* less the time a registration may wait between reading the clock and writing
\* it: a late RegisterKnown or BeginActivity puts the session's clock back by at
\* most that.
ExpiredWasSilent ==
  [][SweepStep => \A s \in Live \ DOMAIN sessions' :
                    clock - heard[s] > SessionTimeout - MaxStall]_vars

\* What backs an invocation: a live session of its client, or an open request of a
\* caller without session.
Backed(i) ==
  \/ i \in InvocationsOf(Live)
  \/ \E r \in DOMAIN requests : requests[r].session = None /\ requests[r].invocation = i

\* The ledger shows an invocation running while something backs it: nothing finishes
\* it early, and pruning leaves it alone.
BackedIsRunning ==
  \A i \in InvocationsOf(Live) \cup {requests[r].invocation : r \in DOMAIN requests} :
     Backed(i) => i \in DOMAIN ledger /\ ledger[i].status = "running"

\* The step that takes the last backing away finishes the invocation, whichever of
\* the four ways out it is.  (A BeginActivity that comes after its session was
\* disconnected makes the invocation run again, with nothing to back it.)
UnbackedIsFinished ==
  [][\A i \in DOMAIN ledger' :
       Backed(i) /\ ~Backed(i)' => ledger'[i].status # "running"]_vars

=============================================================================
