------------------------ MODULE ClientActivityProofs ------------------------
(***************************************************************************)
(* Theorems about ClientActivity, for every value of its constants.        *)
(***************************************************************************)
EXTENDS ClientActivity, FiniteSetTheorems, SequenceTheorems, TLAPS

USE ActivityAssumption

---------------------------------------------------------------------------
(* What the operators of the model keep.                                   *)

\* Fewer sessions stay well-typed: any function that agrees with sessions on a
\* part of its domain, with an index into them, satisfies SessionsOK.
LEMMA DropKeepsSessionsOK ==
  ASSUME SessionsOK, UNCHANGED usedIds, NEW S, Drop(S)
  PROVE  SessionsOK'
<1>1. Live' = Live \ S  BY DEF Drop, Restrict, Live
<1>2. IsFiniteSet(Live) /\ Cardinality(Live') <= Cardinality(Live)
  BY <1>1, FS_Subset DEF SessionsOK
<1>3. Cardinality(Live) \in Nat /\ Cardinality(Live') \in Nat
  BY <1>1, <1>2, FS_CardinalityType, FS_Subset
<1>4. Cardinality(Live') <= MaxSessions
  BY <1>2, <1>3 DEF SessionsOK
<1>5. \A s \in Live' : sessions'[s] = sessions[s] /\ heard'[s] = heard[s]
  BY <1>1 DEF Drop, Restrict
<1>6. DOMAIN heard' = Live'
  BY <1>1 DEF Drop, Restrict
<1>7. \A i \in DOMAIN byInstance' : byInstance'[i] \in SessionIds
  BY DEF Drop, Restrict, SessionsOK
<1> QED BY <1>1, <1>4, <1>5, <1>6, <1>7 DEF SessionsOK

\* Pruning forgets records and changes none.
LEMMA PrunedRecords ==
  ASSUME NEW l, \A i \in DOMAIN l : l[i] \in Record
  PROVE  \A i \in DOMAIN Pruned(l) : Pruned(l)[i] \in Record
BY DEF Pruned, Restrict

\* Finishing invocations gives records again.
LEMMA FinishedRecords ==
  ASSUME NEW l, \A i \in DOMAIN l : l[i] \in Record, NEW ids, NEW outcome \in Status
  PROVE  \A i \in DOMAIN Finished(l, ids, outcome) : Finished(l, ids, outcome)[i] \in Record
<1> DEFINE m == [i \in DOMAIN l |->
                   IF i \in ids THEN [l[i] EXCEPT !.status = outcome] ELSE l[i]]
<1>1. \A i \in DOMAIN m : m[i] \in Record  BY DEF Record
<1> HIDE DEF m
<1>2. \A i \in DOMAIN Pruned(m) : Pruned(m)[i] \in Record  BY <1>1, PrunedRecords
<1> QED BY <1>2 DEF Finished, m

\* Recording an invocation gives records again.
LEMMA RecordedRecords ==
  ASSUME NEW l, \A i \in DOMAIN l : l[i] \in Record, recorded \in Nat, NEW j
  PROVE  \A i \in DOMAIN Recorded(l, j) : Recorded(l, j)[i] \in Record
<1>1. CASE j \in DOMAIN l
  BY <1>1 DEF Recorded, Record, Status
<1>2. CASE j \notin DOMAIN l
  <2> DEFINE m == With(l, j, [status |-> "running", active |-> 0,
                              hadFailure |-> FALSE, born |-> recorded + 1])
  <2>1. \A i \in DOMAIN m : m[i] \in Record  BY DEF With, Record, Status
  <2> HIDE DEF m
  <2>2. \A i \in DOMAIN Pruned(m) : Pruned(m)[i] \in Record  BY <2>1, PrunedRecords
  <2> QED BY <1>2, <2>2 DEF Recorded, m
<1> QED BY <1>1, <1>2

\* The audit stays a sequence of at most AuditCapacity overrides.
LEMMA LastOfSeq ==
  ASSUME NEW S, NEW q \in Seq(S), NEW n \in Nat \ {0}
  PROVE  LastOf(n, q) \in Seq(S) /\ Len(LastOf(n, q)) <= n
<1>1. Len(q) \in Nat /\ \A i \in 1..Len(q) : q[i] \in S  BY LenProperties, ElementOfSeq
<1>2. CASE Len(q) > n
  <2> DEFINE m == Len(q) - n + 1
  <2>1. m \in Int /\ m >= 1 /\ m <= Len(q)  BY <1>1, <1>2
  <2>2. \A i \in m..Len(q) : q[i] \in S  BY <1>1, <2>1
  <2>3. SubSeq(q, m, Len(q)) \in Seq(S) /\ Len(SubSeq(q, m, Len(q))) = Len(q) - m + 1
    <3> HIDE DEF m
    <3> QED BY <1>1, <2>1, <2>2, SubSeqProperties
  <2> QED BY <1>1, <1>2, <2>3 DEF LastOf
<1>3. CASE ~(Len(q) > n)  BY <1>1, <1>3 DEF LastOf
<1> QED BY <1>2, <1>3

\* The fields a call has, by its method.
LEMMA CallFields ==
  ASSUME CallsOK, NEW t \in Threads
  PROVE  /\ calls[t] # Idle => calls[t].now \in 0..MaxClock
         /\ InBody(t, "register") => calls[t] \in RegisterCall
         /\ InBody(t, "heartbeat") => calls[t] \in SessionCall
         /\ InBody(t, "begin") => calls[t] \in SessionCall
         /\ InBody(t, "acquire") => calls[t] \in AcquireCall
<1>1. calls[t] \in Call  BY DEF CallsOK
<1>2. CASE calls[t] = Idle  BY <1>2 DEF Idle, InBody
<1>3. CASE calls[t] \in RegisterCall  BY <1>3 DEF RegisterCall, InBody
<1>4. CASE calls[t] \in SessionCall  BY <1>4 DEF SessionCall, InBody
<1>5. CASE calls[t] \in AcquireCall  BY <1>5 DEF AcquireCall, InBody
<1>6. CASE calls[t] \in SweepCall  BY <1>6 DEF SweepCall, InBody
<1> QED BY <1>1, <1>2, <1>3, <1>4, <1>5, <1>6 DEF Call

---------------------------------------------------------------------------
(* Type correctness, one part of TypeOK at a time.                         *)

\* A step that leaves the registry alone keeps it well-typed.
LEMMA SameSessionsOK ==
  ASSUME SessionsOK, UNCHANGED <<sessions, byInstance, heard>>, usedIds \subseteq usedIds'
  PROVE  SessionsOK'
BY DEF SessionsOK, Live

\* The registry part of BeginActivity: at most one session is refreshed.
LEMMA LoggedSessions ==
  ASSUME TypeOK, NEW r \in DOMAIN requests, BeginActivity(r)
  PROVE  /\ Live' = Live /\ DOMAIN heard' = Live
         /\ \A s \in Live : /\ sessions'[s] \in Session /\ heard'[s] \in 0..MaxClock
                            /\ sessions'[s].client = sessions[s].client
                            /\ sessions'[s].active = sessions[s].active
<1>0. \A s \in Live : sessions[s] \in Session /\ heard[s] \in 0..MaxClock
      /\ DOMAIN heard = Live /\ clock \in 0..MaxClock
  BY DEF TypeOK, SessionsOK, CallsOK
<1>1. PICK s : s = requests[r].session  OBVIOUS
<1>2. CASE s \in Live
  <2>0. requests[r].stamp \in 0..MaxClock  BY DEF BeginActivity, TypeOK, CallsOK, Request
  <2>1. /\ sessions' = [sessions EXCEPT ![s].last = requests[r].stamp]
        /\ heard' = [heard EXCEPT ![s] = clock]
    BY <1>1, <1>2 DEF BeginActivity, Refreshed
  <2> QED BY <1>0, <1>2, <2>0, <2>1 DEF Live, Session
<1>3. CASE s \notin Live
  <2>1. UNCHANGED <<sessions, heard>>  BY <1>1, <1>3 DEF BeginActivity
  <2> QED BY <1>0, <2>1 DEF Live, TypeOK, SessionsOK
<1> QED BY <1>2, <1>3

LEMMA SessionsOKInductive ==
  ASSUME TypeOK, Next
  PROVE  SessionsOK'
<1> USE DEF TypeOK
<1>1. ASSUME NEW t \in Threads, NEW call, Start(t, call)  PROVE SessionsOK'
  BY <1>1, SameSessionsOK DEF Start, serviceVars
<1>2. ASSUME NEW t \in Threads, Sweep(t)  PROVE SessionsOK'
  BY <1>2, DropKeepsSessionsOK DEF Sweep, ExpireSessions
<1>3. ASSUME NEW t \in Threads, RegisterKnown(t)  PROVE SessionsOK'
  <2> DEFINE c == calls[t].client
             s == byInstance[InstanceOf[c]]
  <2>1. calls[t].now \in 0..MaxClock  BY <1>3, CallFields DEF RegisterKnown, InBody, Idle
  <2>2. CASE sessions[s].client = c
    <3>1. sessions' = Refreshed(s, calls[t].now) /\ heard' = [heard EXCEPT ![s] = clock]
      BY <1>3, <2>2 DEF RegisterKnown
    <3>2. Live' = Live /\ DOMAIN heard' = Live'
      BY <3>1 DEF Refreshed, Live, SessionsOK
    <3>3. \A x \in Live : sessions'[x] \in Session /\ heard'[x] \in 0..MaxClock
      BY <2>1, <3>1 DEF Refreshed, Live, SessionsOK, Session, CallsOK
    <3> QED BY <1>3, <3>2, <3>3 DEF SessionsOK, RegisterKnown
  <2>3. CASE sessions[s].client # c
    BY <1>3, <2>3, SameSessionsOK DEF RegisterKnown
  <2> QED BY <2>2, <2>3
<1>4. ASSUME NEW t \in Threads, RegisterNew(t)  PROVE SessionsOK'
  <2> DEFINE c == calls[t].client
  <2>1. calls[t] \in RegisterCall  BY <1>4, CallFields DEF RegisterNew
  <2>2. PICK s \in SessionIds \ usedIds :
          /\ sessions' = With(sessions, s,
                              [client |-> c, last |-> calls[t].now, active |-> 0])
          /\ byInstance' = With(byInstance, InstanceOf[c], s)
          /\ heard' = With(heard, s, clock)
          /\ usedIds' = usedIds \cup {s}
    BY <1>4 DEF RegisterNew
  <2>3. Live' = Live \cup {s} /\ DOMAIN heard' = Live'
    BY <2>2 DEF With, Live, SessionsOK
  <2>4. \A x \in Live' : sessions'[x] \in Session /\ heard'[x] \in 0..MaxClock
    BY <2>1, <2>2, <2>3 DEF With, Live, SessionsOK, Session, CallsOK, RegisterCall
  <2>5. Cardinality(Live') <= MaxSessions
    <3>1. IsFiniteSet(Live)  BY FS_Subset DEF SessionsOK
    <3>2. Cardinality(Live) \in Nat  BY <3>1, FS_CardinalityType
    <3>3. Cardinality(Live \cup {s}) = IF s \in Live THEN Cardinality(Live)
                                                    ELSE Cardinality(Live) + 1
      BY <3>1, FS_AddElement
    <3> QED BY <1>4, <2>3, <3>2, <3>3 DEF RegisterNew, RegistryHasRoom
  <2>6. \A i \in DOMAIN byInstance' : byInstance'[i] \in SessionIds
    BY <2>2 DEF With, SessionsOK
  <2> QED BY <2>2, <2>3, <2>4, <2>5, <2>6 DEF SessionsOK
<1>5. ASSUME NEW t \in Threads, RegistryFull(t)  PROVE SessionsOK'
  BY <1>5 DEF RegistryFull, SessionsOK, Restrict, Live
<1>6. ASSUME NEW t \in Threads, Heartbeat(t)  PROVE SessionsOK'
  BY <1>6 DEF Heartbeat, Refreshed, SessionsOK, Session, CallsOK, Live
<1>7. ASSUME NEW t \in Threads, BeginRequest(t)  PROVE SessionsOK'
  BY <1>7 DEF BeginRequest, SessionsOK, Session, CallsOK, Live
<1>8. ASSUME NEW t \in Threads, AcquireRefused(t) \/ AcquireGranted(t)  PROVE SessionsOK'
  BY <1>8, SameSessionsOK DEF AcquireRefused, AcquireGranted, serviceVars
<1>9. ASSUME NEW s \in Live, UnregisterClient(s)  PROVE SessionsOK'
  BY <1>9, DropKeepsSessionsOK DEF UnregisterClient
<1>10. CASE DisconnectAllSessions
  <2>1. Live' = {} /\ DOMAIN byInstance' = {} /\ DOMAIN heard' = {}
    BY <1>10 DEF DisconnectAllSessions, Live
  <2>2. Cardinality(Live') <= MaxSessions  BY <2>1, FS_EmptySet
  <2> QED BY <2>1, <2>2 DEF SessionsOK
<1>11. ASSUME NEW i \in LegacyInvocations, BeginLegacyRequest(i)  PROVE SessionsOK'
  BY <1>11, SameSessionsOK DEF BeginLegacyRequest
<1>12. ASSUME NEW r \in DOMAIN requests, CompleteWithFailure(r)  PROVE SessionsOK'
  BY <1>12, SameSessionsOK DEF CompleteWithFailure
<1>13. ASSUME NEW r \in DOMAIN requests, EndRequest(r)  PROVE SessionsOK'
  BY <1>13 DEF EndRequest, Decremented, SessionsOK, Session, CallsOK, Live
<1>14. ASSUME NEW type \in LeaseTypes, NEW s \in Live, ReleaseLease(type, s)
       PROVE SessionsOK'
  BY <1>14, SameSessionsOK DEF ReleaseLease
<1>15. CASE Tick  BY <1>15, SameSessionsOK DEF Tick, serviceVars
<1>16. ASSUME NEW r \in DOMAIN requests, BeginActivity(r)  PROVE SessionsOK'
  <2>1. Live' = Live /\ DOMAIN heard' = Live'
        /\ \A s \in Live : sessions'[s] \in Session /\ heard'[s] \in 0..MaxClock
    BY <1>16, LoggedSessions
  <2>2. UNCHANGED <<byInstance, usedIds>>  BY <1>16 DEF BeginActivity
  <2> QED BY <2>1, <2>2 DEF SessionsOK
<1>17. ASSUME NEW r \in DOMAIN requests, StampActivity(r)  PROVE SessionsOK'
  BY <1>17, SameSessionsOK DEF StampActivity, serviceVars
<1> QED
  BY <1>1, <1>2, <1>3, <1>4, <1>5, <1>6, <1>7, <1>8, <1>9, <1>10, <1>11, <1>12, <1>13,
     <1>14, <1>15, <1>16, <1>17
  DEF Next, Method, StartRegister, StartHeartbeat, StartBegin, StartAcquire, StartSweep

\* An override digest about a lease of another session is well-typed.
LEMMA OverrideDigestType ==
  ASSUME LeasesOK, NEW type \in LeaseTypes, NEW s \in SessionIds, OwnedByOther(type, s)
  PROVE  OverrideDigest(type, s) \in Digest
BY DEF LeasesOK, OwnedByOther, OverrideDigest, Digest, Lease

LEMMA LeasesOKInductive ==
  ASSUME TypeOK, Next
  PROVE  LeasesOK'
<1> USE DEF TypeOK
<1>0. ASSUME UNCHANGED <<audit, digests>>, usedIds' = usedIds, NEW T \in SUBSET DOMAIN leases,
             leases' = Restrict(leases, T)
      PROVE  LeasesOK'
  BY <1>0 DEF LeasesOK, Restrict
<1>1. ASSUME UNCHANGED <<leases, audit, digests, usedIds>>
      PROVE  LeasesOK'
  BY <1>1 DEF LeasesOK
<1>2. ASSUME NEW t \in Threads, NEW call, Start(t, call)  PROVE LeasesOK'
  BY <1>1, <1>2 DEF Start, serviceVars
<1>3. ASSUME NEW t \in Threads, Sweep(t)  PROVE LeasesOK'
  <2> DEFINE T == {x \in LeasesNotOwnedBy(Expired(calls[t].now)) :
                      leases[x].expires > calls[t].now}
  <2>1. T \subseteq DOMAIN leases  BY DEF LeasesNotOwnedBy
  <2>2. leases' = Restrict(leases, T) /\ UNCHANGED <<audit, digests>> /\ usedIds' = usedIds
    BY <1>3 DEF Sweep, ExpireSessions
  <2> QED BY <1>0, <2>1, <2>2
<1>4. ASSUME NEW t \in Threads, RegisterKnown(t) \/ RegistryFull(t) \/ BeginRequest(t)
      PROVE LeasesOK'
  BY <1>1, <1>4 DEF RegisterKnown, RegistryFull, BeginRequest
<1>5. ASSUME NEW t \in Threads, RegisterNew(t)  PROVE LeasesOK'
  BY <1>5 DEF RegisterNew, LeasesOK
<1>6. ASSUME NEW t \in Threads, Heartbeat(t)  PROVE LeasesOK'
  <2>0. clock + LeaseTTL \in Nat  BY DEF CallsOK
  <2>1. \A x \in DOMAIN leases :
          /\ [leases[x] EXCEPT !.expires = clock + LeaseTTL] \in Lease
          /\ leases[x] \in Lease
    <3> HIDE ActivityAssumption DEF TypeOK
    <3> QED BY <2>0 DEF TypeOK, LeasesOK, Lease
  <2>2. DOMAIN leases' = DOMAIN leases /\ \A x \in DOMAIN leases : leases'[x] \in Lease
    BY <1>6, <2>1 DEF Heartbeat
  <2> QED BY <1>6, <2>2 DEF Heartbeat, LeasesOK
<1>7. ASSUME NEW t \in Threads, AcquireRefused(t)  PROVE LeasesOK'
  <2>1. calls[t] \in AcquireCall  BY <1>7, CallFields DEF AcquireRefused
  <2>2. digests' \subseteq Digest
    BY <1>7, <2>1, OverrideDigestType DEF AcquireRefused, LeasesOK, AcquireCall
  <2> QED BY <1>7, <2>2 DEF AcquireRefused, LeasesOK, serviceVars
<1>8. ASSUME NEW t \in Threads, AcquireGranted(t)  PROVE LeasesOK'
  <2> DEFINE s == calls[t].session
             type == calls[t].type
  <2>1. s \in SessionIds /\ type \in LeaseTypes
    BY <1>8, CallFields DEF AcquireGranted, AcquireCall
  <2>2. PICK id \in GrantIds(type, s) :
          /\ leases' = With(leases, type, [id |-> id, owner |-> s, expires |-> clock + LeaseTTL])
          /\ usedIds' = usedIds \cup {id}
    BY <1>8 DEF AcquireGranted
  <2>3. id \in LeaseIds
    BY <2>2 DEF GrantIds, OwnedBy, LeasesOK, Lease
  <2>4. [id |-> id, owner |-> s, expires |-> clock + LeaseTTL] \in Lease
    BY <2>1, <2>3 DEF Lease, CallsOK
  <2>5. /\ DOMAIN leases' \subseteq LeaseTypes
        /\ \A x \in DOMAIN leases' : leases'[x] \in Lease
    BY <2>1, <2>2, <2>4 DEF With, LeasesOK
  <2>6. audit' \in Seq(Digest) /\ Len(audit') <= AuditCapacity
    <3>1. CASE OwnedByOther(type, s)
      <4>1. Append(audit, OverrideDigest(type, s)) \in Seq(Digest)
        BY <2>1, <3>1, OverrideDigestType DEF LeasesOK
      <4>2. audit' = LastOf(AuditCapacity, Append(audit, OverrideDigest(type, s)))
        BY <1>8, <3>1 DEF AcquireGranted
      <4> QED BY <4>1, <4>2, LastOfSeq
    <3>2. CASE ~OwnedByOther(type, s)  BY <1>8, <3>2 DEF AcquireGranted, LeasesOK
    <3> QED BY <3>1, <3>2
  <2> QED BY <1>8, <2>2, <2>3, <2>5, <2>6 DEF AcquireGranted, LeasesOK
<1>9. ASSUME NEW s \in Live, UnregisterClient(s)  PROVE LeasesOK'
  <2>1. LeasesNotOwnedBy({s}) \subseteq DOMAIN leases  BY DEF LeasesNotOwnedBy
  <2> QED BY <1>0, <1>9, <2>1 DEF UnregisterClient
<1>10. CASE DisconnectAllSessions
  BY <1>10 DEF DisconnectAllSessions, LeasesOK
<1>11. ASSUME NEW i \in LegacyInvocations, BeginLegacyRequest(i)  PROVE LeasesOK'
  BY <1>1, <1>11 DEF BeginLegacyRequest
<1>12. ASSUME NEW r \in DOMAIN requests,
              \/ StampActivity(r) \/ BeginActivity(r)
              \/ CompleteWithFailure(r) \/ EndRequest(r)
       PROVE LeasesOK'
  BY <1>1, <1>12 DEF StampActivity, BeginActivity, CompleteWithFailure, EndRequest,
                     serviceVars
<1>13. ASSUME NEW type \in LeaseTypes, NEW s \in Live, ReleaseLease(type, s)
       PROVE LeasesOK'
  BY <1>0, <1>13 DEF ReleaseLease
<1>14. CASE Tick  BY <1>1, <1>14 DEF Tick, serviceVars
<1> QED
  BY <1>2, <1>3, <1>4, <1>5, <1>6, <1>7, <1>8, <1>9, <1>10, <1>11, <1>12, <1>13, <1>14
  DEF Next, Method, StartRegister, StartHeartbeat, StartBegin, StartAcquire, StartSweep

LEMMA LedgerOKInductive ==
  ASSUME TypeOK, Next
  PROVE  LedgerOK'
<1> USE DEF TypeOK
<1>0. ASSUME UNCHANGED recorded, NEW ids, NEW outcome \in Status,
             ledger' = Finished(ledger, ids, outcome)
      PROVE  LedgerOK'
  BY <1>0, FinishedRecords DEF LedgerOK
<1>1. ASSUME UNCHANGED <<ledger, recorded>>  PROVE LedgerOK'
  BY <1>1 DEF LedgerOK
<1>2. ASSUME NEW t \in Threads, NEW call, Start(t, call)  PROVE LedgerOK'
  BY <1>1, <1>2 DEF Start, serviceVars
<1>3. ASSUME NEW t \in Threads, Sweep(t)  PROVE LedgerOK'
  BY <1>0, <1>3 DEF Sweep, ExpireSessions, Status
<1>4. ASSUME NEW t \in Threads, RegisterKnown(t) \/ RegistryFull(t) \/ Heartbeat(t)
                 \/ BeginRequest(t) \/ AcquireRefused(t) \/ AcquireGranted(t)
      PROVE LedgerOK'
  BY <1>1, <1>4 DEF RegisterKnown, RegistryFull, Heartbeat, BeginRequest, AcquireRefused,
                    AcquireGranted, serviceVars
<1>5. ASSUME NEW t \in Threads, RegisterNew(t)  PROVE LedgerOK'
  BY <1>5, RecordedRecords DEF RegisterNew, RecordCount, LedgerOK
<1>6. ASSUME NEW s \in Live, UnregisterClient(s)  PROVE LedgerOK'
  BY <1>0, <1>1, <1>6 DEF UnregisterClient, Outcome, Status
<1>7. CASE DisconnectAllSessions
  BY <1>0, <1>7 DEF DisconnectAllSessions, Status
<1>8. ASSUME NEW i \in LegacyInvocations, BeginLegacyRequest(i)  PROVE LedgerOK'
  <2> DEFINE l == Recorded(ledger, i)
  <2>1. \A j \in DOMAIN l : l[j] \in Record  BY RecordedRecords DEF LedgerOK
  <2>2. ledger' = [l EXCEPT ![i].active = @ + 1]  BY <1>8 DEF BeginLegacyRequest
  <2> HIDE DEF l
  <2>3. \A j \in DOMAIN ledger' : ledger'[j] \in Record  BY <2>1, <2>2 DEF Record
  <2> QED BY <1>8, <2>3 DEF BeginLegacyRequest, RecordCount, LedgerOK
<1>9. ASSUME NEW r \in DOMAIN requests, CompleteWithFailure(r)  PROVE LedgerOK'
  BY <1>9 DEF CompleteWithFailure, LedgerOK, Record
<1>10. ASSUME NEW r \in DOMAIN requests, EndRequest(r)  PROVE LedgerOK'
  <2> DEFINE s == requests[r].session
             i == requests[r].invocation
             l == [ledger EXCEPT ![i].active = Decremented(@)]
  <2>1. \A j \in DOMAIN l : l[j] \in Record
    BY DEF LedgerOK, Record, Decremented
  <2>2. \A j \in DOMAIN Finished(l, {i}, Outcome(l, i)) :
          Finished(l, {i}, Outcome(l, i))[j] \in Record
    <3>1. Outcome(l, i) \in Status  BY DEF Outcome, Status
    <3> HIDE DEF l
    <3> QED BY <2>1, <3>1, FinishedRecords
  <2>3. \/ UNCHANGED ledger
        \/ ledger' = l
        \/ ledger' = Finished(l, {i}, Outcome(l, i))
    BY <1>10 DEF EndRequest
  <2>4. UNCHANGED recorded  BY <1>10 DEF EndRequest
  <2> HIDE DEF l
  <2> QED BY <2>1, <2>2, <2>3, <2>4 DEF LedgerOK
<1>11. ASSUME NEW type \in LeaseTypes, NEW s \in Live, ReleaseLease(type, s)
       PROVE LedgerOK'
  BY <1>1, <1>11 DEF ReleaseLease
<1>12. CASE Tick  BY <1>1, <1>12 DEF Tick, serviceVars
<1>13. ASSUME NEW r \in DOMAIN requests, BeginActivity(r)  PROVE LedgerOK'
  BY <1>13, RecordedRecords DEF BeginActivity, RecordCount, LedgerOK
<1>14. ASSUME NEW r \in DOMAIN requests, StampActivity(r)  PROVE LedgerOK'
  BY <1>1, <1>14 DEF StampActivity, serviceVars
<1> QED
  BY <1>2, <1>3, <1>4, <1>5, <1>6, <1>7, <1>8, <1>9, <1>10, <1>11, <1>12, <1>13, <1>14
  DEF Next, Method, StartRegister, StartHeartbeat, StartBegin, StartAcquire, StartSweep

RequestsOK(q) ==
  /\ DOMAIN q \subseteq Requests
  /\ \A r \in DOMAIN q : q[r] \in Request

LEMMA BegunRequests ==
  ASSUME NEW q, RequestsOK(q), NEW r \in Requests, NEW s \in SessionIds \cup {None},
         NEW i \in InvocationIds \cup {None}
  PROVE  RequestsOK(With(q, r, [session |-> s, invocation |-> i, logged |-> FALSE,
                                stamp |-> NoTime]))
BY DEF RequestsOK, Request, With

LEMMA CallsOKInductive ==
  ASSUME TypeOK, Next
  PROVE  CallsOK'
<1> USE DEF TypeOK
<1>0. ASSUME NEW t \in Threads, Return(t), UNCHANGED <<clock, requests>>
      PROVE  CallsOK'
  BY <1>0 DEF Return, CallsOK, Call
<1>1. ASSUME NEW t \in Threads, NEW call \in Call, Start(t, call)  PROVE CallsOK'
  BY <1>1 DEF Start, CallsOK
<1>2. ASSUME NEW t \in Threads, StartRegister(t)  PROVE CallsOK'
  <2>1. \A c \in Clients :
          [op |-> "register", client |-> c, now |-> clock, swept |-> FALSE] \in Call
    BY DEF Call, RegisterCall, CallsOK
  <2> QED BY <1>1, <1>2, <2>1 DEF StartRegister
<1>3. ASSUME NEW t \in Threads, StartHeartbeat(t) \/ StartBegin(t)  PROVE CallsOK'
  <2>1. \A s \in SessionIds, op \in {"heartbeat", "begin"} :
          [op |-> op, session |-> s, now |-> clock, swept |-> FALSE] \in Call
    BY DEF Call, SessionCall, CallsOK
  <2> QED BY <1>1, <1>3, <2>1 DEF StartHeartbeat, StartBegin
<1>4. ASSUME NEW t \in Threads, StartAcquire(t)  PROVE CallsOK'
  <2>1. \A s \in SessionIds, type \in LeaseTypes, d \in digests \cup {None} :
          [op |-> "acquire", session |-> s, type |-> type, approval |-> d,
           now |-> clock, swept |-> FALSE] \in Call
    BY DEF Call, AcquireCall, CallsOK, LeasesOK
  <2> QED BY <1>1, <1>4, <2>1 DEF StartAcquire
<1>5. ASSUME NEW t \in Threads, StartSweep(t)  PROVE CallsOK'
  <2>1. [op |-> "sweep", now |-> clock, swept |-> FALSE] \in Call
    BY DEF Call, SweepCall, CallsOK
  <2> QED BY <1>1, <1>5, <2>1 DEF StartSweep
<1>6. ASSUME NEW t \in Threads, Sweep(t)  PROVE CallsOK'
  <2>1. calls[t] \in Call /\ calls[t] # Idle  BY <1>6 DEF Sweep, CallsOK
  <2>2. calls[t].op # "sweep" => [calls[t] EXCEPT !.swept = TRUE] \in Call
    <3>1. CASE calls[t] \in RegisterCall  BY <3>1 DEF Call, RegisterCall
    <3>2. CASE calls[t] \in SessionCall  BY <3>2 DEF Call, SessionCall
    <3>3. CASE calls[t] \in AcquireCall  BY <3>3 DEF Call, AcquireCall
    <3>4. CASE calls[t] \in SweepCall  BY <3>4 DEF SweepCall
    <3> QED BY <2>1, <3>1, <3>2, <3>3, <3>4 DEF Call
  <2>3. calls' \in [Threads -> Call]  BY <1>6, <2>2 DEF Sweep, CallsOK, Call
  <2> QED BY <1>6, <2>3 DEF Sweep, CallsOK
<1>7. ASSUME NEW t \in Threads, RegisterKnown(t) \/ RegisterNew(t) \/ RegistryFull(t)
                 \/ Heartbeat(t) \/ AcquireRefused(t) \/ AcquireGranted(t)
      PROVE CallsOK'
  BY <1>0, <1>7 DEF RegisterKnown, RegisterNew, RegistryFull, Heartbeat, AcquireRefused,
                    AcquireGranted
<1>8. ASSUME NEW t \in Threads, BeginRequest(t)  PROVE CallsOK'
  <2>1. calls[t].session \in SessionIds
    BY <1>8, CallFields DEF BeginRequest, SessionCall
  <2>2. calls' \in [Threads -> Call]  BY <1>8 DEF BeginRequest, Return, CallsOK, Call
  <2>3. /\ DOMAIN requests' \subseteq Requests
        /\ \A r \in DOMAIN requests' : requests'[r] \in Request
    <3>1. \/ UNCHANGED requests
          \/ \E r \in Requests, i \in InvocationIds \cup {None} :
               requests' = With(requests, r, [session |-> calls[t].session, invocation |-> i,
                                              logged |-> FALSE, stamp |-> NoTime])
      BY <1>8 DEF BeginRequest, InvocationIds, SessionsOK, Session
    <3>2. RequestsOK(requests)  BY DEF CallsOK, RequestsOK
    <3>3. calls[t].session \in SessionIds \cup {None}  BY <2>1
    <3>4. RequestsOK(requests')
      <4>1. CASE UNCHANGED requests  BY <3>2, <4>1
      <4>2. ASSUME NEW r \in Requests, NEW i \in InvocationIds \cup {None},
                   requests' = With(requests, r, [session |-> calls[t].session, invocation |-> i,
                                                  logged |-> FALSE, stamp |-> NoTime])
            PROVE  RequestsOK(requests')
        <5>1. RequestsOK(With(requests, r, [session |-> calls[t].session, invocation |-> i,
                                            logged |-> FALSE, stamp |-> NoTime]))
          BY <3>2, <3>3, BegunRequests
        <5> QED BY <4>2, <5>1
      <4> QED BY <3>1, <4>1, <4>2
    <3> QED BY <3>4 DEF RequestsOK
  <2> QED BY <1>8, <2>2, <2>3 DEF BeginRequest, CallsOK
<1>9. ASSUME UNCHANGED <<clock, calls>>, RequestsOK(requests')
      PROVE CallsOK'
  BY <1>9 DEF CallsOK, RequestsOK
<1>10. ASSUME NEW s \in Live, UnregisterClient(s)  PROVE CallsOK'
  BY <1>9, <1>10 DEF UnregisterClient, CallsOK, RequestsOK
<1>11. CASE DisconnectAllSessions  BY <1>9, <1>11 DEF DisconnectAllSessions, CallsOK, RequestsOK
<1>12. ASSUME NEW i \in LegacyInvocations, BeginLegacyRequest(i)  PROVE CallsOK'
  <2>1. PICK r \in Requests :
          requests' = With(requests, r, [session |-> None, invocation |-> i, logged |-> FALSE, stamp |-> NoTime])
    BY <1>12 DEF BeginLegacyRequest
  <2>2. RequestsOK(requests)  BY DEF CallsOK, RequestsOK
  <2>3. RequestsOK(With(requests, r, [session |-> None, invocation |-> i, logged |-> FALSE, stamp |-> NoTime]))
    <3>1. i \in InvocationIds \cup {None}  BY DEF InvocationIds
    <3> HIDE DEF TypeOK
    <3> QED BY <2>2, <3>1, BegunRequests
  <2>4. UNCHANGED <<clock, calls>>  BY <1>12 DEF BeginLegacyRequest
  <2> QED BY <1>9, <2>1, <2>3, <2>4
<1>13. ASSUME NEW r \in DOMAIN requests,
              StampActivity(r) \/ BeginActivity(r) \/ CompleteWithFailure(r)
       PROVE CallsOK'
  <2>1. /\ UNCHANGED <<clock, calls>>
        /\ \/ requests' = requests
           \/ requests' = [requests EXCEPT ![r].logged = TRUE, ![r].stamp = NoTime]
           \/ requests' = [requests EXCEPT ![r].stamp = clock]
    BY <1>13 DEF StampActivity, BeginActivity, CompleteWithFailure
  <2>2. RequestsOK(requests)  BY DEF CallsOK, RequestsOK
  <2>3. ASSUME \/ requests' = [requests EXCEPT ![r].logged = TRUE, ![r].stamp = NoTime]
               \/ requests' = [requests EXCEPT ![r].stamp = clock]
        PROVE  RequestsOK(requests')
    <3>0. requests[r] \in Request /\ clock \in 0..MaxClock
          /\ \A x \in DOMAIN requests : requests[x] \in Request
      BY <1>13 DEF CallsOK
    <3>1. DOMAIN requests' = DOMAIN requests
          /\ \A x \in DOMAIN requests : requests'[x] \in Request
      <4>1. [requests[r] EXCEPT !.logged = TRUE, !.stamp = NoTime] \in Request
            /\ [requests[r] EXCEPT !.stamp = clock] \in Request
        BY <3>0 DEF Request
      <4> HIDE DEF TypeOK
      <4> QED BY <1>13, <2>3, <3>0, <4>1
    <3> HIDE DEF TypeOK
    <3> QED BY <2>2, <3>1 DEF RequestsOK
  <2>4. RequestsOK(requests')
    <3> HIDE DEF TypeOK
    <3> QED BY <2>1, <2>2, <2>3
  <2> QED BY <1>9, <2>1, <2>4
<1>14. ASSUME NEW r \in DOMAIN requests, EndRequest(r)  PROVE CallsOK'
  BY <1>9, <1>14 DEF EndRequest, Restrict, CallsOK, RequestsOK
<1>15. ASSUME NEW type \in LeaseTypes, NEW s \in Live, ReleaseLease(type, s)
       PROVE CallsOK'
  BY <1>9, <1>15 DEF ReleaseLease, CallsOK, RequestsOK
<1>16. CASE Tick  BY <1>16 DEF Tick, CallsOK
<1> QED
  BY <1>2, <1>3, <1>4, <1>5, <1>6, <1>7, <1>8, <1>10, <1>11, <1>12, <1>13, <1>14, <1>15,
     <1>16
  DEF Next, Method

\* The registry never holds more than MaxSessions sessions nor the audit more than
\* AuditCapacity entries, and every variable keeps its type.
THEOREM TypeCorrect == Spec => []TypeOK
<1>1. Init => TypeOK
  <2> SUFFICES ASSUME Init PROVE TypeOK  OBVIOUS
  <2>1. Live = {} /\ DOMAIN byInstance = {} /\ DOMAIN heard = {} /\ DOMAIN leases = {}
        /\ DOMAIN ledger = {} /\ DOMAIN requests = {}
    BY DEF Init, Live
  <2>2. SessionsOK  BY <2>1, FS_EmptySet DEF SessionsOK
  <2>3. LeasesOK  BY <2>1 DEF Init, LeasesOK
  <2>4. LedgerOK /\ CallsOK  BY <2>1 DEF Init, LedgerOK, CallsOK, Call
  <2> QED BY <2>2, <2>3, <2>4 DEF TypeOK
<1>2. TypeOK /\ [Next]_vars => TypeOK'
  <2>1. TypeOK /\ Next => TypeOK'
    BY SessionsOKInductive, LeasesOKInductive, LedgerOKInductive, CallsOKInductive
    DEF TypeOK
  <2>2. TypeOK /\ UNCHANGED vars => TypeOK'
    BY DEF vars, serviceVars, TypeOK, SessionsOK, LeasesOK, LedgerOK, CallsOK, Live
  <2> QED BY <2>1, <2>2
<1> QED BY <1>1, <1>2, PTL DEF Spec

---------------------------------------------------------------------------
(* Leases and sessions.  LeaseOwnerIsLive is inductive beside TypeOK: every *)
(* way out of the registry names the sessions it drops and the leases it    *)
(* frees from the same set.                                                 *)

LEMMA DropFreesLeases ==
  ASSUME LeaseOwnerIsLive, NEW S, Drop(S),
         NEW T \in SUBSET LeasesNotOwnedBy(S), leases' = Restrict(leases, T)
  PROVE  LeaseOwnerIsLive'
<1>1. Live' = Live \ S  BY DEF Drop, Restrict, Live
<1> QED BY <1>1 DEF LeaseOwnerIsLive, LeasesNotOwnedBy, Restrict

\* No lease belongs to a session that has left the registry.
THEOREM LeasesHaveLiveOwners == Spec => []LeaseOwnerIsLive
<1>1. Init => LeaseOwnerIsLive  BY DEF Init, LeaseOwnerIsLive
<1>2. TypeOK /\ LeaseOwnerIsLive /\ [Next]_vars => LeaseOwnerIsLive'
  <2> SUFFICES ASSUME TypeOK, LeaseOwnerIsLive, [Next]_vars  PROVE LeaseOwnerIsLive'
    OBVIOUS
  <2>0. ASSUME UNCHANGED leases, Live \subseteq Live'  PROVE LeaseOwnerIsLive'
    BY <2>0 DEF LeaseOwnerIsLive
  <2>1. ASSUME NEW t \in Threads, NEW call, Start(t, call)  PROVE LeaseOwnerIsLive'
    BY <2>0, <2>1 DEF Start, serviceVars, Live
  <2>2. ASSUME NEW t \in Threads, Sweep(t)  PROVE LeaseOwnerIsLive'
    <3> DEFINE S == Expired(calls[t].now)
               T == {x \in LeasesNotOwnedBy(S) : leases[x].expires > calls[t].now}
    <3>1. Drop(S) /\ leases' = Restrict(leases, T)  BY <2>2 DEF Sweep, ExpireSessions
    <3>2. T \in SUBSET LeasesNotOwnedBy(S)  OBVIOUS
    <3> HIDE DEF S, T
    <3> QED BY <3>1, <3>2, DropFreesLeases
  <2>3. ASSUME NEW t \in Threads,
               RegisterKnown(t) \/ RegistryFull(t) \/ BeginRequest(t) \/ RegisterNew(t)
        PROVE LeaseOwnerIsLive'
    <3>1. RegisterKnown(t) => Live' = Live  BY DEF RegisterKnown, Refreshed, Live
    <3>2. BeginRequest(t) => Live' = Live  BY DEF BeginRequest, Live
    <3>3. RegistryFull(t) => Live' = Live  BY DEF RegistryFull, Live
    <3>4. RegisterNew(t) => Live \subseteq Live'  BY DEF RegisterNew, With, Live
    <3>5. UNCHANGED leases
      BY <2>3 DEF RegisterKnown, RegistryFull, BeginRequest, RegisterNew
    <3> QED BY <2>0, <2>3, <3>1, <3>2, <3>3, <3>4, <3>5
  <2>4. ASSUME NEW t \in Threads, Heartbeat(t)  PROVE LeaseOwnerIsLive'
    <3>1. Live' = Live  BY <2>4 DEF Heartbeat, Refreshed, Live
    <3>2. DOMAIN leases' = DOMAIN leases
          /\ \A x \in DOMAIN leases : leases'[x].owner = leases[x].owner
      BY <2>4 DEF Heartbeat, TypeOK, LeasesOK, Lease
    <3> QED BY <3>1, <3>2 DEF LeaseOwnerIsLive
  <2>5. ASSUME NEW t \in Threads, AcquireRefused(t)  PROVE LeaseOwnerIsLive'
    BY <2>0, <2>5 DEF AcquireRefused, serviceVars, Live
  <2>6. ASSUME NEW t \in Threads, AcquireGranted(t)  PROVE LeaseOwnerIsLive'
    BY <2>6 DEF AcquireGranted, With, LeaseOwnerIsLive, Live
  <2>7. ASSUME NEW s \in Live, UnregisterClient(s)  PROVE LeaseOwnerIsLive'
    BY <2>7, DropFreesLeases DEF UnregisterClient
  <2>8. CASE DisconnectAllSessions
    BY <2>8 DEF DisconnectAllSessions, LeaseOwnerIsLive
  <2>9. ASSUME NEW i \in LegacyInvocations, BeginLegacyRequest(i)  PROVE LeaseOwnerIsLive'
    BY <2>0, <2>9 DEF BeginLegacyRequest, Live
  <2>10. ASSUME NEW r \in DOMAIN requests, CompleteWithFailure(r) \/ EndRequest(r)
         PROVE LeaseOwnerIsLive'
    BY <2>0, <2>10 DEF CompleteWithFailure, EndRequest, Live
  <2>11. ASSUME NEW type \in LeaseTypes, NEW s \in Live, ReleaseLease(type, s)
         PROVE LeaseOwnerIsLive'
    BY <2>11 DEF ReleaseLease, LeaseOwnerIsLive, Restrict, Live
  <2>12. CASE Tick \/ UNCHANGED vars
    BY <2>0, <2>12 DEF Tick, vars, serviceVars, Live
  <2>13. ASSUME NEW r \in DOMAIN requests, BeginActivity(r)  PROVE LeaseOwnerIsLive'
    <3>1. Live' = Live  BY <2>13, LoggedSessions
    <3> QED BY <2>0, <2>13, <3>1 DEF BeginActivity
  <2>14. ASSUME NEW r \in DOMAIN requests, StampActivity(r)  PROVE LeaseOwnerIsLive'
    BY <2>0, <2>14 DEF StampActivity, serviceVars, Live
  <2> QED
    BY <2>1, <2>2, <2>3, <2>4, <2>5, <2>6, <2>7, <2>8, <2>9, <2>10, <2>11, <2>12, <2>13,
       <2>14
    DEF Next, Method, StartRegister, StartHeartbeat, StartBegin, StartAcquire, StartSweep
<1> QED BY <1>1, <1>2, TypeCorrect, PTL DEF Spec

---------------------------------------------------------------------------
(* The index of instances.                                                 *)

LEMMA DropKeepsIndexExact ==
  ASSUME InstanceIndexExact, NEW S \in SUBSET Live, Drop(S)
  PROVE  InstanceIndexExact'
<1>1. Live' = Live \ S /\ \A s \in Live' : sessions'[s] = sessions[s]
  BY DEF Drop, Restrict, Live
<1>2. /\ DOMAIN byInstance' = DOMAIN byInstance \ {InstanceOf[sessions[s].client] : s \in S}
      /\ \A i \in DOMAIN byInstance' : byInstance'[i] = byInstance[i]
  BY DEF Drop, Restrict
<1> QED BY <1>1, <1>2 DEF InstanceIndexExact

\* A step that keeps the registered clients and the index keeps the index exact.
LEMMA SameClientsKeepIndexExact ==
  ASSUME InstanceIndexExact, UNCHANGED byInstance, Live' = Live,
         \A s \in Live : sessions'[s].client = sessions[s].client
  PROVE  InstanceIndexExact'
BY DEF InstanceIndexExact

\* SessionByInstanceId is the inverse of the registry.
THEOREM IndexIsExact == Spec => []InstanceIndexExact
<1>1. Init => InstanceIndexExact  BY DEF Init, InstanceIndexExact, Live
<1>2. TypeOK /\ InstanceIndexExact /\ [Next]_vars => InstanceIndexExact'
  <2> SUFFICES ASSUME TypeOK, InstanceIndexExact, [Next]_vars  PROVE InstanceIndexExact'
    OBVIOUS
  <2>0. ASSUME UNCHANGED <<sessions, byInstance>>  PROVE InstanceIndexExact'
    BY <2>0 DEF InstanceIndexExact, Live
  <2>1. ASSUME NEW t \in Threads, NEW call, Start(t, call)  PROVE InstanceIndexExact'
    BY <2>0, <2>1 DEF Start, serviceVars
  <2>2. ASSUME NEW t \in Threads, Sweep(t)  PROVE InstanceIndexExact'
    BY <2>2, DropKeepsIndexExact DEF Sweep, ExpireSessions, Expired
  <2>3. ASSUME NEW t \in Threads, RegisterKnown(t) \/ Heartbeat(t) \/ BeginRequest(t)
        PROVE InstanceIndexExact'
    <3>1. \A s \in Live : sessions[s] \in Session  BY DEF TypeOK, SessionsOK
    <3>2. RegisterKnown(t) => Live' = Live /\ \A s \in Live : sessions'[s].client = sessions[s].client
      BY <3>1 DEF RegisterKnown, Refreshed, Live, Session
    <3>3. Heartbeat(t) => Live' = Live /\ \A s \in Live : sessions'[s].client = sessions[s].client
      BY <3>1 DEF Heartbeat, Refreshed, Live, Session
    <3>4. BeginRequest(t) => Live' = Live /\ \A s \in Live : sessions'[s].client = sessions[s].client
      BY <3>1 DEF BeginRequest, Live, Session
    <3>5. UNCHANGED byInstance  BY <2>3 DEF RegisterKnown, Heartbeat, BeginRequest
    <3> QED BY <2>3, <3>2, <3>3, <3>4, <3>5, SameClientsKeepIndexExact
  <2>4. ASSUME NEW t \in Threads, RegisterNew(t)  PROVE InstanceIndexExact'
    <3> DEFINE c == calls[t].client
               i == InstanceOf[c]
    <3>1. PICK s \in SessionIds \ usedIds :
            /\ sessions' = With(sessions, s,
                                [client |-> c, last |-> calls[t].now, active |-> 0])
            /\ byInstance' = With(byInstance, i, s)
      BY <2>4 DEF RegisterNew
    <3>2. s \notin Live  BY DEF TypeOK, SessionsOK
    <3>3. i \notin DOMAIN byInstance
      BY <2>4 DEF RegisterNew, Known, InstanceIndexExact
    <3>4. Live' = Live \cup {s} /\ sessions'[s].client = c
          /\ \A x \in Live : sessions'[x] = sessions[x]
      BY <3>1, <3>2 DEF With, Live
    <3>5. DOMAIN byInstance' = DOMAIN byInstance \cup {i} /\ byInstance'[i] = s
          /\ \A j \in DOMAIN byInstance : byInstance'[j] = byInstance[j]
      BY <3>1, <3>3 DEF With
    <3> HIDE DEF c
    <3> QED BY <3>3, <3>4, <3>5 DEF InstanceIndexExact
  <2>5. ASSUME NEW t \in Threads, RegistryFull(t)  PROVE InstanceIndexExact'
    <3>1. InstanceOf[calls[t].client] \notin DOMAIN byInstance
      BY <2>5 DEF RegistryFull, Known, InstanceIndexExact
    <3>2. DOMAIN byInstance' = DOMAIN byInstance
          /\ \A i \in DOMAIN byInstance : byInstance'[i] = byInstance[i]
      BY <2>5, <3>1 DEF RegistryFull, Restrict
    <3> QED BY <2>5, <3>2 DEF RegistryFull, InstanceIndexExact, Live
  <2>6. ASSUME NEW t \in Threads, AcquireRefused(t) \/ AcquireGranted(t)
        PROVE InstanceIndexExact'
    BY <2>0, <2>6 DEF AcquireRefused, AcquireGranted, serviceVars
  <2>7. ASSUME NEW s \in Live, UnregisterClient(s)  PROVE InstanceIndexExact'
    BY <2>7, DropKeepsIndexExact DEF UnregisterClient
  <2>8. CASE DisconnectAllSessions
    BY <2>8 DEF DisconnectAllSessions, InstanceIndexExact, Live
  <2>9. ASSUME NEW i \in LegacyInvocations, BeginLegacyRequest(i)  PROVE InstanceIndexExact'
    BY <2>0, <2>9 DEF BeginLegacyRequest
  <2>10. ASSUME NEW r \in DOMAIN requests, CompleteWithFailure(r)
         PROVE InstanceIndexExact'
    BY <2>0, <2>10 DEF CompleteWithFailure
  <2>11. ASSUME NEW r \in DOMAIN requests, EndRequest(r)  PROVE InstanceIndexExact'
    BY <2>11, SameClientsKeepIndexExact
    DEF EndRequest, Live, TypeOK, SessionsOK, Session
  <2>12. ASSUME NEW type \in LeaseTypes, NEW s \in Live, ReleaseLease(type, s)
         PROVE InstanceIndexExact'
    BY <2>0, <2>12 DEF ReleaseLease
  <2>13. CASE Tick \/ UNCHANGED vars
    BY <2>0, <2>13 DEF Tick, vars, serviceVars
  <2>14. ASSUME NEW r \in DOMAIN requests, BeginActivity(r)  PROVE InstanceIndexExact'
    BY <2>14, LoggedSessions, SameClientsKeepIndexExact DEF BeginActivity
  <2>15. ASSUME NEW r \in DOMAIN requests, StampActivity(r)  PROVE InstanceIndexExact'
    BY <2>0, <2>15 DEF StampActivity, serviceVars
  <2> QED
    BY <2>1, <2>2, <2>3, <2>4, <2>5, <2>6, <2>7, <2>8, <2>9, <2>10, <2>11, <2>12, <2>13,
       <2>14, <2>15
    DEF Next, Method, StartRegister, StartHeartbeat, StartBegin, StartAcquire, StartSweep
<1> QED BY <1>1, <1>2, TypeCorrect, PTL DEF Spec

---------------------------------------------------------------------------
(* Lease grants.  GrantInv: the id of a lease was drawn, so no later draw    *)
(* gives it again, and an approval in a call was returned by a refusal.      *)

GrantInv ==
  /\ \A x \in DOMAIN leases : leases[x].id \in usedIds
  /\ \A t \in Threads : calls[t].op = "acquire" => calls[t].approval \in digests \cup {None}

\* What a step does to a lease that stays: it renews it, or it draws a fresh id on
\* the approval of a digest that was returned before.
LeaseStep(x) ==
  \/ leases'[x].id = leases[x].id /\ leases'[x].owner = leases[x].owner
  \/ /\ leases'[x].id \notin usedIds
     /\ leases'[x].owner # leases[x].owner =>
          [type |-> x, id |-> leases[x].id, owner |-> leases[x].owner,
           to |-> leases'[x].owner] \in digests
LeaseSteps == \A x \in DOMAIN leases \cap DOMAIN leases' : LeaseStep(x)

LEMMA GrantStep ==
  ASSUME TypeOK, GrantInv, NEW t \in Threads, AcquireGranted(t)
  PROVE  LeaseSteps /\ GrantInv'
<1> DEFINE s == calls[t].session
           type == calls[t].type
<1>1. calls[t] \in AcquireCall  BY CallFields DEF AcquireGranted, TypeOK
<1>2. PICK id \in GrantIds(type, s) :
        /\ leases' = With(leases, type, [id |-> id, owner |-> s, expires |-> clock + LeaseTTL])
        /\ usedIds' = usedIds \cup {id}
  BY DEF AcquireGranted
<1>3. \A x \in DOMAIN leases' : x # type => x \in DOMAIN leases /\ leases'[x] = leases[x]
  BY <1>2 DEF With
<1>4. type \in DOMAIN leases' /\ leases'[type].id = id /\ leases'[type].owner = s
  BY <1>2 DEF With
<1>5. type \in DOMAIN leases => LeaseStep(type)
  <2>1. CASE OwnedBy(type, s)
    BY <1>2, <1>4, <2>1 DEF LeaseStep, GrantIds, OwnedBy
  <2>2. CASE OwnedByOther(type, s)
    <3>1. id \notin usedIds  BY <1>2, <2>2 DEF GrantIds, OwnedBy, OwnedByOther
    <3>2. calls[t].approval = OverrideDigest(type, s)
      BY <2>2 DEF AcquireGranted, Approved
    <3>3. OverrideDigest(type, s) \in Digest
      BY <1>1, <2>2, OverrideDigestType DEF TypeOK, AcquireCall
    <3>4. calls[t].approval \in digests
      BY <1>1, <3>2, <3>3, NoneAssumption DEF GrantInv, AcquireCall
    <3> QED BY <1>4, <3>1, <3>2, <3>4 DEF LeaseStep, OverrideDigest
  <2> QED BY <2>1, <2>2 DEF OwnedBy, OwnedByOther
<1>6. LeaseSteps  BY <1>3, <1>5 DEF LeaseSteps, LeaseStep
<1>7. \A x \in DOMAIN leases' : leases'[x].id \in usedIds'
  <2>1. id \in usedIds'  BY <1>2
  <2>2. usedIds \subseteq usedIds'  BY <1>2
  <2> QED BY <1>3, <1>4, <2>1, <2>2 DEF GrantInv
<1>8. \A u \in Threads : calls'[u].op = "acquire" => calls'[u].approval \in digests' \cup {None}
  BY DEF AcquireGranted, Return, GrantInv, TypeOK, CallsOK, Idle
<1> QED BY <1>6, <1>7, <1>8 DEF GrantInv

LEMMA GrantInvInductive ==
  ASSUME TypeOK, GrantInv, [Next]_vars
  PROVE  LeaseSteps /\ GrantInv'
<1> DEFINE CallsKeep == \A u \in Threads : calls'[u].op = "acquire" =>
                                             calls'[u].approval \in digests' \cup {None}
<1>0. calls \in [Threads -> Call]  BY DEF TypeOK, CallsOK
<1>1. \A t \in Threads : Return(t) /\ digests \subseteq digests' => CallsKeep
  BY <1>0 DEF GrantInv, Return, Idle
<1>2. ASSUME UNCHANGED leases, usedIds \subseteq usedIds'
      PROVE LeaseSteps /\ \A x \in DOMAIN leases' : leases'[x].id \in usedIds'
  BY <1>2 DEF GrantInv, LeaseSteps, LeaseStep
<1>3. ASSUME UNCHANGED usedIds, DOMAIN leases' \subseteq DOMAIN leases,
             \A x \in DOMAIN leases' : /\ leases'[x].id = leases[x].id
                                       /\ leases'[x].owner = leases[x].owner
      PROVE LeaseSteps /\ \A x \in DOMAIN leases' : leases'[x].id \in usedIds'
  BY <1>3 DEF GrantInv, LeaseSteps, LeaseStep
<1>4. UNCHANGED <<calls, digests>> => CallsKeep  BY DEF GrantInv
<1>5. ASSUME NEW t \in Threads, NEW call, Start(t, call),
             call.op = "acquire" => call.approval \in digests \cup {None}
      PROVE  LeaseSteps /\ GrantInv'
  <2>1. CallsKeep  BY <1>0, <1>5 DEF Start, GrantInv
  <2> QED BY <1>2, <1>5, <2>1 DEF Start, serviceVars, GrantInv
<1>6. ASSUME NEW t \in Threads,
             StartRegister(t) \/ StartHeartbeat(t) \/ StartBegin(t) \/ StartAcquire(t)
             \/ StartSweep(t)
      PROVE  LeaseSteps /\ GrantInv'
  <2>1. CASE StartRegister(t)  BY <1>5, <2>1 DEF StartRegister
  <2>2. CASE StartHeartbeat(t)  BY <1>5, <2>2 DEF StartHeartbeat
  <2>3. CASE StartBegin(t)  BY <1>5, <2>3 DEF StartBegin
  <2>4. CASE StartAcquire(t)  BY <1>5, <2>4 DEF StartAcquire
  <2>5. CASE StartSweep(t)  BY <1>5, <2>5 DEF StartSweep
  <2> QED BY <1>6, <2>1, <2>2, <2>3, <2>4, <2>5
<1>7. ASSUME NEW t \in Threads, Sweep(t)  PROVE LeaseSteps /\ GrantInv'
  <2>1. calls[t] \in Call  BY <1>0
  <2>2. [calls[t] EXCEPT !.swept = TRUE].op = calls[t].op
        /\ calls[t].op = "acquire" =>
             [calls[t] EXCEPT !.swept = TRUE].approval = calls[t].approval
    <3>1. CASE calls[t] \in AcquireCall  BY <3>1 DEF AcquireCall
    <3>2. CASE calls[t] \in RegisterCall  BY <3>2 DEF RegisterCall
    <3>3. CASE calls[t] \in SessionCall  BY <3>3 DEF SessionCall
    <3>4. CASE calls[t] \in SweepCall  BY <3>4 DEF SweepCall
    <3>5. CASE calls[t] = Idle  BY <1>7, <3>5 DEF Sweep
    <3> QED BY <2>1, <3>1, <3>2, <3>3, <3>4, <3>5 DEF Call
  <2>3. CallsKeep  BY <1>0, <1>7, <2>2 DEF Sweep, GrantInv, Idle
  <2>4. UNCHANGED usedIds /\ DOMAIN leases' \subseteq DOMAIN leases
        /\ \A x \in DOMAIN leases' : leases'[x] = leases[x]
    BY <1>7 DEF Sweep, ExpireSessions, Restrict, LeasesNotOwnedBy
  <2> QED BY <1>3, <2>3, <2>4 DEF GrantInv
<1>8. ASSUME NEW t \in Threads,
             RegisterKnown(t) \/ RegistryFull(t) \/ BeginRequest(t) \/ RegisterNew(t)
             \/ AcquireRefused(t)
      PROVE LeaseSteps /\ GrantInv'
  <2>1. /\ UNCHANGED leases /\ usedIds \subseteq usedIds' /\ digests \subseteq digests'
        /\ Return(t)
    BY <1>8 DEF RegisterKnown, RegistryFull, BeginRequest, RegisterNew, AcquireRefused,
                serviceVars
  <2> QED BY <1>1, <1>2, <2>1 DEF GrantInv
<1>9. ASSUME NEW t \in Threads, Heartbeat(t)  PROVE LeaseSteps /\ GrantInv'
  <2>1. DOMAIN leases' = DOMAIN leases
        /\ \A x \in DOMAIN leases : /\ leases'[x].id = leases[x].id
                                     /\ leases'[x].owner = leases[x].owner
    BY <1>9 DEF Heartbeat, TypeOK, LeasesOK, Lease
  <2>2. Return(t) /\ UNCHANGED <<usedIds, digests>>  BY <1>9 DEF Heartbeat
  <2> QED BY <1>1, <1>3, <2>1, <2>2 DEF GrantInv
<1>10. ASSUME UNCHANGED <<calls, digests, usedIds>>, DOMAIN leases' \subseteq DOMAIN leases,
              \A x \in DOMAIN leases' : leases'[x] = leases[x]
       PROVE LeaseSteps /\ GrantInv'
  BY <1>3, <1>4, <1>10 DEF GrantInv
<1>11. ASSUME NEW s \in Live, UnregisterClient(s)  PROVE LeaseSteps /\ GrantInv'
  BY <1>10, <1>11 DEF UnregisterClient, Restrict, LeasesNotOwnedBy
<1>12. CASE DisconnectAllSessions
  <2>1. DOMAIN leases' = {}  BY <1>12 DEF DisconnectAllSessions
  <2> QED BY <1>10, <1>12, <2>1 DEF DisconnectAllSessions
<1>13. ASSUME NEW i \in LegacyInvocations, BeginLegacyRequest(i)  PROVE LeaseSteps /\ GrantInv'
  BY <1>10, <1>13 DEF BeginLegacyRequest
<1>14. ASSUME NEW r \in DOMAIN requests,
              \/ StampActivity(r) \/ BeginActivity(r)
              \/ CompleteWithFailure(r) \/ EndRequest(r)
       PROVE LeaseSteps /\ GrantInv'
  BY <1>10, <1>14 DEF StampActivity, BeginActivity, CompleteWithFailure, EndRequest,
                      serviceVars
<1>15. ASSUME NEW type \in LeaseTypes, NEW s \in Live, ReleaseLease(type, s)
       PROVE LeaseSteps /\ GrantInv'
  BY <1>10, <1>15 DEF ReleaseLease, Restrict
<1>16. CASE Tick \/ UNCHANGED vars
  BY <1>10, <1>16 DEF Tick, vars, serviceVars
<1> QED
  BY <1>6, <1>7, <1>8, <1>9, GrantStep, <1>11, <1>12, <1>13, <1>14, <1>15, <1>16
  DEF Next, Method

LEMMA GrantInvariant == Spec => []GrantInv
<1>1. Init => GrantInv  BY DEF Init, GrantInv, Idle
<1>2. TypeOK /\ GrantInv /\ [Next]_vars => GrantInv'  BY GrantInvInductive
<1> QED BY <1>1, <1>2, TypeCorrect, PTL DEF Spec

\* Override digests name one grant: whoever keeps the lease id is the same owner.
THEOREM GrantsKeepOwners == Spec => GrantKeepsItsOwner
<1>1. TypeOK /\ GrantInv /\ [Next]_vars =>
        [\A t \in DOMAIN leases \cap DOMAIN leases' :
           leases'[t].id = leases[t].id => leases'[t].owner = leases[t].owner]_vars
  BY GrantInvInductive DEF LeaseSteps, LeaseStep, GrantInv
<1> QED BY <1>1, TypeCorrect, GrantInvariant, PTL DEF Spec, GrantKeepsItsOwner

\* No session loses a lease to another one that was not refused this very lease.
THEOREM TakeoversWereAnnounced == Spec => TakeoverWasAnnounced
<1>1. TypeOK /\ GrantInv /\ [Next]_vars =>
        [\A t \in DOMAIN leases \cap DOMAIN leases' :
           leases'[t].owner # leases[t].owner =>
             [type |-> t, id |-> leases[t].id, owner |-> leases[t].owner,
              to |-> leases'[t].owner] \in digests]_vars
  BY GrantInvInductive DEF LeaseSteps, LeaseStep
<1> QED BY <1>1, TypeCorrect, GrantInvariant, PTL DEF Spec, TakeoverWasAnnounced

---------------------------------------------------------------------------
(* Approvals.  AuditInv: the overrides of the audit are about grants that    *)
(* are over, each under a lease id that was drawn and that no lease has any  *)
(* more; two leases never share an id.                                       *)

AuditInv ==
  /\ ApprovalSpentOnce
  /\ \A k \in DOMAIN audit : audit[k].id \in usedIds
  /\ \A k \in DOMAIN audit, x \in DOMAIN leases : audit[k].id # leases[x].id
  /\ \A x, y \in DOMAIN leases : leases[x].id = leases[y].id => x = y

\* The last n elements of a sequence are elements of it, each of them once if the
\* sequence holds each of its elements once.
LEMMA LastOfElements ==
  ASSUME NEW S, NEW q \in Seq(S), NEW n \in Nat \ {0}
  PROVE  /\ \A k \in DOMAIN LastOf(n, q) : \E j \in DOMAIN q : LastOf(n, q)[k] = q[j]
         /\ IsInjective(q) => IsInjective(LastOf(n, q))
<1>1. Len(q) \in Nat /\ DOMAIN q = 1..Len(q) /\ \A i \in 1..Len(q) : q[i] \in S
  BY LenProperties, ElementOfSeq
<1>2. CASE Len(q) > n
  <2> DEFINE m == Len(q) - n + 1
             tail == SubSeq(q, m, Len(q))
  <2>1. m \in Int /\ m >= 1 /\ m <= Len(q)  BY <1>1, <1>2
  <2>2. \A i \in m..Len(q) : q[i] \in S  BY <1>1, <2>1
  <2>3. /\ tail \in Seq(S) /\ Len(tail) = Len(q) - m + 1
        /\ \A i \in 1..(Len(q) - m + 1) : tail[i] = q[m + i - 1]
    <3> HIDE DEF m
    <3> QED BY <1>1, <2>1, <2>2, SubSeqProperties
  <2>4. DOMAIN tail = 1..(Len(q) - m + 1)
    <3>1. DOMAIN tail = 1..Len(tail)
      <4>1. tail \in Seq(S)  BY <2>3
      <4> HIDE DEF tail, m
      <4> QED BY <4>1, LenProperties
    <3> QED BY <2>3, <3>1
  <2>5. \A i \in DOMAIN tail : m + i - 1 \in DOMAIN q /\ tail[i] = q[m + i - 1]
    <3> SUFFICES ASSUME NEW i \in DOMAIN tail
                 PROVE  m + i - 1 \in DOMAIN q /\ tail[i] = q[m + i - 1]
      OBVIOUS
    <3>1. i \in 1..(Len(q) - m + 1)  BY <2>4
    <3>2. tail[i] = q[m + i - 1]  BY <2>3, <3>1
    <3> HIDE DEF tail
    <3>3. m + i - 1 \in 1..Len(q)  BY <1>1, <2>1, <3>1
    <3> QED BY <1>1, <3>2, <3>3
  <2>6. LastOf(n, q) = tail  BY <1>2 DEF LastOf
  <2>7. IsInjective(q) => IsInjective(tail)
    <3>1. m \in Int /\ \A i \in DOMAIN tail : i \in Int  BY <2>1, <2>4
    <3> HIDE DEF tail, m
    <3> QED BY <2>5, <3>1 DEF IsInjective
  <2> HIDE DEF tail, m
  <2> QED BY <2>5, <2>6, <2>7
<1>3. CASE ~(Len(q) > n)  BY <1>3 DEF LastOf
<1> QED BY <1>2, <1>3

\* A step that keeps the audit, and under each type the lease or its id, keeps AuditInv.
LEMMA SameGrantsKeepAudit ==
  ASSUME AuditInv, UNCHANGED audit, usedIds \subseteq usedIds',
         DOMAIN leases' \subseteq DOMAIN leases,
         \A x \in DOMAIN leases' : leases'[x].id = leases[x].id
  PROVE  AuditInv'
BY DEF AuditInv, ApprovalSpentOnce

LEMMA GrantKeepsAudit ==
  ASSUME TypeOK, GrantInv, AuditInv, NEW t \in Threads, AcquireGranted(t)
  PROVE  AuditInv'
<1> DEFINE s == calls[t].session
           type == calls[t].type
           digest == OverrideDigest(type, s)
<1>0. s \in SessionIds /\ type \in LeaseTypes
  BY CallFields DEF AcquireGranted, AcquireCall, TypeOK
<1>1. PICK id \in GrantIds(type, s) :
        /\ leases' = With(leases, type, [id |-> id, owner |-> s, expires |-> clock + LeaseTTL])
        /\ usedIds' = usedIds \cup {id}
  BY DEF AcquireGranted
<1>2. /\ DOMAIN leases' = DOMAIN leases \cup {type} /\ leases'[type].id = id
      /\ \A x \in DOMAIN leases : x # type => leases'[x] = leases[x]
  BY <1>1 DEF With
<1>3. CASE OwnedBy(type, s)
  <2>1. id = leases[type].id /\ type \in DOMAIN leases  BY <1>1, <1>3 DEF GrantIds, OwnedBy
  <2>2. UNCHANGED audit  BY <1>3 DEF AcquireGranted, OwnedBy, OwnedByOther
  <2>3. \A x \in DOMAIN leases' : leases'[x].id = leases[x].id  BY <1>2, <2>1
  <2> QED BY <1>1, <1>2, <2>1, <2>2, <2>3, SameGrantsKeepAudit
<1>4. CASE ~OwnedBy(type, s)
  <2>1. id \notin usedIds  BY <1>1, <1>4 DEF GrantIds
  <2>2. \A x, y \in DOMAIN leases' : leases'[x].id = leases'[y].id => x = y
    BY <1>2, <2>1 DEF AuditInv, GrantInv
  <2>3. CASE ~OwnedByOther(type, s)
    <3>1. UNCHANGED audit  BY <2>3 DEF AcquireGranted
    <3> QED BY <1>1, <1>2, <2>1, <2>2, <3>1 DEF AuditInv, ApprovalSpentOnce, GrantInv
  <2>4. CASE OwnedByOther(type, s)
    <3> DEFINE longer == Append(audit, digest)
    <3>1. audit \in Seq(Digest) /\ digest \in Digest
      BY <1>0, <2>4, OverrideDigestType DEF TypeOK, LeasesOK
    <3>2. digest.id = leases[type].id /\ type \in DOMAIN leases
      BY <2>4 DEF OverrideDigest, OwnedByOther
    <3>3. /\ longer \in Seq(Digest) /\ DOMAIN audit = 1..Len(audit) /\ Len(audit) \in Nat
          /\ DOMAIN longer = 1..(Len(audit) + 1) /\ longer[Len(audit) + 1] = digest
          /\ \A k \in 1..Len(audit) : longer[k] = audit[k]
      <4> HIDE DEF digest
      <4> QED BY <3>1, AppendProperties, LenProperties
    <3> HIDE DEF digest, longer
    <3>4. \A k \in DOMAIN audit : audit[k] # digest  BY <3>2 DEF AuditInv
    <3>5. IsInjective(longer)
      BY <3>3, <3>4 DEF IsInjective, AuditInv, ApprovalSpentOnce
    <3>6. \A k \in DOMAIN longer : longer[k].id \in usedIds
      BY <3>2, <3>3 DEF AuditInv, GrantInv
    <3>7. \A k \in DOMAIN longer, x \in DOMAIN leases : x # type => longer[k].id # leases[x].id
      BY <3>2, <3>3 DEF AuditInv
    <3>8. audit' = LastOf(AuditCapacity, longer)
      BY <2>4 DEF AcquireGranted, longer, digest
    <3>9. \A k \in DOMAIN audit' : \E j \in DOMAIN longer : audit'[k] = longer[j]
      BY <3>3, <3>8, LastOfElements
    <3>10. IsInjective(audit')  BY <3>3, <3>5, <3>8, LastOfElements
    <3>11. \A k \in DOMAIN audit', x \in DOMAIN leases' : audit'[k].id # leases'[x].id
      BY <1>2, <2>1, <3>6, <3>7, <3>9
    <3> QED BY <1>1, <2>2, <3>6, <3>9, <3>10, <3>11 DEF AuditInv, ApprovalSpentOnce
  <2> QED BY <2>3, <2>4
<1> QED BY <1>3, <1>4

LEMMA AuditInvInductive ==
  ASSUME TypeOK, GrantInv, AuditInv, [Next]_vars
  PROVE  AuditInv'
<1>1. ASSUME UNCHANGED <<audit, leases>>, usedIds \subseteq usedIds'  PROVE AuditInv'
  BY <1>1, SameGrantsKeepAudit
<1>2. ASSUME UNCHANGED audit, usedIds' = usedIds, NEW T \in SUBSET DOMAIN leases,
             leases' = Restrict(leases, T)
      PROVE  AuditInv'
  BY <1>2, SameGrantsKeepAudit DEF Restrict
<1>3. ASSUME NEW t \in Threads, NEW call, Start(t, call)  PROVE AuditInv'
  BY <1>1, <1>3 DEF Start, serviceVars
<1>4. ASSUME NEW t \in Threads, Sweep(t)  PROVE AuditInv'
  <2> DEFINE T == {x \in LeasesNotOwnedBy(Expired(calls[t].now)) :
                      leases[x].expires > calls[t].now}
  <2>1. T \subseteq DOMAIN leases  BY DEF LeasesNotOwnedBy
  <2>2. leases' = Restrict(leases, T) /\ UNCHANGED audit /\ usedIds' = usedIds
    BY <1>4 DEF Sweep, ExpireSessions
  <2> QED BY <1>2, <2>1, <2>2
<1>5. ASSUME NEW t \in Threads,
             RegisterKnown(t) \/ RegisterNew(t) \/ RegistryFull(t) \/ BeginRequest(t)
             \/ AcquireRefused(t)
      PROVE AuditInv'
  <2>1. UNCHANGED <<audit, leases>> /\ usedIds \subseteq usedIds'
    BY <1>5 DEF RegisterKnown, RegisterNew, RegistryFull, BeginRequest, AcquireRefused,
                serviceVars
  <2> QED BY <1>1, <2>1
<1>6. ASSUME NEW t \in Threads, Heartbeat(t)  PROVE AuditInv'
  <2>1. DOMAIN leases' = DOMAIN leases /\ \A x \in DOMAIN leases : leases'[x].id = leases[x].id
    BY <1>6 DEF Heartbeat, TypeOK, LeasesOK, Lease
  <2> QED BY <1>6, <2>1, SameGrantsKeepAudit DEF Heartbeat
<1>7. ASSUME NEW s \in Live, UnregisterClient(s)  PROVE AuditInv'
  <2>1. LeasesNotOwnedBy({s}) \subseteq DOMAIN leases  BY DEF LeasesNotOwnedBy
  <2> QED BY <1>2, <1>7, <2>1 DEF UnregisterClient
<1>8. CASE DisconnectAllSessions
  <2>1. DOMAIN leases' = {}  BY <1>8 DEF DisconnectAllSessions
  <2> QED BY <1>8, <2>1, SameGrantsKeepAudit DEF DisconnectAllSessions
<1>9. ASSUME NEW i \in LegacyInvocations, BeginLegacyRequest(i)  PROVE AuditInv'
  BY <1>1, <1>9 DEF BeginLegacyRequest
<1>10. ASSUME NEW r \in DOMAIN requests,
              \/ StampActivity(r) \/ BeginActivity(r)
              \/ CompleteWithFailure(r) \/ EndRequest(r)
       PROVE AuditInv'
  BY <1>1, <1>10 DEF StampActivity, BeginActivity, CompleteWithFailure, EndRequest,
                     serviceVars
<1>11. ASSUME NEW type \in LeaseTypes, NEW s \in Live, ReleaseLease(type, s)
       PROVE AuditInv'
  BY <1>2, <1>11 DEF ReleaseLease
<1>12. CASE Tick \/ UNCHANGED vars  BY <1>1, <1>12 DEF Tick, vars, serviceVars
<1> QED
  BY <1>3, <1>4, <1>5, <1>6, GrantKeepsAudit, <1>7, <1>8, <1>9, <1>10, <1>11, <1>12
  DEF Next, Method, StartRegister, StartHeartbeat, StartBegin, StartAcquire, StartSweep

\* No digest is used for two overrides, however the lease goes back and forth.
THEOREM ApprovalsAreSpentOnce == Spec => []ApprovalSpentOnce
<1>1. Init => AuditInv  BY DEF Init, AuditInv, ApprovalSpentOnce, IsInjective
<1>2. TypeOK /\ GrantInv /\ AuditInv /\ [Next]_vars => AuditInv'  BY AuditInvInductive
<1>3. AuditInv => ApprovalSpentOnce  BY DEF AuditInv
<1> QED BY <1>1, <1>2, <1>3, TypeCorrect, GrantInvariant, PTL DEF Spec

---------------------------------------------------------------------------
(* Open requests.  CountInv: an open request was begun under an id that was  *)
(* handed out, so a session that registers later does not inherit it, even   *)
(* when its own session was disconnected under it.                           *)

CountInv ==
  /\ RequestCountExact
  /\ \A r \in DOMAIN requests : requests[r].session \in usedIds \cup {None}

LEMMA OpenRequestsFinite ==
  ASSUME CallsOK, NEW s
  PROVE  /\ IsFiniteSet(OpenRequests(s)) /\ Cardinality(OpenRequests(s)) \in Nat
         /\ Cardinality(OpenRequests(s)) = 0 <=> OpenRequests(s) = {}
<1>1. OpenRequests(s) \in SUBSET Requests  BY DEF OpenRequests, CallsOK
<1>2. IsFiniteSet(OpenRequests(s))  BY <1>1, FS_Subset
<1> QED BY <1>2, FS_CardinalityType, FS_EmptySet

\* A step that begins and ends no request, and lets every session that stays keep
\* its count, keeps the counts exact.
LEMMA SameRequestsKeepCounts ==
  ASSUME CountInv, UNCHANGED requests, usedIds \subseteq usedIds', Live' \subseteq Live,
         \A s \in Live' : sessions'[s].active = sessions[s].active
  PROVE  CountInv'
BY DEF CountInv, RequestCountExact, OpenRequests

LEMMA CountInvInductive ==
  ASSUME TypeOK, CountInv, [Next]_vars
  PROVE  CountInv'
<1>0. /\ \A s \in Live : sessions[s] \in Session /\ s \in SessionIds \cap usedIds
      /\ None \notin SessionIds /\ CallsOK
  BY NoneAssumption DEF TypeOK, SessionsOK
<1>1. ASSUME UNCHANGED <<sessions, requests>>, usedIds \subseteq usedIds'  PROVE CountInv'
  BY <1>1, SameRequestsKeepCounts DEF Live
<1>2. ASSUME NEW t \in Threads, NEW call, Start(t, call)  PROVE CountInv'
  BY <1>1, <1>2 DEF Start, serviceVars
<1>3. ASSUME NEW S, Drop(S), UNCHANGED <<requests, usedIds>>  PROVE CountInv'
  <2>1. Live' \subseteq Live /\ \A s \in Live' : sessions'[s] = sessions[s]
    BY <1>3 DEF Drop, Restrict, Live
  <2> QED BY <1>3, <2>1, SameRequestsKeepCounts
<1>4. ASSUME NEW t \in Threads, Sweep(t)  PROVE CountInv'
  BY <1>3, <1>4 DEF Sweep, ExpireSessions
<1>5. ASSUME NEW t \in Threads, RegisterKnown(t) \/ Heartbeat(t)  PROVE CountInv'
  <2>1. RegisterKnown(t) => Live' = Live /\ \A s \in Live : sessions'[s].active = sessions[s].active
    BY <1>0 DEF RegisterKnown, Refreshed, Live, Session
  <2>2. Heartbeat(t) => Live' = Live /\ \A s \in Live : sessions'[s].active = sessions[s].active
    BY <1>0 DEF Heartbeat, Refreshed, Live, Session
  <2>3. UNCHANGED <<requests, usedIds>>  BY <1>5 DEF RegisterKnown, Heartbeat
  <2> QED BY <1>5, <2>1, <2>2, <2>3, SameRequestsKeepCounts
<1>6. ASSUME NEW t \in Threads, RegisterNew(t)  PROVE CountInv'
  <2> DEFINE c == calls[t].client
  <2>1. PICK s \in SessionIds \ usedIds :
          /\ sessions' = With(sessions, s, [client |-> c, last |-> calls[t].now, active |-> 0])
          /\ usedIds' = usedIds \cup {s}
    BY <1>6 DEF RegisterNew
  <2>2. UNCHANGED requests  BY <1>6 DEF RegisterNew
  <2>3. OpenRequests(s) = {}  BY <1>0, <2>1 DEF CountInv, OpenRequests
  <2>4. Live' = Live \cup {s} /\ sessions'[s].active = 0
        /\ \A x \in Live : sessions'[x] = sessions[x]
    BY <1>0, <2>1 DEF With, Live
  <2>5. \A x \in Live' : sessions'[x].active = Cardinality(OpenRequests(x))
    BY <2>3, <2>4, FS_EmptySet DEF CountInv, RequestCountExact
  <2>6. \A x : OpenRequests(x)' = OpenRequests(x)  BY <2>2 DEF OpenRequests
  <2> QED BY <2>1, <2>2, <2>5, <2>6 DEF CountInv, RequestCountExact
<1>7. ASSUME NEW t \in Threads, RegistryFull(t) \/ AcquireRefused(t) \/ AcquireGranted(t)
      PROVE CountInv'
  BY <1>1, <1>7 DEF RegistryFull, AcquireRefused, AcquireGranted, serviceVars
<1>8. ASSUME NEW t \in Threads, BeginRequest(t)  PROVE CountInv'
  <2>0. PICK s : s = calls[t].session  OBVIOUS
  <2>1. CASE s \notin Live  BY <1>1, <1>8, <2>0, <2>1 DEF BeginRequest
  <2>2. CASE s \in Live
    <3>1. PICK r \in Requests \ DOMAIN requests : \E i :
            requests' = With(requests, r, [session |-> s, invocation |-> i, logged |-> FALSE, stamp |-> NoTime])
      BY <1>8, <2>0, <2>2 DEF BeginRequest
    <3>2. sessions' = [sessions EXCEPT ![s].last = clock, ![s].active = @ + 1]
          /\ usedIds' = usedIds
      BY <1>8, <2>0, <2>2 DEF BeginRequest
    <3>3. OpenRequests(s)' = OpenRequests(s) \cup {r} /\ r \notin OpenRequests(s)
      BY <3>1 DEF OpenRequests, With
    <3>4. \A x : x # s => OpenRequests(x)' = OpenRequests(x)
      BY <3>1 DEF OpenRequests, With
    <3>5. Cardinality(OpenRequests(s)') = Cardinality(OpenRequests(s)) + 1
      BY <1>0, <3>3, OpenRequestsFinite, FS_AddElement
    <3>6. Live' = Live /\ sessions'[s].active = sessions[s].active + 1
          /\ \A x \in Live : x # s => sessions'[x] = sessions[x]
      BY <1>0, <2>2, <3>2 DEF Live, Session
    <3>7. RequestCountExact'
      BY <2>2, <3>4, <3>5, <3>6 DEF CountInv, RequestCountExact
    <3>8. \A x \in DOMAIN requests' : requests'[x].session \in usedIds' \cup {None}
      BY <1>0, <2>2, <3>1, <3>2 DEF CountInv, With
    <3> QED BY <3>7, <3>8 DEF CountInv
  <2> QED BY <2>1, <2>2
<1>9. ASSUME NEW s \in Live, UnregisterClient(s)  PROVE CountInv'
  BY <1>3, <1>9 DEF UnregisterClient
<1>10. CASE DisconnectAllSessions
  <2>1. Live' = {} /\ UNCHANGED <<requests, usedIds>>
    BY <1>10 DEF DisconnectAllSessions, Live
  <2> QED BY <2>1 DEF CountInv, RequestCountExact
<1>11. ASSUME NEW i \in LegacyInvocations, BeginLegacyRequest(i)  PROVE CountInv'
  <2>1. PICK r \in Requests \ DOMAIN requests :
          requests' = With(requests, r, [session |-> None, invocation |-> i, logged |-> FALSE, stamp |-> NoTime])
    BY <1>11 DEF BeginLegacyRequest
  <2>2. UNCHANGED <<sessions, usedIds>>  BY <1>11 DEF BeginLegacyRequest
  <2>3. \A s \in Live : OpenRequests(s)' = OpenRequests(s)
    BY <1>0, <2>1 DEF OpenRequests, With
  <2>4. RequestCountExact'  BY <2>2, <2>3 DEF CountInv, RequestCountExact, Live
  <2>5. \A x \in DOMAIN requests' : requests'[x].session \in usedIds' \cup {None}
    BY <2>1, <2>2 DEF CountInv, With
  <2> QED BY <2>4, <2>5 DEF CountInv
<1>12. ASSUME NEW r \in DOMAIN requests, CompleteWithFailure(r)  PROVE CountInv'
  BY <1>1, <1>12 DEF CompleteWithFailure
<1>13. ASSUME NEW r \in DOMAIN requests, EndRequest(r)  PROVE CountInv'
  <2>0. PICK s : s = requests[r].session  OBVIOUS
  <2>1. requests' = Restrict(requests, DOMAIN requests \ {r}) /\ usedIds' = usedIds
    BY <1>13 DEF EndRequest
  <2>2. \A x : x # s => OpenRequests(x)' = OpenRequests(x)
    BY <2>0, <2>1 DEF OpenRequests, Restrict
  <2>3. OpenRequests(s)' = OpenRequests(s) \ {r} /\ r \in OpenRequests(s)
    BY <2>0, <2>1 DEF OpenRequests, Restrict
  <2>4. Cardinality(OpenRequests(s)') = Cardinality(OpenRequests(s)) - 1
    BY <1>0, <2>3, OpenRequestsFinite, FS_RemoveElement
  <2>5. CASE s \in Live
    <3>1. sessions' = [sessions EXCEPT ![s].active = Decremented(@), ![s].last = clock]
      BY <1>13, <2>0, <2>5 DEF EndRequest
    <3>2. Live' = Live /\ sessions'[s].active = Decremented(sessions[s].active)
          /\ \A x \in Live : x # s => sessions'[x] = sessions[x]
      BY <1>0, <2>5, <3>1 DEF Live, Session
    <3>3. sessions[s].active = Cardinality(OpenRequests(s)) /\ sessions[s].active \in Nat
          /\ sessions[s].active # 0
      BY <1>0, <2>3, <2>5, OpenRequestsFinite DEF CountInv, RequestCountExact
    <3>4. sessions'[s].active = Cardinality(OpenRequests(s)')
      BY <2>4, <3>2, <3>3 DEF Decremented
    <3> QED BY <2>1, <2>2, <3>2, <3>4 DEF CountInv, RequestCountExact, Restrict
  <2>6. CASE s \notin Live
    <3>1. UNCHANGED sessions  BY <1>13, <2>0, <2>6 DEF EndRequest
    <3> QED BY <2>1, <2>2, <2>6, <3>1 DEF CountInv, RequestCountExact, Restrict, Live
  <2> QED BY <2>5, <2>6
<1>14. ASSUME NEW type \in LeaseTypes, NEW s \in Live, ReleaseLease(type, s)
       PROVE CountInv'
  BY <1>1, <1>14 DEF ReleaseLease
<1>15. CASE Tick \/ UNCHANGED vars  BY <1>1, <1>15 DEF Tick, vars, serviceVars
<1>16. ASSUME NEW r \in DOMAIN requests, BeginActivity(r)  PROVE CountInv'
  <2>1. /\ requests' = [requests EXCEPT ![r].logged = TRUE, ![r].stamp = NoTime] /\ usedIds' = usedIds
    BY <1>16 DEF BeginActivity
  <2>2. DOMAIN requests' = DOMAIN requests
        /\ \A x \in DOMAIN requests : requests'[x].session = requests[x].session
    BY <2>1
  <2>3. \A s : OpenRequests(s)' = OpenRequests(s)  BY <2>2 DEF OpenRequests
  <2>4. Live' = Live /\ \A s \in Live : sessions'[s].active = sessions[s].active
    BY <1>16, LoggedSessions
  <2> QED BY <2>1, <2>2, <2>3, <2>4 DEF CountInv, RequestCountExact
<1>17. ASSUME NEW r \in DOMAIN requests, StampActivity(r)  PROVE CountInv'
  <2>1. /\ requests' = [requests EXCEPT ![r].stamp = clock] /\ usedIds' = usedIds
        /\ UNCHANGED sessions
    BY <1>17 DEF StampActivity, serviceVars
  <2>2. DOMAIN requests' = DOMAIN requests
        /\ \A x \in DOMAIN requests : requests'[x].session = requests[x].session
    BY <2>1
  <2>3. \A s : OpenRequests(s)' = OpenRequests(s)  BY <2>2 DEF OpenRequests
  <2> QED BY <2>1, <2>2, <2>3 DEF CountInv, RequestCountExact, Live
<1> QED
  BY <1>2, <1>4, <1>5, <1>6, <1>7, <1>8, <1>9, <1>10, <1>11, <1>12, <1>13, <1>14, <1>15,
     <1>16, <1>17
  DEF Next, Method, StartRegister, StartHeartbeat, StartBegin, StartAcquire, StartSweep

LEMMA CountInvariant == Spec => []CountInv
<1>1. Init => CountInv  BY DEF Init, CountInv, RequestCountExact, Live
<1>2. TypeOK /\ CountInv /\ [Next]_vars => CountInv'  BY CountInvInductive
<1> QED BY <1>1, <1>2, TypeCorrect, PTL DEF Spec

\* ActiveRequestCount of every session is the number of its open requests.
THEOREM RequestCountsAreExact == Spec => []RequestCountExact
<1>1. CountInv => RequestCountExact  BY DEF CountInv
<1> QED BY <1>1, CountInvariant, PTL

\* A session leaves the registry in one of three ways: it expires, it unregisters,
\* or everybody is disconnected.
LEMMA WaysOut ==
  ASSUME TypeOK, [Next]_vars, NEW s \in Live \ DOMAIN sessions'
  PROVE  \/ \E t \in Threads : Sweep(t) /\ s \in Expired(calls[t].now)
         \/ UnregisterClient(s)
         \/ DisconnectAllSessions
<1>1. ASSUME NEW S, Drop(S)  PROVE s \in S
  BY <1>1 DEF Drop, Restrict, Live
<1>2. \A t \in Threads : Sweep(t) => s \in Expired(calls[t].now)
  BY <1>1 DEF Sweep, ExpireSessions
<1>3. \A x \in Live : UnregisterClient(x) => x = s
  BY <1>1 DEF UnregisterClient
<1>4. ASSUME Live \subseteq Live'  PROVE FALSE  BY <1>4 DEF Live
<1>5. ASSUME NEW t \in Threads, Method(t), ~Sweep(t)  PROVE FALSE
  <2>1. \A call : ~Start(t, call)  BY <1>4 DEF Start, serviceVars, Live
  <2>2. ~RegisterKnown(t) /\ ~RegistryFull(t) /\ ~Heartbeat(t)
    BY <1>4 DEF RegisterKnown, RegistryFull, Heartbeat, Refreshed, Live
  <2>3. ~RegisterNew(t)  BY <1>4 DEF RegisterNew, With, Live
  <2>4. ~BeginRequest(t)  BY <1>4 DEF BeginRequest, Live
  <2>5. ~AcquireRefused(t) /\ ~AcquireGranted(t)
    BY <1>4 DEF AcquireRefused, AcquireGranted, serviceVars, Live
  <2> QED BY <1>5, <2>1, <2>2, <2>3, <2>4, <2>5
          DEF Method, StartRegister, StartHeartbeat, StartBegin, StartAcquire, StartSweep
<1>6. \A r \in DOMAIN requests :
        ~StampActivity(r) /\ ~BeginActivity(r) /\ ~CompleteWithFailure(r) /\ ~EndRequest(r)
  BY <1>4, LoggedSessions DEF StampActivity, CompleteWithFailure, EndRequest, serviceVars,
                              Live
<1>7. \A i \in LegacyInvocations : ~BeginLegacyRequest(i)
  BY <1>4 DEF BeginLegacyRequest, Live
<1>8. \A type \in LeaseTypes, x \in Live : ~ReleaseLease(type, x)
  BY <1>4 DEF ReleaseLease, Live
<1>9. ~Tick /\ ~UNCHANGED vars  BY <1>4 DEF Tick, vars, serviceVars, Live
<1> QED BY <1>2, <1>3, <1>5, <1>6, <1>7, <1>8, <1>9 DEF Next

\* Neither expiry nor unregistration removes a session with an open request.
THEOREM OpenRequestsPin == Spec => PinnedSessionStays
<1>1. TypeOK /\ CountInv /\ [Next]_vars =>
        [\A s \in Live \ DOMAIN sessions' : OpenRequests(s) # {} => sessions' = << >>]_vars
  <2> SUFFICES ASSUME TypeOK, CountInv, [Next]_vars,
                      NEW s \in Live \ DOMAIN sessions', OpenRequests(s) # {}
               PROVE  sessions' = << >>
    OBVIOUS
  <2>1. sessions[s].active # 0
    BY OpenRequestsFinite DEF CountInv, RequestCountExact, TypeOK
  <2>2. DisconnectAllSessions
    BY <2>1, WaysOut DEF Expired, UnregisterClient
  <2> QED BY <2>2 DEF DisconnectAllSessions
<1> QED BY <1>1, TypeCorrect, CountInvariant, PTL DEF Spec, PinnedSessionStays

---------------------------------------------------------------------------
(* Expiry.  SilenceInv: the time a session was last heard from is ahead of   *)
(* the time the registry holds by at most MaxStall, because no call is older *)
(* than that.                                                                *)

SilenceInv ==
  /\ \A s \in Live : heard[s] <= sessions[s].last + MaxStall
  /\ \A t \in Threads : calls[t] # Idle =>
        calls[t].now <= clock /\ clock <= calls[t].now + MaxStall

\* A BeginActivity between reading the clock and its lock section is young, too.
StampsYoung == \A r \in DOMAIN requests : requests[r].stamp # NoTime =>
  requests[r].stamp <= clock /\ clock <= requests[r].stamp + MaxStall

\* Only StampActivity sets a stamp, to the clock, and Tick waits for those set.
LEMMA StampsYoungInductive ==
  ASSUME TypeOK, StampsYoung, [Next]_vars
  PROVE  StampsYoung'
<1>0. /\ clock \in 0..MaxClock /\ MaxStall \in Nat
      /\ \A r \in DOMAIN requests : requests[r] \in Request
  BY ActivityAssumption DEF TypeOK, CallsOK
<1>1. ASSUME UNCHANGED <<clock, requests>>  PROVE StampsYoung'
  BY <1>1 DEF StampsYoung
<1>2. ASSUME UNCHANGED clock,
             \A r \in DOMAIN requests' : \/ requests'[r].stamp = NoTime
                                         \/ r \in DOMAIN requests /\ requests'[r] = requests[r]
      PROVE  StampsYoung'
  BY <1>2 DEF StampsYoung
<1>3. ASSUME NEW r, NEW s, NEW i, UNCHANGED clock,
             requests' = With(requests, r, [session |-> s, invocation |-> i,
                                            logged |-> FALSE, stamp |-> NoTime])
      PROVE  StampsYoung'
  <2>1. \A x \in DOMAIN requests' : \/ requests'[x].stamp = NoTime
                                    \/ x \in DOMAIN requests /\ requests'[x] = requests[x]
    BY <1>3 DEF With
  <2> QED BY <1>2, <1>3, <2>1
<1>4. ASSUME NEW t \in Threads, Method(t)  PROVE StampsYoung'
  <2>1. ASSUME NEW call, Start(t, call)  PROVE StampsYoung'  BY <1>1, <2>1 DEF Start
  <2>2. CASE BeginRequest(t)
    <3>1. UNCHANGED clock  BY <2>2 DEF BeginRequest
    <3>2. \/ UNCHANGED requests
          \/ \E r, i : requests' = With(requests, r,
                [session |-> calls[t].session, invocation |-> i, logged |-> FALSE,
                 stamp |-> NoTime])
      BY <2>2 DEF BeginRequest
    <3> QED BY <1>1, <1>3, <3>1, <3>2
  <2>3. ASSUME \/ Sweep(t) \/ RegisterKnown(t) \/ RegisterNew(t) \/ RegistryFull(t)
               \/ Heartbeat(t) \/ AcquireRefused(t) \/ AcquireGranted(t)
        PROVE  StampsYoung'
    BY <1>1, <2>3 DEF Sweep, RegisterKnown, RegisterNew, RegistryFull, Heartbeat,
                      AcquireRefused, AcquireGranted
  <2> QED BY <1>4, <2>1, <2>2, <2>3
          DEF Method, StartRegister, StartHeartbeat, StartBegin, StartAcquire, StartSweep
<1>5. ASSUME NEW i \in LegacyInvocations, BeginLegacyRequest(i)  PROVE StampsYoung'
  <2>1. PICK r : requests' = With(requests, r, [session |-> None, invocation |-> i,
                                                logged |-> FALSE, stamp |-> NoTime])
    BY <1>5 DEF BeginLegacyRequest
  <2>2. UNCHANGED clock  BY <1>5 DEF BeginLegacyRequest
  <2> QED BY <1>3, <2>1, <2>2
<1>6. ASSUME NEW r \in DOMAIN requests, StampActivity(r)  PROVE StampsYoung'
  <2>1. requests' = [requests EXCEPT ![r].stamp = clock] /\ UNCHANGED clock
    BY <1>6 DEF StampActivity
  <2>2. /\ DOMAIN requests' = DOMAIN requests /\ requests'[r].stamp \in {clock, requests[r].stamp}
        /\ \A x \in DOMAIN requests : x # r => requests'[x] = requests[x]
    BY <1>0, <2>1 DEF Request
  <2>3. clock <= clock /\ clock <= clock + MaxStall  BY <1>0
  <2> QED BY <2>1, <2>2, <2>3 DEF StampsYoung
<1>7. ASSUME NEW r \in DOMAIN requests, BeginActivity(r)  PROVE StampsYoung'
  <2>1. requests' = [requests EXCEPT ![r].logged = TRUE, ![r].stamp = NoTime] /\ UNCHANGED clock
    BY <1>7 DEF BeginActivity
  <2>2. /\ DOMAIN requests' = DOMAIN requests /\ requests'[r].stamp \in {NoTime, requests[r].stamp}
        /\ \A x \in DOMAIN requests : x # r => requests'[x] = requests[x]
    BY <1>0, <2>1 DEF Request
  <2> QED BY <2>1, <2>2 DEF StampsYoung
<1>8. ASSUME NEW r \in DOMAIN requests, EndRequest(r)  PROVE StampsYoung'
  BY <1>2, <1>8 DEF EndRequest, Restrict
<1>9. CASE Tick
  <2>1. /\ clock' = clock + 1 /\ UNCHANGED requests
        /\ \A r \in DOMAIN requests : requests[r].stamp # NoTime =>
              clock < requests[r].stamp + MaxStall
    BY <1>9 DEF Tick
  <2>2. ASSUME NEW r \in DOMAIN requests, requests[r].stamp # NoTime
        PROVE  requests[r].stamp <= clock + 1 /\ clock + 1 <= requests[r].stamp + MaxStall
    <3>1. requests[r].stamp \in 0..MaxClock  BY <1>0, <2>2 DEF Request
    <3>2. requests[r].stamp <= clock /\ clock < requests[r].stamp + MaxStall
      BY <2>1, <2>2 DEF StampsYoung
    <3> QED BY <1>0, <3>1, <3>2
  <2> QED BY <2>1, <2>2 DEF StampsYoung
<1>10. ASSUME \/ \E s \in Live : UnregisterClient(s)
              \/ DisconnectAllSessions
              \/ \E r \in DOMAIN requests : CompleteWithFailure(r)
              \/ \E type \in LeaseTypes, s \in Live : ReleaseLease(type, s)
              \/ UNCHANGED vars
       PROVE  StampsYoung'
  BY <1>1, <1>10 DEF UnregisterClient, DisconnectAllSessions, CompleteWithFailure,
                     ReleaseLease, vars
<1> QED BY <1>4, <1>5, <1>6, <1>7, <1>8, <1>9, <1>10 DEF Next

\* No step lets a call grow older than MaxStall, or writes a last activity further back.
LEMMA SilenceInvInductive ==
  ASSUME TypeOK, StampsYoung, SilenceInv, [Next]_vars
  PROVE  SilenceInv'
<1> DEFINE CallsYoung == \A t \in Threads : calls[t] # Idle =>
                           calls[t].now <= clock /\ clock <= calls[t].now + MaxStall
           HeardLate == \A s \in Live : heard[s] <= sessions[s].last + MaxStall
<1>0. /\ calls \in [Threads -> Call] /\ clock \in 0..MaxClock /\ DOMAIN heard = Live
      /\ \A s \in Live : sessions[s] \in Session /\ heard[s] \in 0..MaxClock
  BY DEF TypeOK, SessionsOK, CallsOK
<1>1. HeardLate /\ CallsYoung  BY DEF SilenceInv
<1>2. ASSUME UNCHANGED <<calls, clock>>  PROVE CallsYoung'  BY <1>1, <1>2
<1>3. ASSUME NEW t \in Threads, Return(t), UNCHANGED clock  PROVE CallsYoung'
  BY <1>0, <1>1, <1>3 DEF Return
<1>4. ASSUME UNCHANGED <<sessions, heard>>  PROVE HeardLate'  BY <1>1, <1>4 DEF Live
<1>5. ASSUME Live' \subseteq Live,
             \A s \in Live' : \/ sessions'[s] = sessions[s] /\ heard'[s] = heard[s]
                              \/ heard'[s] <= sessions'[s].last + MaxStall
      PROVE HeardLate'
  BY <1>1, <1>5
<1>6. ASSUME NEW t \in Threads, NEW call, Start(t, call), call.now = clock  PROVE SilenceInv'
  <2>1. CallsYoung'  BY <1>0, <1>1, <1>6 DEF Start
  <2>2. HeardLate'  BY <1>4, <1>6 DEF Start, serviceVars
  <2> QED BY <1>1, <2>1, <2>2 DEF SilenceInv
<1>7. ASSUME NEW t \in Threads,
             StartRegister(t) \/ StartHeartbeat(t) \/ StartBegin(t) \/ StartAcquire(t)
             \/ StartSweep(t)
      PROVE  SilenceInv'
  <2>1. CASE StartRegister(t)  BY <1>6, <2>1 DEF StartRegister
  <2>2. CASE StartHeartbeat(t)  BY <1>6, <2>2 DEF StartHeartbeat
  <2>3. CASE StartBegin(t)  BY <1>6, <2>3 DEF StartBegin
  <2>4. CASE StartAcquire(t)  BY <1>6, <2>4 DEF StartAcquire
  <2>5. CASE StartSweep(t)  BY <1>6, <2>5 DEF StartSweep
  <2> QED BY <1>7, <2>1, <2>2, <2>3, <2>4, <2>5
<1>8. ASSUME NEW S, Drop(S)  PROVE HeardLate'
  BY <1>0, <1>5, <1>8 DEF Drop, Restrict, Live
<1>9. ASSUME NEW t \in Threads, Sweep(t)  PROVE SilenceInv'
  <2>1. HeardLate'  BY <1>8, <1>9 DEF Sweep, ExpireSessions
  <2>2. calls[t] \in Call /\ calls[t] # Idle  BY <1>0, <1>9 DEF Sweep
  <2>3. [calls[t] EXCEPT !.swept = TRUE].now = calls[t].now
    BY <2>2 DEF Call, RegisterCall, SessionCall, AcquireCall, SweepCall
  <2>4. CallsYoung'  BY <1>0, <1>1, <1>9, <2>2, <2>3 DEF Sweep
  <2> QED BY <2>1, <2>4 DEF SilenceInv
<1>10. ASSUME NEW t \in Threads, RegisterKnown(t)  PROVE SilenceInv'
  <2> DEFINE c == calls[t].client
             s == byInstance[InstanceOf[c]]
  <2>0. calls[t] # Idle /\ calls[t].now \in 0..MaxClock
    BY <1>10, CallFields DEF RegisterKnown, InBody, Idle, TypeOK
  <2>1. CallsYoung'  BY <1>3, <1>10 DEF RegisterKnown
  <2>2. CASE sessions[s].client = c
    <3>1. sessions' = Refreshed(s, calls[t].now) /\ heard' = [heard EXCEPT ![s] = clock]
          /\ s \in Live
      BY <1>10, <2>2 DEF RegisterKnown, Known
    <3>2. Live' = Live /\ sessions'[s].last = calls[t].now /\ heard'[s] = clock
          /\ \A x \in Live : x # s => sessions'[x] = sessions[x] /\ heard'[x] = heard[x]
      BY <1>0, <3>1 DEF Refreshed, Live, Session
    <3>3. heard'[s] <= sessions'[s].last + MaxStall  BY <1>1, <2>0, <3>2
    <3>4. HeardLate'
      <4> HIDE DEF s
      <4> QED BY <1>5, <3>2, <3>3
    <3> QED BY <2>1, <3>4 DEF SilenceInv
  <2>3. CASE sessions[s].client # c
    <3>1. HeardLate'  BY <1>4, <1>10, <2>3 DEF RegisterKnown
    <3> QED BY <2>1, <3>1 DEF SilenceInv
  <2> QED BY <2>2, <2>3
<1>11. ASSUME NEW t \in Threads, RegisterNew(t)  PROVE SilenceInv'
  <2> DEFINE c == calls[t].client
  <2>0. calls[t] # Idle /\ calls[t].now \in 0..MaxClock
    BY <1>11, CallFields DEF RegisterNew, InBody, Idle, TypeOK
  <2>1. CallsYoung'  BY <1>3, <1>11 DEF RegisterNew
  <2>2. PICK s \in SessionIds \ usedIds :
          /\ sessions' = With(sessions, s, [client |-> c, last |-> calls[t].now, active |-> 0])
          /\ heard' = With(heard, s, clock)
    BY <1>11 DEF RegisterNew
  <2>3. Live' = Live \cup {s} /\ sessions'[s].last = calls[t].now /\ heard'[s] = clock
        /\ \A x \in Live : x # s => sessions'[x] = sessions[x] /\ heard'[x] = heard[x]
    BY <1>0, <2>2 DEF With, Live
  <2>4. HeardLate'  BY <1>1, <2>0, <2>3
  <2> QED BY <2>1, <2>4 DEF SilenceInv
<1>12. ASSUME NEW t \in Threads, RegistryFull(t) \/ AcquireRefused(t) \/ AcquireGranted(t)
       PROVE SilenceInv'
  <2>1. Return(t) /\ UNCHANGED <<clock, sessions, heard>>
    BY <1>12 DEF RegistryFull, AcquireRefused, AcquireGranted, serviceVars
  <2>2. HeardLate' /\ CallsYoung'  BY <1>3, <1>4, <2>1
  <2> QED BY <2>2 DEF SilenceInv
<1>13. ASSUME NEW s \in Live, DOMAIN sessions' = Live, sessions'[s].last = clock,
              heard' = [heard EXCEPT ![s] = clock],
              \A x \in Live : x # s => sessions'[x] = sessions[x]
       PROVE HeardLate'
  <2>1. heard'[s] = clock /\ \A x \in Live : x # s => heard'[x] = heard[x]
    BY <1>0, <1>13
  <2>2. clock <= clock + MaxStall  BY <1>0
  <2> QED BY <1>5, <1>13, <2>1, <2>2 DEF Live
<1>14. ASSUME NEW t \in Threads, Heartbeat(t) \/ BeginRequest(t)  PROVE SilenceInv'
  <2>0. PICK s : s = calls[t].session  OBVIOUS
  <2>1. Return(t) /\ UNCHANGED clock  BY <1>14 DEF Heartbeat, BeginRequest
  <2>2. CASE s \in Live
    <3>1. /\ heard' = [heard EXCEPT ![s] = clock]
          /\ \/ sessions' = Refreshed(s, clock)
             \/ sessions' = [sessions EXCEPT ![s].last = clock, ![s].active = @ + 1]
      BY <1>14, <2>0, <2>2 DEF Heartbeat, BeginRequest
    <3>2. DOMAIN sessions' = Live /\ sessions'[s].last = clock
          /\ \A x \in Live : x # s => sessions'[x] = sessions[x]
      BY <1>0, <2>2, <3>1 DEF Refreshed, Live, Session
    <3>3. HeardLate' /\ CallsYoung'  BY <1>3, <1>13, <2>1, <2>2, <3>1, <3>2
    <3> QED BY <3>3 DEF SilenceInv
  <2>3. CASE s \notin Live
    <3>1. UNCHANGED <<sessions, heard>>  BY <1>14, <2>0, <2>3 DEF Heartbeat, BeginRequest
    <3>2. HeardLate' /\ CallsYoung'  BY <1>3, <1>4, <2>1, <3>1
    <3> QED BY <3>2 DEF SilenceInv
  <2> QED BY <2>2, <2>3
<1>15. ASSUME NEW s \in Live, UnregisterClient(s)  PROVE SilenceInv'
  <2>1. HeardLate' /\ CallsYoung'  BY <1>2, <1>8, <1>15 DEF UnregisterClient
  <2> QED BY <2>1 DEF SilenceInv
<1>16. CASE DisconnectAllSessions
  <2>1. Live' = {} /\ CallsYoung'  BY <1>2, <1>16 DEF DisconnectAllSessions, Live
  <2> QED BY <2>1 DEF SilenceInv
<1>17. ASSUME UNCHANGED <<sessions, heard, calls, clock>>  PROVE SilenceInv'
  <2>1. HeardLate' /\ CallsYoung'  BY <1>2, <1>4, <1>17
  <2> QED BY <2>1 DEF SilenceInv
<1>18. ASSUME NEW r \in DOMAIN requests, EndRequest(r)  PROVE SilenceInv'
  <2>0. PICK s : s = requests[r].session  OBVIOUS
  <2>1. UNCHANGED <<calls, clock>>  BY <1>18 DEF EndRequest
  <2>2. CASE s \in Live
    <3>1. /\ heard' = [heard EXCEPT ![s] = clock]
          /\ sessions' = [sessions EXCEPT ![s].active = Decremented(@), ![s].last = clock]
      BY <1>18, <2>0, <2>2 DEF EndRequest
    <3>2. DOMAIN sessions' = Live /\ sessions'[s].last = clock
          /\ \A x \in Live : x # s => sessions'[x] = sessions[x]
      BY <1>0, <2>2, <3>1 DEF Live, Session
    <3>3. HeardLate' /\ CallsYoung'  BY <1>2, <1>13, <2>1, <2>2, <3>1, <3>2
    <3> QED BY <3>3 DEF SilenceInv
  <2>3. CASE s \notin Live
    <3>1. UNCHANGED <<sessions, heard>>  BY <1>18, <2>0, <2>3 DEF EndRequest
    <3> QED BY <1>17, <2>1, <3>1
  <2> QED BY <2>2, <2>3
<1>24. ASSUME NEW r \in DOMAIN requests, BeginActivity(r)  PROVE SilenceInv'
  <2>0. PICK s : s = requests[r].session  OBVIOUS
  <2>1. UNCHANGED <<calls, clock>>  BY <1>24 DEF BeginActivity
  <2>2. requests[r].stamp \in 0..MaxClock /\ clock <= requests[r].stamp + MaxStall
    BY <1>24 DEF BeginActivity, StampsYoung, TypeOK, CallsOK, Request
  <2>3. CASE s \in Live
    <3>1. /\ heard' = [heard EXCEPT ![s] = clock]
          /\ sessions' = Refreshed(s, requests[r].stamp)
      BY <1>24, <2>0, <2>3 DEF BeginActivity
    <3>2. Live' = Live /\ sessions'[s].last = requests[r].stamp /\ heard'[s] = clock
          /\ \A x \in Live : x # s => sessions'[x] = sessions[x] /\ heard'[x] = heard[x]
      BY <1>0, <2>3, <3>1 DEF Refreshed, Live, Session
    <3>3. heard'[s] <= sessions'[s].last + MaxStall  BY <2>2, <3>2
    <3>4. HeardLate'  BY <1>5, <3>2, <3>3
    <3> QED BY <1>2, <2>1, <3>4 DEF SilenceInv
  <2>4. CASE s \notin Live
    <3>1. UNCHANGED <<sessions, heard>>  BY <1>24, <2>0, <2>4 DEF BeginActivity
    <3> QED BY <1>17, <2>1, <3>1
  <2> QED BY <2>3, <2>4
<1>25. \A r \in DOMAIN requests : StampActivity(r) => SilenceInv'
  BY <1>17 DEF StampActivity, serviceVars
<1>19. CASE Tick
  <2>1. HeardLate'  BY <1>4, <1>19 DEF Tick, serviceVars
  <2>2. \A t \in Threads : calls[t] # Idle => calls[t].now \in 0..MaxClock
    BY CallFields DEF TypeOK
  <2>3. CallsYoung'  BY <1>0, <1>1, <1>19, <2>2 DEF Tick
  <2> QED BY <2>1, <2>3 DEF SilenceInv
<1>20. \A i \in LegacyInvocations : BeginLegacyRequest(i) => SilenceInv'
  BY <1>17 DEF BeginLegacyRequest
<1>21. \A r \in DOMAIN requests : CompleteWithFailure(r) => SilenceInv'
  BY <1>17 DEF CompleteWithFailure
<1>22. \A type \in LeaseTypes, s \in Live : ReleaseLease(type, s) => SilenceInv'
  BY <1>17 DEF ReleaseLease
<1>23. UNCHANGED vars => SilenceInv'  BY <1>17 DEF vars, serviceVars
<1> QED
  BY <1>7, <1>9, <1>10, <1>11, <1>12, <1>14, <1>15, <1>16, <1>18, <1>19, <1>20, <1>21,
     <1>22, <1>23, <1>24, <1>25
  DEF Next, Method

LEMMA SilenceInvariant == Spec => []SilenceInv
<1>1. Init => StampsYoung /\ SilenceInv  BY DEF Init, StampsYoung, SilenceInv, Live
<1>2. TypeOK /\ StampsYoung /\ SilenceInv /\ [Next]_vars => StampsYoung' /\ SilenceInv'
  BY StampsYoungInductive, SilenceInvInductive
<1> QED BY <1>1, <1>2, TypeCorrect, PTL DEF Spec

\* Expiry takes only sessions the service did not hear from for SessionTimeout, less
\* the time a call may take.
THEOREM ExpiryIsOfSilentSessions == Spec => ExpiredWasSilent
<1>1. TypeOK /\ SilenceInv /\ [Next]_vars =>
        [SweepStep => \A s \in Live \ DOMAIN sessions' :
                        clock - heard[s] > SessionTimeout - MaxStall]_vars
  <2> SUFFICES ASSUME TypeOK, SilenceInv, [Next]_vars, SweepStep,
                      NEW s \in Live \ DOMAIN sessions'
               PROVE  clock - heard[s] > SessionTimeout - MaxStall
    OBVIOUS
  <2>1. ~UnregisterClient(s) /\ ~DisconnectAllSessions
    BY DEF SweepStep, UnregisterClient, DisconnectAllSessions
  <2>2. PICK t \in Threads : Sweep(t) /\ s \in Expired(calls[t].now)  BY <2>1, WaysOut
  <2>3. calls[t] # Idle /\ calls[t].now \in 0..MaxClock
    BY <2>2, CallFields DEF Sweep, TypeOK
  <2>4. sessions[s].last < calls[t].now - SessionTimeout  BY <2>2 DEF Expired
  <2>5. heard[s] <= sessions[s].last + MaxStall /\ calls[t].now <= clock
    BY <2>3 DEF SilenceInv
  <2>6. heard[s] \in Int /\ sessions[s].last \in Int /\ clock \in Int
    BY DEF TypeOK, SessionsOK, CallsOK, Session
  <2> QED BY <2>3, <2>4, <2>5, <2>6
<1> QED BY <1>1, TypeCorrect, SilenceInvariant, PTL DEF Spec, ExpiredWasSilent

---------------------------------------------------------------------------
(* The ledger of CLI invocations.  LedgerInv: what backs an invocation keeps *)
(* it running, and an invocation of callers without session counts exactly   *)
(* their open requests, so that it finishes with the last of them.           *)

Runs(l, i) == i \in DOMAIN l /\ l[i].status = "running"
LegacyOpen(q, i) == {r \in DOMAIN q : q[r].session = None /\ q[r].invocation = i}

LedgerInv ==
  /\ \A s \in Live : IsCli(sessions[s].client) => Runs(ledger, InvocationOf[sessions[s].client])
  /\ \A r \in DOMAIN requests : requests[r].session = None =>
        requests[r].invocation \in LegacyInvocations /\ Runs(ledger, requests[r].invocation)
  /\ \A i \in LegacyInvocations \cap DOMAIN ledger :
        ledger[i].active = Cardinality(LegacyOpen(requests, i))

\* Pruning forgets no running record and changes none.
LEMMA PrunedKeeps ==
  ASSUME NEW l
  PROVE  /\ DOMAIN Pruned(l) \subseteq DOMAIN l
         /\ \A j \in DOMAIN Pruned(l) : Pruned(l)[j] = l[j]
         /\ \A j \in DOMAIN l : l[j].status = "running" => j \in DOMAIN Pruned(l)
BY DEF Pruned, Restrict, Terminal

\* Finishing some invocations leaves the running ones among the others alone.
LEMMA FinishedKeeps ==
  ASSUME NEW l, NEW ids, NEW outcome
  PROVE  LET f == Finished(l, ids, outcome) IN
         /\ DOMAIN f \subseteq DOMAIN l
         /\ \A j \in DOMAIN f :
               f[j] = IF j \in ids THEN [l[j] EXCEPT !.status = outcome] ELSE l[j]
         /\ \A j \in DOMAIN l \ ids : l[j].status = "running" => j \in DOMAIN f
<1> DEFINE m == [i \in DOMAIN l |->
                   IF i \in ids THEN [l[i] EXCEPT !.status = outcome] ELSE l[i]]
<1>1. /\ DOMAIN m = DOMAIN l
      /\ \A j \in DOMAIN l : m[j] = IF j \in ids THEN [l[j] EXCEPT !.status = outcome] ELSE l[j]
  OBVIOUS
<1>2. Finished(l, ids, outcome) = Pruned(m)  BY DEF Finished
<1> HIDE DEF m
<1>3. /\ DOMAIN Pruned(m) \subseteq DOMAIN m
      /\ \A j \in DOMAIN Pruned(m) : Pruned(m)[j] = m[j]
      /\ \A j \in DOMAIN m : m[j].status = "running" => j \in DOMAIN Pruned(m)
  BY PrunedKeeps
<1> QED BY <1>1, <1>2, <1>3

\* Recording an invocation makes it run and leaves the others that run alone; a
\* known one keeps its count.
LEMMA RecordedKeeps ==
  ASSUME NEW l, \A i \in DOMAIN l : l[i] \in Record, recorded \in Nat, NEW i
  PROVE  LET f == Recorded(l, i) IN
         /\ i \in DOMAIN f /\ f[i].status = "running"
         /\ DOMAIN f \subseteq DOMAIN l \cup {i}
         /\ \A j \in DOMAIN l : l[j].status = "running" =>
               j \in DOMAIN f /\ f[j].status = "running"
         /\ \A j \in DOMAIN f : \/ j \in DOMAIN l /\ f[j].active = l[j].active
                                \/ j \notin DOMAIN l /\ f[j].active = 0
<1>1. CASE i \in DOMAIN l
  <2>1. Recorded(l, i) = [l EXCEPT ![i].status = "running"]  BY <1>1 DEF Recorded
  <2>2. \A j \in DOMAIN l :
           [l EXCEPT ![i].status = "running"][j] =
             IF j = i THEN [l[j] EXCEPT !.status = "running"] ELSE l[j]
    BY <1>1
  <2>3. \A j \in DOMAIN l : /\ [l[j] EXCEPT !.status = "running"].status = "running"
                            /\ [l[j] EXCEPT !.status = "running"].active = l[j].active
    BY DEF Record
  <2> QED BY <1>1, <2>1, <2>2, <2>3
<1>2. CASE i \notin DOMAIN l
  <2> DEFINE new == [status |-> "running", active |-> 0, hadFailure |-> FALSE,
                     born |-> recorded + 1]
             m == With(l, i, new)
  <2>1. /\ DOMAIN m = DOMAIN l \cup {i} /\ m[i] = new
        /\ \A j \in DOMAIN l : m[j] = l[j]
    BY <1>2 DEF With
  <2>2. Recorded(l, i) = Pruned(m)  BY <1>2 DEF Recorded
  <2>3. new.status = "running" /\ new.active = 0  OBVIOUS
  <2> HIDE DEF m, new
  <2>4. /\ DOMAIN Pruned(m) \subseteq DOMAIN m
        /\ \A j \in DOMAIN Pruned(m) : Pruned(m)[j] = m[j]
        /\ \A j \in DOMAIN m : m[j].status = "running" => j \in DOMAIN Pruned(m)
    BY PrunedKeeps
  <2> QED BY <1>2, <2>1, <2>2, <2>3, <2>4
<1> QED BY <1>1, <1>2

\* The invocations of sessions are none of the session-less callers', and live
\* sessions do not share one.
LEMMA InvocationsApart ==
  ASSUME TypeOK, InstanceIndexExact
  PROVE  /\ InvocationsOf(Live) \cap LegacyInvocations = {}
         /\ \A S \in SUBSET Live, s \in Live : IsCli(sessions[s].client) =>
               (InvocationOf[sessions[s].client] \in InvocationsOf(S) => s \in S)
<1>1. \A s \in Live : sessions[s].client \in Clients
  BY DEF TypeOK, SessionsOK, Session
<1>2. \A s, u \in Live : sessions[s].client = sessions[u].client => s = u
  BY DEF InstanceIndexExact
<1> QED BY <1>1, <1>2, InvocationAssumption DEF InvocationsOf, IsCli

\* A step keeps LedgerInv when it leaves the session-less requests alone, finishes
\* (among ids) no invocation that is backed, and keeps the counts.
LEMMA LedgerStep ==
  ASSUME LedgerInv, CallsOK, NEW ids,
         \A i : LegacyOpen(requests', i) = LegacyOpen(requests, i),
         \A r \in DOMAIN requests' : requests'[r].session = None =>
            /\ r \in DOMAIN requests /\ requests[r].session = None
            /\ requests'[r].invocation = requests[r].invocation,
         \A s \in Live' :
            \/ /\ s \in Live /\ sessions'[s].client = sessions[s].client
               /\ IsCli(sessions[s].client) => InvocationOf[sessions[s].client] \notin ids
            \/ IsCli(sessions'[s].client) => Runs(ledger', InvocationOf[sessions'[s].client]),
         ids \cap LegacyInvocations = {},
         \A i : Runs(ledger, i) /\ i \notin ids => Runs(ledger', i),
         \A i \in DOMAIN ledger' :
            \/ i \in DOMAIN ledger /\ ledger'[i].active = ledger[i].active
            \/ i \notin DOMAIN ledger /\ ledger'[i].active = 0
  PROVE  LedgerInv'
<1>1. \A s \in Live' : IsCli(sessions'[s].client) => Runs(ledger', InvocationOf[sessions'[s].client])
  BY DEF LedgerInv
<1>2. \A r \in DOMAIN requests' : requests'[r].session = None =>
        requests'[r].invocation \in LegacyInvocations /\ Runs(ledger', requests'[r].invocation)
  BY DEF LedgerInv
<1>3. ASSUME NEW i \in LegacyInvocations, i \in DOMAIN ledger'
      PROVE  ledger'[i].active = Cardinality(LegacyOpen(requests', i))
  <2>1. CASE i \in DOMAIN ledger  BY <1>3, <2>1 DEF LedgerInv
  <2>2. CASE i \notin DOMAIN ledger
    <3>1. LegacyOpen(requests, i) = {}  BY <2>2 DEF LedgerInv, LegacyOpen, Runs
    <3> QED BY <1>3, <2>2, <3>1, FS_EmptySet
  <2> QED BY <2>1, <2>2
<1> QED BY <1>1, <1>2, <1>3 DEF LedgerInv

\* Counting the open requests of one invocation.
LEMMA LegacyOpenFinite ==
  ASSUME CallsOK, NEW i
  PROVE  /\ IsFiniteSet(LegacyOpen(requests, i))
         /\ Cardinality(LegacyOpen(requests, i)) \in Nat
         /\ Cardinality(LegacyOpen(requests, i)) = 0 <=> LegacyOpen(requests, i) = {}
<1>1. LegacyOpen(requests, i) \in SUBSET Requests  BY DEF LegacyOpen, CallsOK
<1>2. IsFiniteSet(LegacyOpen(requests, i))  BY <1>1, FS_Subset
<1> QED BY <1>2, FS_CardinalityType, FS_EmptySet

\* A session-less request begins: its invocation runs and counts it.
LEMMA BeginLegacyKeepsLedger ==
  ASSUME TypeOK, LedgerInv, NEW i \in LegacyInvocations, BeginLegacyRequest(i)
  PROVE  LedgerInv'
<1> DEFINE f == Recorded(ledger, i)
<1>0. CallsOK /\ recorded \in Nat /\ \A j \in DOMAIN ledger : ledger[j] \in Record
  BY DEF TypeOK, LedgerOK
<1>1. PICK r \in Requests \ DOMAIN requests :
        requests' = With(requests, r, [session |-> None, invocation |-> i, logged |-> FALSE, stamp |-> NoTime])
  BY DEF BeginLegacyRequest
<1>2. ledger' = [f EXCEPT ![i].active = @ + 1] /\ UNCHANGED sessions
  BY DEF BeginLegacyRequest
<1>3. /\ i \in DOMAIN f /\ f[i].status = "running"
      /\ \A j \in DOMAIN ledger : ledger[j].status = "running" =>
            j \in DOMAIN f /\ f[j].status = "running"
      /\ \A j \in DOMAIN f : \/ j \in DOMAIN ledger /\ f[j].active = ledger[j].active
                             \/ j \notin DOMAIN ledger /\ f[j].active = 0
      /\ \A j \in DOMAIN f : f[j] \in Record
  BY <1>0, RecordedKeeps, RecordedRecords
<1> HIDE DEF f
<1>4. /\ DOMAIN ledger' = DOMAIN f /\ ledger'[i].active = f[i].active + 1
      /\ \A j \in DOMAIN f : j # i => ledger'[j] = f[j]
      /\ \A j \in DOMAIN f : ledger'[j].status = f[j].status
  BY <1>2, <1>3 DEF Record
<1>5. \A j : Runs(ledger, j) \/ j = i => Runs(ledger', j)
  BY <1>3, <1>4 DEF Runs
<1>6. /\ r \notin LegacyOpen(requests, i)
      /\ LegacyOpen(requests', i) = LegacyOpen(requests, i) \cup {r}
      /\ \A j : j # i => LegacyOpen(requests', j) = LegacyOpen(requests, j)
  BY <1>1 DEF LegacyOpen, With
<1>7. Cardinality(LegacyOpen(requests', i)) = Cardinality(LegacyOpen(requests, i)) + 1
  BY <1>0, <1>6, LegacyOpenFinite, FS_AddElement
<1>8. \A j \in LegacyInvocations \cap DOMAIN f :
        f[j].active = Cardinality(LegacyOpen(requests, j))
  <2> SUFFICES ASSUME NEW j \in LegacyInvocations \cap DOMAIN f
               PROVE  f[j].active = Cardinality(LegacyOpen(requests, j))
    OBVIOUS
  <2>1. CASE j \in DOMAIN ledger  BY <1>3, <2>1 DEF LedgerInv
  <2>2. CASE j \notin DOMAIN ledger
    <3>1. LegacyOpen(requests, j) = {}  BY <2>2 DEF LedgerInv, LegacyOpen, Runs
    <3> QED BY <1>3, <2>2, <3>1, FS_EmptySet
  <2> QED BY <2>1, <2>2
<1>9. \A j \in LegacyInvocations \cap DOMAIN ledger' :
        ledger'[j].active = Cardinality(LegacyOpen(requests', j))
  BY <1>3, <1>4, <1>6, <1>7, <1>8
<1>10. \A x \in DOMAIN requests' : requests'[x].session = None =>
         requests'[x].invocation \in LegacyInvocations /\ Runs(ledger', requests'[x].invocation)
  BY <1>1, <1>5 DEF LedgerInv, With
<1>11. \A s \in Live : IsCli(sessions[s].client) =>
         Runs(ledger', InvocationOf[sessions[s].client])
  BY <1>5 DEF LedgerInv
<1> QED BY <1>2, <1>9, <1>10, <1>11 DEF LedgerInv, Live

\* A session-less request ends: its invocation loses one, and finishes when that was
\* the last.
LEMMA EndLegacyKeepsLedger ==
  ASSUME TypeOK, InstanceIndexExact, LedgerInv, NEW r \in DOMAIN requests, EndRequest(r),
         requests[r].session = None
  PROVE  /\ LedgerInv'
         /\ LET i == requests[r].invocation IN
            LegacyOpen(requests', i) = {} => ~Runs(ledger', i)
<1>0. CallsOK /\ None \notin Live /\ \A j \in DOMAIN ledger : ledger[j] \in Record
  BY NoneAssumption DEF TypeOK, LedgerOK, SessionsOK
<1>1. PICK i : i = requests[r].invocation  OBVIOUS
<1>2. i \in LegacyInvocations /\ Runs(ledger, i) /\ i \in DOMAIN ledger
  BY <1>1 DEF LedgerInv, Runs
<1>3. /\ LegacyOpen(requests', i) = LegacyOpen(requests, i) \ {r}
      /\ r \in LegacyOpen(requests, i)
      /\ \A j : j # i => LegacyOpen(requests', j) = LegacyOpen(requests, j)
  <2>1. /\ DOMAIN requests' = DOMAIN requests \ {r}
        /\ \A x \in DOMAIN requests' : requests'[x] = requests[x]
    BY DEF EndRequest, Restrict
  <2>2. LegacyOpen(requests', i) = LegacyOpen(requests, i) \ {r}  BY <2>1 DEF LegacyOpen
  <2>3. r \in LegacyOpen(requests, i)  BY <1>1 DEF LegacyOpen
  <2>4. \A j : j # i => LegacyOpen(requests', j) = LegacyOpen(requests, j)
    BY <1>1, <2>1 DEF LegacyOpen
  <2> QED BY <2>2, <2>3, <2>4
<1>4. Cardinality(LegacyOpen(requests', i)) = Cardinality(LegacyOpen(requests, i)) - 1
  <2>1. IsFiniteSet(LegacyOpen(requests, i))  BY <1>0, LegacyOpenFinite
  <2>2. Cardinality(LegacyOpen(requests, i) \ {r}) = Cardinality(LegacyOpen(requests, i)) - 1
    BY <1>3, <2>1, FS_RemoveElement
  <2> QED BY <1>3, <2>2
<1>5. /\ Cardinality(LegacyOpen(requests, i)) \in Nat \ {0}
      /\ ledger[i].active = Cardinality(LegacyOpen(requests, i))
  BY <1>0, <1>2, <1>3, LegacyOpenFinite DEF LedgerInv
<1> DEFINE l == [ledger EXCEPT ![i].active = Decremented(@)]
<1>6. /\ DOMAIN l = DOMAIN ledger
      /\ l[i].active = Cardinality(LegacyOpen(requests', i))
      /\ \A j \in DOMAIN ledger : /\ j # i => l[j] = ledger[j]
                                  /\ l[j].status = ledger[j].status
      /\ l[i] \in Record
  BY <1>0, <1>2, <1>4, <1>5 DEF Decremented, Record
<1>7. UNCHANGED sessions  BY <1>0 DEF EndRequest
<1>8. ledger' = IF l[i].active = 0 THEN Finished(l, {i}, Outcome(l, i)) ELSE l
  BY <1>1, <1>2 DEF EndRequest
<1> HIDE DEF l
<1>9. Outcome(l, i) # "running"  BY DEF Outcome
<1>10. PICK out : out = Outcome(l, i)  OBVIOUS
<1>11. LET f == Finished(l, {i}, out) IN
       /\ DOMAIN f \subseteq DOMAIN l
       /\ \A j \in DOMAIN f :
             f[j] = IF j \in {i} THEN [l[j] EXCEPT !.status = out] ELSE l[j]
       /\ \A j \in DOMAIN l \ {i} : l[j].status = "running" => j \in DOMAIN f
  BY FinishedKeeps
<1>12. /\ DOMAIN ledger' \subseteq DOMAIN l
       /\ \A j \in DOMAIN ledger' : j # i => ledger'[j] = l[j]
       /\ \A j \in DOMAIN l \ {i} : l[j].status = "running" => j \in DOMAIN ledger'
  BY <1>8, <1>10, <1>11
<1>13. i \in DOMAIN ledger' => ledger'[i].active = l[i].active
  BY <1>6, <1>8, <1>10, <1>11 DEF Record
<1>14. l[i].active = 0 => ~Runs(ledger', i)
  BY <1>6, <1>8, <1>9, <1>10, <1>11 DEF Record, Runs
<1>15. l[i].active # 0 => Runs(ledger', i)
  BY <1>2, <1>6, <1>8 DEF Runs
<1>16. \A j : j # i /\ Runs(ledger, j) => Runs(ledger', j)
  BY <1>6, <1>12 DEF Runs
<1>17. \A x \in DOMAIN requests' : requests'[x].session = None =>
         requests'[x].invocation \in LegacyInvocations /\ Runs(ledger', requests'[x].invocation)
  <2> SUFFICES ASSUME NEW x \in DOMAIN requests', requests'[x].session = None
               PROVE  /\ requests'[x].invocation \in LegacyInvocations
                      /\ Runs(ledger', requests'[x].invocation)
    OBVIOUS
  <2>1. x \in DOMAIN requests /\ requests'[x] = requests[x]
    BY DEF EndRequest, Restrict
  <2>2. requests[x].invocation \in LegacyInvocations /\ Runs(ledger, requests[x].invocation)
    BY <2>1 DEF LedgerInv
  <2>3. requests[x].invocation = i => l[i].active # 0
    <3> SUFFICES ASSUME requests[x].invocation = i  PROVE l[i].active # 0
      OBVIOUS
    <3>1. x \in LegacyOpen(requests', i)  BY <2>1 DEF LegacyOpen
    <3>2. IsFiniteSet(LegacyOpen(requests', i))
      BY <1>0, <1>3, LegacyOpenFinite, FS_Subset
    <3> QED BY <1>6, <3>1, <3>2, FS_EmptySet
  <2> QED BY <1>15, <1>16, <2>1, <2>2, <2>3
<1>18. \A s \in Live : IsCli(sessions[s].client) =>
         Runs(ledger', InvocationOf[sessions[s].client])
  <2> SUFFICES ASSUME NEW s \in Live, IsCli(sessions[s].client)
               PROVE  Runs(ledger', InvocationOf[sessions[s].client])
    OBVIOUS
  <2>1. InvocationOf[sessions[s].client] \in InvocationsOf(Live)  BY DEF InvocationsOf
  <2>2. InvocationOf[sessions[s].client] # i  BY <1>2, <2>1, InvocationsApart
  <2> QED BY <1>16, <2>2 DEF LedgerInv
<1>19. \A j \in LegacyInvocations \cap DOMAIN ledger' :
         ledger'[j].active = Cardinality(LegacyOpen(requests', j))
  BY <1>3, <1>6, <1>12, <1>13 DEF LedgerInv
<1>20. LegacyOpen(requests', i) = {} => ~Runs(ledger', i)
  BY <1>6, <1>14, FS_EmptySet
<1> QED BY <1>1, <1>7, <1>17, <1>18, <1>19, <1>20 DEF LedgerInv, Live

LEMMA LedgerInvInductive ==
  ASSUME TypeOK, InstanceIndexExact, LedgerInv, [Next]_vars
  PROVE  LedgerInv'
<1>0. /\ CallsOK /\ recorded \in Nat /\ \A j \in DOMAIN ledger : ledger[j] \in Record
      /\ None \notin SessionIds /\ \A s \in Live : s \in SessionIds /\ sessions[s] \in Session
  BY NoneAssumption DEF TypeOK, LedgerOK, SessionsOK
<1>1. ASSUME UNCHANGED <<ledger, requests>>, Live' \subseteq Live,
             \A s \in Live' : sessions'[s].client = sessions[s].client
      PROVE  LedgerInv'
  BY <1>1 DEF LedgerInv
<1>2. ASSUME UNCHANGED <<ledger, requests, sessions>>  PROVE LedgerInv'
  BY <1>2 DEF LedgerInv, Live
<1>3. ASSUME NEW S \in SUBSET Live, NEW ids, ids \subseteq InvocationsOf(S), NEW outcome,
             ledger' = Finished(ledger, ids, outcome), UNCHANGED requests,
             Live' \subseteq Live \ S, \A s \in Live' : sessions'[s] = sessions[s]
      PROVE  LedgerInv'
  <2>1. LET f == Finished(ledger, ids, outcome) IN
        /\ DOMAIN f \subseteq DOMAIN ledger
        /\ \A j \in DOMAIN f :
              f[j] = IF j \in ids THEN [ledger[j] EXCEPT !.status = outcome] ELSE ledger[j]
        /\ \A j \in DOMAIN ledger \ ids : ledger[j].status = "running" => j \in DOMAIN f
    BY FinishedKeeps
  <2>2. \A j : Runs(ledger, j) /\ j \notin ids => Runs(ledger', j)
    BY <1>3, <2>1 DEF Runs
  <2>3. \A j \in DOMAIN ledger' : j \in DOMAIN ledger /\ ledger'[j].active = ledger[j].active
    BY <1>0, <1>3, <2>1 DEF Record
  <2>4. ids \cap LegacyInvocations = {}
    BY <1>3, InvocationsApart DEF InvocationsOf
  <2>5. \A s \in Live' : /\ s \in Live /\ sessions'[s].client = sessions[s].client
                         /\ IsCli(sessions[s].client) => InvocationOf[sessions[s].client] \notin ids
    BY <1>3, InvocationsApart
  <2>6. \A j : LegacyOpen(requests', j) = LegacyOpen(requests, j)  BY <1>3
  <2> QED BY <1>0, <1>3, <2>2, <2>3, <2>4, <2>5, <2>6, LedgerStep
<1>4. ASSUME NEW S \in SUBSET Live, Drop(S)
      PROVE  Live' \subseteq Live \ S /\ \A s \in Live' : sessions'[s] = sessions[s]
  BY <1>4 DEF Drop, Restrict, Live
<1>5. ASSUME NEW t \in Threads, NEW call, Start(t, call)  PROVE LedgerInv'
  BY <1>2, <1>5 DEF Start, serviceVars
<1>6. ASSUME NEW t \in Threads, Sweep(t)  PROVE LedgerInv'
  <2>1. Expired(calls[t].now) \in SUBSET Live  BY DEF Expired
  <2> QED BY <1>3, <1>4, <1>6, <2>1 DEF Sweep, ExpireSessions
<1>7. ASSUME NEW t \in Threads, RegisterKnown(t) \/ Heartbeat(t)  PROVE LedgerInv'
  <2>1. RegisterKnown(t) => Live' = Live /\ \A s \in Live : sessions'[s].client = sessions[s].client
    BY <1>0 DEF RegisterKnown, Refreshed, Live, Session
  <2>2. Heartbeat(t) => Live' = Live /\ \A s \in Live : sessions'[s].client = sessions[s].client
    BY <1>0 DEF Heartbeat, Refreshed, Live, Session
  <2>3. UNCHANGED <<ledger, requests>>  BY <1>7 DEF RegisterKnown, Heartbeat
  <2> QED BY <1>1, <1>7, <2>1, <2>2, <2>3
<1>8. ASSUME NEW j, ledger' = Recorded(ledger, j)
      PROVE  /\ Runs(ledger', j) /\ \A i : Runs(ledger, i) => Runs(ledger', i)
             /\ \A i \in DOMAIN ledger' :
                   \/ i \in DOMAIN ledger /\ ledger'[i].active = ledger[i].active
                   \/ i \notin DOMAIN ledger /\ ledger'[i].active = 0
  BY <1>0, <1>8, RecordedKeeps DEF Runs
<1>9. ASSUME NEW t \in Threads, RegisterNew(t)  PROVE LedgerInv'
  <2> DEFINE c == calls[t].client
  <2>1. PICK s \in SessionIds \ usedIds :
          sessions' = With(sessions, s, [client |-> c, last |-> calls[t].now, active |-> 0])
    BY <1>9 DEF RegisterNew
  <2>2. Live' = Live \cup {s} /\ sessions'[s].client = c /\ s \notin Live
        /\ \A x \in Live : sessions'[x] = sessions[x]
    BY <2>1 DEF With, Live, TypeOK, SessionsOK
  <2>3. CASE IsCli(c)
    <3>1. ledger' = Recorded(ledger, InvocationOf[c])  BY <1>9, <2>3 DEF RegisterNew
    <3>2. UNCHANGED requests  BY <1>9 DEF RegisterNew
    <3>3. \A x \in Live' :
            \/ x \in Live /\ sessions'[x].client = sessions[x].client
            \/ IsCli(sessions'[x].client) => Runs(ledger', InvocationOf[sessions'[x].client])
      BY <1>8, <2>2, <3>1
    <3>4. LedgerInv'
      <4>1. \A x : LegacyOpen(requests', x) = LegacyOpen(requests, x)  BY <3>2
      <4> HIDE DEF c
      <4> QED BY <1>0, <1>8, <3>1, <3>2, <3>3, <4>1, LedgerStep
    <3> QED BY <3>4
  <2>4. CASE ~IsCli(c)
    <3>1. UNCHANGED <<ledger, requests>>  BY <1>9, <2>4 DEF RegisterNew
    <3> QED BY <2>2, <2>4, <3>1 DEF LedgerInv
  <2> QED BY <2>3, <2>4
<1>10. ASSUME NEW t \in Threads, RegistryFull(t) \/ AcquireRefused(t) \/ AcquireGranted(t)
       PROVE LedgerInv'
  BY <1>2, <1>10 DEF RegistryFull, AcquireRefused, AcquireGranted, serviceVars
<1>11. ASSUME NEW t \in Threads, BeginRequest(t)  PROVE LedgerInv'
  <2>0. PICK s : s = calls[t].session  OBVIOUS
  <2>1. CASE s \notin Live  BY <1>2, <1>11, <2>0, <2>1 DEF BeginRequest
  <2>2. CASE s \in Live
    <3>1. PICK r \in Requests \ DOMAIN requests : \E i :
            requests' = With(requests, r, [session |-> s, invocation |-> i, logged |-> FALSE, stamp |-> NoTime])
      BY <1>11, <2>0, <2>2 DEF BeginRequest
    <3>2. sessions' = [sessions EXCEPT ![s].last = clock, ![s].active = @ + 1]
          /\ UNCHANGED ledger
      BY <1>11, <2>0, <2>2 DEF BeginRequest
    <3>3. Live' = Live /\ \A x \in Live : sessions'[x].client = sessions[x].client
      BY <1>0, <2>2, <3>2 DEF Live, Session
    <3>4. s # None  BY <1>0, <2>2
    <3>5. \A i : LegacyOpen(requests', i) = LegacyOpen(requests, i)
      BY <3>1, <3>4 DEF LegacyOpen, With
    <3>6. \A x \in DOMAIN requests' : requests'[x].session = None =>
             x \in DOMAIN requests /\ requests'[x] = requests[x]
      BY <3>1, <3>4 DEF With
    <3> QED BY <3>2, <3>3, <3>5, <3>6 DEF LedgerInv
  <2> QED BY <2>1, <2>2
<1>12. ASSUME NEW s \in Live, UnregisterClient(s)  PROVE LedgerInv'
  <2>0. {s} \in SUBSET Live /\ Drop({s}) /\ UNCHANGED requests
    BY <1>12 DEF UnregisterClient
  <2>1. CASE IsCli(sessions[s].client)
    <3> DEFINE i == InvocationOf[sessions[s].client]
    <3>1. {i} \subseteq InvocationsOf({s})  BY <2>1 DEF InvocationsOf
    <3>2. ledger' = Finished(ledger, {i}, Outcome(ledger, i))
      BY <1>12, <2>1 DEF UnregisterClient
    <3> QED BY <1>3, <1>4, <2>0, <3>1, <3>2
  <2>2. CASE ~IsCli(sessions[s].client)
    <3>1. UNCHANGED ledger  BY <1>12, <2>2 DEF UnregisterClient
    <3> QED BY <1>1, <1>4, <2>0, <3>1
  <2> QED BY <2>1, <2>2
<1>13. CASE DisconnectAllSessions
  <2>1. Live' = {}  BY <1>13 DEF DisconnectAllSessions, Live
  <2> QED BY <1>3, <1>13, <2>1 DEF DisconnectAllSessions
<1>14. ASSUME NEW r \in DOMAIN requests, BeginActivity(r)  PROVE LedgerInv'
  <2>1. /\ DOMAIN requests' = DOMAIN requests
        /\ \A x \in DOMAIN requests : /\ requests'[x].session = requests[x].session
                                      /\ requests'[x].invocation = requests[x].invocation
    <3>1. requests' = [requests EXCEPT ![r].logged = TRUE, ![r].stamp = NoTime]  BY <1>14 DEF BeginActivity
    <3> QED BY <3>1
  <2>2. \A i : LegacyOpen(requests', i) = LegacyOpen(requests, i)  BY <2>1 DEF LegacyOpen
  <2>3. Live' = Live /\ \A s \in Live : sessions'[s].client = sessions[s].client
    BY <1>14, LoggedSessions
  <2>4. CASE requests[r].invocation # None
    <3>1. ledger' = Recorded(ledger, requests[r].invocation)
      BY <1>14, <2>4 DEF BeginActivity
    <3> QED BY <1>0, <1>8, <2>1, <2>2, <2>3, <3>1, LedgerStep
  <2>5. CASE requests[r].invocation = None
    <3>1. UNCHANGED ledger  BY <1>14, <2>5 DEF BeginActivity
    <3> QED BY <2>1, <2>2, <2>3, <3>1 DEF LedgerInv
  <2> QED BY <2>4, <2>5
<1>15. ASSUME NEW r \in DOMAIN requests, CompleteWithFailure(r)  PROVE LedgerInv'
  <2> DEFINE i == requests[r].invocation
  <2>1. i \in DOMAIN ledger /\ ledger' = [ledger EXCEPT ![i].hadFailure = TRUE]
        /\ UNCHANGED <<sessions, requests>>
    BY <1>15 DEF CompleteWithFailure
  <2>2. DOMAIN ledger' = DOMAIN ledger
        /\ \A j \in DOMAIN ledger : /\ ledger'[j].status = ledger[j].status
                                    /\ ledger'[j].active = ledger[j].active
    BY <1>0, <2>1 DEF Record
  <2>3. \A j : Runs(ledger, j) => Runs(ledger', j)  BY <2>2 DEF Runs
  <2> QED BY <2>1, <2>2, <2>3 DEF LedgerInv, Live
<1>16. ASSUME NEW r \in DOMAIN requests, EndRequest(r), requests[r].session # None
       PROVE LedgerInv'
  <2>0. UNCHANGED ledger  BY <1>16 DEF EndRequest
  <2>1. /\ DOMAIN requests' = DOMAIN requests \ {r}
        /\ \A x \in DOMAIN requests' : requests'[x] = requests[x]
    BY <1>16 DEF EndRequest, Restrict
  <2>2. \A i : LegacyOpen(requests', i) = LegacyOpen(requests, i)
    BY <1>16, <2>1 DEF LegacyOpen
  <2>3. Live' = Live /\ \A s \in Live : sessions'[s].client = sessions[s].client
    BY <1>0, <1>16 DEF EndRequest, Live, Session
  <2> QED BY <2>0, <2>1, <2>2, <2>3 DEF LedgerInv
<1>17. ASSUME NEW type \in LeaseTypes, NEW s \in Live, ReleaseLease(type, s)
       PROVE LedgerInv'
  BY <1>2, <1>17 DEF ReleaseLease
<1>18. CASE Tick \/ UNCHANGED vars  BY <1>2, <1>18 DEF Tick, vars, serviceVars
<1>19. ASSUME NEW r \in DOMAIN requests, StampActivity(r)  PROVE LedgerInv'
  <2>1. requests' = [requests EXCEPT ![r].stamp = clock] /\ UNCHANGED <<sessions, ledger>>
    BY <1>19 DEF StampActivity, serviceVars
  <2>2. DOMAIN requests' = DOMAIN requests
        /\ \A x \in DOMAIN requests : /\ requests'[x].session = requests[x].session
                                      /\ requests'[x].invocation = requests[x].invocation
    BY <2>1
  <2>3. \A i : LegacyOpen(requests', i) = LegacyOpen(requests, i)  BY <2>2 DEF LegacyOpen
  <2> QED BY <2>1, <2>2, <2>3 DEF LedgerInv, Live
<1> QED
  BY <1>5, <1>6, <1>7, <1>9, <1>10, <1>11, <1>12, <1>13, BeginLegacyKeepsLedger, <1>14,
     <1>15, <1>16, EndLegacyKeepsLedger, <1>17, <1>18, <1>19
  DEF Next, Method, StartRegister, StartHeartbeat, StartBegin, StartAcquire, StartSweep

LEMMA LedgerInvariant == Spec => []LedgerInv
<1>1. Init => LedgerInv  BY DEF Init, LedgerInv, Live
<1>2. TypeOK /\ InstanceIndexExact /\ LedgerInv /\ [Next]_vars => LedgerInv'
  BY LedgerInvInductive
<1> QED BY <1>1, <1>2, TypeCorrect, IndexIsExact, PTL DEF Spec

\* An invocation with a live session or an open session-less request is shown running.
THEOREM BackedInvocationsRun == Spec => []BackedIsRunning
<1>1. LedgerInv => BackedIsRunning
  BY DEF LedgerInv, BackedIsRunning, Backed, Runs, InvocationsOf
<1> QED BY <1>1, LedgerInvariant, PTL

\* A session that stays keeps its client.
LEMMA ClientsStay ==
  ASSUME TypeOK, [Next]_vars, NEW s \in Live, s \in Live'
  PROVE  sessions'[s].client = sessions[s].client
<1>0. \A x \in Live : sessions[x] \in Session /\ x \in usedIds  BY DEF TypeOK, SessionsOK
<1>1. ASSUME UNCHANGED sessions  PROVE sessions'[s].client = sessions[s].client
  BY <1>1
<1>2. ASSUME NEW S, Drop(S)  PROVE sessions'[s].client = sessions[s].client
  BY <1>2 DEF Drop, Restrict, Live
<1>3. ASSUME NEW t \in Threads, Method(t)  PROVE sessions'[s].client = sessions[s].client
  <2>1. ASSUME NEW call, Start(t, call)  PROVE sessions'[s].client = sessions[s].client
    BY <1>1, <2>1 DEF Start, serviceVars
  <2>2. CASE Sweep(t)  BY <1>2, <2>2 DEF Sweep, ExpireSessions
  <2>3. CASE RegisterKnown(t)  BY <1>0, <2>3 DEF RegisterKnown, Refreshed, Session, Live
  <2>4. CASE RegisterNew(t)  BY <1>0, <2>4 DEF RegisterNew, With, Live
  <2>5. CASE RegistryFull(t) \/ AcquireRefused(t) \/ AcquireGranted(t)
    BY <1>1, <2>5 DEF RegistryFull, AcquireRefused, AcquireGranted, serviceVars
  <2>6. CASE Heartbeat(t)  BY <1>0, <2>6 DEF Heartbeat, Refreshed, Session, Live
  <2>7. CASE BeginRequest(t)  BY <1>0, <2>7 DEF BeginRequest, Session, Live
  <2> QED BY <1>3, <2>1, <2>2, <2>3, <2>4, <2>5, <2>6, <2>7
          DEF Method, StartRegister, StartHeartbeat, StartBegin, StartAcquire, StartSweep
<1>4. \A x \in Live : UnregisterClient(x) => sessions'[s].client = sessions[s].client
  BY <1>2 DEF UnregisterClient
<1>5. ~DisconnectAllSessions  BY DEF DisconnectAllSessions, Live
<1>6. ASSUME NEW r \in DOMAIN requests,
             \/ StampActivity(r) \/ BeginActivity(r)
             \/ CompleteWithFailure(r) \/ EndRequest(r)
      PROVE  sessions'[s].client = sessions[s].client
  <2>0. CASE StampActivity(r)  BY <1>1, <2>0 DEF StampActivity, serviceVars
  <2>1. CASE BeginActivity(r)  BY <2>1, LoggedSessions
  <2>2. CASE CompleteWithFailure(r)  BY <1>1, <2>2 DEF CompleteWithFailure
  <2>3. CASE EndRequest(r)  BY <1>0, <2>3 DEF EndRequest, Session, Live
  <2> QED BY <1>6, <2>0, <2>1, <2>2, <2>3
<1>7. \A i \in LegacyInvocations : BeginLegacyRequest(i) => UNCHANGED sessions
  BY DEF BeginLegacyRequest
<1>8. \A type \in LeaseTypes, x \in Live : ReleaseLease(type, x) => UNCHANGED sessions
  BY DEF ReleaseLease
<1>9. Tick \/ UNCHANGED vars => UNCHANGED sessions  BY DEF Tick, vars, serviceVars
<1> QED BY <1>1, <1>3, <1>4, <1>5, <1>6, <1>7, <1>8, <1>9 DEF Next

\* A request stays what it is until EndRequest.
LEMMA RequestsStay ==
  ASSUME [Next]_vars, NEW r \in DOMAIN requests, ~EndRequest(r)
  PROVE  /\ r \in DOMAIN requests' /\ requests'[r].session = requests[r].session
         /\ requests'[r].invocation = requests[r].invocation
<1> DEFINE Stays == /\ r \in DOMAIN requests' /\ requests'[r].session = requests[r].session
                    /\ requests'[r].invocation = requests[r].invocation
<1>1. UNCHANGED requests => Stays  OBVIOUS
<1>2. ASSUME NEW x \in Requests \ DOMAIN requests, NEW v, requests' = With(requests, x, v)
      PROVE  Stays
  BY <1>2 DEF With
<1>3. ASSUME NEW t \in Threads, Method(t)  PROVE Stays
  <2>1. ASSUME NEW call, Start(t, call)  PROVE Stays  BY <1>1, <2>1 DEF Start
  <2>2. CASE Sweep(t)  BY <1>1, <2>2 DEF Sweep
  <2>3. CASE RegisterKnown(t) \/ RegisterNew(t) \/ RegistryFull(t)
    BY <1>1, <2>3 DEF RegisterKnown, RegisterNew, RegistryFull
  <2>4. CASE Heartbeat(t) \/ AcquireRefused(t) \/ AcquireGranted(t)
    BY <1>1, <2>4 DEF Heartbeat, AcquireRefused, AcquireGranted
  <2>5. CASE BeginRequest(t)
    <3>1. \/ UNCHANGED requests
          \/ \E x \in Requests \ DOMAIN requests : \E v : requests' = With(requests, x, v)
      BY <2>5 DEF BeginRequest
    <3> QED BY <1>1, <1>2, <3>1
  <2> QED BY <1>3, <2>1, <2>2, <2>3, <2>4, <2>5
          DEF Method, StartRegister, StartHeartbeat, StartBegin, StartAcquire, StartSweep
<1>4. \A s \in Live : UnregisterClient(s) => UNCHANGED requests  BY DEF UnregisterClient
<1>5. DisconnectAllSessions => UNCHANGED requests  BY DEF DisconnectAllSessions
<1>6. ASSUME NEW i \in LegacyInvocations, BeginLegacyRequest(i)  PROVE Stays
  BY <1>2, <1>6 DEF BeginLegacyRequest
<1>7. ASSUME NEW x \in DOMAIN requests,
             \/ StampActivity(x) \/ BeginActivity(x)
             \/ CompleteWithFailure(x) \/ EndRequest(x)
      PROVE  Stays
  <2>0. CASE StampActivity(x)
    <3>1. requests' = [requests EXCEPT ![x].stamp = clock]  BY <2>0 DEF StampActivity
    <3> QED BY <3>1
  <2>1. CASE BeginActivity(x)
    <3>1. requests' = [requests EXCEPT ![x].logged = TRUE, ![x].stamp = NoTime]  BY <2>1 DEF BeginActivity
    <3> QED BY <3>1
  <2>2. CASE CompleteWithFailure(x)  BY <1>1, <2>2 DEF CompleteWithFailure
  <2>3. CASE EndRequest(x)
    <3>1. requests' = Restrict(requests, DOMAIN requests \ {x}) /\ x # r
      BY <2>3 DEF EndRequest
    <3> QED BY <3>1 DEF Restrict
  <2> QED BY <1>7, <2>0, <2>1, <2>2, <2>3
<1>8. \A type \in LeaseTypes, x \in Live : ReleaseLease(type, x) => UNCHANGED requests
  BY DEF ReleaseLease
<1>9. Tick \/ UNCHANGED vars => UNCHANGED requests  BY DEF Tick, vars
<1> HIDE DEF Stays
<1>10. Stays  BY <1>1, <1>3, <1>4, <1>5, <1>6, <1>7, <1>8, <1>9 DEF Next
<1> QED BY <1>10 DEF Stays

\* The step that takes the last backing of an invocation away finishes it.
THEOREM UnbackedInvocationsFinish == Spec => UnbackedIsFinished
<1>1. TypeOK /\ InstanceIndexExact /\ LedgerInv /\ [Next]_vars =>
        [\A i \in DOMAIN ledger' :
           Backed(i) /\ ~Backed(i)' => ledger'[i].status # "running"]_vars
  <2> SUFFICES ASSUME TypeOK, InstanceIndexExact, LedgerInv, [Next]_vars,
                      NEW i \in DOMAIN ledger', Backed(i), ~Backed(i)'
               PROVE  ledger'[i].status # "running"
    OBVIOUS
  <2>0. \A j \in DOMAIN ledger : ledger[j] \in Record  BY DEF TypeOK, LedgerOK
  <2>1. ASSUME NEW ids, i \in ids, NEW outcome, outcome # "running",
               ledger' = Finished(ledger, ids, outcome)
        PROVE  ledger'[i].status # "running"
    BY <2>0, <2>1, FinishedKeeps DEF Record
  <2>2. ASSUME NEW r \in DOMAIN requests,
               requests[r].session = None, requests[r].invocation = i
        PROVE  ledger'[i].status # "running"
    <3>1. EndRequest(r)  BY <2>2, RequestsStay DEF Backed
    <3>2. LegacyOpen(requests', i) = {}  BY DEF LegacyOpen, Backed
    <3> QED BY <2>2, <3>1, <3>2, EndLegacyKeepsLedger DEF Runs
  <2>3. ASSUME NEW s \in Live, IsCli(sessions[s].client), i = InvocationOf[sessions[s].client]
        PROVE  ledger'[i].status # "running"
    <3>1. s \notin Live'  BY <2>3, ClientsStay DEF Backed, InvocationsOf
    <3>2. CASE \E t \in Threads : Sweep(t) /\ s \in Expired(calls[t].now)
      <4>1. PICK t \in Threads : Sweep(t) /\ s \in Expired(calls[t].now)  BY <3>2
      <4>2. i \in InvocationsOf(Expired(calls[t].now))  BY <2>3, <4>1 DEF InvocationsOf
      <4> QED BY <2>1, <4>1, <4>2 DEF Sweep, ExpireSessions
    <3>3. CASE UnregisterClient(s)
      <4>1. ledger' = Finished(ledger, {i}, Outcome(ledger, i))
        BY <2>3, <3>3 DEF UnregisterClient
      <4> QED BY <2>1, <4>1 DEF Outcome
    <3>4. CASE DisconnectAllSessions
      <4>1. i \in InvocationsOf(Live)  BY <2>3 DEF InvocationsOf
      <4> QED BY <2>1, <3>4, <4>1 DEF DisconnectAllSessions
    <3> QED BY <3>1, <3>2, <3>3, <3>4, WaysOut DEF Live
  <2> QED BY <2>2, <2>3 DEF Backed, InvocationsOf
<1> QED BY <1>1, TypeCorrect, IndexIsExact, LedgerInvariant, PTL DEF Spec, UnbackedIsFinished
=============================================================================
