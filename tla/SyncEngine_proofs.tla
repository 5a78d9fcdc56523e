-------------------------- MODULE SyncEngine_proofs --------------------------
(***************************************************************************)
(* Theorems of SyncEngine, for every set of entities, target tenants,      *)
(* relays and executors and any number of changes.                         *)
(***************************************************************************)
EXTENDS SyncEngine, SyncJobs_proofs

-----------------------------------------------------------------------------
(* The inductive invariant.                                                *)

(* Outbox ids are given out without gaps, and an unrelayed row is about    *)
(* the latest change of its entity: emit replaces the earlier ones.        *)
OutboxOK ==
  /\ \E n \in 0..MaxVersion : DOMAIN outbox = 1..n
  /\ \A n \in Unrelayed : n = origin[outbox[n].entity].version

(* s is a job the relay makes of an existing row. *)
IsRelayed(s) ==
  /\ s.version \in DOMAIN outbox
  /\ s.key.entity = outbox[s.version].entity
  /\ s.key.origin = Origin /\ s.key.target \in Target
  /\ s.op \in StateOp

(* A relay works on unrelayed rows which no other relay has. *)
RelaysOK ==
  \A i \in Instance :
    /\ relay[i].rows \subseteq Unrelayed
    /\ relay[i].handled \subseteq relay[i].rows
    /\ \A s \in relay[i].todo : IsRelayed(s) /\ s.version \in relay[i].handled
    /\ \A j \in Instance \ {i} : relay[i].rows \cap relay[j].rows = {}

JobsOK ==
  /\ \A m \in DOMAIN jobs : IsRelayed(jobs[m].what)
  /\ \A k \in Token : applied[k] \subseteq runs[k]

EntityOf(m) == jobs[m].what.key.entity
TargetOf(m) == jobs[m].what.key.target

(* Job m was made of the latest change of its entity. *)
IsCurrent(m) == jobs[m].what.version = origin[EntityOf(m)].version

IsServed(m) == IsConverged(EntityOf(m), TargetOf(m))

(* Whoever applied or finished a current job left the copy converged. *)
CurrentIsServed ==
  \A m \in DOMAIN jobs :
    /\ IsCurrent(m)
    /\ jobs[m].state \in Finished \cup {"purged"} \/ \E k \in Token : m \in applied[k]
    => IsServed(m)

(* Job m has still to be applied before it can be finished as done. *)
IsOwed(m) ==
  /\ jobs[m].state \in Live \cup Parked
  /\ jobs[m].state = "processing" => m \notin applied[jobs[m].token]

IsCovered(e, t) ==
  IsConverged(e, t) \/ \E m \in DOMAIN jobs : EntityOf(m) = e /\ TargetOf(m) = t /\ IsOwed(m)

(* The rows a relay is done with are covered, or their jobs are still to   *)
(* be enqueued.                                                            *)
HandledAreCovered ==
  \A i \in Instance : \A n \in relay[i].handled \ relay[i].failed : \A t \in Target :
    \/ IsCovered(outbox[n].entity, t)
    \/ \E s \in relay[i].todo : s.version = n /\ s.key.target = t

RestIsCovered ==
  \A e \in Entity : UnrelayedOf(e) # {} \/ \A t \in Target : IsCovered(e, t)

EInv ==
  /\ JInv /\ ETypeOK
  /\ OutboxOK /\ RelaysOK /\ JobsOK
  /\ CurrentIsServed /\ HandledAreCovered /\ RestIsCovered

LEMMA EInvImplies == EInv => NoCopyIsForgotten
<1> SUFFICES ASSUME EInv, NEW e \in Entity, NEW t \in Target,
                    ~IsConverged(e, t), UnrelayedOf(e) = {}
             PROVE  \E m \in JobsFor(e, t) : jobs[m].state \in Live \cup Parked
  BY DEF NoCopyIsForgotten
<1>1. PICK m \in DOMAIN jobs : EntityOf(m) = e /\ TargetOf(m) = t /\ IsOwed(m)
  BY DEF EInv, RestIsCovered, IsCovered
<1> QED
  BY <1>1 DEF JobsFor, EntityOf, TargetOf, IsOwed

LEMMA EInitOK == EInit => EInv
<1> SUFFICES ASSUME EInit PROVE EInv
  OBVIOUS
<1>1. JInv
  BY InitOK DEF EInit
<1>2. DOMAIN jobs = {} /\ DOMAIN outbox = {} /\ Unrelayed = {}
  BY DEF EInit, Init, Unrelayed
<1>3. MaxVersion \in Nat
  BY EngineConstants
<1>4. ETypeOK
  BY <1>1, <1>2, <1>3 DEF EInit, ETypeOK, JInv, Relay, Idle
<1>5. OutboxOK
  <2>1. DOMAIN outbox = 1..0 /\ 0 \in 0..MaxVersion
    BY <1>2, <1>3
  <2> QED
    BY <1>2, <2>1 DEF OutboxOK
<1>6. RelaysOK /\ HandledAreCovered
  BY DEF EInit, RelaysOK, HandledAreCovered, Idle
<1>7. JobsOK /\ CurrentIsServed
  BY <1>2 DEF EInit, JobsOK, CurrentIsServed
<1>8. RestIsCovered
  BY DEF EInit, RestIsCovered, IsCovered, IsConverged, Expected
<1> QED
  BY <1>1, <1>4, <1>5, <1>6, <1>7, <1>8 DEF EInv

-----------------------------------------------------------------------------
(* Steps of the queue: claims, reports, lost leases, operators, the purge. *)

LEMMA Types ==
  ASSUME EInv
  PROVE  /\ \A m \in DOMAIN jobs : IsOK(jobs[m]) /\ m \in JobSeq
         /\ runs \in [Token -> SUBSET DOMAIN jobs]
         /\ applied \in [Token -> SUBSET JobSeq]
         /\ \A k \in Token : applied[k] \subseteq runs[k] /\ applied[k] \subseteq DOMAIN jobs
         /\ \A m \in DOMAIN jobs : EntityOf(m) \in Entity /\ TargetOf(m) \in Target
<1>1. \A m \in DOMAIN jobs : IsOK(jobs[m]) /\ m \in JobSeq
  BY JInvJobs DEF EInv
<1>2. /\ runs \in [Token -> SUBSET DOMAIN jobs] /\ applied \in [Token -> SUBSET JobSeq]
      /\ \A n \in DOMAIN outbox : outbox[n].entity \in Entity
  BY DEF EInv, ETypeOK, TypeOK, OutboxRow
<1> QED
  BY <1>1, <1>2 DEF EInv, JobsOK, IsRelayed, EntityOf, TargetOf

LEMMA QueueKept ==
  ASSUME EInv, JInv', UNCHANGED <<outbox, relay, origin, copy>>,
         DOMAIN jobs' = DOMAIN jobs,
         applied' \in [Token -> SUBSET JobSeq],
         \A k \in Token : applied'[k] \subseteq applied[k] /\ applied'[k] \subseteq runs'[k],
         \A m \in DOMAIN jobs :
           /\ jobs'[m].what = jobs[m].what
           /\ IsOwed(m) => IsOwed(m)' \/ IsServed(m)
           /\ jobs'[m].state \in Finished \cup {"purged"} /\ IsCurrent(m) => IsServed(m)
  PROVE  EInv'
<1>1. ETypeOK'
  BY DEF EInv, ETypeOK, JInv
<1>2. OutboxOK' /\ RelaysOK'
  BY DEF EInv, OutboxOK, RelaysOK, Unrelayed, IsRelayed
<1>3. JobsOK'
  BY DEF EInv, JobsOK, IsRelayed
<1>4. \A m \in DOMAIN jobs : /\ EntityOf(m)' = EntityOf(m) /\ TargetOf(m)' = TargetOf(m)
                            /\ IsCurrent(m)' = IsCurrent(m) /\ IsServed(m)' = IsServed(m)
  BY DEF EntityOf, TargetOf, IsCurrent, IsServed, IsConverged, Expected
<1>5. CurrentIsServed'
  BY <1>4 DEF EInv, CurrentIsServed
<1>6. \A e, t : IsCovered(e, t) => IsCovered(e, t)'
  <2> SUFFICES ASSUME NEW e, NEW t, IsCovered(e, t), ~IsConverged(e, t)
               PROVE  \E m \in DOMAIN jobs' : EntityOf(m)' = e /\ TargetOf(m)' = t /\ IsOwed(m)'
    BY DEF IsCovered, IsConverged, Expected
  <2>1. PICK m \in DOMAIN jobs : EntityOf(m) = e /\ TargetOf(m) = t /\ IsOwed(m)
    BY DEF IsCovered
  <2> QED
    BY <2>1, <1>4 DEF IsServed
<1>7. HandledAreCovered'
  BY <1>6 DEF EInv, HandledAreCovered
<1>8. RestIsCovered'
  BY <1>6 DEF EInv, RestIsCovered, UnrelayedOf, Unrelayed
<1> QED
  BY <1>1, <1>2, <1>3, <1>5, <1>7, <1>8 DEF EInv

(* Rewriting jobs without a change of state or token. *)
LEMMA QuietKept ==
  ASSUME EInv, JInv', UNCHANGED <<outbox, relay, origin, copy, runs>>,
         applied' = applied,
         jobs' = [m \in DOMAIN jobs |-> jobs'[m]],
         \A m \in DOMAIN jobs : Quiet(jobs[m], jobs'[m]) \/ Revived(jobs[m], jobs'[m])
  PROVE  EInv'
<1>1. ASSUME NEW m \in DOMAIN jobs
      PROVE  /\ jobs'[m].what = jobs[m].what
             /\ IsOwed(m) => IsOwed(m)'
             /\ jobs'[m].state \in Finished \cup {"purged"} => jobs[m].state = jobs'[m].state
  BY DEF Quiet, Revived, IsOwed, Live, Waiting, Finished
<1>2. \A m \in DOMAIN jobs :
        jobs[m].state \in Finished \cup {"purged"} /\ IsCurrent(m) => IsServed(m)
  BY DEF EInv, CurrentIsServed
<1> QED
  BY <1>1, <1>2, Types, QueueKept

LEMMA ClaimKept ==
  ASSUME EInv, JInv', NEW k \in Token, OnQueue(k, ClaimDue(k))
  PROVE  EInv'
<1>1. PICK S \in SUBSET DOMAIN jobs :
        /\ \A n \in S : jobs[n].due
        /\ jobs' = [n \in DOMAIN jobs |-> IF n \in S THEN Claimed(jobs[n], k) ELSE jobs[n]]
        /\ runs' = [runs EXCEPT ![k] = S]
  BY ClaimFacts DEF OnQueue, EInv, IsDue
<1>2. /\ runs[k] = {} /\ applied' = [applied EXCEPT ![k] = @ \cap runs'[k]]
      /\ UNCHANGED <<outbox, relay, origin, copy>>
  BY ClaimFacts DEF OnQueue, EInv
<1>3. applied[k] = {} /\ applied' = applied
  BY <1>2, Types
<1>4. ASSUME NEW m \in DOMAIN jobs
      PROVE  /\ jobs'[m].what = jobs[m].what
             /\ IsOwed(m) => IsOwed(m)'
             /\ jobs'[m].state \in Finished \cup {"purged"} => jobs[m].state = jobs'[m].state
  <2>1. CASE m \in S
    BY <1>1, <1>3, <2>1, Types, ClaimedOK DEF IsOK, IsOwed, Live, Finished
  <2>2. CASE m \notin S
    BY <1>1, <1>3, <2>2 DEF IsOwed
  <2> QED
    BY <2>1, <2>2
<1>5. \A m \in DOMAIN jobs :
        jobs[m].state \in Finished \cup {"purged"} /\ IsCurrent(m) => IsServed(m)
  BY DEF EInv, CurrentIsServed
<1>6. \A u \in Token : applied'[u] \subseteq runs'[u]
  BY <1>1, <1>3, Types
<1> QED
  BY <1>1, <1>2, <1>3, <1>4, <1>5, <1>6, Types, QueueKept

(* A failure puts the job back or parks it; the other answers are given    *)
(* when the copy is converged.                                             *)
LEMMA AnswersOK ==
  ASSUME EInv, NEW k \in Token, NEW n \in runs[k], NEW outcome \in Outcomes,
         Answers(k, n, outcome), Holds(k, n)
  PROVE  LET state == NextState(jobs[n], outcome)
         IN  \/ state \in Waiting \cup Parked
             \/ /\ state \in Finished
                /\ IsCurrent(n) => IsServed(n)
                /\ IsOwed(n) => IsServed(n)
<1>1. CASE outcome = "Done"
  <2>1. n \in applied[k]
    BY <1>1 DEF Answers
  <2>2. ~IsOwed(n)
    BY <2>1 DEF IsOwed, Holds
  <2>3. IsCurrent(n) => IsServed(n)
    BY <2>1, Types DEF EInv, CurrentIsServed
  <2>4. NextState(jobs[n], outcome) = "done"
    BY <1>1 DEF NextState
  <2> QED
    BY <2>2, <2>3, <2>4 DEF Finished
<1>2. CASE outcome \in {"Inactive", "Superseded"}
  <2>1. IsServed(n)
    BY <1>2 DEF Answers, IsServed, EntityOf, TargetOf
  <2>2. NextState(jobs[n], outcome) \in Finished
    BY <1>2 DEF NextState, Finished
  <2> QED
    BY <2>1, <2>2
<1>3. CASE outcome \in {"Permanent", "Blocked", "Paused", "Retryable"}
  <2>1. NextState(jobs[n], outcome) \in {"exhausted", "blocked", "paused", "retry"}
    BY <1>3 DEF NextState
  <2> QED
    BY <2>1 DEF Waiting, Parked
<1> QED
  BY <1>1, <1>2, <1>3 DEF Outcomes

LEMMA FinishKept ==
  ASSUME EInv, JInv', NEW k \in Token, NEW n \in runs[k], NEW outcome \in Outcomes,
         Answers(k, n, outcome), Finish(k, n, outcome),
         applied' = [applied EXCEPT ![k] = @ \cap runs'[k]],
         UNCHANGED <<outbox, relay, origin, copy>>
  PROVE  EInv'
<1>1. /\ Holds(k, n) /\ n \in DOMAIN jobs
      /\ runs' = [runs EXCEPT ![k] = @ \ {n}]
      /\ jobs' = [m \in DOMAIN jobs |-> jobs'[m]]
      /\ jobs'[n].state = NextState(jobs[n], outcome)
      /\ jobs'[n].what = jobs[n].what
      /\ \A m \in DOMAIN jobs \ {n} : jobs'[m] = jobs[m]
  BY FinishFacts DEF EInv, Holds
<1>2. /\ applied' \in [Token -> SUBSET JobSeq]
      /\ \A u \in Token : applied'[u] \subseteq applied[u] /\ applied'[u] \subseteq runs'[u]
  BY <1>1, Types
<1> DEFINE state == NextState(jobs[n], outcome)
<1>3. \/ state \in Waiting \cup Parked
      \/ /\ state \in Finished
         /\ IsCurrent(n) => IsServed(n)
         /\ IsOwed(n) => IsServed(n)
  BY <1>1, AnswersOK
<1>4. jobs'[n].state = state
  BY <1>1
<1> HIDE DEF state
<1>5. /\ jobs'[n].state \in Finished \cup {"purged"} /\ IsCurrent(n) => IsServed(n)
      /\ IsOwed(n) => IsOwed(n)' \/ IsServed(n)
  BY <1>3, <1>4 DEF IsOwed, Live, Waiting, Parked, Finished
<1>6. ASSUME NEW m \in DOMAIN jobs \ {n}
      PROVE  /\ IsOwed(m) => IsOwed(m)'
             /\ jobs'[m].state \in Finished \cup {"purged"} /\ IsCurrent(m) => IsServed(m)
  <2>1. jobs'[m] = jobs[m] /\ (jobs[m].state = "processing" => jobs[m].token \in Token)
    BY <1>1, Types DEF IsOK, JobOK, Job
  <2> QED
    BY <1>2, <2>1 DEF IsOwed, EInv, CurrentIsServed
<1> QED
  BY <1>1, <1>2, <1>5, <1>6, QueueKept

(* An executor forgets jobs: crash, discarded or refused finish. *)
LEMMA ForgetKept ==
  ASSUME EInv, JInv', NEW k \in Token, NEW S \in SUBSET runs[k],
         runs' = [runs EXCEPT ![k] = S],
         applied' = [applied EXCEPT ![k] = @ \cap runs'[k]],
         UNCHANGED <<jobs, outbox, relay, origin, copy>>
  PROVE  EInv'
<1>1. /\ applied' \in [Token -> SUBSET JobSeq]
      /\ \A u \in Token : applied'[u] \subseteq applied[u] /\ applied'[u] \subseteq runs'[u]
  BY Types
<1>2. ASSUME NEW m \in DOMAIN jobs
      PROVE  /\ IsOwed(m) => IsOwed(m)'
             /\ jobs'[m].state \in Finished \cup {"purged"} /\ IsCurrent(m) => IsServed(m)
  <2>1. jobs[m].state = "processing" => jobs[m].token \in Token
    BY Types DEF IsOK, JobOK, Job
  <2> QED
    BY <1>1, <2>1 DEF IsOwed, EInv, CurrentIsServed
<1> QED
  BY <1>1, <1>2, QueueKept

(* apply: the copy becomes what the origin says now.                       *)
LEMMA ApplyKept ==
  ASSUME EInv, JInv', NEW k \in Token, NEW n, Apply(k, n)
  PROVE  EInv'
<1> DEFINE e == EntityOf(n)
           t == TargetOf(n)
<1>1. /\ n \in runs[k] /\ n \in DOMAIN jobs /\ e \in Entity /\ t \in Target
      /\ copy' = [copy EXCEPT ![e][t] = Expected(e, t)]
      /\ applied' = [applied EXCEPT ![k] = @ \cup {n}]
      /\ UNCHANGED <<jobs, runs, outbox, relay, origin>>
  BY Types DEF Apply, EntityOf, TargetOf
<1>2. origin[e].version \in 0..MaxVersion /\ Expected(e, t) \in 0..MaxVersion
  BY <1>1, EngineConstants DEF EInv, ETypeOK, Expected
<1>3. copy \in [Entity -> [Target -> 0..MaxVersion]]
  BY DEF EInv, ETypeOK
<1>4. ETypeOK'
  <2>1. copy' \in [Entity -> [Target -> 0..MaxVersion]]
    BY <1>1, <1>2, <1>3
  <2>2. applied' \in [Token -> SUBSET JobSeq]
    BY <1>1, Types
  <2> QED
    BY <1>1, <2>1, <2>2 DEF EInv, ETypeOK, JInv
<1>5. \A f \in Entity, u \in Target :
        /\ Expected(f, u)' = Expected(f, u)
        /\ f = e /\ u = t => IsConverged(f, u)'
        /\ IsConverged(f, u) => IsConverged(f, u)'
        /\ f # e \/ u # t => IsConverged(f, u)' = IsConverged(f, u)
  <2>1. \A f, u : Expected(f, u)' = Expected(f, u)
    BY <1>1 DEF Expected
  <2>2. \A f \in Entity, u \in Target :
          copy'[f][u] = IF f = e /\ u = t THEN Expected(e, t) ELSE copy[f][u]
    BY <1>1, <1>3
  <2> HIDE DEF e, t
  <2> QED
    BY <2>1, <2>2 DEF IsConverged
<1>6. ASSUME NEW m \in DOMAIN jobs, IsServed(m) PROVE IsServed(m)'
  <2>1. \A f \in Entity, u \in Target :
          copy[f][u] = Expected(f, u) => copy'[f][u] = Expected(f, u)
    BY <1>1, <1>3
  <2>2. copy'[EntityOf(m)][TargetOf(m)] = Expected(EntityOf(m), TargetOf(m))
    BY <1>6, <2>1, Types DEF IsServed, IsConverged
  <2> QED
    BY <1>1, <2>2 DEF IsServed, IsConverged, Expected, EntityOf, TargetOf
<1>7. CurrentIsServed'
  <2> SUFFICES ASSUME NEW m \in DOMAIN jobs, IsCurrent(m)',
                      (jobs[m].state \in Finished \cup {"purged"})
                        \/ (\E u \in Token : m \in applied'[u])
               PROVE  IsServed(m)'
    BY <1>1 DEF CurrentIsServed
  <2>1. CASE m = n
    BY <1>1, <1>5, <2>1 DEF IsServed, EntityOf, TargetOf, IsConverged, Expected
  <2>2. CASE m # n
    <3>1. \A u \in Token : m \in applied'[u] => m \in applied[u]
      BY <1>1, <2>2, Types
    <3> QED
      BY <1>1, <1>6, <3>1, Types DEF EInv, CurrentIsServed, IsCurrent, IsServed,
                                      IsConverged, Expected, EntityOf, TargetOf
  <2> QED
    BY <2>1, <2>2
<1>8. \A f \in Entity, u \in Target : IsCovered(f, u) => IsCovered(f, u)'
  <2> SUFFICES ASSUME NEW f \in Entity, NEW u \in Target, IsCovered(f, u), ~IsConverged(f, u)'
               PROVE  \E m \in DOMAIN jobs' : EntityOf(m)' = f /\ TargetOf(m)' = u /\ IsOwed(m)'
    BY DEF IsCovered
  <2>1. ~IsConverged(f, u)
    BY <1>5
  <2>2. PICK m \in DOMAIN jobs : EntityOf(m) = f /\ TargetOf(m) = u /\ IsOwed(m)
    BY <2>1 DEF IsCovered
  <2>3. m # n
    BY <1>5, <2>2
  <2>4. IsOwed(m)'
    <3>1. jobs[m].state = "processing" => jobs[m].token \in Token
      BY Types DEF IsOK, JobOK, Job
    <3>2. \A v \in Token : m \in applied'[v] => m \in applied[v]
      BY <1>1, <2>3, Types
    <3> QED
      BY <1>1, <2>2, <3>1, <3>2 DEF IsOwed
  <2> QED
    BY <1>1, <2>2, <2>4 DEF EntityOf, TargetOf, IsOwed
<1>9. OutboxOK' /\ RelaysOK' /\ JobsOK'
  <2>1. \A u \in Token : applied'[u] \subseteq runs'[u]
    BY <1>1, Types
  <2> QED
    BY <1>1, <2>1 DEF EInv, OutboxOK, RelaysOK, JobsOK, Unrelayed, IsRelayed
<1>10. HandledAreCovered'
  <2>1. \A i \in Instance : \A m \in relay[i].handled : outbox[m].entity \in Entity
    BY DEF EInv, RelaysOK, Unrelayed, ETypeOK, OutboxRow
  <2> QED
    BY <1>1, <1>8, <2>1 DEF EInv, HandledAreCovered
<1>11. RestIsCovered'
  BY <1>1, <1>8 DEF EInv, RestIsCovered, UnrelayedOf, Unrelayed
<1> QED
  BY <1>4, <1>7, <1>9, <1>10, <1>11 DEF EInv

-----------------------------------------------------------------------------
(* Steps of a relay.                                                       *)

(* A relay's own step: the jobs, the origin and the copies stay.           *)
LEMMA SameCover ==
  ASSUME EInv, UNCHANGED <<jobs, runs, origin, copy, applied>>
  PROVE  /\ JInv'
         /\ \A e, t : IsCovered(e, t)' = IsCovered(e, t)
         /\ CurrentIsServed'
<1>1. JInv'
  BY DEF EInv, JInv, TypeOK, SeqsAreDense, JobOK
<1>2. \A e, t : IsConverged(e, t)' = IsConverged(e, t)
  BY DEF IsConverged, Expected
<1>3. \A m \in DOMAIN jobs : /\ EntityOf(m)' = EntityOf(m) /\ TargetOf(m)' = TargetOf(m)
                            /\ IsOwed(m)' = IsOwed(m) /\ IsCurrent(m)' = IsCurrent(m)
  BY DEF EntityOf, TargetOf, IsOwed, IsCurrent
<1>4. \A e, t : IsCovered(e, t)' = IsCovered(e, t)
  BY <1>2, <1>3 DEF IsCovered
<1>5. CurrentIsServed'
  BY <1>2, <1>3 DEF EInv, CurrentIsServed, IsServed
<1> QED
  BY <1>1, <1>4, <1>5

(* What relay i may become. *)
Fits(i, r) ==
  /\ r \in Relay
  /\ r.rows \subseteq Unrelayed /\ r.handled \subseteq r.rows
  /\ \A s \in r.todo : IsRelayed(s) /\ s.version \in r.handled
  /\ \A j \in Instance \ {i} : r.rows \cap relay[j].rows = {}
  /\ \A n \in r.handled \ r.failed : \A t \in Target :
       \/ IsCovered(outbox[n].entity, t)
       \/ \E s \in r.todo : s.version = n /\ s.key.target = t

LEMMA RelayKept ==
  ASSUME EInv, NEW i \in Instance, NEW r, Fits(i, r),
         relay' = [relay EXCEPT ![i] = r],
         UNCHANGED <<jobs, runs, outbox, origin, copy, applied>>
  PROVE  EInv'
<1>1. relay \in [Instance -> Relay]
  BY DEF EInv, ETypeOK
<1>2. /\ relay'[i] = r /\ \A j \in Instance \ {i} : relay'[j] = relay[j]
      /\ relay' \in [Instance -> Relay]
  BY <1>1 DEF Fits
<1>3. JInv' /\ CurrentIsServed' /\ \A e, t : IsCovered(e, t)' = IsCovered(e, t)
  BY SameCover
<1>4. ETypeOK'
  BY <1>2, <1>3 DEF EInv, ETypeOK, JInv
<1>5. Unrelayed' = Unrelayed /\ \A s : IsRelayed(s)' = IsRelayed(s)
  BY DEF Unrelayed, IsRelayed
<1>6. RelaysOK'
  BY <1>2, <1>5 DEF EInv, RelaysOK, Fits
<1>7. OutboxOK' /\ JobsOK'
  BY <1>5 DEF EInv, OutboxOK, JobsOK
<1>8. HandledAreCovered'
  <2> SUFFICES ASSUME NEW j \in Instance, NEW n \in relay'[j].handled \ relay'[j].failed,
                      NEW t \in Target
               PROVE  \/ IsCovered(outbox[n].entity, t)'
                      \/ \E s \in relay'[j].todo : s.version = n /\ s.key.target = t
    BY DEF HandledAreCovered
  <2>1. CASE j = i
    BY <1>2, <1>3, <2>1 DEF Fits
  <2>2. CASE j # i
    BY <1>2, <1>3, <2>2 DEF EInv, HandledAreCovered
  <2> QED
    BY <2>1, <2>2
<1>9. RestIsCovered'
  BY <1>3, <1>5 DEF EInv, RestIsCovered, UnrelayedOf
<1> QED
  BY <1>3, <1>4, <1>6, <1>7, <1>8, <1>9 DEF EInv

LEMMA RelayTypes ==
  ASSUME EInv, NEW i \in Instance
  PROVE  /\ relay[i] = [rows |-> relay[i].rows, handled |-> relay[i].handled,
                        failed |-> relay[i].failed, todo |-> relay[i].todo]
         /\ relay[i].rows \subseteq Version /\ relay[i].handled \subseteq Version
         /\ relay[i].failed \subseteq Version /\ relay[i].todo \subseteq Submission
         /\ relay[i].rows \subseteq Unrelayed /\ relay[i].handled \subseteq relay[i].rows
         /\ \A s \in relay[i].todo : IsRelayed(s) /\ s.version \in relay[i].handled
         /\ \A j \in Instance \ {i} : relay[i].rows \cap relay[j].rows = {}
         /\ \A n \in relay[i].handled \ relay[i].failed : \A t \in Target :
              \/ IsCovered(outbox[n].entity, t)
              \/ \E s \in relay[i].todo : s.version = n /\ s.key.target = t
<1>1. relay[i] \in Relay
  BY DEF EInv, ETypeOK
<1> QED
  BY <1>1 DEF EInv, RelaysOK, HandledAreCovered, Relay

LEMMA PlanUpdate ==
  ASSUME NEW x \in Relay, NEW S, NEW T
  PROVE  [x EXCEPT !.handled = S, !.todo = T] =
           [rows |-> x.rows, handled |-> S, failed |-> x.failed, todo |-> T]
<1>1. PICK r, h, q, t : x = [rows |-> r, handled |-> h, failed |-> q, todo |-> t]
  BY DEF Relay
<1> DEFINE y == [x EXCEPT !.handled = S]
<1>2. y = [rows |-> x.rows, handled |-> S, failed |-> x.failed, todo |-> x.todo]
  BY <1>1
<1>3. [x EXCEPT !.handled = S, !.todo = T] = [y EXCEPT !.todo = T]
  BY <1>1
<1> HIDE DEF y
<1>4. [y EXCEPT !.todo = T] = [rows |-> x.rows, handled |-> S, failed |-> x.failed, todo |-> T]
  BY <1>2
<1> QED
  BY <1>3, <1>4

LEMMA SkipUpdate ==
  ASSUME NEW x \in Relay, NEW S, NEW T
  PROVE  [x EXCEPT !.handled = S, !.failed = T] =
           [rows |-> x.rows, handled |-> S, failed |-> T, todo |-> x.todo]
<1>1. PICK r, h, q, t : x = [rows |-> r, handled |-> h, failed |-> q, todo |-> t]
  BY DEF Relay
<1> DEFINE y == [x EXCEPT !.handled = S]
<1>2. y = [rows |-> x.rows, handled |-> S, failed |-> x.failed, todo |-> x.todo]
  BY <1>1
<1>3. [x EXCEPT !.handled = S, !.failed = T] = [y EXCEPT !.failed = T]
  BY <1>1
<1> HIDE DEF y
<1>4. [y EXCEPT !.failed = T] = [rows |-> x.rows, handled |-> S, failed |-> T, todo |-> x.todo]
  BY <1>2
<1> QED
  BY <1>3, <1>4

LEMMA BeginKept ==
  ASSUME EInv, NEW i \in Instance, RelayBegin(i)
  PROVE  EInv'
<1>1. PICK S \in SUBSET (Unrelayed \ Locked) : relay' = [relay EXCEPT ![i].rows = S]
  BY DEF RelayBegin
<1> DEFINE r == [rows |-> S, handled |-> {}, failed |-> {}, todo |-> {}]
<1>2. relay[i] = Idle /\ UNCHANGED <<jobs, runs, outbox, origin, copy, applied>>
  BY DEF RelayBegin
<1>3. relay' = [relay EXCEPT ![i] = r]
  <2>1. relay' = [relay EXCEPT ![i] = [Idle EXCEPT !.rows = S]]
    BY <1>1, <1>2 DEF EInv, ETypeOK
  <2>2. [Idle EXCEPT !.rows = S] = r
    BY DEF Idle
  <2> QED
    BY <2>1, <2>2
<1>4. S \subseteq Version
  BY DEF EInv, ETypeOK, Unrelayed
<1>5. r \in Relay
  BY <1>4 DEF Relay
<1>6. \A j \in Instance : S \cap relay[j].rows = {}
  BY DEF Locked
<1>7. /\ r.rows = S /\ r.handled = {} /\ r.failed = {} /\ r.todo = {}
      /\ S \subseteq Unrelayed
  OBVIOUS
<1> HIDE DEF r
<1>8. Fits(i, r)
  BY <1>5, <1>6, <1>7 DEF Fits
<1> QED
  BY <1>2, <1>3, <1>8, RelayKept

LEMMA PlanKept ==
  ASSUME EInv, NEW i \in Instance, RelayPlan(i)
  PROVE  EInv'
<1>1. PICK n \in Version :
        /\ IsNextRow(i, n)
        /\ relay' = [relay EXCEPT ![i].handled = @ \cup {n}, ![i].todo = NewJobs(n)]
  BY DEF RelayPlan
<1> DEFINE H == relay[i].handled \cup {n}
           r == [rows |-> relay[i].rows, handled |-> H,
                 failed |-> relay[i].failed, todo |-> NewJobs(n)]
           e == outbox[n].entity
<1>2. /\ relay[i].todo = {} /\ n \in relay[i].rows
      /\ UNCHANGED <<jobs, runs, outbox, origin, copy, applied>>
  BY <1>1 DEF RelayPlan, IsNextRow, Unhandled
<1>3. relay' = [relay EXCEPT ![i] = r]
  <2>1. relay' = [relay EXCEPT ![i] = [relay[i] EXCEPT !.handled = H, !.todo = NewJobs(n)]]
    BY <1>1 DEF EInv, ETypeOK
  <2>2. [relay[i] EXCEPT !.handled = H, !.todo = NewJobs(n)] = r
    <3>1. relay[i] \in Relay
      BY DEF EInv, ETypeOK
    <3> HIDE DEF H
    <3> QED
      BY <3>1, PlanUpdate
  <2> QED
    BY <2>1, <2>2
<1>4. n \in DOMAIN outbox /\ e \in Entity /\ outbox[n].op \in StateOp
  BY <1>2, RelayTypes DEF EInv, ETypeOK, Unrelayed, OutboxRow
<1>5. origin[e].scope \subseteq Target /\ "delete" \in StateOp
  BY <1>4 DEF EInv, ETypeOK, StateOp
<1>6. ASSUME NEW s \in NewJobs(n)
      PROVE  s \in Submission /\ IsRelayed(s) /\ s.version = n
  <2>1. PICK t \in Target, op \in StateOp : s = JobOf(e, t, op, n)
    BY <1>4, <1>5 DEF NewJobs, CopyHolders
  <2> QED
    BY <2>1, <1>4, EngineConstants DEF JobOf, IsRelayed
<1>7. r \in Relay
  BY <1>6, RelayTypes DEF Relay
<1>8. ASSUME NEW t \in Target
      PROVE  IsCovered(e, t) \/ \E s \in NewJobs(n) : s.version = n /\ s.key.target = t
  <2>1. CASE t \in origin[e].scope
    <3>1. JobOf(e, t, outbox[n].op, n) \in NewJobs(n)
      BY <2>1 DEF NewJobs
    <3> QED
      BY <3>1 DEF JobOf
  <2>2. CASE t \in CopyHolders(e) \ origin[e].scope
    <3>1. JobOf(e, t, "delete", n) \in NewJobs(n)
      BY <2>2 DEF NewJobs
    <3> QED
      BY <3>1 DEF JobOf
  <2>3. CASE copy[e][t] = 0 /\ t \notin origin[e].scope
    BY <2>3 DEF IsCovered, IsConverged, Expected
  <2> QED
    BY <2>1, <2>2, <2>3 DEF CopyHolders
<1>9. \A m \in relay[i].handled \ relay[i].failed : \A t \in Target : IsCovered(outbox[m].entity, t)
  BY <1>2, RelayTypes
<1>10. /\ r.rows = relay[i].rows /\ r.handled = relay[i].handled \cup {n}
       /\ r.failed = relay[i].failed /\ r.todo = NewJobs(n)
  OBVIOUS
<1>11. \A m \in r.handled \ r.failed : \A t \in Target :
         \/ IsCovered(outbox[m].entity, t)
         \/ \E s \in r.todo : s.version = m /\ s.key.target = t
  BY <1>8, <1>9, <1>10
<1>12. \A s \in r.todo : IsRelayed(s) /\ s.version \in r.handled
  BY <1>6, <1>10
<1>13. /\ r.rows \subseteq Unrelayed /\ r.handled \subseteq r.rows
       /\ \A j \in Instance \ {i} : r.rows \cap relay[j].rows = {}
  BY <1>2, <1>10, RelayTypes
<1> HIDE DEF r, e, H
<1>14. Fits(i, r)
  BY <1>7, <1>11, <1>12, <1>13 DEF Fits
<1> QED
  BY <1>2, <1>3, <1>14, RelayKept

LEMMA SkipKept ==
  ASSUME EInv, NEW i \in Instance, RelaySkip(i)
  PROVE  EInv'
<1>1. PICK n \in Version :
        /\ IsNextRow(i, n)
        /\ relay' = [relay EXCEPT ![i].handled = @ \cup {n}, ![i].failed = @ \cup {n}]
  BY DEF RelaySkip
<1> DEFINE H == relay[i].handled \cup {n}
           F == relay[i].failed \cup {n}
           r == [rows |-> relay[i].rows, handled |-> H, failed |-> F, todo |-> {}]
<1>2. /\ relay[i].todo = {} /\ n \in relay[i].rows
      /\ UNCHANGED <<jobs, runs, outbox, origin, copy, applied>>
  BY <1>1 DEF RelaySkip, IsNextRow, Unhandled
<1>3. relay' = [relay EXCEPT ![i] = r]
  <2>1. relay' = [relay EXCEPT ![i] = [relay[i] EXCEPT !.handled = H, !.failed = F]]
    BY <1>1 DEF EInv, ETypeOK
  <2>2. [relay[i] EXCEPT !.handled = H, !.failed = F] = r
    <3>1. relay[i] \in Relay
      BY DEF EInv, ETypeOK
    <3> HIDE DEF H, F
    <3> QED
      BY <1>2, <3>1, SkipUpdate
  <2> QED
    BY <2>1, <2>2
<1>4. r \in Relay
  BY RelayTypes DEF Relay
<1>5. /\ r.rows = relay[i].rows /\ r.handled = relay[i].handled \cup {n}
      /\ r.failed = relay[i].failed \cup {n} /\ r.todo = {}
  OBVIOUS
<1>6. \A m \in r.handled \ r.failed : \A t \in Target : IsCovered(outbox[m].entity, t)
  BY <1>2, <1>5, RelayTypes
<1>7. /\ r.rows \subseteq Unrelayed /\ r.handled \subseteq r.rows
      /\ \A j \in Instance \ {i} : r.rows \cap relay[j].rows = {}
  BY <1>2, <1>5, RelayTypes
<1> HIDE DEF r
<1>8. Fits(i, r)
  BY <1>4, <1>5, <1>6, <1>7 DEF Fits
<1> QED
  BY <1>2, <1>3, <1>8, RelayKept

LEMMA FailKept ==
  ASSUME EInv, NEW i \in Instance, RelayFail(i)
  PROVE  EInv'
<1>1. /\ relay' = [relay EXCEPT ![i] = Idle]
      /\ UNCHANGED <<jobs, runs, outbox, origin, copy, applied>>
  BY DEF RelayFail
<1>2. /\ Idle \in Relay /\ Idle.rows = {} /\ Idle.handled = {} /\ Idle.failed = {}
      /\ Idle.todo = {}
  BY DEF Idle, Relay
<1>3. Fits(i, Idle)
  BY <1>2 DEF Fits
<1> QED
  BY <1>1, <1>3, RelayKept

(* The rows a relay commits leave the unrelayed ones; they are covered.    *)
LEMMA CommitKept ==
  ASSUME EInv, NEW i \in Instance, RelayCommit(i)
  PROVE  EInv'
<1> DEFINE D == relay[i].rows \ relay[i].failed
<1>1. /\ relay[i].todo = {} /\ relay[i].rows \subseteq relay[i].handled
      /\ outbox' = [n \in DOMAIN outbox |->
                      IF n \in D THEN [outbox[n] EXCEPT !.status = "relayed"] ELSE outbox[n]]
      /\ relay' = [relay EXCEPT ![i] = Idle]
      /\ UNCHANGED <<jobs, runs, origin, copy, applied>>
  BY DEF RelayCommit, Unhandled
<1>2. relay \in [Instance -> Relay] /\ outbox \in [DOMAIN outbox -> OutboxRow]
  BY DEF EInv, ETypeOK
<1>3. /\ Idle \in Relay /\ Idle.rows = {} /\ Idle.handled = {} /\ Idle.failed = {}
      /\ Idle.todo = {}
  BY DEF Idle, Relay
<1>4. /\ relay' \in [Instance -> Relay] /\ relay'[i] = Idle
      /\ \A j \in Instance \ {i} : relay'[j] = relay[j]
  BY <1>1, <1>2, <1>3
<1>5. /\ DOMAIN outbox' = DOMAIN outbox
      /\ \A n \in DOMAIN outbox :
           /\ outbox'[n] \in OutboxRow
           /\ outbox'[n].entity = outbox[n].entity
           /\ n \in D => outbox'[n].status = "relayed"
           /\ n \notin D => outbox'[n].status = outbox[n].status
  <2>1. ASSUME NEW n \in DOMAIN outbox
        PROVE  LET row == [outbox[n] EXCEPT !.status = "relayed"]
               IN  row \in OutboxRow /\ row.entity = outbox[n].entity /\ row.status = "relayed"
    BY <1>2 DEF OutboxRow
  <2> HIDE DEF D
  <2> QED
    BY <1>1, <1>2, <2>1
<1>6. Unrelayed' = Unrelayed \ D
  BY <1>5 DEF Unrelayed
<1>7. JInv' /\ CurrentIsServed' /\ \A e, t : IsCovered(e, t)' = IsCovered(e, t)
  BY <1>1, SameCover
<1>8. ETypeOK'
  <2>1. outbox' \in [DOMAIN outbox' -> OutboxRow]
    BY <1>1, <1>5
  <2> QED
    BY <1>1, <1>4, <1>5, <1>7, <2>1 DEF EInv, ETypeOK, JInv
<1>9. \A s : IsRelayed(s)' <=> IsRelayed(s)
  BY <1>5 DEF IsRelayed
<1>10. OutboxOK'
  BY <1>1, <1>5, <1>6 DEF EInv, OutboxOK, Unrelayed
<1>11. JobsOK'
  BY <1>1, <1>9 DEF EInv, JobsOK
<1>12. RelaysOK'
  <2> SUFFICES ASSUME NEW j \in Instance
               PROVE  /\ relay'[j].rows \subseteq Unrelayed'
                      /\ relay'[j].handled \subseteq relay'[j].rows
                      /\ \A s \in relay'[j].todo : IsRelayed(s)' /\ s.version \in relay'[j].handled
                      /\ \A u \in Instance \ {j} : relay'[j].rows \cap relay'[u].rows = {}
    BY DEF RelaysOK
  <2>1. CASE j = i
    BY <1>3, <1>4, <2>1
  <2>2. CASE j # i
    <3>1. relay'[j] = relay[j] /\ relay[j].rows \cap relay[i].rows = {}
      BY <1>4, <2>2, RelayTypes
    <3>2. relay'[j].rows \subseteq Unrelayed'
      BY <1>6, <3>1, RelayTypes
    <3>3. \A u \in Instance \ {j} : relay'[j].rows \cap relay'[u].rows = {}
      BY <1>3, <1>4, <3>1, RelayTypes
    <3>4. \A s \in relay'[j].todo : IsRelayed(s)' /\ s.version \in relay'[j].handled
      BY <1>9, <3>1, RelayTypes
    <3> QED
      BY <3>1, <3>2, <3>3, <3>4, RelayTypes
  <2> QED
    BY <2>1, <2>2
<1>13. HandledAreCovered'
  <2> SUFFICES ASSUME NEW j \in Instance, NEW n \in relay'[j].handled \ relay'[j].failed,
                      NEW t \in Target
               PROVE  \/ IsCovered(outbox[n].entity, t)'
                      \/ \E s \in relay'[j].todo : s.version = n /\ s.key.target = t
    BY DEF HandledAreCovered
  <2>1. j # i
    BY <1>3, <1>4
  <2>2. relay'[j] = relay[j] /\ n \in DOMAIN outbox
    BY <1>4, <2>1, RelayTypes DEF Unrelayed
  <2>3. \/ IsCovered(outbox[n].entity, t)
        \/ \E s \in relay[j].todo : s.version = n /\ s.key.target = t
    BY <2>2 DEF EInv, HandledAreCovered
  <2>4. outbox'[n].entity = outbox[n].entity
    BY <1>5, <2>2
  <2> QED
    BY <1>7, <2>2, <2>3, <2>4
<1>14. RestIsCovered'
  <2> SUFFICES ASSUME NEW e \in Entity, UnrelayedOf(e)' = {}, NEW t \in Target
               PROVE  IsCovered(e, t)
    BY <1>7 DEF RestIsCovered
  <2>1. CASE UnrelayedOf(e) = {}
    BY <2>1 DEF EInv, RestIsCovered
  <2>2. CASE UnrelayedOf(e) # {}
    <3>1. PICK n \in Unrelayed : outbox[n].entity = e
      BY <2>2 DEF UnrelayedOf
    <3>2. n \in DOMAIN outbox /\ outbox'[n].entity = e
      BY <1>5, <3>1 DEF Unrelayed
    <3>3. n \in D
      BY <1>6, <3>1, <3>2 DEF UnrelayedOf
    <3> QED
      BY <1>1, <3>1, <3>3, RelayTypes
  <2> QED
    BY <2>1, <2>2
<1> QED
  BY <1>7, <1>8, <1>10, <1>11, <1>12, <1>13, <1>14 DEF EInv

(* An enqueue leaves the jobs there are where they are; any other is new.  *)
LEMMA EnqueueKeepsJobs ==
  ASSUME EInv, NEW s \in Submission, Enqueue(s)
  PROVE  /\ JInv' /\ runs' = runs
         /\ DOMAIN jobs \subseteq DOMAIN jobs'
         /\ \A m \in DOMAIN jobs : /\ jobs'[m].what = jobs[m].what
                                   /\ jobs'[m].state = jobs[m].state
                                   /\ jobs'[m].token = jobs[m].token
         /\ \A m \in DOMAIN jobs' \ DOMAIN jobs :
              jobs'[m].what = s /\ jobs'[m].state = "pending"
<1>1. JInv'
  BY NextKept DEF EInv, Next, Automatic
<1>2. CASE /\ jobs' = [n \in DOMAIN jobs |-> jobs'[n]]
           /\ \A n \in DOMAIN jobs : Quiet(jobs[n], jobs'[n])
  BY <1>1, <1>2, EnqueueFacts DEF EInv, Quiet
<1>3. ASSUME NEW n \in JobSeq \ DOMAIN jobs, DOMAIN jobs \cup {n} = 1..n,
             jobs' = [m \in 1..n |-> IF m = n THEN NewJob(s) ELSE jobs[m]]
      PROVE  /\ DOMAIN jobs \subseteq DOMAIN jobs'
             /\ \A m \in DOMAIN jobs : jobs'[m] = jobs[m]
             /\ \A m \in DOMAIN jobs' \ DOMAIN jobs :
                  jobs'[m].what = s /\ jobs'[m].state = "pending"
  <2>1. NewJob(s).what = s /\ NewJob(s).state = "pending"
    BY DEF NewJob
  <2> QED
    BY <1>3, <2>1
<1> QED
  BY <1>1, <1>2, <1>3, EnqueueFacts DEF EInv

(* An unrelayed row's jobs are queued, done to good effect, or enqueued    *)
(* now: the dedupe key does not hide a copy that is not converged.         *)
LEMMA EnqueueCovers ==
  ASSUME EInv, NEW s \in Submission, Enqueue(s), IsRelayed(s), s.version \in Unrelayed
  PROVE  IsCovered(s.key.entity, s.key.target) \/ Insert(s)
<1>1. CASE FoldTargets(s) # {}
  <2>1. PICK n \in FoldTargets(s) : TRUE
    BY <1>1
  <2>2. /\ n \in DOMAIN jobs /\ jobs[n].state \in Waiting
        /\ EntityOf(n) = s.key.entity /\ TargetOf(n) = s.key.target
    BY DEF FoldTargets, Foldable, EntityOf, TargetOf
  <2>3. IsOwed(n)
    BY <2>2 DEF IsOwed, Live, Waiting
  <2> QED
    BY <2>2, <2>3 DEF IsCovered
<1>2. CASE IsDuplicate(s)
  <2>1. PICK m \in DOMAIN jobs :
          jobs[m].state # "purged" /\ DedupeKey(jobs[m].what) = DedupeKey(s)
    BY <1>2 DEF IsDuplicate
  <2>2. jobs[m].what.version = s.version /\ TargetOf(m) = s.key.target
    BY <2>1 DEF DedupeKey, TargetOf
  <2>3. EntityOf(m) = s.key.entity
    BY <2>2 DEF EInv, JobsOK, IsRelayed, EntityOf
  <2>4. IsCurrent(m)
    BY <2>2, <2>3 DEF EInv, OutboxOK, IsCurrent, IsRelayed
  <2>5. jobs[m].state \in JobState /\ (jobs[m].state = "processing" => jobs[m].token \in Token)
    BY Types DEF IsOK, JobOK, Job, JobState
  <2>6. CASE IsOwed(m)
    BY <2>2, <2>3, <2>6 DEF IsCovered
  <2>7. CASE ~IsOwed(m)
    <3>1. jobs[m].state \in Finished \/ \E k \in Token : m \in applied[k]
      BY <2>1, <2>5, <2>7 DEF IsOwed, JobState
    <3>2. IsServed(m)
      BY <2>4, <3>1 DEF EInv, CurrentIsServed
    <3> QED
      BY <2>2, <2>3, <3>2 DEF IsServed, IsCovered
  <2> QED
    BY <2>6, <2>7
<1> QED
  BY <1>1, <1>2 DEF Enqueue, Fold

LEMMA EnqueueKept ==
  ASSUME EInv, NEW i \in Instance, RelayEnqueue(i)
  PROVE  EInv'
<1>1. PICK s \in relay[i].todo :
        Enqueue(s) /\ relay' = [relay EXCEPT ![i].todo = @ \ {s}]
  BY DEF RelayEnqueue
<1>2. UNCHANGED <<outbox, origin, copy, applied>>
  BY DEF RelayEnqueue
<1> DEFINE e == s.key.entity
           t == s.key.target
<1>3. /\ s \in Submission /\ IsRelayed(s) /\ s.version \in Unrelayed
      /\ e = outbox[s.version].entity
  BY RelayTypes DEF IsRelayed
<1>4. /\ JInv' /\ runs' = runs
      /\ DOMAIN jobs \subseteq DOMAIN jobs'
      /\ \A m \in DOMAIN jobs : /\ jobs'[m].what = jobs[m].what
                                /\ jobs'[m].state = jobs[m].state
                                /\ jobs'[m].token = jobs[m].token
      /\ \A m \in DOMAIN jobs' \ DOMAIN jobs : jobs'[m].what = s /\ jobs'[m].state = "pending"
  BY <1>1, <1>3, EnqueueKeepsJobs
<1>5. /\ \A j \in Instance : /\ relay'[j].rows = relay[j].rows
                             /\ relay'[j].handled = relay[j].handled
                             /\ relay'[j].failed = relay[j].failed
                             /\ relay'[j].todo \subseteq relay[j].todo
                             /\ \A u \in relay[j].todo : u = s \/ u \in relay'[j].todo
      /\ relay' \in [Instance -> Relay]
  <2>1. relay \in [Instance -> Relay] /\ relay[i] \in Relay
    BY DEF EInv, ETypeOK
  <2>2. relay' = [relay EXCEPT ![i] = [relay[i] EXCEPT !.todo = relay[i].todo \ {s}]]
    BY <1>1, <2>1
  <2> DEFINE r == [relay[i] EXCEPT !.todo = relay[i].todo \ {s}]
  <2>3. /\ r \in Relay /\ r.rows = relay[i].rows /\ r.handled = relay[i].handled
        /\ r.failed = relay[i].failed /\ r.todo = relay[i].todo \ {s}
    BY <2>1 DEF Relay
  <2> HIDE DEF r
  <2>4. /\ relay'[i] = r /\ \A j \in Instance \ {i} : relay'[j] = relay[j]
        /\ relay' \in [Instance -> Relay]
    BY <2>1, <2>2, <2>3 DEF r
  <2> QED
    BY <2>3, <2>4
<1>6. ASSUME NEW f, NEW u, IsCovered(f, u)
      PROVE  IsCovered(f, u)'
  <2>1. CASE IsConverged(f, u)
    BY <1>2, <2>1 DEF IsCovered, IsConverged, Expected
  <2>2. CASE ~IsConverged(f, u)
    <3>1. PICK m \in DOMAIN jobs : EntityOf(m) = f /\ TargetOf(m) = u /\ IsOwed(m)
      BY <1>6, <2>2 DEF IsCovered
    <3>2. m \in DOMAIN jobs' /\ EntityOf(m)' = f /\ TargetOf(m)' = u /\ IsOwed(m)'
      BY <1>2, <1>4, <3>1 DEF EntityOf, TargetOf, IsOwed
    <3> QED
      BY <3>2 DEF IsCovered
  <2> QED
    BY <2>1, <2>2
<1>7. IsCovered(e, t)'
  <2>1. CASE IsCovered(e, t)
    BY <1>6, <2>1
  <2>2. CASE Insert(s)
    <3>1. PICK m \in DOMAIN jobs' \ DOMAIN jobs : TRUE
      BY <2>2, NextSeq DEF Insert, EInv, JInv
    <3>2. EntityOf(m)' = e /\ TargetOf(m)' = t /\ IsOwed(m)'
      BY <1>4 DEF EntityOf, TargetOf, IsOwed, Live, Waiting
    <3> QED
      BY <3>2 DEF IsCovered
  <2> QED
    BY <1>1, <1>3, <2>1, <2>2, EnqueueCovers
<1>8. Unrelayed' = Unrelayed /\ \A u : IsRelayed(u)' <=> IsRelayed(u)
  BY <1>2 DEF Unrelayed, IsRelayed
<1> HIDE DEF e, t
<1>9. ETypeOK'
  BY <1>2, <1>4, <1>5 DEF EInv, ETypeOK, JInv
<1>10. OutboxOK'
  BY <1>2, <1>8 DEF EInv, OutboxOK
<1>11. RelaysOK'
  BY <1>5, <1>8 DEF EInv, RelaysOK
<1>12. JobsOK'
  <2>1. \A m \in DOMAIN jobs' : IsRelayed(jobs'[m].what)
    BY <1>3, <1>4 DEF EInv, JobsOK
  <2> QED
    BY <1>2, <1>4, <1>8, <2>1 DEF EInv, JobsOK
<1>13. CurrentIsServed'
  <2> SUFFICES ASSUME NEW m \in DOMAIN jobs', IsCurrent(m)',
                      \/ jobs'[m].state \in Finished \cup {"purged"}
                      \/ \E k \in Token : m \in applied[k]
               PROVE  IsServed(m)'
    BY <1>2 DEF CurrentIsServed
  <2>1. m \in DOMAIN jobs
    BY <1>4, Types DEF Finished
  <2>2. IsCurrent(m) /\ (jobs[m].state \in Finished \cup {"purged"} \/ \E k \in Token : m \in applied[k])
    BY <1>2, <1>4, <2>1 DEF IsCurrent, EntityOf
  <2>3. IsServed(m)
    BY <2>1, <2>2 DEF EInv, CurrentIsServed
  <2> QED
    BY <1>2, <1>4, <2>1, <2>3 DEF IsServed, IsConverged, Expected, EntityOf, TargetOf
<1>14. HandledAreCovered'
  <2> SUFFICES ASSUME NEW j \in Instance, NEW n \in relay[j].handled \ relay[j].failed,
                      NEW u \in Target
               PROVE  \/ IsCovered(outbox[n].entity, u)'
                      \/ \E x \in relay'[j].todo : x.version = n /\ x.key.target = u
    BY <1>5 DEF HandledAreCovered
  <2>1. CASE IsCovered(outbox[n].entity, u)
    BY <1>2, <1>6, <2>1
  <2>2. ASSUME NEW x \in relay[j].todo, x.version = n, x.key.target = u
        PROVE  \/ IsCovered(outbox[n].entity, u)'
               \/ \E y \in relay'[j].todo : y.version = n /\ y.key.target = u
    <3>1. CASE x = s
      <4>1. outbox[n].entity = e /\ u = t
        BY <1>3, <2>2, <3>1 DEF t
      <4> QED
        BY <1>2, <1>7, <4>1
    <3>2. CASE x # s
      BY <1>5, <2>2, <3>2
    <3> QED
      BY <3>1, <3>2
  <2> QED
    BY <2>1, <2>2 DEF EInv, HandledAreCovered
<1>15. RestIsCovered'
  <2> SUFFICES ASSUME NEW f \in Entity, UnrelayedOf(f)' = {}, NEW u \in Target
               PROVE  IsCovered(f, u)'
    BY DEF RestIsCovered
  <2>1. UnrelayedOf(f) = {}
    BY <1>2, <1>8 DEF UnrelayedOf
  <2> QED
    BY <1>6, <2>1 DEF EInv, RestIsCovered
<1> QED
  BY <1>4, <1>9, <1>10, <1>11, <1>12, <1>13, <1>14, <1>15 DEF EInv

-----------------------------------------------------------------------------
(* A domain change.  No relay has rows of its entity, and none of the jobs *)
(* is about the new row.                                                   *)

LEMMA EmitKept ==
  ASSUME EInv, NEW e \in Entity, NEW op \in StateOp, NEW scope \in SUBSET Target,
         Emit(e, op, scope)
  PROVE  EInv'
<1> DEFINE n == Cardinality(DOMAIN outbox) + 1
           row == [entity |-> e, op |-> op, status |-> "unrelayed"]
<1>1. /\ n \in Version /\ UnrelayedOf(e) \cap Locked = {}
      /\ outbox' = [m \in DOMAIN outbox \cup {n} |->
                      IF m = n THEN row
                      ELSE IF m \in UnrelayedOf(e) THEN [outbox[m] EXCEPT !.status = "replaced"]
                      ELSE outbox[m]]
      /\ origin' = [origin EXCEPT ![e] = [version |-> n, scope |-> scope]]
      /\ UNCHANGED <<jobs, runs, relay, copy, applied>>
  BY DEF Emit
<1>2. n \notin DOMAIN outbox /\ DOMAIN outbox \cup {n} = 1..n /\ DOMAIN outbox \subseteq Version
  <2>1. PICK k \in 0..MaxVersion : DOMAIN outbox = 1..k
    BY DEF EInv, OutboxOK
  <2>2. k \in Nat /\ Cardinality(1..k) = k
    BY <2>1, EngineConstants, FS_Interval
  <2> QED
    BY <2>1, <2>2 DEF EInv, ETypeOK
<1>3. /\ outbox \in [DOMAIN outbox -> OutboxRow]
      /\ origin \in [Entity -> [version : 0..MaxVersion, scope : SUBSET Target]]
  BY DEF EInv, ETypeOK
<1>4. row \in OutboxRow /\ row.entity = e /\ row.status = "unrelayed"
  BY DEF OutboxRow
<1>5. n \in 0..MaxVersion /\ n \in Int
  BY <1>1, EngineConstants DEF Version
<1> HIDE DEF n, row
<1>6. /\ DOMAIN outbox' = DOMAIN outbox \cup {n} /\ outbox'[n] = row
      /\ \A m \in DOMAIN outbox :
           /\ outbox'[m] \in OutboxRow
           /\ outbox'[m].entity = outbox[m].entity
           /\ m \in UnrelayedOf(e) => outbox'[m].status = "replaced"
           /\ m \notin UnrelayedOf(e) => outbox'[m].status = outbox[m].status
  <2>1. ASSUME NEW m \in DOMAIN outbox
        PROVE  LET r == [outbox[m] EXCEPT !.status = "replaced"]
               IN  r \in OutboxRow /\ r.entity = outbox[m].entity /\ r.status = "replaced"
    BY <1>3 DEF OutboxRow
  <2> QED
    BY <1>1, <1>2, <1>3, <2>1
<1>7. Unrelayed' = (Unrelayed \ UnrelayedOf(e)) \cup {n}
  BY <1>2, <1>4, <1>6 DEF Unrelayed
<1>8. /\ origin' \in [Entity -> [version : 0..MaxVersion, scope : SUBSET Target]]
      /\ origin'[e].version = n
      /\ \A f \in Entity : f # e => origin'[f] = origin[f]
  BY <1>1, <1>3, <1>5
<1>9. \A i \in Instance : \A m \in relay[i].rows :
        /\ m \in DOMAIN outbox /\ m \in Unrelayed'
        /\ outbox[m].entity \in Entity /\ outbox[m].entity # e
  <2> SUFFICES ASSUME NEW i \in Instance, NEW m \in relay[i].rows
               PROVE  /\ m \in DOMAIN outbox /\ m \in Unrelayed'
                      /\ outbox[m].entity \in Entity /\ outbox[m].entity # e
    OBVIOUS
  <2>1. m \in Unrelayed /\ m \in Locked
    BY DEF EInv, RelaysOK, Locked
  <2>2. m \notin UnrelayedOf(e)
    BY <1>1, <2>1
  <2> QED
    BY <1>3, <1>7, <2>1, <2>2 DEF Unrelayed, UnrelayedOf, OutboxRow
<1>10. ASSUME NEW f \in Entity, f # e, NEW u, IsCovered(f, u)
       PROVE  IsCovered(f, u)'
  <2>1. IsConverged(f, u)' <=> IsConverged(f, u)
    BY <1>1, <1>8, <1>10 DEF IsConverged, Expected
  <2>2. \A m \in DOMAIN jobs : /\ EntityOf(m)' = EntityOf(m) /\ TargetOf(m)' = TargetOf(m)
                              /\ IsOwed(m)' = IsOwed(m)
    BY <1>1 DEF EntityOf, TargetOf, IsOwed
  <2> QED
    BY <1>1, <1>10, <2>1, <2>2 DEF IsCovered
<1>11. JInv'
  BY <1>1 DEF EInv, JInv, TypeOK, SeqsAreDense, JobOK
<1>12. ETypeOK'
  <2>1. /\ DOMAIN outbox' \subseteq Version
        /\ outbox' \in [DOMAIN outbox' -> OutboxRow]
    BY <1>1, <1>2, <1>4, <1>6
  <2> QED
    BY <1>1, <1>8, <1>11, <2>1 DEF EInv, ETypeOK, JInv
<1>13. OutboxOK'
  <2>1. DOMAIN outbox' = 1..n
    BY <1>2, <1>6
  <2>2. ASSUME NEW m \in Unrelayed' PROVE m = origin'[outbox'[m].entity].version
    <3>1. CASE m = n
      BY <1>4, <1>6, <1>8, <3>1
    <3>2. CASE m # n
      <4>1. m \in Unrelayed /\ m \in DOMAIN outbox /\ outbox[m].entity # e
        BY <1>7, <3>2 DEF Unrelayed, UnrelayedOf
      <4>2. outbox[m].entity \in Entity
        BY <1>3, <4>1 DEF OutboxRow
      <4> QED
        BY <1>6, <1>8, <4>1, <4>2 DEF EInv, OutboxOK
    <3> QED
      BY <3>1, <3>2
  <2> QED
    BY <1>5, <2>1, <2>2 DEF OutboxOK
<1>14. \A s : IsRelayed(s) => IsRelayed(s)'
  BY <1>6 DEF IsRelayed
<1>15. RelaysOK'
  BY <1>1, <1>9, <1>14 DEF EInv, RelaysOK
<1>16. JobsOK'
  BY <1>1, <1>14 DEF EInv, JobsOK
<1>17. CurrentIsServed'
  <2> SUFFICES ASSUME NEW m \in DOMAIN jobs, IsCurrent(m)',
                      \/ jobs[m].state \in Finished \cup {"purged"}
                      \/ \E k \in Token : m \in applied[k]
               PROVE  IsServed(m)'
    BY <1>1 DEF CurrentIsServed
  <2>1. jobs[m].what.version \in DOMAIN outbox /\ EntityOf(m) \in Entity
    BY Types DEF EInv, JobsOK, IsRelayed
  <2>2. EntityOf(m) # e
    BY <1>1, <1>2, <1>8, <2>1 DEF IsCurrent, EntityOf
  <2>3. IsCurrent(m)
    BY <1>1, <1>8, <2>1, <2>2 DEF IsCurrent, EntityOf
  <2>4. IsServed(m)
    BY <2>3 DEF EInv, CurrentIsServed
  <2> QED
    BY <1>1, <1>8, <2>1, <2>2, <2>4 DEF IsServed, IsConverged, Expected, EntityOf, TargetOf
<1>18. HandledAreCovered'
  <2> SUFFICES ASSUME NEW i \in Instance, NEW m \in relay'[i].handled \ relay'[i].failed,
                      NEW t \in Target
               PROVE  \/ IsCovered(outbox[m].entity, t)'
                      \/ \E s \in relay'[i].todo : s.version = m /\ s.key.target = t
    BY DEF HandledAreCovered
  <2> relay' = relay
    BY <1>1
  <2>1. /\ outbox[m].entity \in Entity /\ outbox[m].entity # e
        /\ outbox'[m].entity = outbox[m].entity
    <3>1. m \in relay[i].rows
      BY RelayTypes
    <3> QED
      BY <1>6, <1>9, <3>1
  <2>2. \/ IsCovered(outbox[m].entity, t)
        \/ \E s \in relay[i].todo : s.version = m /\ s.key.target = t
    BY DEF EInv, HandledAreCovered
  <2> QED
    BY <1>10, <2>1, <2>2
<1>19. RestIsCovered'
  <2> SUFFICES ASSUME NEW f \in Entity, UnrelayedOf(f)' = {}, NEW t \in Target
               PROVE  IsCovered(f, t)'
    BY DEF RestIsCovered
  <2>1. f # e
    BY <1>4, <1>6, <1>7 DEF UnrelayedOf
  <2>2. ASSUME NEW m \in UnrelayedOf(f) PROVE FALSE
    <3>1. m \in Unrelayed /\ m \in DOMAIN outbox /\ outbox[m].entity = f
      BY DEF UnrelayedOf, Unrelayed
    <3>2. m \in Unrelayed' /\ outbox'[m].entity = f
      BY <1>6, <1>7, <2>1, <3>1 DEF UnrelayedOf
    <3> QED
      BY <3>2 DEF UnrelayedOf
  <2> QED
    BY <1>10, <2>1, <2>2 DEF EInv, RestIsCovered
<1> QED
  BY <1>11, <1>12, <1>13, <1>15, <1>16, <1>17, <1>18, <1>19 DEF EInv

-----------------------------------------------------------------------------
(* All steps.                                                              *)

LEMMA MaintainKept ==
  ASSUME EInv, JInv', Maintain PROVE EInv'
<1>1. UNCHANGED Unobserved
  BY DEF Maintain
<1>2. CASE Operated
  <2>1. \A m \in DOMAIN jobs : Quiet(jobs[m], jobs'[m]) \/ Revived(jobs[m], jobs'[m])
    BY <1>2, OperatedFacts, JInvJobs DEF EInv, Quiet
  <2> QED
    BY <1>1, <1>2, <2>1, OperatedFacts, QuietKept DEF EInv, Unobserved
<1>3. ASSUME NEW n \in DOMAIN jobs, Purge(n) PROVE EInv'
  <2>1. /\ runs' = runs /\ jobs[n].state \in Finished
        /\ jobs' = [m \in DOMAIN jobs |-> jobs'[m]]
        /\ jobs'[n].state = "purged" /\ jobs'[n].what = jobs[n].what
        /\ \A m \in DOMAIN jobs \ {n} : jobs'[m] = jobs[m]
    BY <1>3, PurgeFacts DEF EInv
  <2>2. ASSUME NEW m \in DOMAIN jobs
        PROVE  /\ jobs'[m].what = jobs[m].what
               /\ IsOwed(m) => IsOwed(m)'
               /\ jobs'[m].state \in Finished \cup {"purged"} /\ IsCurrent(m) => IsServed(m)
    <3>1. CASE m = n
      BY <2>1, <3>1 DEF IsOwed, Live, Waiting, Parked, Finished, EInv, CurrentIsServed
    <3>2. CASE m # n
      BY <1>1, <2>1, <3>2 DEF IsOwed, EInv, CurrentIsServed, Unobserved
    <3> QED
      BY <3>1, <3>2
  <2> QED
    BY <1>1, <2>1, <2>2, Types, QueueKept DEF Unobserved
<1> QED
  BY <1>2, <1>3 DEF Maintain

LEMMA ExecuteKept ==
  ASSUME EInv, JInv', NEW k \in Token, Execute(k) PROVE EInv'
<1>1. CASE OnQueue(k, ClaimDue(k))
  BY <1>1, ClaimKept
<1>2. CASE OnQueue(k, Crash(k))
  BY <1>2, ForgetKept DEF OnQueue, Crash
<1>3. CASE OnQueue(k, LeaseRunsOut(k))
  <2>1. /\ runs' = runs /\ UNCHANGED <<outbox, relay, origin, copy>>
        /\ jobs' = [n \in DOMAIN jobs |-> jobs'[n]]
        /\ \A n \in DOMAIN jobs : Quiet(jobs[n], jobs'[n])
    BY <1>3, ClockFacts DEF OnQueue, EInv
  <2>2. applied' = applied
    BY <1>3, <2>1, Types DEF OnQueue
  <2> QED
    BY <2>1, <2>2, QuietKept
<1>4. ASSUME NEW n \in runs[k], Apply(k, n) PROVE EInv'
  BY <1>4, ApplyKept
<1>5. ASSUME NEW n \in runs[k], OnQueue(k, Discard(k, n)) PROVE EInv'
  BY <1>5, ForgetKept DEF OnQueue, Discard
<1>6. ASSUME NEW n \in runs[k], OnQueue(k, Reports(k, n)) PROVE EInv'
  <2>1. PICK outcome \in Outcomes :
          Answers(k, n, outcome) /\ (Finish(k, n, outcome) \/ FinishRefused(k, n, outcome))
    BY <1>6 DEF OnQueue, Reports
  <2>2. /\ applied' = [applied EXCEPT ![k] = @ \cap runs'[k]]
        /\ UNCHANGED <<outbox, relay, origin, copy>>
    BY <1>6 DEF OnQueue
  <2>3. CASE Finish(k, n, outcome)
    BY <2>1, <2>2, <2>3, FinishKept
  <2>4. CASE FinishRefused(k, n, outcome)
    BY <2>2, <2>4, ForgetKept DEF FinishRefused
  <2> QED
    BY <2>1, <2>3, <2>4
<1> QED
  BY <1>1, <1>2, <1>3, <1>4, <1>5, <1>6 DEF Execute, OnQueue

-----------------------------------------------------------------------------
(* What the engine does to the queue is a step of the queue, or nothing.   *)

LEMMA ExecuteMoves ==
  ASSUME EInv, NEW k \in Token, Execute(k) PROVE [Automatic]_vars
<1>1. ASSUME NEW n \in runs[k], Apply(k, n) PROVE UNCHANGED vars
  BY <1>1 DEF Apply, vars
<1>2. ASSUME OnQueue(k, ClaimDue(k) \/ Crash(k) \/ LeaseRunsOut(k)) PROVE Work(k)
  BY <1>2 DEF OnQueue, Work
<1>3. ASSUME NEW n \in runs[k], OnQueue(k, Discard(k, n) \/ Reports(k, n)) PROVE Work(k)
  <2>1. n \in JobSeq
    BY Types
  <2> QED
    BY <1>3, <2>1 DEF OnQueue, Reports, Report, Work
<1> QED
  BY <1>1, <1>2, <1>3 DEF Execute, Automatic

LEMMA RelayMoves ==
  ASSUME EInv, NEW i \in Instance, \/ RelayBegin(i) \/ RelayPlan(i) \/ RelaySkip(i)
                                   \/ RelayEnqueue(i) \/ RelayCommit(i) \/ RelayFail(i)
  PROVE  [Automatic]_vars
<1>1. CASE RelayEnqueue(i)
  <2>1. PICK s \in relay[i].todo : Enqueue(s)
    BY <1>1 DEF RelayEnqueue
  <2>2. s \in Submission
    BY DEF EInv, ETypeOK, Relay
  <2> QED
    BY <2>1, <2>2 DEF Automatic
<1>2. CASE ~RelayEnqueue(i)
  BY <1>2 DEF RelayBegin, RelayPlan, RelaySkip, RelayCommit, RelayFail, vars
<1> QED
  BY <1>1, <1>2

LEMMA EAutomaticMoves == EInv /\ [EAutomatic]_evars => [Automatic]_vars
<1> SUFFICES ASSUME EInv, [EAutomatic]_evars PROVE [Automatic]_vars
  OBVIOUS
<1>1. ASSUME NEW e \in Entity, Change(e) PROVE UNCHANGED vars
  BY <1>1 DEF Change, Emit, vars
<1>2. CASE TimePasses
  BY <1>2 DEF TimePasses, Automatic
<1>3. CASE UNCHANGED evars
  BY <1>3 DEF evars, vars
<1> QED
  BY <1>1, <1>2, <1>3, RelayMoves, ExecuteMoves DEF EAutomatic

LEMMA ENextMoves == EInv /\ [ENext]_evars => [Next]_vars
<1> SUFFICES ASSUME EInv, [ENext]_evars PROVE [Next]_vars
  OBVIOUS
<1>1. CASE Maintain
  BY <1>1 DEF Maintain, Next, Automatic
<1> QED
  BY <1>1, EAutomaticMoves DEF ENext, Next

LEMMA ENextKept == EInv /\ [ENext]_evars => EInv'
<1> SUFFICES ASSUME EInv, [ENext]_evars PROVE EInv'
  OBVIOUS
<1>inv. JInv'
  BY ENextMoves, NextKept DEF EInv
<1>1. ASSUME NEW e \in Entity, Change(e) PROVE EInv'
  BY <1>1, EmitKept DEF Change, StateOp
<1>2. ASSUME NEW i \in Instance, \/ RelayBegin(i) \/ RelayPlan(i) \/ RelaySkip(i)
                                 \/ RelayEnqueue(i) \/ RelayCommit(i) \/ RelayFail(i)
      PROVE  EInv'
  BY <1>2, BeginKept, PlanKept, SkipKept, EnqueueKept, CommitKept, FailKept
<1>3. ASSUME NEW k \in Token, Execute(k) PROVE EInv'
  BY <1>3, <1>inv, ExecuteKept
<1>4. CASE TimePasses
  <2>1. /\ runs' = runs /\ jobs' = [n \in DOMAIN jobs |-> jobs'[n]]
        /\ \A n \in DOMAIN jobs : Quiet(jobs[n], jobs'[n])
    BY <1>4, ClockFacts DEF TimePasses, EInv
  <2> QED
    BY <1>4, <2>1, <1>inv, QuietKept DEF TimePasses, Unobserved
<1>5. CASE Maintain
  BY <1>5, <1>inv, MaintainKept
<1>6. CASE UNCHANGED evars
  <2>1. \A n \in DOMAIN jobs : Quiet(jobs[n], jobs'[n])
    BY <1>6, Types DEF evars, Quiet
  <2>2. jobs' = [n \in DOMAIN jobs |-> jobs'[n]]
    BY <1>6 DEF evars, EInv, JInv, TypeOK
  <2> QED
    BY <1>6, <1>inv, <2>1, <2>2, QuietKept DEF evars
<1> QED
  BY <1>1, <1>2, <1>3, <1>4, <1>5, <1>6 DEF ENext, EAutomatic

LEMMA EInductive == ESpec => []EInv
  BY EInitOK, ENextKept, PTL DEF ESpec

(* The engine's state keeps its types: no relay locks a row that is not    *)
(* there, no copy gets a version that was never emitted, no executor has   *)
(* applied a job out of thin air.                                          *)
THEOREM EngineTypes == ESpec => []ETypeOK
<1>1. EInv => ETypeOK
  BY DEF EInv
<1> QED
  BY <1>1, EInductive, PTL

(* Whatever relays fail between enqueueing and committing, whatever leases *)
(* are lost, and however often operators re-arm and jobs are purged, a     *)
(* copy that differs from its origin is on an unrelayed row's account, or  *)
(* on a job's that is queued, running or parked.                           *)
THEOREM NoneForgotten == ESpec => []NoCopyIsForgotten
  BY EInvImplies, EInductive, PTL

-----------------------------------------------------------------------------
(* Composition: the engine uses the queue as SyncJobs says a queue is used,*)
(* so what holds of the queue with any submitter and any executor holds of *)
(* the queue inside the engine.                                            *)

(* With relays that enqueue a row's jobs again after a crash, executors    *)
(* that apply before they report and operators, the engine's job table is  *)
(* the job queue of SyncJobs.                                              *)
THEOREM EngineRunsTheQueue == ESpec => Spec
<1>1. EInit => Init
  BY DEF EInit
<1> QED
  BY <1>1, ENextMoves, EInductive, PTL DEF ESpec, Spec

(* The engine's jobs are a leased work queue: what an executor that lost   *)
(* its lease still applies and reports settles no job.                     *)
THEOREM EngineImplementsLeaseQueue == ESpec => IsLeaseQueue
  BY EngineRunsTheQueue, JobsImplement, PTL

(* Left to itself the engine never runs two jobs of one entity for one     *)
(* target at once: JobOf makes the ordering key of the two.                *)
THEOREM EngineOneRunner == EInit /\ [][EAutomatic]_evars => []OneRunnerPerKey
<1>1. [EAutomatic]_evars => [ENext]_evars
  BY DEF ENext
<1>2. EInit /\ [][EAutomatic]_evars => []EInv
  BY <1>1, EInitOK, ENextKept, PTL
<1>3. EInit => Init
  BY DEF EInit
<1>4. EInit /\ [][EAutomatic]_evars => AutomaticSpec
  BY <1>2, <1>3, EAutomaticMoves, PTL DEF AutomaticSpec
<1> QED
  BY <1>4, OneRunner, PTL
=============================================================================
