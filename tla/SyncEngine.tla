----------------------------- MODULE SyncEngine ------------------------------
(***************************************************************************)
(* The synchronisation engine of one origin tenant: domain changes write   *)
(* sync_outbox rows (modules/sync/outbox.rs), relays turn rows into jobs   *)
(* (relay.rs), executors run the jobs of SyncJobs and converge the copies  *)
(* in the target tenants (engine.rs).                                      *)
(*                                                                         *)
(* A relay holds its rows locked in a transaction of the tenant database,  *)
(* while each job it enqueues is committed at once in the control          *)
(* database: a relay that fails in between has enqueued jobs for rows      *)
(* that stay unrelayed, and the next relay enqueues them again.            *)
(*                                                                         *)
(* What a sync kind supplies is external: `targets` names the tenants in   *)
(* the entity's scope and those that must drop their copy, and `apply`     *)
(* re-reads the origin and makes the copy equal to it.                     *)
(***************************************************************************)
EXTENDS SyncJobs

CONSTANTS
  Entity,     \* entities of the origin tenant
  Origin,     \* the origin tenant
  Target,     \* the tenants that may hold copies
  Instance,   \* API instances that run a relay
  MaxVersion  \* bound of the model: outbox ids are 1..MaxVersion

Version == 1..MaxVersion

(* new_job: the job of one row for one target. *)
JobOf(e, t, op, n) ==
  [key |-> [origin |-> Origin, entity |-> e, target |-> t],
   op |-> op, order |-> <<e, t>>, version |-> n]

ASSUME EngineConstants ==
  /\ Origin \in Tenant /\ Target \subseteq Tenant
  /\ MaxVersion \in Nat
  /\ \A e \in Entity, t \in Target, op \in StateOp, n \in Version :
       JobOf(e, t, op, n) \in Submission

VARIABLES
  outbox,   \* sync_outbox: a function from ids to rows
  relay,    \* relay[i]: the transaction of the relay of instance i
  origin,   \* origin[e]: what the entity is now: [version, scope]
  copy,     \* copy[e][t]: the version tenant t holds of e, 0 for none
  applied   \* applied[k]: the jobs of token k whose apply has returned

evars == <<jobs, runs, outbox, relay, origin, copy, applied>>

OutboxRow == [entity : Entity, op : StateOp, status : {"unrelayed", "relayed", "replaced"}]

(* A relay without rows is idle. *)
Relay == [rows : SUBSET Version, handled : SUBSET Version, failed : SUBSET Version,
          todo : SUBSET Submission]

Idle == [rows |-> {}, handled |-> {}, failed |-> {}, todo |-> {}]

ETypeOK ==
  /\ TypeOK
  /\ DOMAIN outbox \subseteq Version
  /\ outbox \in [DOMAIN outbox -> OutboxRow]
  /\ relay \in [Instance -> Relay]
  /\ origin \in [Entity -> [version : 0..MaxVersion, scope : SUBSET Target]]
  /\ copy \in [Entity -> [Target -> 0..MaxVersion]]
  /\ applied \in [Token -> SUBSET JobSeq]

EInit ==
  /\ Init
  /\ outbox = [n \in {} |-> 0]
  /\ relay = [i \in Instance |-> Idle]
  /\ origin = [e \in Entity |-> [version |-> 0, scope |-> {}]]
  /\ copy = [e \in Entity |-> [t \in Target |-> 0]]
  /\ applied = [k \in Token |-> {}]

-----------------------------------------------------------------------------
(* A domain change and its emit, in one transaction.                       *)

Unrelayed == {n \in DOMAIN outbox : outbox[n].status = "unrelayed"}

Locked == UNION {relay[i].rows : i \in Instance}

UnrelayedOf(e) == {n \in Unrelayed : outbox[n].entity = e}

(* A state row replaces the unrelayed state rows of the entity; the DELETE *)
(* waits for a relay that has them locked.                                 *)
Emit(e, op, scope) ==
  LET n == Cardinality(DOMAIN outbox) + 1
  IN  /\ n \in Version
      /\ UnrelayedOf(e) \cap Locked = {}
      /\ outbox' = [m \in DOMAIN outbox \cup {n} |->
                      IF m = n THEN [entity |-> e, op |-> op, status |-> "unrelayed"]
                      ELSE IF m \in UnrelayedOf(e) THEN [outbox[m] EXCEPT !.status = "replaced"]
                      ELSE outbox[m]]
      /\ origin' = [origin EXCEPT ![e] = [version |-> n, scope |-> scope]]
      /\ UNCHANGED <<jobs, runs, relay, copy, applied>>

(* The change publishes the entity to a scope, or deletes it. *)
Change(e) ==
  \/ \E scope \in (SUBSET Target) \ {{}} : Emit(e, "upsert", scope)
  \/ Emit(e, "delete", {})

-----------------------------------------------------------------------------
(* relay_tenant                                                            *)

(* Which unrelayed rows are due depends on not_before and on the active    *)
(* kinds: any of those no other relay has locked.                          *)
RelayBegin(i) ==
  /\ relay[i] = Idle
  /\ \E S \in SUBSET (Unrelayed \ Locked) :
       S # {} /\ relay' = [relay EXCEPT ![i].rows = S]
  /\ UNCHANGED <<jobs, runs, outbox, origin, copy, applied>>

Unhandled(i) == relay[i].rows \ relay[i].handled

(* The row the relay turns to when the jobs of the last one are enqueued. *)
IsNextRow(i, n) ==
  /\ relay[i].todo = {}
  /\ n \in Unhandled(i)
  /\ \A m \in Unhandled(i) : n <= m

CopyHolders(e) == {t \in Target : copy[e][t] # 0}

(* The jobs of one row: one per desired target, a delete per target to     *)
(* retire.                                                                 *)
NewJobs(n) ==
  LET e == outbox[n].entity
  IN  {JobOf(e, t, outbox[n].op, n) : t \in origin[e].scope}
        \cup {JobOf(e, t, "delete", n) : t \in CopyHolders(e) \ origin[e].scope}

RelayPlan(i) ==
  /\ \E n \in Version :
       /\ IsNextRow(i, n)
       /\ relay' = [relay EXCEPT ![i].handled = @ \cup {n}, ![i].todo = NewJobs(n)]
  /\ UNCHANGED <<jobs, runs, outbox, origin, copy, applied>>

(* handler.targets failed: the row stays unrelayed. *)
RelaySkip(i) ==
  /\ \E n \in Version :
       /\ IsNextRow(i, n)
       /\ relay' = [relay EXCEPT ![i].handled = @ \cup {n}, ![i].failed = @ \cup {n}]
  /\ UNCHANGED <<jobs, runs, outbox, origin, copy, applied>>

RelayEnqueue(i) ==
  /\ \E s \in relay[i].todo :
       /\ Enqueue(s)
       /\ relay' = [relay EXCEPT ![i].todo = @ \ {s}]
  /\ UNCHANGED <<outbox, origin, copy, applied>>

RelayCommit(i) ==
  /\ relay[i] # Idle /\ relay[i].todo = {} /\ Unhandled(i) = {}
  /\ outbox' = [n \in DOMAIN outbox |->
                  IF n \in relay[i].rows \ relay[i].failed
                  THEN [outbox[n] EXCEPT !.status = "relayed"] ELSE outbox[n]]
  /\ relay' = [relay EXCEPT ![i] = Idle]
  /\ UNCHANGED <<jobs, runs, origin, copy, applied>>

(* An error, or a crash: the transaction is rolled back, the jobs stay. *)
RelayFail(i) ==
  /\ relay[i] # Idle
  /\ relay' = [relay EXCEPT ![i] = Idle]
  /\ UNCHANGED <<jobs, runs, outbox, origin, copy, applied>>

-----------------------------------------------------------------------------
(* execute_round over the jobs                                             *)

Expected(e, t) == IF t \in origin[e].scope THEN origin[e].version ELSE 0

IsConverged(e, t) == copy[e][t] = Expected(e, t)

(* apply does not ask whether the lease still holds. *)
Apply(k, n) ==
  /\ n \in runs[k] \ applied[k]
  /\ LET key == jobs[n].what.key
     IN  copy' = [copy EXCEPT ![key.entity][key.target] = Expected(key.entity, key.target)]
  /\ applied' = [applied EXCEPT ![k] = @ \cup {n}]
  /\ UNCHANGED <<jobs, runs, outbox, relay, origin>>

(* A handler answers Done after it applied, Inactive and Superseded when   *)
(* there is nothing to do, and the failures at any time.                   *)
Answers(k, n, outcome) ==
  /\ n \in runs[k]
  /\ outcome = "Done" => n \in applied[k]
  /\ outcome \in {"Inactive", "Superseded"} =>
       IsConverged(jobs[n].what.key.entity, jobs[n].what.key.target)

Reports(k, n) ==
  \E outcome \in Outcomes :
    Answers(k, n, outcome) /\ (Finish(k, n, outcome) \/ FinishRefused(k, n, outcome))

(* A step of the executor with token k on the queue. *)
OnQueue(k, Step) ==
  /\ Step
  /\ applied' = [applied EXCEPT ![k] = @ \cap runs'[k]]
  /\ UNCHANGED <<outbox, relay, origin, copy>>

Execute(k) ==
  \/ OnQueue(k, ClaimDue(k) \/ Crash(k) \/ LeaseRunsOut(k))
  \/ \E n \in runs[k] : Apply(k, n) \/ OnQueue(k, Discard(k, n) \/ Reports(k, n))

Unobserved == <<outbox, relay, origin, copy, applied>>

TimePasses ==
  (\E n \in DOMAIN jobs : BecomesDue(n)) /\ UNCHANGED Unobserved

Maintain ==
  /\ Operated \/ \E n \in DOMAIN jobs : Purge(n)
  /\ UNCHANGED Unobserved

EAutomatic ==
  \/ \E e \in Entity : Change(e)
  \/ \E i \in Instance : \/ RelayBegin(i) \/ RelayPlan(i) \/ RelaySkip(i)
                         \/ RelayEnqueue(i) \/ RelayCommit(i) \/ RelayFail(i)
  \/ \E k \in Token : Execute(k)
  \/ TimePasses

ENext == EAutomatic \/ Maintain

ESpec == EInit /\ [][ENext]_evars

-----------------------------------------------------------------------------
(* Fairness.  The relay loop ticks every 5 s and takes the oldest rows of  *)
(* a tenant first; a failing tenant database or handler works again some   *)
(* day; the executor is as fair as in SyncJobs.                            *)

EFairness ==
  /\ \A i \in Instance :
       /\ WF_evars(RelayBegin(i))
       /\ WF_evars(RelayCommit(i))
       /\ SF_evars(RelayPlan(i))
       /\ SF_evars(RelayEnqueue(i))
       /\ SF_evars(relay[i].failed = {} /\ RelayCommit(i))
  /\ SF_evars(\E k \in Token : OnQueue(k, ClaimDue(k)))
  /\ SF_evars(\E k \in Token : \E n \in runs[k] : OnQueue(k, Reports(k, n)))
  /\ WF_evars(TimePasses)
  /\ \A k \in Token : WF_evars(OnQueue(k, LeaseRunsOut(k) \/ \E n \in runs[k] : Discard(k, n)))

(* The engine left to itself, in the 30 days before the purge. *)
EFairSpec == EInit /\ [][EAutomatic]_evars /\ EFairness

-----------------------------------------------------------------------------
(* Properties.                                                             *)

JobsFor(e, t) ==
  {n \in DOMAIN jobs : jobs[n].what.key.entity = e /\ jobs[n].what.key.target = t}

(* A copy that differs from its origin is always on somebody's list: an    *)
(* unrelayed row, or a job that is queued, running or waiting for a human. *)
(* Neither a relay that fails between enqueueing and committing, a change  *)
(* during a run, a lost lease nor a change of scope makes the engine       *)
(* forget a copy.                                                          *)
NoCopyIsForgotten ==
  \A e \in Entity, t \in Target :
    \/ IsConverged(e, t)
    \/ UnrelayedOf(e) # {}
    \/ \E n \in JobsFor(e, t) : jobs[n].state \in Live \cup Parked

(* Once the changes stop, every copy ends up equal to its origin or its    *)
(* difference is parked for a human, whatever relays failed and whatever   *)
(* leases were lost on the way.                                            *)
CopiesConverge ==
  \A e \in Entity, t \in Target :
    <>[](\/ IsConverged(e, t)
         \/ \E n \in JobsFor(e, t) : jobs[n].state \in Parked)
=============================================================================
