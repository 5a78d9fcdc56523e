------------------------------ MODULE SyncJobs -------------------------------
(***************************************************************************)
(* The control-plane queue of synchronisation jobs and its executor        *)
(* (apps/backend/src/modules/sync/{jobs,engine}.rs, runtime/state.rs).     *)
(*                                                                         *)
(* Relays enqueue jobs, possibly the same one again after a crash; an      *)
(* executor claims a batch of due jobs under one token and one lease, runs *)
(* them one by one and finishes each with a fenced update; operators       *)
(* re-arm jobs and resume tenants.  A job whose lease is over is claimed   *)
(* again directly: nothing returns it to the queue first.                  *)
(*                                                                         *)
(* `due` is next_attempt_at <= now and `live` is lease_until > now; both   *)
(* flip in actions of their own.  Every other action is one SQL statement. *)
(* A statement that would break the unique index sync_jobs_coalesce_uq     *)
(* (one waiting state job per key) fails and changes nothing.              *)
(***************************************************************************)
EXTENDS Integers, FiniteSets

CONSTANTS
  Submission,   \* the jobs relays enqueue: [key, op, order, version], where
                \*   key is [origin, entity, target] (entity: kind, id and
                \*   subject) and order stands for the ordering key
  Token,        \* lease tokens; one that nobody holds any more counts as fresh
  Tenant,
  ClaimLimit,   \* 16 in the source
  MaxAttempts,  \* per-kind cap, 12 by default
  MaxSeq        \* bound of the model: jobs are 1..MaxSeq

StateOp == {"upsert", "delete", "archive"}

ASSUME SyncConstants ==
  /\ \A s \in Submission : /\ s.op \in StateOp \cup {"command"}
                           /\ s.version \in Nat
                           /\ {s.key.origin, s.key.target} \subseteq Tenant
  /\ ClaimLimit \in Nat \ {0}
  /\ MaxAttempts \in Nat \ {0}
  /\ MaxSeq \in Nat

NoToken == "no token"

ASSUME NoTokenIsNoToken == NoToken \notin Token

VARIABLES
  jobs,   \* the table sync_jobs: a function from sequence numbers to jobs
  runs    \* runs[t]: the jobs the executor holding token t has still to finish

vars == <<jobs, runs>>

JobSeq == 1..MaxSeq

Waiting  == {"pending", "retry"}
Live     == Waiting \cup {"processing"}              \* blocks_ordering
Parked   == {"exhausted", "blocked", "paused"}
Finished == {"done", "inactive", "superseded"}

(* A purged row stays in the model, to keep sequence numbers unique. *)
Job == [what : Submission,
        op : StateOp \cup {"command"},
        version : Nat,
        state : Live \cup Parked \cup Finished \cup {"purged"},
        attempts : 0..MaxAttempts + 1,  \* saturates: only compared with the cap
        due : BOOLEAN,
        token : Token \cup {NoToken},
        live : BOOLEAN]

TypeOK ==
  /\ DOMAIN jobs \subseteq JobSeq
  /\ jobs \in [DOMAIN jobs -> Job]
  /\ runs \in [Token -> SUBSET DOMAIN jobs]

Init ==
  /\ jobs = [n \in {} |-> 0]
  /\ runs = [t \in Token |-> {}]

-----------------------------------------------------------------------------
(* The table.                                                              *)

IsState(op) == op \in StateOp

(* Mutant of Foldable: a running job takes in further changes. *)
FoldableWhileRunning(j, key) ==
  IsState(j.op) /\ j.state \in Live /\ j.what.key = key

(* The waiting state job of a key: what an enqueue folds into, and what    *)
(* sync_jobs_coalesce_uq keeps unique.                                     *)
Foldable(j, key) ==
  IsState(j.op) /\ j.state \in Waiting /\ j.what.key = key

Clash(table) ==
  \E m, n \in DOMAIN table : /\ m # n
                             /\ Foldable(table[m], table[m].what.key)
                             /\ Foldable(table[n], table[m].what.key)

Write(table) == ~Clash(table) /\ jobs' = table

SetJob(n, j) == jobs' = [jobs EXCEPT ![n] = j]

UpdateAll(S, New(_)) ==
  [n \in DOMAIN jobs |-> IF n \in S THEN New(jobs[n]) ELSE jobs[n]]

DedupeKey(s) == <<s.key.origin, s.version, s.key.target>>

-----------------------------------------------------------------------------
(* enqueue                                                                 *)

NewJob(s) ==
  [what |-> s, op |-> s.op, version |-> s.version, state |-> "pending",
   attempts |-> 0, due |-> TRUE, token |-> NoToken, live |-> FALSE]

(* A pending job moves up; a retry job only when it has been quiet for     *)
(* 30 s, which `quiet` says.                                               *)
Folded(j, s, quiet) ==
  [j EXCEPT !.op = s.op,
            !.version = IF @ < s.version THEN s.version ELSE @,
            !.due = @ \/ j.state = "pending" \/ quiet]

FoldTargets(s) ==
  {n \in DOMAIN jobs : IsState(s.op) /\ Foldable(jobs[n], s.key)}

IsDuplicate(s) ==
  \E n \in DOMAIN jobs :
    jobs[n].state # "purged" /\ DedupeKey(jobs[n].what) = DedupeKey(s)

Fold(s) ==
  \E n \in FoldTargets(s), quiet \in BOOLEAN : SetJob(n, Folded(jobs[n], s, quiet))

Insert(s) ==
  LET n == Cardinality(DOMAIN jobs) + 1
  IN  /\ n \in JobSeq
      /\ jobs' = [m \in DOMAIN jobs \cup {n} |-> IF m = n THEN NewJob(s) ELSE jobs[m]]

Enqueue(s) ==
  /\ \/ Fold(s)
     \/ FoldTargets(s) = {} /\ ~IsDuplicate(s) /\ Insert(s)
     \/ FoldTargets(s) = {} /\ IsDuplicate(s) /\ UNCHANGED jobs
  /\ UNCHANGED runs

-----------------------------------------------------------------------------
(* claim_due: a batch under one token.                                     *)

(* Mutants of IsDue: a job whose lease is over is not taken up again; only *)
(* a waiting job holds back the later ones of its key.                     *)
IsDueWhileWaiting(n) ==
  /\ jobs[n].state \in Waiting
  /\ jobs[n].due
  /\ \A m \in DOMAIN jobs :
       m < n /\ jobs[m].what.order = jobs[n].what.order => jobs[m].state \notin Live

IsDueBehindRunning(n) ==
  /\ jobs[n].state \in Live
  /\ jobs[n].due
  /\ ~jobs[n].live
  /\ \A m \in DOMAIN jobs :
       m < n /\ jobs[m].what.order = jobs[n].what.order => jobs[m].state \notin Waiting

IsDue(n) ==
  /\ jobs[n].state \in Live
  /\ jobs[n].due
  /\ ~jobs[n].live
  /\ \A m \in DOMAIN jobs :
       m < n /\ jobs[m].what.order = jobs[n].what.order => jobs[m].state \notin Live

IsFresh(t) == runs[t] = {} /\ \A n \in DOMAIN jobs : jobs[n].token # t

Saturated(a) == IF a > MaxAttempts THEN MaxAttempts + 1 ELSE a

Claimed(j, t) ==
  [j EXCEPT !.state = "processing", !.attempts = Saturated(@ + 1),
            !.token = t, !.live = TRUE]

(* Which due jobs are picked depends on priorities, dates, rows locked by  *)
(* others and open circuit breakers: any batch within the limit.           *)
ClaimDue(t) ==
  /\ IsFresh(t)
  /\ \E S \in SUBSET {n \in DOMAIN jobs : IsDue(n)} :
       /\ Cardinality(S) \in 1..ClaimLimit
       /\ jobs' = UpdateAll(S, LAMBDA j : Claimed(j, t))
       /\ runs' = [runs EXCEPT ![t] = S]

-----------------------------------------------------------------------------
(* finish and next_state                                                   *)

(* Mutant of Holds: the fence forgets the token. *)
HoldsAnyToken(t, n) ==
  /\ n \in DOMAIN jobs
  /\ jobs[n].state = "processing"

Holds(t, n) ==
  /\ n \in DOMAIN jobs
  /\ jobs[n].state = "processing"
  /\ jobs[n].token = t

Outcomes ==
  {"Done", "Inactive", "Superseded", "Permanent", "Blocked", "Paused", "Retryable"}

(* Mutants of NextState: a retryable failure is always retried; a paused   *)
(* job is written with the state name of the outbox.                       *)
NextStateUncapped(j, outcome) ==
  CASE outcome = "Done"       -> "done"
    [] outcome = "Inactive"   -> "inactive"
    [] outcome = "Superseded" -> "superseded"
    [] outcome = "Permanent"  -> "exhausted"
    [] outcome = "Blocked"    -> "blocked"
    [] outcome = "Paused"     -> "paused"
    [] outcome = "Retryable"  -> "retry"

NextStateSkipped(j, outcome) ==
  CASE outcome = "Done"       -> "done"
    [] outcome = "Paused"     -> "skipped"
    [] outcome = "Retryable"  -> IF j.attempts >= MaxAttempts THEN "exhausted" ELSE "retry"
    [] OTHER                  -> "exhausted"

NextState(j, outcome) ==
  CASE outcome = "Done"       -> "done"
    [] outcome = "Inactive"   -> "inactive"
    [] outcome = "Superseded" -> "superseded"
    [] outcome = "Permanent"  -> "exhausted"
    [] outcome = "Blocked"    -> "blocked"
    [] outcome = "Paused"     -> "paused"
    [] outcome = "Retryable"  -> IF j.attempts >= MaxAttempts THEN "exhausted" ELSE "retry"

(* A paused job gets its attempt back. *)
Settled(j, state) ==
  [j EXCEPT !.state = state, !.token = NoToken, !.live = FALSE,
            !.attempts = IF state = "paused" THEN @ - 1 ELSE @,
            !.due = (state # "retry")]

FinishedTable(n, outcome) ==
  [jobs EXCEPT ![n] = Settled(@, NextState(@, outcome))]

Finish(t, n, outcome) ==
  /\ n \in runs[t] /\ Holds(t, n)
  /\ Write(FinishedTable(n, outcome))
  /\ runs' = [runs EXCEPT ![t] = @ \ {n}]

(* The unique index refuses the update: execute_round returns the error    *)
(* and the rest of the batch stays claimed until the lease runs out.       *)
FinishRefused(t, n, outcome) ==
  /\ n \in runs[t] /\ Holds(t, n)
  /\ Clash(FinishedTable(n, outcome))
  /\ runs' = [runs EXCEPT ![t] = {}]
  /\ UNCHANGED jobs

(* Conflict: the lease was taken over, the result is discarded. *)
Discard(t, n) ==
  /\ n \in runs[t] /\ ~Holds(t, n)
  /\ runs' = [runs EXCEPT ![t] = @ \ {n}]
  /\ UNCHANGED jobs

Crash(t) ==
  /\ runs[t] # {}
  /\ runs' = [runs EXCEPT ![t] = {}]
  /\ UNCHANGED jobs

-----------------------------------------------------------------------------
(* Operators and maintenance.                                              *)

Rearmable == {"retry", "exhausted", "blocked"}

Rearmed(j) == [j EXCEPT !.state = "pending", !.attempts = 0, !.due = TRUE]

Rearm(n) ==
  /\ jobs[n].state \in Rearmable
  /\ Write([jobs EXCEPT ![n] = Rearmed(@)])
  /\ UNCHANGED runs

(* rearm_entity, for all targets or for one. *)
ToRearm(origin, entity, targets) ==
  {n \in DOMAIN jobs : /\ jobs[n].what.key.origin = origin
                       /\ jobs[n].what.key.entity = entity
                       /\ jobs[n].what.key.target \in targets
                       /\ jobs[n].state \in Rearmable}

RearmEntity(origin, entity, targets) ==
  /\ ToRearm(origin, entity, targets) # {}
  /\ Write(UpdateAll(ToRearm(origin, entity, targets), Rearmed))
  /\ UNCHANGED runs

ToResume(tenant) ==
  {n \in DOMAIN jobs : /\ jobs[n].state = "paused"
                       /\ tenant \in {jobs[n].what.key.origin, jobs[n].what.key.target}}

Resumed(j) == [j EXCEPT !.state = "pending", !.due = TRUE]

ResumeTenant(tenant) ==
  /\ ToResume(tenant) # {}
  /\ Write(UpdateAll(ToResume(tenant), Resumed))
  /\ UNCHANGED runs

(* 30 days after it finished, a job's row is deleted. *)
Purge(n) ==
  /\ jobs[n].state \in Finished
  /\ SetJob(n, [jobs[n] EXCEPT !.state = "purged"])
  /\ UNCHANGED runs

-----------------------------------------------------------------------------
(* Time passes.                                                            *)

BecomesDue(n) ==
  /\ jobs[n].state = "retry" /\ ~jobs[n].due
  /\ SetJob(n, [jobs[n] EXCEPT !.due = TRUE])
  /\ UNCHANGED runs

(* A batch has one lease. *)
LeaseRunsOut(t) ==
  LET S == {n \in DOMAIN jobs : jobs[n].token = t /\ jobs[n].live}
  IN  /\ S # {}
      /\ jobs' = UpdateAll(S, LAMBDA j : [j EXCEPT !.live = FALSE])
      /\ UNCHANGED runs

-----------------------------------------------------------------------------

Report(t, n) == \E outcome \in Outcomes : Finish(t, n, outcome) \/ FinishRefused(t, n, outcome)

Work(t) ==
  \/ ClaimDue(t) \/ Crash(t) \/ LeaseRunsOut(t)
  \/ \E n \in JobSeq : Report(t, n) \/ Discard(t, n)

Automatic ==
  \/ \E s \in Submission : Enqueue(s)
  \/ \E t \in Token : Work(t)
  \/ \E n \in DOMAIN jobs : BecomesDue(n) \/ Purge(n)

Operated ==
  \/ \E n \in DOMAIN jobs : Rearm(n)
  \/ \E e \in {<<s.key.origin, s.key.entity>> : s \in Submission},
        targets \in {Tenant} \cup {{target} : target \in Tenant} :
       RearmEntity(e[1], e[2], targets)
  \/ \E tenant \in Tenant : ResumeTenant(tenant)

Next == Automatic \/ Operated

Spec == Init /\ [][Next]_vars

(* The queue left to itself: no operator re-arms or resumes anything. *)
AutomaticSpec == Init /\ [][Automatic]_vars
-----------------------------------------------------------------------------
(* Fairness.  The executor loop ticks every 5 s and takes the oldest due   *)
(* job first; dates pass; an executor that has not crashed goes on with    *)
(* its batch.  A job that is run for ever is reported on in the end.       *)

TakesUp(n) == \E t \in Token : ClaimDue(t) /\ n \in runs'[t]

Fairness ==
  /\ \A n \in JobSeq :
       /\ SF_vars(TakesUp(n))
       /\ SF_vars(\E t \in Token : Report(t, n))
       /\ WF_vars(\E t \in Token : Discard(t, n))
       /\ WF_vars(n \in DOMAIN jobs /\ BecomesDue(n))
  /\ \A t \in Token : WF_vars(LeaseRunsOut(t))

FairSpec == AutomaticSpec /\ Fairness

-----------------------------------------------------------------------------
(* Properties.                                                             *)

RowPhase(j) ==
  IF j.state \in Waiting THEN "waiting"
  ELSE IF j.state = "processing" THEN "held"
  ELSE IF j.state \in Parked THEN "parked" ELSE "closed"

Phases  == [n \in JobSeq |-> IF n \in DOMAIN jobs THEN RowPhase(jobs[n]) ELSE "absent"]
Holders == [n \in JobSeq |-> IF n \in DOMAIN jobs THEN jobs[n].token ELSE NoToken]

Queue == INSTANCE LeaseQueue WITH
  Item <- JobSeq, phase <- Phases, holder <- Holders, carries <- runs

(* The job queue is a leased work queue: whatever re-claims, abandoned     *)
(* batches, re-arms and replays happen, only the token of the latest claim *)
(* settles a job, and a finished job never runs again.                     *)
IsLeaseQueue == Queue!Spec

(* "A key never runs two jobs at once" (claim_due). *)
OneRunnerPerKey ==
  \A m, n \in DOMAIN jobs :
    /\ jobs[m].state = "processing" /\ jobs[n].state = "processing"
    /\ jobs[m].what.order = jobs[n].what.order
    => m = n

(* Only the updates ask the unique index; an enqueue reads first and then  *)
(* folds or inserts.  The index never refuses one all the same: no insert, *)
(* fold, claim or late report leaves two waiting state jobs of a key.      *)
StateJobsAreUnique == ~Clash(jobs)

(* No job waits for something that can never come.  The oldest job of its  *)
(* ordering key that is still in the queue can be claimed now, or it runs  *)
(* under a lease that will be over, or it waits for a date: neither a lost *)
(* lease, a fold, a re-arm nor a refused report leaves a key with a job    *)
(* nobody may take.                                                        *)
NoJobIsStranded ==
  \A n \in DOMAIN jobs : jobs[n].state \in Live =>
    \E m \in DOMAIN jobs :
      /\ m <= n /\ jobs[m].what.order = jobs[n].what.order
      /\ \/ IsDue(m)
         \/ jobs[m].state = "processing" /\ jobs[m].live
         \/ jobs[m].state = "retry" /\ ~jobs[m].due

(* Every job leaves the queue in the end, finished or parked for a human,  *)
(* even when the unique index refuses its retries or its batch is          *)
(* abandoned: every claim uses an attempt.                                 *)
EveryJobSettles ==
  \A n \in JobSeq :
    n \in DOMAIN jobs ~> n \in DOMAIN jobs /\ jobs[n].state \notin Live
=============================================================================
