--------------------------- MODULE SyncJobs_proofs ---------------------------
(***************************************************************************)
(* Theorems of SyncJobs, for every set of submissions, tokens and tenants  *)
(* and every cap, batch size and number of jobs.                           *)
(***************************************************************************)
EXTENDS SyncJobs, FiniteSetTheorems, WellFoundedInduction, TLAPS

(* The strengthening: sequence numbers are given out without gaps, a job   *)
(* has a token just while it is processed, a processed job has used an     *)
(* attempt (which a pause gives back), only a processed job has a lease    *)
(* that is not over, and only a retry has a date to come.                  *)
JobOK(j) ==
  /\ j.state = "processing" <=> j.token # NoToken
  /\ j.state = "processing" => j.attempts > 0
  /\ j.live => j.state = "processing"
  /\ j.due \/ j.state = "retry"

SeqsAreDense == \E n \in 0..MaxSeq : DOMAIN jobs = 1..n

JInv ==
  /\ TypeOK
  /\ SeqsAreDense
  /\ \A n \in DOMAIN jobs : JobOK(jobs[n])

-----------------------------------------------------------------------------
(* Jobs.  What each statement writes is a well-typed, consistent job.      *)

JobState == Live \cup Parked \cup Finished \cup {"purged"}

LEMMA JobFields ==
  ASSUME NEW j \in Job
  PROVE  /\ j = [what |-> j.what, op |-> j.op, version |-> j.version, state |-> j.state,
                 attempts |-> j.attempts, due |-> j.due, token |-> j.token, live |-> j.live]
         /\ j.what \in Submission /\ j.op \in StateOp \cup {"command"} /\ j.version \in Nat
         /\ j.state \in JobState /\ j.attempts \in 0..MaxAttempts + 1
         /\ j.due \in BOOLEAN /\ j.token \in Token \cup {NoToken} /\ j.live \in BOOLEAN
  BY DEF Job, JobState

LEMMA NewJobOK ==
  ASSUME NEW s \in Submission
  PROVE  NewJob(s) \in Job /\ JobOK(NewJob(s)) /\ NewJob(s).state = "pending"
         /\ NewJob(s).token = NoToken
  BY SyncConstants DEF NewJob, Job, JobOK, Live, Waiting

LEMMA FoldedOK ==
  ASSUME NEW j \in Job, JobOK(j), NEW s \in Submission, NEW quiet \in BOOLEAN
  PROVE  /\ Folded(j, s, quiet) \in Job /\ JobOK(Folded(j, s, quiet))
         /\ Folded(j, s, quiet).state = j.state /\ Folded(j, s, quiet).token = j.token
         /\ Folded(j, s, quiet).what = j.what
<1>1. s.op \in StateOp \cup {"command"} /\ s.version \in Nat
  BY SyncConstants
<1>2. (j.due \/ j.state = "pending" \/ quiet) \in BOOLEAN
  OBVIOUS
<1> QED
  BY <1>1, <1>2 DEF Folded, Job, JobOK

LEMMA ClaimedOK ==
  ASSUME NEW j \in Job, NEW t \in Token, j.due
  PROVE  /\ Claimed(j, t) \in Job /\ JobOK(Claimed(j, t))
         /\ Claimed(j, t).state = "processing" /\ Claimed(j, t).token = t
         /\ Claimed(j, t).what = j.what
<1>1. /\ Saturated(j.attempts + 1) \in 0..MaxAttempts + 1
      /\ Saturated(j.attempts + 1) > 0
  BY SyncConstants DEF Job, Saturated
<1>2. /\ Claimed(j, t).state = "processing" /\ Claimed(j, t).token = t
      /\ Claimed(j, t).what = j.what /\ Claimed(j, t).attempts = Saturated(j.attempts + 1)
  BY DEF Claimed, Job
<1>3. Claimed(j, t) \in Job
  BY <1>1 DEF Claimed, Job, Live
<1>4. Claimed(j, t).due = j.due
  BY DEF Claimed, Job
<1> QED
  BY <1>1, <1>2, <1>3, <1>4, NoTokenIsNoToken DEF JobOK

Reported == {"done", "inactive", "superseded", "exhausted", "blocked", "paused", "retry"}

LEMMA NextStates ==
  ASSUME NEW j, NEW outcome \in Outcomes
  PROVE  NextState(j, outcome) \in Reported
  BY DEF NextState, Outcomes, Reported

LEMMA SettledOK ==
  ASSUME NEW j \in Job, JobOK(j), j.state = "processing", NEW state \in Reported
  PROVE  /\ Settled(j, state) \in Job /\ JobOK(Settled(j, state))
         /\ Settled(j, state).state = state /\ Settled(j, state).token = NoToken
         /\ Settled(j, state).what = j.what
<1>1. /\ j.attempts \in 0..MaxAttempts + 1 /\ j.attempts > 0
      /\ (IF state = "paused" THEN j.attempts - 1 ELSE j.attempts) \in 0..MaxAttempts + 1
  BY SyncConstants DEF Job, JobOK
<1>2. /\ Settled(j, state).state = state /\ Settled(j, state).token = NoToken
      /\ Settled(j, state).what = j.what
  BY DEF Settled, Job
<1>3. state \in JobState /\ state # "processing" /\ (state # "retry") \in BOOLEAN
  BY DEF JobState, Reported, Live, Waiting, Parked, Finished
<1>4. Settled(j, state) \in Job
  BY <1>1, <1>3 DEF Settled, Job, JobState
<1>5. /\ Settled(j, state).due = (state # "retry") /\ Settled(j, state).live = FALSE
  BY DEF Settled, Job
<1> QED
  BY <1>2, <1>3, <1>4, <1>5 DEF JobOK

(* The statements that neither claim nor report. *)
LEMMA MaintainedOK ==
  ASSUME NEW j \in Job, JobOK(j)
  PROVE  /\ j.state \in Rearmable =>
              /\ Rearmed(j) \in Job /\ JobOK(Rearmed(j))
              /\ Rearmed(j).state = "pending" /\ Rearmed(j).token = j.token
              /\ Rearmed(j).what = j.what
         /\ j.state = "paused" =>
              /\ Resumed(j) \in Job /\ JobOK(Resumed(j))
              /\ Resumed(j).state = "pending" /\ Resumed(j).token = j.token
              /\ Resumed(j).what = j.what
         /\ j.state \in Finished =>
              /\ [j EXCEPT !.state = "purged"] \in Job /\ JobOK([j EXCEPT !.state = "purged"])
              /\ [j EXCEPT !.state = "purged"].state = "purged"
              /\ [j EXCEPT !.state = "purged"].token = j.token
              /\ [j EXCEPT !.state = "purged"].what = j.what
         /\ /\ [j EXCEPT !.due = TRUE] \in Job /\ JobOK([j EXCEPT !.due = TRUE])
            /\ [j EXCEPT !.due = TRUE].state = j.state
            /\ [j EXCEPT !.due = TRUE].token = j.token
            /\ [j EXCEPT !.due = TRUE].what = j.what
         /\ /\ [j EXCEPT !.live = FALSE] \in Job /\ JobOK([j EXCEPT !.live = FALSE])
            /\ [j EXCEPT !.live = FALSE].state = j.state
            /\ [j EXCEPT !.live = FALSE].token = j.token
            /\ [j EXCEPT !.live = FALSE].what = j.what
<1>1. j.state \in Rearmable =>
        /\ Rearmed(j) \in Job /\ JobOK(Rearmed(j))
        /\ Rearmed(j).state = "pending" /\ Rearmed(j).token = j.token
        /\ Rearmed(j).what = j.what
  <2>1. 0 \in 0..MaxAttempts + 1
    BY SyncConstants
  <2> QED
    BY <2>1 DEF Rearmed, Rearmable, Job, JobOK, Live, Waiting
<1>2. j.state = "paused" =>
        /\ Resumed(j) \in Job /\ JobOK(Resumed(j))
        /\ Resumed(j).state = "pending" /\ Resumed(j).token = j.token
        /\ Resumed(j).what = j.what
  BY DEF Resumed, Job, JobOK, Live, Waiting
<1>3. j.state \in Finished =>
        /\ [j EXCEPT !.state = "purged"] \in Job /\ JobOK([j EXCEPT !.state = "purged"])
        /\ [j EXCEPT !.state = "purged"].state = "purged"
        /\ [j EXCEPT !.state = "purged"].token = j.token
        /\ [j EXCEPT !.state = "purged"].what = j.what
  BY DEF Finished, Job, JobOK
<1>4. /\ [j EXCEPT !.due = TRUE] \in Job /\ JobOK([j EXCEPT !.due = TRUE])
      /\ [j EXCEPT !.due = TRUE].state = j.state
      /\ [j EXCEPT !.due = TRUE].token = j.token
      /\ [j EXCEPT !.due = TRUE].what = j.what
  BY DEF Job, JobOK
<1>5. /\ [j EXCEPT !.live = FALSE] \in Job /\ JobOK([j EXCEPT !.live = FALSE])
      /\ [j EXCEPT !.live = FALSE].state = j.state
      /\ [j EXCEPT !.live = FALSE].token = j.token
      /\ [j EXCEPT !.live = FALSE].what = j.what
  BY DEF Job, JobOK
<1> QED
  BY <1>1, <1>2, <1>3, <1>4, <1>5

-----------------------------------------------------------------------------
(* What each action does to the table, in terms the invariants use.        *)

IsOK(j) == j \in Job /\ JobOK(j)

(* j is rewritten to k without a change of state, token or subject. *)
Quiet(j, k) ==
  IsOK(k) /\ k.state = j.state /\ k.token = j.token /\ k.what = j.what

(* Operators revive a parked job, or cut the wait of a retry short. *)
Revived(j, k) ==
  /\ IsOK(k) /\ k.state = "pending" /\ k.token = j.token /\ k.what = j.what
  /\ j.state \in Parked \cup {"retry"}

LEMMA JInvJobs ==
  ASSUME JInv PROVE \A n \in DOMAIN jobs : IsOK(jobs[n]) /\ n \in JobSeq
  BY DEF JInv, TypeOK, IsOK

LEMMA NextSeq ==
  ASSUME SeqsAreDense
  PROVE  LET n == Cardinality(DOMAIN jobs) + 1
         IN  n \in Nat /\ n \notin DOMAIN jobs /\ DOMAIN jobs \cup {n} = 1..n
<1>1. PICK k \in 0..MaxSeq : DOMAIN jobs = 1..k
  BY DEF SeqsAreDense
<1>2. k \in Nat
  BY <1>1, SyncConstants
<1>3. Cardinality(1..k) = k
  BY <1>2, FS_Interval
<1> QED
  BY <1>1, <1>2, <1>3

LEMMA EnqueueFacts ==
  ASSUME JInv, NEW s \in Submission, Enqueue(s)
  PROVE  /\ runs' = runs
         /\ \/ /\ jobs' = [n \in DOMAIN jobs |-> jobs'[n]]
               /\ \A n \in DOMAIN jobs : Quiet(jobs[n], jobs'[n])
            \/ \E n \in JobSeq \ DOMAIN jobs :
                 /\ DOMAIN jobs \cup {n} = 1..n
                 /\ jobs' = [m \in 1..n |-> IF m = n THEN NewJob(s) ELSE jobs[m]]
<1>ok. \A n \in DOMAIN jobs : IsOK(jobs[n])
  BY JInvJobs
<1>same. ASSUME jobs' = jobs
         PROVE  /\ jobs' = [n \in DOMAIN jobs |-> jobs'[n]]
                /\ \A n \in DOMAIN jobs : Quiet(jobs[n], jobs'[n])
  BY <1>same, <1>ok DEF Quiet, JInv, TypeOK
<1>1. CASE Fold(s)
  <2>1. PICK n \in FoldTargets(s), quiet \in BOOLEAN : SetJob(n, Folded(jobs[n], s, quiet))
    BY <1>1 DEF Fold
  <2>2. n \in DOMAIN jobs
    BY DEF FoldTargets
  <2>3. Quiet(jobs[n], Folded(jobs[n], s, quiet))
    BY <1>ok, <2>2, FoldedOK DEF Quiet, IsOK
  <2>4. /\ jobs' = [m \in DOMAIN jobs |-> jobs'[m]]
        /\ jobs'[n] = Folded(jobs[n], s, quiet)
        /\ \A m \in DOMAIN jobs \ {n} : jobs'[m] = jobs[m]
    BY <2>1, <2>2 DEF SetJob, JInv, TypeOK
  <2>5. \A m \in DOMAIN jobs : Quiet(jobs[m], jobs'[m])
    BY <1>ok, <2>3, <2>4 DEF Quiet
  <2> QED
    BY <2>4, <2>5 DEF Enqueue
<1>2. CASE Insert(s)
  BY <1>2, NextSeq DEF Insert, JInv, Enqueue
<1> QED
  BY <1>1, <1>2, <1>same DEF Enqueue

LEMMA ClaimFacts ==
  ASSUME JInv, NEW t \in Token, ClaimDue(t)
  PROVE  /\ \A n \in DOMAIN jobs : jobs[n].token # t
         /\ runs[t] = {}
         /\ \E S \in SUBSET DOMAIN jobs :
              /\ \A n \in S : IsDue(n)
              /\ jobs' = [n \in DOMAIN jobs |->
                            IF n \in S THEN Claimed(jobs[n], t) ELSE jobs[n]]
              /\ runs' = [runs EXCEPT ![t] = S]
<1>1. PICK S \in SUBSET {n \in DOMAIN jobs : IsDue(n)} :
         /\ jobs' = UpdateAll(S, LAMBDA j : Claimed(j, t))
         /\ runs' = [runs EXCEPT ![t] = S]
  BY DEF ClaimDue
<1>2. jobs' = [n \in DOMAIN jobs |-> IF n \in S THEN Claimed(jobs[n], t) ELSE jobs[n]]
  BY <1>1 DEF UpdateAll
<1> QED
  BY <1>1, <1>2 DEF ClaimDue, IsFresh

LEMMA FinishFacts ==
  ASSUME JInv, NEW t \in Token, NEW n, NEW outcome \in Outcomes, Finish(t, n, outcome)
  PROVE  /\ n \in runs[t] /\ Holds(t, n)
         /\ runs' = [runs EXCEPT ![t] = @ \ {n}]
         /\ jobs' = [m \in DOMAIN jobs |-> jobs'[m]]
         /\ IsOK(jobs'[n]) /\ jobs'[n].state \in Reported
         /\ jobs'[n].state = NextState(jobs[n], outcome)
         /\ jobs'[n].token = NoToken /\ jobs'[n].what = jobs[n].what
         /\ \A m \in DOMAIN jobs \ {n} : jobs'[m] = jobs[m]
<1>1. n \in runs[t] /\ Holds(t, n) /\ runs' = [runs EXCEPT ![t] = @ \ {n}]
  BY DEF Finish
<1> DEFINE state == NextState(jobs[n], outcome)
<1>2. n \in DOMAIN jobs /\ jobs[n].state = "processing" /\ state \in Reported
  BY <1>1, NextStates DEF Holds
<1>3. jobs' = [jobs EXCEPT ![n] = Settled(jobs[n], state)]
  BY DEF Finish, Write, FinishedTable
<1> HIDE DEF state
<1>4. /\ IsOK(Settled(jobs[n], state)) /\ Settled(jobs[n], state).state = state
      /\ Settled(jobs[n], state).token = NoToken
      /\ Settled(jobs[n], state).what = jobs[n].what
  BY <1>2, JInvJobs, SettledOK DEF IsOK
<1>5. /\ jobs' = [m \in DOMAIN jobs |-> jobs'[m]]
      /\ jobs'[n] = Settled(jobs[n], state)
      /\ \A m \in DOMAIN jobs \ {n} : jobs'[m] = jobs[m]
  BY <1>2, <1>3 DEF JInv, TypeOK
<1> QED
  BY <1>1, <1>2, <1>4, <1>5 DEF state

LEMMA OperatedFacts ==
  ASSUME JInv, Operated
  PROVE  /\ runs' = runs
         /\ jobs' = [n \in DOMAIN jobs |-> jobs'[n]]
         /\ \A n \in DOMAIN jobs : jobs'[n] = jobs[n] \/ Revived(jobs[n], jobs'[n])
<1>ok. \A n \in DOMAIN jobs : IsOK(jobs[n])
  BY JInvJobs
<1>1. ASSUME NEW n \in DOMAIN jobs, jobs[n].state \in Rearmable
      PROVE  Revived(jobs[n], Rearmed(jobs[n]))
  BY <1>1, <1>ok, MaintainedOK DEF Revived, IsOK, Rearmable, Parked
<1>2. ASSUME NEW n \in DOMAIN jobs, jobs[n].state = "paused"
      PROVE  Revived(jobs[n], Resumed(jobs[n]))
  BY <1>2, <1>ok, MaintainedOK DEF Revived, IsOK, Parked
<1>3. ASSUME NEW n \in DOMAIN jobs, Rearm(n)
      PROVE  /\ runs' = runs
             /\ jobs' = [m \in DOMAIN jobs |-> jobs'[m]]
             /\ \A m \in DOMAIN jobs : jobs'[m] = jobs[m] \/ Revived(jobs[m], jobs'[m])
  <2>1. /\ jobs[n].state \in Rearmable /\ runs' = runs
        /\ jobs' = [jobs EXCEPT ![n] = Rearmed(jobs[n])]
    BY <1>3 DEF Rearm, Write
  <2>2. /\ jobs' = [m \in DOMAIN jobs |-> jobs'[m]]
        /\ jobs'[n] = Rearmed(jobs[n])
        /\ \A m \in DOMAIN jobs \ {n} : jobs'[m] = jobs[m]
    BY <2>1 DEF JInv, TypeOK
  <2> QED
    BY <1>1, <2>1, <2>2
<1>4. ASSUME NEW origin, NEW entity, NEW targets, RearmEntity(origin, entity, targets)
      PROVE  /\ runs' = runs
             /\ jobs' = [m \in DOMAIN jobs |-> jobs'[m]]
             /\ \A m \in DOMAIN jobs : jobs'[m] = jobs[m] \/ Revived(jobs[m], jobs'[m])
  BY <1>1, <1>4 DEF RearmEntity, Write, UpdateAll, ToRearm
<1>5. ASSUME NEW tenant, ResumeTenant(tenant)
      PROVE  /\ runs' = runs
             /\ jobs' = [m \in DOMAIN jobs |-> jobs'[m]]
             /\ \A m \in DOMAIN jobs : jobs'[m] = jobs[m] \/ Revived(jobs[m], jobs'[m])
  BY <1>2, <1>5 DEF ResumeTenant, Write, UpdateAll, ToResume
<1> QED
  BY <1>3, <1>4, <1>5 DEF Operated

(* A date or a lease passes. *)
LEMMA ClockFacts ==
  ASSUME JInv, \/ \E n \in DOMAIN jobs : BecomesDue(n)
               \/ \E t \in Token : LeaseRunsOut(t)
  PROVE  /\ runs' = runs
         /\ jobs' = [n \in DOMAIN jobs |-> jobs'[n]]
         /\ \A n \in DOMAIN jobs : Quiet(jobs[n], jobs'[n])
<1>ok. \A n \in DOMAIN jobs : IsOK(jobs[n]) /\ Quiet(jobs[n], jobs[n])
  BY JInvJobs DEF Quiet
<1>1. \A n \in DOMAIN jobs : /\ Quiet(jobs[n], [jobs[n] EXCEPT !.due = TRUE])
                             /\ Quiet(jobs[n], [jobs[n] EXCEPT !.live = FALSE])
  BY <1>ok, MaintainedOK DEF Quiet, IsOK
<1>2. ASSUME NEW n \in DOMAIN jobs, BecomesDue(n)
      PROVE  /\ runs' = runs
             /\ jobs' = [m \in DOMAIN jobs |-> jobs'[m]]
             /\ \A m \in DOMAIN jobs : Quiet(jobs[m], jobs'[m])
  <2>1. runs' = runs /\ jobs' = [jobs EXCEPT ![n] = [jobs[n] EXCEPT !.due = TRUE]]
    BY <1>2 DEF BecomesDue, SetJob
  <2>2. /\ jobs' = [m \in DOMAIN jobs |-> jobs'[m]]
        /\ jobs'[n] = [jobs[n] EXCEPT !.due = TRUE]
        /\ \A m \in DOMAIN jobs \ {n} : jobs'[m] = jobs[m]
    BY <2>1 DEF JInv, TypeOK
  <2> QED
    BY <1>ok, <1>1, <2>1, <2>2
<1>3. ASSUME NEW t \in Token, LeaseRunsOut(t)
      PROVE  /\ runs' = runs
             /\ jobs' = [m \in DOMAIN jobs |-> jobs'[m]]
             /\ \A m \in DOMAIN jobs : Quiet(jobs[m], jobs'[m])
  BY <1>3, <1>ok, <1>1 DEF LeaseRunsOut, UpdateAll
<1> QED
  BY <1>2, <1>3

LEMMA PurgeFacts ==
  ASSUME JInv, NEW n \in DOMAIN jobs, Purge(n)
  PROVE  /\ runs' = runs /\ jobs[n].state \in Finished
         /\ jobs' = [m \in DOMAIN jobs |-> jobs'[m]]
         /\ IsOK(jobs'[n]) /\ jobs'[n].state = "purged"
         /\ jobs'[n].token = jobs[n].token /\ jobs'[n].what = jobs[n].what
         /\ \A m \in DOMAIN jobs \ {n} : jobs'[m] = jobs[m]
<1>1. /\ runs' = runs /\ jobs[n].state \in Finished
      /\ jobs' = [jobs EXCEPT ![n] = [jobs[n] EXCEPT !.state = "purged"]]
  BY DEF Purge, SetJob
<1>2. /\ jobs' = [m \in DOMAIN jobs |-> jobs'[m]]
      /\ jobs'[n] = [jobs[n] EXCEPT !.state = "purged"]
      /\ \A m \in DOMAIN jobs \ {n} : jobs'[m] = jobs[m]
  BY <1>1 DEF JInv, TypeOK
<1> QED
  BY <1>1, <1>2, JInvJobs, MaintainedOK DEF IsOK

-----------------------------------------------------------------------------
(* The inductive invariant.                                                *)

LEMMA TableKept ==
  ASSUME JInv, jobs' = [n \in DOMAIN jobs |-> jobs'[n]],
         \A n \in DOMAIN jobs : IsOK(jobs'[n]),
         runs' \in [Token -> SUBSET DOMAIN jobs]
  PROVE  JInv'
  BY DEF JInv, TypeOK, SeqsAreDense, IsOK

LEMMA InsertKept ==
  ASSUME JInv, NEW s \in Submission, runs' = runs, NEW n \in JobSeq \ DOMAIN jobs,
         DOMAIN jobs \cup {n} = 1..n,
         jobs' = [m \in 1..n |-> IF m = n THEN NewJob(s) ELSE jobs[m]]
  PROVE  JInv'
<1>1. DOMAIN jobs' = 1..n /\ n \in 0..MaxSeq /\ DOMAIN jobs \subseteq 1..n
  BY DEF JobSeq
<1>2. \A m \in 1..n : IsOK(jobs'[m])
  BY JInvJobs, NewJobOK DEF IsOK
<1>3. TypeOK'
  <2>1. DOMAIN jobs' \subseteq JobSeq
    BY <1>1, SyncConstants DEF JobSeq
  <2>2. jobs' \in [DOMAIN jobs' -> Job]
    BY <1>1, <1>2 DEF IsOK
  <2>3. runs' \in [Token -> SUBSET DOMAIN jobs']
    BY <1>1 DEF JInv, TypeOK
  <2> QED
    BY <2>1, <2>2, <2>3 DEF TypeOK
<1> QED
  BY <1>1, <1>2, <1>3 DEF JInv, SeqsAreDense, IsOK

LEMMA AutomaticKept == JInv /\ Automatic => JInv'
<1> SUFFICES ASSUME JInv, Automatic PROVE JInv'
  OBVIOUS
<1>ok. /\ \A n \in DOMAIN jobs : IsOK(jobs[n])
       /\ runs \in [Token -> SUBSET DOMAIN jobs]
  BY JInvJobs DEF JInv, TypeOK
<1>1. ASSUME NEW s \in Submission, Enqueue(s) PROVE JInv'
  <2>1. CASE /\ runs' = runs /\ jobs' = [n \in DOMAIN jobs |-> jobs'[n]]
             /\ \A n \in DOMAIN jobs : Quiet(jobs[n], jobs'[n])
    BY <2>1, <1>ok, TableKept DEF Quiet
  <2> QED
    BY <1>1, <2>1, EnqueueFacts, InsertKept
<1>2. ASSUME NEW t \in Token, ClaimDue(t) PROVE JInv'
  <2>1. PICK S \in SUBSET DOMAIN jobs :
          /\ \A n \in S : IsDue(n)
          /\ jobs' = [n \in DOMAIN jobs |-> IF n \in S THEN Claimed(jobs[n], t) ELSE jobs[n]]
          /\ runs' = [runs EXCEPT ![t] = S]
    BY <1>2, ClaimFacts
  <2>2. /\ jobs' = [n \in DOMAIN jobs |-> jobs'[n]]
        /\ \A n \in DOMAIN jobs : IsOK(jobs'[n])
    BY <1>ok, <2>1, ClaimedOK DEF IsOK, IsDue
  <2> QED
    BY <1>ok, <2>1, <2>2, TableKept
<1>3. ASSUME NEW t \in Token, NEW n, NEW outcome \in Outcomes, Finish(t, n, outcome)
      PROVE  JInv'
  BY <1>ok, <1>3, FinishFacts, TableKept
<1>4. ASSUME UNCHANGED jobs, NEW t \in Token, NEW S \in SUBSET runs[t],
             runs' = [runs EXCEPT ![t] = S]
      PROVE  JInv'
  BY <1>4, <1>ok, TableKept DEF JInv, TypeOK
<1>5. ASSUME NEW t \in Token, NEW n, Discard(t, n) PROVE JInv'
  <2>1. UNCHANGED jobs /\ runs' = [runs EXCEPT ![t] = runs[t] \ {n}]
    BY <1>5 DEF Discard
  <2> QED
    BY <1>4, <2>1
<1>6. ASSUME NEW t \in Token, NEW n, NEW outcome, FinishRefused(t, n, outcome) \/ Crash(t)
      PROVE  JInv'
  <2>1. UNCHANGED jobs /\ runs' = [runs EXCEPT ![t] = {}]
    BY <1>6 DEF FinishRefused, Crash
  <2> QED
    BY <1>4, <2>1
<1>7. CASE \/ \E n \in DOMAIN jobs : BecomesDue(n)
           \/ \E t \in Token : LeaseRunsOut(t)
  BY <1>ok, <1>7, ClockFacts, TableKept DEF Quiet
<1>8. ASSUME NEW n \in DOMAIN jobs, Purge(n) PROVE JInv'
  BY <1>ok, <1>8, PurgeFacts, TableKept
<1> QED
  BY <1>1, <1>2, <1>3, <1>5, <1>6, <1>7, <1>8 DEF Automatic, Work, Report

LEMMA NextKept == JInv /\ [Next]_vars => JInv'
<1> SUFFICES ASSUME JInv, [Next]_vars PROVE JInv'
  OBVIOUS
<1>ok. /\ \A n \in DOMAIN jobs : IsOK(jobs[n])
       /\ runs \in [Token -> SUBSET DOMAIN jobs]
  BY JInvJobs DEF JInv, TypeOK
<1>1. CASE Operated
  BY <1>ok, <1>1, OperatedFacts, TableKept DEF Revived
<1>2. CASE UNCHANGED vars
  BY <1>2 DEF vars, JInv, TypeOK, SeqsAreDense, JobOK
<1> QED
  BY <1>1, <1>2, AutomaticKept DEF Next

LEMMA InitOK == Init => JInv
<1> SUFFICES ASSUME Init PROVE JInv
  OBVIOUS
<1>1. DOMAIN jobs = 1..0 /\ 0 \in 0..MaxSeq
  BY SyncConstants DEF Init
<1>2. TypeOK
  BY DEF Init, TypeOK
<1> QED
  BY <1>1, <1>2 DEF JInv, SeqsAreDense

LEMMA Inductive == Spec => []JInv
  BY InitOK, NextKept, PTL DEF Spec

(* The job table keeps its types, however relays, executors and operators  *)
(* interleave; in particular no pause takes an attempt that no claim gave. *)
THEOREM JobTypes == Spec => []TypeOK
<1>1. JInv => TypeOK
  BY DEF JInv
<1> QED
  BY <1>1, Inductive, PTL

-----------------------------------------------------------------------------
(* The unique index.  No statement but an insert adds a waiting state job  *)
(* of a key, and an insert found none to fold into.                        *)

LEMMA ClashNotMade ==
  ASSUME ~Clash(jobs), DOMAIN jobs' = DOMAIN jobs,
         \A n \in DOMAIN jobs : \A key :
           Foldable(jobs'[n], key) => Foldable(jobs[n], key)
  PROVE  ~Clash(jobs)'
<1> SUFFICES ASSUME NEW m \in DOMAIN jobs, NEW n \in DOMAIN jobs, m # n, NEW key,
                    Foldable(jobs'[m], key), Foldable(jobs'[n], key)
             PROVE  FALSE
  BY DEF Clash
<1>1. Foldable(jobs[m], key) /\ Foldable(jobs[n], key) /\ jobs[m].what.key = key
  BY DEF Foldable
<1> QED
  BY <1>1 DEF Clash

LEMMA InsertIsUnique ==
  ASSUME JInv, ~Clash(jobs), NEW s \in Submission, FoldTargets(s) = {}, Insert(s)
  PROVE  ~Clash(jobs)'
<1> DEFINE n == Cardinality(DOMAIN jobs) + 1
<1>1. /\ n \notin DOMAIN jobs /\ DOMAIN jobs' = DOMAIN jobs \cup {n}
      /\ jobs' = [m \in DOMAIN jobs \cup {n} |-> IF m = n THEN NewJob(s) ELSE jobs[m]]
  BY NextSeq DEF Insert, JInv
<1> HIDE DEF n
<1>2. jobs'[n] = NewJob(s) /\ \A m \in DOMAIN jobs : jobs'[m] = jobs[m]
  BY <1>1
<1>3. NewJob(s).what = s /\ NewJob(s).op = s.op
  BY DEF NewJob
<1>4. \A m \in DOMAIN jobs : ~(Foldable(jobs'[n], s.key) /\ Foldable(jobs'[m], s.key))
  BY <1>2, <1>3 DEF FoldTargets, Foldable
<1>5. \A key : Foldable(jobs'[n], key) => key = s.key
  BY <1>2, <1>3 DEF Foldable
<1> SUFFICES ASSUME NEW a \in DOMAIN jobs', NEW b \in DOMAIN jobs', a # b, NEW key,
                    Foldable(jobs'[a], key), Foldable(jobs'[b], key)
             PROVE  FALSE
  BY DEF Clash
<1>6. CASE a = n \/ b = n
  BY <1>1, <1>4, <1>5, <1>6
<1>7. CASE a \in DOMAIN jobs /\ b \in DOMAIN jobs
  <2>1. jobs[a].what.key = key
    BY <1>2, <1>7 DEF Foldable
  <2> QED
    BY <1>2, <1>7, <2>1 DEF Clash
<1> QED
  BY <1>1, <1>6, <1>7

LEMMA EnqueueIsUnique ==
  ASSUME JInv, ~Clash(jobs), NEW s \in Submission, Enqueue(s)
  PROVE  ~Clash(jobs)'
<1>1. CASE Fold(s)
  <2>1. PICK n \in FoldTargets(s), quiet \in BOOLEAN : SetJob(n, Folded(jobs[n], s, quiet))
    BY <1>1 DEF Fold
  <2>2. n \in DOMAIN jobs /\ Foldable(jobs[n], s.key) /\ IsOK(jobs[n])
    BY JInvJobs DEF FoldTargets
  <2>3. /\ jobs' = [m \in DOMAIN jobs |-> jobs'[m]]
        /\ jobs'[n] = Folded(jobs[n], s, quiet)
        /\ \A m \in DOMAIN jobs \ {n} : jobs'[m] = jobs[m]
    BY <2>1, <2>2 DEF SetJob, JInv, TypeOK
  <2>4. jobs'[n].what = jobs[n].what
    BY <2>2, <2>3, FoldedOK DEF IsOK
  <2>5. \A m \in DOMAIN jobs : \A key : Foldable(jobs'[m], key) => Foldable(jobs[m], key)
    BY <2>2, <2>3, <2>4 DEF Foldable
  <2> QED
    BY <2>3, <2>5, ClashNotMade
<1>2. CASE FoldTargets(s) = {} /\ Insert(s)
  BY <1>2, InsertIsUnique
<1>3. CASE UNCHANGED jobs
  BY <1>3, ClashNotMade
<1> QED
  BY <1>1, <1>2, <1>3 DEF Enqueue

LEMMA UniqueStep == JInv /\ ~Clash(jobs) /\ [Next]_vars => ~Clash(jobs)'
<1> SUFFICES ASSUME JInv, ~Clash(jobs), [Next]_vars PROVE ~Clash(jobs)'
  OBVIOUS
<1>written. ASSUME NEW table, Write(table) PROVE ~Clash(jobs)'
  BY <1>written DEF Write
<1>same. ASSUME UNCHANGED jobs PROVE ~Clash(jobs)'
  BY <1>same, ClashNotMade
<1>left. ASSUME NEW S \in SUBSET DOMAIN jobs, DOMAIN jobs' = DOMAIN jobs,
                \A n \in DOMAIN jobs :
                  jobs'[n] = jobs[n] \/ jobs'[n].state \notin Waiting
         PROVE  ~Clash(jobs)'
  BY <1>left, ClashNotMade DEF Foldable
<1>1. ASSUME NEW s \in Submission, Enqueue(s) PROVE ~Clash(jobs)'
  BY <1>1, EnqueueIsUnique
<1>2. ASSUME NEW t \in Token, ClaimDue(t) PROVE ~Clash(jobs)'
  <2>1. PICK S \in SUBSET DOMAIN jobs :
          /\ \A n \in S : IsDue(n)
          /\ jobs' = [n \in DOMAIN jobs |-> IF n \in S THEN Claimed(jobs[n], t) ELSE jobs[n]]
    BY <1>2, ClaimFacts
  <2>2. \A n \in DOMAIN jobs : jobs'[n] = jobs[n] \/ jobs'[n].state = "processing"
    BY <2>1, JInvJobs, ClaimedOK DEF IsOK, IsDue
  <2> QED
    BY <2>1, <2>2, <1>left DEF Waiting
<1>3. ASSUME NEW t \in Token, NEW n, NEW outcome, Finish(t, n, outcome) PROVE ~Clash(jobs)'
  BY <1>3, <1>written DEF Finish
<1>4. ASSUME NEW t \in Token, NEW n, NEW outcome,
             FinishRefused(t, n, outcome) \/ Discard(t, n) \/ Crash(t)
      PROVE  ~Clash(jobs)'
  BY <1>4, <1>same DEF FinishRefused, Discard, Crash
<1>5. ASSUME NEW n \in DOMAIN jobs, BecomesDue(n) PROVE ~Clash(jobs)'
  <2>1. jobs' = [jobs EXCEPT ![n] = [jobs[n] EXCEPT !.due = TRUE]] /\ jobs[n] \in Job
    BY <1>5, JInvJobs DEF BecomesDue, SetJob, IsOK
  <2>2. /\ DOMAIN jobs' = DOMAIN jobs
        /\ \A m \in DOMAIN jobs : /\ jobs'[m].state = jobs[m].state
                                   /\ jobs'[m].what = jobs[m].what
                                   /\ jobs'[m].op = jobs[m].op
    BY <2>1 DEF JInv, TypeOK, Job
  <2> QED
    BY <2>2, ClashNotMade DEF Foldable
<1>6. ASSUME NEW t \in Token, LeaseRunsOut(t) PROVE ~Clash(jobs)'
  <2>1. /\ DOMAIN jobs' = DOMAIN jobs
        /\ \A m \in DOMAIN jobs : jobs'[m] \in {jobs[m], [jobs[m] EXCEPT !.live = FALSE]}
    BY <1>6 DEF LeaseRunsOut, UpdateAll
  <2>2. \A m \in DOMAIN jobs : /\ jobs'[m].state = jobs[m].state
                               /\ jobs'[m].what = jobs[m].what
                               /\ jobs'[m].op = jobs[m].op
    BY <2>1, JInvJobs DEF IsOK, Job
  <2> QED
    BY <2>1, <2>2, ClashNotMade DEF Foldable
<1>7. ASSUME NEW n \in DOMAIN jobs, Purge(n) PROVE ~Clash(jobs)'
  BY <1>7, PurgeFacts, <1>left DEF Waiting
<1>8. CASE Operated
  BY <1>8, <1>written DEF Operated, Rearm, RearmEntity, ResumeTenant
<1>9. CASE UNCHANGED vars
  BY <1>9, <1>same DEF vars
<1> QED
  BY <1>1, <1>2, <1>3, <1>4, <1>5, <1>6, <1>7, <1>8, <1>9
  DEF Next, Automatic, Work, Report

(* An enqueue folds or inserts without asking the unique index; the index  *)
(* would never have refused it.                                            *)
THEOREM UniqueStateJobs == Spec => []StateJobsAreUnique
<1>1. Init => ~Clash(jobs)
  BY DEF Init, Clash
<1>2. Spec => []~Clash(jobs)
  BY <1>1, InitOK, UniqueStep, NextKept, PTL DEF Spec
<1> QED
  BY <1>2, PTL DEF StateJobsAreUnique

-----------------------------------------------------------------------------
(* Progress is always possible: the oldest live job of a key is due, runs  *)
(* under a lease, or waits for a date.                                     *)

LEMMA LessIsWellFounded ==
  \E R : IsWellFoundedOn(R, Nat) /\ \A a, b \in Nat : a < b => <<a, b>> \in R
<1> DEFINE R == OpToRel(<, Nat)
<1>1. IsWellFoundedOn(R, Nat)
  BY NatLessThanWellFounded
<1>2. \A a, b \in Nat : a < b => <<a, b>> \in R
  BY DEF OpToRel
<1> HIDE DEF R
<1> QED
  BY <1>1, <1>2

LEMMA LeastElement ==
  ASSUME NEW S \in SUBSET Nat, S # {}
  PROVE  \E m \in S : \A k \in S : m <= k
<1>1. PICK R : IsWellFoundedOn(R, Nat) /\ \A a, b \in Nat : a < b => <<a, b>> \in R
  BY LessIsWellFounded
<1>2. S \subseteq Nat /\ IsWellFoundedOn(R, Nat)
  BY <1>1
<1>3. PICK m \in S : \A k \in S : ~(<<k, m>> \in R)
  BY <1>2, WFMin, Zenon
<1>4. \A k \in S : m \in Nat /\ k \in Nat /\ ~(k < m)
  BY <1>1, <1>3
<1> QED
  BY <1>4

LEMMA OldestMoves == JInv => NoJobIsStranded
<1> SUFFICES ASSUME JInv, NEW n \in DOMAIN jobs, jobs[n].state \in Live
             PROVE  \E m \in DOMAIN jobs :
                      /\ m <= n /\ jobs[m].what.order = jobs[n].what.order
                      /\ \/ IsDue(m)
                         \/ jobs[m].state = "processing" /\ jobs[m].live
                         \/ jobs[m].state = "retry" /\ ~jobs[m].due
  BY DEF NoJobIsStranded
<1> DEFINE S == {k \in DOMAIN jobs : /\ jobs[k].state \in Live
                                     /\ jobs[k].what.order = jobs[n].what.order}
<1>1. S \in SUBSET Nat /\ n \in S
  BY JInvJobs DEF JobSeq
<1>2. PICK m \in S : \A k \in S : m <= k
  BY <1>1, LeastElement
<1>3. /\ m \in DOMAIN jobs /\ jobs[m].state \in Live /\ m <= n
      /\ jobs[m].what.order = jobs[n].what.order
      /\ \A k \in DOMAIN jobs :
           k < m /\ jobs[k].what.order = jobs[m].what.order => jobs[k].state \notin Live
  BY <1>1, <1>2
<1> HIDE DEF S
<1>4. JobOK(jobs[m])
  BY <1>3 DEF JInv
<1>5. \/ jobs[m].due /\ ~jobs[m].live
      \/ jobs[m].state = "processing" /\ jobs[m].live
      \/ jobs[m].state = "retry" /\ ~jobs[m].due
  BY <1>4 DEF JobOK
<1>6. jobs[m].due /\ ~jobs[m].live => IsDue(m)
  BY <1>3 DEF IsDue
<1> QED
  BY <1>3, <1>5, <1>6

(* The safety half of EveryJobSettles: in no state does a live job wait    *)
(* for a job that nobody can take, that nobody runs and that has no date.  *)
THEOREM NoneStranded == Spec => []NoJobIsStranded
  BY OldestMoves, Inductive, PTL

-----------------------------------------------------------------------------
(* Ordering.  Without operators every job behind which another one of its  *)
(* key runs has left the queue.                                            *)

OldestRuns ==
  \A m, n \in DOMAIN jobs :
    /\ m < n
    /\ jobs[m].what.order = jobs[n].what.order
    /\ jobs[n].state = "processing"
    => jobs[m].state \notin Live

(* It is kept when no job is brought back into the queue, none is put      *)
(* before a running one, and only due jobs start to run.                   *)
LEMMA OrderKept ==
  ASSUME JInv, OldestRuns, DOMAIN jobs' = DOMAIN jobs,
         \A n \in DOMAIN jobs :
           /\ jobs'[n].what = jobs[n].what
           /\ jobs'[n].state \in Live => jobs[n].state \in Live
           /\ jobs'[n].state = "processing" => jobs[n].state = "processing" \/ IsDue(n)
  PROVE  OldestRuns'
<1> SUFFICES ASSUME NEW m \in DOMAIN jobs, NEW n \in DOMAIN jobs, m < n,
                    jobs[m].what.order = jobs[n].what.order,
                    jobs'[n].state = "processing"
             PROVE  jobs'[m].state \notin Live
  BY DEF OldestRuns
<1>1. CASE jobs[n].state = "processing"
  BY <1>1 DEF OldestRuns
<1>2. CASE IsDue(n)
  BY <1>2 DEF IsDue
<1> QED
  BY <1>1, <1>2

LEMMA OrderStep == JInv /\ OldestRuns /\ [Automatic]_vars => OldestRuns'
<1> SUFFICES ASSUME JInv, OldestRuns, [Automatic]_vars PROVE OldestRuns'
  OBVIOUS
<1>same. ASSUME UNCHANGED jobs PROVE OldestRuns'
  BY <1>same DEF OldestRuns
<1>quiet. ASSUME jobs' = [n \in DOMAIN jobs |-> jobs'[n]],
                 \A n \in DOMAIN jobs : Quiet(jobs[n], jobs'[n])
          PROVE  OldestRuns'
  BY <1>quiet, OrderKept DEF Quiet
<1>1. ASSUME NEW s \in Submission, Enqueue(s) PROVE OldestRuns'
  <2>1. ASSUME NEW k \in JobSeq \ DOMAIN jobs, DOMAIN jobs \cup {k} = 1..k,
               jobs' = [m \in 1..k |-> IF m = k THEN NewJob(s) ELSE jobs[m]]
        PROVE  OldestRuns'
    <3>1. /\ jobs'[k].state = "pending"
          /\ \A m \in 1..k : m # k => m \in DOMAIN jobs /\ jobs'[m] = jobs[m]
          /\ DOMAIN jobs' = 1..k /\ k \in 1..k
      BY <2>1, NewJobOK
    <3> SUFFICES ASSUME NEW m \in 1..k, NEW n \in 1..k, m < n,
                        jobs'[m].what.order = jobs'[n].what.order,
                        jobs'[n].state = "processing"
                 PROVE  jobs'[m].state \notin Live
      BY <3>1 DEF OldestRuns
    <3>2. n # k
      BY <3>1
    <3>3. m # k
      BY <3>2 DEF JobSeq
    <3> QED
      BY <3>1, <3>2, <3>3 DEF OldestRuns
  <2> QED
    BY <1>1, <2>1, <1>quiet, EnqueueFacts
<1>2. ASSUME NEW t \in Token, ClaimDue(t) PROVE OldestRuns'
  <2>1. PICK S \in SUBSET DOMAIN jobs :
          /\ \A n \in S : IsDue(n)
          /\ jobs' = [n \in DOMAIN jobs |-> IF n \in S THEN Claimed(jobs[n], t) ELSE jobs[n]]
    BY <1>2, ClaimFacts
  <2>2. \A n \in DOMAIN jobs :
          /\ jobs'[n].what = jobs[n].what
          /\ jobs'[n].state \in Live => jobs[n].state \in Live
          /\ jobs'[n].state = "processing" => jobs[n].state = "processing" \/ IsDue(n)
    BY <2>1, JInvJobs, ClaimedOK DEF IsOK, IsDue
  <2> QED
    BY <2>1, <2>2, OrderKept
<1>3. ASSUME NEW t \in Token, NEW n, NEW outcome \in Outcomes, Finish(t, n, outcome)
      PROVE  OldestRuns'
  <2>1. /\ jobs[n].state = "processing" /\ jobs'[n].state \in Reported
        /\ jobs'[n].what = jobs[n].what /\ DOMAIN jobs' = DOMAIN jobs
        /\ \A m \in DOMAIN jobs \ {n} : jobs'[m] = jobs[m]
    BY <1>3, FinishFacts DEF Holds
  <2> QED
    BY <2>1, OrderKept DEF Reported, Live
<1>4. ASSUME NEW t \in Token, NEW n, NEW outcome,
             FinishRefused(t, n, outcome) \/ Discard(t, n) \/ Crash(t)
      PROVE  OldestRuns'
  BY <1>4, <1>same DEF FinishRefused, Discard, Crash
<1>5. CASE \/ \E n \in DOMAIN jobs : BecomesDue(n)
           \/ \E t \in Token : LeaseRunsOut(t)
  BY <1>5, <1>quiet, ClockFacts
<1>6. ASSUME NEW n \in DOMAIN jobs, Purge(n) PROVE OldestRuns'
  <2>1. /\ jobs'[n].state = "purged" /\ jobs'[n].what = jobs[n].what
        /\ DOMAIN jobs' = DOMAIN jobs
        /\ \A m \in DOMAIN jobs \ {n} : jobs'[m] = jobs[m]
    BY <1>6, PurgeFacts
  <2> QED
    BY <2>1, OrderKept DEF Live, Waiting
<1>7. CASE UNCHANGED vars
  BY <1>7, <1>same DEF vars
<1> QED
  BY <1>1, <1>2, <1>3, <1>4, <1>5, <1>6, <1>7 DEF Automatic, Work, Report

(* "A key never runs two jobs at once" (claim_due), as long as no operator *)
(* re-arms or resumes a job.                                               *)
THEOREM OneRunner == AutomaticSpec => []OneRunnerPerKey
<1>1. Init => OldestRuns
  BY DEF Init, OldestRuns
<1>2. JInv /\ [Automatic]_vars => JInv'
  BY NextKept DEF Next
<1>3. JInv /\ OldestRuns => OneRunnerPerKey
  <2> SUFFICES ASSUME JInv, OldestRuns, NEW m \in DOMAIN jobs, NEW n \in DOMAIN jobs,
                      jobs[m].state = "processing", jobs[n].state = "processing",
                      jobs[m].what.order = jobs[n].what.order
               PROVE  m = n
    BY DEF OneRunnerPerKey
  <2>1. m \in Int /\ n \in Int
    BY JInvJobs DEF JobSeq
  <2>2. ~(m < n) /\ ~(n < m)
    BY DEF OldestRuns, Live
  <2> QED
    BY <2>1, <2>2
<1> QED
  BY <1>1, <1>2, <1>3, InitOK, OrderStep, PTL DEF AutomaticSpec

-----------------------------------------------------------------------------
(* Refinement: every step of the job queue is a step of LeaseQueue, or     *)
(* none.                                                                   *)

LEMMA RowPhases ==
  ASSUME NEW j
  PROVE  /\ j.state \in Waiting => RowPhase(j) = "waiting"
         /\ j.state = "processing" => RowPhase(j) = "held"
         /\ j.state \in Parked => RowPhase(j) = "parked"
         /\ j.state \in Finished \cup {"purged"} => RowPhase(j) = "closed"
  BY DEF RowPhase, Waiting, Parked, Finished

(* What LeaseQueue sees of a table that is rewritten job by job. *)
LEMMA RewrittenView ==
  ASSUME JInv, jobs' = [n \in DOMAIN jobs |-> jobs'[n]]
  PROVE  /\ \A n \in JobSeq \ DOMAIN jobs : Phases'[n] = Phases[n] /\ Holders'[n] = Holders[n]
         /\ \A n \in DOMAIN jobs : /\ n \in JobSeq
                                   /\ Phases[n] = RowPhase(jobs[n])
                                   /\ Phases'[n] = RowPhase(jobs'[n])
                                   /\ Holders[n] = jobs[n].token
                                   /\ Holders'[n] = jobs'[n].token
         /\ Phases' = [n \in JobSeq |-> Phases'[n]] /\ Holders' = [n \in JobSeq |-> Holders'[n]]
         /\ Phases = [n \in JobSeq |-> Phases[n]] /\ Holders = [n \in JobSeq |-> Holders[n]]
<1>1. DOMAIN jobs' = DOMAIN jobs /\ DOMAIN jobs \subseteq JobSeq
  BY DEF JInv, TypeOK
<1> QED
  BY <1>1 DEF Phases, Holders

LEMMA QuietView ==
  ASSUME JInv, jobs' = [n \in DOMAIN jobs |-> jobs'[n]],
         \A n \in DOMAIN jobs : Quiet(jobs[n], jobs'[n])
  PROVE  Phases' = Phases /\ Holders' = Holders
<1>1. \A n \in JobSeq : Phases'[n] = Phases[n] /\ Holders'[n] = Holders[n]
  BY RewrittenView DEF Quiet, RowPhase
<1> QED
  BY <1>1, RewrittenView

LEMMA InsertArranges ==
  ASSUME JInv, NEW s \in Submission, runs' = runs, NEW n \in JobSeq \ DOMAIN jobs,
         DOMAIN jobs \cup {n} = 1..n,
         jobs' = [m \in 1..n |-> IF m = n THEN NewJob(s) ELSE jobs[m]]
  PROVE  Queue!Arrange
<1>1. /\ DOMAIN jobs' = DOMAIN jobs \cup {n}
      /\ jobs'[n] = NewJob(s) /\ n \notin DOMAIN jobs
      /\ \A m \in DOMAIN jobs : jobs'[m] = jobs[m]
  BY DEF JobSeq
<1>2. RowPhase(NewJob(s)) = "waiting" /\ NewJob(s).token = NoToken
  BY NewJobOK, RowPhases DEF Waiting
<1>3. \A m \in JobSeq : Phases'[m] = Phases[m] \/ (Phases[m] = "absent" /\ Phases'[m] = "waiting")
  BY <1>1, <1>2 DEF Phases
<1>4. Holders' = Holders
  BY <1>1, <1>2 DEF Holders
<1>5. DOMAIN Phases' = JobSeq
  BY DEF Phases
<1> QED
  BY <1>3, <1>4, <1>5 DEF Queue!Arrange

LEMMA ClaimTakes ==
  ASSUME JInv, NEW t \in Token, ClaimDue(t)
  PROVE  \E S \in SUBSET JobSeq : Queue!Take(S, t)
<1>1. PICK S \in SUBSET DOMAIN jobs :
        /\ \A n \in S : IsDue(n)
        /\ jobs' = [n \in DOMAIN jobs |-> IF n \in S THEN Claimed(jobs[n], t) ELSE jobs[n]]
        /\ runs' = [runs EXCEPT ![t] = S]
  BY ClaimFacts
<1>2. /\ runs[t] = {} /\ \A n \in DOMAIN jobs : jobs[n].token # t
      /\ runs \in [Token -> SUBSET DOMAIN jobs] /\ DOMAIN jobs \subseteq JobSeq
  BY ClaimFacts DEF JInv, TypeOK
<1>3. \A n \in S : /\ RowPhase(jobs[n]) \in {"waiting", "held"}
                   /\ RowPhase(jobs'[n]) = "held" /\ jobs'[n].token = t
  BY <1>1, JInvJobs, ClaimedOK, RowPhases DEF IsOK, IsDue, Live
<1>4. jobs' = [n \in DOMAIN jobs |-> jobs'[n]] /\ \A n \in DOMAIN jobs \ S : jobs'[n] = jobs[n]
  BY <1>1
<1>5. \A n \in S : Phases[n] \in {"waiting", "held"}
  BY <1>2, <1>3 DEF Phases
<1>6. \A n \in JobSeq : Holders[n] # t
  BY <1>2, NoTokenIsNoToken DEF Holders
<1>7. Phases' = [n \in JobSeq |-> IF n \in S THEN "held" ELSE Phases[n]]
  BY <1>3, <1>4, RewrittenView
<1>8. Holders' = [n \in JobSeq |-> IF n \in S THEN t ELSE Holders[n]]
  BY <1>3, <1>4, RewrittenView
<1>9. runs' = [runs EXCEPT ![t] = @ \cup S]
  BY <1>1, <1>2
<1> QED
  BY <1>2, <1>5, <1>6, <1>7, <1>8, <1>9 DEF Queue!Take

LEMMA FinishSettles ==
  ASSUME JInv, NEW t \in Token, NEW n, NEW outcome \in Outcomes, Finish(t, n, outcome)
  PROVE  n \in JobSeq /\ Queue!Settle(n, t)
<1>1. /\ n \in runs[t] /\ n \in DOMAIN jobs /\ jobs[n].token = t
      /\ runs' = [runs EXCEPT ![t] = @ \ {n}]
      /\ jobs' = [m \in DOMAIN jobs |-> jobs'[m]]
      /\ jobs'[n].state \in Reported /\ jobs'[n].token = NoToken
      /\ \A m \in DOMAIN jobs \ {n} : jobs'[m] = jobs[m]
  BY FinishFacts DEF Holds
<1>2. RowPhase(jobs'[n]) \in {"waiting", "parked", "closed"}
  BY <1>1, RowPhases DEF Reported, Waiting, Parked, Finished
<1> DEFINE p == RowPhase(jobs'[n])
<1>3. Phases' = [Phases EXCEPT ![n] = p]
  BY <1>1, RewrittenView
<1>4. Holders' = [Holders EXCEPT ![n] = NoToken] /\ Holders[n] = t /\ n \in JobSeq
  BY <1>1, RewrittenView
<1>5. p \in {"waiting", "parked", "closed"}
  BY <1>2
<1> HIDE DEF p
<1> QED
  BY <1>1, <1>3, <1>4, <1>5 DEF Queue!Settle

LEMMA NextImplements == JInv /\ [Next]_vars => [Queue!Next]_(Queue!qvars)
<1> SUFFICES ASSUME JInv, [Next]_vars PROVE [Queue!Next]_(Queue!qvars)
  OBVIOUS
<1>arrange. Queue!Arrange \/ Queue!Revive => Queue!Next
  BY DEF Queue!Next
<1>quiet. ASSUME runs' = runs, jobs' = [n \in DOMAIN jobs |-> jobs'[n]],
                 \A n \in DOMAIN jobs : Quiet(jobs[n], jobs'[n])
          PROVE  UNCHANGED Queue!qvars
  BY <1>quiet, QuietView DEF Queue!qvars
<1>1. ASSUME NEW s \in Submission, Enqueue(s) PROVE [Queue!Next]_(Queue!qvars)
  BY <1>1, <1>quiet, <1>arrange, EnqueueFacts, InsertArranges
<1>2. ASSUME NEW t \in Token, ClaimDue(t) PROVE Queue!Next
  BY <1>2, ClaimTakes DEF Queue!Next
<1>3. ASSUME NEW t \in Token, NEW n, NEW outcome \in Outcomes, Finish(t, n, outcome)
      PROVE  Queue!Next
  BY <1>3, FinishSettles DEF Queue!Next
<1>4. ASSUME NEW t \in Token, NEW n, NEW outcome,
             FinishRefused(t, n, outcome) \/ Discard(t, n) \/ Crash(t)
      PROVE  Queue!Next
  <2>1. PICK S \in SUBSET runs[t] : UNCHANGED jobs /\ runs' = [runs EXCEPT ![t] = S]
    BY <1>4 DEF FinishRefused, Discard, Crash
  <2>2. Phases' = Phases /\ Holders' = Holders
    BY <2>1 DEF Phases, Holders
  <2>3. Queue!Forget(t)
    BY <2>1, <2>2 DEF Queue!Forget
  <2> QED
    BY <2>3 DEF Queue!Next
<1>5. CASE \/ \E n \in DOMAIN jobs : BecomesDue(n)
           \/ \E t \in Token : LeaseRunsOut(t)
  BY <1>5, <1>quiet, ClockFacts
<1>6. ASSUME NEW n \in DOMAIN jobs, Purge(n) PROVE UNCHANGED Queue!qvars
  <2>1. /\ runs' = runs /\ jobs[n].state \in Finished /\ jobs'[n].state = "purged"
        /\ jobs' = [m \in DOMAIN jobs |-> jobs'[m]] /\ jobs'[n].token = jobs[n].token
        /\ \A m \in DOMAIN jobs \ {n} : jobs'[m] = jobs[m]
    BY <1>6, PurgeFacts
  <2>2. RowPhase(jobs[n]) = "closed" /\ RowPhase(jobs'[n]) = "closed"
    BY <2>1, RowPhases
  <2>3. \A m \in JobSeq : Phases'[m] = Phases[m] /\ Holders'[m] = Holders[m]
    BY <2>1, <2>2, RewrittenView
  <2>4. Phases' = Phases /\ Holders' = Holders
    BY <2>1, <2>3, RewrittenView
  <2> QED
    BY <2>1, <2>4 DEF Queue!qvars
<1>7. CASE Operated
  <2>1. /\ runs' = runs /\ jobs' = [n \in DOMAIN jobs |-> jobs'[n]]
        /\ \A n \in DOMAIN jobs : jobs'[n] = jobs[n] \/ Revived(jobs[n], jobs'[n])
    BY <1>7, OperatedFacts
  <2>2. \A n \in DOMAIN jobs :
          /\ jobs'[n].token = jobs[n].token
          /\ \/ RowPhase(jobs'[n]) = RowPhase(jobs[n])
             \/ RowPhase(jobs[n]) = "parked" /\ RowPhase(jobs'[n]) = "waiting"
    BY <2>1, RowPhases DEF Revived, Waiting
  <2>3. \A n \in JobSeq : /\ Holders'[n] = Holders[n]
                          /\ \/ Phases'[n] = Phases[n]
                             \/ Phases[n] = "parked" /\ Phases'[n] = "waiting"
    BY <2>1, <2>2, RewrittenView
  <2>4. Holders' = Holders /\ DOMAIN Phases' = JobSeq
    BY <2>1, <2>3, RewrittenView DEF Phases
  <2> QED
    BY <2>1, <2>3, <2>4, <1>arrange DEF Queue!Revive
<1>8. CASE UNCHANGED vars
  BY <1>8 DEF vars, Queue!qvars, Phases, Holders
<1> QED
  BY <1>1, <1>2, <1>3, <1>4, <1>5, <1>6, <1>7, <1>8 DEF Next, Automatic, Work, Report

(* The job queue implements the leased work queue, with operators and the  *)
(* purge.                                                                  *)
THEOREM JobsImplement == Spec => IsLeaseQueue
<1>1. Init => Queue!Init
  BY DEF Init, Queue!Init, Phases, Holders
<1> QED
  BY <1>1, NextImplements, Inductive, PTL DEF Spec, IsLeaseQueue, Queue!Spec
=============================================================================
