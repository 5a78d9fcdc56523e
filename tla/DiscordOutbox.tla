---------------------------- MODULE DiscordOutbox ----------------------------
(***************************************************************************)
(* The tenant outbox of Discord effects                                    *)
(* (apps/backend/src/discord_delivery/outbox.rs).                          *)
(*                                                                         *)
(* Callers `emit` effects inside their own transactions; API instances     *)
(* claim due rows under a lease; the holder of a lease token executes the  *)
(* effect on Discord and reports with ack, fail or extend, all fenced by   *)
(* the token; periodic statements expire, reclaim and re-arm rows.  Every  *)
(* action is one SQL statement (or one short transaction) of the source.   *)
(*                                                                         *)
(* Clock times are abstracted to what the statements compare them with:    *)
(* `due` is available_at <= now, `expiry` says whether expires_at is unset,*)
(* ahead or past, `live` is lease_until > now.  Each of these flips in an  *)
(* action of its own, so clocks of different instances may disagree.       *)
(*                                                                         *)
(* A statement that would break the unique index uq_outbox_coalesce (one   *)
(* pending row per coalesce key) fails and leaves the table unchanged.     *)
(***************************************************************************)
EXTENDS EffectKinds, FiniteSets

CONSTANTS
  Effect,     \* the effects callers emit: [kind, entity, cause, suffix,
              \*   delayed (available_at ahead), expires (expires_at set)]
  Code,       \* error codes of config failures ("unconfigured:<field>")
  Token,      \* lease tokens; one that nobody holds any more counts as fresh
  Instance,   \* API instances that run claim_due
  ClaimLimit, \* the `limit` argument of claim_due
  MaxId       \* bound of the model: row ids are 1..MaxId

ASSUME OutboxConstants ==
  /\ \A e \in Effect : /\ e.kind \in EffectKind
                       /\ e.delayed \in BOOLEAN /\ e.expires \in BOOLEAN
                       /\ \A f \in Effect :
                            /\ CoalesceKey(e) # NoKey
                            /\ CoalesceKey(e) = CoalesceKey(f)
                            => MaxAttempts(e.kind) = MaxAttempts(f.kind)
  /\ ClaimLimit \in Nat \ {0}
  /\ MaxId \in Nat

NoCode  == "no code"
NoToken == "no token"

ASSUME NullsAreNotValues == NoCode \notin Code /\ NoToken \notin Token

VARIABLES
  rows,   \* the table discord_outbox: a function from row ids to rows
  batch,  \* batch[i]: candidate ids claim_due of instance i has still to try
  exec    \* exec[t]: the row the holder of token t is executing, 0 if none

vars == <<rows, batch, exec>>

Id == 1..MaxId

LiveState  == {"pending", "leased"}
FinalState == {"done", "skipped", "failed", "ambiguous", "superseded"}

Row == [state : LiveState \cup FinalState,
        effect : Effect,
        due : BOOLEAN,
        expiry : {"never", "ahead", "past"},
        attempts : Nat,
        token : Token \cup {NoToken},
        live : BOOLEAN,
        recovering : BOOLEAN,
        waiting : Code \cup {NoCode}]  \* code of a last_error_class = 'config'

TypeOK ==
  /\ DOMAIN rows \subseteq Id
  /\ rows \in [DOMAIN rows -> Row]
  /\ batch \in [Instance -> SUBSET DOMAIN rows]
  /\ exec \in [Token -> DOMAIN rows \cup {0}]

Init ==
  /\ rows = [id \in {} |-> 0]
  /\ batch = [i \in Instance |-> {}]
  /\ exec = [t \in Token |-> 0]

-----------------------------------------------------------------------------
(* The table.                                                              *)

Budget(r) == MaxAttempts(r.effect.kind)

SameEntity(e, f) ==
  EntityType(e.kind) = EntityType(f.kind) /\ e.entity = f.entity

IsPending(id) == rows[id].state = "pending"

(* Two pending rows of one coalesce key: what uq_outbox_coalesce refuses.  *)
Clash(table) ==
  \E i, j \in DOMAIN table :
    /\ i # j
    /\ table[i].state = "pending" /\ table[j].state = "pending"
    /\ CoalesceKey(table[i].effect) # NoKey
    /\ CoalesceKey(table[i].effect) = CoalesceKey(table[j].effect)

(* An UPDATE that returns rows to pending takes effect only when the       *)
(* unique index accepts the table it leads to.                             *)
Write(table) == ~Clash(table) /\ rows' = table

SetRow(id, r) == rows' = [rows EXCEPT ![id] = r]

WithoutLease(r) == [r EXCEPT !.token = NoToken, !.live = FALSE]

-----------------------------------------------------------------------------
(* emit *)

Expiry(e) == IF e.expires THEN "ahead" ELSE "never"

NewRow(e) ==
  [state |-> "pending", effect |-> e, due |-> ~e.delayed,
   expiry |-> Expiry(e), attempts |-> 0, token |-> NoToken, live |-> FALSE, recovering |-> FALSE,
   waiting |-> NoCode]

Inserted(table, id, r) ==
  [j \in DOMAIN table \cup {id} |-> IF j = id THEN r ELSE table[j]]

(* The pending row an emit of e is merged into. *)
CoalesceTargets(table, e) ==
  {j \in DOMAIN table : /\ table[j].state = "pending"
                        /\ CoalesceKey(table[j].effect) = CoalesceKey(e)}

(* The upsert: the latest emit is the row's intent; the earlier of the two *)
(* available_at wins; attempts and recovering stay.                        *)
Merged(r, e) ==
  [r EXCEPT !.effect = e,
            !.due = IF e.delayed THEN @ ELSE TRUE,
            !.expiry = Expiry(e)]

Superseded(r) == [r EXCEPT !.state = "superseded"]

(* supersede_earlier: only pending rows, whatever their id. *)
AfterSupersede(table, id, e) ==
  [j \in DOMAIN table |->
     IF /\ j # id
        /\ table[j].state = "pending"
        /\ SameEntity(table[j].effect, e)
        /\ table[j].effect.kind \in Supersedes(e.kind)
     THEN Superseded(table[j])
     ELSE table[j]]

EmitOnce(table, id, e) ==
  /\ OnceKey(e) # NoKey
  /\ \A j \in DOMAIN table : OnceKey(table[j].effect) # OnceKey(e)
  /\ id \notin DOMAIN table

EmitFirst(table, id, e) ==
  /\ CoalesceKey(e) # NoKey
  /\ CoalesceTargets(table, e) = {}
  /\ id \notin DOMAIN table

(* Row ids come from a sequence when the caller's transaction inserts, and *)
(* become visible when it commits: any unused id may appear next.  A once  *)
(* key that is already in the table makes emit a no-op (AlreadyDone).      *)
Emit(id, e) ==
  /\ IsValid(e)
  /\ \/ /\ EmitOnce(rows, id, e) \/ EmitFirst(rows, id, e)
        /\ rows' = AfterSupersede(Inserted(rows, id, NewRow(e)), id, e)
     \/ /\ CoalesceKey(e) # NoKey
        /\ id \in CoalesceTargets(rows, e)
        /\ rows' = AfterSupersede([rows EXCEPT ![id] = Merged(@, e)], id, e)
  /\ UNCHANGED <<batch, exec>>

-----------------------------------------------------------------------------
(* claim_due *)

(* Mutant of Claimable: any earlier row that is not done blocks the rest.  *)
ClaimableAfterDone(id) ==
  /\ IsPending(id)
  /\ rows[id].due
  /\ rows[id].expiry # "past"
  /\ \A e \in DOMAIN rows :
       e < id /\ SameEntity(rows[e].effect, rows[id].effect)
         => rows[e].state = "done"

Claimable(id) ==
  /\ IsPending(id)
  /\ rows[id].due
  /\ rows[id].expiry # "past"
  /\ \A e \in DOMAIN rows :
       e < id /\ SameEntity(rows[e].effect, rows[id].effect)
         => rows[e].state \notin LiveState

(* ORDER BY priority DESC, id ASC *)
Before(i, j) ==
  LET p == Priority(rows[i].effect.kind)
      q == Priority(rows[j].effect.kind)
  IN  p > q \/ (p = q /\ i < j)

(* S is the result of the candidate SELECT: the first ClaimLimit due rows. *)
IsCandidates(S) ==
  LET due == {id \in DOMAIN rows : Claimable(id)}
  IN  /\ S \subseteq due
      /\ \/ S = due /\ Cardinality(S) <= ClaimLimit
         \/ Cardinality(S) = ClaimLimit
      /\ \A id \in S, other \in due \ S : Before(id, other)

Select(i) ==
  /\ batch[i] = {}
  /\ \E S \in SUBSET DOMAIN rows :
       /\ S # {} /\ IsCandidates(S)
       /\ batch' = [batch EXCEPT ![i] = S]
  /\ UNCHANGED <<rows, exec>>

(* The candidate an instance tries next. *)
IsNext(i, id) ==
  /\ id \in batch[i]
  /\ \A other \in batch[i] \ {id} : Before(id, other)

(* A uuid nobody knows: neither written in a row nor held by an execution. *)
IsFresh(t) == exec[t] = 0 /\ \A id \in DOMAIN rows : rows[id].token # t

Leased(r, t) ==
  [r EXCEPT !.state = "leased", !.token = t, !.live = TRUE,
            !.attempts = @ + 1]

(* The conditional UPDATE repeats the whole due test, so a candidate that  *)
(* changed since the SELECT is passed over.                                *)
Claim(i, t) ==
  /\ IsFresh(t)
  /\ \E id \in batch[i] :
       /\ IsNext(i, id) /\ Claimable(id)
       /\ SetRow(id, Leased(rows[id], t))
       /\ exec' = [exec EXCEPT ![t] = id]
       /\ batch' = [batch EXCEPT ![i] = @ \ {id}]

PassOver(i) ==
  /\ \E id \in batch[i] :
       /\ IsNext(i, id) /\ ~Claimable(id)
       /\ batch' = [batch EXCEPT ![i] = @ \ {id}]
  /\ UNCHANGED <<rows, exec>>

-----------------------------------------------------------------------------
(* ack, fail and extend: the fence is `state = 'leased' AND lease_token`;  *)
(* whether the lease has run out is not asked.                             *)

(* Mutant of Holds: the fence forgets the token. *)
HoldsAnyToken(t, id) ==
  /\ id \in DOMAIN rows
  /\ rows[id].state = "leased"

Holds(t, id) ==
  /\ id \in DOMAIN rows
  /\ rows[id].state = "leased"
  /\ rows[id].token = t

Released(t) == exec' = [exec EXCEPT ![t] = 0]

Acked(r, outcome) ==
  [WithoutLease(r) EXCEPT !.state = outcome, !.recovering = FALSE]

Ack(t, outcome) ==
  LET id == exec[t]
  IN  /\ Holds(t, id)
      /\ SetRow(id, Acked(rows[id], outcome))
      /\ Released(t)
      /\ UNCHANGED batch

(* plan_failure, Retryable: count_attempt = false gives the claim's        *)
(* attempt back (saturating at 0).                                         *)
AttemptsAfter(r, counted) ==
  IF counted \/ r.attempts = 0 THEN r.attempts ELSE r.attempts - 1

(* Mutant of Retried: writes the retry state of the sync queue. *)
RetriedAsJob(r, counted) ==
  [WithoutLease(r) EXCEPT !.state = "retry",
                          !.attempts = AttemptsAfter(r, counted),
                          !.due = FALSE,
                          !.waiting = NoCode]

Retried(r, counted) ==
  [WithoutLease(r) EXCEPT !.state = "pending",
                          !.attempts = AttemptsAfter(r, counted),
                          !.due = FALSE,
                          !.waiting = NoCode]

(* plan_failure, the other classes. *)
Stopped(r, state, code) ==
  [WithoutLease(r) EXCEPT !.state = state, !.waiting = code]

Spent(r, counted) ==
  [WithoutLease(r) EXCEPT !.state = "failed",
                          !.attempts = AttemptsAfter(r, counted),
                          !.waiting = NoCode]

FailRetryable(t, counted) ==
  LET id == exec[t]
      r  == rows[id]
  IN  /\ Holds(t, id)
      /\ \/ /\ AttemptsAfter(r, counted) >= Budget(r)
            /\ SetRow(id, Spent(r, counted))
         \/ /\ AttemptsAfter(r, counted) < Budget(r)
            /\ Write([rows EXCEPT ![id] = Retried(r, counted)])
      /\ Released(t)
      /\ UNCHANGED batch

(* Config -> skipped; Permission, Gone, Fatal -> failed; Ambiguous ->      *)
(* ambiguous.                                                              *)
FailStopped(t, state, code) ==
  LET id == exec[t]
  IN  /\ Holds(t, id)
      /\ SetRow(id, Stopped(rows[id], state, code))
      /\ Released(t)
      /\ UNCHANGED batch

FailConfig(t) == \E code \in Code : FailStopped(t, "skipped", code)

FailFinal(t) ==
  \E state \in {"failed", "ambiguous"} : FailStopped(t, state, NoCode)

Extend(t) ==
  LET id == exec[t]
  IN  /\ Holds(t, id)
      /\ SetRow(id, [rows[id] EXCEPT !.live = TRUE])
      /\ UNCHANGED <<batch, exec>>

(* Any fenced call of a stale token answers Conflict: the caller discards  *)
(* its result.                                                             *)
LeaseLost(t) ==
  /\ exec[t] # 0
  /\ ~Holds(t, exec[t])
  /\ Released(t)
  /\ UNCHANGED <<rows, batch>>

(* The holder dies, or its result never arrives. *)
Crash(t) ==
  /\ exec[t] # 0
  /\ Released(t)
  /\ UNCHANGED <<rows, batch>>

-----------------------------------------------------------------------------
(* Maintenance statements: each is one UPDATE over all matching rows.      *)

ToExpire == {id \in DOMAIN rows : IsPending(id) /\ rows[id].expiry = "past"}

(* One UPDATE over the rows of S. *)
UpdateAll(S, New(_)) ==
  [id \in DOMAIN rows |-> IF id \in S THEN New(rows[id]) ELSE rows[id]]

Expired(r) == [r EXCEPT !.state = "skipped", !.waiting = NoCode]

ExpireDue ==
  /\ ToExpire # {}
  /\ rows' = UpdateAll(ToExpire, Expired)
  /\ UNCHANGED <<batch, exec>>

ToReclaim == {id \in DOMAIN rows : rows[id].state = "leased" /\ ~rows[id].live}

(* Mutants of Reclaimed: the attempt budget is not asked; the flag is only *)
(* set on rows that are not run again.                                     *)
ReclaimedUnbounded(r) ==
  [WithoutLease(r) EXCEPT !.state = "pending", !.recovering = TRUE]

ReclaimedSilently(r) ==
  IF r.attempts >= Budget(r)
  THEN [WithoutLease(r) EXCEPT !.state = "ambiguous", !.recovering = TRUE,
                               !.waiting = NoCode]
  ELSE [WithoutLease(r) EXCEPT !.state = "pending"]

Reclaimed(r) ==
  IF r.attempts >= Budget(r)
  THEN [WithoutLease(r) EXCEPT !.state = "ambiguous", !.recovering = TRUE,
                               !.waiting = NoCode]
  ELSE [WithoutLease(r) EXCEPT !.state = "pending", !.recovering = TRUE]

ReclaimExpired ==
  /\ ToReclaim # {}
  /\ Write(UpdateAll(ToReclaim, Reclaimed))
  /\ UNCHANGED <<batch, exec>>

(* Mutant of ToRearm: every skipped row is re-armed. *)
ToRearmAllSkipped(kinds, codes) ==
  {id \in DOMAIN rows : /\ rows[id].state = "skipped"
                        /\ rows[id].effect.kind \in kinds}

ToRearm(kinds, codes) ==
  {id \in DOMAIN rows : /\ rows[id].state = "skipped"
                        /\ rows[id].waiting \in codes
                        /\ rows[id].effect.kind \in kinds}

Rearmed(r) ==
  [r EXCEPT !.state = "pending", !.attempts = 0, !.due = TRUE,
            !.waiting = NoCode]

RearmConfig(kinds, codes) ==
  /\ ToRearm(kinds, codes) # {}
  /\ Write(UpdateAll(ToRearm(kinds, codes), Rearmed))
  /\ UNCHANGED <<batch, exec>>

-----------------------------------------------------------------------------
(* Time passes: an available_at, an expires_at or a lease_until is reached.*)

BecomesDue(id) ==
  /\ IsPending(id) /\ ~rows[id].due
  /\ SetRow(id, [rows[id] EXCEPT !.due = TRUE])
  /\ UNCHANGED <<batch, exec>>

Expires(id) ==
  /\ rows[id].expiry = "ahead"
  /\ rows[id].state \in LiveState \/ rows[id].waiting # NoCode
  /\ SetRow(id, [rows[id] EXCEPT !.expiry = "past"])
  /\ UNCHANGED <<batch, exec>>

LeaseRunsOut(id) ==
  /\ rows[id].state = "leased" /\ rows[id].live
  /\ SetRow(id, [rows[id] EXCEPT !.live = FALSE])
  /\ UNCHANGED <<batch, exec>>

-----------------------------------------------------------------------------

Kinds == {e.kind : e \in Effect}

Report(t) ==
  \/ \E outcome \in {"done", "skipped"} : Ack(t, outcome)
  \/ \E counted \in BOOLEAN : FailRetryable(t, counted)
  \/ FailConfig(t)
  \/ FailFinal(t)

Next ==
  \/ \E id \in Id, e \in Effect : Emit(id, e)
  \/ \E i \in Instance : Select(i) \/ PassOver(i) \/ \E t \in Token : Claim(i, t)
  \/ \E t \in Token : Report(t) \/ Extend(t) \/ LeaseLost(t) \/ Crash(t)
  \/ ExpireDue
  \/ ReclaimExpired
  \/ \E code \in Code : RearmConfig(Kinds, {code})
  \/ \E id \in DOMAIN rows : BecomesDue(id) \/ Expires(id) \/ LeaseRunsOut(id)

Spec == Init /\ [][Next]_vars

-----------------------------------------------------------------------------
(* Fairness.  Instances poll, the maintenance statements run on a timer    *)
(* and deadlines pass.  An execution that has not crashed eventually       *)
(* reports, and Discord does not answer "rate limited, do not count this   *)
(* attempt" for ever: infinitely many executions of a row bring a report   *)
(* that is counted.                                                        *)

CountedReport(t) ==
  \/ \E outcome \in {"done", "skipped"} : Ack(t, outcome)
  \/ FailRetryable(t, TRUE)
  \/ FailConfig(t)
  \/ FailFinal(t)

Poll(i) == Select(i) \/ PassOver(i) \/ \E t \in Token : Claim(i, t)

Fairness ==
  /\ \A i \in Instance : WF_vars(Poll(i))
  /\ \A t \in Token : WF_vars(Report(t) \/ LeaseLost(t))
  /\ \A id \in Id :
       /\ SF_vars(\E t \in Token : exec[t] = id /\ CountedReport(t))
       /\ WF_vars(id \in DOMAIN rows /\ BecomesDue(id))
       /\ WF_vars(id \in DOMAIN rows /\ LeaseRunsOut(id))
  /\ WF_vars(ReclaimExpired)
  /\ WF_vars(ExpireDue)

FairSpec == Spec /\ Fairness

-----------------------------------------------------------------------------
(* Properties.                                                             *)

(* A row in the queue always has an attempt left, and a claimed one has    *)
(* used between one and all of them: no sequence of claims, refunds,       *)
(* reclaims, coalesced emits and re-arms runs an effect more often than    *)
(* plan_failure and reclaim_expired allow, or leaves a spent row pending.  *)
AttemptsWithinBudget ==
  \A id \in DOMAIN rows :
    LET r == rows[id]
    IN  /\ r.state = "pending" => r.attempts < Budget(r)
        /\ r.state = "leased"  => r.attempts \in 1..Budget(r)

(* `recovering` means "a previous execution may have partially run": while *)
(* an execution whose lease was taken away is still out there, whoever     *)
(* runs the row next is told so, through retries, coalescing and re-arms.  *)
SuccessorIsWarned ==
  \A t \in Token :
    LET id == exec[t]
    IN  id # 0 /\ ~Holds(t, id) /\ rows[id].state \in LiveState
          => rows[id].recovering

IsClosed(r) ==
  \/ r.state \in FinalState \ {"skipped"}
  \/ r.state = "skipped" /\ r.waiting = NoCode

(* The recorded outcome of an effect never changes: no late report, emit,  *)
(* reclaim or re-arm reopens or rewrites a row that is done, failed,       *)
(* ambiguous, superseded, or skipped for another reason than configuration.*)
OutcomesAreFinal ==
  [][\A id \in DOMAIN rows : IsClosed(rows[id]) => rows'[id] = rows[id]]_vars

(* The strengthening the two invariants above need: a row has a token just *)
(* while it is leased, tokens are not shared, an execution only knows the  *)
(* row it was given, only parked rows wait for a code, and a parked row    *)
(* keeps the mark of an execution that is still out there.                 *)
TokensAreExclusive ==
  /\ \A id \in DOMAIN rows :
       rows[id].state = "leased" <=> rows[id].token # NoToken
  /\ \A i, j \in DOMAIN rows :
       rows[i].token = rows[j].token /\ rows[i].token # NoToken => i = j
  /\ \A t \in Token, id \in DOMAIN rows :
       rows[id].token = t /\ exec[t] # 0 => exec[t] = id

OnlyParkedRowsWait ==
  \A id \in DOMAIN rows :
    rows[id].waiting # NoCode => rows[id].state = "skipped"

StaleExecutionsAreMarked ==
  \A t \in Token :
    LET id == exec[t]
    IN  id # 0 /\ ~Holds(t, id) /\ ~IsClosed(rows[id]) => rows[id].recovering

IInv ==
  /\ TypeOK
  /\ AttemptsWithinBudget
  /\ TokensAreExclusive
  /\ OnlyParkedRowsWait
  /\ StaleExecutionsAreMarked

RowPhase(r) ==
  IF r.state = "pending" THEN "waiting"
  ELSE IF r.state = "leased" THEN "held"
  ELSE IF IsClosed(r) THEN "closed" ELSE "parked"

Phases  == [id \in Id |-> IF id \in DOMAIN rows THEN RowPhase(rows[id]) ELSE "absent"]
Holders == [id \in Id |-> IF id \in DOMAIN rows THEN rows[id].token ELSE NoToken]
Carried == [t \in Token |-> IF exec[t] = 0 THEN {} ELSE {exec[t]}]

Queue == INSTANCE LeaseQueue WITH
  Item <- Id, phase <- Phases, holder <- Holders, carries <- Carried

(* The outbox is a leased work queue: only the current token settles a row,*)
(* a stale holder changes nothing, and every row is where LeaseQueue says. *)
IsLeaseQueue == Queue!Spec

IsSettled(id) == id \in DOMAIN rows /\ rows[id].state \in FinalState

(* Two rows of one coalesce key, neither settled: they cannot both be      *)
(* written back to pending.                                                *)
IsBlockedByIndex ==
  \E i, j \in DOMAIN rows :
    /\ i # j
    /\ rows[i].state = "leased" /\ rows[j].state \in LiveState
    /\ CoalesceKey(rows[i].effect) # NoKey
    /\ CoalesceKey(rows[i].effect) = CoalesceKey(rows[j].effect)

(* One pending row per coalesce key, and one row for ever per once key: an *)
(* emit that races claims, reclaims, retries and re-arms of its own key    *)
(* never queues the same effect twice.                                     *)
KeysAreUnique ==
  /\ ~Clash(rows)
  /\ \A i, j \in DOMAIN rows :
       i # j /\ OnceKey(rows[i].effect) # NoKey
         => OnceKey(rows[i].effect) # OnceKey(rows[j].effect)

(* No row waits for something that can never come.  The oldest live row of *)
(* its entity can be claimed, waits for its date, is dropped by expire_due,*)
(* runs under a lease that will be over, or is taken back by a             *)
(* reclaim_expired the unique index accepts.  Only two live rows of one    *)
(* coalesce key, one of them leased, can make the index refuse.            *)
NoRowIsStranded ==
  \/ IsBlockedByIndex
  \/ \A id \in DOMAIN rows : rows[id].state \in LiveState =>
       \E j \in DOMAIN rows :
         /\ j <= id /\ SameEntity(rows[j].effect, rows[id].effect)
         /\ \/ Claimable(j)
            \/ IsPending(j) /\ ~rows[j].due
            \/ j \in ToExpire
            \/ rows[j].state = "leased" /\ rows[j].live
            \/ j \in ToReclaim /\ ~Clash(UpdateAll(ToReclaim, Reclaimed))

(* Every emitted effect is settled in the end, whatever crashes, retries   *)
(* and lost leases happen, unless settings are changed for ever or the     *)
(* outbox stays stuck for ever on the unique index of coalesce keys: that  *)
(* is the only way to starve a row.                                        *)
EveryEffectSettles ==
  \/ []<><<\E code \in Code : RearmConfig(Kinds, {code})>>_vars
  \/ <>[]IsBlockedByIndex
  \/ \A id \in Id : id \in DOMAIN rows ~> IsSettled(id)

(* reclaim_expired "returns leases whose deadline passed to the queue".    *)
LeasesAreReturned ==
  \A id \in Id :
    id \in DOMAIN rows /\ rows[id].state = "leased" /\ ~rows[id].live
      ~> id \in DOMAIN rows /\ (rows[id].state # "leased" \/ rows[id].live)
=============================================================================
