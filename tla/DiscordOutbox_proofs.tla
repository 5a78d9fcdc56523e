------------------------ MODULE DiscordOutbox_proofs -------------------------
(***************************************************************************)
(* Theorems of DiscordOutbox, for every set of effects, tokens and         *)
(* instances and any number of rows.                                       *)
(***************************************************************************)
EXTENDS DiscordOutbox, WellFoundedInduction, TLAPS

(* Every kind has a positive attempt budget. *)
LEMMA BudgetIsPositive ==
  ASSUME NEW k PROVE MaxAttempts(k) \in Nat /\ MaxAttempts(k) > 0
  BY AttemptBudgets DEF MaxAttempts

-----------------------------------------------------------------------------
(* Rows.  What each statement writes is a well-typed row.                  *)

LEMMA NewRowType ==
  ASSUME NEW e \in Effect PROVE NewRow(e) \in Row
<1>1. e.delayed \in BOOLEAN /\ Expiry(e) \in {"never", "ahead"}
  BY OutboxConstants DEF Expiry
<1> QED
  BY <1>1 DEF NewRow, Row, LiveState

LEMMA MergedType ==
  ASSUME NEW r \in Row, NEW e \in Effect PROVE Merged(r, e) \in Row
<1>1. e.delayed \in BOOLEAN /\ Expiry(e) \in {"never", "ahead"}
  BY OutboxConstants DEF Expiry
<1> QED
  BY <1>1 DEF Merged, Row

LEMMA LeasedType ==
  ASSUME NEW r \in Row, NEW t \in Token PROVE Leased(r, t) \in Row
<1>1. r.attempts + 1 \in Nat
  BY DEF Row
<1> QED
  BY <1>1 DEF Leased, Row, LiveState

LEMMA ReportedTypes ==
  ASSUME NEW r \in Row, NEW counted \in BOOLEAN,
         NEW s \in FinalState, NEW c \in Code \cup {NoCode}
  PROVE  /\ Acked(r, s) \in Row
         /\ Stopped(r, s, c) \in Row
         /\ Retried(r, counted) \in Row
         /\ Spent(r, counted) \in Row
         /\ AttemptsAfter(r, counted) \in Nat
         /\ AttemptsAfter(r, counted) <= r.attempts
<1>1. r.attempts \in Nat
  BY DEF Row
<1>2. /\ AttemptsAfter(r, counted) \in Nat
      /\ AttemptsAfter(r, counted) <= r.attempts
  BY <1>1 DEF AttemptsAfter
<1> QED
  BY <1>2 DEF Row, Acked, Stopped, Retried, Spent, WithoutLease, LiveState, FinalState

LEMMA MaintainedTypes ==
  ASSUME NEW r \in Row
  PROVE  /\ Expired(r) \in Row
         /\ Reclaimed(r) \in Row
         /\ Rearmed(r) \in Row
         /\ Superseded(r) \in Row
         /\ \A b \in BOOLEAN : [r EXCEPT !.live = b] \in Row
         /\ [r EXCEPT !.due = TRUE] \in Row
         /\ [r EXCEPT !.expiry = "past"] \in Row
  BY DEF Row, Expired, Reclaimed, Rearmed, WithoutLease, LiveState, FinalState, Superseded

-----------------------------------------------------------------------------
(* Tables.                                                                 *)

LEMMA SetRowType ==
  ASSUME TypeOK, NEW id \in DOMAIN rows, NEW r \in Row, SetRow(id, r),
         batch' \in [Instance -> SUBSET DOMAIN rows],
         exec' \in [Token -> DOMAIN rows \cup {0}]
  PROVE  TypeOK'
  BY DEF TypeOK, SetRow

LEMMA UpdateAllType ==
  ASSUME TypeOK, NEW S, DOMAIN rows' = DOMAIN rows,
         rows' = [id \in DOMAIN rows |-> rows'[id]],
         \A id \in DOMAIN rows : rows'[id] \in Row,
         UNCHANGED <<batch, exec>>
  PROVE  TypeOK'
  BY DEF TypeOK

LEMMA EmitType ==
  ASSUME TypeOK, NEW id \in Id, NEW e \in Effect, Emit(id, e)
  PROVE  TypeOK'
<1> USE DEF TypeOK
<1>row. \A j \in DOMAIN rows : rows[j] \in Row
  OBVIOUS
<1>1. ASSUME NEW T \in SUBSET Id, NEW table \in [T -> Row],
             DOMAIN rows \subseteq T, rows' = AfterSupersede(table, id, e)
      PROVE  TypeOK'
  BY <1>1, MaintainedTypes DEF AfterSupersede, Emit
<1>2. CASE rows' = AfterSupersede(Inserted(rows, id, NewRow(e)), id, e)
  <2>1. Inserted(rows, id, NewRow(e)) \in [DOMAIN rows \cup {id} -> Row]
    BY <1>row, NewRowType DEF Inserted
  <2> QED
    BY <1>1, <1>2, <2>1
<1>3. CASE /\ id \in CoalesceTargets(rows, e)
           /\ rows' = AfterSupersede([rows EXCEPT ![id] = Merged(@, e)], id, e)
  <2>1. id \in DOMAIN rows
    BY <1>3 DEF CoalesceTargets
  <2>2. [rows EXCEPT ![id] = Merged(@, e)] \in [DOMAIN rows -> Row]
    BY <1>row, <2>1, MergedType
  <2> QED
    BY <1>1, <1>3, <2>2
<1> QED
  BY <1>2, <1>3 DEF Emit

(* The type invariant is kept by every action. *)
LEMMA NextType == TypeOK /\ [Next]_vars => TypeOK'
<1> SUFFICES ASSUME TypeOK, [Next]_vars PROVE TypeOK'
  OBVIOUS
<1>row. \A id \in DOMAIN rows : rows[id] \in Row /\ id \in Id
  BY DEF TypeOK
<1>1. ASSUME NEW id \in Id, NEW e \in Effect, Emit(id, e) PROVE TypeOK'
  BY <1>1, EmitType
<1>2. ASSUME NEW i \in Instance, Select(i) PROVE TypeOK'
  BY <1>2 DEF Select, TypeOK
<1>3. ASSUME NEW i \in Instance, PassOver(i) PROVE TypeOK'
  BY <1>3 DEF PassOver, TypeOK
<1>4. ASSUME NEW i \in Instance, NEW t \in Token, Claim(i, t) PROVE TypeOK'
  <2>1. PICK id \in batch[i] : /\ Claimable(id)
                               /\ SetRow(id, Leased(rows[id], t))
                               /\ exec' = [exec EXCEPT ![t] = id]
                               /\ batch' = [batch EXCEPT ![i] = @ \ {id}]
    BY <1>4 DEF Claim
  <2>2. id \in DOMAIN rows /\ id \in Id
    BY <2>1 DEF Claimable, IsPending, TypeOK
  <2>3. Leased(rows[id], t) \in Row
    BY <1>row, <2>2, LeasedType
  <2> QED
    BY <2>1, <2>2, <2>3, SetRowType DEF TypeOK
<1>5. ASSUME NEW t \in Token, Report(t) PROVE TypeOK'
  <2>1. PICK r \in Row : Holds(t, exec[t]) /\ SetRow(exec[t], r)
    <3> DEFINE q == rows[exec[t]]
    <3>1. Holds(t, exec[t]) => q \in Row
      BY <1>row DEF Holds
    <3>2. ASSUME NEW outcome \in {"done", "skipped"}, Ack(t, outcome)
          PROVE  Holds(t, exec[t]) /\ SetRow(exec[t], Acked(q, outcome)) /\ Acked(q, outcome) \in Row
      BY <3>1, <3>2, ReportedTypes DEF Ack, FinalState
    <3>3. ASSUME NEW counted \in BOOLEAN, FailRetryable(t, counted)
          PROVE  /\ Holds(t, exec[t])
                 /\ \/ SetRow(exec[t], Spent(q, counted))
                    \/ SetRow(exec[t], Retried(q, counted))
                 /\ Spent(q, counted) \in Row /\ Retried(q, counted) \in Row
      BY <3>1, <3>3, ReportedTypes DEF FailRetryable, FinalState, Write, SetRow
    <3>4. ASSUME NEW s \in FinalState, NEW c \in Code \cup {NoCode}, FailStopped(t, s, c)
          PROVE  Holds(t, exec[t]) /\ SetRow(exec[t], Stopped(q, s, c)) /\ Stopped(q, s, c) \in Row
      BY <3>1, <3>4, ReportedTypes DEF FailStopped
    <3> HIDE DEF q
    <3> QED
      BY <1>5, <3>2, <3>3, <3>4 DEF Report, FailConfig, FailFinal, FinalState
  <2>2. batch' = batch /\ exec' = [exec EXCEPT ![t] = 0]
    BY <1>5 DEF Report, Ack, FailRetryable, FailConfig, FailFinal, FailStopped, Released
  <2> QED
    BY <2>1, <2>2, SetRowType DEF Holds, TypeOK
<1>6. ASSUME NEW t \in Token, Extend(t) PROVE TypeOK'
  BY <1>row, <1>6, MaintainedTypes, SetRowType DEF Extend, Holds, TypeOK
<1>7. ASSUME NEW t \in Token, LeaseLost(t) \/ Crash(t) PROVE TypeOK'
  BY <1>7 DEF LeaseLost, Crash, Released, TypeOK
<1>8. ASSUME ExpireDue PROVE TypeOK'
  BY <1>row, <1>8, MaintainedTypes DEF ExpireDue, UpdateAll, TypeOK
<1>9. ASSUME ReclaimExpired PROVE TypeOK'
  BY <1>row, <1>9, MaintainedTypes DEF ReclaimExpired, Write, UpdateAll, TypeOK
<1>10. ASSUME NEW code \in Code, RearmConfig(Kinds, {code}) PROVE TypeOK'
  BY <1>row, <1>10, MaintainedTypes DEF RearmConfig, Write, UpdateAll, TypeOK
<1>11. ASSUME NEW id \in DOMAIN rows, BecomesDue(id) \/ Expires(id) \/ LeaseRunsOut(id)
       PROVE TypeOK'
  BY <1>row, <1>11, MaintainedTypes, SetRowType DEF BecomesDue, Expires, LeaseRunsOut, TypeOK
<1>12. CASE UNCHANGED vars
  BY <1>12 DEF vars, TypeOK
<1> QED
  BY <1>1, <1>2, <1>3, <1>4, <1>5, <1>6, <1>7, <1>8, <1>9, <1>10, <1>11, <1>12 DEF Next

(* Every reachable table is well typed. *)
THEOREM TypeCorrect == Spec => []TypeOK
<1>1. Init => TypeOK
  BY DEF Init, TypeOK, Id
<1> QED
  BY <1>1, NextType, PTL DEF Spec

-----------------------------------------------------------------------------
(* The part of the inductive invariant that is about one row.              *)

RowOK(r) ==
  /\ r.state = "pending" => r.attempts < Budget(r)
  /\ r.state = "leased" => r.attempts \in 1..Budget(r)
  /\ r.state = "leased" <=> r.token # NoToken
  /\ r.waiting # NoCode => r.state = "skipped"

LEMMA BudgetType == ASSUME NEW r PROVE Budget(r) \in Nat /\ Budget(r) > 0
  BY BudgetIsPositive DEF Budget

LEMMA NewRowOK == ASSUME NEW e \in Effect PROVE RowOK(NewRow(e))
  BY BudgetIsPositive DEF RowOK, NewRow, Budget

(* Merging keeps the budget: effects of one coalesce key share it.         *)
LEMMA MergedOK ==
  ASSUME NEW r \in Row, RowOK(r), NEW e \in Effect,
         CoalesceKey(e) # NoKey, CoalesceKey(r.effect) = CoalesceKey(e)
  PROVE  RowOK(Merged(r, e))
<1>1. MaxAttempts(r.effect.kind) = MaxAttempts(e.kind)
  BY OutboxConstants DEF Row
<1>2. /\ Merged(r, e).state = r.state /\ Merged(r, e).attempts = r.attempts
      /\ Merged(r, e).token = r.token /\ Merged(r, e).waiting = r.waiting
      /\ Merged(r, e).effect = e
  BY DEF Merged, Row
<1> QED
  BY <1>1, <1>2 DEF RowOK, Budget

LEMMA LeasedOK ==
  ASSUME NEW r \in Row, RowOK(r), r.state = "pending", NEW t \in Token
  PROVE  RowOK(Leased(r, t))
<1>1. /\ Leased(r, t).state = "leased" /\ Leased(r, t).attempts = r.attempts + 1
      /\ Leased(r, t).token = t /\ Leased(r, t).waiting = r.waiting
      /\ Leased(r, t).effect = r.effect
  BY DEF Leased, Row
<1>2. r.attempts \in Nat
  BY DEF Row
<1> QED
  BY <1>1, <1>2, BudgetType, NullsAreNotValues DEF RowOK, Budget

LEMMA ReportedOK ==
  ASSUME NEW r \in Row, RowOK(r), r.state = "leased", NEW counted \in BOOLEAN,
         NEW c \in Code \cup {NoCode}
  PROVE  /\ \A s \in {"done", "skipped"} : RowOK(Acked(r, s))
         /\ \A s \in {"failed", "ambiguous"} : RowOK(Stopped(r, s, NoCode))
         /\ RowOK(Stopped(r, "skipped", c))
         /\ RowOK(Spent(r, counted))
         /\ AttemptsAfter(r, counted) < Budget(r) => RowOK(Retried(r, counted))
<1>1. \A s \in {"done", "skipped"} : RowOK(Acked(r, s))
  BY DEF RowOK, Acked, WithoutLease, Row
<1>2. /\ \A s \in {"failed", "ambiguous"} : RowOK(Stopped(r, s, NoCode))
      /\ RowOK(Stopped(r, "skipped", c))
  BY DEF RowOK, Stopped, WithoutLease, Row
<1>3. RowOK(Spent(r, counted))
  BY DEF RowOK, Spent, WithoutLease, Row
<1>4. /\ Retried(r, counted).state = "pending"
      /\ Retried(r, counted).attempts = AttemptsAfter(r, counted)
      /\ Retried(r, counted).token = NoToken
      /\ Retried(r, counted).waiting = NoCode
      /\ Retried(r, counted).effect = r.effect
  BY DEF Retried, WithoutLease, Row
<1> QED
  BY <1>1, <1>2, <1>3, <1>4 DEF RowOK, Budget

LEMMA MaintainedOK ==
  ASSUME NEW r \in Row, RowOK(r)
  PROVE  /\ r.state = "pending" => RowOK(Expired(r))
         /\ r.state = "leased" => RowOK(Reclaimed(r))
         /\ r.state = "skipped" => RowOK(Rearmed(r))
         /\ r.state = "pending" => RowOK(Superseded(r))
         /\ \A b \in BOOLEAN : RowOK([r EXCEPT !.live = b])
         /\ RowOK([r EXCEPT !.due = TRUE])
         /\ RowOK([r EXCEPT !.expiry = "past"])
<1>1. r.state = "pending" => RowOK(Expired(r))
  BY DEF RowOK, Expired, Row
<1>2. r.state = "leased" => RowOK(Reclaimed(r))
  <2>1. Budget(r) \in Nat /\ r.attempts \in Nat
    BY BudgetType DEF Row
  <2>2. CASE r.attempts >= Budget(r)
    BY <2>2 DEF RowOK, Reclaimed, WithoutLease, Row
  <2>3. CASE ~(r.attempts >= Budget(r))
    <3>1. /\ Reclaimed(r).state = "pending" /\ Reclaimed(r).token = NoToken
          /\ Reclaimed(r).attempts = r.attempts /\ Reclaimed(r).effect = r.effect
          /\ Reclaimed(r).waiting = r.waiting
      BY <2>3 DEF Reclaimed, WithoutLease, Row
    <3> QED
      BY <2>1, <2>3, <3>1 DEF RowOK, Budget
  <2> QED
    BY <2>2, <2>3
<1>3. r.state = "skipped" => RowOK(Rearmed(r))
  <2>1. /\ Rearmed(r).state = "pending" /\ Rearmed(r).token = r.token
        /\ Rearmed(r).attempts = 0 /\ Rearmed(r).waiting = NoCode
    BY DEF Rearmed, Row
  <2> QED
    BY <2>1, BudgetType DEF RowOK
<1>4. r.state = "pending" => RowOK(Superseded(r))
  BY DEF RowOK, Row, Superseded
<1>5. \A b \in BOOLEAN : RowOK([r EXCEPT !.live = b])
  BY DEF RowOK, Row, Budget
<1>6. RowOK([r EXCEPT !.due = TRUE]) /\ RowOK([r EXCEPT !.expiry = "past"])
  BY DEF RowOK, Row, Budget
<1> QED
  BY <1>1, <1>2, <1>3, <1>4, <1>5, <1>6
-----------------------------------------------------------------------------
(* The inductive invariant.  Besides RowOK it says that tokens are         *)
(* exclusive and that executions whose lease was taken away have left a    *)
(* mark.  Both are kept by a step that only drops tokens and executions    *)
(* and changes no row under an execution without closing or marking it.    *)

(* Row r may become r2 as far as the execution of token u is concerned. *)
Keeps(u, r, r2) ==
  \/ IsClosed(r2)
  \/ r2.recovering
  \/ /\ ~IsClosed(r)
     /\ r.recovering => r2.recovering
     /\ r.state = "leased" /\ r.token = u => r2.state = "leased" /\ r2.token = u

(* What every statement but claim and the reports does to a row. *)
QuietStep(r, r2) ==
  /\ RowOK(r2)
  /\ r2.token \in {r.token, NoToken}
  /\ \A u \in Token : Keeps(u, r, r2)

LEMMA IInvRows ==
  ASSUME IInv PROVE \A id \in DOMAIN rows : rows[id] \in Row /\ RowOK(rows[id])
  BY DEF IInv, TypeOK, RowOK, AttemptsWithinBudget, TokensAreExclusive, OnlyParkedRowsWait

LEMMA IInvKept ==
  ASSUME IInv, TypeOK',
         DOMAIN rows \subseteq DOMAIN rows',
         \A id \in DOMAIN rows' : RowOK(rows'[id]),
         \A id \in DOMAIN rows' \ DOMAIN rows : rows'[id].token = NoToken,
         \A id \in DOMAIN rows : rows'[id].token \in {rows[id].token, NoToken},
         \A u \in Token : exec'[u] \in {exec[u], 0},
         \A u \in Token : exec'[u] # 0 => Keeps(u, rows[exec[u]], rows'[exec[u]])
  PROVE  IInv'
<1>1. AttemptsWithinBudget' /\ OnlyParkedRowsWait'
  BY DEF RowOK, AttemptsWithinBudget, OnlyParkedRowsWait, Budget
<1>2. TokensAreExclusive'
  <2>1. \A id \in DOMAIN rows' : rows'[id].state = "leased" <=> rows'[id].token # NoToken
    BY DEF RowOK
  <2>2. \A id \in DOMAIN rows' : rows'[id].token # NoToken
          => id \in DOMAIN rows /\ rows'[id].token = rows[id].token
    OBVIOUS
  <2>3. \A i, j \in DOMAIN rows' :
          rows'[i].token = rows'[j].token /\ rows'[i].token # NoToken => i = j
    BY <2>2 DEF IInv, TokensAreExclusive
  <2>4. \A t \in Token, id \in DOMAIN rows' :
          rows'[id].token = t /\ exec'[t] # 0 => exec'[t] = id
    BY <2>2, NullsAreNotValues DEF IInv, TokensAreExclusive
  <2> QED
    BY <2>1, <2>3, <2>4 DEF TokensAreExclusive
<1>3. StaleExecutionsAreMarked'
  <2> SUFFICES ASSUME NEW t \in Token, exec'[t] # 0,
                      ~(/\ exec'[t] \in DOMAIN rows'
                        /\ rows'[exec'[t]].state = "leased"
                        /\ rows'[exec'[t]].token = t),
                      ~IsClosed(rows'[exec'[t]])
               PROVE  rows'[exec'[t]].recovering
    BY DEF StaleExecutionsAreMarked, Holds, IsClosed
  <2>1. exec'[t] = exec[t] /\ exec[t] \in DOMAIN rows
    BY DEF IInv, TypeOK
  <2>2. CASE rows'[exec[t]].recovering
    BY <2>1, <2>2
  <2>3. CASE ~rows'[exec[t]].recovering
    <3>1. ~IsClosed(rows[exec[t]]) /\ ~Holds(t, exec[t])
      BY <2>1, <2>3 DEF Keeps, Holds
    <3>2. rows[exec[t]].recovering
      BY <2>1, <3>1 DEF IInv, StaleExecutionsAreMarked
    <3> QED
      BY <2>1, <2>3, <3>2 DEF Keeps
  <2> QED
    BY <2>2, <2>3
<1> QED
  BY <1>1, <1>2, <1>3 DEF IInv
LEMMA QuietRows ==
  ASSUME NEW r \in Row, RowOK(r)
  PROVE  /\ QuietStep(r, r)
         /\ r.state = "pending" => QuietStep(r, Expired(r))
         /\ r.state = "leased" => QuietStep(r, Reclaimed(r))
         /\ r.state = "skipped" /\ r.waiting # NoCode => QuietStep(r, Rearmed(r))
         /\ r.state = "pending" => QuietStep(r, Superseded(r))
         /\ \A b \in BOOLEAN : QuietStep(r, [r EXCEPT !.live = b])
         /\ QuietStep(r, [r EXCEPT !.due = TRUE])
         /\ QuietStep(r, [r EXCEPT !.expiry = "past"])
<1> USE MaintainedOK
<1>1. QuietStep(r, r)
  BY DEF QuietStep, Keeps, Row
<1>2. r.state = "pending" => QuietStep(r, Expired(r))
  <2>1. /\ Expired(r).token = r.token /\ Expired(r).state = "skipped"
        /\ Expired(r).waiting = NoCode
    BY DEF Expired, Row
  <2> QED
    BY <2>1 DEF QuietStep, Keeps, IsClosed
<1>3. r.state = "leased" => QuietStep(r, Reclaimed(r))
  <2>1. Reclaimed(r).token = NoToken /\ Reclaimed(r).recovering
    BY DEF Reclaimed, WithoutLease, Row
  <2> QED
    BY <2>1 DEF QuietStep, Keeps
<1>4. r.state = "skipped" /\ r.waiting # NoCode => QuietStep(r, Rearmed(r))
  <2>1. /\ Rearmed(r).token = r.token /\ Rearmed(r).state = "pending"
        /\ Rearmed(r).recovering = r.recovering
    BY DEF Rearmed, Row
  <2> QED
    BY <2>1 DEF QuietStep, Keeps, IsClosed, FinalState
<1>5. r.state = "pending" => QuietStep(r, Superseded(r))
  BY DEF QuietStep, Keeps, IsClosed, FinalState, Row, Superseded
<1>6. \A b \in BOOLEAN : QuietStep(r, [r EXCEPT !.live = b])
  BY DEF QuietStep, Keeps, IsClosed, Row
<1>7. QuietStep(r, [r EXCEPT !.due = TRUE]) /\ QuietStep(r, [r EXCEPT !.expiry = "past"])
  BY DEF QuietStep, Keeps, IsClosed, Row
<1> QED
  BY <1>1, <1>2, <1>3, <1>4, <1>5, <1>6, <1>7

LEMMA QuietMerge ==
  ASSUME NEW r \in Row, RowOK(r), r.state = "pending", NEW e \in Effect,
         CoalesceKey(e) # NoKey, CoalesceKey(r.effect) = CoalesceKey(e)
  PROVE  QuietStep(r, Merged(r, e))
<1>1. /\ Merged(r, e).token = r.token /\ Merged(r, e).state = "pending"
      /\ Merged(r, e).recovering = r.recovering
  BY DEF Merged, Row
<1> QED
  BY <1>1, MergedOK DEF QuietStep, Keeps, IsClosed, FinalState

(* supersede_earlier leaves a row alone or supersedes it while pending. *)
LEMMA QuietSupersede ==
  ASSUME NEW r \in Row, RowOK(r), NEW r2,
         \/ r2 = r
         \/ r.state = "pending" /\ r2 = Superseded(r)
  PROVE  QuietStep(r, r2)
<1>1. CASE r2 = r
  BY <1>1, QuietRows
<1>2. CASE r.state = "pending" /\ r2 = Superseded(r)
  <2>1. QuietStep(r, Superseded(r))
    BY <1>2, QuietRows
  <2> QED
    BY <1>2, <2>1
<1> QED
  BY <1>1, <1>2

(* A statement that changes rows quietly keeps the invariant. *)
LEMMA QuietKept ==
  ASSUME IInv, TypeOK', DOMAIN rows' = DOMAIN rows,
         \A id \in DOMAIN rows : QuietStep(rows[id], rows'[id]),
         \A u \in Token : exec'[u] \in {exec[u], 0}
  PROVE  IInv'
<1>1. \A u \in Token : exec'[u] # 0 => exec[u] \in DOMAIN rows
  BY DEF IInv, TypeOK
<1> QED
  BY <1>1, IInvKept DEF QuietStep

LEMMA EmitKept ==
  ASSUME IInv, NEW id \in Id, NEW e \in Effect, Emit(id, e)
  PROVE  IInv'
<1>type. TypeOK'
  BY EmitType DEF IInv
<1>rows. \A j \in DOMAIN rows : rows[j] \in Row /\ RowOK(rows[j])
  BY IInvRows
<1>exec. exec' = exec /\ \A u \in Token : exec[u] # 0 => exec[u] \in DOMAIN rows
  BY DEF Emit, IInv, TypeOK
<1>1. CASE /\ id \notin DOMAIN rows
           /\ rows' = AfterSupersede(Inserted(rows, id, NewRow(e)), id, e)
  <2> DEFINE table == Inserted(rows, id, NewRow(e))
  <2>1. /\ DOMAIN table = DOMAIN rows \cup {id}
        /\ table[id] = NewRow(e)
        /\ \A j \in DOMAIN rows : table[j] = rows[j]
    BY <1>1 DEF Inserted
  <2> HIDE DEF table
  <2>2. /\ DOMAIN rows' = DOMAIN rows \cup {id}
        /\ rows'[id] = NewRow(e)
        /\ \A j \in DOMAIN rows :
             \/ rows'[j] = rows[j]
             \/ rows[j].state = "pending" /\ rows'[j] = Superseded(rows[j])
    BY <1>1, <2>1 DEF AfterSupersede, table
  <2>3. \A j \in DOMAIN rows : QuietStep(rows[j], rows'[j])
    BY <1>rows, <2>2, QuietSupersede
  <2>4. RowOK(NewRow(e)) /\ NewRow(e).token = NoToken
    BY NewRowOK DEF NewRow
  <2>5. \A j \in DOMAIN rows' : RowOK(rows'[j])
    BY <2>2, <2>3, <2>4 DEF QuietStep
  <2> QED
    BY <1>type, <1>exec, <2>2, <2>3, <2>4, <2>5, IInvKept DEF QuietStep
<1>2. CASE /\ CoalesceKey(e) # NoKey
           /\ id \in CoalesceTargets(rows, e)
           /\ rows' = AfterSupersede([rows EXCEPT ![id] = Merged(@, e)], id, e)
  <2>1. /\ id \in DOMAIN rows /\ rows[id].state = "pending"
        /\ CoalesceKey(rows[id].effect) = CoalesceKey(e)
    BY <1>2 DEF CoalesceTargets
  <2>2. /\ DOMAIN rows' = DOMAIN rows
        /\ rows'[id] = Merged(rows[id], e)
        /\ \A j \in DOMAIN rows \ {id} :
             \/ rows'[j] = rows[j]
             \/ rows[j].state = "pending" /\ rows'[j] = Superseded(rows[j])
    BY <1>2, <2>1 DEF AfterSupersede
  <2>3. QuietStep(rows[id], rows'[id])
    BY <1>2, <1>rows, <2>1, <2>2, QuietMerge
  <2>4. \A j \in DOMAIN rows \ {id} : QuietStep(rows[j], rows'[j])
    BY <1>rows, <2>2, QuietSupersede
  <2> QED
    BY <1>type, <1>exec, <2>2, <2>3, <2>4, QuietKept
<1> QED
  BY <1>1, <1>2 DEF Emit, EmitOnce, EmitFirst
LEMMA ClaimKept ==
  ASSUME IInv, TypeOK', NEW i \in Instance, NEW t \in Token, Claim(i, t)
  PROVE  IInv'
<1>rows. \A j \in DOMAIN rows : rows[j] \in Row /\ RowOK(rows[j])
  BY IInvRows
<1> PICK id \in batch[i] : /\ Claimable(id)
                           /\ SetRow(id, Leased(rows[id], t))
                           /\ exec' = [exec EXCEPT ![t] = id]
  BY DEF Claim
<1>1. id \in DOMAIN rows /\ rows[id].state = "pending" /\ id \in Id
  BY DEF Claimable, IsPending, IInv, TypeOK
<1> DEFINE r == rows'[id]
<1>2. r = Leased(rows[id], t)
  BY <1>1 DEF SetRow
<1>3. r.state = "leased" /\ r.token = t /\ RowOK(r) /\ r.recovering = rows[id].recovering
  <2>1. rows[id] \in Row /\ RowOK(Leased(rows[id], t))
    BY <1>rows, <1>1, LeasedOK
  <2> QED
    BY <1>2, <2>1 DEF Leased, Row
<1>4. /\ DOMAIN rows' = DOMAIN rows
      /\ \A j \in DOMAIN rows \ {id} : rows'[j] = rows[j]
  BY DEF SetRow
<1>5. /\ \A u \in Token \ {t} : exec'[u] = exec[u]
      /\ exec'[t] = id
  BY DEF IInv, TypeOK
<1>6. /\ exec[t] = 0 /\ \A j \in DOMAIN rows : rows[j].token # t
      /\ t # NoToken
  BY NullsAreNotValues DEF Claim, IsFresh
<1> HIDE DEF r
<1>7. \A j \in DOMAIN rows' : RowOK(rows'[j])
  BY <1>rows, <1>3, <1>4 DEF r
<1>8. TokensAreExclusive'
  <2>1. \A j \in DOMAIN rows' : rows'[j].state = "leased" <=> rows'[j].token # NoToken
    BY <1>7 DEF RowOK
  <2>2. \A j, k \in DOMAIN rows' :
          rows'[j].token = rows'[k].token /\ rows'[j].token # NoToken => j = k
    BY <1>3, <1>4, <1>6 DEF r, IInv, TokensAreExclusive
  <2>3. \A u \in Token, j \in DOMAIN rows' :
          rows'[j].token = u /\ exec'[u] # 0 => exec'[u] = j
    BY <1>3, <1>4, <1>5, <1>6 DEF r, IInv, TokensAreExclusive
  <2> QED
    BY <2>1, <2>2, <2>3 DEF TokensAreExclusive
<1>9. StaleExecutionsAreMarked'
  <2> SUFFICES ASSUME NEW u \in Token, exec'[u] # 0,
                      ~Holds(u, exec[u])', ~IsClosed(rows'[exec'[u]])
               PROVE  rows'[exec'[u]].recovering
    BY DEF StaleExecutionsAreMarked, Holds, IsClosed
  <2>1. u # t
    BY <1>1, <1>3, <1>4, <1>5 DEF Holds, r
  <2>2. exec'[u] = exec[u] /\ exec[u] \in DOMAIN rows
    BY <1>5, <2>1 DEF IInv, TypeOK
  <2>3. CASE exec[u] = id
    <3>1. ~Holds(u, id) /\ ~IsClosed(rows[id])
      BY <1>1 DEF Holds, IsClosed, FinalState
    <3>2. rows[id].recovering
      BY <2>2, <2>3, <3>1 DEF IInv, StaleExecutionsAreMarked
    <3> QED
      BY <1>3, <2>2, <2>3, <3>2 DEF r
  <2>4. CASE exec[u] # id
    BY <1>4, <2>2, <2>4 DEF IInv, StaleExecutionsAreMarked, Holds
  <2> QED
    BY <2>3, <2>4
<1> QED
  BY <1>7, <1>8, <1>9 DEF IInv, AttemptsWithinBudget, OnlyParkedRowsWait, RowOK, Budget

(* A report settles or hands back the row of the reporting token; every    *)
(* other execution of that row had lost it before, and left its mark.      *)
ReportStep(r, r2) ==
  /\ RowOK(r2)
  /\ r2.token = NoToken
  /\ IsClosed(r2) \/ r2.recovering = r.recovering

LEMMA ReportedSteps ==
  ASSUME NEW r \in Row, RowOK(r), r.state = "leased",
         NEW counted \in BOOLEAN, NEW c \in Code \cup {NoCode}
  PROVE  /\ \A s \in {"done", "skipped"} : ReportStep(r, Acked(r, s))
         /\ \A s \in {"failed", "ambiguous"} : ReportStep(r, Stopped(r, s, NoCode))
         /\ ReportStep(r, Stopped(r, "skipped", c))
         /\ ReportStep(r, Spent(r, counted))
         /\ AttemptsAfter(r, counted) < Budget(r) => ReportStep(r, Retried(r, counted))
<1> USE ReportedOK
<1>1. \A s \in {"done", "skipped"} : ReportStep(r, Acked(r, s))
  <2> SUFFICES ASSUME NEW s \in {"done", "skipped"} PROVE ReportStep(r, Acked(r, s))
    OBVIOUS
  <2>1. /\ Acked(r, s).state = s /\ Acked(r, s).token = NoToken
        /\ Acked(r, s).waiting = r.waiting
    BY DEF Acked, WithoutLease, Row
  <2> QED
    BY <2>1 DEF ReportStep, IsClosed, FinalState, RowOK
<1>2. \A s \in FinalState, d \in Code \cup {NoCode} :
        /\ Stopped(r, s, d).state = s /\ Stopped(r, s, d).token = NoToken
        /\ Stopped(r, s, d).waiting = d /\ Stopped(r, s, d).recovering = r.recovering
  BY DEF Stopped, WithoutLease, Row
<1>3. \A s \in {"failed", "ambiguous"} : ReportStep(r, Stopped(r, s, NoCode))
  BY <1>2 DEF ReportStep, FinalState
<1>4. ReportStep(r, Stopped(r, "skipped", c))
  BY <1>2 DEF ReportStep, FinalState
<1>5. ReportStep(r, Spent(r, counted))
  BY DEF ReportStep, Spent, WithoutLease, Row
<1>6. AttemptsAfter(r, counted) < Budget(r) => ReportStep(r, Retried(r, counted))
  BY DEF ReportStep, Retried, WithoutLease, Row
<1> QED
  BY <1>1, <1>3, <1>4, <1>5, <1>6
LEMMA ReportKept ==
  ASSUME IInv, TypeOK', NEW t \in Token, Report(t)
  PROVE  IInv'
<1>rows. \A j \in DOMAIN rows : rows[j] \in Row /\ RowOK(rows[j])
  BY IInvRows
<1> DEFINE id == exec[t]
           r  == rows[id]
<1>1. Holds(t, id) /\ id \in DOMAIN rows /\ r \in Row /\ RowOK(r) /\ r.state = "leased"
  BY <1>rows DEF Report, Ack, FailRetryable, FailConfig, FailFinal, FailStopped, Holds
<1>2. exec' = [exec EXCEPT ![t] = 0]
  BY DEF Report, Ack, FailRetryable, FailConfig, FailFinal, FailStopped, Released
<1>3. PICK r2 : SetRow(id, r2) /\ ReportStep(r, r2)
  <2>1. ASSUME NEW outcome \in {"done", "skipped"}, Ack(t, outcome)
        PROVE  SetRow(id, Acked(r, outcome)) /\ ReportStep(r, Acked(r, outcome))
    BY <1>1, <2>1, ReportedSteps DEF Ack
  <2>2. ASSUME NEW counted \in BOOLEAN, FailRetryable(t, counted)
        PROVE  \/ SetRow(id, Spent(r, counted)) /\ ReportStep(r, Spent(r, counted))
               \/ SetRow(id, Retried(r, counted)) /\ ReportStep(r, Retried(r, counted))
    BY <1>1, <2>2, ReportedSteps DEF FailRetryable, Write, SetRow
  <2>3. ASSUME NEW code \in Code, FailStopped(t, "skipped", code)
        PROVE  SetRow(id, Stopped(r, "skipped", code)) /\ ReportStep(r, Stopped(r, "skipped", code))
    BY <1>1, <2>3, ReportedSteps DEF FailStopped
  <2>4. ASSUME NEW s \in {"failed", "ambiguous"}, FailStopped(t, s, NoCode)
        PROVE  SetRow(id, Stopped(r, s, NoCode)) /\ ReportStep(r, Stopped(r, s, NoCode))
    BY <1>1, <2>4, ReportedSteps DEF FailStopped
  <2> HIDE DEF id, r
  <2> QED
    BY <2>1, <2>2, <2>3, <2>4 DEF Report, FailConfig, FailFinal
<1>4. /\ DOMAIN rows' = DOMAIN rows /\ rows'[id] = r2
      /\ \A j \in DOMAIN rows \ {id} : rows'[j] = rows[j]
  BY <1>1, <1>3 DEF SetRow
<1>5. \A j \in DOMAIN rows :
        /\ RowOK(rows'[j])
        /\ rows'[j].token \in {rows[j].token, NoToken}
  BY <1>rows, <1>3, <1>4 DEF ReportStep
<1>6. ASSUME NEW u \in Token, exec'[u] # 0 PROVE Keeps(u, rows[exec[u]], rows'[exec[u]])
  <2>1. u # t /\ exec[u] \in DOMAIN rows
    BY <1>2, <1>6 DEF IInv, TypeOK
  <2>2. CASE exec[u] = id
    <3>1. ~Holds(u, id) /\ ~IsClosed(r)
      BY <1>1, <2>1 DEF Holds, IsClosed, FinalState
    <3>2. r.recovering
      BY <1>6, <1>2, <2>1, <2>2, <3>1 DEF IInv, StaleExecutionsAreMarked
    <3> HIDE DEF r
    <3> QED
      BY <1>3, <1>4, <2>2, <3>2 DEF Keeps, ReportStep
  <2>3. CASE exec[u] # id
    BY <1>4, <2>1, <2>3 DEF Keeps
  <2> QED
    BY <2>2, <2>3
<1>7. \A u \in Token : exec'[u] \in {exec[u], 0}
  BY <1>2 DEF IInv, TypeOK
<1> QED
  BY <1>4, <1>5, <1>6, <1>7, IInvKept

(* Every action keeps the inductive invariant. *)
LEMMA NextKept == IInv /\ [Next]_vars => IInv'
<1> SUFFICES ASSUME IInv, [Next]_vars PROVE IInv'
  OBVIOUS
<1>type. TypeOK'
  BY NextType DEF IInv
<1>rows. \A j \in DOMAIN rows : rows[j] \in Row /\ RowOK(rows[j])
  BY IInvRows
<1>same. \A j \in DOMAIN rows : QuietStep(rows[j], rows[j])
  BY <1>rows, QuietRows
<1>one. ASSUME NEW id \in DOMAIN rows, NEW r2, SetRow(id, r2), QuietStep(rows[id], r2),
               exec' = exec
        PROVE  IInv'
  BY <1>one, <1>type, <1>same, QuietKept DEF SetRow
<1>1. ASSUME NEW id \in Id, NEW e \in Effect, Emit(id, e) PROVE IInv'
  BY <1>1, EmitKept
<1>2. ASSUME NEW i \in Instance, NEW t \in Token, Claim(i, t) PROVE IInv'
  BY <1>2, <1>type, ClaimKept
<1>3. ASSUME NEW t \in Token, Report(t) PROVE IInv'
  BY <1>3, <1>type, ReportKept
<1>4. ASSUME NEW t \in Token, Extend(t) PROVE IInv'
  <2>1. exec[t] \in DOMAIN rows /\ QuietStep(rows[exec[t]], [rows[exec[t]] EXCEPT !.live = TRUE])
    BY <1>4, <1>rows, QuietRows DEF Extend, Holds
  <2> QED
    BY <1>4, <1>one, <2>1 DEF Extend
<1>5. CASE UNCHANGED rows /\ \A u \in Token : exec'[u] \in {exec[u], 0}
  BY <1>5, <1>type, <1>same, QuietKept
<1>6. CASE ExpireDue
  <2>1. /\ DOMAIN rows' = DOMAIN rows /\ exec' = exec
        /\ \A j \in DOMAIN rows : QuietStep(rows[j], rows'[j])
    BY <1>6, <1>rows, <1>same, QuietRows DEF ExpireDue, UpdateAll, ToExpire, IsPending
  <2> QED
    BY <1>type, <2>1, QuietKept
<1>7. CASE ReclaimExpired
  <2>1. /\ DOMAIN rows' = DOMAIN rows /\ exec' = exec
        /\ \A j \in DOMAIN rows : QuietStep(rows[j], rows'[j])
    BY <1>7, <1>rows, <1>same, QuietRows DEF ReclaimExpired, Write, UpdateAll, ToReclaim
  <2> QED
    BY <1>type, <2>1, QuietKept
<1>8. ASSUME NEW code \in Code, RearmConfig(Kinds, {code}) PROVE IInv'
  <2>1. /\ DOMAIN rows' = DOMAIN rows /\ exec' = exec
        /\ \A j \in DOMAIN rows : QuietStep(rows[j], rows'[j])
    BY <1>8, <1>rows, <1>same, QuietRows, NullsAreNotValues
       DEF RearmConfig, Write, UpdateAll, ToRearm
  <2> QED
    BY <1>type, <2>1, QuietKept
<1>9. ASSUME NEW id \in DOMAIN rows, BecomesDue(id) \/ Expires(id) \/ LeaseRunsOut(id)
      PROVE  IInv'
  <2>1. /\ QuietStep(rows[id], [rows[id] EXCEPT !.due = TRUE])
        /\ QuietStep(rows[id], [rows[id] EXCEPT !.expiry = "past"])
        /\ QuietStep(rows[id], [rows[id] EXCEPT !.live = FALSE])
    BY <1>rows, QuietRows
  <2> QED
    BY <1>9, <1>one, <2>1 DEF BecomesDue, Expires, LeaseRunsOut
<1>10. ASSUME NEW i \in Instance, Select(i) \/ PassOver(i)
       PROVE  UNCHANGED rows /\ \A u \in Token : exec'[u] \in {exec[u], 0}
  BY <1>10 DEF Select, PassOver
<1>11. ASSUME NEW t \in Token, LeaseLost(t) \/ Crash(t)
       PROVE  UNCHANGED rows /\ \A u \in Token : exec'[u] \in {exec[u], 0}
  BY <1>11 DEF LeaseLost, Crash, Released, IInv, TypeOK
<1>12. UNCHANGED vars => UNCHANGED rows /\ \A u \in Token : exec'[u] \in {exec[u], 0}
  BY DEF vars
<1> QED
  BY <1>1, <1>2, <1>3, <1>4, <1>5, <1>6, <1>7, <1>8, <1>9, <1>10, <1>11, <1>12 DEF Next

(* IInv holds in every reachable state. *)
LEMMA Inductive == Spec => []IInv
<1>1. Init => IInv
  <2>1. Init => TypeOK
    BY DEF Init, TypeOK, Id
  <2> QED
    BY <2>1 DEF Init, IInv, AttemptsWithinBudget, TokensAreExclusive, OnlyParkedRowsWait,
                StaleExecutionsAreMarked
<1> QED
  BY <1>1, NextKept, PTL DEF Spec

(* plan_failure and reclaim_expired keep every queued row within its       *)
(* attempt budget, whatever the interleaving.                              *)
THEOREM BudgetHolds == Spec => []AttemptsWithinBudget
<1>1. IInv => AttemptsWithinBudget
  BY DEF IInv
<1> QED
  BY <1>1, Inductive, PTL

(* The successor of an execution that lost its lease finds `recovering`.   *)
THEOREM WarningHolds == Spec => []SuccessorIsWarned
<1>1. IInv => SuccessorIsWarned
  BY DEF IInv, SuccessorIsWarned, StaleExecutionsAreMarked, IsClosed, LiveState, FinalState
<1> QED
  BY <1>1, Inductive, PTL
-----------------------------------------------------------------------------
(* A closed row is final: every action that writes a row asks for a state  *)
(* that is not closed first, or for a code a closed row does not wait for. *)

LEMMA ClosedStates ==
  ASSUME NEW r \in Row, IsClosed(r)
  PROVE  /\ r.state \notin LiveState
         /\ r.state = "skipped" => r.waiting = NoCode
  BY DEF IsClosed, LiveState, FinalState

LEMMA ClosedKept ==
  ASSUME IInv, Next, NEW id \in DOMAIN rows, IsClosed(rows[id])
  PROVE  rows'[id] = rows[id]
<1>1. /\ rows[id].state \notin {"pending", "leased"}
      /\ rows[id].state = "skipped" => rows[id].waiting = NoCode
  BY ClosedStates, IInvRows DEF LiveState
<1>one. ASSUME NEW j, NEW r, SetRow(j, r), j # id PROVE rows'[id] = rows[id]
  BY <1>one DEF SetRow
<1>2. ASSUME NEW j \in Id, NEW e \in Effect, Emit(j, e) PROVE rows'[id] = rows[id]
  <2>1. CASE /\ j \notin DOMAIN rows
             /\ rows' = AfterSupersede(Inserted(rows, j, NewRow(e)), j, e)
    BY <1>1, <2>1 DEF AfterSupersede, Inserted
  <2>2. CASE /\ j \in CoalesceTargets(rows, e)
             /\ rows' = AfterSupersede([rows EXCEPT ![j] = Merged(@, e)], j, e)
    BY <1>1, <2>2 DEF AfterSupersede, CoalesceTargets
  <2> QED
    BY <1>2, <2>1, <2>2 DEF Emit, EmitOnce, EmitFirst
<1>3. ASSUME NEW i \in Instance, NEW t \in Token, Claim(i, t) PROVE rows'[id] = rows[id]
  BY <1>1, <1>3, <1>one DEF Claim, Claimable, IsPending
<1>4. ASSUME NEW t \in Token, Report(t) \/ Extend(t) PROVE rows'[id] = rows[id]
  BY <1>1, <1>4, <1>one
     DEF Report, Extend, Ack, FailRetryable, FailConfig, FailFinal, FailStopped, Holds, Write, SetRow
<1>5. ASSUME ExpireDue PROVE rows'[id] = rows[id]
  BY <1>1, <1>5 DEF ExpireDue, UpdateAll, ToExpire, IsPending
<1>6. ASSUME ReclaimExpired PROVE rows'[id] = rows[id]
  BY <1>1, <1>6 DEF ReclaimExpired, Write, UpdateAll, ToReclaim
<1>7. ASSUME NEW code \in Code, RearmConfig(Kinds, {code}) PROVE rows'[id] = rows[id]
  BY <1>1, <1>7, NullsAreNotValues DEF RearmConfig, Write, UpdateAll, ToRearm
<1>8. ASSUME NEW j \in DOMAIN rows, BecomesDue(j) \/ Expires(j) \/ LeaseRunsOut(j)
      PROVE  rows'[id] = rows[id]
  BY <1>1, <1>8, <1>one, IInvRows DEF BecomesDue, Expires, LeaseRunsOut, IsPending, LiveState, RowOK
<1> QED
  BY <1>2, <1>3, <1>4, <1>5, <1>6, <1>7, <1>8
     DEF Next, Select, PassOver, LeaseLost, Crash

(* The recorded outcome of an effect never changes. *)
THEOREM FinalHolds == Spec => OutcomesAreFinal
<1>1. IInv /\ [Next]_vars
        => [\A id \in DOMAIN rows : IsClosed(rows[id]) => rows'[id] = rows[id]]_vars
  BY ClosedKept
<1> QED
  BY <1>1, Inductive, PTL DEF Spec, OutcomesAreFinal
-----------------------------------------------------------------------------
(* The two keys.  Only an emit gives a row another effect or adds one, and *)
(* it asks for both keys first; what returns rows to pending asks the      *)
(* unique index.                                                           *)

OnceKeysAreUnique ==
  \A i, j \in DOMAIN rows :
    i # j /\ OnceKey(rows[i].effect) # NoKey
      => OnceKey(rows[i].effect) # OnceKey(rows[j].effect)

LEMMA EffectsKept ==
  ASSUME NEW r \in Row, NEW t, NEW s, NEW c, NEW counted
  PROVE  /\ Leased(r, t).effect = r.effect /\ Leased(r, t).state = "leased"
         /\ Acked(r, s).effect = r.effect /\ Acked(r, s).state = s
         /\ Stopped(r, s, c).effect = r.effect /\ Stopped(r, s, c).state = s
         /\ Retried(r, counted).effect = r.effect
         /\ Spent(r, counted).effect = r.effect /\ Spent(r, counted).state = "failed"
         /\ Expired(r).effect = r.effect /\ Expired(r).state = "skipped"
         /\ Superseded(r).effect = r.effect /\ Superseded(r).state = "superseded"
         /\ Reclaimed(r).effect = r.effect
         /\ Rearmed(r).effect = r.effect
<1>1. /\ Leased(r, t).effect = r.effect /\ Leased(r, t).state = "leased"
      /\ Acked(r, s).effect = r.effect /\ Acked(r, s).state = s
      /\ Stopped(r, s, c).effect = r.effect /\ Stopped(r, s, c).state = s
  BY DEF Row, Leased, Acked, Stopped, WithoutLease
<1>2. /\ Retried(r, counted).effect = r.effect
      /\ Spent(r, counted).effect = r.effect /\ Spent(r, counted).state = "failed"
  BY DEF Row, Retried, Spent, WithoutLease
<1>3. /\ Expired(r).effect = r.effect /\ Expired(r).state = "skipped"
      /\ Superseded(r).effect = r.effect /\ Superseded(r).state = "superseded"
      /\ Rearmed(r).effect = r.effect
  BY DEF Row, Expired, Superseded, Rearmed
<1>4. Reclaimed(r).effect = r.effect
  BY DEF Row, Reclaimed, WithoutLease
<1> QED
  BY <1>1, <1>2, <1>3, <1>4

LEMMA KeysKept ==
  ASSUME KeysAreUnique, DOMAIN rows' = DOMAIN rows,
         \A j \in DOMAIN rows : rows'[j].effect = rows[j].effect,
         \/ ~Clash(rows')
         \/ \A j \in DOMAIN rows : rows'[j].state = "pending" => rows[j].state = "pending"
  PROVE  KeysAreUnique'
<1>1. ~Clash(rows')
  BY DEF KeysAreUnique, Clash
<1> QED
  BY <1>1 DEF KeysAreUnique

(* The row of the emit apart, the upsert and supersede_earlier leave rows  *)
(* as they are or supersede them.                                          *)
LEMMA EmitKeysKept ==
  ASSUME IInv, KeysAreUnique, NEW id \in Id, NEW e \in Effect, Emit(id, e)
  PROVE  KeysAreUnique'
<1>row. \A j \in DOMAIN rows : rows[j] \in Row
  BY IInvRows
<1>once. CoalesceKey(e) # NoKey => OnceKey(e) = NoKey
  BY DEF OnceKey
<1>1. CASE /\ EmitOnce(rows, id, e) \/ EmitFirst(rows, id, e)
           /\ rows' = AfterSupersede(Inserted(rows, id, NewRow(e)), id, e)
  <2> DEFINE table == Inserted(rows, id, NewRow(e))
  <2>1. /\ id \notin DOMAIN rows
        /\ DOMAIN table = DOMAIN rows \cup {id}
        /\ table[id] = NewRow(e)
        /\ \A j \in DOMAIN rows : table[j] = rows[j]
    BY <1>1 DEF Inserted, EmitOnce, EmitFirst
  <2> HIDE DEF table
  <2>2. /\ DOMAIN rows' = DOMAIN rows \cup {id}
        /\ rows'[id] = NewRow(e)
        /\ \A j \in DOMAIN rows : rows'[j] \in {rows[j], Superseded(rows[j])}
    BY <1>1, <2>1 DEF AfterSupersede, table
  <2>3. /\ rows'[id].effect = e
        /\ \A j \in DOMAIN rows :
             /\ rows'[j].effect = rows[j].effect
             /\ rows'[j].state = "pending" => rows[j].state = "pending"
    BY <1>row, <2>2, EffectsKept DEF NewRow
  <2>4. \A j \in DOMAIN rows :
          /\ OnceKey(e) # NoKey => OnceKey(rows[j].effect) # OnceKey(e)
          /\ CoalesceKey(e) # NoKey /\ rows[j].state = "pending"
               => CoalesceKey(rows[j].effect) # CoalesceKey(e)
    BY <1>1, <1>once DEF EmitOnce, EmitFirst, CoalesceTargets, OnceKey
  <2>5. ~Clash(rows')
    <3> SUFFICES ASSUME NEW i \in DOMAIN rows', NEW j \in DOMAIN rows', i # j,
                        rows'[i].state = "pending", rows'[j].state = "pending",
                        CoalesceKey(rows'[i].effect) # NoKey,
                        CoalesceKey(rows'[i].effect) = CoalesceKey(rows'[j].effect)
                 PROVE  FALSE
      BY DEF Clash
    <3>1. CASE i = id \/ j = id
      BY <2>1, <2>2, <2>3, <2>4, <3>1
    <3>2. CASE i \in DOMAIN rows /\ j \in DOMAIN rows
      BY <2>3, <3>2 DEF KeysAreUnique, Clash
    <3> QED
      BY <2>2, <3>1, <3>2
  <2>6. OnceKeysAreUnique'
    <3> SUFFICES ASSUME NEW i \in DOMAIN rows', NEW j \in DOMAIN rows', i # j,
                        OnceKey(rows'[i].effect) # NoKey,
                        OnceKey(rows'[i].effect) = OnceKey(rows'[j].effect)
                 PROVE  FALSE
      BY DEF OnceKeysAreUnique
    <3>1. CASE i = id \/ j = id
      BY <2>1, <2>2, <2>3, <2>4, <3>1
    <3>2. CASE i \in DOMAIN rows /\ j \in DOMAIN rows
      BY <2>3, <3>2 DEF KeysAreUnique
    <3> QED
      BY <2>2, <3>1, <3>2
  <2> QED
    BY <2>5, <2>6 DEF KeysAreUnique, OnceKeysAreUnique
<1>2. CASE /\ CoalesceKey(e) # NoKey
           /\ id \in CoalesceTargets(rows, e)
           /\ rows' = AfterSupersede([rows EXCEPT ![id] = Merged(@, e)], id, e)
  <2>1. /\ id \in DOMAIN rows /\ rows[id].state = "pending"
        /\ CoalesceKey(rows[id].effect) = CoalesceKey(e)
    BY <1>2 DEF CoalesceTargets
  <2>2. /\ DOMAIN rows' = DOMAIN rows
        /\ rows'[id] = Merged(rows[id], e)
        /\ \A j \in DOMAIN rows \ {id} : rows'[j] \in {rows[j], Superseded(rows[j])}
    BY <1>2, <2>1 DEF AfterSupersede
  <2>3. rows'[id].effect = e
    BY <1>row, <2>1, <2>2 DEF Merged, Row
  <2>4. \A j \in DOMAIN rows :
          /\ rows'[j].state = "pending" => rows[j].state = "pending"
          /\ CoalesceKey(rows'[j].effect) = CoalesceKey(rows[j].effect)
          /\ OnceKey(rows'[j].effect) = OnceKey(rows[j].effect)
    <3>1. \A j \in DOMAIN rows \ {id} :
            /\ rows'[j].state = "pending" => rows[j].state = "pending"
            /\ rows'[j].effect = rows[j].effect
      BY <1>row, <2>2, EffectsKept
    <3>2. OnceKey(rows[id].effect) = NoKey /\ OnceKey(e) = NoKey
      BY <1>2, <2>1 DEF OnceKey
    <3> QED
      BY <2>1, <2>3, <3>1, <3>2
  <2> QED
    BY <2>2, <2>4 DEF KeysAreUnique, Clash
<1> QED
  BY <1>1, <1>2 DEF Emit

LEMMA KeysStep == IInv /\ KeysAreUnique /\ [Next]_vars => KeysAreUnique'
<1> SUFFICES ASSUME IInv, KeysAreUnique, [Next]_vars PROVE KeysAreUnique'
  OBVIOUS
<1>row. \A j \in DOMAIN rows : rows[j] \in Row
  BY IInvRows
<1>one. ASSUME NEW id \in DOMAIN rows, NEW r, SetRow(id, r), r.effect = rows[id].effect,
               \/ r.state = "pending" => rows[id].state = "pending"
               \/ ~Clash(rows')
        PROVE  KeysAreUnique'
  BY <1>one, KeysKept DEF SetRow
<1>same. ASSUME UNCHANGED rows PROVE KeysAreUnique'
  BY <1>same, KeysKept
<1>1. ASSUME NEW id \in Id, NEW e \in Effect, Emit(id, e) PROVE KeysAreUnique'
  BY <1>1, EmitKeysKept
<1>2. ASSUME NEW i \in Instance, NEW t \in Token, Claim(i, t) PROVE KeysAreUnique'
  <2>1. PICK id \in batch[i] : Claimable(id) /\ SetRow(id, Leased(rows[id], t))
    BY <1>2 DEF Claim
  <2>2. id \in DOMAIN rows
    BY <2>1 DEF IInv, TypeOK
  <2>3. Leased(rows[id], t).effect = rows[id].effect /\ Leased(rows[id], t).state = "leased"
    BY <1>row, <2>2, EffectsKept
  <2> QED
    BY <1>one, <2>1, <2>2, <2>3
<1>3. ASSUME NEW t \in Token, Report(t) PROVE KeysAreUnique'
  <2> DEFINE id == exec[t]
             r  == rows[id]
  <2>1. Holds(t, id) /\ id \in DOMAIN rows /\ r \in Row
    BY <1>3, <1>row DEF Report, Ack, FailRetryable, FailConfig, FailFinal, FailStopped, Holds
  <2>e. \A s, c, counted :
          /\ Acked(r, s).effect = r.effect /\ Acked(r, s).state = s
          /\ Stopped(r, s, c).effect = r.effect /\ Stopped(r, s, c).state = s
          /\ Spent(r, counted).effect = r.effect /\ Spent(r, counted).state = "failed"
          /\ Retried(r, counted).effect = r.effect
    <3> HIDE DEF r
    <3> QED
      BY <2>1, EffectsKept
  <2>2. ASSUME NEW outcome \in {"done", "skipped"}, Ack(t, outcome) PROVE KeysAreUnique'
    <3>1. SetRow(id, Acked(r, outcome))
      BY <2>2 DEF Ack
    <3> QED
      BY <1>one, <2>1, <2>e, <3>1
  <2>3. ASSUME NEW counted \in BOOLEAN, FailRetryable(t, counted) PROVE KeysAreUnique'
    <3>1. \/ SetRow(id, Spent(r, counted))
          \/ SetRow(id, Retried(r, counted)) /\ ~Clash(rows')
      BY <2>3 DEF FailRetryable, Write, SetRow
    <3> QED
      BY <1>one, <2>1, <2>e, <3>1
  <2>4. ASSUME NEW s \in {"skipped", "failed", "ambiguous"}, NEW c, FailStopped(t, s, c)
        PROVE  KeysAreUnique'
    <3>1. SetRow(id, Stopped(r, s, c))
      BY <2>4 DEF FailStopped
    <3> QED
      BY <1>one, <2>1, <2>e, <3>1
  <2> QED
    BY <1>3, <2>2, <2>3, <2>4 DEF Report, FailConfig, FailFinal
<1>touch. ASSUME NEW id \in DOMAIN rows
          PROVE  /\ \A b \in BOOLEAN : /\ [rows[id] EXCEPT !.live = b].effect = rows[id].effect
                                        /\ [rows[id] EXCEPT !.live = b].state = rows[id].state
                 /\ [rows[id] EXCEPT !.due = TRUE].effect = rows[id].effect
                 /\ [rows[id] EXCEPT !.due = TRUE].state = rows[id].state
                 /\ [rows[id] EXCEPT !.expiry = "past"].effect = rows[id].effect
                 /\ [rows[id] EXCEPT !.expiry = "past"].state = rows[id].state
  BY <1>row DEF Row
<1>4. ASSUME NEW t \in Token, Extend(t) PROVE KeysAreUnique'
  <2>1. exec[t] \in DOMAIN rows /\ SetRow(exec[t], [rows[exec[t]] EXCEPT !.live = TRUE])
    BY <1>4 DEF Extend, Holds
  <2> QED
    BY <1>one, <1>touch, <2>1
<1>5. CASE ExpireDue
  BY <1>5, <1>row, EffectsKept, KeysKept DEF ExpireDue, UpdateAll
<1>6. CASE ReclaimExpired
  BY <1>6, <1>row, EffectsKept, KeysKept DEF ReclaimExpired, Write, UpdateAll
<1>7. ASSUME NEW code \in Code, RearmConfig(Kinds, {code}) PROVE KeysAreUnique'
  BY <1>7, <1>row, EffectsKept, KeysKept DEF RearmConfig, Write, UpdateAll
<1>8. ASSUME NEW id \in DOMAIN rows, BecomesDue(id) \/ Expires(id) \/ LeaseRunsOut(id)
      PROVE  KeysAreUnique'
  <2>1. \/ SetRow(id, [rows[id] EXCEPT !.due = TRUE])
        \/ SetRow(id, [rows[id] EXCEPT !.expiry = "past"])
        \/ SetRow(id, [rows[id] EXCEPT !.live = FALSE])
    BY <1>8 DEF BecomesDue, Expires, LeaseRunsOut
  <2> QED
    BY <1>one, <1>touch, <2>1
<1> QED
  BY <1>1, <1>2, <1>3, <1>4, <1>5, <1>6, <1>7, <1>8, <1>same
     DEF Next, Select, PassOver, LeaseLost, Crash, vars

(* However emits race claims, reclaims, retries and re-arms of their own   *)
(* key, no effect is ever queued twice.                                    *)
THEOREM KeysHold == Spec => []KeysAreUnique
<1>1. Init => KeysAreUnique
  BY DEF Init, KeysAreUnique, Clash
<1> QED
  BY <1>1, KeysStep, Inductive, PTL DEF Spec

-----------------------------------------------------------------------------
(* Progress is always possible: the oldest live row of an entity can be    *)
(* claimed, dropped or taken back, or a date or a lease will end.          *)

LEMMA LessIsWellFounded ==
  \E R : IsWellFoundedOn(R, Nat) /\ \A a, b \in Nat : a < b => <<a, b>> \in R
<1> DEFINE R == OpToRel(<, Nat)
<1>1. IsWellFoundedOn(R, Nat)
  BY NatLessThanWellFounded
<1>2. \A a, b \in Nat : a < b => <<a, b>> \in R
  BY DEF OpToRel
<1> HIDE DEF R
<1> QED
  BY <1>1, <1>2

LEMMA LeastElement ==
  ASSUME NEW S \in SUBSET Nat, S # {}
  PROVE  \E m \in S : \A k \in S : m <= k
<1>1. PICK R : IsWellFoundedOn(R, Nat) /\ \A a, b \in Nat : a < b => <<a, b>> \in R
  BY LessIsWellFounded
<1>2. S \subseteq Nat /\ IsWellFoundedOn(R, Nat)
  BY <1>1
<1>3. PICK m \in S : \A k \in S : ~(<<k, m>> \in R)
  BY <1>2, WFMin, Zenon
<1>4. \A k \in S : m \in Nat /\ k \in Nat /\ ~(k < m)
  BY <1>1, <1>3
<1> QED
  BY <1>4

(* The unique index refuses a reclaim only when it is blocked. *)
LEMMA ReclaimIsAccepted ==
  ASSUME IInv, KeysAreUnique, ~IsBlockedByIndex
  PROVE  ~Clash(UpdateAll(ToReclaim, Reclaimed))
<1> DEFINE table == UpdateAll(ToReclaim, Reclaimed)
<1>1. DOMAIN table = DOMAIN rows
  BY DEF UpdateAll
<1>2. ASSUME NEW j \in DOMAIN rows
      PROVE  /\ table[j].effect = rows[j].effect
             /\ table[j].state = "pending" => rows[j].state \in LiveState
  <2>1. rows[j] \in Row /\ Reclaimed(rows[j]).effect = rows[j].effect
    BY IInvRows, EffectsKept
  <2> QED
    BY <2>1 DEF UpdateAll, ToReclaim, LiveState
<1> HIDE DEF table
<1> SUFFICES ASSUME NEW i \in DOMAIN rows, NEW j \in DOMAIN rows, i # j,
                    rows[i].state \in LiveState, rows[j].state \in LiveState,
                    CoalesceKey(rows[i].effect) # NoKey,
                    CoalesceKey(rows[i].effect) = CoalesceKey(rows[j].effect)
             PROVE  FALSE
  BY <1>1, <1>2 DEF Clash, table
<1>3. CASE rows[i].state = "pending" /\ rows[j].state = "pending"
  BY <1>3 DEF KeysAreUnique, Clash
<1>4. CASE rows[i].state = "leased" \/ rows[j].state = "leased"
  BY <1>4 DEF IsBlockedByIndex
<1> QED
  BY <1>3, <1>4 DEF LiveState

LEMMA OldestMoves == IInv /\ KeysAreUnique => NoRowIsStranded
<1> SUFFICES ASSUME IInv, KeysAreUnique, ~IsBlockedByIndex,
                    NEW id \in DOMAIN rows, rows[id].state \in LiveState
             PROVE  \E j \in DOMAIN rows :
                      /\ j <= id /\ SameEntity(rows[j].effect, rows[id].effect)
                      /\ \/ Claimable(j)
                         \/ IsPending(j) /\ ~rows[j].due
                         \/ j \in ToExpire
                         \/ rows[j].state = "leased" /\ rows[j].live
                         \/ j \in ToReclaim /\ ~Clash(UpdateAll(ToReclaim, Reclaimed))
  BY DEF NoRowIsStranded
<1> DEFINE S == {k \in DOMAIN rows : /\ rows[k].state \in LiveState
                                     /\ SameEntity(rows[k].effect, rows[id].effect)}
<1>1. S \in SUBSET Nat /\ id \in S
  BY DEF IInv, TypeOK, Id, SameEntity
<1>2. PICK j \in S : \A k \in S : j <= k
  BY <1>1, LeastElement
<1>3. /\ j \in DOMAIN rows /\ rows[j].state \in LiveState /\ j <= id
      /\ SameEntity(rows[j].effect, rows[id].effect)
      /\ \A k \in DOMAIN rows :
           k < j /\ SameEntity(rows[k].effect, rows[j].effect)
             => rows[k].state \notin LiveState
  <2>1. ASSUME NEW k \in DOMAIN rows, k < j, SameEntity(rows[k].effect, rows[j].effect),
               rows[k].state \in LiveState
        PROVE  FALSE
    <3>1. k \in S
      BY <1>2, <2>1 DEF SameEntity
    <3> QED
      BY <1>1, <1>2, <2>1, <3>1
  <2> QED
    BY <1>1, <1>2, <2>1
<1> HIDE DEF S
<1>4. CASE rows[j].state = "leased"
  BY <1>3, <1>4, ReclaimIsAccepted DEF ToReclaim
<1>5. CASE rows[j].state = "pending"
  BY <1>3, <1>5 DEF Claimable, IsPending, ToExpire
<1> QED
  BY <1>3, <1>4, <1>5 DEF LiveState

(* The safety half of EveryEffectSettles: in no state does a live row wait *)
(* for a row that cannot move, unless the unique index blocks the outbox.  *)
THEOREM NoneStranded == Spec => []NoRowIsStranded
  BY OldestMoves, KeysHold, Inductive, PTL
-----------------------------------------------------------------------------
(* Refinement: every step of the outbox is a step of LeaseQueue, or none.  *)

LEMMA RowPhases ==
  ASSUME NEW r \in Row
  PROVE  /\ r.state = "pending" => RowPhase(r) = "waiting"
         /\ r.state = "leased" => RowPhase(r) = "held"
         /\ IsClosed(r) => RowPhase(r) = "closed"
         /\ r.state = "skipped" /\ r.waiting # NoCode => RowPhase(r) = "parked"
<1>1. r.state = "pending" => RowPhase(r) = "waiting"
  BY DEF RowPhase
<1>2. r.state = "leased" => RowPhase(r) = "held"
  BY DEF RowPhase
<1>3. IsClosed(r) => RowPhase(r) = "closed"
  BY DEF RowPhase, IsClosed, FinalState
<1>4. r.state = "skipped" /\ r.waiting # NoCode => RowPhase(r) = "parked"
  BY DEF RowPhase, IsClosed, FinalState
<1> QED
  BY <1>1, <1>2, <1>3, <1>4

LEMMA EmitPhases ==
  ASSUME NEW r \in Row, r.state = "pending", NEW e \in Effect
  PROVE  /\ RowPhase(Superseded(r)) = "closed"
         /\ Superseded(r).token = r.token
         /\ RowPhase(Merged(r, e)) = "waiting"
         /\ Merged(r, e).token = r.token
<1>1. /\ Superseded(r).state = "superseded"
      /\ Superseded(r).token = r.token
      /\ Merged(r, e).state = "pending" /\ Merged(r, e).token = r.token
  BY DEF Row, Merged, Superseded
<1> QED
  BY <1>1 DEF RowPhase, IsClosed, FinalState

LEMMA EmitArranges ==
  ASSUME IInv, TypeOK', NEW id \in Id, NEW e \in Effect, Emit(id, e)
  PROVE  Queue!Arrange
<1>rows. /\ \A j \in DOMAIN rows : rows[j] \in Row /\ RowOK(rows[j])
         /\ \A j \in DOMAIN rows' : rows'[j] \in Row /\ j \in Id
  BY IInvRows DEF TypeOK
<1>1. ASSUME NEW j \in DOMAIN rows, rows'[j] = Superseded(rows[j]),
             rows[j].state = "pending"
      PROVE  /\ RowPhase(rows[j]) = "waiting" /\ RowPhase(rows'[j]) = "closed"
             /\ rows'[j].token = rows[j].token
  BY <1>1, <1>rows, RowPhases, EmitPhases
<1>2. ASSUME id \in DOMAIN rows, rows[id].state = "pending", rows'[id] = Merged(rows[id], e)
      PROVE  RowPhase(rows'[id]) = RowPhase(rows[id]) /\ rows'[id].token = rows[id].token
  BY <1>2, <1>rows, RowPhases, EmitPhases
<1>3. ASSUME id \notin DOMAIN rows, rows'[id] = NewRow(e)
      PROVE  RowPhase(rows'[id]) = "waiting" /\ rows'[id].token = NoToken
  BY <1>3, NewRowType, RowPhases DEF NewRow
<1>4. /\ DOMAIN rows' = DOMAIN rows \cup {id}
      /\ \A j \in DOMAIN rows \ {id} :
           \/ rows'[j] = rows[j]
           \/ rows[j].state = "pending" /\ rows'[j] = Superseded(rows[j])
      /\ id \notin DOMAIN rows => rows'[id] = NewRow(e)
      /\ id \in DOMAIN rows => rows[id].state = "pending" /\ rows'[id] = Merged(rows[id], e)
  <2>1. CASE /\ id \notin DOMAIN rows
             /\ rows' = AfterSupersede(Inserted(rows, id, NewRow(e)), id, e)
    BY <2>1 DEF AfterSupersede, Inserted
  <2>2. CASE /\ id \in CoalesceTargets(rows, e)
             /\ rows' = AfterSupersede([rows EXCEPT ![id] = Merged(@, e)], id, e)
    BY <2>2 DEF AfterSupersede, CoalesceTargets
  <2> QED
    BY <2>1, <2>2 DEF Emit, EmitOnce, EmitFirst
<1>5. \A j \in Id : \/ Phases'[j] = Phases[j]
                    \/ Phases[j] = "absent" /\ Phases'[j] = "waiting"
                    \/ Phases[j] = "waiting" /\ Phases'[j] = "closed"
  BY <1>1, <1>2, <1>3, <1>4 DEF Phases
<1>6. Holders' = Holders
  BY <1>1, <1>2, <1>3, <1>4 DEF Holders
<1>7. DOMAIN Phases' = Id /\ Carried' = Carried
  BY DEF Phases, Carried, Emit
<1> QED
  BY <1>5, <1>6, <1>7 DEF Queue!Arrange
LEMMA ClaimTakes ==
  ASSUME IInv, IInv', NEW i \in Instance, NEW t \in Token, Claim(i, t)
  PROVE  \E S \in SUBSET Id : Queue!Take(S, t)
<1> PICK id \in batch[i] : /\ Claimable(id)
                           /\ SetRow(id, Leased(rows[id], t))
                           /\ exec' = [exec EXCEPT ![t] = id]
  BY DEF Claim
<1>1. id \in DOMAIN rows /\ rows[id].state = "pending" /\ id \in Id /\ rows[id] \in Row
  BY DEF Claimable, IsPending, IInv, TypeOK
<1>2. Leased(rows[id], t).state = "leased" /\ Leased(rows[id], t).token = t
  BY <1>1 DEF Leased, Row
<1>3. /\ DOMAIN rows' = DOMAIN rows /\ rows'[id] = Leased(rows[id], t)
      /\ \A j \in DOMAIN rows \ {id} : rows'[j] = rows[j]
  BY <1>1 DEF SetRow
<1>4. Phases[id] = "waiting" /\ \A j \in Id : Holders[j] # t
  BY <1>1, NullsAreNotValues DEF Claim, IsFresh, Phases, Holders, RowPhase
<1>5. Phases' = [j \in Id |-> IF j \in {id} THEN "held" ELSE Phases[j]]
  BY <1>1, <1>2, <1>3 DEF Phases, RowPhase
<1>6. Holders' = [j \in Id |-> IF j \in {id} THEN t ELSE Holders[j]]
  BY <1>1, <1>2, <1>3 DEF Holders
<1>7. Carried' = [Carried EXCEPT ![t] = @ \cup {id}]
  <2>1. exec[t] = 0 /\ exec \in [Token -> DOMAIN rows \cup {0}] /\ id # 0
    BY <1>1 DEF Claim, IsFresh, IInv, TypeOK, Id
  <2> QED
    BY <2>1 DEF Carried
<1>8. Queue!Take({id}, t)
  BY <1>4, <1>5, <1>6, <1>7 DEF Queue!Take
<1> QED
  BY <1>1, <1>8

LEMMA ReportSettles ==
  ASSUME IInv, NEW t \in Token, Report(t)
  PROVE  \E id \in Id : Queue!Settle(id, t)
<1> DEFINE id == exec[t]
           r  == rows[id]
<1>1. /\ Holds(t, id) /\ id \in DOMAIN rows /\ r \in Row /\ r.state = "leased"
      /\ id \in Id /\ r.token = t
  BY IInvRows DEF Report, Ack, FailRetryable, FailConfig, FailFinal, FailStopped, Holds,
                  IInv, TypeOK
<1>2. exec' = [exec EXCEPT ![t] = 0]
  BY DEF Report, Ack, FailRetryable, FailConfig, FailFinal, FailStopped, Released
<1>3. PICK r2 : /\ SetRow(id, r2)
                /\ RowPhase(r2) \in {"waiting", "parked", "closed"}
                /\ r2.token = NoToken
  <2>1. ASSUME NEW outcome \in {"done", "skipped"}
        PROVE  /\ RowPhase(Acked(r, outcome)) \in {"waiting", "parked", "closed"}
               /\ Acked(r, outcome).token = NoToken
    <3>1. Acked(r, outcome).state = outcome /\ Acked(r, outcome).token = NoToken
      BY <1>1 DEF Acked, WithoutLease, Row
    <3> QED
      BY <3>1 DEF RowPhase
  <2>2. ASSUME NEW counted \in BOOLEAN
        PROVE  /\ RowPhase(Spent(r, counted)) \in {"waiting", "parked", "closed"}
               /\ RowPhase(Retried(r, counted)) \in {"waiting", "parked", "closed"}
               /\ Spent(r, counted).token = NoToken
               /\ Retried(r, counted).token = NoToken
    <3>1. /\ Spent(r, counted).state = "failed" /\ Spent(r, counted).token = NoToken
          /\ Retried(r, counted).state = "pending" /\ Retried(r, counted).token = NoToken
      BY <1>1 DEF Spent, Retried, WithoutLease, Row
    <3> QED
      BY <3>1 DEF RowPhase
  <2>3. ASSUME NEW st \in {"skipped", "failed", "ambiguous"}, NEW c \in Code \cup {NoCode}
        PROVE  /\ RowPhase(Stopped(r, st, c)) \in {"waiting", "parked", "closed"}
               /\ Stopped(r, st, c).token = NoToken
    <3>1. Stopped(r, st, c).state = st /\ Stopped(r, st, c).token = NoToken
      BY <1>1 DEF Stopped, WithoutLease, Row
    <3> QED
      BY <3>1 DEF RowPhase
  <2>4. ASSUME NEW outcome \in {"done", "skipped"}, Ack(t, outcome)
        PROVE  SetRow(id, Acked(r, outcome))
    BY <2>4 DEF Ack
  <2>5. ASSUME NEW counted \in BOOLEAN, FailRetryable(t, counted)
        PROVE  SetRow(id, Spent(r, counted)) \/ SetRow(id, Retried(r, counted))
    BY <2>5 DEF FailRetryable, Write, SetRow
  <2>6. ASSUME NEW st, NEW c, FailStopped(t, st, c)
        PROVE  SetRow(id, Stopped(r, st, c))
    BY <2>6 DEF FailStopped
  <2> HIDE DEF id, r
  <2> QED
    BY <2>1, <2>2, <2>3, <2>4, <2>5, <2>6 DEF Report, FailConfig, FailFinal
<1>4. /\ DOMAIN rows' = DOMAIN rows /\ rows'[id] = r2
      /\ \A j \in DOMAIN rows \ {id} : rows'[j] = rows[j]
  BY <1>1, <1>3 DEF SetRow
<1>5. id \in Carried[t] /\ Holders[id] = t
  BY <1>1 DEF Carried, Holders, Id
<1> DEFINE p == RowPhase(r2)
<1>6. Phases' = [Phases EXCEPT ![id] = p]
  BY <1>1, <1>4 DEF Phases
<1>7. Holders' = [Holders EXCEPT ![id] = NoToken]
  BY <1>1, <1>3, <1>4 DEF Holders
<1>8. Carried' = [Carried EXCEPT ![t] = @ \ {id}]
  <2>1. exec \in [Token -> DOMAIN rows \cup {0}] /\ id # 0
    BY <1>1 DEF IInv, TypeOK, Id
  <2> QED
    BY <1>2, <2>1 DEF Carried
<1>9. p \in {"waiting", "parked", "closed"}
  BY <1>3
<1> HIDE DEF id, p
<1> QED
  BY <1>1, <1>5, <1>6, <1>7, <1>8, <1>9 DEF Queue!Settle
(* A statement that changes one row without changing its phase or its      *)
(* token is invisible to LeaseQueue.                                       *)
LEMMA QuietIsInvisible ==
  ASSUME DOMAIN rows' = DOMAIN rows, exec' = exec,
         \A j \in DOMAIN rows : /\ RowPhase(rows'[j]) = RowPhase(rows[j])
                                /\ rows'[j].token = rows[j].token
  PROVE  UNCHANGED <<Phases, Holders, Carried>>
<1>1. Phases' = Phases
  BY DEF Phases
<1>2. Holders' = Holders
  BY DEF Holders
<1>3. Carried' = Carried
  BY DEF Carried
<1> QED
  BY <1>1, <1>2, <1>3

LEMMA MaintainedPhases ==
  ASSUME NEW r \in Row, RowOK(r)
  PROVE  /\ r.state = "pending" => RowPhase(Expired(r)) = "closed" /\ Expired(r).token = r.token
         /\ r.state = "leased" => /\ RowPhase(Reclaimed(r)) \in {"waiting", "closed"}
                                 /\ Reclaimed(r).token = NoToken
         /\ r.state = "skipped" => RowPhase(Rearmed(r)) = "waiting" /\ Rearmed(r).token = r.token
<1>1. Expired(r).state = "skipped" /\ Expired(r).waiting = NoCode /\ Expired(r).token = r.token
  BY DEF Expired, Row
<1>2. Rearmed(r).state = "pending" /\ Rearmed(r).token = r.token
  BY DEF Rearmed, Row
<1>3. Reclaimed(r).state \in {"pending", "ambiguous"} /\ Reclaimed(r).token = NoToken
  BY DEF Reclaimed, WithoutLease, Row
<1> QED
  BY <1>1, <1>2, <1>3 DEF RowPhase, IsClosed, FinalState

LEMMA TouchedPhases ==
  ASSUME NEW r \in Row, NEW b \in BOOLEAN,
         NEW r2 \in {[r EXCEPT !.live = b], [r EXCEPT !.due = TRUE], [r EXCEPT !.expiry = "past"]}
  PROVE  RowPhase(r2) = RowPhase(r) /\ r2.token = r.token
<1>1. r2.state = r.state /\ r2.waiting = r.waiting /\ r2.token = r.token
  BY DEF Row
<1> QED
  BY <1>1 DEF RowPhase, IsClosed

(* Every step of the outbox is a step of LeaseQueue or leaves it alone. *)
LEMMA NextImplements ==
  IInv /\ IInv' /\ [Next]_vars => [Queue!Next]_(Queue!qvars)
<1> SUFFICES ASSUME IInv, IInv', [Next]_vars PROVE [Queue!Next]_(Queue!qvars)
  OBVIOUS
<1>rows. \A j \in DOMAIN rows : rows[j] \in Row /\ RowOK(rows[j])
  BY IInvRows
<1>arrange. Queue!Arrange \/ Queue!TakeBack \/ Queue!Revive => Queue!Next
  BY DEF Queue!Next
<1>same. UNCHANGED <<Phases, Holders, Carried>> => UNCHANGED Queue!qvars
  BY DEF Queue!qvars
<1>touch. ASSUME NEW id \in DOMAIN rows, NEW r2, SetRow(id, r2), exec' = exec,
                 RowPhase(r2) = RowPhase(rows[id]), r2.token = rows[id].token
          PROVE  UNCHANGED Queue!qvars
  BY <1>touch, <1>same, QuietIsInvisible DEF SetRow
<1>1. ASSUME NEW id \in Id, NEW e \in Effect, Emit(id, e) PROVE Queue!Next
  BY <1>1, <1>arrange, EmitArranges DEF IInv
<1>2. ASSUME NEW i \in Instance, NEW t \in Token, Claim(i, t) PROVE Queue!Next
  BY <1>2, ClaimTakes DEF Queue!Next
<1>3. ASSUME NEW t \in Token, Report(t) PROVE Queue!Next
  BY <1>3, ReportSettles DEF Queue!Next
<1>4. ASSUME NEW t \in Token, Extend(t) PROVE UNCHANGED Queue!qvars
  <2> DEFINE r2 == [rows[exec[t]] EXCEPT !.live = TRUE]
  <2>1. exec[t] \in DOMAIN rows /\ SetRow(exec[t], r2) /\ exec' = exec
    BY <1>4 DEF Extend, Holds
  <2>2. RowPhase(r2) = RowPhase(rows[exec[t]]) /\ r2.token = rows[exec[t]].token
    BY <1>rows, <2>1, TouchedPhases
  <2> QED
    BY <2>1, <2>2, <1>touch
<1>5. ASSUME NEW t \in Token, LeaseLost(t) \/ Crash(t) PROVE Queue!Next
  <2>1. rows' = rows /\ exec' = [exec EXCEPT ![t] = 0]
    BY <1>5 DEF LeaseLost, Crash, Released
  <2>2. Phases' = Phases /\ Holders' = Holders
    BY <2>1 DEF Phases, Holders
  <2>3. Carried' = [Carried EXCEPT ![t] = {}]
    BY <2>1 DEF Carried, IInv, TypeOK
  <2>4. Queue!Forget(t)
    BY <2>2, <2>3 DEF Queue!Forget
  <2> QED
    BY <2>4 DEF Queue!Next
<1>6. CASE ExpireDue
  <2>1. /\ DOMAIN rows' = DOMAIN rows /\ exec' = exec
        /\ \A j \in DOMAIN rows :
             \/ rows'[j] = rows[j]
             \/ rows[j].state = "pending" /\ rows'[j] = Expired(rows[j])
    BY <1>6 DEF ExpireDue, UpdateAll, ToExpire, IsPending
  <2>2. \A j \in DOMAIN rows :
          /\ rows'[j].token = rows[j].token
          /\ \/ RowPhase(rows'[j]) = RowPhase(rows[j])
             \/ RowPhase(rows[j]) = "waiting" /\ RowPhase(rows'[j]) = "closed"
    BY <1>rows, <2>1, MaintainedPhases, RowPhases
  <2>3. Queue!Arrange
    BY <2>1, <2>2 DEF Queue!Arrange, Phases, Holders, Carried
  <2> QED
    BY <2>3, <1>arrange
<1>7. CASE ReclaimExpired
  <2>1. /\ DOMAIN rows' = DOMAIN rows /\ exec' = exec
        /\ \A j \in DOMAIN rows :
             \/ rows'[j] = rows[j]
             \/ rows[j].state = "leased" /\ rows'[j] = Reclaimed(rows[j])
    BY <1>7 DEF ReclaimExpired, Write, UpdateAll, ToReclaim
  <2>2. \A j \in DOMAIN rows :
          \/ /\ RowPhase(rows'[j]) = RowPhase(rows[j])
             /\ rows'[j].token = rows[j].token
          \/ /\ RowPhase(rows[j]) = "held"
             /\ RowPhase(rows'[j]) \in {"waiting", "closed"}
             /\ rows'[j].token = NoToken
    BY <1>rows, <2>1, MaintainedPhases, RowPhases
  <2>3. Queue!TakeBack
    BY <2>1, <2>2 DEF Queue!TakeBack, Phases, Holders, Carried
  <2> QED
    BY <2>3, <1>arrange
<1>8. ASSUME NEW code \in Code, RearmConfig(Kinds, {code}) PROVE Queue!Next
  <2>1. /\ DOMAIN rows' = DOMAIN rows /\ exec' = exec
        /\ \A j \in DOMAIN rows :
             \/ rows'[j] = rows[j]
             \/ /\ rows[j].state = "skipped" /\ rows[j].waiting # NoCode
                /\ rows'[j] = Rearmed(rows[j])
    BY <1>8, NullsAreNotValues DEF RearmConfig, Write, UpdateAll, ToRearm
  <2>2. \A j \in DOMAIN rows :
          /\ rows'[j].token = rows[j].token
          /\ \/ RowPhase(rows'[j]) = RowPhase(rows[j])
             \/ RowPhase(rows[j]) = "parked" /\ RowPhase(rows'[j]) = "waiting"
    BY <1>rows, <2>1, MaintainedPhases, RowPhases
  <2>3. Queue!Revive
    BY <2>1, <2>2 DEF Queue!Revive, Phases, Holders, Carried
  <2> QED
    BY <2>3, <1>arrange
<1>9. ASSUME NEW id \in DOMAIN rows, BecomesDue(id) \/ Expires(id) \/ LeaseRunsOut(id)
      PROVE  UNCHANGED Queue!qvars
  <2>1. PICK r2 \in {[rows[id] EXCEPT !.live = FALSE], [rows[id] EXCEPT !.due = TRUE],
                     [rows[id] EXCEPT !.expiry = "past"]} : SetRow(id, r2) /\ exec' = exec
    BY <1>9 DEF BecomesDue, Expires, LeaseRunsOut
  <2>2. RowPhase(r2) = RowPhase(rows[id]) /\ r2.token = rows[id].token
    BY <1>rows, TouchedPhases
  <2> QED
    BY <2>1, <2>2, <1>touch
<1>10. ASSUME UNCHANGED <<rows, exec>> PROVE UNCHANGED Queue!qvars
  BY <1>10, <1>same DEF Phases, Holders, Carried
<1> QED
  BY <1>1, <1>2, <1>3, <1>4, <1>5, <1>6, <1>7, <1>8, <1>9, <1>10
     DEF Next, Select, PassOver, vars

(* The outbox implements the leased work queue. *)
THEOREM Implements == Spec => IsLeaseQueue
<1>1. Init => Queue!Init
  BY DEF Init, Queue!Init, Phases, Holders, Carried
<1> QED
  BY <1>1, NextImplements, Inductive, PTL DEF Spec, IsLeaseQueue, Queue!Spec
=============================================================================
