----------------------------- MODULE LeaseQueue ------------------------------
(***************************************************************************)
(* What a leased work queue of the backend promises, whichever table       *)
(* implements it: discord_outbox and sync_jobs both do.                    *)
(*                                                                         *)
(* An item waits until a holder takes it under a token nobody else knows.  *)
(* While it is held, only that token can settle, park or hand it back; the *)
(* queue itself may take it back when the lease is over.  A parked item    *)
(* may be revived by an operator; a closed item never changes again.       *)
(* Holders may be slow or dead: what they do with a token that no longer   *)
(* holds the item has no effect on it.                                     *)
(***************************************************************************)
CONSTANTS Item, Token, NoToken

VARIABLES
  phase,    \* phase[i]: absent, waiting, held, parked or closed
  holder,   \* holder[i]: the token that holds item i, or NoToken
  carries   \* carries[t]: the items the owner of token t believes it holds

qvars == <<phase, holder, carries>>

Init ==
  /\ phase = [i \in Item |-> "absent"]
  /\ holder = [i \in Item |-> NoToken]
  /\ carries = [t \in Token |-> {}]

(* New items appear and waiting items are withdrawn, in any combination:   *)
(* one emit may add an item and withdraw others.                           *)
Arrange ==
  /\ \A i \in Item :
       \/ phase'[i] = phase[i]
       \/ phase[i] = "absent" /\ phase'[i] = "waiting"
       \/ phase[i] = "waiting" /\ phase'[i] = "closed"
  /\ DOMAIN phase' = Item
  /\ UNCHANGED <<holder, carries>>

(* A holder takes a batch under one fresh token.  The queue may give it    *)
(* items whose lease is over without taking them back first.               *)
Take(S, t) ==
  /\ \A i \in S : phase[i] \in {"waiting", "held"}
  /\ \A j \in Item : holder[j] # t
  /\ phase' = [i \in Item |-> IF i \in S THEN "held" ELSE phase[i]]
  /\ holder' = [i \in Item |-> IF i \in S THEN t ELSE holder[i]]
  /\ carries' = [carries EXCEPT ![t] = @ \cup S]

(* The holder's report: the only way to an outcome the holder decides. *)
Settle(i, t) ==
  /\ i \in carries[t]
  /\ holder[i] = t
  /\ \E p \in {"waiting", "parked", "closed"} :
       phase' = [phase EXCEPT ![i] = p]
  /\ holder' = [holder EXCEPT ![i] = NoToken]
  /\ carries' = [carries EXCEPT ![t] = @ \ {i}]

(* A holder forgets what it carried: crash, discarded result. *)
Forget(t) ==
  /\ \E S \in SUBSET carries[t] : carries' = [carries EXCEPT ![t] = S]
  /\ UNCHANGED <<phase, holder>>

(* The queue takes items back without the holder's word: they wait again,  *)
(* or are closed because their attempts are spent.                         *)
TakeBack ==
  /\ \A i \in Item :
       \/ phase'[i] = phase[i] /\ holder'[i] = holder[i]
       \/ /\ phase[i] = "held" /\ phase'[i] \in {"waiting", "closed"}
          /\ holder'[i] = NoToken
  /\ DOMAIN phase' = Item /\ DOMAIN holder' = Item
  /\ UNCHANGED carries

Revive ==
  /\ \A i \in Item :
       phase'[i] = phase[i] \/ (phase[i] = "parked" /\ phase'[i] = "waiting")
  /\ DOMAIN phase' = Item
  /\ UNCHANGED <<holder, carries>>

Next ==
  \/ Arrange \/ TakeBack \/ Revive
  \/ \E t \in Token : \/ Forget(t)
                     \/ \E S \in SUBSET Item : Take(S, t)
                     \/ \E i \in Item : Settle(i, t)

Spec == Init /\ [][Next]_qvars
=============================================================================
