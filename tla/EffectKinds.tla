----------------------------- MODULE EffectKinds -----------------------------
(***************************************************************************)
(* The effect catalogue of the Discord delivery outbox                     *)
(* (apps/backend/src/discord_delivery/kinds.rs): which entity a kind       *)
(* refers to, its claim priority and attempt budget, the kinds it          *)
(* supersedes, and the two deduplication keys of an effect.                *)
(*                                                                         *)
(* An effect is a record [kind, entity, cause, suffix].  Keys are tuples   *)
(* instead of formatted strings; two effects have equal tuples exactly     *)
(* when the source formats equal strings.                                  *)
(***************************************************************************)
EXTENDS Integers

CONSTANTS
  DefaultMaxAttempts,   \* 8 in the source
  UnlimitedAttempts     \* i32::MAX in the source

ASSUME AttemptBudgets ==
  /\ DefaultMaxAttempts \in Nat \ {0}
  /\ UnlimitedAttempts \in Nat \ {0}

EventKinds ==
  {"event.upsert", "event.close", "event.remove", "event.mass",
   "event.reminder", "event.start", "voice.release", "vod.create",
   "vod.delete"}

TenantKinds == {"voice.sweep", "calendar.sync", "application.panel"}

GiveawayKinds == {"giveaway.post", "giveaway.update", "giveaway.result"}

EffectKind ==
  EventKinds \cup TenantKinds \cup GiveawayKinds
    \cup {"split.upsert", "battle.announce", "dm.send"}

(* policy().entity *)
EntityType(k) ==
  CASE k \in EventKinds       -> "event"
    [] k \in TenantKinds      -> "tenant"
    [] k \in GiveawayKinds    -> "giveaway"
    [] k = "split.upsert"     -> "split"
    [] k = "battle.announce"  -> "battle"
    [] k = "dm.send"          -> "notification"

(* policy().priority *)
Priority(k) ==
  CASE k \in {"event.close", "event.remove", "event.mass", "event.reminder",
              "event.start", "voice.release"}                     -> 100
    [] k \in GiveawayKinds \cup {"event.upsert", "split.upsert"}  -> 50
    [] k \in {"vod.create", "vod.delete", "battle.announce", "dm.send"} -> 30
    [] k \in TenantKinds                                          -> 10

(* policy().max_attempts *)
MaxAttempts(k) ==
  IF k = "voice.release" THEN UnlimitedAttempts ELSE DefaultMaxAttempts

(* policy().supersedes *)
Supersedes(k) ==
  CASE k = "event.close"     -> {"event.upsert", "event.mass",
                                 "event.reminder", "event.start"}
    [] k = "event.remove"    -> {"event.upsert", "event.close", "event.mass",
                                 "event.reminder", "event.start"}
    [] k = "event.start"     -> {"event.mass", "event.reminder"}
    [] k = "giveaway.result" -> {"giveaway.update"}
    [] k = "vod.delete"      -> {"vod.create"}
    [] OTHER                 -> {}

-----------------------------------------------------------------------------

NoKey    == <<>>
NoSuffix == "none"

IsManualReminder(e) == e.kind = "event.reminder" /\ e.cause = "manual"

(* Kinds whose keys are per schedule, per status or per minute. *)
NeedsSuffix(k) ==
  k \in {"event.mass", "event.reminder", "event.start", "giveaway.result"}

(* keys(..).coalesce: unique among pending rows. *)
CoalesceKey(e) ==
  CASE e.kind = "event.upsert"                    -> <<"event", e.entity>>
    [] e.kind \in {"event.close", "event.remove"} -> <<"event-close", e.entity>>
    [] IsManualReminder(e)         -> <<"event-remind", e.entity, e.suffix>>
    [] e.kind = "split.upsert"                    -> <<"split", e.entity>>
    [] e.kind = "giveaway.update"                 -> <<"giveaway", e.entity>>
    [] e.kind = "vod.delete"                      -> <<"vod", e.entity>>
    [] e.kind \in TenantKinds                     -> <<e.kind, 0>>
    [] OTHER                                      -> NoKey

(* keys(..).once: unique for ever. *)
OnceKey(e) ==
  IF CoalesceKey(e) # NoKey THEN NoKey
  ELSE IF NeedsSuffix(e.kind) THEN <<e.kind, e.entity, e.suffix>>
  ELSE <<e.kind, e.entity>>

(* What emit accepts: a tenant kind is a singleton with entity 0, and a    *)
(* suffix-keyed kind has a suffix.                                         *)
IsValid(e) ==
  /\ e.kind \in TenantKinds => e.entity = 0
  /\ NeedsSuffix(e.kind) => e.suffix # NoSuffix
=============================================================================
