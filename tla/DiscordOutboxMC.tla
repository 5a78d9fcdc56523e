--------------------------- MODULE DiscordOutboxMC ---------------------------
(***************************************************************************)
(* Small instances of DiscordOutbox for TLC.                               *)
(***************************************************************************)
EXTENDS DiscordOutbox, TLC

Eff(kind, entity, suffix, delayed, expires) ==
  [kind |-> kind, entity |-> entity, cause |-> "web", suffix |-> suffix,
   delayed |-> delayed, expires |-> expires]

Upsert   == Eff("event.upsert", 7, NoSuffix, FALSE, FALSE)
Close    == Eff("event.close", 7, NoSuffix, FALSE, FALSE)
Start    == Eff("event.start", 7, "started", FALSE, TRUE)
Calendar == Eff("calendar.sync", 0, NoSuffix, TRUE, FALSE)

(* One event: a coalescing refresh, the close that supersedes it and a     *)
(* once effect of the same event, which expires.                           *)
EventEffects == {Upsert, Close, Start}

(* Two entities with different priorities. *)
MixedEffects == {Upsert, Calendar}

Refresh == {Upsert}

Symmetry == Permutations(Token) \cup Permutations(Instance)
=============================================================================
