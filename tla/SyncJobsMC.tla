------------------------------ MODULE SyncJobsMC -----------------------------
(***************************************************************************)
(* Small instances of SyncJobs for TLC.                                    *)
(***************************************************************************)
EXTENDS SyncJobs

EventAtGuild == [origin |-> "alliance", entity |-> "event 42", target |-> "guild"]

Submit(key, op, order, version) ==
  [key |-> key, op |-> op, order |-> order, version |-> version]

(* Two changes of one entity. *)
TwoChanges ==
  { Submit(EventAtGuild, "upsert", "event 42", 1),
    Submit(EventAtGuild, "delete", "event 42", 2) }

(* And a command under the same ordering key. *)
EventChanges ==
  TwoChanges \cup {Submit(EventAtGuild, "command", "event 42", 3)}
=============================================================================
