---------------------------- MODULE BotEventsMC ----------------------------
(***************************************************************************)
(* Instances of BotEvents for TLC.                                         *)
(***************************************************************************)
EXTENDS BotEvents

Budget(creates, changes, faults, crashes, rejoins, flashes, fresh) ==
  [creates |-> creates, changes |-> changes, faults |-> faults, crashes |-> crashes,
   rejoins |-> rejoins, flashes |-> flashes, fresh |-> fresh]

\* Two events with a fault and a crash, one event through two changes with a fault
\* or a crash, a fresh guild, a flash mass, and a guild that is left and joined.
PollBudgets ==
  {Budget(2, 0, 1, 1, 0, 0, 0), Budget(1, 2, 1, 0, 0, 0, 0), Budget(1, 2, 0, 1, 0, 0, 0),
   Budget(2, 1, 1, 0, 0, 0, 0), Budget(1, 1, 1, 0, 0, 1, 0), Budget(1, 1, 0, 0, 1, 0, 0),
   Budget(2, 0, 1, 0, 0, 0, 1)}

\* An event that is cancelled and restored, without any fault.
RestoreBudgets == {Budget(1, 2, 0, 0, 0, 0, 0)}
============================================================================
