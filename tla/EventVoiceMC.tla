---------------------------- MODULE EventVoiceMC ----------------------------
(***************************************************************************)
(* Instances of EventVoice for TLC.                                        *)
(***************************************************************************)
EXTENDS EventVoice

Budget(changes, commands, joins, faults, crashes) ==
  [changes |-> changes, commands |-> commands, joins |-> joins, faults |-> faults,
   crashes |-> crashes]

\* Two officers' commands beside the poller; a command, people, and a fault; people
\* who leave and come back; a crash with people or a command; an event that is changed
\* on the website under a command; one that is cancelled and restored after its room
\* was used.
CycleBudgets ==
  {Budget(0, 2, 0, 0, 0), Budget(0, 1, 1, 1, 0), Budget(0, 0, 2, 0, 0), Budget(0, 0, 1, 0, 1),
   Budget(0, 1, 0, 0, 1), Budget(1, 1, 1, 0, 0), Budget(2, 0, 1, 0, 0)}
=============================================================================
