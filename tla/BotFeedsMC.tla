----------------------------- MODULE BotFeedsMC -----------------------------
(***************************************************************************)
(* Instances of BotFeeds for TLC.                                          *)
(***************************************************************************)
EXTENDS BotFeeds

Idle == [counter \in Counter |-> 0]

\* A VOD post of an event that is archived and restored, with faults and crashes,
\* and an operator's retry.
VodBudget == [Idle EXCEPT !["vods"] = 2, !["archives"] = 2, !["faults"] = 2, !["crashes"] = 1]
\* Two giveaways that are closed, with failures and a restart.
GiveawayBudget ==
  [Idle EXCEPT !["giveaways"] = 2, !["draws"] = 2, !["faults"] = 2, !["crashes"] = 1]
\* A split through three changes.
SplitBudget == [Idle EXCEPT !["splits"] = 3, !["faults"] = 2, !["crashes"] = 1]

FeedBudgets == {VodBudget, GiveawayBudget, SplitBudget}
=============================================================================
