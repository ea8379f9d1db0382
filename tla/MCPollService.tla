--------------------------- MODULE MCPollService ---------------------------
(***************************************************************************)
(* Instances of PollService for TLC: the operations in play, the budgets   *)
(* of faults, and the symmetry of the safety runs.                         *)
(***************************************************************************)
EXTENDS PollServiceLedger, TLC
LOCAL INSTANCE FiniteSetsExt

VotingOnly         == {"vote"}
VoteAndRead        == {"vote", "results"}
VoteReadAndDelete  == {"vote", "results", "delete"}
VoteAndClose       == {"vote", "close"}
VoteCloseAndDelete == {"vote", "close", "delete"}
Everything         == Ops

BudgetOf(mongoErrors, redisErrors, evictions, crashes) ==
    [k \in FaultKinds |-> CASE k = "mongo" -> mongoErrors [] k = "redis" -> redisErrors
                            [] k = "evict" -> evictions   [] k = "crash" -> crashes]

FaultFree   == BudgetOf(0, 0, 0, 0)
MongoFaults == BudgetOf(2, 0, 0, 1)
EveryFault  == BudgetOf(1, 1, 1, 1)
FailingCalls == BudgetOf(1, 1, 0, 1)

Symmetry == Permutations(Requests) \cup Permutations(Voters) \cup Permutations(Options)

\* models/poll.go:122, "In single mode every ballot is exactly one selection, so the
\* two agree": a view's totalVotes and totalSelections are equal in single mode.
SingleModeTotalsAgree ==
    ~Multiple => \A r \in Requests : resp[r].view # None =>
        resp[r].view.tally.ballots
          = MapThenSumSet(LAMBDA o : resp[r].view.tally.counts[o], Options)
=============================================================================
