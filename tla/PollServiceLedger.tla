------------------------- MODULE PollServiceLedger -------------------------
(***************************************************************************)
(* PollService implements PollLedger: every step of every request, every   *)
(* failure and every loss of the cache is a step of the ledger or leaves   *)
(* it alone.                                                               *)
(***************************************************************************)
EXTENDS PollService

phaseBar == IF poll = None THEN "gone" ELSE IF poll.closed THEN "closed" ELSE "open"

\* A vote is admitted from the load that found the poll open to its insert.
admittedBar == {r \in Requests : pc[r] = "insert"}

totalBar == IF poll = None THEN ZeroTally ELSE poll.tally

ackedBar == {r \in Requests : resp[r].status = "created"}

Ledger == INSTANCE PollLedger
            WITH phase <- phaseBar, admitted <- admittedBar, recorded <- votes,
                 counted <- counted, total <- totalBar, acked <- ackedBar

\* The requests, the two collections and the cached tally keep the promises of the
\* ledger: one legal ballot per voter, admitted while the poll was open, counted at
\* most once, the tally always that of counted ballots, acknowledged when recorded.
ImplementsLedger == Ledger!Spec
=============================================================================
