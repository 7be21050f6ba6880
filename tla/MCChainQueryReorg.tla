-------------------------- MODULE MCChainQueryReorg --------------------------
(***************************************************************************)
(* Two instances of ChainQuery over one tree: an index of this version     *)
(* that all four queries are asked of, or a database in which an older     *)
(* version left stale blocks, asked for totals, where one crash happens.   *)
(***************************************************************************)
EXTENDS MCChainQuery

VARIABLE legacy

Old == INSTANCE ChainQuery WITH LegacyBlocks <- LegacyB, Asked <- AskedStats, MaxCrashes <- 1

MCInit == (legacy = FALSE /\ Init) \/ (legacy = TRUE /\ Old!Init)

MCNext == legacy' = legacy /\ (IF legacy THEN Old!Next ELSE Next)

MCSpec == MCInit /\ [][MCNext]_<<vars, legacy>>

\* An answer is that of one chain where no stale rows of an older version stand, and while the chain stands
\* still a spend is found in the block that it is in (ChainQuery).
AnswersExact == (~legacy => AnswerOfOneChain) /\ SpendExactWhileStill
==============================================================================
