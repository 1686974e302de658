---------------------------- MODULE MCFeedService ----------------------------
(***************************************************************************)
(* FeedService with two symbols, one of them listed twice, for TLC.        *)
(***************************************************************************)
EXTENDS FeedService

MCSymbols == <<"AAPL", "GOOG", "AAPL">>
=============================================================================
