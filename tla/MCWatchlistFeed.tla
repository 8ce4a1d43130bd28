---------------------------- MODULE MCWatchlistFeed ----------------------------
(* Instances of WatchlistFeed for TLC.                                     *)
EXTENDS WatchlistFeed, TLC
=============================================================================
