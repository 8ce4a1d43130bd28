------------------------ MODULE MCApplicationTracker ------------------------
(* Instances of ApplicationTracker for TLC: the applications of one job    *)
(* are interchangeable, because no definition names one.                   *)
EXTENDS ApplicationTracker, TLC

AppsAreAlike == Permutations(AppIds)
=============================================================================
