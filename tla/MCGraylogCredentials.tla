------------------------ MODULE MCGraylogCredentials ------------------------
(***************************************************************************)
(* Instances of GraylogCredentials for TLC.                                *)
(***************************************************************************)
EXTENDS GraylogCredentials, TLC

CONSTANTS w1, w2, w3

TwoWatchers == {w1, w2}
ThreeWatchers == {w1, w2, w3}

WatcherSymmetry == Permutations(Watchers)
=============================================================================
