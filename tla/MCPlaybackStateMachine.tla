----------------------- MODULE MCPlaybackStateMachine -----------------------
(* Model-checking instance of PlaybackStateMachine: two items, two          *)
(* positions and one plain setting, every order of inputs.                  *)
EXTENDS PlaybackStateMachine, TLC

(* Items are only ever compared with each other.                            *)
ItemSymmetry == Permutations(Items)
=============================================================================
