---------------------------- MODULE MCGoldenCache ----------------------------
(* One bundle, of every chunk there is, for TLC.                            *)
EXTENDS GoldenCache

AllChunks == [i \in Images |-> Chunks]
==============================================================================
