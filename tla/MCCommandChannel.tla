-------------------------- MODULE MCCommandChannel --------------------------
(* Small instances of CommandChannel.                                      *)
EXTENDS CommandChannel, TLC

Symmetric == Permutations(Thread)
=============================================================================
