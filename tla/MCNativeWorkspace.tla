-------------------------- MODULE MCNativeWorkspace --------------------------
(* Small instances of NativeWorkspace for TLC.                             *)
EXTENDS NativeWorkspace, TLC

CONSTANTS a       \* the one effect: a file mutation, which a command is too

HandlerSymmetry == Permutations(Handler)
=============================================================================
