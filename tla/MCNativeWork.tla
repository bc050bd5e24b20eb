---------------------------- MODULE MCNativeWork ----------------------------
(* One work under three threads: a winner and two that wait with it.         *)
EXTENDS NativeWork
=============================================================================
