-------------------------- MODULE MCCompletionWork --------------------------
(* Works with and without a callback, on both kinds of event, for TLC.       *)
EXTENDS CompletionWork
=============================================================================
