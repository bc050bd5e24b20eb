---------------------------- MODULE MCLeasedWork ----------------------------
(* Runs of two buffers of one size, so that a run can acquire what another   *)
(* is half-way through releasing.                                            *)
EXTENDS LeasedWork

CONSTANT k1

TwoBuffers == <<k1, k1>>

MCLeases == Works \X {1, 2}
=============================================================================
