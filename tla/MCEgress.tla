------------------------------ MODULE MCEgress -------------------------------
(* Queues of two messages and four messages to make, so that each queue overflows and the  *)
(* pump may hold one of each, and two connections, so that what was queued while the first  *)
(* one broke goes out on the second.                                                        *)
EXTENDS Egress
==============================================================================
