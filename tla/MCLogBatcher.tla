---------------------------- MODULE MCLogBatcher -----------------------------
(* LogBatcher with a few lines: enough for one batch in the flush loop's request, one in   *)
(* the job's and one in the buffer at the same time.                                       *)
EXTENDS LogBatcher
==============================================================================
