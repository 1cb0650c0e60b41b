---------------------------- MODULE MCSelfUpdate -----------------------------
(* Two new releases, so that an updater can hold an outdated one; the bounds are in the .cfg. *)
EXTENDS SelfUpdate
==============================================================================
