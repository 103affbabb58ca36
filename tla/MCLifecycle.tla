----------------------------- MODULE MCLifecycle -----------------------------
(* Small instances of Lifecycle for TLC.  No symmetry: liveness is checked. *)
EXTENDS Lifecycle

=============================================================================
