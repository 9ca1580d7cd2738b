----------------------------- MODULE MCLifecycle -----------------------------
(* Lifecycle as it is: it has no parameters, and finitely many states.     *)
EXTENDS Lifecycle
==============================================================================
