---------------------------- MODULE MCLifecycle -----------------------------
(* Values for TLC.                                                         *)
EXTENDS Lifecycle

MCSignals == <<"SIGTERM", "SIGINT">>
=============================================================================
