---------------------------- MODULE MCLifecycle ----------------------------
(* Small instances of Lifecycle: at most one call of each kind. *)
EXTENDS Lifecycle

CONSTANTS iTick, wait, trigger, pTick, pStartup, client

MCIngestionTick == {iTick}
MCWaiting == {wait}
MCAsync == {trigger}
MCProcessingTick == {pTick}
MCProcessingStartup == {pStartup}
MCWeb == {client}
Nobody == {}
=============================================================================
