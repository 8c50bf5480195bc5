--------------------- MODULE MCProteusMetricsSubscriber ---------------------
(* Two subscriptions that share their meters; a thread of its own may      *)
(* cancel each.                                                            *)
EXTENDS ProteusMetricsSubscriber
=============================================================================
