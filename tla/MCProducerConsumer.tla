-------------------------- MODULE MCProducerConsumer --------------------------
(* Producer and consumer, as commands and as applications, and sadd and      *)
(* shareadd, for TLC.                                                        *)
EXTENDS SharedVars
=============================================================================
