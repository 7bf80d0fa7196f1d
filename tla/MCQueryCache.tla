---------------------------- MODULE MCQueryCache ----------------------------
(* Small instances of the response cache: one document, its question asked  *)
(* through the two endpoints by two requests that race.                     *)
EXTENDS QueryCache

MCKeys == {"ask", "retrieve"}
=============================================================================
