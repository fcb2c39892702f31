------------------------------ MODULE MCDiscovery ------------------------------
EXTENDS Discovery

(* Besides a's description: one of a family the app cannot read, which it  *)
(* takes for b's; b's own, which lacks a sink; and one that covers b as    *)
(* well but was made for another id, and has no sinks.                     *)
MCDatabase ==
  << [covers |-> {"a"}, matched |-> {"a"}, form |-> "complete"],
     [covers |-> {}, matched |-> {"b"}, form |-> "complete"],
     [covers |-> {"b"}, matched |-> {"b"}, form |-> "incomplete"],
     [covers |-> {"b"}, matched |-> {"b"}, form |-> "sinkless"] >>
=============================================================================
