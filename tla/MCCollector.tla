----------------------------- MODULE MCCollector -----------------------------
(* A small heap for Collector: Nil and three more cells of one field. *)
EXTENDS Collector
=============================================================================
