----------------------------- MODULE MCExporter -----------------------------
(* Small instances of Exporter. *)
EXTENDS Exporter, TLC

Symmetry == Permutations(Pods) \cup Permutations(Scrapers)
=============================================================================
