-------------------------- MODULE MCEnrichmentRelay -------------------------
(* Instances, urls and companies of EnrichmentRelay.                       *)
EXTENDS EnrichmentRelay
=============================================================================
