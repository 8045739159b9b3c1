----------------------------- MODULE MCExports -----------------------------
(* Two exports on two instances.                                          *)
EXTENDS Exports
=============================================================================
