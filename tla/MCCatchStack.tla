-------------------------- MODULE MCCatchStack --------------------------
(* Sets of functions in which the resizing of catch_stack fails.           *)
EXTENDS CatchStack

Raising == {"block", "interpret"}
Analyzing == {"analyze"}
=============================================================================
