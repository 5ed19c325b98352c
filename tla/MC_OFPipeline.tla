---------------------------- MODULE MC_OFPipeline ----------------------------
(* Instances of OFPipeline for TLC.                                        *)
EXTENDS OFPipeline

TwoXids == {7, 8}
=============================================================================
