----------------------------- MODULE MCIssuing -----------------------------
(* The instance of Issuing for TLC.                                        *)
EXTENDS Issuing
=============================================================================
