----------------------------- MODULE MCCampaign -----------------------------
(***************************************************************************)
(* An instance of LingoCampaign small enough for TLC.                      *)
(***************************************************************************)
EXTENDS LingoCampaign

CONSTANTS m1, d1, w1, w2
=============================================================================
