---------------------------- MODULE MCRefinement ----------------------------
(***************************************************************************)
(* MCPortal's instances, for the refinement.                               *)
(***************************************************************************)
EXTENDS MCPortal, PortalRefinement, PortalInductive
=============================================================================
