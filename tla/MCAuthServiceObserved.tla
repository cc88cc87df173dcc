------------------------ MODULE MCAuthServiceObserved ------------------------
(***************************************************************************)
(* The instances of MCAuthService, for AuthServiceObserved.                *)
(***************************************************************************)
EXTENDS MCAuthService, AuthServiceObserved
=============================================================================
