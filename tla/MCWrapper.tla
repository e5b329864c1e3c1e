----------------------------- MODULE MCWrapper -----------------------------
(***************************************************************************)
(* An instance of WrapperCalls for TLC.                                    *)
(***************************************************************************)
EXTENDS WrapperCalls

AllFamilies == DOMAIN Calls
=============================================================================
