--------------------------- MODULE MCImageUpload ---------------------------
(***************************************************************************)
(* Two uploads for TLC.                                                    *)
(***************************************************************************)
EXTENDS ImageUpload
=============================================================================
