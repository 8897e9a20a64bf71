------------------------- MODULE MCWhatsAppSession -------------------------
(* Instances of WhatsAppSession for TLC; the bounds are in the .cfg files.   *)
EXTENDS WhatsAppSession
=============================================================================
