------------------------- MODULE MCWhatsAppDelivery -------------------------
(* Small instances of WhatsAppDelivery for TLC.                            *)
EXTENDS WhatsAppDelivery

CONSTANTS k1, q1, q2, w1, w2
=============================================================================
