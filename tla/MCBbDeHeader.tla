--------------------------- MODULE MCBbDeHeader ---------------------------
(* Instance of BbDeHeader for TLC: packets of four bytes.                  *)
EXTENDS BbDeHeader
=============================================================================
