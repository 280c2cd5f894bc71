--------------------------- MODULE MCDirectFlash ----------------------------
(* Three blocks that endure two erasures, addresses for MaxAddr writes.    *)
EXTENDS DirectFlash
=============================================================================
