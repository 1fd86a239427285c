--------------------------- MODULE MCBatchCanary ---------------------------
(* BatchCanary on a small instance, at the prices of the code.             *)
EXTENDS BatchCanary

AllTwists == {"double", "alias", "surcharge", "skim", "unlisted", "drift"}
=============================================================================
