------------------------------ MODULE MCAgeing ------------------------------
(* The program MCApart, with the history that AgeEarned needs.             *)
EXTENDS MCScheduler, AgeHistory
=============================================================================
