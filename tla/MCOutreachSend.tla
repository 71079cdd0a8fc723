--------------------------- MODULE MCOutreachSend ---------------------------
(* Instance of OutreachSend for TLC.                                       *)
EXTENDS OutreachSendProperties, TLC

ProcSymmetry == Permutations(Procs)
=============================================================================
