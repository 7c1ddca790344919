---------------------------- MODULE MCFastCommit ----------------------------
(* Model-checking instance of FastCommit.  FastCommit skips temporary      *)
(* (AddressUndefined) handles, so the runs allocate none of them.          *)
EXTENDS FastCommit

MCMaxTempIndex == 0
MCConstraint == tempStorageIndex <= MCMaxTempIndex
==============================================================================
