---------------------------- MODULE MCStateRecord ----------------------------
(* A device with two names and records of one label and one number.           *)
EXTENDS StateRecord, TLC

TwoNames == <<"id", "bdf">>
OneLabel == <<"state">>
OneNumber == <<"count">>
Symmetric == Permutations(Directories) \cup Permutations(Records)
=============================================================================
