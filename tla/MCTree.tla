-------------------------------- MODULE MCTree --------------------------------
EXTENDS WorkingTreeWatch
Chain == [a |-> "root", b |-> "a"]
One == [a |-> "root"]
=============================================================================
