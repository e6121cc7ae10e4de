------------------------------ MODULE MCHistory ------------------------------
EXTENDS UpdateHistory, MCUpdate

HInitRetained ==
  /\ InitRetained
  /\ concluded = {1, 2}
  /\ dismissed = FALSE
  /\ rolledBack = None
  /\ wasInstalled = {1, 2}
  /\ mishaps = {}

HSpecRetained == HInitRetained /\ [][HNext]_hvars
=============================================================================
