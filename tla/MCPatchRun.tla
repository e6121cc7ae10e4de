----------------------------- MODULE MCPatchRun -----------------------------
EXTENDS PatchRun
M1 == <<"tray", "sidebar">>
P1 == <<"bootstrap">>
W1 == <<"sunset", "search">>
Q1 == <<"keybinds">>
Target1 == [tray |-> {"main"}, sidebar |-> {"main"}, bootstrap |-> {"boot"},
            sunset |-> {"a", "b"}, search |-> {"a"}, keybinds |-> {"boot"}]
=============================================================================
