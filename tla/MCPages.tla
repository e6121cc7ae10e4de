-------------------------------- MODULE MCPages --------------------------------
(***************************************************************************)
(* Small instances of AgentWorkspaces: every state the keys of the page    *)
(* may be found in, with clicks on its settings, and one migrated state    *)
(* with clicks on profiles and workspaces.                                 *)
(***************************************************************************)
EXTENDS AgentWorkspaces

MCFills == {{"missing", "required", "approve"}, {"required"}}

CONSTANTS SettingsClicks, StartsClicks

Migrated == {[command |-> [current |-> None, legacy |-> None],
              permissions |-> [current |-> OwnFile, legacy |-> None]]}
MCScenarios ==
    [keys : Keys, shown : {FALSE}, settings : {SettingsClicks}, starts : {0}] \cup
    [keys : Migrated, shown : {TRUE}, settings : {0}, starts : {StartsClicks}]
=============================================================================
