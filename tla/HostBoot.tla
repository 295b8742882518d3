------------------------------ MODULE HostBoot ------------------------------
(***************************************************************************)
(* The installed host from the operator's side: the scripts that patch it, *)
(* the gateway process that boots from what they left, and the plugins it  *)
(* loads.  At the end of its register() Smarter-Claw tells the operator    *)
(* whether the host is patched (buildChatStreamSeamAdvisory of index.ts).  *)
(*                                                                         *)
(* The scripts run while the gateway is down: they replace files that a    *)
(* running process has already loaded.                                     *)
(***************************************************************************)
EXTENDS SeamPatcher, PluginLoader

CONSTANT Self \* the id of Smarter-Claw

ASSUME BootAssumption == Self \in Plugins

VARIABLES
    gateway, \* "down" or "up"
    running, \* the files the gateway has loaded
    advice   \* what the plugin last said about the patch

bootVars == <<gateway, running, advice, seamVars, loaderVars>>

Nothing == [f \in Target |-> "original"]

(* Half a file does not load.                                              *)
Boot ==
    /\ gateway = "down"
    /\ script = NoScript
    /\ \A f \in Target : file[f] # "torn"
    /\ gateway' = "up"
    /\ running' = file
    /\ UNCHANGED <<advice, seamVars, loaderVars>>

(* The process ends, or crashes: everything but the files is gone.         *)
Halt ==
    /\ gateway = "up"
    /\ gateway' = "down"
    /\ running' = Nothing
    /\ advice' = "none"
    /\ registries' = <<>>
    /\ tables' = EmptyTables
    /\ active' = 0
    /\ cached' = <<>>
    /\ load' = NoLoad
    /\ aborted' = FALSE
    /\ UNCHANGED seamVars

RunScript ==
    /\ gateway = "down"
    /\ SeamNext
    /\ UNCHANGED <<gateway, running, advice, loaderVars>>

(* The advisory reads the sentinel, not the files.                         *)
Advisory ==
    CASE sentinel = "none"  -> "not applied"
      [] sentinel = "torn"  -> "unreadable"
      [] sentinel = "whole" -> "applied"

Registering == \E p \in {Self} : Register(p)

LoadPlugins ==
    /\ gateway = "up"
    /\ LoaderNext
    /\ advice' = IF Registering THEN Advisory ELSE advice
    /\ UNCHANGED <<gateway, running, seamVars>>

BootInit ==
    /\ SeamInit
    /\ LoaderInit
    /\ gateway = "down"
    /\ running = Nothing
    /\ advice = "none"

BootNext == Boot \/ Halt \/ RunScript \/ LoadPlugins

BootSpec == BootInit /\ [][BootNext]_bootVars

----------------------------------------------------------------------------
BootTypeOK ==
    /\ SeamTypeOK
    /\ LoaderTypeOK
    /\ gateway \in {"down", "up"}
    /\ running \in [Target -> Content \ {"torn"}]
    /\ advice \in {"none", "not applied", "unreadable", "applied"}

(* The operator is told the truth: by verify about the files, by the       *)
(* sentinel about the files and their backups, and by the plugin about the *)
(* host it runs in, though it looks at the sentinel alone.  Excepted is a  *)
(* tree in which an uninstall has begun and not ended.                     *)
HostAsAdvised ==
    /\ AppliedMeansApplied
    /\ advice = "applied" /\ ~undoing =>
          \A f \in Target : running[f] = "patched"
    /\ advice \in {"not applied", "unreadable"} => sentinel # "whole"
=============================================================================
