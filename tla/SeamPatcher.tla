---------------------------- MODULE SeamPatcher ----------------------------
(***************************************************************************)
(* The scripts that patch the installed OpenClaw, and take the patch back: *)
(* scripts/install-, uninstall- and verify-chat-stream-seam.mjs.           *)
(*                                                                         *)
(* A script is a sequence of synchronous file operations without a lock    *)
(* and without a rollback, and may stop between any two of them or in the  *)
(* middle of one: it is interrupted, or an operation fails and throws.     *)
(* The operator runs one script at a time.  A dry run writes nothing and   *)
(* is left out, as is a host directory without a package.json.             *)
(***************************************************************************)
EXTENDS Naturals, Sequences

CONSTANTS
    Targets, \* the files of the manifest, in its order
    Versions,\* versions of OpenClaw the operator may install
    Pinned   \* manifest.openclawVersion

(* The manifest lists at least one file, and no file twice.                *)
ASSUME SeamAssumption ==
    /\ Targets \in Seq(STRING)
    /\ Targets # <<>>
    /\ \A i, j \in DOMAIN Targets : Targets[i] = Targets[j] => i = j
    /\ Pinned \in Versions

VARIABLES
    version, \* the version in the host's package.json
    file,    \* file[f] = what is at the path of target f
    backup,  \* backup[f] = its copy under .smarter-claw-backups
    sentinel,\* .smarter-claw-chat-stream-seam-applied.json
    script,  \* the script that runs, and where it is
    forced,  \* history: --force went past a baseline issue of this tree
    undoing  \* history: an uninstall began under the present sentinel

seamVars == <<version, file, backup, sentinel, script, forced, undoing>>

Target == {Targets[i] : i \in DOMAIN Targets}

(* Of the content, whether it is a file of the host, its overlay, or half  *)
(* a copy.                                                                 *)
Content == {"original", "patched", "torn"}

NoScript == [name |-> "none", at |-> 1]

Script ==
    [name : {"backup", "overlay", "seal", "restore", "forget", "unseal"},
     at   : 1..Len(Targets) + 1] \cup {NoScript}

AllAre(content) == \A f \in Target : file[f] = content

----------------------------------------------------------------------------
(* install-chat-stream-seam.mjs *)

(* mutant: the baseline is not verified *)
InstallUnverified(force) ==
    /\ script = NoScript
    /\ version = Pinned
    /\ sentinel = "none"
    /\ script' = [name |-> "backup", at |-> 1]
    /\ forced' = (forced \/ (force /\ ~AllAre("original")))
    /\ UNCHANGED <<version, file, backup, sentinel, undoing>>

(* The script exits when the host has another version, when it finds a     *)
(* sentinel, and when a file is not the baseline, unless it is forced.     *)
Install(force) ==
    /\ script = NoScript
    /\ version = Pinned
    /\ sentinel = "none"
    /\ AllAre("original") \/ force
    /\ script' = [name |-> "backup", at |-> 1]
    /\ forced' = (forced \/ ~AllAre("original"))
    /\ UNCHANGED <<version, file, backup, sentinel, undoing>>

(* backupOriginal copies whatever is at the path.                          *)
Backup ==
    LET f == Targets[script.at]
    IN  /\ script.name = "backup"
        /\ backup' = [backup EXCEPT ![f] = file[f]]
        /\ script' = [script EXCEPT !.name = "overlay"]
        /\ UNCHANGED <<version, file, sentinel, forced, undoing>>

(* mutant: the last file of the manifest is skipped *)
OverlayButLast ==
    LET f    == Targets[script.at]
        next == script.at + 1
    IN  /\ script.name = "overlay"
        /\ file' = [file EXCEPT ![f] = "patched"]
        /\ script' = [name |-> IF next >= Len(Targets) THEN "seal" ELSE "backup",
                      at   |-> next]
        /\ UNCHANGED <<version, backup, sentinel, forced, undoing>>

(* applyOverlay, and the check of the result                               *)
Overlay ==
    LET f    == Targets[script.at]
        next == script.at + 1
    IN  /\ script.name = "overlay"
        /\ file' = [file EXCEPT ![f] = "patched"]
        /\ script' = [name |-> IF next > Len(Targets) THEN "seal" ELSE "backup",
                      at   |-> next]
        /\ UNCHANGED <<version, backup, sentinel, forced, undoing>>

Seal ==
    /\ script.name = "seal"
    /\ sentinel' = "whole"
    /\ script' = NoScript
    /\ undoing' = FALSE
    /\ UNCHANGED <<version, file, backup, forced>>

----------------------------------------------------------------------------
(* uninstall-chat-stream-seam.mjs *)

(* Without a sentinel there is nothing to revert; half of one does not     *)
(* parse.                                                                  *)
Uninstall ==
    /\ script = NoScript
    /\ sentinel = "whole"
    /\ script' = [name |-> "restore", at |-> 1]
    /\ undoing' = TRUE
    /\ UNCHANGED <<version, file, backup, sentinel, forced>>

(* mutant: nobody looks whether there is a backup *)
RestoreUnchecked ==
    LET f    == Targets[script.at]
        next == script.at + 1
    IN  /\ script.name = "restore"
        /\ file' = [file EXCEPT ![f] = backup[f]]
        /\ script' = [name |-> IF next > Len(Targets) THEN "forget" ELSE "restore",
                      at   |-> next]
        /\ UNCHANGED <<version, backup, sentinel, forced, undoing>>

(* A missing backup ends the script, with earlier files already restored.  *)
Restore ==
    LET f    == Targets[script.at]
        next == script.at + 1
    IN  /\ script.name = "restore"
        /\ IF backup[f] = "none"
           THEN /\ script' = NoScript
                /\ file' = file
           ELSE /\ file' = [file EXCEPT ![f] = backup[f]]
                /\ script' =
                       [name |-> IF next > Len(Targets) THEN "forget" ELSE "restore",
                        at   |-> next]
        /\ UNCHANGED <<version, backup, sentinel, forced, undoing>>

(* The backups are removed before the sentinel.                            *)
Forget ==
    /\ script.name = "forget"
    /\ backup' = [f \in Target |-> "none"]
    /\ script' = [script EXCEPT !.name = "unseal"]
    /\ UNCHANGED <<version, file, sentinel, forced, undoing>>

Unseal ==
    /\ script.name = "unseal"
    /\ sentinel' = "none"
    /\ script' = NoScript
    /\ undoing' = FALSE
    /\ UNCHANGED <<version, file, backup, forced>>

----------------------------------------------------------------------------
(* The script is interrupted, or one of its operations fails: it stops     *)
(* where it is, perhaps with half a file written or half the backups gone. *)
Stop ==
    LET f == Targets[script.at]
    IN  /\ script # NoScript
        /\ script' = NoScript
        /\ backup' \in
               CASE script.name = "backup" ->
                        {backup, [backup EXCEPT ![f] = "torn"]}
                 [] script.name = "forget" ->
                        {[g \in Target |-> IF g \in gone THEN "none" ELSE backup[g]] :
                            gone \in SUBSET Target}
                 [] OTHER -> {backup}
        /\ file' \in IF \/ script.name = "overlay"
                        \/ script.name = "restore" /\ backup[f] # "none"
                     THEN {file, [file EXCEPT ![f] = "torn"]}
                     ELSE {file}
        /\ sentinel' \in IF script.name = "seal" THEN {"none", "torn"} ELSE {sentinel}
        /\ UNCHANGED <<version, forced, undoing>>

(* verify-chat-stream-seam.mjs compares the files with the hashes that the *)
(* sentinel lists.                                                         *)
Verdict ==
    CASE sentinel = "none" -> "not applied"
      [] sentinel = "torn" -> "failed"
      [] OTHER -> IF AllAre("patched") THEN "applied" ELSE "drift"

(* The operator installs OpenClaw again: the whole directory is replaced.  *)
Reinstall(v) ==
    /\ script = NoScript
    /\ version' = v
    /\ file' = [f \in Target |-> "original"]
    /\ backup' = [f \in Target |-> "none"]
    /\ sentinel' = "none"
    /\ forced' = FALSE
    /\ undoing' = FALSE
    /\ UNCHANGED script

SeamInit ==
    /\ version = Pinned
    /\ file = [f \in Target |-> "original"]
    /\ backup = [f \in Target |-> "none"]
    /\ sentinel = "none"
    /\ script = NoScript
    /\ forced = FALSE
    /\ undoing = FALSE

SeamNext ==
    \/ \E force \in BOOLEAN : Install(force)
    \/ Backup
    \/ Overlay
    \/ Seal
    \/ Uninstall
    \/ Restore
    \/ Forget
    \/ Unseal
    \/ Stop
    \/ \E v \in Versions : Reinstall(v)

SeamSpec == SeamInit /\ [][SeamNext]_seamVars

----------------------------------------------------------------------------
SeamTypeOK ==
    /\ version \in Versions
    /\ file \in [Target -> Content]
    /\ backup \in [Target -> Content \cup {"none"}]
    /\ sentinel \in {"none", "whole", "torn"}
    /\ script \in Script
    /\ forced \in BOOLEAN
    /\ undoing \in BOOLEAN

(* Whatever scripts ran and wherever they stopped, the operator gets back  *)
(* the file OpenClaw came with: it is in place or in the backups, as long  *)
(* as nobody forced an install over a tree that was not the baseline.      *)
OriginalsRecoverable ==
    ~forced => \A f \in Target : "original" \in {file[f], backup[f]}

(* Every file is patched and, unless an install was forced, can be taken   *)
(* back.                                                                   *)
Applied ==
    /\ AllAre("patched")
    /\ ~forced => \A f \in Target : backup[f] = "original"

(* The sentinel and the verdict of verify can be relied on: the patch is   *)
(* complete and can be taken back.  Once an uninstall has begun the        *)
(* sentinel alone says nothing any more.                                   *)
AppliedMeansApplied ==
    (Verdict = "applied" \/ (sentinel # "none" /\ ~undoing)) => Applied
=============================================================================
