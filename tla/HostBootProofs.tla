------------------------- MODULE HostBootProofs -------------------------
(***************************************************************************)
(* What the operator and the agent rely on when the patched host boots, for*)
(* any manifest, wherever a script stops, and for any plugins, whatever    *)
(* they register and wherever their registration fails.                    *)
(*                                                                         *)
(* The scripts.  OriginalsRecoverable is not inductive: an install makes   *)
(* backups of what it finds, an uninstall removes them.  The invariant says*)
(* how far the script that runs has come, and what an uninstall that was   *)
(* interrupted leaves behind: a file without a backup is the original.     *)
(*                                                                         *)
(* The plugins.  TablesMatchActive speaks of the tables between two loads; *)
(* the invariant says the same of the load that runs, of every cached      *)
(* registry that may be activated again, and of the active one for as long *)
(* as a load that does not activate runs beside it.                        *)
(***************************************************************************)
EXTENDS HostBoot, WellFoundedInduction, TLAPS


Installing == script.name \in {"backup", "overlay", "seal"}

Uninstalling == script.name \in {"restore", "forget", "unseal"}

(* The files before script.at are done, the others are still the baseline. *)
InstallProgress ==
    Installing =>
        /\ sentinel = "none"
        /\ script.name = "seal" <=> script.at = Len(Targets) + 1
        /\ \A j \in DOMAIN Targets :
              j < script.at => file[Targets[j]] = "patched"
        /\ ~forced => \A j \in DOMAIN Targets :
              /\ j < script.at => backup[Targets[j]] = "original"
              /\ j >= script.at => file[Targets[j]] = "original"
        /\ ~forced /\ script.name = "overlay" =>
              backup[Targets[script.at]] = "original"

UninstallProgress ==
    Uninstalling =>
        /\ sentinel = "whole"
        /\ undoing
        /\ script.name = "restore" <=> script.at # Len(Targets) + 1
        /\ ~forced => \A j \in DOMAIN Targets :
              j < script.at => file[Targets[j]] = "original"
        /\ script.name = "unseal" => backup = [f \in Target |-> "none"]

(* An uninstall that has begun can go on or has no more to do.             *)
Undoable ==
    undoing =>
        /\ sentinel = "whole"
        /\ ~forced => \A f \in Target :
              \/ backup[f] = "original"
              \/ backup[f] = "none" /\ file[f] = "original"

Sealed == sentinel # "none" /\ ~undoing => Applied

IInv ==
    /\ SeamTypeOK
    /\ OriginalsRecoverable
    /\ InstallProgress
    /\ UninstallProgress
    /\ Undoable
    /\ Sealed

----------------------------------------------------------------------------
(* Facts about the manifest.                                               *)
LEMMA ManifestFacts ==
  /\ Len(Targets) \in Nat \ {0}
  /\ DOMAIN Targets = 1..Len(Targets)
  /\ \A j \in DOMAIN Targets : j < Len(Targets) + 1
  /\ \A j \in DOMAIN Targets : Targets[j] \in Target
  /\ \A f \in Target : \E j \in DOMAIN Targets : f = Targets[j]
  /\ \A i, j \in DOMAIN Targets : Targets[i] = Targets[j] => i = j
  BY SeamAssumption DEF Target

(* The record that stands for no script.                                   *)
LEMMA NoScriptFacts ==
  NoScript \in Script /\ NoScript.name = "none" /\ NoScript.at = 1
  BY ManifestFacts DEF NoScript, Script

(* The tree as OpenClaw was installed.                                     *)
LEMMA SeamInitIInv == SeamInit => IInv
<1> SUFFICES ASSUME SeamInit PROVE IInv
  OBVIOUS
<1> USE ManifestFacts, SeamAssumption DEF SeamInit
<1>1. SeamTypeOK
  BY NoScriptFacts DEF SeamTypeOK, Content
<1>2. ~Installing /\ ~Uninstalling /\ ~undoing /\ sentinel = "none"
  BY DEF NoScript, Installing, Uninstalling
<1>3. OriginalsRecoverable
  BY DEF OriginalsRecoverable
<1> QED
  BY <1>1, <1>2, <1>3
     DEF IInv, InstallProgress, UninstallProgress, Undoable, Sealed

(* Where a script is, when it works on a file.                             *)
LEMMA ScriptAtFile ==
  ASSUME IInv, script.name \in {"backup", "overlay", "restore"}
  PROVE  /\ script.at \in DOMAIN Targets
         /\ Targets[script.at] \in Target
         /\ script.at + 1 \in 1..Len(Targets) + 1
  BY ManifestFacts, NoScriptFacts
     DEF IInv, SeamTypeOK, Script, Installing, Uninstalling, InstallProgress,
         UninstallProgress

LEMMA InstallPreserves ==
  ASSUME IInv, NEW force \in BOOLEAN, Install(force)
  PROVE  IInv'
<1> USE ManifestFacts DEF IInv, Install
<1>1. SeamTypeOK'
  BY DEF SeamTypeOK, Script
<1>2. /\ script'.name = "backup"
      /\ script'.at = 1
      /\ ~Uninstalling'
      /\ ~undoing'
      /\ sentinel' = "none"
      /\ file' = file
      /\ backup' = backup
  BY DEF Uninstalling, Undoable
<1>3. ~forced' => ~forced /\ \A f \in Target : file[f] = "original"
  BY DEF AllAre
<1>4. OriginalsRecoverable'
  BY <1>2, <1>3 DEF OriginalsRecoverable
<1>5. InstallProgress'
  BY <1>2, <1>3 DEF InstallProgress
<1> QED
  BY <1>1, <1>2, <1>4, <1>5 DEF UninstallProgress, Undoable, Sealed

LEMMA BackupPreserves ==
  ASSUME IInv, Backup
  PROVE  IInv'
<1> DEFINE at == script.at
           f  == Targets[script.at]
<1> USE ManifestFacts, ScriptAtFile DEF IInv, Backup
<1>1. SeamTypeOK'
  BY NoScriptFacts DEF SeamTypeOK, Script
<1>2. /\ script'.name = "overlay"
      /\ script'.at = at
      /\ Installing
      /\ ~Uninstalling'
      /\ file' = file
      /\ backup' = [backup EXCEPT ![f] = file[f]]
      /\ forced' = forced
      /\ sentinel' = sentinel
      /\ undoing' = undoing
  BY DEF Installing, Uninstalling, SeamTypeOK, Script
<1>3. sentinel = "none" /\ ~undoing
  BY <1>2 DEF InstallProgress, Undoable
<1>4. OriginalsRecoverable'
  BY <1>2 DEF OriginalsRecoverable, InstallProgress, SeamTypeOK
<1>5. InstallProgress'
  <2> SUFFICES ASSUME ~forced
               PROVE  \A j \in DOMAIN Targets :
                         /\ j < at => backup'[Targets[j]] = "original"
                         /\ j >= at => file[Targets[j]] = "original"
                         /\ j = at => backup'[Targets[j]] = "original"
    BY <1>2 DEF InstallProgress, SeamTypeOK, Script
  <2> QED
    BY <1>2 DEF InstallProgress, SeamTypeOK
<1> QED
  BY <1>1, <1>2, <1>3, <1>4, <1>5 DEF UninstallProgress, Undoable, Sealed

LEMMA OverlayPreserves ==
  ASSUME IInv, Overlay
  PROVE  IInv'
<1> DEFINE at == script.at
           f  == Targets[script.at]
<1> USE ManifestFacts, ScriptAtFile DEF IInv, Overlay
<1>1. SeamTypeOK'
  BY DEF SeamTypeOK, Script, Content
<1>2. /\ script'.name = IF at + 1 > Len(Targets) THEN "seal" ELSE "backup"
      /\ script'.at = at + 1
      /\ Installing
      /\ ~Uninstalling'
      /\ file' = [file EXCEPT ![f] = "patched"]
      /\ backup' = backup
      /\ forced' = forced
      /\ sentinel' = sentinel
      /\ undoing' = undoing
  BY DEF Installing, Uninstalling
<1>3. sentinel = "none" /\ ~undoing
  BY <1>2 DEF InstallProgress, Undoable
<1>4. at \in DOMAIN Targets /\ file \in [Target -> Content]
  BY DEF SeamTypeOK
<1>5. \A j \in DOMAIN Targets : j <= at => file'[Targets[j]] = "patched"
  BY <1>2, <1>4 DEF InstallProgress
<1>6. ~forced => \A j \in DOMAIN Targets :
                    /\ j <= at => backup[Targets[j]] = "original"
                    /\ j > at => file'[Targets[j]] = "original"
  BY <1>2, <1>4 DEF InstallProgress
<1>7. InstallProgress'
  BY <1>2, <1>3, <1>4, <1>5, <1>6 DEF InstallProgress
<1>8. OriginalsRecoverable'
  BY <1>2, <1>4, <1>6 DEF OriginalsRecoverable
<1> QED
  BY <1>1, <1>2, <1>3, <1>7, <1>8 DEF UninstallProgress, Undoable, Sealed

(* When a script writes the sentinel, the patch is complete.               *)
LEMMA AllPatched ==
  ASSUME IInv, script.name = "seal"
  PROVE  sentinel = "none" /\ ~undoing /\ Applied
<1>1. Installing /\ script.at = Len(Targets) + 1
  BY ManifestFacts DEF IInv, Installing, InstallProgress
<1>2. /\ \A f \in Target : file[f] = "patched"
      /\ ~forced => \A f \in Target : backup[f] = "original"
  BY <1>1, ManifestFacts DEF IInv, InstallProgress
<1> QED
  BY <1>1, <1>2 DEF IInv, InstallProgress, Undoable, Applied, AllAre

LEMMA SealPreserves ==
  ASSUME IInv, Seal
  PROVE  IInv'
<1> USE NoScriptFacts DEF IInv
<1>1. SeamTypeOK'
  BY DEF SeamTypeOK, Seal
<1>2. ~Installing' /\ ~Uninstalling' /\ ~undoing'
  BY DEF Installing, Uninstalling, Seal
<1>3. Applied'
  BY AllPatched DEF Applied, AllAre, Seal
<1>4. OriginalsRecoverable'
  BY DEF OriginalsRecoverable, Seal
<1> QED
  BY <1>1, <1>2, <1>3, <1>4
     DEF InstallProgress, UninstallProgress, Undoable, Sealed

LEMMA UninstallPreserves ==
  ASSUME IInv, Uninstall
  PROVE  IInv'
<1> USE ManifestFacts DEF IInv, Uninstall
<1>1. SeamTypeOK'
  BY DEF SeamTypeOK, Script
<1>2. /\ script'.name = "restore"
      /\ script'.at = 1
      /\ ~Installing'
      /\ undoing'
      /\ sentinel = "whole"
  BY DEF Installing
<1>3. ~forced => \A f \in Target :
                    \/ backup[f] = "original"
                    \/ backup[f] = "none" /\ file[f] = "original"
  BY DEF Undoable, Sealed, Applied
<1>4. OriginalsRecoverable'
  BY DEF OriginalsRecoverable
<1>5. UninstallProgress'
  BY <1>2 DEF UninstallProgress
<1> QED
  BY <1>1, <1>2, <1>3, <1>4, <1>5 DEF InstallProgress, Undoable, Sealed

LEMMA RestorePreserves ==
  ASSUME IInv, Restore
  PROVE  IInv'
<1> DEFINE at == script.at
           f  == Targets[script.at]
<1> USE ManifestFacts, ScriptAtFile DEF IInv
<1>1. /\ Uninstalling
      /\ at \in DOMAIN Targets
      /\ f \in Target
      /\ file \in [Target -> Content]
      /\ backup \in [Target -> Content \cup {"none"}]
  BY DEF Restore, Uninstalling, SeamTypeOK
<1>2. sentinel = "whole" /\ undoing
  BY <1>1 DEF UninstallProgress
<1>3. /\ backup' = backup
      /\ sentinel' = sentinel
      /\ forced' = forced
      /\ undoing' = undoing
      /\ version' = version
  BY DEF Restore
<1>4. CASE backup[f] = "none"
  <2>1. script' = NoScript /\ file' = file
    BY <1>4 DEF Restore
  <2>2. SeamTypeOK'
    BY <1>3, <2>1 DEF SeamTypeOK, Script, NoScript
  <2>3. ~Installing' /\ ~Uninstalling'
    BY <2>1 DEF Installing, Uninstalling, NoScript
  <2> QED
    BY <1>2, <1>3, <2>1, <2>2, <2>3
       DEF OriginalsRecoverable, InstallProgress, UninstallProgress, Undoable,
           Sealed
<1>5. CASE backup[f] # "none"
  <2>1. /\ file' = [file EXCEPT ![f] = backup[f]]
        /\ script' =
              [name |-> IF at + 1 > Len(Targets) THEN "forget" ELSE "restore",
               at   |-> at + 1]
    BY <1>5 DEF Restore
  <2>2. SeamTypeOK'
    BY <1>1, <1>3, <1>5, <2>1 DEF SeamTypeOK, Script, Restore
  <2>3. ~Installing'
    BY <2>1 DEF Installing
  <2>4. ~forced => backup[f] = "original"
    BY <1>1, <1>2, <1>5 DEF Undoable
  <2>5. UninstallProgress'
    BY <1>1, <1>2, <1>3, <2>1, <2>4 DEF UninstallProgress
  <2>6. Undoable'
    BY <1>1, <1>2, <1>3, <2>1, <2>4 DEF Undoable
  <2>7. OriginalsRecoverable'
    BY <1>1, <1>3, <2>1, <2>4 DEF OriginalsRecoverable
  <2> QED
    BY <1>2, <1>3, <2>2, <2>3, <2>5, <2>6, <2>7 DEF InstallProgress, Sealed
<1> QED
  BY <1>4, <1>5

(* When a script removes the backups, every file is restored.              *)
LEMMA AllRestored ==
  ASSUME IInv, script.name \in {"forget", "unseal"}
  PROVE  /\ sentinel = "whole"
         /\ undoing
         /\ ~forced => \A f \in Target : file[f] = "original"
<1>1. Uninstalling /\ script.at = Len(Targets) + 1
  BY ManifestFacts DEF IInv, Uninstalling, UninstallProgress
<1> QED
  BY <1>1, ManifestFacts DEF IInv, UninstallProgress

LEMMA ForgetPreserves ==
  ASSUME IInv, Forget
  PROVE  IInv'
<1> USE ManifestFacts, AllRestored DEF IInv
<1>1. /\ script'.name = "unseal"
      /\ script'.at = script.at
      /\ script.at = Len(Targets) + 1
      /\ backup' = [f \in Target |-> "none"]
      /\ file' = file /\ sentinel' = sentinel
      /\ forced' = forced /\ undoing' = undoing
  BY DEF Forget, SeamTypeOK, Script, Uninstalling, UninstallProgress
<1>2. /\ sentinel = "whole"
      /\ undoing
      /\ ~forced => \A f \in Target : file[f] = "original"
  BY DEF Forget
<1>3. SeamTypeOK'
  BY NoScriptFacts DEF SeamTypeOK, Script, Forget
<1>4. ~Installing'
  BY <1>1 DEF Installing
<1>5. UninstallProgress'
  BY <1>1, <1>2 DEF UninstallProgress
<1> QED
  BY <1>1, <1>2, <1>3, <1>4, <1>5
     DEF OriginalsRecoverable, InstallProgress, Undoable, Sealed

LEMMA UnsealPreserves ==
  ASSUME IInv, Unseal
  PROVE  IInv'
<1> USE DEF IInv
<1>1. SeamTypeOK'
  BY NoScriptFacts DEF SeamTypeOK, Unseal
<1>2. ~Installing' /\ ~Uninstalling' /\ ~undoing' /\ sentinel' = "none"
  BY DEF Unseal, NoScript, Installing, Uninstalling
<1>3. OriginalsRecoverable'
  BY DEF OriginalsRecoverable, Unseal
<1> QED
  BY <1>1, <1>2, <1>3
     DEF InstallProgress, UninstallProgress, Undoable, Sealed

(* One step per script that can be stopped.                                *)
LEMMA StopPreserves ==
  ASSUME IInv, Stop
  PROVE  IInv'
<1> DEFINE f == Targets[script.at]
<1> USE NoScriptFacts DEF IInv
<1>1. /\ file \in [Target -> Content]
      /\ backup \in [Target -> Content \cup {"none"}]
      /\ "torn" \in Content
      /\ script' = NoScript
      /\ version' = version
      /\ forced' = forced
      /\ undoing' = undoing
      /\ ~Installing' /\ ~Uninstalling'
  BY DEF SeamTypeOK, Content, Stop, Installing, Uninstalling
<1>2. SUFFICES SeamTypeOK' /\ OriginalsRecoverable' /\ Undoable' /\ Sealed'
  BY <1>1 DEF InstallProgress, UninstallProgress
<1>3. CASE script.name = "backup"
  <2>1. /\ file' = file /\ sentinel' = sentinel
        /\ backup' \in {backup, [backup EXCEPT ![f] = "torn"]}
    BY <1>3 DEF Stop
  <2>2. /\ script.at \in DOMAIN Targets
        /\ f \in Target
        /\ sentinel = "none" /\ ~undoing
        /\ ~forced => file[f] = "original"
    BY <1>3, ScriptAtFile, ManifestFacts
       DEF Installing, InstallProgress, Undoable
  <2>3. SeamTypeOK'
    BY <1>1, <2>1, <2>2 DEF SeamTypeOK
  <2>4. OriginalsRecoverable'
    BY <1>1, <2>1, <2>2 DEF OriginalsRecoverable
  <2> QED
    BY <1>1, <2>1, <2>2, <2>3, <2>4 DEF Undoable, Sealed
<1>4. CASE script.name = "overlay"
  <2>1. /\ backup' = backup /\ sentinel' = sentinel
        /\ file' \in {file, [file EXCEPT ![f] = "torn"]}
    BY <1>4 DEF Stop
  <2>2. /\ f \in Target
        /\ sentinel = "none" /\ ~undoing
        /\ ~forced => backup[f] = "original"
    BY <1>4, ScriptAtFile DEF Installing, InstallProgress, Undoable
  <2>3. SeamTypeOK'
    BY <1>1, <2>1, <2>2 DEF SeamTypeOK
  <2>4. OriginalsRecoverable'
    BY <1>1, <2>1, <2>2 DEF OriginalsRecoverable
  <2> QED
    BY <1>1, <2>1, <2>2, <2>3, <2>4 DEF Undoable, Sealed
<1>5. CASE script.name = "seal"
  <2>1. /\ backup' = backup /\ file' = file
        /\ sentinel' \in {"none", "torn"}
    BY <1>5 DEF Stop
  <2>2. ~undoing /\ Applied
    BY <1>5, AllPatched
  <2>3. SeamTypeOK'
    BY <1>1, <2>1 DEF SeamTypeOK
  <2> QED
    BY <1>1, <2>1, <2>2, <2>3
       DEF OriginalsRecoverable, Undoable, Sealed, Applied, AllAre
<1>6. CASE script.name = "restore"
  <2>1. /\ backup' = backup /\ sentinel' = sentinel
        /\ \/ file' = file
           \/ backup[f] # "none" /\ file' = [file EXCEPT ![f] = "torn"]
    BY <1>6 DEF Stop
  <2>2. f \in Target /\ undoing /\ sentinel = "whole"
    BY <1>6, ScriptAtFile DEF Uninstalling, UninstallProgress
  <2>3. SeamTypeOK'
    BY <1>1, <2>1, <2>2 DEF SeamTypeOK
  <2>4. Undoable'
    BY <1>1, <2>1, <2>2 DEF Undoable
  <2>5. OriginalsRecoverable'
    BY <1>1, <2>2, <2>4 DEF OriginalsRecoverable, Undoable
  <2> QED
    BY <1>1, <2>1, <2>2, <2>3, <2>4, <2>5 DEF Sealed
<1>7. CASE script.name = "forget"
  <2>1. PICK gone \in SUBSET Target :
           /\ backup' = [g \in Target |-> IF g \in gone THEN "none" ELSE backup[g]]
           /\ file' = file
           /\ sentinel' = sentinel
    BY <1>7 DEF Stop
  <2>2. /\ sentinel = "whole"
        /\ undoing
        /\ ~forced => \A g \in Target : file[g] = "original"
    BY <1>7, AllRestored
  <2>3. SeamTypeOK'
    BY <1>1, <2>1 DEF SeamTypeOK
  <2>4. Undoable'
    BY <1>1, <2>1, <2>2 DEF Undoable
  <2> QED
    BY <1>1, <2>1, <2>2, <2>3, <2>4 DEF OriginalsRecoverable, Sealed
<1>8. CASE script.name = "unseal"
  <2>1. /\ file' = file /\ backup' = backup /\ sentinel' = sentinel
    BY <1>8 DEF Stop
  <2> QED
    BY <1>1, <2>1
       DEF SeamTypeOK, OriginalsRecoverable, Undoable, Sealed, Applied, AllAre
<1> QED
  BY <1>3, <1>4, <1>5, <1>6, <1>7, <1>8
     DEF Stop, SeamTypeOK, Script

LEMMA ReinstallPreserves ==
  ASSUME IInv, NEW v \in Versions, Reinstall(v)
  PROVE  IInv'
<1> USE NoScriptFacts DEF IInv, Reinstall
<1>1. SeamTypeOK'
  BY DEF SeamTypeOK, Content
<1>2. ~Installing' /\ ~Uninstalling' /\ ~undoing' /\ sentinel' = "none"
  BY DEF Installing, Uninstalling
<1>3. OriginalsRecoverable'
  BY DEF OriginalsRecoverable
<1> QED
  BY <1>1, <1>2, <1>3
     DEF InstallProgress, UninstallProgress, Undoable, Sealed

(* Every step of a script, and every step that leaves the host alone.      *)
LEMMA SeamStepPreserves ==
  ASSUME IInv, [SeamNext]_seamVars
  PROVE  IInv'
<1>1. CASE UNCHANGED seamVars
  BY <1>1 DEF seamVars, IInv, SeamTypeOK, OriginalsRecoverable, Installing,
              Uninstalling, InstallProgress, UninstallProgress, Undoable,
              Sealed, Applied, AllAre
<1>2. CASE SeamNext
  BY <1>2, InstallPreserves, BackupPreserves, OverlayPreserves, SealPreserves,
     UninstallPreserves, RestorePreserves, ForgetPreserves, UnsealPreserves,
     StopPreserves, ReinstallPreserves
     DEF SeamNext
<1> QED
  BY <1>1, <1>2

----------------------------------------------------------------------------
(* What a load makes of the registry and the tables. *)
TableType == [Tables -> [Names -> Plugins \cup {Nobody}]]

Entry(kind, p, n) == [plugin |-> p, kind |-> kind, name |-> n]

(* The tables t show the commands and harnesses of the registry.           *)
Shows(t, registry) ==
    \A kind \in {"command", "harness"}, n \in Names, p \in Plugins :
        t[kind][n] = p <=> Entry(kind, p, n) \in registry.lists

Taken(t, call) == t[call[1]][call[2]] # Nobody

OwnersLoaded(t, registry, kind) ==
    \A n \in Names, p \in Plugins :
        t[kind][n] = p => registry.status[p] = "loaded"

(* The tables t are what the plugins of the registry made of them.         *)
Made(t, registry) ==
    /\ Shows(t, registry)
    /\ OwnersLoaded(t, registry, "compaction")
    /\ \A p \in Plugins : registry.status[p] = "loaded" =>
          \A i \in DOMAIN Calls[p] :
              Calls[p][i][1] \in Tables => Taken(t, Calls[p][i])

CliOnce(lists) ==
    \A n \in Names, p, q \in Plugins :
        Entry("cli", p, n) \in lists /\ Entry("cli", q, n) \in lists => p = q

CliTaken(lists, call) == \E p \in Plugins : Entry("cli", p, call[2]) \in lists

Clean(registry) ==
    /\ \A e \in registry.lists : registry.status[e.plugin] = "loaded"
    /\ CliOnce(registry.lists)
    /\ \A p \in Plugins : registry.status[p] = "loaded" =>
          \A i \in DOMAIN Calls[p] :
              Calls[p][i][1] = "cli" => CliTaken(registry.lists, Calls[p][i])

Activating == Loading /\ registries[Current].activating

RegistriesClean == \A r \in 1..Current : Clean(registries[r])

CacheMade ==
    \A key \in DOMAIN cached :
        /\ cached[key].registry \in 1..Current
        /\ Loading => cached[key].registry # Current
        /\ key[2] => Made(cached[key].tables, registries[cached[key].registry])

LoadMade ==
    /\ Loading => active # Current /\ Current # 0
    /\ Activating =>
          /\ Made(tables, registries[Current])
          /\ OwnersLoaded(tables, registries[Current], "handler")

ActiveMade ==
    ~Activating /\ ~aborted =>
        IF active = 0
        THEN \A kind \in Tables \ {"handler"}, n \in Names : tables[kind][n] = Nobody
        ELSE Made(tables, registries[active])

LoaderInv ==
    /\ LoaderTypeOK
    /\ RegistriesClean
    /\ CacheMade
    /\ LoadMade
    /\ ActiveMade

----------------------------------------------------------------------------
(* Induction over the naturals, for a set: the least number outside it     *)
(* would have a predecessor in it.                                         *)
LEMMA NatSetInduction ==
  ASSUME NEW S, 0 \in S, \A n \in Nat : n \in S => n + 1 \in S
  PROVE  Nat \subseteq S
<1> DEFINE T == Nat \ S
           R == OpToRel(<, Nat)
<1> SUFFICES ASSUME T # {} PROVE FALSE
  OBVIOUS
<1>1. IsWellFoundedOn(R, Nat)
  BY NatLessThanWellFounded
<1>2. \A x, y \in Nat : <<y, x>> \in R <=> y < x
  BY DEF OpToRel
<1> HIDE DEF R
<1>3. PICK m \in T : \A k \in T : ~(<<k, m>> \in R)
  BY <1>1, WFMin
<1>4. m \in Nat /\ m # 0
  OBVIOUS
<1>5. m - 1 \in Nat /\ m - 1 < m /\ (m - 1) + 1 = m
  BY <1>4
<1>6. m - 1 \notin T
  BY <1>2, <1>3, <1>4, <1>5
<1>7. m \in S
  BY <1>5, <1>6
<1> QED
  BY <1>7

(* The calls of a run, as a function.                                      *)
Start == [tables |-> tables, registry |-> registries[Current]]

IsRun(p, n, f) ==
    f = [i \in 0..n |-> IF i = 0 THEN Start
                        ELSE Registered(f[i - 1], p, Calls[p][i])]

(* There is such a function: one more call extends a shorter run.          *)
LEMMA RunExists ==
  ASSUME NEW p
  PROVE  \A n \in Nat : \E f : IsRun(p, n, f)
<1> DEFINE S == {n \in Nat : \E f : IsRun(p, n, f)}
<1>1. 0 \in S
  <2>1. IsRun(p, 0, [i \in 0..0 |-> Start])
    BY DEF IsRun
  <2> QED
    BY <2>1
<1>2. ASSUME NEW n \in Nat, n \in S PROVE n + 1 \in S
  <2>1. PICK f : IsRun(p, n, f)
    BY <1>2
  <2> DEFINE g == [i \in 0..n + 1 |->
                     IF i = n + 1 THEN Registered(f[n], p, Calls[p][n + 1])
                     ELSE f[i]]
  <2>2. g[n + 1] = Registered(g[n], p, Calls[p][n + 1])
    OBVIOUS
  <2>3. \A i \in 0..n : g[i] = f[i]
    OBVIOUS
  <2>4. \A i \in 0..n : g[i] = IF i = 0 THEN Start
                                ELSE Registered(g[i - 1], p, Calls[p][i])
    <3> TAKE i \in 0..n
    <3>1. f[i] = IF i = 0 THEN Start
                 ELSE Registered(f[i - 1], p, Calls[p][i])
      BY <2>1 DEF IsRun
    <3>2. i # 0 => i - 1 \in 0..n
      OBVIOUS
    <3> QED
      BY <2>3, <3>1, <3>2
  <2>5. g = [i \in 0..n + 1 |-> g[i]]
    OBVIOUS
  <2> HIDE DEF g
  <2>6. ASSUME NEW i \in 0..n + 1
        PROVE  g[i] = IF i = 0 THEN Start
                      ELSE Registered(g[i - 1], p, Calls[p][i])
    <3>1. i \in 0..n \/ i = n + 1
      OBVIOUS
    <3>2. n + 1 # 0 /\ (n + 1) - 1 = n
      OBVIOUS
    <3> QED
      BY <2>2, <2>4, <3>1, <3>2
  <2>7. IsRun(p, n + 1, g)
    BY <2>5, <2>6 DEF IsRun
  <2> QED
    BY <2>7
<1> HIDE DEF S
<1>3. Nat \subseteq S
  BY <1>1, <1>2, NatSetInduction
<1> QED
  BY <1>3 DEF S

(* Run is where the calls lead, one after the other.                       *)
LEMMA RunSteps ==
  ASSUME NEW p, NEW n \in Nat
  PROVE  \E f : /\ f[0] = Start
                /\ \A i \in 1..n : f[i] = Registered(f[i - 1], p, Calls[p][i])
                /\ Run(p, n) = f[n]
<1> DEFINE f == CHOOSE g : IsRun(p, n, g)
<1>1. IsRun(p, n, f)
  BY RunExists
<1>2. Run(p, n) = f[n]
  BY DEF Run, IsRun, Start
<1> HIDE DEF f
<1>3. f[0] = Start
  BY <1>1 DEF IsRun
<1>4. \A i \in 1..n : f[i] = Registered(f[i - 1], p, Calls[p][i])
  BY <1>1 DEF IsRun
<1> QED
  BY <1>2, <1>3, <1>4
----------------------------------------------------------------------------
(* One registration. *)
State == [tables : TableType, registry : Registry]

(* The candidates and what they register.                                  *)
LEMMA LoaderFacts ==
  /\ Nobody \notin Plugins
  /\ Len(Order) \in Nat
  /\ \A p \in Plugins : Len(Calls[p]) \in Nat /\ DOMAIN Calls[p] = 1..Len(Calls[p])
  /\ \A p \in Plugins : \A i \in DOMAIN Calls[p] :
        /\ Calls[p][i] \in Kinds \X STRING
        /\ Calls[p][i][2] \in Names
        /\ RegistryEntry(p, Calls[p][i]) \in Registrations
<1>1. \A p \in Plugins : \A i \in DOMAIN Calls[p] :
        /\ Calls[p][i] \in Kinds \X STRING
        /\ Calls[p][i][2] \in Names
  BY LoaderAssumption DEF Names
<1>2. \A p \in Plugins : \A i \in DOMAIN Calls[p] :
        RegistryEntry(p, Calls[p][i]) \in Registrations
  BY <1>1 DEF RegistryEntry, Registrations
<1> QED
  BY <1>1, <1>2, LoaderAssumption

(* What every kind of registration does to the tables and the registry:    *)
(* it adds the plugin's entry to the lists or not, and takes a free name   *)
(* or not.  A command or harness of an activating load does both or none.  *)
Makes(s, u, e) ==
    /\ u \in State
    /\ u.registry.activating = s.registry.activating
    /\ u.registry.status = s.registry.status
    /\ u.registry.lists \in {s.registry.lists, s.registry.lists \cup {e}}
    /\ \/ u.tables = s.tables
       \/ /\ e.kind \in Tables
          /\ Free(s, e)
          /\ u.tables = [s.tables EXCEPT ![e.kind][e.name] = e.plugin]
    /\ e.kind \in {"command", "harness"} /\ s.registry.activating =>
          IF Free(s, e)
          THEN /\ u.registry.lists = s.registry.lists \cup {e}
               /\ u.tables = [s.tables EXCEPT ![e.kind][e.name] = e.plugin]
          ELSE u.registry.lists = s.registry.lists /\ u.tables = s.tables
    /\ e.kind \in {"command", "harness"} /\ ~s.registry.activating =>
          u.tables = s.tables
    /\ e.kind \in {"handler", "compaction"} => u.tables[e.kind][e.name] # Nobody
    /\ e.kind = "cli" =>
          u.registry.lists =
              IF \E x \in s.registry.lists : x.kind = "cli" /\ x.name = e.name
              THEN s.registry.lists ELSE s.registry.lists \cup {e}

(* An entry in the lists, and nothing else.                                *)
LEMMA InListsMakes ==
  ASSUME NEW s \in State, NEW e \in Registrations
  PROVE  /\ InLists(s, e) \in State
         /\ InLists(s, e).tables = s.tables
         /\ InLists(s, e).registry.activating = s.registry.activating
         /\ InLists(s, e).registry.status = s.registry.status
         /\ InLists(s, e).registry.lists = s.registry.lists \cup {e}
  BY DEF State, Registry, InLists

(* A name in a table, and nothing else.                                    *)
LEMMA InTablesMakes ==
  ASSUME NEW s \in State, NEW e \in Registrations, e.kind \in Tables
  PROVE  /\ InTables(s, e) \in State
         /\ InTables(s, e).tables = [s.tables EXCEPT ![e.kind][e.name] = e.plugin]
         /\ InTables(s, e).tables[e.kind][e.name] = e.plugin
         /\ InTables(s, e).registry = s.registry
<1>1. e.name \in Names /\ e.plugin \in Plugins
  BY DEF Registrations
<1>2. s.tables \in TableType
  BY DEF State
<1>3. [s.tables EXCEPT ![e.kind][e.name] = e.plugin] \in TableType
  BY <1>1, <1>2 DEF TableType
<1>4. InTables(s, e) = [s EXCEPT !.tables = [@ EXCEPT ![e.kind][e.name] = e.plugin]]
  BY DEF InTables
<1>5. s = [tables |-> s.tables, registry |-> s.registry] /\ s.registry \in Registry
  BY DEF State
<1>6. InTables(s, e) = [tables |-> [s.tables EXCEPT ![e.kind][e.name] = e.plugin],
                        registry |-> s.registry]
  BY <1>4, <1>5
<1>7. [s.tables EXCEPT ![e.kind][e.name] = e.plugin][e.kind][e.name] = e.plugin
  BY <1>1, <1>2 DEF TableType
<1> QED
  BY <1>3, <1>5, <1>6, <1>7 DEF State

(* Each kind of registration is of this form.                              *)
LEMMA RegisteredMakes ==
  ASSUME NEW s \in State, NEW p \in Plugins, NEW i \in DOMAIN Calls[p]
  PROVE  Makes(s, Registered(s, p, Calls[p][i]), RegistryEntry(p, Calls[p][i]))
<1> DEFINE e == RegistryEntry(p, Calls[p][i])
           u == Registered(s, p, Calls[p][i])
<1>1. /\ e \in Registrations
      /\ e.kind \in Kinds
      /\ e.plugin \in Plugins
      /\ e.plugin # Nobody
  BY LoaderFacts DEF RegistryEntry, Registrations
<1>2. /\ s.registry \in Registry
      /\ s.tables \in TableType
  BY DEF State
<1>3. u = CASE e.kind = "entry"      -> RegisterEntry(s, e)
            [] e.kind = "cli"        -> RegisterCli(s, e)
            [] e.kind = "extension"  -> RegisterExtension(s, e)
            [] e.kind = "command"    -> RegisterCommand(s, e)
            [] e.kind = "harness"    -> RegisterHarness(s, e)
            [] e.kind = "handler"    -> RegisterHandler(s, e)
            [] e.kind = "compaction" -> RegisterCompactionProvider(s, e)
  BY DEF Registered
<1> HIDE DEF e, u
<1> SUFFICES Makes(s, u, e)
  BY DEF e, u
<1>4. CASE e.kind = "entry"
  <2>1. u = InLists(s, e)
    BY <1>3, <1>4 DEF RegisterEntry
  <2> QED
    BY <1>1, <1>4, <2>1, InListsMakes DEF Makes
<1>5. CASE e.kind = "cli"
  <2>1. u = IF \E x \in s.registry.lists : x.kind = "cli" /\ x.name = e.name
            THEN s ELSE InLists(s, e)
    BY <1>3, <1>5 DEF RegisterCli
  <2> QED
    BY <1>1, <1>5, <2>1, InListsMakes DEF Makes
<1>6. CASE e.kind = "extension"
  <2>1. u = [s EXCEPT !.registry.kept = @ \cup {e}]
    BY <1>3, <1>6 DEF RegisterExtension
  <2>2. /\ u \in State
        /\ u.tables = s.tables
        /\ u.registry.activating = s.registry.activating
        /\ u.registry.status = s.registry.status
        /\ u.registry.lists = s.registry.lists
    BY <1>1, <2>1 DEF State, Registry
  <2> QED
    BY <1>6, <2>2 DEF Makes
<1>7. ASSUME e.kind \in Tables, Free(s, e)
      PROVE  LET v == InLists(InTables(s, e), e)
             IN  /\ v \in State
                 /\ v.registry.activating = s.registry.activating
                 /\ v.registry.status = s.registry.status
                 /\ v.registry.lists = s.registry.lists \cup {e}
                 /\ v.tables = [s.tables EXCEPT ![e.kind][e.name] = e.plugin]
  BY <1>1, <1>7, InListsMakes, InTablesMakes
<1>8. CASE e.kind = "command"
  <2>1. u = IF ~s.registry.activating THEN InLists(s, e)
            ELSE IF Free(s, e) THEN InLists(InTables(s, e), e) ELSE s
    BY <1>3, <1>8 DEF RegisterCommand
  <2> QED
    BY <1>1, <1>7, <1>8, <2>1, InListsMakes DEF Makes, Tables
<1>9. CASE e.kind = "harness"
  <2>1. u = IF ~s.registry.activating
            THEN IF \E x \in s.registry.lists : x.kind = "harness" /\ x.name = e.name
                 THEN s ELSE InLists(s, e)
            ELSE IF Free(s, e) THEN InLists(InTables(s, e), e) ELSE s
    BY <1>3, <1>9 DEF RegisterHarness
  <2> QED
    BY <1>1, <1>7, <1>9, <2>1, InListsMakes DEF Makes, Tables
<1>10. CASE e.kind \in {"handler", "compaction"}
  <2>1. u = IF Free(s, e) THEN InTables(s, e) ELSE s
    BY <1>3, <1>10 DEF RegisterHandler, RegisterCompactionProvider
  <2>2. CASE Free(s, e)
    BY <1>1, <1>10, <2>1, <2>2, InTablesMakes DEF Makes, Tables
  <2>3. CASE ~Free(s, e)
    BY <1>1, <1>10, <2>1, <2>3 DEF Makes, Free
  <2> QED
    BY <2>2, <2>3
<1> QED
  BY <1>1, <1>4, <1>5, <1>6, <1>8, <1>9, <1>10 DEF Kinds, Tables
(* A registration never takes away a name or an entry.                     *)
LEMMA MakesKeeps ==
  ASSUME NEW s \in State, NEW u, NEW e \in Registrations, Makes(s, u, e)
  PROVE  /\ s.registry.lists \subseteq u.registry.lists
         /\ \A x \in u.registry.lists : x \in s.registry.lists \/ x = e
         /\ \A k \in Tables, n \in Names :
               \/ u.tables[k][n] = s.tables[k][n]
               \/ /\ s.tables[k][n] = Nobody
                  /\ u.tables[k][n] = e.plugin
                  /\ e.kind = k /\ e.name = n
<1>1. s.tables \in TableType /\ e.name \in Names
  BY DEF State, Registrations
<1>2. /\ s.registry.lists \subseteq u.registry.lists
      /\ \A x \in u.registry.lists : x \in s.registry.lists \/ x = e
  BY DEF Makes
<1>3. ASSUME NEW k \in Tables, NEW n \in Names
      PROVE  \/ u.tables[k][n] = s.tables[k][n]
             \/ /\ s.tables[k][n] = Nobody
                /\ u.tables[k][n] = e.plugin
                /\ e.kind = k /\ e.name = n
  <2>1. CASE u.tables = s.tables
    BY <2>1
  <2>2. CASE /\ e.kind \in Tables
             /\ Free(s, e)
             /\ u.tables = [s.tables EXCEPT ![e.kind][e.name] = e.plugin]
    BY <1>1, <2>2 DEF Free, TableType
  <2> QED
    BY <2>1, <2>2 DEF Makes
<1> QED
  BY <1>2, <1>3

(* A CLI command that has an owner gets no second one.                     *)
LEMMA CliStaysOnce ==
  ASSUME NEW s \in State, NEW u, NEW e \in Registrations, Makes(s, u, e),
         CliOnce(s.registry.lists)
  PROVE  CliOnce(u.registry.lists)
<1> SUFFICES ASSUME NEW n \in Names, NEW p \in Plugins, NEW q \in Plugins,
                    Entry("cli", p, n) \in u.registry.lists,
                    Entry("cli", q, n) \in u.registry.lists
             PROVE  p = q
  BY DEF CliOnce
<1>1. /\ Entry("cli", p, n) = e => p = e.plugin /\ n = e.name /\ e.kind = "cli"
      /\ Entry("cli", q, n) = e => q = e.plugin /\ n = e.name /\ e.kind = "cli"
      /\ Entry("cli", p, n).kind = "cli" /\ Entry("cli", p, n).name = n
      /\ Entry("cli", q, n).kind = "cli" /\ Entry("cli", q, n).name = n
  BY DEF Entry
<1>2. e.kind = "cli" =>
        u.registry.lists =
            IF \E x \in s.registry.lists : x.kind = "cli" /\ x.name = e.name
            THEN s.registry.lists ELSE s.registry.lists \cup {e}
  BY DEF Makes
<1>3. u.registry.lists \in {s.registry.lists, s.registry.lists \cup {e}}
  BY DEF Makes
<1> QED
  BY <1>1, <1>2, <1>3 DEF CliOnce

(* In an activating load the lists and the tables change together.         *)
LEMMA StillShows ==
  ASSUME NEW s \in State, NEW u, NEW e \in Registrations, Makes(s, u, e),
         s.registry.activating, Shows(s.tables, s.registry)
  PROVE  Shows(u.tables, u.registry)
<1>1. /\ s.tables \in TableType
      /\ e.name \in Names /\ e.plugin \in Plugins /\ e.plugin # Nobody
      /\ e = Entry(e.kind, e.plugin, e.name)
  BY LoaderFacts DEF State, Registrations, Entry
<1>2. \A kind, p, n : Entry(kind, p, n) = e =>
         kind = e.kind /\ p = e.plugin /\ n = e.name
  BY DEF Entry
<1>3. u.registry.lists \in {s.registry.lists, s.registry.lists \cup {e}}
  BY DEF Makes
<1>4. CASE e.kind \in {"command", "harness"} /\ Free(s, e)
  <2>1. /\ u.registry.lists = s.registry.lists \cup {e}
        /\ u.tables = [s.tables EXCEPT ![e.kind][e.name] = e.plugin]
        /\ s.tables[e.kind][e.name] = Nobody
    BY <1>4 DEF Makes, Free
  <2>2. ASSUME NEW kind \in {"command", "harness"}, NEW n \in Names,
               NEW p \in Plugins
        PROVE  u.tables[kind][n] = p <=> Entry(kind, p, n) \in u.registry.lists
    <3>1. CASE kind = e.kind /\ n = e.name
      <4>1. u.tables[kind][n] = e.plugin
        BY <1>1, <1>4, <2>1, <3>1 DEF TableType, Tables
      <4>2. Entry(kind, p, n) \notin s.registry.lists
        BY <2>1, <3>1, LoaderFacts DEF Shows
      <4> QED
        BY <1>1, <1>2, <2>1, <3>1, <4>1, <4>2
    <3>2. CASE ~(kind = e.kind /\ n = e.name)
      <4>1. u.tables[kind][n] = s.tables[kind][n]
        BY <1>1, <1>4, <2>1, <3>2 DEF TableType, Tables
      <4> QED
        BY <1>2, <2>1, <3>2, <4>1 DEF Shows
    <3> QED
      BY <3>1, <3>2
  <2> QED
    BY <2>2 DEF Shows
<1>5. CASE e.kind \in {"command", "harness"} /\ ~Free(s, e)
  BY <1>5 DEF Makes, Shows
<1>6. CASE e.kind \notin {"command", "harness"}
  <2>1. ASSUME NEW kind \in {"command", "harness"}, NEW n \in Names
        PROVE  u.tables[kind][n] = s.tables[kind][n]
    BY <1>6, MakesKeeps DEF Tables
  <2> QED
    BY <1>2, <1>3, <1>6, <2>1 DEF Shows
<1> QED
  BY <1>4, <1>5, <1>6

(* What the calls of p have made of the registry and the tables.           *)
Grew(s, p) ==
    /\ s \in State
    /\ s.registry.activating = registries[Current].activating
    /\ s.registry.status = registries[Current].status
    /\ registries[Current].lists \subseteq s.registry.lists
    /\ \A e \in s.registry.lists : e \in registries[Current].lists \/ e.plugin = p
    /\ \A k \in Tables, n \in Names :
          \/ s.tables[k][n] = tables[k][n]
          \/ tables[k][n] = Nobody /\ s.tables[k][n] = p
    /\ ~registries[Current].activating =>
          \A n \in Names : s.tables["command"][n] = tables["command"][n]
    /\ CliOnce(s.registry.lists)
    /\ registries[Current].activating => Shows(s.tables, s.registry)

(* Whatever was asked for, by one of the calls, is somebody's.             *)
Granted(s, call) ==
    /\ \/ call[1] \in {"handler", "compaction"}
       \/ call[1] \in Tables /\ s.registry.activating
       => Taken(s.tables, call)
    /\ call[1] = "cli" => CliTaken(s.registry.lists, call)

(* One more call leaves what p has made of this form.                      *)
LEMMA GrewOn ==
  ASSUME NEW s, NEW u, NEW p \in Plugins, NEW e \in Registrations,
         Grew(s, p), Makes(s, u, e), e.plugin = p
  PROVE  Grew(u, p)
<1> USE DEF Grew
<1>1. s \in State
  OBVIOUS
<1>2. /\ u \in State
      /\ u.registry.activating = registries[Current].activating
      /\ u.registry.status = registries[Current].status
  BY DEF Makes
<1>3. /\ registries[Current].lists \subseteq u.registry.lists
      /\ \A x \in u.registry.lists : x \in registries[Current].lists \/ x.plugin = p
  BY <1>1, MakesKeeps
<1>4. \A k \in Tables, n \in Names :
          \/ u.tables[k][n] = tables[k][n]
          \/ tables[k][n] = Nobody /\ u.tables[k][n] = p
  BY <1>1, MakesKeeps
<1>5. ~registries[Current].activating =>
          \A n \in Names : u.tables["command"][n] = tables["command"][n]
  <2> SUFFICES ASSUME ~registries[Current].activating, NEW n \in Names
               PROVE  u.tables["command"][n] = s.tables["command"][n]
    OBVIOUS
  <2>1. CASE e.kind = "command"
    BY <2>1 DEF Makes
  <2>2. CASE e.kind # "command"
    BY <1>1, <2>2, MakesKeeps DEF Tables
  <2> QED
    BY <2>1, <2>2
<1>6. CliOnce(u.registry.lists)
  BY <1>1, CliStaysOnce
<1>7. registries[Current].activating => Shows(u.tables, u.registry)
  BY <1>1, StillShows
<1> QED
  BY <1>2, <1>3, <1>4, <1>5, <1>6, <1>7

(* What was granted is not taken back by a later call.                     *)
LEMMA StillGranted ==
  ASSUME NEW s \in State, NEW u, NEW e \in Registrations, Makes(s, u, e),
         NEW call \in Kinds \X Names, Granted(s, call)
  PROVE  Granted(u, call)
<1>1. call[1] \in Tables /\ Taken(s.tables, call) => Taken(u.tables, call)
  BY MakesKeeps, LoaderFacts DEF Taken, Registrations
<1>2. CliTaken(s.registry.lists, call) => CliTaken(u.registry.lists, call)
  BY MakesKeeps DEF CliTaken
<1>3. u.registry.activating = s.registry.activating
  BY DEF Makes
<1> QED
  BY <1>1, <1>2, <1>3 DEF Granted, Tables

(* A call is granted: its name is the caller's or was somebody's before.   *)
LEMMA NowGranted ==
  ASSUME NEW s \in State, NEW u, NEW p \in Plugins, NEW i \in DOMAIN Calls[p],
         Makes(s, u, RegistryEntry(p, Calls[p][i]))
  PROVE  Granted(u, Calls[p][i])
<1> DEFINE call == Calls[p][i]
           e    == RegistryEntry(p, Calls[p][i])
<1>1. /\ e \in Registrations
      /\ e.kind = call[1] /\ e.name = call[2] /\ e.plugin = p
      /\ p # Nobody
      /\ s.tables \in TableType
      /\ s.registry.lists \subseteq Registrations
  BY LoaderFacts DEF RegistryEntry, State, Registry
<1> HIDE DEF e, call
<1>2. Makes(s, u, e)
  BY DEF e
<1>3. ASSUME call[1] \in {"handler", "compaction"} PROVE Taken(u.tables, call)
  BY <1>1, <1>2, <1>3 DEF Makes, Taken
<1>4. ASSUME call[1] \in {"command", "harness"}, u.registry.activating
      PROVE  Taken(u.tables, call)
  <2>1. CASE Free(s, e)
    <3>1. u.tables = [s.tables EXCEPT ![e.kind][e.name] = e.plugin]
      BY <1>1, <1>2, <1>4, <2>1 DEF Makes
    <3>2. e.kind \in Tables /\ e.name \in Names
      BY <1>1, <1>4 DEF Tables, Registrations
    <3>3. u.tables[e.kind][e.name] = e.plugin
      BY <1>1, <3>1, <3>2 DEF TableType
    <3> QED
      BY <1>1, <3>3 DEF Taken
  <2>2. CASE ~Free(s, e)
    BY <1>1, <1>2, <1>4, <2>2 DEF Makes, Taken, Free
  <2> QED
    BY <2>1, <2>2
<1>5. ASSUME call[1] = "cli" PROVE CliTaken(u.registry.lists, call)
  <2>1. u.registry.lists =
            IF \E x \in s.registry.lists : x.kind = "cli" /\ x.name = e.name
            THEN s.registry.lists ELSE s.registry.lists \cup {e}
    BY <1>1, <1>2, <1>5 DEF Makes
  <2>2. e = Entry("cli", p, call[2])
    BY <1>1, <1>5 DEF e, RegistryEntry, Entry, call
  <2>3. \A x \in s.registry.lists : x.kind = "cli" /\ x.name = e.name =>
           x.plugin \in Plugins /\ x = Entry("cli", x.plugin, call[2])
    BY <1>1 DEF Registrations, Entry
  <2> QED
    BY <2>1, <2>2, <2>3 DEF CliTaken
<1> QED
  BY <1>3, <1>4, <1>5 DEF Granted, Tables, call
----------------------------------------------------------------------------
(* A whole run of registrations. *)
LEMMA LoadingFacts ==
  ASSUME LoaderInv, Loading
  PROVE  /\ Current \in Nat /\ Current \in 1..Current /\ DOMAIN registries = 1..Current
         /\ registries \in Seq(Registry)
         /\ registries[Current] \in Registry
         /\ Clean(registries[Current])
         /\ load \in [at : 1..Len(Order) + 1, config : Configs, strict : BOOLEAN,
                      caching : BOOLEAN]
<1>1. registries \in Seq(Registry) /\ Current \in Nat /\ Current # 0
  BY DEF LoaderInv, LoaderTypeOK, LoadMade, Current
<1>2. Current \in 1..Current /\ DOMAIN registries = 1..Current
  BY <1>1 DEF Current
<1> QED
  BY <1>1, <1>2 DEF LoaderInv, LoaderTypeOK, RegistriesClean, Loading

(* Before the first call.                                                  *)
LEMMA StartGrew ==
  ASSUME LoaderInv, Loading, NEW p \in Plugins
  PROVE  Grew(Start, p)
<1>1. Start.tables = tables /\ Start.registry = registries[Current]
  BY DEF Start
<1>2. Start \in State
  BY LoadingFacts DEF Start, State, LoaderInv, LoaderTypeOK, TableType
<1>3. CliOnce(registries[Current].lists)
  BY LoadingFacts DEF Clean
<1>4. registries[Current].activating => Shows(tables, registries[Current])
  BY DEF LoaderInv, LoadMade, Activating, Made
<1> QED
  BY <1>1, <1>2, <1>3, <1>4 DEF Grew

(* After any number of calls.                                              *)
LEMMA RunGrew ==
  ASSUME LoaderInv, Loading, NEW p \in Plugins, NEW n \in 0..Len(Calls[p])
  PROVE  /\ Grew(Run(p, n), p)
         /\ \A j \in 1..n : Granted(Run(p, n), Calls[p][j])
<1>1. n \in Nat /\ DOMAIN Calls[p] = 1..Len(Calls[p]) /\ Len(Calls[p]) \in Nat
  BY LoaderFacts
<1>2. PICK f : /\ f[0] = Start
               /\ \A i \in 1..n : f[i] = Registered(f[i - 1], p, Calls[p][i])
               /\ Run(p, n) = f[n]
  BY <1>1, RunSteps
<1> DEFINE Good(i) == Grew(f[i], p) /\ \A j \in 1..i : Granted(f[i], Calls[p][j])
           S == {i \in Nat : i <= n => Good(i)}
<1>3. 0 \in S
  BY <1>2, StartGrew
<1>4. ASSUME NEW i \in Nat, i \in S PROVE i + 1 \in S
  <2> SUFFICES ASSUME i + 1 <= n PROVE Good(i + 1)
    OBVIOUS
  <2>1. /\ i + 1 \in 1..n /\ i + 1 \in DOMAIN Calls[p] /\ (i + 1) - 1 = i
        /\ i <= n
        /\ \A j \in 1..i : j \in DOMAIN Calls[p]
        /\ \A j \in 1..i + 1 : j \in 1..i \/ j = i + 1
    BY <1>1
  <2>2. f[i + 1] = Registered(f[i], p, Calls[p][i + 1])
    BY <1>2, <2>1
  <2> DEFINE s == f[i]
             u == f[i + 1]
             e == RegistryEntry(p, Calls[p][i + 1])
  <2>3. Grew(s, p) /\ \A j \in 1..i : Granted(s, Calls[p][j])
    BY <1>4, <2>1
  <2>4. s \in State
    BY <2>3 DEF Grew
  <2>5. Makes(s, u, e)
    BY <2>1, <2>2, <2>4, RegisteredMakes
  <2>6. e \in Registrations /\ e.plugin = p
    BY <2>1, LoaderFacts DEF RegistryEntry
  <2> HIDE DEF s, e, u
  <2>7. Grew(u, p)
    BY <2>3, <2>5, <2>6, GrewOn
  <2>8. ASSUME NEW j \in 1..i PROVE Granted(u, Calls[p][j])
    <3>1. Calls[p][j] \in Kinds \X Names
      BY <2>1, LoaderFacts
    <3> QED
      BY <2>3, <2>4, <2>5, <2>6, <3>1, StillGranted
  <2>9. Granted(u, Calls[p][i + 1])
    BY <2>1, <2>4, <2>5, NowGranted DEF e
  <2>10. \A j \in 1..i + 1 : Granted(u, Calls[p][j])
    BY <2>1, <2>8, <2>9
  <2> QED
    BY <2>7, <2>10 DEF u
<1> HIDE DEF S
<1>5. n \in S
  BY <1>1, <1>3, <1>4, NatSetInduction
<1> QED
  BY <1>1, <1>2, <1>5 DEF S

----------------------------------------------------------------------------
(* The steps of a load. *)

(* A plugin that comes to nothing changes nothing of what was made.        *)
LEMMA Unloaded ==
  ASSUME NEW was \in Registry, NEW registry \in Registry, NEW p \in Plugins,
         NEW status, status # "loaded", was.status[p] = "unknown",
         registry.lists = was.lists,
         registry.status = [was.status EXCEPT ![p] = status], Clean(was)
  PROVE  /\ Clean(registry)
         /\ \A t : Made(t, was) => Made(t, registry)
         /\ \A t : OwnersLoaded(t, was, "handler") =>
                      OwnersLoaded(t, registry, "handler")
<1>1. /\ \A q \in Plugins : registry.status[q] = "loaded" <=> was.status[q] = "loaded"
      /\ \A e \in was.lists : e.plugin \in Plugins
  BY DEF Registry, Registrations
<1> QED
  BY <1>1 DEF Clean, Made, Shows, OwnersLoaded

(* What a load that does not activate may do to the tables.                *)
AddsHandlers(t, u) ==
    /\ \A k \in Tables \ {"handler"}, n \in Names : u[k][n] = t[k][n]
    /\ \A n \in Names :
          \/ u["handler"][n] = t["handler"][n]
          \/ t["handler"][n] = Nobody /\ u["handler"][n] # Nobody

(* New handlers do not matter to what was made.                            *)
LEMMA MadeStays ==
  ASSUME NEW t, NEW u, NEW registry, Made(t, registry), AddsHandlers(t, u)
  PROVE  Made(u, registry)
<1> USE DEF AddsHandlers
<1>1. Shows(u, registry)
  BY DEF Made, Shows, Tables
<1>2. OwnersLoaded(u, registry, "compaction")
  BY DEF Made, OwnersLoaded, Tables
<1>3. ASSUME NEW p \in Plugins, registry.status[p] = "loaded",
             NEW i \in DOMAIN Calls[p], Calls[p][i][1] \in Tables
      PROVE  Taken(u, Calls[p][i])
  BY <1>3, LoaderFacts DEF Made, Taken
<1> QED
  BY <1>1, <1>2, <1>3 DEF Made

(* The candidate whose turn it is.                                         *)
LEMMA TurnFacts ==
  ASSUME LoaderInv, NEW p, Turn(p)
  PROVE  /\ p \in Plugins
         /\ Loading
         /\ registries[Current].status[p] = "unknown"
         /\ load.at \in 1..Len(Order)
<1>1. Loading /\ load.at <= Len(Order) /\ p = Order[load.at]
      /\ registries[Current].status[p] = "unknown"
  BY DEF Turn, Candidate
<1>2. load.at \in 1..Len(Order)
  BY <1>1, LoadingFacts, LoaderFacts
<1> QED
  BY <1>1, <1>2, LoaderAssumption

(* The load goes on to the next candidate, or to its end.                  *)
LEMMA NextCandidateFacts ==
  ASSUME LoaderInv, Loading, load.at \in 1..Len(Order), NextCandidate
  PROVE  /\ load' \in [at : 1..Len(Order) + 1, config : Configs, strict : BOOLEAN,
                       caching : BOOLEAN]
         /\ Loading'
         /\ UNCHANGED <<active, cached, aborted>>
<1>1. load' = [load EXCEPT !.at = @ + 1]
  BY DEF NextCandidate
<1>2. load'.at = load.at + 1 /\ load'.at # 0
  BY <1>1, LoadingFacts, LoaderFacts
<1>3. Loading'
  BY <1>2 DEF Loading, NoLoad
<1> QED
  BY <1>1, <1>3, LoadingFacts, LoaderFacts DEF NextCandidate

(* A candidate is done: the registry that is built takes its place.        *)
LEMMA DonePreserves ==
  ASSUME LoaderInv, Loading, load.at \in 1..Len(Order), NextCandidate,
         NEW registry \in Registry, Clean(registry),
         registry.activating = registries[Current].activating,
         registries' = [registries EXCEPT ![Current] = registry],
         NEW t \in TableType, tables' = t,
         registries[Current].activating =>
            Made(t, registry) /\ OwnersLoaded(t, registry, "handler"),
         ~registries[Current].activating => AddsHandlers(tables, t)
  PROVE  LoaderInv'
<1>1. /\ registries' \in Seq(Registry)
      /\ Current' = Current
      /\ registries'[Current] = registry
      /\ \A r \in 1..Current : r # Current => registries'[r] = registries[r]
  <2>1. /\ registries \in Seq(Registry) /\ DOMAIN registries = 1..Current
        /\ Current \in 1..Current
    BY LoadingFacts
  <2>2. registries' \in Seq(Registry) /\ Len(registries') = Len(registries)
    BY <2>1 DEF Current
  <2>3. Current' = Current
    BY <2>2 DEF Current
  <2> QED
    BY <2>1, <2>2, <2>3
<1>2. /\ Loading'
      /\ load' \in [at : 1..Len(Order) + 1, config : Configs, strict : BOOLEAN,
                    caching : BOOLEAN]
      /\ active' = active /\ cached' = cached /\ aborted' = aborted
  BY NextCandidateFacts
<1>3. LoaderTypeOK'
  BY <1>1, <1>2 DEF LoaderInv, LoaderTypeOK, TableType
<1>4. RegistriesClean'
  BY <1>1 DEF LoaderInv, RegistriesClean
<1>5. CacheMade'
  BY <1>1, <1>2 DEF LoaderInv, CacheMade
<1>6. Activating' <=> registries[Current].activating
  BY <1>1, <1>2 DEF Activating
<1>7. LoadMade'
  BY <1>1, <1>2, <1>6 DEF LoaderInv, LoadMade
<1>8. ActiveMade'
  <2> SUFFICES ASSUME ~registries[Current].activating, ~aborted
               PROVE  IF active = 0
                      THEN \A kind \in Tables \ {"handler"}, n \in Names :
                              t[kind][n] = Nobody
                      ELSE Made(t, registries'[active])
    BY <1>2, <1>6 DEF ActiveMade
  <2>1. IF active = 0
        THEN \A kind \in Tables \ {"handler"}, n \in Names : tables[kind][n] = Nobody
        ELSE Made(tables, registries[active])
    BY DEF LoaderInv, ActiveMade, Activating
  <2>2. active # 0 => registries'[active] = registries[active]
    BY <1>1 DEF LoaderInv, LoadMade, LoaderTypeOK
  <2>3. CASE active = 0
    BY <2>1, <2>3 DEF AddsHandlers
  <2>4. CASE active # 0
    <3> DEFINE was == registries[active]
    <3>1. Made(tables, was)
      BY <2>1, <2>4
    <3> HIDE DEF was
    <3>2. Made(t, was)
      BY <3>1, MadeStays
    <3> QED
      BY <2>2, <2>4, <3>2 DEF was
  <2> QED
    BY <2>3, <2>4
<1> QED
  BY <1>3, <1>4, <1>5, <1>7, <1>8 DEF LoaderInv
(* The second candidate of an id.                                          *)
LEMMA OverriddenPreserves ==
  ASSUME LoaderInv, Overridden
  PROVE  LoaderInv'
<1> DEFINE registry == registries[Current]
<1>1. /\ Loading /\ load.at <= Len(Order) /\ NextCandidate
      /\ registries' = registries /\ tables' = tables
  BY DEF Overridden
<1>2. load.at \in 1..Len(Order)
  BY <1>1, LoadingFacts, LoaderFacts
<1>3. /\ registry \in Registry /\ Clean(registry)
      /\ registries = [registries EXCEPT ![Current] = registry]
  BY <1>1, LoadingFacts
<1>4. tables \in TableType /\ AddsHandlers(tables, tables)
  BY DEF LoaderInv, LoaderTypeOK, TableType, AddsHandlers
<1>5. registries[Current].activating =>
         Made(tables, registry) /\ OwnersLoaded(tables, registry, "handler")
  BY <1>1 DEF LoaderInv, LoadMade, Activating
<1> HIDE DEF registry
<1>6. registry.activating = registries[Current].activating
  BY DEF registry
<1> QED
  BY <1>1, <1>2, <1>3, <1>4, <1>5, <1>6, DonePreserves

(* The plugin's status is decided and nothing else is left of it.          *)
LEMMA NotLoadedPreserves ==
  ASSUME LoaderInv, NEW p, Turn(p), NextCandidate,
         NEW registry \in Registry, NEW status \in Status, status # "loaded",
         registry.activating = registries[Current].activating,
         registry.lists = registries[Current].lists,
         registry.status = registries[Current].status,
         Decided(registry, p, status),
         NEW t \in TableType, tables' = t, AddsHandlers(tables, t),
         registries[Current].activating => t = tables
  PROVE  LoaderInv'
<1> DEFINE was == registries[Current]
           R   == [registry EXCEPT !.status[p] = status]
<1>1. /\ p \in Plugins
      /\ Loading
      /\ was.status[p] = "unknown"
      /\ load.at \in 1..Len(Order)
      /\ was \in Registry /\ Clean(was)
  BY TurnFacts, LoadingFacts
<1>2. /\ R \in Registry
      /\ R.lists = was.lists
      /\ R.status = [was.status EXCEPT ![p] = status]
      /\ R.activating = was.activating
  BY <1>1 DEF Registry
<1>3. registries' = [registries EXCEPT ![Current] = R]
  BY DEF Decided
<1>4. was.activating => Made(tables, was) /\ OwnersLoaded(tables, was, "handler")
  BY <1>1 DEF LoaderInv, LoadMade, Activating
<1> HIDE DEF R, was
<1>5. /\ Clean(R)
      /\ was.activating => Made(tables, R) /\ OwnersLoaded(tables, R, "handler")
  BY <1>1, <1>2, <1>4, Unloaded
<1>6. was = registries[Current]
  BY DEF was
<1>7. registries[Current].activating => Made(t, R) /\ OwnersLoaded(t, R, "handler")
  BY <1>5, <1>6
<1> QED
  BY <1>1, <1>2, <1>3, <1>5, <1>6, <1>7, DonePreserves

(* A plugin whose register() is not called.                                *)
LEMMA DisableOrRejectPreserves ==
  ASSUME LoaderInv, NEW p, Disable(p) \/ Reject(p)
  PROVE  LoaderInv'
<1> DEFINE registry == registries[Current]
<1>1. PICK status \in {"disabled", "rejected"} :
         /\ Turn(p) /\ NextCandidate
         /\ Decided(registry, p, status)
         /\ tables' = tables
  BY DEF Disable, Reject
<1>2. registry \in Registry
  BY <1>1, TurnFacts, LoadingFacts
<1>3. tables \in TableType /\ AddsHandlers(tables, tables)
  BY DEF LoaderInv, LoaderTypeOK, TableType, AddsHandlers
<1>4. status \in Status /\ status # "loaded"
  BY DEF Status
<1>5. /\ registry.activating = registries[Current].activating
      /\ registry.lists = registries[Current].lists
      /\ registry.status = registries[Current].status
  OBVIOUS
<1> HIDE DEF registry
<1> QED
  BY <1>1, <1>2, <1>3, <1>4, <1>5, NotLoadedPreserves

(* Harnesses and compaction providers are those before register().         *)
LEMMA RestoredIs ==
  ASSUME LoaderInv, NEW t \in TableType
  PROVE  /\ Restored(t) \in TableType
         /\ \A n \in Names :
               /\ Restored(t)["command"][n] = t["command"][n]
               /\ Restored(t)["handler"][n] = t["handler"][n]
               /\ Restored(t)["harness"][n] = tables["harness"][n]
               /\ Restored(t)["compaction"][n] = tables["compaction"][n]
  BY DEF LoaderInv, LoaderTypeOK, TableType, Restored, Tables

(* register() of a load that does not activate adds handlers at most.      *)
LEMMA ProbingAddsHandlers ==
  ASSUME LoaderInv, Loading, ~registries[Current].activating,
         NEW p \in Plugins, NEW s, Grew(s, p)
  PROVE  Restored(s.tables) \in TableType /\ AddsHandlers(tables, Restored(s.tables))
<1>1. s.tables \in TableType /\ p # Nobody
  BY LoaderFacts DEF Grew, State
<1>2. \A n \in Names :
         /\ s.tables["command"][n] = tables["command"][n]
         /\ \/ s.tables["handler"][n] = tables["handler"][n]
            \/ tables["handler"][n] = Nobody /\ s.tables["handler"][n] = p
  BY DEF Grew, Tables
<1> QED
  BY <1>1, <1>2, RestoredIs DEF AddsHandlers, Tables

(* What a loaded plugin adds to its registry and, in an activating load,   *)
(* to the tables.                                                          *)
LEMMA LoadedClean ==
  ASSUME LoaderInv, Loading, NEW p \in Plugins, NEW s, Grew(s, p),
         \A j \in DOMAIN Calls[p] : Granted(s, Calls[p][j]),
         registries[Current].status[p] = "unknown",
         NEW R, R.lists = s.registry.lists,
         R.status = [registries[Current].status EXCEPT ![p] = "loaded"]
  PROVE  Clean(R)
<1> DEFINE was == registries[Current]
<1>1. /\ Clean(was) /\ was \in Registry
      /\ s \in State /\ was.lists \subseteq R.lists
      /\ CliOnce(R.lists)
      /\ \A e \in R.lists : e \in was.lists \/ e.plugin = p
  BY LoadingFacts DEF Grew
<1>2. /\ R.status[p] = "loaded"
      /\ \A q \in Plugins : q # p => R.status[q] = was.status[q]
      /\ \A e \in R.lists : e.plugin \in Plugins
  BY <1>1 DEF Registry, State, Registrations
<1> HIDE DEF was
<1>3. \A e \in R.lists : R.status[e.plugin] = "loaded"
  BY <1>1, <1>2 DEF Clean
<1>4. ASSUME NEW q \in Plugins, R.status[q] = "loaded", NEW i \in DOMAIN Calls[q],
             Calls[q][i][1] = "cli"
      PROVE  CliTaken(R.lists, Calls[q][i])
  <2>1. CASE q = p
    BY <1>4, <2>1 DEF Granted
  <2>2. CASE q # p
    <3>1. CliTaken(was.lists, Calls[q][i])
      BY <1>1, <1>2, <1>4, <2>2 DEF Clean
    <3> QED
      BY <1>1, <3>1 DEF CliTaken
  <2> QED
    BY <2>1, <2>2
<1> QED
  BY <1>1, <1>3, <1>4 DEF Clean

(* In an activating load the tables are made for the new registry too.     *)
LEMMA LoadedMade ==
  ASSUME LoaderInv, Loading, registries[Current].activating,
         NEW p \in Plugins, NEW s, Grew(s, p),
         \A j \in DOMAIN Calls[p] : Granted(s, Calls[p][j]),
         registries[Current].status[p] = "unknown",
         NEW R, R.lists = s.registry.lists,
         R.status = [registries[Current].status EXCEPT ![p] = "loaded"]
  PROVE  Made(s.tables, R) /\ OwnersLoaded(s.tables, R, "handler")
<1> DEFINE was == registries[Current]
<1>1. /\ Made(tables, was) /\ OwnersLoaded(tables, was, "handler")
      /\ was \in Registry
      /\ s \in State
      /\ s.registry.activating
      /\ Shows(s.tables, s.registry)
      /\ \A k \in Tables, n \in Names :
            \/ s.tables[k][n] = tables[k][n]
            \/ tables[k][n] = Nobody /\ s.tables[k][n] = p
  BY LoadingFacts DEF LoaderInv, LoadMade, Activating, Grew
<1>2. /\ R.status[p] = "loaded"
      /\ \A q \in Plugins : q # p => R.status[q] = was.status[q]
      /\ p # Nobody
  BY <1>1, LoaderFacts DEF Registry
<1> HIDE DEF was
<1>3. Shows(s.tables, R)
  BY <1>1 DEF Shows
<1>4. OwnersLoaded(s.tables, R, "compaction") /\ OwnersLoaded(s.tables, R, "handler")
  BY <1>1, <1>2 DEF Made, OwnersLoaded, Tables
<1>5. ASSUME NEW q \in Plugins, R.status[q] = "loaded", NEW i \in DOMAIN Calls[q],
             Calls[q][i][1] \in Tables
      PROVE  Taken(s.tables, Calls[q][i])
  <2>1. CASE q = p
    BY <1>1, <1>5, <2>1 DEF Granted
  <2>2. CASE q # p
    <3>1. Taken(tables, Calls[q][i])
      BY <1>1, <1>2, <1>5, <2>2 DEF Made
    <3> QED
      BY <1>1, <1>2, <1>5, <3>1, LoaderFacts DEF Taken
  <2> QED
    BY <2>1, <2>2
<1> QED
  BY <1>3, <1>4, <1>5 DEF Made

(* register() returns.                                                     *)
LEMMA RegisterPreserves ==
  ASSUME LoaderInv, NEW p, Register(p)
  PROVE  LoaderInv'
<1> DEFINE was == registries[Current]
           n   == Len(Calls[p])
           s   == Run(p, n)
           R   == [s.registry EXCEPT !.status[p] = "loaded"]
           t   == IF was.activating THEN s.tables ELSE Restored(s.tables)
<1>1. /\ Turn(p) /\ NextCandidate
      /\ Decided(s.registry, p, "loaded")
      /\ tables' = t
  BY DEF Register
<1>2. /\ p \in Plugins /\ Loading
      /\ was.status[p] = "unknown"
      /\ load.at \in 1..Len(Order)
      /\ was \in Registry
  BY <1>1, TurnFacts, LoadingFacts
<1>3. n \in 0..n /\ DOMAIN Calls[p] = 1..n
  BY <1>2, LoaderFacts
<1>4. Grew(s, p) /\ \A j \in DOMAIN Calls[p] : Granted(s, Calls[p][j])
  BY <1>2, <1>3, RunGrew
<1> HIDE DEF s
<1>5. /\ s \in State
      /\ s.registry.activating = was.activating
      /\ s.registry.status = was.status
  BY <1>4 DEF Grew
<1>6. /\ R \in Registry
      /\ R.lists = s.registry.lists
      /\ R.status = [was.status EXCEPT ![p] = "loaded"]
      /\ R.activating = was.activating
  BY <1>2, <1>5 DEF State, Registry, Status
<1>7. registries' = [registries EXCEPT ![Current] = R]
  BY <1>1 DEF Decided
<1> HIDE DEF R
<1>8. Clean(R)
  BY <1>2, <1>4, <1>6, LoadedClean
<1>9. t \in TableType
  BY <1>2, <1>4, <1>5, ProbingAddsHandlers DEF State
<1>10. registries[Current].activating =>
          Made(t, R) /\ OwnersLoaded(t, R, "handler")
  BY <1>2, <1>4, <1>6, LoadedMade
<1>11. ~registries[Current].activating => AddsHandlers(tables, t)
  BY <1>2, <1>4, ProbingAddsHandlers
<1>12. R.activating = registries[Current].activating
  BY <1>6
<1> HIDE DEF t, was
<1> QED
  BY <1>1, <1>2, <1>6, <1>7, <1>8, <1>9, <1>10, <1>11, <1>12, DonePreserves
(* In an activating load the tables are as they were before register().    *)
LEMMA FailedGivesBack ==
  ASSUME LoaderInv, Activating, NEW p \in Plugins, NEW s, Grew(s, p),
         registries[Current].status[p] = "unknown"
  PROVE  Restored(GivenBack(p, s.tables)) = tables
<1> DEFINE was  == registries[Current]
           back == GivenBack(p, s.tables)
<1>1. /\ Loading /\ was.activating
      /\ Made(tables, was) /\ OwnersLoaded(tables, was, "handler")
      /\ Clean(was)
      /\ tables \in TableType
      /\ s.tables \in TableType
      /\ \A k \in Tables, n \in Names :
            \/ s.tables[k][n] = tables[k][n]
            \/ tables[k][n] = Nobody /\ s.tables[k][n] = p
  BY LoadingFacts
     DEF LoaderInv, LoaderTypeOK, TableType, LoadMade, Activating, Grew, State
<1>2. back = [k \in Tables |-> [n \in Names |->
                IF k \in {"command", "handler"} /\ s.tables[k][n] = p
                THEN Nobody ELSE s.tables[k][n]]]
  BY <1>1 DEF GivenBack
<1>3. back \in TableType
  BY <1>1, <1>2 DEF TableType
<1>4. \A n \in Names : tables["command"][n] # p /\ tables["handler"][n] # p
  <2>1. \A n \in Names : Entry("command", p, n) \notin was.lists
    BY <1>1 DEF Clean, Entry
  <2> QED
    BY <1>1, <2>1 DEF Made, Shows, OwnersLoaded
<1>5. \A k \in {"command", "handler"}, n \in Names : back[k][n] = tables[k][n]
  BY <1>1, <1>2, <1>4 DEF Tables
<1> HIDE DEF back
<1>6. \A k \in Tables, n \in Names : Restored(back)[k][n] = tables[k][n]
  BY <1>3, <1>5, RestoredIs DEF Tables
<1>7. Restored(back) \in TableType
  BY <1>3, RestoredIs
<1> QED
  BY <1>1, <1>6, <1>7 DEF TableType, back

(* register() throws and is rolled back.                                   *)
LEMMA FailRegisterPreserves ==
  ASSUME LoaderInv, NEW p, FailRegister(p)
  PROVE  LoaderInv'
<1> DEFINE was == registries[Current]
<1>1. Turn(p) /\ NextCandidate
  BY DEF FailRegister
<1>2. /\ p \in Plugins /\ Loading
      /\ was.status[p] = "unknown"
      /\ was \in Registry
  BY <1>1, TurnFacts, LoadingFacts
<1>3. PICK n \in 0..Len(Calls[p]) :
         /\ Decided(RolledBack(Run(p, n).registry), p, "failed")
         /\ tables' = Restored(GivenBack(p, Run(p, n).tables))
  BY DEF FailRegister
<1> DEFINE s        == Run(p, n)
           registry == RolledBack(s.registry)
           t        == Restored(GivenBack(p, s.tables))
<1>4. Grew(s, p)
  BY <1>2, RunGrew
<1>5. /\ Decided(registry, p, "failed")
      /\ tables' = t
  BY <1>3
<1> HIDE DEF s
<1>6. /\ s \in State
      /\ s.registry.activating = was.activating
      /\ s.registry.status = was.status
  BY <1>4 DEF Grew
<1>7. /\ registry \in Registry
      /\ registry.activating = was.activating
      /\ registry.lists = was.lists
      /\ registry.status = was.status
  BY <1>2, <1>6 DEF RolledBack, Registry, State
<1>8. tables \in TableType /\ AddsHandlers(tables, tables)
  BY DEF LoaderInv, LoaderTypeOK, TableType, AddsHandlers
<1>9. was.activating => t = tables
  BY <1>2, <1>4, FailedGivesBack DEF Activating
<1>10. ~was.activating => t = Restored(s.tables)
  BY DEF GivenBack
<1>11. t \in TableType /\ AddsHandlers(tables, t)
  BY <1>2, <1>4, <1>8, <1>9, <1>10, ProbingAddsHandlers
<1>12. "failed" \in Status
  BY DEF Status
<1> HIDE DEF registry, t
<1> QED
  BY <1>1, <1>5, <1>7, <1>9, <1>11, <1>12, NotLoadedPreserves

(* A new registry, and empty tables if it is to be activated.              *)
LEMMA BeginPreserves ==
  ASSUME LoaderInv, NEW config \in Configs, NEW activate \in BOOLEAN,
         NEW strict \in BOOLEAN, NEW caching \in BOOLEAN,
         Begin(config, activate, strict, caching)
  PROVE  LoaderInv'
<1> DEFINE empty == [ activating |-> activate,
                      status     |-> [p \in Plugins |-> "unknown"],
                      lists      |-> {},
                      kept       |-> {} ]
<1>1. /\ ~Loading /\ Current < MaxLoads
      /\ registries' = Append(registries, empty)
      /\ load' = [at |-> 1, config |-> config, strict |-> strict, caching |-> caching]
      /\ tables' = IF activate THEN EmptyTables ELSE tables
      /\ active' = active /\ cached' = cached /\ aborted' = aborted
  BY DEF Begin
<1>2. /\ registries \in Seq(Registry)
      /\ Current \in Nat /\ MaxLoads \in Nat /\ Len(Order) \in Nat
      /\ active \in 0..Current
      /\ tables \in TableType /\ EmptyTables \in TableType
  BY LoaderFacts, LoaderAssumption
     DEF LoaderInv, LoaderTypeOK, TableType, EmptyTables, Current
<1>3. empty \in Registry /\ empty.activating = activate /\ Clean(empty)
  BY DEF Registry, Status, Clean, CliOnce
<1>4. Made(EmptyTables, empty) /\ OwnersLoaded(EmptyTables, empty, "handler")
  <2>1. \A k \in Tables, n \in Names : EmptyTables[k][n] = Nobody
    BY DEF EmptyTables
  <2>2. \A p \in Plugins : empty.status[p] = "unknown"
    OBVIOUS
  <2>3. empty.lists = {}
    OBVIOUS
  <2> HIDE DEF empty
  <2> QED
    BY <2>1, <2>2, <2>3, LoaderFacts DEF Made, Shows, OwnersLoaded, Tables
<1> HIDE DEF empty
<1>5. /\ registries' \in Seq(Registry)
      /\ Len(registries') = Current + 1
      /\ registries'[Current + 1] = empty
      /\ \A r \in 1..Current : registries'[r] = registries[r]
  BY <1>1, <1>2, <1>3 DEF Current
<1>6. Current' = Current + 1
  BY <1>5 DEF Current
<1>7. Loading'
  <2>1. load'.at = 1
    BY <1>1
  <2> QED
    BY <2>1 DEF Loading, NoLoad
<1>8. Activating' <=> activate
  BY <1>3, <1>5, <1>6, <1>7 DEF Activating
<1>9. LoaderTypeOK'
  <2>1. load' \in [at : 1..Len(Order) + 1, config : Configs, strict : BOOLEAN,
                   caching : BOOLEAN]
    BY <1>1, <1>2
  <2>2. tables' \in TableType
    BY <1>1, <1>2
  <2>3. Current' <= MaxLoads /\ active' \in 0..Current'
    BY <1>1, <1>2, <1>6
  <2> QED
    BY <1>1, <1>5, <2>1, <2>2, <2>3 DEF LoaderInv, LoaderTypeOK, TableType
<1>10. RegistriesClean'
  <2>1. \A r \in 1..Current + 1 : r \in 1..Current \/ r = Current + 1
    BY <1>2
  <2> QED
    BY <1>3, <1>5, <1>6, <2>1 DEF LoaderInv, RegistriesClean
<1>11. CacheMade'
  <2>1. \A r \in 1..Current : r \in 1..Current + 1 /\ r # Current + 1
    BY <1>2
  <2> QED
    BY <1>1, <1>5, <1>6, <2>1 DEF LoaderInv, CacheMade
<1>12. LoadMade'
  BY <1>1, <1>2, <1>4, <1>5, <1>6, <1>8 DEF LoadMade
<1>13. ActiveMade'
  <2> SUFFICES ASSUME ~activate, ~aborted
               PROVE  IF active = 0
                      THEN \A kind \in Tables \ {"handler"}, n \in Names :
                              tables[kind][n] = Nobody
                      ELSE Made(tables, registries'[active])
    BY <1>1, <1>8 DEF ActiveMade
  <2>1. ~Activating
    BY <1>1 DEF Activating
  <2>2. active # 0 => registries'[active] = registries[active]
    BY <1>2, <1>5
  <2> QED
    BY <2>1, <2>2 DEF LoaderInv, ActiveMade
<1> QED
  BY <1>9, <1>10, <1>11, <1>12, <1>13 DEF LoaderInv

(* The registry is cached and activated, or the load throws.               *)
LEMMA FinishPreserves ==
  ASSUME LoaderInv, Finish
  PROVE  LoaderInv'
<1> DEFINE registry == registries[Current]
           failed   == \E p \in Plugins : registry.status[p] \in {"rejected", "failed"}
           key      == Key(load.config, registry.activating)
<1>1. /\ Loading /\ load' = NoLoad
      /\ registries' = registries /\ tables' = tables
      /\ IF load.strict /\ failed
         THEN /\ aborted' = (aborted \/ registry.activating)
              /\ UNCHANGED <<active, cached>>
         ELSE /\ cached' = IF ~load.caching THEN cached ELSE
                           [k \in DOMAIN cached \cup {key} |->
                               IF k # key THEN cached[k]
                               ELSE [registry |-> Current, tables |-> tables]]
              /\ active' = IF registry.activating THEN Current ELSE active
              /\ aborted' = (aborted /\ ~registry.activating)
  BY DEF Finish
<1>2. /\ Current' = Current /\ ~Loading' /\ ~Activating'
  BY <1>1 DEF Current, Loading, Activating
<1>3. /\ Current \in 1..Current /\ Current \in Nat /\ Current \in 1..MaxLoads
      /\ registry \in Registry /\ registry.activating \in BOOLEAN
      /\ load.config \in Configs
      /\ tables \in TableType /\ aborted \in BOOLEAN
  BY <1>1, LoadingFacts, LoaderAssumption
     DEF LoaderInv, LoaderTypeOK, TableType, Registry
<1>4. registry.activating => Made(tables, registry) /\ Activating
  BY <1>1 DEF LoaderInv, LoadMade, Activating
<1>5. key \in Keys /\ key[2] = registry.activating
  BY <1>3 DEF Key, Keys
<1> DEFINE new == [registry |-> Current, tables |-> tables]
<1>6. /\ new \in Cached
      /\ new.registry = Current
      /\ registry.activating => Made(new.tables, registries[new.registry])
  BY <1>3, <1>4 DEF Cached, TableType
<1>7. \A k \in DOMAIN cached' :
         \/ k \in DOMAIN cached /\ cached'[k] = cached[k]
         \/ k = key /\ cached'[k] = new
  BY <1>1
<1>8. active' \in {active, Current}
  BY <1>1
<1> HIDE DEF key, new, registry, failed
<1>9. LoaderTypeOK'
  <2>1. DOMAIN cached' \subseteq Keys /\ \A k \in DOMAIN cached' : cached'[k] \in Cached
    BY <1>5, <1>6, <1>7 DEF LoaderInv, LoaderTypeOK
  <2>2. active' \in 0..Current
    BY <1>3, <1>8 DEF LoaderInv, LoaderTypeOK
  <2>3. aborted' \in BOOLEAN
    BY <1>1, <1>3
  <2> QED
    BY <1>1, <1>2, <2>1, <2>2, <2>3 DEF LoaderInv, LoaderTypeOK
<1>10. RegistriesClean'
  BY <1>1, <1>2 DEF LoaderInv, RegistriesClean
<1>11. CacheMade'
  <2> SUFFICES ASSUME NEW k \in DOMAIN cached'
               PROVE  /\ cached'[k].registry \in 1..Current
                      /\ k[2] => Made(cached'[k].tables,
                                      registries[cached'[k].registry])
    BY <1>1, <1>2 DEF CacheMade
  <2>1. CASE k \in DOMAIN cached /\ cached'[k] = cached[k]
    BY <2>1 DEF LoaderInv, CacheMade
  <2>2. CASE k = key /\ cached'[k] = new
    BY <1>3, <1>5, <1>6, <2>2
  <2> QED
    BY <1>7, <2>1, <2>2
<1>12. LoadMade'
  BY <1>2 DEF LoadMade
<1>13. ActiveMade'
  <2>1. CASE registry.activating /\ ~(load.strict /\ failed)
    <3>1. active' = Current /\ Current # 0
      BY <1>1, <1>3, <2>1
    <3> QED
      BY <1>1, <1>4, <2>1, <3>1 DEF ActiveMade, registry
  <2>2. CASE registry.activating /\ load.strict /\ failed
    <3>1. aborted'
      BY <1>1, <2>2
    <3> QED
      BY <3>1 DEF ActiveMade
  <2>3. CASE ~registry.activating
    <3>1. active' = active /\ (~aborted' => ~aborted)
      BY <1>1, <1>3, <2>3
    <3>2. ~Activating
      BY <2>3 DEF Activating, registry
    <3> QED
      BY <1>1, <3>1, <3>2 DEF LoaderInv, ActiveMade
  <2> QED
    BY <1>3, <2>1, <2>2, <2>3
<1> QED
  BY <1>9, <1>10, <1>11, <1>12, <1>13 DEF LoaderInv

(* A cached registry comes back with its tables.                           *)
LEMMA ReusePreserves ==
  ASSUME LoaderInv, NEW config, NEW activate \in BOOLEAN, Reuse(config, activate)
  PROVE  LoaderInv'
<1> DEFINE key == Key(config, activate)
           c   == cached[key]
<1>1. /\ ~Loading /\ key \in DOMAIN cached
      /\ UNCHANGED <<registries, cached, load>>
      /\ IF activate
         THEN tables' = c.tables /\ active' = c.registry /\ aborted' = FALSE
         ELSE UNCHANGED <<tables, active, aborted>>
  BY DEF Reuse
<1>2. /\ Current' = Current /\ ~Loading' /\ ~Activating' /\ ~Activating
  BY <1>1 DEF Current, Loading, Activating
<1>3. /\ c \in Cached
      /\ c.registry \in 1..Current
      /\ activate => Made(c.tables, registries[c.registry])
  BY <1>1 DEF LoaderInv, LoaderTypeOK, CacheMade, Key
<1>4. Current \in Nat
  BY DEF LoaderInv, LoaderTypeOK, Current
<1> HIDE DEF c
<1>5. LoaderTypeOK'
  <2>1. tables' \in TableType
    BY <1>1, <1>3 DEF LoaderInv, LoaderTypeOK, Cached, TableType
  <2>2. active' \in 0..Current /\ aborted' \in BOOLEAN
    <3>1. active \in 0..Current /\ aborted \in BOOLEAN
      BY DEF LoaderInv, LoaderTypeOK
    <3>2. c.registry \in 0..Current
      BY <1>3, <1>4
    <3> QED
      BY <1>1, <3>1, <3>2
  <2> QED
    BY <1>1, <1>2, <2>1, <2>2 DEF LoaderInv, LoaderTypeOK, TableType
<1>6. RegistriesClean' /\ CacheMade' /\ LoadMade'
  BY <1>1, <1>2 DEF LoaderInv, RegistriesClean, CacheMade, LoadMade
<1>7. ActiveMade'
  <2>1. CASE activate
    <3>1. active' # 0
      BY <1>1, <1>3, <1>4, <2>1
    <3> QED
      BY <1>1, <1>3, <2>1, <3>1 DEF ActiveMade
  <2>2. CASE ~activate
    BY <1>1, <1>2, <2>2 DEF LoaderInv, ActiveMade
  <2> QED
    BY <2>1, <2>2
<1> QED
  BY <1>5, <1>6, <1>7 DEF LoaderInv

(* Nothing is kept, nothing is lost.                                       *)
LEMMA ClearCachePreserves ==
  ASSUME LoaderInv, ClearCache
  PROVE  LoaderInv'
<1>1. DOMAIN <<>> = {}
  OBVIOUS
<1> QED
  BY <1>1 DEF ClearCache, LoaderInv, LoaderTypeOK, RegistriesClean, CacheMade, LoadMade,
              ActiveMade, Current, Loading, Activating

(* A late call of the registration API, and a step elsewhere.              *)
LEMMA LoaderUnchanged ==
  ASSUME LoaderInv, UNCHANGED loaderVars
  PROVE  LoaderInv'
  BY DEF loaderVars, LoaderInv, LoaderTypeOK, RegistriesClean, CacheMade, LoadMade,
         ActiveMade, Current, Loading, Activating

LEMMA LoaderInitInv == LoaderInit => LoaderInv
<1> SUFFICES ASSUME LoaderInit PROVE LoaderInv
  OBVIOUS
<1>1. /\ Current = 0 /\ ~Loading /\ ~Activating
      /\ DOMAIN cached = {} /\ 1..Current = {}
      /\ registries \in Seq(Registry)
  BY DEF LoaderInit, Current, Loading, Activating
<1>2. \A k \in Tables, n \in Names : tables[k][n] = Nobody
  BY DEF LoaderInit, EmptyTables
<1>3. LoaderTypeOK
  <2>1. tables \in [Tables -> [Names -> Plugins \cup {Nobody}]]
    BY DEF LoaderInit, EmptyTables
  <2>2. active \in 0..Current /\ Current <= MaxLoads
    BY <1>1, LoaderAssumption DEF LoaderInit
  <2> QED
    BY <1>1, <2>1, <2>2 DEF LoaderInit, LoaderTypeOK
<1> QED
  BY <1>1, <1>2, <1>3
     DEF LoaderInv, RegistriesClean, CacheMade, LoadMade, ActiveMade, LoaderInit

LEMMA LoaderStepPreserves ==
  ASSUME LoaderInv, [LoaderNext]_loaderVars
  PROVE  LoaderInv'
<1>1. CASE UNCHANGED loaderVars
  BY <1>1, LoaderUnchanged
<1>2. CASE LoaderNext
  BY <1>2, BeginPreserves, FinishPreserves, ReusePreserves, ClearCachePreserves,
     OverriddenPreserves, DisableOrRejectPreserves, RegisterPreserves,
     FailRegisterPreserves, LoaderUnchanged
     DEF LoaderNext, CallRegistrationLate
<1> QED
  BY <1>1, <1>2

(* Between two loads the invariant is the property.                        *)
LEMMA LoaderInvMatches == LoaderInv => TablesMatchActive
<1> SUFFICES ASSUME LoaderInv PROVE TablesMatchActive
  OBVIOUS
<1>1. FailedLeftNothing
  BY DEF LoaderInv, RegistriesClean, Clean, FailedLeftNothing
<1>2. CliOwnedOnce
  <2> SUFFICES ASSUME NEW r \in 1..Current, NEW p \in Plugins, NEW n \in Names
               PROVE  /\ \A q \in Plugins :
                            Listed(r, "cli", p, n) /\ Listed(r, "cli", q, n) => p = q
                      /\ /\ registries[r].status[p] = "loaded"
                         /\ \E i \in DOMAIN Calls[p] : Calls[p][i] = <<"cli", n>>
                         => \E q \in Plugins : Listed(r, "cli", q, n)
    BY DEF CliOwnedOnce
  <2>1. Clean(registries[r])
    BY DEF LoaderInv, RegistriesClean
  <2>2. \A q \in Plugins : Listed(r, "cli", q, n) <=>
                              Entry("cli", q, n) \in registries[r].lists
    BY DEF Listed, Entry
  <2> QED
    BY <2>1, <2>2 DEF Clean, CliOnce, CliTaken
<1>3. ASSUME ~Loading, ~aborted
      PROVE  IF active = 0
             THEN \A kind \in Tables \ {"handler"}, n \in Names :
                     tables[kind][n] = Nobody
             ELSE Made(tables, registries[active])
  BY <1>3 DEF LoaderInv, ActiveMade, Activating
<1>4. \A kind, p, n : Listed(active, kind, p, n) <=>
                         Entry(kind, p, n) \in registries[active].lists
  BY DEF Listed, Entry
<1>5. ASSUME ~Loading, ~aborted, NEW kind \in {"command", "harness"},
             NEW n \in Names, NEW p \in Plugins
      PROVE  tables[kind][n] = p <=> active # 0 /\ Listed(active, kind, p, n)
  BY <1>3, <1>4, <1>5, LoaderFacts DEF Made, Shows, Tables
<1>6. ASSUME ~Loading, ~aborted, NEW n \in Names, NEW p \in Plugins,
             tables["compaction"][n] = p
      PROVE  active # 0 /\ registries[active].status[p] = "loaded"
  BY <1>3, <1>6, LoaderFacts DEF Made, OwnersLoaded, Tables
<1>7. ASSUME ~Loading, ~aborted, active # 0, NEW p \in Plugins,
             registries[active].status[p] = "loaded", NEW i \in DOMAIN Calls[p],
             Calls[p][i][1] \in Tables
      PROVE  tables[Calls[p][i][1]][Calls[p][i][2]] # Nobody
  BY <1>3, <1>7 DEF Made, Taken
<1> QED
  BY <1>1, <1>2, <1>5, <1>6, <1>7 DEF TablesMatchActive

----------------------------------------------------------------------------
(* What the gateway runs and what the plugin said is what the scripts left *)
(* when it was started.                                                    *)
Booted ==
    /\ gateway \in {"down", "up"}
    /\ running \in [Target -> Content \ {"torn"}]
    /\ gateway = "up" => script = NoScript /\ running = file
    /\ advice # "none" => advice = Advisory
    /\ gateway = "down" => advice = "none"

BootInv == IInv /\ Booted /\ LoaderInv

LEMMA BootInitInv == BootInit => BootInv
<1> SUFFICES ASSUME BootInit PROVE BootInv
  OBVIOUS
<1>1. IInv /\ LoaderInv
  BY SeamInitIInv, LoaderInitInv DEF BootInit
<1>2. Booted
  BY DEF BootInit, Booted, Nothing, Content
<1> QED
  BY <1>1, <1>2 DEF BootInv

(* Only a halt touches the plugins beside the loads: everything is gone.   *)
LEMMA BootLoaderInv ==
  ASSUME BootInv, [BootNext]_bootVars
  PROVE  LoaderInv'
<1>1. CASE [LoaderNext]_loaderVars
  BY <1>1, LoaderStepPreserves DEF BootInv
<1>2. CASE Halt
  <2>1. LoaderInit'
    BY <1>2 DEF Halt, LoaderInit, EmptyTables, NoLoad
  <2> QED
    BY <2>1, LoaderInitInv, PTL
<1> QED
  BY <1>1, <1>2 DEF BootNext, bootVars, Boot, RunScript, LoadPlugins

LEMMA BootStepInv ==
  ASSUME BootInv, [BootNext]_bootVars
  PROVE  BootInv'
<1> USE DEF BootInv
<1>1. IInv' /\ LoaderInv'
  BY SeamStepPreserves, BootLoaderInv
     DEF BootNext, bootVars, Boot, Halt, RunScript, LoadPlugins
<1>2. UNCHANGED seamVars => /\ script' = script
                            /\ file' = file
                            /\ sentinel' = sentinel
                            /\ Advisory' = Advisory
  BY DEF seamVars, Advisory
<1>3. CASE Boot
  <2>1. running' \in [Target -> Content \ {"torn"}]
    BY <1>3 DEF Boot, IInv, SeamTypeOK
  <2> QED
    BY <1>1, <1>2, <1>3, <2>1 DEF Boot, Booted
<1>4. CASE Halt
  <2>1. running' \in [Target -> Content \ {"torn"}]
    BY <1>4 DEF Halt, Nothing, Content
  <2> QED
    BY <1>1, <1>4, <2>1 DEF Halt, Booted
<1>5. CASE RunScript
  <2>1. /\ gateway' = gateway /\ gateway = "down" /\ advice' = advice
        /\ running' = running
    BY <1>5 DEF RunScript
  <2> QED
    BY <1>1, <2>1 DEF Booted
<1>6. CASE LoadPlugins
  <2>1. /\ gateway = "up" /\ gateway' = gateway
        /\ running' = running
        /\ advice' \in {advice, Advisory}
        /\ UNCHANGED seamVars
    BY <1>6 DEF LoadPlugins
  <2> QED
    BY <1>1, <1>2, <2>1 DEF Booted
<1>7. CASE UNCHANGED bootVars
  <2>1. UNCHANGED <<gateway, running, advice>> /\ UNCHANGED seamVars
    BY <1>7 DEF bootVars
  <2> QED
    BY <1>1, <1>2, <2>1 DEF Booted
<1> QED
  BY <1>3, <1>4, <1>5, <1>6, <1>7 DEF BootNext

(* The types are part of the invariant.                                    *)
LEMMA BootInvTypes == BootInv => BootTypeOK
<1> SUFFICES ASSUME BootInv PROVE BootTypeOK
  OBVIOUS
<1>1. SeamTypeOK /\ LoaderTypeOK
  BY DEF BootInv, IInv, LoaderInv
<1>2. advice \in {"none", "not applied", "unreadable", "applied"}
  BY <1>1 DEF BootInv, Booted, Advisory, SeamTypeOK
<1> QED
  BY <1>1, <1>2 DEF BootInv, Booted, BootTypeOK

(* The sentinel is as good as the files, in the process and on disk.       *)
LEMMA InvImpliesAdvised == BootInv => HostAsAdvised
<1> SUFFICES ASSUME IInv, Booted PROVE HostAsAdvised
  BY DEF BootInv
<1>1. AppliedMeansApplied
  <2>1. SUFFICES ASSUME Verdict = "applied", undoing PROVE Applied
    BY DEF AppliedMeansApplied, IInv, Sealed, SeamTypeOK, Verdict
  <2>2. AllAre("patched")
    BY <2>1 DEF Verdict, IInv, SeamTypeOK
  <2> QED
    BY <2>1, <2>2 DEF Applied, AllAre, IInv, Undoable
<1>2. advice = "applied" => sentinel = "whole" /\ running = file
  BY DEF Booted, Advisory, IInv, SeamTypeOK
<1>3. advice \in {"not applied", "unreadable"} => sentinel # "whole"
  BY DEF Booted, Advisory
<1> QED
  BY <1>1, <1>2, <1>3 DEF HostAsAdvised, IInv, Sealed, Applied, AllAre

(* The host is well-formed, and half a file is never what the gateway runs.*)
THEOREM BootTypeCorrect == BootSpec => []BootTypeOK
  BY BootInvTypes, BootInitInv, BootStepInv, PTL DEF BootSpec

(* The operator gets the originals back, whatever scripts ran and wherever *)
(* they stopped, for any manifest.                                         *)
THEOREM OriginalsNeverLost == BootSpec => []OriginalsRecoverable
<1>1. BootInv => OriginalsRecoverable
  BY DEF BootInv, IInv
<1> QED
  BY <1>1, BootInitInv, BootStepInv, PTL DEF BootSpec

(* What verify, the sentinel and the plugin say about the patch is true.   *)
THEOREM AdviceIsTrue == BootSpec => []HostAsAdvised
  BY InvImpliesAdvised, BootInitInv, BootStepInv, PTL DEF BootSpec

(* Between two loads the commands and harnesses of the process are those   *)
(* of the active registry, and everything its plugins asked for is taken,  *)
(* for any plugins and configurations, whatever loads failed before it,    *)
(* ran beside it or were kept in the cache.                                *)
THEOREM TablesTrue == BootSpec => []TablesMatchActive
<1>1. BootInv => TablesMatchActive
  BY LoaderInvMatches DEF BootInv
<1> QED
  BY <1>1, BootInitInv, BootStepInv, PTL DEF BootSpec
=============================================================================
