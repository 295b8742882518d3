---------------------------- MODULE PluginLoader ----------------------------
(***************************************************************************)
(* How the host of the overlay (patches/.../loader-DdN5GTsW.js) loads its  *)
(* plugins, Smarter-Claw among them: loadOpenClawPlugins builds a registry,*)
(* one candidate after the other, and activates it.                        *)
(*                                                                         *)
(* What a plugin registers ends up in three kinds of places:               *)
(*   - lists of the registry that a failed registration is rolled back     *)
(*     from (tools, session actions, typed hooks, commands, ...);          *)
(*   - lists of the registry that are not in the snapshot (session         *)
(*     extensions, Control UI descriptors, ...);                           *)
(*   - tables of the process (commands, interactive handlers, harnesses,   *)
(*     compaction providers, ...).                                         *)
(*                                                                         *)
(* The whole load is synchronous.  Not modelled: channel plugins and their *)
(* setup entries, bundles, the memory slot, validation and manifest-only   *)
(* loads, nested loads, and what a definition registers beside register(). *)
(***************************************************************************)
EXTENDS Naturals, Sequences, FiniteSets

CONSTANTS
    Plugins,
    Nobody,      \* a name nobody has taken in a table
    Order,       \* ids of the candidates, in the order they are loaded
    Calls,       \* Calls[p] = the registrations p makes in register(), in order
    Configs,     \* sets of plugins a configuration may enable
    MaxLoads     \* bound on the number of registries, for TLC

Tables == {"command", "handler", "harness", "compaction"}

Kinds == Tables \cup {"entry", "cli", "extension"}

Names == {c[2] : c \in UNION {{Calls[p][i] : i \in DOMAIN Calls[p]} : p \in Plugins}}

ASSUME LoaderAssumption ==
    /\ Order \in Seq(Plugins)
    /\ \A p \in Plugins : Calls[p] \in Seq(Kinds \X STRING)
    /\ \A config \in Configs : config \subseteq Plugins
    /\ MaxLoads \in Nat
    /\ Nobody \notin Plugins

VARIABLES
    registries, \* the registries built so far
    tables,     \* the tables of the process: who has which name
    active,     \* the active registry, or 0
    cached,     \* registries kept per configuration and mode, with their tables
    load,       \* the load that runs
    aborted     \* the last activating load threw

loaderVars == <<registries, tables, active, cached, load, aborted>>

Registrations == [plugin : Plugins, kind : Kinds, name : Names]

(* The status of a plugin; "error" is split by failurePhase: register()    *)
(* was never called, or it failed.                                         *)
Status == {"unknown", "loaded", "disabled", "rejected", "failed"}

(* status: of the first candidate of each id, the others are overridden    *)
Registry ==
    [ activating : BOOLEAN,
      status     : [Plugins -> Status],
      lists      : SUBSET Registrations,
      kept       : SUBSET Registrations ]

EmptyTables == [t \in Tables |-> [n \in Names |-> Nobody]]

NoLoad == [at |-> 0]

Loading == load # NoLoad

Current == Len(registries)

----------------------------------------------------------------------------
(* Entering and leaving loadOpenClawPlugins *)

(* The key of the cache covers the configuration and the mode.             *)
Key(config, activate) == <<config, activate>>

Keys == Configs \X BOOLEAN

(* A cached registry is made active again, with the tables it had.         *)
Reuse(config, activate) ==
    LET key == Key(config, activate)
    IN  /\ ~Loading
        /\ key \in DOMAIN cached
        /\ IF activate
           THEN /\ tables' = cached[key].tables
                /\ active' = cached[key].registry
                /\ aborted' = FALSE
           ELSE UNCHANGED <<tables, active, aborted>>
        /\ UNCHANGED <<registries, cached, load>>

(* Otherwise, or when the caller wants no cache, a registry is built.  An   *)
(* activating load first empties the tables                                *)
(* (clearActivatedPluginRuntimeState).                                     *)
Begin(config, activate, strict, caching) ==
    /\ ~Loading
    /\ caching => Key(config, activate) \notin DOMAIN cached
    /\ Current < MaxLoads
    /\ registries' =
           Append(registries,
                  [ activating |-> activate,
                    status     |-> [p \in Plugins |-> "unknown"],
                    lists      |-> {},
                    kept       |-> {} ])
    /\ load' = [at |-> 1, config |-> config, strict |-> strict, caching |-> caching]
    /\ tables' = IF activate THEN EmptyTables ELSE tables
    /\ UNCHANGED <<active, cached, aborted>>

(* The load ends.  With throwOnLoadError and a failed plugin it throws     *)
(* before the registry is cached or activated.                             *)
Finish ==
    LET registry == registries[Current]
        failed   == \E p \in Plugins : registry.status[p] \in {"rejected", "failed"}
        key      == Key(load.config, registry.activating)
    IN  /\ Loading
        /\ load.at > Len(Order)
        /\ load' = NoLoad
        /\ IF load.strict /\ failed
           THEN /\ aborted' = (aborted \/ registry.activating)
                /\ UNCHANGED <<active, cached>>
           ELSE /\ cached' = IF ~load.caching THEN cached ELSE
                             [k \in DOMAIN cached \cup {key} |->
                                 IF k # key THEN cached[k]
                                 ELSE [registry |-> Current, tables |-> tables]]
                /\ active' = IF registry.activating THEN Current ELSE active
                /\ aborted' = (aborted /\ ~registry.activating)
        /\ UNCHANGED <<registries, tables>>

(* clearPluginRegistryLoadCache                                            *)
ClearCache ==
    /\ ~Loading
    /\ cached # <<>>
    /\ cached' = <<>>
    /\ UNCHANGED <<registries, tables, active, load, aborted>>

----------------------------------------------------------------------------
(* One candidate *)

(* What one call of the registration API does to the tables and the        *)
(* registry: s is a record of the two.                                     *)
RegistryEntry(p, call) == [plugin |-> p, kind |-> call[1], name |-> call[2]]

InLists(s, e) == [s EXCEPT !.registry.lists = @ \cup {e}]

InTables(s, e) == [s EXCEPT !.tables[e.kind][e.name] = e.plugin]

(* A name that is taken stays with its owner.                              *)
Free(s, e) == s.tables[e.kind][e.name] = Nobody

(* registerTool, registerSessionAction, registerTypedHook                  *)
RegisterEntry(s, e) == InLists(s, e)

(* registerSessionExtension, registerControlUiDescriptor                   *)
RegisterExtension(s, e) == [s EXCEPT !.registry.kept = @ \cup {e}]

(* A CLI command belongs to the first plugin of the registry that asks.    *)
RegisterCli(s, e) ==
    IF \E x \in s.registry.lists : x.kind = "cli" /\ x.name = e.name
    THEN s ELSE InLists(s, e)

(* Only an activating load touches the commands and harnesses of the       *)
(* process; the other tables are written by every load.                    *)
RegisterCommand(s, e) ==
    IF ~s.registry.activating THEN InLists(s, e)
    ELSE IF Free(s, e) THEN InLists(InTables(s, e), e) ELSE s

RegisterHarness(s, e) ==
    IF ~s.registry.activating
    THEN IF \E x \in s.registry.lists : x.kind = "harness" /\ x.name = e.name
         THEN s ELSE InLists(s, e)
    ELSE IF Free(s, e) THEN InLists(InTables(s, e), e) ELSE s

RegisterHandler(s, e) == IF Free(s, e) THEN InTables(s, e) ELSE s

RegisterCompactionProvider(s, e) == IF Free(s, e) THEN InTables(s, e) ELSE s

Registered(s, p, call) ==
    LET e == RegistryEntry(p, call)
    IN  CASE e.kind = "entry"      -> RegisterEntry(s, e)
          [] e.kind = "cli"        -> RegisterCli(s, e)
          [] e.kind = "extension"  -> RegisterExtension(s, e)
          [] e.kind = "command"    -> RegisterCommand(s, e)
          [] e.kind = "harness"    -> RegisterHarness(s, e)
          [] e.kind = "handler"    -> RegisterHandler(s, e)
          [] e.kind = "compaction" -> RegisterCompactionProvider(s, e)

(* The first n calls of register(), made one after the other.              *)
Run(p, n) ==
    LET after[i \in 0..n] ==
            IF i = 0 THEN [tables |-> tables, registry |-> registries[Current]]
            ELSE Registered(after[i - 1], p, Calls[p][i])
    IN  after[n]

Decided(registry, p, status) ==
    registries' = [registries EXCEPT ![Current] =
                      [registry EXCEPT !.status[p] = status]]

Candidate == Order[load.at]

Turn(p) ==
    /\ Loading
    /\ load.at <= Len(Order)
    /\ p = Candidate
    /\ registries[Current].status[p] = "unknown"

NextCandidate ==
    /\ load' = [load EXCEPT !.at = @ + 1]
    /\ UNCHANGED <<active, cached, aborted>>

(* A second candidate of the same id is overridden by the first.           *)
Overridden ==
    /\ Loading
    /\ load.at <= Len(Order)
    /\ registries[Current].status[Candidate] # "unknown"
    /\ NextCandidate
    /\ UNCHANGED <<registries, tables>>

Disable(p) ==
    /\ Turn(p)
    /\ p \notin load.config
    /\ Decided(registries[Current], p, "disabled")
    /\ NextCandidate
    /\ UNCHANGED tables

(* No config schema, an invalid config, a path that escapes the plugin,    *)
(* an import that throws, another id, no register(): none of its           *)
(* registrations was made.                                                 *)
Reject(p) ==
    /\ Turn(p)
    /\ p \in load.config
    /\ Decided(registries[Current], p, "rejected")
    /\ NextCandidate
    /\ UNCHANGED tables

(* The tables that are put back as they were before register().            *)
Restored(t) ==
    [t EXCEPT !["harness"] = tables["harness"],
              !["compaction"] = tables["compaction"]]

(* register() returns.  A load that does not activate leaves its           *)
(* interactive handlers behind.                                            *)
Register(p) ==
    LET done == Run(p, Len(Calls[p]))
    IN  /\ Turn(p)
        /\ p \in load.config
        /\ Decided(done.registry, p, "loaded")
        /\ tables' = IF registries[Current].activating THEN done.tables
                     ELSE Restored(done.tables)
        /\ NextCandidate

(* rollbackPluginGlobalSideEffects: the plugin's names are given back, in  *)
(* an activating load only.                                                *)
GivenBack(p, t) ==
    IF ~registries[Current].activating THEN t
    ELSE [k \in Tables |-> [n \in Names |->
             IF k \in {"command", "handler"} /\ t[k][n] = p THEN Nobody ELSE t[k][n]]]

(* mutant: the registry is left as register() made it *)
RolledBackNothing(registry) == registry

(* restorePluginRegistry puts back the lists of the snapshot, and only     *)
(* these.                                                                  *)
RolledBack(registry) == [registry EXCEPT !.lists = registries[Current].lists]

(* register() throws after some of its calls, or returns a promise after   *)
(* all of them.                                                            *)
FailRegister(p) ==
    /\ Turn(p)
    /\ p \in load.config
    /\ \E n \in 0..Len(Calls[p]) :
          LET done == Run(p, n)
              back == GivenBack(p, done.tables)
          IN  /\ Decided(RolledBack(done.registry), p, "failed")
              /\ tables' = Restored(back)
    /\ NextCandidate

----------------------------------------------------------------------------
(* A plugin whose register() was called may keep its API object, whatever  *)
(* becomes of the registry.                                                *)
Holds(p, r) == registries[r].status[p] \in {"loaded", "failed"}

(* runPluginRegisterSync has closed the guard: a late registration does    *)
(* nothing and returns undefined.                                          *)
CallRegistrationLate(p, r, i) ==
    /\ ~Loading
    /\ Holds(p, r)
    /\ i \in DOMAIN Calls[p]
    /\ UNCHANGED loaderVars

LoaderInit ==
    /\ registries = <<>>
    /\ tables = EmptyTables
    /\ active = 0
    /\ cached = <<>>
    /\ load = NoLoad
    /\ aborted = FALSE

LoaderNext ==
    \/ \E config \in Configs, activate \in BOOLEAN :
          \/ Reuse(config, activate)
          \/ \E strict, caching \in BOOLEAN :
                Begin(config, activate, strict, caching)
    \/ Finish
    \/ ClearCache
    \/ Overridden
    \/ \E p \in Plugins :
          \/ Disable(p)
          \/ Reject(p)
          \/ Register(p)
          \/ FailRegister(p)
    \/ \E r \in 1..Current, p \in Plugins :
          \E i \in DOMAIN Calls[p] : CallRegistrationLate(p, r, i)

LoaderSpec == LoaderInit /\ [][LoaderNext]_loaderVars
----------------------------------------------------------------------------
Cached == [registry : 1..MaxLoads, tables : [Tables -> [Names -> Plugins \cup {Nobody}]]]

LoaderTypeOK ==
    /\ registries \in Seq(Registry)
    /\ Current <= MaxLoads
    /\ tables \in [Tables -> [Names -> Plugins \cup {Nobody}]]
    /\ active \in 0..Current
    /\ DOMAIN cached \subseteq Keys
    /\ \A key \in DOMAIN cached : cached[key] \in Cached
    /\ \/ load = NoLoad
       \/ load \in [at : 1..Len(Order) + 1, config : Configs, strict : BOOLEAN,
                   caching : BOOLEAN]
    /\ aborted \in BOOLEAN

(* What the lists of registry r hold of a kind: who has which name.        *)
Listed(r, kind, p, n) ==
    [plugin |-> p, kind |-> kind, name |-> n] \in registries[r].lists

(* A plugin that failed has left nothing in the lists of its registry.     *)
FailedLeftNothing ==
    \A r \in 1..Current :
        \A e \in registries[r].lists :
            registries[r].status[e.plugin] \in {"loaded", "unknown"}

(* In a registry a CLI command has one owner, and if a loaded plugin asked *)
(* for it, it has one.                                                     *)
CliOwnedOnce ==
    \A r \in 1..Current, p \in Plugins, n \in Names :
        /\ \A q \in Plugins :
              Listed(r, "cli", p, n) /\ Listed(r, "cli", q, n) => p = q
        /\ /\ registries[r].status[p] = "loaded"
           /\ \E i \in DOMAIN Calls[p] : Calls[p][i] = <<"cli", n>>
           => \E q \in Plugins : Listed(r, "cli", q, n)

(* Between two loads the commands and harnesses of the process are those   *)
(* of the active registry, to which every loaded plugin contributed what   *)
(* it registered and a failed one nothing, through failed registrations,   *)
(* probing loads, the cache and late calls.  A strict load that threw is   *)
(* excepted: it leaves its own tables beside the registry before it.       *)
TablesMatchActive ==
    /\ FailedLeftNothing
    /\ CliOwnedOnce
    /\ ~Loading /\ ~aborted =>
          \A kind \in {"command", "harness"}, n \in Names, p \in Plugins :
             tables[kind][n] = p <=> active # 0 /\ Listed(active, kind, p, n)
    /\ ~Loading /\ ~aborted =>
          \A n \in Names, p \in Plugins :
             tables["compaction"][n] = p =>
                active # 0 /\ registries[active].status[p] = "loaded"
    /\ ~Loading /\ ~aborted /\ active # 0 =>
          \A p \in Plugins :
             registries[active].status[p] = "loaded" =>
                \A i \in DOMAIN Calls[p] :
                   Calls[p][i][1] \in Tables =>
                      tables[Calls[p][i][1]][Calls[p][i][2]] # Nobody
=============================================================================
