-------------------------- MODULE PluginLifecycle --------------------------
(***************************************************************************)
(* Plugins that come and go while instances run: the administration's      *)
(* requests (plugin-admin-router.ts), the broadcasts that reach every      *)
(* instance, what it then does (plugin-manager.ts), how an instance starts *)
(* (plugin-loader.ts, index.ts of core/backend), and the jobs by which     *)
(* AccessRules follows. The instances share a queue. Of a plugin's routes, *)
(* services and handlers, which come and go with its access rules, nothing *)
(* is kept but that it is loaded.                                          *)
(***************************************************************************)
EXTENDS AccessRules, Naturals

CONSTANTS
  NamedAlike,         \* plugins whose package has the plugin's id for its name
  MaxLifecycleEvents  \* bound: starts, crashes, installations, deregistrations, requests, failures

\* The names of the hooks' workers are none of an instance.
ASSUME LifecycleAssumption == Hosts \cap HookWorkers = {}

VARIABLES
  phase,       \* of each instance
  installed,   \* rows of plugins that are not built in
  announcing,  \* installations whose row is written and whose broadcast is ahead
  broadcasts,  \* what is on its way to which instance
  hookJobs,    \* of accessRulesRegistered and pluginDeregistered
  lifecycleEvents,
  excused      \* history: requests and starts overlapped, or a job was lost

lifecycleVars == <<accessVars, phase, installed, announcing, broadcasts, hookJobs, lifecycleEvents, excused>>

Kinds == {"install", "deregister"}

LifecycleInit ==
  /\ \E running \in SUBSET Hosts :
       /\ AccessInit(running)
       /\ phase = [i \in Hosts |-> IF i \in running THEN "up" ELSE "down"]
  /\ installed = {} /\ announcing = {} /\ broadcasts = {} /\ hookJobs = {}
  /\ lifecycleEvents = 0 /\ excused = FALSE

Up == {i \in Hosts : phase[i] = "up"}

\* Nothing is under way but, perhaps, instances that start.
PluginsSettled ==
  /\ announcing = {} /\ broadcasts = {}
  /\ \A j \in hookJobs : j[1] # "cleanup"
  /\ At("cleanup", "off")
LifecycleAtRest ==
  /\ PluginsSettled /\ hookJobs = {} /\ \A s \in Syncers : At(s, "off")

Event ==
  /\ lifecycleEvents < MaxLifecycleEvents
  /\ lifecycleEvents' = lifecycleEvents + 1

-----------------------------------------------------------------------------
(* An instance starts *)

\* loadPlugins: all that the table holds; phase 3 begins with the hooks for the rules.
Start(i) ==
  LET all == BuiltIn \cup installed IN
  /\ phase[i] = "down" /\ Event
  /\ phase' = [phase EXCEPT ![i] = "starting"]
  /\ loaded' = [loaded EXCEPT ![i] = all]
  /\ hookJobs' = hookJobs \cup ({"sync"} \X all)
  /\ syncing' = [syncing EXCEPT ![i] = [NotSyncing EXCEPT !.pc = "record", !.rules = all, !.todo = all]]
  /\ excused' = (excused \/ ~PluginsSettled)
  /\ UNCHANGED <<ruleTables, editingRole, removed, installed, announcing, broadcasts>>

\* setupLifecycleListeners: from here on it hears broadcasts.
Listen(i) ==
  /\ phase[i] = "starting" /\ SyncDone(i)
  /\ phase' = [phase EXCEPT ![i] = "up"]
  /\ syncing' = [syncing EXCEPT ![i] = NotSyncing]
  /\ UNCHANGED <<loaded, ruleTables, editingRole, removed, installed, announcing, broadcasts, hookJobs,
                 lifecycleEvents, excused>>

\* A crash, or a failure while it starts.
Down(i) ==
  /\ phase[i] # "down" /\ Event
  /\ phase' = [phase EXCEPT ![i] = "down"]
  /\ loaded' = [loaded EXCEPT ![i] = {}]
  /\ syncing' = [syncing EXCEPT ![i] = NotSyncing]
  /\ broadcasts' = {b \in broadcasts : b[3] # i}
  /\ UNCHANGED <<ruleTables, editingRole, removed, installed, announcing, hookJobs, excused>>

-----------------------------------------------------------------------------
(* Requests and broadcasts *)

Broadcast(kind, p) == broadcasts' = broadcasts \cup {<<kind, p, i>> : i \in Up}

\* install: the package, its row, then the broadcast.
Install(p) ==
  /\ p \notin BuiltIn /\ Up # {} /\ Event
  /\ installed' = installed \cup {p}
  /\ announcing' = announcing \cup {p}
  /\ excused' = (excused \/ ~LifecycleAtRest)
  /\ UNCHANGED <<accessVars, phase, broadcasts, hookJobs>>

RequestInstallation(p) ==
  /\ p \in announcing
  /\ announcing' = announcing \ {p}
  /\ Broadcast("install", p)
  /\ UNCHANGED <<accessVars, phase, installed, hookJobs, lifecycleEvents, excused>>

\* deregister: the row stays.
Deregister(p) ==
  /\ p \in installed /\ Up # {} /\ Event
  /\ Broadcast("deregister", p)
  /\ excused' = (excused \/ ~LifecycleAtRest)
  /\ UNCHANGED <<accessVars, phase, installed, announcing, hookJobs>>

\* loadSinglePlugin.
LoadSinglePlugin(i, p) ==
  /\ <<"install", p, i>> \in broadcasts
  /\ broadcasts' = broadcasts \ {<<"install", p, i>>}
  /\ loaded' = [loaded EXCEPT ![i] = @ \cup {p}]
  /\ hookJobs' = hookJobs \cup {<<"sync", p>>}
  /\ UNCHANGED <<ruleTables, syncing, editingRole, removed, phase, installed, announcing,
                 lifecycleEvents, excused>>

\* deregisterPlugin, called with the name of the package: it finds the plugin when
\* that is the plugin's id, too.
DeregisterPlugin(i, p) ==
  /\ <<"deregister", p, i>> \in broadcasts
  /\ broadcasts' = broadcasts \ {<<"deregister", p, i>>}
  /\ IF p \in NamedAlike
     THEN /\ loaded' = [loaded EXCEPT ![i] = @ \ {p}]
          /\ hookJobs' = hookJobs \cup {<<"cleanup", p>>}
     ELSE UNCHANGED <<loaded, hookJobs>>
  /\ UNCHANGED <<ruleTables, syncing, editingRole, removed, phase, installed, announcing,
                 lifecycleEvents, excused>>

\* An instance fails to do as it is told.
BroadcastFails(b) ==
  /\ Event /\ broadcasts' = broadcasts \ {b} /\ excused' = TRUE
  /\ UNCHANGED <<accessVars, phase, installed, announcing, hookJobs>>

-----------------------------------------------------------------------------
(* The jobs *)

TakeJob(w, p) ==
  /\ <<w, p>> \in hookJobs /\ At(w, "off") /\ Up # {}
  /\ hookJobs' = hookJobs \ {<<w, p>>}
  /\ syncing' = [syncing EXCEPT ![w] = [NotSyncing EXCEPT
       !.pc = IF w = "sync" THEN "record" ELSE "unmap", !.rules = {p},
       !.todo = IF w = "sync" THEN {p} ELSE {p} \cap known]]
  /\ UNCHANGED <<loaded, ruleTables, editingRole, removed, phase, installed, announcing, broadcasts,
                 lifecycleEvents, excused>>

JobDone(w) ==
  /\ ~At(w, "off") /\ SyncDone(w)
  /\ syncing' = [syncing EXCEPT ![w] = NotSyncing]
  /\ UNCHANGED <<loaded, ruleTables, editingRole, removed, phase, installed, announcing, broadcasts,
                 hookJobs, lifecycleEvents, excused>>

\* It is retried, or its retries are used up.
JobFails(w) ==
  /\ ~At(w, "off") /\ Event
  /\ \/ hookJobs' = hookJobs \cup ({w} \X syncing[w].rules) /\ UNCHANGED excused
     \/ excused' = TRUE /\ UNCHANGED hookJobs
  /\ syncing' = [syncing EXCEPT ![w] = NotSyncing]
  /\ UNCHANGED <<loaded, ruleTables, editingRole, removed, phase, installed, announcing, broadcasts>>

-----------------------------------------------------------------------------
RoleRequest ==
  /\ Event
  /\ \/ \E i \in Hosts, rules \in SUBSET Plugins :
          /\ loaded[i] # {}
          /\ \/ \E r \in CustomRoles : CreateRole(i, r, rules)
             \/ \E a \in Administrators, r \in Roles : UpdateRole(a, i, r, rules)
     \/ \E r \in CustomRoles : DeleteRole(r)
     \/ \E a \in Administrators : EditFails(a)
  /\ UNCHANGED <<phase, installed, announcing, broadcasts, hookJobs, excused>>

Proceeds ==
  /\ (\E s \in Syncers : SyncStep(s)) \/ (\E a \in Administrators : EditStep(a))
  /\ UNCHANGED <<phase, installed, announcing, broadcasts, hookJobs, lifecycleEvents, excused>>

LifecycleNext ==
  \/ \E i \in Hosts : Start(i) \/ Listen(i) \/ Down(i)
  \/ \E p \in Plugins : Install(p) \/ RequestInstallation(p) \/ Deregister(p)
  \/ \E i \in Hosts, p \in Plugins : LoadSinglePlugin(i, p) \/ DeregisterPlugin(i, p)
  \/ \E b \in broadcasts : BroadcastFails(b)
  \/ \E w \in HookWorkers : JobDone(w) \/ JobFails(w) \/ \E p \in Plugins : TakeJob(w, p)
  \/ RoleRequest \/ Proceeds

LifecycleSpec == LifecycleInit /\ [][LifecycleNext]_lifecycleVars

-----------------------------------------------------------------------------
(* Properties *)

\* Types.
LifecycleTypeOK ==
  /\ phase \in [Hosts -> {"down", "starting", "up"}]
  /\ installed \subseteq Plugins \ BuiltIn /\ announcing \subseteq installed
  /\ broadcasts \subseteq Kinds \X Plugins \X Up
  /\ hookJobs \subseteq HookWorkers \X Plugins

\* core/auth-backend/src/index.ts:779, "This syncs new access rules when other plugins
\* register them dynamically": once all has settled the rule of a plugin that an
\* instance runs is in the database and administrators have it, although each instance
\* follows the broadcasts at its own time, and crashes, failed jobs and starting
\* instances come in between; only requests about plugins that overlap, an instance
\* that starts meanwhile or a job that is given up may leave it out.
RunningPluginsHaveRules ==
  LifecycleAtRest /\ ~excused =>
    \A i \in Up : \A p \in loaded[i] : p \in known /\ <<"admin", p>> \in granted
=============================================================================
