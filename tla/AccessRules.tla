---------------------------- MODULE AccessRules ----------------------------
(***************************************************************************)
(* Which access rules exist and which role has them: the tables of         *)
(* core/auth-backend, which a starting instance brings into line with the  *)
(* plugins it has loaded (index.ts) while administrators edit roles        *)
(* (router.ts). A plugin stands here for its access rule: the rules of a   *)
(* plugin go through the same steps one after the other. Statements may    *)
(* fail, and foreign keys tie every grant and every "disabled" row to its  *)
(* rule.                                                                   *)
(***************************************************************************)
EXTENDS FiniteSets

CONSTANTS
  Plugins,
  BuiltIn,          \* those in every instance's own workspace
  IsDefault, IsPublic, \* those whose rule all users, or everyone, get by default
  CustomRoles,      \* ids for roles that administrators create
  Hosts,            \* instances of the backend
  Administrators    \* each with one request at a time

\* The ids of created roles are random UUIDs (router.ts:254).
ASSUME AccessAssumption ==
  BuiltIn \subseteq Plugins /\ CustomRoles \cap {"admin", "users", "anonymous"} = {}

VARIABLES
  loaded,      \* registeredAccessRules of each instance
  known,       \* rows of access_rule
  granted,     \* rows of role_access_rule
  disabled,    \* rows of disabled_default_access_rule and its public counterpart
  roles,       \* rows of role that are not system roles
  syncing,     \* each syncer's progress: instances that start, and workers of two hooks
  editingRole, \* each administrator's updateRole
  removed      \* history: defaults that an administrator took from their role

ruleTables == <<known, granted, disabled, roles>>
accessVars == <<loaded, ruleTables, syncing, editingRole, removed>>

Defaults == [users |-> IsDefault, anonymous |-> IsPublic]
Roles == {"admin", "users", "anonymous"} \cup CustomRoles

\* syncAccessRulesToDb of one plugin's rules, and the clean-up of another's.
HookWorkers == {"sync", "cleanup"}
Syncers == Hosts \cup HookWorkers
NotSyncing == [pc |-> "off", rules |-> {}, todo |-> {}, role |-> "none", off |-> {}]
NoEdit == [pc |-> "idle", role |-> "none", rules |-> {}, remove |-> {}, add |-> {}, alone |-> TRUE]

\* Instances that run may have brought the tables into line with the plugins built in.
AccessInit(running) ==
  /\ loaded = [i \in Hosts |-> IF i \in running THEN BuiltIn ELSE {}]
  /\ known = IF running = {} THEN {} ELSE BuiltIn
  /\ granted = ({"admin"} \X known) \cup {g \in (DOMAIN Defaults) \X known : g[2] \in Defaults[g[1]]}
  /\ disabled = {} /\ roles = {} /\ removed = {}
  /\ syncing = [s \in Syncers |-> NotSyncing]
  /\ editingRole = [a \in Administrators |-> NoEdit]

\* Definitions named ...Mutant are plausible bugs, used only to show that the
\* properties below can fail.

At(s, pc) == syncing[s].pc = pc
Left(s) == syncing[s].todo
Held(p) == {g \in granted : g[2] = p}

-----------------------------------------------------------------------------
(* syncAccessRulesToDb *)

\* The rule is looked for and inserted when it is not there.
RecordRule(s) ==
  /\ At(s, "record")
  /\ \E p \in Left(s) : /\ known' = known \cup {p}
                        /\ syncing' = [syncing EXCEPT ![s].todo = @ \ {p}]
  /\ UNCHANGED <<loaded, granted, disabled, roles, editingRole, removed>>

ReadAdmin(s) ==
  /\ At(s, "record") /\ Left(s) = {}
  /\ syncing' = [syncing EXCEPT ![s].pc = "grantAdmin",
                                ![s].todo = {p \in syncing[s].rules : <<"admin", p>> \notin granted}]
  /\ UNCHANGED <<loaded, ruleTables, editingRole, removed>>

GrantAdmin(s) ==
  /\ At(s, "grantAdmin")
  /\ \E p \in Left(s) \cap known : /\ granted' = granted \cup {<<"admin", p>>}
                                   /\ syncing' = [syncing EXCEPT ![s].todo = @ \ {p}]
  /\ UNCHANGED <<loaded, known, disabled, roles, editingRole, removed>>

FindOrphansMutant(s) ==
  /\ At(s, "grantAdmin") /\ Left(s) = {}
  /\ syncing' = [syncing EXCEPT ![s].pc = "unmap", ![s].todo = known \ syncing[s].rules]
  /\ UNCHANGED <<loaded, ruleTables, editingRole, removed>>

\* Only a starting instance goes on (fullSync).
FindOrphans(s) ==
  /\ s \in Hosts /\ At(s, "grantAdmin") /\ Left(s) = {}
  /\ syncing' = [syncing EXCEPT ![s].pc = "unmap", ![s].todo = known \ syncing[s].rules]
  /\ UNCHANGED <<loaded, ruleTables, editingRole, removed>>

\* The grants of a rule go, then the rule, which fails as long as something refers
\* to it: a row that keeps it disabled, too.
UnmapOrphan(s) ==
  /\ At(s, "unmap")
  /\ \E p \in Left(s) : /\ granted' = granted \ Held(p)
                        /\ syncing' = [syncing EXCEPT ![s].pc = "deleteRule", ![s].off = {p}]
  /\ UNCHANGED <<loaded, known, disabled, roles, editingRole, removed>>

DeleteRule(s) ==
  /\ At(s, "deleteRule")
  /\ \A p \in syncing[s].off : Held(p) = {} /\ \A r \in Roles : <<r, p>> \notin disabled
  /\ known' = known \ syncing[s].off
  /\ syncing' = [syncing EXCEPT ![s].pc = "unmap", ![s].todo = @ \ syncing[s].off, ![s].off = {}]
  /\ UNCHANGED <<loaded, granted, disabled, roles, editingRole, removed>>

ReadDisabledMutant(s) ==
  /\ s \in Hosts /\ Left(s) = {}
  /\ \E role \in DOMAIN Defaults :
       /\ \/ role = "users" /\ At(s, "unmap")
          \/ role = "anonymous" /\ At(s, "grantRole") /\ syncing[s].role = "users"
       /\ syncing' = [syncing EXCEPT ![s].pc = "readRole", ![s].role = role,
                                     ![s].off = {p \in Plugins : <<"users", p>> \in disabled}]
  /\ UNCHANGED <<loaded, ruleTables, editingRole, removed>>

\* The defaults of the role "users", then those of "anonymous".
ReadDisabled(s) ==
  /\ s \in Hosts /\ Left(s) = {}
  /\ \E role \in DOMAIN Defaults :
       /\ \/ role = "users" /\ At(s, "unmap")
          \/ role = "anonymous" /\ At(s, "grantRole") /\ syncing[s].role = "users"
       /\ syncing' = [syncing EXCEPT ![s].pc = "readRole", ![s].role = role,
                                     ![s].off = {p \in Plugins : <<role, p>> \in disabled}]
  /\ UNCHANGED <<loaded, ruleTables, editingRole, removed>>

ReadRole(s) ==
  LET role == syncing[s].role IN
  /\ At(s, "readRole")
  /\ syncing' = [syncing EXCEPT ![s].pc = "grantRole",
       ![s].todo = {p \in syncing[s].rules \cap Defaults[role] :
                      p \notin syncing[s].off /\ <<role, p>> \notin granted}]
  /\ UNCHANGED <<loaded, ruleTables, editingRole, removed>>

\* Without onConflictDoNothing.
GrantRole(s) ==
  /\ At(s, "grantRole")
  /\ \E p \in Left(s) \cap known :
       /\ <<syncing[s].role, p>> \notin granted
       /\ granted' = granted \cup {<<syncing[s].role, p>>}
       /\ syncing' = [syncing EXCEPT ![s].todo = @ \ {p}]
  /\ UNCHANGED <<loaded, known, disabled, roles, editingRole, removed>>

SyncStep(s) ==
  \/ RecordRule(s) \/ ReadAdmin(s) \/ GrantAdmin(s) \/ FindOrphans(s) \/ UnmapOrphan(s)
  \/ DeleteRule(s) \/ ReadDisabled(s) \/ ReadRole(s) \/ GrantRole(s)

SyncDone(s) ==
  /\ Left(s) = {}
  /\ CASE s \in Hosts   -> At(s, "grantRole") /\ syncing[s].role = "anonymous"
       [] s = "sync"    -> At(s, "grantAdmin")
       [] s = "cleanup" -> At(s, "unmap")

-----------------------------------------------------------------------------
(* The roles' requests, served at instance i *)

CreateRole(i, r, rules) ==
  /\ r \notin roles /\ rules \cap loaded[i] \subseteq known
  /\ roles' = roles \cup {r}
  /\ granted' = granted \cup ({r} \X (rules \cap loaded[i]))
  /\ UNCHANGED <<loaded, known, disabled, syncing, editingRole, removed>>

DeleteRole(r) ==
  /\ r \in roles
  /\ roles' = roles \ {r} /\ granted' = {g \in granted : g[1] # r}
  /\ UNCHANGED <<loaded, known, disabled, syncing, editingRole, removed>>

\* updateRole by someone who does not have the role. A default that is left out is
\* tracked as disabled, one that is in no longer is, and then the grants are replaced.
UpdateRole(a, i, r, rules) ==
  LET default == IF r \in DOMAIN Defaults THEN Defaults[r] \cap loaded[i] ELSE {}
      others  == {b \in Administrators : editingRole[b].role = r}
      edit    == [pc |-> "track", role |-> r, rules |-> rules \cap loaded[i],
                  remove |-> default \ rules, add |-> default \cap rules, alone |-> others = {}]
  IN
  /\ editingRole[a].pc = "idle" /\ r \in roles \cup DOMAIN Defaults
  /\ editingRole' = [b \in Administrators |->
       IF b = a THEN edit ELSE IF b \in others THEN [editingRole[b] EXCEPT !.alone = FALSE] ELSE editingRole[b]]
  /\ removed' = removed \ ({r} \X rules)
  /\ UNCHANGED <<loaded, ruleTables, syncing>>

TrackRemoved(a) ==
  /\ editingRole[a].pc = "track"
  /\ \E p \in editingRole[a].remove \cap known :
       /\ disabled' = disabled \cup {<<editingRole[a].role, p>>}
       /\ editingRole' = [editingRole EXCEPT ![a].remove = @ \ {p}]
  /\ UNCHANGED <<loaded, known, granted, roles, syncing, removed>>

TrackAdded(a) ==
  /\ editingRole[a].pc = "track" /\ editingRole[a].remove = {}
  /\ \E p \in editingRole[a].add :
       /\ disabled' = disabled \ {<<editingRole[a].role, p>>}
       /\ editingRole' = [editingRole EXCEPT ![a].add = @ \ {p}]
  /\ UNCHANGED <<loaded, known, granted, roles, syncing, removed>>

\* A starting instance has read that p is not disabled for role r and may grant it.
AboutToGrant(r, p) ==
  \E i \in Hosts : /\ syncing[i].pc \in {"readRole", "grantRole"}
                   /\ syncing[i].role = r /\ p \notin syncing[i].off

\* The transaction. What is disabled and left out counts as removed.
ReplaceGrants(a) ==
  LET r == editingRole[a].role
      rules == editingRole[a].rules
  IN
  /\ editingRole[a].pc = "track" /\ editingRole[a].remove = {} /\ editingRole[a].add = {}
  /\ rules \subseteq known /\ r \in roles \cup DOMAIN Defaults
  /\ granted' = {g \in granted : g[1] # r} \cup ({r} \X rules)
  /\ removed' = IF editingRole[a].alone
                THEN removed \cup {d \in disabled : d[1] = r /\ d[2] \notin rules /\ ~AboutToGrant(r, d[2])}
                ELSE {d \in removed : d[1] # r}
  /\ editingRole' = [editingRole EXCEPT ![a] = NoEdit]
  /\ UNCHANGED <<loaded, known, disabled, roles, syncing>>

EditFails(a) ==
  /\ editingRole[a].pc = "track"
  /\ editingRole' = [editingRole EXCEPT ![a] = NoEdit]
  /\ UNCHANGED <<loaded, ruleTables, syncing, removed>>

EditStep(a) == TrackRemoved(a) \/ TrackAdded(a) \/ ReplaceGrants(a)

-----------------------------------------------------------------------------
(* Properties *)

\* Types, and what the foreign keys see to.
AccessTypeOK ==
  /\ loaded \in [Hosts -> SUBSET Plugins] /\ known \subseteq Plugins
  /\ granted \subseteq ((Roles \ CustomRoles) \cup roles) \X known
  /\ disabled \subseteq (DOMAIN Defaults) \X known /\ removed \subseteq disabled
  /\ roles \subseteq CustomRoles

\* core/auth-backend/src/index.ts:164, "Respects admin-disabled defaults": what an
\* administrator took from a role stays taken, however many instances start, fail and
\* start again, whichever plugins come and go, until an administrator gives it back.
\* Only an edit that overlaps another of the role, or an instance that starts, may be lost.
RemovalsStick == removed \cap granted = {}
=============================================================================
