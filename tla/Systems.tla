------------------------------ MODULE Systems ------------------------------
(***************************************************************************)
(* The catalog with two of the plugins that keep data about its systems:   *)
(* health checks (HealthCheckScheduling) and incidents (Incidents). They   *)
(* meet in the systemDeleted hook, whose jobs the event bus gives to each  *)
(* worker group (EventBus), and in the ids of systems, which neither       *)
(* plugin asks the catalog about.                                          *)
(***************************************************************************)
EXTENDS Catalog, HealthCheckScheduling, Incidents

CONSTANTS
  MaxRequests, \* bound: requests, for each part
  Parts,       \* of whose requests a behaviour may consist, besides deletions of systems
  MaxCrashes   \* bound: crashes

\* The systems of the plugins are the catalog's, and both plugins subscribe to
\* systemDeleted (healthcheck-backend/src/index.ts, incident-backend/src/index.ts).
ASSUME PluginAssumption ==
  CheckedSystems \cup LinkedSystems \subseteq Systems /\ {"healthcheck", "incident"} \subseteq Cleaners

VARIABLES
  part,        \* which of them
  requests, crashes,
  addedLate  \* history: systems that got data after their deletion began, or whose hook was lost

systemsVars == <<catalogVars, schedulingVars, incidentVars, part, requests, crashes, addedLate>>

SystemsInit ==
  /\ CatalogInit /\ SchedulingInit /\ IncidentsInit
  /\ part \in Parts /\ requests = 0 /\ crashes = 0 /\ addedLate = {}
  /\ part # "healthcheck" => \A c \in Configs : configs[c] = "unborn"
  /\ part # "incident" => links = {} /\ \A n \in AllIncidents : status[n] = "unborn"

Late(s) == IF entities[s] = "deleted" THEN addedLate \cup {s} ELSE addedLate
Keep == addedLate' = addedLate

\* Requests that begin. The plugins do not meet but in the catalog, so that a part at
\* a time is enough.
CatalogRequest ==
  \/ \E k \in Editors, s \in Systems : DeleteEntity(k, s)
  \/ /\ part = "catalog"
     /\ \/ \E k \in Editors, e \in Entities : CreateEntity(k, e) \/ Subscribe(k, e) \/ Unsubscribe(k, e)
        \/ \E k \in Editors, g \in Groups : DeleteEntity(k, g)
        \/ \E s \in Systems, g \in Groups : EditMembers(s, g)
        \/ \E s \in Systems, k \in Editors : EditContacts(s, k)
        \/ \E k \in Editors : DeleteContactsOf(k) \/ DeleteSubscriptionsOf(k)

SchedulingRequest ==
  \/ \E c \in Configs : (CreateConfiguration(c) \/ DeleteConfiguration(c)) /\ Keep
  \/ \E who \in Schedulers, i \in Instances, k \in Checks, enabled \in BOOLEAN :
       /\ entities[k[1]] # "unborn"
       /\ AssociateSystem(who, i, k, enabled) /\ addedLate' = Late(k[1])
  \/ \E k \in Checks : DisassociateSystem(k) /\ Keep

IncidentRequest ==
  \/ \E k \in Reporters, n \in AllIncidents, suppress, message \in BOOLEAN,
        systems \in SUBSET {s \in LinkedSystems : entities[s] # "unborn"} :
       CreateIncident(k, n, systems, suppress, message)
  \/ \E k \in Reporters, n \in AllIncidents :
       \/ \E suppress \in BOOLEAN : UpdateIncident(k, n, suppress)
       \/ \E to \in Statuses : AddUpdate(k, n, to)
       \/ ResolveIncident(k, n)
       \/ DeleteIncident(n)
  \/ \E s \in LinkedSystems : ReadLinks(s)

RequestBegins ==
  /\ requests < MaxRequests[part] /\ requests' = requests + 1 /\ UNCHANGED <<part, crashes>>
  /\ \/ CatalogRequest /\ Keep /\ UNCHANGED <<schedulingVars, incidentVars>>
     \/ part = "healthcheck" /\ SchedulingRequest /\ UNCHANGED <<catalogVars, incidentVars>>
     \/ part = "incident" /\ IncidentRequest /\ Keep /\ UNCHANGED <<catalogVars, schedulingVars>>

RequestProceeds ==
  /\ UNCHANGED <<part, requests, crashes>>
  /\ \/ /\ \E k \in Editors : CreateNotificationGroup(k) \/ DeleteNotificationGroup(k)
                              \/ EmitDeleted(k) \/ InsertSubscription(k)
        /\ Keep /\ UNCHANGED <<schedulingVars, incidentVars>>
     \/ /\ \E who \in Schedulers : ReadConfig(who) \/ ScheduleHealthCheck(who) \/ SchedulingFails(who)
        /\ Keep /\ UNCHANGED <<catalogVars, incidentVars>>
     \/ /\ \E k \in Reporters :
             \/ Unlink(k) \/ Linked(k) \/ SetStatus(k) \/ LogUpdate(k)
             \/ Link(k)
        /\ addedLate' = addedLate \cup {s \in Systems : entities[s] = "deleted" /\ \E l \in links' \ links : l[2] = s}
        /\ UNCHANGED <<catalogVars, schedulingVars>>
     \/ ReadIncidents /\ Keep /\ UNCHANGED <<catalogVars, schedulingVars>>

InstanceStarts ==
  /\ UNCHANGED <<part, requests, crashes, addedLate>>
  /\ \/ /\ part = "catalog"
        /\ \E i \in Servers : BootReadSystems(i) \/ BootReadGroups(i) \/ BootCreateGroup(i) \/ BootstrapEnds(i)
        /\ UNCHANGED <<schedulingVars, incidentVars>>
     \/ /\ part = "healthcheck"
        /\ \E i \in Instances : StartReadEnabled(i) \/ StartSchedule(i) \/ StartListOrphans(i)
                                \/ StartCancel(i) \/ StartEnds(i)
        /\ UNCHANGED <<catalogVars, incidentVars>>

CleanupDone(job) ==
  /\ cleanups' = cleanups \ {job}
  /\ UNCHANGED <<entities, members, contacts, notifGroups, subscriptions, editing, bootstrapping, mayDiffer>>

\* Its retries are used up, or it was in the memory of a crashed instance.
CleanupLost(job) ==
  /\ CleanupDone(job) /\ addedLate' = addedLate \cup {job[2]}
  /\ UNCHANGED <<schedulingVars, incidentVars>>

Fault ==
  /\ crashes < MaxCrashes /\ crashes' = crashes + 1 /\ UNCHANGED <<part, requests>>
  /\ \/ \E k \in Editors : /\ RequestLost(k) /\ addedLate' = Late(editing[k].on)
                           /\ UNCHANGED <<schedulingVars, incidentVars>>
     \/ part = "healthcheck" /\ \E i \in Instances : Crash(i) /\ Keep /\ UNCHANGED <<catalogVars, incidentVars>>
     \/ \E k \in Reporters : ReportLost(k) /\ Keep /\ UNCHANGED <<catalogVars, schedulingVars>>
     \/ \E job \in cleanups : CleanupLost(job)

\* The handlers of systemDeleted, one job for each worker group.
HealthCheckCleanup(s) ==
  /\ <<"healthcheck", s>> \in cleanups
  /\ RemoveAllSystemAssociations(s)
  /\ CleanupDone(<<"healthcheck", s>>)
  /\ UNCHANGED incidentVars

IncidentCleanup(s) ==
  /\ <<"incident", s>> \in cleanups
  /\ RemoveSystemAssociations(s)
  /\ CleanupDone(<<"incident", s>>)
  /\ UNCHANGED schedulingVars

Cleanup == /\ \E s \in Systems : HealthCheckCleanup(s) \/ IncidentCleanup(s)
           /\ UNCHANGED <<part, requests, crashes, addedLate>>

SystemsNext == RequestBegins \/ RequestProceeds \/ InstanceStarts \/ Cleanup \/ Fault

SystemsSpec == SystemsInit /\ [][SystemsNext]_systemsVars

-----------------------------------------------------------------------------
(* Properties *)

\* core/healthcheck-backend/src/service.ts:239 and core/incident-backend/src/service.ts:327,
\* "Called when a system is deleted from the catalog": once the hook's jobs have run
\* the plugins hold nothing of a deleted system, whatever requests and starting
\* instances came in between, unless a request used its id after the deletion, or
\* the deletion or its hook broke off.
DeletedSystemsForgotten ==
  CatalogAtRest /\ cleanups = {} =>
    \A s \in {t \in Systems : entities[t] = "deleted"} \ (addedLate \cup mayDiffer) :
      /\ \A k \in Checks : k[1] = s => associations[k] = "none"
      /\ \A l \in links : l[2] # s
=============================================================================
