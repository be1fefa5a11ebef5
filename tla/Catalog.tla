------------------------------ MODULE Catalog ------------------------------
(***************************************************************************)
(* core/catalog-backend (router.ts, index.ts, services/entity-service.ts)  *)
(* with the notification groups that core/notification-backend keeps for   *)
(* it (router.ts, service.ts, index.ts). A system or group of the catalog  *)
(* is a row of the catalog and a notification group behind an RPC; other   *)
(* plugins hear of a deleted system by a hook. Every statement and RPC is  *)
(* a step; any of them may fail, and an instance may crash between two.    *)
(***************************************************************************)
EXTENDS FiniteSets

CONSTANTS
  Systems, Groups,  \* ids, each used once: they are UUIDs
  Editors,          \* users and administrators, each with one request at a time
  Servers,          \* instances of the backend
  Cleaners          \* worker groups subscribed to systemDeleted

ASSUME DisjointIds == Systems \cap Groups = {}

VARIABLES
  entities,       \* rows of systems and groups
  members,        \* rows of systems_groups
  contacts,       \* user contacts in system_contacts
  notifGroups,    \* rows of notification_groups, by entity
  subscriptions,  \* rows of notification_subscriptions
  editing,        \* each editor's request: where it is and on what entity
  bootstrapping,  \* each instance's bootstrapNotificationGroups
  cleanups,       \* jobs of the systemDeleted hook still to be run
  mayDiffer       \* history: entities a failure, crash or overlap has touched

rows == <<entities, members, contacts>>
groupRows == <<notifGroups, subscriptions>>
catalogVars == <<entities, members, contacts, notifGroups, subscriptions, editing, bootstrapping,
                 cleanups, mayDiffer>>

Entities == Systems \cup Groups
Idle == [pc |-> "idle", on |-> "none"]

\* A database may hold systems and groups when the instances start.
CatalogInit ==
  /\ entities \in [Entities -> {"unborn", "present"}]
  /\ members = {} /\ contacts = {}
  /\ notifGroups = {e \in Entities : entities[e] = "present"} /\ subscriptions = {}
  /\ editing = [k \in Editors |-> Idle]
  /\ bootstrapping = [i \in Servers |-> [pc |-> "off", todo |-> {}]]
  /\ cleanups = {} /\ mayDiffer = {}

\* Definitions named ...Mutant are plausible bugs, used only to show that the
\* properties below can fail.

Present(e) == entities[e] = "present"
Goes(k, pc, e) == editing' = [editing EXCEPT ![k] = IF pc = "idle" THEN Idle ELSE [pc |-> pc, on |-> e]]
At(k, pc) == editing[k].pc = pc

\* Someone read the row of e and is yet to make its notification group.
GroupUnderWay(e) ==
  \/ \E i \in Servers : e \in bootstrapping[i].todo
  \/ \E k \in Editors : At(k, "createGroup") /\ editing[k].on = e

-----------------------------------------------------------------------------
(* Requests *)

\* createSystem, createGroup: the row, then the notification group.
CreateEntity(k, e) ==
  /\ At(k, "idle") /\ entities[e] = "unborn"
  /\ entities' = [entities EXCEPT ![e] = "present"]
  /\ Goes(k, "createGroup", e)
  /\ UNCHANGED <<members, contacts, groupRows, bootstrapping, cleanups, mayDiffer>>

\* A failure is logged and forgotten.
CreateNotificationGroup(k) ==
  /\ At(k, "createGroup")
  /\ \/ notifGroups' = notifGroups \cup {editing[k].on} /\ UNCHANGED mayDiffer
     \/ mayDiffer' = mayDiffer \cup {editing[k].on} /\ UNCHANGED notifGroups
  /\ Goes(k, "idle", editing[k].on)
  /\ UNCHANGED <<rows, subscriptions, bootstrapping, cleanups>>

\* deleteSystem, deleteGroup: the row with what refers to it. A second request for
\* the same id goes the same way.
DeleteEntity(k, e) ==
  /\ At(k, "idle") /\ entities[e] # "unborn"
  /\ entities' = [entities EXCEPT ![e] = "deleted"]
  /\ members' = {m \in members : m[1] # e /\ m[2] # e}
  /\ contacts' = {c \in contacts : c[1] # e}
  /\ Goes(k, "deleteGroup", e)
  /\ mayDiffer' = IF GroupUnderWay(e) THEN mayDiffer \cup {e} ELSE mayDiffer
  /\ UNCHANGED <<groupRows, bootstrapping, cleanups>>

DeleteNotificationGroupMutant(k) ==
  LET e == editing[k].on IN
  /\ At(k, "deleteGroup")
  /\ \/ /\ notifGroups' = notifGroups \ ({e} \cap Systems)
        /\ subscriptions' = {s \in subscriptions : s[2] \in notifGroups'}
        /\ UNCHANGED mayDiffer
     \/ mayDiffer' = mayDiffer \cup {e} /\ UNCHANGED groupRows
  /\ Goes(k, "emit", e)
  /\ UNCHANGED <<rows, bootstrapping, cleanups>>

\* The notification group and its subscriptions; a failure is logged and forgotten.
DeleteNotificationGroup(k) ==
  LET e == editing[k].on IN
  /\ At(k, "deleteGroup")
  /\ \/ /\ notifGroups' = notifGroups \ {e}
        /\ subscriptions' = {s \in subscriptions : s[2] # e}
        /\ UNCHANGED mayDiffer
     \/ mayDiffer' = mayDiffer \cup {e} /\ UNCHANGED groupRows
  /\ Goes(k, "emit", e)
  /\ UNCHANGED <<rows, bootstrapping, cleanups>>

\* The hook: one job for each worker group. Nothing subscribes to groupDeleted.
EmitDeleted(k) ==
  LET e == editing[k].on IN
  /\ At(k, "emit")
  /\ \/ /\ cleanups' = IF e \in Systems THEN cleanups \cup (Cleaners \X {e}) ELSE cleanups
        /\ UNCHANGED mayDiffer
     \/ mayDiffer' = mayDiffer \cup {e} /\ UNCHANGED cleanups
  /\ Goes(k, "idle", e)
  /\ UNCHANGED <<rows, groupRows, bootstrapping>>

\* The instance that serves a request crashes.
RequestLost(k) ==
  /\ editing[k].pc \in {"createGroup", "deleteGroup", "emit"}
  /\ mayDiffer' = mayDiffer \cup {editing[k].on}
  /\ Goes(k, "idle", editing[k].on)
  /\ UNCHANGED <<rows, groupRows, bootstrapping, cleanups>>

\* addSystemToGroup and removeSystemFromGroup; foreign keys ask for both rows.
EditMembers(s, g) ==
  /\ Present(s) /\ Present(g)
  /\ members' \in {members \cup {<<s, g>>}, members \ {<<s, g>>}}
  /\ UNCHANGED <<entities, contacts, groupRows, editing, bootstrapping, cleanups, mayDiffer>>

\* addSystemContact and removeSystemContact for user k.
EditContacts(s, k) ==
  /\ Present(s)
  /\ contacts' \in {contacts \cup {<<s, k>>}, contacts \ {<<s, k>>}}
  /\ UNCHANGED <<entities, members, groupRows, editing, bootstrapping, cleanups, mayDiffer>>

\* subscribe: the group is looked up, then the row inserted, which fails when the
\* group has gone.
Subscribe(k, e) ==
  /\ At(k, "idle") /\ e \in notifGroups
  /\ Goes(k, "subscribe", e)
  /\ UNCHANGED <<rows, groupRows, bootstrapping, cleanups, mayDiffer>>

InsertSubscription(k) ==
  /\ At(k, "subscribe")
  /\ subscriptions' = IF editing[k].on \in notifGroups THEN subscriptions \cup {<<k, editing[k].on>>}
                      ELSE subscriptions
  /\ Goes(k, "idle", editing[k].on)
  /\ UNCHANGED <<rows, notifGroups, bootstrapping, cleanups, mayDiffer>>

Unsubscribe(k, e) ==
  /\ At(k, "idle") /\ <<k, e>> \in subscriptions
  /\ subscriptions' = subscriptions \ {<<k, e>>}
  /\ UNCHANGED <<rows, notifGroups, editing, bootstrapping, cleanups, mayDiffer>>

\* The handlers of userDeleted, here and in the notifications, each in a job of its own.
DeleteContactsOf(k) ==
  /\ contacts' = {c \in contacts : c[2] # k}
  /\ UNCHANGED <<entities, members, groupRows, editing, bootstrapping, cleanups, mayDiffer>>

DeleteSubscriptionsOf(k) ==
  /\ subscriptions' = {s \in subscriptions : s[1] # k}
  /\ UNCHANGED <<rows, notifGroups, editing, bootstrapping, cleanups, mayDiffer>>

-----------------------------------------------------------------------------
(* bootstrapNotificationGroups *)

BootReadSystems(i) ==
  /\ bootstrapping[i].pc = "off"
  /\ bootstrapping' = [bootstrapping EXCEPT ![i] =
       [pc |-> "readGroups", todo |-> {s \in Systems : Present(s)}]]
  /\ UNCHANGED <<rows, groupRows, editing, cleanups, mayDiffer>>

BootReadGroups(i) ==
  /\ bootstrapping[i].pc = "readGroups"
  /\ bootstrapping' = [bootstrapping EXCEPT ![i].pc = "create", ![i].todo = @ \cup {g \in Groups : Present(g)}]
  /\ UNCHANGED <<rows, groupRows, editing, cleanups, mayDiffer>>

BootCreateGroup(i) ==
  /\ bootstrapping[i].pc = "create"
  /\ \E e \in bootstrapping[i].todo :
       /\ notifGroups' = notifGroups \cup {e}
       /\ bootstrapping' = [bootstrapping EXCEPT ![i].todo = @ \ {e}]
  /\ UNCHANGED <<rows, subscriptions, editing, cleanups, mayDiffer>>

\* All are made, or a failure has ended the loop.
BootstrapEnds(i) ==
  /\ bootstrapping[i].pc \in {"readGroups", "create"}
  /\ bootstrapping' = [bootstrapping EXCEPT ![i] = [pc |-> "up", todo |-> {}]]
  /\ UNCHANGED <<rows, groupRows, editing, cleanups, mayDiffer>>

-----------------------------------------------------------------------------
(* Properties *)

CatalogAtRest ==
  /\ \A k \in Editors : At(k, "idle")
  /\ \A i \in Servers : bootstrapping[i].pc \in {"off", "up"}

\* Types, and what the foreign keys see to.
CatalogTypeOK ==
  /\ entities \in [Entities -> {"unborn", "present", "deleted"}]
  /\ members \subseteq {s \in Systems : Present(s)} \X {g \in Groups : Present(g)}
  /\ contacts \subseteq {s \in Systems : Present(s)} \X Editors
  /\ notifGroups \subseteq Entities /\ subscriptions \subseteq Editors \X notifGroups
  /\ editing \in [Editors -> [pc : {"idle", "createGroup", "deleteGroup", "emit", "subscribe"},
                              on : Entities \cup {"none"}]]
  /\ bootstrapping \in [Servers -> [pc : {"off", "readGroups", "create", "up"}, todo : SUBSET Entities]]
  /\ cleanups \subseteq Cleaners \X Systems /\ mayDiffer \subseteq Entities

\* core/catalog-backend/src/index.ts:119: what can be subscribed to is what the
\* catalog holds, although rows and groups are changed one after the other by
\* requests and instances that start; only a step that failed, or a deletion that
\* overlapped the making of the group, leaves the two apart.
GroupsMatchEntities ==
  CatalogAtRest => \A e \in Entities \ mayDiffer : e \in notifGroups <=> Present(e)
=============================================================================
