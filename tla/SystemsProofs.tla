--------------------------- MODULE SystemsProofs ---------------------------
(***************************************************************************)
(* Theorems about Systems, for any systems, checks, incidents, requests    *)
(* and crashes, and about MaintenanceWindows. In Systems each component's  *)
(* steps come between the steps of the others and change only its own      *)
(* variables, so that what concerns one component is proved of its steps   *)
(* (CatalogStep, SchedulingStep, IncidentStep) alone.                      *)
(***************************************************************************)
EXTENDS Systems, MaintenanceWindows, TLAPS

-----------------------------------------------------------------------------
(* The steps of each component *)

\* The steps of the catalog that Systems takes.
EntityStep ==
  \/ \E k \in Editors, e \in Entities : CreateEntity(k, e) \/ DeleteEntity(k, e)
  \/ \E k \in Editors : CreateNotificationGroup(k) \/ DeleteNotificationGroup(k)
                        \/ EmitDeleted(k) \/ RequestLost(k)
  \/ \E i \in Servers : BootReadSystems(i) \/ BootReadGroups(i) \/ BootCreateGroup(i)
                        \/ BootstrapEnds(i)
  \/ \E job \in cleanups : CleanupDone(job)

SubscriptionStep ==
  \E k \in Editors :
    \/ \E e \in Entities : Subscribe(k, e) \/ Unsubscribe(k, e)
    \/ InsertSubscription(k) \/ DeleteContactsOf(k) \/ DeleteSubscriptionsOf(k)
    \/ \E s \in Systems : EditContacts(s, k)

MemberStep == \E s \in Systems, g \in Groups : EditMembers(s, g)

CatalogStep == EntityStep \/ SubscriptionStep \/ MemberStep

AssociationStep ==
  \/ \E c \in Configs : CreateConfiguration(c) \/ DeleteConfiguration(c)
  \/ \E who \in Schedulers, i \in Instances, k \in Checks, enabled \in BOOLEAN :
       AssociateSystem(who, i, k, enabled)
  \/ \E k \in Checks : DisassociateSystem(k)
  \/ \E s \in Systems : RemoveAllSystemAssociations(s)
  \/ \E who \in Schedulers : ReadConfig(who) \/ ScheduleHealthCheck(who) \/ SchedulingFails(who)

StartStep ==
  \E i \in Instances : StartReadEnabled(i) \/ StartSchedule(i) \/ StartListOrphans(i)
                       \/ StartCancel(i) \/ StartEnds(i) \/ Crash(i)

SchedulingStep == AssociationStep \/ StartStep

\* Steps of users and of the hook, each watched by a question under way.
ReportStep ==
  \/ \E k \in Reporters, n \in AllIncidents, systems \in SUBSET LinkedSystems,
        suppress, message \in BOOLEAN : CreateIncident(k, n, systems, suppress, message)
  \/ \E k \in Reporters, n \in AllIncidents :
       \/ \E suppress \in BOOLEAN : UpdateIncident(k, n, suppress)
       \/ \E to \in Statuses : AddUpdate(k, n, to)
       \/ ResolveIncident(k, n)
       \/ DeleteIncident(n)
  \/ \E k \in Reporters : Unlink(k) \/ Link(k) \/ Linked(k) \/ SetStatus(k) \/ LogUpdate(k)
                          \/ ReportLost(k)
  \/ \E s \in Systems : RemoveSystemAssociations(s)

QuestionStep == (\E s \in LinkedSystems : ReadLinks(s)) \/ ReadIncidents

IncidentStep == ReportStep \/ QuestionStep

LEMMA CatalogSteps ==
  ASSUME SystemsNext
  PROVE  CatalogStep \/ UNCHANGED catalogVars
<1>1. CASE RequestBegins
  <2>1. CASE CatalogRequest
    BY <2>1 DEF CatalogRequest, CatalogStep, EntityStep, SubscriptionStep, MemberStep, Entities
  <2> QED
    BY <1>1, <2>1 DEF RequestBegins
<1>2. CASE RequestProceeds
  BY <1>2 DEF RequestProceeds, CatalogStep, EntityStep, SubscriptionStep
<1>3. CASE InstanceStarts
  BY <1>3 DEF InstanceStarts, CatalogStep, EntityStep
<1>4. CASE Cleanup
  BY <1>4 DEF Cleanup, HealthCheckCleanup, IncidentCleanup, CatalogStep, EntityStep
<1>5. CASE Fault
  BY <1>5 DEF Fault, CleanupLost, CatalogStep, EntityStep
<1> QED
  BY <1>1, <1>2, <1>3, <1>4, <1>5 DEF SystemsNext

LEMMA SchedulingSteps ==
  ASSUME SystemsNext
  PROVE  SchedulingStep \/ UNCHANGED schedulingVars
<1>1. CASE RequestBegins
  <2>1. CASE SchedulingRequest
    BY <2>1 DEF SchedulingRequest, SchedulingStep, AssociationStep
  <2> QED
    BY <1>1, <2>1 DEF RequestBegins
<1>2. CASE RequestProceeds
  BY <1>2 DEF RequestProceeds, SchedulingStep, AssociationStep
<1>3. CASE InstanceStarts
  BY <1>3 DEF InstanceStarts, SchedulingStep, StartStep
<1>4. CASE Cleanup
  BY <1>4 DEF Cleanup, HealthCheckCleanup, IncidentCleanup, SchedulingStep, AssociationStep
<1>5. CASE Fault
  BY <1>5 DEF Fault, CleanupLost, SchedulingStep, StartStep
<1> QED
  BY <1>1, <1>2, <1>3, <1>4, <1>5 DEF SystemsNext

LEMMA IncidentSteps ==
  ASSUME SystemsNext
  PROVE  IncidentStep \/ UNCHANGED incidentVars
<1>1. CASE RequestBegins
  <2>1. CASE IncidentRequest
    BY <2>1 DEF IncidentRequest, IncidentStep, ReportStep, QuestionStep
  <2> QED
    BY <1>1, <2>1 DEF RequestBegins
<1>2. CASE RequestProceeds
  BY <1>2 DEF RequestProceeds, IncidentStep, ReportStep, QuestionStep
<1>3. CASE InstanceStarts
  BY <1>3 DEF InstanceStarts
<1>4. CASE Cleanup
  BY <1>4 DEF Cleanup, HealthCheckCleanup, IncidentCleanup, IncidentStep, ReportStep
<1>5. CASE Fault
  BY <1>5 DEF Fault, CleanupLost, IncidentStep, ReportStep
<1> QED
  BY <1>1, <1>2, <1>3, <1>4, <1>5 DEF SystemsNext

-----------------------------------------------------------------------------
(* Catalog: notification groups and the rows they are for *)

EditPoints == {"idle", "createGroup", "deleteGroup", "emit", "subscribe"}
EditType == [pc : EditPoints, on : Entities \cup {"none"}]

CatalogTypes ==
  /\ entities \in [Entities -> {"unborn", "present", "deleted"}]
  /\ editing \in [Editors -> EditType]
  /\ \A k \in Editors : ~At(k, "idle") => editing[k].on \in Entities
  /\ bootstrapping \in [Servers -> [pc : {"off", "readGroups", "create", "up"}, todo : SUBSET Entities]]

\* k's request is past its row and has the notification group or the hook before it.
DeletionAhead(k, e) == editing[k].pc \in {"deleteGroup", "emit"} /\ editing[k].on = e
DeletionsFollowRows ==
  \A k \in Editors, e \in Entities : DeletionAhead(k, e) => entities[e] = "deleted"

\* Requests that make or delete e's group next, and instances that may make it.
Makes(k, e) == At(k, "createGroup") /\ editing[k].on = e
Drops(k, e) == At(k, "deleteGroup") /\ editing[k].on = e
Boots(e) == \E i \in Servers : e \in bootstrapping[i].todo

\* A group that is being made has its row; a row without group and a group without
\* row each have a request under way that sees to it.
GroupFollows(e) ==
  /\ Boots(e) \/ (\E k \in Editors : Makes(k, e)) => Present(e)
  /\ Present(e) /\ e \notin notifGroups => \E k \in Editors : Makes(k, e)
  /\ ~Present(e) /\ e \in notifGroups => \E k \in Editors : Drops(k, e)

GroupsInv ==
  /\ CatalogTypes
  /\ DeletionsFollowRows
  /\ \A e \in Entities \ mayDiffer : GroupFollows(e)

LEMMA EditorGoes ==
  ASSUME CatalogTypes, NEW k \in Editors, NEW pc \in EditPoints, NEW e \in Entities, Goes(k, pc, e)
  PROVE  /\ editing' \in [Editors -> EditType]
         /\ \A x \in Editors : x # k => editing'[x] = editing[x]
         /\ editing'[k].pc = pc
         /\ pc # "idle" => editing'[k].on = e
         /\ \A x \in Editors : editing'[x].pc # "idle" => editing'[x].on \in Entities
<1>1. PICK idle \in EditPoints : idle = "idle"
  BY DEF EditPoints
<1>2. PICK none \in Entities \cup {"none"} : none = "none"
  OBVIOUS
<1>3. Idle = [pc |-> idle, on |-> none]
  BY <1>1, <1>2 DEF Idle
<1>4. Idle \in EditType /\ Idle.pc = "idle"
  BY <1>1, <1>3 DEF EditType
<1> DEFINE new == IF pc = "idle" THEN Idle ELSE [pc |-> pc, on |-> e]
<1>5. new \in EditType /\ new.pc = pc /\ (pc # "idle" => new.on = e)
  BY <1>4 DEF EditType
<1>6. editing' = [editing EXCEPT ![k] = new]
  BY DEF Goes
<1> HIDE DEF new
<1> QED
  BY <1>5, <1>6 DEF CatalogTypes, At

LEMMA EntityStepKeeps ==
  ASSUME GroupsInv, NEW k \in Editors, NEW e \in Entities,
         CreateEntity(k, e) \/ DeleteEntity(k, e)
  PROVE  GroupsInv'
<1>1. CASE CreateEntity(k, e)
  <2>1. /\ editing' \in [Editors -> EditType]
        /\ \A x \in Editors : x # k => editing'[x] = editing[x]
        /\ editing'[k].pc = "createGroup" /\ editing'[k].on = e
        /\ \A x \in Editors : editing'[x].pc # "idle" => editing'[x].on \in Entities
    BY <1>1, EditorGoes DEF CreateEntity, GroupsInv, EditPoints
  <2>2. entities[e] = "unborn" /\ entities' = [entities EXCEPT ![e] = "present"] /\ At(k, "idle")
    BY <1>1 DEF CreateEntity
  <2>3. CatalogTypes'
    BY <1>1, <2>1, <2>2 DEF CreateEntity, GroupsInv, CatalogTypes, At
  <2>4. DeletionsFollowRows'
    BY <2>1, <2>2 DEF GroupsInv, CatalogTypes, DeletionsFollowRows, DeletionAhead, At
  <2>5. \A x \in Editors, d \in Entities : /\ Makes(x, d)' <=> Makes(x, d) \/ (x = k /\ d = e)
                                           /\ Drops(x, d)' <=> Drops(x, d)
    BY <2>1, <2>2 DEF Makes, Drops, At
  <2>6. /\ \A d \in Entities : Present(d)' <=> Present(d) \/ d = e
        /\ \A d \in Entities : Boots(d)' <=> Boots(d)
        /\ notifGroups' = notifGroups /\ mayDiffer' = mayDiffer
    BY <1>1, <2>2 DEF CreateEntity, groupRows, Present, Boots, GroupsInv, CatalogTypes
  <2>7. ASSUME NEW d \in Entities \ mayDiffer'
        PROVE  GroupFollows(d)'
    BY <2>5, <2>6 DEF GroupsInv, GroupFollows
  <2> QED
    BY <2>3, <2>4, <2>7 DEF GroupsInv
<1>2. CASE DeleteEntity(k, e)
  <2>1. /\ editing' \in [Editors -> EditType]
        /\ \A x \in Editors : x # k => editing'[x] = editing[x]
        /\ editing'[k].pc = "deleteGroup" /\ editing'[k].on = e
        /\ \A x \in Editors : editing'[x].pc # "idle" => editing'[x].on \in Entities
    BY <1>2, EditorGoes DEF DeleteEntity, GroupsInv, EditPoints
  <2>2. entities' = [entities EXCEPT ![e] = "deleted"] /\ At(k, "idle")
    BY <1>2 DEF DeleteEntity
  <2>3. CatalogTypes'
    BY <1>2, <2>1, <2>2 DEF DeleteEntity, groupRows, GroupsInv, CatalogTypes, At
  <2>4. DeletionsFollowRows'
    BY <2>1, <2>2 DEF GroupsInv, CatalogTypes, DeletionsFollowRows, DeletionAhead, At
  <2>5. \A x \in Editors, d \in Entities : /\ Drops(x, d)' <=> Drops(x, d) \/ (x = k /\ d = e)
                                           /\ Makes(x, d)' <=> Makes(x, d)
    BY <2>1, <2>2 DEF Makes, Drops, At
  <2>6. /\ \A d \in Entities : Present(d)' <=> Present(d) /\ d # e
        /\ \A d \in Entities : Boots(d)' <=> Boots(d)
        /\ notifGroups' = notifGroups /\ mayDiffer \subseteq mayDiffer'
    BY <1>2, <2>2 DEF DeleteEntity, groupRows, Present, Boots, GroupsInv, CatalogTypes
  <2>7. e \notin mayDiffer' => ~Boots(e) /\ ~ \E x \in Editors : Makes(x, e)
    BY <1>2 DEF DeleteEntity, GroupUnderWay, Boots, Makes
  <2>8. ASSUME NEW d \in Entities \ mayDiffer'
        PROVE  GroupFollows(d)'
    BY <2>5, <2>6, <2>7 DEF GroupsInv, GroupFollows
  <2> QED
    BY <2>3, <2>4, <2>8 DEF GroupsInv
<1> QED
  BY <1>1, <1>2

\* A step that moves k's request from one point to another and leaves the rows.
LEMMA RequestMoves ==
  ASSUME GroupsInv, NEW k \in Editors, NEW pc \in EditPoints, NEW e \in Entities, Goes(k, pc, e),
         pc \in {"deleteGroup", "emit"} => entities[e] = "deleted",
         UNCHANGED <<entities, bootstrapping>>
  PROVE  /\ CatalogTypes' /\ DeletionsFollowRows'
         /\ \A d \in Entities : (Present(d)' <=> Present(d)) /\ (Boots(d)' <=> Boots(d))
         /\ \A x \in Editors, d \in Entities :
              x # k => (Makes(x, d)' <=> Makes(x, d)) /\ (Drops(x, d)' <=> Drops(x, d))
         /\ \A d \in Entities : /\ Makes(k, d)' <=> pc = "createGroup" /\ d = e
                                /\ Drops(k, d)' <=> pc = "deleteGroup" /\ d = e
<1>1. /\ editing' \in [Editors -> EditType]
      /\ \A x \in Editors : x # k => editing'[x] = editing[x]
      /\ editing'[k].pc = pc
      /\ pc # "idle" => editing'[k].on = e
      /\ \A x \in Editors : editing'[x].pc # "idle" => editing'[x].on \in Entities
  BY EditorGoes DEF GroupsInv
<1>2. CatalogTypes'
  BY <1>1 DEF GroupsInv, CatalogTypes, At
<1>3. DeletionsFollowRows'
  BY <1>1 DEF GroupsInv, DeletionsFollowRows, DeletionAhead
<1>4. \A d \in Entities : (Present(d)' <=> Present(d)) /\ (Boots(d)' <=> Boots(d))
  BY DEF Present, Boots
<1>5. \A x \in Editors, d \in Entities :
        x # k => (Makes(x, d)' <=> Makes(x, d)) /\ (Drops(x, d)' <=> Drops(x, d))
  BY <1>1 DEF Makes, Drops, At
<1>6. \A d \in Entities : /\ Makes(k, d)' <=> pc = "createGroup" /\ d = e
                          /\ Drops(k, d)' <=> pc = "deleteGroup" /\ d = e
  BY <1>1 DEF Makes, Drops, At
<1> QED
  BY <1>2, <1>3, <1>4, <1>5, <1>6

LEMMA RequestStepKeeps ==
  ASSUME GroupsInv, NEW k \in Editors,
         CreateNotificationGroup(k) \/ DeleteNotificationGroup(k) \/ EmitDeleted(k) \/ RequestLost(k)
  PROVE  GroupsInv'
<1> DEFINE e == editing[k].on
<1>1. e \in Entities /\ editing[k].pc \in EditPoints /\ editing[k].pc # "idle"
  BY DEF CreateNotificationGroup, DeleteNotificationGroup, EmitDeleted, RequestLost, At, GroupsInv,
         CatalogTypes, EditType
<1>2. \A d \in Entities : /\ Makes(k, d) <=> editing[k].pc = "createGroup" /\ d = e
                          /\ Drops(k, d) <=> editing[k].pc = "deleteGroup" /\ d = e
  BY DEF Makes, Drops, At
<1>3. editing[k].pc \in {"deleteGroup", "emit"} => entities[e] = "deleted"
  BY <1>1 DEF GroupsInv, DeletionsFollowRows, DeletionAhead
<1>4. UNCHANGED <<entities, bootstrapping>> /\ mayDiffer \subseteq mayDiffer'
  BY DEF CreateNotificationGroup, DeleteNotificationGroup, EmitDeleted, RequestLost, rows, groupRows
<1>5. CASE CreateNotificationGroup(k)
  <2>1. /\ editing[k].pc = "createGroup" /\ Goes(k, "idle", e)
        /\ e \notin mayDiffer' => notifGroups' = notifGroups \cup {e}
        /\ \A d \in Entities : d # e => (d \in notifGroups' <=> d \in notifGroups)
    BY <1>5 DEF CreateNotificationGroup, At
  <2>2. /\ CatalogTypes' /\ DeletionsFollowRows'
        /\ \A d \in Entities : (Present(d)' <=> Present(d)) /\ (Boots(d)' <=> Boots(d))
        /\ \A x \in Editors, d \in Entities :
             x # k => (Makes(x, d)' <=> Makes(x, d)) /\ (Drops(x, d)' <=> Drops(x, d))
        /\ \A d \in Entities : ~Makes(k, d)' /\ ~Drops(k, d)'
    BY <1>1, <1>4, <2>1, RequestMoves DEF EditPoints
  <2>3. ASSUME NEW d \in Entities \ mayDiffer'
        PROVE  GroupFollows(d)'
    BY <1>2, <1>4, <2>1, <2>2 DEF GroupsInv, GroupFollows
  <2> QED
    BY <2>2, <2>3 DEF GroupsInv
<1>6. CASE DeleteNotificationGroup(k)
  <2>1. /\ editing[k].pc = "deleteGroup" /\ Goes(k, "emit", e)
        /\ e \notin mayDiffer' => notifGroups' = notifGroups \ {e}
        /\ \A d \in Entities : d # e => (d \in notifGroups' <=> d \in notifGroups)
    BY <1>6 DEF DeleteNotificationGroup, At, groupRows
  <2>2. /\ CatalogTypes' /\ DeletionsFollowRows'
        /\ \A d \in Entities : (Present(d)' <=> Present(d)) /\ (Boots(d)' <=> Boots(d))
        /\ \A x \in Editors, d \in Entities :
             x # k => (Makes(x, d)' <=> Makes(x, d)) /\ (Drops(x, d)' <=> Drops(x, d))
        /\ \A d \in Entities : ~Makes(k, d)' /\ ~Drops(k, d)'
    BY <1>1, <1>3, <1>4, <2>1, RequestMoves DEF EditPoints
  <2>3. ~Present(e)
    BY <1>3, <2>1 DEF Present
  <2>4. ASSUME NEW d \in Entities \ mayDiffer'
        PROVE  GroupFollows(d)'
    BY <1>2, <1>4, <2>1, <2>2, <2>3 DEF GroupsInv, GroupFollows
  <2> QED
    BY <2>2, <2>4 DEF GroupsInv
<1>7. CASE EmitDeleted(k) \/ RequestLost(k)
  <2>1. /\ Goes(k, "idle", e) /\ notifGroups' = notifGroups
        /\ e \notin mayDiffer' => editing[k].pc = "emit"
    BY <1>7 DEF EmitDeleted, RequestLost, At, groupRows
  <2>2. /\ CatalogTypes' /\ DeletionsFollowRows'
        /\ \A d \in Entities : (Present(d)' <=> Present(d)) /\ (Boots(d)' <=> Boots(d))
        /\ \A x \in Editors, d \in Entities :
             x # k => (Makes(x, d)' <=> Makes(x, d)) /\ (Drops(x, d)' <=> Drops(x, d))
        /\ \A d \in Entities : ~Makes(k, d)' /\ ~Drops(k, d)'
    BY <1>1, <1>4, <2>1, RequestMoves DEF EditPoints
  <2>3. ASSUME NEW d \in Entities \ mayDiffer'
        PROVE  GroupFollows(d)'
    BY <1>2, <1>4, <2>1, <2>2 DEF GroupsInv, GroupFollows
  <2> QED
    BY <2>2, <2>3 DEF GroupsInv
<1> QED
  BY <1>5, <1>6, <1>7

LEMMA SubscriptionStepKeeps ==
  ASSUME GroupsInv, SubscriptionStep
  PROVE  GroupsInv'
<1>1. UNCHANGED <<entities, bootstrapping, notifGroups, mayDiffer>>
  BY DEF SubscriptionStep, Subscribe, Unsubscribe, InsertSubscription, DeleteContactsOf,
         DeleteSubscriptionsOf, EditContacts, rows, groupRows
<1>2. CASE UNCHANGED editing
  BY <1>1, <1>2 DEF GroupsInv, CatalogTypes, DeletionsFollowRows, DeletionAhead, GroupFollows, Makes, Drops,
                    Boots, Present, At
<1>3. ASSUME NEW k \in Editors, NEW e \in Entities, NEW pc \in {"idle", "subscribe"},
             editing[k].pc \in {"idle", "subscribe"}, Goes(k, pc, e)
      PROVE  GroupsInv'
  <2>1. \A d \in Entities : ~Makes(k, d) /\ ~Drops(k, d)
    BY <1>3 DEF Makes, Drops, At
  <2>2. /\ CatalogTypes' /\ DeletionsFollowRows'
        /\ \A d \in Entities : (Present(d)' <=> Present(d)) /\ (Boots(d)' <=> Boots(d))
        /\ \A x \in Editors, d \in Entities :
             x # k => (Makes(x, d)' <=> Makes(x, d)) /\ (Drops(x, d)' <=> Drops(x, d))
        /\ \A d \in Entities : ~Makes(k, d)' /\ ~Drops(k, d)'
    <3>1. pc \in EditPoints /\ pc \notin {"createGroup", "deleteGroup", "emit"}
      BY <1>3 DEF EditPoints
    <3> QED
      BY <1>1, <1>3, <3>1, RequestMoves
  <2>3. ASSUME NEW d \in Entities \ mayDiffer'
        PROVE  GroupFollows(d)'
    BY <1>1, <2>1, <2>2 DEF GroupsInv, GroupFollows
  <2> QED
    BY <2>2, <2>3 DEF GroupsInv
<1>4. PICK k \in Editors :
        \/ \E e \in Entities : Subscribe(k, e) \/ Unsubscribe(k, e)
        \/ InsertSubscription(k) \/ DeleteContactsOf(k) \/ DeleteSubscriptionsOf(k)
        \/ \E s \in Systems : EditContacts(s, k)
  BY DEF SubscriptionStep
<1>5. ASSUME NEW e \in Entities, Subscribe(k, e)
      PROVE  GroupsInv'
  BY <1>3, <1>5 DEF Subscribe, At
<1>6. CASE InsertSubscription(k)
  <2>1. editing[k].on \in Entities
    BY <1>6 DEF InsertSubscription, GroupsInv, CatalogTypes, At
  <2> QED
    BY <1>3, <1>6, <2>1 DEF InsertSubscription, At
<1> QED
  BY <1>2, <1>4, <1>5, <1>6 DEF Unsubscribe, DeleteContactsOf, DeleteSubscriptionsOf, EditContacts

LEMMA BootStepKeeps ==
  ASSUME GroupsInv, NEW i \in Servers,
         BootReadSystems(i) \/ BootReadGroups(i) \/ BootCreateGroup(i) \/ BootstrapEnds(i)
  PROVE  GroupsInv'
<1>1. UNCHANGED <<entities, editing, mayDiffer>>
  BY DEF BootReadSystems, BootReadGroups, BootCreateGroup, BootstrapEnds, rows
<1>2. /\ bootstrapping' \in [Servers -> [pc : {"off", "readGroups", "create", "up"}, todo : SUBSET Entities]]
      /\ \A j \in Servers, d \in Entities : d \in bootstrapping'[j].todo => Present(d) \/ d \in bootstrapping[j].todo
  BY DEF BootReadSystems, BootReadGroups, BootCreateGroup, BootstrapEnds, GroupsInv, CatalogTypes, Entities
<1>3. \A d \in Entities : /\ d \in notifGroups => d \in notifGroups'
                          /\ d \in notifGroups' => d \in notifGroups \/ Boots(d)
  BY DEF BootReadSystems, BootReadGroups, BootCreateGroup, BootstrapEnds, Boots, groupRows
<1>4. CatalogTypes' /\ DeletionsFollowRows'
  BY <1>1, <1>2 DEF GroupsInv, CatalogTypes, DeletionsFollowRows, DeletionAhead, At
<1>5. \A x \in Editors, d \in Entities : (Makes(x, d)' <=> Makes(x, d)) /\ (Drops(x, d)' <=> Drops(x, d))
  BY <1>1 DEF Makes, Drops, At
<1>6. \A d \in Entities : (Present(d)' <=> Present(d)) /\ (Boots(d)' => Boots(d) \/ Present(d))
  BY <1>1, <1>2 DEF Present, Boots
<1>7. ASSUME NEW d \in Entities \ mayDiffer'
      PROVE  GroupFollows(d)'
  BY <1>1, <1>3, <1>5, <1>6 DEF GroupsInv, GroupFollows
<1> QED
  BY <1>4, <1>7 DEF GroupsInv

LEMMA CatalogStepKeeps ==
  ASSUME GroupsInv, SystemsNext
  PROVE  GroupsInv'
<1>1. CASE \E k \in Editors, e \in Entities : CreateEntity(k, e) \/ DeleteEntity(k, e)
  BY <1>1, EntityStepKeeps
<1>2. CASE \E k \in Editors : CreateNotificationGroup(k) \/ DeleteNotificationGroup(k)
                              \/ EmitDeleted(k) \/ RequestLost(k)
  BY <1>2, RequestStepKeeps
<1>3. CASE \E i \in Servers : BootReadSystems(i) \/ BootReadGroups(i) \/ BootCreateGroup(i)
                              \/ BootstrapEnds(i)
  BY <1>3, BootStepKeeps
<1>4. CASE SubscriptionStep
  BY <1>4, SubscriptionStepKeeps
<1>5. CASE UNCHANGED <<entities, editing, bootstrapping, notifGroups, mayDiffer>>
  BY <1>5 DEF GroupsInv, CatalogTypes, DeletionsFollowRows, DeletionAhead, GroupFollows, Makes, Drops,
              Boots, Present, At
<1>6. CASE MemberStep \/ (\E job \in cleanups : CleanupDone(job)) \/ UNCHANGED catalogVars
  BY <1>5, <1>6 DEF MemberStep, EditMembers, CleanupDone, groupRows, catalogVars
<1> QED
  BY <1>1, <1>2, <1>3, <1>4, <1>6, CatalogSteps DEF CatalogStep, EntityStep

LEMMA GroupsInvInductive ==
  /\ SystemsInit => GroupsInv
  /\ GroupsInv /\ [SystemsNext]_systemsVars => GroupsInv'
<1>1. SystemsInit => GroupsInv
  <2> SUFFICES ASSUME SystemsInit
               PROVE  GroupsInv
    OBVIOUS
  <2>1. CatalogInit
    BY DEF SystemsInit
  <2>2. Idle \in EditType /\ Idle.pc = "idle"
    <3>1. PICK idle \in EditPoints : idle = "idle"
      BY DEF EditPoints
    <3>2. PICK none \in Entities \cup {"none"} : none = "none"
      OBVIOUS
    <3>3. Idle = [pc |-> idle, on |-> none]
      BY <3>1, <3>2 DEF Idle
    <3> QED
      BY <3>1, <3>3 DEF EditType
  <2>3. \A k \in Editors : editing[k].pc = "idle"
    BY <2>1, <2>2 DEF CatalogInit
  <2>4. bootstrapping \in [Servers -> [pc : {"off", "readGroups", "create", "up"}, todo : SUBSET Entities]]
        /\ \A i \in Servers : bootstrapping[i].todo = {}
    BY <2>1 DEF CatalogInit
  <2>5. editing \in [Editors -> EditType]
    BY <2>1, <2>2 DEF CatalogInit
  <2>6. CatalogTypes
    BY <2>1, <2>3, <2>4, <2>5 DEF CatalogInit, CatalogTypes, At
  <2> QED
    BY <2>1, <2>3, <2>4, <2>6 DEF CatalogInit, GroupsInv, DeletionsFollowRows, DeletionAhead, GroupFollows,
                                  Boots, Makes, Drops, At, Present
<1>2. GroupsInv /\ [SystemsNext]_systemsVars => GroupsInv'
  <2>1. GroupsInv /\ UNCHANGED systemsVars => GroupsInv'
    BY DEF systemsVars, catalogVars, GroupsInv, CatalogTypes, DeletionsFollowRows, DeletionAhead,
           GroupFollows, Makes, Drops, Boots, Present, At
  <2> QED
    BY <2>1, CatalogStepKeeps
<1> QED
  BY <1>1, <1>2

\* Whatever requests and starting instances overlap, fail or crash, and however many:
\* once they are done what can be subscribed to is what the catalog holds, where no
\* failure and no deletion overlapping the making of the group has touched it
\* (core/catalog-backend/src/index.ts:119).
THEOREM GroupsMatchEntitiesCorrect == SystemsSpec => []GroupsMatchEntities
<1>1. GroupsInv => GroupsMatchEntities
  BY DEF GroupsInv, GroupFollows, GroupsMatchEntities, CatalogAtRest, Makes, Drops, At
<1> QED
  BY <1>1, GroupsInvInductive, PTL DEF SystemsSpec

-----------------------------------------------------------------------------
(* HealthCheckScheduling: the jobs of enabled checks *)

Queues == UNION {{d[i] : i \in Instances} : d \in Deployments}
RequestType == [pc : {"readConfig", "schedule"}, check : Checks, at : Instances]
StartType == [pc : {"off", "schedule", "cancel", "up"}, expected : SUBSET Checks, todo : SUBSET Checks]

SchedulingTypes ==
  /\ deployment \in Deployments
  /\ associations \in [Checks -> {"none", "enabled", "disabled"}]
  /\ jobs \in [Queues -> SUBSET Checks]
  /\ scheduling \in [Schedulers -> RequestType \cup {NoRequest}]
  /\ starting \in [Instances -> StartType]

\* The foreign key.
AssociationsOwned == \A k \in Checks : associations[k] # "none" => configs[k[2]] = "present"

\* An instance schedules what it found enabled, and cancels only what it did not.
StartsConsistent ==
  \A i \in Instances :
    /\ starting[i].pc = "schedule" => starting[i].todo \subseteq starting[i].expected
    /\ starting[i].pc = "cancel" => starting[i].todo \cap starting[i].expected = {}

\* A request for check k is under way on a queue.
Requested(q, k) ==
  \E who \in Schedulers :
    scheduling[who] # NoRequest /\ scheduling[who].check = k /\ Queue(scheduling[who].at) = q

\* Instance i's queue has the job, or is going to: i is yet to start, or to come to
\* it, or a request is under way. And no instance on that queue is going to cancel it.
Serves(i, k) ==
  /\ ~CancellationAhead(i, k)
  /\ \/ k \in jobs[Queue(i)]
     \/ starting[i].pc = "off"
     \/ starting[i].pc = "schedule" /\ k \in starting[i].todo
     \/ Requested(Queue(i), k)

Served == \A k \in Enabled \ unscheduled : \E i \in Instances : Serves(i, k)

SchedulingInv == SchedulingTypes /\ AssociationsOwned /\ StartsConsistent /\ Served

LEMMA NoRequestIs == NoRequest.pc = "idle" /\ NoRequest \notin RequestType
BY DEF NoRequest, RequestType

LEMMA OffIs == Off \in StartType /\ Off.pc = "off" /\ [Off EXCEPT !.pc = "up"] \in StartType
               /\ [Off EXCEPT !.pc = "up"].pc = "up"
<1>1. PICK off \in {"off", "schedule", "cancel", "up"} : off = "off"
  OBVIOUS
<1>2. PICK up \in {"off", "schedule", "cancel", "up"} : up = "up"
  OBVIOUS
<1>3. PICK none \in SUBSET Checks : none = {}
  OBVIOUS
<1>4. Off = [pc |-> off, expected |-> none, todo |-> none]
  BY <1>1, <1>3 DEF Off
<1> QED
  BY <1>1, <1>2, <1>4 DEF StartType

LEMMA QueueTypes ==
  ASSUME SchedulingTypes, NEW i \in Instances
  PROVE  Queue(i) \in Queues
BY DeploymentAssumption DEF SchedulingTypes, Queue, Queues

LEMMA RequestPoints ==
  ASSUME SchedulingTypes, NEW who \in Schedulers
  PROVE  /\ scheduling[who].pc = "idle" <=> scheduling[who] = NoRequest
         /\ scheduling[who] # NoRequest => scheduling[who] \in RequestType
BY NoRequestIs DEF SchedulingTypes, RequestType

\* Requests, deletions and the hook's handler change no queue but to add a job.
LEMMA AssociationStepKeeps ==
  ASSUME SchedulingInv, AssociationStep
  PROVE  SchedulingInv'
<1>1. UNCHANGED <<deployment, starting>>
  BY DEF AssociationStep, CreateConfiguration, DeleteConfiguration, AssociateSystem, DisassociateSystem,
         RemoveAllSystemAssociations, ReadConfig, ScheduleHealthCheck, SchedulingFails
<1>2. StartsConsistent' /\ \A i \in Instances, k \in Checks : CancellationAhead(i, k)' <=> CancellationAhead(i, k)
  BY <1>1 DEF SchedulingInv, StartsConsistent, CancellationAhead, Queue
<1>3. ASSUME \A k \in Checks : associations'[k] \in {"none", associations[k]},
             associations' \in [Checks -> {"none", "enabled", "disabled"}],
             AssociationsOwned',
             UNCHANGED <<jobs, scheduling, unscheduled>>
      PROVE  SchedulingInv'
  <2>1. SchedulingTypes'
    BY <1>1, <1>3 DEF SchedulingInv, SchedulingTypes
  <2>2. Enabled' \subseteq Enabled
    BY <1>3 DEF Enabled, SchedulingInv, SchedulingTypes
  <2>3. \A i \in Instances, k \in Checks : Serves(i, k)' <=> Serves(i, k)
    BY <1>1, <1>2, <1>3 DEF Serves, Requested, Queue
  <2> QED
    BY <1>2, <1>3, <2>1, <2>2, <2>3 DEF SchedulingInv, Served, Enabled
<1>4. ASSUME NEW c \in Configs, CreateConfiguration(c)
      PROVE  SchedulingInv'
  <2>1. AssociationsOwned'
    BY <1>4 DEF CreateConfiguration, SchedulingInv, AssociationsOwned, Checks
  <2> QED
    BY <1>3, <1>4, <2>1 DEF CreateConfiguration, SchedulingInv, SchedulingTypes
<1>5. ASSUME NEW c \in Configs, DeleteConfiguration(c)
      PROVE  SchedulingInv'
  <2>1. AssociationsOwned'
    BY <1>5 DEF DeleteConfiguration, SchedulingInv, AssociationsOwned, Checks, SchedulingTypes
  <2> QED
    BY <1>3, <1>5, <2>1 DEF DeleteConfiguration, SchedulingInv, SchedulingTypes
<1>6. ASSUME NEW s \in Systems, RemoveAllSystemAssociations(s)
      PROVE  SchedulingInv'
  <2>1. AssociationsOwned'
    BY <1>6 DEF RemoveAllSystemAssociations, SchedulingInv, AssociationsOwned, SchedulingTypes
  <2> QED
    BY <1>3, <1>6, <2>1 DEF RemoveAllSystemAssociations, SchedulingInv, SchedulingTypes
<1>7. ASSUME NEW k \in Checks, DisassociateSystem(k)
      PROVE  SchedulingInv'
  <2>1. associations' = [associations EXCEPT ![k] = "none"]
    BY <1>7 DEF DisassociateSystem
  <2>2. AssociationsOwned'
    BY <1>7, <2>1 DEF DisassociateSystem, SchedulingInv, AssociationsOwned, SchedulingTypes
  <2> QED
    BY <1>3, <1>7, <2>1, <2>2 DEF DisassociateSystem, SchedulingInv, SchedulingTypes
<1>8. ASSUME NEW who \in Schedulers, NEW i \in Instances, NEW k \in Checks, NEW enabled \in BOOLEAN,
             AssociateSystem(who, i, k, enabled)
      PROVE  SchedulingInv'
  <2> DEFINE request == [pc |-> "readConfig", check |-> k, at |-> i]
             to == IF enabled THEN "enabled" ELSE "disabled"
  <2>1. request \in RequestType /\ request.check = k /\ request.at = i
    BY DEF RequestType
  <2>2. to \in {"enabled", "disabled"} /\ (to = "enabled" <=> enabled)
    OBVIOUS
  <2>3. /\ scheduling[who] = NoRequest /\ configs[k[2]] = "present"
        /\ associations' = [associations EXCEPT ![k] = to]
        /\ scheduling' = IF enabled THEN [scheduling EXCEPT ![who] = request] ELSE scheduling
        /\ unscheduled \subseteq unscheduled'
        /\ enabled /\ k \notin unscheduled' => ~CancellationAhead(i, k)
        /\ UNCHANGED <<configs, jobs>>
    BY <1>8, RequestPoints DEF AssociateSystem, SchedulingInv
  <2> HIDE DEF request, to
  <2>4. SchedulingTypes'
    BY <1>1, <2>1, <2>2, <2>3 DEF SchedulingInv, SchedulingTypes
  <2>5. AssociationsOwned'
    BY <2>2, <2>3 DEF SchedulingInv, SchedulingTypes, AssociationsOwned
  <2>6. \A x \in Schedulers : scheduling[x] # NoRequest => scheduling'[x] = scheduling[x]
    BY <2>3 DEF SchedulingInv, SchedulingTypes
  <2>7. \A j \in Instances, l \in Checks : Serves(j, l) => Serves(j, l)'
    <3>1. \A q, l : Requested(q, l) => Requested(q, l)'
      BY <1>1, <2>6 DEF Requested, Queue
    <3> QED
      BY <1>1, <1>2, <2>3, <3>1 DEF Serves, Queue
  <2>8. enabled => Requested(Queue(i), k)'
    <3>1. CASE enabled
      <4>1. scheduling'[who] = request /\ request # NoRequest
        BY <2>1, <2>3, <3>1, NoRequestIs DEF SchedulingInv, SchedulingTypes
      <4> QED
        BY <1>1, <2>1, <4>1 DEF Requested, Queue
    <3> QED
      BY <3>1
  <2>9. ASSUME NEW l \in Enabled' \ unscheduled'
        PROVE  \E j \in Instances : Serves(j, l)'
    <3>1. CASE l = k
      <4>1. enabled
        BY <2>2, <2>3, <3>1 DEF Enabled, SchedulingInv, SchedulingTypes
      <4>2. Queue(i)' = Queue(i)
        BY <1>1 DEF Queue
      <4> QED
        BY <1>2, <2>3, <2>8, <3>1, <4>1, <4>2 DEF Serves
    <3>2. CASE l # k
      <4>1. l \in Enabled \ unscheduled
        BY <2>3, <3>2 DEF Enabled, SchedulingInv, SchedulingTypes
      <4> QED
        BY <2>7, <4>1 DEF SchedulingInv, Served, Enabled
    <3> QED
      BY <3>1, <3>2
  <2> QED
    BY <1>2, <2>4, <2>5, <2>9 DEF SchedulingInv, Served
<1>9. ASSUME NEW who \in Schedulers, ReadConfig(who) \/ ScheduleHealthCheck(who) \/ SchedulingFails(who)
      PROVE  SchedulingInv'
  <2> DEFINE r == scheduling[who]
  <2>1. r \in RequestType /\ r # NoRequest
    BY <1>9, NoRequestIs DEF ReadConfig, ScheduleHealthCheck, SchedulingFails, SchedulingInv, SchedulingTypes
  <2>2. PICK new \in RequestType \cup {NoRequest} :
          /\ scheduling' = [scheduling EXCEPT ![who] = new]
          /\ new # NoRequest => new.check = r.check /\ new.at = r.at
          /\ new = NoRequest => \/ configs[r.check[2]] # "present"
                                \/ r.check \in jobs'[Queue(r.at)]
                                \/ r.check \in unscheduled'
    <3>1. CASE ReadConfig(who)
      <4> DEFINE asked == [r EXCEPT !.pc = "schedule"]
      <4>1. asked \in RequestType /\ asked.check = r.check /\ asked.at = r.at
        BY <2>1 DEF RequestType
      <4>2. scheduling' = [scheduling EXCEPT ![who] = IF configs[r.check[2]] = "present" THEN asked ELSE NoRequest]
        BY <3>1 DEF ReadConfig, SchedulingInv, SchedulingTypes
      <4> HIDE DEF asked
      <4> QED
        BY <4>1, <4>2, NoRequestIs
    <3>2. CASE ScheduleHealthCheck(who)
      <4>1. Queue(r.at) \in Queues
        BY <2>1, QueueTypes DEF RequestType, SchedulingInv
      <4>2. r.check \in jobs'[Queue(r.at)]
        BY <3>2, <4>1 DEF ScheduleHealthCheck, SchedulingInv, SchedulingTypes
      <4> QED
        BY <3>2, <4>2 DEF ScheduleHealthCheck
    <3>3. CASE SchedulingFails(who)
      BY <3>3 DEF SchedulingFails
    <3> QED
      BY <1>9, <3>1, <3>2, <3>3
  <2>3. /\ UNCHANGED <<configs, associations>> /\ unscheduled \subseteq unscheduled'
        /\ jobs' \in [Queues -> SUBSET Checks]
        /\ \A q \in Queues : jobs[q] \subseteq jobs'[q]
    <3>1. CASE ScheduleHealthCheck(who)
      <4>1. Queue(r.at) \in Queues /\ r.check \in Checks
        BY <2>1, QueueTypes DEF RequestType, SchedulingInv
      <4> QED
        BY <3>1, <4>1 DEF ScheduleHealthCheck, SchedulingInv, SchedulingTypes
    <3>2. CASE ReadConfig(who) \/ SchedulingFails(who)
      BY <3>2 DEF ReadConfig, SchedulingFails, SchedulingInv, SchedulingTypes
    <3> QED
      BY <1>9, <3>1, <3>2
  <2>4. SchedulingTypes' /\ AssociationsOwned'
    BY <1>1, <2>2, <2>3 DEF SchedulingInv, SchedulingTypes, AssociationsOwned
  <2>5. ASSUME NEW k \in Enabled \ unscheduled', NEW i \in Instances, Serves(i, k)
        PROVE  Serves(i, k)'
    <3>1. Queue(i)' = Queue(i) /\ Queue(i) \in Queues
      BY <1>1, QueueTypes DEF Queue, SchedulingInv
    <3>2. CASE ~Requested(Queue(i), k)
      BY <1>1, <1>2, <2>3, <2>5, <3>1, <3>2 DEF Serves, Enabled
    <3>3. ASSUME NEW x \in Schedulers, scheduling[x] # NoRequest, scheduling[x].check = k,
                 Queue(scheduling[x].at) = Queue(i)
          PROVE  k \in jobs'[Queue(i)] \/ Requested(Queue(i), k)'
      <4>1. CASE x # who
        <5>1. scheduling'[x] = scheduling[x]
          BY <2>2, <4>1 DEF SchedulingInv, SchedulingTypes
        <5> QED
          BY <1>1, <3>3, <5>1 DEF Requested, Queue
      <4>2. CASE x = who
        <5>1. scheduling'[x] = new
          BY <2>2, <4>2 DEF SchedulingInv, SchedulingTypes
        <5>2. configs[k[2]] = "present"
          BY <2>5 DEF Enabled, SchedulingInv, AssociationsOwned
        <5>3. CASE new # NoRequest
          BY <1>1, <2>2, <3>3, <4>2, <5>1, <5>3 DEF Requested, Queue
        <5>4. CASE new = NoRequest
          BY <2>2, <2>5, <3>3, <4>2, <5>2, <5>4
        <5> QED
          BY <5>3, <5>4
      <4> QED
        BY <4>1, <4>2
    <3> QED
      BY <1>2, <2>5, <3>1, <3>2, <3>3 DEF Serves, Requested, Enabled
  <2>6. Served'
    BY <2>3, <2>5 DEF SchedulingInv, Served, Enabled
  <2> QED
    BY <1>2, <2>4, <2>6 DEF SchedulingInv
<1> QED
  BY <1>4, <1>5, <1>6, <1>7, <1>8, <1>9 DEF AssociationStep

\* An instance that schedules, cancels or is up changes its own queue and place.
LEMMA StartMoves ==
  ASSUME SchedulingTypes, NEW i \in Instances, NEW new \in StartType,
         starting' = [starting EXCEPT ![i] = new],
         jobs' \in [Queues -> SUBSET Checks], UNCHANGED <<deployment, associations, scheduling>>
  PROVE  /\ SchedulingTypes' /\ starting'[i] = new
         /\ \A j \in Instances : Queue(j)' = Queue(j) /\ (j # i => starting'[j] = starting[j])
         /\ \A q, k : Requested(q, k)' <=> Requested(q, k)
<1>1. SchedulingTypes' /\ starting'[i] = new
  BY DEF SchedulingTypes
<1>2. \A j \in Instances : Queue(j)' = Queue(j) /\ (j # i => starting'[j] = starting[j])
  BY DEF SchedulingTypes, Queue
<1>3. \A q, k : Requested(q, k)' <=> Requested(q, k)
  BY DEF Requested, Queue
<1> QED
  BY <1>1, <1>2, <1>3

LEMMA StartStepKeeps ==
  ASSUME SchedulingInv, StartStep
  PROVE  SchedulingInv'
<1> USE DEF SchedulingInv
<1>1. UNCHANGED <<deployment, configs, associations, unscheduled>>
  BY DEF StartStep, StartReadEnabled, StartSchedule, StartListOrphans, StartCancel, StartEnds, Crash
<1>2. AssociationsOwned' /\ Enabled' = Enabled /\ Enabled \subseteq Checks
  BY <1>1 DEF AssociationsOwned, Enabled
<1>3. ASSUME \A k \in Enabled \ unscheduled, i \in Instances :
               Serves(i, k) => \E j \in Instances : Serves(j, k)'
      PROVE  Served'
  BY <1>1, <1>2, <1>3 DEF Served
<1>4. ASSUME NEW i \in Instances, StartReadEnabled(i)
      PROVE  SchedulingInv'
  <2> DEFINE new == [pc |-> "schedule", expected |-> Enabled, todo |-> Enabled]
  <2>1. new \in StartType /\ new.pc = "schedule" /\ new.expected = Enabled /\ new.todo = Enabled
    <3>1. PICK pc \in {"off", "schedule", "cancel", "up"} : pc = "schedule"
      OBVIOUS
    <3>2. new = [pc |-> pc, expected |-> Enabled, todo |-> Enabled]
      BY <3>1
    <3> QED
      BY <1>2, <3>1, <3>2 DEF StartType
  <2>2. starting' = [starting EXCEPT ![i] = new] /\ UNCHANGED <<jobs, scheduling>>
    BY <1>4 DEF StartReadEnabled
  <2> HIDE DEF new
  <2>3. /\ SchedulingTypes' /\ starting'[i] = new
        /\ \A j \in Instances : Queue(j)' = Queue(j) /\ (j # i => starting'[j] = starting[j])
        /\ \A q, k : Requested(q, k)' <=> Requested(q, k)
    BY <1>1, <2>1, <2>2, StartMoves DEF SchedulingTypes
  <2>4. StartsConsistent'
    BY <2>1, <2>3 DEF StartsConsistent
  <2>5. \A j \in Instances, k \in Enabled : CancellationAhead(j, k)' => CancellationAhead(j, k)
    BY <2>1, <2>3 DEF CancellationAhead
  <2>6. \A k \in Enabled, j \in Instances : Serves(j, k) => Serves(j, k)'
    BY <2>1, <2>2, <2>3, <2>5 DEF Serves
  <2> QED
    BY <1>2, <1>3, <2>3, <2>4, <2>6
<1>5. ASSUME NEW i \in Instances, StartSchedule(i)
      PROVE  SchedulingInv'
  <2>1. PICK k \in starting[i].todo :
          /\ jobs' = [jobs EXCEPT ![Queue(i)] = @ \cup {k}]
          /\ starting' = [starting EXCEPT ![i].todo = @ \ {k}]
    BY <1>5 DEF StartSchedule
  <2> DEFINE new == [starting[i] EXCEPT !.todo = @ \ {k}]
  <2>2. /\ new \in StartType /\ new.pc = starting[i].pc /\ new.expected = starting[i].expected
        /\ new.todo = starting[i].todo \ {k} /\ k \in Checks
    BY DEF SchedulingTypes, StartType
  <2>3. starting' = [starting EXCEPT ![i] = new] /\ UNCHANGED scheduling
    BY <1>5, <2>1 DEF StartSchedule, SchedulingTypes
  <2> HIDE DEF new
  <2>4. Queue(i) \in Queues
    BY QueueTypes
  <2>5. jobs' \in [Queues -> SUBSET Checks] /\ (\A q \in Queues : jobs[q] \subseteq jobs'[q])
        /\ k \in jobs'[Queue(i)]
    BY <2>1, <2>2, <2>4 DEF SchedulingTypes
  <2>6. /\ SchedulingTypes' /\ starting'[i] = new
        /\ \A j \in Instances : Queue(j)' = Queue(j) /\ (j # i => starting'[j] = starting[j])
        /\ \A q, l : Requested(q, l)' <=> Requested(q, l)
    BY <1>1, <2>2, <2>3, <2>5, StartMoves
  <2>7. StartsConsistent'
    BY <2>2, <2>6 DEF StartsConsistent
  <2>8. \A j \in Instances, l \in Checks : CancellationAhead(j, l)' <=> CancellationAhead(j, l)
    BY <2>2, <2>6 DEF CancellationAhead
  <2>9. \A l \in Enabled, j \in Instances : Serves(j, l) => Serves(j, l)'
    <3> SUFFICES ASSUME NEW l \in Enabled, NEW j \in Instances, Serves(j, l)
                 PROVE  Serves(j, l)'
      OBVIOUS
    <3>1. Queue(j) \in Queues
      BY QueueTypes
    <3>2. ~CancellationAhead(j, l)'
      BY <1>2, <2>8 DEF Serves
    <3>3. CASE l \in jobs[Queue(j)]
      BY <2>5, <2>6, <3>1, <3>2, <3>3 DEF Serves
    <3>4. CASE l = k /\ j = i
      BY <2>5, <2>6, <3>2, <3>4 DEF Serves
    <3>5. CASE l \notin jobs[Queue(j)] /\ ~(l = k /\ j = i)
      BY <2>2, <2>6, <3>2, <3>5 DEF Serves
    <3> QED
      BY <3>3, <3>4, <3>5
  <2> QED
    BY <1>2, <1>3, <2>6, <2>7, <2>9
<1>6. ASSUME NEW i \in Instances, StartListOrphans(i)
      PROVE  SchedulingInv'
  <2> DEFINE orphans == jobs[Queue(i)] \ starting[i].expected
             new == [starting[i] EXCEPT !.pc = "cancel", !.todo = orphans]
  <2>1. /\ new \in StartType /\ new.pc = "cancel" /\ new.expected = starting[i].expected
        /\ new.todo = orphans
    <3>1. PICK pc \in {"off", "schedule", "cancel", "up"} : pc = "cancel"
      OBVIOUS
    <3>2. new = [starting[i] EXCEPT !.pc = pc, !.todo = orphans]
      BY <3>1
    <3>3. orphans \in SUBSET Checks /\ starting[i] \in StartType
      BY QueueTypes DEF SchedulingTypes
    <3> HIDE DEF new, orphans
    <3> QED
      BY <3>1, <3>2, <3>3 DEF StartType
  <2>2. /\ starting' = [starting EXCEPT ![i] = new] /\ UNCHANGED <<jobs, scheduling>>
        /\ starting[i].pc = "schedule" /\ starting[i].todo = {}
    BY <1>6 DEF StartListOrphans, SchedulingTypes
  <2> HIDE DEF new
  <2>3. /\ SchedulingTypes' /\ starting'[i] = new
        /\ \A j \in Instances : Queue(j)' = Queue(j) /\ (j # i => starting'[j] = starting[j])
        /\ \A q, k : Requested(q, k)' <=> Requested(q, k)
    BY <1>1, <2>1, <2>2, StartMoves DEF SchedulingTypes
  <2>4. StartsConsistent'
    BY <2>1, <2>3 DEF StartsConsistent
  <2>5. \A j \in Instances, k \in Checks : CancellationAhead(j, k)' <=> CancellationAhead(j, k)
    BY <2>1, <2>2, <2>3 DEF CancellationAhead
  <2>6. \A k \in Enabled, j \in Instances : Serves(j, k) => Serves(j, k)'
    BY <1>2, <2>2, <2>3, <2>5 DEF Serves
  <2> QED
    BY <1>2, <1>3, <2>3, <2>4, <2>6
<1>7. ASSUME NEW i \in Instances, StartCancel(i)
      PROVE  SchedulingInv'
  <2>1. PICK k \in starting[i].todo :
          /\ jobs' = [jobs EXCEPT ![Queue(i)] = @ \ {k}]
          /\ starting' = [starting EXCEPT ![i].todo = @ \ {k}]
    BY <1>7 DEF StartCancel
  <2> DEFINE new == [starting[i] EXCEPT !.todo = @ \ {k}]
  <2>2. /\ new \in StartType /\ new.pc = starting[i].pc /\ new.expected = starting[i].expected
        /\ new.todo = starting[i].todo \ {k} /\ k \in Checks
    BY DEF SchedulingTypes, StartType
  <2>3. /\ starting' = [starting EXCEPT ![i] = new] /\ UNCHANGED scheduling
        /\ starting[i].pc = "cancel" /\ k \notin starting[i].expected
    BY <1>7, <2>1 DEF StartCancel, SchedulingTypes, StartsConsistent
  <2> HIDE DEF new
  <2>4. Queue(i) \in Queues
    BY QueueTypes
  <2>5. /\ jobs' \in [Queues -> SUBSET Checks]
        /\ \A q \in Queues, l \in Checks : l \in jobs[q] => l \in jobs'[q] \/ (q = Queue(i) /\ l = k)
    BY <2>1, <2>4 DEF SchedulingTypes
  <2>6. /\ SchedulingTypes' /\ starting'[i] = new
        /\ \A j \in Instances : Queue(j)' = Queue(j) /\ (j # i => starting'[j] = starting[j])
        /\ \A q, l : Requested(q, l)' <=> Requested(q, l)
    BY <1>1, <2>2, <2>3, <2>5, StartMoves
  <2>7. StartsConsistent'
    BY <2>2, <2>6 DEF StartsConsistent
  <2>8. \A j \in Instances, l \in Checks : CancellationAhead(j, l)' <=> CancellationAhead(j, l)
    BY <2>2, <2>6 DEF CancellationAhead
  <2>9. \A l \in Enabled, j \in Instances : Serves(j, l) => Serves(j, l)'
    <3> SUFFICES ASSUME NEW l \in Enabled, NEW j \in Instances, Serves(j, l)
                 PROVE  Serves(j, l)'
      OBVIOUS
    <3>1. Queue(j) \in Queues
      BY QueueTypes
    <3>2. ~CancellationAhead(j, l)'
      BY <1>2, <2>8 DEF Serves
    <3>3. CASE l \in jobs[Queue(j)]
      <4>1. ~(Queue(j) = Queue(i) /\ l = k)
        BY <2>3 DEF Serves, CancellationAhead
      <4> QED
        BY <1>2, <2>5, <2>6, <3>1, <3>2, <3>3, <4>1 DEF Serves
    <3>4. CASE l \notin jobs[Queue(j)]
      BY <2>2, <2>3, <2>6, <3>2, <3>4 DEF Serves
    <3> QED
      BY <3>3, <3>4
  <2> QED
    BY <1>2, <1>3, <2>6, <2>7, <2>9
<1>8. ASSUME NEW i \in Instances, StartEnds(i)
      PROVE  SchedulingInv'
  <2> DEFINE new == [Off EXCEPT !.pc = "up"]
  <2>1. new \in StartType /\ new.pc = "up"
    BY OffIs
  <2>2. /\ starting' = [starting EXCEPT ![i] = new] /\ UNCHANGED <<jobs, scheduling>>
        /\ starting[i].pc = "cancel"
    BY <1>8 DEF StartEnds
  <2> HIDE DEF new
  <2>3. /\ SchedulingTypes' /\ starting'[i] = new
        /\ \A j \in Instances : Queue(j)' = Queue(j) /\ (j # i => starting'[j] = starting[j])
        /\ \A q, k : Requested(q, k)' <=> Requested(q, k)
    BY <1>1, <2>1, <2>2, StartMoves DEF SchedulingTypes
  <2>4. StartsConsistent'
    BY <2>1, <2>3 DEF StartsConsistent
  <2>5. \A j \in Instances, k \in Checks : CancellationAhead(j, k)' => CancellationAhead(j, k)
    BY <2>1, <2>3 DEF CancellationAhead
  <2>6. \A k \in Enabled, j \in Instances : Serves(j, k) => Serves(j, k)'
    BY <1>2, <2>2, <2>3, <2>5 DEF Serves
  <2> QED
    BY <1>2, <1>3, <2>3, <2>4, <2>6
<1>9. ASSUME NEW i \in Instances, Crash(i)
      PROVE  SchedulingInv'
  <2> DEFINE alone == ~ \E j \in Instances \ {i} : Queue(j) = Queue(i)
  <2>1. /\ starting' = [starting EXCEPT ![i] = Off]
        /\ scheduling' = [w \in Schedulers |-> IF scheduling[w].at = i THEN NoRequest ELSE scheduling[w]]
        /\ jobs' = IF alone THEN [jobs EXCEPT ![Queue(i)] = {}] ELSE jobs
    BY <1>9 DEF Crash
  <2>2. Queue(i) \in Queues
    BY QueueTypes
  <2>3. jobs' \in [Queues -> SUBSET Checks] /\ \A q \in Queues : q # Queue(i) => jobs'[q] = jobs[q]
    BY <2>1, <2>2 DEF SchedulingTypes
  <2>4. /\ \A j \in Instances : Queue(j)' = Queue(j)
        /\ starting'[i].pc = "off" /\ \A j \in Instances : j # i => starting'[j] = starting[j]
    BY <1>1, <2>1, OffIs DEF SchedulingTypes, Queue
  <2>5. SchedulingTypes'
    BY <1>1, <2>1, <2>3, OffIs DEF SchedulingTypes
  <2>6. StartsConsistent'
    BY <2>4 DEF StartsConsistent
  <2>7. \A j \in Instances, k \in Checks : CancellationAhead(j, k)' => CancellationAhead(j, k)
    BY <2>4 DEF CancellationAhead
  <2>8. ASSUME NEW k \in Enabled, NEW j \in Instances, Serves(j, k), Queue(j) = Queue(i)
        PROVE  Serves(i, k)'
    <3>1. ~CancellationAhead(i, k)
      BY <2>8 DEF Serves, CancellationAhead
    <3> QED
      BY <1>2, <2>4, <2>7, <3>1 DEF Serves
  <2>9. ASSUME NEW k \in Enabled, NEW j \in Instances, Serves(j, k), Queue(j) # Queue(i)
        PROVE  Serves(j, k)'
    <3>1. ~CancellationAhead(j, k)' /\ j # i /\ Queue(j) \in Queues
      BY <1>2, <2>7, <2>9, QueueTypes DEF Serves
    <3>2. Requested(Queue(j), k) => Requested(Queue(j), k)'
      <4> SUFFICES ASSUME NEW w \in Schedulers, scheduling[w] # NoRequest, scheduling[w].check = k,
                          Queue(scheduling[w].at) = Queue(j)
                   PROVE  Requested(Queue(j), k)'
        BY <2>4 DEF Requested
      <4>1. scheduling[w].at # i
        BY <2>9
      <4>2. scheduling'[w] = scheduling[w]
        BY <2>1, <4>1
      <4> QED
        BY <1>1, <4>2 DEF Requested, Queue
    <3> QED
      BY <2>3, <2>4, <2>9, <3>1, <3>2 DEF Serves
  <2> QED
    BY <1>2, <1>3, <2>5, <2>6, <2>8, <2>9
<1> QED
  BY <1>4, <1>5, <1>6, <1>7, <1>8, <1>9 DEF StartStep

LEMMA SchedulingInvInductive ==
  /\ SystemsInit => SchedulingInv
  /\ SchedulingInv /\ [SystemsNext]_systemsVars => SchedulingInv'
<1>1. SystemsInit => SchedulingInv
  <2> SUFFICES ASSUME SystemsInit
               PROVE  SchedulingInv
    OBVIOUS
  <2>1. SchedulingInit
    BY DEF SystemsInit
  <2>2. \A i \in Instances : starting[i] = Off
    BY <2>1 DEF SchedulingInit
  <2>3. SchedulingTypes
    <3>1. jobs \in [Queues -> SUBSET Checks]
      BY <2>1 DEF SchedulingInit, Queues
    <3> QED
      BY <2>1, <3>1, OffIs DEF SchedulingInit, SchedulingTypes
  <2>4. AssociationsOwned /\ StartsConsistent
    BY <2>1, <2>2, OffIs DEF SchedulingInit, AssociationsOwned, StartsConsistent
  <2>5. \A i \in Instances, k \in Checks : Serves(i, k)
    BY <2>2, OffIs DEF Serves, CancellationAhead
  <2> QED
    BY <2>3, <2>4, <2>5, DeploymentAssumption DEF SchedulingInv, Served, Enabled
<1>2. SchedulingInv /\ [SystemsNext]_systemsVars => SchedulingInv'
  <2>1. SchedulingInv /\ UNCHANGED schedulingVars => SchedulingInv'
    <3> SUFFICES ASSUME SchedulingInv, UNCHANGED schedulingVars
                 PROVE  SchedulingInv'
      OBVIOUS
    <3>1. UNCHANGED <<deployment, configs, associations, jobs, scheduling, starting, unscheduled>>
      BY DEF schedulingVars
    <3>2. (SchedulingTypes /\ AssociationsOwned /\ StartsConsistent)'
      BY <3>1 DEF SchedulingInv, SchedulingTypes, AssociationsOwned, StartsConsistent
    <3>3. Served'
      BY <3>1 DEF SchedulingInv, Served, Serves, Requested, CancellationAhead, Enabled, Queue
    <3> QED
      BY <3>2, <3>3 DEF SchedulingInv
  <2>2. UNCHANGED systemsVars => UNCHANGED schedulingVars
    BY DEF systemsVars
  <2> QED
    BY <2>1, <2>2, SchedulingSteps, AssociationStepKeeps, StartStepKeeps DEF SchedulingStep
<1> QED
  BY <1>1, <1>2

\* Whatever requests, starts and crashes overlap, and however many: once all is done and
\* the instances are up, each enabled check has its recurring job, where none was enabled
\* ahead of a starting instance's cancellations and no request failed
\* (core/healthcheck-backend/src/router.ts:132).
THEOREM EnabledChecksScheduledCorrect == SystemsSpec => []EnabledChecksScheduled
<1>1. SchedulingInv => EnabledChecksScheduled
  <2> SUFFICES ASSUME SchedulingInv, SchedulingAtRest, NEW k \in Enabled \ unscheduled
               PROVE  \E q \in DOMAIN jobs : k \in jobs[q]
    BY DEF EnabledChecksScheduled
  <2>1. PICK i \in Instances : Serves(i, k)
    BY DEF SchedulingInv, Served
  <2>2. ~Requested(Queue(i), k)
    BY RequestPoints DEF SchedulingAtRest, Requested, SchedulingInv
  <2>3. k \in jobs[Queue(i)]
    BY <2>1, <2>2 DEF Serves, SchedulingAtRest
  <2> QED
    BY <2>3, QueueTypes DEF SchedulingInv, SchedulingTypes
<1> QED
  BY <1>1, SchedulingInvInductive, PTL DEF SystemsSpec

-----------------------------------------------------------------------------
(* Incidents: the question about suppression *)

QuestionType == [pc : {"idle", "readIncidents", "answered"}, system : LinkedSystems \cup {"none"},
                 ids : SUBSET AllIncidents, wasCovered : BOOLEAN, wasUncovered : BOOLEAN,
                 changes : 0..2, answer : BOOLEAN]

\* The incidents linked to s, and whether some of these are active.
LinkedTo(linked, s) == {n \in AllIncidents : <<n, s>> \in linked}
Answers(ids, active, q) == IF ids \cap active # {} THEN q.wasCovered ELSE q.wasUncovered

\* While a question is under way it has seen whether its system is covered now. It has
\* read the links; if nothing has changed since they are still so, and with one change
\* the answer it would get from the incidents now was due before or after the change.
QuestionKept ==
  asking.pc = "readIncidents" =>
    /\ Answers(LinkedTo(links, asking.system), Active, asking)
    /\ asking.changes = 0 => asking.ids = LinkedTo(links, asking.system)
    /\ asking.changes = 1 => Answers(asking.ids, Active, asking)

QuestionInv == asking \in QuestionType /\ QuestionKept /\ AnswerWasDue

LEMMA CoveredBy ==
  ASSUME NEW active \in SUBSET AllIncidents, NEW linked, NEW s
  PROVE  Covered(active, linked, s) <=> LinkedTo(linked, s) \cap active # {}
BY DEF Covered, LinkedTo

\* A step changes the incidents that suppress or the links, or takes one incident out of both.
LEMMA OneAtOnce ==
  ASSUME ReportStep
  PROVE  \/ links' = links
         \/ Active' = Active
         \/ \E n \in AllIncidents : Active' = Active \ {n} /\ links' = {l \in links : l[1] # n}
<1>1. ASSUME UNCHANGED <<status, suppressing>> PROVE Active' = Active
  BY <1>1 DEF Active
<1>2. ASSUME NEW n \in AllIncidents, DeleteIncident(n)
      PROVE  Active' = Active \ {n} /\ links' = {l \in links : l[1] # n}
  <2>1. suppressing' = suppressing \ {n} /\ links' = {l \in links : l[1] # n}
    BY <1>2 DEF DeleteIncident
  <2>2. \A m \in AllIncidents \ {n} : status'[m] = status[m]
    BY <1>2 DEF DeleteIncident
  <2> QED
    BY <2>1, <2>2 DEF Active
<1> QED
  BY <1>1, <1>2 DEF ReportStep, CreateIncident, UpdateIncident, AddUpdate, ResolveIncident, Unlink, Link,
                    Linked, SetStatus, LogUpdate, ReportLost, RemoveSystemAssociations

\* What Watch records.
LEMMA Watched ==
  ASSUME asking \in QuestionType, asking.pc = "readIncidents", Watch
  PROVE  LET now == Covered(Active', links', asking.system)
             same == Active' = Active /\ links' = links
         IN /\ asking' \in QuestionType
            /\ asking'.pc = "readIncidents" /\ asking'.system = asking.system /\ asking'.ids = asking.ids
            /\ asking'.wasCovered <=> asking.wasCovered \/ now
            /\ asking'.wasUncovered <=> asking.wasUncovered \/ ~now
            /\ asking'.changes = 0 => same /\ asking.changes = 0
            /\ asking'.changes = 1 => (same /\ asking.changes = 1) \/ asking.changes = 0
<1> DEFINE now == Covered(Active', links', asking.system)
           same == Active' = Active /\ links' = links
           covered == asking.wasCovered \/ now
           uncovered == asking.wasUncovered \/ ~now
           changes == IF same \/ asking.changes = 2 THEN asking.changes ELSE asking.changes + 1
<1>1. <<Active', links'>> = <<Active, links>> <=> same
  OBVIOUS
<1>2. covered \in BOOLEAN /\ uncovered \in BOOLEAN /\ changes \in 0..2
  BY DEF QuestionType
<1>3. asking' = [asking EXCEPT !.wasCovered = covered, !.wasUncovered = uncovered, !.changes = changes]
  BY <1>1 DEF Watch
<1>4. /\ asking.changes \in 0..2
      /\ changes = 0 => same /\ asking.changes = 0
      /\ changes = 1 => (same /\ asking.changes = 1) \/ asking.changes = 0
  BY DEF QuestionType
<1> HIDE DEF covered, uncovered, changes
<1>5. /\ asking' \in QuestionType
      /\ asking'.pc = asking.pc /\ asking'.system = asking.system /\ asking'.ids = asking.ids
      /\ asking'.wasCovered = covered /\ asking'.wasUncovered = uncovered
      /\ asking'.changes = changes
  BY <1>2, <1>3 DEF QuestionType
<1> QED
  BY <1>4, <1>5 DEF covered, uncovered

LEMMA ReportKeepsQuestion ==
  ASSUME QuestionInv, ReportStep
  PROVE  QuestionInv'
<1>1. Watch
  BY DEF ReportStep, CreateIncident, UpdateIncident, AddUpdate, ResolveIncident, DeleteIncident, Unlink, Link,
         Linked, SetStatus, LogUpdate, ReportLost, RemoveSystemAssociations
<1>2. CASE asking.pc # "readIncidents"
  <2>1. asking' = asking
    BY <1>1, <1>2 DEF Watch
  <2> QED
    BY <1>2, <2>1 DEF QuestionInv, QuestionKept, AnswerWasDue
<1>3. CASE asking.pc = "readIncidents"
  <2> DEFINE s == asking.system
             now == Covered(Active', links', s)
             same == Active' = Active /\ links' = links
  <2>1. /\ asking' \in QuestionType
        /\ asking'.pc = "readIncidents" /\ asking'.system = s /\ asking'.ids = asking.ids
        /\ asking'.wasCovered <=> asking.wasCovered \/ now
        /\ asking'.wasUncovered <=> asking.wasUncovered \/ ~now
        /\ asking'.changes = 0 => same /\ asking.changes = 0
        /\ asking'.changes = 1 => (same /\ asking.changes = 1) \/ asking.changes = 0
    BY <1>1, <1>3, Watched DEF QuestionInv
  <2>2. Active \in SUBSET AllIncidents /\ Active' \in SUBSET AllIncidents
    BY DEF Active
  <2>3. Answers(LinkedTo(links', s), Active', asking')
    <3>1. now <=> LinkedTo(links', s) \cap Active' # {}
      BY <2>2, CoveredBy
    <3> QED
      BY <2>1, <3>1 DEF Answers
  <2>4. \A ids, active : Answers(ids, active, asking) => Answers(ids, active, asking')
    BY <2>1 DEF Answers
  <2>5. ASSUME asking'.changes = 0
        PROVE  asking.ids = LinkedTo(links', s)
    BY <1>3, <2>1, <2>5 DEF QuestionInv, QuestionKept
  <2>6. ASSUME asking'.changes = 1
        PROVE  Answers(asking.ids, Active', asking')
    <3>1. CASE same /\ asking.changes = 1
      BY <1>3, <2>4, <3>1 DEF QuestionInv, QuestionKept
    <3>2. CASE asking.changes = 0
      <4>1. asking.ids = LinkedTo(links, s) /\ Answers(asking.ids, Active, asking)
        BY <1>3, <3>2 DEF QuestionInv, QuestionKept
      <4>2. CASE links' = links
        BY <2>3, <4>1, <4>2
      <4>3. CASE Active' = Active
        BY <2>4, <4>1, <4>3
      <4>4. ASSUME NEW n \in AllIncidents, Active' = Active \ {n}, links' = {l \in links : l[1] # n}
            PROVE  Answers(asking.ids, Active', asking')
        <5>1. LinkedTo(links', s) = LinkedTo(links, s) \ {n}
          BY <4>4 DEF LinkedTo
        <5>2. LinkedTo(links', s) \cap Active' = asking.ids \cap Active'
          BY <4>1, <4>4, <5>1
        <5> QED
          BY <2>3, <5>2 DEF Answers
      <4> QED
        BY <4>2, <4>3, <4>4, OneAtOnce
    <3> QED
      BY <2>1, <2>6, <3>1, <3>2
  <2>7. QuestionKept'
    BY <2>1, <2>3, <2>5, <2>6 DEF QuestionKept
  <2>8. AnswerWasDue'
    BY <2>1 DEF AnswerWasDue
  <2> QED
    BY <2>1, <2>7, <2>8 DEF QuestionInv
<1> QED
  BY <1>2, <1>3

LEMMA NoQuestionIs ==
  /\ NoQuestion \in QuestionType /\ NoQuestion.pc = "idle" /\ NoQuestion.changes = 0
<1>1. PICK pc \in {"idle", "readIncidents", "answered"} : pc = "idle"
  OBVIOUS
<1>2. PICK none \in LinkedSystems \cup {"none"} : none = "none"
  OBVIOUS
<1>3. PICK ids \in SUBSET AllIncidents : ids = {}
  OBVIOUS
<1>4. PICK no \in BOOLEAN : no = FALSE
  OBVIOUS
<1>5. PICK zero \in 0..2 : zero = 0
  OBVIOUS
<1>6. NoQuestion = [pc |-> pc, system |-> none, ids |-> ids, wasCovered |-> no,
                    wasUncovered |-> no, changes |-> zero, answer |-> no]
  BY <1>1, <1>2, <1>3, <1>4, <1>5 DEF NoQuestion
<1> HIDE DEF NoQuestion
<1> QED
  BY <1>1, <1>5, <1>6 DEF QuestionType

LEMMA QuestionStepKeeps ==
  ASSUME QuestionInv, QuestionStep
  PROVE  QuestionInv'
<1>1. ASSUME NEW s \in LinkedSystems, ReadLinks(s)
      PROVE  QuestionInv'
  <2> DEFINE now == Covered(Active, links, s)
             covered == now
             uncovered == ~now
             ids == {n \in AllIncidents : <<n, s>> \in links}
  <2>1. PICK pc \in {"idle", "readIncidents", "answered"} : pc = "readIncidents"
    OBVIOUS
  <2>2. covered \in BOOLEAN /\ uncovered \in BOOLEAN /\ ids \in SUBSET AllIncidents
    BY DEF Covered
  <2>3. asking' = [NoQuestion EXCEPT !.pc = pc, !.system = s, !.ids = ids,
                                     !.wasCovered = covered, !.wasUncovered = uncovered]
    BY <1>1, <2>1 DEF ReadLinks
  <2>4. UNCHANGED <<status, suppressing, links>>
    BY <1>1 DEF ReadLinks
  <2> HIDE DEF covered, uncovered, ids
  <2>5. /\ asking' \in QuestionType /\ asking'.pc = pc /\ asking'.system = s /\ asking'.ids = ids
        /\ asking'.wasCovered = covered /\ asking'.wasUncovered = uncovered /\ asking'.changes = 0
    BY <2>2, <2>3, NoQuestionIs DEF QuestionType
  <2>6. ids = LinkedTo(links, s) /\ Active \in SUBSET AllIncidents
    BY DEF ids, LinkedTo, Active
  <2>7. Active' = Active /\ links' = links
    BY <2>4 DEF Active
  <2>8. Answers(LinkedTo(links', s), Active', asking')
    <3>1. now <=> LinkedTo(links, s) \cap Active # {}
      BY <2>6, CoveredBy
    <3> QED
      BY <2>5, <2>7, <3>1 DEF Answers, covered, uncovered
  <2>9. QuestionKept' /\ AnswerWasDue'
    BY <2>1, <2>5, <2>6, <2>7, <2>8 DEF QuestionKept, AnswerWasDue
  <2> QED
    BY <2>5, <2>9 DEF QuestionInv
<1>2. CASE ReadIncidents
  <2> DEFINE answer == asking.ids \cap Active # {}
  <2>1. PICK pc \in {"idle", "readIncidents", "answered"} : pc = "answered"
    OBVIOUS
  <2>2. asking' = [asking EXCEPT !.pc = pc, !.answer = answer] /\ asking.pc = "readIncidents"
    BY <1>2, <2>1 DEF ReadIncidents
  <2>3. answer \in BOOLEAN
    OBVIOUS
  <2> HIDE DEF answer
  <2>4. /\ asking' \in QuestionType /\ asking'.pc = pc /\ asking'.answer = answer
        /\ asking'.changes = asking.changes /\ asking.changes \in 0..2
        /\ asking'.wasCovered = asking.wasCovered /\ asking'.wasUncovered = asking.wasUncovered
    BY <2>2, <2>3 DEF QuestionInv, QuestionType
  <2>5. asking.changes <= 1 => asking.changes = 0 \/ asking.changes = 1
    BY <2>4
  <2>6. asking.changes <= 1 => Answers(asking.ids, Active, asking)
    BY <2>2, <2>5 DEF QuestionInv, QuestionKept
  <2>7. QuestionKept'
    BY <2>1, <2>4 DEF QuestionKept
  <2>8. AnswerWasDue'
    BY <2>4, <2>6 DEF AnswerWasDue, Answers, answer
  <2> QED
    BY <2>4, <2>7, <2>8 DEF QuestionInv
<1> QED
  BY <1>1, <1>2 DEF QuestionStep

\* Whatever reports and deletions fall between the two queries of the question whether a
\* system's notifications are suppressed, its answer was right at some moment of the
\* question, as long as at most one of them changes an incident's state or links
\* (core/incident-backend/src/service.ts:338).
THEOREM AnswerWasDueCorrect == SystemsSpec => []AnswerWasDue
<1>1. SystemsInit => QuestionInv
  BY NoQuestionIs DEF SystemsInit, IncidentsInit, QuestionInv, QuestionKept, AnswerWasDue
<1>2. QuestionInv /\ [SystemsNext]_systemsVars => QuestionInv'
  <2>1. QuestionInv /\ UNCHANGED incidentVars => QuestionInv'
    BY DEF incidentVars, QuestionInv, QuestionKept, AnswerWasDue, Active
  <2>2. UNCHANGED systemsVars => UNCHANGED incidentVars
    BY DEF systemsVars
  <2> QED
    BY <2>1, <2>2, IncidentSteps, ReportKeepsQuestion, QuestionStepKeeps DEF IncidentStep
<1>3. QuestionInv => AnswerWasDue
  BY DEF QuestionInv
<1> QED
  BY <1>1, <1>2, <1>3, PTL DEF SystemsSpec

-----------------------------------------------------------------------------
(* Systems: what the plugins hold of deleted systems *)

\* The plugin holds nothing of s, or its job of the hook is still to be run.
HealthCheckForgets(s) ==
  <<"healthcheck", s>> \in cleanups \/ \A k \in Checks : k[1] = s => associations[k] = "none"
IncidentForgets(s) ==
  <<"incident", s>> \in cleanups \/ \A l \in links : l[2] # s

\* A deletion is seen to by a request that has yet to emit the hook, or the hook has
\* done or will do so.
DeletionSeenTo(s) ==
  (\E k \in Editors : DeletionAhead(k, s)) \/ (HealthCheckForgets(s) /\ IncidentForgets(s))

DeletedUndisturbed(s) == entities[s] = "deleted" /\ s \notin addedLate \cup mayDiffer

ForgettingInv ==
  /\ GroupsInv /\ SchedulingInv
  /\ \A s \in Systems : DeletedUndisturbed(s) => DeletionSeenTo(s)

LEMMA AheadKept ==
  ASSUME CatalogTypes, NEW k \in Editors, NEW pc \in EditPoints, NEW e \in Entities, Goes(k, pc, e),
         NEW s \in Systems, DeletionAhead(k, s) => pc \in {"deleteGroup", "emit"} /\ e = s
  PROVE  (\E x \in Editors : DeletionAhead(x, s)) => (\E x \in Editors : DeletionAhead(x, s)')
<1>1. /\ \A x \in Editors : x # k => editing'[x] = editing[x]
      /\ editing'[k].pc = pc /\ (pc # "idle" => editing'[k].on = e)
  BY EditorGoes
<1> QED
  BY <1>1 DEF DeletionAhead

\* A step of the catalog, while the plugins' data stay as they are.
LEMMA CatalogForgets ==
  ASSUME GroupsInv, CatalogStep, UNCHANGED <<associations, links>>, addedLate \subseteq addedLate',
         NEW s \in Systems, DeletedUndisturbed(s) => DeletionSeenTo(s), DeletedUndisturbed(s)',
         \A job \in cleanups \ cleanups' : job[2] # s
  PROVE  DeletionSeenTo(s)'
<1> USE DEF GroupsInv
<1>1. s \in Entities
  BY DEF Entities
<1>2. (HealthCheckForgets(s) => HealthCheckForgets(s)') /\ (IncidentForgets(s) => IncidentForgets(s)')
  <2>1. <<"healthcheck", s>>[2] = s /\ <<"incident", s>>[2] = s
    OBVIOUS
  <2>2. /\ <<"healthcheck", s>> \in cleanups => <<"healthcheck", s>> \in cleanups'
        /\ <<"incident", s>> \in cleanups => <<"incident", s>> \in cleanups'
    BY <2>1
  <2> QED
    BY <2>2 DEF HealthCheckForgets, IncidentForgets
<1>3. ASSUME entities'[s] = "deleted" => entities[s] = "deleted", mayDiffer \subseteq mayDiffer',
             (\E x \in Editors : DeletionAhead(x, s)) => (\E x \in Editors : DeletionAhead(x, s)')
      PROVE  DeletionSeenTo(s)'
  <2>1. DeletedUndisturbed(s)
    BY <1>3 DEF DeletedUndisturbed
  <2> QED
    BY <1>2, <1>3, <2>1 DEF DeletionSeenTo
<1>4. CASE UNCHANGED <<entities, editing>> /\ mayDiffer \subseteq mayDiffer'
  BY <1>3, <1>4 DEF DeletionAhead
<1>5. ASSUME NEW k \in Editors, NEW e \in Entities, CreateEntity(k, e)
      PROVE  DeletionSeenTo(s)'
  <2>1. /\ Goes(k, "createGroup", e) /\ "createGroup" \in EditPoints /\ ~DeletionAhead(k, s)
        /\ entities' = [entities EXCEPT ![e] = "present"] /\ mayDiffer' = mayDiffer
    BY <1>5 DEF CreateEntity, EditPoints, DeletionAhead, At
  <2>2. (\E x \in Editors : DeletionAhead(x, s)) => (\E x \in Editors : DeletionAhead(x, s)')
    BY <2>1, AheadKept
  <2> QED
    BY <1>1, <1>3, <2>1, <2>2 DEF CatalogTypes
<1>6. ASSUME NEW k \in Editors, NEW e \in Entities, DeleteEntity(k, e)
      PROVE  DeletionSeenTo(s)'
  <2>1. /\ Goes(k, "deleteGroup", e) /\ "deleteGroup" \in EditPoints /\ ~DeletionAhead(k, s)
        /\ entities' = [entities EXCEPT ![e] = "deleted"] /\ mayDiffer \subseteq mayDiffer'
    BY <1>6 DEF DeleteEntity, EditPoints, DeletionAhead, At
  <2>2. CASE e = s
    <3>1. editing'[k].pc = "deleteGroup" /\ editing'[k].on = s
      BY <2>1, <2>2, EditorGoes
    <3> QED
      BY <3>1 DEF DeletionSeenTo, DeletionAhead
  <2>3. CASE e # s
    <3>1. (\E x \in Editors : DeletionAhead(x, s)) => (\E x \in Editors : DeletionAhead(x, s)')
      BY <2>1, AheadKept
    <3> QED
      BY <1>1, <1>3, <2>1, <2>3, <3>1 DEF CatalogTypes
  <2> QED
    BY <2>2, <2>3
<1>7. ASSUME NEW k \in Editors, CreateNotificationGroup(k) \/ DeleteNotificationGroup(k)
                                \/ EmitDeleted(k) \/ RequestLost(k)
      PROVE  DeletionSeenTo(s)'
  <2> DEFINE e == editing[k].on
  <2>1. e \in Entities /\ UNCHANGED entities /\ mayDiffer \subseteq mayDiffer'
    BY <1>7 DEF CreateNotificationGroup, DeleteNotificationGroup, EmitDeleted, RequestLost, At, CatalogTypes, rows
  <2>2. CASE CreateNotificationGroup(k)
    <3>1. Goes(k, "idle", e) /\ "idle" \in EditPoints /\ ~DeletionAhead(k, s)
      BY <2>2 DEF CreateNotificationGroup, EditPoints, DeletionAhead, At
    <3>2. (\E x \in Editors : DeletionAhead(x, s)) => (\E x \in Editors : DeletionAhead(x, s)')
      BY <2>1, <3>1, AheadKept
    <3> QED
      BY <1>3, <2>1, <3>2
  <2>3. CASE DeleteNotificationGroup(k)
    <3>1. Goes(k, "emit", e) /\ "emit" \in EditPoints /\ (DeletionAhead(k, s) => e = s)
      BY <2>3 DEF DeleteNotificationGroup, EditPoints, DeletionAhead
    <3>2. (\E x \in Editors : DeletionAhead(x, s)) => (\E x \in Editors : DeletionAhead(x, s)')
      BY <2>1, <3>1, AheadKept
    <3> QED
      BY <1>3, <2>1, <3>2
  <2>4. CASE EmitDeleted(k) /\ e = s
    <3>1. e \notin mayDiffer'
      BY <2>4 DEF DeletedUndisturbed
    <3>2. cleanups' = cleanups \cup (Cleaners \X {s})
      BY <2>4, <3>1 DEF EmitDeleted
    <3>3. <<"healthcheck", s>> \in cleanups' /\ <<"incident", s>> \in cleanups'
      BY <3>2, PluginAssumption
    <3> QED
      BY <3>3 DEF DeletionSeenTo, HealthCheckForgets, IncidentForgets
  <2>5. CASE (EmitDeleted(k) \/ RequestLost(k)) /\ e # s
    <3>1. Goes(k, "idle", e) /\ "idle" \in EditPoints /\ ~DeletionAhead(k, s)
      BY <2>5 DEF EmitDeleted, RequestLost, EditPoints, DeletionAhead
    <3>2. (\E x \in Editors : DeletionAhead(x, s)) => (\E x \in Editors : DeletionAhead(x, s)')
      BY <2>1, <3>1, AheadKept
    <3> QED
      BY <1>3, <2>1, <3>2
  <2>6. CASE RequestLost(k) /\ e = s
    BY <2>6 DEF RequestLost, DeletedUndisturbed
  <2> QED
    BY <1>7, <2>2, <2>3, <2>4, <2>5, <2>6
<1>8. CASE SubscriptionStep
  <2>1. UNCHANGED <<entities, mayDiffer>>
    BY <1>8 DEF SubscriptionStep, Subscribe, Unsubscribe, InsertSubscription, DeleteContactsOf,
           DeleteSubscriptionsOf, EditContacts, rows, groupRows
  <2>2. ASSUME NEW k \in Editors, NEW e \in Entities, NEW pc \in EditPoints,
               editing[k].pc \in {"idle", "subscribe"}, Goes(k, pc, e)
        PROVE  DeletionSeenTo(s)'
    <3>1. ~DeletionAhead(k, s)
      BY <2>2 DEF DeletionAhead
    <3>2. (\E x \in Editors : DeletionAhead(x, s)) => (\E x \in Editors : DeletionAhead(x, s)')
      BY <2>2, <3>1, AheadKept
    <3> QED
      BY <1>3, <2>1, <3>2
  <2>3. PICK k \in Editors :
          \/ \E e \in Entities : Subscribe(k, e) \/ Unsubscribe(k, e)
          \/ InsertSubscription(k) \/ DeleteContactsOf(k) \/ DeleteSubscriptionsOf(k)
          \/ \E t \in Systems : EditContacts(t, k)
    BY <1>8 DEF SubscriptionStep
  <2>4. ASSUME NEW e \in Entities, Subscribe(k, e)
        PROVE  DeletionSeenTo(s)'
    BY <2>2, <2>4 DEF Subscribe, At, EditPoints
  <2>5. CASE InsertSubscription(k)
    BY <2>2, <2>5 DEF InsertSubscription, At, EditPoints, CatalogTypes
  <2> QED
    BY <1>4, <2>1, <2>3, <2>4, <2>5 DEF Unsubscribe, DeleteContactsOf, DeleteSubscriptionsOf, EditContacts
<1>9. CASE MemberStep \/ (\E job \in cleanups : CleanupDone(job))
  BY <1>4, <1>9 DEF MemberStep, EditMembers, CleanupDone
<1>10. ASSUME NEW i \in Servers, BootReadSystems(i) \/ BootReadGroups(i) \/ BootCreateGroup(i) \/ BootstrapEnds(i)
       PROVE  DeletionSeenTo(s)'
  BY <1>4, <1>10 DEF BootReadSystems, BootReadGroups, BootCreateGroup, BootstrapEnds, rows
<1> QED
  BY <1>5, <1>6, <1>7, <1>8, <1>9, <1>10 DEF CatalogStep, EntityStep

\* A step of the plugins, which leaves the catalog but for a job of the hook that it runs.
LEMMA PluginForgets ==
  ASSUME UNCHANGED <<entities, editing, mayDiffer>>, addedLate \subseteq addedLate',
         NEW s \in Systems, DeletedUndisturbed(s) => DeletionSeenTo(s), DeletedUndisturbed(s)',
         HealthCheckForgets(s) => HealthCheckForgets(s)',
         IncidentForgets(s) => IncidentForgets(s)'
  PROVE  DeletionSeenTo(s)'
<1>1. DeletedUndisturbed(s)
  BY DEF DeletedUndisturbed
<1>2. \A k \in Editors : DeletionAhead(k, s) => DeletionAhead(k, s)'
  BY DEF DeletionAhead
<1> QED
  BY <1>1, <1>2 DEF DeletionSeenTo

LEMMA ForgettingStep ==
  ASSUME ForgettingInv, SystemsNext, NEW s \in Systems, DeletedUndisturbed(s)'
  PROVE  DeletionSeenTo(s)'
<1> USE DEF ForgettingInv
<1>1. DeletedUndisturbed(s) => DeletionSeenTo(s)
  OBVIOUS
<1>2. addedLate \subseteq addedLate'
  BY DEF SystemsNext, RequestBegins, SchedulingRequest, Keep, Late, RequestProceeds, InstanceStarts, Cleanup,
         Fault, CleanupLost
<1>3. ASSUME CatalogStep, UNCHANGED <<associations, links, cleanups>>
      PROVE  DeletionSeenTo(s)'
  BY <1>1, <1>2, <1>3, CatalogForgets
<1>4. ASSUME UNCHANGED <<catalogVars, links>>, associations' = associations
      PROVE  DeletionSeenTo(s)'
  BY <1>1, <1>2, <1>4, PluginForgets DEF catalogVars, HealthCheckForgets, IncidentForgets
<1>5. ASSUME UNCHANGED <<catalogVars, associations>>,
             \A l \in links' \ links : l[2] # s
      PROVE  DeletionSeenTo(s)'
  BY <1>1, <1>2, <1>5, PluginForgets DEF catalogVars, HealthCheckForgets, IncidentForgets
<1>6. ASSUME UNCHANGED <<catalogVars, links>>,
             \A k \in Checks : k[1] = s => associations'[k] \in {"none", associations[k]}
      PROVE  DeletionSeenTo(s)'
  <2>1. HealthCheckForgets(s) => HealthCheckForgets(s)'
    BY <1>6 DEF catalogVars, HealthCheckForgets
  <2>2. IncidentForgets(s) => IncidentForgets(s)'
    BY <1>6 DEF catalogVars, IncidentForgets
  <2> QED
    BY <1>1, <1>2, <1>6, <2>1, <2>2, PluginForgets DEF catalogVars
<1>7. CASE RequestBegins
  <2>1. CASE CatalogRequest /\ UNCHANGED <<schedulingVars, incidentVars>>
    <3>1. CatalogStep
      BY <2>1 DEF CatalogRequest, CatalogStep, EntityStep, SubscriptionStep, MemberStep, Entities
    <3>2. UNCHANGED <<associations, links, cleanups>>
      BY <2>1 DEF CatalogRequest, CreateEntity, DeleteEntity, Subscribe, Unsubscribe, EditMembers, EditContacts,
                  DeleteContactsOf, DeleteSubscriptionsOf, schedulingVars, incidentVars
    <3> QED
      BY <1>3, <3>1, <3>2
  <2>2. CASE SchedulingRequest /\ UNCHANGED <<catalogVars, incidentVars>>
    <3>1. UNCHANGED <<catalogVars, links>>
      BY <2>2 DEF incidentVars
    <3>2. ASSUME NEW who \in Schedulers, NEW i \in Instances, NEW k \in Checks, NEW enabled \in BOOLEAN,
                 AssociateSystem(who, i, k, enabled), addedLate' = Late(k[1])
          PROVE  DeletionSeenTo(s)'
      <4>1. k[1] # s
        BY <3>1, <3>2 DEF catalogVars, Late, DeletedUndisturbed
      <4>2. \A l \in Checks : l # k => associations'[l] = associations[l]
        BY <3>2 DEF AssociateSystem, SchedulingInv, SchedulingTypes
      <4> QED
        BY <1>6, <3>1, <4>1, <4>2
    <3>3. ASSUME NEW c \in Configs, CreateConfiguration(c) \/ DeleteConfiguration(c)
          PROVE  DeletionSeenTo(s)'
      BY <1>6, <3>1, <3>3 DEF CreateConfiguration, DeleteConfiguration
    <3>4. ASSUME NEW k \in Checks, DisassociateSystem(k)
          PROVE  DeletionSeenTo(s)'
      BY <1>6, <3>1, <3>4 DEF DisassociateSystem, SchedulingInv, SchedulingTypes
    <3> QED
      BY <2>2, <3>2, <3>3, <3>4 DEF SchedulingRequest
  <2>3. CASE IncidentRequest /\ UNCHANGED <<catalogVars, schedulingVars>>
    <3>1. links' \subseteq links
      BY <2>3 DEF IncidentRequest, CreateIncident, UpdateIncident, AddUpdate, ResolveIncident, DeleteIncident, ReadLinks
    <3> QED
      BY <1>5, <2>3, <3>1 DEF schedulingVars
  <2> QED
    BY <1>7, <2>1, <2>2, <2>3 DEF RequestBegins
<1>8. CASE RequestProceeds
  <2>1. ASSUME NEW k \in Editors, UNCHANGED <<schedulingVars, incidentVars>>,
               CreateNotificationGroup(k) \/ DeleteNotificationGroup(k) \/ EmitDeleted(k) \/ InsertSubscription(k)
        PROVE  DeletionSeenTo(s)'
    <3>1. CatalogStep
      BY <2>1 DEF CatalogStep, EntityStep, SubscriptionStep
    <3>2. cleanups \subseteq cleanups'
      BY <2>1 DEF CreateNotificationGroup, DeleteNotificationGroup, EmitDeleted, InsertSubscription
    <3> QED
      BY <1>1, <1>2, <2>1, <3>1, <3>2, CatalogForgets DEF schedulingVars, incidentVars
  <2>2. ASSUME NEW who \in Schedulers, UNCHANGED <<catalogVars, incidentVars>>,
               ReadConfig(who) \/ ScheduleHealthCheck(who) \/ SchedulingFails(who)
        PROVE  DeletionSeenTo(s)'
    BY <1>4, <2>2 DEF ReadConfig, ScheduleHealthCheck, SchedulingFails, incidentVars
  <2>3. ASSUME addedLate' = addedLate \cup {t \in Systems : entities[t] = "deleted" /\ \E l \in links' \ links : l[2] = t},
               UNCHANGED <<catalogVars, schedulingVars>>
        PROVE  DeletionSeenTo(s)'
    <3>1. entities[s] = "deleted" /\ s \notin addedLate'
      BY <2>3 DEF catalogVars, DeletedUndisturbed
    <3>2. \A l \in links' \ links : l[2] # s
      BY <2>3, <3>1
    <3> QED
      BY <1>5, <2>3, <3>2 DEF schedulingVars
  <2>4. CASE ReadIncidents /\ UNCHANGED <<catalogVars, schedulingVars>>
    BY <1>4, <2>4 DEF ReadIncidents, schedulingVars
  <2> QED
    BY <1>8, <2>1, <2>2, <2>3, <2>4 DEF RequestProceeds
<1>9. CASE InstanceStarts
  <2>1. ASSUME NEW i \in Servers, UNCHANGED <<schedulingVars, incidentVars>>,
               BootReadSystems(i) \/ BootReadGroups(i) \/ BootCreateGroup(i) \/ BootstrapEnds(i)
        PROVE  DeletionSeenTo(s)'
    <3>1. CatalogStep
      BY <2>1 DEF CatalogStep, EntityStep
    <3>2. UNCHANGED cleanups
      BY <2>1 DEF BootReadSystems, BootReadGroups, BootCreateGroup, BootstrapEnds
    <3> QED
      BY <1>3, <2>1, <3>1, <3>2 DEF schedulingVars, incidentVars
  <2>2. ASSUME NEW i \in Instances, UNCHANGED <<catalogVars, incidentVars>>,
               StartReadEnabled(i) \/ StartSchedule(i) \/ StartListOrphans(i) \/ StartCancel(i) \/ StartEnds(i)
        PROVE  DeletionSeenTo(s)'
    BY <1>4, <2>2 DEF StartReadEnabled, StartSchedule, StartListOrphans, StartCancel, StartEnds, incidentVars
  <2> QED
    BY <1>9, <2>1, <2>2 DEF InstanceStarts
<1>10. CASE Cleanup
  <2>1. UNCHANGED <<entities, editing, mayDiffer>>
    BY <1>10 DEF Cleanup, HealthCheckCleanup, IncidentCleanup, CleanupDone
  <2>2. ASSUME NEW t \in Systems, HealthCheckCleanup(t)
        PROVE  DeletionSeenTo(s)'
    <3>1. /\ cleanups' = cleanups \ {<<"healthcheck", t>>} /\ links' = links
          /\ associations' = [k \in Checks |-> IF k[1] = t THEN "none" ELSE associations[k]]
      BY <2>2 DEF HealthCheckCleanup, CleanupDone, RemoveAllSystemAssociations, incidentVars
    <3>2. HealthCheckForgets(s) => HealthCheckForgets(s)'
      <4>1. CASE s = t
        BY <3>1, <4>1 DEF HealthCheckForgets
      <4>2. CASE s # t
        BY <3>1, <4>2 DEF HealthCheckForgets
      <4> QED
        BY <4>1, <4>2
    <3>3. IncidentForgets(s) => IncidentForgets(s)'
      BY <3>1 DEF IncidentForgets
    <3> QED
      BY <1>1, <1>2, <2>1, <3>2, <3>3, PluginForgets
  <2>3. ASSUME NEW t \in Systems, IncidentCleanup(t)
        PROVE  DeletionSeenTo(s)'
    <3>1. /\ cleanups' = cleanups \ {<<"incident", t>>} /\ associations' = associations
          /\ links' = {l \in links : l[2] # t}
      BY <2>3 DEF IncidentCleanup, CleanupDone, RemoveSystemAssociations, schedulingVars
    <3>2. HealthCheckForgets(s) => HealthCheckForgets(s)'
      BY <3>1 DEF HealthCheckForgets
    <3>3. IncidentForgets(s) => IncidentForgets(s)'
      <4>1. CASE s = t
        BY <3>1, <4>1 DEF IncidentForgets
      <4>2. CASE s # t
        BY <3>1, <4>2 DEF IncidentForgets
      <4> QED
        BY <4>1, <4>2
    <3> QED
      BY <1>1, <1>2, <2>1, <3>2, <3>3, PluginForgets
  <2> QED
    BY <1>10, <2>2, <2>3 DEF Cleanup
<1>11. CASE Fault
  <2>1. ASSUME NEW k \in Editors, RequestLost(k), UNCHANGED <<schedulingVars, incidentVars>>
        PROVE  DeletionSeenTo(s)'
    <3>1. CatalogStep /\ UNCHANGED cleanups
      BY <2>1 DEF CatalogStep, EntityStep, RequestLost
    <3> QED
      BY <1>3, <2>1, <3>1 DEF schedulingVars, incidentVars
  <2>2. ASSUME NEW i \in Instances, Crash(i), UNCHANGED <<catalogVars, incidentVars>>
        PROVE  DeletionSeenTo(s)'
    BY <1>4, <2>2 DEF Crash, incidentVars
  <2>3. ASSUME NEW k \in Reporters, ReportLost(k), UNCHANGED <<catalogVars, schedulingVars>>
        PROVE  DeletionSeenTo(s)'
    BY <1>4, <2>3 DEF ReportLost, schedulingVars
  <2>4. ASSUME NEW job \in cleanups, CleanupLost(job)
        PROVE  DeletionSeenTo(s)'
    <3>1. CatalogStep /\ UNCHANGED <<associations, links>>
      BY <2>4 DEF CleanupLost, CatalogStep, EntityStep, schedulingVars, incidentVars
    <3>2. cleanups' = cleanups \ {job} /\ job[2] # s
      BY <2>4 DEF CleanupLost, CleanupDone, DeletedUndisturbed
    <3> QED
      BY <1>1, <1>2, <3>1, <3>2, CatalogForgets
  <2> QED
    BY <1>11, <2>1, <2>2, <2>3, <2>4 DEF Fault
<1> QED
  BY <1>7, <1>8, <1>9, <1>10, <1>11 DEF SystemsNext

\* Whatever requests, starting instances and crashes come in between: once a deletion has
\* emitted its hook and the hook's jobs have run, no check and no incident refers to the
\* system, if no request used its id after the deletion and neither the deletion nor its
\* hook broke off (core/healthcheck-backend/src/service.ts:239,
\* core/incident-backend/src/service.ts:327).
THEOREM DeletedSystemsForgottenCorrect == SystemsSpec => []DeletedSystemsForgotten
<1>1. SystemsInit => ForgettingInv
  <2>1. SystemsInit => \A s \in Systems : entities[s] # "deleted"
    BY DEF SystemsInit, CatalogInit, Entities
  <2> QED
    BY <2>1, GroupsInvInductive, SchedulingInvInductive DEF ForgettingInv, DeletedUndisturbed
<1>2. ForgettingInv /\ [SystemsNext]_systemsVars => ForgettingInv'
  <2>1. ForgettingInv /\ SystemsNext => ForgettingInv'
    BY ForgettingStep, GroupsInvInductive, SchedulingInvInductive DEF ForgettingInv
  <2>2. ForgettingInv /\ UNCHANGED systemsVars => ForgettingInv'
    <3> SUFFICES ASSUME ForgettingInv, UNCHANGED systemsVars
                 PROVE  ForgettingInv'
      OBVIOUS
    <3>1. (GroupsInv /\ SchedulingInv)'
      BY GroupsInvInductive, SchedulingInvInductive DEF ForgettingInv
    <3>2. \A s \in Systems : (DeletedUndisturbed(s) => DeletionSeenTo(s))'
      BY DEF ForgettingInv, systemsVars, catalogVars, schedulingVars, incidentVars, DeletedUndisturbed,
             DeletionSeenTo, DeletionAhead, HealthCheckForgets, IncidentForgets
    <3> QED
      BY <3>1, <3>2 DEF ForgettingInv
  <2> QED
    BY <2>1, <2>2
<1>3. ForgettingInv => DeletedSystemsForgotten
  <2> SUFFICES ASSUME ForgettingInv, CatalogAtRest, cleanups = {},
                      NEW s \in {t \in Systems : entities[t] = "deleted"} \ (addedLate \cup mayDiffer)
               PROVE  /\ \A k \in Checks : k[1] = s => associations[k] = "none"
                      /\ \A l \in links : l[2] # s
    BY DEF DeletedSystemsForgotten
  <2>1. DeletionSeenTo(s)
    BY DEF ForgettingInv, DeletedUndisturbed
  <2>2. \A k \in Editors : ~DeletionAhead(k, s)
    BY DEF CatalogAtRest, DeletionAhead, At
  <2> QED
    BY <2>1, <2>2 DEF DeletionSeenTo, HealthCheckForgets, IncidentForgets
<1> QED
  BY <1>1, <1>2, <1>3, PTL DEF SystemsSpec

-----------------------------------------------------------------------------
(* MaintenanceWindows, a specification of its own: what the minute job and the
   users next to it do to a window, for any windows, users, instances and minutes. *)

UpdateType == [pc : {"idle", "readPrevious", "setStatus", "log", "announce"},
               of : Windows \cup {"none"}, to : WindowStatuses \cup {"none"},
               previous : WindowStatuses \cup {"none", "unborn", "deleted"}]
RunType == [phase : {"off", "start", "complete"}, todo : SUBSET Windows]

MinuteTypes ==
  /\ window \in [Windows -> WindowStatuses \cup {"unborn", "deleted"}]
  /\ updating \in [Actors -> UpdateType] /\ running \in [Workers -> RunType]
  /\ told \in [Windows -> Announcements] /\ endedSince \in [Workers -> SUBSET Windows]
  /\ \A a \in Actors : updating[a].pc # "idle" =>
       updating[a].of \in Windows /\ updating[a].to \in WindowStatuses

\* No row is made of an id that an update, a list or subscribers know.
NamesBorn ==
  /\ \A a \in Actors : updating[a].pc # "idle" => window[updating[a].of] # "unborn"
  /\ \A j \in Workers : \A w \in running[j].todo : window[w] # "unborn"
  /\ \A w \in Windows : told[w] # "none" => window[w] # "unborn"

MayStart(j, w) ==
  w \in running[j].todo \/ (updating[j].pc \in {"readPrevious", "setStatus"} /\ updating[j].of = w)

\* What a worker may still start has not ended since it read whom to start.
StartsKnown ==
  \A j \in Workers :
    /\ updating[j].pc # "idle" =>
         running[j].phase # "off" /\ (updating[j].to = "in_progress" => running[j].phase = "start")
    /\ running[j].phase = "start" =>
         \A w \in Windows : (MayStart(j, w) /\ window[w] \in Ended) => w \in endedSince[j]

MinuteInv == MinuteTypes /\ NamesBorn

LEMMA NoUpdateIs == NoUpdate \in UpdateType /\ NoUpdate.pc = "idle"
<1>1. PICK pc \in {"idle", "readPrevious", "setStatus", "log", "announce"} : pc = "idle"
  OBVIOUS
<1>2. PICK none \in WindowStatuses \cup {"none"} : none = "none"
  OBVIOUS
<1>3. NoUpdate = [pc |-> pc, of |-> "none", to |-> none, previous |-> "none"]
  BY <1>1, <1>2 DEF NoUpdate
<1> QED
  BY <1>1, <1>3 DEF UpdateType

LEMMA UpdateIs ==
  ASSUME NEW pc \in {"readPrevious", "setStatus"}, NEW w \in Windows, NEW to \in WindowStatuses
  PROVE  LET new == [pc |-> pc, of |-> w, to |-> to, previous |-> "none"]
         IN new \in UpdateType /\ new.pc = pc /\ new.of = w /\ new.to = to
BY DEF UpdateType

\* What a step of an update does to its actor: it ends, or goes on.
GoesOn(a) ==
  /\ updating[a].pc # "idle" /\ UNCHANGED running
  /\ \E new \in UpdateType :
       /\ updating' = [updating EXCEPT ![a] = new]
       /\ \/ new.pc = "idle"
          \/ /\ new.of = updating[a].of /\ new.to = updating[a].to
             /\ new.pc = IF updating[a].pc = "readPrevious" THEN "setStatus"
                         ELSE IF updating[a].pc = "setStatus" THEN "log" ELSE "announce"

LEMMA UpdateGoesOn ==
  ASSUME MinuteTypes, NEW a \in Actors, UpdateStep(a) \/ UpdateFails(a)
  PROVE  GoesOn(a)
<1> USE DEF MinuteTypes, GoesOn
<1>1. ASSUME ReadPrevious(a) PROVE GoesOn(a)
  <2>1. PICK previous \in WindowStatuses \cup {"none", "unborn", "deleted"} : previous = window[updating[a].of]
    BY <1>1 DEF ReadPrevious, UpdatesAt
  <2>2. /\ updating' = [updating EXCEPT ![a] = [updating[a] EXCEPT !.pc = "setStatus", !.previous = previous]]
        /\ updating[a].pc = "readPrevious" /\ UNCHANGED running
    BY <1>1, <2>1 DEF ReadPrevious, UpdatesAt, Updates
  <2>3. \A u \in UpdateType : [u EXCEPT !.pc = "setStatus", !.previous = previous] \in UpdateType
    <3> HIDE DEF MinuteTypes
    <3> QED
      BY DEF UpdateType
  <2>4. [updating[a] EXCEPT !.pc = "setStatus", !.previous = previous] \in UpdateType
    BY <2>3
  <2> QED
    BY <2>2, <2>4 DEF UpdateType
<1>2. ASSUME NEW pc \in {"log", "announce"}, Updates(a, [updating[a] EXCEPT !.pc = pc]),
             updating[a].pc = IF pc = "log" THEN "setStatus" ELSE "log", UNCHANGED running
      PROVE  GoesOn(a)
  <2>1. [updating[a] EXCEPT !.pc = pc] \in UpdateType
    BY DEF UpdateType
  <2> QED
    BY <1>2, <2>1 DEF Updates, UpdateType
<1>3. ASSUME Updates(a, NoUpdate), updating[a].pc # "idle", UNCHANGED running PROVE GoesOn(a)
  BY <1>3, NoUpdateIs DEF Updates
<1> QED
  BY <1>1, <1>2, <1>3 DEF UpdateStep, SetWindowStatus, LogStatus, Announce, UpdateFails, UpdatesAt

\* An actor's new request, by a user or from the list of the job.
Begins(a, w, to) ==
  /\ updating[a].pc = "idle" /\ window[w] # "unborn"
  /\ \E new \in UpdateType : /\ updating' = [updating EXCEPT ![a] = new]
                             /\ new.pc \in {"readPrevious", "setStatus"} /\ new.of = w /\ new.to = to

LEMMA UpdateBegins ==
  ASSUME MinuteTypes, NEW a \in Actors, NEW w \in Windows, window[w] # "unborn"
  PROVE  /\ CloseMaintenance(a, w) => Begins(a, w, "completed")
         /\ \A to \in WindowStatuses : AddStatusUpdate(a, w, to) => Begins(a, w, to)
<1>1. \A to \in WindowStatuses : AddStatusUpdate(a, w, to) => Begins(a, w, to)
  <2> SUFFICES ASSUME NEW to \in WindowStatuses, AddStatusUpdate(a, w, to) PROVE Begins(a, w, to)
    OBVIOUS
  <2>1. PICK pc \in {"readPrevious", "setStatus"} : pc = "readPrevious"
    OBVIOUS
  <2> DEFINE new == [pc |-> pc, of |-> w, to |-> to, previous |-> "none"]
  <2>2. new \in UpdateType /\ new.pc = pc /\ new.of = w /\ new.to = to
    BY UpdateIs
  <2>3. updating[a].pc = "idle" /\ updating' = [updating EXCEPT ![a] = new]
    BY <2>1 DEF AddStatusUpdate, Updates, UpdatesAt
  <2> HIDE DEF new
  <2> QED
    BY <2>2, <2>3 DEF Begins
<1>2. CloseMaintenance(a, w) => Begins(a, w, "completed")
  <2>1. PICK pc \in {"readPrevious", "setStatus"} : pc = "setStatus"
    OBVIOUS
  <2>2. PICK to \in WindowStatuses : to = "completed"
    BY DEF WindowStatuses, Ended
  <2> DEFINE new == [pc |-> pc, of |-> w, to |-> to, previous |-> "none"]
  <2>3. new \in UpdateType /\ new.pc = pc /\ new.of = w /\ new.to = to
    BY UpdateIs
  <2>4. CloseMaintenance(a, w) => updating[a].pc = "idle" /\ updating' = [updating EXCEPT ![a] = new]
    BY <2>1, <2>2 DEF CloseMaintenance, Updates, UpdatesAt
  <2> HIDE DEF new
  <2> QED
    BY <2>2, <2>3, <2>4 DEF Begins
<1> QED
  BY <1>1, <1>2

\* The job reads its list, its next transition, and its end.
LEMMA JobTypes ==
  ASSUME MinuteTypes, NEW j \in Workers, NEW phase \in {"off", "start", "complete"},
         NEW todo \in SUBSET Windows, Runs(j, phase, todo)
  PROVE  /\ running' \in [Workers -> RunType]
         /\ running'[j].phase = phase /\ running'[j].todo = todo
         /\ \A i \in Workers \ {j} : running'[i] = running[i]
<1>1. [phase |-> phase, todo |-> todo] \in RunType
  BY DEF RunType
<1> QED
  BY <1>1 DEF Runs, MinuteTypes

LEMMA ListsNameRows ==
  ASSUME MinuteTypes
  PROVE  /\ MaintenancesToStart \in SUBSET Windows /\ MaintenancesToComplete \in SUBSET Windows
         /\ \A w \in MaintenancesToStart : window[w] = "scheduled"
         /\ \A w \in MaintenancesToComplete : window[w] = "in_progress"
BY DEF MaintenancesToStart, MaintenancesToComplete


\* The steps, by what they are about.
WindowStep ==
  \E w \in Windows : \/ \E start, end \in 0..Horizon : CreateMaintenance(w, start, end) \/ UpdateMaintenance(w, start, end)
                     \/ DeleteMaintenance(w)
RequestStep ==
  \E a \in Planners, w \in Windows : \/ CloseMaintenance(a, w)
                                     \/ \E to \in WindowStatuses : UserAddsUpdate(a, w, to)
StatusStep == \E a \in Actors : UpdateStep(a) \/ UpdateFails(a)
WorkerStep == \E j \in Workers : JobStep(j) \/ RunLost(j)

LEMMA StepKinds ==
  [MaintenanceNext]_maintenanceVars =>
    \/ WindowStep \/ RequestStep \/ StatusStep \/ WorkerStep
    \/ UNCHANGED <<window, updating, running, told, disturbed, endedSince>>
BY DEF MaintenanceNext, Request, Minute, maintenanceVars, WindowStep, RequestStep, StatusStep, WorkerStep

LEMMA WindowChanges ==
  ASSUME MinuteTypes, WindowStep
  PROVE  /\ UNCHANGED <<updating, running, told, disturbed, endedSince>>
         /\ window' \in [Windows -> WindowStatuses \cup {"unborn", "deleted"}]
         /\ \A w \in Windows :
              \/ window'[w] = window[w]
              \/ window[w] = "unborn" /\ window'[w] = "scheduled"
              \/ window[w] \in WindowStatuses /\ window'[w] = "deleted"
<1>1. PICK w \in Windows :
        \/ \E start, end \in 0..Horizon : CreateMaintenance(w, start, end) \/ UpdateMaintenance(w, start, end)
        \/ DeleteMaintenance(w)
  BY DEF WindowStep
<1>2. UNCHANGED <<updating, running, told, disturbed, endedSince>>
  BY <1>1 DEF CreateMaintenance, UpdateMaintenance, DeleteMaintenance
<1>3. \/ UNCHANGED window
      \/ window[w] = "unborn" /\ window' = [window EXCEPT ![w] = "scheduled"]
      \/ window[w] \in WindowStatuses /\ window' = [window EXCEPT ![w] = "deleted"]
  BY <1>1 DEF CreateMaintenance, UpdateMaintenance, DeleteMaintenance, IsRow
<1>4. "scheduled" \in WindowStatuses
  BY DEF WindowStatuses
<1> QED
  BY <1>2, <1>3, <1>4 DEF MinuteTypes

LEMMA RequestBeginsOf ==
  ASSUME MinuteTypes, RequestStep
  PROVE  /\ UNCHANGED <<window, running, told, endedSince>>
         /\ \E a \in Planners, w \in Windows, to \in WindowStatuses : Begins(a, w, to)
<1>1. PICK a \in Planners, w \in Windows : \/ CloseMaintenance(a, w)
                                           \/ \E to \in WindowStatuses : UserAddsUpdate(a, w, to)
  BY DEF RequestStep
<1>2. window[w] # "unborn" /\ "completed" \in WindowStatuses /\ a \in Actors
  BY <1>1 DEF CloseMaintenance, UserAddsUpdate, IsRow, WindowStatuses, Ended, Actors
<1>3. UNCHANGED <<window, running, told, endedSince>>
  BY <1>1 DEF CloseMaintenance, UserAddsUpdate
<1>4. CASE CloseMaintenance(a, w)
  BY <1>2, <1>3, <1>4, UpdateBegins
<1>5. CASE \E to \in WindowStatuses : UserAddsUpdate(a, w, to)
  BY <1>2, <1>3, <1>5, UpdateBegins DEF UserAddsUpdate
<1> QED
  BY <1>1, <1>4, <1>5

\* What the steps of an update do to the rows and to subscribers.
LEMMA StatusChanges ==
  ASSUME MinuteTypes, NEW a \in Actors, UpdateStep(a) \/ UpdateFails(a)
  PROVE  LET u == updating[a] IN
         /\ u.of \in Windows /\ u.to \in WindowStatuses
         /\ window' = window \/ (/\ u.pc = "setStatus" /\ IsRow(u.of)
                                 /\ window' = [window EXCEPT ![u.of] = u.to]
                                 /\ SetWindowStatus(a))
         /\ told' = told \/ (u.pc = "announce" /\ \E what \in Announcements : told' = [told EXCEPT ![u.of] = what])
         /\ endedSince' = endedSince \/ SetWindowStatus(a)
<1>1. updating[a].pc # "idle"
  BY UpdateGoesOn DEF GoesOn
<1>2. updating[a].of \in Windows /\ updating[a].to \in WindowStatuses
  BY <1>1 DEF MinuteTypes
<1>3. Announcement(updating[a]) \in Announcements
  BY DEF Announcement, Announcements
<1>4. window' = window \/ (/\ updating[a].pc = "setStatus" /\ IsRow(updating[a].of)
                           /\ window' = [window EXCEPT ![updating[a].of] = updating[a].to]
                           /\ SetWindowStatus(a))
  BY DEF UpdateStep, ReadPrevious, SetWindowStatus, LogStatus, Announce, UpdateFails, UpdatesAt
<1>5. told' = told \/ (updating[a].pc = "announce" /\ told' = [told EXCEPT ![updating[a].of] = Announcement(updating[a])])
  BY DEF UpdateStep, ReadPrevious, SetWindowStatus, LogStatus, Announce, UpdateFails, UpdatesAt
<1>6. endedSince' = endedSince \/ SetWindowStatus(a)
  BY DEF UpdateStep, ReadPrevious, LogStatus, Announce, UpdateFails
<1> QED
  BY <1>2, <1>3, <1>4, <1>5, <1>6

\* The job's worker begins a transition of a window of its list, or none.
Starts(j) ==
  /\ running[j].phase # "off" /\ disturbed' = disturbed /\ endedSince' = endedSince
  /\ \E w \in running[j].todo :
       /\ Begins(j, w, IF running[j].phase = "start" THEN "in_progress" ELSE "completed")
       /\ AddStatusUpdate(j, w, IF running[j].phase = "start" THEN "in_progress" ELSE "completed")
       /\ Runs(j, running[j].phase, running[j].todo \ {w})

LEMMA WorkerChanges ==
  ASSUME MinuteInv, NEW j \in Workers, JobStep(j) \/ RunLost(j)
  PROVE  /\ UNCHANGED <<window, told>>
         /\ \/ Starts(j)
            \/ /\ Runs(j, "start", MaintenancesToStart)
               /\ running[j].phase = "off" /\ UNCHANGED <<updating, disturbed, endedSince>>
            \/ /\ Runs(j, "complete", MaintenancesToComplete)
               /\ updating[j].pc = "idle" /\ endedSince' = [endedSince EXCEPT ![j] = {}]
               /\ UNCHANGED <<updating, disturbed>>
            \/ /\ Runs(j, "off", {}) /\ updating[j].pc = "idle" /\ UNCHANGED <<updating, disturbed, endedSince>>
            \/ /\ Runs(j, "off", {}) /\ updating' = [updating EXCEPT ![j] = NoUpdate]
               /\ endedSince' = [endedSince EXCEPT ![j] = {}] /\ RunLost(j)
<1>1. UNCHANGED <<window, told>>
  BY DEF JobStep, ReadToStart, Transition, ReadToComplete, RunEnds, RunLost
<1>2. CASE Transition(j)
  <2>1. /\ running[j].phase # "off" /\ UNCHANGED <<disturbed, endedSince>>
        /\ \E w \in running[j].todo :
             /\ AddStatusUpdate(j, w, IF running[j].phase = "start" THEN "in_progress" ELSE "completed")
             /\ Runs(j, running[j].phase, running[j].todo \ {w})
    BY <1>2 DEF Transition
  <2>2. \A w \in running[j].todo : w \in Windows /\ window[w] # "unborn"
    BY DEF MinuteInv, MinuteTypes, NamesBorn, RunType
  <2>3. "in_progress" \in WindowStatuses /\ "completed" \in WindowStatuses /\ j \in Actors
    BY DEF WindowStatuses, Ended, Actors
  <2>4. \A w \in Windows : window[w] # "unborn" =>
          \A to \in WindowStatuses : AddStatusUpdate(j, w, to) => Begins(j, w, to)
    BY <2>3, UpdateBegins DEF MinuteInv
  <2>5. Starts(j)
    BY <2>1, <2>2, <2>3, <2>4 DEF Starts
  <2> QED
    BY <1>1, <2>5
<1>3. CASE ~Transition(j)
  BY <1>1, <1>3 DEF JobStep, ReadToStart, ReadToComplete, RunEnds, RunLost, Updates, UpdatesAt
<1> QED
  BY <1>2, <1>3

LEMMA EndingsTypes ==
  ASSUME MinuteTypes, NEW a \in Actors, UpdateStep(a) \/ UpdateFails(a)
  PROVE  endedSince' \in [Workers -> SUBSET Windows]
<1>1. CASE SetWindowStatus(a)
  <2>1. updating[a].of \in Windows
    BY StatusChanges
  <2>2. endedSince' = [j \in Workers |-> IF updating[a].to \in Ended /\ running[j].phase = "start"
                                       THEN endedSince[j] \cup {updating[a].of} ELSE endedSince[j]]
    BY <1>1 DEF SetWindowStatus
  <2>3. \A j \in Workers : endedSince[j] \subseteq Windows
    BY DEF MinuteTypes
  <2> HIDE DEF MinuteTypes
  <2> QED
    BY <2>1, <2>2, <2>3
<1>2. CASE endedSince' = endedSince
  BY <1>2 DEF MinuteTypes
<1> QED
  BY <1>1, <1>2, StatusChanges

LEMMA MinuteInvStep ==
  ASSUME MinuteInv, [MaintenanceNext]_maintenanceVars
  PROVE  MinuteInv'
<1> USE DEF MinuteInv
<1>1. CASE WindowStep
  <2>1. /\ UNCHANGED <<updating, running, told, endedSince>>
        /\ window' \in [Windows -> WindowStatuses \cup {"unborn", "deleted"}]
        /\ \A w \in Windows : window[w] # "unborn" => window'[w] # "unborn"
    BY <1>1, WindowChanges
  <2>2. /\ \A j \in Workers : running[j].todo \subseteq Windows
        /\ \A a \in Actors : updating[a].pc # "idle" => updating[a].of \in Windows
    BY DEF MinuteTypes, RunType
  <2>3. NamesBorn'
    BY <2>1, <2>2 DEF NamesBorn
  <2> QED
    BY <2>1, <2>3 DEF MinuteTypes
<1>2. CASE RequestStep
  <2>1. UNCHANGED <<window, running, told, endedSince>>
    BY <1>2, RequestBeginsOf
  <2>2. PICK a \in Planners, w \in Windows, to \in WindowStatuses : Begins(a, w, to)
    BY <1>2, RequestBeginsOf
  <2>3. a \in Actors
    BY DEF Actors
  <2> QED
    BY <2>1, <2>2, <2>3 DEF Begins, MinuteTypes, NamesBorn
<1>3. CASE StatusStep
  <2>1. PICK a \in Actors : UpdateStep(a) \/ UpdateFails(a)
    BY <1>3 DEF StatusStep
  <2> DEFINE u == updating[a]
  <2>2. PICK new \in UpdateType : /\ updating' = [updating EXCEPT ![a] = new]
                                  /\ new.pc = "idle" \/ (new.of = u.of /\ new.to = u.to)
    BY <2>1, UpdateGoesOn DEF GoesOn
  <2>3. u.pc # "idle" /\ UNCHANGED running
    BY <2>1, UpdateGoesOn DEF GoesOn
  <2>4. /\ u.of \in Windows /\ u.to \in WindowStatuses /\ window[u.of] # "unborn"
    BY <2>1, <2>3, StatusChanges DEF NamesBorn
  <2>5. window' = window \/ (/\ IsRow(u.of) /\ window' = [window EXCEPT ![u.of] = u.to])
    BY <2>1, StatusChanges
  <2>6. told' = told \/ \E what \in Announcements : told' = [told EXCEPT ![u.of] = what]
    BY <2>1, StatusChanges
  <2> HIDE DEF u
  <2>7. window' \in [Windows -> WindowStatuses \cup {"unborn", "deleted"}]
        /\ \A w \in Windows : window[w] # "unborn" => window'[w] # "unborn"
    BY <2>4, <2>5 DEF MinuteTypes, WindowStatuses, Ended
  <2>8. told' \in [Windows -> Announcements] /\ \A w \in Windows : told'[w] # told[w] => w = u.of
    BY <2>4, <2>6 DEF MinuteTypes
  <2>9. updating' \in [Actors -> UpdateType]
        /\ \A b \in Actors : updating'[b].pc # "idle" =>
             updating'[b].of \in Windows /\ updating'[b].to \in WindowStatuses /\ window[updating'[b].of] # "unborn"
    BY <2>2, <2>4 DEF MinuteTypes, NamesBorn
  <2>10. MinuteTypes'
    BY <2>1, <2>3, <2>7, <2>8, <2>9, EndingsTypes DEF MinuteTypes
  <2>11. NamesBorn'
    BY <2>3, <2>4, <2>7, <2>8, <2>9 DEF NamesBorn, MinuteTypes, RunType
  <2> QED
    BY <2>10, <2>11
<1>4. CASE WorkerStep
  <2>1. PICK j \in Workers : JobStep(j) \/ RunLost(j)
    BY <1>4 DEF WorkerStep
  <2>2. UNCHANGED <<window, told>> /\ j \in Actors
    BY <2>1, WorkerChanges DEF Actors
  <2>3. running' \in [Workers -> RunType]
        /\ \A i \in Workers : \A w \in running'[i].todo : window[w] # "unborn"
    <3>1. PICK phase \in {"off", "start", "complete"}, todo \in SUBSET Windows :
            Runs(j, phase, todo) /\ \A w \in todo : window[w] # "unborn"
      <4>1. running[j].phase \in {"off", "start", "complete"} /\ running[j].todo \in SUBSET Windows
            /\ \A w \in running[j].todo : window[w] # "unborn"
        BY DEF MinuteTypes, RunType, NamesBorn
      <4>2. PICK none \in SUBSET Windows : none = {}
        OBVIOUS
      <4>3. /\ MaintenancesToStart \in SUBSET Windows /\ MaintenancesToComplete \in SUBSET Windows
            /\ \A w \in MaintenancesToStart \cup MaintenancesToComplete : window[w] # "unborn"
        BY ListsNameRows
      <4>4. CASE Starts(j)
        BY <4>1, <4>4 DEF Starts
      <4>5. CASE ~Starts(j)
        BY <2>1, <4>2, <4>3, <4>5, WorkerChanges
      <4> QED
        BY <4>4, <4>5
    <3> QED
      BY <3>1, JobTypes DEF NamesBorn
  <2>4. updating' \in [Actors -> UpdateType]
        /\ \A b \in Actors : updating'[b].pc # "idle" =>
             updating'[b].of \in Windows /\ updating'[b].to \in WindowStatuses /\ window[updating'[b].of] # "unborn"
    <3>1. \A b \in Actors : updating[b].pc # "idle" =>
             updating[b].of \in Windows /\ updating[b].to \in WindowStatuses /\ window[updating[b].of] # "unborn"
      BY DEF MinuteTypes, NamesBorn
    <3>2. CASE Starts(j)
      <4>1. PICK w \in running[j].todo, to \in WindowStatuses : Begins(j, w, to)
        BY <3>2 DEF Starts, WindowStatuses, Ended
      <4>2. w \in Windows
        BY DEF MinuteTypes, RunType
      <4> QED
        BY <2>2, <3>1, <4>1, <4>2 DEF Begins, MinuteTypes
    <3>3. CASE updating' = [updating EXCEPT ![j] = NoUpdate]
      BY <2>2, <3>1, <3>3, NoUpdateIs DEF MinuteTypes
    <3>4. CASE UNCHANGED updating
      BY <3>1, <3>4 DEF MinuteTypes
    <3> QED
      BY <2>1, <3>2, <3>3, <3>4, WorkerChanges
  <2>5. endedSince' \in [Workers -> SUBSET Windows]
    <3>1. endedSince' = endedSince \/ endedSince' = [endedSince EXCEPT ![j] = {}]
      BY <2>1, WorkerChanges DEF Starts
    <3> QED
      BY <3>1 DEF MinuteTypes
  <2> QED
    BY <2>2, <2>3, <2>4, <2>5 DEF MinuteTypes, NamesBorn
<1>5. CASE UNCHANGED <<window, updating, running, told, disturbed, endedSince>>
  BY <1>5 DEF MinuteTypes, NamesBorn
<1> QED
  BY <1>1, <1>2, <1>3, <1>4, <1>5, StepKinds

LEMMA MinuteInit == MaintenanceInit => MinuteInv
<1> SUFFICES ASSUME MaintenanceInit PROVE MinuteInv
  OBVIOUS
<1>1. window \in [Windows -> {"unborn", "scheduled"}] /\ updating = [a \in Actors |-> NoUpdate]
      /\ running = [j \in Workers |-> NoRun] /\ told = [w \in Windows |-> "none"]
      /\ endedSince = [j \in Workers |-> {}]
  BY DEF MaintenanceInit
<1>2. NoRun \in RunType /\ NoRun.todo = {}
  BY DEF NoRun, RunType
<1> QED
  BY <1>1, <1>2, NoUpdateIs DEF MinuteInv, MinuteTypes, NamesBorn, WindowStatuses, Announcements

-----------------------------------------------------------------------------
(* NotReopened *)

LEMMA StartsKnownStep ==
  ASSUME MinuteInv, StartsKnown, [MaintenanceNext]_maintenanceVars
  PROVE  StartsKnown'
<1> USE DEF MinuteInv
<1>1. CASE WindowStep
  BY <1>1, WindowChanges DEF StartsKnown, MayStart, Ended
<1>2. CASE RequestStep
  <2>1. UNCHANGED <<window, running, told, endedSince>>
    BY <1>2, RequestBeginsOf
  <2>2. PICK a \in Planners, w \in Windows, to \in WindowStatuses : Begins(a, w, to)
    BY <1>2, RequestBeginsOf
  <2>3. \A j \in Workers : j \in Actors /\ j # a
    BY ActorAssumption DEF Actors
  <2>4. \A j \in Workers : updating'[j] = updating[j]
    BY <2>2, <2>3 DEF Begins, MinuteTypes
  <2> QED
    BY <2>1, <2>4 DEF StartsKnown, MayStart
<1>3. CASE StatusStep
  <2>1. PICK a \in Actors : UpdateStep(a) \/ UpdateFails(a)
    BY <1>3 DEF StatusStep
  <2>2. PICK new \in UpdateType :
          /\ updating' = [updating EXCEPT ![a] = new]
          /\ \/ new.pc = "idle"
             \/ /\ new.of = updating[a].of /\ new.to = updating[a].to
                /\ new.pc = IF updating[a].pc = "readPrevious" THEN "setStatus"
                            ELSE IF updating[a].pc = "setStatus" THEN "log" ELSE "announce"
    BY <2>1, UpdateGoesOn DEF GoesOn
  <2>3. updating[a].pc # "idle" /\ UNCHANGED running
    BY <2>1, UpdateGoesOn DEF GoesOn
  <2>4. \A j \in Workers : j \in Actors
    BY DEF Actors
  <2>5. \A j \in Workers :
          /\ updating'[j].pc # "idle" => updating[j].pc # "idle" /\ updating'[j].to = updating[j].to
          /\ \A w \in Windows : MayStart(j, w)' => MayStart(j, w)
    BY <2>2, <2>3, <2>4 DEF MinuteTypes, MayStart
  <2>6. \A j \in Workers, w \in Windows :
          (running[j].phase = "start" /\ window'[w] \in Ended) =>
            \/ w \in endedSince'[j]
            \/ window[w] \in Ended /\ (w \in endedSince[j] => w \in endedSince'[j])
    <3>1. CASE SetWindowStatus(a)
      <4>1. \A j \in Workers : endedSince'[j] = IF updating[a].to \in Ended /\ running[j].phase = "start"
                                               THEN endedSince[j] \cup {updating[a].of} ELSE endedSince[j]
        BY <3>1 DEF SetWindowStatus
      <4>2. window' = window \/ window' = [window EXCEPT ![updating[a].of] = updating[a].to]
        BY <2>1, StatusChanges
      <4> QED
        BY <4>1, <4>2 DEF MinuteTypes
    <3>2. CASE ~SetWindowStatus(a)
      BY <2>1, <3>2, StatusChanges
    <3> QED
      BY <3>1, <3>2
  <2> QED
    BY <2>3, <2>5, <2>6 DEF StartsKnown
<1>4. CASE WorkerStep
  <2>1. PICK j \in Workers : JobStep(j) \/ RunLost(j)
    BY <1>4 DEF WorkerStep
  <2>2. UNCHANGED window /\ j \in Actors /\ \A i \in Workers : i \in Actors
    BY <2>1, WorkerChanges DEF Actors
  <2> DEFINE Moved(phase, todo) ==
        /\ running'[j].phase = phase /\ running'[j].todo = todo
        /\ \A i \in Workers \ {j} : running'[i] = running[i] /\ updating'[i] = updating[i]
                                    /\ endedSince'[i] = endedSince[i]
  <2>3. ASSUME NEW phase, NEW todo, Moved(phase, todo),
               updating'[j].pc # "idle" =>
                 phase # "off" /\ (updating'[j].to = "in_progress" => phase = "start"),
               phase = "start" => \A w \in Windows : (MayStart(j, w)' /\ window[w] \in Ended) => w \in endedSince'[j]
        PROVE  StartsKnown'
    BY <2>2, <2>3 DEF StartsKnown, MayStart
  <2>4. CASE Starts(j)
    <3>1. PICK w \in running[j].todo :
            /\ Begins(j, w, IF running[j].phase = "start" THEN "in_progress" ELSE "completed")
            /\ Runs(j, running[j].phase, running[j].todo \ {w})
      BY <2>4 DEF Starts
    <3>2. running[j].todo \in SUBSET Windows /\ running[j].phase \in {"off", "start", "complete"}
          /\ running[j].phase # "off" /\ UNCHANGED endedSince
      BY <2>4 DEF MinuteTypes, RunType, Starts
    <3>3. /\ \A b \in Actors \ {j} : updating'[b] = updating[b]
          /\ updating'[j].of = w /\ (updating'[j].to = "in_progress" => running[j].phase = "start")
      BY <2>2, <3>1 DEF Begins, MinuteTypes
    <3>4. Moved(running[j].phase, running[j].todo \ {w})
      BY <2>2, <3>1, <3>2, <3>3, JobTypes
    <3>5. \A v \in Windows : MayStart(j, v)' => MayStart(j, v)
      BY <3>1, <3>3, <3>4 DEF MayStart
    <3>6. running[j].phase = "start" =>
            \A v \in Windows : (MayStart(j, v)' /\ window[v] \in Ended) => v \in endedSince'[j]
      BY <3>2, <3>5 DEF StartsKnown
    <3> QED
      BY <2>3, <3>2, <3>3, <3>4, <3>6
  <2>5. CASE Runs(j, "start", MaintenancesToStart) /\ running[j].phase = "off" /\ UNCHANGED <<updating, endedSince>>
    <3>1. Moved("start", MaintenancesToStart)
      BY <2>5, JobTypes, ListsNameRows
    <3>2. \A w \in MaintenancesToStart : window[w] \notin Ended
      BY ListsNameRows DEF Ended
    <3>3. updating'[j].pc = "idle"
      BY <2>5 DEF StartsKnown
    <3>4. \A w \in Windows : MayStart(j, w)' => w \in MaintenancesToStart
      BY <3>1, <3>3 DEF MayStart
    <3> QED
      BY <2>3, <3>1, <3>2, <3>3, <3>4
  <2>6. CASE /\ Runs(j, "complete", MaintenancesToComplete) /\ updating[j].pc = "idle"
             /\ endedSince' = [endedSince EXCEPT ![j] = {}] /\ UNCHANGED updating
    <3>1. Moved("complete", MaintenancesToComplete)
      BY <2>6, JobTypes, ListsNameRows DEF MinuteTypes
    <3> QED
      BY <2>3, <2>6, <3>1
  <2>7. CASE Runs(j, "off", {}) /\ updating[j].pc = "idle" /\ UNCHANGED <<updating, endedSince>>
    <3>1. Moved("off", {})
      BY <2>7, JobTypes
    <3> QED
      BY <2>3, <2>7, <3>1
  <2>8. CASE /\ Runs(j, "off", {}) /\ updating' = [updating EXCEPT ![j] = NoUpdate]
             /\ endedSince' = [endedSince EXCEPT ![j] = {}]
    <3>1. Moved("off", {})
      BY <2>2, <2>8, JobTypes DEF MinuteTypes
    <3>2. updating'[j].pc = "idle"
      BY <2>2, <2>8, NoUpdateIs DEF MinuteTypes
    <3> QED
      BY <2>3, <3>1, <3>2
  <2> HIDE DEF Moved
  <2> QED
    BY <2>1, <2>4, <2>5, <2>6, <2>7, <2>8, WorkerChanges
<1>5. CASE UNCHANGED <<window, updating, running, told, disturbed, endedSince>>
  BY <1>5 DEF StartsKnown, MayStart
<1> QED
  BY <1>1, <1>2, <1>3, <1>4, <1>5, StepKinds

\* For any windows, users and instances, and any order of their steps: the minute job
\* starts no window again that was ended, but one that was ended after the job read
\* its list (maintenance-backend/src/index.ts).
THEOREM NotReopenedCorrect == MaintenanceSpec => NotReopened
<1>1. MaintenanceInit => StartsKnown
  <2> SUFFICES ASSUME MaintenanceInit PROVE StartsKnown
    OBVIOUS
  <2>1. /\ \A j \in Workers : updating[j] = NoUpdate
        /\ \A j \in Workers : running[j].phase = "off"
    BY DEF MaintenanceInit, Actors, NoRun
  <2> QED
    BY <2>1, NoUpdateIs DEF StartsKnown
<1>2. MinuteInv /\ StartsKnown /\ [MaintenanceNext]_maintenanceVars => MinuteInv' /\ StartsKnown'
  BY MinuteInvStep, StartsKnownStep
<1>3. MinuteInv /\ StartsKnown =>
        \A j \in Workers : LET w == updating[j].of IN
          SetWindowStatus(j) /\ updating[j].to = "in_progress" /\ window[w] \in Ended => w \in endedSince[j]
  <2> SUFFICES ASSUME MinuteInv, StartsKnown, NEW j \in Workers, SetWindowStatus(j),
                      updating[j].to = "in_progress", window[updating[j].of] \in Ended
               PROVE  updating[j].of \in endedSince[j]
    OBVIOUS
  <2>1. updating[j].pc = "setStatus" /\ j \in Actors
    BY DEF SetWindowStatus, UpdatesAt, Actors
  <2>2. updating[j].of \in Windows
    BY <2>1 DEF MinuteInv, MinuteTypes
  <2> QED
    BY <2>1, <2>2 DEF StartsKnown, MayStart
<1> QED
  BY <1>1, <1>2, <1>3, MinuteInit, PTL DEF MaintenanceSpec, NotReopened

-----------------------------------------------------------------------------
(* StartToldOnce *)

Telling(a, w) == updating[a].pc \in {"setStatus", "log", "announce"} /\ updating[a].of = w
StartTold(w) == told[w] = "started"
SaysNoStart(u) == u.previous = "in_progress" \/ (u.previous = "none" /\ u.to = "completed")

\* What the one update on its way to tell of w knows of it.
TellerKnows(a, w) ==
  LET u == updating[a] IN
  /\ (u.pc = "setStatus" /\ IsRow(w)) =>
       /\ u.previous = window[w] \/ (u.previous = "none" /\ u.to = "completed")
       /\ StartTold(w) => window[w] = "in_progress"
  /\ (u.pc = "log" /\ IsRow(w)) => window[w] = u.to /\ (StartTold(w) => SaysNoStart(u))
  /\ u.pc = "announce" => (IsRow(w) => window[w] = u.to) /\ (StartTold(w) => SaysNoStart(u))

\* Of a window whose changes came one after the other: one update at most is on its
\* way to tell, and without one subscribers who last heard of its start know its status.
ToldOf(w) ==
  /\ \A a, b \in Actors : (Telling(a, w) /\ Telling(b, w)) => a = b
  /\ \A a \in Actors : Telling(a, w) => TellerKnows(a, w)
  /\ (IsRow(w) /\ StartTold(w) /\ \A a \in Actors : ~Telling(a, w)) => window[w] = "in_progress"

ToldInv == \A w \in Windows \ disturbed : ToldOf(w)

\* What concerns other windows, or says nothing yet, changes nothing of w; nor does
\* the end of its row.
LEMMA OthersKeepTold ==
  ASSUME NEW w \in Windows, ToldOf(w), told'[w] = told[w], window'[w] = window[w] \/ ~IsRow(w)',
         \A b \in Actors : updating'[b] = updating[b] \/ (~Telling(b, w) /\ ~Telling(b, w)')
  PROVE  ToldOf(w)'
<1>1. \A b \in Actors : Telling(b, w)' <=> Telling(b, w)
  BY DEF Telling
<1>2. \A b \in Actors : Telling(b, w) => updating'[b] = updating[b]
  OBVIOUS
<1>3. IsRow(w)' => IsRow(w) /\ window'[w] = window[w]
  BY DEF IsRow
<1>4. StartTold(w)' <=> StartTold(w)
  BY DEF StartTold
<1>5. ASSUME NEW b \in Actors, Telling(b, w), TellerKnows(b, w) PROVE TellerKnows(b, w)'
  BY <1>2, <1>3, <1>4, <1>5 DEF TellerKnows, SaysNoStart
<1> QED
  BY <1>1, <1>3, <1>4, <1>5 DEF ToldOf

\* An update of w begins to tell alone.
LEMMA BeginsToTell ==
  ASSUME MinuteTypes, NEW a \in Actors, NEW w \in Windows, ToldOf(w), ~Overlapped(a, w), ~Telling(a, w),
         window[w] # "unborn", UNCHANGED <<window, told>>,
         NEW new \in UpdateType, updating' = [updating EXCEPT ![a] = new],
         new.pc = "setStatus", new.of = w,
         new.previous = window[w] \/ (new.previous = "none" /\ new.to = "completed")
  PROVE  ToldOf(w)'
<1>1. \A b \in Actors : ~Telling(b, w)
  BY DEF Overlapped, Telling
<1>2. updating'[a] = new /\ \A b \in Actors \ {a} : updating'[b] = updating[b]
  BY DEF MinuteTypes
<1>3. \A b \in Actors : Telling(b, w)' <=> b = a
  BY <1>1, <1>2 DEF Telling
<1>4. (IsRow(w) /\ StartTold(w)) => window[w] = "in_progress"
  BY <1>1 DEF ToldOf
<1>5. TellerKnows(a, w)'
  BY <1>2, <1>4 DEF TellerKnows, IsRow, StartTold
<1> QED
  BY <1>3, <1>5 DEF ToldOf

\* The update that tells of w goes on.
LEMMA TellingGoesOn ==
  ASSUME MinuteTypes, NEW a \in Actors, NEW w \in Windows, ToldOf(w), updating[a].of = w,
         SetWindowStatus(a) \/ LogStatus(a) \/ Announce(a)
  PROVE  ToldOf(w)'
<1> DEFINE u == updating[a]
<1>1. u \in UpdateType /\ Telling(a, w) /\ u.to \in WindowStatuses
  BY DEF MinuteTypes, Telling, SetWindowStatus, LogStatus, Announce, UpdatesAt
<1>2. TellerKnows(a, w) /\ \A b \in Actors \ {a} : ~Telling(b, w)
  BY <1>1 DEF ToldOf
<1>3. ASSUME NEW new \in UpdateType, updating' = [updating EXCEPT ![a] = new]
      PROVE  /\ updating'[a] = new /\ \A b \in Actors \ {a} : ~Telling(b, w)'
             /\ \A b \in Actors : Telling(b, w)' => b = a
  <2>1. updating'[a] = new /\ \A b \in Actors \ {a} : updating'[b] = updating[b]
    BY <1>3 DEF MinuteTypes
  <2> QED
    BY <1>2, <2>1 DEF Telling
<1>4. ASSUME NEW new \in UpdateType, updating' = [updating EXCEPT ![a] = new], TellerKnows(a, w)',
             new.pc \in {"log", "announce"} /\ new.of = w
      PROVE  ToldOf(w)'
  <2>1. Telling(a, w)'
    BY <1>3, <1>4 DEF Telling
  <2> QED
    BY <1>3, <1>4, <2>1 DEF ToldOf
<1>5. ASSUME updating' = [updating EXCEPT ![a] = NoUpdate],
             (IsRow(w)' /\ StartTold(w)') => window'[w] = "in_progress"
      PROVE  ToldOf(w)'
  <2>1. \A b \in Actors : ~Telling(b, w)'
    BY <1>3, <1>5, NoUpdateIs DEF Telling
  <2> QED
    BY <1>5, <2>1 DEF ToldOf
<1>6. ASSUME SetWindowStatus(a) PROVE ToldOf(w)'
  <2> DEFINE new == [u EXCEPT !.pc = "log"]
  <2>1. /\ new \in UpdateType /\ new.pc = "log" /\ new.of = w /\ new.to = u.to /\ new.previous = u.previous
    BY <1>1 DEF UpdateType
  <2>2. updating' = [updating EXCEPT ![a] = new] /\ u.pc = "setStatus" /\ told' = told
        /\ window' = IF IsRow(w) THEN [window EXCEPT ![w] = u.to] ELSE window
    BY <1>6 DEF SetWindowStatus, Updates, UpdatesAt
  <2>3. IsRow(w)' => IsRow(w) /\ window'[w] = u.to
    BY <2>2 DEF IsRow, MinuteTypes
  <2>4. IsRow(w) /\ StartTold(w) => SaysNoStart(u)
    BY <1>2, <2>2 DEF TellerKnows, SaysNoStart
  <2>5. updating'[a] = new
    BY <1>3, <2>1, <2>2
  <2> HIDE DEF new
  <2>6. TellerKnows(a, w)'
    BY <2>1, <2>2, <2>3, <2>4, <2>5 DEF TellerKnows, SaysNoStart, StartTold
  <2> QED
    BY <1>4, <2>1, <2>2, <2>6
<1>7. ASSUME LogStatus(a) PROVE ToldOf(w)'
  <2>1. UNCHANGED <<window, told>> /\ u.pc = "log"
        /\ updating' = [updating EXCEPT ![a] = IF IsRow(w) THEN [u EXCEPT !.pc = "announce"] ELSE NoUpdate]
    BY <1>7 DEF LogStatus, Updates, UpdatesAt
  <2>2. CASE IsRow(w)
    <3> DEFINE new == [u EXCEPT !.pc = "announce"]
    <3>1. /\ new \in UpdateType /\ new.pc = "announce" /\ new.of = w /\ new.to = u.to
          /\ new.previous = u.previous
      BY <1>1 DEF UpdateType
    <3>2. updating' = [updating EXCEPT ![a] = new] /\ updating'[a] = new
      BY <1>3, <2>1, <2>2, <3>1
    <3>3. window[w] = u.to /\ (StartTold(w) => SaysNoStart(u))
      BY <1>2, <2>1, <2>2 DEF TellerKnows
    <3> HIDE DEF new
    <3>4. TellerKnows(a, w)'
      BY <2>1, <3>1, <3>2, <3>3 DEF TellerKnows, SaysNoStart, StartTold
    <3> QED
      BY <1>4, <3>1, <3>2, <3>4
  <2>3. CASE ~IsRow(w)
    BY <1>5, <2>1, <2>3 DEF IsRow
  <2> QED
    BY <2>2, <2>3
<1>8. ASSUME Announce(a) PROVE ToldOf(w)'
  <2>1. UNCHANGED window /\ u.pc = "announce" /\ updating' = [updating EXCEPT ![a] = NoUpdate]
        /\ told' = IF Announcement(u) = "none" THEN told ELSE [told EXCEPT ![w] = Announcement(u)]
    BY <1>8 DEF Announce, Updates, UpdatesAt
  <2>2. (IsRow(w) => window[w] = u.to) /\ (StartTold(w) => SaysNoStart(u))
    BY <1>2, <2>1 DEF TellerKnows
  <2>3. StartTold(w)' => u.to = "in_progress"
    <3>1. CASE Announcement(u) = "none"
      <4>1. told' = told /\ u.to = u.previous
        BY <2>1, <3>1 DEF Announcement
      <4> QED
        BY <1>1, <2>2, <4>1 DEF StartTold, SaysNoStart, WindowStatuses, Ended
    <3>2. CASE Announcement(u) # "none"
      <4>1. told'[w] = Announcement(u)
        BY <2>1, <3>2 DEF MinuteTypes
      <4> QED
        BY <4>1 DEF StartTold, Announcement
    <3> QED
      BY <3>1, <3>2
  <2> QED
    BY <1>5, <2>1, <2>2, <2>3 DEF IsRow
<1> QED
  BY <1>6, <1>7, <1>8

LEMMA ToldInvStep ==
  ASSUME MinuteInv, ToldInv, [MaintenanceNext]_maintenanceVars
  PROVE  ToldInv'
<1> SUFFICES ASSUME NEW w \in Windows \ disturbed' PROVE ToldOf(w)'
  BY DEF ToldInv
<1> USE DEF MinuteInv
<1>1. CASE WindowStep
  <2>1. ToldOf(w)
    BY <1>1, WindowChanges DEF ToldInv
  <2>2. UNCHANGED <<updating, told>>
    BY <1>1, WindowChanges
  <2>3. CASE window'[w] = window[w] \/ ~IsRow(w)'
    BY <2>1, <2>2, <2>3, OthersKeepTold
  <2>4. CASE window[w] = "unborn"
    <3>1. \A b \in Actors : ~Telling(b, w)
      BY <2>4 DEF NamesBorn, Telling
    <3>2. ~StartTold(w)
      BY <2>4 DEF NamesBorn, StartTold
    <3> QED
      BY <2>2, <3>1, <3>2 DEF ToldOf, Telling, StartTold
  <2> QED
    BY <1>1, <2>3, <2>4, WindowChanges DEF IsRow, WindowStatuses, Ended
<1>2. CASE RequestStep
  <2>1. PICK a \in Planners, v \in Windows : \/ CloseMaintenance(a, v)
                                             \/ \E to \in WindowStatuses : UserAddsUpdate(a, v, to)
    BY <1>2 DEF RequestStep
  <2>2. UNCHANGED <<window, told>> /\ a \in Actors /\ updating[a].pc = "idle"
    BY <2>1 DEF CloseMaintenance, UserAddsUpdate, AddStatusUpdate, UpdatesAt, Actors
  <2>3. CASE CloseMaintenance(a, v)
    <3> DEFINE new == [pc |-> "setStatus", of |-> v, to |-> "completed", previous |-> "none"]
    <3>1. updating' = [updating EXCEPT ![a] = new] /\ window[v] # "unborn"
      BY <2>3 DEF CloseMaintenance, Updates, IsRow, WindowStatuses, Ended
    <3>2. new \in UpdateType /\ new.pc = "setStatus" /\ new.of = v /\ new.to = "completed" /\ new.previous = "none"
      BY DEF UpdateType, WindowStatuses, Ended
    <3>3. w \notin disturbed /\ (w = v => ~Overlapped(a, w))
      BY <2>3 DEF CloseMaintenance
    <3>4. ToldOf(w) /\ ~Telling(a, w)
      BY <2>2, <3>3 DEF ToldInv, Telling
    <3> HIDE DEF new
    <3>5. CASE w = v
      BY <2>2, <3>1, <3>2, <3>3, <3>4, <3>5, BeginsToTell
    <3>6. CASE w # v
      <4>1. \A b \in Actors : updating'[b] = updating[b] \/ (~Telling(b, w) /\ ~Telling(b, w)')
        BY <3>1, <3>2, <3>4, <3>6 DEF Telling, MinuteTypes
      <4> QED
        BY <2>2, <3>4, <4>1, OthersKeepTold
    <3> QED
      BY <3>5, <3>6
  <2>4. CASE \E to \in WindowStatuses : UserAddsUpdate(a, v, to)
    <3>1. PICK to \in WindowStatuses : UserAddsUpdate(a, v, to)
      BY <2>4
    <3>2. /\ updating' = [updating EXCEPT ![a] = [pc |-> "readPrevious", of |-> v, to |-> to, previous |-> "none"]]
          /\ disturbed' = disturbed
      BY <3>1 DEF UserAddsUpdate, AddStatusUpdate, Updates
    <3>3. \A b \in Actors : updating'[b] = updating[b] \/ (~Telling(b, w) /\ ~Telling(b, w)')
      BY <2>2, <3>2 DEF Telling, MinuteTypes
    <3> QED
      BY <2>2, <3>2, <3>3, OthersKeepTold DEF ToldInv
  <2> QED
    BY <2>1, <2>3, <2>4
<1>3. CASE StatusStep
  <2>1. PICK a \in Actors : UpdateStep(a) \/ UpdateFails(a)
    BY <1>3 DEF StatusStep
  <2> DEFINE u == updating[a]
  <2>2. u.of \in Windows /\ u.to \in WindowStatuses /\ u.pc # "idle"
    BY <2>1, StatusChanges, UpdateGoesOn DEF GoesOn
  <2>3. w \notin disturbed /\ (UpdateFails(a) => w # u.of)
    BY <2>1 DEF UpdateStep, ReadPrevious, SetWindowStatus, LogStatus, Announce, UpdateFails
  <2>4. ToldOf(w)
    BY <2>3 DEF ToldInv
  <2>5. CASE w # u.of
    <3>1. /\ updating[a].pc # "idle"
          /\ \E new \in UpdateType : updating' = [updating EXCEPT ![a] = new]
                                     /\ (new.pc = "idle" \/ new.of = u.of)
      BY <2>1, UpdateGoesOn DEF GoesOn
    <3>2. \A b \in Actors : updating'[b] = updating[b] \/ (~Telling(b, w) /\ ~Telling(b, w)')
      BY <2>5, <3>1 DEF Telling, MinuteTypes
    <3>3. window'[w] = window[w] /\ told'[w] = told[w]
      BY <2>1, <2>2, <2>5, StatusChanges DEF MinuteTypes
    <3> QED
      BY <2>4, <3>2, <3>3, OthersKeepTold
  <2>6. CASE w = u.of /\ ReadPrevious(a)
    <3>1. PICK previous \in WindowStatuses \cup {"none", "unborn", "deleted"} : previous = window[w]
      BY DEF MinuteTypes
    <3> DEFINE new == [u EXCEPT !.pc = "setStatus", !.previous = previous]
    <3>2. new \in UpdateType /\ new.pc = "setStatus" /\ new.of = w /\ new.previous = window[w]
      BY <2>6, <3>1 DEF UpdateType, MinuteTypes
    <3>3. updating' = [updating EXCEPT ![a] = new] /\ UNCHANGED <<window, told>> /\ u.pc = "readPrevious"
      BY <2>6, <3>1 DEF ReadPrevious, Updates, UpdatesAt
    <3>4. ~Overlapped(a, w) /\ ~Telling(a, w)
      BY <2>6, <3>3 DEF ReadPrevious, Telling
    <3>5. window[w] # "unborn"
      BY <2>2, <2>6 DEF NamesBorn
    <3> HIDE DEF new
    <3> QED
      BY <2>4, <3>2, <3>3, <3>4, <3>5, BeginsToTell
  <2>7. CASE w = u.of /\ ~ReadPrevious(a)
    BY <2>1, <2>3, <2>4, <2>7, TellingGoesOn DEF UpdateStep
  <2> QED
    BY <2>5, <2>6, <2>7
<1>4. CASE WorkerStep
  <2>1. PICK j \in Workers : JobStep(j) \/ RunLost(j)
    BY <1>4 DEF WorkerStep
  <2>2. UNCHANGED <<window, told>> /\ j \in Actors
    BY <2>1, WorkerChanges DEF Actors
  <2>3. CASE Starts(j)
    <3>1. PICK v, to : AddStatusUpdate(j, v, to) /\ disturbed' = disturbed
      BY <2>3 DEF Starts
    <3>2. /\ updating' = [updating EXCEPT ![j] = [pc |-> "readPrevious", of |-> v, to |-> to, previous |-> "none"]]
          /\ updating[j].pc = "idle"
      BY <3>1 DEF AddStatusUpdate, Updates, UpdatesAt
    <3>3. \A b \in Actors : updating'[b] = updating[b] \/ (~Telling(b, w) /\ ~Telling(b, w)')
      BY <3>2 DEF Telling, MinuteTypes
    <3> QED
      BY <2>2, <3>1, <3>3, OthersKeepTold DEF ToldInv
  <2>4. CASE RunLost(j)
    <3>1. updating' = [updating EXCEPT ![j] = NoUpdate] /\ w \notin disturbed
          /\ (updating[j].pc = "idle" \/ w # updating[j].of)
      BY <2>4 DEF RunLost, Updates, UpdatesAt
    <3>2. \A b \in Actors : updating'[b] = updating[b] \/ (~Telling(b, w) /\ ~Telling(b, w)')
      BY <3>1, NoUpdateIs DEF Telling, MinuteTypes
    <3> QED
      BY <2>2, <3>1, <3>2, OthersKeepTold DEF ToldInv
  <2>5. CASE UNCHANGED <<updating, disturbed>>
    BY <2>2, <2>5, OthersKeepTold DEF ToldInv
  <2> QED
    BY <2>1, <2>3, <2>4, <2>5, WorkerChanges
<1>5. CASE UNCHANGED <<window, updating, running, told, disturbed, endedSince>>
  BY <1>5, OthersKeepTold DEF ToldInv
<1> QED
  BY <1>1, <1>2, <1>3, <1>4, <1>5, StepKinds

\* For any windows, users and instances, and any order of their steps: subscribers do
\* not hear twice in a row that a window has started, unless changes of the window
\* overlapped or one broke off (maintenance-backend/src/router.ts, service.ts).
THEOREM StartToldOnceCorrect == MaintenanceSpec => StartToldOnce
<1>1. MaintenanceInit => ToldInv
  BY NoUpdateIs DEF MaintenanceInit, ToldInv, ToldOf, Telling, StartTold
<1>2. MinuteInv /\ ToldInv /\ [MaintenanceNext]_maintenanceVars => MinuteInv' /\ ToldInv'
  BY MinuteInvStep, ToldInvStep
<1>3. MinuteInv /\ ToldInv =>
        \A a \in Actors : LET w == updating[a].of IN
          Announce(a) /\ Announcement(updating[a]) = "started" => told[w] # "started" \/ w \in disturbed
  <2> SUFFICES ASSUME MinuteInv, ToldInv, NEW a \in Actors, Announce(a),
                      Announcement(updating[a]) = "started", updating[a].of \notin disturbed
               PROVE  told[updating[a].of] # "started"
    OBVIOUS
  <2> DEFINE u == updating[a]
  <2>1. u.pc = "announce" /\ u.of \in Windows \ disturbed /\ Telling(a, u.of)
    BY DEF Announce, UpdatesAt, MinuteInv, MinuteTypes, Telling
  <2>2. StartTold(u.of) => SaysNoStart(u)
    BY <2>1 DEF ToldInv, ToldOf, TellerKnows
  <2>3. u.to = "in_progress" /\ u.previous # "in_progress"
    BY DEF Announcement
  <2> QED
    BY <2>2, <2>3 DEF StartTold, SaysNoStart
<1> QED
  BY <1>1, <1>2, <1>3, MinuteInit, PTL DEF MaintenanceSpec, StartToldOnce
=============================================================================
