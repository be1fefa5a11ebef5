------------------------- MODULE QueueManagerProofs -------------------------
(***************************************************************************)
(* The queue managers of any number of instances, with any queues, plugins *)
(* and configs, any switches, overlapping polls and failures: the proxies  *)
(* of an instance follow its backend, and a stored version names one       *)
(* setting.                                                                *)
(***************************************************************************)
EXTENDS QueueManager, TLAPS

Pointers == [plugin : Plugins, version : Nat]
CallPhases == {"unused", "stopping", "replacing", "row", "version", "pointer", "over"}
ReloadPhases == {"idle", "compare", "row", "replacing"}
CallType == [pc : CallPhases, at : Instances \cup {None}, target : Setting, done : SUBSET Names,
             recurring : SUBSET Names, issued : Nat, version : Nat]
ReloadType == [pc : ReloadPhases, seen : Pointers \cup {None}, config : Configs, done : SUBSET Names]

\* Calls that have not begun, or have ended, are at no instance.
CallTypes ==
  /\ call \in [Calls -> CallType]
  /\ \A c \in Calls : call[c].pc \in {"unused", "over"} <=> call[c].at = None
ReloadTypes ==
  /\ reload \in [Instances -> [Ticks -> ReloadType]]
  /\ \A i \in Instances : \A t \in Ticks : reload[i][t].pc # "idle" => reload[i][t].seen \in Pointers
HistoryTypes ==
  /\ overlapped \in [Instances -> BOOLEAN]
  /\ issued \subseteq Nat /\ ambiguous \subseteq Nat

ManagerTypes ==
  /\ TypeOK /\ CallTypes /\ ReloadTypes /\ HistoryTypes
  /\ \A i \in Instances : phase[i] = "row" => loading[i] \in Plugins

\* The steps of an instance that has been asked for nothing: its boot, its users and
\* its poll.
LocalStep(i) ==
  \/ Boot(i) \/ LoadFails(i) \/ Restart(i)
  \/ \E n \in Names : GetQueue(i, n) \/ ScheduleRecurring(i, n)
  \/ \E t \in Ticks : \/ PollStep(i, t) \/ ReloadRowFails(i, t)
                      \/ \E n \in Names : ReloadReplaceFails(i, t, n)
CallStep(c) ==
  \/ SwitchStep(c) \/ SwitchThrows(c)
  \/ \E i \in Instances, target \in Targets : SwitchStart(c, i, target)

LEMMA NextSteps == Next => (\E i \in Instances : LocalStep(i)) \/ (\E c \in Calls : CallStep(c))
BY DEF Next, Failure, LocalStep, CallStep

-----------------------------------------------------------------------------
(* Types *)

LEMMA Starting ==
  /\ DefaultSetting \in Setting /\ Unused \in CallType /\ Over \in CallType /\ NoReload \in ReloadType
  /\ Unused.pc = "unused" /\ Unused.at = None /\ Over.pc = "over" /\ Over.at = None
  /\ NoReload.pc = "idle" /\ NoReload.done = {}
BY DefaultAssumption DEF DefaultSetting, Setting, Unused, Over, NoReload, CallType, ReloadType,
   CallPhases, ReloadPhases

LEMMA NotAnInstance == None \notin Instances /\ None \notin Setting /\ None \notin Configs
BY NoneAssumption

LEMMA StartedTypes == Init => ManagerTypes
<1> SUFFICES ASSUME Init PROVE ManagerTypes
  OBVIOUS
<1>1. TypeOK
  BY Starting DEF Init, TypeOK
<1>2. CallTypes /\ ReloadTypes /\ HistoryTypes
  BY Starting DEF Init, CallTypes, ReloadTypes, HistoryTypes
<1> QED
  BY <1>1, <1>2 DEF Init, ManagerTypes

\* What the types say of one instance, one call and one poll.
LEMMA TypesAt ==
  ASSUME ManagerTypes, NEW i \in Instances
  PROVE  /\ active[i] \in Setting /\ active[i].plugin \in Plugins /\ active[i].config \in Configs
         /\ version[i] \in Nat /\ behind[i] \subseteq Names
         /\ \A t \in Ticks : reload[i][t] \in ReloadType
BY DEF ManagerTypes, TypeOK, ReloadTypes, Setting

LEMMA CallAt ==
  ASSUME ManagerTypes, NEW c \in Calls
  PROVE  /\ call[c] \in CallType /\ call[c].target \in Setting
         /\ call[c].target.plugin \in Plugins /\ call[c].target.config \in Configs
         /\ call[c].pc \notin {"unused", "over"} => call[c].at \in Instances
BY DEF ManagerTypes, CallTypes, CallType, Setting

LEMMA ReloadedType ==
  ASSUME ManagerTypes, NEW i \in Instances, NEW t \in Ticks, reload[i][t].pc # "idle"
  PROVE  /\ reload[i][t].seen \in Pointers /\ Reloaded(i, t) \in Setting
         /\ reload[i][t].seen.version \in Nat /\ reload[i][t].seen.plugin \in Plugins
BY DEF ManagerTypes, ReloadTypes, ReloadType, Reloaded, Setting, Pointers

LEMMA DelegateTypes ==
  ASSUME ManagerTypes, NEW i \in Instances, NEW n \in Names, NEW s \in Setting, SwitchDelegate(i, n, s)
  PROVE  /\ delegate' \in [Instances -> [Names -> Setting \cup {None}]]
         /\ open' \in [Instances -> SUBSET Names] /\ jobs' \in [Instances -> SUBSET Names]
         /\ stored' \in [Setting -> SUBSET Names] /\ behind' \in [Instances -> SUBSET Names]
BY DEF ManagerTypes, TypeOK, SwitchDelegate

LEMMA ReloadStays ==
  ASSUME ManagerTypes, NEW i \in Instances, NEW t \in Ticks, NEW r \in ReloadType,
         r.pc # "idle" => r.seen \in Pointers, reload' = [reload EXCEPT ![i][t] = r]
  PROVE  ReloadTypes'
BY DEF ManagerTypes, ReloadTypes

LEMMA CallStays ==
  ASSUME ManagerTypes, NEW c \in Calls, NEW r \in CallType,
         r.pc \in {"unused", "over"} <=> r.at = None, call' = [call EXCEPT ![c] = r]
  PROVE  CallTypes'
BY DEF ManagerTypes, CallTypes

LEMMA BootTypes ==
  ASSUME ManagerTypes, NEW i \in Instances, Boot(i) \/ LoadFails(i) \/ Restart(i)
  PROVE  ManagerTypes'
<1> USE DEF ManagerTypes, CallTypes, ReloadTypes, HistoryTypes
<1>0. \A s \in Setting : Load(i, s) =>
        active' \in [Instances -> Setting] /\ behind' \in [Instances -> SUBSET Names]
        /\ overlapped' \in [Instances -> BOOLEAN]
        /\ UNCHANGED <<row, pointer, delegate, open, jobs, stored, call, reload, issued, ambiguous>>
  BY DEF Load, TypeOK, Proxies, Looping, database, versions
<1>1. ASSUME LoadPlugins(i) PROVE ManagerTypes'
  BY <1>1 DEF LoadPlugins, TypeOK, database, proxies, bounds, versions
<1>2. ASSUME LoadPointer(i) PROVE ManagerTypes'
  <2>1. CASE pointer = None
    <3>1. active[i] \in Setting /\ Load(i, active[i]) /\ UNCHANGED <<loading, version>>
          /\ phase' = [phase EXCEPT ![i] = "running"]
      BY <1>2, <2>1 DEF LoadPointer, TypeOK
    <3> QED
      BY <1>0, <3>1 DEF TypeOK
  <2>2. CASE pointer # None
    <3>1. pointer.plugin \in Plugins /\ pointer.version \in Nat
      BY <2>2 DEF TypeOK
    <3> DEFINE s == [active[i] EXCEPT !.plugin = pointer.plugin]
    <3>2. s \in Setting
      BY <3>1, TypesAt DEF Setting
    <3>3. Load(i, s)
      BY <1>2, <2>2 DEF LoadPointer
    <3> HIDE DEF s
    <3> QED
      <4>1. active' \in [Instances -> Setting] /\ behind' \in [Instances -> SUBSET Names]
            /\ overlapped' \in [Instances -> BOOLEAN]
        BY <1>0, <3>2, <3>3
      <4>2. /\ phase' = [phase EXCEPT ![i] = "row"] /\ loading' = [loading EXCEPT ![i] = pointer.plugin]
            /\ version' = [version EXCEPT ![i] = pointer.version]
        BY <1>2, <2>2 DEF LoadPointer
      <4>3. UNCHANGED <<row, pointer, delegate, open, jobs, stored, call, reload, issued, ambiguous>>
        BY <1>0, <3>2, <3>3
      <4> QED
        BY <3>1, <4>1, <4>2, <4>3 DEF TypeOK
  <2> QED
    BY <2>1, <2>2
<1>3. ASSUME LoadRow(i) PROVE ManagerTypes'
  <2> DEFINE config == row[loading[i]]
             s == IF config = None THEN active[i] ELSE [active[i] EXCEPT !.config = config]
  <2>1. config \in Configs \cup {None}
    BY <1>3 DEF LoadRow, TypeOK
  <2>2. s \in Setting
    <3> HIDE DEF config
    <3> QED
      BY <2>1, TypesAt DEF Setting
  <2>3. /\ Load(i, s) /\ UNCHANGED version
        /\ phase' = [phase EXCEPT ![i] = "running"] /\ loading' = [loading EXCEPT ![i] = None]
    BY <1>3 DEF LoadRow
  <2> HIDE DEF s
  <2> QED
    BY <1>0, <2>2, <2>3 DEF TypeOK
<1>4. ASSUME LoadFails(i) PROVE ManagerTypes'
  BY <1>4 DEF LoadFails, TypeOK, database, proxies, versions
<1>5. ASSUME Restart(i) PROVE ManagerTypes'
  <2>1. CallTypes'
    BY <1>5, Starting DEF Restart
  <2>2. ReloadTypes'
    BY <1>5, Starting DEF Restart
  <2>3. TypeOK' /\ HistoryTypes'
    BY <1>5, Starting DEF Restart, TypeOK, database, versions
  <2> QED
    BY <1>5, <2>1, <2>2, <2>3 DEF Restart, TypeOK
<1> QED
  BY <1>1, <1>2, <1>3, <1>4, <1>5 DEF Boot

LEMMA UserTypes ==
  ASSUME ManagerTypes, NEW i \in Instances, NEW n \in Names, GetQueue(i, n) \/ ScheduleRecurring(i, n)
  PROVE  ManagerTypes'
<1>1. ASSUME GetQueue(i, n) PROVE ManagerTypes'
  <2>1. active[i] \in Setting
    BY TypesAt
  <2> QED
    BY <1>1, <2>1, DelegateTypes
       DEF GetQueue, ManagerTypes, CallTypes, ReloadTypes, HistoryTypes, TypeOK, database, local, bounds, versions
<1>2. ASSUME ScheduleRecurring(i, n) PROVE ManagerTypes'
  <2>1. delegate[i][n] \in Setting \cup {None}
    BY DEF ManagerTypes, TypeOK
  <2>2. jobs' \in [Instances -> SUBSET Names]
    <3>1. jobs' = jobs \/ jobs' = [jobs EXCEPT ![i] = @ \cup {n}]
      BY <1>2 DEF ScheduleRecurring
    <3>2. jobs \in [Instances -> SUBSET Names]
      BY DEF ManagerTypes, TypeOK
    <3> QED
      BY <3>1, <3>2
  <2>3. stored' \in [Setting -> SUBSET Names]
    BY <1>2, <2>1 DEF ScheduleRecurring, ManagerTypes, TypeOK
  <2> QED
    BY <1>2, <2>2, <2>3 DEF ScheduleRecurring, ManagerTypes, CallTypes, ReloadTypes, HistoryTypes,
       TypeOK, database, local, bounds, versions
<1> QED
  BY <1>1, <1>2

LEMMA SwitchTypes ==
  ASSUME ManagerTypes, NEW c \in Calls, CallStep(c)
  PROVE  ManagerTypes'
<1> DEFINE i == call[c].at
<1> USE CallAt, Starting DEF ManagerTypes, ReloadTypes, HistoryTypes
<1>1. ASSUME NEW k \in Instances, NEW target \in Targets, SwitchStart(c, k, target) PROVE ManagerTypes'
  <2> DEFINE r == [Unused EXCEPT !.pc = "stopping", !.at = k, !.target = target, !.recurring = Scheduled(k)]
  <2>1. r \in CallType /\ r.pc = "stopping" /\ r.at = k
    BY TargetAssumption DEF CallType, CallPhases, Scheduled, Proxies, Unused
  <2>2. CallTypes'
    BY <1>1, <2>1, CallStays, NotAnInstance DEF SwitchStart
  <2> QED
    BY <1>1, <2>2 DEF SwitchStart, LoopBegins, Looping, TypeOK, database, local, proxies, bounds, versions
<1>2. ASSUME NEW n \in Names, SwitchStop(c, n) PROVE ManagerTypes'
  <2>0. i \in Instances
    BY <1>2 DEF SwitchStop
  <2>1. CallTypes'
    <3> DEFINE r == [call[c] EXCEPT !.done = @ \cup {n}]
    <3>1. r \in CallType /\ r.pc = "stopping" /\ r.at = i
      BY <1>2 DEF SwitchStop, CallType
    <3>2. call' = [call EXCEPT ![c] = r]
      BY <1>2 DEF SwitchStop
    <3> HIDE DEF r
    <3> QED
      BY <2>0, <3>1, <3>2, CallStays, NotAnInstance
  <2> QED
    BY <1>2, <2>0, <2>1 DEF SwitchStop, TypeOK, database, local, bounds, versions
<1>3. ASSUME SwitchCommit(c) PROVE ManagerTypes'
  <2> DEFINE next == version[i] + 1
  <2>0. i \in Instances /\ next \in Nat
    BY <1>3, TypesAt DEF SwitchCommit
  <2>1. CallTypes'
    <3> DEFINE r == [call[c] EXCEPT !.pc = "replacing", !.done = {}, !.issued = next]
    <3> HIDE DEF next
    <3>1. r \in CallType /\ r.pc = "replacing" /\ r.at = i
      BY <2>0 DEF CallType, CallPhases
    <3>2. call' = [call EXCEPT ![c] = r]
      BY <1>3 DEF SwitchCommit, next
    <3> HIDE DEF r
    <3> QED
      BY <2>0, <3>1, <3>2, CallStays, NotAnInstance
  <2>2. phase' \in [Instances -> {"plugins", "pointer", "row", "running", "defaults"}]
    BY <1>3, <2>0 DEF SwitchCommit, TypeOK
  <2>3. \A k \in Instances : phase'[k] = "row" => phase[k] = "row"
    BY <1>3, <2>0 DEF SwitchCommit, TypeOK
  <2>4. active' \in [Instances -> Setting] /\ version' \in [Instances -> Nat]
    BY <1>3, <2>0 DEF SwitchCommit, TypeOK
  <2>5. issued' \subseteq Nat /\ ambiguous' \subseteq Nat
    BY <1>3, <2>0 DEF SwitchCommit
  <2> QED
    BY <1>3, <2>1, <2>2, <2>3, <2>4, <2>5 DEF SwitchCommit, TypeOK, database, proxies, bounds
<1>4. ASSUME NEW n \in Names, SwitchReplace(c, n) PROVE ManagerTypes'
  <2>0. i \in Instances
    BY <1>4 DEF SwitchReplace
  <2>1. CallTypes'
    <3> DEFINE r == [call[c] EXCEPT !.done = @ \cup {n}]
    <3>1. r \in CallType /\ r.pc = "replacing" /\ r.at = i
      BY <1>4 DEF SwitchReplace, CallType
    <3>2. call' = [call EXCEPT ![c] = r]
      BY <1>4 DEF SwitchReplace
    <3> HIDE DEF r
    <3> QED
      BY <2>0, <3>1, <3>2, CallStays, NotAnInstance
  <2>2. SwitchDelegate(i, n, call[c].target)
    BY <1>4 DEF SwitchReplace
  <2> HIDE DEF i
  <2> QED
    BY <1>4, <2>0, <2>1, <2>2, DelegateTypes DEF SwitchReplace, TypeOK, database, local, bounds, versions
<1>5. ASSUME SwitchMigrate(c) PROVE ManagerTypes'
  <2>1. CallTypes'
    <3> DEFINE r == [call[c] EXCEPT !.pc = "row"]
    <3>1. r \in CallType /\ r.pc = "row" /\ r.at = i /\ i \in Instances
      BY <1>5 DEF SwitchMigrate, CallType, CallPhases
    <3>2. call' = [call EXCEPT ![c] = r]
      BY <1>5 DEF SwitchMigrate
    <3> HIDE DEF r
    <3> QED
      BY <3>1, <3>2, CallStays, NotAnInstance
  <2> QED
    BY <1>5, <2>1 DEF SwitchMigrate, TypeOK, database, local, proxies, bounds, versions
<1>6. ASSUME SaveRow(c) PROVE ManagerTypes'
  <2>1. CallTypes'
    <3> DEFINE r == [call[c] EXCEPT !.pc = "version"]
    <3>1. r \in CallType /\ r.pc = "version" /\ r.at = i /\ i \in Instances
      BY <1>6 DEF SaveRow, CallType, CallPhases
    <3>2. call' = [call EXCEPT ![c] = r]
      BY <1>6 DEF SaveRow
    <3> HIDE DEF r
    <3> QED
      BY <3>1, <3>2, CallStays, NotAnInstance
  <2> QED
    BY <1>6, <2>1 DEF SaveRow, TypeOK, local, proxies, bounds, versions
<1>7. ASSUME ReadVersion(c) PROVE ManagerTypes'
  <2>1. CallTypes'
    <3> DEFINE r == [call[c] EXCEPT !.pc = "pointer", !.version = version[i]]
    <3>1. r \in CallType /\ r.pc = "pointer" /\ r.at = i /\ i \in Instances
      BY <1>7, TypesAt DEF ReadVersion, CallType, CallPhases
    <3>2. call' = [call EXCEPT ![c] = r]
      BY <1>7 DEF ReadVersion
    <3> HIDE DEF r
    <3> QED
      BY <3>1, <3>2, CallStays, NotAnInstance
  <2> QED
    BY <1>7, <2>1 DEF ReadVersion, TypeOK, database, local, proxies, bounds, versions
<1>8. ASSUME SavePointer(c) PROVE ManagerTypes'
  <2>1. CallTypes'
    BY <1>8, CallStays DEF SavePointer
  <2>2. call[c].version \in Nat
    BY DEF CallType
  <2>3. [plugin |-> call[c].target.plugin, version |-> call[c].version] \in [plugin : Plugins, version : Nat]
    BY <2>2
  <2>4. ambiguous' \subseteq Nat
    BY <1>8, <2>2 DEF SavePointer
  <2> QED
    BY <1>8, <2>1, <2>3, <2>4 DEF SavePointer, TypeOK, local, proxies, bounds
<1>9. ASSUME SwitchThrows(c) PROVE ManagerTypes'
  <2>1. CallTypes'
    BY <1>9, CallStays DEF SwitchThrows
  <2>2. behind' \in [Instances -> SUBSET Names]
    BY <1>9 DEF SwitchThrows, TypeOK, Proxies
  <2> QED
    BY <1>9, <2>1, <2>2 DEF SwitchThrows, TypeOK, database, local, versions
<1> QED
  BY <1>1, <1>2, <1>3, <1>4, <1>5, <1>6, <1>7, <1>8, <1>9 DEF CallStep, SwitchStep

LEMMA PollTypes ==
  ASSUME ManagerTypes, NEW i \in Instances, NEW t \in Ticks,
         \/ PollStep(i, t) \/ ReloadRowFails(i, t)
         \/ \E n \in Names : ReloadReplaceFails(i, t, n)
  PROVE  ManagerTypes'
<1> DEFINE SeenAt(r) == r.pc # "idle" => r.seen \in Pointers
<1>0. reload[i][t] \in ReloadType /\ SeenAt(reload[i][t]) /\ NoReload \in ReloadType /\ SeenAt(NoReload)
  BY Starting DEF ManagerTypes, ReloadTypes
<1>1. ASSUME NEW r \in ReloadType, SeenAt(r), reload' = [reload EXCEPT ![i][t] = r],
             TypeOK', UNCHANGED call, HistoryTypes',
             \A k \in Instances : phase'[k] = "row" => phase[k] = "row" /\ loading'[k] = loading[k]
      PROVE  ManagerTypes'
  BY <1>1, ReloadStays DEF ManagerTypes, CallTypes
<1> USE DEF ReloadPhases, ReloadType
<1>2. ASSUME PollRead(i, t) PROVE ManagerTypes'
  <2> DEFINE r == [NoReload EXCEPT !.pc = "compare", !.seen = pointer]
  <2>1. r \in ReloadType /\ SeenAt(r)
    BY <1>2, Starting DEF PollRead, ManagerTypes, TypeOK, Pointers
  <2> HIDE DEF r
  <2>2. reload' = [reload EXCEPT ![i][t] = r]
    BY <1>2 DEF PollRead, r
  <2>3. TypeOK' /\ UNCHANGED <<call, phase, loading>> /\ HistoryTypes'
    BY <1>2 DEF PollRead, ManagerTypes, HistoryTypes, TypeOK, database, local, proxies, bounds, versions
  <2> QED
    BY <1>1, <2>1, <2>2, <2>3
<1>3. ASSUME PollCompare(i, t) PROVE ManagerTypes'
  <2> DEFINE r == IF reload[i][t].seen.version # version[i] THEN [reload[i][t] EXCEPT !.pc = "row"] ELSE NoReload
  <2>1. r \in ReloadType /\ SeenAt(r)
    BY <1>0, <1>3 DEF PollCompare
  <2>2. reload' = [reload EXCEPT ![i][t] = r]
    BY <1>3 DEF PollCompare, ManagerTypes, ReloadTypes
  <2> HIDE DEF r
  <2>3. TypeOK' /\ UNCHANGED <<call, phase, loading>> /\ HistoryTypes'
    BY <1>3 DEF PollCompare, ManagerTypes, HistoryTypes, TypeOK, database, local, proxies, bounds, versions
  <2> QED
    BY <1>1, <2>1, <2>2, <2>3
<1>4. ASSUME ReloadRow(i, t) PROVE ManagerTypes'
  <2> DEFINE config == row[reload[i][t].seen.plugin]
  <2> DEFINE r == IF config = None THEN NoReload
                  ELSE [reload[i][t] EXCEPT !.pc = "replacing", !.config = config]
  <2>1. config \in Configs \cup {None}
    BY <1>0, <1>4 DEF ReloadRow, ManagerTypes, TypeOK, Pointers
  <2>2. reload' = [reload EXCEPT ![i][t] = r]
    BY <1>4 DEF ReloadRow, ManagerTypes, ReloadTypes
  <2>3. TypeOK' /\ UNCHANGED <<call, phase, loading>> /\ HistoryTypes'
    BY <1>4 DEF ReloadRow, LoopBegins, Looping, ManagerTypes, HistoryTypes, TypeOK, database, local, proxies,
       bounds, versions
  <2> HIDE DEF config
  <2>4. r \in ReloadType /\ SeenAt(r)
    BY <1>0, <1>4, <2>1 DEF ReloadRow
  <2> HIDE DEF r
  <2> QED
    BY <1>1, <2>2, <2>3, <2>4
<1>5. ASSUME ReloadRowFails(i, t) PROVE ManagerTypes'
  <2>1. TypeOK' /\ UNCHANGED <<call, phase, loading>> /\ HistoryTypes'
    BY <1>5 DEF ReloadRowFails, ManagerTypes, HistoryTypes, TypeOK, database, local, proxies, versions
  <2> QED
    BY <1>0, <1>1, <1>5, <2>1 DEF ReloadRowFails
<1>6. ASSUME NEW n \in Names, ReloadReplace(i, t, n) PROVE ManagerTypes'
  <2> DEFINE r == [reload[i][t] EXCEPT !.done = @ \cup {n}]
  <2>1. r \in ReloadType /\ SeenAt(r)
    BY <1>0
  <2>2. reload' = [reload EXCEPT ![i][t] = r]
    BY <1>6 DEF ReloadReplace, ManagerTypes, ReloadTypes
  <2> HIDE DEF r
  <2>3. Reloaded(i, t) \in Setting
    BY <1>6, ReloadedType DEF ReloadReplace
  <2>4. TypeOK' /\ UNCHANGED <<call, phase, loading>> /\ HistoryTypes'
    BY <1>6, <2>3, DelegateTypes
       DEF ReloadReplace, ManagerTypes, HistoryTypes, TypeOK, database, local, bounds, versions
  <2> QED
    BY <1>1, <2>1, <2>2, <2>4
<1>7. ASSUME NEW n \in Names, ReloadReplaceFails(i, t, n) PROVE ManagerTypes'
  <2> DEFINE r == [reload[i][t] EXCEPT !.done = @ \cup {n}]
  <2>1. r \in ReloadType /\ SeenAt(r)
    BY <1>0
  <2>2. reload' = [reload EXCEPT ![i][t] = r]
    BY <1>7 DEF ReloadReplaceFails, ManagerTypes, ReloadTypes
  <2> HIDE DEF r
  <2>3. TypeOK' /\ UNCHANGED <<call, phase, loading>> /\ HistoryTypes'
    BY <1>7 DEF ReloadReplaceFails, ManagerTypes, HistoryTypes, TypeOK, database, local, versions
  <2> QED
    BY <1>1, <2>1, <2>2, <2>3
<1>8. ASSUME ReloadApply(i, t) PROVE ManagerTypes'
  <2>1. Reloaded(i, t) \in Setting /\ reload[i][t].seen.version \in Nat
    BY <1>8, ReloadedType DEF ReloadApply
  <2>2. TypeOK' /\ UNCHANGED <<call, loading>> /\ HistoryTypes'
    BY <1>8, <2>1 DEF ReloadApply, ManagerTypes, HistoryTypes, TypeOK, database, proxies, bounds, versions
  <2>3. \A k \in Instances : phase'[k] = "row" => phase[k] = "row"
    BY <1>8 DEF ReloadApply, ManagerTypes, TypeOK
  <2> QED
    BY <1>0, <1>1, <1>8, <2>2, <2>3 DEF ReloadApply
<1> QED
  BY <1>2, <1>3, <1>4, <1>5, <1>6, <1>7, <1>8 DEF PollStep

LEMMA TypesStay ==
  ASSUME ManagerTypes, [Next]_vars
  PROVE  ManagerTypes'
<1>1. ASSUME UNCHANGED vars PROVE ManagerTypes'
  BY <1>1 DEF vars, database, local, proxies, bounds, versions, ManagerTypes, TypeOK, CallTypes,
     ReloadTypes, HistoryTypes
<1>2. ASSUME NEW i \in Instances, LocalStep(i) PROVE ManagerTypes'
  BY <1>2, BootTypes, UserTypes, PollTypes DEF LocalStep
<1>3. ASSUME NEW c \in Calls, CallStep(c) PROVE ManagerTypes'
  BY <1>3, SwitchTypes
<1> QED
  BY <1>1, <1>2, <1>3, NextSteps

\* The managers' fields and the two rows keep their types.
THEOREM ManagerTypesCorrect == Spec => []TypeOK
<1>1. ManagerTypes => TypeOK
  BY DEF ManagerTypes
<1> QED
  BY <1>1, StartedTypes, TypesStay, PTL DEF Spec

-----------------------------------------------------------------------------
(* The proxies follow the backend. A loop that runs alone leaves every proxy it
   has passed at its own setting, and when it ends that is the active one. *)

Follows(i, n, setting) == n \in open[i] /\ delegate[i][n] = setting

CallLoops(i, c) == call[c].at = i /\ call[c].pc \in {"stopping", "replacing"}
PollLoops(i, t) == reload[i][t].pc = "replacing"

Alone(i) ==
  /\ \A c, d \in Calls : CallLoops(i, c) /\ CallLoops(i, d) => c = d
  /\ \A t, u \in Ticks : PollLoops(i, t) /\ PollLoops(i, u) => t = u
  /\ \A c \in Calls, t \in Ticks : ~(CallLoops(i, c) /\ PollLoops(i, t))

RestKept(i) == ~Looping(i) => \A n \in Proxies(i) \ behind[i] : Follows(i, n, active[i])

CallKept(i, c) ==
  call[c].at = i /\ call[c].pc = "replacing" =>
    /\ active[i] = call[c].target
    /\ \A n \in (Proxies(i) \cap call[c].done) \ behind[i] : Follows(i, n, active[i])

PollKept(i, t) ==
  PollLoops(i, t) => \A n \in reload[i][t].done \ behind[i] : Follows(i, n, Reloaded(i, t))

LoopKept(i) ==
  /\ Alone(i) /\ RestKept(i)
  /\ \A c \in Calls : CallKept(i, c)
  /\ \A t \in Ticks : PollKept(i, t)

DoneKept(i) ==
  \A t \in Ticks : /\ reload[i][t].done \subseteq Proxies(i)
                   /\ reload[i][t].pc # "replacing" => reload[i][t].done = {}

BackendKept(i) == DoneKept(i) /\ (~overlapped[i] => LoopKept(i))

\* What a step of another instance leaves alone.
Untouched(k) ==
  /\ active'[k] = active[k] /\ delegate'[k] = delegate[k] /\ open'[k] = open[k]
  /\ behind'[k] = behind[k] /\ overlapped'[k] = overlapped[k] /\ reload'[k] = reload[k]
  /\ \A c \in Calls : call[c].at = k \/ call'[c].at = k => call'[c] = call[c]

CallStepAt(i, c) ==
  \/ call[c].at = i /\ (SwitchStep(c) \/ SwitchThrows(c))
  \/ \E target \in Targets : SwitchStart(c, i, target)

-----------------------------------------------------------------------------
LEMMA UntouchedKept ==
  ASSUME NEW k \in Instances, Untouched(k), BackendKept(k)
  PROVE  BackendKept(k)'
<1>1. Proxies(k)' = Proxies(k) /\ \A n, s : Follows(k, n, s)' = Follows(k, n, s)
  BY DEF Untouched, Proxies, Follows
<1>2. /\ Looping(k)' = Looping(k) /\ \A t : Reloaded(k, t)' = Reloaded(k, t) /\ PollLoops(k, t)' = PollLoops(k, t)
      /\ \A c \in Calls : CallLoops(k, c)' = CallLoops(k, c)
  BY DEF Untouched, Looping, Reloaded, PollLoops, CallLoops
<1>3. DoneKept(k)'
  BY <1>1 DEF Untouched, BackendKept, DoneKept
<1>4. ASSUME LoopKept(k) PROVE LoopKept(k)'
  <2>1. Alone(k)' /\ RestKept(k)'
    BY <1>1, <1>2, <1>4 DEF Untouched, LoopKept, Alone, RestKept
  <2>2. \A c \in Calls : CallKept(k, c)'
    BY <1>1, <1>4 DEF Untouched, LoopKept, CallKept
  <2>3. \A t \in Ticks : PollKept(k, t)'
    BY <1>1, <1>2, <1>4 DEF Untouched, LoopKept, PollKept
  <2> QED
    BY <2>1, <2>2, <2>3 DEF LoopKept
<1> QED
  BY <1>3, <1>4 DEF Untouched, BackendKept

LEMMA ProxiesAreNames == \A i : Proxies(i) \subseteq Names
BY DEF Proxies

\* What switchDelegate, also when it creates a queue, does to the proxies.
LEMMA DelegateEffect ==
  ASSUME ManagerTypes, NEW i \in Instances, NEW n \in Names, NEW s \in Setting, SwitchDelegate(i, n, s)
  PROVE  /\ Proxies(i)' = Proxies(i) \cup {n}
         /\ behind'[i] = behind[i] \ {n}
         /\ Follows(i, n, s)'
         /\ \A m \in Names \ {n} : \A x : Follows(i, m, x)' = Follows(i, m, x)
         /\ \A k \in Instances \ {i} : open'[k] = open[k] /\ delegate'[k] = delegate[k] /\ behind'[k] = behind[k]
<1>1. s # None
  BY NoneAssumption
<1>2. /\ delegate' = [delegate EXCEPT ![i][n] = s] /\ open' = [open EXCEPT ![i] = @ \cup {n}]
      /\ behind' = [behind EXCEPT ![i] = @ \ {n}]
  BY DEF SwitchDelegate
<1>3. /\ delegate'[i][n] = s /\ \A m \in Names \ {n} : delegate'[i][m] = delegate[i][m]
      /\ \A k \in Instances \ {i} : delegate'[k] = delegate[k]
  BY <1>2 DEF ManagerTypes, TypeOK
<1>4. /\ open'[i] = open[i] \cup {n} /\ behind'[i] = behind[i] \ {n}
      /\ \A k \in Instances \ {i} : open'[k] = open[k] /\ behind'[k] = behind[k]
  BY <1>2 DEF ManagerTypes, TypeOK
<1>5. Proxies(i)' = Proxies(i) \cup {n}
  BY <1>1, <1>3 DEF Proxies
<1> QED
  BY <1>3, <1>4, <1>5 DEF Follows

\* A loop that begins finds the others at rest, or is an overlap.
LEMMA BeginsAlone ==
  ASSUME ManagerTypes, NEW i \in Instances, LoopBegins(i)
  PROVE  overlapped'[i] = Looping(i)
BY DEF LoopBegins, ManagerTypes, HistoryTypes

LEMMA NotLooping ==
  ASSUME NEW i \in Instances, ~Looping(i)
  PROVE  (\A c \in Calls : ~CallLoops(i, c)) /\ (\A t \in Ticks : ~PollLoops(i, t))
BY DEF Looping, CallLoops, PollLoops

LEMMA LocalUntouched ==
  ASSUME ManagerTypes, NEW i \in Instances, NEW k \in Instances \ {i}, LocalStep(i)
  PROVE  Untouched(k)
<1> USE DEF ManagerTypes, TypeOK
<1>1. ASSUME Boot(i) \/ LoadFails(i) PROVE Untouched(k)
  BY <1>1 DEF Boot, LoadPlugins, LoadPointer, LoadRow, Load, LoadFails, Untouched, proxies, HistoryTypes
<1>2. ASSUME Restart(i) PROVE Untouched(k)
  <2>1. \A c \in Calls : call'[c] = IF call[c].at = i THEN Over ELSE call[c]
    BY <1>2 DEF Restart
  <2>2. \A c \in Calls : call[c].at = k \/ call'[c].at = k => call'[c] = call[c]
    BY <2>1, Starting, NotAnInstance
  <2> QED
    BY <1>2, <2>2 DEF Restart, Untouched, HistoryTypes, ReloadTypes
<1>3. ASSUME NEW n \in Names, GetQueue(i, n) PROVE Untouched(k)
  <2>1. active[i] \in Setting
    BY TypesAt
  <2> QED
    BY <1>3, <2>1, DelegateEffect DEF GetQueue, Untouched, local
<1>4. ASSUME NEW n \in Names, ScheduleRecurring(i, n) PROVE Untouched(k)
  BY <1>4 DEF ScheduleRecurring, Untouched, local
<1>5. ASSUME NEW t \in Ticks, PollRead(i, t) \/ PollCompare(i, t) \/ ReloadRowFails(i, t) PROVE Untouched(k)
  BY <1>5 DEF PollRead, PollCompare, ReloadRowFails, Untouched, ReloadTypes, local, proxies
<1>6. ASSUME NEW t \in Ticks, ReloadRow(i, t) PROVE Untouched(k)
  BY <1>6 DEF ReloadRow, LoopBegins, Untouched, ReloadTypes, HistoryTypes, local, proxies
<1>7. ASSUME NEW t \in Ticks, ReloadApply(i, t) PROVE Untouched(k)
  BY <1>7 DEF ReloadApply, Untouched, ReloadTypes, proxies
<1>8. ASSUME NEW t \in Ticks, NEW n \in Names, ReloadReplace(i, t, n) PROVE Untouched(k)
  <2>1. Reloaded(i, t) \in Setting
    BY <1>8, ReloadedType DEF ReloadReplace
  <2> QED
    BY <1>8, <2>1, DelegateEffect DEF ReloadReplace, Untouched, ReloadTypes, local
<1>9. ASSUME NEW t \in Ticks, NEW n \in Names, ReloadReplaceFails(i, t, n) PROVE Untouched(k)
  BY <1>9 DEF ReloadReplaceFails, Untouched, ReloadTypes, local
<1> QED
  BY <1>1, <1>2, <1>3, <1>4, <1>5, <1>6, <1>7, <1>8, <1>9 DEF LocalStep, PollStep

\* A step of a call changes that call only.
LEMMA OneCall ==
  ASSUME ManagerTypes, NEW c \in Calls, CallStep(c)
  PROVE  \A d \in Calls \ {c} : call'[d] = call[d]
BY DEF ManagerTypes, CallTypes, CallStep, SwitchStep, SwitchStart, SwitchStop, SwitchCommit, SwitchReplace,
   SwitchMigrate, SaveRow, ReadVersion, SavePointer, SwitchThrows

LEMMA CallUntouched ==
  ASSUME ManagerTypes, NEW c \in Calls, NEW i \in Instances, CallStepAt(i, c), NEW k \in Instances \ {i}
  PROVE  Untouched(k)
<1>1. CallStep(c)
  BY DEF CallStep, CallStepAt
<1>2. call[c].at # k /\ call'[c].at # k
  <2> USE DEF ManagerTypes, CallTypes
  <2>1. ASSUME NEW target \in Targets, SwitchStart(c, i, target) PROVE call[c].at = None /\ call'[c].at = i
    BY <2>1 DEF SwitchStart, Unused
  <2>2. ASSUME NEW n \in Names, SwitchStop(c, n) \/ SwitchReplace(c, n) PROVE call'[c].at = call[c].at
    BY <2>2, CallAt DEF SwitchStop, SwitchReplace, CallType
  <2>3. ASSUME SwitchCommit(c) \/ SwitchMigrate(c) \/ SaveRow(c) \/ ReadVersion(c) PROVE call'[c].at = call[c].at
    BY <2>3, CallAt DEF SwitchCommit, SwitchMigrate, SaveRow, ReadVersion, CallType
  <2>4. ASSUME SavePointer(c) \/ SwitchThrows(c) PROVE call'[c].at = None
    BY <2>4, Starting DEF SavePointer, SwitchThrows
  <2> QED
    BY <2>1, <2>2, <2>3, <2>4, NotAnInstance DEF CallStepAt, SwitchStep
<1>3. \A d \in Calls : call[d].at = k \/ call'[d].at = k => call'[d] = call[d]
  BY <1>1, <1>2, OneCall
<1>4. reload'[k] = reload[k]
  BY <1>1 DEF CallStep, SwitchStep, SwitchStart, SwitchStop, SwitchCommit, SwitchReplace, SwitchMigrate, SaveRow,
     ReadVersion, SavePointer, SwitchThrows
<1> USE DEF ManagerTypes, TypeOK, HistoryTypes
<1>5. ASSUME call[c].at = i, SwitchCommit(c) PROVE Untouched(k)
  BY <1>3, <1>4, <1>5 DEF SwitchCommit, Untouched, proxies
<1>6. ASSUME call[c].at = i, NEW n \in Names, SwitchStop(c, n) PROVE Untouched(k)
  BY <1>3, <1>4, <1>6 DEF SwitchStop, Untouched, local
<1>7. ASSUME call[c].at = i, NEW n \in Names, SwitchReplace(c, n) PROVE Untouched(k)
  <2>1. SwitchDelegate(i, n, call[c].target) /\ call[c].target \in Setting
    BY <1>7, CallAt DEF SwitchReplace
  <2> QED
    BY <1>3, <1>4, <1>7, <2>1, DelegateEffect DEF SwitchReplace, Untouched, local
<1>8. ASSUME call[c].at = i, SwitchThrows(c) PROVE Untouched(k)
  BY <1>3, <1>4, <1>8 DEF SwitchThrows, Untouched, local
<1>9. ASSUME NEW target \in Targets, SwitchStart(c, i, target) PROVE Untouched(k)
  BY <1>3, <1>4, <1>9 DEF SwitchStart, LoopBegins, Untouched, local, proxies
<1>10. ASSUME SwitchMigrate(c) \/ SaveRow(c) \/ ReadVersion(c) \/ SavePointer(c) PROVE Untouched(k)
  BY <1>3, <1>4, <1>10 DEF SwitchMigrate, SaveRow, ReadVersion, SavePointer, Untouched, local, proxies
<1> QED
  BY <1>5, <1>6, <1>7, <1>8, <1>9, <1>10 DEF CallStepAt, SwitchStep

\* Assigning a setting at boot leaves the queues that exist behind.
LEMMA LoadKeepsBackend ==
  ASSUME ManagerTypes, NEW i \in Instances, BackendKept(i), NEW s \in Setting, Load(i, s)
  PROVE  BackendKept(i)'
<1>1. /\ active'[i] = s /\ UNCHANGED <<delegate, open, call, reload>>
      /\ behind'[i] = (IF s = active[i] THEN behind[i] ELSE Proxies(i))
      /\ overlapped'[i] = (overlapped[i] \/ (s # active[i] /\ Looping(i)))
  BY DEF Load, ManagerTypes, TypeOK, HistoryTypes
<1>2. /\ Proxies(i)' = Proxies(i) /\ Looping(i)' = Looping(i) /\ Alone(i)' = Alone(i) /\ DoneKept(i)' = DoneKept(i)
      /\ \A n, x : Follows(i, n, x)' = Follows(i, n, x)
      /\ \A t : Reloaded(i, t)' = Reloaded(i, t) /\ PollLoops(i, t)' = PollLoops(i, t)
  BY <1>1 DEF Proxies, Looping, Alone, DoneKept, Follows, Reloaded, PollLoops, CallLoops
<1>3. CASE s = active[i]
  <2>1. LoopKept(i) => LoopKept(i)'
    BY <1>1, <1>2, <1>3 DEF LoopKept, RestKept, CallKept, PollKept
  <2> QED
    BY <1>1, <1>2, <1>3, <2>1 DEF BackendKept
<1>4. CASE s # active[i] /\ ~Looping(i)
  <2>1. LoopKept(i) => LoopKept(i)'
    BY <1>1, <1>2, <1>4, NotLooping DEF LoopKept, RestKept, CallKept, PollKept, CallLoops
  <2> QED
    BY <1>1, <1>2, <1>4, <2>1 DEF BackendKept
<1>5. CASE s # active[i] /\ Looping(i)
  BY <1>1, <1>2, <1>5 DEF BackendKept
<1> QED
  BY <1>3, <1>4, <1>5

LEMMA BootKeepsBackend ==
  ASSUME ManagerTypes, NEW i \in Instances, BackendKept(i), Boot(i) \/ LoadFails(i) \/ Restart(i)
  PROVE  BackendKept(i)'
<1>1. ASSUME LoadPlugins(i) \/ LoadFails(i) PROVE BackendKept(i)'
  <2>1. UNCHANGED <<active, delegate, open, behind, call, reload, overlapped>>
    BY <1>1 DEF LoadPlugins, LoadFails, proxies
  <2> QED
    BY <2>1, UntouchedKept DEF Untouched
<1>2. ASSUME LoadPointer(i) PROVE BackendKept(i)'
  <2>1. CASE pointer = None
    BY <1>2, <2>1, TypesAt, LoadKeepsBackend DEF LoadPointer
  <2>2. CASE pointer # None
    <3>1. [active[i] EXCEPT !.plugin = pointer.plugin] \in Setting
      BY <2>2, TypesAt DEF ManagerTypes, TypeOK, Setting
    <3> QED
      BY <1>2, <2>2, <3>1, LoadKeepsBackend DEF LoadPointer
  <2> QED
    BY <2>1, <2>2
<1>3. ASSUME LoadRow(i) PROVE BackendKept(i)'
  <2> DEFINE config == row[loading[i]]
             s == IF config = None THEN active[i] ELSE [active[i] EXCEPT !.config = config]
  <2>1. config \in Configs \cup {None}
    BY <1>3 DEF LoadRow, ManagerTypes, TypeOK
  <2>2. s \in Setting
    <3> HIDE DEF config
    <3> QED
      BY <2>1, TypesAt DEF Setting
  <2>3. Load(i, s)
    BY <1>3 DEF LoadRow
  <2> HIDE DEF s
  <2> QED
    BY <2>2, <2>3, LoadKeepsBackend
<1>4. ASSUME Restart(i) PROVE BackendKept(i)'
  <2>1. /\ delegate'[i] = [n \in Names |-> None] /\ \A t \in Ticks : reload'[i][t] = NoReload
    BY <1>4 DEF Restart, ManagerTypes, TypeOK, ReloadTypes
  <2>2. \A c \in Calls : call'[c].at # i
    <3>1. \A c \in Calls : call'[c] = IF call[c].at = i THEN Over ELSE call[c]
      BY <1>4 DEF Restart
    <3> QED
      BY <3>1, Starting, NotAnInstance
  <2>3. Proxies(i)' = {}
    BY <2>1 DEF Proxies
  <2>4. DoneKept(i)'
    BY <2>1, Starting DEF DoneKept
  <2>5. LoopKept(i)'
    BY <2>1, <2>2, <2>3, Starting DEF LoopKept, Alone, RestKept, CallKept, PollKept, CallLoops, PollLoops
  <2> QED
    BY <2>4, <2>5 DEF BackendKept
<1> QED
  BY <1>1, <1>2, <1>3, <1>4 DEF Boot

\* A queue created during a loop follows the active backend, and the loop has not passed it.
LEMMA UsersKeepBackend ==
  ASSUME ManagerTypes, NEW i \in Instances, BackendKept(i), NEW n \in Names,
         GetQueue(i, n) \/ ScheduleRecurring(i, n)
  PROVE  BackendKept(i)'
<1>1. ASSUME GetQueue(i, n) PROVE BackendKept(i)'
  <2>1. n \notin Proxies(i) /\ SwitchDelegate(i, n, active[i]) /\ UNCHANGED <<active, call, reload, overlapped>>
    BY <1>1 DEF GetQueue, local
  <2>2. /\ Proxies(i)' = Proxies(i) \cup {n} /\ behind'[i] = behind[i] \ {n} /\ Follows(i, n, active[i])'
        /\ \A m \in Names \ {n} : \A x : Follows(i, m, x)' = Follows(i, m, x)
    BY <2>1, DelegateEffect, TypesAt
  <2>3. Proxies(i) \subseteq Names \ {n}
    BY <2>1, ProxiesAreNames
  <2>4. DoneKept(i)'
    BY <2>1, <2>2 DEF BackendKept, DoneKept
  <2>5. LoopKept(i) => Alone(i)' /\ RestKept(i)'
    BY <2>1, <2>2, <2>3 DEF LoopKept, Alone, RestKept, Looping, CallLoops, PollLoops
  <2>6. LoopKept(i) => \A c \in Calls : CallKept(i, c)'
    BY <2>1, <2>2, <2>3 DEF LoopKept, CallKept
  <2>7. LoopKept(i) => \A t \in Ticks : PollKept(i, t)'
    BY <2>1, <2>2, <2>3 DEF BackendKept, DoneKept, LoopKept, PollKept, PollLoops, Reloaded
  <2> QED
    BY <2>1, <2>4, <2>5, <2>6, <2>7 DEF BackendKept, LoopKept
<1>2. ASSUME ScheduleRecurring(i, n) PROVE BackendKept(i)'
  <2>1. UNCHANGED <<active, delegate, open, behind, call, reload, overlapped>>
    BY <1>2 DEF ScheduleRecurring, local
  <2> QED
    BY <2>1, UntouchedKept DEF Untouched
<1> QED
  BY <1>1, <1>2

LEMMA SwitchKeepsBackend ==
  ASSUME ManagerTypes, NEW c \in Calls, NEW i \in Instances, CallStepAt(i, c), BackendKept(i)
  PROVE  BackendKept(i)'
<1>0. /\ call[c] \in CallType /\ call[c].target \in Setting
      /\ \A d \in Calls \ {c} : call'[d] = call[d]
  BY CallAt, OneCall DEF CallStep, CallStepAt
<1>1. ASSUME NEW target \in Targets, SwitchStart(c, i, target) PROVE BackendKept(i)'
  <2>1. /\ UNCHANGED <<active, delegate, open, behind, reload>> /\ overlapped'[i] = Looping(i)
        /\ call'[c].pc = "stopping"
    BY <1>1, BeginsAlone DEF SwitchStart, local, proxies, ManagerTypes, CallTypes, Unused
  <2>2. DoneKept(i)'
    BY <2>1 DEF BackendKept, DoneKept, Proxies
  <2>3. CASE ~Looping(i)
    <3>1. call'[c].at = i
      BY <1>1 DEF SwitchStart, ManagerTypes, CallTypes, Unused
    <3>2. (\A d \in Calls \ {c} : ~CallLoops(i, d)') /\ \A t \in Ticks : ~PollLoops(i, t)'
      BY <1>0, <2>1, <2>3, NotLooping DEF CallLoops, PollLoops
    <3>3. CallLoops(i, c)' /\ Looping(i)'
      BY <2>1, <3>1 DEF CallLoops, Looping
    <3> QED
      BY <1>0, <2>1, <2>2, <3>2, <3>3 DEF BackendKept, LoopKept, Alone, RestKept, CallKept, PollKept, CallLoops
  <2> QED
    BY <2>1, <2>2, <2>3 DEF BackendKept
<1> SUFFICES ASSUME call[c].at = i, SwitchStep(c) \/ SwitchThrows(c) PROVE BackendKept(i)'
  BY <1>1 DEF CallStepAt
\* Whatever the step, the loops at the instance are those of before, or fewer.
<1>2. ASSUME reload' = reload, overlapped' = overlapped, CallLoops(i, c)' => CallLoops(i, c)
      PROVE  LoopKept(i) => Alone(i)'
  BY <1>0, <1>2 DEF LoopKept, Alone, CallLoops, PollLoops
<1>3. ASSUME LoopKept(i), CallLoops(i, c)
      PROVE  (\A d \in Calls \ {c} : ~CallLoops(i, d)) /\ \A t \in Ticks : ~PollLoops(i, t)
  BY <1>3 DEF LoopKept, Alone
<1>4. ASSUME NEW n \in Names, SwitchStop(c, n) PROVE BackendKept(i)'
  <2>1. /\ UNCHANGED <<active, delegate, behind, reload, overlapped>>
        /\ call[c].pc = "stopping" /\ call'[c].pc = "stopping" /\ call'[c].at = i
    BY <1>0, <1>4 DEF SwitchStop, local, CallType, ManagerTypes, CallTypes
  <2>2. DoneKept(i)'
    BY <2>1 DEF BackendKept, DoneKept, Proxies
  <2>3. CallLoops(i, c) /\ CallLoops(i, c)' /\ Looping(i)'
    BY <2>1 DEF CallLoops, Looping
  <2>4. LoopKept(i) => LoopKept(i)'
    BY <1>0, <1>2, <1>3, <2>1, <2>3 DEF LoopKept, RestKept, CallKept, PollKept, CallLoops, PollLoops
  <2> QED
    BY <2>1, <2>2, <2>4 DEF BackendKept
<1>5. ASSUME SwitchCommit(c) PROVE BackendKept(i)'
  <2>1. /\ UNCHANGED <<delegate, open, behind, reload, overlapped>>
        /\ call[c].pc = "stopping" /\ call'[c].pc = "replacing" /\ call'[c].at = i /\ call'[c].done = {}
        /\ call'[c].target = call[c].target /\ active'[i] = call[c].target
    BY <1>0, <1>5 DEF SwitchCommit, proxies, CallType, ManagerTypes, CallTypes, TypeOK
  <2>2. DoneKept(i)'
    BY <2>1 DEF BackendKept, DoneKept, Proxies
  <2>3. CallLoops(i, c) /\ CallLoops(i, c)' /\ Looping(i)'
    BY <2>1 DEF CallLoops, Looping
  <2>4. LoopKept(i) => LoopKept(i)'
    BY <1>0, <1>2, <1>3, <2>1, <2>3 DEF LoopKept, RestKept, CallKept, PollKept, CallLoops, PollLoops
  <2> QED
    BY <2>1, <2>2, <2>4 DEF BackendKept
<1>6. ASSUME NEW n \in Names, SwitchReplace(c, n) PROVE BackendKept(i)'
  <2>1. /\ UNCHANGED <<active, reload, overlapped>> /\ SwitchDelegate(i, n, call[c].target)
        /\ call[c].pc = "replacing" /\ call'[c].pc = "replacing" /\ call'[c].at = i
        /\ call'[c].done = call[c].done \cup {n} /\ call'[c].target = call[c].target
    BY <1>0, <1>6 DEF SwitchReplace, local, CallType, ManagerTypes, CallTypes
  <2>2. /\ Proxies(i)' = Proxies(i) \cup {n} /\ behind'[i] = behind[i] \ {n} /\ Follows(i, n, call[c].target)'
        /\ \A m \in Names \ {n} : \A x : Follows(i, m, x)' = Follows(i, m, x)
    BY <1>0, <2>1, DelegateEffect
  <2>3. DoneKept(i)'
    BY <2>1, <2>2 DEF BackendKept, DoneKept
  <2>4. CallLoops(i, c) /\ CallLoops(i, c)' /\ Looping(i)'
    BY <2>1 DEF CallLoops, Looping
  <2>5. LoopKept(i) => CallKept(i, c)'
    BY <2>1, <2>2, ProxiesAreNames DEF LoopKept, CallKept
  <2>6. LoopKept(i) => LoopKept(i)'
    BY <1>0, <1>2, <1>3, <2>1, <2>4, <2>5 DEF LoopKept, RestKept, CallKept, PollKept, CallLoops, PollLoops
  <2> QED
    BY <2>1, <2>3, <2>6 DEF BackendKept
<1>7. ASSUME SwitchMigrate(c) \/ SwitchThrows(c) PROVE BackendKept(i)'
  <2>1. /\ UNCHANGED <<active, delegate, open, reload, overlapped>>
        /\ call'[c].pc \in {"row", "over"} /\ call[c].pc # "stopping"
        /\ behind[i] \subseteq behind'[i]
        /\ call[c].pc = "replacing" => Proxies(i) \ behind'[i] \subseteq call[c].done
    BY <1>0, <1>7, Starting DEF SwitchMigrate, SwitchThrows, local, proxies, CallType, ManagerTypes, CallTypes, TypeOK
  <2>2. DoneKept(i)' /\ Proxies(i)' = Proxies(i) /\ \A n, x : Follows(i, n, x)' = Follows(i, n, x)
    BY <2>1 DEF BackendKept, DoneKept, Proxies, Follows
  <2>3. ~CallLoops(i, c)'
    BY <2>1 DEF CallLoops
  <2>4. LoopKept(i) => RestKept(i)'
    <3>1. CASE call[c].pc = "replacing"
      BY <2>1, <2>2, <3>1 DEF LoopKept, RestKept, CallKept
    <3>2. CASE call[c].pc # "replacing"
      <4>1. Looping(i) => Looping(i)'
        BY <1>0, <2>1, <3>2 DEF Looping
      <4> QED
        BY <2>1, <2>2, <4>1 DEF LoopKept, RestKept
    <3> QED
      BY <3>1, <3>2
  <2>5. LoopKept(i) => \A d \in Calls : CallKept(i, d)'
    BY <1>0, <2>1, <2>2 DEF LoopKept, CallKept
  <2>6. LoopKept(i) => \A t \in Ticks : PollKept(i, t)'
    BY <2>1, <2>2 DEF LoopKept, PollKept, PollLoops, Reloaded
  <2> QED
    BY <1>2, <2>1, <2>2, <2>3, <2>4, <2>5, <2>6 DEF BackendKept, LoopKept
<1>8. ASSUME SaveRow(c) \/ ReadVersion(c) \/ SavePointer(c) PROVE BackendKept(i)'
  <2>1. /\ UNCHANGED <<active, delegate, open, behind, reload, overlapped>>
        /\ call[c].pc \notin {"stopping", "replacing"} /\ call'[c].pc \notin {"stopping", "replacing"}
    BY <1>0, <1>8, Starting DEF SaveRow, ReadVersion, SavePointer, local, proxies, CallType, ManagerTypes, CallTypes
  <2>2. /\ DoneKept(i)' = DoneKept(i) /\ Proxies(i)' = Proxies(i) /\ Looping(i)' = Looping(i)
        /\ \A n, x : Follows(i, n, x)' = Follows(i, n, x)
    BY <1>0, <2>1 DEF DoneKept, Proxies, Follows, Looping
  <2>3. ~CallLoops(i, c)'
    BY <2>1 DEF CallLoops
  <2>4. LoopKept(i) => RestKept(i)' /\ \A d \in Calls : CallKept(i, d)'
    BY <1>0, <2>1, <2>2 DEF LoopKept, RestKept, CallKept
  <2>5. LoopKept(i) => \A t \in Ticks : PollKept(i, t)'
    BY <2>1, <2>2 DEF LoopKept, PollKept, PollLoops, Reloaded
  <2> QED
    BY <1>2, <2>1, <2>2, <2>3, <2>4, <2>5 DEF BackendKept, LoopKept
<1> QED
  BY <1>4, <1>5, <1>6, <1>7, <1>8 DEF SwitchStep

LEMMA PollKeepsBackend ==
  ASSUME ManagerTypes, NEW i \in Instances, BackendKept(i), NEW t \in Ticks,
         \/ PollStep(i, t) \/ ReloadRowFails(i, t)
         \/ \E n \in Names : ReloadReplaceFails(i, t, n)
  PROVE  BackendKept(i)'
<1>0. /\ reload[i][t] \in ReloadType
      /\ \A r : reload' = [reload EXCEPT ![i][t] = r]
             => reload'[i][t] = r /\ \A u \in Ticks \ {t} : reload'[i][u] = reload[i][u]
  BY TypesAt DEF ManagerTypes, ReloadTypes
<1>1. ASSUME LoopKept(i), PollLoops(i, t)
      PROVE  (\A c \in Calls : ~CallLoops(i, c)) /\ \A u \in Ticks \ {t} : ~PollLoops(i, u)
  BY <1>1 DEF LoopKept, Alone
\* The poll reads, compares or gives up: no loop begins or ends.
<1>2. ASSUME PollRead(i, t) \/ PollCompare(i, t) \/ ReloadRowFails(i, t) \/ (ReloadRow(i, t) /\ reload'[i][t] = NoReload)
      PROVE  BackendKept(i)'
  <2>0. PICK r : /\ reload' = [reload EXCEPT ![i][t] = r] /\ reload[i][t].pc # "replacing"
                 /\ r.pc # "replacing" /\ r.done \in {{}, reload[i][t].done} /\ overlapped' = overlapped
    <3>1. CASE PollRead(i, t)
      <4> DEFINE r == [NoReload EXCEPT !.pc = "compare", !.seen = pointer]
      <4>1. r.pc = "compare" /\ r.done = {}
        BY DEF NoReload
      <4>2. reload' = [reload EXCEPT ![i][t] = r] /\ reload[i][t].pc = "idle" /\ overlapped' = overlapped
        BY <3>1 DEF PollRead
      <4> HIDE DEF r
      <4> QED
        BY <4>1, <4>2
    <3>2. CASE PollCompare(i, t)
      <4> DEFINE r == IF reload[i][t].seen.version # version[i] THEN [reload[i][t] EXCEPT !.pc = "row"] ELSE NoReload
      <4>1. r.pc # "replacing" /\ r.done \in {{}, reload[i][t].done}
        BY <1>0, Starting DEF ReloadType
      <4>2. reload' = [reload EXCEPT ![i][t] = r] /\ reload[i][t].pc # "replacing" /\ overlapped' = overlapped
        BY <3>2 DEF PollCompare, ManagerTypes, ReloadTypes
      <4> HIDE DEF r
      <4> QED
        BY <4>1, <4>2
    <3>3. CASE ReloadRowFails(i, t) \/ (ReloadRow(i, t) /\ reload'[i][t] = NoReload)
      <4>1. reload' = [reload EXCEPT ![i][t] = NoReload] /\ reload[i][t].pc # "replacing" /\ overlapped' = overlapped
        <5>1. ASSUME ReloadRow(i, t), row[reload[i][t].seen.plugin] # None PROVE reload'[i][t].pc = "replacing"
          BY <1>0, <5>1 DEF ReloadRow, ManagerTypes, ReloadTypes, ReloadType
        <5> QED
          BY <3>3, <5>1, Starting DEF ReloadRow, ReloadRowFails
      <4> QED
        BY <4>1, Starting
    <3> QED
      BY <1>2, <3>1, <3>2, <3>3
  <2>1. /\ UNCHANGED <<active, delegate, open, behind, call>> /\ \A u \in Ticks \ {t} : reload'[i][u] = reload[i][u]
        /\ reload[i][t].pc # "replacing" /\ reload'[i][t].pc # "replacing"
        /\ reload'[i][t].done \in {{}, reload[i][t].done}
    BY <1>0, <1>2, <2>0 DEF PollRead, PollCompare, ReloadRow, ReloadRowFails, local, proxies
  <2>2. overlapped' = overlapped
    BY <2>0
  <2>3. /\ Proxies(i)' = Proxies(i) /\ Looping(i)' = Looping(i) /\ \A n, x : Follows(i, n, x)' = Follows(i, n, x)
        /\ \A u \in Ticks : PollLoops(i, u)' = PollLoops(i, u)
        /\ \A c : CallLoops(i, c)' = CallLoops(i, c)
    BY <2>1 DEF Proxies, Follows, Looping, PollLoops, CallLoops
  <2>4. DoneKept(i)'
    BY <2>1, <2>3 DEF BackendKept, DoneKept
  <2>5. LoopKept(i) => Alone(i)' /\ RestKept(i)' /\ \A c \in Calls : CallKept(i, c)'
    BY <2>1, <2>3 DEF LoopKept, Alone, RestKept, CallKept
  <2>6. LoopKept(i) => \A u \in Ticks : PollKept(i, u)'
    BY <2>1, <2>3 DEF LoopKept, PollKept, PollLoops, Reloaded
  <2> QED
    BY <2>2, <2>4, <2>5, <2>6 DEF BackendKept, LoopKept
<1>3. ASSUME ReloadRow(i, t), reload'[i][t] # NoReload PROVE BackendKept(i)'
  <2>1. /\ UNCHANGED <<active, delegate, open, behind, call>> /\ \A u \in Ticks \ {t} : reload'[i][u] = reload[i][u]
        /\ reload[i][t].pc = "row" /\ reload'[i][t].pc = "replacing" /\ reload'[i][t].done = reload[i][t].done
        /\ LoopBegins(i)
    BY <1>0, <1>3 DEF ReloadRow, local, proxies, ManagerTypes, ReloadTypes, ReloadType
  <2>2. reload[i][t].done = {} /\ overlapped'[i] = Looping(i)
    BY <2>1, BeginsAlone DEF BackendKept, DoneKept
  <2>3. DoneKept(i)'
    BY <2>1, <2>2 DEF BackendKept, DoneKept, Proxies
  <2>4. CASE ~Looping(i)
    <3>1. (\A c \in Calls : ~CallLoops(i, c)') /\ \A u \in Ticks \ {t} : ~PollLoops(i, u)'
      BY <2>1, <2>4, NotLooping DEF CallLoops, PollLoops
    <3>2. PollLoops(i, t)' /\ Looping(i)'
      BY <2>1 DEF PollLoops, Looping
    <3>3. Alone(i)' /\ RestKept(i)' /\ \A c \in Calls : CallKept(i, c)'
      BY <3>1, <3>2 DEF Alone, RestKept, CallKept, CallLoops
    <3>4. \A u \in Ticks : PollKept(i, u)'
      BY <2>1, <2>2, <3>1 DEF PollKept
    <3> QED
      BY <2>3, <3>3, <3>4 DEF BackendKept, LoopKept
  <2> QED
    BY <2>2, <2>3, <2>4 DEF BackendKept
<1>4. ASSUME NEW n \in Names, ReloadReplace(i, t, n) PROVE BackendKept(i)'
  <2>1. /\ UNCHANGED <<active, call, overlapped>> /\ \A u \in Ticks \ {t} : reload'[i][u] = reload[i][u]
        /\ reload[i][t].pc = "replacing" /\ reload'[i][t].pc = "replacing" /\ n \in Proxies(i)
        /\ reload'[i][t].done = reload[i][t].done \cup {n} /\ Reloaded(i, t)' = Reloaded(i, t)
        /\ SwitchDelegate(i, n, Reloaded(i, t)) /\ Reloaded(i, t) \in Setting
    BY <1>0, <1>4, ReloadedType DEF ReloadReplace, Reloaded, local, ManagerTypes, ReloadTypes, ReloadType
  <2>2. /\ Proxies(i)' = Proxies(i) /\ behind'[i] = behind[i] \ {n} /\ Follows(i, n, Reloaded(i, t))'
        /\ \A m \in Names \ {n} : \A x : Follows(i, m, x)' = Follows(i, m, x)
    BY <2>1, DelegateEffect
  <2>3. DoneKept(i)'
    BY <2>1, <2>2 DEF BackendKept, DoneKept
  <2>4. PollLoops(i, t) /\ PollLoops(i, t)' /\ Looping(i)'
    BY <2>1 DEF PollLoops, Looping
  <2>5. LoopKept(i) => PollKept(i, t)'
    BY <2>1, <2>2, <2>4, ProxiesAreNames DEF BackendKept, DoneKept, LoopKept, PollKept
  <2>6. LoopKept(i) => (\A c \in Calls : ~CallLoops(i, c)') /\ \A u \in Ticks \ {t} : ~PollLoops(i, u)'
    BY <1>1, <2>1, <2>4 DEF CallLoops, PollLoops
  <2>7. LoopKept(i) => Alone(i)' /\ RestKept(i)' /\ \A c \in Calls : CallKept(i, c)'
    BY <2>4, <2>6 DEF Alone, RestKept, CallKept, CallLoops
  <2> QED
    BY <2>1, <2>3, <2>5, <2>6, <2>7 DEF BackendKept, LoopKept, PollKept
<1>5. ASSUME NEW n \in Names, ReloadReplaceFails(i, t, n) PROVE BackendKept(i)'
  <2>1. /\ UNCHANGED <<active, delegate, open, call, overlapped>>
        /\ \A u \in Ticks \ {t} : reload'[i][u] = reload[i][u]
        /\ reload[i][t].pc = "replacing" /\ reload'[i][t].pc = "replacing" /\ n \in Proxies(i)
        /\ reload'[i][t].done = reload[i][t].done \cup {n} /\ Reloaded(i, t)' = Reloaded(i, t)
        /\ behind'[i] = behind[i] \cup {n}
    BY <1>0, <1>5 DEF ReloadReplaceFails, Reloaded, local, ManagerTypes, ReloadTypes, ReloadType, TypeOK
  <2>2. Proxies(i)' = Proxies(i) /\ \A m, x : Follows(i, m, x)' = Follows(i, m, x)
    BY <2>1 DEF Proxies, Follows
  <2>3. DoneKept(i)'
    BY <2>1, <2>2 DEF BackendKept, DoneKept
  <2>4. PollLoops(i, t) /\ PollLoops(i, t)' /\ Looping(i)'
    BY <2>1 DEF PollLoops, Looping
  <2>5. LoopKept(i) => PollKept(i, t)'
    BY <2>1, <2>2, <2>4 DEF LoopKept, PollKept
  <2>6. LoopKept(i) => (\A c \in Calls : ~CallLoops(i, c)') /\ \A u \in Ticks \ {t} : ~PollLoops(i, u)'
    BY <1>1, <2>1, <2>4 DEF CallLoops, PollLoops
  <2>7. LoopKept(i) => Alone(i)' /\ RestKept(i)' /\ \A c \in Calls : CallKept(i, c)'
    BY <2>4, <2>6 DEF Alone, RestKept, CallKept, CallLoops
  <2> QED
    BY <2>1, <2>3, <2>5, <2>6, <2>7 DEF BackendKept, LoopKept, PollKept
<1>6. ASSUME ReloadApply(i, t) PROVE BackendKept(i)'
  <2>1. /\ UNCHANGED <<delegate, open, behind, call, overlapped>> /\ \A u \in Ticks \ {t} : reload'[i][u] = reload[i][u]
        /\ reload[i][t].pc = "replacing" /\ reload[i][t].done = Proxies(i)
        /\ reload'[i][t].pc = "idle" /\ reload'[i][t].done = {} /\ active'[i] = Reloaded(i, t)
    BY <1>0, <1>6, Starting DEF ReloadApply, proxies, ManagerTypes, TypeOK
  <2>2. Proxies(i)' = Proxies(i) /\ \A m, x : Follows(i, m, x)' = Follows(i, m, x)
    BY <2>1 DEF Proxies, Follows
  <2>3. DoneKept(i)'
    BY <2>1, <2>2 DEF BackendKept, DoneKept
  <2>4. PollLoops(i, t) /\ ~PollLoops(i, t)'
    BY <2>1 DEF PollLoops
  <2>5. LoopKept(i) => RestKept(i)'
    BY <2>1, <2>2, <2>4 DEF LoopKept, RestKept, PollKept
  <2>6. LoopKept(i) => (\A c \in Calls : ~CallLoops(i, c)') /\ \A u \in Ticks : ~PollLoops(i, u)'
    BY <1>1, <2>1, <2>4 DEF CallLoops, PollLoops
  <2>7. LoopKept(i) => LoopKept(i)'
    BY <2>5, <2>6 DEF LoopKept, Alone, CallKept, CallLoops, PollKept
  <2> QED
    BY <2>1, <2>3, <2>7 DEF BackendKept
<1> QED
  BY <1>2, <1>3, <1>4, <1>5, <1>6 DEF PollStep

\* Applications get queues without knowing which backend is active: every proxy of
\* an instance that is in no loop accepts work and delegates to the active backend,
\* also one created while a loop was running, but for those that a failure or the
\* boot left behind and the instances whose loops ran into each other. For any
\* switches, polls, queues asked for during the boot, restarts and failures.
THEOREM QueuesFollowBackendCorrect == Spec => []QueuesFollowBackend
<1> DEFINE Inv == ManagerTypes /\ \A i \in Instances : BackendKept(i)
<1>1. Init => Inv
  <2> SUFFICES ASSUME Init, NEW i \in Instances PROVE BackendKept(i)
    BY StartedTypes
  <2>1. Proxies(i) = {} /\ (\A c \in Calls : call[c].at = None) /\ \A t \in Ticks : reload[i][t] = NoReload
    BY Starting DEF Init, Proxies
  <2> QED
    BY <2>1, Starting, NotAnInstance DEF BackendKept, DoneKept, LoopKept, Alone, RestKept, CallKept, PollKept,
       CallLoops, PollLoops
<1>2. Inv /\ [Next]_vars => Inv'
  <2> SUFFICES ASSUME Inv, [Next]_vars PROVE Inv'
    OBVIOUS
  <2>1. ManagerTypes'
    BY TypesStay
  <2>2. CASE UNCHANGED vars
    <3>1. \A k \in Instances : Untouched(k)
      BY <2>2 DEF vars, local, proxies, Untouched
    <3> QED
      BY <2>1, <3>1, UntouchedKept
  <2>3. ASSUME NEW i \in Instances, LocalStep(i) PROVE \A k \in Instances : BackendKept(k)'
    <3>1. BackendKept(i)'
      BY <2>3, BootKeepsBackend, UsersKeepBackend, PollKeepsBackend DEF LocalStep
    <3>2. ASSUME NEW k \in Instances \ {i} PROVE BackendKept(k)'
      BY <2>3, LocalUntouched, UntouchedKept
    <3> QED
      BY <3>1, <3>2
  <2>4. ASSUME NEW c \in Calls, CallStep(c) PROVE \A k \in Instances : BackendKept(k)'
    <3>1. PICK i \in Instances : CallStepAt(i, c)
      BY <2>4, CallAt DEF CallStep, CallStepAt, SwitchStep, SwitchStop, SwitchCommit, SwitchReplace, SwitchMigrate,
         SaveRow, ReadVersion, SavePointer, SwitchThrows
    <3>2. BackendKept(i)'
      BY <3>1, SwitchKeepsBackend
    <3>3. ASSUME NEW k \in Instances \ {i} PROVE BackendKept(k)'
      BY <3>1, CallUntouched, UntouchedKept
    <3> QED
      BY <3>2, <3>3
  <2> QED
    BY <2>1, <2>2, <2>3, <2>4, NextSteps
<1>3. Inv => QueuesFollowBackend
  BY DEF QueuesFollowBackend, BackendKept, LoopKept, RestKept, Follows
<1> HIDE DEF Inv
<1> QED
  BY <1>1, <1>2, <1>3, PTL DEF Spec

-----------------------------------------------------------------------------
(* A version names one setting. What a switch counted up to is known, until it
   stores it, to its own instance only; once stored, to the instances and polls
   that have read the pointer, and they have, or are about to read, its row. *)

Committed(c) == call[c].pc \in {"replacing", "row", "version", "pointer"}

\* Every version but the first comes from a switch.
VersionsIssued ==
  /\ 0 \notin issued
  /\ pointer # None => pointer.version \in issued
  /\ \A k \in Instances : version[k] \in issued \cup {0}
  /\ \A k \in Instances, t \in Ticks : reload[k][t].pc # "idle" => reload[k][t].seen.version \in issued
  /\ \A c \in Calls : Committed(c) => call[c].issued \in issued /\ version[call[c].at] \in issued
  /\ \A c \in Calls : call[c].pc = "pointer" => call[c].version \in issued

RowsThere ==
  /\ pointer # None => row[pointer.plugin] # None
  /\ \A c \in Calls : call[c].pc \in {"version", "pointer"} => row[call[c].target.plugin] # None

\* The version of a switch that has not stored it.
PendingKept(c) ==
  Committed(c) /\ call[c].issued \notin ambiguous =>
    /\ pointer # None => pointer.version # call[c].issued
    /\ \A k \in Instances : version[k] = call[c].issued
         => k = call[c].at /\ active[k] = call[c].target /\ phase[k] # "row"
    /\ \A k \in Instances, t \in Ticks : reload[k][t].pc # "idle" => reload[k][t].seen.version # call[c].issued
    /\ \A d \in Calls \ {c} : Committed(d) => call[d].issued # call[c].issued

Unambiguous == pointer # None /\ pointer.version \notin ambiguous

\* The stored version.
HolderKept(k) ==
  version[k] = pointer.version =>
    /\ phase[k] = "row" => loading[k] = pointer.plugin /\ active[k].plugin = pointer.plugin
    /\ phase[k] \notin {"row", "defaults"} => active[k] = Saved
ReaderKept(k, t) ==
  reload[k][t].pc # "idle" /\ reload[k][t].seen.version = pointer.version =>
    /\ reload[k][t].seen.plugin = pointer.plugin
    /\ ~torn /\ reload[k][t].pc = "replacing" => reload[k][t].config = row[pointer.plugin]
StoredKept ==
  Unambiguous =>
    /\ ~torn => \A k \in Instances : HolderKept(k)
    /\ \A k \in Instances, t \in Ticks : ReaderKept(k, t)

VersionsKept == VersionsIssued /\ RowsThere /\ (\A c \in Calls : PendingKept(c)) /\ StoredKept

\* Steps that only move proxies.
VersionsAside ==
  /\ UNCHANGED <<database, local, versions>>
  /\ \A c \in Calls :
       \/ call'[c].pc = call[c].pc /\ call'[c].at = call[c].at /\ call'[c].target = call[c].target
          /\ call'[c].issued = call[c].issued /\ call'[c].version = call[c].version
       \/ call'[c].pc \in {"unused", "stopping", "over"}
       \/ call[c].pc = "replacing" /\ call'[c].pc = "row" /\ call'[c].at = call[c].at
          /\ call'[c].target = call[c].target /\ call'[c].issued = call[c].issued
  /\ \A k \in Instances, t \in Ticks :
       reload'[k][t].pc = "idle" \/ (/\ reload'[k][t].pc = reload[k][t].pc /\ reload'[k][t].seen = reload[k][t].seen
                                     /\ reload'[k][t].config = reload[k][t].config)

-----------------------------------------------------------------------------
LEMMA AsideKeeps == VersionsKept /\ VersionsAside => VersionsKept'
<1> SUFFICES ASSUME VersionsKept, VersionsAside PROVE VersionsKept'
  OBVIOUS
<1> USE DEF VersionsAside, database, local, versions, Committed
<1>1. VersionsIssued' /\ RowsThere'
  BY DEF VersionsKept, VersionsIssued, RowsThere
<1>2. ASSUME NEW c \in Calls PROVE PendingKept(c)'
  BY DEF VersionsKept, PendingKept
<1>3. StoredKept'
  BY DEF VersionsKept, StoredKept, Unambiguous, HolderKept, ReaderKept, Saved
<1> QED
  BY <1>1, <1>2, <1>3 DEF VersionsKept

LEMMA CommittedAt ==
  ASSUME ManagerTypes, NEW c \in Calls, Committed(c)
  PROVE  call[c].at \in Instances
BY CallAt DEF Committed

LEMMA UsersKeepVersions ==
  ASSUME ManagerTypes, VersionsKept, NEW i \in Instances, NEW n \in Names, GetQueue(i, n) \/ ScheduleRecurring(i, n)
  PROVE  VersionsKept'
<1>1. VersionsAside
  BY DEF GetQueue, ScheduleRecurring, VersionsAside
<1> QED
  BY <1>1, AsideKeeps

LEMMA BootKeepsVersions ==
  ASSUME ManagerTypes, VersionsKept, NEW i \in Instances, Boot(i) \/ LoadFails(i) \/ Restart(i)
  PROVE  VersionsKept'
<1> USE DEF VersionsKept
<1>1. ASSUME LoadPlugins(i) \/ LoadFails(i) PROVE VersionsKept'
  <2>0. /\ UNCHANGED <<database, active, version, call, reload, versions>>
        /\ phase'[i] \in {"pointer", "defaults"} /\ phase[i] \in {"plugins", "pointer", "row"}
        /\ phase[i] = "plugins" <=> phase'[i] = "pointer"
        /\ \A k \in Instances \ {i} : phase'[k] = phase[k] /\ loading'[k] = loading[k]
    BY <1>1 DEF LoadPlugins, LoadFails, ManagerTypes, TypeOK
  <2>1. VersionsIssued' /\ RowsThere'
    BY <2>0 DEF VersionsIssued, RowsThere, Committed, database, versions
  <2>2. ASSUME NEW c \in Calls PROVE PendingKept(c)'
    BY <2>0 DEF PendingKept, Committed, database, versions
  <2>3. StoredKept'
    BY <2>0 DEF StoredKept, Unambiguous, HolderKept, ReaderKept, Saved, database, versions
  <2> QED
    BY <2>1, <2>2, <2>3
<1>2. ASSUME LoadPointer(i), pointer = None PROVE VersionsKept'
  <2>0. UNCHANGED <<database, version, loading, call, reload, versions>> /\ phase'[i] # "row" /\ active' = active
        /\ \A k \in Instances \ {i} : phase'[k] = phase[k]
    BY <1>2 DEF LoadPointer, Load, ManagerTypes, TypeOK
  <2>1. VersionsIssued' /\ RowsThere'
    BY <2>0 DEF VersionsIssued, RowsThere, Committed, database, versions
  <2>2. ASSUME NEW c \in Calls PROVE PendingKept(c)'
    BY <2>0 DEF PendingKept, Committed, database, versions
  <2>3. StoredKept'
    BY <1>2, <2>0 DEF StoredKept, Unambiguous, database
  <2> QED
    BY <2>1, <2>2, <2>3
<1>3. ASSUME LoadPointer(i), pointer # None PROVE VersionsKept'
  <2>0. /\ UNCHANGED <<database, call, reload, versions>>
        /\ phase'[i] = "row" /\ loading'[i] = pointer.plugin /\ version'[i] = pointer.version
        /\ active'[i] = [active[i] EXCEPT !.plugin = pointer.plugin]
        /\ \A k \in Instances \ {i} : phase'[k] = phase[k] /\ loading'[k] = loading[k]
                                     /\ active'[k] = active[k] /\ version'[k] = version[k]
    BY <1>3 DEF LoadPointer, Load, ManagerTypes, TypeOK
  <2>1. active'[i].plugin = pointer.plugin
    BY <2>0, TypesAt DEF Setting
  <2>2. VersionsIssued' /\ RowsThere'
    <3>1. \A k \in Instances : version'[k] \in issued \cup {0} /\ (version[k] \in issued => version'[k] \in issued)
      BY <1>3, <2>0 DEF VersionsIssued
    <3> QED
      BY <2>0, <3>1, CommittedAt DEF VersionsIssued, RowsThere, Committed, database, versions
  <2>3. ASSUME NEW c \in Calls PROVE PendingKept(c)'
    BY <1>3, <2>0 DEF PendingKept, Committed, database, versions
  <2>4. StoredKept'
    <3> SUFFICES ASSUME Unambiguous PROVE StoredKept'
      BY <2>0 DEF StoredKept, Unambiguous, database, versions
    <3>1. HolderKept(i)'
      BY <2>0, <2>1 DEF HolderKept, database
    <3>2. ~torn => \A k \in Instances \ {i} : HolderKept(k)'
      BY <2>0 DEF StoredKept, HolderKept, Saved, database
    <3>3. \A k \in Instances, t \in Ticks : ReaderKept(k, t)'
      BY <2>0 DEF StoredKept, ReaderKept, database
    <3> QED
      BY <2>0, <3>1, <3>2, <3>3 DEF StoredKept, database
  <2> QED
    BY <2>2, <2>3, <2>4
<1>4. ASSUME LoadRow(i) PROVE VersionsKept'
  <2> DEFINE config == row[loading[i]]
             s == IF config = None THEN active[i] ELSE [active[i] EXCEPT !.config = config]
  <2>0. /\ UNCHANGED <<database, version, call, reload, versions>>
        /\ phase[i] = "row" /\ phase'[i] = "running" /\ active'[i] = s
        /\ \A k \in Instances \ {i} : phase'[k] = phase[k] /\ loading'[k] = loading[k] /\ active'[k] = active[k]
    BY <1>4 DEF LoadRow, Load, ManagerTypes, TypeOK
  <2>1. Unambiguous /\ ~torn /\ version[i] = pointer.version => s = Saved
    <3> SUFFICES ASSUME Unambiguous, ~torn, version[i] = pointer.version PROVE s = Saved
      OBVIOUS
    <3>1. loading[i] = pointer.plugin /\ active[i].plugin = pointer.plugin /\ config # None
      BY <2>0 DEF StoredKept, HolderKept, RowsThere, Unambiguous
    <3>2. active[i] \in Setting
      BY TypesAt
    <3> QED
      BY <3>1, <3>2 DEF Saved, Unambiguous, Setting
  <2> HIDE DEF s
  <2>2. VersionsIssued' /\ RowsThere'
    BY <2>0 DEF VersionsIssued, RowsThere, Committed, database, versions
  <2>3. ASSUME NEW c \in Calls PROVE PendingKept(c)'
    BY <2>0 DEF PendingKept, Committed, database, versions
  <2>4. StoredKept'
    <3> SUFFICES ASSUME Unambiguous PROVE StoredKept'
      BY <2>0 DEF StoredKept, Unambiguous, database, versions
    <3>1. ~torn => \A k \in Instances : HolderKept(k)'
      BY <2>0, <2>1 DEF StoredKept, HolderKept, Saved, database
    <3>2. \A k \in Instances, t \in Ticks : ReaderKept(k, t)'
      BY <2>0 DEF StoredKept, ReaderKept, database
    <3> QED
      BY <2>0, <3>1, <3>2 DEF StoredKept, database
  <2> QED
    BY <2>2, <2>3, <2>4
<1>5. ASSUME Restart(i) PROVE VersionsKept'
  <2>0. /\ UNCHANGED <<database, versions>>
        /\ phase'[i] = "plugins" /\ version'[i] = 0
        /\ \A t \in Ticks : reload'[i][t].pc = "idle"
        /\ \A k \in Instances \ {i} : phase'[k] = phase[k] /\ loading'[k] = loading[k]
             /\ active'[k] = active[k] /\ version'[k] = version[k] /\ reload'[k] = reload[k]
    BY <1>5, Starting DEF Restart, ManagerTypes, TypeOK, ReloadTypes
  <2>1. \A c \in Calls : call'[c].pc = "over" \/ (call'[c] = call[c] /\ call[c].at # i)
    <3>1. call' = [c \in Calls |-> IF call[c].at = i THEN Over ELSE call[c]]
      BY <1>5 DEF Restart
    <3>2. Over.pc = "over"
      BY Starting
    <3>3. \A c \in Calls : call'[c] = IF call[c].at = i THEN Over ELSE call[c]
      BY <3>1
    <3> QED
      BY <3>2, <3>3
  <2>2. VersionsIssued' /\ RowsThere'
    <3>1. \A k \in Instances : version'[k] \in issued \cup {0}
      BY <2>0 DEF VersionsIssued
    <3>2. \A k \in Instances, t \in Ticks : reload'[k][t].pc # "idle" => reload'[k][t].seen.version \in issued
      BY <2>0 DEF VersionsIssued
    <3>3. ASSUME NEW c \in Calls, Committed(c)' PROVE call'[c].issued \in issued /\ version'[call'[c].at] \in issued
      BY <2>0, <2>1, <3>3, CommittedAt DEF VersionsIssued, Committed
    <3> QED
      BY <2>0, <2>1, <3>1, <3>2, <3>3 DEF VersionsIssued, RowsThere, database, versions
  <2>3. ASSUME NEW c \in Calls PROVE PendingKept(c)'
    <3> SUFFICES ASSUME Committed(c)', (call[c].issued \notin ambiguous)' PROVE PendingKept(c)'
      BY DEF PendingKept
    <3>1. call'[c] = call[c] /\ Committed(c) /\ call[c].issued \in issued /\ call[c].issued # 0 /\ call[c].at # i
      BY <2>1 DEF Committed, VersionsIssued
    <3>2. PendingKept(c) /\ call[c].issued \notin ambiguous
      BY <2>0, <3>1 DEF versions
    <3>3. \A d \in Calls \ {c} : Committed(d)' => call'[d].issued # call[c].issued
      BY <2>1, <3>1, <3>2 DEF PendingKept, Committed
    <3> QED
      BY <2>0, <3>1, <3>2, <3>3 DEF PendingKept, database
  <2>4. StoredKept'
    <3> SUFFICES ASSUME Unambiguous PROVE StoredKept'
      BY <2>0 DEF StoredKept, Unambiguous, database, versions
    <3>1. pointer.version # 0
      BY DEF Unambiguous, VersionsIssued
    <3>2. ~torn => \A k \in Instances : HolderKept(k)'
      BY <2>0, <3>1 DEF StoredKept, HolderKept, Saved, database
    <3>3. \A k \in Instances, t \in Ticks : ReaderKept(k, t)'
      BY <2>0 DEF StoredKept, ReaderKept, database
    <3> QED
      BY <2>0, <3>2, <3>3 DEF StoredKept, database
  <2> QED
    BY <2>2, <2>3, <2>4
<1> QED
  BY <1>1, <1>2, <1>3, <1>4, <1>5 DEF Boot

LEMMA SwitchKeepsVersions ==
  ASSUME ManagerTypes, VersionsKept, NEW c \in Calls, CallStep(c)
  PROVE  VersionsKept'
<1> USE DEF VersionsKept
<1> DEFINE i == call[c].at
<1>0. /\ call[c] \in CallType
      /\ \A r : call' = [call EXCEPT ![c] = r] => call'[c] = r /\ \A d \in Calls \ {c} : call'[d] = call[d]
  BY CallAt DEF ManagerTypes, CallTypes
<1>1. ASSUME \/ \E k \in Instances, target \in Targets : SwitchStart(c, k, target)
             \/ \E n \in Names : SwitchStop(c, n) \/ SwitchReplace(c, n)
             \/ SwitchMigrate(c) \/ SwitchThrows(c)
      PROVE  VersionsKept'
  <2>1. UNCHANGED <<database, local, versions, reload>>
    BY <1>1 DEF SwitchStart, SwitchStop, SwitchReplace, SwitchMigrate, SwitchThrows
  <2>2. \A d \in Calls \ {c} : call'[d] = call[d]
    BY <1>0, <1>1 DEF SwitchStart, SwitchStop, SwitchReplace, SwitchMigrate, SwitchThrows, ManagerTypes, CallTypes
  <2>3. \/ call'[c].pc = call[c].pc /\ call'[c].at = call[c].at /\ call'[c].target = call[c].target
           /\ call'[c].issued = call[c].issued /\ call'[c].version = call[c].version
        \/ call'[c].pc \in {"stopping", "over"}
        \/ call[c].pc = "replacing" /\ call'[c].pc = "row" /\ call'[c].at = call[c].at
           /\ call'[c].target = call[c].target /\ call'[c].issued = call[c].issued
    <3>1. CASE \E k \in Instances, target \in Targets : SwitchStart(c, k, target)
      BY <1>0, <3>1 DEF SwitchStart, Unused
    <3>2. CASE \E n \in Names : SwitchStop(c, n) \/ SwitchReplace(c, n)
      BY <1>0, <3>2 DEF SwitchStop, SwitchReplace, CallType, ManagerTypes, CallTypes
    <3>3. CASE SwitchMigrate(c)
      BY <1>0, <3>3 DEF SwitchMigrate, CallType, ManagerTypes, CallTypes
    <3>4. CASE SwitchThrows(c)
      BY <1>0, <3>4, Starting DEF SwitchThrows, ManagerTypes, CallTypes
    <3> QED
      BY <1>1, <3>1, <3>2, <3>3, <3>4
  <2>4. VersionsAside
    BY <2>1, <2>2, <2>3 DEF VersionsAside
  <2> QED
    BY <2>4, AsideKeeps
<1>2. ASSUME SwitchCommit(c) PROVE VersionsKept'
  <2> DEFINE next == version[i] + 1
  <2>0. /\ i \in Instances /\ next \in Nat /\ next # 0
        /\ UNCHANGED <<database, loading, reload>>
        /\ issued' = issued \cup {next} /\ ambiguous \subseteq ambiguous'
        /\ next \in issued \/ phase[i] = "row" => next \in ambiguous'
        /\ call'[c].pc = "replacing" /\ call'[c].at = i /\ call'[c].target = call[c].target
        /\ call'[c].issued = next
        /\ \A d \in Calls \ {c} : call'[d] = call[d]
        /\ version'[i] = next /\ active'[i] = call[c].target
        /\ phase'[i] = "row" => phase[i] = "row"
        /\ \A k \in Instances \ {i} : phase'[k] = phase[k] /\ active'[k] = active[k] /\ version'[k] = version[k]
    <3>1. i \in Instances /\ next \in Nat /\ next # 0
      BY <1>2, CallAt, TypesAt DEF SwitchCommit
    <3>2. /\ call' = [call EXCEPT ![c].pc = "replacing", ![c].done = {}, ![c].issued = next]
          /\ active' = [active EXCEPT ![i] = call[c].target] /\ version' = [version EXCEPT ![i] = next]
          /\ phase' = [phase EXCEPT ![i] = IF @ = "defaults" THEN "running" ELSE @]
      BY <1>2 DEF SwitchCommit
    <3>3. /\ call'[c].pc = "replacing" /\ call'[c].at = i /\ call'[c].target = call[c].target
          /\ call'[c].issued = next /\ \A d \in Calls \ {c} : call'[d] = call[d]
      BY <1>0, <3>2 DEF CallType, ManagerTypes, CallTypes
    <3>4. /\ version'[i] = next /\ active'[i] = call[c].target
          /\ phase'[i] = "row" => phase[i] = "row"
          /\ \A k \in Instances \ {i} : phase'[k] = phase[k] /\ active'[k] = active[k] /\ version'[k] = version[k]
      BY <3>1, <3>2 DEF ManagerTypes, TypeOK
    <3>5. /\ UNCHANGED <<database, loading, reload>>
          /\ issued' = issued \cup {next} /\ ambiguous \subseteq ambiguous'
          /\ next \in issued \/ phase[i] = "row" => next \in ambiguous'
      BY <1>2 DEF SwitchCommit
    <3> QED
      BY <3>1, <3>3, <3>4, <3>5
  <2> HIDE DEF next, i
  <2>1. VersionsIssued' /\ RowsThere'
    <3>1. \A k \in Instances : version'[k] \in issued' \cup {0} /\ (version[k] \in issued => version'[k] \in issued')
      BY <2>0 DEF VersionsIssued
    <3>2. ASSUME NEW d \in Calls, Committed(d)' PROVE call'[d].issued \in issued' /\ version'[call'[d].at] \in issued'
      BY <2>0, <3>1, <3>2, CommittedAt DEF VersionsIssued, Committed
    <3> QED
      BY <2>0, <3>1, <3>2 DEF VersionsIssued, RowsThere, database
  <2>2. ASSUME NEW d \in Calls PROVE PendingKept(d)'
    <3> SUFFICES ASSUME Committed(d)', (call[d].issued \notin ambiguous)' PROVE PendingKept(d)'
      BY DEF PendingKept
    <3>1. CASE d = c
      <4>1. next \notin issued /\ phase[i] # "row"
        BY <2>0, <3>1
      <4>2. \A e \in Calls \ {c} : Committed(e)' => call'[e].issued \in issued
        BY <2>0 DEF VersionsIssued, Committed
      <4>3. \A k \in Instances \ {i} : version'[k] # next
        BY <2>0, <4>1 DEF VersionsIssued
      <4> QED
        BY <2>0, <3>1, <4>1, <4>2, <4>3 DEF PendingKept, VersionsIssued, database
    <3>2. CASE d # c
      <4>1. call'[d] = call[d] /\ Committed(d) /\ call[d].issued \notin ambiguous /\ call[d].issued \in issued
        BY <2>0, <3>2 DEF Committed, VersionsIssued
      <4>2. call[d].issued # next
        BY <2>0, <4>1
      <4> QED
        BY <2>0, <3>2, <4>1, <4>2 DEF PendingKept, Committed, database
    <3> QED
      BY <3>1, <3>2
  <2>3. StoredKept'
    <3> SUFFICES ASSUME Unambiguous' PROVE StoredKept'
      BY DEF StoredKept
    <3>1. Unambiguous /\ pointer.version # next
      BY <2>0 DEF Unambiguous, VersionsIssued, database
    <3> QED
      BY <2>0, <3>1 DEF StoredKept, HolderKept, ReaderKept, Saved, database
  <2> QED
    BY <2>1, <2>2, <2>3
<1>3. ASSUME SaveRow(c) PROVE VersionsKept'
  <2>0. /\ UNCHANGED <<pointer, local, reload, versions>>
        /\ call[c].pc = "row" /\ call'[c].pc = "version" /\ call'[c].at = i
        /\ call'[c].target = call[c].target /\ call'[c].issued = call[c].issued
        /\ \A d \in Calls \ {c} : call'[d] = call[d]
        /\ row' = [row EXCEPT ![call[c].target.plugin] = call[c].target.config]
        /\ torn' = (torn \/ (row' # row /\ pointer # None /\ pointer.plugin = call[c].target.plugin))
    BY <1>0, <1>3 DEF SaveRow, CallType, ManagerTypes, CallTypes
  <2>1. row \in [Plugins -> Configs \cup {None}] /\ call[c].target.config # None /\ call[c].target.plugin \in Plugins
    BY CallAt, NotAnInstance DEF ManagerTypes, TypeOK
  <2>2. VersionsIssued'
    BY <2>0 DEF VersionsIssued, Committed, local, versions
  <2>3. RowsThere'
    <3>1. \A p \in Plugins : row[p] # None => row'[p] # None
      BY <2>0, <2>1
    <3>2. row'[call[c].target.plugin] # None
      BY <2>0, <2>1
    <3>3. pointer # None => pointer.plugin \in Plugins
      BY DEF ManagerTypes, TypeOK
    <3>4. \A d \in Calls : call[d].target.plugin \in Plugins
      BY CallAt
    <3> QED
      BY <2>0, <3>1, <3>2, <3>3, <3>4 DEF RowsThere
  <2>4. ASSUME NEW d \in Calls PROVE PendingKept(d)'
    BY <2>0 DEF PendingKept, Committed, local, versions
  <2>5. StoredKept'
    <3>1. Unambiguous /\ ~torn' => ~torn /\ row'[pointer.plugin] = row[pointer.plugin]
      BY <2>0, <2>1 DEF Unambiguous, ManagerTypes, TypeOK
    <3>2. torn => torn'
      BY <2>0
    <3> QED
      BY <2>0, <3>1, <3>2 DEF StoredKept, Unambiguous, HolderKept, ReaderKept, Saved, local, versions
  <2> QED
    BY <2>2, <2>3, <2>4, <2>5
<1>4. ASSUME ReadVersion(c) PROVE VersionsKept'
  <2>0. /\ UNCHANGED <<database, local, reload, versions>>
        /\ call[c].pc = "version" /\ call'[c].pc = "pointer" /\ call'[c].at = i
        /\ call'[c].target = call[c].target /\ call'[c].issued = call[c].issued /\ call'[c].version = version[i]
        /\ \A d \in Calls \ {c} : call'[d] = call[d]
    BY <1>0, <1>4 DEF ReadVersion, CallType, ManagerTypes, CallTypes
  <2>1. VersionsIssued' /\ RowsThere'
    BY <2>0 DEF VersionsIssued, RowsThere, Committed, database, local, versions
  <2>2. ASSUME NEW d \in Calls PROVE PendingKept(d)'
    BY <2>0 DEF PendingKept, Committed, database, local, versions
  <2>3. StoredKept'
    BY <2>0 DEF StoredKept, Unambiguous, HolderKept, ReaderKept, Saved, database, local, versions
  <2> QED
    BY <2>1, <2>2, <2>3
<1>5. ASSUME SavePointer(c) PROVE VersionsKept'
  <2> DEFINE v == call[c].version
             target == call[c].target
  <2>0. /\ UNCHANGED <<row, local, reload, issued>>
        /\ call[c].pc = "pointer" /\ call'[c].pc = "over"
        /\ \A d \in Calls \ {c} : call'[d] = call[d]
        /\ pointer'.plugin = target.plugin /\ pointer'.version = v /\ pointer' # None
        /\ torn' = (row[target.plugin] # target.config)
        /\ ambiguous \subseteq ambiguous'
        /\ v # call[c].issued => v \in ambiguous'
    <3>1. [plugin |-> target.plugin, version |-> v] # None
      BY CallAt, NoneAssumption DEF CallType
    <3> QED
      BY <1>0, <1>5, <3>1, Starting DEF SavePointer
  <2>1. Committed(c) /\ v \in issued /\ row[target.plugin] # None
    BY <2>0 DEF Committed, VersionsIssued, RowsThere
  <2>2. VersionsIssued' /\ RowsThere'
    BY <2>0, <2>1 DEF VersionsIssued, RowsThere, Committed, local
  <2>3. ASSUME NEW d \in Calls PROVE PendingKept(d)'
    <3> SUFFICES ASSUME Committed(d)', (call[d].issued \notin ambiguous)' PROVE PendingKept(d)'
      BY DEF PendingKept
    <3>1. d # c /\ call'[d] = call[d] /\ Committed(d) /\ call[d].issued \notin ambiguous
      BY <2>0 DEF Committed
    <3>2. v # call[d].issued
      BY <2>0, <2>1, <3>1 DEF PendingKept
    <3> QED
      BY <2>0, <3>1, <3>2 DEF PendingKept, Committed, local
  <2>4. StoredKept'
    <3> SUFFICES ASSUME Unambiguous' PROVE StoredKept'
      BY DEF StoredKept
    <3>1. v = call[c].issued /\ v \notin ambiguous
      BY <2>0 DEF Unambiguous
    <3>2. ~torn' => Saved' = target
      BY <2>0, CallAt DEF Saved, Setting
    <3>3. \A k \in Instances : version[k] = v => active[k] = target /\ phase[k] # "row"
      BY <2>1, <3>1 DEF PendingKept
    <3>4. \A k \in Instances, t \in Ticks : reload[k][t].pc # "idle" => reload[k][t].seen.version # v
      BY <2>1, <3>1 DEF PendingKept
    <3>5. ~torn' => \A k \in Instances : HolderKept(k)'
      BY <2>0, <3>2, <3>3 DEF HolderKept, local
    <3>6. \A k \in Instances, t \in Ticks : ReaderKept(k, t)'
      BY <2>0, <3>4 DEF ReaderKept
    <3> QED
      BY <3>5, <3>6 DEF StoredKept
  <2> QED
    BY <2>2, <2>3, <2>4
<1> QED
  BY <1>1, <1>2, <1>3, <1>4, <1>5 DEF CallStep, SwitchStep

LEMMA PollKeepsVersions ==
  ASSUME ManagerTypes, VersionsKept, NEW i \in Instances, NEW t \in Ticks,
         \/ PollStep(i, t) \/ ReloadRowFails(i, t)
         \/ \E n \in Names : ReloadReplaceFails(i, t, n)
  PROVE  VersionsKept'
<1> USE DEF VersionsKept
<1>0. /\ reload[i][t] \in ReloadType
      /\ \A r : reload' = [reload EXCEPT ![i][t] = r]
             => reload'[i][t] = r /\ \A k \in Instances, u \in Ticks : k # i \/ u # t => reload'[k][u] = reload[k][u]
  BY TypesAt DEF ManagerTypes, ReloadTypes
\* Steps that write neither row and move no instance but only the poll.
<1>1. ASSUME NEW r, reload' = [reload EXCEPT ![i][t] = r], UNCHANGED <<database, local, call, versions>>,
             r.pc # "idle" => /\ pointer # None /\ r.seen \in {pointer, reload[i][t].seen}
                              /\ r.seen # pointer => reload[i][t].pc # "idle"
                              /\ r.pc = "replacing" => /\ reload[i][t].pc # "idle" /\ r.seen = reload[i][t].seen
                                                      /\ r.config = row[r.seen.plugin]
      PROVE  VersionsKept'
  <2>0. reload'[i][t] = r /\ \A k \in Instances, u \in Ticks : k # i \/ u # t => reload'[k][u] = reload[k][u]
    BY <1>0, <1>1
  <2>1. VersionsIssued' /\ RowsThere'
    BY <1>1, <2>0 DEF VersionsIssued, RowsThere, Committed, database, local, versions
  <2>2. ASSUME NEW c \in Calls PROVE PendingKept(c)'
    BY <1>1, <2>0 DEF PendingKept, Committed, database, local, versions
  <2>3. StoredKept'
    <3> SUFFICES ASSUME Unambiguous PROVE StoredKept'
      BY <1>1 DEF StoredKept, Unambiguous, database, versions
    <3>1. ~torn' => \A k \in Instances : HolderKept(k)'
      BY <1>1 DEF StoredKept, HolderKept, Saved, database, local
    <3>2. ReaderKept(i, t)'
      BY <1>1, <2>0 DEF StoredKept, ReaderKept, database
    <3>3. \A k \in Instances, u \in Ticks : k # i \/ u # t => ReaderKept(k, u)'
      BY <1>1, <2>0 DEF StoredKept, ReaderKept, database
    <3> QED
      BY <3>1, <3>2, <3>3 DEF StoredKept
  <2> QED
    BY <2>1, <2>2, <2>3
<1>2. ASSUME PollRead(i, t) PROVE VersionsKept'
  <2> DEFINE r == [NoReload EXCEPT !.pc = "compare", !.seen = pointer]
  <2>1. r.pc = "compare" /\ r.seen = pointer /\ pointer # None
    BY <1>2 DEF PollRead, NoReload
  <2>2. reload' = [reload EXCEPT ![i][t] = r] /\ UNCHANGED <<database, local, call, versions>>
    BY <1>2 DEF PollRead
  <2> HIDE DEF r
  <2> QED
    BY <1>1, <2>1, <2>2
<1>3. ASSUME ReloadRow(i, t) PROVE VersionsKept'
  <2> DEFINE config == row[reload[i][t].seen.plugin]
             r == IF config = None THEN NoReload ELSE [reload[i][t] EXCEPT !.pc = "replacing", !.config = config]
  <2>1. /\ reload[i][t].pc = "row"
        /\ r.pc = "idle" \/ (r.pc = "replacing" /\ r.seen = reload[i][t].seen /\ r.config = config)
    BY <1>0, <1>3, Starting DEF ReloadRow, ReloadType
  <2>2. reload' = [reload EXCEPT ![i][t] = r] /\ UNCHANGED <<database, local, call, versions>>
    BY <1>3 DEF ReloadRow, ManagerTypes, ReloadTypes
  <2>3. reload'[i][t] = r /\ \A k \in Instances, u \in Ticks : k # i \/ u # t => reload'[k][u] = reload[k][u]
    BY <1>0, <2>2
  <2> HIDE DEF r
  <2>4. VersionsIssued' /\ RowsThere'
    BY <2>1, <2>2, <2>3 DEF VersionsIssued, RowsThere, Committed, database, local, versions
  <2>5. ASSUME NEW c \in Calls PROVE PendingKept(c)'
    BY <2>1, <2>2, <2>3 DEF PendingKept, Committed, database, local, versions
  <2>6. StoredKept'
    <3> SUFFICES ASSUME Unambiguous PROVE StoredKept'
      BY <2>2 DEF StoredKept, Unambiguous, database, versions
    <3>1. ~torn' => \A k \in Instances : HolderKept(k)'
      BY <2>2 DEF StoredKept, HolderKept, Saved, database, local
    <3>2. ReaderKept(i, t)'
      BY <2>1, <2>2, <2>3 DEF StoredKept, ReaderKept, database
    <3>3. \A k \in Instances, u \in Ticks : k # i \/ u # t => ReaderKept(k, u)'
      BY <2>2, <2>3 DEF StoredKept, ReaderKept, database
    <3> QED
      BY <3>1, <3>2, <3>3 DEF StoredKept
  <2> QED
    BY <2>4, <2>5, <2>6
<1>4. ASSUME \/ PollCompare(i, t) \/ ReloadRowFails(i, t)
             \/ \E n \in Names : ReloadReplace(i, t, n) \/ ReloadReplaceFails(i, t, n)
      PROVE  VersionsKept'
  <2>1. UNCHANGED <<database, local, call, versions>>
    BY <1>4 DEF PollCompare, ReloadRowFails, ReloadReplace, ReloadReplaceFails
  <2>2. ASSUME NEW k \in Instances, NEW u \in Ticks, k # i \/ u # t PROVE reload'[k][u] = reload[k][u]
    BY <1>4, <2>2 DEF PollCompare, ReloadRowFails, ReloadReplace, ReloadReplaceFails, ManagerTypes, ReloadTypes
  <2>3. \/ reload'[i][t].pc = "idle"
        \/ /\ reload[i][t].pc # "idle" /\ reload'[i][t].seen = reload[i][t].seen
           /\ reload'[i][t].config = reload[i][t].config
           /\ reload'[i][t].pc = "replacing" => reload[i][t].pc = "replacing"
    BY <1>0, <1>4, Starting DEF PollCompare, ReloadRowFails, ReloadReplace, ReloadReplaceFails, ManagerTypes,
       ReloadTypes, ReloadType
  <2>4. VersionsIssued' /\ RowsThere'
    BY <2>1, <2>2, <2>3 DEF VersionsIssued, RowsThere, Committed, database, local, versions
  <2>5. ASSUME NEW c \in Calls PROVE PendingKept(c)'
    BY <2>1, <2>2, <2>3 DEF PendingKept, Committed, database, local, versions
  <2>6. StoredKept'
    BY <2>1, <2>2, <2>3 DEF StoredKept, Unambiguous, HolderKept, ReaderKept, Saved, database, local, versions
  <2> QED
    BY <2>4, <2>5, <2>6
<1>5. ASSUME ReloadApply(i, t) PROVE VersionsKept'
  <2> DEFINE seen == reload[i][t].seen
  <2>0. /\ UNCHANGED <<database, loading, call, versions>>
        /\ reload[i][t].pc = "replacing" /\ reload'[i][t].pc = "idle"
        /\ \A k \in Instances, u \in Ticks : k # i \/ u # t => reload'[k][u] = reload[k][u]
        /\ active'[i] = Reloaded(i, t) /\ version'[i] = seen.version /\ phase'[i] = "running"
        /\ \A k \in Instances \ {i} : phase'[k] = phase[k] /\ active'[k] = active[k] /\ version'[k] = version[k]
    BY <1>0, <1>5, Starting DEF ReloadApply, ManagerTypes, TypeOK
  <2>1. seen.version \in issued
    BY <2>0 DEF VersionsIssued
  <2>2. VersionsIssued' /\ RowsThere'
    <3>1. \A k \in Instances : version'[k] \in issued \cup {0} /\ (version[k] \in issued => version'[k] \in issued)
      BY <2>0, <2>1 DEF VersionsIssued
    <3> QED
      BY <2>0, <3>1, CommittedAt DEF VersionsIssued, RowsThere, Committed, database, versions
  <2>3. ASSUME NEW c \in Calls PROVE PendingKept(c)'
    BY <2>0 DEF PendingKept, Committed, database, versions
  <2>4. StoredKept'
    <3>1. Unambiguous /\ ~torn /\ seen.version = pointer.version => Reloaded(i, t) = Saved
      BY <2>0 DEF StoredKept, ReaderKept, Reloaded, Saved, Unambiguous
    <3> QED
      BY <2>0, <3>1 DEF StoredKept, Unambiguous, HolderKept, ReaderKept, Saved, database, versions
  <2> QED
    BY <2>2, <2>3, <2>4
<1> QED
  BY <1>2, <1>3, <1>4, <1>5 DEF PollStep

\* An instance that finds its version stored has the stored setting, whatever
\* switches, polls, boots and failures do to each other: however many instances
\* and switches there are and wherever they are interrupted.
THEOREM VersionIdentifiesSettingCorrect == Spec => []VersionIdentifiesSetting
<1> DEFINE Inv == ManagerTypes /\ VersionsKept
<1>1. Init => Inv
  BY StartedTypes, Starting DEF Init, VersionsKept, VersionsIssued, RowsThere, PendingKept, StoredKept,
     Committed, Unambiguous
<1>2. Inv /\ [Next]_vars => Inv'
  <2> SUFFICES ASSUME Inv, [Next]_vars PROVE Inv'
    OBVIOUS
  <2>1. ManagerTypes'
    BY TypesStay
  <2>2. CASE UNCHANGED vars
    <3>1. VersionsAside
      BY <2>2 DEF vars, VersionsAside
    <3> QED
      BY <2>1, <3>1, AsideKeeps
  <2>3. ASSUME NEW i \in Instances, LocalStep(i) PROVE VersionsKept'
    BY <2>3, UsersKeepVersions, BootKeepsVersions, PollKeepsVersions DEF LocalStep
  <2>4. ASSUME NEW c \in Calls, CallStep(c) PROVE VersionsKept'
    BY <2>4, SwitchKeepsVersions
  <2> QED
    BY <2>1, <2>2, <2>3, <2>4, NextSteps
<1>3. Inv => VersionIdentifiesSetting
  BY DEF VersionIdentifiesSetting, VersionsKept, StoredKept, HolderKept, Unambiguous
<1> HIDE DEF Inv
<1> QED
  BY <1>1, <1>2, <1>3, PTL DEF Spec
=============================================================================
