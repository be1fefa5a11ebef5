------------------------- MODULE MaintenanceWindows -------------------------
(***************************************************************************)
(* core/maintenance-backend (service.ts, router.ts, index.ts): maintenance *)
(* windows, changed by users and by a job that runs every minute, on one   *)
(* instance when they share a queue and on each when every instance has    *)
(* its own. The job reads lists and calls the same RPC as users do. Every  *)
(* query, RPC, signal and hook may fail. Links to systems and suppression  *)
(* work as in Incidents and are left out, as are titles and texts.         *)
(***************************************************************************)
EXTENDS Naturals

CONSTANTS
  Windows,    \* ids
  Planners,   \* users, each with one request at a time
  Workers,    \* instances whose queue gives them the minute job
  Horizon,    \* bound: minutes that pass
  MaxEvents   \* bound: requests of users and steps that fail, together

ASSUME MinuteAssumption == Horizon \in Nat /\ MaxEvents \in Nat
\* No user is an instance.
ASSUME ActorAssumption == Planners \cap Workers = {}

VARIABLES
  window,     \* rows of maintenances: their status
  times,      \* and startAt, endAt
  minute,
  updating,   \* each actor's addUpdate or closeMaintenance
  running,    \* each worker's run of the job: its phase and what is left of its list
  told,       \* what subscribers were told last of a window
  events,     \* how many
  disturbed,  \* history: windows whose changes overlapped or broke off
  endedSince  \* history: windows ended since a worker read whom to start

maintenanceVars == <<window, times, minute, updating, running, told, events, disturbed, endedSince>>

Actors == Planners \cup Workers
Ended == {"completed", "cancelled"}
WindowStatuses == {"scheduled", "in_progress"} \cup Ended
Announcements == {"none", "started", "completed", "updated"}
NoUpdate == [pc |-> "idle", of |-> "none", to |-> "none", previous |-> "none"]
NoRun == [phase |-> "off", todo |-> {}]

\* A database may hold windows when the instances start.
MaintenanceInit ==
  /\ window \in [Windows -> {"unborn", "scheduled"}]
  /\ \E start, end \in 0..Horizon : start < end /\ times = [w \in Windows |-> [start |-> start, end |-> end]]
  /\ minute = 0 /\ events = 0
  /\ updating = [a \in Actors |-> NoUpdate]
  /\ running = [j \in Workers |-> NoRun]
  /\ told = [w \in Windows |-> "none"]
  /\ disturbed = {} /\ endedSince = [j \in Workers |-> {}]

\* Definitions named ...Mutant are plausible bugs, used only to show that the
\* properties below can fail.

IsRow(w) == window[w] \in WindowStatuses
Updates(a, u) == updating' = [updating EXCEPT ![a] = u]
UpdatesAt(a, pc) == updating[a].pc = pc

\* Another actor has read the status of w and not yet told of its change.
Overlapped(a, w) ==
  \E b \in Actors \ {a} : updating[b].of = w /\ updating[b].pc \in {"setStatus", "log", "announce"}

-----------------------------------------------------------------------------
(* Requests of users *)

\* createMaintenance checks that the window ends after its start.
CreateMaintenance(w, start, end) ==
  /\ window[w] = "unborn" /\ start < end
  /\ window' = [window EXCEPT ![w] = "scheduled"]
  /\ times' = [times EXCEPT ![w] = [start |-> start, end |-> end]]
  /\ UNCHANGED <<minute, updating, running, told, disturbed, endedSince>>

\* updateMaintenance does not.
UpdateMaintenance(w, start, end) ==
  /\ IsRow(w) /\ times[w] # [start |-> start, end |-> end]
  /\ times' = [times EXCEPT ![w] = [start |-> start, end |-> end]]
  /\ UNCHANGED <<window, minute, updating, running, told, disturbed, endedSince>>

\* addUpdate with a status, by a user or, from the job, by a worker.
AddStatusUpdate(a, w, to) ==
  /\ UpdatesAt(a, "idle")
  /\ Updates(a, [pc |-> "readPrevious", of |-> w, to |-> to, previous |-> "none"])

UserAddsUpdate(a, w, to) ==
  /\ window[w] # "unborn" /\ AddStatusUpdate(a, w, to)
  /\ UNCHANGED <<window, times, minute, running, told, disturbed, endedSince>>

\* closeMaintenance looks for the row, and tells subscribers whatever its status was.
CloseMaintenance(a, w) ==
  /\ UpdatesAt(a, "idle") /\ IsRow(w)
  /\ Updates(a, [pc |-> "setStatus", of |-> w, to |-> "completed", previous |-> "none"])
  /\ disturbed' = IF Overlapped(a, w) THEN disturbed \cup {w} ELSE disturbed
  /\ UNCHANGED <<window, times, minute, running, told, endedSince>>

DeleteMaintenance(w) ==
  /\ IsRow(w)
  /\ window' = [window EXCEPT ![w] = "deleted"]
  /\ UNCHANGED <<times, minute, updating, running, told, disturbed, endedSince>>

-----------------------------------------------------------------------------
(* The steps of addUpdate and closeMaintenance *)

ReadPrevious(a) ==
  LET w == updating[a].of IN
  /\ UpdatesAt(a, "readPrevious")
  /\ Updates(a, [updating[a] EXCEPT !.pc = "setStatus", !.previous = window[w]])
  /\ disturbed' = IF Overlapped(a, w) THEN disturbed \cup {w} ELSE disturbed
  /\ UNCHANGED <<window, times, minute, running, told, events, endedSince>>

SetWindowStatus(a) ==
  LET w == updating[a].of IN
  /\ UpdatesAt(a, "setStatus")
  /\ window' = IF IsRow(w) THEN [window EXCEPT ![w] = updating[a].to] ELSE window
  /\ Updates(a, [updating[a] EXCEPT !.pc = "log"])
  /\ endedSince' = [j \in Workers |-> IF updating[a].to \in Ended /\ running[j].phase = "start"
                                    THEN endedSince[j] \cup {w} ELSE endedSince[j]]
  /\ UNCHANGED <<times, minute, running, told, events, disturbed>>

\* The log entry, and the row read again for the signal and the hook. There is no
\* telling of a window that has gone.
LogStatus(a) ==
  /\ UpdatesAt(a, "log")
  /\ Updates(a, IF IsRow(updating[a].of) THEN [updating[a] EXCEPT !.pc = "announce"] ELSE NoUpdate)
  /\ UNCHANGED <<window, times, minute, running, told, events, disturbed, endedSince>>

AnnouncementMutant(u) ==
  CASE u.to = "in_progress" -> "started"
    [] u.to = "completed" -> "completed"
    [] OTHER -> "updated"

\* Subscribers are told when the status was another before.
Announcement(u) ==
  CASE u.to = u.previous -> "none"
    [] u.to # u.previous /\ u.to = "in_progress" -> "started"
    [] u.to # u.previous /\ u.to = "completed" -> "completed"
    [] OTHER -> "updated"

Announce(a) ==
  LET what == Announcement(updating[a]) IN
  /\ UpdatesAt(a, "announce")
  /\ told' = IF what = "none" THEN told ELSE [told EXCEPT ![updating[a].of] = what]
  /\ Updates(a, NoUpdate)
  /\ UNCHANGED <<window, times, minute, running, events, disturbed, endedSince>>

\* A step fails. The caller of the RPC is told so; the job goes on with its list.
UpdateFails(a) ==
  /\ updating[a].pc # "idle" /\ events < MaxEvents /\ events' = events + 1
  /\ disturbed' = disturbed \cup {updating[a].of}
  /\ Updates(a, NoUpdate)
  /\ UNCHANGED <<window, times, minute, running, told, endedSince>>

-----------------------------------------------------------------------------
(* The minute job *)

MaintenancesToStartMutant == {w \in Windows : IsRow(w) /\ window[w] # "in_progress" /\ times[w].start <= minute}
MaintenancesToStart == {w \in Windows : window[w] = "scheduled" /\ times[w].start <= minute}

MaintenancesToCompleteMutant == {w \in Windows : window[w] = "in_progress" /\ times[w].end < minute}
MaintenancesToComplete == {w \in Windows : window[w] = "in_progress" /\ times[w].end <= minute}

Runs(j, phase, todo) == running' = [running EXCEPT ![j] = [phase |-> phase, todo |-> todo]]

\* The list is read when the job comes, and again when its first half is done.
ReadToStart(j) ==
  /\ running[j].phase = "off"
  /\ Runs(j, "start", MaintenancesToStart)
  /\ UNCHANGED <<window, times, minute, updating, told, events, disturbed, endedSince>>

Transition(j) ==
  /\ running[j].phase # "off" /\ UpdatesAt(j, "idle")
  /\ \E w \in running[j].todo :
       /\ AddStatusUpdate(j, w, IF running[j].phase = "start" THEN "in_progress" ELSE "completed")
       /\ Runs(j, running[j].phase, running[j].todo \ {w})
  /\ UNCHANGED <<window, times, minute, told, events, disturbed, endedSince>>

ReadToComplete(j) ==
  /\ running[j].phase = "start" /\ running[j].todo = {} /\ UpdatesAt(j, "idle")
  /\ Runs(j, "complete", MaintenancesToComplete)
  /\ endedSince' = [endedSince EXCEPT ![j] = {}]
  /\ UNCHANGED <<window, times, minute, updating, told, events, disturbed>>

RunEnds(j) ==
  /\ running[j].phase = "complete" /\ running[j].todo = {} /\ UpdatesAt(j, "idle")
  /\ Runs(j, "off", {})
  /\ UNCHANGED <<window, times, minute, updating, told, events, disturbed, endedSince>>

\* A query of the job fails or its instance crashes; the job is not retried.
RunLost(j) ==
  /\ running[j].phase # "off" /\ events < MaxEvents /\ events' = events + 1
  /\ Runs(j, "off", {})
  /\ Updates(j, NoUpdate)
  /\ disturbed' = IF UpdatesAt(j, "idle") THEN disturbed ELSE disturbed \cup {updating[j].of}
  /\ endedSince' = [endedSince EXCEPT ![j] = {}]
  /\ UNCHANGED <<window, times, minute, told>>

Minute ==
  /\ minute < Horizon /\ minute' = minute + 1
  /\ UNCHANGED <<window, times, updating, running, told, events, disturbed, endedSince>>

-----------------------------------------------------------------------------
Request ==
  /\ events < MaxEvents /\ events' = events + 1
  /\ \E w \in Windows :
       \/ \E start, end \in 0..Horizon : CreateMaintenance(w, start, end) \/ UpdateMaintenance(w, start, end)
       \/ \E a \in Planners : CloseMaintenance(a, w) \/ \E to \in WindowStatuses : UserAddsUpdate(a, w, to)
       \/ DeleteMaintenance(w)

UpdateStep(a) == ReadPrevious(a) \/ SetWindowStatus(a) \/ LogStatus(a) \/ Announce(a)
JobStep(j) == ReadToStart(j) \/ Transition(j) \/ ReadToComplete(j) \/ RunEnds(j)

MaintenanceNext ==
  \/ Request \/ Minute
  \/ \E a \in Actors : UpdateStep(a) \/ UpdateFails(a)
  \/ \E j \in Workers : JobStep(j) \/ RunLost(j)

\* Requests settle, and the job recurs.
MaintenanceFairness ==
  /\ \A a \in Actors : WF_maintenanceVars(UpdateStep(a))
  /\ \A j \in Workers : WF_maintenanceVars(JobStep(j))

MaintenanceSpec == MaintenanceInit /\ [][MaintenanceNext]_maintenanceVars /\ MaintenanceFairness

-----------------------------------------------------------------------------
(* Properties *)

\* Types.
MaintenanceTypeOK ==
  /\ window \in [Windows -> WindowStatuses \cup {"unborn", "deleted"}]
  /\ times \in [Windows -> [start : 0..Horizon, end : 0..Horizon]] /\ minute \in 0..Horizon
  /\ updating \in [Actors -> [pc : {"idle", "readPrevious", "setStatus", "log", "announce"},
                              of : Windows \cup {"none"}, to : WindowStatuses \cup {"none"},
                              previous : WindowStatuses \cup {"none", "unborn", "deleted"}]]
  /\ running \in [Workers -> [phase : {"off", "start", "complete"}, todo : SUBSET Windows]]
  /\ told \in [Windows -> Announcements]
  /\ disturbed \subseteq Windows /\ endedSince \in [Workers -> SUBSET Windows]

\* core/maintenance-backend/src/index.ts:163: the job starts no window again that was
\* ended, however long its list waits for the RPCs before it, unless the window was
\* ended after the list was read.
NotReopened ==
  [][\A j \in Workers : LET w == updating[j].of IN
       SetWindowStatus(j) /\ updating[j].to = "in_progress" /\ window[w] \in Ended => w \in endedSince[j]
    ]_maintenanceVars

\* core/maintenance-backend/src/router.ts:210, "Send notifications when status actually
\* changes": subscribers do not hear twice in a row that a window has started, with the
\* job on several instances and users next to it, unless changes of the window
\* overlapped or one broke off before its notification.
StartToldOnce ==
  [][\A a \in Actors : LET w == updating[a].of IN
       Announce(a) /\ Announcement(updating[a]) = "started" => told[w] # "started" \/ w \in disturbed
    ]_maintenanceVars

\* README.md:74, "automatic status transitions": a window whose time is over does not
\* stay scheduled or in progress, whatever failed on the way.
WindowsEnd ==
  \A w \in Windows :
    (times[w].start <= minute /\ times[w].end <= minute /\ window[w] \in {"scheduled", "in_progress"})
      ~> ~(times[w].start <= minute /\ times[w].end <= minute /\ window[w] \in {"scheduled", "in_progress"})
=============================================================================
