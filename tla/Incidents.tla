----------------------------- MODULE Incidents -----------------------------
(***************************************************************************)
(* core/incident-backend (service.ts, router.ts, index.ts): incidents, the *)
(* systems they are linked to and the log of their status, changed         *)
(* statement by statement without transactions, and the question whether   *)
(* notifications of a system are suppressed, asked in two queries. Titles, *)
(* severities and notifications are left out.                              *)
(***************************************************************************)
EXTENDS Naturals, FiniteSets

CONSTANTS
  AllIncidents, LinkedSystems, \* ids
  Reporters                    \* users, each with one request at a time

VARIABLES
  status,      \* rows of incidents
  suppressing, \* incidents with suppressNotifications
  links,       \* rows of incident_systems
  logged,      \* status of the newest row of incident_updates with one, or "none"
  reporting,   \* each user's request
  asking       \* the executor's question about a system

incidentVars == <<status, suppressing, links, logged, reporting, asking>>

OpenStatuses == {"investigating", "monitoring"}
Statuses == OpenStatuses \cup {"resolved"}
NoReport == [pc |-> "idle", of |-> "none", to |-> "none", add |-> {}]
NoQuestion == [pc |-> "idle", system |-> "none", ids |-> {}, wasCovered |-> FALSE,
               wasUncovered |-> FALSE, changes |-> 0, answer |-> FALSE]

\* A database may hold incidents when the instances start.
IncidentsInit ==
  /\ status \in [AllIncidents -> {"unborn", "investigating"}]
  /\ LET present == {n \in AllIncidents : status[n] = "investigating"} IN
     /\ suppressing = present /\ links = present \X LinkedSystems
     /\ logged = [n \in AllIncidents |-> IF n \in present THEN "investigating" ELSE "none"]
  /\ reporting = [k \in Reporters |-> NoReport] /\ asking = NoQuestion

\* Definitions named ...Mutant are plausible bugs, used only to show that the
\* properties below can fail.

Exists(n) == status[n] \in Statuses
Active == {n \in AllIncidents : status[n] \in OpenStatuses /\ n \in suppressing}
Covered(active, linked, s) == \E n \in active : <<n, s>> \in linked

Report(k, r) == reporting' = [reporting EXCEPT ![k] = r]
StillReporting(k, pc) == reporting[k].pc = pc

\* History of the question: has its system been covered, or not, at some time
\* since it was asked, and how often has that what it depends on changed?
Watch ==
  asking' = IF asking.pc # "readIncidents" THEN asking
            ELSE LET now == Covered(Active', links', asking.system) IN
                 [asking EXCEPT !.wasCovered = @ \/ now, !.wasUncovered = @ \/ ~now,
                    !.changes = IF <<Active', links'>> = <<Active, links>> \/ @ = 2 THEN @ ELSE @ + 1]

-----------------------------------------------------------------------------
(* Requests *)

\* createIncident: the row, a row for each system, the first log entry if there is
\* a message.
CreateIncident(k, n, systems, suppress, message) ==
  /\ StillReporting(k, "idle") /\ status[n] = "unborn"
  /\ status' = [status EXCEPT ![n] = "investigating"]
  /\ suppressing' = IF suppress THEN suppressing \cup {n} ELSE suppressing
  /\ Report(k, [pc |-> "link", of |-> n, to |-> IF message THEN "investigating" ELSE "none", add |-> systems])
  /\ UNCHANGED <<links, logged>> /\ Watch

\* updateIncident: the row's own fields, then the links if they are given.
UpdateIncident(k, n, suppress) ==
  /\ StillReporting(k, "idle") /\ Exists(n)
  /\ suppressing' = IF suppress THEN suppressing \cup {n} ELSE suppressing \ {n}
  /\ \/ Report(k, NoReport)
     \/ \E systems \in SUBSET LinkedSystems :
          Report(k, [pc |-> "unlink", of |-> n, to |-> "none", add |-> systems])
  /\ UNCHANGED <<status, links, logged>> /\ Watch

Unlink(k) ==
  /\ StillReporting(k, "unlink")
  /\ links' = {l \in links : l[1] # reporting[k].of}
  /\ Report(k, [reporting[k] EXCEPT !.pc = "link"])
  /\ UNCHANGED <<status, suppressing, logged>> /\ Watch

\* Fails, and ends the request, when the incident has gone or another request has
\* made the link meanwhile.
Link(k) ==
  /\ StillReporting(k, "link")
  /\ \E s \in reporting[k].add :
       IF Exists(reporting[k].of) /\ <<reporting[k].of, s>> \notin links
       THEN /\ links' = links \cup {<<reporting[k].of, s>>}
            /\ Report(k, [reporting[k] EXCEPT !.add = @ \ {s}])
       ELSE /\ Report(k, NoReport) /\ UNCHANGED links
  /\ UNCHANGED <<status, suppressing, logged>> /\ Watch

Linked(k) ==
  /\ StillReporting(k, "link") /\ reporting[k].add = {}
  /\ Report(k, IF reporting[k].to = "none" THEN NoReport ELSE [reporting[k] EXCEPT !.pc = "log"])
  /\ UNCHANGED <<status, suppressing, links, logged>> /\ Watch

\* addUpdate writes the status unread; resolveIncident reads the row first.
AddUpdate(k, n, to) ==
  /\ StillReporting(k, "idle") /\ status[n] # "unborn" /\ to \in Statuses
  /\ Report(k, [NoReport EXCEPT !.pc = "setStatus", !.of = n, !.to = to])
  /\ UNCHANGED <<status, suppressing, links, logged>> /\ Watch

ResolveIncident(k, n) ==
  /\ StillReporting(k, "idle") /\ Exists(n)
  /\ Report(k, [NoReport EXCEPT !.pc = "setStatus", !.of = n, !.to = "resolved"])
  /\ UNCHANGED <<status, suppressing, links, logged>> /\ Watch

SetStatus(k) ==
  LET n == reporting[k].of IN
  /\ StillReporting(k, "setStatus")
  /\ status' = IF Exists(n) THEN [status EXCEPT ![n] = reporting[k].to] ELSE status
  /\ Report(k, [reporting[k] EXCEPT !.pc = "log"])
  /\ UNCHANGED <<suppressing, links, logged>> /\ Watch

\* The log entry; it fails when the incident has gone.
LogUpdate(k) ==
  /\ StillReporting(k, "log")
  /\ logged' = IF Exists(reporting[k].of) THEN [logged EXCEPT ![reporting[k].of] = reporting[k].to] ELSE logged
  /\ Report(k, NoReport)
  /\ UNCHANGED <<status, suppressing, links>> /\ Watch

\* The row, and by cascade its links and log.
DeleteIncident(n) ==
  /\ Exists(n)
  /\ status' = [status EXCEPT ![n] = "deleted"]
  /\ links' = {l \in links : l[1] # n}
  /\ logged' = [logged EXCEPT ![n] = "none"]
  /\ suppressing' = suppressing \ {n}
  /\ UNCHANGED <<reporting>> /\ Watch

\* A query fails or the instance crashes.
ReportLost(k) ==
  /\ ~StillReporting(k, "idle")
  /\ Report(k, NoReport)
  /\ UNCHANGED <<status, suppressing, links, logged>> /\ Watch

\* The handler of systemDeleted.
RemoveSystemAssociations(s) ==
  /\ links' = {l \in links : l[2] # s}
  /\ UNCHANGED <<status, suppressing, logged, reporting>> /\ Watch

-----------------------------------------------------------------------------
(* hasActiveIncidentWithSuppression: the links, then their incidents *)

ReadLinks(s) ==
  LET now == Covered(Active, links, s) IN
  /\ asking.pc # "readIncidents"
  /\ asking' = [NoQuestion EXCEPT !.pc = "readIncidents", !.system = s,
                  !.ids = {n \in AllIncidents : <<n, s>> \in links},
                  !.wasCovered = now, !.wasUncovered = ~now]
  /\ UNCHANGED <<status, suppressing, links, logged, reporting>>

ReadIncidentsMutant ==
  /\ asking.pc = "readIncidents"
  /\ asking' = [asking EXCEPT !.pc = "answered", !.answer = asking.ids \cap suppressing # {}]
  /\ UNCHANGED <<status, suppressing, links, logged, reporting>>

ReadIncidents ==
  /\ asking.pc = "readIncidents"
  /\ asking' = [asking EXCEPT !.pc = "answered", !.answer = asking.ids \cap Active # {}]
  /\ UNCHANGED <<status, suppressing, links, logged, reporting>>

-----------------------------------------------------------------------------
(* Properties *)

\* Types, and what the foreign keys see to.
IncidentsTypeOK ==
  /\ status \in [AllIncidents -> Statuses \cup {"unborn", "deleted"}]
  /\ logged \in [AllIncidents -> Statuses \cup {"none"}]
  /\ links \subseteq {n \in AllIncidents : Exists(n)} \X LinkedSystems
  /\ suppressing \subseteq {n \in AllIncidents : Exists(n)}

\* core/incident-backend/src/service.ts:338: what the executor is told was so at some
\* moment of its question, whatever requests do between the two queries, as long as
\* at most one change of an incident's state or links falls between them.
AnswerWasDue ==
  asking.pc = "answered" /\ asking.changes <= 1 =>
    IF asking.answer THEN asking.wasCovered ELSE asking.wasUncovered

-----------------------------------------------------------------------------
(* What the documentation promises and the code does not keep (README.md) *)

\* core/incident-backend/src/service.ts:249, "If status change is provided, update the
\* incident status", and then its entry in the log: between requests the status shown
\* is the last one logged.
StatusAsLogged ==
  (\A k \in Reporters : StillReporting(k, "idle")) =>
    \A n \in AllIncidents :
      Exists(n) => status[n] = IF logged[n] = "none" THEN "investigating" ELSE logged[n]
=============================================================================
