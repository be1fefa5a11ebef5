----------------------------- MODULE TeamAccess -----------------------------
(***************************************************************************)
(* core/auth-backend/src/router.ts, teams: which resources the members of  *)
(* a team have access to, and the two questions the RPC middleware of      *)
(* every plugin asks about it (core/backend-api/src/rpc.ts): for one       *)
(* resource before a handler runs, for many after it. Each question makes  *)
(* three queries, outside a transaction, while administrators change what  *)
(* they read.                                                              *)
(***************************************************************************)
EXTENDS Integers, FiniteSets

CONSTANTS
  Resources, Teams,
  Members     \* users and applications, each asking one question at a time

VARIABLES
  teams,      \* rows of team
  grantOf,    \* rows of resource_team_access: canRead and canManage, or NoRow
  teamOnly,   \* resources set to teamOnly in resource_access_settings
  memberOf,   \* rows of user_team and application_team
  asking      \* each member's question

teamVars == <<teams, grantOf, teamOnly, memberOf, asking>>

Levels == {"read", "manage"}
NoRow == {"no row"}
Grants == [Resources \X Teams -> (SUBSET Levels) \cup {NoRow}]

Question == [pc : {"idle", "grants", "settings", "teams", "answered"},
             about : SUBSET Resources, action : Levels,
             global : BOOLEAN,          \* hasGlobalAccess, by the caller's roles
             single : BOOLEAN,          \* checkResourceTeamAccess
             seen : Grants, seenOnly : SUBSET Resources,  \* what its queries returned
             granted : SUBSET Resources, \* the answer
             fell : BOOLEAN,            \* the answer is what the caller falls back on
             due : SUBSET Resources,    \* history: what was accessible at some moment of it
             changes : 0 .. 2]          \* history: changes of the tables during it, 2 for more

NoGrants == [rt \in Resources \X Teams |-> NoRow]
NoQuestion == [pc |-> "idle", about |-> {}, action |-> "read", global |-> FALSE, single |-> FALSE,
               seen |-> NoGrants, seenOnly |-> {}, granted |-> {}, fell |-> FALSE,
               due |-> {}, changes |-> 0]

TeamInit ==
  /\ teams = Teams /\ grantOf = NoGrants /\ teamOnly = {} /\ memberOf = {}
  /\ asking = [m \in Members |-> NoQuestion]

\* Definitions named ...Mutant are plausible bugs, used only to show that the
\* properties below can fail.

-----------------------------------------------------------------------------
(* Who has access *)

HasRow(grants, r) == \E t \in Teams : grants[<<r, t>>] # NoRow
ThroughTeam(grants, mine, r, action) == \E t \in mine : action \in grants[<<r, t>>]

\* The filter at the end of getAccessibleResourceIds.
Accessible(grants, only, mine, about, action, global) ==
  {r \in about : IF ~HasRow(grants, r) THEN global
                 ELSE (global /\ r \notin only) \/ ThroughTeam(grants, mine, r, action)}

TeamsOf(members, m) == {t \in Teams : <<m, t>> \in members}

\* What question q of member m should be answered, given the tables.
DueNow(grants, only, members, m, q) ==
  Accessible(grants, only, TeamsOf(members, m), q.about, q.action, q.global)

\* The tables change under the questions being answered.
Changed ==
  asking' = [m \in Members |->
    IF asking[m].pc \in {"grants", "settings", "teams"}
    THEN [asking[m] EXCEPT !.due = @ \cup DueNow(grantOf', teamOnly', memberOf', m, asking[m]),
                           !.changes = IF @ = 0 THEN 1 ELSE 2]
    ELSE asking[m]]

-----------------------------------------------------------------------------
(* Changes *)

CreateTeam(t) ==
  /\ t \notin teams /\ teams' = teams \cup {t}
  /\ UNCHANGED <<grantOf, teamOnly, memberOf>> /\ Changed

DeleteTeam(t) ==
  /\ teams' = teams \ {t}
  /\ memberOf' = {mt \in memberOf : mt[2] # t}
  /\ grantOf' = [rt \in Resources \X Teams |-> IF rt[2] = t THEN NoRow ELSE grantOf[rt]]
  /\ UNCHANGED teamOnly /\ Changed

AddToTeam(m, t) ==
  /\ t \in teams /\ memberOf' = memberOf \cup {<<m, t>>}
  /\ UNCHANGED <<teams, grantOf, teamOnly>> /\ Changed

RemoveFromTeam(m, t) ==
  /\ memberOf' = memberOf \ {<<m, t>>}
  /\ UNCHANGED <<teams, grantOf, teamOnly>> /\ Changed

SetResourceTeamAccess(r, t, levels) ==
  /\ t \in teams /\ grantOf' = [grantOf EXCEPT ![<<r, t>>] = levels]
  /\ UNCHANGED <<teams, teamOnly, memberOf>> /\ Changed

RemoveResourceTeamAccess(r, t) ==
  /\ grantOf' = [grantOf EXCEPT ![<<r, t>>] = NoRow]
  /\ UNCHANGED <<teams, teamOnly, memberOf>> /\ Changed

SetResourceAccessSettings(r, only) ==
  /\ teamOnly' = IF only THEN teamOnly \cup {r} ELSE teamOnly \ {r}
  /\ UNCHANGED <<teams, grantOf, memberOf>> /\ Changed

DeleteResourceGrants(r) ==
  /\ grantOf' = [rt \in Resources \X Teams |-> IF rt[1] = r THEN NoRow ELSE grantOf[rt]]
  /\ UNCHANGED <<teams, teamOnly, memberOf>> /\ Changed

-----------------------------------------------------------------------------
(* Questions *)

Put(m, q) == asking' = [asking EXCEPT ![m] = q] /\ UNCHANGED <<teams, grantOf, teamOnly, memberOf>>
Answer(m, q, rs, fell) ==
  Put(m, [q EXCEPT !.pc = "answered", !.granted = rs, !.fell = fell, !.seen = NoGrants, !.seenOnly = {}])

Ask(m, about, action, global, single) ==
  LET q == [NoQuestion EXCEPT !.pc = "grants", !.about = about, !.action = action,
                              !.global = global, !.single = single] IN
  /\ asking[m].pc \in {"idle", "answered"} /\ about # {}
  /\ single => \E r \in about : about = {r}
  /\ Put(m, [q EXCEPT !.due = DueNow(grantOf, teamOnly, memberOf, m, q)])

\* The rows of the resources asked about. One resource without any is decided.
ReadGrants(m) ==
  LET q == asking[m] IN
  /\ q.pc = "grants"
  /\ \/ /\ q.single /\ \A r \in q.about : ~HasRow(grantOf, r)
        /\ Answer(m, q, IF q.global THEN q.about ELSE {}, FALSE)
     \/ /\ q.single => \E r \in q.about : HasRow(grantOf, r)
        /\ Put(m, [q EXCEPT !.pc = "settings", !.seen = grantOf])

\* The settings. Global access decides about one resource that is not teamOnly.
ReadSettings(m) ==
  LET q == asking[m]
      decided == q.single /\ q.global /\ q.about \cap teamOnly = {}
  IN
  /\ q.pc = "settings"
  /\ \/ decided /\ Answer(m, q, q.about, FALSE)
     \/ ~decided /\ Put(m, [q EXCEPT !.pc = "teams", !.seenOnly = teamOnly])

ReadTeamsMutant(m) ==
  LET q == asking[m] IN
  /\ q.pc = "teams"
  /\ Answer(m, q, Accessible(q.seen, q.seenOnly, TeamsOf(memberOf, m), q.about, "read", q.global), FALSE)

\* The teams, and the answer.
ReadTeams(m) ==
  LET q == asking[m] IN
  /\ q.pc = "teams"
  /\ Answer(m, q, Accessible(q.seen, q.seenOnly, TeamsOf(memberOf, m), q.about, q.action, q.global), FALSE)

\* A query or the call fails: the caller falls back on global access.
CallFails(m) ==
  LET q == asking[m] IN
  /\ q.pc \in {"grants", "settings", "teams"}
  /\ Answer(m, q, IF q.global THEN q.about ELSE {}, TRUE)

-----------------------------------------------------------------------------
TeamChange ==
  \/ \E t \in Teams : CreateTeam(t) \/ DeleteTeam(t)
  \/ \E m \in Members, t \in Teams : AddToTeam(m, t) \/ RemoveFromTeam(m, t)
  \/ \E r \in Resources, t \in Teams :
       RemoveResourceTeamAccess(r, t) \/ \E levels \in SUBSET Levels : SetResourceTeamAccess(r, t, levels)
  \/ \E r \in Resources : DeleteResourceGrants(r) \/ \E only \in BOOLEAN : SetResourceAccessSettings(r, only)

TeamQuestion ==
  \E m \in Members :
    \/ \E about \in SUBSET Resources, action \in Levels, global, single \in BOOLEAN :
         Ask(m, about, action, global, single)
    \/ ReadGrants(m) \/ ReadSettings(m) \/ ReadTeams(m) \/ CallFails(m)

TeamNext == TeamChange \/ TeamQuestion

TeamSpec == TeamInit /\ [][TeamNext]_teamVars

-----------------------------------------------------------------------------
(* Properties *)

\* Types, and the foreign keys.
TeamTypeOK ==
  /\ teams \subseteq Teams /\ grantOf \in Grants /\ teamOnly \subseteq Resources
  /\ memberOf \subseteq Members \X teams
  /\ \A rt \in Resources \X Teams : grantOf[rt] # NoRow => rt[2] \in teams
  /\ asking \in [Members -> Question]

\* core/backend-api/src/rpc.ts:231, "For these, user MUST have either global access OR
\* team grant": what a question grants was due at some moment while it was answered,
\* although its three queries see the tables at different times; unless more than one
\* change came in between, or the call failed and the caller fell back.
GrantedWasDue ==
  \A m \in Members : LET q == asking[m] IN
    q.pc = "answered" /\ q.changes < 2 /\ ~q.fell => q.granted \subseteq q.due
=============================================================================
