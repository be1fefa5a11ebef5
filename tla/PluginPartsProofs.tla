-------------------------- MODULE PluginPartsProofs --------------------------
(***************************************************************************)
(* Theorems about the components that PluginParts runs, each about its     *)
(* component alone, which shares no state with the others, and about       *)
(* HealthAggregates and HealthHistory.                                     *)
(***************************************************************************)
EXTENDS PluginParts, HealthHistory, SubsequenceFacts, FiniteSetTheorems, TLAPS

-----------------------------------------------------------------------------
(* TeamAccess. For all resources, teams and members: access that is granted
   was due. GrantedWasDue speaks of answers; it follows from what holds at each
   of the question's queries (QuestionKept) as long as at most one change of the
   tables has come in between. *)

\* What q would be answered from these grants and settings, with its member's teams now.
FromHere(m, grants, only) ==
  Accessible(grants, only, TeamsOf(memberOf, m), asking[m].about, asking[m].action, asking[m].global)

\* A question that has begun knows what is due; one that has read tables would be
\* answered with what was due, and has read what is still there if nothing changed.
QuestionKept(m) ==
  LET q == asking[m] IN
  /\ q.pc = "grants" => FromHere(m, grantOf, teamOnly) \subseteq q.due
  /\ q.pc = "settings" /\ q.changes < 2 =>
       /\ FromHere(m, q.seen, teamOnly) \subseteq q.due
       /\ q.changes = 0 => q.seen = grantOf
  /\ q.pc = "teams" /\ q.changes < 2 =>
       /\ FromHere(m, q.seen, q.seenOnly) \subseteq q.due
       /\ q.changes = 0 => q.seen = grantOf /\ q.seenOnly = teamOnly
  /\ q.pc = "answered" /\ q.changes < 2 /\ ~q.fell => q.granted \subseteq q.due

QuestionsKept == TeamTypeOK /\ \A m \in Members : QuestionKept(m)

UnderWay == {"grants", "settings", "teams"}

-----------------------------------------------------------------------------
\* Who leaves a team has access to nothing more.
LEMMA FewerTeams ==
  ASSUME NEW grants, NEW only, NEW mine, NEW fewer \in SUBSET mine, NEW about, NEW action, NEW global
  PROVE  Accessible(grants, only, fewer, about, action, global)
           \subseteq Accessible(grants, only, mine, about, action, global)
BY DEF Accessible, ThroughTeam, HasRow

\* Nothing is answered that was not asked.
LEMMA OnlyAsked ==
  ASSUME NEW grants, NEW only, NEW mine, NEW about, NEW action, NEW global
  PROVE  Accessible(grants, only, mine, about, action, global) \subseteq about
BY DEF Accessible

\* A change of the tables leaves the questions well typed.
LEMMA ChangedTypes ==
  ASSUME TeamTypeOK, Changed
  PROVE  asking' \in [Members -> Question]
<1>1. ASSUME NEW m \in Members PROVE asking'[m] \in Question
  <2> DEFINE due == DueNow(grantOf', teamOnly', memberOf', m, asking[m])
  <2>1. asking[m] \in Question
    BY DEF TeamTypeOK
  <2>2. asking[m].about \subseteq Resources
    BY <2>1 DEF Question
  <2>3. due \subseteq asking[m].about
    BY OnlyAsked DEF DueNow
  <2>4. due \subseteq Resources
    BY <2>2, <2>3
  <2>5. asking'[m] = IF asking[m].pc \in UnderWay
                     THEN [asking[m] EXCEPT !.due = @ \cup due, !.changes = IF @ = 0 THEN 1 ELSE 2]
                     ELSE asking[m]
    BY DEF Changed, UnderWay
  <2>6. asking[m].due \cup due \subseteq Resources
    BY <2>1, <2>4 DEF Question
  <2>7. PICK n \in 0 .. 2 : n = IF asking[m].changes = 0 THEN 1 ELSE 2
    OBVIOUS
  <2>8. PICK all \in SUBSET Resources : all = asking[m].due \cup due
    BY <2>6
  <2>9. asking[m].pc \in UnderWay => asking'[m] = [asking[m] EXCEPT !.due = all, !.changes = n]
    BY <2>5, <2>7, <2>8
  <2>10. [asking[m] EXCEPT !.due = all, !.changes = n] \in Question
    BY <2>1 DEF Question
  <2> QED
    BY <2>1, <2>5, <2>9, <2>10
<1>2. DOMAIN asking' = Members
  BY DEF Changed
<1>3. asking' = [m \in Members |-> asking'[m]]
  BY DEF Changed
<1> QED
  BY <1>1, <1>3

\* What a change does to a question, when it changes the grants, the settings or
\* the memberships, or takes grants and memberships away together.
LEMMA ChangedQuestions ==
  ASSUME QuestionsKept, Changed,
         \/ grantOf' = grantOf
         \/ teamOnly' = teamOnly /\ memberOf' \subseteq memberOf,
         \/ grantOf' = grantOf /\ teamOnly' = teamOnly
         \/ memberOf' \subseteq memberOf,
         NEW m \in Members
  PROVE  QuestionKept(m)'
<1> DEFINE q == asking[m]
<1> DEFINE dueNow == DueNow(grantOf', teamOnly', memberOf', m, q)
<1>1. q \in Question /\ QuestionKept(m)
  BY DEF QuestionsKept, TeamTypeOK
<1>2. CASE q.pc \notin UnderWay
  <2>1. asking'[m] = q
    BY <1>2 DEF Changed, UnderWay
  <2> QED
    BY <1>1, <1>2, <2>1 DEF QuestionKept, UnderWay
<1>3. CASE q.pc \in UnderWay
  <2>1. asking'[m] = [q EXCEPT !.due = @ \cup dueNow, !.changes = IF @ = 0 THEN 1 ELSE 2]
    BY <1>3 DEF Changed, UnderWay
  <2>2. /\ asking'[m].pc = q.pc /\ asking'[m].about = q.about /\ asking'[m].action = q.action
        /\ asking'[m].global = q.global /\ asking'[m].seen = q.seen /\ asking'[m].seenOnly = q.seenOnly
        /\ asking'[m].due = q.due \cup dueNow
        /\ asking'[m].changes # 0
        /\ asking'[m].changes < 2 => q.changes = 0
    BY <1>1, <2>1 DEF Question
  <2>3. dueNow = FromHere(m, grantOf, teamOnly)'
    BY <2>2 DEF DueNow, FromHere
  <2>4. \A grants, only : memberOf' \subseteq memberOf =>
          Accessible(grants, only, TeamsOf(memberOf', m), q.about, q.action, q.global)
            \subseteq FromHere(m, grants, only)
    <3>1. memberOf' \subseteq memberOf => TeamsOf(memberOf', m) \in SUBSET TeamsOf(memberOf, m)
      BY DEF TeamsOf
    <3> QED
      BY <3>1, FewerTeams DEF FromHere
  <2>5. ASSUME q.pc = "settings", asking'[m].changes < 2
        PROVE  FromHere(m, asking[m].seen, teamOnly)' \subseteq asking'[m].due
    <3>1. q.changes = 0 /\ q.seen = grantOf /\ FromHere(m, q.seen, teamOnly) \subseteq q.due
      BY <1>1, <2>2, <2>5 DEF QuestionKept
    <3>2. CASE grantOf' = grantOf
      BY <2>2, <2>3, <3>1, <3>2
    <3>3. CASE teamOnly' = teamOnly /\ memberOf' \subseteq memberOf
      BY <2>2, <2>4, <3>1, <3>3 DEF FromHere
    <3> QED
      BY <3>2, <3>3
  <2>6. ASSUME q.pc = "teams", asking'[m].changes < 2
        PROVE  FromHere(m, asking[m].seen, asking[m].seenOnly)' \subseteq asking'[m].due
    <3>1. /\ q.changes = 0 /\ q.seen = grantOf /\ q.seenOnly = teamOnly
          /\ FromHere(m, q.seen, q.seenOnly) \subseteq q.due
      BY <1>1, <2>2, <2>6 DEF QuestionKept
    <3>2. CASE grantOf' = grantOf /\ teamOnly' = teamOnly
      BY <2>2, <2>3, <3>1, <3>2
    <3>3. CASE memberOf' \subseteq memberOf
      BY <2>2, <2>4, <3>1, <3>3 DEF FromHere
    <3> QED
      BY <3>2, <3>3
  <2>7. FromHere(m, grantOf, teamOnly)' \subseteq asking'[m].due
    BY <2>2, <2>3
  <2> QED
    BY <1>3, <2>2, <2>5, <2>6, <2>7 DEF QuestionKept, UnderWay
<1> QED
  BY <1>2, <1>3

\* The changes are of that kind, and keep the types.
LEMMA ChangeStep ==
  ASSUME QuestionsKept, TeamChange
  PROVE  QuestionsKept'
<1>0. TeamTypeOK
  BY DEF QuestionsKept
<1>1. Changed
  BY DEF TeamChange, CreateTeam, DeleteTeam, AddToTeam, RemoveFromTeam, SetResourceTeamAccess,
         RemoveResourceTeamAccess, SetResourceAccessSettings, DeleteResourceGrants
<1>2. \/ grantOf' = grantOf
      \/ teamOnly' = teamOnly /\ memberOf' \subseteq memberOf
  BY DEF TeamChange, CreateTeam, DeleteTeam, AddToTeam, RemoveFromTeam, SetResourceTeamAccess,
         RemoveResourceTeamAccess, SetResourceAccessSettings, DeleteResourceGrants
<1>3. \/ grantOf' = grantOf /\ teamOnly' = teamOnly
      \/ memberOf' \subseteq memberOf
  BY DEF TeamChange, CreateTeam, DeleteTeam, AddToTeam, RemoveFromTeam, SetResourceTeamAccess,
         RemoveResourceTeamAccess, SetResourceAccessSettings, DeleteResourceGrants
<1>4. \A m \in Members : QuestionKept(m)'
  BY <1>1, <1>2, <1>3, ChangedQuestions
<1>5. TeamTypeOK'
  <2>0. asking' \in [Members -> Question]
    BY <1>0, <1>1, ChangedTypes
  <2> DEFINE Tables == /\ teams \subseteq Teams /\ grantOf \in Grants /\ teamOnly \subseteq Resources
                       /\ memberOf \subseteq Members \X teams
                       /\ \A rt \in Resources \X Teams : grantOf[rt] # NoRow => rt[2] \in teams
  <2>1. ASSUME NEW t \in Teams, CreateTeam(t) PROVE Tables'
    BY <1>0, <2>1 DEF CreateTeam, TeamTypeOK
  <2>2. ASSUME NEW t \in Teams, DeleteTeam(t) PROVE Tables'
    <3>1. grantOf' \in Grants /\ \A rt \in Resources \X Teams : grantOf'[rt] # NoRow => rt[2] \in teams'
      BY <1>0, <2>2 DEF DeleteTeam, TeamTypeOK, Grants
    <3>2. memberOf' \subseteq Members \X teams'
      BY <1>0, <2>2 DEF DeleteTeam, TeamTypeOK
    <3> QED
      BY <1>0, <2>2, <3>1, <3>2 DEF DeleteTeam, TeamTypeOK
  <2>3. ASSUME NEW m \in Members, NEW t \in Teams, AddToTeam(m, t) \/ RemoveFromTeam(m, t) PROVE Tables'
    BY <1>0, <2>3 DEF AddToTeam, RemoveFromTeam, TeamTypeOK
  <2>4. ASSUME NEW r \in Resources, NEW t \in Teams, NEW levels \in SUBSET Levels,
               SetResourceTeamAccess(r, t, levels)
        PROVE  Tables'
    BY <1>0, <2>4 DEF SetResourceTeamAccess, TeamTypeOK, Grants
  <2>5. ASSUME NEW r \in Resources, NEW t \in Teams, RemoveResourceTeamAccess(r, t) PROVE Tables'
    BY <1>0, <2>5 DEF RemoveResourceTeamAccess, TeamTypeOK, Grants
  <2>6. ASSUME NEW r \in Resources, DeleteResourceGrants(r) PROVE Tables'
    BY <1>0, <2>6 DEF DeleteResourceGrants, TeamTypeOK, Grants
  <2>7. ASSUME NEW r \in Resources, NEW only \in BOOLEAN, SetResourceAccessSettings(r, only) PROVE Tables'
    BY <1>0, <2>7 DEF SetResourceAccessSettings, TeamTypeOK
  <2>8. Tables'
    BY <2>1, <2>2, <2>3, <2>4, <2>5, <2>6, <2>7 DEF TeamChange
  <2> QED
    BY <2>0, <2>8 DEF TeamTypeOK
<1> QED
  BY <1>4, <1>5 DEF QuestionsKept

-----------------------------------------------------------------------------
\* A question's step touches no other question.
LEMMA OneQuestion ==
  ASSUME QuestionsKept, NEW m \in Members, NEW q \in Question, Put(m, q), QuestionKept(m)'
  PROVE  QuestionsKept'
<1>1. asking' \in [Members -> Question] /\ \A n \in Members \ {m} : asking'[n] = asking[n]
  BY DEF QuestionsKept, TeamTypeOK, Put
<1>2. TeamTypeOK'
  BY <1>1 DEF QuestionsKept, TeamTypeOK, Put
<1>3. \A n \in Members \ {m} : QuestionKept(n)'
  BY <1>1 DEF QuestionsKept, QuestionKept, FromHere, Put
<1> QED
  BY <1>2, <1>3 DEF QuestionsKept

\* A question is answered with what was due, or in the caller's own way.
LEMMA AnswerStep ==
  ASSUME QuestionsKept, NEW m \in Members, NEW granted \in SUBSET Resources, NEW fell \in BOOLEAN,
         Answer(m, asking[m], granted, fell),
         ~fell /\ asking[m].changes < 2 => granted \subseteq asking[m].due
  PROVE  QuestionsKept'
<1> DEFINE q == [asking[m] EXCEPT !.pc = "answered", !.granted = granted, !.fell = fell,
                                  !.seen = NoGrants, !.seenOnly = {}]
<1>1. asking[m] \in Question
  BY DEF QuestionsKept, TeamTypeOK
<1>2. NoGrants \in Grants
  BY DEF NoGrants, Grants
<1>3. q \in Question
  BY <1>1, <1>2 DEF Question
<1>4. Put(m, q)
  BY DEF Answer
<1>5. asking'[m] = q
  BY <1>4 DEF QuestionsKept, TeamTypeOK, Put
<1>6. q.pc = "answered" /\ q.granted = granted /\ q.fell = fell
      /\ q.changes = asking[m].changes /\ q.due = asking[m].due
  BY <1>1 DEF Question
<1> HIDE DEF q
<1>7. QuestionKept(m)'
  BY <1>5, <1>6 DEF QuestionKept
<1> QED
  BY <1>3, <1>4, <1>7, OneQuestion

\* The steps of a question.
LEMMA QuestionStep ==
  ASSUME QuestionsKept, TeamQuestion
  PROVE  QuestionsKept'
<1>0. /\ TeamTypeOK /\ NoGrants \in Grants
      /\ \A m \in Members : asking[m] \in Question /\ QuestionKept(m)
  BY DEF QuestionsKept, TeamTypeOK, NoGrants, Grants
<1>1. ASSUME NEW m \in Members, NEW about \in SUBSET Resources, NEW action \in Levels,
             NEW global \in BOOLEAN, NEW single \in BOOLEAN, Ask(m, about, action, global, single)
      PROVE  QuestionsKept'
  <2> DEFINE q == [NoQuestion EXCEPT !.pc = "grants", !.about = about, !.action = action,
                                     !.global = global, !.single = single]
  <2> DEFINE due == DueNow(grantOf, teamOnly, memberOf, m, q)
  <2>0. NoQuestion \in Question
    BY <1>0 DEF NoQuestion, Question, Levels
  <2>1. /\ q.about = about /\ q.action = action /\ q.global = global
        /\ q \in Question
    BY <2>0 DEF Question
  <2>2. due \subseteq Resources
    BY <2>1, OnlyAsked DEF DueNow
  <2>3. Put(m, [q EXCEPT !.due = due])
    BY <1>1 DEF Ask
  <2>4. due = Accessible(grantOf, teamOnly, TeamsOf(memberOf, m), about, action, global)
    BY <2>1 DEF DueNow
  <2>5. q.pc = "grants"
    BY DEF NoQuestion
  <2> HIDE DEF q, due
  <2>6. [q EXCEPT !.due = due] \in Question
    BY <2>1, <2>2 DEF Question
  <2>7. asking'[m] = [q EXCEPT !.due = due]
    BY <1>0, <2>3 DEF TeamTypeOK, Put
  <2>8. /\ asking'[m].pc = "grants" /\ asking'[m].due = due /\ asking'[m].about = about
        /\ asking'[m].action = action /\ asking'[m].global = global
    BY <2>1, <2>5, <2>7 DEF Question
  <2>9. QuestionKept(m)'
    BY <2>3, <2>4, <2>8 DEF QuestionKept, FromHere, Put
  <2> QED
    BY <2>3, <2>6, <2>9, OneQuestion
<1>2. ASSUME NEW m \in Members, ReadGrants(m) PROVE QuestionsKept'
  <2> DEFINE q == asking[m]
  <2>1. q \in Question /\ QuestionKept(m) /\ q.pc = "grants"
    BY <1>0, <1>2 DEF ReadGrants
  <2>2. ASSUME \A r \in q.about : ~HasRow(grantOf, r),
               Answer(m, q, IF q.global THEN q.about ELSE {}, FALSE)
        PROVE  QuestionsKept'
    <3> DEFINE granted == IF q.global THEN q.about ELSE {}
    <3>1. granted \subseteq FromHere(m, grantOf, teamOnly)
      BY <2>2 DEF FromHere, Accessible
    <3>2. granted \subseteq q.due
      BY <2>1, <3>1 DEF QuestionKept
    <3>3. granted \in SUBSET Resources
      BY <2>1 DEF Question
    <3> QED
      BY <2>2, <3>2, <3>3, AnswerStep
  <2>3. ASSUME Put(m, [q EXCEPT !.pc = "settings", !.seen = grantOf]) PROVE QuestionsKept'
    <3>1. [q EXCEPT !.pc = "settings", !.seen = grantOf] \in Question
      BY <1>0, <2>1 DEF Question, TeamTypeOK
    <3>2. asking'[m] = [q EXCEPT !.pc = "settings", !.seen = grantOf]
      BY <1>0, <2>3 DEF TeamTypeOK, Put
    <3>3. /\ asking'[m].pc = "settings" /\ asking'[m].seen = grantOf /\ asking'[m].due = q.due
          /\ asking'[m].about = q.about /\ asking'[m].action = q.action /\ asking'[m].global = q.global
      BY <2>1, <3>2 DEF Question
    <3>4. QuestionKept(m)'
      BY <2>1, <2>3, <3>3 DEF QuestionKept, FromHere, Put
    <3> QED
      BY <2>3, <3>1, <3>4, OneQuestion
  <2> QED
    BY <1>2, <2>2, <2>3 DEF ReadGrants
<1>3. ASSUME NEW m \in Members, ReadSettings(m) PROVE QuestionsKept'
  <2> DEFINE q == asking[m]
  <2>1. q \in Question /\ QuestionKept(m) /\ q.pc = "settings"
    BY <1>0, <1>3 DEF ReadSettings
  <2>2. ASSUME q.global, q.about \cap teamOnly = {}, Answer(m, q, q.about, FALSE) PROVE QuestionsKept'
    <3>1. q.about \subseteq FromHere(m, q.seen, teamOnly)
      BY <2>2 DEF FromHere, Accessible
    <3>2. q.changes < 2 => q.about \subseteq q.due
      BY <2>1, <3>1 DEF QuestionKept
    <3>3. q.about \in SUBSET Resources
      BY <2>1 DEF Question
    <3> QED
      BY <2>2, <3>2, <3>3, AnswerStep
  <2>3. ASSUME Put(m, [q EXCEPT !.pc = "teams", !.seenOnly = teamOnly]) PROVE QuestionsKept'
    <3>1. [q EXCEPT !.pc = "teams", !.seenOnly = teamOnly] \in Question
      BY <1>0, <2>1 DEF Question, TeamTypeOK
    <3>2. asking'[m] = [q EXCEPT !.pc = "teams", !.seenOnly = teamOnly]
      BY <1>0, <2>3 DEF TeamTypeOK, Put
    <3>3. /\ asking'[m].pc = "teams" /\ asking'[m].seenOnly = teamOnly /\ asking'[m].seen = q.seen
          /\ asking'[m].due = q.due /\ asking'[m].changes = q.changes
          /\ asking'[m].about = q.about /\ asking'[m].action = q.action /\ asking'[m].global = q.global
      BY <2>1, <3>2 DEF Question
    <3>4. QuestionKept(m)'
      BY <2>1, <2>3, <3>3 DEF QuestionKept, FromHere, Put
    <3> QED
      BY <2>3, <3>1, <3>4, OneQuestion
  <2> QED
    BY <1>3, <2>2, <2>3 DEF ReadSettings
<1>4. ASSUME NEW m \in Members, ReadTeams(m) PROVE QuestionsKept'
  <2> DEFINE q == asking[m]
  <2> DEFINE granted == FromHere(m, q.seen, q.seenOnly)
  <2>1. q \in Question /\ QuestionKept(m) /\ q.pc = "teams"
    BY <1>0, <1>4 DEF ReadTeams
  <2>2. granted \subseteq q.about
    BY OnlyAsked DEF FromHere
  <2>3. granted \in SUBSET Resources
    BY <2>1, <2>2 DEF Question
  <2>4. Answer(m, q, granted, FALSE)
    BY <1>4 DEF ReadTeams, FromHere
  <2>5. q.changes < 2 => granted \subseteq q.due
    BY <2>1 DEF QuestionKept
  <2> HIDE DEF granted
  <2> QED
    BY <2>3, <2>4, <2>5, AnswerStep
<1>5. ASSUME NEW m \in Members, CallFails(m) PROVE QuestionsKept'
  <2> DEFINE granted == IF asking[m].global THEN asking[m].about ELSE {}
  <2>1. granted \in SUBSET Resources
    BY <1>0 DEF Question
  <2>2. Answer(m, asking[m], granted, TRUE)
    BY <1>5 DEF CallFails
  <2> HIDE DEF granted
  <2> QED
    BY <2>1, <2>2, AnswerStep
<1> QED
  BY <1>1, <1>2, <1>3, <1>4, <1>5 DEF TeamQuestion

\* The invariant holds initially and is kept.
LEMMA QuestionsKeptAlways == TeamSpec => []QuestionsKept
<1>1. TeamInit => QuestionsKept
  <2> SUFFICES ASSUME TeamInit PROVE QuestionsKept
    OBVIOUS
  <2>1. NoGrants \in Grants /\ \A rt \in Resources \X Teams : NoGrants[rt] = NoRow
    BY DEF NoGrants, Grants
  <2>2. NoQuestion \in Question /\ NoQuestion.pc = "idle"
    BY <2>1 DEF NoQuestion, Question, Levels
  <2> QED
    BY <2>1, <2>2 DEF TeamInit, QuestionsKept, TeamTypeOK, QuestionKept
<1>2. QuestionsKept /\ [TeamNext]_teamVars => QuestionsKept'
  <2>1. ASSUME QuestionsKept, UNCHANGED teamVars PROVE QuestionsKept'
    BY <2>1 DEF teamVars, QuestionsKept, QuestionKept, TeamTypeOK, FromHere
  <2> QED
    BY <2>1, ChangeStep, QuestionStep DEF TeamNext
<1> QED
  BY <1>1, <1>2, PTL DEF TeamSpec

-----------------------------------------------------------------------------
\* The types of the tables and questions, and the foreign keys, are kept.
THEOREM TeamTypesCorrect == TeamSpec => []TeamTypeOK
<1>1. QuestionsKept => TeamTypeOK
  BY DEF QuestionsKept
<1> QED
  BY <1>1, QuestionsKeptAlways, PTL

\* core/backend-api/src/rpc.ts:231: what the three queries of a question grant was due at
\* some moment of it, whatever one change of teams, grants, settings or memberships
\* comes between them, for any number of resources, teams and members.
THEOREM GrantedWasDueCorrect == TeamSpec => []GrantedWasDue
<1>1. QuestionsKept => GrantedWasDue
  BY DEF QuestionsKept, QuestionKept, GrantedWasDue
<1> QED
  BY <1>1, QuestionsKeptAlways, PTL

-----------------------------------------------------------------------------
(* ConnectionStore. ConnectionsWhole for any connections, stores and
   administrators: what is left of a connection that neither failures nor
   overlaps have touched follows from who is at work on it. *)

Requests == [pc : {"idle", "setMetadata", "setConfig", "deleteConfig", "deleteMetadata", "readIndex", "writeIndex"},
             op : {"none", "create", "update", "delete"}, on : Connections \cup {"none"},
             at : Stores \cup {"none"}, read : SUBSET Connections, alone : BOOLEAN]

\* Where the requests of each kind may be.
Stages == [none |-> {"idle"},
           create |-> {"setMetadata", "setConfig", "readIndex", "writeIndex"},
           update |-> {"setMetadata", "setConfig"},
           delete |-> {"deleteConfig", "deleteMetadata", "readIndex", "writeIndex"}]

Typed ==
  /\ metadata \subseteq Connections /\ configs \subseteq Connections
  /\ index \subseteq listed /\ listed \subseteq Connections
  /\ disturbed \subseteq Connections \cup {"none"}
  /\ providerCache \in [Stores -> SUBSET listed]
  /\ requesting \in [Integrators -> Requests]
  /\ \A a \in Integrators :
       /\ requesting[a].pc \in Stages[requesting[a].op] /\ requesting[a].read \subseteq listed
       /\ requesting[a].pc # "idle" => requesting[a].on \in Connections

Is(a, op, c) == requesting[a].op = op /\ requesting[a].on = c

\* A connection that is being created has never been in the index, and nobody else is at work on it.
CreatedAlone ==
  \A a \in Integrators : requesting[a].op = "create" =>
    LET c == requesting[a].on IN
    /\ c \notin listed
    /\ \A b \in Integrators : Is(b, "create", c) => b = a
    /\ requesting[a].pc = "setMetadata" => c \notin metadata \cup configs
    /\ requesting[a].pc # "setMetadata" => c \in metadata
    /\ requesting[a].pc \in {"readIndex", "writeIndex"} => c \in configs

\* Updates and deletions are about connections that have been in the index.
ChangedListed ==
  \A a \in Integrators : requesting[a].op \in {"update", "delete"} => requesting[a].on \in listed

\* What has never been listed has entries only if its creation is under way or has failed.
Unlisted ==
  \A c \in Connections \ listed :
    /\ c \in configs => c \in metadata
    /\ c \notin disturbed /\ (\A a \in Integrators : ~Is(a, "create", c)) => c \notin metadata

\* What a deletion has deleted is gone.
Gone(a) ==
  /\ requesting[a].pc # "deleteConfig" => requesting[a].on \notin configs
  /\ requesting[a].pc \in {"readIndex", "writeIndex"} => requesting[a].on \notin metadata

NoUpdate(c) == \A b \in Integrators : ~Is(b, "update", c)

AloneGone ==
  \A a \in Integrators : requesting[a].op = "delete" /\ requesting[a].alone =>
    NoUpdate(requesting[a].on) /\ Gone(a)

Undisturbed ==
  \A c \in listed \ disturbed :
    /\ \A a \in Integrators : Is(a, "delete", c) => NoUpdate(c) /\ Gone(a)
    /\ \A a \in Integrators : Is(a, "update", c) => c \in metadata \cap configs
    /\ (\A a \in Integrators : ~Is(a, "delete", c)) =>
         c \in index \cap metadata \cap configs \/ c \notin index \cup metadata \cup configs

ConnectionsInv ==
  Typed /\ CreatedAlone /\ ChangedListed /\ Unlisted /\ AloneGone /\ Undisturbed

-----------------------------------------------------------------------------
(* What an action does to the requests *)

\* A request goes on to its next statement.
LEMMA ThenEffect ==
  ASSUME Typed, NEW a \in Integrators, NEW pc, Then(a, pc), pc \in Stages[requesting[a].op], pc # "idle",
         requesting[a].pc # "idle"
  PROVE  /\ requesting' \in [Integrators -> Requests]
         /\ requesting'[a] = [requesting[a] EXCEPT !.pc = pc]
         /\ \A b \in Integrators :
              /\ b # a => requesting'[b] = requesting[b]
              /\ requesting'[b].op = requesting[b].op /\ requesting'[b].on = requesting[b].on
              /\ requesting'[b].alone = requesting[b].alone /\ requesting'[b].read = requesting[b].read
              /\ requesting'[b].at = requesting[b].at
              /\ requesting'[b].pc = IF b = a THEN pc ELSE requesting[b].pc
<1>1. requesting[a] \in Requests /\ requesting[a].op \in {"create", "update", "delete"}
  BY DEF Typed, Requests, Stages
<1>2. pc \in {"setMetadata", "setConfig", "deleteConfig", "deleteMetadata", "readIndex", "writeIndex"}
  BY <1>1 DEF Stages
<1>3. [requesting[a] EXCEPT !.pc = pc] \in Requests
  BY <1>1, <1>2 DEF Requests
<1>4. requesting' = [requesting EXCEPT ![a] = [requesting[a] EXCEPT !.pc = pc]]
  BY DEF Then, Typed
<1>5. requesting \in [Integrators -> Requests]
  BY DEF Typed
<1>6. requesting' \in [Integrators -> Requests]
  BY <1>3, <1>4, <1>5
<1>7. requesting'[a] = [requesting[a] EXCEPT !.pc = pc]
  BY <1>4, <1>5
<1>8. \A b \in Integrators : b # a => requesting'[b] = requesting[b]
  BY <1>4, <1>5
<1> QED
  BY <1>1, <1>6, <1>7, <1>8 DEF Requests

\* A request ends.
LEMMA EndsEffect ==
  ASSUME Typed, NEW a \in Integrators, Ends(a)
  PROVE  /\ requesting' \in [Integrators -> Requests]
         /\ requesting'[a].op = "none" /\ requesting'[a].pc = "idle" /\ requesting'[a].read = {}
         /\ \A b \in Integrators : b # a => requesting'[b] = requesting[b]
<1>1. NoRequest \in Requests
  BY DEF NoRequest, Requests
<1>2. requesting \in [Integrators -> Requests] /\ requesting' = [requesting EXCEPT ![a] = NoRequest]
  BY DEF Typed, Ends
<1> QED
  BY <1>1, <1>2 DEF NoRequest

\* A creation or an update that writes the metadata leaves the invariant true.
LEMMA SetMetadataKeeps == ASSUME ConnectionsInv, NEW a \in Integrators, SetMetadata(a) PROVE ConnectionsInv'
<1> DEFINE c == requesting[a].on
<1>1. /\ requesting[a].pc = "setMetadata" /\ metadata' = metadata \cup {c} /\ Then(a, "setConfig")
      /\ UNCHANGED <<configs, index, providerCache, listed, disturbed>>
  BY DEF SetMetadata, Doing
<1>2. Typed /\ CreatedAlone /\ ChangedListed /\ Unlisted /\ AloneGone /\ Undisturbed
  BY DEF ConnectionsInv
<1>3. requesting[a].op \in {"create", "update"} /\ c \in Connections /\ requesting[a] \in Requests
  BY <1>1, <1>2 DEF Typed, Stages, Requests
<1>4. "setConfig" \in Stages[requesting[a].op]
  BY <1>3 DEF Stages
<1>5. /\ requesting' \in [Integrators -> Requests]
      /\ \A b \in Integrators :
           /\ requesting'[b].op = requesting[b].op /\ requesting'[b].on = requesting[b].on
           /\ requesting'[b].alone = requesting[b].alone /\ requesting'[b].read = requesting[b].read
           /\ requesting'[b].pc = IF b = a THEN "setConfig" ELSE requesting[b].pc
  BY <1>1, <1>2, <1>4, ThenEffect
<1>6. Typed'
  BY <1>1, <1>2, <1>3, <1>4, <1>5 DEF Typed
<1>7. CreatedAlone'
  BY <1>1, <1>2, <1>3, <1>5 DEF CreatedAlone, ChangedListed, Is
<1>8. ChangedListed'
  BY <1>1, <1>2, <1>5 DEF ChangedListed
<1>9. Unlisted'
  BY <1>1, <1>2, <1>3, <1>5 DEF Unlisted, ChangedListed, Is
<1>10. AloneGone'
  BY <1>1, <1>2, <1>3, <1>5 DEF AloneGone, CreatedAlone, ChangedListed, NoUpdate, Gone, Is
<1>11. Undisturbed'
  BY <1>1, <1>2, <1>3, <1>5 DEF Undisturbed, CreatedAlone, ChangedListed, NoUpdate, Gone, Is
<1> QED
  BY <1>6, <1>7, <1>8, <1>9, <1>10, <1>11 DEF ConnectionsInv

\* Writing the configuration ends an update and takes a creation on to the index.
LEMMA SetConfigKeeps == ASSUME ConnectionsInv, NEW a \in Integrators, SetConfig(a) PROVE ConnectionsInv'
<1> DEFINE c == requesting[a].on
<1>1. /\ requesting[a].pc = "setConfig" /\ configs' = configs \cup {c}
      /\ UNCHANGED <<metadata, index, providerCache, listed, disturbed>>
  BY DEF SetConfig, Doing
<1>2. Typed /\ CreatedAlone /\ ChangedListed /\ Unlisted /\ AloneGone /\ Undisturbed
  BY DEF ConnectionsInv
<1>3. requesting[a].op \in {"create", "update"} /\ c \in Connections /\ requesting[a] \in Requests
  BY <1>1, <1>2 DEF Typed, Stages, Requests
<1>4. CASE requesting[a].op = "create" /\ Then(a, "readIndex")
  <2>1. "readIndex" \in Stages[requesting[a].op]
    BY <1>4 DEF Stages
  <2>2. /\ requesting' \in [Integrators -> Requests]
        /\ \A b \in Integrators :
             /\ requesting'[b].op = requesting[b].op /\ requesting'[b].on = requesting[b].on
             /\ requesting'[b].alone = requesting[b].alone /\ requesting'[b].read = requesting[b].read
             /\ requesting'[b].pc = IF b = a THEN "readIndex" ELSE requesting[b].pc
    BY <1>1, <1>2, <1>4, <2>1, ThenEffect
  <2>3. Typed'
    BY <1>1, <1>2, <1>3, <2>1, <2>2 DEF Typed
  <2>4. CreatedAlone'
    BY <1>1, <1>2, <1>3, <1>4, <2>2 DEF CreatedAlone, Is
  <2>5. ChangedListed'
    BY <1>1, <1>2, <2>2 DEF ChangedListed
  <2>6. Unlisted'
    BY <1>1, <1>2, <1>3, <1>4, <2>2 DEF Unlisted, CreatedAlone, Is
  <2>7. AloneGone'
    BY <1>1, <1>2, <1>3, <1>4, <2>2 DEF AloneGone, CreatedAlone, ChangedListed, NoUpdate, Gone, Is
  <2>8. Undisturbed'
    BY <1>1, <1>2, <1>3, <1>4, <2>2 DEF Undisturbed, CreatedAlone, NoUpdate, Gone, Is
  <2> QED
    BY <2>3, <2>4, <2>5, <2>6, <2>7, <2>8 DEF ConnectionsInv
<1>5. CASE requesting[a].op = "update" /\ Ends(a)
  <2>1. /\ requesting' \in [Integrators -> Requests]
        /\ requesting'[a].op = "none" /\ requesting'[a].pc = "idle" /\ requesting'[a].read = {}
        /\ \A b \in Integrators : b # a => requesting'[b] = requesting[b]
    BY <1>2, <1>5, EndsEffect
  <2>2. c \in listed
    BY <1>2, <1>5 DEF ChangedListed
  <2>3. Typed'
    BY <1>1, <1>2, <1>3, <2>1 DEF Typed, Stages
  <2>4. CreatedAlone'
    BY <1>1, <1>2, <2>1, <2>2 DEF CreatedAlone, Is
  <2>5. ChangedListed'
    BY <1>1, <1>2, <2>1 DEF ChangedListed
  <2>6. Unlisted'
    BY <1>1, <1>2, <1>5, <2>1, <2>2 DEF Unlisted, Is
  <2>7. AloneGone'
    BY <1>1, <1>2, <1>5, <2>1 DEF AloneGone, NoUpdate, Gone, Is
  <2>8. Undisturbed'
    BY <1>1, <1>2, <1>5, <2>1 DEF Undisturbed, NoUpdate, Gone, Is
  <2> QED
    BY <2>3, <2>4, <2>5, <2>6, <2>7, <2>8 DEF ConnectionsInv
<1> QED
  BY <1>4, <1>5 DEF SetConfig

\* A deletion removes the configuration before the metadata.
LEMMA DeleteConfigKeeps == ASSUME ConnectionsInv, NEW a \in Integrators, DeleteConfig(a) PROVE ConnectionsInv'
<1> DEFINE c == requesting[a].on
<1>1. /\ requesting[a].pc = "deleteConfig" /\ configs' = configs \ {c} /\ Then(a, "deleteMetadata")
      /\ UNCHANGED <<metadata, index, providerCache, listed, disturbed>>
  BY DEF DeleteConfig, Doing
<1>2. Typed /\ CreatedAlone /\ ChangedListed /\ Unlisted /\ AloneGone /\ Undisturbed
  BY DEF ConnectionsInv
<1>3. requesting[a].op = "delete" /\ c \in listed
  BY <1>1, <1>2 DEF Typed, Stages, Requests, ChangedListed
<1>4. "deleteMetadata" \in Stages[requesting[a].op]
  BY <1>3 DEF Stages
<1>5. /\ requesting' \in [Integrators -> Requests]
      /\ \A b \in Integrators :
           /\ requesting'[b].op = requesting[b].op /\ requesting'[b].on = requesting[b].on
           /\ requesting'[b].alone = requesting[b].alone /\ requesting'[b].read = requesting[b].read
           /\ requesting'[b].pc = IF b = a THEN "deleteMetadata" ELSE requesting[b].pc
  BY <1>1, <1>2, <1>4, ThenEffect
<1>6. Typed'
  BY <1>1, <1>2, <1>4, <1>5 DEF Typed
<1>7. CreatedAlone'
  BY <1>1, <1>2, <1>3, <1>5 DEF CreatedAlone, Is
<1>8. ChangedListed'
  BY <1>1, <1>2, <1>5 DEF ChangedListed
<1>9. Unlisted'
  BY <1>1, <1>2, <1>3, <1>5 DEF Unlisted, Is
<1>10. AloneGone'
  BY <1>1, <1>2, <1>3, <1>5 DEF AloneGone, NoUpdate, Gone, Is
<1>11. Undisturbed'
  BY <1>1, <1>2, <1>3, <1>5 DEF Undisturbed, NoUpdate, Gone, Is
<1> QED
  BY <1>6, <1>7, <1>8, <1>9, <1>10, <1>11 DEF ConnectionsInv

\* Once a deletion has removed the metadata too, only the index still names the connection.
LEMMA DeleteMetadataKeeps == ASSUME ConnectionsInv, NEW a \in Integrators, DeleteMetadata(a) PROVE ConnectionsInv'
<1> DEFINE c == requesting[a].on
<1>1. /\ requesting[a].pc = "deleteMetadata" /\ metadata' = metadata \ {c} /\ Then(a, "readIndex")
      /\ UNCHANGED <<configs, index, providerCache, listed, disturbed>>
  BY DEF DeleteMetadata, Doing
<1>2. Typed /\ CreatedAlone /\ ChangedListed /\ Unlisted /\ AloneGone /\ Undisturbed
  BY DEF ConnectionsInv
<1>3. requesting[a].op = "delete" /\ c \in listed
  BY <1>1, <1>2 DEF Typed, Stages, Requests, ChangedListed
<1>4. "readIndex" \in Stages[requesting[a].op]
  BY <1>3 DEF Stages
<1>5. /\ requesting' \in [Integrators -> Requests]
      /\ \A b \in Integrators :
           /\ requesting'[b].op = requesting[b].op /\ requesting'[b].on = requesting[b].on
           /\ requesting'[b].alone = requesting[b].alone /\ requesting'[b].read = requesting[b].read
           /\ requesting'[b].pc = IF b = a THEN "readIndex" ELSE requesting[b].pc
  BY <1>1, <1>2, <1>4, ThenEffect
<1>6. Typed'
  BY <1>1, <1>2, <1>4, <1>5 DEF Typed
<1>7. CreatedAlone'
  BY <1>1, <1>2, <1>3, <1>5 DEF CreatedAlone, Is
<1>8. ChangedListed'
  BY <1>1, <1>2, <1>5 DEF ChangedListed
<1>9. Unlisted'
  BY <1>1, <1>2, <1>3, <1>5 DEF Unlisted, Is
<1>10. AloneGone'
  BY <1>1, <1>2, <1>3, <1>5 DEF AloneGone, NoUpdate, Gone, Is
<1>11. Undisturbed'
  BY <1>1, <1>2, <1>3, <1>5 DEF Undisturbed, NoUpdate, Gone, Is
<1> QED
  BY <1>6, <1>7, <1>8, <1>9, <1>10, <1>11 DEF ConnectionsInv

\* Reading the index shows a request connections that have been listed, and changes none.
LEMMA ReadIndexKeeps == ASSUME ConnectionsInv, NEW a \in Integrators, ReadIndex(a) PROVE ConnectionsInv'
<1> DEFINE c == requesting[a].on
<1>1. requesting[a].pc = "readIndex" /\ UNCHANGED <<metadata, configs, index, providerCache, listed, disturbed>>
  BY DEF ReadIndex, Doing, entries
<1>2. Typed /\ CreatedAlone /\ ChangedListed /\ Unlisted /\ AloneGone /\ Undisturbed
  BY DEF ConnectionsInv
<1>3. requesting[a].op \in {"create", "delete"} /\ c \in Connections /\ requesting[a] \in Requests
  BY <1>1, <1>2 DEF Typed, Stages, Requests
<1>4. CASE requesting[a].op = "delete" /\ c \notin index /\ Ends(a)
  <2>1. /\ requesting' \in [Integrators -> Requests]
        /\ requesting'[a].op = "none" /\ requesting'[a].pc = "idle" /\ requesting'[a].read = {}
        /\ \A b \in Integrators : b # a => requesting'[b] = requesting[b]
    BY <1>2, <1>4, EndsEffect
  <2>2. c \in listed
    BY <1>2, <1>4 DEF ChangedListed
  <2>3. Typed'
    BY <1>1, <1>2, <1>3, <2>1 DEF Typed, Stages
  <2>4. CreatedAlone'
    BY <1>1, <1>2, <2>1, <2>2 DEF CreatedAlone, Is
  <2>5. ChangedListed'
    BY <1>1, <1>2, <2>1 DEF ChangedListed
  <2>6. Unlisted'
    BY <1>1, <1>2, <1>4, <2>1, <2>2 DEF Unlisted, Is
  <2>7. AloneGone'
    BY <1>1, <1>2, <1>4, <2>1 DEF AloneGone, NoUpdate, Gone, Is
  <2>8. Undisturbed'
    BY <1>1, <1>2, <1>4, <2>1, <2>2 DEF Undisturbed, NoUpdate, Gone, Is
  <2> QED
    BY <2>3, <2>4, <2>5, <2>6, <2>7, <2>8 DEF ConnectionsInv
<1>5. CASE requesting' = [requesting EXCEPT ![a].pc = "writeIndex", ![a].read = index]
  <2> DEFINE next == [requesting[a] EXCEPT !.pc = "writeIndex", !.read = index]
  <2>1. index \in SUBSET Connections
    BY <1>2 DEF Typed
  <2>2. next \in Requests
    BY <1>3, <2>1 DEF Requests
  <2>3. requesting' = [requesting EXCEPT ![a] = next] /\ requesting \in [Integrators -> Requests]
    BY <1>2, <1>5 DEF Typed
  <2>4. /\ requesting' \in [Integrators -> Requests] /\ requesting'[a] = next
        /\ \A b \in Integrators : b # a => requesting'[b] = requesting[b]
    BY <2>2, <2>3
  <2>5. \A b \in Integrators :
          /\ requesting'[b].op = requesting[b].op /\ requesting'[b].on = requesting[b].on
          /\ requesting'[b].alone = requesting[b].alone
          /\ requesting'[b].pc = IF b = a THEN "writeIndex" ELSE requesting[b].pc
          /\ requesting'[b].read = IF b = a THEN index ELSE requesting[b].read
    BY ZenonT(30), <1>3, <2>4 DEF Requests
  <2>6. Typed'
    BY <1>1, <1>2, <1>3, <2>4, <2>5 DEF Typed, Stages
  <2>7. CreatedAlone'
    BY <1>1, <1>2, <1>3, <2>5 DEF CreatedAlone, Is
  <2>8. ChangedListed'
    BY <1>1, <1>2, <2>5 DEF ChangedListed
  <2>9. Unlisted'
    BY <1>1, <1>2, <2>5 DEF Unlisted, Is
  <2>10. AloneGone'
    BY <1>1, <1>2, <1>3, <2>5 DEF AloneGone, NoUpdate, Gone, Is
  <2>11. Undisturbed'
    BY <1>1, <1>2, <1>3, <2>5 DEF Undisturbed, NoUpdate, Gone, Is
  <2> QED
    BY <2>6, <2>7, <2>8, <2>9, <2>10, <2>11 DEF ConnectionsInv
<1> QED
  BY <1>4, <1>5 DEF ReadIndex

\* An index written from an older reading disturbs whatever it loses or brings back.
LEMMA WriteIndexKeeps == ASSUME ConnectionsInv, NEW a \in Integrators, WriteIndex(a) PROVE ConnectionsInv'
<1> DEFINE c == requesting[a].on
           read == requesting[a].read
           new == IF requesting[a].op = "create" THEN read \cup {c} ELSE read \ {c}
           lost == (index \ read) \cup (read \ index)
<1>1. /\ requesting[a].pc = "writeIndex" /\ index' = new /\ listed' = listed \cup new
      /\ providerCache' = [providerCache EXCEPT ![requesting[a].at] =
           IF requesting[a].op = "create" THEN providerCache[requesting[a].at] \cup {c}
                                          ELSE providerCache[requesting[a].at] \ {c}]
      /\ disturbed' = (IF requesting[a].op = "delete" /\ requesting[a].alone
                       THEN disturbed \ {c} ELSE disturbed) \cup (lost \ {c})
      /\ Ends(a) /\ UNCHANGED <<metadata, configs>>
  BY DEF WriteIndex, Doing
<1>2. Typed /\ CreatedAlone /\ ChangedListed /\ Unlisted /\ AloneGone /\ Undisturbed
  BY DEF ConnectionsInv
<1>3. requesting[a].op \in {"create", "delete"} /\ c \in Connections /\ read \subseteq listed
  BY <1>1, <1>2 DEF Typed, Stages, Requests
<1>4. /\ requesting' \in [Integrators -> Requests]
      /\ requesting'[a].op = "none" /\ requesting'[a].pc = "idle" /\ requesting'[a].read = {}
      /\ \A b \in Integrators : b # a => requesting'[b] = requesting[b]
  BY <1>1, <1>2, EndsEffect
<1>5. c \in listed' /\ \A x \in listed' : x = c \/ x \in listed
  BY <1>1, <1>2, <1>3 DEF ChangedListed
<1>6. Typed'
  <2>1. providerCache' \in [Stores -> SUBSET listed']
    BY <1>1, <1>2, <1>3, <1>5 DEF Typed
  <2>2. /\ index' \subseteq listed' /\ listed' \subseteq Connections
        /\ disturbed' \subseteq Connections \cup {"none"}
    BY <1>1, <1>2, <1>3 DEF Typed
  <2> QED
    BY <1>1, <1>2, <1>4, <2>1, <2>2 DEF Typed, Stages
<1>7. CreatedAlone'
  BY <1>1, <1>2, <1>3, <1>4, <1>5 DEF CreatedAlone, ChangedListed, Is
<1>8. ChangedListed'
  BY <1>1, <1>2, <1>4 DEF ChangedListed
<1>9. Unlisted'
  BY <1>1, <1>2, <1>4, <1>5 DEF Unlisted, Is
<1>10. AloneGone'
  BY <1>1, <1>2, <1>4 DEF AloneGone, NoUpdate, Gone, Is
<1>11. Undisturbed'
  <2> SUFFICES ASSUME NEW x \in listed' \ disturbed'
               PROVE  /\ \A b \in Integrators : Is(b, "delete", x)' => NoUpdate(x)' /\ Gone(b)'
                      /\ \A b \in Integrators : Is(b, "update", x)' => x \in metadata' \cap configs'
                      /\ (\A b \in Integrators : ~Is(b, "delete", x)') =>
                           \/ x \in index' \cap metadata' \cap configs'
                           \/ x \notin index' \cup metadata' \cup configs'
    BY DEF Undisturbed
  <2>1. CASE x # c
    <3>1. x \in listed \ disturbed /\ (x \in index' <=> x \in index)
      BY <1>1, <1>5, <2>1
    <3> QED
      BY <1>1, <1>2, <1>4, <2>1, <3>1 DEF Undisturbed, NoUpdate, Gone, Is
  <2>2. CASE x = c /\ requesting[a].op = "create"
    <3>1. x \in index' \cap metadata' \cap configs'
      BY <1>1, <1>2, <2>2 DEF CreatedAlone
    <3>2. \A b \in Integrators : ~Is(b, "delete", x)' /\ ~Is(b, "update", x)'
      BY <1>2, <1>4, <2>2 DEF CreatedAlone, ChangedListed, Is
    <3> QED
      BY <3>1, <3>2
  <2>3. CASE x = c /\ requesting[a].op = "delete"
    <3>1. NoUpdate(c) /\ Gone(a)
      BY <1>1, <1>2, <2>3 DEF AloneGone, Undisturbed, ChangedListed, Is
    <3>2. x \notin index' \cup metadata' \cup configs'
      BY <1>1, <2>3, <3>1 DEF Gone
    <3>3. \A b \in Integrators : ~Is(b, "update", x)'
      BY <1>4, <2>3, <3>1 DEF NoUpdate, Is
    <3> QED
      BY <3>2, <3>3 DEF Gone, NoUpdate, Is
  <2> QED
    BY <1>3, <2>1, <2>2, <2>3
<1> QED
  BY <1>6, <1>7, <1>8, <1>9, <1>10, <1>11 DEF ConnectionsInv

\* Requests that break off disturb what they were about.
LEMMA BrokenOff ==
  ASSUME ConnectionsInv, NEW L \in SUBSET Integrators,
         requesting' = [b \in Integrators |-> IF b \in L THEN NoRequest ELSE requesting[b]],
         disturbed' = disturbed \cup {requesting[b].on : b \in L},
         providerCache' \in [Stores -> SUBSET listed], UNCHANGED <<entries, listed>>
  PROVE  ConnectionsInv'
<1>1. UNCHANGED <<metadata, configs, index, listed>>
  BY DEF entries
<1>2. Typed /\ CreatedAlone /\ ChangedListed /\ Unlisted /\ AloneGone /\ Undisturbed
  BY DEF ConnectionsInv
<1>3. NoRequest \in Requests /\ NoRequest.op = "none" /\ NoRequest.pc = "idle" /\ NoRequest.read = {}
  BY DEF NoRequest, Requests
<1>4. /\ requesting' \in [Integrators -> Requests]
      /\ \A b \in Integrators : requesting'[b] = IF b \in L THEN NoRequest ELSE requesting[b]
  BY <1>2, <1>3 DEF Typed
<1>5. Typed'
  <2>1. \A b \in L : requesting[b].on \in Connections \cup {"none"}
    BY <1>2 DEF Typed, Requests
  <2> QED
    BY <1>1, <1>2, <1>3, <1>4, <2>1 DEF Typed, Stages
<1>6. CreatedAlone'
  BY <1>1, <1>2, <1>3, <1>4 DEF CreatedAlone, Is
<1>7. ChangedListed'
  BY <1>1, <1>2, <1>3, <1>4 DEF ChangedListed
<1>8. Unlisted'
  BY <1>1, <1>2, <1>3, <1>4 DEF Unlisted, Is
<1>9. AloneGone'
  BY <1>1, <1>2, <1>3, <1>4 DEF AloneGone, NoUpdate, Gone, Is
<1>10. Undisturbed'
  BY <1>1, <1>2, <1>3, <1>4 DEF Undisturbed, NoUpdate, Gone, Is
<1> QED
  BY <1>5, <1>6, <1>7, <1>8, <1>9, <1>10 DEF ConnectionsInv

\* A request that fails disturbs its connection, wherever it stops.
LEMMA RequestFailsKeeps == ASSUME ConnectionsInv, NEW a \in Integrators, RequestFails(a) PROVE ConnectionsInv'
<1>1. Typed
  BY DEF ConnectionsInv
<1>2. UNCHANGED <<entries, listed>>
  BY DEF RequestFails
<1>3. CASE Ends(a) /\ UNCHANGED providerCache /\ disturbed' = disturbed \cup {requesting[a].on}
  <2>1. requesting' = [b \in Integrators |-> IF b \in {a} THEN NoRequest ELSE requesting[b]]
    BY <1>1, <1>3 DEF Ends, Typed
  <2>2. disturbed' = disturbed \cup {requesting[b].on : b \in {a}}
    BY <1>3
  <2>3. providerCache' \in [Stores -> SUBSET listed]
    BY <1>1, <1>3 DEF Typed
  <2> QED
    BY <1>2, <2>1, <2>2, <2>3, BrokenOff
<1>4. ASSUME NEW L \in SUBSET Integrators, NEW at, providerCache' = [providerCache EXCEPT ![at] = {}],
             disturbed' = disturbed \cup {requesting[b].on : b \in L},
             requesting' = [b \in Integrators |-> IF b \in L THEN NoRequest ELSE requesting[b]]
      PROVE  ConnectionsInv'
  <2>1. providerCache' \in [Stores -> SUBSET listed]
    BY <1>1, <1>4 DEF Typed
  <2> QED
    BY <1>2, <1>4, <2>1, BrokenOff
<1> QED
  BY <1>3, <1>4 DEF RequestFails

-----------------------------------------------------------------------------
(* Requests that begin *)

\* A request begins: who else is at work stays the same.
LEMMA BeginsEffect ==
  ASSUME Typed, NEW a \in Integrators, requesting[a].pc = "idle", NEW c \in Connections, NEW i \in Stores,
         NEW op \in {"create", "update", "delete"}, NEW pc \in Stages[op], NEW opposite,
         Begins(a, pc, op, opposite, c, i)
  PROVE  /\ requesting' \in [Integrators -> Requests]
         /\ requesting'[a].pc = pc /\ requesting'[a].op = op /\ requesting'[a].on = c /\ requesting'[a].read = {}
         /\ requesting'[a].alone => Others(a, opposite, c) = {}
         /\ \A b \in Integrators : b # a =>
              /\ requesting'[b].pc = requesting[b].pc /\ requesting'[b].op = requesting[b].op
              /\ requesting'[b].on = requesting[b].on /\ requesting'[b].read = requesting[b].read
              /\ requesting'[b].alone => requesting[b].alone /\ b \notin Others(a, opposite, c)
         /\ disturbed' = IF Others(a, opposite, c) = {} THEN disturbed ELSE disturbed \cup {c}
<1> DEFINE others == Others(a, opposite, c)
           first == [pc |-> pc, op |-> op, on |-> c, at |-> i, read |-> {}, alone |-> others = {}]
           seen(b) == [requesting[b] EXCEPT !.alone = FALSE]
<1>1. \A b \in Integrators : requesting[b] \in Requests /\ seen(b) \in Requests
  BY ZenonT(30) DEF Typed, Requests
<1>2. pc \in {"setMetadata", "setConfig", "deleteConfig", "deleteMetadata", "readIndex", "writeIndex"}
  BY DEF Stages
<1>3. first \in Requests
  <2>1. (others = {}) \in BOOLEAN
    OBVIOUS
  <2> HIDE DEF others
  <2> QED
    BY <1>2, <2>1 DEF Requests
<1>4. requesting' = [b \in Integrators |-> IF b = a THEN first ELSE IF b \in others THEN seen(b) ELSE requesting[b]]
  BY DEF Begins
<1>5. disturbed' = IF others = {} THEN disturbed ELSE disturbed \cup {c}
  BY DEF Begins
<1>6. requesting' \in [Integrators -> Requests] /\ requesting'[a] = first
  <2> HIDE DEF first, seen, others
  <2> QED
    BY <1>1, <1>3, <1>4
<1>7. ASSUME NEW b \in Integrators, b # a
      PROVE  /\ requesting'[b].pc = requesting[b].pc /\ requesting'[b].op = requesting[b].op
             /\ requesting'[b].on = requesting[b].on /\ requesting'[b].read = requesting[b].read
             /\ requesting'[b].alone => requesting[b].alone /\ b \notin others
  <2>1. requesting'[b] = IF b \in others THEN seen(b) ELSE requesting[b]
    <3> HIDE DEF first, seen, others
    <3> QED
      BY <1>4, <1>7
  <2> HIDE DEF others
  <2> QED
    BY <1>1, <2>1 DEF Requests
<1>8. /\ first.pc = pc /\ first.op = op /\ first.on = c /\ first.read = {} /\ (first.alone <=> others = {})
  OBVIOUS
<1> HIDE DEF first, seen
<1> QED
  BY <1>5, <1>6, <1>7, <1>8

\* What a store keeps of the index.
LEMMA CachedType ==
  ASSUME Typed, NEW i \in Stores, NEW c \in listed, Cached(i, c)
  PROVE  providerCache' \in [Stores -> SUBSET listed]
BY DEF Cached, Typed

\* An administrator who is idle is about nothing.
LEMMA IdleIs == ASSUME Typed, NEW a \in Integrators, Doing(a, "idle") PROVE requesting[a].op = "none" /\ requesting[a].pc = "idle"
BY DEF Typed, Stages, Doing, Requests

\* A creation begins with an identifier of which nothing is stored.
LEMMA CreateKeeps ==
  ASSUME ConnectionsInv, NEW a \in Integrators, NEW i \in Stores, NEW c \in Connections, Create(a, i, c)
  PROVE  ConnectionsInv'
<1>1. /\ c \notin listed /\ c \notin metadata /\ Others(a, "create", c) = {}
      /\ Doing(a, "idle") /\ Begins(a, "setMetadata", "create", "none", c, i)
      /\ UNCHANGED <<metadata, configs, index, providerCache, listed>>
  BY DEF Create, entries
<1>2. Typed /\ CreatedAlone /\ ChangedListed /\ Unlisted /\ AloneGone /\ Undisturbed
  BY DEF ConnectionsInv
<1>3. requesting[a].op = "none" /\ requesting[a].pc = "idle"
  BY <1>1, <1>2, IdleIs
<1>4. "setMetadata" \in Stages["create"]
  BY DEF Stages
<1>5. /\ requesting' \in [Integrators -> Requests]
      /\ requesting'[a].pc = "setMetadata" /\ requesting'[a].op = "create"
      /\ requesting'[a].on = c /\ requesting'[a].read = {}
      /\ \A b \in Integrators : b # a =>
           /\ requesting'[b].pc = requesting[b].pc /\ requesting'[b].op = requesting[b].op
           /\ requesting'[b].on = requesting[b].on /\ requesting'[b].read = requesting[b].read
           /\ requesting'[b].alone => requesting[b].alone
      /\ disturbed' \in {disturbed, disturbed \cup {c}}
  BY <1>1, <1>2, <1>3, <1>4, BeginsEffect
<1>6. \A b \in Integrators : b # a => ~Is(b, "create", c)
  BY <1>1 DEF Others, Is
<1>7. Typed'
  BY <1>1, <1>2, <1>4, <1>5 DEF Typed
<1>8. CreatedAlone'
  BY <1>1, <1>2, <1>3, <1>5, <1>6 DEF CreatedAlone, Unlisted, Is
<1>9. ChangedListed'
  BY <1>1, <1>2, <1>5 DEF ChangedListed
<1>10. Unlisted'
  BY <1>1, <1>2, <1>3, <1>5 DEF Unlisted, Is
<1>11. AloneGone'
  BY <1>1, <1>2, <1>5 DEF AloneGone, NoUpdate, Gone, Is
<1>12. Undisturbed'
  BY <1>1, <1>2, <1>3, <1>5 DEF Undisturbed, NoUpdate, Gone, Is
<1> QED
  BY <1>7, <1>8, <1>9, <1>10, <1>11, <1>12 DEF ConnectionsInv

\* Only a store's cache changes.
LEMMA CacheKeeps ==
  ASSUME ConnectionsInv, providerCache' \in [Stores -> SUBSET listed],
         UNCHANGED <<metadata, configs, index, listed, requesting, disturbed>>
  PROVE  ConnectionsInv'
BY DEF ConnectionsInv, Typed, CreatedAlone, ChangedListed, Unlisted, AloneGone, Undisturbed, NoUpdate, Gone, Is

\* An update begins only for a connection the store finds.
LEMMA UpdateKeeps ==
  ASSUME ConnectionsInv, NEW a \in Integrators, NEW i \in Stores, NEW c \in Connections, Update(a, i, c)
  PROVE  ConnectionsInv'
<1>1. Doing(a, "idle") /\ c \in listed /\ Cached(i, c) /\ UNCHANGED <<metadata, configs, index, listed>>
  BY DEF Update, entries
<1>2. Typed /\ CreatedAlone /\ ChangedListed /\ Unlisted /\ AloneGone /\ Undisturbed
  BY DEF ConnectionsInv
<1>3. requesting[a].op = "none" /\ requesting[a].pc = "idle"
  BY <1>1, <1>2, IdleIs
<1>4. providerCache' \in [Stores -> SUBSET listed]
  BY <1>1, <1>2, CachedType
<1>5. CASE UNCHANGED <<requesting, disturbed>>
  BY <1>1, <1>4, <1>5, CacheKeeps
<1>6. CASE c \in metadata \cap configs /\ Begins(a, "setMetadata", "update", "delete", c, i)
  <2>1. "setMetadata" \in Stages["update"]
    BY DEF Stages
  <2>2. /\ requesting' \in [Integrators -> Requests]
        /\ requesting'[a].pc = "setMetadata" /\ requesting'[a].op = "update"
        /\ requesting'[a].on = c /\ requesting'[a].read = {}
        /\ \A b \in Integrators : b # a =>
             /\ requesting'[b].pc = requesting[b].pc /\ requesting'[b].op = requesting[b].op
             /\ requesting'[b].on = requesting[b].on /\ requesting'[b].read = requesting[b].read
             /\ requesting'[b].alone => requesting[b].alone /\ b \notin Others(a, "delete", c)
        /\ disturbed' = IF Others(a, "delete", c) = {} THEN disturbed ELSE disturbed \cup {c}
    BY <1>2, <1>3, <1>6, <2>1, BeginsEffect
  <2>3. \A b \in Integrators : b # a => (b \in Others(a, "delete", c) <=> Is(b, "delete", c))
    BY DEF Others, Is
  <2>4. Typed'
    BY <1>1, <1>2, <1>4, <2>1, <2>2 DEF Typed
  <2>5. CreatedAlone'
    BY <1>1, <1>2, <2>2 DEF CreatedAlone, Is
  <2>6. ChangedListed'
    BY <1>1, <1>2, <2>2 DEF ChangedListed
  <2>7. Unlisted'
    BY <1>1, <1>2, <1>3, <2>2 DEF Unlisted, Is
  <2>8. AloneGone'
    BY <1>1, <1>2, <2>2, <2>3 DEF AloneGone, NoUpdate, Gone, Is
  <2>9. Undisturbed'
    BY <1>1, <1>2, <1>3, <1>6, <2>2, <2>3 DEF Undisturbed, NoUpdate, Gone, Is
  <2> QED
    BY <2>4, <2>5, <2>6, <2>7, <2>8, <2>9 DEF ConnectionsInv
<1> QED
  BY <1>5, <1>6 DEF Update

\* A deletion begins only for a connection the store finds.
LEMMA DeleteKeeps ==
  ASSUME ConnectionsInv, NEW a \in Integrators, NEW i \in Stores, NEW c \in Connections, Delete(a, i, c)
  PROVE  ConnectionsInv'
<1>1. /\ Doing(a, "idle") /\ c \in listed /\ Cached(i, c) /\ UNCHANGED <<metadata, configs, index, listed>>
      /\ Begins(a, "deleteConfig", "delete", "update", c, i)
  BY DEF Delete, entries
<1>2. Typed /\ CreatedAlone /\ ChangedListed /\ Unlisted /\ AloneGone /\ Undisturbed
  BY DEF ConnectionsInv
<1>3. requesting[a].op = "none" /\ requesting[a].pc = "idle"
  BY <1>1, <1>2, IdleIs
<1>4. providerCache' \in [Stores -> SUBSET listed]
  BY <1>1, <1>2, CachedType
<1>5. "deleteConfig" \in Stages["delete"]
  BY DEF Stages
<1>6. /\ requesting' \in [Integrators -> Requests]
      /\ requesting'[a].pc = "deleteConfig" /\ requesting'[a].op = "delete"
      /\ requesting'[a].on = c /\ requesting'[a].read = {}
      /\ requesting'[a].alone => Others(a, "update", c) = {}
      /\ \A b \in Integrators : b # a =>
           /\ requesting'[b].pc = requesting[b].pc /\ requesting'[b].op = requesting[b].op
           /\ requesting'[b].on = requesting[b].on /\ requesting'[b].read = requesting[b].read
           /\ requesting'[b].alone => requesting[b].alone
      /\ disturbed' = IF Others(a, "update", c) = {} THEN disturbed ELSE disturbed \cup {c}
  BY <1>1, <1>2, <1>3, <1>5, BeginsEffect
<1>7. \A b \in Integrators : b # a => (b \in Others(a, "update", c) <=> Is(b, "update", c))
  BY DEF Others, Is
<1>8. Typed'
  BY <1>1, <1>2, <1>4, <1>5, <1>6 DEF Typed
<1>9. CreatedAlone'
  BY <1>1, <1>2, <1>6 DEF CreatedAlone, Is
<1>10. ChangedListed'
  BY <1>1, <1>2, <1>6 DEF ChangedListed
<1>11. Unlisted'
  BY <1>1, <1>2, <1>3, <1>6 DEF Unlisted, Is
<1>12. AloneGone'
  BY <1>1, <1>2, <1>3, <1>6, <1>7 DEF AloneGone, NoUpdate, Gone, Is
<1>13. Undisturbed'
  BY <1>1, <1>2, <1>3, <1>6, <1>7 DEF Undisturbed, NoUpdate, Gone, Is
<1> QED
  BY <1>8, <1>9, <1>10, <1>11, <1>12, <1>13 DEF ConnectionsInv

-----------------------------------------------------------------------------
(* The theorem *)

\* Before the first request there is no connection.
LEMMA ConnectionsInitially == ConnectionsInit => ConnectionsInv
<1> SUFFICES ASSUME ConnectionsInit
             PROVE  ConnectionsInv
  OBVIOUS
<1>1. NoRequest \in Requests /\ NoRequest.op = "none" /\ NoRequest.pc = "idle" /\ NoRequest.read = {}
  BY DEF NoRequest, Requests
<1>2. requesting \in [Integrators -> Requests] /\ \A a \in Integrators : requesting[a] = NoRequest
  BY <1>1 DEF ConnectionsInit
<1>3. /\ metadata = {} /\ configs = {} /\ index = {} /\ listed = {} /\ disturbed = {}
      /\ providerCache = [i \in Stores |-> {}]
  BY DEF ConnectionsInit
<1>4. Typed
  BY <1>1, <1>2, <1>3 DEF Typed, Stages
<1> QED
  BY <1>1, <1>2, <1>3, <1>4
     DEF ConnectionsInv, CreatedAlone, ChangedListed, Unlisted, AloneGone, Undisturbed, Is

\* Every step of every administrator leaves the invariant true.
LEMMA ConnectionsStep == ConnectionsInv /\ [ConnectionsNext]_connectionVars => ConnectionsInv'
<1> SUFFICES ASSUME ConnectionsInv, [ConnectionsNext]_connectionVars
             PROVE  ConnectionsInv'
  OBVIOUS
<1>1. ASSUME NEW a \in Integrators, RequestStep(a)
      PROVE  ConnectionsInv'
  BY <1>1, SetMetadataKeeps, SetConfigKeeps, DeleteConfigKeeps, DeleteMetadataKeeps, ReadIndexKeeps,
     WriteIndexKeeps, RequestFailsKeeps DEF RequestStep
<1>2. ASSUME NEW a \in Integrators, NEW i \in Stores, NEW c \in Connections,
             Create(a, i, c) \/ Update(a, i, c) \/ Delete(a, i, c)
      PROVE  ConnectionsInv'
  BY <1>2, CreateKeeps, UpdateKeeps, DeleteKeeps
<1>3. ASSUME NEW i \in Stores, NEW c \in Connections, Look(i, c)
      PROVE  ConnectionsInv'
  <2>1. Typed
    BY DEF ConnectionsInv
  <2>2. c \in listed /\ Cached(i, c) /\ UNCHANGED <<metadata, configs, index, listed, requesting, disturbed>>
    BY <1>3, <2>1 DEF Look, entries, Typed
  <2> QED
    BY <2>1, <2>2, CachedType, CacheKeeps
<1>4. CASE UNCHANGED connectionVars
  <2>1. /\ UNCHANGED <<metadata, configs, index, listed, requesting, disturbed>>
        /\ UNCHANGED providerCache
    BY <1>4 DEF connectionVars
  <2>2. providerCache' \in [Stores -> SUBSET listed]
    BY <2>1 DEF ConnectionsInv, Typed
  <2> QED
    BY <2>1, <2>2, CacheKeeps
<1> QED
  BY <1>1, <1>2, <1>3, <1>4 DEF ConnectionsNext

\* Once nobody is at work, what failures and overlaps have not touched is whole or gone.
LEMMA WholeAtRest == ConnectionsInv => ConnectionsWhole
<1> SUFFICES ASSUME ConnectionsInv, \A a \in Integrators : Doing(a, "idle"),
                    NEW c \in Connections \ disturbed
             PROVE  c \in index \cap metadata \cap configs \/ c \notin index \cup metadata \cup configs
  BY DEF ConnectionsWhole
<1>1. Typed /\ Unlisted /\ Undisturbed
  BY DEF ConnectionsInv
<1>2. \A a \in Integrators : requesting[a].op = "none"
  BY <1>1, IdleIs
<1>3. CASE c \in listed
  BY <1>1, <1>2, <1>3 DEF Undisturbed, Is
<1>4. CASE c \notin listed
  BY <1>1, <1>2, <1>4 DEF Unlisted, Is, Typed
<1> QED
  BY <1>3, <1>4

\* core/integration-backend/src/connection-store.ts:7: once no request is under way a
\* connection is whole and in the index, or nothing of it is left, unless a failure, an
\* index written over another's change, or an update during a deletion has touched it,
\* however many administrators, stores and connections there are.
THEOREM ConnectionsWholeCorrect == ConnectionsSpec => []ConnectionsWhole
<1>1. ConnectionsInit => ConnectionsInv
  BY ConnectionsInitially
<1>2. ConnectionsInv /\ [ConnectionsNext]_connectionVars => ConnectionsInv'
  BY ConnectionsStep
<1>3. ConnectionsInv => ConnectionsWhole
  BY WholeAtRest
<1> QED
  BY <1>1, <1>2, <1>3, PTL DEF ConnectionsSpec

-----------------------------------------------------------------------------
(* NotificationChannels. For any users, channels, requests and notifications at
   once. What a user has switched off stays off because whatever else may write the
   preference has taken it from silenced when it began; a notification is told of
   that, as of a channel that is switched on, by its history variable quiet. *)

Setting == [enabled : BOOLEAN, linked : BOOLEAN, config : BOOLEAN, stored : BOOLEAN]
Change == [pc : {"idle", "readFirst", "read", "write"},
           op : {"none", "on", "off", "link", "unlink"},
           of : Pairs \cup {<<"none", "none">>}, config : BOOLEAN,
           first : Setting, seen : Setting, alone : BOOLEAN]
Sending == [pc : {"idle", "user", "meta", "preference", "config"},
            user : Users \cup {"none"}, todo : SUBSET Channels, on : Channels \cup {"none"},
            sent : SUBSET Channels, quiet : SUBSET Pairs]

ChannelTypes ==
  /\ accounts \subseteq Users /\ switchedOn \subseteq Channels /\ configured \subseteq Channels
  /\ forgetting \cap accounts = {}
  /\ preference \in [Pairs -> Setting] /\ silenced \subseteq Pairs
  /\ changing \in [Clients -> Change] /\ sending \in [Senders -> Sending]

\* A request under way: alone means alone at its preference, and it leaves off what is.
ChangeKept(c) ==
  changing[c].pc # "idle" =>
    /\ changing[c].of \in Pairs /\ changing[c].op # "none"
    /\ changing[c].op = "unlink" => contactBy[changing[c].of[2]] = "oauth-link"
    /\ changing[c].alone =>
         \A d \in Clients \ {c} : changing[d].pc # "idle" => changing[d].of # changing[c].of
    /\ changing[c].of \in silenced => changing[c].op \in {"off", "unlink"} /\ changing[c].alone

SilencedKept ==
  \A up \in silenced : up[1] \in accounts => ~Reached(up[2], preference[up])

\* A notification under way: what must not be sent is off, from the query of the meta
\* entry on by the preference.
SendingKept(s) ==
  /\ \A up \in sending[s].quiet :
       /\ up[1] = sending[s].user
       /\ up[1] \in accounts => up \in silenced \/ up[2] \notin switchedOn
  /\ sending[s].pc \in {"meta", "preference", "config"} /\ sending[s].quiet # {}
       => sending[s].user \in accounts
  /\ sending[s].pc = "preference" /\ <<sending[s].user, sending[s].on>> \in sending[s].quiet
       => <<sending[s].user, sending[s].on>> \in silenced
  /\ sending[s].pc = "config" => <<sending[s].user, sending[s].on>> \notin sending[s].quiet
  /\ \A ch \in sending[s].sent : <<sending[s].user, ch>> \notin sending[s].quiet

ChannelsInv ==
  /\ ChannelTypes
  /\ \A c \in Clients : ChangeKept(c)
  /\ SilencedKept
  /\ \A s \in Senders : SendingKept(s)

\* Who leaves the table of what must not be sent, or may be sent, for some pairs.
LEMMA SenderStays ==
  ASSUME ChannelsInv, NEW s \in Senders, NEW ups,
         sending'[s] = sending[s] \/ sending'[s] = [sending[s] EXCEPT !.quiet = @ \ ups],
         \A up \in sending'[s].quiet : /\ up \in silenced => up \in silenced'
                                       /\ up[2] \in switchedOn' => up[2] \in switchedOn,
         UNCHANGED accounts
  PROVE  SendingKept(s)'
<1>1. SendingKept(s) /\ sending[s] \in Sending
  BY DEF ChannelsInv, ChannelTypes
<1>2. /\ sending'[s].pc = sending[s].pc /\ sending'[s].user = sending[s].user
      /\ sending'[s].on = sending[s].on /\ sending'[s].sent = sending[s].sent
      /\ sending'[s].quiet \subseteq sending[s].quiet
  BY <1>1 DEF Sending
<1> QED
  BY <1>1, <1>2 DEF SendingKept

\* From now on some pairs may be heard of.
LEMMA HeardTypes ==
  ASSUME ChannelTypes, NEW ups, sending' = [s \in Senders |-> [sending[s] EXCEPT !.quiet = @ \ ups]]
  PROVE  sending' \in [Senders -> Sending]
<1>1. \A s \in Senders : [sending[s] EXCEPT !.quiet = @ \ ups] \in Sending
  BY DEF ChannelTypes, Sending
<1> QED
  BY <1>1

\* What a request that has ended or goes on does to the others: nothing.
LEMMA ChangesStay ==
  ASSUME ChannelsInv, NEW c \in Clients, NEW x \in Change,
         changing' = [changing EXCEPT ![c] = x],
         x.pc = "idle" \/ (/\ changing[c].pc # "idle" /\ x.of = changing[c].of
                           /\ x.op = changing[c].op /\ x.alone = changing[c].alone),
         \A up \in silenced' \ silenced :
           \A d \in Clients \ {c} : changing[d].pc # "idle" => changing[d].of # up,
         x.pc # "idle" => silenced' = silenced,
         UNCHANGED contactBy
  PROVE  changing' \in [Clients -> Change] /\ \A d \in Clients : ChangeKept(d)'
<1>1. changing \in [Clients -> Change]
  BY DEF ChannelsInv, ChannelTypes
<1>2. /\ changing' \in [Clients -> Change] /\ changing'[c] = x
      /\ \A d \in Clients \ {c} : changing'[d] = changing[d]
  BY <1>1
<1>3. ASSUME NEW d \in Clients PROVE ChangeKept(d)'
  <2>1. CASE d = c
    <3>1. ASSUME x.pc # "idle"
          PROVE  /\ x.of \in Pairs /\ x.op # "none"
                 /\ x.op = "unlink" => contactBy[x.of[2]] = "oauth-link"
                 /\ x.alone => \A b \in Clients \ {c} : changing[b].pc # "idle" => changing[b].of # x.of
                 /\ x.of \in silenced => x.op \in {"off", "unlink"} /\ x.alone
      <4>1. ChangeKept(c) /\ changing[c].pc # "idle"
        BY <3>1 DEF ChannelsInv
      <4> QED
        BY <3>1, <4>1 DEF ChangeKept
    <3> QED
      BY <1>2, <2>1, <3>1 DEF ChangeKept
  <2>2. CASE d # c
    <3>1. ChangeKept(d) /\ changing'[d] = changing[d]
      BY <1>2, <2>2 DEF ChannelsInv
    <3>2. ASSUME changing[d].pc # "idle", changing[d].alone,
                 NEW b \in Clients \ {d}, changing'[b].pc # "idle"
          PROVE  changing'[b].of # changing[d].of
      <4>1. changing[b].pc # "idle" /\ changing'[b].of = changing[b].of
        BY <1>2, <3>2
      <4> QED
        BY <4>1, <3>1, <3>2 DEF ChangeKept
    <3>3. changing[d].pc # "idle" /\ changing[d].of \in silenced' => changing[d].of \in silenced
      BY <2>2
    <3> QED
      BY <3>1, <3>2, <3>3 DEF ChangeKept
  <2> QED
    BY <2>1, <2>2
<1> QED
  BY <1>2, <1>3

LEMMA NotChangingIs == NotChanging \in Change /\ NotChanging.pc = "idle"
  BY DEF NotChanging, Change, Setting, NoPreference

\* A request begins: it is alone at its preference, or both may be heard of.
LEMMA BeginKeeps ==
  ASSUME ChannelsInv, NEW c \in Clients, NEW up \in Pairs, NEW op \in {"on", "off", "link", "unlink"},
         NEW config \in BOOLEAN, op = "unlink" => contactBy[up[2]] = "oauth-link",
         ChangePreference(c, up, op, config)
  PROVE  ChannelsInv'
<1> DEFINE others == Overlapping(c, up)
           alone == others = {}
           x == [NotChanging EXCEPT !.pc = IF op = "unlink" THEN "readFirst" ELSE "read",
                   !.op = op, !.of = up, !.config = config, !.alone = alone]
<1>0. ChannelTypes
  BY DEF ChannelsInv
<1>1. /\ changing' = [d \in Clients |->
           IF d = c THEN x ELSE IF d \in others THEN [changing[d] EXCEPT !.alone = FALSE] ELSE changing[d]]
      /\ UNCHANGED <<contactBy, accounts, switchedOn, configured, preference, forgetting>>
  BY DEF ChangePreference
<1>3. /\ silenced' \subseteq silenced
      /\ op \in {"on", "link"} \/ others # {} => up \notin silenced'
      /\ \A s \in Senders : sending'[s] = sending[s] \/ sending'[s] = [sending[s] EXCEPT !.quiet = @ \ {up}]
      /\ \A s \in Senders : \A q \in sending'[s].quiet : q \in silenced => q \in silenced'
      /\ sending' \in [Senders -> Sending]
  <2>1. CASE op \in {"on", "link"} \/ others # {}
    <3>1. silenced' = silenced \ {up}
          /\ sending' = [s \in Senders |-> [sending[s] EXCEPT !.quiet = @ \ {up}]]
      BY <2>1 DEF ChangePreference, MayBeHeard
    <3>2. \A s \in Senders : up \notin sending'[s].quiet
      <4>1. \A s \in Senders : sending[s] \in Sending
        BY <1>0 DEF ChannelTypes
      <4> QED
        BY <3>1, <4>1 DEF Sending
    <3>3. sending' \in [Senders -> Sending]
      BY <1>0, <3>1, HeardTypes
    <3> QED
      BY <3>1, <3>2, <3>3
  <2>2. CASE ~(op \in {"on", "link"} \/ others # {})
    <3>1. UNCHANGED <<silenced, sending>>
      BY <2>2 DEF ChangePreference
    <3> QED
      BY <2>2, <3>1, <1>0 DEF ChannelTypes
  <2> QED
    BY <2>1, <2>2
<1>4. /\ x \in Change /\ x.pc # "idle" /\ x.op = op /\ x.of = up /\ x.alone = alone
  <2>1. alone \in BOOLEAN
    OBVIOUS
  <2> HIDE DEF alone
  <2> QED
    BY <2>1, NotChangingIs DEF Change
<1> HIDE DEF x
<1>5. changing' \in [Clients -> Change]
  <2>1. ASSUME NEW d \in Clients PROVE changing'[d] \in Change
    <3>1. changing[d] \in Change /\ [changing[d] EXCEPT !.alone = FALSE] \in Change
      <4>1. changing[d] \in Change
        BY <1>0 DEF ChannelTypes
      <4> QED
        BY <4>1 DEF Change
    <3> HIDE DEF Change
    <3> QED
      BY <1>1, <1>4, <3>1
  <2> QED
    BY <1>1, <2>1
<1>6. ASSUME NEW d \in Clients PROVE ChangeKept(d)'
  <2>1. CASE d = c
    <3>1. changing'[d] = x
      BY <1>1, <2>1
    <3>2. alone => \A b \in Clients \ {c} : changing'[b].of # up
      BY <1>1 DEF Overlapping
    <3>3. up \in silenced' => op \in {"off", "unlink"} /\ alone
      BY <1>3
    <3> HIDE DEF alone
    <3> QED
      BY <1>1, <1>4, <2>1, <3>1, <3>2, <3>3 DEF ChangeKept
  <2>2. CASE d # c /\ d \in others
    <3>1. /\ changing'[d].pc = changing[d].pc /\ changing'[d].of = up /\ changing[d].of = up
          /\ changing'[d].op = changing[d].op /\ changing'[d].alone = FALSE
      BY <1>0, <1>1, <2>2 DEF Overlapping, ChannelTypes, Change
    <3>2. ChangeKept(d) /\ up \notin silenced'
      BY <1>3, <2>2 DEF ChannelsInv
    <3> QED
      BY <3>1, <3>2, <1>1 DEF ChangeKept
  <2>3. CASE d # c /\ d \notin others
    <3>1. changing'[d] = changing[d] /\ ChangeKept(d) /\ changing[d].of # up
      BY <1>1, <2>3 DEF ChannelsInv, Overlapping
    <3>2. ASSUME NEW b \in Clients \ {d}, changing[d].pc # "idle", changing[d].alone,
                 changing'[b].pc # "idle"
          PROVE  changing'[b].of # changing[d].of
      <4>1. CASE b = c
        BY <1>1, <1>4, <3>1, <4>1
      <4>2. CASE b # c
        <5>1. changing'[b].pc = changing[b].pc /\ changing'[b].of = changing[b].of
          BY <1>0, <1>1, <4>2 DEF ChannelTypes, Change
        <5> QED
          BY <3>1, <3>2, <5>1 DEF ChangeKept
      <4> QED
        BY <4>1, <4>2
    <3>3. contactBy' = contactBy /\ (changing[d].of \in silenced' => changing[d].of \in silenced)
      BY <1>1, <1>3, <3>1
    <3> HIDE DEF others, alone
    <3> QED
      BY <3>1, <3>2, <3>3 DEF ChangeKept
  <2> QED
    BY <2>1, <2>2, <2>3
<1> HIDE DEF others, alone
<1>7. ChannelTypes'
  BY <1>0, <1>1, <1>3, <1>5 DEF ChannelTypes
<1>8. SilencedKept'
  BY <1>1, <1>3 DEF ChannelsInv, SilencedKept, Reached
<1>9. \A s \in Senders : SendingKept(s)'
  BY <1>1, <1>3, SenderStays
<1> QED
  BY <1>6, <1>7, <1>8, <1>9 DEF ChannelsInv

LEMMA ChangeActionsKeep ==
  ASSUME ChannelsInv, NEW c \in Clients, ReadFirst(c) \/ ReadPreference(c) \/ ChangeFails(c)
  PROVE  ChannelsInv'
<1>0. ChannelTypes /\ changing[c] \in Change /\ changing \in [Clients -> Change]
  BY DEF ChannelsInv, ChannelTypes
<1>1. UNCHANGED <<contactBy, accounts, switchedOn, configured, preference, sending, forgetting, silenced>>
  BY DEF ReadFirst, ReadPreference, ChangeFails
<1>2. \E x \in Change :
        /\ changing' = [changing EXCEPT ![c] = x]
        /\ x.pc = "idle" \/ (/\ changing[c].pc # "idle" /\ x.of = changing[c].of
                             /\ x.op = changing[c].op /\ x.alone = changing[c].alone)
  <2>1. CASE changing' = [changing EXCEPT ![c] = NotChanging]
    BY <2>1, NotChangingIs
  <2>2. CASE ReadFirst(c) /\ preference[changing[c].of].stored
    <3> DEFINE x == [changing[c] EXCEPT !.pc = "read", !.first = preference[changing[c].of]]
    <3>1. changing' = [changing EXCEPT ![c] = x] /\ changing[c].pc # "idle"
      BY <1>0, <2>2 DEF ReadFirst
    <3>2. preference[changing[c].of] \in Setting
      BY <1>0, <3>1 DEF ChannelTypes, ChannelsInv, ChangeKept
    <3>3. x \in Change /\ x.of = changing[c].of /\ x.op = changing[c].op /\ x.alone = changing[c].alone
      BY <1>0, <3>2 DEF Change
    <3> HIDE DEF x
    <3> QED
      BY <3>1, <3>3
  <2>3. CASE ReadPreference(c)
    <3> DEFINE x == [changing[c] EXCEPT !.pc = "write", !.seen = preference[changing[c].of]]
    <3>1. changing' = [changing EXCEPT ![c] = x] /\ changing[c].pc # "idle"
      BY <1>0, <2>3 DEF ReadPreference
    <3>2. preference[changing[c].of] \in Setting
      BY <1>0, <3>1 DEF ChannelTypes, ChannelsInv, ChangeKept
    <3>3. x \in Change /\ x.of = changing[c].of /\ x.op = changing[c].op /\ x.alone = changing[c].alone
      BY <1>0, <3>2 DEF Change
    <3> HIDE DEF x
    <3> QED
      BY <3>1, <3>3
  <2> QED
    BY <2>1, <2>2, <2>3 DEF ReadFirst, ChangeFails
<1>3. changing' \in [Clients -> Change] /\ \A d \in Clients : ChangeKept(d)'
  <2>1. silenced' \ silenced = {}
    BY <1>1
  <2> QED
    BY <1>1, <1>2, <2>1, ChangesStay
<1>4. ChannelTypes'
  BY <1>0, <1>1, <1>3 DEF ChannelTypes
<1>5. SilencedKept'
  BY <1>1 DEF ChannelsInv, SilencedKept, Reached
<1>6. \A s \in Senders : SendingKept(s)'
  BY <1>1, SenderStays
<1> QED
  BY <1>3, <1>4, <1>5, <1>6 DEF ChannelsInv

\* What is written to a preference that is to stay silent leaves it so.
LEMMA WriteKeeps ==
  ASSUME ChannelsInv, NEW c \in Clients, WritePreference(c)
  PROVE  ChannelsInv'
<1> DEFINE w == changing[c]
<1>0. ChannelTypes /\ w \in Change /\ changing \in [Clients -> Change] /\ ChangeKept(c)
  BY DEF ChannelsInv, ChannelTypes
<1>1. /\ w.pc = "write" /\ preference' = [preference EXCEPT ![w.of] = Merged(w)]
      /\ silenced' = IF w.alone /\ w.op \in {"off", "unlink"} THEN silenced \cup {w.of} ELSE silenced
      /\ changing' = [changing EXCEPT ![c] = NotChanging]
      /\ UNCHANGED <<contactBy, accounts, switchedOn, configured, sending, forgetting>>
  BY DEF WritePreference
<1>2. /\ w.of \in Pairs /\ w.op # "none"
      /\ w.op = "unlink" => contactBy[w.of[2]] = "oauth-link"
      /\ w.alone => \A d \in Clients \ {c} : changing[d].pc # "idle" => changing[d].of # w.of
      /\ w.of \in silenced => w.op \in {"off", "unlink"} /\ w.alone
  BY <1>0, <1>1 DEF ChangeKept
<1>3. Merged(w) \in Setting /\ (w.op = "off" => ~Merged(w).enabled)
      /\ (w.op = "unlink" => ~Merged(w).linked)
  <2>1. w.seen \in Setting /\ w.first \in Setting /\ w.config \in BOOLEAN
        /\ w.op \in {"on", "off", "link", "unlink"}
    BY <1>0, <1>2 DEF Change
  <2>2. CASE w.op = "on"
    BY <2>1, <2>2 DEF Merged, Setting
  <2>3. CASE w.op = "off"
    BY <2>1, <2>3 DEF Merged, Setting
  <2>4. CASE w.op = "link"
    BY <2>1, <2>4 DEF Merged, Setting
  <2>5. CASE w.op = "unlink"
    <3>1. (w.first.config \/ w.seen.config) \in BOOLEAN
      OBVIOUS
    <3>2. Merged(w) = [w.first EXCEPT !.linked = FALSE, !.config = (w.first.config \/ w.seen.config)]
      BY <2>1, <2>5 DEF Merged, Setting
    <3> QED
      BY <2>1, <2>5, <3>1, <3>2 DEF Setting
  <2> QED
    BY <2>1, <2>2, <2>3, <2>4, <2>5
<1>4. w.of \in silenced' => ~Reached(w.of[2], Merged(w))
  BY <1>1, <1>2, <1>3 DEF Reached
<1>5. /\ preference' \in [Pairs -> Setting] /\ preference'[w.of] = Merged(w)
      /\ \A up \in Pairs : up # w.of => preference'[up] = preference[up]
  BY <1>0, <1>1, <1>2, <1>3 DEF ChannelTypes
<1> HIDE DEF w
<1>6. SilencedKept'
  <2> SUFFICES ASSUME NEW up \in silenced', up[1] \in accounts
               PROVE  ~Reached(up[2], preference[up])'
    BY <1>1 DEF SilencedKept
  <2>1. CASE up = w.of
    BY <1>1, <1>4, <1>5, <2>1 DEF Reached
  <2>2. CASE up # w.of
    <3>1. up \in silenced /\ up \in Pairs
      BY <1>0, <1>1, <2>2 DEF ChannelTypes
    <3>2. ~Reached(up[2], preference[up])
      BY <3>1 DEF ChannelsInv, SilencedKept
    <3> QED
      BY <1>1, <1>5, <2>2, <3>1, <3>2 DEF Reached
  <2> QED
    BY <2>1, <2>2
<1>7. changing' \in [Clients -> Change] /\ \A d \in Clients : ChangeKept(d)'
  <2>1. \A up \in silenced' \ silenced :
           \A d \in Clients \ {c} : changing[d].pc # "idle" => changing[d].of # up
    BY <1>1, <1>2
  <2>2. UNCHANGED contactBy
    BY <1>1
  <2> QED
    BY <1>1, <2>1, <2>2, NotChangingIs, ChangesStay
<1>8. ChannelTypes'
  BY <1>0, <1>1, <1>2, <1>5, <1>7 DEF ChannelTypes
<1>9. \A s \in Senders : SendingKept(s)'
  BY <1>1, SenderStays
<1> QED
  BY <1>6, <1>7, <1>8, <1>9 DEF ChannelsInv

LEMMA AdministrationKeeps ==
  ASSUME ChannelsInv,
         \/ \E ch \in Channels : ConfigureChannel(ch) \/ \E on \in BOOLEAN : SwitchChannel(ch, on)
         \/ \E u \in Users : ForgetUser(u) \/ \E ch \in Channels : ForgetPreference(u, ch)
  PROVE  ChannelsInv'
<1>0. ChannelTypes
  BY DEF ChannelsInv
<1>1. UNCHANGED <<contactBy, accounts, changing, silenced>>
  BY DEF ConfigureChannel, SwitchChannel, ForgetUser, ForgetPreference
<1>2. ASSUME ChannelTypes', SilencedKept', \A s \in Senders : SendingKept(s)'
      PROVE  ChannelsInv'
  <2>1. \A c \in Clients : ChangeKept(c)'
    BY <1>1 DEF ChannelsInv, ChangeKept
  <2> QED
    BY <1>2, <2>1 DEF ChannelsInv
<1>3. ASSUME preference' = preference PROVE SilencedKept'
  BY <1>1, <1>3 DEF ChannelsInv, SilencedKept, Reached
<1>4. ASSUME UNCHANGED <<sending, switchedOn>> PROVE \A s \in Senders : SendingKept(s)'
  BY <1>1, <1>4, SenderStays
<1>5. ASSUME NEW ch \in Channels, ConfigureChannel(ch) PROVE ChannelsInv'
  <2>1. UNCHANGED <<preference, sending, switchedOn, forgetting>> /\ configured' = configured \cup {ch}
    BY <1>5 DEF ConfigureChannel
  <2>2. ChannelTypes'
    BY <1>0, <1>1, <2>1 DEF ChannelTypes
  <2> QED
    BY <1>2, <1>3, <1>4, <2>1, <2>2
<1>6. ASSUME NEW ch \in Channels, NEW on \in BOOLEAN, SwitchChannel(ch, on) PROVE ChannelsInv'
  <2>1. /\ UNCHANGED <<preference, forgetting, configured>>
        /\ switchedOn' = IF on THEN switchedOn \cup {ch} ELSE switchedOn \ {ch}
    BY <1>6 DEF SwitchChannel
  <2>2. CASE on
    <3>1. sending' = [s \in Senders |-> [sending[s] EXCEPT !.quiet = @ \ (Users \X {ch})]]
      BY <1>6, <2>2 DEF SwitchChannel
    <3>2. sending' \in [Senders -> Sending]
      BY <1>0, <3>1, HeardTypes
    <3>3. ChannelTypes'
      BY <1>0, <1>1, <2>1, <3>2 DEF ChannelTypes
    <3>4. ASSUME NEW s \in Senders PROVE SendingKept(s)'
      <4>1. sending'[s] = [sending[s] EXCEPT !.quiet = @ \ (Users \X {ch})] /\ sending[s] \in Sending
        BY <1>0, <3>1 DEF ChannelTypes
      <4>2. sending[s].quiet \subseteq Pairs /\ sending'[s].quiet = sending[s].quiet \ (Users \X {ch})
        BY <4>1 DEF Sending
      <4>3. \A up \in sending'[s].quiet : up[2] # ch
        BY <4>2 DEF Pairs
      <4> QED
        BY <1>1, <2>1, <4>1, <4>3, SenderStays
    <3> QED
      BY <1>2, <1>3, <2>1, <3>3, <3>4
  <2>3. CASE ~on
    <3>1. sending' = sending
      BY <1>6, <2>3 DEF SwitchChannel
    <3>2. ChannelTypes'
      BY <1>0, <1>1, <2>1, <3>1 DEF ChannelTypes
    <3>3. \A s \in Senders : SendingKept(s)'
      BY <1>1, <2>1, <2>3, <3>1, SenderStays
    <3> QED
      BY <1>2, <1>3, <2>1, <3>2, <3>3
  <2> QED
    BY <2>2, <2>3
<1>7. ASSUME NEW u \in Users, ForgetUser(u) PROVE ChannelsInv'
  <2>1. UNCHANGED <<preference, sending, switchedOn, configured>> /\ forgetting' \subseteq forgetting
    BY <1>7 DEF ForgetUser
  <2>2. ChannelTypes'
    BY <1>0, <1>1, <2>1 DEF ChannelTypes
  <2> QED
    BY <1>2, <1>3, <1>4, <2>1, <2>2
<1>8. ASSUME NEW u \in Users, NEW ch \in Channels, ForgetPreference(u, ch) PROVE ChannelsInv'
  <2>1. /\ UNCHANGED <<sending, switchedOn, configured, forgetting>> /\ u \notin accounts
        /\ preference' = [preference EXCEPT ![<<u, ch>>] = NoPreference]
    BY <1>0, <1>8 DEF ForgetPreference, ChannelTypes
  <2>2. /\ preference' \in [Pairs -> Setting]
        /\ \A up \in Pairs : up[1] \in accounts => preference'[up] = preference[up]
    <3>1. NoPreference \in Setting /\ <<u, ch>> \in Pairs
      BY DEF NoPreference, Setting, Pairs
    <3>2. preference' \in [Pairs -> Setting]
      BY <1>0, <2>1, <3>1 DEF ChannelTypes
    <3>3. \A up \in Pairs : up # <<u, ch>> => preference'[up] = preference[up]
      BY <1>0, <2>1 DEF ChannelTypes
    <3>4. \A up \in Pairs : up[1] \in accounts => up # <<u, ch>>
      BY <2>1
    <3> QED
      BY <3>2, <3>3, <3>4
  <2>3. ChannelTypes'
    BY <1>0, <1>1, <2>1, <2>2 DEF ChannelTypes
  <2>4. SilencedKept'
    <3>1. silenced \subseteq Pairs
      BY <1>0 DEF ChannelTypes
    <3> QED
      BY <1>1, <2>2, <3>1 DEF ChannelsInv, SilencedKept, Reached
  <2> QED
    BY <1>2, <1>4, <2>1, <2>3, <2>4
<1> QED
  BY <1>5, <1>6, <1>7, <1>8

LEMMA DeletionKeeps ==
  ASSUME ChannelsInv, NEW u \in Users, DeleteUser(u)
  PROVE  ChannelsInv'
<1>0. ChannelTypes
  BY DEF ChannelsInv
<1>1. /\ UNCHANGED <<contactBy, switchedOn, configured, preference, changing, silenced>>
      /\ accounts' = accounts \ {u} /\ forgetting' = forgetting \cup {u}
  BY DEF DeleteUser
<1>2. ASSUME NEW s \in Senders
      PROVE  /\ sending'[s] \in Sending
             /\ sending'[s].pc = sending[s].pc /\ sending'[s].user = sending[s].user
             /\ sending'[s].on = sending[s].on /\ sending'[s].sent = sending[s].sent
             /\ sending'[s].quiet = IF sending[s].user = u /\ sending[s].pc # "user"
                                    THEN {} ELSE sending[s].quiet
  <2>1. sending[s] \in Sending
    BY <1>0 DEF ChannelTypes
  <2>2. sending'[s] = IF sending[s].user = u /\ sending[s].pc # "user"
                      THEN [sending[s] EXCEPT !.quiet = {}] ELSE sending[s]
    BY DEF DeleteUser
  <2> QED
    BY <2>1, <2>2 DEF Sending
<1>3. sending' \in [Senders -> Sending]
  <2>1. sending' = [s \in Senders |-> sending'[s]]
    BY DEF DeleteUser
  <2> QED
    BY <1>2, <2>1
<1>4. ChannelTypes'
  BY <1>0, <1>1, <1>3 DEF ChannelTypes
<1>5. \A c \in Clients : ChangeKept(c)'
  BY <1>1 DEF ChannelsInv, ChangeKept
<1>6. SilencedKept'
  BY <1>1 DEF ChannelsInv, SilencedKept, Reached
<1>7. ASSUME NEW s \in Senders PROVE SendingKept(s)'
  <2>1. SendingKept(s)
    BY DEF ChannelsInv
  <2> QED
    BY <1>1, <1>2, <2>1 DEF SendingKept
<1> QED
  BY <1>4, <1>5, <1>6, <1>7 DEF ChannelsInv

LEMMA NotSendingIs ==
  /\ NotSending \in Sending /\ NotSending.pc = "idle" /\ NotSending.quiet = {} /\ NotSending.sent = {}
  BY DEF NotSending, Sending

\* The statements of a notification: what it must not send on is off when it reads
\* the preference.
LEMMA SendKeeps ==
  ASSUME ChannelsInv, NEW s \in Senders,
         \/ \E u \in Users : Notify(s, u)
         \/ ReadUser(s) \/ ReadMeta(s) \/ CheckPreference(s) \/ Send(s) \/ SkipChannel(s) \/ SendingEnds(s)
  PROVE  ChannelsInv'
<1> DEFINE w == sending[s]
<1>0. ChannelTypes /\ sending \in [Senders -> Sending] /\ w \in Sending /\ SendingKept(s)
  BY DEF ChannelsInv, ChannelTypes
<1>w. /\ w.pc \in {"idle", "user", "meta", "preference", "config"} /\ w.user \in Users \cup {"none"}
      /\ w.on \in Channels \cup {"none"} /\ w.sent \subseteq Channels /\ w.quiet \subseteq Pairs
      /\ w.todo \subseteq Channels
  BY <1>0 DEF Sending
<1>1. UNCHANGED <<contactBy, accounts, switchedOn, configured, preference, changing, forgetting, silenced>>
  BY DEF Notify, ReadUser, ReadMeta, CheckPreference, Send, SkipChannel, SendingEnds, SendUnchanged
<1>2. ASSUME NEW x \in Sending, sending' = [sending EXCEPT ![s] = x], SendingKept(s)'
      PROVE  ChannelsInv'
  <2>1. /\ sending' \in [Senders -> Sending]
        /\ \A r \in Senders \ {s} : sending'[r] = sending[r]
    BY <1>0, <1>2
  <2>2. ChannelTypes'
    BY <1>0, <1>1, <2>1 DEF ChannelTypes
  <2>3. \A c \in Clients : ChangeKept(c)'
    BY <1>1 DEF ChannelsInv, ChangeKept
  <2>4. SilencedKept'
    BY <1>1 DEF ChannelsInv, SilencedKept, Reached
  <2>5. ASSUME NEW r \in Senders PROVE SendingKept(r)'
    <3>1. CASE r = s
      BY <3>1, <1>2
    <3>2. CASE r # s
      BY <1>1, <2>1, <3>2, SenderStays
    <3> QED
      BY <3>1, <3>2
  <2> QED
    BY <2>2, <2>3, <2>4, <2>5 DEF ChannelsInv
<1>3. ASSUME NEW x, sending' = [sending EXCEPT ![s] = x] PROVE sending'[s] = x
  BY <1>0, <1>3
<1>4. ASSUME sending' = [sending EXCEPT ![s] = NotSending] PROVE ChannelsInv'
  <2>1. sending'[s] = NotSending
    BY <1>3, <1>4
  <2>2. SendingKept(s)'
    BY <2>1, NotSendingIs DEF SendingKept
  <2> QED
    BY <1>2, <1>4, <2>2, NotSendingIs
\* It goes on to another statement, perhaps for another channel, or has sent.
<1>5. ASSUME NEW x \in Sending, sending' = [sending EXCEPT ![s] = x],
             x.user = w.user, x.quiet = w.quiet,
             x.pc \in {"meta", "preference", "config"}, w.pc # "idle",
             w.pc = "user" => w.user \in accounts,
             x.pc = "preference" /\ <<w.user, x.on>> \in w.quiet => <<w.user, x.on>> \in silenced,
             x.pc = "config" => <<w.user, x.on>> \notin w.quiet,
             \A ch \in x.sent : <<w.user, ch>> \notin w.quiet
      PROVE  ChannelsInv'
  <2>1. sending'[s] = x
    BY <1>3, <1>5
  <2>2. /\ \A up \in w.quiet : /\ up[1] = w.user
                               /\ up[1] \in accounts => up \in silenced \/ up[2] \notin switchedOn
        /\ w.quiet # {} => w.user \in accounts
    BY <1>0, <1>5, <1>w DEF SendingKept
  <2> HIDE DEF w
  <2>3. SendingKept(s)'
    BY <1>1, <1>5, <2>1, <2>2 DEF SendingKept
  <2> QED
    BY <1>2, <1>5, <2>3
<1>6. \A ch \in w.sent : <<w.user, ch>> \notin w.quiet
  BY <1>0 DEF SendingKept
\* The next channel.
<1>s. ASSUME w.pc # "idle", w.pc # "user",
             sending' = [sending EXCEPT ![s] = [w EXCEPT !.pc = "meta", !.on = "none"]]
      PROVE  ChannelsInv'
  <2> DEFINE x == [w EXCEPT !.pc = "meta", !.on = "none"]
  <2>1. x \in Sending /\ x.pc = "meta" /\ x.user = w.user /\ x.quiet = w.quiet /\ x.sent = w.sent
    BY <1>0 DEF Sending
  <2> HIDE DEF x
  <2> QED
    BY <2>1, <1>s, <1>5, <1>6 DEF x
<1>7. ASSUME NEW u \in Users, Notify(s, u) PROVE ChannelsInv'
  <2> DEFINE off == {up \in Pairs : up[1] = u /\ (up \in silenced \/ up[2] \notin switchedOn)}
             x == [NotSending EXCEPT !.pc = "user", !.user = u, !.quiet = off]
  <2>1. sending' = [sending EXCEPT ![s] = x]
    BY <1>7 DEF Notify
  <2>2. off \subseteq Pairs
    OBVIOUS
  <2>3. \A up \in off : up[1] = u /\ (up \in silenced \/ up[2] \notin switchedOn)
    OBVIOUS
  <2> HIDE DEF off
  <2>4. /\ x \in Sending /\ x.pc = "user" /\ x.user = u /\ x.quiet = off /\ x.sent = {}
    BY <2>2, NotSendingIs DEF Sending
  <2> HIDE DEF x
  <2>5. sending'[s] = x
    BY <1>3, <2>1
  <2>6. SendingKept(s)'
    BY <1>1, <2>3, <2>4, <2>5 DEF SendingKept
  <2> QED
    BY <1>2, <2>1, <2>4, <2>6
<1>8. CASE ReadUser(s)
  <2>1. CASE w.user \notin accounts
    <3>1. sending' = [sending EXCEPT ![s] = NotSending]
      BY <1>8, <2>1 DEF ReadUser
    <3> QED
      BY <3>1, <1>4
  <2>2. CASE w.user \in accounts
    <3> DEFINE x == [w EXCEPT !.pc = "meta", !.todo = Channels]
    <3>1. sending' = [sending EXCEPT ![s] = x] /\ w.pc = "user"
      BY <1>0, <1>8, <2>2 DEF ReadUser
    <3>2. /\ x \in Sending /\ x.pc = "meta" /\ x.user = w.user /\ x.quiet = w.quiet
          /\ x.sent = w.sent
      BY <1>0 DEF Sending
    <3> HIDE DEF x
    <3> QED
      BY <3>1, <3>2, <2>2, <1>5, <1>6
  <2> QED
    BY <2>1, <2>2
<1>9. CASE ReadMeta(s)
  <2>1. w.pc = "meta"
    BY <1>9 DEF ReadMeta
  <2>2. PICK ch \in w.todo : sending' =
         [sending EXCEPT ![s].todo = @ \ {ch},
                         ![s].pc = IF ch \in switchedOn THEN "preference" ELSE "meta",
                         ![s].on = IF ch \in switchedOn THEN ch ELSE "none"]
    BY <1>9 DEF ReadMeta
  <2> DEFINE x == [w EXCEPT !.todo = @ \ {ch}, !.pc = IF ch \in switchedOn THEN "preference" ELSE "meta",
                           !.on = IF ch \in switchedOn THEN ch ELSE "none"]
  <2>3. sending' = [sending EXCEPT ![s] = x]
    BY <1>0, <2>2
  <2>4. /\ x \in Sending /\ x.user = w.user /\ x.quiet = w.quiet /\ x.sent = w.sent
        /\ x.pc = IF ch \in switchedOn THEN "preference" ELSE "meta"
        /\ x.on = IF ch \in switchedOn THEN ch ELSE "none"
    <3>1. ch \in Channels
      BY <1>w
    <3> QED
      BY <1>0, <3>1 DEF Sending
  <2> HIDE DEF x
  <2>5. x.pc = "preference" /\ <<w.user, x.on>> \in w.quiet => <<w.user, x.on>> \in silenced
    <3> SUFFICES ASSUME ch \in switchedOn, <<w.user, ch>> \in w.quiet PROVE <<w.user, ch>> \in silenced
      BY <2>4
    <3>1. w.user \in accounts
      BY <1>0, <2>1 DEF SendingKept
    <3> QED
      BY <1>0, <3>1 DEF SendingKept
  <2> QED
    BY <1>5, <1>6, <2>1, <2>3, <2>4, <2>5
<1>10. CASE CheckPreference(s)
  <2>1. w.pc = "preference"
    BY <1>10 DEF CheckPreference
  <2>2. CASE Reached(w.on, preference[<<w.user, w.on>>])
    <3> DEFINE x == [w EXCEPT !.pc = "config"]
    <3>1. sending' = [sending EXCEPT ![s] = x]
      BY <1>0, <1>10, <2>2 DEF CheckPreference
    <3>2. /\ x \in Sending /\ x.pc = "config" /\ x.user = w.user /\ x.quiet = w.quiet
          /\ x.sent = w.sent /\ x.on = w.on
      BY <1>0 DEF Sending
    <3>3. <<w.user, w.on>> \notin w.quiet
      <4> SUFFICES ASSUME <<w.user, w.on>> \in w.quiet PROVE FALSE
        OBVIOUS
      <4>1. w.user \in accounts /\ <<w.user, w.on>> \in silenced
        BY <1>0, <2>1 DEF SendingKept
      <4> DEFINE up == <<w.user, w.on>>
      <4>2. up \in silenced /\ up[1] \in accounts /\ up[2] = w.on
        BY <4>1
      <4>3. ~Reached(up[2], preference[up])
        BY <4>2 DEF ChannelsInv, SilencedKept
      <4> QED
        BY <4>2, <4>3, <2>2
    <3> HIDE DEF x
    <3> QED
      BY <3>1, <3>2, <3>3, <2>1, <1>5, <1>6
  <2>3. CASE ~Reached(w.on, preference[<<w.user, w.on>>])
    <3>1. sending' = [sending EXCEPT ![s] = [w EXCEPT !.pc = "meta", !.on = "none"]]
      BY <1>0, <1>10, <2>3 DEF CheckPreference
    <3> QED
      BY <3>1, <2>1, <1>s
  <2> QED
    BY <2>2, <2>3
<1>11. CASE Send(s)
  <2> DEFINE x == [w EXCEPT !.pc = "meta", !.on = "none",
                           !.sent = IF w.on \in configured THEN @ \cup {w.on} ELSE @]
  <2>1. w.pc = "config" /\ <<w.user, w.on>> \notin w.quiet
    BY <1>0, <1>11 DEF Send, SendingKept
  <2>2. sending' = [sending EXCEPT ![s] = x]
    BY <1>0, <1>11 DEF Send
  <2>3. /\ x \in Sending /\ x.pc = "meta" /\ x.user = w.user /\ x.quiet = w.quiet
        /\ x.sent \subseteq w.sent \cup {w.on}
    <3>1. w.on \in configured => w.on \in Channels
      BY <1>0 DEF ChannelTypes
    <3> QED
      BY <1>0, <3>1 DEF Sending
  <2> HIDE DEF x
  <2>4. \A ch \in x.sent : <<w.user, ch>> \notin w.quiet
    BY <2>1, <2>3, <1>6
  <2> QED
    BY <2>1, <2>2, <2>3, <2>4, <1>5
<1>12. CASE SkipChannel(s)
  <2>1. /\ w.pc # "idle" /\ w.pc # "user"
        /\ sending' = [sending EXCEPT ![s] = [w EXCEPT !.pc = "meta", !.on = "none"]]
    BY <1>0, <1>12 DEF SkipChannel
  <2> QED
    BY <2>1, <1>s
<1>13. CASE SendingEnds(s)
  BY <1>4, <1>13 DEF SendingEnds
<1> QED
  BY <1>7, <1>8, <1>9, <1>10, <1>11, <1>12, <1>13

LEMMA ChannelsInvInductive ==
  /\ ChannelsInit => ChannelsInv
  /\ ChannelsInv /\ [ChannelsNext]_channelVars => ChannelsInv'
<1>1. ASSUME ChannelsInit PROVE ChannelsInv
  <2>1. NoPreference \in Setting
    BY DEF NoPreference, Setting
  <2>2. ChannelTypes
    BY <1>1, <2>1, NotChangingIs, NotSendingIs DEF ChannelsInit, ChannelTypes
  <2>3. \A c \in Clients : ChangeKept(c)
    BY <1>1, NotChangingIs DEF ChannelsInit, ChangeKept
  <2>4. SilencedKept
    BY <1>1 DEF ChannelsInit, SilencedKept
  <2>5. \A s \in Senders : SendingKept(s)
    BY <1>1, NotSendingIs DEF ChannelsInit, SendingKept
  <2> QED
    BY <2>2, <2>3, <2>4, <2>5 DEF ChannelsInv
<1>2. ASSUME ChannelsInv, UNCHANGED channelVars PROVE ChannelsInv'
  BY <1>2 DEF ChannelsInv, ChannelTypes, ChangeKept, SilencedKept, SendingKept, Reached, channelVars
<1>3. ASSUME ChannelsInv, ChannelsNext PROVE ChannelsInv'
  <2>1. ASSUME NEW c \in Clients, NEW up \in Pairs, UnlinkDeliveryChannel(c, up) \/ OAuthCallback(c, up)
        PROVE  ChannelsInv'
    <3>1. CASE UnlinkDeliveryChannel(c, up)
      BY <1>3, <3>1, BeginKeeps DEF UnlinkDeliveryChannel
    <3>2. CASE OAuthCallback(c, up)
      BY <1>3, <3>2, BeginKeeps DEF OAuthCallback
    <3> QED
      BY <2>1, <3>1, <3>2
  <2>2. ASSUME NEW c \in Clients, NEW up \in Pairs, NEW on \in BOOLEAN, NEW config \in BOOLEAN,
               SetDeliveryPreference(c, up, on, config)
        PROVE  ChannelsInv'
    <3> DEFINE op == IF on THEN "on" ELSE "off"
    <3>1. op \in {"on", "off"} /\ ChangePreference(c, up, op, config)
      BY <2>2 DEF SetDeliveryPreference
    <3> HIDE DEF op
    <3> QED
      BY <1>3, <3>1, BeginKeeps
  <2> QED
    BY <1>3, <2>1, <2>2, ChangeActionsKeep, WriteKeeps, AdministrationKeeps, DeletionKeeps, SendKeeps
       DEF ChannelsNext
<1> QED
  BY <1>1, <1>2, <1>3

\* sendToExternalChannels, core/notification-backend/src/router.ts:144: for any users,
\* channels, requests and notifications at once, a notification does not go out on a
\* channel that was off when it began, until someone switches it on or links it again.
THEOREM ChannelSilentCorrect == ChannelsSpec => []ChannelSilent
<1>1. ChannelsInv => ChannelSilent
  BY DEF ChannelsInv, SendingKept, ChannelSilent
<1> QED
  BY <1>1, ChannelsInvInductive, PTL DEF ChannelsSpec
-----------------------------------------------------------------------------
(* The sum RunsIn of rows, by recursion over the sets of hours. A claim about it
   is proved by looking at the least set at which it would fail. *)

Pick(s) == CHOOSE x \in s : TRUE
WithoutPick(s) == s \ {Pick(s)}

\* f agrees with the recursion on the subsets of S.
IsSum(f, rows, S) ==
  f = [s \in SUBSET S |-> IF s = {} THEN 0 ELSE RunsOf(rows[Pick(s)]) + f[WithoutPick(s)]]

LEMMA RunsInIs ==
  ASSUME NEW rows, NEW S
  PROVE  RunsIn(rows, S) = (CHOOSE f : IsSum(f, rows, S))[S]
BY DEF RunsIn, MapThenSumSet, MapThenFoldSet, IsSum, Pick, WithoutPick

\* The least of some finite sets.
LEMMA LeastSet ==
  ASSUME NEW C, C # {}, \A s \in C : IsFiniteSet(s)
  PROVE  \E s \in C : \A t \in C : Cardinality(s) <= Cardinality(t)
<1> DEFINE T == {n \in Nat : \E s \in C : Cardinality(s) = n}
<1>1. \A s \in C : Cardinality(s) \in T
  BY FS_CardinalityType
<1>2. T \in SUBSET Nat /\ T # {}
  BY <1>1
<1>3. PICK n \in T : \A m \in T : n <= m
  BY <1>2, LeastNumber
<1> QED
  BY <1>1, <1>3

LEMMA PickSmaller ==
  ASSUME NEW S, IsFiniteSet(S), S # {}
  PROVE  /\ Pick(S) \in S /\ IsFiniteSet(WithoutPick(S)) /\ WithoutPick(S) \subseteq S
         /\ ~(Cardinality(S) <= Cardinality(WithoutPick(S)))
<1>1. Pick(S) \in S
  BY DEF Pick
<1>2. IsFiniteSet(WithoutPick(S)) /\ Cardinality(WithoutPick(S)) = Cardinality(S) - 1
  BY <1>1, FS_RemoveElement DEF WithoutPick
<1>3. Cardinality(S) \in Nat
  BY FS_CardinalityType
<1> QED
  BY <1>1, <1>2, <1>3 DEF WithoutPick

\* Two solutions agree on the finite sets both are defined on.
LEMMA SumsAgree ==
  ASSUME NEW rows, NEW S, NEW T, NEW f, NEW g, IsSum(f, rows, S), IsSum(g, rows, T)
  PROVE  \A s \in SUBSET S : s \subseteq T /\ IsFiniteSet(s) => f[s] = g[s]
<1> DEFINE Bad == {s \in SUBSET S : s \subseteq T /\ IsFiniteSet(s) /\ f[s] # g[s]}
<1> SUFFICES ASSUME Bad # {} PROVE FALSE
  OBVIOUS
<1>1. PICK s \in Bad : \A t \in Bad : Cardinality(s) <= Cardinality(t)
  BY LeastSet
<1>2. s \in SUBSET S /\ s \in SUBSET T /\ IsFiniteSet(s) /\ f[s] # g[s]
  OBVIOUS
<1>3. /\ f[s] = IF s = {} THEN 0 ELSE RunsOf(rows[Pick(s)]) + f[WithoutPick(s)]
      /\ g[s] = IF s = {} THEN 0 ELSE RunsOf(rows[Pick(s)]) + g[WithoutPick(s)]
  <2>1. \A x \in SUBSET S : f[x] = IF x = {} THEN 0 ELSE RunsOf(rows[Pick(x)]) + f[WithoutPick(x)]
    BY DEF IsSum
  <2>2. \A x \in SUBSET T : g[x] = IF x = {} THEN 0 ELSE RunsOf(rows[Pick(x)]) + g[WithoutPick(x)]
    BY DEF IsSum
  <2> QED
    BY <1>2, <2>1, <2>2
<1>4. s # {}
  BY <1>2, <1>3
<1>5. WithoutPick(s) \in Bad
  <2> HIDE DEF Bad
  <2>1. f[WithoutPick(s)] # g[WithoutPick(s)]
    BY <1>2, <1>3, <1>4
  <2> QED
    BY <1>2, <1>4, <2>1, PickSmaller DEF Bad
<1> QED
  BY <1>1, <1>2, <1>4, <1>5, PickSmaller

\* The recursion has a solution for every finite set.
LEMMA SumExists ==
  ASSUME NEW rows, NEW S, IsFiniteSet(S)
  PROVE  \E f : IsSum(f, rows, S)
<1> DEFINE Bad == {s \in SUBSET S : ~ \E f : IsSum(f, rows, s)}
<1> SUFFICES ASSUME Bad # {} PROVE FALSE
  <2>1. S \in SUBSET S
    OBVIOUS
  <2> QED
    BY <2>1
<1>1. \A s \in SUBSET S : IsFiniteSet(s)
  BY FS_Subset
<1>2. PICK s \in Bad : \A t \in Bad : Cardinality(s) <= Cardinality(t)
  BY <1>1, LeastSet
<1>3. s \in SUBSET S /\ IsFiniteSet(s) /\ ~ \E f : IsSum(f, rows, s)
  BY <1>1
<1>4. \A t \in SUBSET s : t # s => \E f : IsSum(f, rows, t)
  <2> SUFFICES ASSUME NEW t \in SUBSET s, t # s, t \in Bad PROVE FALSE
    BY <1>3
  <2>1. IsFiniteSet(t) /\ Cardinality(t) <= Cardinality(s) /\ Cardinality(t) # Cardinality(s)
    BY <1>3, FS_Subset
  <2>2. Cardinality(s) \in Nat /\ Cardinality(t) \in Nat
    BY <1>3, <2>1, FS_CardinalityType
  <2> QED
    BY <1>2, <2>1, <2>2
<1> DEFINE sum(t) == (CHOOSE f : IsSum(f, rows, t))[t]
           f == [t \in SUBSET s |-> IF t = {} THEN 0 ELSE RunsOf(rows[Pick(t)]) + sum(WithoutPick(t))]
<1>5. \A t \in SUBSET s : t # s => f[t] = sum(t)
  <2> SUFFICES ASSUME NEW t \in SUBSET s, t # s PROVE f[t] = sum(t)
    OBVIOUS
  <2> DEFINE g == CHOOSE h : IsSum(h, rows, t)
  <2>1. IsSum(g, rows, t) /\ sum(t) = g[t]
    BY <1>4
  <2> HIDE DEF g, sum
  <2>2. t \in SUBSET t
    OBVIOUS
  <2>3. g[t] = IF t = {} THEN 0 ELSE RunsOf(rows[Pick(t)]) + g[WithoutPick(t)]
    BY <2>1, <2>2 DEF IsSum
  <2>4. f[t] = IF t = {} THEN 0 ELSE RunsOf(rows[Pick(t)]) + sum(WithoutPick(t))
    OBVIOUS
  <2>5. ASSUME t # {} PROVE g[WithoutPick(t)] = sum(WithoutPick(t))
    <3> DEFINE r == WithoutPick(t)
               k == CHOOSE h : IsSum(h, rows, r)
    <3>1. IsFiniteSet(t)
      BY <1>3, FS_Subset
    <3>2. r \in SUBSET s /\ r # s /\ IsFiniteSet(r) /\ r \in SUBSET t /\ r \subseteq r
      BY <2>5, <3>1, PickSmaller
    <3>3. IsSum(k, rows, r) /\ sum(r) = k[r]
      BY <1>4, <3>2 DEF sum
    <3> HIDE DEF k, r
    <3>4. g[r] = k[r]
      BY <2>1, <3>2, <3>3, SumsAgree
    <3> QED
      BY <3>3, <3>4 DEF r
  <2> QED
    BY <2>1, <2>3, <2>4, <2>5
<1>6. IsSum(f, rows, s)
  <2>1. \A t \in SUBSET s : t # {} => WithoutPick(t) \in SUBSET s /\ WithoutPick(t) # s
    BY <1>3, FS_Subset, PickSmaller DEF WithoutPick
  <2>2. \A t \in SUBSET s : t # {} => sum(WithoutPick(t)) = f[WithoutPick(t)]
    BY <1>5, <2>1
  <2> HIDE DEF sum
  <2>3. f = [t \in SUBSET s |-> IF t = {} THEN 0 ELSE RunsOf(rows[Pick(t)]) + f[WithoutPick(t)]]
    BY <2>2
  <2> HIDE DEF f
  <2> QED
    BY <2>3 DEF IsSum
<1> QED
  BY <1>3, <1>6

\* What the sum is of a set without the element picked from it.
LEMMA SumRecursion ==
  ASSUME NEW rows, NEW S, IsFiniteSet(S)
  PROVE  RunsIn(rows, S) = IF S = {} THEN 0 ELSE RunsOf(rows[Pick(S)]) + RunsIn(rows, WithoutPick(S))
<1> DEFINE sol(t) == CHOOSE f : IsSum(f, rows, t)
<1>1. IsSum(sol(S), rows, S) /\ RunsIn(rows, S) = sol(S)[S]
  BY SumExists, RunsInIs
<1>2. S # {} => IsSum(sol(WithoutPick(S)), rows, WithoutPick(S))
                /\ RunsIn(rows, WithoutPick(S)) = sol(WithoutPick(S))[WithoutPick(S)]
  BY SumExists, RunsInIs, PickSmaller
<1> HIDE DEF sol
<1>3. S \in SUBSET S
  OBVIOUS
<1>4. sol(S)[S] = IF S = {} THEN 0 ELSE RunsOf(rows[Pick(S)]) + sol(S)[WithoutPick(S)]
  <2>1. \A f : IsSum(f, rows, S) => f[S] = IF S = {} THEN 0 ELSE RunsOf(rows[Pick(S)]) + f[WithoutPick(S)]
    BY <1>3 DEF IsSum
  <2> QED
    BY <1>1, <2>1
<1>5. S # {} => sol(S)[WithoutPick(S)] = sol(WithoutPick(S))[WithoutPick(S)]
  <2>1. S # {} => WithoutPick(S) \in SUBSET S /\ WithoutPick(S) \subseteq WithoutPick(S) /\ IsFiniteSet(WithoutPick(S))
    BY PickSmaller
  <2> QED
    BY <1>1, <1>2, <2>1, SumsAgree
<1> QED
  BY <1>1, <1>2, <1>4, <1>5

LEMMA SumIsNumber ==
  ASSUME NEW rows, NEW S, IsFiniteSet(S), \A h \in S : RunsOf(rows[h]) \in Nat
  PROVE  RunsIn(rows, S) \in Nat
<1> DEFINE Bad == {s \in SUBSET S : RunsIn(rows, s) \notin Nat}
<1> SUFFICES ASSUME Bad # {} PROVE FALSE
  OBVIOUS
<1>1. \A s \in SUBSET S : IsFiniteSet(s)
  BY FS_Subset
<1>2. PICK s \in Bad : \A t \in Bad : Cardinality(s) <= Cardinality(t)
  BY <1>1, LeastSet
<1>3. s \in SUBSET S /\ IsFiniteSet(s) /\ RunsIn(rows, s) \notin Nat
  BY <1>1
<1>4. s # {} /\ RunsIn(rows, s) = RunsOf(rows[Pick(s)]) + RunsIn(rows, WithoutPick(s))
  BY <1>3, SumRecursion
<1>5. Pick(s) \in S /\ WithoutPick(s) \in SUBSET S /\ ~(Cardinality(s) <= Cardinality(WithoutPick(s)))
  BY <1>3, <1>4, PickSmaller
<1>6. RunsIn(rows, WithoutPick(s)) \in Nat
  BY <1>2, <1>5
<1> QED
  BY <1>3, <1>4, <1>5, <1>6

\* Whichever hour is taken out.
LEMMA SumTakesOut ==
  ASSUME NEW rows, NEW S, IsFiniteSet(S), \A h \in S : RunsOf(rows[h]) \in Nat
  PROVE  \A h \in S : RunsIn(rows, S) = RunsOf(rows[h]) + RunsIn(rows, S \ {h})
<1> DEFINE Fine(s) == \A h \in s : RunsIn(rows, s) = RunsOf(rows[h]) + RunsIn(rows, s \ {h})
           Bad == {s \in SUBSET S : ~Fine(s)}
<1> SUFFICES ASSUME Bad # {} PROVE FALSE
  <2>1. S \in SUBSET S
    OBVIOUS
  <2> QED
    BY <2>1
<1>1. \A s \in SUBSET S : IsFiniteSet(s)
  BY FS_Subset
<1>2. PICK s \in Bad : \A t \in Bad : Cardinality(s) <= Cardinality(t)
  BY <1>1, LeastSet
<1>3. s \in SUBSET S /\ IsFiniteSet(s) /\ ~Fine(s)
  BY <1>1
<1>4. PICK h \in s : RunsIn(rows, s) # RunsOf(rows[h]) + RunsIn(rows, s \ {h})
  BY <1>3
<1>5. ASSUME NEW t \in SUBSET S, ~(Cardinality(s) <= Cardinality(t)), NEW x \in t
      PROVE  RunsIn(rows, t) = RunsOf(rows[x]) + RunsIn(rows, t \ {x})
  BY <1>2, <1>5
<1> HIDE DEF Bad, Fine
<1> DEFINE p == Pick(s)
<1>6. p \in s /\ WithoutPick(s) = s \ {p} /\ RunsIn(rows, s) = RunsOf(rows[p]) + RunsIn(rows, s \ {p})
  BY <1>3, <1>4, SumRecursion, PickSmaller DEF WithoutPick
<1> HIDE DEF p
<1>7. h # p
  BY <1>4, <1>6
<1>8. \A x \in s : ~(Cardinality(s) <= Cardinality(s \ {x}))
  <2> SUFFICES ASSUME NEW x \in s PROVE ~(Cardinality(s) <= Cardinality(s \ {x}))
    OBVIOUS
  <2>1. Cardinality(s \ {x}) = Cardinality(s) - 1 /\ Cardinality(s) \in Nat
    BY <1>3, FS_RemoveElement, FS_CardinalityType
  <2> QED
    BY <2>1
<1>9. /\ RunsIn(rows, s \ {p}) = RunsOf(rows[h]) + RunsIn(rows, (s \ {p}) \ {h})
      /\ RunsIn(rows, s \ {h}) = RunsOf(rows[p]) + RunsIn(rows, (s \ {h}) \ {p})
  <2>1. s \ {p} \in SUBSET S /\ h \in s \ {p} /\ s \ {h} \in SUBSET S /\ p \in s \ {h}
    BY <1>3, <1>6, <1>7
  <2> QED
    BY <1>5, <1>6, <1>8, <2>1
<1>10. (s \ {p}) \ {h} = (s \ {h}) \ {p}
  OBVIOUS
<1>11. RunsOf(rows[p]) \in Nat /\ RunsOf(rows[h]) \in Nat /\ RunsIn(rows, (s \ {h}) \ {p}) \in Nat
  <2>1. (s \ {h}) \ {p} \in SUBSET S
    BY <1>3
  <2>2. IsFiniteSet((s \ {h}) \ {p}) /\ \A x \in (s \ {h}) \ {p} : RunsOf(rows[x]) \in Nat
    BY <1>1, <2>1
  <2> QED
    BY <1>3, <1>6, <2>2, SumIsNumber
<1>12. RunsIn(rows, s \ {p}) = RunsOf(rows[h]) + RunsIn(rows, (s \ {h}) \ {p})
  BY <1>9, <1>10
<1>13. \A wp, wh, rest \in Nat : wp + (wh + rest) = wh + (wp + rest)
  OBVIOUS
<1>14. RunsIn(rows, s) = RunsOf(rows[h]) + (RunsOf(rows[p]) + RunsIn(rows, (s \ {h}) \ {p}))
  BY <1>6, <1>11, <1>12, <1>13
<1> QED
  BY <1>4, <1>9, <1>14

\* Rows that count the same have the same sum.
LEMMA SumsSame ==
  ASSUME NEW rows, NEW new, NEW S, IsFiniteSet(S), \A h \in S : RunsOf(rows[h]) = RunsOf(new[h])
  PROVE  RunsIn(rows, S) = RunsIn(new, S)
<1> DEFINE Bad == {s \in SUBSET S : RunsIn(rows, s) # RunsIn(new, s)}
<1> SUFFICES ASSUME Bad # {} PROVE FALSE
  OBVIOUS
<1>1. \A s \in SUBSET S : IsFiniteSet(s)
  BY FS_Subset
<1>2. PICK s \in Bad : \A t \in Bad : Cardinality(s) <= Cardinality(t)
  BY <1>1, LeastSet
<1>3. s \in SUBSET S /\ IsFiniteSet(s) /\ RunsIn(rows, s) # RunsIn(new, s)
  BY <1>1
<1>4. /\ RunsIn(rows, s) = IF s = {} THEN 0 ELSE RunsOf(rows[Pick(s)]) + RunsIn(rows, WithoutPick(s))
      /\ RunsIn(new, s) = IF s = {} THEN 0 ELSE RunsOf(new[Pick(s)]) + RunsIn(new, WithoutPick(s))
  BY <1>3, SumRecursion
<1>5. s # {}
  BY <1>3, <1>4
<1>6. Pick(s) \in S /\ WithoutPick(s) \in SUBSET S /\ ~(Cardinality(s) <= Cardinality(WithoutPick(s)))
  BY <1>3, <1>5, PickSmaller
<1>7. RunsIn(rows, WithoutPick(s)) = RunsIn(new, WithoutPick(s))
  BY <1>2, <1>6
<1> QED
  BY <1>3, <1>4, <1>5, <1>6, <1>7

\* The sum of two parts.
LEMMA SumSplits ==
  ASSUME NEW rows, NEW S, IsFiniteSet(S), \A h \in S : RunsOf(rows[h]) \in Nat, NEW A \in SUBSET S
  PROVE  RunsIn(rows, S) = RunsIn(rows, A) + RunsIn(rows, S \ A)
<1> DEFINE Bad == {s \in SUBSET S : RunsIn(rows, S) # RunsIn(rows, s) + RunsIn(rows, S \ s)}
<1> SUFFICES ASSUME Bad # {} PROVE FALSE
  OBVIOUS
<1>1. \A s \in SUBSET S : IsFiniteSet(s) /\ RunsIn(rows, s) \in Nat
  BY FS_Subset, SumIsNumber
<1>2. PICK s \in Bad : \A t \in Bad : Cardinality(s) <= Cardinality(t)
  BY <1>1, LeastSet
<1>3. s \in SUBSET S /\ IsFiniteSet(s) /\ RunsIn(rows, S) # RunsIn(rows, s) + RunsIn(rows, S \ s)
  BY <1>1
<1>4. ASSUME NEW t \in SUBSET S, ~(Cardinality(s) <= Cardinality(t))
      PROVE  RunsIn(rows, S) = RunsIn(rows, t) + RunsIn(rows, S \ t)
  BY <1>2, <1>4
<1> HIDE DEF Bad
<1>5. s # {}
  <2> SUFFICES ASSUME s = {} PROVE FALSE
    OBVIOUS
  <2>1. RunsIn(rows, {}) = 0
    BY FS_EmptySet, SumRecursion
  <2>2. S \ s = S /\ RunsIn(rows, S) \in Nat
    BY <1>1
  <2> QED
    BY <1>3, <2>1, <2>2
<1> DEFINE p == Pick(s)
           t == WithoutPick(s)
<1>6. p \in s /\ t = s \ {p} /\ t \in SUBSET S /\ ~(Cardinality(s) <= Cardinality(t))
  BY <1>3, <1>5, PickSmaller DEF WithoutPick
<1>7. RunsIn(rows, s) = RunsOf(rows[p]) + RunsIn(rows, t)
  BY <1>3, <1>5, SumRecursion
<1> HIDE DEF p, t
<1>8. RunsIn(rows, S) = RunsIn(rows, t) + RunsIn(rows, S \ t)
  BY <1>4, <1>6
<1>9. RunsIn(rows, S \ t) = RunsOf(rows[p]) + RunsIn(rows, S \ s)
  <2>1. S \ t \in SUBSET S /\ p \in S \ t /\ (S \ t) \ {p} = S \ s
    BY <1>3, <1>6
  <2>2. IsFiniteSet(S \ t) /\ \A h \in S \ t : RunsOf(rows[h]) \in Nat
    BY <1>1, <2>1
  <2> QED
    BY <2>1, <2>2, SumTakesOut
<1>10. RunsOf(rows[p]) \in Nat /\ RunsIn(rows, t) \in Nat /\ RunsIn(rows, S \ s) \in Nat
  BY <1>1, <1>3, <1>6
<1> QED
  BY <1>3, <1>7, <1>8, <1>9, <1>10

-----------------------------------------------------------------------------
(* Days *)

LEMMA DayBounds ==
  ASSUME NEW h \in Nat
  PROVE  Day(h) \in Nat /\ HoursPerDay * Day(h) <= h /\ h < HoursPerDay * Day(h) + HoursPerDay
<1>1. HoursPerDay \in Nat \ {0}
  BY BoundAssumption
<1> QED
  BY <1>1 DEF Day

LEMMA ProductOrder == \A a, b, p \in Nat : a <= b => p * a <= p * b
  OBVIOUS

LEMMA ProductOfSum == \A a, b, p \in Nat : p * (a + b) = p * a + p * b
  OBVIOUS

\* An hour at most n days later is at most n days later.
LEMMA DayOrder ==
  ASSUME NEW h \in Nat, NEW k \in Nat, NEW n \in Nat, k <= h + n * HoursPerDay
  PROVE  Day(k) <= Day(h) + n
<1>1. HoursPerDay \in Nat \ {0}
  BY BoundAssumption
<1> DEFINE p == HoursPerDay
<1>2. SUFFICES ASSUME Day(h) + n + 1 <= Day(k) PROVE FALSE
  BY DayBounds
<1>3. p * (Day(h) + n + 1) <= p * Day(k)
  BY <1>1, <1>2, DayBounds, ProductOrder
<1>4. p * (Day(h) + n + 1) = p * Day(h) + p * n + p
  BY <1>1, DayBounds, ProductOfSum
<1>5. p * Day(k) <= k /\ h < p * Day(h) + p
  BY DayBounds
<1>6. n * p = p * n /\ p * n \in Nat /\ p * Day(h) \in Nat /\ p * Day(k) \in Nat
  BY <1>1, DayBounds
<1> QED
  BY <1>1, <1>3, <1>4, <1>5, <1>6

LEMMA Retentions ==
  /\ rawRetentionDays \in Nat /\ hourlyRetentionDays \in Nat /\ dailyRetentionDays \in Nat
  /\ rawRetentionDays < hourlyRetentionDays /\ HoursPerDay \in Nat \ {0}
BY HierarchyAssumption, BoundAssumption

LEMMA DaysInOrder ==
  ASSUME NEW h \in Nat, NEW k \in Nat, h <= k
  PROVE  Day(h) <= Day(k)
<1>1. \A p \in Nat : 0 * p = 0
  OBVIOUS
<1>2. 0 * HoursPerDay = 0 /\ h <= k + 0
  BY <1>1, Retentions
<1>3. Day(h) <= Day(k) + 0
  BY <1>2, DayOrder
<1> QED
  BY <1>3, DayBounds

\* An old hour stays old, and an expired day expired.
LEMMA OldStays ==
  ASSUME now \in Nat, now' \in Nat, now <= now'
  PROVE  /\ \A h \in Nat : OldHour(h) => OldHour(h)'
         /\ \A d \in Nat : ExpiredDay(d) => ExpiredDay(d)'
<1>1. Day(now) <= Day(now') /\ Day(now) \in Nat /\ Day(now') \in Nat
  BY DaysInOrder, DayBounds
<1>2. \A h \in Nat : Day(h) \in Nat
  BY DayBounds
<1>3. \A d \in Nat : d * HoursPerDay \in Nat /\ dailyRetentionDays * HoursPerDay \in Nat
  BY Retentions
<1>4. (\A h \in Nat : Day(h)' = Day(h)) /\ Day(now)' = Day(now')
  BY DEF Day
<1>5. \A h \in Nat : OldHour(h) => OldHour(h)'
  BY <1>1, <1>2, <1>4, Retentions DEF OldHour
<1>6. \A d \in Nat : ExpiredDay(d) => ExpiredDay(d)'
  <2> SUFFICES ASSUME NEW d \in Nat, ExpiredDay(d) PROVE ExpiredDay(d)'
    OBVIOUS
  <2>1. PICK x \in Nat, y \in Nat : x = d * HoursPerDay /\ y = dailyRetentionDays * HoursPerDay
    BY <1>3
  <2>2. x < now - y
    BY <2>1 DEF ExpiredDay
  <2>3. \A n, m, z \in Nat : n <= m /\ z < n - y => z < m - y
    OBVIOUS
  <2>4. x < now' - y
    BY <2>2, <2>3
  <2> QED
    BY <2>1, <2>4 DEF ExpiredDay
<1> QED
  BY <1>5, <1>6

-----------------------------------------------------------------------------
(* The runs of a day are in its daily row, or in one of its hourly rows that the job
   is not deleting after it made the daily row. *)

RunType == [pc : {"waiting", "stored", "read", "counted", "lost"}, at : Hours, hour : Hours,
            latency : Latencies \cup {None}, min : Latencies \cup {None}]
JobType == [pc : {"idle", "raw", "select", "insert", "delete", "expire"},
            old : [Hours -> Rows], days : SUBSET Days, doomed : SUBSET Hours]

TierTypes ==
  /\ now \in Hours /\ failures \in Nat
  /\ run \in [Runs -> RunType] /\ IsFiniteSet({r \in Runs : run[r].pc = "counted"})
  /\ hourly \in [Hours -> Rows] /\ daily \in [Days -> Rows] /\ job \in JobType

\* A run is counted in an hour of its execution, which is in time.
RunsRecent ==
  \A r \in Runs : Counting(r) =>
    /\ run[r].at <= run[r].hour /\ run[r].hour <= now
    /\ now <= run[r].at + MaxExecutionHours

\* What the job has read of the days before it is still there, and what it deletes is
\* of days behind it.
RowsAsRead ==
  /\ job.pc # "delete" => job.doomed = {}
  /\ \A h \in job.doomed : OldHour(h) /\ Day(h) \notin job.days
  /\ job.pc \in {"insert", "delete"} =>
       \A h \in Hours : (Day(h) \in job.days /\ job.old[h] # None) => OldHour(h) /\ hourly[h] = job.old[h]

Kept(d) == RunsIn(hourly, HoursOf(d) \ job.doomed)
DayConserved(d) ==
  LET runs == RunsOf(daily[d]) + Kept(d)
  IN /\ runs >= Cardinality(CountedIn(d))
     /\ failures = 0 => runs = Cardinality(CountedIn(d))
DaysConserved == \A d \in Days : ExpiredDay(d) \/ DayConserved(d)

TiersInv == TierTypes /\ RunsRecent /\ RowsAsRead /\ DaysConserved

LEMMA HourFacts ==
  /\ IsFiniteSet(Hours) /\ Hours \subseteq Nat /\ MaxHour \in Nat
  /\ \A d : IsFiniteSet(HoursOf(d)) /\ HoursOf(d) \subseteq Hours
  /\ Days \subseteq Nat
<1>1. MaxHour \in Nat /\ 0 \in Int
  BY BoundAssumption
<1>2. IsFiniteSet(Hours)
  BY <1>1, FS_Interval DEF Hours
<1>3. \A d : HoursOf(d) \in SUBSET Hours
  BY DEF HoursOf
<1> QED
  BY <1>1, <1>2, <1>3, FS_Subset DEF Hours, Days

LEMMA RowFacts ==
  /\ \A bucket \in Rows : RunsOf(bucket) \in Nat
  /\ RunsOf(None) = 0
  /\ \A n \in Nat, min \in Latencies \cup {None} :
       [runs |-> n, min |-> min] \in Rows /\ RunsOf([runs |-> n, min |-> min]) = n
<1>1. None \notin [runs : Nat, min : Latencies \cup {None}]
  BY BoundAssumption
<1> QED
  BY <1>1 DEF Rows, RunsOf

LEMMA LeastType ==
  ASSUME NEW S, S \subseteq Latencies \cup {None}
  PROVE  Least(S) \in Latencies \cup {None}
<1>1. CASE S \ {None} = {}
  BY <1>1 DEF Least
<1>2. CASE S \ {None} # {}
  <2>1. S \ {None} \in SUBSET Nat /\ S \ {None} \subseteq Latencies
    BY BoundAssumption
  <2>2. \E x \in S \ {None} : \A y \in S \ {None} : x <= y
    BY <1>2, <2>1, LeastNumber
  <2>3. Min(S \ {None}) \in S \ {None}
    BY <2>2 DEF Min
  <2> QED
    BY <1>2, <2>1, <2>3 DEF Least
<1> QED
  BY <1>1, <1>2

\* The sums of the tiers are numbers.
LEMMA KeptIsNumber ==
  ASSUME NEW rows \in [Hours -> Rows], NEW S \in SUBSET Hours
  PROVE  IsFiniteSet(S) /\ (\A h \in S : RunsOf(rows[h]) \in Nat) /\ RunsIn(rows, S) \in Nat
<1>1. IsFiniteSet(S) /\ \A h \in S : RunsOf(rows[h]) \in Nat
  BY HourFacts, RowFacts, FS_Subset
<1> QED
  BY <1>1, SumIsNumber

\* A step that changes none of what a day's runs depend on.
LEMMA DaysKept ==
  ASSUME TierTypes, DaysConserved, UNCHANGED <<hourly, daily, job>> \/ (UNCHANGED <<hourly, daily>> /\ job'.doomed = job.doomed),
         now' \in Nat, now <= now', failures' = failures,
         \A r \in Runs : (run[r].pc = "counted" <=> run'[r].pc = "counted")
                         /\ (run[r].pc = "counted" => run'[r].hour = run[r].hour)
  PROVE  DaysConserved'
<1>1. \A d \in Days : CountedIn(d)' = CountedIn(d)
  BY DEF CountedIn, Day
<1>2. job'.doomed = job.doomed /\ hourly' = hourly /\ daily' = daily
  OBVIOUS
<1>3. \A d \in Days : HoursOf(d)' = HoursOf(d)
  BY DEF HoursOf, Hours, Day
<1>4. \A d \in Days : Kept(d)' = Kept(d)
  BY <1>2, <1>3 DEF Kept
<1>5. \A d \in Days : DayConserved(d) => DayConserved(d)'
  BY <1>1, <1>2, <1>4 DEF DayConserved
<1>6. now \in Nat
  BY HourFacts DEF TierTypes
<1> QED
  BY <1>5, <1>6, OldStays, HourFacts DEF DaysConserved

\* The steps of a run.
LEMMA RunTypesIs ==
  ASSUME TierTypes, NEW r \in Runs
  PROVE  run[r] \in RunType /\ now \in Nat /\ now \in Hours
BY HourFacts DEF TierTypes

LEMMA StoreRunKeeps ==
  ASSUME TiersInv, NEW r \in Runs, StoreRun(r)
  PROVE  TiersInv'
<1> USE DEF TiersInv
<1>1. PICK l \in Latencies \cup {None} :
        run' = [run EXCEPT ![r].pc = "stored", ![r].at = now, ![r].hour = now, ![r].latency = l]
  BY DEF StoreRun
<1>2. run[r].pc = "waiting" /\ UNCHANGED <<now, hourly, daily, job, failures>>
  BY DEF StoreRun
<1> DEFINE new == [run[r] EXCEPT !.pc = "stored", !.at = now, !.hour = now, !.latency = l]
<1>3. new \in RunType /\ new.pc = "stored" /\ new.at = now /\ new.hour = now
  BY RunTypesIs DEF RunType
<1>4. run' = [run EXCEPT ![r] = new]
  BY <1>1, RunTypesIs DEF TierTypes, RunType
<1> HIDE DEF new
<1>5. run' \in [Runs -> RunType] /\ run'[r] = new /\ \A s \in Runs \ {r} : run'[s] = run[s]
  BY <1>3, <1>4 DEF TierTypes
<1>6. {s \in Runs : run'[s].pc = "counted"} = {s \in Runs : run[s].pc = "counted"}
  BY <1>2, <1>3, <1>5
<1>7. TierTypes'
  BY <1>2, <1>5, <1>6 DEF TierTypes, Hours, Days, Day
<1>8. RunsRecent'
  <2>1. now <= now /\ now <= now + MaxExecutionHours
    BY BoundAssumption, RunTypesIs
  <2> QED
    BY <1>2, <1>3, <1>5, <2>1 DEF RunsRecent, Counting
<1>9. RowsAsRead'
  BY <1>2 DEF RowsAsRead, OldHour, Day
<1>10. DaysConserved'
  <2>1. \A s \in Runs : (run[s].pc = "counted" <=> run'[s].pc = "counted")
                        /\ (run[s].pc = "counted" => run'[s].hour = run[s].hour)
    BY <1>2, <1>3, <1>5
  <2> QED
    BY <1>2, <2>1, RunTypesIs, DaysKept
<1> QED
  BY <1>7, <1>8, <1>9, <1>10

LEMMA ReadBucketKeeps ==
  ASSUME TiersInv, NEW r \in Runs, ReadBucket(r)
  PROVE  TiersInv'
<1> USE DEF TiersInv
<1> DEFINE existing == IF hourly[now] = None THEN None ELSE hourly[now].min
           least == IF run[r].latency = None THEN None ELSE Least({existing, run[r].latency})
           new == [run[r] EXCEPT !.pc = "read", !.hour = now, !.min = least]
<1>1. run[r].pc = "stored" /\ UNCHANGED <<now, hourly, daily, job, failures>>
  BY DEF ReadBucket, historyVars
<1>2. least \in Latencies \cup {None}
  <2>1. hourly[now] \in Rows /\ run[r].latency \in Latencies \cup {None}
    BY RunTypesIs DEF TierTypes, RunType
  <2>2. existing \in Latencies \cup {None}
    BY <2>1 DEF Rows
  <2> HIDE DEF existing
  <2> QED
    BY <2>1, <2>2, LeastType
<1>3. run' = [run EXCEPT ![r].pc = "read", ![r].hour = now, ![r].min = least]
  BY DEF ReadBucket, historyVars
<1> HIDE DEF least
<1>4. new \in RunType /\ new.pc = "read" /\ new.at = run[r].at /\ new.hour = now
  BY <1>2, RunTypesIs DEF RunType
<1>5. run' = [run EXCEPT ![r] = new]
  BY <1>3, RunTypesIs DEF TierTypes, RunType
<1> HIDE DEF new
<1>6. run' \in [Runs -> RunType] /\ run'[r] = new /\ \A s \in Runs \ {r} : run'[s] = run[s]
  BY <1>4, <1>5 DEF TierTypes
<1>7. {s \in Runs : run'[s].pc = "counted"} = {s \in Runs : run[s].pc = "counted"}
  BY <1>1, <1>4, <1>6
<1>8. TierTypes'
  BY <1>1, <1>6, <1>7 DEF TierTypes, Hours, Days, Day
<1>9. RunsRecent'
  <2>1. run[r].at \in Nat /\ run[r].hour \in Nat
    BY RunTypesIs, HourFacts DEF RunType
  <2>2. run[r].at <= now /\ now <= run[r].at + MaxExecutionHours /\ now <= now
    BY <1>1, <2>1, RunTypesIs DEF RunsRecent, Counting
  <2> QED
    BY <1>1, <1>4, <1>6, <2>2 DEF RunsRecent, Counting
<1>10. RowsAsRead'
  BY <1>1 DEF RowsAsRead, OldHour, Day
<1>11. DaysConserved'
  <2>1. \A s \in Runs : (run[s].pc = "counted" <=> run'[s].pc = "counted")
                        /\ (run[s].pc = "counted" => run'[s].hour = run[s].hour)
    BY <1>1, <1>4, <1>6
  <2> QED
    BY <1>1, <2>1, RunTypesIs, DaysKept
<1> QED
  BY <1>8, <1>9, <1>10, <1>11

\* The hour a run is counted in is not old.
LEMMA RecentIsNotOld ==
  ASSUME TiersInv, NEW r \in Runs, Counting(r)
  PROVE  ~OldHour(run[r].hour)
<1>1. run[r].at \in Nat /\ run[r].hour \in Nat /\ now \in Nat
  BY RunTypesIs, HourFacts DEF RunType, TiersInv
<1>2. run[r].at <= run[r].hour /\ now <= run[r].at + MaxExecutionHours
  BY DEF TiersInv, RunsRecent
<1>3. MaxExecutionHours \in Nat /\ MaxExecutionHours <= rawRetentionDays * HoursPerDay
      /\ rawRetentionDays * HoursPerDay \in Nat
  BY BoundAssumption, Retentions
<1>4. now <= run[r].hour + rawRetentionDays * HoursPerDay
  BY <1>1, <1>2, <1>3
<1>5. Day(now) <= Day(run[r].hour) + rawRetentionDays
  BY <1>1, <1>4, DayOrder, Retentions
<1> QED
  BY <1>1, <1>5, DayBounds, Retentions DEF OldHour

LEMMA UpsertCounts ==
  ASSUME NEW bucket \in Rows, NEW r \in Runs, run[r].min \in Latencies \cup {None}
  PROVE  Upsert(bucket, r) \in Rows /\ RunsOf(Upsert(bucket, r)) = RunsOf(bucket) + 1
<1>1. CASE bucket = None
  <2>1. Upsert(bucket, r) = [runs |-> 1, min |-> run[r].min] /\ RunsOf(bucket) = 0
    BY <1>1, RowFacts DEF Upsert
  <2> QED
    BY <2>1, RowFacts
<1>2. CASE bucket # None
  <2>1. bucket.runs \in Nat /\ bucket.min \in Latencies \cup {None} /\ RunsOf(bucket) = bucket.runs
    BY <1>2 DEF Rows, RunsOf
  <2>2. PICK min \in Latencies \cup {None} : Upsert(bucket, r) = [runs |-> bucket.runs + 1, min |-> min]
    BY <1>2, <2>1 DEF Upsert
  <2>3. bucket.runs + 1 \in Nat
    BY <2>1
  <2> QED
    BY <2>1, <2>2, <2>3, RowFacts
<1> QED
  BY <1>1, <1>2

LEMMA WriteBucketKeeps ==
  ASSUME TiersInv, NEW r \in Runs, WriteBucket(r)
  PROVE  TiersInv'
<1> USE DEF TiersInv
<1> DEFINE itsHour == run[r].hour
           new == [run[r] EXCEPT !.pc = "counted"]
           counted == {s \in Runs : run[s].pc = "counted"}
<1>1. run[r].pc = "read" /\ UNCHANGED <<now, daily, job, failures>>
  BY DEF WriteBucket, historyVars
<1>2. itsHour \in Hours /\ new \in RunType /\ new.pc = "counted" /\ new.hour = itsHour /\ run[r].min \in Latencies \cup {None}
  BY RunTypesIs DEF RunType
<1>3. hourly' = [hourly EXCEPT ![itsHour] = Upsert(hourly[itsHour], r)] /\ run' = [run EXCEPT ![r] = new]
  BY RunTypesIs DEF WriteBucket, TierTypes, RunType
<1>4. Upsert(hourly[itsHour], r) \in Rows /\ RunsOf(Upsert(hourly[itsHour], r)) = RunsOf(hourly[itsHour]) + 1
  BY <1>2, UpsertCounts DEF TierTypes
<1>5. ~OldHour(itsHour)
  BY <1>1, RecentIsNotOld DEF Counting
<1> HIDE DEF new, itsHour
<1>6. run' \in [Runs -> RunType] /\ run'[r] = new /\ \A s \in Runs \ {r} : run'[s] = run[s]
  BY <1>2, <1>3 DEF TierTypes
<1>7. /\ hourly' \in [Hours -> Rows] /\ RunsOf(hourly'[itsHour]) = RunsOf(hourly[itsHour]) + 1
      /\ \A h \in Hours \ {itsHour} : hourly'[h] = hourly[h]
  BY <1>2, <1>3, <1>4 DEF TierTypes
<1>8. {s \in Runs : run'[s].pc = "counted"} = counted \cup {r} /\ r \notin counted
  BY <1>1, <1>2, <1>6
<1>9. TierTypes'
  <2>1. IsFiniteSet(counted \cup {r})
    BY FS_AddElement DEF TierTypes
  <2> QED
    BY <1>1, <1>6, <1>7, <1>8, <2>1 DEF TierTypes, Hours, Days, Day
<1>10. RunsRecent'
  BY <1>1, <1>2, <1>6 DEF RunsRecent, Counting
<1>11. RowsAsRead'
  BY <1>1, <1>2, <1>5, <1>7 DEF RowsAsRead, OldHour, Day
<1>12. DaysConserved'
  <2> SUFFICES ASSUME NEW d \in Days, ~ExpiredDay(d) PROVE DayConserved(d)'
    BY <1>1 DEF DaysConserved, ExpiredDay, Days, Day
  <2> DEFINE S == HoursOf(d) \ job.doomed
             C == CountedIn(d)
  <2>1. DayConserved(d)
    BY DEF DaysConserved
  <2>2. HoursOf(d)' = HoursOf(d) /\ S \in SUBSET Hours /\ d \in Nat
    BY HourFacts DEF HoursOf, Hours, Day
  <2>3. IsFiniteSet(C) /\ Cardinality(C) \in Nat
    <3>1. C \in SUBSET counted
      BY DEF CountedIn
    <3> QED
      BY <3>1, FS_Subset, FS_CardinalityType DEF TierTypes
  <2>4. RunsOf(daily[d]) \in Nat /\ RunsIn(hourly, S) \in Nat
    BY <2>2, RowFacts, KeptIsNumber DEF TierTypes
  <2>5. Kept(d) = RunsIn(hourly, S) /\ Kept(d)' = RunsIn(hourly', S)
    BY <1>1, <2>2 DEF Kept
  <2>6. CASE Day(itsHour) = d
    <3>1. CountedIn(d)' = C \cup {r} /\ r \notin C
      BY <1>1, <1>2, <1>6, <2>6 DEF CountedIn, Day
    <3>2. Cardinality(CountedIn(d)') = Cardinality(C) + 1
      BY <2>3, <3>1, FS_AddElement
    <3>3. itsHour \in S
      <4>1. itsHour \in HoursOf(d)
        BY <1>2, <2>6 DEF HoursOf
      <4> QED
        BY <1>5, <4>1 DEF RowsAsRead
    <3>4. RunsIn(hourly', S) = RunsIn(hourly, S) + 1
      <4>1. IsFiniteSet(S) /\ IsFiniteSet(S \ {itsHour}) /\ S \ {itsHour} \in SUBSET Hours
        BY <2>2, KeptIsNumber DEF TierTypes
      <4>2. RunsIn(hourly, S) = RunsOf(hourly[itsHour]) + RunsIn(hourly, S \ {itsHour})
        BY <2>2, <3>3, KeptIsNumber, SumTakesOut DEF TierTypes
      <4>3. RunsIn(hourly', S) = RunsOf(hourly'[itsHour]) + RunsIn(hourly', S \ {itsHour})
        BY <1>7, <2>2, <3>3, KeptIsNumber, SumTakesOut
      <4>4. RunsIn(hourly, S \ {itsHour}) = RunsIn(hourly', S \ {itsHour})
        BY <1>7, <4>1, SumsSame
      <4>5. RunsOf(hourly[itsHour]) \in Nat /\ RunsIn(hourly, S \ {itsHour}) \in Nat
        BY <1>2, <4>1, RowFacts, KeptIsNumber DEF TierTypes
      <4> QED
        BY <1>7, <4>2, <4>3, <4>4, <4>5
    <3> HIDE DEF S, C
    <3>5. \A x, y, z \in Nat : (x + y >= z => x + (y + 1) >= z + 1) /\ (x + y = z => x + (y + 1) = z + 1)
      OBVIOUS
    <3>6. /\ RunsOf(daily[d]) + RunsIn(hourly, S) >= Cardinality(C)
          /\ failures = 0 => RunsOf(daily[d]) + RunsIn(hourly, S) = Cardinality(C)
      BY <2>1, <2>5 DEF DayConserved, C
    <3> QED
      BY <1>1, <2>3, <2>4, <2>5, <3>2, <3>4, <3>5, <3>6 DEF DayConserved
  <2>7. CASE Day(itsHour) # d
    <3>1. CountedIn(d)' = C
      BY <1>1, <1>2, <1>6, <2>7 DEF CountedIn, Day
    <3>2. itsHour \notin S
      BY <2>7 DEF HoursOf
    <3>3. RunsIn(hourly', S) = RunsIn(hourly, S)
      <4>1. IsFiniteSet(S) /\ \A h \in S : RunsOf(hourly[h]) = RunsOf(hourly'[h])
        BY <1>7, <2>2, <3>2, KeptIsNumber DEF TierTypes
      <4> QED
        BY <4>1, SumsSame
    <3> QED
      BY <1>1, <2>1, <2>5, <3>1, <3>3 DEF DayConserved
  <2> QED
    BY <2>6, <2>7
<1> QED
  BY <1>9, <1>10, <1>11, <1>12

\* The steps of the job, and the failures.
LEMMA JobMoves ==
  ASSUME TierTypes, NEW pc \in {"idle", "raw", "select", "insert", "delete", "expire"}, JobAt(pc)
  PROVE  /\ job' \in JobType /\ job'.pc = pc
         /\ job'.old = job.old /\ job'.days = job.days /\ job'.doomed = job.doomed
BY DEF JobAt, TierTypes, JobType

\* What the job does not touch stays as it was.
LEMMA RunsUntouched ==
  ASSUME TiersInv, UNCHANGED <<now, run, failures>>, hourly' \in [Hours -> Rows], daily' \in [Days -> Rows], job' \in JobType
  PROVE  TierTypes' /\ RunsRecent' /\ \A d \in Days : CountedIn(d)' = CountedIn(d) /\ HoursOf(d)' = HoursOf(d)
BY DEF TiersInv, TierTypes, RunsRecent, Counting, CountedIn, HoursOf, Hours, Days, Day

LEMMA JobGoesOn ==
  ASSUME TiersInv, UNCHANGED <<now, run, failures, hourly, daily>>, job' \in JobType, RowsAsRead', job'.doomed = job.doomed
  PROVE  TiersInv'
<1> USE DEF TiersInv
<1>1. TierTypes' /\ RunsRecent'
  BY RunsUntouched DEF TierTypes
<1>2. now \in Nat /\ now <= now
  BY HourFacts DEF TierTypes
<1> QED
  BY <1>1, <1>2, DaysKept

LEMMA PlainJobSteps ==
  ASSUME TiersInv, StartJob \/ DeleteExpiredRawRuns \/ DisassociateSystem
  PROVE  TiersInv'
<1> USE DEF TiersInv
<1>1. UNCHANGED <<now, run, failures, hourly, daily>>
  BY DEF StartJob, DeleteExpiredRawRuns, DisassociateSystem, historyVars
<1>2. CASE UNCHANGED job
  <2>1. job' \in JobType /\ RowsAsRead'
    BY <1>1, <1>2 DEF TierTypes, RowsAsRead, OldHour, Day
  <2> QED
    BY <1>1, <1>2, <2>1, JobGoesOn
<1>3. CASE (JobAt("raw") /\ job.pc = "idle") \/ (JobAt("select") /\ job.pc = "raw")
  <2>1. job' \in JobType /\ job'.pc \notin {"insert", "delete"} /\ job'.days = job.days /\ job'.doomed = job.doomed
        /\ job.doomed = {}
    BY <1>3, JobMoves DEF RowsAsRead
  <2>2. RowsAsRead'
    BY <2>1 DEF RowsAsRead
  <2> QED
    BY <1>1, <2>1, <2>2, JobGoesOn
<1> QED
  BY <1>2, <1>3 DEF StartJob, DeleteExpiredRawRuns, DisassociateSystem

LEMMA ReadOldHourlyKeeps ==
  ASSUME TiersInv, ReadOldHourly
  PROVE  TiersInv'
<1> USE DEF TiersInv
<1> DEFINE old == {h \in Hours : hourly[h] # None /\ OldHour(h)}
           rows == [h \in Hours |-> IF h \in old THEN hourly[h] ELSE None]
           days == {Day(h) : h \in old}
           pc == IF old = {} THEN "expire" ELSE "insert"
<1>1. /\ job' = [pc |-> pc, old |-> rows, days |-> days, doomed |-> {}]
      /\ job.pc = "select" /\ UNCHANGED <<now, run, failures, hourly, daily>>
  BY DEF ReadOldHourly, historyVars
<1>2. rows \in [Hours -> Rows]
  BY DEF TierTypes, Rows
<1>3. days \subseteq Days
  <2>1. \A h \in Hours : Day(h) \in Days
    <3> SUFFICES ASSUME NEW h \in Hours PROVE Day(h) \in Days
      OBVIOUS
    <3>1. h \in Nat /\ MaxHour \in Nat /\ h <= MaxHour
      BY HourFacts DEF Hours
    <3>2. Day(h) <= Day(MaxHour)
      BY <3>1, DaysInOrder
    <3> QED
      BY <3>1, <3>2, DayBounds DEF Days
  <2> QED
    BY <2>1
<1>4. \A h \in Hours : rows[h] # None => OldHour(h) /\ hourly[h] = rows[h]
  OBVIOUS
<1> HIDE DEF rows, days
<1>5. job' \in JobType
  BY <1>1, <1>2, <1>3 DEF JobType
<1>6. RowsAsRead'
  BY <1>1, <1>4 DEF RowsAsRead, Hours, Day, OldHour
<1>7. job'.doomed = job.doomed
  BY <1>1 DEF RowsAsRead
<1> QED
  BY <1>1, <1>5, <1>6, <1>7, JobGoesOn

LEMMA TickKeeps ==
  ASSUME TiersInv, Tick
  PROVE  TiersInv'
<1> USE DEF TiersInv
<1>1. UNCHANGED <<run, hourly, daily, job, failures>> /\ now' = now + 1 /\ now < MaxHour
      /\ \A r \in Runs : Counting(r) => now + 1 - run[r].at <= MaxExecutionHours
  BY DEF Tick, historyVars
<1>2. now \in Nat /\ MaxHour \in Nat
  BY HourFacts DEF TierTypes
<1>3. now' \in Nat /\ now' \in Hours /\ now <= now'
  BY <1>1, <1>2 DEF Hours
<1>4. TierTypes'
  BY <1>1, <1>3 DEF TierTypes, Hours, Days, Day
<1>5. RunsRecent'
  <2> SUFFICES ASSUME NEW r \in Runs, Counting(r)
               PROVE  run[r].at <= run[r].hour /\ run[r].hour <= now' /\ now' <= run[r].at + MaxExecutionHours
    BY <1>1 DEF RunsRecent, Counting
  <2>1. run[r].at \in Nat /\ run[r].hour \in Nat /\ MaxExecutionHours \in Nat
    BY RunTypesIs, HourFacts, BoundAssumption DEF RunType
  <2> QED
    BY <1>1, <1>2, <2>1 DEF RunsRecent
<1>6. RowsAsRead'
  <2>1. \A h \in Hours : OldHour(h) => OldHour(h)'
    BY <1>2, <1>3, OldStays, HourFacts
  <2> QED
    BY <1>1, <2>1 DEF RowsAsRead, Day, Hours, TierTypes, JobType
<1>7. DaysConserved'
  BY <1>1, <1>3, DaysKept
<1> QED
  BY <1>4, <1>5, <1>6, <1>7

LEMMA IdleJobIs == IdleJob \in JobType /\ IdleJob.pc = "idle" /\ IdleJob.doomed = {}
<1>1. PICK pc \in {"idle", "raw", "select", "insert", "delete", "expire"} : pc = "idle"
  OBVIOUS
<1>2. PICK none \in SUBSET Days, nothing \in SUBSET Hours : none = {} /\ nothing = {}
  OBVIOUS
<1>3. [h \in Hours |-> None] \in [Hours -> Rows]
  BY DEF Rows
<1>4. IdleJob = [pc |-> pc, old |-> [h \in Hours |-> None], days |-> none, doomed |-> nothing]
  BY <1>1, <1>2 DEF IdleJob
<1> QED
  BY <1>1, <1>2, <1>3, <1>4 DEF JobType

\* A job that breaks off leaves no fewer runs in the tiers.
LEMMA FailureKeeps ==
  ASSUME TiersInv, Crash \/ JobFails
  PROVE  TiersInv'
<1> USE DEF TiersInv
<1>1. UNCHANGED <<now, hourly, daily>> /\ failures' = failures + 1 /\ failures \in Nat /\ job' = IdleJob
  BY DEF Crash, JobFails, TierTypes
<1>2. /\ run' \in [Runs -> RunType]
      /\ \A r \in Runs : run'[r] = run[r] \/ (Counting(r) /\ run'[r].pc = "lost")
  <2>1. CASE run' = run
    BY <2>1 DEF TierTypes
  <2>2. CASE run' = [r \in Runs |-> IF Counting(r) THEN [run[r] EXCEPT !.pc = "lost"] ELSE run[r]]
    <3>1. \A r \in Runs : LET lost == [run[r] EXCEPT !.pc = "lost"] IN lost \in RunType /\ lost.pc = "lost"
      BY RunTypesIs DEF RunType
    <3> QED
      BY <2>2, <3>1, RunTypesIs
  <2> QED
    BY <2>1, <2>2 DEF Crash, JobFails
<1>3. \A r \in Runs : (run[r].pc = "counted" <=> run'[r].pc = "counted")
                      /\ (run[r].pc = "counted" => run'[r].hour = run[r].hour)
  BY <1>2 DEF Counting
<1>4. {s \in Runs : run'[s].pc = "counted"} = {s \in Runs : run[s].pc = "counted"}
  BY <1>3
<1>5. TierTypes'
  <2>1. job' \in JobType /\ failures' \in Nat
    BY <1>1, IdleJobIs
  <2>2. Hours' = Hours /\ Days' = Days /\ JobType' = JobType
    BY DEF Hours, Days, Day, JobType
  <2> QED
    BY <1>1, <1>2, <1>4, <2>1, <2>2 DEF TierTypes
<1>6. RunsRecent'
  BY <1>1, <1>2 DEF RunsRecent, Counting
<1>7. RowsAsRead'
  BY <1>1, IdleJobIs DEF RowsAsRead
<1>8. DaysConserved'
  <2> SUFFICES ASSUME NEW d \in Days, ~ExpiredDay(d) PROVE DayConserved(d)'
    BY <1>1 DEF DaysConserved, ExpiredDay, Days, Day
  <2> DEFINE H == HoursOf(d)
             C == CountedIn(d)
  <2>1. DayConserved(d)
    BY DEF DaysConserved
  <2>2. HoursOf(d)' = H /\ CountedIn(d)' = C /\ H \in SUBSET Hours
    BY <1>3, HourFacts DEF HoursOf, Hours, Day, CountedIn
  <2>3. Kept(d) = RunsIn(hourly, H \ job.doomed) /\ Kept(d)' = RunsIn(hourly', H \ {})
    BY <1>1, <2>2, IdleJobIs DEF Kept
  <2>4. Kept(d)' = RunsIn(hourly, H)
    <3>1. H \ {} = H
      OBVIOUS
    <3> QED
      BY <1>1, <2>3, <3>1
  <2> HIDE DEF H, C
  <2>5. PICK A \in SUBSET H : A = H \cap job.doomed
    OBVIOUS
  <2>6. /\ RunsIn(hourly, H) = RunsIn(hourly, A) + RunsIn(hourly, H \ A) /\ H \ A = H \ job.doomed
        /\ RunsIn(hourly, A) \in Nat /\ RunsIn(hourly, H \ A) \in Nat
    <3>1. H \ A \in SUBSET Hours /\ A \in SUBSET Hours
      BY <2>2
    <3>2. IsFiniteSet(H) /\ (\A h \in H : RunsOf(hourly[h]) \in Nat)
          /\ RunsIn(hourly, A) \in Nat /\ RunsIn(hourly, H \ A) \in Nat
      BY <2>2, <3>1, KeptIsNumber DEF TierTypes
    <3>3. RunsIn(hourly, H) = RunsIn(hourly, A) + RunsIn(hourly, H \ A)
      BY <3>2, SumSplits
    <3> QED
      BY <2>5, <3>2, <3>3
  <2>7. RunsOf(daily[d]) \in Nat /\ Cardinality(C) \in Nat
    <3>1. C \in SUBSET {s \in Runs : run[s].pc = "counted"}
      BY DEF CountedIn, C
    <3> QED
      BY <3>1, RowFacts, FS_Subset, FS_CardinalityType DEF TierTypes
  <2>8. RunsOf(daily[d]) + RunsIn(hourly, H \ A) >= Cardinality(C)
    BY <2>1, <2>3, <2>6 DEF DayConserved, C
  <2>9. RunsOf(daily[d]) + RunsIn(hourly, H) >= Cardinality(C)
    BY <2>6, <2>7, <2>8
  <2>10. failures' # 0
    BY <1>1
  <2> QED
    BY <1>1, <2>2, <2>4, <2>9, <2>10 DEF DayConserved, C
<1> QED
  BY <1>5, <1>6, <1>7, <1>8

\* A step of the job that moves counts, day by day.
LEMMA DaysMoved ==
  ASSUME TiersInv, UNCHANGED <<now, run, failures>>,
         \A d \in Days : ~ExpiredDay(d) => RunsOf(daily'[d]) + Kept(d)' = RunsOf(daily[d]) + Kept(d)
  PROVE  DaysConserved'
<1>1. \A d \in Days : CountedIn(d)' = CountedIn(d)
  BY DEF CountedIn, Day
<1>2. \A d \in Days : ~ExpiredDay(d) /\ DayConserved(d) => DayConserved(d)'
  BY <1>1 DEF DayConserved
<1>3. Days' = Days /\ \A d \in Days : ExpiredDay(d)' <=> ExpiredDay(d)
  BY DEF Days, Day, ExpiredDay
<1> QED
  BY <1>2, <1>3 DEF TiersInv, DaysConserved

\* The daily row counts the runs of the hourly rows that are deleted then.
LEMMA RollUpCounts ==
  ASSUME TiersInv, job.pc = "insert", NEW d \in job.days, daily[d] = None, NEW hours,
         hours = {h \in HoursOf(d) : job.old[h] # None}
  PROVE  /\ RollUp(hours) \in Rows
         /\ RunsOf(daily[d]) + Kept(d) = RunsOf(RollUp(hours)) + RunsIn(hourly, HoursOf(d) \ hours)
<1> USE DEF TiersInv
<1> DEFINE H == HoursOf(d)
           mins == {job.old[h].min : h \in hours}
<1>1. H \in SUBSET Hours /\ hours \in SUBSET H /\ hours \in SUBSET Hours
      /\ job.old \in [Hours -> Rows] /\ hourly \in [Hours -> Rows]
  BY HourFacts DEF TierTypes, JobType
<1>2. \A h \in hours : job.old[h] # None /\ hourly[h] = job.old[h]
  <2>1. \A h \in hours : Day(h) = d /\ h \in Hours
    BY DEF HoursOf
  <2> QED
    BY <2>1 DEF RowsAsRead
<1>3. RunsIn(job.old, hours) \in Nat /\ RunsIn(hourly, hours) = RunsIn(job.old, hours)
  <2>1. IsFiniteSet(hours) /\ RunsIn(job.old, hours) \in Nat
    BY <1>1, KeptIsNumber
  <2>2. \A h \in hours : RunsOf(hourly[h]) = RunsOf(job.old[h])
    BY <1>2
  <2> QED
    BY <2>1, <2>2, SumsSame
<1>4. mins \subseteq Latencies \cup {None}
  <2>1. \A h \in hours : job.old[h] \in [runs : Nat, min : Latencies \cup {None}]
    BY <1>1, <1>2 DEF Rows
  <2> QED
    BY <2>1
<1>5. Least(mins) \in Latencies \cup {None}
  BY <1>4, LeastType
<1>6. RollUp(hours) = [runs |-> RunsIn(job.old, hours), min |-> Least(mins)]
  BY DEF RollUp
<1>7. RollUp(hours) \in Rows /\ RunsOf(RollUp(hours)) = RunsIn(job.old, hours)
  <2>1. PICK n \in Nat, min \in Latencies \cup {None} : n = RunsIn(job.old, hours) /\ min = Least(mins)
    BY <1>3, <1>5
  <2>2. RollUp(hours) = [runs |-> n, min |-> min]
    BY <1>6, <2>1
  <2>3. [runs |-> n, min |-> min] \in Rows /\ RunsOf([runs |-> n, min |-> min]) = n
    BY <2>1, RowFacts
  <2> QED
    BY <2>1, <2>2, <2>3
<1>8. Kept(d) = RunsIn(hourly, H) /\ RunsOf(daily[d]) = 0
  <2>1. job.doomed = {} /\ H \ {} = H
    BY DEF RowsAsRead
  <2> QED
    BY <2>1, RowFacts DEF Kept
<1> HIDE DEF H
<1>9. /\ RunsIn(hourly, H) = RunsIn(hourly, hours) + RunsIn(hourly, H \ hours)
      /\ RunsIn(hourly, H) \in Nat
  <2>1. IsFiniteSet(H) /\ (\A h \in H : RunsOf(hourly[h]) \in Nat) /\ RunsIn(hourly, H) \in Nat
    BY <1>1, KeptIsNumber
  <2> QED
    BY <1>1, <2>1, SumSplits
<1>10. RunsOf(daily[d]) + Kept(d) = RunsOf(RollUp(hours)) + RunsIn(hourly, H \ hours)
  BY <1>3, <1>7, <1>8, <1>9
<1> QED
  BY <1>7, <1>10 DEF H

LEMMA InsertDailyKeeps ==
  ASSUME TiersInv, InsertDaily
  PROVE  TiersInv'
<1> USE DEF TiersInv
<1>1. job.pc = "insert" /\ UNCHANGED <<now, run, hourly, failures>> /\ job.doomed = {}
  BY DEF InsertDaily, historyVars, RowsAsRead
<1>2. PICK d \in job.days :
        \/ daily[d] # None /\ job' = IdleJob /\ UNCHANGED daily
        \/ /\ daily[d] = None
           /\ daily' = [daily EXCEPT ![d] = RollUp({h \in HoursOf(d) : job.old[h] # None})]
           /\ job' = [job EXCEPT !.pc = "delete", !.days = @ \ {d},
                                 !.doomed = {h \in HoursOf(d) : job.old[h] # None}]
  BY DEF InsertDaily
<1>3. CASE job' = IdleJob /\ UNCHANGED daily
  <2>1. job' \in JobType /\ job'.doomed = job.doomed /\ RowsAsRead'
    BY <1>1, <1>3, IdleJobIs DEF RowsAsRead
  <2> QED
    BY <1>1, <1>3, <2>1, JobGoesOn
<1>4. ASSUME NEW hours, hours = {h \in HoursOf(d) : job.old[h] # None}, daily[d] = None,
             daily' = [daily EXCEPT ![d] = RollUp(hours)],
             job' = [job EXCEPT !.pc = "delete", !.days = job.days \ {d}, !.doomed = hours]
      PROVE  TiersInv'
  <2>1. d \in Days /\ job \in JobType
    BY DEF TierTypes, JobType
  <2>2. RollUp(hours) \in Rows
        /\ RunsOf(daily[d]) + Kept(d) = RunsOf(RollUp(hours)) + RunsIn(hourly, HoursOf(d) \ hours)
    BY <1>1, <1>4, RollUpCounts
  <2>3. daily' \in [Days -> Rows] /\ daily'[d] = RollUp(hours) /\ \A e \in Days \ {d} : daily'[e] = daily[e]
    BY <1>4, <2>1, <2>2 DEF TierTypes
  <2>4. hours \subseteq HoursOf(d) /\ hours \in SUBSET Hours
    BY <1>4, HourFacts
  <2>5. job' \in JobType /\ job'.pc = "delete" /\ job'.days = job.days \ {d} /\ job'.doomed = hours
        /\ job'.old = job.old
    BY <1>4, <2>1, <2>4 DEF JobType
  <2>6. TierTypes' /\ RunsRecent' /\ \A e \in Days : HoursOf(e)' = HoursOf(e)
    BY <1>1, <2>3, <2>5, RunsUntouched DEF TierTypes
  <2>7. RowsAsRead'
    <3>1. \A h \in hours : OldHour(h) /\ Day(h) = d
      <4>1. \A h \in hours : h \in Hours /\ Day(h) = d /\ job.old[h] # None
        BY <1>4 DEF HoursOf
      <4> QED
        BY <1>1, <4>1 DEF RowsAsRead
    <3>2. Hours' = Hours /\ \A h : Day(h)' = Day(h) /\ (OldHour(h)' <=> OldHour(h))
      BY <1>1 DEF Hours, Day, OldHour
    <3>3. \A h \in Hours : Day(h) \in job'.days /\ job'.old[h] # None => OldHour(h) /\ hourly'[h] = job'.old[h]
      BY <1>1, <2>5 DEF RowsAsRead
    <3> QED
      BY <2>5, <3>1, <3>2, <3>3 DEF RowsAsRead
  <2>8. \A e \in Days : RunsOf(daily'[e]) + Kept(e)' = RunsOf(daily[e]) + Kept(e)
    <3> SUFFICES ASSUME NEW e \in Days PROVE RunsOf(daily'[e]) + Kept(e)' = RunsOf(daily[e]) + Kept(e)
      OBVIOUS
    <3>1. Kept(e)' = RunsIn(hourly, HoursOf(e) \ hours) /\ Kept(e) = RunsIn(hourly, HoursOf(e) \ {})
      BY <1>1, <2>5, <2>6 DEF Kept
    <3>2. CASE e = d
      BY <2>2, <2>3, <3>1, <3>2
    <3>3. CASE e # d
      <4>1. HoursOf(e) \ hours = HoursOf(e) \ {}
        BY <2>4, <3>3 DEF HoursOf
      <4> QED
        BY <2>3, <3>1, <3>3, <4>1
    <3> QED
      BY <3>2, <3>3
  <2>9. DaysConserved'
    BY <1>1, <2>8, DaysMoved
  <2> QED
    BY <2>6, <2>7, <2>9
<1> QED
  BY <1>2, <1>3, <1>4

LEMMA DeleteHourlyKeeps ==
  ASSUME TiersInv, DeleteHourly
  PROVE  TiersInv'
<1> USE DEF TiersInv
<1>1. job.pc = "delete" /\ UNCHANGED <<now, run, daily, failures>>
  BY DEF DeleteHourly, historyVars
<1>2. PICK h \in job.doomed :
        /\ hourly' = [hourly EXCEPT ![h] = None]
        /\ job' = [job EXCEPT !.doomed = @ \ {h},
                              !.pc = IF job.doomed # {h} THEN "delete"
                                     ELSE IF job.days # {} THEN "insert" ELSE "expire"]
  BY DEF DeleteHourly
<1>3. PICK pc \in {"insert", "delete", "expire"} :
        /\ job' = [job EXCEPT !.doomed = job.doomed \ {h}, !.pc = pc]
        /\ pc # "delete" => job.doomed = {h}
  BY <1>2
<1>4. job \in JobType /\ h \in Hours /\ job.doomed \in SUBSET Hours
  BY DEF TierTypes, JobType
<1>5. job' \in JobType /\ job'.pc = pc /\ job'.doomed = job.doomed \ {h} /\ job'.days = job.days /\ job'.old = job.old
  BY <1>3, <1>4 DEF JobType
<1>6. /\ hourly' \in [Hours -> Rows] /\ hourly'[h] = None
      /\ \A k \in Hours \ {h} : hourly'[k] = hourly[k]
  BY <1>2, <1>4 DEF TierTypes, Rows
<1>7. TierTypes' /\ RunsRecent' /\ \A d \in Days : HoursOf(d)' = HoursOf(d)
  BY <1>1, <1>5, <1>6, RunsUntouched DEF TierTypes
<1>8. RowsAsRead'
  <2>1. Hours' = Hours /\ \A k : Day(k)' = Day(k) /\ (OldHour(k)' <=> OldHour(k))
    BY <1>1 DEF Hours, Day, OldHour
  <2>2. Day(h) \notin job.days
    BY DEF RowsAsRead
  <2>3. \A k \in Hours : Day(k) \in job'.days /\ job'.old[k] # None => OldHour(k) /\ hourly'[k] = job'.old[k]
    BY <1>1, <1>5, <1>6, <2>2 DEF RowsAsRead
  <2>4. job'.pc # "delete" => job'.doomed = {}
    BY <1>3, <1>5
  <2>5. \A k \in job'.doomed : OldHour(k) /\ Day(k) \notin job'.days
    BY <1>5 DEF RowsAsRead
  <2> QED
    BY <2>1, <2>3, <2>4, <2>5 DEF RowsAsRead
<1>9. \A d \in Days : Kept(d)' = Kept(d)
  <2> SUFFICES ASSUME NEW d \in Days PROVE Kept(d)' = Kept(d)
    OBVIOUS
  <2> DEFINE rest == HoursOf(d) \ job.doomed
             new == HoursOf(d) \ (job.doomed \ {h})
  <2>1. Kept(d)' = RunsIn(hourly', new) /\ Kept(d) = RunsIn(hourly, rest)
    BY <1>5, <1>7 DEF Kept
  <2>2. rest \in SUBSET Hours /\ new \in SUBSET Hours /\ h \notin rest
        /\ (h \in new => new \ {h} = rest) /\ (h \notin new => new = rest)
    BY HourFacts
  <2>3. RunsIn(hourly', rest) = RunsIn(hourly, rest)
    <3>1. IsFiniteSet(rest) /\ \A k \in rest : RunsOf(hourly[k]) = RunsOf(hourly'[k])
      BY <1>6, <2>2, KeptIsNumber DEF TierTypes
    <3> QED
      BY <3>1, SumsSame
  <2> HIDE DEF rest, new
  <2>4. CASE h \in new
    <3>1. IsFiniteSet(new) /\ (\A k \in new : RunsOf(hourly'[k]) \in Nat)
      BY <1>6, <2>2, KeptIsNumber
    <3>2. RunsIn(hourly', new) = RunsOf(hourly'[h]) + RunsIn(hourly', rest)
      BY <2>2, <2>4, <3>1, SumTakesOut
    <3>3. RunsOf(hourly'[h]) = 0 /\ RunsIn(hourly', rest) \in Nat
      BY <1>6, <2>2, RowFacts, KeptIsNumber
    <3> QED
      BY <2>1, <2>3, <3>2, <3>3
  <2> QED
    BY <2>1, <2>2, <2>3, <2>4
<1>10. DaysConserved'
  BY <1>1, <1>9, DaysMoved
<1> QED
  BY <1>7, <1>8, <1>10

LEMMA ExpireKeeps ==
  ASSUME TiersInv, DeleteExpiredAggregates
  PROVE  TiersInv'
<1> USE DEF TiersInv
<1>1. /\ daily' = [d \in Days |-> IF ExpiredDay(d) THEN None ELSE daily[d]]
      /\ job' = IdleJob /\ job.doomed = {} /\ UNCHANGED <<now, run, hourly, failures>>
  BY DEF DeleteExpiredAggregates, historyVars, RowsAsRead
<1>2. daily' \in [Days -> Rows]
  <2>1. None \in Rows
    BY DEF Rows
  <2> QED
    BY <1>1, <2>1 DEF TierTypes
<1>3. job' \in JobType /\ job'.pc = "idle" /\ job'.doomed = {}
  BY <1>1, IdleJobIs
<1>4. TierTypes' /\ RunsRecent' /\ \A d \in Days : HoursOf(d)' = HoursOf(d)
  BY <1>1, <1>2, <1>3, RunsUntouched DEF TierTypes
<1>5. RowsAsRead'
  BY <1>3 DEF RowsAsRead
<1>6. \A d \in Days : ~ExpiredDay(d) => daily'[d] = daily[d] /\ Kept(d)' = Kept(d)
  BY <1>1, <1>3, <1>4 DEF Kept
<1>7. DaysConserved'
  BY <1>1, <1>6, DaysMoved
<1> QED
  BY <1>4, <1>5, <1>7

LEMMA TiersInit ==
  ASSUME Init
  PROVE  TiersInv
<1>1. /\ now = 0 /\ failures = 0 /\ job = IdleJob
      /\ run = [r \in Runs |-> [pc |-> "waiting", at |-> 0, hour |-> 0, latency |-> None, min |-> None]]
      /\ hourly = [h \in Hours |-> None] /\ daily = [d \in Days |-> None]
  BY DEF Init
<1>2. {r \in Runs : run[r].pc = "counted"} = {}
  BY <1>1
<1>3. TierTypes
  <2>1. now \in Hours
    BY <1>1, HourFacts DEF Hours
  <2>2. hourly \in [Hours -> Rows] /\ daily \in [Days -> Rows]
    BY <1>1 DEF Rows
  <2>3. run \in [Runs -> RunType]
    BY <1>1, <2>1 DEF RunType
  <2> QED
    BY <1>1, <1>2, <2>1, <2>2, <2>3, IdleJobIs, FS_EmptySet DEF TierTypes
<1>4. RunsRecent
  BY <1>1 DEF RunsRecent, Counting
<1>5. RowsAsRead
  BY <1>1, IdleJobIs DEF RowsAsRead
<1>6. ASSUME NEW d \in Days PROVE DayConserved(d)
  <2> DEFINE S == HoursOf(d) \ job.doomed
             C == CountedIn(d)
  <2>1. C = {}
    BY <1>2 DEF CountedIn
  <2>2. IsFiniteSet(S) /\ S \in SUBSET Hours
    <3>1. S \in SUBSET Hours
      BY HourFacts
    <3> QED
      BY <1>3, <3>1, KeptIsNumber DEF TierTypes
  <2> HIDE DEF S, C
  <2>3. RunsIn(hourly, S) = 0
    <3> DEFINE Bad == {s \in SUBSET S : RunsIn(hourly, s) # 0}
    <3> SUFFICES ASSUME Bad # {} PROVE FALSE
      OBVIOUS
    <3>1. \A s \in SUBSET S : IsFiniteSet(s)
      BY <2>2, FS_Subset
    <3>2. PICK s \in Bad : \A t \in Bad : Cardinality(s) <= Cardinality(t)
      BY <3>1, LeastSet
    <3>3. s \in SUBSET S /\ IsFiniteSet(s) /\ RunsIn(hourly, s) # 0
      BY <3>1
    <3>4. s # {} /\ RunsIn(hourly, s) = RunsOf(hourly[Pick(s)]) + RunsIn(hourly, WithoutPick(s))
      BY <3>3, SumRecursion
    <3>5. Pick(s) \in Hours /\ WithoutPick(s) \in SUBSET S /\ ~(Cardinality(s) <= Cardinality(WithoutPick(s)))
      BY <2>2, <3>3, <3>4, PickSmaller
    <3>6. RunsIn(hourly, WithoutPick(s)) = 0
      BY <3>2, <3>5
    <3>7. RunsOf(hourly[Pick(s)]) = 0
      BY <1>1, <3>5, RowFacts
    <3> QED
      BY <3>3, <3>4, <3>6, <3>7
  <2>4. Kept(d) = 0 /\ RunsOf(daily[d]) = 0 /\ Cardinality(CountedIn(d)) = 0
    BY <1>1, <2>1, <2>3, RowFacts, FS_EmptySet DEF Kept, S, C
  <2> QED
    BY <2>4 DEF DayConserved
<1> QED
  BY <1>3, <1>4, <1>5, <1>6 DEF TiersInv, DaysConserved

LEMMA TiersStep ==
  ASSUME TiersInv, [Next]_vars
  PROVE  TiersInv'
<1>1. CASE Store
  BY <1>1, StoreRunKeeps DEF Store
<1>2. CASE Count
  BY <1>2, ReadBucketKeeps, WriteBucketKeeps DEF Count
<1>3. CASE StartJob \/ DeleteExpiredRawRuns \/ DisassociateSystem
  BY <1>3, PlainJobSteps
<1>4. CASE ReadOldHourly \/ InsertDaily \/ DeleteHourly \/ DeleteExpiredAggregates
  BY <1>4, ReadOldHourlyKeeps, InsertDailyKeeps, DeleteHourlyKeeps, ExpireKeeps
<1>5. CASE Tick
  BY <1>5, TickKeeps
<1>6. CASE Crash \/ JobFails
  BY <1>6, FailureKeeps
<1>7. CASE UNCHANGED vars
  <2>1. UNCHANGED <<now, run, failures, hourly, daily, job>>
    BY <1>7 DEF vars, historyVars
  <2>2. job' \in JobType /\ RowsAsRead'
    BY <2>1 DEF TiersInv, TierTypes, RowsAsRead, OldHour, Day, Hours
  <2> QED
    BY <2>1, <2>2, JobGoesOn
<1> QED
  BY <1>1, <1>2, <1>3, <1>4, <1>5, <1>6, <1>7 DEF Next, JobStep

\* Whatever fails, the rows of a day count all its runs.
LEMMA TiersCount ==
  ASSUME TiersInv
  PROVE  CountsConserved /\ CountsNotLost
<1> USE DEF TiersInv
<1>1. CountsConserved
  BY DEF CountsConserved, DaysConserved, DayConserved, Kept
<1>2. ASSUME NEW d \in Days, DayConserved(d)
      PROVE  RunsOf(daily[d]) + RunsIn(hourly, HoursOf(d)) >= Cardinality(CountedIn(d))
  <2> DEFINE H == HoursOf(d)
             C == CountedIn(d)
  <2>1. H \in SUBSET Hours
    BY HourFacts
  <2>2. PICK A \in SUBSET H : A = H \cap job.doomed /\ H \ A = H \ job.doomed
    <3>1. H \ (H \cap job.doomed) = H \ job.doomed /\ H \cap job.doomed \in SUBSET H
      OBVIOUS
    <3> QED
      BY <3>1
  <2>3. /\ IsFiniteSet(H) /\ (\A h \in H : RunsOf(hourly[h]) \in Nat)
        /\ RunsIn(hourly, A) \in Nat /\ RunsIn(hourly, H \ A) \in Nat
    <3>1. H \ A \in SUBSET Hours /\ A \in SUBSET Hours
      BY <2>1
    <3> QED
      BY <2>1, <3>1, KeptIsNumber DEF TierTypes
  <2>4. RunsOf(daily[d]) + RunsIn(hourly, H \ A) >= Cardinality(C)
    BY <1>2, <2>2 DEF DayConserved, Kept
  <2> HIDE DEF H
  <2>5. RunsIn(hourly, H) = RunsIn(hourly, A) + RunsIn(hourly, H \ A)
    BY <2>3, SumSplits
  <2>6. RunsOf(daily[d]) \in Nat /\ Cardinality(C) \in Nat
    <3>1. C \in SUBSET {s \in Runs : run[s].pc = "counted"}
      BY DEF CountedIn
    <3> QED
      BY <3>1, RowFacts, FS_Subset, FS_CardinalityType DEF TierTypes
  <2> HIDE DEF C
  <2>7. RunsOf(daily[d]) + RunsIn(hourly, H) >= Cardinality(C)
    BY <2>3, <2>4, <2>5, <2>6
  <2> QED
    BY <2>7 DEF H, C
<1>3. CountsNotLost
  BY <1>2 DEF CountsNotLost, DaysConserved
<1> QED
  BY <1>1, <1>3

\* Types (healthCheckRuns, healthCheckAggregates and the retention job).
THEOREM TiersTypesCorrect == Spec => []TypeOK
<1> DEFINE Rest == /\ assigned \in BOOLEAN /\ raw \subseteq Runs /\ overlapped \in BOOLEAN
                   /\ lastJob \in Days \cup {None} /\ failures \in 0..MaxFailures
<1>1. Init => TiersInv /\ Rest
  <2>1. 0 \in 0..MaxFailures
    BY BoundAssumption
  <2> QED
    BY <2>1, TiersInit DEF Init
<1>2. TiersInv /\ Rest /\ [Next]_vars => TiersInv' /\ Rest'
  <2> SUFFICES ASSUME TiersInv, Rest, [Next]_vars PROVE Rest'
    BY TiersStep
  <2>1. MaxFailures \in Nat /\ Days' = Days
    BY BoundAssumption DEF Days, Day
  <2>2. ASSUME NEW r \in Runs, StoreRun(r) \/ ReadBucket(r) \/ WriteBucket(r) PROVE Rest'
    BY <2>1, <2>2 DEF StoreRun, ReadBucket, WriteBucket, historyVars
  <2>3. CASE StartJob
    <3>1. now \in Hours /\ now \in Nat /\ MaxHour \in Nat /\ now <= MaxHour
      BY HourFacts DEF TiersInv, TierTypes, Hours
    <3>2. Day(now) \in Days
      BY <3>1, DaysInOrder, DayBounds DEF Days
    <3> QED
      BY <2>1, <2>3, <3>2 DEF StartJob, historyVars
  <2>4. CASE JobStep
    BY <2>1, <2>4 DEF JobStep, DeleteExpiredRawRuns, ReadOldHourly, InsertDaily, DeleteHourly,
                      DeleteExpiredAggregates, historyVars
  <2>5. CASE Tick \/ DisassociateSystem \/ UNCHANGED vars
    BY <2>1, <2>5 DEF Tick, DisassociateSystem, vars, historyVars
  <2>6. CASE Crash \/ JobFails
    BY <2>1, <2>6 DEF Crash, JobFails
  <2> QED
    BY <2>2, <2>3, <2>4, <2>5, <2>6 DEF Next, Store, Count
<1>3. TiersInv /\ Rest => TypeOK
  BY DEF TiersInv, TierTypes, RunType, JobType, TypeOK
<1> QED
  BY <1>1, <1>2, <1>3, PTL DEF Spec

\* As long as the retention job runs to its end, the daily row of a day and those of its
\* hourly rows that are not being deleted add up to the runs counted in the day, until
\* it expires: incrementHourlyAggregate and the job lose and double none, for any
\* number of runs that overlap in any order, and for every setting of the retention.
THEOREM CountsConservedCorrect == Spec => []CountsConserved
<1>1. Init => TiersInv
  BY TiersInit
<1>2. TiersInv /\ [Next]_vars => TiersInv'
  BY TiersStep
<1>3. TiersInv => CountsConserved
  BY TiersCount
<1> QED
  BY <1>1, <1>2, <1>3, PTL DEF Spec

\* Crashes and failed statements of the job lose no run counted: the rows of a day that
\* has not expired add up to at least the runs counted in it.
THEOREM CountsNotLostCorrect == Spec => []CountsNotLost
<1>1. Init => TiersInv
  BY TiersInit
<1>2. TiersInv /\ [Next]_vars => TiersInv'
  BY TiersStep
<1>3. TiersInv => CountsNotLost
  BY TiersCount
<1> QED
  BY <1>1, <1>2, <1>3, PTL DEF Spec

-----------------------------------------------------------------------------
(* HealthHistory: what the tiers hold hour by hour and day by day, and what a
   question has read of them. *)

OldDay(d) == d < Day(now) - hourlyRetentionDays
Counted == {r \in Runs : run[r].pc = "counted"}
CountedAt(h) == {r \in Runs : run[r].pc = "counted" /\ run[r].hour = h}

\* The row of an hour counts its runs, until it is deleted.
HoursCounted ==
  \A h \in Hours :
    /\ RunsOf(hourly[h]) <= Cardinality(CountedAt(h))
    /\ ~OldHour(h) => RunsOf(hourly[h]) = Cardinality(CountedAt(h))

\* A day with a daily row is old, and its hourly rows are being deleted or have been.
DaysRolledUp ==
  \A d \in Days : daily[d] # None =>
    /\ OldDay(d) /\ RunsOf(daily[d]) <= Cardinality(CountedIn(d))
    /\ failures = 0 => \A h \in HoursOf(d) : hourly[h] = None \/ h \in job.doomed

\* The job has read all rows of the days before it, at least one of each.
JobReads ==
  job.pc \in {"insert", "delete"} =>
    /\ \A h \in Hours : Day(h) \in job.days => OldHour(h) /\ hourly[h] = job.old[h]
    /\ \A d \in job.days : \E h \in HoursOf(d) : job.old[h] # None

OldHourLeft(h) == OldHour(h) /\ hourly[h] # None

\* Once the job of the day has come to its end no old hourly row is left.
JobDone ==
  /\ lastJob # None => lastJob \in Nat /\ lastJob <= Day(now)
  /\ failures = 0 /\ assigned /\ lastJob = Day(now) =>
       /\ job.pc \in {"expire", "idle"} => \A h \in Hours : ~OldHourLeft(h)
       /\ job.pc \in {"insert", "delete"} =>
            \A h \in Hours : OldHourLeft(h) => Day(h) \in job.days \/ h \in job.doomed

HoursInv == HoursCounted /\ DaysRolledUp /\ JobReads /\ JobDone

Asking == question.pc # "idle"
AskedAt(h) == {r \in question.counted : run[r].hour = h}
AskedIn(d) == {r \in question.counted : Day(run[r].hour) = d}

AskTypes ==
  /\ QuestionTypeOK /\ question.counted \subseteq Counted
  /\ question.pc = "idle" => question = NotAsking

\* The hourly rows read.
HoursRead ==
  \A h \in Hours :
    /\ RunsOf(question.hourly[h]) <= Cardinality(CountedAt(h))
    /\ Asking /\ "hourly" \in question.read /\ ~OldHour(h) =>
         RunsOf(question.hourly[h]) >= Cardinality(AskedAt(h))

\* The daily rows read. With the hourly rows that are left, if any, they have all runs
\* of the old days, if nothing was rolled up since the question.
DaysRead ==
  /\ \A d \in Days : /\ RunsOf(question.daily[d]) <= Cardinality(CountedIn(d))
                     /\ question.daily[d] # None => OldDay(d)
  /\ Asking /\ ~question.torn =>
       /\ ~RollingUp
       /\ "daily" \in question.read /\ failures = 0 =>
            \A d \in Days : OldDay(d) /\ ~ExpiredDay(d) =>
              RunsOf(question.daily[d]) + RunsIn(hourly, HoursOf(d)) >= Cardinality(AskedIn(d))

AskInv == AskTypes /\ HoursRead /\ DaysRead

\* The elements of a finite set, told apart by a key of theirs.
WithKey(C, key, S) == {r \in C : key[r] \in S}

LEMMA KeysSplit ==
  ASSUME NEW C, IsFiniteSet(C), NEW key, NEW s, NEW p \in s
  PROVE  /\ Cardinality(WithKey(C, key, s)) =
              Cardinality(WithKey(C, key, {p})) + Cardinality(WithKey(C, key, s \ {p}))
         /\ Cardinality(WithKey(C, key, {p})) \in Nat /\ Cardinality(WithKey(C, key, s \ {p})) \in Nat
<1> DEFINE A == WithKey(C, key, {p})
           B == WithKey(C, key, s \ {p})
<1>1. A \in SUBSET C /\ B \in SUBSET C /\ WithKey(C, key, s) = A \cup B /\ A \cap B = {}
  BY DEF WithKey
<1> HIDE DEF A, B
<1>2. IsFiniteSet(A) /\ IsFiniteSet(B)
  BY <1>1, FS_Subset
<1>3. Cardinality(A \cup B) = Cardinality(A) + Cardinality(B) - Cardinality({})
  BY <1>1, <1>2, FS_Union
<1>4. Cardinality(A) \in Nat /\ Cardinality(B) \in Nat /\ Cardinality({}) = 0
  BY <1>2, FS_CardinalityType, FS_EmptySet
<1>5. \A n, m \in Nat : n + m - 0 = n + m
  OBVIOUS
<1>6. Cardinality(WithKey(C, key, s)) = Cardinality(A) + Cardinality(B)
  <2>1. Cardinality(WithKey(C, key, s)) = Cardinality(A) + Cardinality(B) - 0
    BY <1>1, <1>3, <1>4
  <2> QED
    BY <1>4, <1>5, <2>1
<1> QED
  BY <1>4, <1>6 DEF A, B

LEMMA NoKeys ==
  ASSUME NEW C, NEW key
  PROVE  Cardinality(WithKey(C, key, {})) = 0
<1>1. WithKey(C, key, {}) = {}
  BY DEF WithKey
<1> QED
  BY <1>1, FS_EmptySet

\* If each row counts at most, or at least, the elements with its key, so does the sum.
LEMMA CountsBelow ==
  ASSUME NEW rows, NEW S, IsFiniteSet(S), NEW C, IsFiniteSet(C), NEW key,
         \A h \in S : RunsOf(rows[h]) \in Nat /\ RunsOf(rows[h]) <= Cardinality(WithKey(C, key, {h}))
  PROVE  RunsIn(rows, S) <= Cardinality(WithKey(C, key, S))
<1> DEFINE Bad == {s \in SUBSET S : ~(RunsIn(rows, s) <= Cardinality(WithKey(C, key, s)))}
<1> SUFFICES ASSUME Bad # {} PROVE FALSE
  OBVIOUS
<1>1. \A s \in SUBSET S : IsFiniteSet(s) /\ RunsIn(rows, s) \in Nat
  BY FS_Subset, SumIsNumber
<1>2. PICK s \in Bad : \A t \in Bad : Cardinality(s) <= Cardinality(t)
  BY <1>1, LeastSet
<1>3. s \in SUBSET S /\ IsFiniteSet(s) /\ ~(RunsIn(rows, s) <= Cardinality(WithKey(C, key, s)))
  BY <1>1
<1>4. RunsIn(rows, s) = IF s = {} THEN 0 ELSE RunsOf(rows[Pick(s)]) + RunsIn(rows, WithoutPick(s))
  BY <1>3, SumRecursion
<1>5. s # {}
  BY <1>3, <1>4, NoKeys
<1> DEFINE p == Pick(s)
<1>6. p \in s /\ WithoutPick(s) = s \ {p} /\ ~(Cardinality(s) <= Cardinality(s \ {p}))
  BY <1>3, <1>5, PickSmaller DEF WithoutPick
<1> HIDE DEF p
<1>7. RunsIn(rows, s \ {p}) <= Cardinality(WithKey(C, key, s \ {p}))
  BY <1>2, <1>3, <1>6
<1>8. /\ Cardinality(WithKey(C, key, s)) =
           Cardinality(WithKey(C, key, {p})) + Cardinality(WithKey(C, key, s \ {p}))
      /\ Cardinality(WithKey(C, key, {p})) \in Nat /\ Cardinality(WithKey(C, key, s \ {p})) \in Nat
  BY <1>6, KeysSplit
<1>9. RunsIn(rows, s) = RunsOf(rows[p]) + RunsIn(rows, s \ {p})
  BY <1>4, <1>5, <1>6 DEF p
<1>10. RunsOf(rows[p]) \in Nat /\ RunsOf(rows[p]) <= Cardinality(WithKey(C, key, {p}))
  BY <1>3, <1>6
<1>11. RunsIn(rows, s \ {p}) \in Nat
  BY <1>1, <1>3
<1> HIDE DEF Bad
<1> QED
  BY <1>3, <1>7, <1>8, <1>9, <1>10, <1>11

LEMMA CountsAbove ==
  ASSUME NEW rows, NEW S, IsFiniteSet(S), NEW C, IsFiniteSet(C), NEW key,
         \A h \in S : RunsOf(rows[h]) \in Nat /\ RunsOf(rows[h]) >= Cardinality(WithKey(C, key, {h}))
  PROVE  RunsIn(rows, S) >= Cardinality(WithKey(C, key, S))
<1> DEFINE Bad == {s \in SUBSET S : ~(RunsIn(rows, s) >= Cardinality(WithKey(C, key, s)))}
<1> SUFFICES ASSUME Bad # {} PROVE FALSE
  OBVIOUS
<1>1. \A s \in SUBSET S : IsFiniteSet(s) /\ RunsIn(rows, s) \in Nat
  BY FS_Subset, SumIsNumber
<1>2. PICK s \in Bad : \A t \in Bad : Cardinality(s) <= Cardinality(t)
  BY <1>1, LeastSet
<1>3. s \in SUBSET S /\ IsFiniteSet(s) /\ ~(RunsIn(rows, s) >= Cardinality(WithKey(C, key, s)))
  BY <1>1
<1>4. RunsIn(rows, s) = IF s = {} THEN 0 ELSE RunsOf(rows[Pick(s)]) + RunsIn(rows, WithoutPick(s))
  BY <1>3, SumRecursion
<1>5. s # {}
  BY <1>3, <1>4, NoKeys
<1> DEFINE p == Pick(s)
<1>6. p \in s /\ WithoutPick(s) = s \ {p} /\ ~(Cardinality(s) <= Cardinality(s \ {p}))
  BY <1>3, <1>5, PickSmaller DEF WithoutPick
<1> HIDE DEF p
<1>7. RunsIn(rows, s \ {p}) >= Cardinality(WithKey(C, key, s \ {p}))
  BY <1>2, <1>3, <1>6
<1>8. /\ Cardinality(WithKey(C, key, s)) =
           Cardinality(WithKey(C, key, {p})) + Cardinality(WithKey(C, key, s \ {p}))
      /\ Cardinality(WithKey(C, key, {p})) \in Nat /\ Cardinality(WithKey(C, key, s \ {p})) \in Nat
  BY <1>6, KeysSplit
<1>9. RunsIn(rows, s) = RunsOf(rows[p]) + RunsIn(rows, s \ {p})
  BY <1>4, <1>5, <1>6 DEF p
<1>10. RunsOf(rows[p]) \in Nat /\ RunsOf(rows[p]) >= Cardinality(WithKey(C, key, {p}))
  BY <1>3, <1>6
<1>11. RunsIn(rows, s \ {p}) \in Nat
  BY <1>1, <1>3
<1> HIDE DEF Bad
<1> QED
  BY <1>3, <1>7, <1>8, <1>9, <1>10, <1>11

-----------------------------------------------------------------------------

LEMMA CountedFacts ==
  ASSUME TierTypes
  PROVE  /\ IsFiniteSet(Counted)
         /\ \A S \in SUBSET Counted : IsFiniteSet(S) /\ Cardinality(S) \in Nat
         /\ \A S \in SUBSET Counted : \A T \in SUBSET S : Cardinality(T) <= Cardinality(S)
         /\ \A h : CountedAt(h) \in SUBSET Counted
         /\ \A d : CountedIn(d) \in SUBSET Counted
<1>1. IsFiniteSet(Counted)
  BY DEF TierTypes, Counted
<1>2. \A S \in SUBSET Counted : IsFiniteSet(S) /\ Cardinality(S) \in Nat
  BY <1>1, FS_Subset, FS_CardinalityType
<1>3. \A S \in SUBSET Counted : \A T \in SUBSET S : Cardinality(T) <= Cardinality(S)
  BY <1>2, FS_Subset
<1> QED
  BY <1>1, <1>2, <1>3 DEF CountedAt, CountedIn, Counted

\* No run is counted, or is counted elsewhere.
RunsKept ==
  \A r \in Runs : /\ run[r].pc = "counted" <=> run'[r].pc = "counted"
                  /\ run[r].pc = "counted" => run'[r].hour = run[r].hour

LEMMA CountsKept ==
  ASSUME RunsKept
  PROVE  /\ Counted' = Counted /\ \A h : CountedAt(h)' = CountedAt(h) /\ CountedIn(h)' = CountedIn(h)
BY DEF RunsKept, Counted, CountedAt, CountedIn, Day

LEMMA WriteBucketEffect ==
  ASSUME TiersInv, NEW r \in Runs, WriteBucket(r)
  PROVE  /\ UNCHANGED <<now, assigned, raw, daily, job, lastJob, failures>>
         /\ run[r].hour \in Hours /\ ~OldHour(run[r].hour) /\ r \notin Counted
         /\ RunsOf(hourly'[run[r].hour]) = RunsOf(hourly[run[r].hour]) + 1
         /\ \A h \in Hours \ {run[r].hour} : hourly'[h] = hourly[h]
         /\ \A h : CountedAt(h)' = IF h = run[r].hour THEN CountedAt(h) \cup {r} ELSE CountedAt(h)
         /\ \A d : CountedIn(d) \subseteq CountedIn(d)'
         /\ \A s \in Counted : s \in Counted' /\ run'[s] = run[s]
<1> DEFINE new == [run[r] EXCEPT !.pc = "counted"]
<1>1. run[r].pc = "read" /\ UNCHANGED <<now, assigned, raw, daily, job, lastJob, failures>>
  BY DEF WriteBucket, historyVars
<1>2. /\ run[r].hour \in Hours /\ new.pc = "counted" /\ new.hour = run[r].hour
      /\ run[r].min \in Latencies \cup {None}
  BY RunTypesIs DEF RunType, TiersInv
<1>3. /\ hourly' = [hourly EXCEPT ![run[r].hour] = Upsert(hourly[run[r].hour], r)]
      /\ run' = [run EXCEPT ![r] = new]
  BY RunTypesIs DEF WriteBucket, TierTypes, RunType, TiersInv
<1>4. RunsOf(Upsert(hourly[run[r].hour], r)) = RunsOf(hourly[run[r].hour]) + 1
  BY <1>2, UpsertCounts DEF TierTypes, TiersInv
<1>5. ~OldHour(run[r].hour)
  BY <1>1, RecentIsNotOld DEF Counting
<1> HIDE DEF new
<1>6. /\ run'[r].pc = "counted" /\ run'[r].hour = run[r].hour
      /\ \A s \in Runs \ {r} : run'[s] = run[s]
  BY <1>2, <1>3 DEF TierTypes, TiersInv
<1>7. /\ RunsOf(hourly'[run[r].hour]) = RunsOf(hourly[run[r].hour]) + 1
      /\ \A h \in Hours \ {run[r].hour} : hourly'[h] = hourly[h]
  BY <1>2, <1>3, <1>4 DEF TierTypes, TiersInv
<1>8. \A h : CountedAt(h)' = IF h = run[r].hour THEN CountedAt(h) \cup {r} ELSE CountedAt(h)
  BY <1>1, <1>6 DEF CountedAt
<1>9. r \notin Counted /\ \A s \in Counted : s \in Counted' /\ run'[s] = run[s]
  BY <1>1, <1>6 DEF Counted
<1>10. \A d : CountedIn(d) \subseteq CountedIn(d)'
  BY <1>1, <1>6 DEF CountedIn, Day
<1> QED
  BY <1>1, <1>2, <1>5, <1>7, <1>8, <1>9, <1>10

\* What the steps of the tiers do to runs and rows.
LEMMA TierSteps ==
  ASSUME TiersInv, [Next]_vars
  PROVE  \/ \E r \in Runs : WriteBucket(r)
         \/ /\ RunsKept
            /\ UNCHANGED hourly \/ DeleteHourly
            /\ UNCHANGED daily \/ InsertDaily \/ DeleteExpiredAggregates
            /\ UNCHANGED <<now, job, lastJob>> \/ StartJob \/ JobStep \/ Tick \/ Crash \/ JobFails
            /\ UNCHANGED failures \/ Crash \/ JobFails
<1>1. ASSUME NEW r \in Runs, StoreRun(r) \/ ReadBucket(r)
      PROVE  RunsKept /\ UNCHANGED <<hourly, daily, now, job, lastJob, failures>>
  <2>1. PICK new : /\ run' = [run EXCEPT ![r] = new]
                   /\ run[r].pc # "counted" /\ new.pc # "counted"
    <3>1. CASE StoreRun(r)
      <4>1. PICK l : run' = [run EXCEPT ![r].pc = "stored", ![r].at = now, ![r].hour = now, ![r].latency = l]
        BY <3>1 DEF StoreRun
      <4>2. /\ run' = [run EXCEPT ![r] = [run[r] EXCEPT !.pc = "stored", !.at = now, !.hour = now, !.latency = l]]
            /\ [run[r] EXCEPT !.pc = "stored", !.at = now, !.hour = now, !.latency = l].pc = "stored"
            /\ run[r].pc = "waiting"
        BY <3>1, <4>1, RunTypesIs DEF TiersInv, TierTypes, RunType, StoreRun
      <4> QED
        BY <4>2
    <3>2. CASE ReadBucket(r)
      <4>1. PICK l : run' = [run EXCEPT ![r].pc = "read", ![r].hour = now, ![r].min = l]
        BY <3>2 DEF ReadBucket
      <4>2. /\ run' = [run EXCEPT ![r] = [run[r] EXCEPT !.pc = "read", !.hour = now, !.min = l]]
            /\ [run[r] EXCEPT !.pc = "read", !.hour = now, !.min = l].pc = "read"
            /\ run[r].pc = "stored"
        BY <3>2, <4>1, RunTypesIs DEF TiersInv, TierTypes, RunType, ReadBucket
      <4> QED
        BY <4>2
    <3> QED
      BY <1>1, <3>1, <3>2
  <2>2. RunsKept
    BY <2>1 DEF TiersInv, TierTypes, RunsKept
  <2> QED
    BY <1>1, <2>2 DEF StoreRun, ReadBucket, historyVars
<1>2. CASE StartJob \/ JobStep \/ Tick \/ DisassociateSystem \/ JobFails \/ UNCHANGED vars
  <2>1. RunsKept
    BY <1>2 DEF StartJob, JobStep, DeleteExpiredRawRuns, ReadOldHourly, InsertDaily, DeleteHourly,
                DeleteExpiredAggregates, Tick, DisassociateSystem, JobFails, vars, RunsKept
  <2> QED
    BY <1>2, <2>1 DEF StartJob, JobStep, DeleteExpiredRawRuns, ReadOldHourly, InsertDaily, DeleteHourly,
                DeleteExpiredAggregates, Tick, DisassociateSystem, JobFails, vars, historyVars
<1>3. CASE Crash
  <2>1. RunsKept
    <3>1. \A r \in Runs : Counting(r) => LET lost == [run[r] EXCEPT !.pc = "lost"] IN lost.pc = "lost"
      BY RunTypesIs DEF RunType, TiersInv
    <3>2. \A r \in Runs : run'[r] = run[r] \/ (Counting(r) /\ run'[r].pc = "lost")
      BY <1>3, <3>1 DEF Crash
    <3> QED
      BY <3>2 DEF RunsKept, Counting
  <2> QED
    BY <1>3, <2>1 DEF Crash
<1> QED
  BY <1>1, <1>2, <1>3 DEF Next, Store, Count

\* An hour is old when its day is.
LEMMA OldHours ==
  /\ \A h : OldHour(h) <=> OldDay(Day(h))
  /\ \A d : \A h \in HoursOf(d) : h \in Hours /\ Day(h) = d
BY DEF OldHour, OldDay, HoursOf

LEMMA ClockStep ==
  ASSUME TiersInv, [Next]_vars
  PROVE  /\ now \in Nat /\ now' \in Nat /\ now <= now' /\ (Tick \/ now' = now)
         /\ Hours' = Hours /\ Days' = Days /\ \A d : HoursOf(d)' = HoursOf(d) /\ Day(d)' = Day(d)
         /\ \A h \in Hours : OldHour(h) => OldHour(h)'
         /\ \A d \in Days : OldDay(d) => OldDay(d)'
<1>1. now' = now \/ Tick
  BY DEF Next, Store, StoreRun, Count, ReadBucket, WriteBucket, StartJob, JobStep, DeleteExpiredRawRuns,
         ReadOldHourly, InsertDaily, DeleteHourly, DeleteExpiredAggregates, Crash, JobFails,
         DisassociateSystem, vars
<1>2. now \in Nat /\ now' \in Nat /\ now <= now'
  BY <1>1, HourFacts DEF Tick, TiersInv, TierTypes
<1>3. Hours' = Hours /\ Days' = Days /\ \A d : HoursOf(d)' = HoursOf(d) /\ Day(d)' = Day(d)
  BY DEF Hours, Days, HoursOf, Day
<1>4. \A h \in Hours : OldHour(h) => OldHour(h)'
  BY <1>2, OldStays, HourFacts
<1>5. Day(now) \in Nat /\ Day(now') \in Nat /\ Day(now) <= Day(now') /\ Day(now)' = Day(now')
  BY <1>2, DaysInOrder, DayBounds DEF Day
<1>6. \A d \in Days : OldDay(d) => OldDay(d)'
  BY <1>5, HourFacts, Retentions DEF OldDay
<1> QED
  BY <1>1, <1>2, <1>3, <1>4, <1>6

LEMMA HoursCountedStep ==
  ASSUME TiersInv, HoursCounted, [Next]_vars
  PROVE  HoursCounted'
<1> USE DEF HoursCounted
<1>1. TierTypes /\ Hours' = Hours /\ \A h \in Hours : OldHour(h) => OldHour(h)'
  BY ClockStep DEF TiersInv
<1>2. ASSUME NEW r \in Runs, WriteBucket(r) PROVE HoursCounted'
  <2> SUFFICES ASSUME NEW h \in Hours
               PROVE  /\ RunsOf(hourly'[h]) <= Cardinality(CountedAt(h)')
                      /\ ~OldHour(h)' => RunsOf(hourly'[h]) = Cardinality(CountedAt(h)')
    BY <1>1
  <2>1. CASE h = run[r].hour
    <3>1. CountedAt(h)' = CountedAt(h) \cup {r} /\ r \notin CountedAt(h) /\ RunsOf(hourly'[h]) = RunsOf(hourly[h]) + 1
      BY <1>1, <1>2, <2>1, WriteBucketEffect, CountedFacts
    <3>2. IsFiniteSet(CountedAt(h))
      BY <1>1, CountedFacts
    <3>3. Cardinality(CountedAt(h)') = Cardinality(CountedAt(h)) + 1
      BY <3>1, <3>2, FS_AddElement
    <3>4. RunsOf(hourly[h]) = Cardinality(CountedAt(h))
      BY <1>2, <2>1, WriteBucketEffect
    <3>5. Cardinality(CountedAt(h)) \in Nat
      BY <1>1, CountedFacts
    <3> QED
      BY <3>1, <3>3, <3>4, <3>5
  <2>2. CASE h # run[r].hour
    <3>1. CountedAt(h)' = CountedAt(h) /\ hourly'[h] = hourly[h]
      BY <1>2, <2>2, WriteBucketEffect
    <3>2. OldHour(h) => OldHour(h)'
      BY <1>1
    <3> QED
      BY <3>1, <3>2
  <2> QED
    BY <2>1, <2>2
<1>3. CASE RunsKept /\ (UNCHANGED hourly \/ DeleteHourly)
  <2> SUFFICES ASSUME NEW h \in Hours
               PROVE  /\ RunsOf(hourly'[h]) <= Cardinality(CountedAt(h)')
                      /\ ~OldHour(h)' => RunsOf(hourly'[h]) = Cardinality(CountedAt(h)')
    BY <1>1
  <2>1. CountedAt(h)' = CountedAt(h) /\ Cardinality(CountedAt(h)) \in Nat
    BY <1>1, <1>3, CountsKept, CountedFacts
  <2>2. hourly'[h] = hourly[h] \/ (hourly'[h] = None /\ OldHour(h))
    BY <1>1, <1>3 DEF DeleteHourly, TiersInv, RowsAsRead, TierTypes
  <2>3. CASE hourly'[h] = hourly[h]
    BY <1>1, <2>1, <2>3
  <2>4. CASE hourly'[h] = None /\ OldHour(h)
    BY <1>1, <2>1, <2>4, RowFacts
  <2> QED
    BY <2>2, <2>3, <2>4
<1> QED
  BY <1>2, <1>3, TierSteps

LEMMA JobReadsStep ==
  ASSUME TiersInv, JobReads, DaysRolledUp, [Next]_vars
  PROVE  JobReads'
<1> USE DEF JobReads
<1>1. TierTypes /\ Hours' = Hours /\ (\A d : HoursOf(d)' = HoursOf(d) /\ Day(d)' = Day(d))
      /\ \A h \in Hours : OldHour(h) => OldHour(h)'
  BY ClockStep DEF TiersInv
<1>2. ASSUME NEW r \in Runs, WriteBucket(r) PROVE JobReads'
  <2>1. /\ job' = job /\ run[r].hour \in Hours /\ ~OldHour(run[r].hour)
        /\ \A h \in Hours \ {run[r].hour} : hourly'[h] = hourly[h]
    BY <1>2, WriteBucketEffect
  <2> QED
    BY <1>1, <2>1
<1>3. CASE ReadOldHourly
  <2> DEFINE old == {h \in Hours : hourly[h] # None /\ OldHour(h)}
  <2>1. /\ job' = [pc |-> IF old = {} THEN "expire" ELSE "insert",
                   old |-> [h \in Hours |-> IF h \in old THEN hourly[h] ELSE None],
                   days |-> {Day(h) : h \in old}, doomed |-> {}]
        /\ hourly' = hourly
    BY <1>3 DEF ReadOldHourly
  <2>2. /\ job'.days = {Day(h) : h \in old}
        /\ \A h \in Hours : job'.old[h] = IF h \in old THEN hourly[h] ELSE None
    BY <2>1
  <2>3. \A h \in Hours : Day(h) \in job'.days => OldHour(h) /\ hourly[h] = job'.old[h]
    <3>1. \A h \in Hours : Day(h) \in job'.days => OldHour(h)
      BY <2>2, OldHours
    <3> QED
      BY <2>2, <3>1
  <2>4. \A d \in job'.days : \E h \in HoursOf(d) : job'.old[h] # None
    BY <2>2 DEF HoursOf
  <2> HIDE DEF old
  <2>5. \A h \in Hours : Day(h)' \in job'.days => OldHour(h)' /\ hourly'[h] = job'.old[h]
    BY <1>1, <2>1, <2>3
  <2> QED
    BY <1>1, <2>4, <2>5
<1>4. CASE InsertDaily
  <2>1. job.pc = "insert" /\ hourly' = hourly
    BY <1>4 DEF InsertDaily
  <2>2. job' = IdleJob \/ (job'.days \subseteq job.days /\ job'.old = job.old)
    BY <1>4 DEF InsertDaily, TierTypes, TiersInv, JobType
  <2> QED
    BY <1>1, <2>1, <2>2, IdleJobIs
<1>5. CASE DeleteHourly
  <2>1. PICK h \in job.doomed :
          /\ hourly' = [hourly EXCEPT ![h] = None] /\ job.pc = "delete"
          /\ job'.days = job.days /\ job'.old = job.old
    BY <1>5 DEF DeleteHourly, TierTypes, TiersInv, JobType
  <2>2. Day(h) \notin job.days
    BY DEF TiersInv, RowsAsRead
  <2>3. \A k \in Hours : Day(k) \in job.days => hourly'[k] = hourly[k]
    BY <1>1, <2>1, <2>2 DEF TierTypes
  <2> QED
    BY <1>1, <2>1, <2>3
<1>6. CASE UNCHANGED <<hourly, job>>
  BY <1>1, <1>6
<1>7. CASE StartJob \/ DeleteExpiredRawRuns \/ DeleteExpiredAggregates \/ Crash \/ JobFails
  <2>1. (job' = job /\ hourly' = hourly) \/ job'.pc \notin {"insert", "delete"}
    BY <1>7, IdleJobIs, JobMoves DEF StartJob, DeleteExpiredRawRuns, DeleteExpiredAggregates, Crash, JobFails, TiersInv
  <2> QED
    BY <1>6, <2>1
<1> QED
  <2>1. CASE Tick
    BY <1>6, <2>1 DEF Tick
  <2>2. CASE JobStep
    BY <1>3, <1>4, <1>5, <1>7, <2>2 DEF JobStep
  <2>3. (\E r \in Runs : WriteBucket(r)) \/ UNCHANGED job \/ StartJob \/ JobStep \/ Tick \/ Crash \/ JobFails
    BY TierSteps
  <2>4. (\E r \in Runs : WriteBucket(r)) \/ UNCHANGED hourly \/ DeleteHourly
    BY TierSteps
  <2> QED
    BY <1>2, <1>5, <1>6, <1>7, <2>1, <2>2, <2>3, <2>4

\* The daily row of a roll-up counts runs of its day.
LEMMA RollUpBelow ==
  ASSUME TiersInv, HoursCounted, JobReads, job.pc = "insert", NEW d \in job.days, NEW hours,
         hours = {h \in HoursOf(d) : job.old[h] # None}
  PROVE  RunsOf(RollUp(hours)) <= Cardinality(CountedIn(d))
<1> DEFINE key == [r \in Runs |-> run[r].hour]
<1>1. TierTypes /\ job.old \in [Hours -> Rows] /\ hours \in SUBSET Hours
  BY HourFacts DEF TiersInv, TierTypes, JobType
<1>2. IsFiniteSet(hours) /\ \A h \in hours : RunsOf(job.old[h]) \in Nat
  BY <1>1, KeptIsNumber
<1>3. IsFiniteSet(Counted)
  BY <1>1, CountedFacts
<1>4. \A h \in hours : RunsOf(job.old[h]) <= Cardinality(WithKey(Counted, key, {h}))
  <2> SUFFICES ASSUME NEW h \in hours PROVE RunsOf(job.old[h]) <= Cardinality(WithKey(Counted, key, {h}))
    OBVIOUS
  <2>1. h \in Hours /\ Day(h) = d
    BY OldHours
  <2>2. RunsOf(hourly[h]) <= Cardinality(CountedAt(h)) /\ hourly[h] = job.old[h]
    BY <2>1 DEF HoursCounted, JobReads
  <2>3. WithKey(Counted, key, {h}) = CountedAt(h)
    BY DEF WithKey, Counted, CountedAt
  <2> QED
    BY <2>2, <2>3
<1> DEFINE mine == WithKey(Counted, key, hours)
<1>5. mine \in SUBSET CountedIn(d)
  <2>1. \A h \in hours : Day(h) = d
    BY OldHours
  <2> QED
    BY <2>1 DEF WithKey, Counted, CountedIn
<1> HIDE DEF key
<1>6. RunsIn(job.old, hours) <= Cardinality(mine)
  BY <1>2, <1>3, <1>4, CountsBelow
<1> HIDE DEF mine
<1>7. Cardinality(mine) <= Cardinality(CountedIn(d)) /\ Cardinality(mine) \in Nat /\ Cardinality(CountedIn(d)) \in Nat
  <2>1. CountedIn(d) \in SUBSET Counted /\ mine \in SUBSET Counted
    BY <1>1, <1>5, CountedFacts
  <2> QED
    BY <1>1, <1>5, <2>1, CountedFacts
<1>8. RunsIn(job.old, hours) \in Nat
  BY <1>1, KeptIsNumber
<1>9. RunsOf(RollUp(hours)) = RunsIn(job.old, hours)
  <2>1. PICK n : n = RunsIn(job.old, hours)
    OBVIOUS
  <2>2. PICK min : min = Least({job.old[h].min : h \in hours})
    OBVIOUS
  <2>3. RollUp(hours) = [runs |-> n, min |-> min]
    BY <2>1, <2>2 DEF RollUp
  <2>4. \A h \in hours : job.old[h].min \in Latencies \cup {None}
    <3>1. \A h \in hours : job.old[h] \in Rows /\ job.old[h] # None
      BY <1>1
    <3> QED
      BY <3>1 DEF Rows
  <2>5. min \in Latencies \cup {None}
    BY <2>2, <2>4, LeastType
  <2> QED
    BY <1>8, <2>1, <2>3, <2>5, RowFacts
<1> QED
  BY <1>6, <1>7, <1>8, <1>9

\* Runs that have been counted stay counted.
LEMMA CountsGrow ==
  ASSUME TiersInv, [Next]_vars, NEW d
  PROVE  /\ Cardinality(CountedIn(d)) \in Nat /\ Cardinality(CountedIn(d)') \in Nat
         /\ Cardinality(CountedIn(d)) <= Cardinality(CountedIn(d)')
<1>1. TierTypes /\ TierTypes'
  BY TiersStep DEF TiersInv
<1>2. CountedIn(d) \subseteq CountedIn(d)'
  BY TierSteps, WriteBucketEffect, CountsKept
<1>3. IsFiniteSet(CountedIn(d)) /\ IsFiniteSet(CountedIn(d)')
  <2>1. CountedIn(d) \in SUBSET {r \in Runs : run[r].pc = "counted"}
        /\ CountedIn(d)' \in SUBSET {r \in Runs : run'[r].pc = "counted"}
    BY DEF CountedIn
  <2> QED
    BY <1>1, <2>1, FS_Subset DEF TierTypes
<1> QED
  BY <1>2, <1>3, FS_Subset, FS_CardinalityType

\* A job that broke off has been counted as a failure.
LEMMA NoFailure ==
  ASSUME TiersInv, [Next]_vars, failures' = 0
  PROVE  failures = 0 /\ ~Crash /\ ~JobFails
<1>1. failures \in Nat
  BY DEF TiersInv, TierTypes
<1>2. ~Crash /\ ~JobFails
  BY <1>1 DEF Crash, JobFails
<1> QED
  BY <1>2, TierSteps, WriteBucketEffect

\* An old hour whose row is deleted, or about to be, does not come back.
LEMMA RowsGone ==
  ASSUME TiersInv, [Next]_vars, failures' = 0, NEW h \in Hours, OldHour(h),
         hourly[h] = None \/ h \in job.doomed
  PROVE  hourly'[h] = None \/ h \in job'.doomed
<1>1. ASSUME NEW r \in Runs, WriteBucket(r) PROVE hourly'[h] = hourly[h] /\ job' = job
  BY <1>1, WriteBucketEffect
<1>2. CASE DeleteHourly
  <2>1. PICK k \in job.doomed : hourly' = [hourly EXCEPT ![k] = None] /\ job'.doomed = job.doomed \ {k}
    BY <1>2 DEF DeleteHourly, TiersInv, TierTypes, JobType
  <2> QED
    BY <2>1 DEF TiersInv, TierTypes
<1>3. CASE hourly' = hourly /\ job.pc # "delete"
  <2>1. job.doomed = {}
    BY <1>3 DEF TiersInv, RowsAsRead
  <2> QED
    BY <1>3, <2>1
<1>4. CASE hourly' = hourly /\ job' = job
  BY <1>4
<1>5. CASE StartJob \/ Tick
  BY <1>3, <1>4, <1>5 DEF StartJob, Tick
<1>6. CASE JobStep
  BY <1>2, <1>3, <1>6 DEF JobStep, DeleteExpiredRawRuns, ReadOldHourly, InsertDaily, DeleteExpiredAggregates
<1> QED
  BY <1>1, <1>2, <1>4, <1>5, <1>6, TierSteps, NoFailure

LEMMA DaysRolledUpStep ==
  ASSUME TiersInv, HoursCounted, JobReads, DaysRolledUp, [Next]_vars
  PROVE  DaysRolledUp'
<1>1. /\ Days' = Days /\ \A d : HoursOf(d)' = HoursOf(d)
      /\ \A d \in Days : OldDay(d) => OldDay(d)'
  BY ClockStep
<1> SUFFICES ASSUME NEW d \in Days, daily'[d] # None
             PROVE  /\ OldDay(d)' /\ RunsOf(daily'[d]) <= Cardinality(CountedIn(d)')
                    /\ failures' = 0 => \A h \in HoursOf(d) : hourly'[h] = None \/ h \in job'.doomed
  BY <1>1 DEF DaysRolledUp
<1>2. /\ Cardinality(CountedIn(d)) \in Nat /\ Cardinality(CountedIn(d)') \in Nat
      /\ Cardinality(CountedIn(d)) <= Cardinality(CountedIn(d)')
  BY CountsGrow
<1>3. TierTypes /\ TierTypes'
  BY TiersStep DEF TiersInv
<1>4. RunsOf(daily'[d]) \in Nat
  BY <1>3, RowFacts DEF TierTypes
<1>5. CASE daily'[d] = daily[d]
  <2>1. /\ OldDay(d) /\ RunsOf(daily[d]) <= Cardinality(CountedIn(d))
        /\ failures = 0 => \A h \in HoursOf(d) : hourly[h] = None \/ h \in job.doomed
    BY <1>5 DEF DaysRolledUp
  <2>2. \A h \in HoursOf(d) : h \in Hours /\ OldHour(h)
    BY <2>1, OldHours
  <2>3. failures' = 0 => \A h \in HoursOf(d) : hourly'[h] = None \/ h \in job'.doomed
    BY <2>1, <2>2, NoFailure, RowsGone
  <2>4. RunsOf(daily'[d]) <= Cardinality(CountedIn(d)')
    BY <1>2, <1>4, <1>5, <2>1
  <2> QED
    BY <1>1, <2>1, <2>3, <2>4
<1>6. CASE daily'[d] # daily[d]
  <2>1. InsertDaily
    BY <1>6, TierSteps, WriteBucketEffect DEF DeleteExpiredAggregates
  <2>2. PICK e \in job.days :
          /\ daily' = [daily EXCEPT ![e] = RollUp({h \in HoursOf(e) : job.old[h] # None})]
          /\ job'.doomed = {h \in HoursOf(e) : job.old[h] # None}
    BY <1>6, <2>1 DEF InsertDaily, TiersInv, TierTypes, JobType
  <2> DEFINE hours == {h \in HoursOf(d) : job.old[h] # None}
  <2>3. e = d /\ daily'[d] = RollUp(hours) /\ job'.doomed = hours
    BY <1>3, <1>6, <2>2 DEF TierTypes
  <2>4. job.pc = "insert" /\ hourly' = hourly /\ d \in job.days
    BY <2>1, <2>2, <2>3 DEF InsertDaily
  <2>5. RunsOf(RollUp(hours)) <= Cardinality(CountedIn(d))
    BY <2>4, RollUpBelow
  <2>6. PICK h \in HoursOf(d) : job.old[h] # None
    BY <2>4 DEF JobReads
  <2>7. \A k \in HoursOf(d) : OldHour(k) /\ hourly[k] = job.old[k]
    BY <2>4, OldHours DEF JobReads
  <2>8. OldDay(d)
    BY <2>6, <2>7, OldHours
  <2>9. \A k \in HoursOf(d) : hourly'[k] = None \/ k \in job'.doomed
    BY <2>3, <2>4, <2>7
  <2>10. RunsOf(daily'[d]) <= Cardinality(CountedIn(d)')
    BY <1>2, <1>4, <2>3, <2>5
  <2> QED
    BY <1>1, <2>8, <2>9, <2>10
<1> QED
  BY <1>5, <1>6

\* The day of a job does not recur.
LEMMA LastJobStep ==
  ASSUME TiersInv, JobDone, [Next]_vars
  PROVE  /\ lastJob' # None => lastJob' \in Nat /\ lastJob' <= Day(now')
         /\ Tick /\ lastJob = Day(now') => Day(now) = Day(now')
         /\ assigned' => assigned
<1>1. now \in Nat /\ now' \in Nat /\ now <= now'
  BY ClockStep
<1>2. Day(now) \in Nat /\ Day(now') \in Nat /\ Day(now) <= Day(now')
  BY <1>1, DaysInOrder, DayBounds
<1>3. None \notin Nat /\ (lastJob # None => lastJob \in Nat /\ lastJob <= Day(now))
  BY BoundAssumption DEF JobDone
<1>4. lastJob' = lastJob \/ (lastJob' = Day(now) /\ now' = now) \/ lastJob' = None
  <2>1. JobStep => lastJob' = lastJob
    BY DEF JobStep, DeleteExpiredRawRuns, ReadOldHourly, InsertDaily, DeleteHourly, DeleteExpiredAggregates
  <2> QED
    BY <2>1, TierSteps, WriteBucketEffect DEF StartJob, Tick, Crash, JobFails
<1>5. assigned' => assigned
  <2>1. JobStep => assigned' = assigned
    BY DEF JobStep, DeleteExpiredRawRuns, ReadOldHourly, InsertDaily, DeleteHourly, DeleteExpiredAggregates
  <2> QED
    BY <2>1 DEF Next, Store, StoreRun, Count, ReadBucket, WriteBucket, StartJob, Tick, Crash, JobFails,
                DisassociateSystem, vars
<1> QED
  BY <1>2, <1>3, <1>4, <1>5

LEMMA JobDoneStep ==
  ASSUME TiersInv, JobReads, DaysRolledUp, JobDone, [Next]_vars
  PROVE  JobDone'
<1>1. Hours' = Hours /\ \A d : HoursOf(d)' = HoursOf(d) /\ Day(d)' = Day(d)
  BY ClockStep
<1>2. Day(now)' = Day(now')
  BY DEF Day
<1> DEFINE Left(h) == OldHour(h)' /\ hourly'[h] # None
<1> SUFFICES ASSUME failures' = 0, assigned', lastJob' = Day(now')
             PROVE  /\ job'.pc \in {"expire", "idle"} => \A h \in Hours : ~Left(h)
                    /\ job'.pc \in {"insert", "delete"} =>
                         \A h \in Hours : Left(h) => Day(h) \in job'.days \/ h \in job'.doomed
  BY <1>1, <1>2, LastJobStep DEF JobDone, OldHourLeft
<1>3. failures = 0 /\ assigned /\ ~Crash /\ ~JobFails
  BY NoFailure, LastJobStep
<1>4. lastJob = Day(now) =>
        /\ job.pc \in {"expire", "idle"} => \A h \in Hours : ~OldHourLeft(h)
        /\ job.pc \in {"insert", "delete"} =>
             \A h \in Hours : OldHourLeft(h) => Day(h) \in job.days \/ h \in job.doomed
  BY <1>3 DEF JobDone
<1>5. ASSUME Day(now') = Day(now) PROVE \A h : OldHour(h)' <=> OldHour(h)
  BY <1>5 DEF OldHour, Day
<1>6. CASE \E r \in Runs : WriteBucket(r)
  <2>1. PICK r \in Runs : WriteBucket(r)
    BY <1>6
  <2>2. /\ now' = now /\ job' = job /\ lastJob' = lastJob /\ ~OldHour(run[r].hour)
        /\ \A h \in Hours \ {run[r].hour} : hourly'[h] = hourly[h]
    BY <2>1, WriteBucketEffect
  <2>3. \A h \in Hours : Left(h) => OldHourLeft(h)
    BY <1>5, <2>2 DEF OldHourLeft
  <2> QED
    BY <1>4, <2>2, <2>3
<1>7. CASE UNCHANGED <<hourly, job, lastJob>> /\ (now' = now \/ Tick)
  <2>1. Day(now') = Day(now)
    BY <1>7, LastJobStep
  <2>2. \A h \in Hours : Left(h) => OldHourLeft(h)
    BY <1>5, <1>7, <2>1 DEF OldHourLeft
  <2> QED
    BY <1>4, <1>7, <2>1, <2>2
<1>8. CASE StartJob \/ DeleteExpiredRawRuns
  <2>1. job'.pc \in {"raw", "select"}
    BY <1>3, <1>8, JobMoves DEF StartJob, DeleteExpiredRawRuns, TiersInv
  <2> QED
    BY <2>1
<1>9. CASE ReadOldHourly
  <2> DEFINE old == {h \in Hours : hourly[h] # None /\ OldHour(h)}
  <2>1. /\ job'.pc = IF old = {} THEN "expire" ELSE "insert"
        /\ job'.days = {Day(h) : h \in old}
        /\ now' = now /\ hourly' = hourly
    BY <1>9 DEF ReadOldHourly
  <2>2. \A h \in Hours : Left(h) => h \in old
    BY <1>5, <2>1
  <2> HIDE DEF old
  <2> QED
    BY <2>1, <2>2
<1>10. CASE InsertDaily
  <2>1. job.pc = "insert" /\ now' = now /\ hourly' = hourly /\ lastJob' = lastJob /\ job.doomed = {}
    BY <1>10 DEF InsertDaily, TiersInv, RowsAsRead
  <2>2. PICK d \in job.days :
          IF daily[d] # None THEN job' = IdleJob
          ELSE /\ job'.pc = "delete" /\ job'.days = job.days \ {d}
               /\ job'.doomed = {h \in HoursOf(d) : job.old[h] # None}
    BY <1>10 DEF InsertDaily, TiersInv, TierTypes, JobType
  <2>3. \A h \in HoursOf(d) : hourly[h] = job.old[h]
    BY <2>1, OldHours DEF JobReads
  <2>4. daily[d] = None
    <3>1. PICK h \in HoursOf(d) : job.old[h] # None
      BY <2>1 DEF JobReads
    <3>2. hourly[h] # None /\ d \in Days
      BY <2>3, <3>1 DEF TiersInv, TierTypes, JobType
    <3> QED
      BY <1>3, <2>1, <3>2 DEF DaysRolledUp
  <2>5. \A h \in Hours : Left(h) => Day(h) \in job.days
    BY <1>4, <1>5, <2>1 DEF OldHourLeft
  <2>6. \A h \in Hours : Left(h) => Day(h) \in job'.days \/ h \in job'.doomed
    <3>1. \A h \in Hours : Day(h) = d => h \in HoursOf(d)
      BY DEF HoursOf
    <3> QED
      BY <2>1, <2>2, <2>3, <2>4, <2>5, <3>1
  <2> QED
    BY <2>2, <2>4, <2>6
<1>11. CASE DeleteHourly
  <2>1. job.pc = "delete" /\ now' = now /\ lastJob' = lastJob
    BY <1>11 DEF DeleteHourly
  <2>2. PICK k \in job.doomed :
          /\ hourly' = [hourly EXCEPT ![k] = None]
          /\ job'.days = job.days /\ job'.doomed = job.doomed \ {k}
          /\ job'.pc = IF job.doomed # {k} THEN "delete" ELSE IF job.days # {} THEN "insert" ELSE "expire"
    BY <1>11 DEF DeleteHourly, TiersInv, TierTypes, JobType
  <2>3. \A h \in Hours : Left(h) => OldHourLeft(h) /\ h # k
    BY <1>5, <2>1, <2>2 DEF OldHourLeft, TiersInv, TierTypes
  <2>4. \A h \in Hours : Left(h) => Day(h) \in job'.days \/ h \in job'.doomed
    BY <1>4, <2>1, <2>2, <2>3
  <2>5. job'.pc \in {"expire", "idle"} => job'.days = {} /\ job'.doomed = {}
    BY <2>2
  <2> QED
    BY <2>4, <2>5
<1>12. CASE DeleteExpiredAggregates
  <2>1. job.pc = "expire" /\ now' = now /\ hourly' = hourly /\ lastJob' = lastJob /\ job'.pc = "idle"
    BY <1>12, IdleJobIs DEF DeleteExpiredAggregates
  <2>2. \A h \in Hours : Left(h) => OldHourLeft(h)
    BY <1>5, <2>1 DEF OldHourLeft
  <2> QED
    BY <1>4, <2>1, <2>2
<1> QED
  <2>1. CASE UNCHANGED <<now, job, lastJob>> /\ UNCHANGED hourly
    BY <1>7, <2>1
  <2>2. CASE Tick
    BY <1>7, <2>2 DEF Tick
  <2>3. CASE JobStep
    BY <1>8, <1>9, <1>10, <1>11, <1>12, <2>3 DEF JobStep
  <2> QED
    BY <1>3, <1>6, <1>8, <1>11, <2>1, <2>2, <2>3, TierSteps

LEMMA HoursInit ==
  ASSUME Init
  PROVE  HoursInv
<1>1. /\ now = 0 /\ job = IdleJob /\ lastJob = None
      /\ run = [r \in Runs |-> [pc |-> "waiting", at |-> 0, hour |-> 0, latency |-> None, min |-> None]]
      /\ hourly = [h \in Hours |-> None] /\ daily = [d \in Days |-> None]
  BY DEF Init
<1>2. \A h : CountedAt(h) = {}
  BY <1>1 DEF CountedAt
<1>3. HoursCounted
  <2>1. \A h \in Hours : RunsOf(hourly[h]) = 0 /\ Cardinality(CountedAt(h)) = 0
    BY <1>1, <1>2, RowFacts, FS_EmptySet
  <2>2. 0 <= 0
    OBVIOUS
  <2> QED
    BY <2>1, <2>2 DEF HoursCounted
<1>4. DaysRolledUp /\ JobReads
  BY <1>1, IdleJobIs DEF DaysRolledUp, JobReads
<1>5. JobDone
  <2>1. None \notin Nat /\ Day(0) \in Nat
    BY BoundAssumption, DayBounds
  <2> QED
    BY <1>1, <2>1 DEF JobDone
<1> QED
  BY <1>3, <1>4, <1>5 DEF HoursInv

LEMMA HoursStep ==
  ASSUME TiersInv, HoursInv, [Next]_vars
  PROVE  HoursInv'
BY HoursCountedStep, DaysRolledUpStep, JobReadsStep, JobDoneStep DEF HoursInv

-----------------------------------------------------------------------------

LEMMA QuestionIs ==
  ASSUME AskTypes
  PROVE  /\ question \in [pc : {"idle", "chart", "availability"}, read : SUBSET Tiers,
                          raw : SUBSET Runs, hourly : [Hours -> Rows], daily : [Days -> Rows],
                          counted : SUBSET Runs, torn : BOOLEAN]
         /\ \A h : AskedAt(h) \in SUBSET question.counted /\ AskedIn(h) \in SUBSET question.counted
BY DEF AskTypes, QuestionTypeOK, AskedAt, AskedIn

\* Counts of the runs that had been counted when the question began.
LEMMA AskedFacts ==
  ASSUME TierTypes, AskTypes, NEW h
  PROVE  /\ Cardinality(AskedAt(h)) \in Nat /\ Cardinality(AskedIn(h)) \in Nat
         /\ Cardinality(CountedAt(h)) \in Nat /\ Cardinality(CountedIn(h)) \in Nat
         /\ Cardinality(AskedAt(h)) <= Cardinality(CountedAt(h))
         /\ Cardinality(AskedIn(h)) <= Cardinality(CountedIn(h))
<1>1. AskedAt(h) \in SUBSET CountedAt(h) /\ AskedIn(h) \in SUBSET CountedIn(h)
  BY DEF AskTypes, AskedAt, AskedIn, CountedAt, CountedIn, Counted
<1>2. CountedAt(h) \in SUBSET Counted /\ CountedIn(h) \in SUBSET Counted
  BY CountedFacts
<1>3. AskedAt(h) \in SUBSET Counted /\ AskedIn(h) \in SUBSET Counted
  BY <1>1, <1>2
<1> QED
  BY <1>1, <1>2, <1>3, CountedFacts

NothingRead ==
  /\ question.hourly = [h \in Hours |-> None] /\ question.daily = [d \in Days |-> None]
  /\ question.read = {}

\* A question that has read nothing yet.
LEMMA AskBegins ==
  TierTypes /\ AskTypes /\ NothingRead /\ (Asking /\ ~question.torn => ~RollingUp) => AskInv
<1> SUFFICES ASSUME TierTypes, AskTypes, NothingRead, Asking /\ ~question.torn => ~RollingUp PROVE AskInv
  OBVIOUS
<1>1. \A h : Cardinality(CountedAt(h)) \in Nat /\ Cardinality(CountedIn(h)) \in Nat
  BY AskedFacts
<1>2. \A n \in Nat : 0 <= n
  OBVIOUS
<1>3. /\ \A h \in Hours : RunsOf(question.hourly[h]) = 0
      /\ \A d \in Days : question.daily[d] = None /\ RunsOf(question.daily[d]) = 0
  BY RowFacts DEF NothingRead
<1>4. HoursRead
  BY <1>1, <1>2, <1>3 DEF HoursRead, NothingRead
<1>5. DaysRead
  BY <1>1, <1>2, <1>3 DEF DaysRead, NothingRead
<1> QED
  BY <1>4, <1>5 DEF AskInv

\* No question at all.
LEMMA IdleSound == TierTypes /\ question = NotAsking => AskInv
<1> SUFFICES ASSUME TierTypes, question = NotAsking PROVE AskInv
  OBVIOUS
<1>1. PICK no \in SUBSET Tiers, none \in SUBSET Runs, pc \in {"idle", "chart", "availability"} :
        no = {} /\ none = {} /\ pc = "idle"
  OBVIOUS
<1>2. [h \in Hours |-> None] \in [Hours -> Rows] /\ [d \in Days |-> None] \in [Days -> Rows]
  BY DEF Rows
<1>3. NotAsking = [pc |-> pc, read |-> no, raw |-> none, hourly |-> [h \in Hours |-> None],
                   daily |-> [d \in Days |-> None], counted |-> none, torn |-> FALSE]
  BY <1>1 DEF NotAsking
<1>4. AskTypes /\ NothingRead /\ ~Asking
  BY <1>1, <1>2, <1>3 DEF AskTypes, QuestionTypeOK, NothingRead, Asking
<1> QED
  BY <1>4, AskBegins

LEMMA IdleKeeps ==
  ASSUME TierTypes', question' = NotAsking
  PROVE  AskInv'
<1>1. (TierTypes /\ question = NotAsking => AskInv)'
  BY IdleSound, PTL
<1>2. NotAsking' = NotAsking
  BY DEF NotAsking, Hours, Days, Day
<1> QED
  BY <1>1, <1>2

LEMMA AskBeginKeeps ==
  ASSUME TiersInv, AskInv, NEW kind \in {"chart", "availability"}, BeginQuestion(kind)
  PROVE  AskInv'
<1>1. UNCHANGED vars /\ question' = [NotAsking EXCEPT !.pc = kind, !.torn = RollingUp, !.counted = Counted]
  BY DEF BeginQuestion, Counted
<1>2. Hours' = Hours /\ Days' = Days /\ Rows' = Rows /\ TierTypes' /\ RollingUp' = RollingUp /\ Counted' = Counted
  BY <1>1 DEF Hours, Days, Day, Rows, TiersInv, TierTypes, RollingUp, Counted, vars, historyVars, RunType, JobType
<1>3. RollingUp \in BOOLEAN
  BY DEF RollingUp
<1>4. /\ question' = [pc |-> kind, read |-> {}, raw |-> {}, hourly |-> [h \in Hours |-> None],
                      daily |-> [d \in Days |-> None], counted |-> Counted, torn |-> RollingUp]
  BY <1>1 DEF NotAsking
<1>5. /\ NothingRead' /\ question'.pc # "idle" /\ question'.counted = Counted
      /\ Asking' /\ ~question'.torn => ~RollingUp'
  BY <1>2, <1>3, <1>4 DEF NothingRead, Asking
<1>6. AskTypes'
  <2>1. PICK no \in SUBSET Tiers, none \in SUBSET Runs, some \in SUBSET Runs, torn \in BOOLEAN,
             pc \in {"idle", "chart", "availability"} :
             no = {} /\ none = {} /\ some = Counted /\ torn = RollingUp /\ pc = kind
    BY <1>3 DEF Counted
  <2>2. [h \in Hours |-> None] \in [Hours -> Rows] /\ [d \in Days |-> None] \in [Days -> Rows]
    BY DEF Rows
  <2>3. question' = [pc |-> pc, read |-> no, raw |-> none, hourly |-> [h \in Hours |-> None],
                     daily |-> [d \in Days |-> None], counted |-> some, torn |-> torn]
    BY <1>4, <2>1
  <2>4. question' \in [pc : {"idle", "chart", "availability"}, read : SUBSET Tiers,
                       raw : SUBSET Runs, hourly : [Hours -> Rows], daily : [Days -> Rows],
                       counted : SUBSET Runs, torn : BOOLEAN]
    BY <2>2, <2>3
  <2> QED
    BY <1>2, <1>5, <2>4 DEF AskTypes, QuestionTypeOK
<1>7. (TierTypes /\ AskTypes /\ NothingRead /\ (Asking /\ ~question.torn => ~RollingUp) => AskInv)'
  BY AskBegins, PTL
<1> QED
  BY <1>2, <1>5, <1>6, <1>7

\* The tiers are as they were: what the counts of rows and of runs are.
LEMMA TiersAsWere ==
  ASSUME UNCHANGED vars, question'.counted = question.counted
  PROVE  /\ Hours' = Hours /\ Days' = Days /\ Rows' = Rows /\ Counted' = Counted /\ RollingUp' = RollingUp
         /\ \A h : /\ HoursOf(h)' = HoursOf(h) /\ CountedAt(h)' = CountedAt(h) /\ CountedIn(h)' = CountedIn(h)
                   /\ AskedAt(h)' = AskedAt(h) /\ AskedIn(h)' = AskedIn(h)
                   /\ OldHour(h)' = OldHour(h) /\ OldDay(h)' = OldDay(h) /\ ExpiredDay(h)' = ExpiredDay(h)
         /\ UNCHANGED <<hourly, failures>>
BY DEF vars, historyVars, Hours, Days, Day, Rows, Counted, RollingUp, HoursOf, CountedAt, CountedIn,
       AskedAt, AskedIn, OldHour, OldDay, ExpiredDay

LEMMA ReadRawKeeps ==
  ASSUME TiersInv, AskInv, ReadRaw, raw \subseteq Runs
  PROVE  AskInv'
<1>1. /\ UNCHANGED vars /\ question' = [question EXCEPT !.read = question.read \cup {"raw"}, !.raw = raw]
  BY DEF ReadRaw
<1>2. /\ question' \in [pc : {"idle", "chart", "availability"}, read : SUBSET Tiers,
                        raw : SUBSET Runs, hourly : [Hours -> Rows], daily : [Days -> Rows],
                        counted : SUBSET Runs, torn : BOOLEAN]
      /\ question'.pc = question.pc /\ question.pc = "chart" /\ question'.counted = question.counted
      /\ question'.torn = question.torn /\ question'.hourly = question.hourly
      /\ question'.daily = question.daily /\ question'.read = question.read \cup {"raw"}
  <2>1. PICK read \in SUBSET Tiers, rows \in SUBSET Runs : read = question.read \cup {"raw"} /\ rows = raw
    BY QuestionIs DEF AskInv, Tiers
  <2>2. question' = [question EXCEPT !.read = read, !.raw = rows] /\ question.pc = "chart"
    BY <1>1, <2>1 DEF ReadRaw
  <2> QED
    BY <2>1, <2>2, QuestionIs DEF AskInv
<1> USE <1>1, <1>2, TiersAsWere
<1>3. AskTypes'
  BY DEF AskInv, AskTypes, QuestionTypeOK
<1>4. HoursRead'
  BY DEF AskInv, HoursRead, Asking
<1>5. DaysRead'
  <2>1. \A d \in Days : RunsIn(hourly, HoursOf(d))' = RunsIn(hourly, HoursOf(d))
    BY <1>1, <1>2, TiersAsWere
  <2> QED
    BY <2>1 DEF AskInv, DaysRead, Asking
<1> QED
  BY <1>3, <1>4, <1>5 DEF AskInv

LEMMA ReadHourlyKeeps ==
  ASSUME TiersInv, HoursInv, AskInv, ReadHourly
  PROVE  AskInv'
<1>1. /\ UNCHANGED vars /\ question' = [question EXCEPT !.read = question.read \cup {"hourly"}, !.hourly = hourly]
  BY DEF ReadHourly
<1>2. /\ question' \in [pc : {"idle", "chart", "availability"}, read : SUBSET Tiers,
                        raw : SUBSET Runs, hourly : [Hours -> Rows], daily : [Days -> Rows],
                        counted : SUBSET Runs, torn : BOOLEAN]
      /\ question'.pc = question.pc /\ question.pc # "idle" /\ question'.counted = question.counted
      /\ question'.torn = question.torn /\ question'.hourly = hourly
      /\ question'.daily = question.daily /\ question'.read = question.read \cup {"hourly"}
  <2>1. PICK read \in SUBSET Tiers, rows \in [Hours -> Rows] : read = question.read \cup {"hourly"} /\ rows = hourly
    BY QuestionIs DEF AskInv, Tiers, TiersInv, TierTypes
  <2>2. question' = [question EXCEPT !.read = read, !.hourly = rows] /\ question.pc # "idle"
    BY <1>1, <2>1 DEF ReadHourly
  <2> QED
    BY <2>1, <2>2, QuestionIs DEF AskInv
<1>3. AskTypes'
  BY <1>1, <1>2, TiersAsWere DEF AskInv, AskTypes, QuestionTypeOK
<1>4. HoursRead'
  <2> SUFFICES ASSUME NEW h \in Hours
               PROVE  /\ RunsOf(hourly[h]) <= Cardinality(CountedAt(h))
                      /\ ~OldHour(h) => RunsOf(hourly[h]) >= Cardinality(AskedAt(h))
    BY <1>1, <1>2, TiersAsWere DEF HoursRead
  <2>1. /\ RunsOf(hourly[h]) <= Cardinality(CountedAt(h))
        /\ ~OldHour(h) => RunsOf(hourly[h]) = Cardinality(CountedAt(h))
    BY DEF HoursInv, HoursCounted
  <2>2. /\ Cardinality(AskedAt(h)) \in Nat /\ Cardinality(CountedAt(h)) \in Nat
        /\ Cardinality(AskedAt(h)) <= Cardinality(CountedAt(h))
    BY AskedFacts DEF TiersInv, AskInv
  <2> QED
    BY <2>1, <2>2
<1>5. DaysRead'
  <2>1. \A d \in Days : RunsIn(hourly, HoursOf(d))' = RunsIn(hourly, HoursOf(d))
    BY <1>1, <1>2, TiersAsWere
  <2>2. "daily" \in question'.read => "daily" \in question.read
    BY <1>2
  <2> QED
    BY <1>1, <1>2, <2>1, <2>2, TiersAsWere DEF AskInv, DaysRead, Asking
<1> QED
  BY <1>3, <1>4, <1>5 DEF AskInv

LEMMA ReadDailyKeeps ==
  ASSUME TiersInv, HoursInv, AskInv, ReadDaily
  PROVE  AskInv'
<1>1. /\ UNCHANGED vars /\ question' = [question EXCEPT !.read = question.read \cup {"daily"}, !.daily = daily]
  BY DEF ReadDaily
<1>2. /\ question' \in [pc : {"idle", "chart", "availability"}, read : SUBSET Tiers,
                        raw : SUBSET Runs, hourly : [Hours -> Rows], daily : [Days -> Rows],
                        counted : SUBSET Runs, torn : BOOLEAN]
      /\ question'.pc = question.pc /\ question.pc # "idle" /\ question'.counted = question.counted
      /\ question'.torn = question.torn /\ question'.hourly = question.hourly
      /\ question'.daily = daily /\ question'.read = question.read \cup {"daily"}
  <2>1. PICK read \in SUBSET Tiers, rows \in [Days -> Rows] : read = question.read \cup {"daily"} /\ rows = daily
    BY QuestionIs DEF AskInv, Tiers, TiersInv, TierTypes
  <2>2. question' = [question EXCEPT !.read = read, !.daily = rows] /\ question.pc # "idle"
    BY <1>1, <2>1 DEF ReadDaily
  <2> QED
    BY <2>1, <2>2, QuestionIs DEF AskInv
<1>3. AskTypes'
  BY <1>1, <1>2, TiersAsWere DEF AskInv, AskTypes, QuestionTypeOK
<1>4. HoursRead'
  BY <1>1, <1>2, TiersAsWere DEF AskInv, HoursRead, Asking
<1>5. DaysRead'
  <2>1. \A d \in Days : RunsIn(hourly, HoursOf(d))' = RunsIn(hourly, HoursOf(d))
    BY <1>1, <1>2, TiersAsWere
  <2>2. \A d \in Days : /\ RunsOf(daily[d]) <= Cardinality(CountedIn(d))
                        /\ daily[d] # None => OldDay(d)
    <3>1. \A d \in Days : Cardinality(CountedIn(d)) \in Nat
      BY AskedFacts DEF TiersInv, AskInv
    <3>2. RunsOf(None) = 0 /\ \A n \in Nat : 0 <= n
      BY RowFacts
    <3> QED
      BY <3>1, <3>2 DEF HoursInv, DaysRolledUp
  <2>3. ASSUME ~question.torn, failures = 0, NEW d \in Days, ~ExpiredDay(d)
        PROVE  RunsOf(daily[d]) + RunsIn(hourly, HoursOf(d)) >= Cardinality(AskedIn(d))
    <3>1. job.doomed = {}
      BY <1>2, <2>3 DEF AskInv, DaysRead, Asking, RollingUp, TiersInv, RowsAsRead
    <3>2. RunsOf(daily[d]) + Kept(d) = Cardinality(CountedIn(d)) /\ HoursOf(d) \ job.doomed = HoursOf(d)
      BY <2>3, <3>1 DEF TiersInv, DaysConserved, DayConserved
    <3>3. /\ Cardinality(AskedIn(d)) \in Nat /\ Cardinality(CountedIn(d)) \in Nat
          /\ Cardinality(AskedIn(d)) <= Cardinality(CountedIn(d))
      BY AskedFacts DEF TiersInv, AskInv
    <3> QED
      BY <3>2, <3>3 DEF Kept
  <2>4. Asking /\ ~question.torn => ~RollingUp
    BY DEF AskInv, DaysRead
  <2> QED
    BY <1>1, <1>2, <2>1, <2>2, <2>3, <2>4, TiersAsWere DEF DaysRead, Asking
<1> QED
  BY <1>3, <1>4, <1>5 DEF AskInv

\* The tiers go on while the question is asked.
LEMMA TiersMeanwhile ==
  ASSUME TiersInv, HoursInv, AskInv, Asking, [Next]_vars, ~Tick,
         question' = [question EXCEPT !.torn = question.torn \/ RollingUp']
  PROVE  AskInv'
<1>1. /\ TierTypes /\ TierTypes' /\ Hours' = Hours /\ Days' = Days /\ now' = now
      /\ \A d : HoursOf(d)' = HoursOf(d) /\ Day(d)' = Day(d)
  BY ClockStep, TiersStep DEF TiersInv
<1>2. PICK torn \in BOOLEAN : torn = (question.torn \/ RollingUp')
  BY DEF RollingUp
<1>3. /\ question' \in [pc : {"idle", "chart", "availability"}, read : SUBSET Tiers,
                        raw : SUBSET Runs, hourly : [Hours -> Rows], daily : [Days -> Rows],
                        counted : SUBSET Runs, torn : BOOLEAN]
      /\ question'.pc = question.pc /\ question.pc # "idle" /\ question'.counted = question.counted
      /\ question'.torn = torn /\ question'.hourly = question.hourly
      /\ question'.daily = question.daily /\ question'.read = question.read
  BY <1>2, QuestionIs DEF AskInv, Asking
<1>4. /\ Counted \subseteq Counted' /\ \A r \in Counted : run'[r].hour = run[r].hour
  BY TierSteps, WriteBucketEffect DEF RunsKept, Counted
<1>5. AskTypes'
  <2>1. Rows' = Rows
    BY DEF Rows
  <2> QED
    BY <1>1, <1>3, <1>4, <2>1 DEF AskInv, AskTypes, QuestionTypeOK
<1>6. \A h : AskedAt(h)' = AskedAt(h) /\ AskedIn(h)' = AskedIn(h)
  <2>1. question.counted \subseteq Counted
    BY DEF AskInv, AskTypes
  <2> QED
    BY <1>1, <1>3, <1>4, <2>1 DEF AskedAt, AskedIn
<1>7. \A h : /\ OldHour(h)' <=> OldHour(h)
             /\ OldDay(h)' <=> OldDay(h)
             /\ ExpiredDay(h)' <=> ExpiredDay(h)
  BY <1>1 DEF OldHour, OldDay, ExpiredDay, Day
<1>8. ASSUME NEW h
      PROVE  /\ Cardinality(CountedAt(h)) \in Nat /\ Cardinality(CountedAt(h)') \in Nat
             /\ Cardinality(CountedAt(h)) <= Cardinality(CountedAt(h)')
  <2>1. CountedAt(h) \subseteq CountedAt(h)'
    BY <1>4 DEF CountedAt, Counted
  <2>2. CountedAt(h) \in SUBSET {r \in Runs : run[r].pc = "counted"}
        /\ CountedAt(h)' \in SUBSET {r \in Runs : run'[r].pc = "counted"}
    BY DEF CountedAt
  <2>3. IsFiniteSet(CountedAt(h)) /\ IsFiniteSet(CountedAt(h)')
    BY <1>1, <2>2, FS_Subset DEF TierTypes
  <2> QED
    BY <2>1, <2>3, FS_Subset, FS_CardinalityType
<1>9. /\ \A h \in Hours : RunsOf(question.hourly[h]) \in Nat
      /\ \A d \in Days : RunsOf(question.daily[d]) \in Nat
  BY QuestionIs, RowFacts DEF AskInv
<1>10. HoursRead'
  <2> SUFFICES ASSUME NEW h \in Hours
               PROVE  /\ RunsOf(question.hourly[h]) <= Cardinality(CountedAt(h)')
                      /\ "hourly" \in question.read /\ ~OldHour(h) =>
                           RunsOf(question.hourly[h]) >= Cardinality(AskedAt(h))
    BY <1>1, <1>3, <1>6, <1>7 DEF HoursRead
  <2>1. RunsOf(question.hourly[h]) <= Cardinality(CountedAt(h))
    BY DEF AskInv, HoursRead
  <2>2. RunsOf(question.hourly[h]) <= Cardinality(CountedAt(h)')
    BY <1>8, <1>9, <2>1
  <2> QED
    BY <2>2 DEF AskInv, HoursRead
<1>11. DaysRead'
  <2>1. ASSUME NEW d \in Days
        PROVE  /\ RunsOf(question.daily[d]) <= Cardinality(CountedIn(d)')
               /\ question.daily[d] # None => OldDay(d)
    <3>1. /\ RunsOf(question.daily[d]) <= Cardinality(CountedIn(d))
          /\ question.daily[d] # None => OldDay(d)
      BY DEF AskInv, DaysRead
    <3> QED
      BY <1>9, <3>1, CountsGrow
  <2>2. ASSUME ~torn PROVE ~question.torn /\ ~RollingUp' /\ ~RollingUp
    BY <1>2, <2>2 DEF AskInv, DaysRead
  <2>3. ASSUME ~torn, "daily" \in question.read, failures' = 0, NEW d \in Days, OldDay(d), ~ExpiredDay(d)
        PROVE  RunsOf(question.daily[d]) + RunsIn(hourly', HoursOf(d)) >= Cardinality(AskedIn(d))
    <3>1. failures = 0
      BY <2>3, NoFailure
    <3>2. RunsOf(question.daily[d]) + RunsIn(hourly, HoursOf(d)) >= Cardinality(AskedIn(d))
      BY <2>2, <2>3, <3>1 DEF AskInv, DaysRead
    <3>3. ~DeleteHourly
      BY <2>2, <2>3 DEF DeleteHourly, RollingUp
    <3>4. \A h \in HoursOf(d) : hourly'[h] = hourly[h]
      <4>1. \A h \in HoursOf(d) : h \in Hours /\ OldHour(h)
        BY <2>3, OldHours
      <4> QED
        BY <3>3, <4>1, TierSteps, WriteBucketEffect
    <3>5. IsFiniteSet(HoursOf(d)) /\ \A h \in HoursOf(d) : RunsOf(hourly[h]) = RunsOf(hourly'[h])
      BY <3>4, HourFacts
    <3>6. RunsIn(hourly, HoursOf(d)) = RunsIn(hourly', HoursOf(d))
      BY <3>5, SumsSame
    <3> QED
      BY <3>2, <3>6
  <2> QED
    BY <1>1, <1>3, <1>6, <1>7, <2>1, <2>2, <2>3 DEF DaysRead, Asking
<1> QED
  BY <1>5, <1>10, <1>11 DEF AskInv

LEMMA TiersOfHistory ==
  ASSUME [HistoryNext]_askVars
  PROVE  [Next]_vars
BY DEF HistoryNext, Meanwhile, Next, BeginQuestion, ReadRaw, ReadHourly, ReadDaily, EndQuestion, askVars

LEMMA AskStep ==
  ASSUME TiersInv, HoursInv, AskInv, raw \subseteq Runs, [HistoryNext]_askVars
  PROVE  AskInv'
<1>1. /\ [Next]_vars /\ TierTypes' /\ Hours' = Hours /\ Days' = Days
  BY TiersOfHistory, TiersStep, ClockStep DEF TiersInv
<1>2. CASE question' = NotAsking
  BY <1>1, <1>2, IdleKeeps
<1>3. CASE UNCHANGED askVars
  <2>1. UNCHANGED vars /\ question' = question
    BY <1>3 DEF askVars
  <2>2. \A d \in Days : RunsIn(hourly, HoursOf(d))' = RunsIn(hourly, HoursOf(d))
    BY <2>1, TiersAsWere
  <2> QED
    BY <2>1, <2>2, TiersAsWere DEF AskInv, AskTypes, QuestionTypeOK, HoursRead, DaysRead, Asking
<1>4. CASE Meanwhile
  <2>1. CASE question.pc = "idle"
    <3>1. question = NotAsking /\ (question' = question \/ question' = NotAsking)
      BY <1>4, <2>1 DEF Meanwhile, AskInv, AskTypes
    <3> QED
      BY <1>2, <3>1
  <2>2. CASE question.pc # "idle" /\ question' # NotAsking
    <3>1. question' = [question EXCEPT !.torn = question.torn \/ RollingUp']
      BY <1>4, <2>2 DEF Meanwhile
    <3>2. CASE ~Tick
      BY <1>1, <2>2, <3>1, <3>2, TiersMeanwhile DEF Asking
    <3>3. CASE Tick
      <4>1. Store \/ Count \/ StartJob \/ JobStep \/ JobFails \/ DisassociateSystem
        BY <1>4, <2>2 DEF Meanwhile
      <4>2. now' = now
        BY <4>1 DEF Store, StoreRun, Count, ReadBucket, WriteBucket, StartJob, JobStep, DeleteExpiredRawRuns,
                    ReadOldHourly, InsertDaily, DeleteHourly, DeleteExpiredAggregates, JobFails, DisassociateSystem
      <4>3. now' = now + 1 /\ now \in Nat
        BY <1>1, <3>3, HourFacts DEF Tick, TiersInv, TierTypes
      <4> QED
        BY <4>2, <4>3
    <3> QED
      BY <3>2, <3>3
  <2> QED
    BY <1>2, <2>1, <2>2
<1> QED
  BY <1>2, <1>3, <1>4, AskBeginKeeps, ReadRawKeeps, ReadHourlyKeeps, ReadDailyKeeps DEF HistoryNext, EndQuestion

-----------------------------------------------------------------------------

HourKey == [r \in Runs |-> run[r].hour]
DayKey == [r \in Runs |-> Day(run[r].hour)]

LEMMA KeysAre ==
  ASSUME NEW C \in SUBSET Runs
  PROVE  /\ \A S : WithKey(C, HourKey, S) = {r \in C : run[r].hour \in S}
         /\ \A S : WithKey(C, DayKey, S) = {r \in C : Day(run[r].hour) \in S}
BY DEF WithKey, HourKey, DayKey

\* An hour after the cutoff is not old, and an old day starts before it.
LEMMA CutoffParts ==
  ASSUME now \in Nat, NEW h \in Nat
  PROVE  /\ AfterHourlyCutoff(h) => ~OldHour(h)
         /\ OldDay(h) => ~AfterHourlyCutoff(h * HoursPerDay)
<1> DEFINE length == hourlyRetentionDays * HoursPerDay
<1>1. length \in Nat /\ hourlyRetentionDays \in Nat /\ HoursPerDay \in Nat
  BY Retentions
<1>2. Day(h) \in Nat /\ Day(now) \in Nat
  BY DayBounds
<1>3. ASSUME AfterHourlyCutoff(h) PROVE ~OldHour(h)
  <2>1. h > now - length
    BY <1>3 DEF AfterHourlyCutoff
  <2> HIDE DEF length
  <2>2. now <= h + length
    BY <1>1, <2>1
  <2> USE DEF length
  <2>3. Day(now) <= Day(h) + hourlyRetentionDays
    BY <1>1, <2>2, DayOrder
  <2> QED
    BY <1>1, <1>2, <2>3 DEF OldHour
<1>4. ASSUME OldDay(h) PROVE ~AfterHourlyCutoff(h * HoursPerDay)
  <2>1. h + hourlyRetentionDays <= Day(now)
    BY <1>1, <1>2, <1>4 DEF OldDay
  <2>2. HoursPerDay * (h + hourlyRetentionDays) <= HoursPerDay * Day(now)
    BY <1>1, <1>2, <2>1, ProductOrder
  <2>3. HoursPerDay * (h + hourlyRetentionDays) = HoursPerDay * h + HoursPerDay * hourlyRetentionDays
    BY <1>1, ProductOfSum
  <2>4. HoursPerDay * Day(now) <= now
    BY DayBounds
  <2>5. PICK x \in Nat, y \in Nat, z \in Nat :
          /\ x = HoursPerDay * h /\ y = HoursPerDay * hourlyRetentionDays /\ z = HoursPerDay * Day(now)
          /\ x = h * HoursPerDay /\ y = hourlyRetentionDays * HoursPerDay
    BY <1>1, <1>2
  <2>6. x + y <= z /\ z <= now
    BY <2>2, <2>3, <2>4, <2>5
  <2>7. ~(x > now - y)
    BY <2>6
  <2> QED
    BY <2>5, <2>7 DEF AfterHourlyCutoff
<1> QED
  BY <1>3, <1>4

\* A day whose start is in the period is in it.
LEMMA WithinDay ==
  ASSUME now \in Nat, NEW h \in Nat, NEW period \in Nat, Within(period, Day(h) * HoursPerDay)
  PROVE  Within(period, h)
<1>1. PICK x \in Nat, y \in Nat : x = Day(h) * HoursPerDay /\ y = period * HoursPerDay
  BY DayBounds, Retentions
<1>2. x <= h
  <2>1. Day(h) * HoursPerDay = HoursPerDay * Day(h)
    BY DayBounds, Retentions
  <2> QED
    BY <1>1, <2>1, DayBounds
<1>3. x > now - y
  BY <1>1 DEF Within
<1>4. h > now - y
  BY <1>2, <1>3
<1> QED
  BY <1>1, <1>4 DEF Within

HoursShown(period) ==
  {h \in Hours : question.hourly[h] # None /\ AfterHourlyCutoff(h) /\ Within(period, h)}
DaysShown(period) ==
  {d \in Days : LET start == d * HoursPerDay IN
     question.daily[d] # None /\ ~AfterHourlyCutoff(start) /\ Within(period, start)}

LEMMA ShownFacts ==
  ASSUME TierTypes, AskInv, NEW period
  PROVE  /\ IsFiniteSet(HoursShown(period)) /\ HoursShown(period) \in SUBSET Hours
         /\ IsFiniteSet(DaysShown(period)) /\ DaysShown(period) \in SUBSET Days
         /\ RunsIn(question.hourly, HoursShown(period)) \in Nat
         /\ RunsIn(question.daily, DaysShown(period)) \in Nat
         /\ \A h \in Hours : RunsOf(question.hourly[h]) \in Nat
         /\ \A d \in Days : RunsOf(question.daily[d]) \in Nat
         /\ IsFiniteSet(question.counted) /\ question.counted \in SUBSET Counted
         /\ now \in Nat /\ now \in Hours /\ \A r \in Runs : run[r].hour \in Hours /\ run[r].hour \in Nat
<1>1. IsFiniteSet(Days)
  <2>1. Day(MaxHour) \in Nat /\ 0 \in Int
    BY HourFacts, DayBounds
  <2> QED
    BY <2>1, FS_Interval DEF Days
<1>2. HoursShown(period) \in SUBSET Hours /\ DaysShown(period) \in SUBSET Days
  BY DEF HoursShown, DaysShown
<1>3. IsFiniteSet(HoursShown(period)) /\ IsFiniteSet(DaysShown(period))
  BY <1>1, <1>2, HourFacts, FS_Subset
<1>4. /\ \A h \in Hours : RunsOf(question.hourly[h]) \in Nat
      /\ \A d \in Days : RunsOf(question.daily[d]) \in Nat
  BY QuestionIs, RowFacts DEF AskInv
<1>5. /\ RunsIn(question.hourly, HoursShown(period)) \in Nat
      /\ RunsIn(question.daily, DaysShown(period)) \in Nat
  BY <1>2, <1>3, <1>4, SumIsNumber
<1>6. question.counted \in SUBSET Counted /\ IsFiniteSet(question.counted)
  BY CountedFacts DEF AskInv, AskTypes
<1>7. \A r \in Runs : run[r].hour \in Hours /\ run[r].hour \in Nat
  BY RunTypesIs, HourFacts DEF RunType
<1> QED
  BY <1>2, <1>3, <1>4, <1>5, <1>6, <1>7, HourFacts DEF TierTypes

\* The figures count no run twice.
LEMMA NoneTwice ==
  ASSUME TiersInv, AskInv, NEW period \in Nat
  PROVE  RunsInPeriod(period) <= Cardinality({r \in Runs : run[r].pc = "counted" /\ Within(period, run[r].hour)})
<1> DEFINE hours == HoursShown(period)
           days == DaysShown(period)
           A == WithKey(Counted, HourKey, hours)
           B == WithKey(Counted, DayKey, days)
           W == {r \in Runs : run[r].pc = "counted" /\ Within(period, run[r].hour)}
<1>1. TierTypes /\ IsFiniteSet(Counted) /\ Counted \in SUBSET Runs
  BY CountedFacts DEF TiersInv, Counted
<1>2. /\ A = {r \in Counted : run[r].hour \in hours}
      /\ B = {r \in Counted : Day(run[r].hour) \in days}
      /\ \A h : WithKey(Counted, HourKey, {h}) = CountedAt(h) /\ WithKey(Counted, DayKey, {h}) = CountedIn(h)
  <2>1. \A h : /\ WithKey(Counted, HourKey, {h}) = {r \in Counted : run[r].hour \in {h}}
               /\ WithKey(Counted, DayKey, {h}) = {r \in Counted : Day(run[r].hour) \in {h}}
    BY <1>1, KeysAre
  <2>2. \A h : /\ CountedAt(h) = {r \in Counted : run[r].hour \in {h}}
               /\ CountedIn(h) = {r \in Counted : Day(run[r].hour) \in {h}}
    BY DEF CountedAt, CountedIn, Counted
  <2> QED
    BY <1>1, <2>1, <2>2, KeysAre
<1>3. A \subseteq W /\ B \subseteq W /\ A \cap B = {} /\ A \in SUBSET Counted /\ B \in SUBSET Counted
  <2>1. A \subseteq W
    BY <1>2 DEF Counted, HoursShown
  <2>2. B \subseteq W
    <3> SUFFICES ASSUME NEW r \in B PROVE r \in W
      OBVIOUS
    <3>1. r \in Runs /\ run[r].pc = "counted" /\ Within(period, Day(run[r].hour) * HoursPerDay)
      BY <1>2 DEF Counted, DaysShown
    <3>2. Within(period, run[r].hour)
      BY <1>1, <3>1, ShownFacts, WithinDay
    <3> QED
      BY <3>1, <3>2
  <2>3. ASSUME NEW r \in A, r \in B PROVE FALSE
    <3>1. /\ r \in Runs /\ AfterHourlyCutoff(run[r].hour)
          /\ Day(run[r].hour) \in Days /\ question.daily[Day(run[r].hour)] # None
      BY <1>2, <2>3 DEF Counted, HoursShown, DaysShown
    <3>2. ~OldHour(run[r].hour)
      BY <1>1, <3>1, ShownFacts, CutoffParts
    <3>3. OldDay(Day(run[r].hour))
      BY <3>1 DEF AskInv, DaysRead
    <3> QED
      BY <3>2, <3>3, OldHours
  <2> QED
    BY <1>2, <2>1, <2>2, <2>3
<1>4. RunsIn(question.hourly, hours) <= Cardinality(A)
  <2>1. \A h \in hours : RunsOf(question.hourly[h]) \in Nat
                         /\ RunsOf(question.hourly[h]) <= Cardinality(WithKey(Counted, HourKey, {h}))
    BY <1>1, <1>2, ShownFacts DEF AskInv, HoursRead
  <2>2. IsFiniteSet(hours)
    BY <1>1, ShownFacts
  <2> HIDE DEF hours
  <2> QED
    BY <1>1, <2>1, <2>2, CountsBelow
<1>5. RunsIn(question.daily, days) <= Cardinality(B)
  <2>1. \A d \in days : RunsOf(question.daily[d]) \in Nat
                        /\ RunsOf(question.daily[d]) <= Cardinality(WithKey(Counted, DayKey, {d}))
    BY <1>1, <1>2, ShownFacts DEF AskInv, DaysRead
  <2>2. IsFiniteSet(days)
    BY <1>1, ShownFacts
  <2> HIDE DEF days
  <2> QED
    BY <1>1, <2>1, <2>2, CountsBelow
<1>6. W \in SUBSET Counted
  BY DEF Counted
<1>7. RunsIn(question.hourly, hours) \in Nat /\ RunsIn(question.daily, days) \in Nat
      /\ RunsInPeriod(period) = RunsIn(question.hourly, hours) + RunsIn(question.daily, days)
  BY <1>1, ShownFacts DEF RunsInPeriod, HoursShown, DaysShown
<1> HIDE DEF hours, days, A, B, W
<1>8. IsFiniteSet(A) /\ IsFiniteSet(B) /\ IsFiniteSet(W)
  BY <1>1, <1>3, <1>6, FS_Subset
<1>9. Cardinality(A \cup B) = Cardinality(A) + Cardinality(B) - 0
  BY <1>3, <1>8, FS_Union, FS_EmptySet
<1>10. Cardinality(A \cup B) <= Cardinality(W)
  BY <1>3, <1>8, FS_Subset
<1>11. Cardinality(A) \in Nat /\ Cardinality(B) \in Nat /\ Cardinality(W) \in Nat
  BY <1>8, FS_CardinalityType
<1>12. RunsInPeriod(period) <= Cardinality(W)
  BY <1>4, <1>5, <1>7, <1>9, <1>10, <1>11
<1> QED
  BY <1>12 DEF W

\* Rows that count nothing sum up to nothing.
LEMMA SumOfNothing ==
  ASSUME NEW rows, NEW S, IsFiniteSet(S), \A h \in S : rows[h] = None
  PROVE  RunsIn(rows, S) = 0
<1>1. \A s : Cardinality(WithKey({}, {}, s)) = 0
  BY FS_EmptySet DEF WithKey
<1>2. \A h \in S : RunsOf(rows[h]) = 0
  BY RowFacts
<1>3. \A h \in S : RunsOf(rows[h]) \in Nat /\ RunsOf(rows[h]) <= Cardinality(WithKey({}, {}, {h}))
  BY <1>1, <1>2
<1>4. RunsIn(rows, S) <= Cardinality(WithKey({}, {}, S))
  BY <1>3, FS_EmptySet, CountsBelow
<1>5. RunsIn(rows, S) \in Nat
  BY <1>3, SumIsNumber
<1> QED
  BY <1>1, <1>4, <1>5

Due(period) ==
  {r \in question.counted :
     \/ /\ run[r].hour > now - hourlyRetentionDays * HoursPerDay
        /\ Within(period, run[r].hour)
     \/ /\ Day(run[r].hour) < Day(now) - hourlyRetentionDays
        /\ Within(period, Day(run[r].hour) * HoursPerDay)
        /\ ~ExpiredDay(Day(run[r].hour))}

\* The figures miss none.
LEMMA NoneMissed ==
  ASSUME TiersInv, HoursInv, AskInv, AllRead, question.pc = "availability", NEW period \in Nat,
         failures = 0, ~question.torn, job.pc = "idle", lastJob = Day(now), assigned
  PROVE  RunsInPeriod(period) >= Cardinality(Due(period))
<1> DEFINE C == question.counted
           hours == HoursShown(period)
           days == {d \in DaysShown(period) : ~ExpiredDay(d)}
           A == {r \in C : AfterHourlyCutoff(run[r].hour) /\ Within(period, run[r].hour)}
           B == {r \in C : /\ OldDay(Day(run[r].hour)) /\ ~ExpiredDay(Day(run[r].hour))
                           /\ Within(period, Day(run[r].hour) * HoursPerDay)}
<1>1. /\ TierTypes /\ IsFiniteSet(C) /\ C \in SUBSET Runs
      /\ Asking /\ "hourly" \in question.read /\ "daily" \in question.read
  BY CountedFacts, ShownFacts DEF TiersInv, Counted, AllRead, Tiers, Asking
<1>2. \A h : WithKey(C, HourKey, {h}) = AskedAt(h) /\ WithKey(C, DayKey, {h}) = AskedIn(h)
  <2>1. \A h : /\ WithKey(C, HourKey, {h}) = {r \in C : run[r].hour \in {h}}
               /\ WithKey(C, DayKey, {h}) = {r \in C : Day(run[r].hour) \in {h}}
    BY <1>1, KeysAre
  <2> QED
    BY <2>1 DEF AskedAt, AskedIn
<1>3. \A h : /\ IsFiniteSet(AskedAt(h)) /\ IsFiniteSet(AskedIn(h))
             /\ AskedAt(h) # {} => Cardinality(AskedAt(h)) # 0
             /\ AskedIn(h) # {} => Cardinality(AskedIn(h)) # 0
             /\ Cardinality(AskedAt(h)) \in Nat /\ Cardinality(AskedIn(h)) \in Nat
  <2> SUFFICES ASSUME NEW h
               PROVE  /\ IsFiniteSet(AskedAt(h)) /\ IsFiniteSet(AskedIn(h))
                      /\ AskedAt(h) # {} => Cardinality(AskedAt(h)) # 0
                      /\ AskedIn(h) # {} => Cardinality(AskedIn(h)) # 0
                      /\ Cardinality(AskedAt(h)) \in Nat /\ Cardinality(AskedIn(h)) \in Nat
    OBVIOUS
  <2>1. AskedAt(h) \in SUBSET C /\ AskedIn(h) \in SUBSET C
    BY QuestionIs DEF AskInv
  <2>2. IsFiniteSet(AskedAt(h)) /\ IsFiniteSet(AskedIn(h))
    BY <1>1, <2>1, FS_Subset
  <2> QED
    BY <2>2, FS_EmptySet, FS_CardinalityType
<1>4. \A h \in Hours : AfterHourlyCutoff(h) =>
        RunsOf(question.hourly[h]) \in Nat /\ RunsOf(question.hourly[h]) >= Cardinality(AskedAt(h))
  BY <1>1, ShownFacts, HourFacts, CutoffParts DEF AskInv, HoursRead
<1>5. \A d \in Days : OldDay(d) /\ ~ExpiredDay(d) =>
        RunsOf(question.daily[d]) \in Nat /\ RunsOf(question.daily[d]) >= Cardinality(AskedIn(d))
  <2> SUFFICES ASSUME NEW d \in Days, OldDay(d), ~ExpiredDay(d)
               PROVE  RunsOf(question.daily[d]) \in Nat /\ RunsOf(question.daily[d]) >= Cardinality(AskedIn(d))
    OBVIOUS
  <2>1. RunsOf(question.daily[d]) + RunsIn(hourly, HoursOf(d)) >= Cardinality(AskedIn(d))
    BY <1>1 DEF AskInv, DaysRead
  <2>2. \A h \in HoursOf(d) : hourly[h] = None
    BY OldHours DEF HoursInv, JobDone, OldHourLeft
  <2>3. RunsIn(hourly, HoursOf(d)) = 0
    BY <2>2, HourFacts, SumOfNothing
  <2>4. RunsOf(question.daily[d]) \in Nat
    BY <1>1, ShownFacts
  <2>5. RunsOf(question.daily[d]) >= Cardinality(AskedIn(d))
    BY <1>3, <2>1, <2>3, <2>4
  <2> QED
    BY <2>4, <2>5
<1>6. A \subseteq WithKey(C, HourKey, hours)
  <2> SUFFICES ASSUME NEW r \in A PROVE r \in WithKey(C, HourKey, hours)
    OBVIOUS
  <2>1. /\ r \in C /\ run[r].hour \in Hours
        /\ AfterHourlyCutoff(run[r].hour) /\ Within(period, run[r].hour)
    BY <1>1, ShownFacts
  <2>2. r \in AskedAt(run[r].hour)
    BY <2>1 DEF AskedAt
  <2>3. RunsOf(question.hourly[run[r].hour]) # 0
    BY <1>3, <1>4, <2>1, <2>2
  <2>4. run[r].hour \in hours
    BY <2>1, <2>3, RowFacts DEF HoursShown
  <2> QED
    BY <1>1, <2>1, <2>4, KeysAre
<1>7. B \subseteq WithKey(C, DayKey, days)
  <2> SUFFICES ASSUME NEW r \in B PROVE r \in WithKey(C, DayKey, days)
    OBVIOUS
  <2> DEFINE d == Day(run[r].hour)
  <2>1. /\ r \in C /\ OldDay(d) /\ ~ExpiredDay(d) /\ Within(period, d * HoursPerDay)
    OBVIOUS
  <2>2. d \in Days /\ d \in Nat
    <3>1. run[r].hour \in Nat /\ run[r].hour <= MaxHour /\ MaxHour \in Nat
      BY <1>1, <2>1, ShownFacts, HourFacts DEF Hours
    <3> QED
      BY <3>1, DaysInOrder, DayBounds DEF Days
  <2>3. r \in AskedIn(d)
    BY <2>1 DEF AskedIn
  <2> HIDE DEF d
  <2>4. RunsOf(question.daily[d]) # 0
    BY <1>3, <1>5, <2>1, <2>2, <2>3
  <2>5. ~AfterHourlyCutoff(d * HoursPerDay)
    BY <1>1, <2>1, <2>2, ShownFacts, CutoffParts
  <2>6. d \in days
    BY <2>1, <2>2, <2>4, <2>5, RowFacts DEF DaysShown
  <2> QED
    BY <1>1, <2>1, <2>6, KeysAre DEF d
<1>8. RunsIn(question.hourly, hours) >= Cardinality(WithKey(C, HourKey, hours))
  <2>1. \A h \in hours : RunsOf(question.hourly[h]) \in Nat
                         /\ RunsOf(question.hourly[h]) >= Cardinality(WithKey(C, HourKey, {h}))
    BY <1>2, <1>4 DEF HoursShown
  <2>2. IsFiniteSet(hours)
    BY <1>1, ShownFacts
  <2> HIDE DEF hours, C
  <2> QED
    BY <1>1, <2>1, <2>2, CountsAbove
<1>9. RunsIn(question.daily, DaysShown(period)) >= Cardinality(WithKey(C, DayKey, days))
  <2>1. \A d \in days : OldDay(d) /\ ~ExpiredDay(d) /\ d \in Days
    BY DEF DaysShown, AskInv, DaysRead
  <2>2. \A d \in days : RunsOf(question.daily[d]) \in Nat
                        /\ RunsOf(question.daily[d]) >= Cardinality(WithKey(C, DayKey, {d}))
    BY <1>2, <1>5, <2>1
  <2>3. IsFiniteSet(DaysShown(period)) /\ days \in SUBSET DaysShown(period)
        /\ \A d \in DaysShown(period) : RunsOf(question.daily[d]) \in Nat
    BY <1>1, ShownFacts
  <2> HIDE DEF days, C
  <2>4. IsFiniteSet(days) /\ IsFiniteSet(DaysShown(period) \ days)
    BY <2>3, FS_Subset
  <2>5. RunsIn(question.daily, days) >= Cardinality(WithKey(C, DayKey, days))
    BY <1>1, <2>2, <2>4, CountsAbove
  <2>6. RunsIn(question.daily, DaysShown(period))
          = RunsIn(question.daily, days) + RunsIn(question.daily, DaysShown(period) \ days)
    BY <2>3, SumSplits
  <2>7. RunsIn(question.daily, days) \in Nat /\ RunsIn(question.daily, DaysShown(period) \ days) \in Nat
    BY <2>2, <2>3, <2>4, SumIsNumber
  <2>8. Cardinality(WithKey(C, DayKey, days)) \in Nat
    <3>1. WithKey(C, DayKey, days) \in SUBSET C
      BY DEF WithKey
    <3> QED
      BY <1>1, <3>1, FS_Subset, FS_CardinalityType
  <2> QED
    BY <2>5, <2>6, <2>7, <2>8
<1>10. Due(period) = A \cup B
  BY DEF Due, AfterHourlyCutoff, OldDay
<1>11. /\ RunsInPeriod(period) = RunsIn(question.hourly, hours) + RunsIn(question.daily, DaysShown(period))
       /\ RunsIn(question.hourly, hours) \in Nat /\ RunsIn(question.daily, DaysShown(period)) \in Nat
  BY <1>1, ShownFacts DEF RunsInPeriod, HoursShown, DaysShown
<1> DEFINE KA == WithKey(C, HourKey, hours)
           KB == WithKey(C, DayKey, days)
<1>12. KA \in SUBSET C /\ KB \in SUBSET C /\ Due(period) \subseteq KA \cup KB
  BY <1>6, <1>7, <1>10 DEF WithKey
<1> HIDE DEF A, B, KA, KB, hours, days, C
<1>13. /\ IsFiniteSet(KA) /\ IsFiniteSet(KB)
  BY <1>1, <1>12, FS_Subset
<1>14. /\ Cardinality(KA \cup KB) = Cardinality(KA) + Cardinality(KB) - Cardinality(KA \cap KB)
       /\ IsFiniteSet(KA \cup KB) /\ IsFiniteSet(KA \cap KB)
  BY <1>13, FS_Union, FS_Subset
<1>15. Cardinality(Due(period)) <= Cardinality(KA \cup KB) /\ IsFiniteSet(Due(period))
  BY <1>12, <1>14, FS_Subset
<1>16. /\ Cardinality(KA) \in Nat /\ Cardinality(KB) \in Nat /\ Cardinality(KA \cap KB) \in Nat
       /\ Cardinality(KA \cup KB) \in Nat /\ Cardinality(Due(period)) \in Nat
  BY <1>13, <1>14, <1>15, FS_CardinalityType
<1>17. RunsIn(question.hourly, hours) >= Cardinality(KA)
       /\ RunsIn(question.daily, DaysShown(period)) >= Cardinality(KB)
  BY <1>8, <1>9 DEF KA, KB
<1> QED
  BY <1>11, <1>14, <1>15, <1>16, <1>17

\* However the roll-up and the runs being counted come between the two statements of a
\* question for the availability figures, and whatever fails, getAvailabilityStats
\* counts no run twice; and it misses none, if the retention job has run through today
\* and does not run meanwhile.
THEOREM AvailabilityCorrect == HistorySpec => AvailabilityCountsEachRun
<1> DEFINE Sound == TiersInv /\ HoursInv /\ AskInv
<1>1. HistoryInit => Sound
  <2> SUFFICES ASSUME HistoryInit PROVE Sound
    OBVIOUS
  <2>1. TiersInv /\ HoursInv /\ question = NotAsking
    BY TiersInit, HoursInit DEF HistoryInit
  <2> QED
    BY <2>1, IdleSound DEF TiersInv
<1>2. TypeOK /\ Sound /\ [HistoryNext]_askVars => Sound'
  BY TiersOfHistory, TiersStep, HoursStep, AskStep DEF TypeOK
<1>3. Sound /\ [HistoryNext]_askVars =>
        [AllRead /\ question.pc = "availability" =>
           \A period \in AvailabilityPeriods :
             LET total == RunsInPeriod(period) IN
             /\ total <= Cardinality({r \in Runs : run[r].pc = "counted" /\ Within(period, run[r].hour)})
             /\ failures = 0 /\ ~question.torn /\ job.pc = "idle" /\ lastJob = Day(now) /\ assigned =>
                  total >= Cardinality({r \in question.counted :
                    \/ /\ run[r].hour > now - hourlyRetentionDays * HoursPerDay
                       /\ Within(period, run[r].hour)
                    \/ /\ Day(run[r].hour) < Day(now) - hourlyRetentionDays
                       /\ Within(period, Day(run[r].hour) * HoursPerDay)
                       /\ ~ExpiredDay(Day(run[r].hour))})]_question
  BY NoneTwice, NoneMissed, HistoryAssumption DEF Due
<1>4. HistorySpec => Spec
  <2>1. HistoryInit => Init
    BY DEF HistoryInit
  <2> QED
    BY <2>1, TiersOfHistory, PTL DEF HistorySpec, Spec
<1> QED
  BY <1>1, <1>2, <1>3, <1>4, TiersTypesCorrect, PTL DEF HistorySpec, AvailabilityCountsEachRun

-----------------------------------------------------------------------------
(* A chart: what its three statements have read. *)

StoredRuns == {r \in Runs : run[r].pc # "waiting"}

RunsStored ==
  /\ IsFiniteSet(StoredRuns) /\ raw \subseteq StoredRuns
  /\ \A r \in Runs : run[r].at <= run[r].hour

\* Until the day of an hour is rolled up, or expires, the row of the hour has all its runs.
HoursWhole ==
  /\ \A h \in Hours : daily[Day(h)] = None /\ ~ExpiredDay(Day(h)) =>
       RunsOf(hourly[h]) = Cardinality(CountedAt(h))
  /\ \A h \in job.doomed : daily[Day(h)] # None

\* While nothing is rolled up a question finds a run in one tier, in either order of reading.
TiersRead ==
  /\ question.raw \subseteq StoredRuns
  /\ Asking /\ ~question.torn =>
       /\ "daily" \in question.read => \A d \in Days : ~ExpiredDay(d) =>
            (question.daily[d] = None <=> daily[d] = None)
       /\ "hourly" \in question.read => \A h \in Hours :
            /\ daily[Day(h)] = None /\ ~ExpiredDay(Day(h)) =>
                 RunsOf(question.hourly[h]) >= Cardinality(AskedAt(h))
            /\ failures = 0 /\ daily[Day(h)] # None => question.hourly[h] = None

ChartInv == RunsStored /\ HoursWhole /\ TiersRead

LEMMA RunsStoredStep ==
  ASSUME TiersInv, RunsStored, [Next]_vars
  PROVE  RunsStored'
<1>1. ASSUME NEW r \in Runs, StoreRun(r) \/ ReadBucket(r) \/ WriteBucket(r) PROVE RunsStored'
  <2>1. PICK new : /\ run' = [run EXCEPT ![r] = new]
                   /\ new.pc # "waiting" /\ new.at <= new.hour
    <3>1. CASE StoreRun(r)
      <4>1. PICK l : run' = [run EXCEPT ![r].pc = "stored", ![r].at = now, ![r].hour = now, ![r].latency = l]
        BY <3>1 DEF StoreRun
      <4>2. LET new == [run[r] EXCEPT !.pc = "stored", !.at = now, !.hour = now, !.latency = l]
            IN /\ run' = [run EXCEPT ![r] = new]
               /\ new.pc = "stored" /\ new.at = now /\ new.hour = now
        BY <4>1, RunTypesIs DEF TiersInv, TierTypes, RunType
      <4>3. now <= now
        BY RunTypesIs DEF TiersInv
      <4> QED
        BY <4>2, <4>3
    <3>2. CASE ReadBucket(r)
      <4>1. PICK l : run' = [run EXCEPT ![r].pc = "read", ![r].hour = now, ![r].min = l]
        BY <3>2 DEF ReadBucket
      <4>2. LET new == [run[r] EXCEPT !.pc = "read", !.hour = now, !.min = l]
            IN /\ run' = [run EXCEPT ![r] = new]
               /\ new.pc = "read" /\ new.at = run[r].at /\ new.hour = now
        BY <4>1, RunTypesIs DEF TiersInv, TierTypes, RunType
      <4>3. run[r].at <= now
        <5>1. run[r].at <= run[r].hour /\ run[r].hour <= now
          BY <3>2 DEF ReadBucket, Counting, TiersInv, RunsRecent
        <5>2. run[r].at \in Nat /\ run[r].hour \in Nat /\ now \in Nat
          BY RunTypesIs, HourFacts DEF TiersInv, RunType
        <5> QED
          BY <5>1, <5>2
      <4> QED
        BY <4>2, <4>3
    <3>3. CASE WriteBucket(r)
      <4>1. LET new == [run[r] EXCEPT !.pc = "counted"]
            IN /\ run' = [run EXCEPT ![r] = new]
               /\ new.pc = "counted" /\ new.at = run[r].at /\ new.hour = run[r].hour
        BY <3>3, RunTypesIs DEF TiersInv, TierTypes, RunType, WriteBucket
      <4> QED
        BY <4>1 DEF RunsStored
    <3> QED
      BY <1>1, <3>1, <3>2, <3>3
  <2>2. run'[r] = new /\ \A s \in Runs \ {r} : run'[s] = run[s]
    BY <2>1 DEF TiersInv, TierTypes
  <2>3. StoredRuns' = StoredRuns \cup {r}
    BY <2>1, <2>2 DEF StoredRuns
  <2>4. IsFiniteSet(StoredRuns')
    BY <2>3, FS_AddElement DEF RunsStored
  <2>5. raw' \subseteq raw \cup {r}
    BY <1>1 DEF StoreRun, ReadBucket, WriteBucket
  <2> QED
    BY <2>1, <2>2, <2>3, <2>4, <2>5 DEF RunsStored
<1>2. CASE run' = run /\ raw' \subseteq raw
  BY <1>2 DEF RunsStored, StoredRuns
<1>3. CASE Crash
  <2>1. \A r \in Runs : Counting(r) => LET lost == [run[r] EXCEPT !.pc = "lost"]
                                       IN lost.pc = "lost" /\ lost.at = run[r].at /\ lost.hour = run[r].hour
    BY RunTypesIs DEF RunType, TiersInv
  <2>2. \A r \in Runs : /\ run'[r].at = run[r].at /\ run'[r].hour = run[r].hour
                        /\ run'[r].pc = run[r].pc \/ (Counting(r) /\ run'[r].pc = "lost")
    BY <1>3, <2>1 DEF Crash
  <2>3. StoredRuns' = StoredRuns
    BY <2>2 DEF StoredRuns, Counting
  <2> QED
    BY <1>3, <2>2, <2>3 DEF RunsStored, Crash
<1> QED
  <2>1. CASE JobStep
    BY <1>2, <2>1 DEF JobStep, DeleteExpiredRawRuns, ReadOldHourly, InsertDaily, DeleteHourly, DeleteExpiredAggregates
  <2> QED
    BY <1>1, <1>2, <1>3, <2>1 DEF Next, Store, Count, StartJob, Tick, JobFails, DisassociateSystem, vars

\* What becomes of the daily rows and of what is being deleted.
LEMMA DailySteps ==
  ASSUME TiersInv, [Next]_vars
  PROVE  /\ InsertDaily \/ \A d \in Days : daily'[d] = daily[d] \/ (daily'[d] = None /\ ExpiredDay(d)')
         /\ InsertDaily \/ (job'.doomed \subseteq job.doomed /\ (DeleteExpiredAggregates => job'.doomed = {}))
         /\ \A d \in Days : daily'[d] = None /\ ~ExpiredDay(d)' => daily[d] = None /\ ~ExpiredDay(d)
<1>1. ASSUME DeleteExpiredAggregates
      PROVE  \A d \in Days : daily'[d] = IF ExpiredDay(d)' THEN None ELSE daily[d]
  BY <1>1 DEF DeleteExpiredAggregates, ExpiredDay
<1>2. InsertDaily \/ \A d \in Days : daily'[d] = daily[d] \/ (daily'[d] = None /\ ExpiredDay(d)')
  BY <1>1, TierSteps, WriteBucketEffect
<1>3. InsertDaily \/ (job'.doomed \subseteq job.doomed /\ (DeleteExpiredAggregates => job'.doomed = {}))
  <2>1. DeleteHourly => job'.doomed \subseteq job.doomed /\ ~DeleteExpiredAggregates
    BY DEF DeleteHourly, DeleteExpiredAggregates, TiersInv, TierTypes, JobType
  <2>2. StartJob \/ DeleteExpiredRawRuns => job'.doomed \subseteq job.doomed /\ ~DeleteExpiredAggregates
    <3>1. StartJob => job'.doomed = job.doomed
      BY JobMoves DEF StartJob, TiersInv
    <3>2. DeleteExpiredRawRuns => job'.doomed = job.doomed
      BY JobMoves DEF DeleteExpiredRawRuns, TiersInv
    <3> QED
      BY <3>1, <3>2 DEF StartJob, DeleteExpiredRawRuns, DeleteExpiredAggregates
  <2>3. ReadOldHourly \/ DeleteExpiredAggregates \/ Crash \/ JobFails => job'.doomed = {}
    BY IdleJobIs DEF ReadOldHourly, DeleteExpiredAggregates, Crash, JobFails
  <2>4. (\E r \in Runs : WriteBucket(r)) \/ UNCHANGED job \/ Tick => job'.doomed \subseteq job.doomed
    BY WriteBucketEffect DEF Tick
  <2>5. DeleteExpiredAggregates => job'.doomed = {}
    BY <2>3
  <2> QED
    BY <2>1, <2>2, <2>3, <2>4, <2>5, TierSteps DEF JobStep
<1>4. \A d \in Days : ExpiredDay(d) => ExpiredDay(d)'
  BY ClockStep, OldStays, HourFacts
<1>5. ASSUME InsertDaily, NEW d \in Days, daily'[d] = None PROVE daily[d] = None
  BY <1>5 DEF InsertDaily, TiersInv, TierTypes
<1> QED
  BY <1>2, <1>3, <1>4, <1>5

LEMMA RollUpIsRow ==
  ASSUME TiersInv, NEW d, NEW hours, hours = {h \in HoursOf(d) : job.old[h] # None}
  PROVE  RollUp(hours) # None
<1>1. TierTypes /\ job.old \in [Hours -> Rows] /\ hours \in SUBSET Hours
  BY HourFacts DEF TiersInv, TierTypes, JobType
<1>2. RunsIn(job.old, hours) \in Nat
  BY <1>1, KeptIsNumber
<1>3. \A h \in hours : job.old[h] \in Rows /\ job.old[h] # None
  BY <1>1
<1>4. {job.old[h].min : h \in hours} \subseteq Latencies \cup {None}
  BY <1>3 DEF Rows
<1>5. PICK n \in Nat, min \in Latencies \cup {None} :
        n = RunsIn(job.old, hours) /\ min = Least({job.old[h].min : h \in hours})
  BY <1>2, <1>4, LeastType
<1>6. RollUp(hours) = [runs |-> n, min |-> min]
  BY <1>5 DEF RollUp
<1> QED
  BY <1>6, BoundAssumption

LEMMA HoursWholeStep ==
  ASSUME TiersInv, HoursWhole, [Next]_vars
  PROVE  HoursWhole'
<1>1. /\ TierTypes /\ Hours' = Hours /\ (\A d : Day(d)' = Day(d)) /\ \A h \in Hours : Day(h) \in Days
  <2>1. \A h \in Hours : Day(h) \in Days
    <3>1. \A h \in Hours : h \in Nat /\ h <= MaxHour /\ MaxHour \in Nat
      BY HourFacts DEF Hours
    <3> QED
      BY <3>1, DaysInOrder, DayBounds DEF Days
  <2> QED
    BY <2>1, ClockStep DEF TiersInv
<1>2. ASSUME NEW h \in Hours, daily'[Day(h)] = None, ~ExpiredDay(Day(h))'
      PROVE  RunsOf(hourly'[h]) = Cardinality(CountedAt(h)')
  <2>1. daily[Day(h)] = None /\ RunsOf(hourly[h]) = Cardinality(CountedAt(h))
    BY <1>1, <1>2, DailySteps DEF HoursWhole
  <2>2. ASSUME NEW r \in Runs, WriteBucket(r) PROVE RunsOf(hourly'[h]) = Cardinality(CountedAt(h)')
    <3>1. CASE h = run[r].hour
      <4>1. CountedAt(h)' = CountedAt(h) \cup {r} /\ r \notin CountedAt(h) /\ RunsOf(hourly'[h]) = RunsOf(hourly[h]) + 1
        BY <1>1, <2>2, <3>1, WriteBucketEffect, CountedFacts
      <4>2. IsFiniteSet(CountedAt(h))
        BY <1>1, CountedFacts
      <4>3. Cardinality(CountedAt(h)') = Cardinality(CountedAt(h)) + 1
        BY <4>1, <4>2, FS_AddElement
      <4> QED
        BY <2>1, <4>1, <4>3
    <3>2. CASE h # run[r].hour
      BY <2>1, <2>2, <3>2, WriteBucketEffect
    <3> QED
      BY <3>1, <3>2
  <2>3. CASE RunsKept /\ UNCHANGED hourly
    BY <2>1, <2>3, CountsKept
  <2>4. CASE RunsKept /\ DeleteHourly
    <3>1. hourly'[h] = hourly[h]
      BY <1>1, <2>1, <2>4 DEF DeleteHourly, HoursWhole, TierTypes
    <3> QED
      BY <2>1, <2>4, <3>1, CountsKept
  <2> QED
    BY <2>2, <2>3, <2>4, TierSteps
<1>3. ASSUME NEW h \in job'.doomed PROVE daily'[Day(h)] # None
  <2>1. CASE InsertDaily
    <3>1. job.doomed = {}
      BY <2>1 DEF InsertDaily, TiersInv, RowsAsRead
    <3>2. PICK d \in job.days :
            /\ daily' = [daily EXCEPT ![d] = RollUp({k \in HoursOf(d) : job.old[k] # None})]
            /\ job'.doomed = {k \in HoursOf(d) : job.old[k] # None}
      BY <1>3, <2>1, <3>1, IdleJobIs DEF InsertDaily, TiersInv, TierTypes, JobType
    <3>3. Day(h) = d /\ d \in Days
      BY <1>1, <1>3, <3>2, OldHours DEF TierTypes, JobType
    <3> QED
      BY <1>1, <3>2, <3>3, RollUpIsRow DEF TierTypes
  <2>2. CASE ~InsertDaily
    <3>1. h \in job.doomed /\ ~DeleteExpiredAggregates
      BY <1>3, <2>2, DailySteps
    <3>2. daily[Day(h)] # None
      BY <3>1 DEF HoursWhole
    <3>3. daily' = daily
      BY <2>2, <3>1, TierSteps, WriteBucketEffect
    <3> QED
      BY <3>2, <3>3
  <2> QED
    BY <2>1, <2>2
<1> QED
  BY <1>1, <1>2, <1>3 DEF HoursWhole

LEMMA TiersReadStep ==
  ASSUME TiersInv, HoursInv, AskInv, ChartInv, [HistoryNext]_askVars
  PROVE  TiersRead'
<1>1. /\ TierTypes /\ TierTypes' /\ Hours' = Hours /\ Days' = Days /\ [Next]_vars
      /\ \A d : Day(d)' = Day(d)
  BY TiersOfHistory, TiersStep, ClockStep DEF TiersInv
<1>2. StoredRuns \subseteq StoredRuns'
  <2>1. \A r \in Runs : run'[r].pc = "waiting" => run[r].pc = "waiting"
    <3>1. ASSUME NEW r \in Runs, StoreRun(r) \/ ReadBucket(r) \/ WriteBucket(r)
          PROVE  \A s \in Runs : run'[s].pc = "waiting" => run[s].pc = "waiting"
      <4>1. PICK new : run' = [run EXCEPT ![r] = new] /\ new.pc # "waiting"
        <5>1. CASE StoreRun(r)
          <6>1. PICK l : run' = [run EXCEPT ![r].pc = "stored", ![r].at = now, ![r].hour = now, ![r].latency = l]
            BY <5>1 DEF StoreRun
          <6>2. LET new == [run[r] EXCEPT !.pc = "stored", !.at = now, !.hour = now, !.latency = l]
                IN run' = [run EXCEPT ![r] = new] /\ new.pc = "stored"
            BY <6>1, RunTypesIs DEF TiersInv, TierTypes, RunType
          <6> QED
            BY <6>2
        <5>2. CASE ReadBucket(r)
          <6>1. PICK l : run' = [run EXCEPT ![r].pc = "read", ![r].hour = now, ![r].min = l]
            BY <5>2 DEF ReadBucket
          <6>2. LET new == [run[r] EXCEPT !.pc = "read", !.hour = now, !.min = l]
                IN run' = [run EXCEPT ![r] = new] /\ new.pc = "read"
            BY <6>1, RunTypesIs DEF TiersInv, TierTypes, RunType
          <6> QED
            BY <6>2
        <5>3. CASE WriteBucket(r)
          <6>1. LET new == [run[r] EXCEPT !.pc = "counted"]
                IN run' = [run EXCEPT ![r] = new] /\ new.pc = "counted"
            BY <5>3, RunTypesIs DEF TiersInv, TierTypes, RunType, WriteBucket
          <6> QED
            BY <6>1
        <5> QED
          BY <3>1, <5>1, <5>2, <5>3
      <4> QED
        BY <1>1, <4>1 DEF TierTypes
    <3>2. CASE Crash
      <4>1. \A r \in Runs : [run[r] EXCEPT !.pc = "lost"].pc = "lost"
        BY RunTypesIs DEF RunType, TiersInv
      <4> QED
        BY <3>2, <4>1 DEF Crash
    <3>3. CASE run' = run
      BY <3>3
    <3> QED
      BY <1>1, <3>1, <3>2, <3>3 DEF Next, Store, Count, StartJob, JobStep, DeleteExpiredRawRuns, ReadOldHourly,
         InsertDaily, DeleteHourly, DeleteExpiredAggregates, Tick, JobFails, DisassociateSystem, vars
  <2> QED
    BY <2>1 DEF StoredRuns
<1> DEFINE Record == [pc : {"idle", "chart", "availability"}, read : SUBSET Tiers,
                      raw : SUBSET Runs, hourly : [Hours -> Rows], daily : [Days -> Rows],
                      counted : SUBSET Runs, torn : BOOLEAN]
<1>3. question \in Record
  BY QuestionIs DEF AskInv
<1>4. CASE question' = NotAsking \/ \E kind : BeginQuestion(kind)
  <2>1. question'.raw = {} /\ question'.read = {}
    <3>1. CASE question' = NotAsking
      BY <3>1 DEF NotAsking
    <3>2. ASSUME NEW kind, BeginQuestion(kind) PROVE question'.raw = {} /\ question'.read = {}
      BY <3>2 DEF NotAsking, BeginQuestion
    <3> QED
      BY <1>4, <3>1, <3>2
  <2> QED
    BY <2>1 DEF TiersRead
<1>5. CASE UNCHANGED vars /\ (UNCHANGED question \/ ReadRaw \/ ReadHourly \/ ReadDaily)
  <2>1. /\ question'.pc = question.pc /\ question'.torn = question.torn
        /\ question'.counted = question.counted
        /\ question'.raw = question.raw \/ question'.raw = raw
        /\ (question'.hourly = question.hourly /\ ("hourly" \in question'.read => "hourly" \in question.read))
             \/ question'.hourly = hourly
        /\ (question'.daily = question.daily /\ ("daily" \in question'.read => "daily" \in question.read))
             \/ question'.daily = daily
    <3>1. CASE UNCHANGED question
      BY <3>1
    <3>2. CASE ReadRaw
      BY <1>3, <3>2 DEF ReadRaw
    <3>3. CASE ReadHourly
      BY <1>3, <3>3 DEF ReadHourly
    <3>4. CASE ReadDaily
      BY <1>3, <3>4 DEF ReadDaily
    <3> QED
      BY <1>5, <3>1, <3>2, <3>3, <3>4
  <2>2. \A h : /\ AskedAt(h)' = AskedAt(h) /\ ExpiredDay(h)' = ExpiredDay(h) /\ Day(h)' = Day(h)
               /\ StoredRuns' = StoredRuns /\ UNCHANGED <<daily, hourly, failures>>
    BY <1>5, <2>1, TiersAsWere DEF StoredRuns, Day, vars
  <2>3. question'.raw \subseteq StoredRuns'
    BY <2>1, <2>2 DEF ChartInv, TiersRead, RunsStored
  <2> SUFFICES ASSUME Asking, ~question.torn
               PROVE  /\ "daily" \in question'.read => \A d \in Days : ~ExpiredDay(d) =>
                           (question'.daily[d] = None <=> daily[d] = None)
                      /\ "hourly" \in question'.read => \A h \in Hours :
                           /\ daily[Day(h)] = None /\ ~ExpiredDay(Day(h)) =>
                                RunsOf(question'.hourly[h]) >= Cardinality(AskedAt(h))
                           /\ failures = 0 /\ daily[Day(h)] # None => question'.hourly[h] = None
    BY <1>1, <2>1, <2>2, <2>3 DEF TiersRead, Asking
  <2>4. "daily" \in question'.read => \A d \in Days : ~ExpiredDay(d) =>
          (question'.daily[d] = None <=> daily[d] = None)
    BY <2>1 DEF ChartInv, TiersRead
  <2>5. job.doomed = {}
    BY DEF AskInv, DaysRead, RollingUp, TiersInv, RowsAsRead
  <2>6. ASSUME NEW h \in Hours, "hourly" \in question'.read
        PROVE  /\ daily[Day(h)] = None /\ ~ExpiredDay(Day(h)) =>
                    RunsOf(question'.hourly[h]) >= Cardinality(AskedAt(h))
               /\ failures = 0 /\ daily[Day(h)] # None => question'.hourly[h] = None
    <3>1. CASE question'.hourly = question.hourly /\ "hourly" \in question.read
      BY <2>6, <3>1 DEF ChartInv, TiersRead
    <3>2. CASE question'.hourly = hourly
      <4>1. /\ Cardinality(AskedAt(h)) \in Nat /\ Cardinality(CountedAt(h)) \in Nat
            /\ Cardinality(AskedAt(h)) <= Cardinality(CountedAt(h))
        BY <1>1, AskedFacts DEF AskInv
      <4>2. daily[Day(h)] = None /\ ~ExpiredDay(Day(h)) => RunsOf(hourly[h]) >= Cardinality(AskedAt(h))
        BY <4>1 DEF ChartInv, HoursWhole
      <4>3. failures = 0 /\ daily[Day(h)] # None => hourly[h] = None
        <5>1. h \in HoursOf(Day(h)) /\ Day(h) \in Days
          <6>1. h \in Nat /\ h <= MaxHour /\ MaxHour \in Nat
            BY HourFacts DEF Hours
          <6> QED
            BY <6>1, DaysInOrder, DayBounds DEF Days, HoursOf
        <5> QED
          BY <2>5, <5>1 DEF HoursInv, DaysRolledUp
      <4> QED
        BY <3>2, <4>2, <4>3
    <3> QED
      BY <2>1, <2>6, <3>1, <3>2
  <2> QED
    BY <2>4, <2>6
<1>6. CASE /\ Asking /\ ~Tick
           /\ question' = [question EXCEPT !.torn = question.torn \/ RollingUp']
  <2>1. PICK torn \in BOOLEAN : torn = (question.torn \/ RollingUp')
    BY DEF RollingUp
  <2>2. /\ question'.pc = question.pc /\ question'.counted = question.counted
        /\ question'.torn = torn /\ question'.hourly = question.hourly /\ question'.raw = question.raw
        /\ question'.daily = question.daily /\ question'.read = question.read
    BY <1>3, <1>6, <2>1
  <2>3. now' = now
    BY <1>1, <1>6, ClockStep
  <2>4. \A d : ExpiredDay(d)' <=> ExpiredDay(d)
    BY <2>3 DEF ExpiredDay
  <2>5. \A h : AskedAt(h)' = AskedAt(h)
    <3>1. question.counted \subseteq Counted
      BY DEF AskInv, AskTypes
    <3>2. \A r \in Counted : run'[r].hour = run[r].hour
      BY <1>1, TierSteps, WriteBucketEffect DEF RunsKept, Counted
    <3> QED
      BY <2>2, <3>1, <3>2 DEF AskedAt
  <2>6. question'.raw \subseteq StoredRuns'
    BY <1>2, <2>2 DEF ChartInv, TiersRead
  <2> SUFFICES ASSUME ~torn
               PROVE  /\ "daily" \in question.read => \A d \in Days : ~ExpiredDay(d) =>
                           (question.daily[d] = None <=> daily'[d] = None)
                      /\ "hourly" \in question.read => \A h \in Hours :
                           /\ daily'[Day(h)] = None /\ ~ExpiredDay(Day(h)) =>
                                RunsOf(question.hourly[h]) >= Cardinality(AskedAt(h))
                           /\ failures' = 0 /\ daily'[Day(h)] # None => question.hourly[h] = None
    BY <1>1, <2>2, <2>4, <2>5, <2>6 DEF TiersRead
  <2>7. ~question.torn /\ ~RollingUp
    BY <1>6, <2>1 DEF AskInv, DaysRead
  <2>8. \A d \in Days : daily'[d] = daily[d] \/ (daily'[d] = None /\ ExpiredDay(d))
    BY <1>1, <2>4, <2>7, DailySteps DEF InsertDaily, RollingUp
  <2>9. failures' = 0 => failures = 0
    BY <1>1, NoFailure
  <2>10. \A h \in Hours : Day(h) \in Days
    <3>1. \A h \in Hours : h \in Nat /\ h <= MaxHour /\ MaxHour \in Nat
      BY HourFacts DEF Hours
    <3> QED
      BY <3>1, DaysInOrder, DayBounds DEF Days
  <2> QED
    BY <1>6, <2>7, <2>8, <2>9, <2>10 DEF ChartInv, TiersRead
<1> QED
  <2>1. CASE Meanwhile /\ question.pc = "idle"
    <3>1. question = NotAsking /\ (question' = question \/ question' = NotAsking)
      BY <2>1 DEF Meanwhile, AskInv, AskTypes
    <3> QED
      BY <1>4, <3>1
  <2>2. CASE Meanwhile /\ question.pc # "idle" /\ question' # NotAsking
    <3>1. /\ question' = [question EXCEPT !.torn = question.torn \/ RollingUp']
          /\ Store \/ Count \/ StartJob \/ JobStep \/ JobFails \/ DisassociateSystem
      BY <2>2 DEF Meanwhile
    <3>2. now' = now
      BY <3>1 DEF Store, StoreRun, Count, ReadBucket, WriteBucket, StartJob, JobStep, DeleteExpiredRawRuns,
                  ReadOldHourly, InsertDaily, DeleteHourly, DeleteExpiredAggregates, JobFails, DisassociateSystem
    <3>3. ~Tick
      <4>1. Tick => now' = now + 1 /\ now \in Nat
        BY <1>1, HourFacts DEF Tick, TierTypes
      <4> QED
        BY <3>2, <4>1
    <3> QED
      BY <1>6, <2>2, <3>1, <3>3 DEF Asking
  <2> QED
    BY <1>4, <1>5, <2>1, <2>2 DEF HistoryNext, EndQuestion, ReadRaw, ReadHourly, ReadDaily, askVars

LEMMA ChartStep ==
  ASSUME TiersInv, HoursInv, AskInv, ChartInv, [HistoryNext]_askVars
  PROVE  ChartInv'
BY TiersOfHistory, RunsStoredStep, HoursWholeStep, TiersReadStep DEF ChartInv

LEMMA ChartBegins ==
  ASSUME HistoryInit
  PROVE  ChartInv
<1>1. /\ raw = {} /\ job = IdleJob /\ question = NotAsking
      /\ run = [r \in Runs |-> [pc |-> "waiting", at |-> 0, hour |-> 0, latency |-> None, min |-> None]]
      /\ hourly = [h \in Hours |-> None]
  BY DEF HistoryInit, Init
<1>2. StoredRuns = {} /\ \A h : CountedAt(h) = {}
  BY <1>1 DEF StoredRuns, CountedAt
<1>3. RunsStored
  <2>1. 0 <= 0
    OBVIOUS
  <2> QED
    BY <1>1, <1>2, <2>1, FS_EmptySet DEF RunsStored
<1>4. HoursWhole
  <2>1. \A h \in Hours : RunsOf(hourly[h]) = 0
    BY <1>1, RowFacts
  <2> QED
    BY <1>1, <1>2, <2>1, IdleJobIs, FS_EmptySet DEF HoursWhole
<1>5. TiersRead
  BY <1>1 DEF TiersRead, NotAsking, Asking
<1> QED
  BY <1>3, <1>4, <1>5 DEF ChartInv

-----------------------------------------------------------------------------
(* The sums of a chart, as sums of rows. *)

AsRow(n) == [runs |-> n, min |-> None]

LEMMA AsRowCounts == \A n \in Nat : AsRow(n) \in Rows /\ RunsOf(AsRow(n)) = n
<1>1. \A n \in Nat : \A m \in Latencies \cup {None} : [runs |-> n, min |-> m] \in Rows
                     /\ RunsOf([runs |-> n, min |-> m]) = n
  BY RowFacts
<1> QED
  BY <1>1 DEF AsRow

KeysOf(S, key) == {key[x] : x \in S}

\* The images of a finite set.
LEMMA ImageFinite ==
  ASSUME NEW S, IsFiniteSet(S), NEW key
  PROVE  IsFiniteSet(KeysOf(S, key))
<1> DEFINE T == {key[x] : x \in S}
           f == [x \in S |-> key[x]]
<1>1. f \in Surjection(S, T)
  BY DEF Surjection
<1> HIDE DEF f, T
<1>2. IsFiniteSet(T)
  BY <1>1, FS_Surjection
<1> QED
  BY <1>2 DEF T, KeysOf

BucketRows(S) == [b \in S |-> AsRow(b.runs)]

LEMMA CombineIs ==
  ASSUME NEW S, IsFiniteSet(S), \A b \in S : b.runs \in Nat
  PROVE  CombineBuckets(S) = RunsIn(BucketRows(S), S)
<1> DEFINE Sol(f) == f = [s \in SUBSET S |-> IF s = {} THEN 0 ELSE Pick(s).runs + f[WithoutPick(s)]]
           rows == BucketRows(S)
<1>1. CombineBuckets(S) = (CHOOSE f : Sol(f))[S]
  BY DEF CombineBuckets, MapThenSumSet, MapThenFoldSet, Pick, WithoutPick
<1>2. \A s \in SUBSET S : s # {} => RunsOf(rows[Pick(s)]) = Pick(s).runs
  <2>1. \A s \in SUBSET S : s # {} => Pick(s) \in S
    BY DEF Pick
  <2> QED
    BY <2>1, AsRowCounts DEF BucketRows
<1> HIDE DEF rows
<1>3. \A f : [s \in SUBSET S |-> IF s = {} THEN 0 ELSE Pick(s).runs + f[WithoutPick(s)]]
           = [s \in SUBSET S |-> IF s = {} THEN 0 ELSE RunsOf(rows[Pick(s)]) + f[WithoutPick(s)]]
  BY <1>2
<1>4. \A f : Sol(f) <=> IsSum(f, rows, S)
  BY <1>3 DEF IsSum
<1> HIDE DEF Sol
<1>5. Sol(CHOOSE f : Sol(f))
  BY <1>4, SumExists
<1>6. /\ IsSum(CHOOSE f : Sol(f), rows, S) /\ IsSum(CHOOSE f : IsSum(f, rows, S), rows, S)
      /\ RunsIn(rows, S) = (CHOOSE f : IsSum(f, rows, S))[S] /\ S \in SUBSET S /\ S \subseteq S
  BY <1>4, <1>5, SumExists, RunsInIs
<1>7. (CHOOSE f : Sol(f))[S] = (CHOOSE f : IsSum(f, rows, S))[S]
  BY <1>6, SumsAgree
<1> QED
  BY <1>1, <1>6, <1>7 DEF rows

\* Sums by key add up to the sum.
LEMMA SumByKeys ==
  ASSUME NEW rows, NEW S, IsFiniteSet(S), \A x \in S : RunsOf(rows[x]) \in Nat, NEW key,
         NEW points, \A i \in KeysOf(S, key) : RunsOf(points[i]) = RunsIn(rows, WithKey(S, key, {i}))
  PROVE  RunsIn(points, KeysOf(S, key)) = RunsIn(rows, S)
<1> DEFINE K == KeysOf(S, key)
           Of(t) == {x \in S : key[x] \in t}
           Bad == {t \in SUBSET K : RunsIn(points, t) # RunsIn(rows, Of(t))}
<1>1. IsFiniteSet(K) /\ \A t \in SUBSET K : IsFiniteSet(t)
  BY ImageFinite, FS_Subset
<1>2. \A t : IsFiniteSet(Of(t)) /\ Of(t) \in SUBSET S /\ RunsIn(rows, Of(t)) \in Nat
  <2>1. \A t : IsFiniteSet(Of(t)) /\ Of(t) \in SUBSET S
    BY FS_Subset
  <2> QED
    BY <2>1, SumIsNumber
<1>3. \A i \in K : RunsOf(points[i]) = RunsIn(rows, Of({i}))
  <2>1. \A i : WithKey(S, key, {i}) = Of({i})
    BY DEF WithKey
  <2> QED
    BY <2>1
<1>4. Of(K) = S
  BY DEF KeysOf
<1>5. Of({}) = {}
  OBVIOUS
<1>6. \A t \in SUBSET K : \A p \in t : /\ Of(t) \ Of({p}) = Of(t \ {p})
                                       /\ Of({p}) \in SUBSET Of(t)
  OBVIOUS
<1> HIDE DEF Of
<1>7. Bad = {}
  <2> SUFFICES ASSUME Bad # {} PROVE FALSE
    OBVIOUS
  <2>1. PICK t \in Bad : \A u \in Bad : Cardinality(t) <= Cardinality(u)
    BY <1>1, LeastSet
  <2>2. t \in SUBSET K /\ IsFiniteSet(t) /\ RunsIn(points, t) # RunsIn(rows, Of(t))
    BY <1>1
  <2>3. t # {}
    <3>1. RunsIn(points, {}) = 0 /\ RunsIn(rows, {}) = 0
      BY FS_EmptySet, SumRecursion
    <3> QED
      BY <1>5, <2>2, <3>1
  <2> DEFINE p == Pick(t)
             u == WithoutPick(t)
  <2>4. p \in t /\ u = t \ {p} /\ u \in SUBSET K /\ ~(Cardinality(t) <= Cardinality(u))
    BY <2>2, <2>3, PickSmaller DEF WithoutPick
  <2>5. RunsIn(points, t) = RunsOf(points[p]) + RunsIn(points, u)
    BY <2>2, <2>3, SumRecursion
  <2> HIDE DEF p, u
  <2>6. RunsIn(points, u) = RunsIn(rows, Of(u))
    BY <2>1, <2>4
  <2>7. RunsIn(rows, Of(t)) = RunsIn(rows, Of({p})) + RunsIn(rows, Of(u))
    <3>1. Of(t) \ Of({p}) = Of(u) /\ Of({p}) \in SUBSET Of(t)
      BY <1>6, <2>2, <2>4
    <3>2. IsFiniteSet(Of(t)) /\ \A x \in Of(t) : RunsOf(rows[x]) \in Nat
      BY <1>2
    <3>3. PICK A, B, C : A = Of(t) /\ B = Of({p}) /\ C = Of(u)
      OBVIOUS
    <3>4. IsFiniteSet(A) /\ (\A x \in A : RunsOf(rows[x]) \in Nat) /\ B \in SUBSET A /\ A \ B = C
      BY <3>1, <3>2, <3>3
    <3>5. RunsIn(rows, A) = RunsIn(rows, B) + RunsIn(rows, A \ B)
      BY <3>4, SumSplits
    <3> QED
      BY <3>3, <3>4, <3>5
  <2> QED
    BY <1>3, <2>2, <2>4, <2>5, <2>6, <2>7
<1>8. RunsIn(points, K) = RunsIn(rows, Of(K))
  BY <1>7
<1> QED
  BY <1>4, <1>8

PointsSum(points) == MapThenSumSet(LAMBDA i : points[i], DOMAIN points)

\* The points of a chart add up to the buckets it is made of.
LEMMA PointsAddUp ==
  ASSUME NEW M, IsFiniteSet(M), \A b \in M : b.runs \in Nat, NEW start, NEW width
  PROVE  PointsSum(ReaggregateBuckets(M, start, width)) = RunsIn(BucketRows(M), M)
<1> DEFINE points == ReaggregateBuckets(M, start, width)
           key == [b \in M |-> (b.start - start) \div width]
           K == {key[b] : b \in M}
           rows == BucketRows(M)
           at(i) == {b \in M : key[b] = i}
<1>1. \A b \in M : RunsOf(rows[b]) = b.runs /\ RunsOf(rows[b]) \in Nat
  BY AsRowCounts DEF BucketRows
<1>2. /\ DOMAIN points = K
      /\ \A i \in K : points[i] = CombineBuckets(at(i))
  <2>1. {(b.start - start) \div width : b \in M} = K
    OBVIOUS
  <2>2. \A i : {b \in M : (b.start - start) \div width = i} = at(i)
    OBVIOUS
  <2> QED
    BY <2>1, <2>2 DEF ReaggregateBuckets
<1>3. \A i \in K : points[i] = RunsIn(rows, at(i)) /\ points[i] \in Nat
  <2> SUFFICES ASSUME NEW i \in K PROVE points[i] = RunsIn(rows, at(i)) /\ points[i] \in Nat
    OBVIOUS
  <2>1. at(i) \in SUBSET M /\ IsFiniteSet(at(i))
    BY FS_Subset
  <2>2. CombineBuckets(at(i)) = RunsIn(BucketRows(at(i)), at(i))
    BY <2>1, CombineIs
  <2>3. \A b \in at(i) : RunsOf(BucketRows(at(i))[b]) = RunsOf(rows[b])
    BY DEF BucketRows
  <2>4. RunsIn(BucketRows(at(i)), at(i)) = RunsIn(rows, at(i))
    BY <2>1, <2>3, SumsSame
  <2>5. RunsIn(rows, at(i)) \in Nat
    BY <1>1, <2>1, SumIsNumber
  <2> QED
    BY <1>2, <2>2, <2>4, <2>5
<1> HIDE DEF points
<1>4. IsFiniteSet(K)
  BY ImageFinite DEF KeysOf
<1> DEFINE of == [i \in K |-> AsRow(points[i])]
<1>5. RunsIn(of, K) = RunsIn(rows, M)
  <2>1. \A i : at(i) = WithKey(M, key, {i})
    BY DEF WithKey
  <2>2. /\ \A b \in M : RunsOf(rows[b]) \in Nat
        /\ K = KeysOf(M, key)
        /\ \A i \in KeysOf(M, key) : RunsOf(of[i]) = RunsIn(rows, WithKey(M, key, {i}))
    BY <1>1, <1>3, <2>1, AsRowCounts DEF KeysOf
  <2> HIDE DEF key, rows, K, at, of
  <2>3. RunsIn(of, KeysOf(M, key)) = RunsIn(rows, M)
    BY <2>2, SumByKeys
  <2> QED
    BY <2>2, <2>3
<1> HIDE DEF K
<1> DEFINE Sol(f) == f = [s \in SUBSET K |-> IF s = {} THEN 0 ELSE points[Pick(s)] + f[WithoutPick(s)]]
<1>6. MapThenSumSet(LAMBDA i : points[i], K) = (CHOOSE f : Sol(f))[K]
  BY DEF MapThenSumSet, MapThenFoldSet, Pick, WithoutPick
<1>7. \A s \in SUBSET K : s # {} => RunsOf(of[Pick(s)]) = points[Pick(s)]
  <2>1. \A s \in SUBSET K : s # {} => Pick(s) \in K
    BY DEF Pick
  <2> QED
    BY <1>3, <2>1, AsRowCounts
<1> HIDE DEF of
<1>8. \A f : [s \in SUBSET K |-> IF s = {} THEN 0 ELSE points[Pick(s)] + f[WithoutPick(s)]]
           = [s \in SUBSET K |-> IF s = {} THEN 0 ELSE RunsOf(of[Pick(s)]) + f[WithoutPick(s)]]
  BY <1>7
<1>9. \A f : Sol(f) <=> IsSum(f, of, K)
  BY <1>8 DEF IsSum
<1> HIDE DEF Sol
<1>10. Sol(CHOOSE f : Sol(f))
  BY <1>4, <1>9, SumExists
<1>11. /\ IsSum(CHOOSE f : Sol(f), of, K) /\ IsSum(CHOOSE f : IsSum(f, of, K), of, K)
       /\ RunsIn(of, K) = (CHOOSE f : IsSum(f, of, K))[K] /\ K \in SUBSET K /\ K \subseteq K
  BY <1>4, <1>9, <1>10, SumExists, RunsInIs
<1>12. (CHOOSE f : Sol(f))[K] = (CHOOSE f : IsSum(f, of, K))[K]
  BY <1>4, <1>11, SumsAgree
<1> QED
  BY <1>2, <1>5, <1>6, <1>11, <1>12 DEF rows, points, PointsSum

-----------------------------------------------------------------------------
(* The buckets of a chart. *)

HourBucket(h) == Bucket("hourly", h, 1, question.hourly[h].runs)
DayBucket(d) == Bucket("daily", d * HoursPerDay, HoursPerDay, question.daily[d].runs)
RawIndex(r, start, width) == (run[r].at - start) \div width
RawAt(i, start, width) == {r \in RawFrom(start) : RawIndex(r, start, width) = i}
RawBucket(i, start, width) == Bucket("raw", start + i * width, width, Cardinality(RawAt(i, start, width)))

\* Each run's bucket.
HourBucketOf == [r \in Runs |-> HourBucket(run[r].hour)]
DayBucketOf == [r \in Runs |-> DayBucket(Day(run[r].hour))]
RawBucketOf(start, width) == [r \in Runs |-> RawBucket(RawIndex(r, start, width), start, width)]

\* What a chart keeps of each tier.
RawShown(start, width) == RawBuckets(start, width)
HourlyShown(start, width) == {b \in HourlyBuckets(start) : ~Overlaps(b, RawShown(start, width))}
DailyShown(start, width) ==
  {b \in DailyBuckets(start) : ~Overlaps(b, RawShown(start, width)) /\ ~Overlaps(b, HourlyBuckets(start))}
Shown(start, width) == RawShown(start, width) \cup HourlyShown(start, width) \cup DailyShown(start, width)

LEMMA ShownIs ==
  ASSUME NEW start, NEW width
  PROVE  Shown(start, width) =
           MergeTieredBuckets(RawBuckets(start, width), HourlyBuckets(start), DailyBuckets(start))
BY DEF Shown, RawShown, HourlyShown, DailyShown, MergeTieredBuckets

LEMMA BucketFields ==
  \A tier, s, n, runs : /\ Bucket(tier, s, n, runs).tier = tier /\ Bucket(tier, s, n, runs).start = s
                        /\ Bucket(tier, s, n, runs).end = s + n /\ Bucket(tier, s, n, runs).runs = runs
BY DEF Bucket

LEMMA QuotientBounds ==
  ASSUME NEW n \in Nat, NEW p \in Nat \ {0}
  PROVE  n \div p \in Nat /\ p * (n \div p) <= n /\ n < p * (n \div p) + p
OBVIOUS

LEMMA ProductCancels ==
  ASSUME NEW a \in Nat, NEW b \in Nat, NEW p \in Nat \ {0}, p * a = p * b
  PROVE  a = b
<1>1. \A x, y \in Nat : x + 1 <= y => p * x + p <= p * y
  BY ProductOrder, ProductOfSum
<1>2. p * a \in Nat /\ p * b \in Nat
  OBVIOUS
<1>3. ~(a + 1 <= b)
  BY <1>1, <1>2
<1>4. ~(b + 1 <= a)
  BY <1>1, <1>2
<1> QED
  BY <1>3, <1>4

\* A raw run lies in its bucket.
LEMMA RawRuns ==
  ASSUME TierTypes, RunsStored, TiersRead, NEW start \in Nat, NEW width \in Nat \ {0}
  PROVE  /\ RawFrom(start) \in SUBSET StoredRuns /\ IsFiniteSet(RawFrom(start))
         /\ \A r \in RawFrom(start) :
              LET i == RawIndex(r, start, width) IN
              /\ i \in Nat /\ run[r].at \in Nat /\ run[r].hour \in Nat
              /\ start <= run[r].at /\ run[r].at <= run[r].hour
              /\ start + i * width <= run[r].at /\ run[r].at < start + i * width + width
<1>1. RawFrom(start) \in SUBSET StoredRuns
  BY DEF RawFrom, TiersRead
<1>2. IsFiniteSet(RawFrom(start))
  BY <1>1, FS_Subset DEF RunsStored
<1>3. ASSUME NEW r \in RawFrom(start)
      PROVE  LET i == RawIndex(r, start, width) IN
             /\ i \in Nat /\ run[r].at \in Nat /\ run[r].hour \in Nat
             /\ start <= run[r].at /\ run[r].at <= run[r].hour
             /\ start + i * width <= run[r].at /\ run[r].at < start + i * width + width
  <2>1. r \in Runs /\ start <= run[r].at
    BY <1>1, <1>3 DEF RawFrom, StoredRuns
  <2>2. run[r].at \in Nat /\ run[r].hour \in Nat /\ run[r].at <= run[r].hour
    BY <2>1, RunTypesIs, HourFacts DEF RunType, RunsStored
  <2>3. PICK n \in Nat : n = run[r].at - start
    BY <2>1, <2>2
  <2>4. PICK i \in Nat : i = n \div width /\ width * i <= n /\ n < width * i + width
    BY QuotientBounds
  <2>5. i * width = width * i /\ i * width \in Nat
    OBVIOUS
  <2>6. start + i * width <= run[r].at /\ run[r].at < start + i * width + width
    BY <2>2, <2>3, <2>4, <2>5
  <2> QED
    BY <2>1, <2>2, <2>3, <2>4, <2>6 DEF RawIndex
<1> QED
  BY <1>1, <1>2, <1>3

\* What the buckets of each tier are.
LEMMA RawBucketsAre ==
  ASSUME TierTypes, RunsStored, TiersRead, NEW start \in Nat, NEW width \in Nat \ {0}
  PROVE  /\ RawShown(start, width) = KeysOf(RawFrom(start), RawBucketOf(start, width))
         /\ IsFiniteSet(RawShown(start, width))
         /\ \A i : IsFiniteSet(RawAt(i, start, width)) /\ Cardinality(RawAt(i, start, width)) \in Nat
<1>1. RawFrom(start) \in SUBSET Runs /\ IsFiniteSet(RawFrom(start))
  BY RawRuns DEF StoredRuns
<1>2. RawBuckets(start, width) = {RawBucket(i, start, width) : i \in {RawIndex(r, start, width) : r \in RawFrom(start)}}
  BY DEF RawBuckets, RawBucket, RawAt, RawIndex
<1>3. KeysOf(RawFrom(start), RawBucketOf(start, width))
        = {RawBucket(RawIndex(r, start, width), start, width) : r \in RawFrom(start)}
  BY <1>1 DEF KeysOf, RawBucketOf
<1>4. RawShown(start, width) = KeysOf(RawFrom(start), RawBucketOf(start, width))
  BY <1>2, <1>3 DEF RawShown
<1>5. IsFiniteSet(RawShown(start, width))
  BY <1>1, <1>4, ImageFinite
<1>6. \A i : RawAt(i, start, width) \in SUBSET RawFrom(start)
  BY DEF RawAt
<1> QED
  BY <1>1, <1>4, <1>5, <1>6, FS_Subset, FS_CardinalityType

LEMMA RowBucketsAre ==
  ASSUME TierTypes, AskInv, NEW start \in Nat
  PROVE  /\ IsFiniteSet(HourlyBuckets(start)) /\ IsFiniteSet(DailyBuckets(start))
         /\ \A b \in HourlyBuckets(start) :
              \E h \in Hours : h >= start /\ question.hourly[h] # None /\ b = HourBucket(h)
         /\ \A h \in Hours : h >= start /\ question.hourly[h] # None => HourBucket(h) \in HourlyBuckets(start)
         /\ \A b \in DailyBuckets(start) :
              \E d \in Days : d * HoursPerDay >= start /\ question.daily[d] # None /\ b = DayBucket(d)
         /\ \A d \in Days : d * HoursPerDay >= start /\ question.daily[d] # None => DayBucket(d) \in DailyBuckets(start)
<1> DEFINE hours == {x \in Hours : x >= start /\ question.hourly[x] # None}
           days == {x \in Days : x * HoursPerDay >= start /\ question.daily[x] # None}
           ofHour == [h \in Hours |-> HourBucket(h)]
           ofDay == [d \in Days |-> DayBucket(d)]
<1>1. /\ HourlyBuckets(start) = {HourBucket(h) : h \in hours}
      /\ DailyBuckets(start) = {DayBucket(d) : d \in days}
  BY DEF HourlyBuckets, DailyBuckets, HourBucket, DayBucket
<1>2. {HourBucket(h) : h \in hours} = KeysOf(hours, ofHour) /\ {DayBucket(d) : d \in days} = KeysOf(days, ofDay)
  BY DEF KeysOf
<1>3. IsFiniteSet(hours) /\ IsFiniteSet(days)
  <2>1. IsFiniteSet(Days) /\ IsFiniteSet(Hours)
    <3>1. Day(MaxHour) \in Nat /\ 0 \in Int
      BY HourFacts, DayBounds
    <3> QED
      BY <3>1, HourFacts, FS_Interval DEF Days
  <2>2. hours \in SUBSET Hours /\ days \in SUBSET Days
    OBVIOUS
  <2> QED
    BY <2>1, <2>2, FS_Subset
<1>4. IsFiniteSet(HourlyBuckets(start)) /\ IsFiniteSet(DailyBuckets(start))
  <2> HIDE DEF hours, days, ofHour, ofDay
  <2> QED
    BY <1>1, <1>2, <1>3, ImageFinite
<1> QED
  BY <1>1, <1>4

LEMMA ShownParts ==
  ASSUME TierTypes, AskInv, RunsStored, TiersRead, NEW start \in Nat, NEW width \in Nat \ {0}
  PROVE  /\ \A b \in RawShown(start, width) : b.tier = "raw"
         /\ \A b \in HourlyShown(start, width) : b.tier = "hourly"
         /\ \A b \in DailyShown(start, width) : b.tier = "daily"
         /\ \A b \in Shown(start, width) : b.runs \in Nat
         /\ IsFiniteSet(Shown(start, width))
         /\ IsFiniteSet(HourlyShown(start, width)) /\ IsFiniteSet(DailyShown(start, width))
<1>1. \A b \in RawShown(start, width) : b.tier = "raw" /\ b.runs \in Nat
  <2>1. RawFrom(start) \in SUBSET Runs
    BY RawRuns DEF StoredRuns
  <2>2. \A b \in RawShown(start, width) : \E i : b = RawBucket(i, start, width)
    <3>1. \A b \in KeysOf(RawFrom(start), RawBucketOf(start, width)) :
            \E r \in RawFrom(start) : b = RawBucketOf(start, width)[r]
      BY DEF KeysOf
    <3>2. \A r \in RawFrom(start) : RawBucketOf(start, width)[r] = RawBucket(RawIndex(r, start, width), start, width)
      BY <2>1 DEF RawBucketOf
    <3> QED
      BY <3>1, <3>2, RawBucketsAre
  <2> QED
    BY <2>2, RawBucketsAre, BucketFields DEF RawBucket
<1>2. /\ \A h \in Hours : question.hourly[h] # None => question.hourly[h].runs \in Nat
      /\ \A d \in Days : question.daily[d] # None => question.daily[d].runs \in Nat
  BY QuestionIs, RowFacts DEF RunsOf, AskInv
<1>3. /\ \A b \in HourlyBuckets(start) : b.tier = "hourly" /\ b.runs \in Nat
      /\ \A b \in DailyBuckets(start) : b.tier = "daily" /\ b.runs \in Nat
  BY <1>2, RowBucketsAre, BucketFields DEF HourBucket, DayBucket
<1>4. HourlyShown(start, width) \in SUBSET HourlyBuckets(start) /\ DailyShown(start, width) \in SUBSET DailyBuckets(start)
  BY DEF HourlyShown, DailyShown
<1>5. IsFiniteSet(HourlyShown(start, width)) /\ IsFiniteSet(DailyShown(start, width))
  BY <1>4, RowBucketsAre, FS_Subset
<1>6. IsFiniteSet(Shown(start, width))
  BY <1>5, RawBucketsAre, FS_Union DEF Shown
<1> QED
  BY <1>1, <1>3, <1>4, <1>5, <1>6 DEF Shown

\* The runs of a chart, tier by tier.
LEMMA ChartSum ==
  ASSUME TierTypes, AskInv, RunsStored, TiersRead, NEW start \in Nat, NEW width \in Nat \ {0}
  PROVE  LET rows == BucketRows(Shown(start, width))
             raws == RawShown(start, width)
             hours == HourlyShown(start, width)
             days == DailyShown(start, width)
         IN /\ RunsInChart(start, width) = RunsIn(rows, raws) + RunsIn(rows, hours) + RunsIn(rows, days)
            /\ RunsIn(rows, raws) \in Nat /\ RunsIn(rows, hours) \in Nat /\ RunsIn(rows, days) \in Nat
            /\ \A b \in Shown(start, width) : RunsOf(rows[b]) = b.runs /\ RunsOf(rows[b]) \in Nat
<1> DEFINE M == Shown(start, width)
           rows == BucketRows(M)
           raws == RawShown(start, width)
           hours == HourlyShown(start, width)
           days == DailyShown(start, width)
<1>1. IsFiniteSet(M) /\ \A b \in M : b.runs \in Nat
  BY ShownParts
<1>2. RunsInChart(start, width) = RunsIn(rows, M)
  <2>1. Chart(start, width) = ReaggregateBuckets(M, start, width)
    BY ShownIs DEF Chart
  <2>2. RunsInChart(start, width) = PointsSum(Chart(start, width))
    BY DEF RunsInChart, PointsSum
  <2> HIDE DEF M
  <2>3. PointsSum(ReaggregateBuckets(M, start, width)) = RunsIn(BucketRows(M), M)
    BY <1>1, PointsAddUp
  <2> QED
    BY <2>1, <2>2, <2>3
<1>3. \A b \in M : RunsOf(rows[b]) = b.runs /\ RunsOf(rows[b]) \in Nat
  BY <1>1, AsRowCounts DEF BucketRows
<1>4. /\ raws \in SUBSET M /\ hours \in SUBSET (M \ raws) /\ (M \ raws) \ hours = days
      /\ M \ raws \in SUBSET M /\ days \in SUBSET M /\ hours \in SUBSET M
  BY ShownParts DEF Shown
<1> HIDE DEF M, rows, raws, hours, days
<1>5. IsFiniteSet(M \ raws) /\ IsFiniteSet(raws) /\ IsFiniteSet(hours) /\ IsFiniteSet(days)
  BY <1>1, <1>4, FS_Subset
<1>6. RunsIn(rows, M) = RunsIn(rows, raws) + RunsIn(rows, M \ raws)
  BY <1>1, <1>3, <1>4, SumSplits
<1>7. RunsIn(rows, M \ raws) = RunsIn(rows, hours) + RunsIn(rows, (M \ raws) \ hours)
  BY <1>3, <1>4, <1>5, SumSplits
<1>8. RunsIn(rows, raws) \in Nat /\ RunsIn(rows, hours) \in Nat /\ RunsIn(rows, days) \in Nat
  BY <1>3, <1>4, <1>5, SumIsNumber
<1>9. RunsInChart(start, width) = RunsIn(rows, raws) + RunsIn(rows, hours) + RunsIn(rows, days)
  BY <1>2, <1>4, <1>6, <1>7, <1>8
<1> QED
  BY <1>3, <1>8, <1>9 DEF M, rows, raws, hours, days

-----------------------------------------------------------------------------
(* Which runs a chart shows. *)

\* A raw bucket stands before whatever its runs lie in.
LEMMA RawOverlaps ==
  ASSUME TierTypes, RunsStored, TiersRead, NEW start \in Nat, NEW width \in Nat \ {0},
         NEW r \in RawFrom(start), NEW b, b.start \in Nat, b.end \in Nat,
         b.start <= run[r].at, run[r].at < b.end
  PROVE  Overlaps(b, RawShown(start, width))
<1> DEFINE i == RawIndex(r, start, width)
           c == RawBucket(i, start, width)
<1>1. /\ i \in Nat /\ run[r].at \in Nat /\ r \in Runs
      /\ start + i * width <= run[r].at /\ run[r].at < start + i * width + width
  BY RawRuns DEF StoredRuns
<1>2. c \in RawShown(start, width)
  <2>1. c = RawBucketOf(start, width)[r]
    BY <1>1 DEF RawBucketOf
  <2> QED
    BY <2>1, RawBucketsAre DEF KeysOf
<1>3. PICK x \in Nat : x = start + i * width
  BY <1>1
<1>4. c.start = x /\ c.end = x + width
  BY <1>3, BucketFields DEF RawBucket
<1>5. b.start < c.end /\ c.start < b.end
  BY <1>1, <1>3, <1>4
<1> QED
  BY <1>2, <1>5 DEF Overlaps

\* The hour and the day of a run.
LEMMA RowsOfRun ==
  ASSUME TierTypes, AskInv, NEW r \in Runs, NEW start \in Nat
  PROVE  LET h == run[r].hour
             d == Day(h)
             b == HourBucket(h)
             c == DayBucket(d)
         IN /\ h \in Hours /\ h \in Nat /\ d \in Days /\ d \in Nat /\ d * HoursPerDay \in Nat /\ HoursPerDay \in Nat
            /\ d * HoursPerDay <= h /\ h < d * HoursPerDay + HoursPerDay
            /\ b.start = h /\ b.end = h + 1 /\ c.start = d * HoursPerDay /\ c.end = d * HoursPerDay + HoursPerDay
            /\ b \in HourlyBuckets(start) => h >= start
            /\ c \in DailyBuckets(start) => d * HoursPerDay >= start
<1> DEFINE h == run[r].hour
           d == Day(h)
<1>1. h \in Hours /\ h \in Nat /\ h <= MaxHour /\ MaxHour \in Nat /\ HoursPerDay \in Nat
  BY RunTypesIs, HourFacts, Retentions DEF RunType, Hours
<1>2. d \in Nat /\ HoursPerDay * d <= h /\ h < HoursPerDay * d + HoursPerDay
  BY <1>1, DayBounds
<1>3. d \in Days
  BY <1>1, <1>2, DaysInOrder, DayBounds DEF Days
<1>4. HoursPerDay * d = d * HoursPerDay
  BY <1>1, <1>2
<1>5. d * HoursPerDay \in Nat
  BY <1>1, <1>2
<1> HIDE DEF d, h
<1>6. /\ HourBucket(h).start = h /\ HourBucket(h).end = h + 1
      /\ DayBucket(d).start = d * HoursPerDay /\ DayBucket(d).end = d * HoursPerDay + HoursPerDay
  BY BucketFields DEF HourBucket, DayBucket
<1>7. HourBucket(h) \in HourlyBuckets(start) => h >= start
  <2>1. \A x : HourBucket(x).start = x
    BY BucketFields DEF HourBucket
  <2> QED
    BY <2>1, RowBucketsAre
<1>8. DayBucket(d) \in DailyBuckets(start) => d * HoursPerDay >= start
  <2>1. \A x : DayBucket(x).start = x * HoursPerDay
    BY BucketFields DEF DayBucket
  <2> QED
    BY <2>1, RowBucketsAre
<1> QED
  BY <1>1, <1>2, <1>3, <1>4, <1>5, <1>6, <1>7, <1>8 DEF h, d

\* No bucket shows more runs than it has.
LEMMA BucketsBelow ==
  ASSUME TiersInv, AskInv, RunsStored, TiersRead, NEW start \in Nat, NEW width \in Nat \ {0}
  PROVE  LET rows == BucketRows(Shown(start, width))
         IN /\ RunsIn(rows, RawShown(start, width)) <= Cardinality(RawFrom(start))
            /\ RunsIn(rows, HourlyShown(start, width))
                 <= Cardinality(WithKey(Counted, HourBucketOf, HourlyShown(start, width)))
            /\ RunsIn(rows, DailyShown(start, width))
                 <= Cardinality(WithKey(Counted, DayBucketOf, DailyShown(start, width)))
<1> DEFINE rows == BucketRows(Shown(start, width))
           raws == RawShown(start, width)
           hours == HourlyShown(start, width)
           days == DailyShown(start, width)
           R == RawFrom(start)
           key == RawBucketOf(start, width)
<1>1. /\ TierTypes /\ IsFiniteSet(R) /\ R \in SUBSET Runs
      /\ IsFiniteSet(Counted) /\ Counted \in SUBSET Runs
      /\ IsFiniteSet(raws) /\ IsFiniteSet(hours) /\ IsFiniteSet(days)
  BY RawRuns, RawBucketsAre, ShownParts, CountedFacts DEF TiersInv, StoredRuns, Counted
<1>2. \A b \in Shown(start, width) : RunsOf(rows[b]) = b.runs /\ RunsOf(rows[b]) \in Nat
  BY <1>1, ChartSum
<1>3. \A b : b \in raws \/ b \in hours \/ b \in days => b \in Shown(start, width)
  BY DEF Shown
<1>4. RunsIn(rows, raws) <= Cardinality(WithKey(R, key, raws))
  <2>1. ASSUME NEW b \in raws
        PROVE  RunsOf(rows[b]) \in Nat /\ RunsOf(rows[b]) <= Cardinality(WithKey(R, key, {b}))
    <3>1. PICK r \in R : b = key[r]
      BY <1>1, RawBucketsAre DEF KeysOf
    <3>2. PICK i : i = RawIndex(r, start, width) /\ b = RawBucket(i, start, width)
      BY <1>1, <3>1 DEF RawBucketOf
    <3>3. b.runs = Cardinality(RawAt(i, start, width))
      BY <3>2, BucketFields DEF RawBucket
    <3>4. RawAt(i, start, width) \subseteq WithKey(R, key, {b}) /\ WithKey(R, key, {b}) \in SUBSET R
      BY <1>1, <3>2 DEF RawAt, WithKey, RawBucketOf
    <3>5. IsFiniteSet(WithKey(R, key, {b}))
      BY <1>1, <3>4, FS_Subset
    <3>6. Cardinality(RawAt(i, start, width)) <= Cardinality(WithKey(R, key, {b}))
      BY <3>4, <3>5, FS_Subset
    <3> QED
      BY <1>2, <1>3, <3>3, <3>6
  <2> HIDE DEF rows, raws, R, key
  <2> QED
    BY <1>1, <2>1, CountsBelow
<1>5. Cardinality(WithKey(R, key, raws)) <= Cardinality(R) /\ Cardinality(WithKey(R, key, raws)) \in Nat
      /\ Cardinality(R) \in Nat
  <2>1. WithKey(R, key, raws) \in SUBSET R
    BY DEF WithKey
  <2> QED
    BY <1>1, <2>1, FS_Subset, FS_CardinalityType
<1>6. RunsIn(rows, hours) <= Cardinality(WithKey(Counted, HourBucketOf, hours))
  <2>1. ASSUME NEW b \in hours
        PROVE  RunsOf(rows[b]) \in Nat /\ RunsOf(rows[b]) <= Cardinality(WithKey(Counted, HourBucketOf, {b}))
    <3>1. PICK h \in Hours : question.hourly[h] # None /\ b = HourBucket(h)
      BY <1>1, RowBucketsAre DEF HourlyShown
    <3>2. b.runs = RunsOf(question.hourly[h])
      BY <3>1, BucketFields DEF HourBucket, RunsOf
    <3>3. RunsOf(question.hourly[h]) <= Cardinality(CountedAt(h))
      BY DEF AskInv, HoursRead
    <3>4. CountedAt(h) \in SUBSET WithKey(Counted, HourBucketOf, {b})
          /\ WithKey(Counted, HourBucketOf, {b}) \in SUBSET Counted
      BY <3>1 DEF CountedAt, Counted, WithKey, HourBucketOf
    <3>5. Cardinality(CountedAt(h)) <= Cardinality(WithKey(Counted, HourBucketOf, {b}))
          /\ Cardinality(CountedAt(h)) \in Nat /\ Cardinality(WithKey(Counted, HourBucketOf, {b})) \in Nat
      BY <1>1, <3>4, CountedFacts
    <3> QED
      BY <1>2, <1>3, <3>2, <3>3, <3>5
  <2> HIDE DEF rows, hours
  <2> QED
    BY <1>1, <2>1, CountsBelow
<1>7. RunsIn(rows, days) <= Cardinality(WithKey(Counted, DayBucketOf, days))
  <2>1. ASSUME NEW b \in days
        PROVE  RunsOf(rows[b]) \in Nat /\ RunsOf(rows[b]) <= Cardinality(WithKey(Counted, DayBucketOf, {b}))
    <3>1. PICK d \in Days : question.daily[d] # None /\ b = DayBucket(d)
      BY <1>1, RowBucketsAre DEF DailyShown
    <3>2. b.runs = RunsOf(question.daily[d])
      BY <3>1, BucketFields DEF DayBucket, RunsOf
    <3>3. RunsOf(question.daily[d]) <= Cardinality(CountedIn(d))
      BY DEF AskInv, DaysRead
    <3>4. CountedIn(d) \in SUBSET WithKey(Counted, DayBucketOf, {b})
          /\ WithKey(Counted, DayBucketOf, {b}) \in SUBSET Counted
      BY <3>1 DEF CountedIn, Counted, WithKey, DayBucketOf
    <3>5. Cardinality(CountedIn(d)) <= Cardinality(WithKey(Counted, DayBucketOf, {b}))
          /\ Cardinality(CountedIn(d)) \in Nat /\ Cardinality(WithKey(Counted, DayBucketOf, {b})) \in Nat
      BY <1>1, <3>4, CountedFacts
    <3> QED
      BY <1>2, <1>3, <3>2, <3>3, <3>5
  <2> HIDE DEF rows, days
  <2> QED
    BY <1>1, <2>1, CountsBelow
<1>8. RunsIn(rows, raws) \in Nat
  BY <1>1, ChartSum
<1> QED
  BY <1>4, <1>5, <1>6, <1>7, <1>8

StoredFrom(start) == {r \in Runs : run[r].pc # "waiting" /\ run[r].hour >= start}
CountedLater == {r \in Runs : run[r].pc = "counted" /\ run[r].at # run[r].hour}

\* The runs behind the buckets of the three tiers are different ones, unless counted in
\* another hour than stored in.
LEMMA NoneShownTwice ==
  ASSUME TiersInv, AskInv, RunsStored, TiersRead, NEW start \in Nat, NEW width \in Nat \ {0}
  PROVE  RunsInChart(start, width) <= Cardinality(StoredFrom(start)) + Cardinality(CountedLater)
<1> DEFINE rows == BucketRows(Shown(start, width))
           raws == RawShown(start, width)
           hours == HourlyShown(start, width)
           days == DailyShown(start, width)
           R == RawFrom(start)
           H == WithKey(Counted, HourBucketOf, hours)
           D == WithKey(Counted, DayBucketOf, days)
           F == StoredFrom(start)
           L == CountedLater
<1>1. TierTypes /\ R \in SUBSET Runs /\ Counted \in SUBSET Runs
  BY RawRuns DEF TiersInv, StoredRuns, Counted
<1>2. /\ \A r \in H : r \in Counted /\ HourBucket(run[r].hour) \in hours
      /\ \A r \in D : r \in Counted /\ DayBucket(Day(run[r].hour)) \in days
  BY <1>1 DEF WithKey, HourBucketOf, DayBucketOf
<1>3. /\ \A b \in hours : b \in HourlyBuckets(start) /\ ~Overlaps(b, raws)
      /\ \A b \in days : b \in DailyBuckets(start) /\ ~Overlaps(b, raws) /\ ~Overlaps(b, HourlyBuckets(start))
  BY DEF HourlyShown, DailyShown
<1>4. R \subseteq F
  <2> SUFFICES ASSUME NEW r \in R PROVE r \in F
    OBVIOUS
  <2>1. /\ r \in Runs /\ run[r].pc # "waiting" /\ run[r].at \in Nat /\ run[r].hour \in Nat
        /\ start <= run[r].at /\ run[r].at <= run[r].hour
    BY <1>1, RawRuns DEF StoredRuns
  <2> QED
    BY <2>1 DEF StoredFrom
<1>5. H \subseteq F
  BY <1>1, <1>2, <1>3, RowsOfRun DEF StoredFrom, Counted
<1>6. D \subseteq F
  <2> SUFFICES ASSUME NEW r \in D PROVE r \in F
    OBVIOUS
  <2>1. r \in Runs /\ run[r].pc = "counted" /\ DayBucket(Day(run[r].hour)) \in DailyBuckets(start)
    BY <1>2, <1>3 DEF Counted
  <2>2. PICK s \in Nat, h \in Nat : s = Day(run[r].hour) * HoursPerDay /\ h = run[r].hour /\ s <= h /\ s >= start
    BY <1>1, <2>1, RowsOfRun
  <2>3. h >= start
    BY <2>2
  <2> QED
    BY <2>1, <2>2, <2>3 DEF StoredFrom
<1>7. H \cap D = {}
  <2> SUFFICES ASSUME NEW r \in H, r \in D PROVE FALSE
    OBVIOUS
  <2> DEFINE b == HourBucket(run[r].hour)
             c == DayBucket(Day(run[r].hour))
  <2>1. r \in Runs /\ b \in HourlyBuckets(start) /\ ~Overlaps(c, HourlyBuckets(start))
    BY <1>1, <1>2, <1>3
  <2>2. PICK s \in Nat, h \in Nat, n \in Nat :
          /\ s <= h /\ h < s + n /\ b.start = h /\ b.end = h + 1 /\ c.start = s /\ c.end = s + n
    BY <1>1, <2>1, RowsOfRun
  <2>3. c.start < b.end /\ b.start < c.end
    BY <2>2
  <2> QED
    BY <2>1, <2>3 DEF Overlaps
<1>8. ASSUME NEW r \in R, r \in H \/ r \in D PROVE r \in L
  <2> SUFFICES ASSUME run[r].at = run[r].hour PROVE FALSE
    BY <1>1, <1>2, <1>8 DEF CountedLater, Counted
  <2>1. PICK b : /\ ~Overlaps(b, raws) /\ b.start \in Nat /\ b.end \in Nat
                 /\ b.start <= run[r].hour /\ run[r].hour < b.end
    <3>1. CASE r \in H
      <4>1. PICK h \in Nat : h = run[r].hour /\ HourBucket(h).start = h /\ HourBucket(h).end = h + 1
        BY <1>1, RowsOfRun
      <4>2. ~Overlaps(HourBucket(h), raws)
        BY <1>2, <1>3, <3>1, <4>1
      <4>3. h <= h /\ h < h + 1 /\ h + 1 \in Nat
        OBVIOUS
      <4> QED
        BY <4>1, <4>2, <4>3
    <3>2. CASE r \in D
      <4>1. PICK h \in Nat, s \in Nat, n \in Nat :
              /\ h = run[r].hour /\ s <= h /\ h < s + n
              /\ DayBucket(Day(h)).start = s /\ DayBucket(Day(h)).end = s + n
        BY <1>1, RowsOfRun
      <4>2. ~Overlaps(DayBucket(Day(h)), raws)
        BY <1>2, <1>3, <3>2, <4>1
      <4> QED
        BY <4>1, <4>2
    <3> QED
      BY <1>8, <3>1, <3>2
  <2>2. Overlaps(b, raws)
    BY <1>1, <2>1, RawOverlaps
  <2> QED
    BY <2>1, <2>2
<1>9. H \in SUBSET Counted /\ D \in SUBSET Counted /\ L \in SUBSET Counted /\ F \in SUBSET StoredRuns
  BY <1>2 DEF CountedLater, Counted, StoredFrom, StoredRuns
<1>10. IsFiniteSet(H) /\ IsFiniteSet(D) /\ IsFiniteSet(L) /\ IsFiniteSet(F) /\ IsFiniteSet(R)
  BY <1>1, <1>9, CountedFacts, RawRuns, FS_Subset DEF RunsStored
<1>11. /\ RunsInChart(start, width) = RunsIn(rows, raws) + RunsIn(rows, hours) + RunsIn(rows, days)
       /\ RunsIn(rows, raws) \in Nat /\ RunsIn(rows, hours) \in Nat /\ RunsIn(rows, days) \in Nat
  BY <1>1, ChartSum
<1>12. /\ RunsIn(rows, raws) <= Cardinality(R) /\ RunsIn(rows, hours) <= Cardinality(H)
       /\ RunsIn(rows, days) <= Cardinality(D)
  BY BucketsBelow
<1> HIDE DEF rows, raws, hours, days, R, H, D, F, L
<1> DEFINE K == H \cup D
<1>13. Cardinality(K) = Cardinality(H) + Cardinality(D) - 0 /\ IsFiniteSet(K)
  BY <1>7, <1>10, FS_Union, FS_EmptySet
<1>14. K \subseteq F /\ R \cap K \subseteq L
  BY <1>5, <1>6, <1>8
<1> HIDE DEF K
<1>15. Cardinality(R \cup K) = Cardinality(R) + Cardinality(K) - Cardinality(R \cap K)
       /\ IsFiniteSet(R \cup K) /\ IsFiniteSet(R \cap K)
  BY <1>10, <1>13, FS_Union, FS_Subset
<1>16. Cardinality(R \cup K) <= Cardinality(F) /\ Cardinality(R \cap K) <= Cardinality(L)
  BY <1>4, <1>10, <1>14, FS_Subset
<1>17. /\ Cardinality(R) \in Nat /\ Cardinality(K) \in Nat /\ Cardinality(F) \in Nat /\ Cardinality(L) \in Nat
       /\ Cardinality(H) \in Nat /\ Cardinality(D) \in Nat
       /\ Cardinality(R \cup K) \in Nat /\ Cardinality(R \cap K) \in Nat
  BY <1>10, <1>13, <1>15, FS_CardinalityType
<1>18. RunsInChart(start, width) <= Cardinality(F) + Cardinality(L)
  BY <1>11, <1>12, <1>13, <1>15, <1>16, <1>17
<1> QED
  BY <1>18 DEF F, L

\* Each hour, and day, that one of these runs is in.
DueIn(start, width) ==
  {r \in question.counted : /\ InChart(r, start) /\ ~HiddenByRaw(r, start, width)
                            /\ ~ExpiredDay(Day(run[r].hour))}

HoursGood == {h \in Hours : daily[Day(h)] = None /\ ~ExpiredDay(Day(h))}
DaysGood == {d \in Days : question.daily[d] # None /\ ~ExpiredDay(d)}
HourlyGood(start, width) == {b \in HourlyShown(start, width) : \E h \in HoursGood : b = HourBucket(h)}
DailyGood(start, width) == {b \in DailyShown(start, width) : \E d \in DaysGood : b = DayBucket(d)}

\* What was read of them when nothing has failed or is being rolled up.
LEMMA ReadWhole ==
  ASSUME TiersInv, HoursInv, AskInv, ChartInv, Asking, ~question.torn, failures = 0,
         "hourly" \in question.read, "daily" \in question.read
  PROVE  /\ \A h \in HoursGood : RunsOf(question.hourly[h]) >= Cardinality(AskedAt(h))
         /\ \A d \in DaysGood : RunsOf(question.daily[d]) >= Cardinality(AskedIn(d))
         /\ \A h \in Hours : Day(h) \in DaysGood => question.hourly[h] = None
         /\ \A d \in Days : ~ExpiredDay(d) => (question.daily[d] = None <=> daily[d] = None)
<1>1. \A d \in Days : ~ExpiredDay(d) => (question.daily[d] = None <=> daily[d] = None)
  BY DEF ChartInv, TiersRead
<1>2. \A h \in HoursGood : RunsOf(question.hourly[h]) >= Cardinality(AskedAt(h))
  BY DEF ChartInv, TiersRead, HoursGood
<1>3. \A h \in Hours : Day(h) \in DaysGood => question.hourly[h] = None
  BY <1>1 DEF ChartInv, TiersRead, DaysGood
<1>4. ASSUME NEW d \in DaysGood PROVE RunsOf(question.daily[d]) >= Cardinality(AskedIn(d))
  <2>1. d \in Days /\ daily[d] # None /\ ~ExpiredDay(d) /\ OldDay(d)
    BY <1>1 DEF DaysGood, AskInv, DaysRead
  <2>2. RunsOf(question.daily[d]) + RunsIn(hourly, HoursOf(d)) >= Cardinality(AskedIn(d)) /\ ~RollingUp
    BY <2>1 DEF AskInv, DaysRead
  <2>3. job.doomed = {}
    BY <2>2 DEF RollingUp, TiersInv, RowsAsRead
  <2>4. \A h \in HoursOf(d) : hourly[h] = None
    BY <2>1, <2>3 DEF HoursInv, DaysRolledUp
  <2>5. RunsIn(hourly, HoursOf(d)) = 0
    BY <2>4, HourFacts, SumOfNothing
  <2>6. RunsOf(question.daily[d]) \in Nat
    BY <2>1, QuestionIs, RowFacts DEF AskInv
  <2>7. Cardinality(AskedIn(d)) \in Nat
    BY AskedFacts DEF TiersInv, AskInv
  <2> QED
    BY <2>2, <2>5, <2>6, <2>7
<1> QED
  BY <1>1, <1>2, <1>3, <1>4

\* A run is in what is shown of its tier.
LEMMA DueShown ==
  ASSUME TiersInv, HoursInv, AskInv, ChartInv, Asking, ~question.torn, failures = 0,
         "hourly" \in question.read, "daily" \in question.read,
         NEW start \in Nat, NEW width \in Nat \ {0}, NEW r \in DueIn(start, width), r \notin RawFrom(start)
  PROVE  \/ HourBucket(run[r].hour) \in HourlyGood(start, width)
         \/ DayBucket(Day(run[r].hour)) \in DailyGood(start, width)
<1> DEFINE h == run[r].hour
           d == Day(h)
           raws == RawShown(start, width)
<1>1. /\ TierTypes /\ r \in Runs /\ r \in question.counted /\ InChart(r, start) /\ ~ExpiredDay(d)
      /\ ~HiddenByRaw(r, start, width)
  BY QuestionIs DEF DueIn, TiersInv, AskInv
<1>2. h \in Hours /\ h \in Nat /\ d \in Days /\ d \in Nat /\ d * HoursPerDay \in Nat
  BY <1>1, RowsOfRun
<1>3. CASE DayRolledUp(r)
  <2> DEFINE b == DayBucket(d)
  <2>1. question.daily[d] # None /\ d * HoursPerDay >= start
    BY <1>1, <1>3 DEF DayRolledUp, InChart
  <2>2. b \in DailyBuckets(start) /\ d \in DaysGood
    BY <1>1, <1>2, <2>1, RowBucketsAre DEF DaysGood
  <2>3. ~Overlaps(b, raws)
    <3> DEFINE whole == [start |-> d * HoursPerDay, end |-> (d + 1) * HoursPerDay]
    <3>1. ~Overlaps(whole, raws)
      BY <1>1, <1>3 DEF HiddenByRaw, RawShown
    <3>2. (d + 1) * HoursPerDay = d * HoursPerDay + HoursPerDay
      <4>1. HoursPerDay * (d + 1) = HoursPerDay * d + HoursPerDay * 1
        BY <1>2, Retentions, ProductOfSum
      <4> QED
        BY <1>2, <4>1, Retentions
    <3>3. b.start = whole.start /\ b.end = whole.end
      BY <1>1, <3>2, RowsOfRun
    <3> QED
      BY <3>1, <3>3 DEF Overlaps
  <2>4. ~Overlaps(b, HourlyBuckets(start))
    <3> SUFFICES ASSUME NEW c \in HourlyBuckets(start), b.start < c.end, c.start < b.end PROVE FALSE
      BY DEF Overlaps
    <3>1. PICK k \in Hours : question.hourly[k] # None /\ c = HourBucket(k)
      BY <1>1, RowBucketsAre
    <3>2. c.start = k /\ c.end = k + 1 /\ k \in Nat
      BY <3>1, BucketFields, HourFacts DEF HourBucket
    <3>3. PICK s \in Nat, n \in Nat :
            /\ s = d * HoursPerDay /\ n = HoursPerDay /\ b.start = s /\ b.end = s + n
      BY <1>1, RowsOfRun
    <3>4. s <= k /\ k < s + n
      BY <3>2, <3>3
    <3>5. Day(k) = d
      <4>1. PICK t \in Nat : t = Day(k) /\ HoursPerDay * t <= k /\ k < HoursPerDay * t + HoursPerDay
        BY <3>2, DayBounds
      <4>2. HoursPerDay \in Nat \ {0} /\ HoursPerDay * d = s
        BY <1>2, <3>3, Retentions
      <4>3. \A x, y \in Nat : x + 1 <= y => HoursPerDay * x + HoursPerDay <= HoursPerDay * y
        BY <4>2, ProductOrder, ProductOfSum
      <4>4. PICK q \in Nat : q = HoursPerDay * t
        BY <4>2
      <4>5. ~(t + 1 <= d)
        <5>1. t + 1 <= d => q + n <= s
          BY <1>2, <3>3, <4>2, <4>3, <4>4
        <5> QED
          BY <3>3, <3>4, <4>1, <4>4, <5>1, <3>2
      <4>6. ~(d + 1 <= t)
        <5>1. d + 1 <= t => s + n <= q
          BY <1>2, <3>3, <4>2, <4>3, <4>4
        <5> QED
          BY <3>3, <3>4, <4>1, <4>4, <5>1, <3>2
      <4> HIDE DEF d
      <4> QED
        BY <1>2, <4>1, <4>5, <4>6
    <3> QED
      BY <2>2, <3>1, <3>5, ReadWhole
  <2>5. b \in DailyShown(start, width)
    BY <2>2, <2>3, <2>4 DEF DailyShown
  <2> QED
    BY <2>2, <2>5 DEF DailyGood
<1>4. CASE ~DayRolledUp(r)
  <2> DEFINE b == HourBucket(h)
  <2>1. question.daily[d] = None /\ h >= start
    BY <1>1, <1>4 DEF DayRolledUp, InChart
  <2>2. h \in HoursGood
    BY <1>1, <1>2, <2>1, ReadWhole DEF HoursGood
  <2>3. question.hourly[h] # None
    <3>1. r \in AskedAt(h) /\ AskedAt(h) \in SUBSET Counted
      BY <1>1, QuestionIs DEF AskedAt, AskInv, AskTypes
    <3>2. Cardinality(AskedAt(h)) \in Nat /\ Cardinality(AskedAt(h)) # 0
      BY <1>1, <3>1, CountedFacts, FS_EmptySet
    <3>3. RunsOf(question.hourly[h]) >= Cardinality(AskedAt(h))
      BY <2>2, ReadWhole
    <3> QED
      BY <3>2, <3>3, RowFacts
  <2>4. b \in HourlyBuckets(start)
    BY <1>1, <1>2, <2>1, <2>3, RowBucketsAre
  <2>5. ~Overlaps(b, raws)
    <3>1. ~Overlaps([start |-> h, end |-> h + 1], raws)
      BY <1>1, <1>4 DEF HiddenByRaw, RawShown
    <3>2. b.start = h /\ b.end = h + 1
      BY <1>1, RowsOfRun
    <3> QED
      BY <3>1, <3>2 DEF Overlaps
  <2>6. b \in HourlyShown(start, width)
    BY <2>4, <2>5 DEF HourlyShown
  <2> QED
    BY <2>2, <2>6 DEF HourlyGood
<1> QED
  BY <1>3, <1>4

\* Each bucket shows at least the runs it is due to.
LEMMA BucketsAbove ==
  ASSUME TiersInv, HoursInv, AskInv, ChartInv, Asking, ~question.torn, failures = 0,
         "hourly" \in question.read, "daily" \in question.read,
         NEW start \in Nat, NEW width \in Nat \ {0}
  PROVE  LET rows == BucketRows(Shown(start, width))
             C == question.counted
         IN /\ RunsIn(rows, RawShown(start, width)) >= Cardinality(RawFrom(start))
            /\ RunsIn(rows, HourlyShown(start, width))
                 >= Cardinality(WithKey(C, HourBucketOf, HourlyGood(start, width)))
            /\ RunsIn(rows, DailyShown(start, width))
                 >= Cardinality(WithKey(C, DayBucketOf, DailyGood(start, width)))
<1> DEFINE rows == BucketRows(Shown(start, width))
           C == question.counted
           raws == RawShown(start, width)
           hours == HourlyShown(start, width)
           days == DailyShown(start, width)
           goodHours == HourlyGood(start, width)
           goodDays == DailyGood(start, width)
           R == RawFrom(start)
           key == RawBucketOf(start, width)
<1>1. /\ TierTypes /\ RunsStored /\ TiersRead /\ IsFiniteSet(R) /\ R \in SUBSET Runs
      /\ C \in SUBSET Counted /\ C \in SUBSET Runs /\ IsFiniteSet(C)
      /\ IsFiniteSet(raws) /\ IsFiniteSet(hours) /\ IsFiniteSet(days)
  BY RawRuns, RawBucketsAre, ShownParts, CountedFacts DEF TiersInv, ChartInv, StoredRuns, Counted, AskInv, AskTypes
<1>2. \A b \in Shown(start, width) : RunsOf(rows[b]) = b.runs /\ RunsOf(rows[b]) \in Nat
  BY <1>1, ChartSum
<1>3. \A b : b \in raws \/ b \in hours \/ b \in days => b \in Shown(start, width)
  BY DEF Shown
<1>4. RunsIn(rows, raws) >= Cardinality(WithKey(R, key, raws))
  <2>1. ASSUME NEW b \in raws
        PROVE  RunsOf(rows[b]) \in Nat /\ RunsOf(rows[b]) >= Cardinality(WithKey(R, key, {b}))
    <3>1. PICK r \in R : b = key[r]
      BY <1>1, RawBucketsAre DEF KeysOf
    <3>2. PICK i : i = RawIndex(r, start, width) /\ b = RawBucket(i, start, width)
      BY <1>1, <3>1 DEF RawBucketOf
    <3>3. b.runs = Cardinality(RawAt(i, start, width))
      BY <3>2, BucketFields DEF RawBucket
    <3>4. WithKey(R, key, {b}) \subseteq RawAt(i, start, width)
      <4> SUFFICES ASSUME NEW s \in R, key[s] = b PROVE RawIndex(s, start, width) = i
        BY DEF WithKey, RawAt
      <4>1. PICK j \in Nat : j = RawIndex(s, start, width) /\ b = RawBucket(j, start, width)
        BY <1>1, RawRuns DEF RawBucketOf
      <4>2. i \in Nat
        BY <1>1, <3>2, RawRuns
      <4>3. start + i * width = start + j * width
        BY <3>2, <4>1, BucketFields DEF RawBucket
      <4>4. PICK x \in Nat, y \in Nat : x = i * width /\ y = j * width /\ x = width * i /\ y = width * j
        BY <4>2
      <4>5. width * i = width * j
        BY <4>3, <4>4
      <4> QED
        BY <4>1, <4>2, <4>5, ProductCancels
    <3>5. IsFiniteSet(RawAt(i, start, width)) /\ Cardinality(RawAt(i, start, width)) \in Nat
      BY <1>1, RawBucketsAre
    <3>6. Cardinality(WithKey(R, key, {b})) <= Cardinality(RawAt(i, start, width))
      BY <3>4, <3>5, FS_Subset
    <3>7. Cardinality(WithKey(R, key, {b})) \in Nat
      BY <3>4, <3>5, FS_Subset, FS_CardinalityType
    <3> QED
      BY <1>2, <1>3, <3>3, <3>5, <3>6, <3>7
  <2> HIDE DEF rows, raws, R, key
  <2> QED
    BY <1>1, <2>1, CountsAbove
<1>5. WithKey(R, key, raws) = R
  BY <1>1, RawBucketsAre DEF WithKey, KeysOf
<1>6. RunsIn(rows, goodHours) >= Cardinality(WithKey(C, HourBucketOf, goodHours))
  <2>1. ASSUME NEW b \in goodHours
        PROVE  RunsOf(rows[b]) \in Nat /\ RunsOf(rows[b]) >= Cardinality(WithKey(C, HourBucketOf, {b}))
    <3>1. PICK h \in HoursGood : b = HourBucket(h) /\ b \in hours
      BY DEF HourlyGood
    <3>2. question.hourly[h] # None
      <4>1. PICK k \in Hours : question.hourly[k] # None /\ b = HourBucket(k)
        BY <1>1, <3>1, RowBucketsAre DEF HourlyShown
      <4> QED
        BY <3>1, <4>1, BucketFields DEF HourBucket
    <3>3. b.runs = RunsOf(question.hourly[h])
      BY <3>1, <3>2, BucketFields DEF HourBucket, RunsOf
    <3>4. RunsOf(question.hourly[h]) >= Cardinality(AskedAt(h))
      BY <3>1, ReadWhole
    <3>5. WithKey(C, HourBucketOf, {b}) \in SUBSET AskedAt(h) /\ AskedAt(h) \in SUBSET C
      <4>1. \A r \in Runs : HourBucketOf[r] = b => run[r].hour = h
        BY <3>1, BucketFields DEF HourBucketOf, HourBucket
      <4> QED
        BY <1>1, <4>1 DEF WithKey, AskedAt
    <3>6. Cardinality(WithKey(C, HourBucketOf, {b})) <= Cardinality(AskedAt(h))
          /\ Cardinality(AskedAt(h)) \in Nat /\ Cardinality(WithKey(C, HourBucketOf, {b})) \in Nat
      <4>1. AskedAt(h) \in SUBSET Counted /\ WithKey(C, HourBucketOf, {b}) \in SUBSET Counted
        BY <1>1, <3>5
      <4> QED
        BY <1>1, <3>5, <4>1, CountedFacts
    <3> QED
      BY <1>2, <1>3, <3>1, <3>3, <3>4, <3>6
  <2>2. IsFiniteSet(goodHours)
    <3>1. goodHours \in SUBSET hours
      BY DEF HourlyGood
    <3> QED
      BY <1>1, <3>1, FS_Subset
  <2> HIDE DEF rows, goodHours, C
  <2> QED
    BY <1>1, <2>1, <2>2, CountsAbove
<1>7. RunsIn(rows, goodDays) >= Cardinality(WithKey(C, DayBucketOf, goodDays))
  <2>1. ASSUME NEW b \in goodDays
        PROVE  RunsOf(rows[b]) \in Nat /\ RunsOf(rows[b]) >= Cardinality(WithKey(C, DayBucketOf, {b}))
    <3>1. PICK d \in DaysGood : b = DayBucket(d) /\ b \in days
      BY DEF DailyGood
    <3>2. question.daily[d] # None /\ d \in Days /\ d \in Nat
      BY <3>1, HourFacts DEF DaysGood
    <3>3. b.runs = RunsOf(question.daily[d])
      BY <3>1, <3>2, BucketFields DEF DayBucket, RunsOf
    <3>4. RunsOf(question.daily[d]) >= Cardinality(AskedIn(d))
      BY <3>1, ReadWhole
    <3>5. WithKey(C, DayBucketOf, {b}) \in SUBSET AskedIn(d) /\ AskedIn(d) \in SUBSET C
      <4>1. ASSUME NEW r \in Runs, DayBucketOf[r] = b PROVE Day(run[r].hour) = d
        <5>1. PICK e \in Nat : e = Day(run[r].hour) /\ DayBucket(e) = b
          BY <1>1, <4>1, RowsOfRun DEF DayBucketOf
        <5>2. e * HoursPerDay = d * HoursPerDay
          BY <3>1, <5>1, BucketFields DEF DayBucket
        <5>3. HoursPerDay \in Nat \ {0} /\ HoursPerDay * e = HoursPerDay * d
          BY <3>2, <5>2, Retentions
        <5> QED
          BY <3>2, <5>1, <5>3, ProductCancels
      <4> QED
        BY <1>1, <4>1 DEF WithKey, AskedIn
    <3>6. Cardinality(WithKey(C, DayBucketOf, {b})) <= Cardinality(AskedIn(d))
          /\ Cardinality(AskedIn(d)) \in Nat /\ Cardinality(WithKey(C, DayBucketOf, {b})) \in Nat
      <4>1. AskedIn(d) \in SUBSET Counted /\ WithKey(C, DayBucketOf, {b}) \in SUBSET Counted
        BY <1>1, <3>5
      <4> QED
        BY <1>1, <3>5, <4>1, CountedFacts
    <3> QED
      BY <1>2, <1>3, <3>1, <3>3, <3>4, <3>6
  <2>2. IsFiniteSet(goodDays)
    <3>1. goodDays \in SUBSET days
      BY DEF DailyGood
    <3> QED
      BY <1>1, <3>1, FS_Subset
  <2> HIDE DEF rows, goodDays, C
  <2> QED
    BY <1>1, <2>1, <2>2, CountsAbove
<1>8. /\ goodHours \in SUBSET hours /\ goodDays \in SUBSET days
      /\ \A b \in hours : RunsOf(rows[b]) \in Nat
      /\ \A b \in days : RunsOf(rows[b]) \in Nat
  BY <1>2, <1>3 DEF HourlyGood, DailyGood
<1>9. /\ Cardinality(WithKey(C, HourBucketOf, goodHours)) \in Nat
      /\ Cardinality(WithKey(C, DayBucketOf, goodDays)) \in Nat
  <2>1. WithKey(C, HourBucketOf, goodHours) \in SUBSET C /\ WithKey(C, DayBucketOf, goodDays) \in SUBSET C
    BY DEF WithKey
  <2> QED
    BY <1>1, <2>1, FS_Subset, FS_CardinalityType
<1> HIDE DEF rows, raws, hours, days, goodHours, goodDays, C
<1>10. /\ RunsIn(rows, hours) = RunsIn(rows, goodHours) + RunsIn(rows, hours \ goodHours)
       /\ RunsIn(rows, days) = RunsIn(rows, goodDays) + RunsIn(rows, days \ goodDays)
  BY <1>1, <1>8, SumSplits
<1>11. /\ RunsIn(rows, goodHours) \in Nat /\ RunsIn(rows, hours \ goodHours) \in Nat
       /\ RunsIn(rows, goodDays) \in Nat /\ RunsIn(rows, days \ goodDays) \in Nat
  <2>1. /\ IsFiniteSet(goodHours) /\ IsFiniteSet(hours \ goodHours)
        /\ IsFiniteSet(goodDays) /\ IsFiniteSet(days \ goodDays)
    BY <1>1, <1>8, FS_Subset
  <2> QED
    BY <1>8, <2>1, SumIsNumber
<1>12. /\ RunsIn(rows, hours) >= Cardinality(WithKey(C, HourBucketOf, goodHours))
       /\ RunsIn(rows, days) >= Cardinality(WithKey(C, DayBucketOf, goodDays))
  BY <1>6, <1>7, <1>9, <1>10, <1>11
<1> QED
  BY <1>4, <1>5, <1>12 DEF rows, raws, hours, days, goodHours, goodDays, C

\* A chart misses none of them.
LEMMA NoneLeftOut ==
  ASSUME TiersInv, HoursInv, AskInv, ChartInv, AllRead, question.pc = "chart", ~question.torn, failures = 0,
         NEW start \in Nat, NEW width \in Nat \ {0}
  PROVE  RunsInChart(start, width) >= Cardinality(DueIn(start, width))
<1> DEFINE rows == BucketRows(Shown(start, width))
           C == question.counted
           R == RawFrom(start)
           H == WithKey(C, HourBucketOf, HourlyGood(start, width))
           D == WithKey(C, DayBucketOf, DailyGood(start, width))
           due == DueIn(start, width)
<1>1. /\ TierTypes /\ RunsStored /\ TiersRead
      /\ Asking /\ "hourly" \in question.read /\ "daily" \in question.read
  BY DEF TiersInv, ChartInv, AllRead, Tiers, Asking
<1>2. IsFiniteSet(C) /\ C \in SUBSET Runs /\ IsFiniteSet(R)
  BY <1>1, CountedFacts, RawRuns DEF Counted, AskInv, AskTypes
<1>3. due \subseteq (R \cup H) \cup D
  <2> SUFFICES ASSUME NEW r \in due, r \notin R PROVE r \in H \/ r \in D
    OBVIOUS
  <2>1. r \in C /\ r \in Runs
    BY <1>2 DEF DueIn
  <2>2. \/ HourBucket(run[r].hour) \in HourlyGood(start, width)
        \/ DayBucket(Day(run[r].hour)) \in DailyGood(start, width)
    BY <1>1, DueShown
  <2> QED
    BY <2>1, <2>2 DEF WithKey, HourBucketOf, DayBucketOf
<1>4. /\ RunsIn(rows, RawShown(start, width)) >= Cardinality(R)
      /\ RunsIn(rows, HourlyShown(start, width)) >= Cardinality(H)
      /\ RunsIn(rows, DailyShown(start, width)) >= Cardinality(D)
  BY <1>1, BucketsAbove
<1>5. /\ RunsInChart(start, width) = RunsIn(rows, RawShown(start, width)) + RunsIn(rows, HourlyShown(start, width))
                                       + RunsIn(rows, DailyShown(start, width))
      /\ RunsIn(rows, RawShown(start, width)) \in Nat /\ RunsIn(rows, HourlyShown(start, width)) \in Nat
      /\ RunsIn(rows, DailyShown(start, width)) \in Nat
  BY <1>1, ChartSum
<1>6. H \in SUBSET C /\ D \in SUBSET C
  BY DEF WithKey
<1> HIDE DEF rows, C, R, H, D, due
<1>7. IsFiniteSet(H) /\ IsFiniteSet(D)
  BY <1>2, <1>6, FS_Subset
<1>8. /\ Cardinality(R \cup H) = Cardinality(R) + Cardinality(H) - Cardinality(R \cap H)
      /\ IsFiniteSet(R \cup H) /\ IsFiniteSet(R \cap H)
  BY <1>2, <1>7, FS_Union, FS_Subset
<1>9. /\ Cardinality((R \cup H) \cup D) = Cardinality(R \cup H) + Cardinality(D) - Cardinality((R \cup H) \cap D)
      /\ IsFiniteSet((R \cup H) \cup D) /\ IsFiniteSet((R \cup H) \cap D)
  BY <1>7, <1>8, FS_Union, FS_Subset
<1>10. Cardinality(due) <= Cardinality((R \cup H) \cup D) /\ IsFiniteSet(due)
  BY <1>3, <1>9, FS_Subset
<1>11. /\ Cardinality(R) \in Nat /\ Cardinality(H) \in Nat /\ Cardinality(D) \in Nat
       /\ Cardinality(R \cup H) \in Nat /\ Cardinality(R \cap H) \in Nat
       /\ Cardinality((R \cup H) \cup D) \in Nat /\ Cardinality((R \cup H) \cap D) \in Nat
       /\ Cardinality(due) \in Nat
  BY <1>2, <1>7, <1>8, <1>9, <1>10, FS_CardinalityType
<1>12. RunsInChart(start, width) >= Cardinality(due)
  BY <1>4, <1>5, <1>8, <1>9, <1>10, <1>11
<1> QED
  BY <1>12 DEF due

\* However the roll-up, the runs being counted and the job's deletes come between the
\* three statements of a chart, in whatever order they are served, and whatever fails,
\* getAggregatedHistory shows no run twice but one counted in another hour than stored
\* in; and mergeTieredBuckets loses none, unless raw data stands before it, it has
\* expired or the roll-up goes on.
THEOREM ChartCorrect == HistorySpec => ChartShowsEachRun
<1> DEFINE Sound == TiersInv /\ HoursInv /\ AskInv /\ ChartInv
<1>1. HistoryInit => Sound
  <2> SUFFICES ASSUME HistoryInit PROVE Sound
    OBVIOUS
  <2>1. TiersInv /\ HoursInv /\ question = NotAsking
    BY TiersInit, HoursInit DEF HistoryInit
  <2> QED
    BY <2>1, IdleSound, ChartBegins DEF TiersInv
<1>2. TypeOK /\ Sound /\ [HistoryNext]_askVars => Sound'
  BY TiersOfHistory, TiersStep, HoursStep, AskStep, ChartStep DEF TypeOK
<1>3. Sound /\ [HistoryNext]_askVars =>
        [AllRead /\ question.pc = "chart" =>
           \A start \in ChartStarts, width \in PointWidths :
             LET shown == RunsInChart(start, width) IN
             /\ shown <= Cardinality({r \in Runs : run[r].pc # "waiting" /\ run[r].hour >= start})
                           + Cardinality({r \in Runs : run[r].pc = "counted" /\ run[r].at # run[r].hour})
             /\ failures = 0 /\ ~question.torn =>
                  shown >= Cardinality({r \in question.counted :
                             /\ InChart(r, start) /\ ~HiddenByRaw(r, start, width)
                             /\ ~ExpiredDay(Day(run[r].hour))})]_question
  <2> SUFFICES ASSUME Sound, AllRead, question.pc = "chart", NEW start \in ChartStarts, NEW width \in PointWidths
               PROVE  /\ RunsInChart(start, width) <= Cardinality(StoredFrom(start)) + Cardinality(CountedLater)
                      /\ failures = 0 /\ ~question.torn =>
                           RunsInChart(start, width) >= Cardinality(DueIn(start, width))
    BY DEF StoredFrom, CountedLater, DueIn
  <2>1. start \in Nat /\ width \in Nat \ {0}
    BY HistoryAssumption
  <2>2. RunsStored /\ TiersRead
    BY DEF ChartInv
  <2> QED
    BY <2>1, <2>2, NoneShownTwice, NoneLeftOut
<1>4. HistorySpec => Spec
  <2>1. HistoryInit => Init
    BY DEF HistoryInit
  <2> QED
    BY <2>1, TiersOfHistory, PTL DEF HistorySpec, Spec
<1> QED
  BY <1>1, <1>2, <1>3, <1>4, TiersTypesCorrect, PTL DEF HistorySpec, ChartShowsEachRun
=============================================================================
