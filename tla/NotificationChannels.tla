------------------------ MODULE NotificationChannels ------------------------
(***************************************************************************)
(* core/notification-backend: who is notified on which external channel    *)
(* (router.ts, sendToExternalChannels), while users change their           *)
(* preferences, link and unlink accounts (strategy-service.ts,             *)
(* oauth-callback-handler.ts), administrators switch channels and users    *)
(* are deleted (index.ts). A preference is one entry of the configuration  *)
(* service, changed by reading it, merging and writing it back.            *)
(***************************************************************************)
EXTENDS FiniteSets

CONSTANTS
  Users, Channels,  \* a channel is a notification strategy
  Clients,          \* requests that change preferences at once
  Senders           \* runs of sendToExternalChannels at once

VARIABLES
  contactBy,    \* contactResolution of each channel; it never changes
  accounts,     \* users that auth-backend has
  switchedOn,   \* channels whose meta entry has enabled
  configured,   \* channels that have a config entry
  preference,   \* the entry user-pref.{user}.{channel}, or NoPreference
  changing,     \* each client's request
  sending,      \* each sender's progress
  forgetting,   \* deleted users whose clean-up job has not ended
  silenced      \* history: preferences whose user has turned the channel off

channelVars == <<contactBy, accounts, switchedOn, configured, preference, changing, sending,
                 forgetting, silenced>>

Preference == [enabled : BOOLEAN,
               linked  : BOOLEAN,   \* externalId
               config  : BOOLEAN]   \* userConfig, which holds a contact
NoPreference == [enabled |-> TRUE, linked |-> FALSE, config |-> FALSE, stored |-> FALSE]
Stored(p) == [enabled |-> p.enabled, linked |-> p.linked, config |-> p.config, stored |-> TRUE]
Entry == {NoPreference} \cup {Stored(p) : p \in Preference}

Pairs == Users \X Channels
NotChanging == [pc |-> "idle", op |-> "none", of |-> <<"none", "none">>, config |-> FALSE,
                first |-> NoPreference, seen |-> NoPreference, alone |-> TRUE]
NotSending == [pc |-> "idle", user |-> "none", todo |-> {}, on |-> "none", sent |-> {}, quiet |-> {}]

ChannelsInit ==
  /\ contactBy \in [Channels -> {"auth-email", "oauth-link", "user-config"}]
  /\ accounts = Users /\ switchedOn = {} /\ configured = {} /\ forgetting = {} /\ silenced = {}
  /\ preference = [up \in Pairs |-> NoPreference]
  /\ changing = [c \in Clients |-> NotChanging]
  /\ sending = [s \in Senders |-> NotSending]

\* Definitions named ...Mutant are plausible bugs, used only to show that the
\* properties below can fail.

-----------------------------------------------------------------------------
(* Preferences *)

Overlapping(c, up) == {d \in Clients \ {c} : changing[d].of = up}

\* From now on something may be sent.
MayBeHeard(ups) ==
  /\ silenced' = silenced \ ups
  /\ sending' = [s \in Senders |-> [sending[s] EXCEPT !.quiet = @ \ ups]]

\* A request to change a preference, which overlaps those of the same preference that
\* are under way.
ChangePreference(c, up, op, config) ==
  LET others == Overlapping(c, up) IN
  /\ changing[c].pc = "idle"
  /\ changing' = [d \in Clients |->
       IF d = c THEN [NotChanging EXCEPT !.pc = IF op = "unlink" THEN "readFirst" ELSE "read",
                        !.op = op, !.of = up, !.config = config, !.alone = others = {}]
       ELSE IF d \in others THEN [changing[d] EXCEPT !.alone = FALSE] ELSE changing[d]]
  /\ IF op \in {"on", "link"} \/ others # {} THEN MayBeHeard({up}) ELSE UNCHANGED <<silenced, sending>>
  /\ UNCHANGED <<contactBy, accounts, switchedOn, configured, preference, forgetting>>

\* The user interface leaves userConfig out when it only switches.
SetDeliveryPreference(c, up, on, config) ==
  /\ up[1] \in accounts /\ (config => contactBy[up[2]] = "user-config")
  /\ ChangePreference(c, up, IF on THEN "on" ELSE "off", config)

UnlinkDeliveryChannel(c, up) ==
  /\ up[1] \in accounts /\ contactBy[up[2]] = "oauth-link"
  /\ ChangePreference(c, up, "unlink", FALSE)

\* A deleted user may still get here. Anything that fails leaves all as it was.
OAuthCallback(c, up) ==
  /\ up[2] \in configured /\ contactBy[up[2]] = "oauth-link"
  /\ ChangePreference(c, up, "link", FALSE)

\* clearOAuthTokens reads the entry, which setUserPreference reads again.
ReadFirst(c) ==
  LET p == preference[changing[c].of] IN
  /\ changing[c].pc = "readFirst"
  /\ changing' = [changing EXCEPT ![c] = IF p.stored THEN [@ EXCEPT !.pc = "read", !.first = p]
                                         ELSE NotChanging]
  /\ UNCHANGED <<contactBy, accounts, switchedOn, configured, preference, sending, forgetting, silenced>>

ReadPreference(c) ==
  /\ changing[c].pc = "read"
  /\ changing' = [changing EXCEPT ![c].pc = "write", ![c].seen = preference[changing[c].of]]
  /\ UNCHANGED <<contactBy, accounts, switchedOn, configured, preference, sending, forgetting, silenced>>

MergedMutant(w) ==
  CASE w.op \in {"on", "off"} -> [w.seen EXCEPT !.enabled = TRUE, !.config = w.config, !.stored = TRUE]
    [] w.op = "link"   -> [w.seen EXCEPT !.enabled = TRUE, !.linked = TRUE, !.stored = TRUE]
    [] w.op = "unlink" -> [w.first EXCEPT !.linked = FALSE, !.config = @ \/ w.seen.config]

\* What is left out of a change stays, but a userConfig that is undefined replaces the
\* one there was.
Merged(w) ==
  CASE w.op \in {"on", "off"} -> [w.seen EXCEPT !.enabled = w.op = "on", !.config = w.config, !.stored = TRUE]
    [] w.op = "link"   -> [w.seen EXCEPT !.enabled = TRUE, !.linked = TRUE, !.stored = TRUE]
    [] w.op = "unlink" -> [w.first EXCEPT !.linked = FALSE, !.config = @ \/ w.seen.config]

WritePreference(c) ==
  LET w == changing[c] IN
  /\ w.pc = "write"
  /\ preference' = [preference EXCEPT ![w.of] = Merged(w)]
  /\ silenced' = IF w.alone /\ w.op \in {"off", "unlink"} THEN silenced \cup {w.of} ELSE silenced
  /\ changing' = [changing EXCEPT ![c] = NotChanging]
  /\ UNCHANGED <<contactBy, accounts, switchedOn, configured, sending, forgetting>>

\* A statement fails, or the instance crashes.
ChangeFails(c) ==
  /\ changing[c].pc # "idle"
  /\ changing' = [changing EXCEPT ![c] = NotChanging]
  /\ UNCHANGED <<contactBy, accounts, switchedOn, configured, preference, sending, forgetting, silenced>>

-----------------------------------------------------------------------------
(* Administrators *)

\* updateDeliveryStrategy: the meta entry, then the config if it is given.
SwitchChannel(ch, on) ==
  /\ switchedOn' = IF on THEN switchedOn \cup {ch} ELSE switchedOn \ {ch}
  /\ sending' = IF on THEN [s \in Senders |-> [sending[s] EXCEPT !.quiet = @ \ (Users \X {ch})]]
                ELSE sending
  /\ UNCHANGED <<contactBy, accounts, configured, preference, changing, forgetting, silenced>>

ConfigureChannel(ch) ==
  /\ configured' = configured \cup {ch}
  /\ UNCHANGED <<contactBy, accounts, switchedOn, preference, changing, sending, forgetting, silenced>>

\* deleteUser, which emits userDeleted. A sender that has read the user goes on.
DeleteUser(u) ==
  /\ u \in accounts /\ accounts' = accounts \ {u} /\ forgetting' = forgetting \cup {u}
  /\ sending' = [s \in Senders |-> IF sending[s].user = u /\ sending[s].pc # "user"
                                   THEN [sending[s] EXCEPT !.quiet = {}] ELSE sending[s]]
  /\ UNCHANGED <<contactBy, switchedOn, configured, preference, changing, silenced>>

\* The job of the hook, which may be run again; deleteUserPreferences deletes one entry
\* after the other.
ForgetPreference(u, ch) ==
  /\ u \in forgetting
  /\ preference' = [preference EXCEPT ![<<u, ch>>] = NoPreference]
  /\ UNCHANGED <<contactBy, accounts, switchedOn, configured, changing, sending, forgetting, silenced>>

ForgetUser(u) ==
  /\ u \in forgetting /\ forgetting' = forgetting \ {u}
  /\ UNCHANGED <<contactBy, accounts, switchedOn, configured, preference, changing, sending, silenced>>

-----------------------------------------------------------------------------
(* sendToExternalChannels *)

SendUnchanged == UNCHANGED <<contactBy, accounts, switchedOn, configured, preference, changing,
                             forgetting, silenced>>

\* notifyUsers or notifyGroups starts it for a user and does not wait for it.
Notify(s, u) ==
  /\ sending[s].pc = "idle"
  /\ sending' = [sending EXCEPT ![s] = [NotSending EXCEPT !.pc = "user", !.user = u,
       !.quiet = {up \in Pairs : up[1] = u /\ (up \in silenced \/ up[2] \notin switchedOn)}]]
  /\ SendUnchanged

ReadUser(s) ==
  /\ sending[s].pc = "user"
  /\ sending' = [sending EXCEPT ![s] =
       IF @.user \in accounts THEN [@ EXCEPT !.pc = "meta", !.todo = Channels] ELSE NotSending]
  /\ SendUnchanged

\* A channel that is switched off is skipped.
ReadMeta(s) ==
  /\ sending[s].pc = "meta"
  /\ \E ch \in sending[s].todo :
       sending' = [sending EXCEPT ![s].todo = @ \ {ch},
                                  ![s].pc = IF ch \in switchedOn THEN "preference" ELSE "meta",
                                  ![s].on = IF ch \in switchedOn THEN ch ELSE "none"]
  /\ SendUnchanged

\* The channel is skipped unless the user has it enabled, as by default, and a contact.
Reached(ch, p) ==
  /\ p.enabled
  /\ contactBy[ch] = "oauth-link" => p.linked
  /\ contactBy[ch] = "user-config" => p.config

CheckPreference(s) ==
  LET ch == sending[s].on IN
  /\ sending[s].pc = "preference"
  /\ sending' = [sending EXCEPT ![s] =
       IF Reached(ch, preference[<<@.user, ch>>]) THEN [@ EXCEPT !.pc = "config"]
       ELSE [@ EXCEPT !.pc = "meta", !.on = "none"]]
  /\ SendUnchanged

\* The config and the layout are read, and the strategy sends.
Send(s) ==
  LET ch == sending[s].on IN
  /\ sending[s].pc = "config"
  /\ sending' = [sending EXCEPT ![s].pc = "meta", ![s].on = "none",
                                ![s].sent = IF ch \in configured THEN @ \cup {ch} ELSE @]
  /\ SendUnchanged

\* A query or send fails: the next channel. Or all are done, or the instance crashes.
SkipChannel(s) ==
  /\ sending[s].pc \in {"preference", "config"}
  /\ sending' = [sending EXCEPT ![s] = [@ EXCEPT !.pc = "meta", !.on = "none"]]
  /\ SendUnchanged

SendingEnds(s) ==
  /\ sending[s].pc # "idle" /\ sending' = [sending EXCEPT ![s] = NotSending]
  /\ SendUnchanged

-----------------------------------------------------------------------------
ChannelsNext ==
  \/ \E c \in Clients :
       \/ \E up \in Pairs : UnlinkDeliveryChannel(c, up) \/ OAuthCallback(c, up)
       \/ \E up \in Pairs, on, config \in BOOLEAN : SetDeliveryPreference(c, up, on, config)
       \/ ReadFirst(c) \/ ReadPreference(c) \/ WritePreference(c) \/ ChangeFails(c)
  \/ \E ch \in Channels : ConfigureChannel(ch) \/ \E on \in BOOLEAN : SwitchChannel(ch, on)
  \/ \E u \in Users : DeleteUser(u) \/ ForgetUser(u) \/ \E ch \in Channels : ForgetPreference(u, ch)
  \/ \E s \in Senders :
       \/ \E u \in Users : Notify(s, u)
       \/ ReadUser(s) \/ ReadMeta(s) \/ CheckPreference(s) \/ Send(s) \/ SkipChannel(s) \/ SendingEnds(s)

ChannelsSpec == ChannelsInit /\ [][ChannelsNext]_channelVars

-----------------------------------------------------------------------------
(* Properties *)

\* Types.
ChannelsTypeOK ==
  /\ accounts \subseteq Users /\ switchedOn \subseteq Channels /\ configured \subseteq Channels
  /\ preference \in [Pairs -> Entry] /\ forgetting \subseteq Users /\ silenced \subseteq Pairs
  /\ \A c \in Clients : changing[c].first \in Entry /\ changing[c].seen \in Entry
  /\ \A s \in Senders : sending[s].todo \subseteq Channels /\ sending[s].sent \subseteq Channels
                        /\ sending[s].quiet \subseteq Pairs

\* core/notification-backend/src/router.ts:144, "skip if user disabled this channel": a
\* notification that begins after a user has switched a channel off or unlinked it, or
\* after an administrator has switched it off, does not go out on it until someone
\* switches it on or links it again; unless two changes of the same preference
\* overlapped, or the user is deleted meanwhile, whose preferences are then gone.
ChannelSilent ==
  \A s \in Senders : \A ch \in sending[s].sent : <<sending[s].user, ch>> \notin sending[s].quiet
=============================================================================
