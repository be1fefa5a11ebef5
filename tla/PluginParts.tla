---------------------------- MODULE PluginParts -----------------------------
(***************************************************************************)
(* Components of the plugins that share no state: each behaviour runs one of *)
(* them while the others stay as they are initially.                       *)
(***************************************************************************)
EXTENDS TeamAccess, ConnectionStore, NotificationChannels, CollectorFigures

CONSTANT Components  \* those to be run

VARIABLE component   \* the one this behaviour runs

partsVars == <<component, teamVars, connectionVars, channelVars, figuresVars>>

PartsInit ==
  /\ component \in Components
  /\ TeamInit /\ ConnectionsInit /\ FiguresInit
  /\ ChannelsInit /\ (component = "channels" \/ \A ch \in Channels : contactBy[ch] = "auth-email")

RunTeams ==
  /\ component = "teams"
  /\ UNCHANGED <<component, connectionVars, channelVars, figuresVars>>
  /\ TeamNext

RunConnections ==
  /\ component = "connections"
  /\ UNCHANGED <<component, teamVars, channelVars, figuresVars>>
  /\ ConnectionsNext

RunChannels ==
  /\ component = "channels"
  /\ UNCHANGED <<component, teamVars, connectionVars, figuresVars>>
  /\ ChannelsNext

RunFigures ==
  /\ component = "figures"
  /\ UNCHANGED <<component, teamVars, connectionVars, channelVars>>
  /\ FiguresNext

PartsNext == RunTeams \/ RunConnections \/ RunChannels \/ RunFigures

PartsSpec == PartsInit /\ [][PartsNext]_partsVars
=============================================================================
