----------------------------- MODULE CoreParts ------------------------------
(***************************************************************************)
(* Components of core/backend and of the signals that share the database at *)
(* most, and no state: each behaviour runs one of them while the others    *)
(* stay as they are initially.                                             *)
(***************************************************************************)
EXTENDS QueueProxy, KeyStore, PluginLifecycle, PluginStartup, SignalRelay

CONSTANT Components  \* those to be run

VARIABLE component   \* the one this behaviour runs

partsVars == <<component, vars, keyVars, lifecycleVars, startupVars, relayVars>>

PartsInit ==
  /\ component \in Components
  /\ Init /\ KeyInit /\ StartupInit /\ RelayInit
  /\ LifecycleInit /\ (component = "plugins" \/ \A i \in Hosts : phase[i] = "down")

RunProxy ==
  /\ component = "proxy"
  /\ UNCHANGED <<component, keyVars, lifecycleVars, startupVars, relayVars>>
  /\ Next

RunKeys ==
  /\ component = "keys"
  /\ UNCHANGED <<component, vars, lifecycleVars, startupVars, relayVars>>
  /\ KeyNext

RunPlugins ==
  /\ component = "plugins"
  /\ UNCHANGED <<component, vars, keyVars, startupVars, relayVars>>
  /\ LifecycleNext

RunStartup ==
  /\ component = "startup"
  /\ UNCHANGED <<component, vars, keyVars, lifecycleVars, relayVars>>
  /\ StartupNext

RunSignals ==
  /\ component = "signals"
  /\ UNCHANGED <<component, vars, keyVars, lifecycleVars, startupVars>>
  /\ RelayNext

PartsNext == RunProxy \/ RunKeys \/ RunPlugins \/ RunStartup \/ RunSignals

PartsSpec == PartsInit /\ [][PartsNext]_partsVars
=============================================================================
