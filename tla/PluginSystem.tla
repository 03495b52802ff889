---------------------------- MODULE PluginSystem ----------------------------
(***************************************************************************)
(* The plugins around the brain as one system: the knowledge pipeline, the *)
(* api-gateway and the channels, as many of them as a deployment runs, all *)
(* through the same bus and the same handlers of the brain.                *)
(***************************************************************************)
EXTENDS Gateway, Channels

SystemInit == GatewayInit /\ ChannelInit

SystemNext ==
  \/ GatewayStep /\ UNCHANGED channelVars
  \/ Next /\ UNCHANGED <<gatewayVars, channelVars>>
  \/ ChannelStep /\ UNCHANGED gatewayVars

(* Every plugin takes its next event and every spawned task runs, except    *)
(* that the content ingester may hang in a call without a timeout.          *)
SystemSpec ==
  /\ SystemInit /\ [][SystemNext]_<<knowledgeVars, gatewayVars, channelVars>>
  /\ WF_knowledgeVars(BoundedPlugin /\ UNCHANGED <<gatewayVars, channelVars>>)
  /\ WF_knowledgeVars(BrainStep /\ UNCHANGED <<gatewayVars, channelVars>>)
  /\ WF_knowledgeVars(RouteStep /\ UNCHANGED gatewayVars)
=============================================================================
