----------------------------- MODULE MC_Plugin -----------------------------
(* Instances of PolicyMapping, ClusterSettings and ProviderConf for TLC. The *)
(* three share no state: a behaviour takes the steps of one of them.         *)
EXTENDS PolicyMapping, ClusterSettings, ProviderConf

VARIABLE part

(* All identities on one host, and all hosts with two identities.            *)
MCSetups ==
  {x \in Setup : \/ /\ x.sign /\ x.version /\ x.host = "es" /\ x.service = "es" /\ ~x.region
                 \/ ~(x.keys \/ x.assume \/ x.role \/ x.token \/ x.profile \/ x.envKeys)}

Init ==
  /\ MappingInit /\ SettingsInit /\ ConfInit
  /\ part \in {"mapping", "settings", "conf"}
  /\ part # "mapping" => policyOf = [n \in Targets |-> NoPolicy]
  /\ part # "settings" => persistent = Nothing
  /\ part # "conf" => setup = CHOOSE x \in Setups : TRUE

Next ==
  /\ UNCHANGED part
  /\ \/ part = "mapping" /\ MappingNext /\ UNCHANGED <<settingsVars, confVars>>
     \/ part = "settings" /\ SettingsNext /\ UNCHANGED <<mappingVars, confVars>>
     \/ part = "conf" /\ ConfNext /\ UNCHANGED <<mappingVars, settingsVars>>

Spec == Init /\ [][Next]_<<mappingVars, settingsVars, confVars, part>> /\ MappingFair
=============================================================================
