--------------------------- MODULE ClusterSettings ---------------------------
(***************************************************************************)
(* opensearch_cluster_settings. One entry of a state file lays values over *)
(* the persistent settings of the cluster, which other entries and other   *)
(* clients change too. The handlers never remove a single setting: Create  *)
(* and Update send what the entry sets, Read takes over what the cluster   *)
(* has, and Delete resets all settings or none.                            *)
(***************************************************************************)
CONSTANTS Keys,    \* dynamicClusterSettings
          Values,  \* values of a setting
          Zero,    \* among them 0, false, "" and the empty list
          Unset    \* the setting is not there

ASSUME SettingValuesAssumption == Zero \in Values /\ Unset \notin Values

VARIABLES
  persistent,  \* the persistent settings of the cluster
  declared,    \* the entry of the state file
  spc, sop, s, \* the handler under way
  doubted      \* settings that the entry may be wrong about: changed by
               \* others, or by a handler that did not end well

settingsHandler == <<spc, sop, s>>
settingsVars == <<persistent, declared, settingsHandler, doubted>>

Settings == [Keys -> Values \cup {Unset}]
Nothing  == [k \in Keys |-> Unset]

(* tracked is d.Id() = "settings" against "".                                *)
SettingsData == [tracked : BOOLEAN, tainted : BOOLEAN, reset : BOOLEAN, values : Settings]
NoEntry == [tracked |-> FALSE, tainted |-> FALSE, reset |-> FALSE, values |-> Nothing]

(* Every variable has its type.                                              *)
SettingsTypeOK ==
  /\ persistent \in Settings
  /\ declared \in SettingsData
  /\ spc \in {"idle", "put", "clear", "read", "done"}
  /\ sop \in {"none", "create", "import", "refresh", "update", "delete"}
  /\ s \in SettingsData
  /\ doubted \in SUBSET Keys

SettingsInit ==
  /\ persistent \in Settings
  /\ declared = NoEntry
  /\ spc = "idle" /\ sop = "none" /\ s = NoEntry
  /\ doubted = {}

(* clusterSettingsFromResourceData: GetOk takes a zero value for unset.      *)
Sent(data) == {k \in Keys : data.values[k] \notin {Zero, Unset}}

-----------------------------------------------------------------------------
(* Terraform core *)

SettingsStarts(o, p, data) ==
  /\ spc = "idle"
  /\ spc' = p /\ sop' = o /\ s' = data
  /\ UNCHANGED <<persistent, declared, doubted>>

StartSettingsCreate ==
  /\ ~declared.tracked
  /\ \E values \in Settings, reset \in BOOLEAN :
       SettingsStarts("create", "put", [NoEntry EXCEPT !.values = values, !.reset = reset])

StartSettingsImport ==
  /\ ~declared.tracked
  /\ SettingsStarts("import", "read", [NoEntry EXCEPT !.tracked = TRUE])

StartSettingsRefresh == declared.tracked /\ SettingsStarts("refresh", "read", declared)

StartSettingsUpdate ==
  /\ declared.tracked /\ ~declared.tainted
  /\ \E values \in Settings, reset \in BOOLEAN :
       SettingsStarts("update", "put", [declared EXCEPT !.values = values, !.reset = reset])

(* Mutant of StartSettingsDelete: it always resets.                          *)
StartSettingsClear == declared.tracked /\ SettingsStarts("delete", "clear", declared)

(* Delete asks the entry, not the configuration, whether to reset.           *)
StartSettingsDelete ==
  /\ declared.tracked
  /\ IF declared.reset THEN SettingsStarts("delete", "clear", declared)
     ELSE SettingsStarts("delete", "done", NoEntry)

SettingsIdle == spc' = "idle" /\ sop' = "none" /\ s' = NoEntry

SettingsReturn ==
  /\ spc = "done"
  /\ declared' = s
  /\ doubted' = (IF s.tracked THEN doubted ELSE {})
  /\ SettingsIdle
  /\ UNCHANGED persistent

(* An error: core records what d holds then.                                 *)
SettingsFailed(data) ==
  /\ declared' = IF sop = "update" THEN data
                 ELSE IF sop = "create" /\ data.tracked THEN [data EXCEPT !.tainted = TRUE]
                 ELSE declared
  /\ SettingsIdle

SettingsCrash ==
  /\ spc # "idle"
  /\ doubted' = (IF declared.tracked THEN Keys ELSE {})
  /\ SettingsIdle
  /\ UNCHANGED <<persistent, declared>>

-----------------------------------------------------------------------------
(* The cluster *)

(* PUT _cluster/settings lays what it is sent over the rest.                 *)
Laid == [k \in Keys |-> IF k \in Sent(s) THEN s.values[k] ELSE persistent[k]]

(* Another entry or another client puts or resets settings.                  *)
SettingsElsewhere ==
  /\ persistent' \in Settings \ {persistent}
  /\ doubted' = (IF declared.tracked \/ spc # "idle"
                 THEN doubted \cup {k \in Keys : persistent'[k] # persistent[k]} ELSE {})
  /\ UNCHANGED <<declared, settingsHandler>>

-----------------------------------------------------------------------------
(* The handlers *)

(* resourceOpensearchPutClusterSettings, for Create with SetId.              *)
SettingsPut ==
  /\ spc = "put"
  /\ persistent' = Laid
  /\ doubted' = doubted \ Sent(s)
  /\ s' = [s EXCEPT !.tracked = TRUE]
  /\ spc' = (IF sop = "create" THEN "read" ELSE "done")
  /\ UNCHANGED <<declared, sop>>

(* Its error, whether or not the cluster has done it.                        *)
SettingsPutFails ==
  /\ spc = "put"
  /\ persistent' \in {persistent, Laid}
  /\ SettingsFailed(s)
  /\ doubted' = (IF declared.tracked THEN doubted \cup Sent(s) ELSE {})

(* Mutant of TakenOver: only what d does not have yet is taken over.         *)
TakenOverOnce(data, ks) ==
  [data EXCEPT !.values = [k \in Keys |->
     IF k \in ks /\ persistent[k] # Unset /\ data.values[k] = Unset
     THEN persistent[k] ELSE data.values[k]]]

(* clusterResourceDataFromSettings, as far as it came: a setting that is not *)
(* in the cluster keeps the value it has in d.                               *)
TakenOver(data, ks) ==
  [data EXCEPT !.values = [k \in Keys |->
     IF k \in ks /\ persistent[k] # Unset THEN persistent[k] ELSE data.values[k]]]

SettingsRead ==
  /\ spc = "read"
  /\ s' = TakenOver(s, Keys)
  /\ doubted' = {k \in doubted : persistent[k] = Unset}
  /\ spc' = "done"
  /\ UNCHANGED <<persistent, declared, sop>>

(* The GET fails, or a value of the cluster does not fit its attribute.      *)
SettingsReadFails ==
  /\ spc = "read"
  /\ \E ks \in SUBSET Keys : SettingsFailed(TakenOver(s, ks))
  /\ doubted' = (IF declared'.tracked THEN doubted ELSE {})
  /\ UNCHANGED persistent

(* Mutant of Cleared: a family of settings was left out of the request.      *)
ClearedButOne == \E k \in Keys : persistent' = [Nothing EXCEPT ![k] = persistent[k]]

(* The PUT of clearAllSettings: every dynamicClusterSettings is in one of    *)
(* the families that it resets.                                              *)
Cleared == persistent' = Nothing

(* resourceOpensearchClusterSettingsDelete with reset_settings_on_delete.    *)
SettingsClear ==
  /\ spc = "clear"
  /\ Cleared
  /\ doubted' = {}
  /\ s' = NoEntry /\ spc' = "done"
  /\ UNCHANGED <<declared, sop>>

SettingsClearFails ==
  /\ spc = "clear"
  /\ Cleared \/ UNCHANGED persistent
  /\ SettingsFailed(s)
  /\ doubted' = Keys

-----------------------------------------------------------------------------

SettingsHandler ==
  \/ SettingsPut \/ SettingsPutFails \/ SettingsRead \/ SettingsReadFails
  \/ SettingsClear \/ SettingsClearFails
  \/ SettingsReturn

SettingsCore ==
  \/ StartSettingsCreate \/ StartSettingsImport \/ StartSettingsRefresh
  \/ StartSettingsUpdate \/ StartSettingsDelete
  \/ SettingsCrash

SettingsNext == SettingsHandler \/ SettingsCore \/ SettingsElsewhere

SettingsSpec == SettingsInit /\ [][SettingsNext]_settingsVars

-----------------------------------------------------------------------------
(* Properties *)

(* A value that the entry records is in effect, unless it is zero (which is  *)
(* never sent), or someone else changed the setting, or a handler failed or  *)
(* died over it since. So much a plan may rely on: it compares the           *)
(* configuration with the entry only. A doubt ends when a handler sends the  *)
(* setting or finds it in the cluster, never by finding it gone.             *)
TruthfulEntry ==
  spc = "idle" /\ declared.tracked =>
    \A k \in Keys \ doubted :
      declared.values[k] \in {Zero, Unset, persistent[k]}

(* The settings are one object of the cluster that every entry and every     *)
(* other client shares. A handler changes no setting that its entry does not *)
(* send, to whatever value it has there, also when its request fails and was *)
(* executed; only a destroy that was asked to reset touches the settings of  *)
(* others, and it unsets them.                                               *)
ChangesOnlyItsOwn ==
  [][settingsHandler' # settingsHandler =>
       \A k \in Keys : persistent'[k] # persistent[k] =>
         \/ /\ sop \in {"create", "update"}
            /\ k \in Sent(s) /\ persistent'[k] = s.values[k]
         \/ /\ sop = "delete" /\ declared.tracked /\ declared.reset
            /\ persistent'[k] = Unset]_settingsVars

(* When a destroy of an entry that records reset_settings_on_delete returns, *)
(* no setting is left but those that others set meanwhile.                   *)
ResetClears ==
  [][SettingsReturn /\ sop = "delete" /\ declared.reset
       => \A k \in Keys \ doubted : persistent'[k] = Unset]_settingsVars
=============================================================================
