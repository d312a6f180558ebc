---------------------------- MODULE IndexResource ----------------------------
(***************************************************************************)
(* opensearch_index. An index holds documents that somebody else writes,   *)
(* so a destroy counts them before it deletes, by a search, which finds a  *)
(* document only after a refresh of the index: a document that none has    *)
(* shown is, to this code, not there. And an index may be one of a series  *)
(* behind a rollover alias, in which case Read, the settings of Update and *)
(* Delete turn to the series' write index, while d.Id() and the aliases of *)
(* Update stay with the index that Create made.                            *)
(*                                                                         *)
(* The indices of the cluster, one entry of one state file, other clients  *)
(* (writers, index state management, administrators), requests that are    *)
(* refused or executed without an answer, and crashes.                     *)
(***************************************************************************)
CONSTANTS Indices,    \* names of indices
          NoIndex,    \* d.Id() = "", and an alias without a write index
          Settings,   \* values of the dynamic settings
          Unset,      \* the settings are not given
          Aliases,    \* names in the attribute aliases
          Series      \* the rollover alias: a member is its write index

ASSUME IndicesAssumption  == NoIndex \notin Indices
ASSUME SettingsAssumption == Unset \notin Settings
ASSUME AliasesAssumption  == Series \in Aliases

VARIABLES
  indices,     \* the indices of the cluster
  writeIndex,  \* the write index of Series
  managed,     \* the settings of new indices name a rollover_alias (a template)
  config,      \* what the user wants, while a Create or an Update applies it
  state,       \* the entry of the state file
  found,       \* the indices a search finds documents in, during a destroy:
               \* nothing else asks
  pc, op, d,   \* the handler under way
  before,      \* indices a search has found documents in since this destroy began
  writers,     \* the write indices of Series during this operation
  lost,        \* an index this operation asks for was missing meanwhile
  meddled,     \* others changed something during this operation, or a look-up
               \* of it failed
  doubted,     \* the aliases in the entry may not be those of its index
  stale        \* the setting in the entry may not be that of its index

handler == <<pc, op, d>>
history == <<before, writers, lost, meddled, doubted, stale>>
vars    == <<indices, writeIndex, managed, found, config, state, handler, history>>

Values   == Settings \cup {Unset}
Wishes   == [setting : Values, aliases : SUBSET Aliases, rollover : BOOLEAN]
Absent   == [setting |-> Unset, aliases |-> {}, there |-> FALSE]
NoWish   == [setting |-> Unset, aliases |-> {}, rollover |-> FALSE]
NoEntry  == [id |-> NoIndex, setting |-> Unset, aliases |-> {}, rollover |-> FALSE,
             tainted |-> FALSE]
NoData   == [id |-> NoIndex, setting |-> Unset, rollover |-> FALSE,
             target |-> NoIndex, drop |-> {}, add |-> {}, force |-> FALSE]
Exists(n) == indices[n].there
Tracked   == state.id # NoIndex
Present   == {n \in Indices : Exists(n)}

(* d.GetOk(rollover_alias) when the handler was called: configured, or kept  *)
(* from the state file, the attribute being optional and computed.           *)
ByAlias == state.rollover \/ config.rollover

(* The index whose settings the entry of id holds, and Update sends.         *)
SpeaksOf(id) == IF ByAlias /\ writeIndex # NoIndex THEN writeIndex ELSE id

(* Every variable has its type.                                              *)
TypeOK ==
  /\ indices \in [Indices -> [setting : Values, aliases : SUBSET Aliases, there : BOOLEAN]]
  /\ writeIndex \in Indices \cup {NoIndex}
  /\ managed \in BOOLEAN /\ found \subseteq Indices
  /\ config \in Wishes
  /\ state \in [id : Indices \cup {NoIndex}, setting : Values, aliases : SUBSET Aliases,
               rollover : BOOLEAN, tainted : BOOLEAN]
  /\ pc \in {"idle", "create", "aliases", "lookupPut", "put", "lookupRead", "settings",
             "mapping", "lookupCount", "count", "remove", "done"}
  /\ op \in {"none", "create", "refresh", "update", "delete"}
  /\ d \in [id : Indices \cup {NoIndex}, setting : Values, rollover : BOOLEAN,
           target : Indices \cup {NoIndex}, drop : SUBSET Aliases, add : SUBSET Aliases,
           force : BOOLEAN]
  /\ before \subseteq Indices
  /\ writers \subseteq Indices
  /\ lost \in BOOLEAN /\ meddled \in BOOLEAN /\ doubted \in BOOLEAN /\ stale \in BOOLEAN

Init ==
  /\ indices = [n \in Indices |-> Absent]
  /\ writeIndex = NoIndex
  /\ managed \in BOOLEAN /\ found = {}
  /\ config = NoWish
  /\ state = NoEntry
  /\ pc = "idle" /\ op = "none" /\ d = NoData
  /\ before = {} /\ writers = {} /\ lost = FALSE /\ meddled = FALSE
  /\ doubted = FALSE /\ stale = FALSE

-----------------------------------------------------------------------------
(* Terraform core *)

(* Any index may hold documents when a destroy begins.                       *)
Start(o, p, data) ==
  /\ pc = "idle"
  /\ op' = o /\ pc' = p /\ d' = data
  /\ found' \in (IF o = "delete" THEN SUBSET Present ELSE {{}})
  /\ before' = found'
  /\ writers' = (IF o = "delete" THEN {writeIndex} \ {NoIndex} ELSE {})
  /\ lost' = (Tracked /\ ~Exists(state.id))
  /\ meddled' = FALSE
  /\ UNCHANGED <<indices, writeIndex, managed, state, doubted>>

Recorded == [id |-> state.id, setting |-> state.setting, rollover |-> state.rollover,
             target |-> state.id, drop |-> {}, add |-> {}, force |-> FALSE]

StartCreate ==
  /\ ~Tracked
  /\ config' \in Wishes
  /\ Start("create", "create", [NoData EXCEPT !.setting = config'.setting,
                                             !.rollover = config'.rollover])
  /\ UNCHANGED stale

StartRefresh ==
  /\ Tracked
  /\ Start("refresh", IF state.rollover THEN "lookupRead" ELSE "settings", Recorded)
  /\ UNCHANGED <<config, stale>>

(* force_destroy is whatever the last apply recorded; nothing reads it back. *)
StartDelete ==
  /\ Tracked
  /\ \E force \in BOOLEAN :
       Start("delete", IF state.rollover THEN "lookupCount" ELSE "count",
             [Recorded EXCEPT !.force = force])
  /\ UNCHANGED <<config, stale>>

(* d.HasChange and d.GetOk: settings that left the configuration are not sent. *)
Sends(wish) == wish.setting \notin {Unset, state.setting}

(* Mutant of Planned: aliases that left the configuration stay.              *)
PlannedAdds(wish) ==
  [Recorded EXCEPT !.setting = wish.setting, !.rollover = @ \/ wish.rollover,
                   !.add = IF wish.aliases # state.aliases THEN wish.aliases ELSE {}]

(* updateAliases: what the old map has and the new one has not is removed,   *)
(* all of the new map is added.                                              *)
Planned(wish) ==
  LET changes == wish.aliases # state.aliases IN
    [Recorded EXCEPT !.setting = wish.setting, !.rollover = @ \/ wish.rollover,
                     !.drop = IF changes THEN state.aliases \ wish.aliases ELSE {},
                     !.add  = IF changes THEN wish.aliases ELSE {}]

(* Update sends the aliases first, then the settings, and reads last; it may *)
(* be force_destroy alone that changed.                                      *)
Stage(data, sends) ==
  CASE data.drop # {} \/ data.add # {}  -> "aliases"
    [] OTHER -> IF sends THEN IF data.rollover THEN "lookupPut" ELSE "put"
                         ELSE IF data.rollover THEN "lookupRead" ELSE "settings"

StartUpdate ==
  /\ Tracked /\ ~state.tainted
  /\ config' \in Wishes
  /\ Start("update", Stage(Planned(config'), Sends(config')), Planned(config'))
  /\ stale' = (stale \/ (config'.rollover /\ ~state.rollover))

Idle ==
  /\ pc' = "idle" /\ op' = "none" /\ d' = NoData /\ config' = NoWish /\ found' = {}
  /\ before' = {} /\ writers' = {} /\ lost' = FALSE /\ meddled' = FALSE

(* A handler that nobody disturbed has read the setting if the index has it, *)
(* and keeps what d says if not; it may have learned the rollover alias, and *)
(* the entry speaks of the write index from then on.                         *)
Astray ==
  \/ meddled
  \/ stale /\ indices[SpeaksOf(d.id)].setting = Unset
  \/ d.rollover /\ ~ByAlias /\ writeIndex \notin {NoIndex, d.id}

(* What core saves: aliases are never read back.                             *)
Entry(tainted) ==
  [id |-> d.id, setting |-> d.setting, rollover |-> d.rollover, tainted |-> tainted,
   aliases |-> IF op = "refresh" THEN state.aliases ELSE config.aliases]

Return ==
  /\ pc = "done"
  /\ state' = IF d.id = NoIndex THEN NoEntry ELSE Entry(op = "refresh" /\ state.tainted)
  /\ doubted' = (doubted /\ d.id # NoIndex)
  /\ stale' = (d.id # NoIndex /\ Astray)
  /\ Idle
  /\ UNCHANGED <<indices, writeIndex, managed>>

(* An error. After one in Update core saves what was planned, aliases that   *)
(* were never sent too: no later Update sees a change. A Create that failed  *)
(* after d.SetId leaves a tainted entry.                                     *)
Failed ==
  /\ state' = IF op \in {"create", "update"} /\ d.id # NoIndex THEN Entry(op = "create")
                                                              ELSE state
  /\ doubted' = (doubted \/ (op = "update" /\ pc = "aliases"))
  /\ stale' = (stale \/ op \in {"create", "update"} \/ pc = "remove")
  /\ Idle

Crash ==
  /\ pc # "idle"
  /\ doubted' = (doubted \/ op = "update")
  /\ stale' = (stale \/ op = "update" \/ (op = "delete" /\ pc = "done"))
  /\ Idle
  /\ UNCHANGED <<indices, writeIndex, managed, state>>

-----------------------------------------------------------------------------
(* The cluster and its other clients *)

Mine(n)   == n \in {state.id, d.id}
Meddle    == /\ meddled' = (meddled \/ op \in {"create", "refresh", "update"})
             /\ stale' = (stale \/ Tracked \/ op # "none")
Watch     == writers' = writers \cup (IF op = "delete" THEN {writeIndex'} \ {NoIndex}
                                                    ELSE {})
Missed(n) == lost' = (lost \/ (op # "none" /\ n \in {state.id, d.id, d.target}))

(* A refresh shows searches documents that others indexed into n before it:  *)
(* after refresh_interval, or never where that is -1.                        *)
Refreshed(n) ==
  /\ op = "delete" /\ Exists(n) /\ n \notin found
  /\ found' = found \cup {n}
  /\ UNCHANGED <<indices, writeIndex, managed, config, state, handler, history>>

EmptiedElsewhere(n) ==
  /\ n \in found
  /\ found' = found \ {n} /\ before' = before \ {n}
  /\ UNCHANGED <<indices, writeIndex, managed, config, state, handler,
                 writers, lost, meddled, doubted, stale>>

(* Index state management rolls the series over to a new index.              *)
RolledOver(n) ==
  /\ managed /\ writeIndex # NoIndex /\ ~Exists(n)
  /\ \E v \in Values :
       indices' = [indices EXCEPT ![n] = [setting |-> v, aliases |-> {Series}, there |-> TRUE]]
  /\ writeIndex' = n
  /\ doubted' = (doubted \/ Mine(n))
  /\ Watch /\ Meddle
  /\ UNCHANGED <<managed, found, config, state, handler, before, lost>>

RemovedElsewhere(n) ==
  /\ Exists(n)
  /\ indices' = [indices EXCEPT ![n] = Absent]
  /\ writeIndex' = (IF writeIndex = n THEN NoIndex ELSE writeIndex)
  /\ found' = found \ {n} /\ before' = before \ {n}
  /\ doubted' = (doubted \/ Mine(n))
  /\ Missed(n) /\ Meddle
  /\ UNCHANGED <<managed, config, state, handler, writers>>

SettingElsewhere(n) ==
  /\ Exists(n)
  /\ \E v \in Values \ {indices[n].setting} : indices' = [indices EXCEPT ![n].setting = v]
  /\ Meddle
  /\ UNCHANGED <<writeIndex, managed, found, config, state, handler,
                 before, writers, lost, doubted>>

(* Another client takes an alias of n away, Series with its write index, or  *)
(* gives one to the index of the entry.                                      *)
AliasElsewhere(n, a) ==
  /\ Exists(n)
  /\ \/ /\ a \in indices[n].aliases
        /\ indices' = [indices EXCEPT ![n].aliases = @ \ {a}]
        /\ writeIndex' = (IF a = Series /\ writeIndex = n THEN NoIndex ELSE writeIndex)
     \/ /\ a \notin indices[n].aliases /\ a # Series /\ Mine(n)
        /\ indices' = [indices EXCEPT ![n].aliases = @ \cup {a}]
        /\ UNCHANGED writeIndex
  /\ doubted' = (doubted \/ Mine(n))
  /\ Meddle
  /\ UNCHANGED <<managed, found, config, state, handler, before, writers, lost>>

(* An alias may have one write index.                                        *)
MayWrite(a, n) == a = Series => writeIndex \in {NoIndex, n}
WritesTo(a, n) == IF a = Series THEN n ELSE writeIndex

-----------------------------------------------------------------------------
(* Create *)

(* PUT /<name>: the server resolves date math, d.SetId takes its answer.     *)
Built(n) ==
  /\ ~Exists(n) /\ (Series \in config.aliases => MayWrite(Series, n))
  /\ indices' = [indices EXCEPT ![n] = [setting |-> d.setting, aliases |-> config.aliases,
                                        there |-> TRUE]]
  /\ writeIndex' = IF Series \in config.aliases THEN n ELSE writeIndex

Created(n) ==
  /\ pc = "create"
  /\ Built(n)
  /\ d' = [d EXCEPT !.id = n, !.target = n]
  /\ pc' = IF d.rollover THEN "lookupRead" ELSE "settings"
  /\ stale' = (d.rollover /\ writeIndex' \notin {NoIndex, n})
  /\ Watch
  /\ UNCHANGED <<managed, found, config, state, op, before, lost, meddled, doubted>>

(* The answer is lost: nobody records the index.                             *)
CreateUnanswered(n) ==
  /\ pc = "create"
  /\ Built(n)
  /\ Failed
  /\ UNCHANGED managed

CreateFails ==
  /\ pc = "create"
  /\ Failed
  /\ UNCHANGED <<indices, writeIndex, managed>>

-----------------------------------------------------------------------------
(* getWriteIndexByAlias *)

AfterLookup ==
  CASE pc = "lookupPut" -> "put" [] pc = "lookupRead" -> "settings" [] OTHER -> "count"

(* Mutant of LookedUp: the alias is returned, not its index.                 *)
LookedUpAlias ==
  /\ pc \in {"lookupPut", "lookupRead", "lookupCount"}
  /\ d' = [d EXCEPT !.target = Series]
  /\ pc' = AfterLookup
  /\ UNCHANGED <<indices, writeIndex, managed, found, config, state, op, history>>

(* Mutants of Chosen: the first index of the series will do, and d.Id() will. *)
ChosenAny(n) == Series \in indices[n].aliases
ChosenOwn(n) == n = d.id

(* GET _cat/aliases: the index that writes, or d.Id() when there is none.    *)
Chosen(n) == n = (IF writeIndex = NoIndex THEN d.id ELSE writeIndex)

LookedUp ==
  /\ pc \in {"lookupPut", "lookupRead", "lookupCount"}
  /\ \E n \in Indices : Chosen(n) /\ d' = [d EXCEPT !.target = n]
  /\ pc' = AfterLookup
  /\ UNCHANGED <<indices, writeIndex, managed, found, config, state, op, history>>

(* Any error is logged, and d.Id() it is.                                    *)
LookupFails ==
  /\ pc \in {"lookupPut", "lookupRead", "lookupCount"}
  /\ d' = [d EXCEPT !.target = d.id]
  /\ pc' = AfterLookup
  /\ meddled' = TRUE
  /\ UNCHANGED <<indices, writeIndex, managed, found, config, state, op,
                 before, writers, lost, doubted, stale>>

-----------------------------------------------------------------------------
(* Read: GET _settings, then GET _mapping *)

(* Settings the index does not have leave d as it is; an alias that its      *)
(* settings name is kept in rollover_alias.                                  *)
SettingsRead ==
  /\ pc = "settings" /\ Exists(d.target)
  /\ d' = [d EXCEPT !.setting = IF indices[d.target].setting = Unset
                                THEN @ ELSE indices[d.target].setting,
                    !.rollover = @ \/ managed]
  /\ pc' = "mapping"
  /\ UNCHANGED <<indices, writeIndex, managed, found, config, state, op, history>>

SettingsMissing ==
  /\ pc = "settings" /\ ~Exists(d.target)
  /\ d' = NoData /\ pc' = "done"
  /\ UNCHANGED <<indices, writeIndex, managed, found, config, state, op, history>>

MappingRead ==
  /\ pc = "mapping" /\ Exists(d.target)
  /\ pc' = "done"
  /\ UNCHANGED <<indices, writeIndex, managed, found, config, state, op, d, history>>

(* Mutant of ReadFails: any error counts as a 404.                           *)
ReadFailsForgets ==
  /\ pc \in {"settings", "mapping"}
  /\ d' = NoData /\ pc' = "done"
  /\ UNCHANGED <<indices, writeIndex, managed, found, config, state, op, history>>

(* No answer, another status, or a 404 of the second request.                *)
ReadFails ==
  /\ pc \in {"settings", "mapping"}
  /\ Failed
  /\ UNCHANGED <<indices, writeIndex, managed>>

-----------------------------------------------------------------------------
(* Update *)

(* updateAliases: DELETE what the new map does not have, one by one.         *)
AliasDropped(a) ==
  /\ pc = "aliases" /\ a \in d.drop
  /\ Exists(d.id) /\ a \in indices[d.id].aliases
  /\ indices' = [indices EXCEPT ![d.id].aliases = @ \ {a}]
  /\ writeIndex' = (IF a = Series /\ writeIndex = d.id THEN NoIndex ELSE writeIndex)
  /\ d' = [d EXCEPT !.drop = @ \ {a}]
  /\ pc' = Stage(d', Sends(config))
  /\ UNCHANGED <<managed, found, config, state, op, history>>

(* Then PUT all of the new map, also what was there before.                  *)
AliasAdded(a) ==
  /\ pc = "aliases" /\ d.drop = {} /\ a \in d.add
  /\ Exists(d.id) /\ MayWrite(a, d.id)
  /\ indices' = [indices EXCEPT ![d.id].aliases = @ \cup {a}]
  /\ writeIndex' = WritesTo(a, d.id)
  /\ d' = [d EXCEPT !.add = @ \ {a}]
  /\ pc' = Stage(d', Sends(config))
  /\ Watch
  /\ UNCHANGED <<managed, found, config, state, op, before, lost, meddled, doubted, stale>>

(* The first error ends it: the rest is never sent. The failed request may   *)
(* have been executed.                                                       *)
AliasFails ==
  /\ pc = "aliases"
  /\ \/ UNCHANGED <<indices, writeIndex>>
     \/ \E a \in d.drop \cap indices[d.id].aliases :
          /\ indices' = [indices EXCEPT ![d.id].aliases = @ \ {a}]
          /\ writeIndex' = (IF a = Series /\ writeIndex = d.id THEN NoIndex ELSE writeIndex)
     \/ \E a \in d.add :
          /\ d.drop = {} /\ Exists(d.id) /\ MayWrite(a, d.id)
          /\ indices' = [indices EXCEPT ![d.id].aliases = @ \cup {a}]
          /\ writeIndex' = WritesTo(a, d.id)
  /\ Failed
  /\ UNCHANGED managed

(* PUT _settings of the target.                                              *)
SettingsPut ==
  /\ pc = "put" /\ Exists(d.target)
  /\ indices' = [indices EXCEPT ![d.target].setting = d.setting]
  /\ pc' = IF d.rollover THEN "lookupRead" ELSE "settings"
  /\ d' = [d EXCEPT !.target = d.id]
  /\ stale' = meddled
  /\ UNCHANGED <<writeIndex, managed, found, config, state, op,
                 before, writers, lost, meddled, doubted>>

PutFails ==
  /\ pc = "put"
  /\ \/ UNCHANGED indices
     \/ /\ Exists(d.target)
        /\ indices' = [indices EXCEPT ![d.target].setting = d.setting]
  /\ Failed
  /\ UNCHANGED <<writeIndex, managed>>

-----------------------------------------------------------------------------
(* Delete *)

(* Mutant of Counted: the index of the entry is counted, whatever the target. *)
CountsEntry ==
  /\ pc = "count" /\ Exists(d.id)
  /\ d.id \in found => d.force
  /\ pc' = "remove"
  /\ UNCHANGED <<indices, writeIndex, managed, found, config, state, op, d, history>>

(* allowIndexDestroy, with the force_destroy of the entry: _count sees what  *)
(* a search finds.                                                           *)
Counted ==
  /\ pc = "count" /\ Exists(d.target)
  /\ d.target \in found => d.force
  /\ pc' = "remove"
  /\ UNCHANGED <<indices, writeIndex, managed, found, config, state, op, d, history>>

(* Documents, counted exactly or still found although they are deleted, or a *)
(* count that fails: the destroy is an error.                                *)
Refused ==
  /\ pc = "count"
  /\ Failed
  /\ UNCHANGED <<indices, writeIndex, managed>>

Deleted ==
  /\ Exists(d.target)
  /\ indices' = [indices EXCEPT ![d.target] = Absent]
  /\ writeIndex' = (IF writeIndex = d.target THEN NoIndex ELSE writeIndex)

Removed ==
  /\ pc = "remove"
  /\ Deleted
  /\ d' = NoData /\ pc' = "done"
  /\ found' = found \ {d.target} /\ lost' = TRUE
  /\ UNCHANGED <<managed, config, state, op, before, writers, meddled, doubted, stale>>

RemoveFails ==
  /\ pc = "remove"
  /\ Deleted \/ UNCHANGED <<indices, writeIndex>>
  /\ Failed
  /\ UNCHANGED managed

-----------------------------------------------------------------------------

Handler ==
  \/ \E n \in Indices : Created(n) \/ CreateUnanswered(n)
  \/ CreateFails
  \/ LookedUp \/ LookupFails
  \/ SettingsRead \/ SettingsMissing \/ MappingRead \/ ReadFails
  \/ \E a \in Aliases : AliasDropped(a) \/ AliasAdded(a)
  \/ AliasFails \/ SettingsPut \/ PutFails
  \/ Counted \/ Refused \/ Removed \/ RemoveFails

Core ==
  \/ StartCreate \/ StartRefresh \/ StartUpdate \/ StartDelete
  \/ Return \/ Crash

Elsewhere ==
  \E n \in Indices :
    \/ Refreshed(n) \/ EmptiedElsewhere(n)
    \/ RolledOver(n) \/ RemovedElsewhere(n) \/ SettingElsewhere(n)
    \/ \E a \in Aliases : AliasElsewhere(n, a)

Next == Handler \/ Core \/ Elsewhere

Spec == Init /\ [][Next]_vars

-----------------------------------------------------------------------------
(* Properties *)

Destroying == pc = "remove" /\ pc' # "remove"

(* Without force_destroy, an index stays in which a search could find        *)
(* documents when a destroy began, unless others emptied it since, whichever *)
(* index the destroy turned to: allowIndexDestroy counts the index that      *)
(* DELETE names. Documents no refresh has made visible, and those written    *)
(* after the count, are deleted.                                             *)
DestroySparesDocuments ==
  [][Destroying /\ ~d.force => \A n \in before : indices'[n].there]_vars

(* A destroy deletes no index but that of the entry and those that were the   *)
(* write index of the series while it ran: never an older member, which      *)
(* still answers for the alias.                                              *)
DestroysOnlyItsOwn ==
  [][Destroying => \A n \in Indices :
       Exists(n) /\ ~indices'[n].there => n \in writers \cup {state.id}]_vars

(* An entry is dropped only when an index that its handler asked for was      *)
(* missing during the operation, or was deleted by it: no other error makes  *)
(* Read forget it.                                                           *)
ForgetsOnlyGone ==
  [][Tracked /\ state'.id = NoIndex => lost]_vars

(* Between operations the recorded setting is that of the index, with a      *)
(* rollover alias of the series' write index: Create, Update and Read look   *)
(* the same index up, through any refreshes, updates, destroys that were     *)
(* refused and failed refreshes. Not once others changed an index or rolled  *)
(* the series over, a look-up, a Create, an Update or a DELETE failed or     *)
(* died, or the rollover alias was newly given, until the answer to a PUT of *)
(* the settings or a Read that finds the setting: Read keeps the recorded    *)
(* value where the index has none, and no later Update sees a change.        *)
SettingsAsRecorded ==
  pc = "idle" /\ Tracked /\ ~stale
    => state.setting = indices[SpeaksOf(state.id)].setting

(* Between operations the index of an entry has the recorded aliases, and no *)
(* other, unless others changed them or an Update failed among its alias     *)
(* requests: an Update that fails later, at the settings, has sent them all. *)
AliasesAsRecorded ==
  pc = "idle" /\ Tracked /\ Exists(state.id) /\ ~doubted
    => indices[state.id].aliases = state.aliases
=============================================================================
