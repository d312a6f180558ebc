------------------------- MODULE IndexResourceProofs -------------------------
(***************************************************************************)
(* Proofs about IndexResource, for every set of indices, settings and      *)
(* aliases.                                                                *)
(*                                                                         *)
(* The properties speak of the end of an operation; the invariant says     *)
(* what holds on the way there: which aliases an Update has still to drop  *)
(* and to add (SentAliases), that the documents a destroy found are in the *)
(* cluster until the DELETE (Spared), that its target was the write index  *)
(* at some moment of it (Own), that an index that is missing was seen      *)
(* missing (Sighted), and whose setting d and the entry hold (Settled).    *)
(***************************************************************************)
EXTENDS IndexResource, Naturals, TLAPS

IndexTypes == [setting : Values, aliases : SUBSET Aliases, there : BOOLEAN]
DataTypes  == [id : Indices \cup {NoIndex}, setting : Values, rollover : BOOLEAN,
               target : Indices \cup {NoIndex}, drop : SUBSET Aliases,
               add : SUBSET Aliases, force : BOOLEAN]

(* Which operation is at which step, and what it holds there. *)
Control ==
  /\ pc = "idle" <=> op = "none"
  /\ pc = "create" => op = "create" /\ d.id = NoIndex
  /\ pc \in {"settings", "mapping"} => op \in {"create", "refresh", "update"}
  /\ pc = "lookupRead" => op \in {"create", "refresh", "update"}
  /\ pc \in {"aliases", "lookupPut", "put"} => op = "update"
  /\ pc \in {"lookupCount", "count", "remove"} => op = "delete"
  /\ pc \notin {"idle", "create", "done"} => d.id \in Indices /\ d.target \in Indices
  /\ state.id = NoIndex => state = NoEntry
  /\ op \notin {"create", "update"} => config = NoWish
  /\ op = "create" => ~Tracked
  /\ op \in {"refresh", "update", "delete"} => Tracked /\ d.id \in {NoIndex, state.id}
  /\ op = "delete" /\ pc = "done" => d.id = NoIndex
  /\ pc = "aliases" => d.target = d.id
  /\ pc \notin {"idle", "mapping", "done"} => d.rollover = ByAlias
  /\ pc \in {"mapping", "done"} /\ d.id # NoIndex /\ ByAlias => d.rollover
  /\ pc \in {"lookupPut", "lookupRead", "lookupCount"} => d.rollover
  /\ pc # "idle" /\ ~ByAlias /\ d.id # NoIndex => d.target = d.id
  /\ d.drop # {} \/ d.add # {} => pc = "aliases"

(* Only an index that exists is found to hold documents, or is a write index. *)
Cluster ==
  /\ \A n \in found : Exists(n)
  /\ writeIndex # NoIndex => Exists(writeIndex)

(* What an Update has still to drop and to add is what the index lacks. *)
SentAliases ==
  /\ op \in {"none", "refresh", "delete"} /\ Tracked /\ Exists(state.id) /\ ~doubted
       => indices[state.id].aliases = state.aliases
  /\ op = "update" /\ d.id # NoIndex /\ Exists(d.id) /\ ~doubted
       => indices[d.id].aliases = d.drop \cup (state.aliases \cap config.aliases)
                                         \cup (config.aliases \ d.add)
  /\ op = "create" /\ d.id # NoIndex /\ Exists(d.id) /\ ~doubted
       => indices[d.id].aliases = config.aliases
  /\ op = "update" => d.drop \subseteq state.aliases \ config.aliases
                      /\ d.add \subseteq config.aliases

(* What a destroy found documents in still has them, and it will not delete it. *)
Spared ==
  /\ op # "delete" => before = {}
  /\ pc # "done" => before \subseteq found
  /\ pc = "remove" /\ ~d.force => d.target \notin before

(* A write index, and the target of a destroy, was seen as one. *)
Own ==
  /\ op = "delete" => writeIndex \in writers \cup {NoIndex}
  /\ pc \in {"count", "remove"} => d.target \in writers \cup {state.id}

(* An index that is missing, or an entry that is dropped, was seen missing. *)
Sighted ==
  /\ \A n \in Indices :
       op # "none" /\ n \in {state.id, d.id, d.target} /\ ~Exists(n) => lost
  /\ pc = "done" /\ d.id = NoIndex => lost

(* The setting of the entry is that of its index while no Update is at work. *)
(* PUT and Read ask the index that the settings belong to; where that has    *)
(* none, Read keeps what d holds, which is then none too, unless the entry   *)
(* is stale.                                                                 *)
Settled ==
  /\ op \in {"none", "refresh", "delete"} /\ ~(op = "delete" /\ pc = "done")
     /\ Tracked /\ ~stale
       => state.setting = indices[SpeaksOf(state.id)].setting
  /\ pc \in {"put", "settings"} /\ ~meddled => d.target = SpeaksOf(d.id)
  /\ pc \in {"lookupRead", "settings"} \/ (pc = "aliases" /\ ~Sends(config))
       => (~meddled /\ ~stale /\ indices[SpeaksOf(d.id)].setting = Unset
             => d.setting = Unset)
  /\ pc \in {"mapping", "done"} /\ d.id # NoIndex /\ ~meddled
     /\ (~stale \/ indices[SpeaksOf(d.id)].setting # Unset)
       => d.setting = indices[SpeaksOf(d.id)].setting

IInv == TypeOK /\ Control /\ Cluster /\ SentAliases /\ Spared /\ Own /\ Sighted /\ Settled

-----------------------------------------------------------------------------
(* Constants and initial states *)

(* The empty entry and the empty data name no index. *)
LEMMA Empty ==
  /\ NoEntry.id = NoIndex /\ NoEntry.aliases = {} /\ NoEntry.rollover = FALSE
  /\ NoEntry.setting = Unset /\ NoEntry.tainted = FALSE
  /\ NoData.id = NoIndex /\ NoData.target = NoIndex
  /\ NoData.drop = {} /\ NoData.add = {}
  /\ NoData.setting = Unset /\ NoData.rollover = FALSE /\ NoData.force = FALSE
  /\ Absent.there = FALSE /\ Absent.aliases = {}
  /\ Absent.setting = Unset
  /\ NoWish.rollover = FALSE
  BY DEF NoEntry, NoData, Absent, NoWish

(* The empty records have their types. *)
LEMMA EmptyTyped ==
  /\ NoEntry \in [id : Indices \cup {NoIndex}, setting : Values, aliases : SUBSET Aliases,
                  rollover : BOOLEAN, tainted : BOOLEAN]
  /\ NoData \in [id : Indices \cup {NoIndex}, setting : Values, rollover : BOOLEAN,
                 target : Indices \cup {NoIndex}, drop : SUBSET Aliases,
                 add : SUBSET Aliases, force : BOOLEAN]
  /\ Absent \in [setting : Values, aliases : SUBSET Aliases, there : BOOLEAN]
  /\ NoWish \in Wishes
  BY DEF NoEntry, NoData, Absent, NoWish, Values, Wishes

(* The initial states satisfy the invariant. *)
LEMMA Initially == Init => IInv
<1> SUFFICES ASSUME Init PROVE IInv
  OBVIOUS
<1> USE Empty, EmptyTyped, IndicesAssumption
<1>1. TypeOK
  BY DEF Init, TypeOK
<1>2. ~Tracked
  BY DEF Init, Tracked
<1>3. QED
  BY <1>1, <1>2 DEF Init, IInv, Control, Cluster, SentAliases, Spared, Own, Sighted, Settled,
     Exists, SpeaksOf, ByAlias, Sends

(* What core writes after an error is an entry: the planned one of an Update *)
(* and of a Create that has an ID, otherwise the one it had.                 *)
LEMMA FailedTyped ==
  ASSUME IInv, pc # "idle", Failed
  PROVE  /\ state' \in [id : Indices \cup {NoIndex}, setting : Values,
                        aliases : SUBSET Aliases, rollover : BOOLEAN, tainted : BOOLEAN]
         /\ pc' = "idle" /\ op' = "none" /\ d' = NoData /\ config' = NoWish /\ found' = {}
         /\ before' = {} /\ writers' = {} /\ lost' = FALSE /\ meddled' = FALSE
         /\ doubted' = (doubted \/ (op = "update" /\ pc = "aliases"))
         /\ doubted' \in BOOLEAN /\ stale' \in BOOLEAN
         /\ stale' = (stale \/ op \in {"create", "update"} \/ pc = "remove")
         /\ op \in {"create", "update"} /\ d.id # NoIndex
              => state'.id = d.id /\ state'.aliases = config.aliases
         /\ ~(op \in {"create", "update"} /\ d.id # NoIndex) => state' = state
<1>1. CASE op \in {"create", "update"} /\ d.id # NoIndex
  BY <1>1 DEF Failed, Idle, Entry, IInv, TypeOK, Wishes
<1>2. CASE ~(op \in {"create", "update"} /\ d.id # NoIndex)
  BY <1>2 DEF Failed, Idle, IInv, TypeOK
<1>3. QED
  BY <1>1, <1>2

(* Once its aliases are sent, an operation has made them the planned ones.   *)
LEMMA AllSent ==
  ASSUME IInv, op \in {"create", "update"}, pc # "aliases", d.id # NoIndex,
         Exists(d.id), ~doubted
  PROVE  indices[d.id].aliases = config.aliases
<1>1. d.drop = {} /\ d.add = {}
  BY DEF IInv, Control
<1>2. CASE op = "update"
  <2>1. indices[d.id].aliases = (state.aliases \cap config.aliases) \cup config.aliases
    BY <1>1, <1>2 DEF IInv, SentAliases
  <2>2. QED
    BY <2>1
<1>3. QED
  BY <1>2 DEF IInv, SentAliases

(* Changing one field of an index leaves it an index. *)
LEMMA Altered ==
  ASSUME TypeOK, NEW n \in Indices
  PROVE  /\ \A v \in Values :
              [indices EXCEPT ![n].setting = v] \in [Indices -> IndexTypes]
         /\ \A s \in SUBSET Aliases :
              [indices EXCEPT ![n].aliases = s] \in [Indices -> IndexTypes]
<1>1. indices \in [Indices -> IndexTypes] /\ indices[n] \in IndexTypes
  BY DEF TypeOK, IndexTypes
<1>2. \A v \in Values : [indices[n] EXCEPT !.setting = v] \in IndexTypes
  BY <1>1 DEF IndexTypes
<1>3. \A s \in SUBSET Aliases : [indices[n] EXCEPT !.aliases = s] \in IndexTypes
  BY <1>1 DEF IndexTypes
<1>4. QED
  BY <1>1, <1>2, <1>3

-----------------------------------------------------------------------------
(* Every step preserves the invariant *)

(* A Create starts. *)
LEMMA StartCreateStep == ASSUME IInv, StartCreate PROVE IInv'
<1> USE Empty, EmptyTyped, IndicesAssumption, AliasesAssumption
    DEF IInv, TypeOK, handler, history
<1>1. TypeOK'
  BY DEF StartCreate, Start, Wishes
<1>2. Control'
  BY DEF StartCreate, Start, Control, Tracked, ByAlias, Wishes
<1>3. Cluster'
  BY DEF StartCreate, Start, Control, Cluster, Exists
<1>4. SentAliases'
  BY DEF StartCreate, Start, Control, SentAliases, Tracked, Exists
<1>5. Spared'
  BY DEF StartCreate, Start, Control, Cluster, Spared, Present, Exists
<1>6. Own'
  BY DEF StartCreate, Start, Control, Own, Tracked
<1>7. Sighted'
  BY DEF StartCreate, Start, Control, Cluster, Sighted, Tracked, Exists
<1>8. Settled'
  BY DEF StartCreate, Start, Control, Settled, SpeaksOf, ByAlias, Sends, Tracked
<1>9. QED
  BY <1>1, <1>2, <1>3, <1>4, <1>5, <1>6, <1>7, <1>8

(* A refresh starts. *)
LEMMA StartRefreshStep == ASSUME IInv, StartRefresh PROVE IInv'
<1> USE Empty, EmptyTyped, IndicesAssumption, AliasesAssumption
    DEF IInv, TypeOK, handler, history
<1>1. TypeOK'
  BY DEF StartRefresh, Start, Recorded, Wishes
<1>2. Control'
  BY DEF StartRefresh, Start, Recorded, Control, Tracked, ByAlias
<1>3. Cluster'
  BY DEF StartRefresh, Start, Recorded, Control, Cluster, Exists
<1>4. SentAliases'
  BY DEF StartRefresh, Start, Recorded, Control, SentAliases, Tracked, Exists
<1>5. Spared'
  BY DEF StartRefresh, Start, Recorded, Control, Cluster, Spared, Present, Exists
<1>6. Own'
  BY DEF StartRefresh, Start, Recorded, Control, Own, Tracked
<1>7. Sighted'
  BY DEF StartRefresh, Start, Recorded, Control, Cluster, Sighted, Tracked, Exists
<1>8. Settled'
  BY DEF StartRefresh, Start, Recorded, Control, Settled, SpeaksOf, ByAlias, Sends, Tracked
<1>9. QED
  BY <1>1, <1>2, <1>3, <1>4, <1>5, <1>6, <1>7, <1>8

(* An Update starts. *)
LEMMA StartUpdateStep == ASSUME IInv, StartUpdate PROVE IInv'
<1> USE Empty, EmptyTyped, IndicesAssumption, AliasesAssumption
    DEF IInv, TypeOK, handler, history
<1>1. TypeOK'
  <2>1. d' \in DataTypes
    <3> DEFINE drop == IF config'.aliases # state.aliases
                       THEN state.aliases \ config'.aliases ELSE {}
               add  == IF config'.aliases # state.aliases THEN config'.aliases ELSE {}
    <3>1. Recorded \in DataTypes
      BY DEF Recorded, DataTypes
    <3>2. config'.setting \in Values /\ config'.rollover \in BOOLEAN
          /\ drop \in SUBSET Aliases /\ add \in SUBSET Aliases
      BY DEF StartUpdate, Wishes
    <3>3. d' = [Recorded EXCEPT !.setting = config'.setting,
                                !.rollover = @ \/ config'.rollover,
                                !.drop = drop, !.add = add]
      BY DEF StartUpdate, Start, Planned
    <3> HIDE DEF drop, add
    <3>4. QED
      BY <3>1, <3>2, <3>3 DEF DataTypes
  <2>2. stale' \in BOOLEAN /\ lost' \in BOOLEAN
    BY DEF StartUpdate, Start
  <2>3. QED
    BY <2>1, <2>2 DEF StartUpdate, Start, Stage, Planned, Recorded, DataTypes
<1>2. Control'
  BY DEF StartUpdate, Start, Planned, Recorded, Stage, Control, Tracked, ByAlias
<1>3. Cluster'
  BY DEF StartUpdate, Start, Planned, Recorded, Stage, Control, Cluster, Exists
<1>4. SentAliases'
  BY DEF StartUpdate, Start, Planned, Recorded, Stage, Control, SentAliases, Tracked,
     Exists
<1>5. Spared'
  BY DEF StartUpdate, Start, Planned, Recorded, Stage, Control, Cluster, Spared, Present,
     Exists
<1>6. Own'
  BY DEF StartUpdate, Start, Planned, Recorded, Stage, Control, Own, Tracked
<1>7. Sighted'
  BY DEF StartUpdate, Start, Planned, Recorded, Stage, Control, Cluster, Sighted, Tracked,
     Exists
<1>8. Settled'
  <2>1. op' = "update" /\ d' = Planned(config') /\ d'.id = state.id /\ d'.target = state.id
        /\ d'.setting = config'.setting /\ meddled' = FALSE
        /\ UNCHANGED <<indices, writeIndex, state>>
    BY DEF StartUpdate, Start, Planned, Recorded
  <2>2. pc' \in {"aliases", "lookupPut", "put", "lookupRead", "settings"}
        /\ (pc' \in {"put", "settings"} => ~d'.rollover)
        /\ (pc' \in {"lookupRead", "settings"} => ~Sends(config'))
    BY <2>1 DEF StartUpdate, Start, Stage
  <2>3. d'.rollover = ByAlias'
    BY <2>1 DEF StartUpdate, Planned, Recorded, ByAlias
  <2>4. pc' \in {"put", "settings"} => d'.target = SpeaksOf(d.id)'
    BY <2>1, <2>2, <2>3 DEF SpeaksOf
  <2>5. ~stale' => ~stale /\ SpeaksOf(state.id)' = SpeaksOf(state.id)
    BY <2>1 DEF StartUpdate, Start, Control, SpeaksOf, ByAlias, Wishes, NoWish
  <2>6. ~stale' /\ ~Sends(config') /\ indices[SpeaksOf(state.id)].setting = Unset
          => d'.setting = Unset
    BY <2>1, <2>5 DEF StartUpdate, Start, Control, Settled, Sends
  <2>7. QED
    BY <2>1, <2>2, <2>4, <2>5, <2>6 DEF Settled, Sends
<1>9. QED
  BY <1>1, <1>2, <1>3, <1>4, <1>5, <1>6, <1>7, <1>8

(* A Delete starts. *)
LEMMA StartDeleteStep == ASSUME IInv, StartDelete PROVE IInv'
<1> USE Empty, EmptyTyped, IndicesAssumption, AliasesAssumption
    DEF IInv, TypeOK, handler, history
<1>1. TypeOK'
  BY DEF StartDelete, Start, Recorded, Present, Tracked, Wishes
<1>2. Control'
  BY DEF StartDelete, Start, Recorded, Control, Tracked, ByAlias
<1>3. Cluster'
  BY DEF StartDelete, Start, Recorded, Control, Cluster, Present, Exists
<1>4. SentAliases'
  BY DEF StartDelete, Start, Recorded, Control, SentAliases, Tracked, Exists
<1>5. Spared'
  BY DEF StartDelete, Start, Recorded, Control, Cluster, Spared, Present, Exists
<1>6. Own'
  BY DEF StartDelete, Start, Recorded, Control, Own, Tracked
<1>7. Sighted'
  BY DEF StartDelete, Start, Recorded, Control, Cluster, Sighted, Tracked, Exists
<1>8. Settled'
  BY DEF StartDelete, Start, Recorded, Control, Settled, SpeaksOf, ByAlias, Sends, Tracked
<1>9. QED
  BY <1>1, <1>2, <1>3, <1>4, <1>5, <1>6, <1>7, <1>8

(* A handler returned. *)
LEMMA ReturnStep == ASSUME IInv, Return PROVE IInv'
<1> USE Empty, EmptyTyped, IndicesAssumption, AliasesAssumption
    DEF IInv, TypeOK, handler, history
<1>1. TypeOK'
  BY DEF Return, Idle, Entry, Wishes
<1>2. Control'
  BY DEF Return, Idle, Entry, Control, Tracked, ByAlias
<1>3. Cluster'
  BY DEF Return, Idle, Entry, Control, Cluster, Exists
<1>4. SentAliases'
  BY AllSent DEF Return, Idle, Entry, Control, SentAliases, Tracked, Exists
<1>5. Spared'
  BY DEF Return, Idle, Entry, Control, Cluster, Spared, Exists
<1>6. Own'
  BY DEF Return, Idle, Entry, Control, Own, Tracked
<1>7. Sighted'
  BY DEF Return, Idle, Entry, Control, Cluster, Sighted, Tracked, Exists
<1>8. Settled'
  BY DEF Return, Idle, Entry, Astray, Control, Settled, SpeaksOf, ByAlias, Sends, Tracked
<1>9. QED
  BY <1>1, <1>2, <1>3, <1>4, <1>5, <1>6, <1>7, <1>8

(* The process dies. *)
LEMMA CrashStep == ASSUME IInv, Crash PROVE IInv'
<1> USE Empty, EmptyTyped, IndicesAssumption, AliasesAssumption
    DEF IInv, TypeOK, handler, history
<1>1. TypeOK'
  BY DEF Crash, Idle, Wishes
<1>2. Control'
  BY DEF Crash, Idle, Control, Tracked, ByAlias
<1>3. Cluster'
  BY DEF Crash, Idle, Control, Cluster, Exists
<1>4. SentAliases'
  BY DEF Crash, Idle, Control, SentAliases, Tracked, Exists
<1>5. Spared'
  BY DEF Crash, Idle, Control, Cluster, Spared, Exists
<1>6. Own'
  BY DEF Crash, Idle, Control, Own, Tracked
<1>7. Sighted'
  BY DEF Crash, Idle, Control, Cluster, Sighted, Tracked, Exists
<1>8. Settled'
  BY DEF Crash, Idle, Control, Settled, SpeaksOf, ByAlias, Sends, Tracked
<1>9. QED
  BY <1>1, <1>2, <1>3, <1>4, <1>5, <1>6, <1>7, <1>8

(* PUT makes the index. *)
LEMMA CreatedStep == ASSUME IInv, NEW n \in Indices, Created(n) PROVE IInv'
<1> USE Empty, EmptyTyped, IndicesAssumption, AliasesAssumption
    DEF IInv, TypeOK, handler, history
<1>1. TypeOK'
  <2>1. stale' \in BOOLEAN
    BY DEF Created
  <2>2. indices' \in [Indices -> IndexTypes] /\ d' \in DataTypes
    BY DEF Created, Built, Wishes, IndexTypes, DataTypes
  <2>3. QED
    BY <2>1, <2>2 DEF Created, Built, Watch, IndexTypes, DataTypes
<1>2. Control'
  BY DEF Created, Built, Watch, Control, Tracked, ByAlias
<1>3. Cluster'
  BY DEF Created, Built, Watch, Control, Cluster, Exists
<1>4. SentAliases'
  BY DEF Created, Built, Watch, Control, SentAliases, Tracked, Exists
<1>5. Spared'
  BY DEF Created, Built, Watch, Control, Cluster, Spared, Exists
<1>6. Own'
  BY DEF Created, Built, Watch, Control, Own, Tracked
<1>7. Sighted'
  BY DEF Created, Built, Watch, Control, Cluster, Sighted, Tracked, Exists
<1>8. Settled'
  BY DEF Created, Built, Watch, Control, Settled, SpeaksOf, ByAlias, Sends, Tracked
<1>9. QED
  BY <1>1, <1>2, <1>3, <1>4, <1>5, <1>6, <1>7, <1>8

(* PUT makes the index, and the answer is lost. *)
LEMMA CreateUnansweredStep ==
  ASSUME IInv, NEW n \in Indices, CreateUnanswered(n)
  PROVE  IInv'
<1> USE Empty, EmptyTyped, IndicesAssumption, AliasesAssumption
    DEF IInv, TypeOK, handler, history
<1>1. TypeOK'
  BY FailedTyped DEF CreateUnanswered, Built, Wishes
<1>2. Control'
  BY FailedTyped DEF CreateUnanswered, Built, Control, Tracked, ByAlias
<1>3. Cluster'
  BY FailedTyped DEF CreateUnanswered, Built, Control, Cluster, Exists
<1>4. SentAliases'
  BY FailedTyped DEF CreateUnanswered, Built, Control, SentAliases, Tracked, Exists
<1>5. Spared'
  BY FailedTyped DEF CreateUnanswered, Built, Control, Cluster, Spared, Exists
<1>6. Own'
  BY FailedTyped DEF CreateUnanswered, Built, Control, Own, Tracked
<1>7. Sighted'
  BY FailedTyped DEF CreateUnanswered, Built, Control, Cluster, Sighted, Tracked, Exists
<1>8. Settled'
  BY FailedTyped DEF CreateUnanswered, Built, Control, Settled, SpeaksOf, ByAlias,
     Sends, Tracked
<1>9. QED
  BY <1>1, <1>2, <1>3, <1>4, <1>5, <1>6, <1>7, <1>8

(* PUT fails. *)
LEMMA CreateFailsStep == ASSUME IInv, CreateFails PROVE IInv'
<1> USE Empty, EmptyTyped, IndicesAssumption, AliasesAssumption
    DEF IInv, TypeOK, handler, history
<1>1. TypeOK'
  BY FailedTyped DEF CreateFails, Wishes
<1>2. Control'
  BY FailedTyped DEF CreateFails, Control, Tracked, ByAlias
<1>3. Cluster'
  BY FailedTyped DEF CreateFails, Control, Cluster, Exists
<1>4. SentAliases'
  BY FailedTyped DEF CreateFails, Control, SentAliases, Tracked, Exists
<1>5. Spared'
  BY FailedTyped DEF CreateFails, Control, Cluster, Spared, Exists
<1>6. Own'
  BY FailedTyped DEF CreateFails, Control, Own, Tracked
<1>7. Sighted'
  BY FailedTyped DEF CreateFails, Control, Cluster, Sighted, Tracked, Exists
<1>8. Settled'
  BY FailedTyped DEF CreateFails, Control, Settled, SpeaksOf, ByAlias, Sends, Tracked
<1>9. QED
  BY <1>1, <1>2, <1>3, <1>4, <1>5, <1>6, <1>7, <1>8

(* The write index is found. *)
LEMMA LookedUpStep == ASSUME IInv, LookedUp PROVE IInv'
<1> USE Empty, EmptyTyped, IndicesAssumption, AliasesAssumption
    DEF IInv, TypeOK, handler, history
<1>1. TypeOK'
  BY DEF LookedUp, Chosen, AfterLookup, Wishes
<1>2. Control'
  BY DEF LookedUp, Chosen, AfterLookup, Control, Tracked, ByAlias
<1>3. Cluster'
  BY DEF LookedUp, Chosen, AfterLookup, Control, Cluster, Exists
<1>4. SentAliases'
  BY DEF LookedUp, Chosen, AfterLookup, Control, SentAliases, Tracked, Exists
<1>5. Spared'
  BY DEF LookedUp, Chosen, AfterLookup, Control, Cluster, Spared, Exists
<1>6. Own'
  BY DEF LookedUp, Chosen, AfterLookup, Control, Own, Tracked
<1>7. Sighted'
  BY DEF LookedUp, Chosen, AfterLookup, Control, Cluster, Sighted, Tracked, Exists
<1>8. Settled'
  BY DEF LookedUp, Chosen, AfterLookup, Control, Settled, SpeaksOf, ByAlias, Sends, Tracked
<1>9. QED
  BY <1>1, <1>2, <1>3, <1>4, <1>5, <1>6, <1>7, <1>8

(* The write index is not found. *)
LEMMA LookupFailsStep == ASSUME IInv, LookupFails PROVE IInv'
<1> USE Empty, EmptyTyped, IndicesAssumption, AliasesAssumption
    DEF IInv, TypeOK, handler, history
<1>1. TypeOK'
  BY DEF LookupFails, AfterLookup, Wishes
<1>2. Control'
  BY DEF LookupFails, AfterLookup, Control, Tracked, ByAlias
<1>3. Cluster'
  BY DEF LookupFails, AfterLookup, Control, Cluster, Exists
<1>4. SentAliases'
  BY DEF LookupFails, AfterLookup, Control, SentAliases, Tracked, Exists
<1>5. Spared'
  BY DEF LookupFails, AfterLookup, Control, Cluster, Spared, Exists
<1>6. Own'
  BY DEF LookupFails, AfterLookup, Control, Own, Tracked
<1>7. Sighted'
  BY DEF LookupFails, AfterLookup, Control, Cluster, Sighted, Tracked, Exists
<1>8. Settled'
  BY DEF LookupFails, AfterLookup, Control, Settled, SpeaksOf, ByAlias, Sends, Tracked
<1>9. QED
  BY <1>1, <1>2, <1>3, <1>4, <1>5, <1>6, <1>7, <1>8

(* The settings are read. *)
LEMMA SettingsReadStep == ASSUME IInv, SettingsRead PROVE IInv'
<1> USE Empty, EmptyTyped, IndicesAssumption, AliasesAssumption
    DEF IInv, TypeOK, handler, history
<1>1. TypeOK'
  <2> DEFINE v == IF indices[d.target].setting = Unset THEN d.setting
                                                   ELSE indices[d.target].setting
             r == d.rollover \/ managed
  <2>1. v \in Values /\ r \in BOOLEAN
    BY DEF SettingsRead, Control
  <2>2. d' = [d EXCEPT !.setting = v, !.rollover = r]
    BY DEF SettingsRead
  <2> HIDE DEF v, r
  <2>3. d' \in DataTypes
    BY <2>1, <2>2 DEF DataTypes
  <2>4. QED
    BY <2>3 DEF DataTypes, SettingsRead, Wishes
<1>2. Control'
  BY DEF SettingsRead, Control, Tracked, ByAlias
<1>3. Cluster'
  BY DEF SettingsRead, Control, Cluster, Exists
<1>4. SentAliases'
  BY DEF SettingsRead, Control, SentAliases, Tracked, Exists
<1>5. Spared'
  BY DEF SettingsRead, Control, Cluster, Spared, Exists
<1>6. Own'
  BY DEF SettingsRead, Control, Own, Tracked
<1>7. Sighted'
  BY DEF SettingsRead, Control, Cluster, Sighted, Tracked, Exists
<1>8. Settled'
  BY DEF SettingsRead, Control, Settled, SpeaksOf, ByAlias, Sends, Tracked
<1>9. QED
  BY <1>1, <1>2, <1>3, <1>4, <1>5, <1>6, <1>7, <1>8

(* The index is missing. *)
LEMMA SettingsMissingStep == ASSUME IInv, SettingsMissing PROVE IInv'
<1> USE Empty, EmptyTyped, IndicesAssumption, AliasesAssumption
    DEF IInv, TypeOK, handler, history
<1>1. TypeOK'
  BY DEF SettingsMissing, Wishes
<1>2. Control'
  BY DEF SettingsMissing, Control, Tracked, ByAlias
<1>3. Cluster'
  BY DEF SettingsMissing, Control, Cluster, Exists
<1>4. SentAliases'
  BY DEF SettingsMissing, Control, SentAliases, Tracked, Exists
<1>5. Spared'
  BY DEF SettingsMissing, Control, Cluster, Spared, Exists
<1>6. Own'
  BY DEF SettingsMissing, Control, Own, Tracked
<1>7. Sighted'
  BY DEF SettingsMissing, Control, Cluster, Sighted, Tracked, Exists
<1>8. Settled'
  BY DEF SettingsMissing, Control, Settled, SpeaksOf, ByAlias, Sends, Tracked
<1>9. QED
  BY <1>1, <1>2, <1>3, <1>4, <1>5, <1>6, <1>7, <1>8

(* The mapping is read. *)
LEMMA MappingReadStep == ASSUME IInv, MappingRead PROVE IInv'
<1> USE Empty, EmptyTyped, IndicesAssumption, AliasesAssumption
    DEF IInv, TypeOK, handler, history
<1>1. TypeOK'
  BY DEF MappingRead, Wishes
<1>2. Control'
  BY DEF MappingRead, Control, Tracked, ByAlias
<1>3. Cluster'
  BY DEF MappingRead, Control, Cluster, Exists
<1>4. SentAliases'
  BY DEF MappingRead, Control, SentAliases, Tracked, Exists
<1>5. Spared'
  BY DEF MappingRead, Control, Cluster, Spared, Exists
<1>6. Own'
  BY DEF MappingRead, Control, Own, Tracked
<1>7. Sighted'
  BY DEF MappingRead, Control, Cluster, Sighted, Tracked, Exists
<1>8. Settled'
  BY DEF MappingRead, Control, Settled, SpeaksOf, ByAlias, Sends, Tracked
<1>9. QED
  BY <1>1, <1>2, <1>3, <1>4, <1>5, <1>6, <1>7, <1>8

(* Read fails. *)
LEMMA ReadFailsStep == ASSUME IInv, ReadFails PROVE IInv'
<1> USE Empty, EmptyTyped, IndicesAssumption, AliasesAssumption
    DEF IInv, TypeOK, handler, history
<1>1. TypeOK'
  BY FailedTyped DEF ReadFails, Wishes
<1>2. Control'
  BY FailedTyped DEF ReadFails, Control, Tracked, ByAlias
<1>3. Cluster'
  BY FailedTyped DEF ReadFails, Control, Cluster, Exists
<1>4. SentAliases'
  BY FailedTyped, AllSent DEF ReadFails, Control, SentAliases, Tracked, Exists
<1>5. Spared'
  BY FailedTyped DEF ReadFails, Control, Cluster, Spared, Exists
<1>6. Own'
  BY FailedTyped DEF ReadFails, Control, Own, Tracked
<1>7. Sighted'
  BY FailedTyped DEF ReadFails, Control, Cluster, Sighted, Tracked, Exists
<1>8. Settled'
  BY FailedTyped DEF ReadFails, Control, Settled, SpeaksOf, ByAlias, Sends, Tracked
<1>9. QED
  BY <1>1, <1>2, <1>3, <1>4, <1>5, <1>6, <1>7, <1>8

(* An alias is deleted. *)
LEMMA AliasDroppedStep == ASSUME IInv, NEW a \in Aliases, AliasDropped(a) PROVE IInv'
<1> USE Empty, EmptyTyped, IndicesAssumption, AliasesAssumption
    DEF IInv, TypeOK, handler, history
<1>1. TypeOK'
  <2>1. d.id \in Indices /\ indices[d.id].aliases \ {a} \in SUBSET Aliases
    BY DEF AliasDropped, Control
  <2>2. indices' \in [Indices -> IndexTypes]
    BY <2>1, Altered DEF AliasDropped
  <2>3. QED
    BY <2>1, <2>2 DEF AliasDropped, Stage, Wishes, IndexTypes
<1>2. Control'
  BY DEF AliasDropped, Stage, Control, Tracked, ByAlias
<1>3. Cluster'
  BY DEF AliasDropped, Stage, Control, Cluster, Exists
<1>4. SentAliases'
  BY DEF AliasDropped, Stage, Control, SentAliases, Tracked, Exists
<1>5. Spared'
  BY DEF AliasDropped, Stage, Control, Cluster, Spared, Exists
<1>6. Own'
  BY DEF AliasDropped, Stage, Control, Own, Tracked
<1>7. Sighted'
  BY DEF AliasDropped, Stage, Control, Cluster, Sighted, Tracked, Exists
<1>8. Settled'
  BY DEF AliasDropped, Stage, Control, Settled, SpeaksOf, ByAlias, Sends, Tracked
<1>9. QED
  BY <1>1, <1>2, <1>3, <1>4, <1>5, <1>6, <1>7, <1>8

(* An alias is added. *)
LEMMA AliasAddedStep == ASSUME IInv, NEW a \in Aliases, AliasAdded(a) PROVE IInv'
<1> USE Empty, EmptyTyped, IndicesAssumption, AliasesAssumption
    DEF IInv, TypeOK, handler, history
<1>1. TypeOK'
  <2>1. d.id \in Indices /\ indices[d.id].aliases \cup {a} \in SUBSET Aliases
    BY DEF AliasAdded, Control
  <2>2. indices' \in [Indices -> IndexTypes]
    BY <2>1, Altered DEF AliasAdded
  <2>3. QED
    BY <2>1, <2>2 DEF AliasAdded, Stage, Watch, WritesTo, Wishes, IndexTypes
<1>2. Control'
  BY DEF AliasAdded, Stage, Watch, MayWrite, WritesTo, Control, Tracked, ByAlias
<1>3. Cluster'
  BY DEF AliasAdded, Stage, Watch, MayWrite, WritesTo, Control, Cluster, Exists
<1>4. SentAliases'
  BY DEF AliasAdded, Stage, Watch, MayWrite, WritesTo, Control, SentAliases, Tracked,
     Exists
<1>5. Spared'
  BY DEF AliasAdded, Stage, Watch, MayWrite, WritesTo, Control, Cluster, Spared,      Exists
<1>6. Own'
  BY DEF AliasAdded, Stage, Watch, MayWrite, WritesTo, Control, Own, Tracked
<1>7. Sighted'
  BY DEF AliasAdded, Stage, Watch, MayWrite, WritesTo, Control, Cluster, Sighted, Tracked,
     Exists
<1>8. Settled'
  BY DEF AliasAdded, Stage, Watch, MayWrite, WritesTo, Control, Settled, SpeaksOf,
     ByAlias, Sends, Tracked
<1>9. QED
  BY <1>1, <1>2, <1>3, <1>4, <1>5, <1>6, <1>7, <1>8

(* A request for an alias fails. *)
LEMMA AliasFailsStep == ASSUME IInv, AliasFails PROVE IInv'
<1> USE Empty, EmptyTyped, IndicesAssumption, AliasesAssumption
    DEF IInv, TypeOK, handler, history
<1>1. TypeOK'
  <2>1. d.id \in Indices /\ indices \in [Indices -> IndexTypes]
    BY DEF AliasFails, Control, IndexTypes
  <2>2. ASSUME NEW a \in Aliases, indices' = [indices EXCEPT ![d.id].aliases = @ \ {a}]
        PROVE  indices' \in [Indices -> IndexTypes]
    <3>1. indices[d.id].aliases \ {a} \in SUBSET Aliases
      BY <2>1
    <3>2. QED
      BY <2>1, <2>2, <3>1, Altered
  <2>3. ASSUME NEW a \in Aliases, indices' = [indices EXCEPT ![d.id].aliases = @ \cup {a}]
        PROVE  indices' \in [Indices -> IndexTypes]
    <3>1. indices[d.id].aliases \cup {a} \in SUBSET Aliases
      BY <2>1
    <3>2. QED
      BY <2>1, <2>3, <3>1, Altered
  <2>4. d.drop \subseteq Aliases /\ d.add \subseteq Aliases
    OBVIOUS
  <2>5. indices' \in [Indices -> IndexTypes]
    BY <2>1, <2>2, <2>3, <2>4 DEF AliasFails
  <2>6. writeIndex' \in Indices \cup {NoIndex}
    BY <2>1 DEF AliasFails, WritesTo
  <2>7. QED
    BY <2>5, <2>6, FailedTyped DEF AliasFails, Wishes, IndexTypes
<1>2. Control'
  BY FailedTyped DEF AliasFails, MayWrite, WritesTo, Control, Tracked, ByAlias
<1>3. Cluster'
  <2>1. found' = {}
    BY FailedTyped DEF AliasFails
  <2>2. (writeIndex # NoIndex => Exists(writeIndex))'
    BY DEF AliasFails, MayWrite, WritesTo, Control, Cluster, Exists
  <2>3. QED
    BY <2>1, <2>2 DEF Cluster
<1>4. SentAliases'
  BY FailedTyped DEF AliasFails, MayWrite, WritesTo, Control, SentAliases, Tracked, Exists
<1>5. Spared'
  BY FailedTyped DEF AliasFails, MayWrite, WritesTo, Control, Cluster, Spared,      Exists
<1>6. Own'
  BY FailedTyped DEF AliasFails, MayWrite, WritesTo, Control, Own, Tracked
<1>7. Sighted'
  BY FailedTyped DEF AliasFails, MayWrite, WritesTo, Control, Cluster, Sighted, Tracked,
     Exists
<1>8. Settled'
  BY FailedTyped DEF AliasFails, MayWrite, WritesTo, Control, Settled, SpeaksOf,
     ByAlias, Sends, Tracked
<1>9. QED
  BY <1>1, <1>2, <1>3, <1>4, <1>5, <1>6, <1>7, <1>8

(* The settings are changed. *)
LEMMA SettingsPutStep == ASSUME IInv, SettingsPut PROVE IInv'
<1> USE Empty, EmptyTyped, IndicesAssumption, AliasesAssumption
    DEF IInv, TypeOK, handler, history
<1>1. TypeOK'
  <2>1. d.target \in Indices /\ d.setting \in Values
    BY DEF SettingsPut, Control
  <2>2. indices' \in [Indices -> IndexTypes]
    BY <2>1, Altered DEF SettingsPut
  <2>3. QED
    BY <2>2 DEF SettingsPut, Control, Wishes, IndexTypes
<1>2. Control'
  BY DEF SettingsPut, Control, Tracked, ByAlias
<1>3. Cluster'
  BY DEF SettingsPut, Control, Cluster, Exists
<1>4. SentAliases'
  BY DEF SettingsPut, Control, SentAliases, Tracked, Exists
<1>5. Spared'
  BY DEF SettingsPut, Control, Cluster, Spared, Exists
<1>6. Own'
  BY DEF SettingsPut, Control, Own, Tracked
<1>7. Sighted'
  BY DEF SettingsPut, Control, Cluster, Sighted, Tracked, Exists
<1>8. Settled'
  BY DEF SettingsPut, Control, Settled, SpeaksOf, ByAlias, Sends, Tracked
<1>9. QED
  BY <1>1, <1>2, <1>3, <1>4, <1>5, <1>6, <1>7, <1>8

(* PUT of the settings fails. *)
LEMMA PutFailsStep == ASSUME IInv, PutFails PROVE IInv'
<1> USE Empty, EmptyTyped, IndicesAssumption, AliasesAssumption
    DEF IInv, TypeOK, handler, history
<1>1. TypeOK'
  <2>1. d.target \in Indices /\ d.setting \in Values
    BY DEF PutFails, Control
  <2>2. indices \in [Indices -> IndexTypes]
    BY DEF IndexTypes
  <2>3. indices' \in [Indices -> IndexTypes]
    BY <2>1, <2>2, Altered DEF PutFails
  <2>4. QED
    BY <2>3, FailedTyped DEF PutFails, Wishes, IndexTypes
<1>2. Control'
  BY FailedTyped DEF PutFails, Control, Tracked, ByAlias
<1>3. Cluster'
  <2>1. found' = {}
    BY FailedTyped DEF PutFails
  <2>2. (writeIndex # NoIndex => Exists(writeIndex))'
    BY DEF PutFails, Control, Cluster, Exists
  <2>3. QED
    BY <2>1, <2>2 DEF Cluster
<1>4. SentAliases'
  <2>1. Tracked /\ d.id = state.id /\ d.id # NoIndex /\ op = "update"
    BY DEF PutFails, Control, Tracked
  <2>2. indices'[state.id].there => Exists(state.id)
    BY <2>1 DEF PutFails, Control, Exists
  <2>3. indices'[state.id].aliases = indices[state.id].aliases
    BY <2>1 DEF PutFails, Control
  <2>4. QED
    BY <2>1, <2>2, <2>3, FailedTyped, AllSent DEF PutFails, SentAliases, Tracked, Exists
<1>5. Spared'
  BY FailedTyped DEF PutFails, Control, Cluster, Spared, Exists
<1>6. Own'
  BY FailedTyped DEF PutFails, Control, Own, Tracked
<1>7. Sighted'
  BY FailedTyped DEF PutFails, Control, Cluster, Sighted, Tracked, Exists
<1>8. Settled'
  BY FailedTyped DEF PutFails, Control, Settled, SpeaksOf, ByAlias, Sends, Tracked
<1>9. QED
  BY <1>1, <1>2, <1>3, <1>4, <1>5, <1>6, <1>7, <1>8

(* The documents are counted. *)
LEMMA CountedStep == ASSUME IInv, Counted PROVE IInv'
<1> USE Empty, EmptyTyped, IndicesAssumption, AliasesAssumption
    DEF IInv, TypeOK, handler, history
<1>1. TypeOK'
  BY DEF Counted, Wishes
<1>2. Control'
  BY DEF Counted, Control, Tracked, ByAlias
<1>3. Cluster'
  BY DEF Counted, Control, Cluster, Exists
<1>4. SentAliases'
  BY DEF Counted, Control, SentAliases, Tracked, Exists
<1>5. Spared'
  BY DEF Counted, Control, Cluster, Spared, Exists
<1>6. Own'
  BY DEF Counted, Control, Own, Tracked
<1>7. Sighted'
  BY DEF Counted, Control, Cluster, Sighted, Tracked, Exists
<1>8. Settled'
  BY DEF Counted, Control, Settled, SpeaksOf, ByAlias, Sends, Tracked
<1>9. QED
  BY <1>1, <1>2, <1>3, <1>4, <1>5, <1>6, <1>7, <1>8

(* The destroy is refused. *)
LEMMA RefusedStep == ASSUME IInv, Refused PROVE IInv'
<1> USE Empty, EmptyTyped, IndicesAssumption, AliasesAssumption
    DEF IInv, TypeOK, handler, history
<1>1. TypeOK'
  BY FailedTyped DEF Refused, Wishes
<1>2. Control'
  BY FailedTyped DEF Refused, Control, Tracked, ByAlias
<1>3. Cluster'
  BY FailedTyped DEF Refused, Control, Cluster, Exists
<1>4. SentAliases'
  BY FailedTyped DEF Refused, Control, SentAliases, Tracked, Exists
<1>5. Spared'
  BY FailedTyped DEF Refused, Control, Cluster, Spared, Exists
<1>6. Own'
  BY FailedTyped DEF Refused, Control, Own, Tracked
<1>7. Sighted'
  BY FailedTyped DEF Refused, Control, Cluster, Sighted, Tracked, Exists
<1>8. Settled'
  BY FailedTyped DEF Refused, Control, Settled, SpeaksOf, ByAlias, Sends, Tracked
<1>9. QED
  BY <1>1, <1>2, <1>3, <1>4, <1>5, <1>6, <1>7, <1>8

(* The index is deleted. *)
LEMMA RemovedStep == ASSUME IInv, Removed PROVE IInv'
<1> USE Empty, EmptyTyped, IndicesAssumption, AliasesAssumption
    DEF IInv, TypeOK, handler, history
<1>1. TypeOK'
  BY DEF Removed, Deleted, Wishes
<1>2. Control'
  BY DEF Removed, Deleted, Control, Tracked, ByAlias
<1>3. Cluster'
  BY DEF Removed, Deleted, Control, Cluster, Exists
<1>4. SentAliases'
  BY DEF Removed, Deleted, Control, SentAliases, Tracked, Exists
<1>5. Spared'
  BY DEF Removed, Deleted, Control, Cluster, Spared, Exists
<1>6. Own'
  BY DEF Removed, Deleted, Control, Own, Tracked
<1>7. Sighted'
  BY DEF Removed, Deleted, Control, Cluster, Sighted, Tracked, Exists
<1>8. Settled'
  BY DEF Removed, Deleted, Control, Settled, SpeaksOf, ByAlias, Sends, Tracked
<1>9. QED
  BY <1>1, <1>2, <1>3, <1>4, <1>5, <1>6, <1>7, <1>8

(* DELETE fails. *)
LEMMA RemoveFailsStep == ASSUME IInv, RemoveFails PROVE IInv'
<1> USE Empty, EmptyTyped, IndicesAssumption, AliasesAssumption
    DEF IInv, TypeOK, handler, history
<1>1. TypeOK'
  <2>1. indices' \in [Indices -> IndexTypes] /\ writeIndex' \in Indices \cup {NoIndex}
    BY DEF RemoveFails, Deleted, Control, IndexTypes
  <2>2. QED
    BY <2>1, FailedTyped DEF RemoveFails, Wishes, IndexTypes
<1>2. Control'
  BY FailedTyped DEF RemoveFails, Deleted, Control, Tracked, ByAlias
<1>3. Cluster'
  <2>1. found' = {}
    BY FailedTyped DEF RemoveFails
  <2>2. (writeIndex # NoIndex => Exists(writeIndex))'
    BY DEF RemoveFails, Deleted, Control, Cluster, Exists
  <2>3. QED
    BY <2>1, <2>2 DEF Cluster
<1>4. SentAliases'
  <2>1. Tracked /\ op = "delete" /\ state' = state
    BY FailedTyped DEF RemoveFails, Control, Tracked
  <2>2. Exists(state.id)' => Exists(state.id) /\ indices'[state.id] = indices[state.id]
    BY <2>1 DEF RemoveFails, Deleted, Control, Tracked, Exists
  <2>3. QED
    BY <2>1, <2>2, FailedTyped DEF RemoveFails, SentAliases, Tracked, Exists
<1>5. Spared'
  BY FailedTyped DEF RemoveFails, Deleted, Control, Cluster, Spared, Exists
<1>6. Own'
  BY FailedTyped DEF RemoveFails, Deleted, Control, Own, Tracked
<1>7. Sighted'
  BY FailedTyped DEF RemoveFails, Deleted, Control, Cluster, Sighted, Tracked, Exists
<1>8. Settled'
  BY FailedTyped DEF RemoveFails, Deleted, Control, Settled, SpeaksOf, ByAlias, Sends,
     Tracked
<1>9. QED
  BY <1>1, <1>2, <1>3, <1>4, <1>5, <1>6, <1>7, <1>8

(* A refresh shows documents to searches. *)
LEMMA RefreshedStep ==
  ASSUME IInv, NEW n \in Indices, Refreshed(n)
  PROVE  IInv'
<1> USE Empty, EmptyTyped, IndicesAssumption, AliasesAssumption
    DEF IInv, TypeOK, handler, history
<1>1. TypeOK'
  BY DEF Refreshed
<1>2. Control'
  BY DEF Refreshed, Control, Tracked, ByAlias
<1>3. Cluster'
  BY DEF Refreshed, Control, Cluster, Exists
<1>4. SentAliases'
  BY DEF Refreshed, Control, SentAliases, Tracked, Exists
<1>5. Spared'
  BY DEF Refreshed, Control, Cluster, Spared, Exists
<1>6. Own'
  BY DEF Refreshed, Control, Own, Tracked
<1>7. Sighted'
  BY DEF Refreshed, Control, Cluster, Sighted, Tracked, Exists
<1>8. Settled'
  BY DEF Refreshed, Control, Settled, SpeaksOf, ByAlias, Sends, Tracked
<1>9. QED
  BY <1>1, <1>2, <1>3, <1>4, <1>5, <1>6, <1>7, <1>8

(* Documents are deleted. *)
LEMMA EmptiedElsewhereStep ==
  ASSUME IInv, NEW n \in Indices, EmptiedElsewhere(n)
  PROVE  IInv'
<1> USE Empty, EmptyTyped, IndicesAssumption, AliasesAssumption
    DEF IInv, TypeOK, handler, history
<1>1. TypeOK'
  BY DEF EmptiedElsewhere
<1>2. Control'
  BY DEF EmptiedElsewhere, Control, Tracked, ByAlias
<1>3. Cluster'
  BY DEF EmptiedElsewhere, Control, Cluster, Exists
<1>4. SentAliases'
  BY DEF EmptiedElsewhere, Control, SentAliases, Tracked, Exists
<1>5. Spared'
  BY DEF EmptiedElsewhere, Control, Cluster, Spared, Exists
<1>6. Own'
  BY DEF EmptiedElsewhere, Control, Own, Tracked
<1>7. Sighted'
  BY DEF EmptiedElsewhere, Control, Cluster, Sighted, Tracked, Exists
<1>8. Settled'
  BY DEF EmptiedElsewhere, Control, Settled, SpeaksOf, ByAlias, Sends, Tracked
<1>9. QED
  BY <1>1, <1>2, <1>3, <1>4, <1>5, <1>6, <1>7, <1>8

(* The series is rolled over. *)
LEMMA RolledOverStep == ASSUME IInv, NEW n \in Indices, RolledOver(n) PROVE IInv'
<1> USE Empty, EmptyTyped, IndicesAssumption, AliasesAssumption
    DEF IInv, TypeOK, handler, history
<1>1. TypeOK'
  BY DEF RolledOver, Mine, Watch, Meddle, Wishes
<1>2. Control'
  BY DEF RolledOver, Mine, Watch, Meddle, Control, Tracked, ByAlias
<1>3. Cluster'
  BY DEF RolledOver, Mine, Watch, Meddle, Control, Cluster, Exists
<1>4. SentAliases'
  BY DEF RolledOver, Mine, Watch, Meddle, Control, SentAliases, Tracked, Exists
<1>5. Spared'
  BY DEF RolledOver, Mine, Watch, Meddle, Control, Cluster, Spared, Exists
<1>6. Own'
  BY DEF RolledOver, Mine, Watch, Meddle, Control, Own, Tracked
<1>7. Sighted'
  BY DEF RolledOver, Mine, Watch, Meddle, Control, Cluster, Sighted, Tracked, Exists
<1>8. Settled'
  BY DEF RolledOver, Mine, Watch, Meddle, Control, Settled, SpeaksOf, ByAlias, Sends,
     Tracked
<1>9. QED
  BY <1>1, <1>2, <1>3, <1>4, <1>5, <1>6, <1>7, <1>8

(* Another client deletes an index. *)
LEMMA RemovedElsewhereStep ==
  ASSUME IInv, NEW n \in Indices, RemovedElsewhere(n)
  PROVE  IInv'
<1> USE Empty, EmptyTyped, IndicesAssumption, AliasesAssumption
    DEF IInv, TypeOK, handler, history
<1>1. TypeOK'
  BY DEF RemovedElsewhere, Mine, Missed, Meddle, Wishes
<1>2. Control'
  BY DEF RemovedElsewhere, Mine, Missed, Meddle, Control, Tracked, ByAlias
<1>3. Cluster'
  BY DEF RemovedElsewhere, Mine, Missed, Meddle, Control, Cluster, Exists
<1>4. SentAliases'
  BY DEF RemovedElsewhere, Mine, Missed, Meddle, Control, SentAliases, Tracked, Exists
<1>5. Spared'
  BY DEF RemovedElsewhere, Mine, Missed, Meddle, Control, Cluster, Spared, Exists
<1>6. Own'
  BY DEF RemovedElsewhere, Mine, Missed, Meddle, Control, Own, Tracked
<1>7. Sighted'
  BY DEF RemovedElsewhere, Mine, Missed, Meddle, Control, Cluster, Sighted, Tracked,
     Exists
<1>8. Settled'
  BY DEF RemovedElsewhere, Mine, Missed, Meddle, Control, Settled, SpeaksOf, ByAlias,
     Sends, Tracked
<1>9. QED
  BY <1>1, <1>2, <1>3, <1>4, <1>5, <1>6, <1>7, <1>8

(* Another client changes settings. *)
LEMMA SettingElsewhereStep ==
  ASSUME IInv, NEW n \in Indices, SettingElsewhere(n)
  PROVE  IInv'
<1> USE Empty, EmptyTyped, IndicesAssumption, AliasesAssumption
    DEF IInv, TypeOK, handler, history
<1>1. TypeOK'
  BY DEF SettingElsewhere, Meddle, Wishes
<1>2. Control'
  BY DEF SettingElsewhere, Meddle, Control, Tracked, ByAlias
<1>3. Cluster'
  BY DEF SettingElsewhere, Meddle, Control, Cluster, Exists
<1>4. SentAliases'
  BY DEF SettingElsewhere, Meddle, Control, SentAliases, Tracked, Exists
<1>5. Spared'
  BY DEF SettingElsewhere, Meddle, Control, Cluster, Spared, Exists
<1>6. Own'
  BY DEF SettingElsewhere, Meddle, Control, Own, Tracked
<1>7. Sighted'
  BY DEF SettingElsewhere, Meddle, Control, Cluster, Sighted, Tracked, Exists
<1>8. Settled'
  BY DEF SettingElsewhere, Meddle, Control, Settled, SpeaksOf, ByAlias, Sends, Tracked
<1>9. QED
  BY <1>1, <1>2, <1>3, <1>4, <1>5, <1>6, <1>7, <1>8

(* Another client changes aliases. *)
LEMMA AliasElsewhereStep ==
  ASSUME IInv, NEW n \in Indices, NEW a \in Aliases, AliasElsewhere(n, a)
  PROVE  IInv'
<1> USE Empty, EmptyTyped, IndicesAssumption, AliasesAssumption
    DEF IInv, TypeOK, handler, history
<1>1. TypeOK'
  BY DEF AliasElsewhere, Mine, Meddle, Wishes
<1>2. Control'
  BY DEF AliasElsewhere, Mine, Meddle, Control, Tracked, ByAlias
<1>3. Cluster'
  BY DEF AliasElsewhere, Mine, Meddle, Control, Cluster, Exists
<1>4. SentAliases'
  BY DEF AliasElsewhere, Mine, Meddle, Control, SentAliases, Tracked, Exists
<1>5. Spared'
  BY DEF AliasElsewhere, Mine, Meddle, Control, Cluster, Spared, Exists
<1>6. Own'
  BY DEF AliasElsewhere, Mine, Meddle, Control, Own, Tracked
<1>7. Sighted'
  BY DEF AliasElsewhere, Mine, Meddle, Control, Cluster, Sighted, Tracked, Exists
<1>8. Settled'
  BY DEF AliasElsewhere, Mine, Meddle, Control, Settled, SpeaksOf, ByAlias, Sends, Tracked
<1>9. QED
  BY <1>1, <1>2, <1>3, <1>4, <1>5, <1>6, <1>7, <1>8

(* Nothing happens. *)
LEMMA Stutter == ASSUME IInv, UNCHANGED vars PROVE IInv'
  BY DEF IInv, TypeOK, Control, Cluster, SentAliases, Spared, Own, Sighted, Settled,
     Tracked, Exists, SpeaksOf, ByAlias, Sends, vars, handler, history

(* The invariant is inductive. *)
THEOREM Invariant == Spec => []IInv
<1>1. ASSUME IInv, [Next]_vars PROVE IInv'
  <2>1. CASE Handler
    BY <1>1, <2>1, CreatedStep, CreateUnansweredStep, CreateFailsStep, LookedUpStep,
       LookupFailsStep, SettingsReadStep, SettingsMissingStep, MappingReadStep,
       ReadFailsStep, AliasDroppedStep, AliasAddedStep, AliasFailsStep,
       SettingsPutStep, PutFailsStep, CountedStep, RefusedStep, RemovedStep,
       RemoveFailsStep
    DEF Handler
  <2>2. CASE Core
    BY <1>1, <2>2, StartCreateStep, StartRefreshStep, StartUpdateStep, StartDeleteStep,
       ReturnStep, CrashStep
    DEF Core
  <2>3. CASE Elsewhere
    BY <1>1, <2>3, RefreshedStep, EmptiedElsewhereStep, RolledOverStep,
       RemovedElsewhereStep, SettingElsewhereStep, AliasElsewhereStep
    DEF Elsewhere
  <2>4. CASE UNCHANGED vars
    BY <1>1, <2>4, Stutter
  <2>5. QED
    BY <1>1, <2>1, <2>2, <2>3, <2>4 DEF Next
<1>2. QED
  BY <1>1, Initially, PTL DEF Spec

-----------------------------------------------------------------------------
(* Properties *)

(* Every variable keeps its type: a handler never asks for an alias where it *)
(* needs an index.                                                           *)
THEOREM TypeCorrect == Spec => []TypeOK
<1>1. IInv => TypeOK
  BY DEF IInv
<1>2. QED
  BY <1>1, Invariant, PTL

(* Between operations the index has the aliases of its entry, unless others  *)
(* changed them or an Update failed among its alias requests.                *)
THEOREM AliasesHold == Spec => []AliasesAsRecorded
<1>1. IInv => AliasesAsRecorded
  BY DEF IInv, Control, SentAliases, AliasesAsRecorded
<1>2. QED
  BY <1>1, Invariant, PTL

(* A step that ends a destroy is its DELETE, with or without an answer, or   *)
(* none of the cluster's indices changes.                                    *)
LEMMA Destruction ==
  ASSUME IInv, [Next]_vars, Destroying
  PROVE  /\ op = "delete" /\ d.target \in Indices
         /\ indices' = indices
            \/ (Exists(d.target) /\ indices' = [indices EXCEPT ![d.target] = Absent])
<1> USE DEF IInv, Control, Destroying
<1>1. op = "delete" /\ d.target \in Indices
  OBVIOUS
<1>2. Removed \/ RemoveFails \/ Crash
  BY DEF Next, Handler, Core, Elsewhere, Created, CreateUnanswered, CreateFails, LookedUp,
     LookupFails, SettingsRead, SettingsMissing, MappingRead, ReadFails, AliasDropped,
     AliasAdded, AliasFails, SettingsPut, PutFails, Counted, Refused, StartCreate,
     StartRefresh, StartUpdate, StartDelete, Start, Return, Refreshed,
     EmptiedElsewhere, RolledOver, RemovedElsewhere, SettingElsewhere, AliasElsewhere,
     vars, handler
<1>3. QED
  BY <1>1, <1>2 DEF Removed, RemoveFails, Crash, Deleted

(* Without force_destroy an index with documents a search found survives.    *)
THEOREM DocumentsSpared == Spec => DestroySparesDocuments
<1>1. ASSUME IInv, [Next]_vars
      PROVE  Destroying /\ ~d.force => \A n \in before : indices'[n].there
  <2> SUFFICES ASSUME Destroying, ~d.force, NEW n \in before
               PROVE  indices'[n].there
    OBVIOUS
  <2>1. n \in Indices /\ Exists(n) /\ n # d.target
    BY <1>1 DEF IInv, TypeOK, Cluster, Spared, Destroying
  <2>2. QED
    BY <1>1, <2>1, Destruction DEF IInv, TypeOK, Exists
<1>2. QED
  BY <1>1, Invariant, PTL DEF Spec, DestroySparesDocuments

(* A destroy deletes the index of the entry, or one that was the write index *)
(* of the series while it ran.                                               *)
THEOREM OwnDestroyed == Spec => DestroysOnlyItsOwn
<1>1. ASSUME IInv, [Next]_vars
      PROVE  Destroying => \A n \in Indices :
               Exists(n) /\ ~indices'[n].there => n \in writers \cup {state.id}
  <2> SUFFICES ASSUME Destroying, NEW n \in Indices, Exists(n), ~indices'[n].there
               PROVE  n \in writers \cup {state.id}
    OBVIOUS
  <2>1. n = d.target
    BY <1>1, Destruction DEF IInv, TypeOK, Exists
  <2>2. QED
    BY <1>1, <2>1 DEF IInv, Own, Destroying
<1>2. QED
  BY <1>1, Invariant, PTL DEF Spec, DestroysOnlyItsOwn

(* An entry leaves the state file only if an index its handler asked for was *)
(* missing during the operation.                                             *)
THEOREM ForgottenWasGone == Spec => ForgetsOnlyGone
<1>1. ASSUME IInv, [Next]_vars, Tracked, state'.id = NoIndex
      PROVE  lost
  <2> USE <1>1 DEF IInv, Tracked
  <2>1. ~Failed
    BY DEF Failed, Entry
  <2>2. Return
    BY <2>1
    DEF Next, Handler, Core, Elsewhere, Created, CreateUnanswered, CreateFails, LookedUp,
        LookupFails, SettingsRead, SettingsMissing, MappingRead, ReadFails, AliasDropped,
        AliasAdded, AliasFails, SettingsPut, PutFails, Counted, Refused, Removed,
        RemoveFails, StartCreate, StartRefresh, StartUpdate, StartDelete, Start, Crash,
        Refreshed, EmptiedElsewhere, RolledOver, RemovedElsewhere,
        SettingElsewhere, AliasElsewhere, vars
  <2>3. d.id = NoIndex /\ pc = "done"
    BY <2>2 DEF Return, Entry
  <2>4. QED
    BY <2>3 DEF Sighted
<1>2. QED
  BY <1>1, Invariant, PTL DEF Spec, ForgetsOnlyGone

(* Between operations the entry holds the setting of its index, or of the    *)
(* write index of its series, unless others changed something or an operation *)
(* failed, and no PUT or Read that found a setting followed.                 *)
THEOREM SettingsRecorded == Spec => []SettingsAsRecorded
<1>1. IInv => SettingsAsRecorded
  BY DEF IInv, Control, Settled, SettingsAsRecorded
<1>2. QED
  BY <1>1, Invariant, PTL

(* A handler has at most seven steps ahead of it, not counting the aliases.  *)
StepsAhead ==
  [idle |-> 0, done |-> 1, mapping |-> 2, settings |-> 3, lookupRead |-> 4, put |-> 5,
   lookupPut |-> 6, aliases |-> 7, create |-> 7, remove |-> 2, count |-> 3, lookupCount |-> 4]

Ahead == StepsAhead[pc]

(* Fewer requests of the alias loop are left. *)
AliasSent ==
  /\ pc = "aliases" /\ pc' = "aliases"
  /\ d'.drop \subseteq d.drop /\ d'.add \subseteq d.add
  /\ d'.drop # d.drop \/ d'.add # d.add

Advances == Ahead' < Ahead \/ AliasSent

(* Every step of a handler takes it nearer to its return, and every request  *)
(* for an alias is sent once at most, whatever index state management and    *)
(* other clients do to the index in the meantime.                            *)
AdvanceStep ==
  /\ Handler => Advances
  /\ pc # "idle" => Advances \/ UNCHANGED handler

HandlersAdvance == [][AdvanceStep]_vars

(* What the steps ahead are, one step at a time. *)
LEMMA AheadFacts ==
  /\ StepsAhead["idle"] = 0 /\ StepsAhead["done"] = 1
  /\ StepsAhead["mapping"] = 2 /\ StepsAhead["settings"] = 3
  /\ StepsAhead["lookupRead"] = 4 /\ StepsAhead["put"] = 5
  /\ StepsAhead["lookupPut"] = 6 /\ StepsAhead["aliases"] = 7
  /\ StepsAhead["create"] = 7 /\ StepsAhead["remove"] = 2
  /\ StepsAhead["count"] = 3 /\ StepsAhead["lookupCount"] = 4
  BY DEF StepsAhead

(* A handler that returns has come nearer to its return. *)
LEMMA ReturnAdvances == ASSUME TypeOK, pc # "idle", pc' = "idle" PROVE Advances
  BY AheadFacts DEF TypeOK, Advances, Ahead

(* The loop over the aliases of an Update comes to its end, and with it     *)
(* every handler.                                                           *)
THEOREM HandlersRunOut == Spec => HandlersAdvance
<1>1. ASSUME IInv, Handler PROVE Advances
  <2>1. CASE \E n \in Indices : Created(n) \/ CreateUnanswered(n)
    BY <2>1, AheadFacts DEF Created, CreateUnanswered, Failed, Idle, Advances, Ahead
  <2>2. CASE CreateFails \/ ReadFails \/ AliasFails \/ PutFails \/ Refused \/ RemoveFails
    BY <1>1, <2>2, ReturnAdvances
    DEF CreateFails, ReadFails, AliasFails, PutFails, Refused, RemoveFails, Failed, Idle, IInv
  <2>3. CASE LookedUp \/ LookupFails
    BY <2>3, AheadFacts DEF LookedUp, LookupFails, AfterLookup, Advances, Ahead
  <2>4. CASE SettingsRead \/ SettingsMissing \/ MappingRead
    BY <2>4, AheadFacts DEF SettingsRead, SettingsMissing, MappingRead, Advances, Ahead
  <2>5. ASSUME NEW a \in Aliases, AliasDropped(a) \/ AliasAdded(a) PROVE Advances
    <3>1. pc = "aliases"
          /\ \/ a \in d.drop /\ d' = [d EXCEPT !.drop = @ \ {a}]
             \/ a \in d.add /\ d' = [d EXCEPT !.add = @ \ {a}]
      BY <2>5 DEF AliasDropped, AliasAdded
    <3>2. d'.drop \subseteq d.drop /\ d'.add \subseteq d.add
          /\ (d'.drop # d.drop \/ d'.add # d.add)
      BY <1>1, <3>1 DEF IInv, TypeOK
    <3>3. pc' \in {"aliases", "lookupPut", "put", "lookupRead", "settings"}
      BY <2>5 DEF AliasDropped, AliasAdded, Stage
    <3>4. CASE pc' = "aliases"
      BY <3>1, <3>2, <3>4 DEF Advances, AliasSent
    <3>5. CASE pc' # "aliases"
      BY <3>1, <3>3, <3>5, AheadFacts DEF Advances, Ahead
    <3>6. QED
      BY <3>4, <3>5
  <2>6. CASE SettingsPut
    BY <2>6, AheadFacts DEF SettingsPut, Advances, Ahead
  <2>7. CASE Counted \/ Removed
    BY <2>7, AheadFacts DEF Counted, Removed, Advances, Ahead
  <2>8. QED
    BY <1>1, <2>1, <2>2, <2>3, <2>4, <2>5, <2>6, <2>7 DEF Handler
<1>2. ASSUME IInv, Core, pc # "idle" PROVE Advances
  BY <1>2, ReturnAdvances
  DEF IInv, Core, StartCreate, StartRefresh, StartUpdate, StartDelete, Start, Return, Crash, Idle
<1>3. ASSUME Elsewhere \/ UNCHANGED vars PROVE UNCHANGED handler
  BY <1>3
  DEF Elsewhere, Refreshed, EmptiedElsewhere, RolledOver, RemovedElsewhere,
      SettingElsewhere, AliasElsewhere, vars
<1>4. IInv /\ [Next]_vars => [AdvanceStep]_vars
  BY <1>1, <1>2, <1>3 DEF AdvanceStep, Next
<1>5. QED
  BY <1>4, Invariant, PTL DEF Spec, HandlersAdvance

-----------------------------------------------------------------------------
(* What the handlers do to the indices *)

(* Until the settings are sent, d holds those of the configuration.          *)
PlanHolds == pc \in {"create", "aliases", "lookupPut", "put"} => d.setting = config.setting

(* No step before the PUT of the settings changes d.setting, and none of a   *)
(* running handler the configuration.                                        *)
LEMMA PlanKept == ASSUME IInv, PlanHolds, [Next]_vars PROVE PlanHolds'
<1> USE DEF IInv, PlanHolds
<1>1. CASE StartCreate
  BY <1>1 DEF StartCreate, Start, NoData
<1>2. CASE StartUpdate
  BY <1>2 DEF StartUpdate, Start, Planned, Recorded
<1>3. CASE StartRefresh \/ StartDelete
  BY <1>3 DEF StartRefresh, StartDelete, Start
<1>4. CASE Return \/ Crash
  BY <1>4 DEF Return, Crash, Idle
<1>5. CASE \E n \in Indices : Created(n) \/ CreateUnanswered(n)
  BY <1>5 DEF Created, CreateUnanswered, Failed, Idle
<1>6. CASE CreateFails \/ ReadFails \/ AliasFails \/ PutFails \/ Refused \/ RemoveFails
  BY <1>6
  DEF CreateFails, ReadFails, AliasFails, PutFails, Refused, RemoveFails, Failed, Idle
<1>7. CASE LookedUp \/ LookupFails
  BY <1>7 DEF LookedUp, LookupFails, AfterLookup, TypeOK
<1>8. CASE SettingsRead \/ SettingsMissing \/ MappingRead \/ SettingsPut \/ Counted \/ Removed
  BY <1>8 DEF SettingsRead, SettingsMissing, MappingRead, SettingsPut, Counted, Removed
<1>9. CASE \E a \in Aliases : AliasDropped(a) \/ AliasAdded(a)
  BY <1>9 DEF AliasDropped, AliasAdded, TypeOK
<1>10. CASE Elsewhere \/ UNCHANGED vars
  BY <1>10
  DEF Elsewhere, Refreshed, EmptiedElsewhere, RolledOver, RemovedElsewhere,
      SettingElsewhere, AliasElsewhere, vars, handler
<1>11. QED
  BY <1>1, <1>2, <1>3, <1>4, <1>5, <1>6, <1>7, <1>8, <1>9, <1>10 DEF Next, Core, Handler

(* The plan of every behaviour.                                              *)
LEMMA PlanAlways == Spec => []PlanHolds
<1>1. Init => PlanHolds
  BY DEF Init, PlanHolds
<1>2. QED
  BY <1>1, PlanKept, Invariant, PTL DEF Spec

(* What a Create, an Update and a Delete may do to index n. *)
Builds(n) ==
  /\ op = "create" /\ ~Exists(n)
  /\ indices'[n] = [setting |-> config.setting, aliases |-> config.aliases, there |-> TRUE]

Adjusts(n) ==
  /\ op = "update"
  /\ \/ /\ n = state.id
        /\ \/ \E a \in state.aliases \ config.aliases :
                indices'[n] = [indices[n] EXCEPT !.aliases = @ \ {a}]
           \/ \E a \in config.aliases :
                indices'[n] = [indices[n] EXCEPT !.aliases = @ \cup {a}]
     \/ /\ n = state.id \/ ByAlias
        /\ indices'[n] = [indices[n] EXCEPT !.setting = config.setting]

Destroys(n) == op = "delete" /\ n \in writers \cup {state.id} /\ indices'[n] = Absent

IndexStep ==
  Handler => \A n \in Indices : indices'[n] # indices[n] => Builds(n) \/ Adjusts(n) \/ Destroys(n)

ChangesOnlyItsOwn == [][IndexStep]_vars

(* A handler makes an index only under a name that is free; an Update makes  *)
(* none, takes from the index of the entry only aliases that the             *)
(* configuration dropped, gives it only those of the configuration, and      *)
(* sends the settings of the configuration to another index only where the   *)
(* entry has or is given a rollover alias; a refresh changes nothing.        *)
THEOREM KeepsToItsOwn == Spec => ChangesOnlyItsOwn
<1>1. ASSUME IInv, PlanHolds, Handler, NEW n \in Indices, indices'[n] # indices[n]
      PROVE  Builds(n) \/ Adjusts(n) \/ Destroys(n)
  <2>1. TypeOK /\ Control /\ SentAliases /\ Own
    BY <1>1 DEF IInv
  <2>2. CASE pc = "create" /\ \E m \in Indices : Built(m)
    <3>1. PICK m \in Indices : Built(m)
      BY <2>2
    <3>2. n = m
      BY <1>1, <2>1, <3>1 DEF Built, TypeOK
    <3>3. d.setting = config.setting
      BY <1>1, <2>2 DEF PlanHolds
    <3>4. QED
      BY <2>1, <2>2, <3>1, <3>2, <3>3 DEF Built, Builds, Control, TypeOK
  <2>3. CASE pc = "aliases" /\ indices' # indices
    <3>1. op = "update" /\ d.id = state.id /\ d.id \in Indices
      BY <2>1, <2>3, IndicesAssumption DEF Control
    <3>2. d.drop \subseteq state.aliases \ config.aliases /\ d.add \subseteq config.aliases
      BY <2>1, <3>1 DEF SentAliases
    <3>3. \E a \in Aliases :
            \/ /\ a \in d.drop /\ a \in indices[d.id].aliases
               /\ indices' = [indices EXCEPT ![d.id].aliases = @ \ {a}]
            \/ /\ a \in d.add /\ Exists(d.id)
               /\ indices' = [indices EXCEPT ![d.id].aliases = @ \cup {a}]
      BY <1>1, <2>1, <2>3
      DEF Handler, Created, CreateUnanswered, CreateFails, LookedUp, LookupFails, SettingsRead,
          SettingsMissing, MappingRead, ReadFails, AliasDropped, AliasAdded, AliasFails,
          SettingsPut, PutFails, Counted, Refused, Removed, RemoveFails, TypeOK
    <3>4. n = d.id
      BY <1>1, <2>1, <3>1, <3>3 DEF TypeOK
    <3>5. \/ \E a \in d.drop : indices'[n] = [indices[n] EXCEPT !.aliases = @ \ {a}]
          \/ \E a \in d.add : indices'[n] = [indices[n] EXCEPT !.aliases = @ \cup {a}]
      BY <2>1, <3>3, <3>4 DEF TypeOK
    <3>6. QED
      BY <3>1, <3>2, <3>4, <3>5 DEF Adjusts
  <2>4. CASE pc = "put" /\ Exists(d.target)
             /\ indices' = [indices EXCEPT ![d.target].setting = d.setting]
    <3>1. n = d.target
      BY <1>1, <2>1, <2>4 DEF TypeOK, Control
    <3>2. d.setting = config.setting
      BY <1>1, <2>4 DEF PlanHolds
    <3>3. n = state.id \/ ByAlias
      BY <2>1, <2>4, <3>1, IndicesAssumption DEF Control
    <3>4. QED
      BY <2>1, <2>4, <3>1, <3>2, <3>3 DEF Adjusts, Control, TypeOK
  <2>5. CASE pc = "remove" /\ Deleted
    BY <1>1, <2>1, <2>5 DEF Deleted, Destroys, Own, Control, TypeOK
  <2>6. CASE indices' = indices
    BY <1>1, <2>6
  <2>7. QED
    BY <1>1, <2>2, <2>3, <2>4, <2>5, <2>6
    DEF Handler, Created, CreateUnanswered, CreateFails, LookedUp, LookupFails, SettingsRead,
        SettingsMissing, MappingRead, ReadFails, AliasDropped, AliasAdded, AliasFails,
        SettingsPut, PutFails, Counted, Refused, Removed, RemoveFails
<1>2. IInv /\ PlanHolds /\ [Next]_vars => [IndexStep]_vars
  BY <1>1 DEF IndexStep
<1>3. QED
  BY <1>2, Invariant, PlanAlways, PTL DEF Spec, ChangesOnlyItsOwn
=============================================================================
