-------------------------- MODULE PolicyMappingProofs --------------------------
(***************************************************************************)
(* Proofs about PolicyMapping, for every set of indices and policies.      *)
(*                                                                         *)
(* The properties speak of the moment when core records an entry; the      *)
(* invariant carries what Read saw until then: that no index had the       *)
(* policy (Bareness), or which ones had it (Seen).                         *)
(***************************************************************************)
EXTENDS PolicyMapping, Naturals, TLAPS

Found == Carriers(m.indexes, m.policy, policyOf)

(* Which operation is at which step, and what it holds there.                *)
Control ==
  /\ mpc = "idle" <=> mop = "none"
  /\ mop = "create" => ~Mapped
  /\ mop \in {"refresh", "update", "delete"} => Mapped
  /\ mpc = "post" => mop \in {"create", "update", "delete"}
  /\ mpc = "count" => mop \in {"create", "update"}
  /\ mpc = "read" => mop \in {"create", "refresh", "update"}
  /\ mop = "update" /\ mpc # "done" => m.id # {}
  /\ mop = "create" /\ mpc # "done" => m.id = {}

(* Read is to look in vain, or has: no index had the policy.                 *)
Bareness ==
  /\ mpc = "read" /\ Found = {} => bare
  /\ mpc = "done" /\ mop # "delete" /\ m.id = {} => bare

(* What Read found is there as long as no policy changes.                    *)
Seen ==
  mpc = "done" /\ ~stirred /\ m.id # {} =>
    m.id = m.indexes /\ m.managed = Found /\ Found # {}

IInv == MappingTypeOK /\ Control /\ Bareness /\ Seen

-----------------------------------------------------------------------------
(* Entries *)

(* The empty entry.                                                          *)
LEMMA NoMappingTyped == NoMapping \in MappingData /\ NoMapping.id = {}
  BY DEF NoMapping, MappingData

(* An update of the attributes is an entry with the same ID.                 *)
LEMMA Planned ==
  ASSUME NEW data \in MappingData, NEW indexes \in Patterns, NEW policy \in Policies
  PROVE  /\ [data EXCEPT !.indexes = indexes, !.policy = policy] \in MappingData
         /\ [data EXCEPT !.indexes = indexes, !.policy = policy].id = data.id
<1>1. indexes \in SUBSET Targets
  BY DEF Patterns
<1>2. QED
  BY <1>1 DEF MappingData

(* What a read makes of an entry.                                            *)
LEMMA ReadTyped ==
  ASSUME NEW data \in MappingData
  PROVE  /\ ReadInto(data) \in MappingData
         /\ ReadInto(data).indexes = data.indexes
         /\ ReadInto(data).policy = data.policy
         /\ Carriers(data.indexes, data.policy, policyOf) = {} => ReadInto(data).id = {}
         /\ Carriers(data.indexes, data.policy, policyOf) # {} =>
              /\ ReadInto(data).id = data.indexes
              /\ ReadInto(data).managed = Carriers(data.indexes, data.policy, policyOf)
<1> DEFINE found == Carriers(data.indexes, data.policy, policyOf)
<1>1. found \in SUBSET Targets
  BY DEF Carriers, MappingData
<1>2. ReadInto(data) = IF found = {} THEN [data EXCEPT !.id = {}]
                       ELSE [data EXCEPT !.id = data.indexes, !.managed = found]
  BY DEF ReadInto
<1> HIDE DEF found
<1>3. QED
  BY <1>1, <1>2 DEF MappingData, found

(* An index with the policy is one of the pattern, so the pattern has one.   *)
LEMMA FoundSome == Found # {} => m.indexes # {}
  BY DEF Found, Carriers

(* After an error: the planned data of a Create or an Update.                *)
LEMMA FailedKeeps ==
  ASSUME IInv, NEW data \in MappingData, MappingFailed(data), policyOf' = policyOf,
         queued' = queued
  PROVE  IInv'
<1>1. mapping' \in MappingData
  <2>1. [data EXCEPT !.tainted = (mop = "create")] \in MappingData
    BY DEF MappingData
  <2>2. QED
    BY <2>1, NoMappingTyped DEF MappingFailed, IInv, MappingTypeOK
<1>2. MappingTypeOK'
  BY <1>1, NoMappingTyped DEF IInv, MappingTypeOK, MappingFailed, MappingIdle
<1>3. QED
  BY <1>2 DEF IInv, Control, Bareness, Seen, MappingFailed, MappingIdle

(* The initial states satisfy the invariant.                                 *)
LEMMA Initially == MappingInit => IInv
<1> SUFFICES ASSUME MappingInit PROVE IInv
  OBVIOUS
<1>1. /\ policyOf \in [Targets -> {NoPolicy, NoTarget}]
      /\ queued = [n \in Targets |-> NoPolicy]
      /\ mapping = NoMapping /\ m = NoMapping
      /\ mpc = "idle" /\ mop = "none"
  BY Zenon DEF MappingInit
<1>2. bare \in BOOLEAN /\ stirred \in BOOLEAN
  BY Zenon DEF MappingInit
<1>3. policyOf \in [Targets -> Policies \cup {NoPolicy, NoTarget}]
  BY <1>1
<1>4. MappingTypeOK
  BY <1>1, <1>2, <1>3, NoMappingTyped DEF MappingTypeOK
<1>5. QED
  BY <1>1, <1>4 DEF IInv, Control, Bareness, Seen

-----------------------------------------------------------------------------
(* The steps *)

(* A handler that starts with an entry of its operation.                     *)
LEMMA Starting ==
  ASSUME IInv, NEW o \in {"create", "refresh", "update", "delete"},
         NEW p \in {"post", "read"}, NEW data \in MappingData,
         MappingStarts(o, p, data),
         p = "read" <=> o = "refresh",
         o = "create" => ~Mapped /\ data.id = {},
         o # "create" => Mapped /\ data.id # {}
  PROVE  IInv'
<1>1. bare' = (p = "read" /\ Carriers(data.indexes, data.policy, policyOf) = {})
  BY DEF MappingStarts
<1>2. /\ mpc' = p /\ mop' = o /\ m' = data
      /\ UNCHANGED <<policyOf, queued, mapping>>
  BY DEF MappingStarts
<1>3. bare' \in BOOLEAN /\ stirred' \in BOOLEAN
  BY Zenon DEF MappingStarts
<1>4. MappingTypeOK'
  BY <1>2, <1>3 DEF IInv, MappingTypeOK
<1>5. Control'
  BY <1>2 DEF IInv, Control, Mapped
<1>6. Bareness'
  BY <1>1, <1>2 DEF Bareness, Found
<1>7. Seen'
  BY <1>2 DEF Seen
<1>8. QED
  BY <1>4, <1>5, <1>6, <1>7 DEF IInv

(* Create, refresh, Update and Delete start so.                              *)
LEMMA StartStep ==
  ASSUME IInv, \/ StartMappingCreate \/ StartMappingRefresh
               \/ StartMappingUpdate \/ StartMappingDelete
  PROVE  IInv'
<1>1. CASE StartMappingCreate
  <2> PICK indexes \in Patterns, policy \in Policies :
        MappingStarts("create", "post", [NoMapping EXCEPT !.indexes = indexes, !.policy = policy])
    BY <1>1 DEF StartMappingCreate
  <2>1. QED
    BY <1>1, Planned, NoMappingTyped, Starting DEF StartMappingCreate
<1>2. CASE StartMappingRefresh
  BY <1>2, Starting DEF StartMappingRefresh, IInv, MappingTypeOK, Mapped
<1>3. CASE StartMappingUpdate
  <2> PICK indexes \in Patterns, policy \in Policies :
        MappingStarts("update", "post", [mapping EXCEPT !.indexes = indexes, !.policy = policy])
    BY <1>3 DEF StartMappingUpdate
  <2>1. mapping \in MappingData /\ mapping.id # {}
    BY <1>3 DEF StartMappingUpdate, IInv, MappingTypeOK, Mapped
  <2>2. QED
    BY <1>3, <2>1, Planned, Starting DEF StartMappingUpdate
<1>4. CASE StartMappingDelete
  BY <1>4, Starting DEF StartMappingDelete, IInv, MappingTypeOK, Mapped
<1>5. QED
  BY <1>1, <1>2, <1>3, <1>4

(* The handler ends, and the entry is what it held.                          *)
LEMMA EndStep == ASSUME IInv, MappingReturn \/ MappingCrash PROVE IInv'
<1>1. mapping' \in MappingData
  BY NoMappingTyped DEF MappingReturn, MappingCrash, IInv, MappingTypeOK
<1>2. /\ UNCHANGED <<policyOf, queued>>
      /\ mpc' = "idle" /\ mop' = "none" /\ m' = NoMapping
  BY DEF MappingReturn, MappingCrash, MappingIdle
<1>3. bare' \in BOOLEAN /\ stirred' \in BOOLEAN
  BY Zenon DEF MappingReturn, MappingCrash, MappingIdle
<1>4. MappingTypeOK'
  BY <1>1, <1>2, <1>3, NoMappingTyped DEF IInv, MappingTypeOK
<1>5. QED
  BY <1>2, <1>4 DEF IInv, Control, Bareness, Seen

(* A policy changes: the history notices.                                    *)
LEMMA Noticing ==
  ASSUME IInv, Noticed, UNCHANGED <<mapping, mappingHandler>>,
         policyOf' \in [Targets -> Policies \cup {NoPolicy, NoTarget}],
         queued' \in [Targets -> Policies \cup {NoPolicy}]
  PROVE  IInv'
<1>1. /\ bare' = (bare \/ (mpc = "read" /\ Carriers(m.indexes, m.policy, policyOf') = {}))
      /\ stirred' = (stirred \/ (mpc = "done" /\ policyOf' # policyOf))
  BY DEF Noticed
<1>2. UNCHANGED <<mapping, mpc, mop, m>>
  BY DEF mappingHandler
<1>3. MappingTypeOK'
  <2>1. bare' \in BOOLEAN /\ stirred' \in BOOLEAN
    BY <1>1, Zenon
  <2>2. QED
    BY <1>2, <2>1 DEF IInv, MappingTypeOK
<1>4. Control'
  BY <1>2 DEF IInv, Control, Mapped
<1>5. Bareness'
  <2>1. bare => bare'
    BY <1>1, Zenon
  <2>2. mpc = "read" /\ Carriers(m.indexes, m.policy, policyOf') = {} => bare'
    BY <1>1, Zenon
  <2>3. Found' = Carriers(m.indexes, m.policy, policyOf')
    BY <1>2 DEF Found
  <2>4. QED
    BY <1>2, <2>1, <2>2, <2>3 DEF IInv, Bareness
<1>6. Seen'
  <2>1. CASE policyOf' = policyOf
    <3>1. stirred => stirred'
      BY <1>1, Zenon
    <3>2. Found' = Found
      BY <1>2, <2>1 DEF Found, Carriers
    <3>3. QED
      BY <1>2, <3>1, <3>2 DEF IInv, Seen
  <2>2. CASE policyOf' # policyOf
    <3>1. mpc = "done" => stirred'
      BY <1>1, <2>2, Zenon
    <3>2. QED
      BY <1>2, <3>1 DEF Seen
  <2>3. QED
    BY <2>1, <2>2
<1>7. QED
  BY <1>3, <1>4, <1>5, <1>6 DEF IInv

(* The plugin and other clients change policies.                             *)
LEMMA ElsewhereStep == ASSUME IInv, MappingElsewhere PROVE IInv'
<1> PICK n \in Targets : PolicyChanges(n) \/ IndexElsewhere(n)
  BY DEF MappingElsewhere
<1>1. /\ policyOf \in [Targets -> Policies \cup {NoPolicy, NoTarget}]
      /\ queued \in [Targets -> Policies \cup {NoPolicy}]
  BY DEF IInv, MappingTypeOK
<1>2. CASE PolicyChanges(n)
  <2>1. /\ policyOf' \in [Targets -> Policies \cup {NoPolicy, NoTarget}]
        /\ queued' \in [Targets -> Policies \cup {NoPolicy}]
    BY <1>1, <1>2 DEF PolicyChanges
  <2>2. QED
    BY <1>2, <2>1, Noticing DEF PolicyChanges
<1>3. CASE IndexElsewhere(n)
  <2>1. /\ policyOf' \in [Targets -> Policies \cup {NoPolicy, NoTarget}]
        /\ queued' \in [Targets -> Policies \cup {NoPolicy}]
    BY <1>1, <1>3 DEF IndexElsewhere
  <2>2. QED
    BY <1>3, <2>1, Noticing DEF IndexElsewhere
<1>4. QED
  BY <1>2, <1>3

(* A request keeps the types of what the plugin has.                         *)
LEMMA ExecutedTyped ==
  ASSUME IInv, mpc = "post", NEW ok \in SUBSET Targets, Executed(ok)
  PROVE  /\ policyOf' \in [Targets -> Policies \cup {NoPolicy, NoTarget}]
         /\ queued' \in [Targets -> Policies \cup {NoPolicy}]
<1>1. /\ m.policy \in Policies \cup {NoPolicy}
      /\ policyOf \in [Targets -> Policies \cup {NoPolicy, NoTarget}]
      /\ queued \in [Targets -> Policies \cup {NoPolicy}]
  BY DEF IInv, MappingTypeOK, MappingData
<1>2. Given(ok) \/ Queued(ok) \/ Taken(ok)
  BY DEF Executed
<1>3. QED
  BY <1>1, <1>2 DEF Given, Queued, Taken

(* The request was answered: Delete is done, the others ask for the policy.  *)
LEMMA PostedStep == ASSUME IInv, Posted PROVE IInv'
<1> PICK ok \in SUBSET Targets : Executed(ok)
  BY DEF Posted
<1>1. /\ policyOf' \in [Targets -> Policies \cup {NoPolicy, NoTarget}]
      /\ queued' \in [Targets -> Policies \cup {NoPolicy}]
  BY ExecutedTyped DEF Posted
<1>2. /\ mpc = "post" /\ UNCHANGED <<mapping, mop, bare, stirred>>
      /\ mpc' = (IF mop = "delete" THEN "done" ELSE "count")
      /\ m' = (IF mop = "delete" THEN NoMapping ELSE m)
  BY DEF Posted, mappingHistory
<1>3. MappingTypeOK'
  BY <1>1, <1>2, NoMappingTyped DEF IInv, MappingTypeOK
<1>4. Control'
  BY <1>2 DEF IInv, Control, Mapped
<1>5. Bareness' /\ Seen'
  BY <1>2, NoMappingTyped DEF IInv, Control, Bareness, Seen
<1>6. QED
  BY <1>3, <1>4, <1>5 DEF IInv

(* The request failed, whether or not it was executed.                       *)
LEMMA PostFailsStep == ASSUME IInv, PostFails PROVE IInv'
<1>1. /\ policyOf' \in [Targets -> Policies \cup {NoPolicy, NoTarget}]
      /\ queued' \in [Targets -> Policies \cup {NoPolicy}]
  BY ExecutedTyped DEF PostFails, IInv, MappingTypeOK
<1>2. mapping' \in MappingData
  <2>1. m \in MappingData /\ mapping \in MappingData
    BY DEF IInv, MappingTypeOK
  <2>2. [m EXCEPT !.tainted = (mop = "create")] \in MappingData
    BY <2>1 DEF MappingData
  <2>3. QED
    BY <2>1, <2>2, NoMappingTyped DEF PostFails, MappingFailed
<1>3. mpc' = "idle" /\ mop' = "none" /\ m' = NoMapping
  BY DEF PostFails, MappingFailed, MappingIdle
<1>4. bare' \in BOOLEAN /\ stirred' \in BOOLEAN
  BY Zenon DEF PostFails, MappingFailed, MappingIdle
<1>5. MappingTypeOK'
  BY <1>1, <1>2, <1>3, <1>4, NoMappingTyped DEF MappingTypeOK
<1>6. QED
  BY <1>3, <1>5 DEF IInv, Control, Bareness, Seen

(* An index has the policy, so that Read would find it.                      *)
LEMMA CountedStep == ASSUME IInv, Counted PROVE IInv'
<1>1. /\ mpc = "count" /\ mpc' = "read" /\ Found # {}
      /\ UNCHANGED <<policyOf, queued, mapping, mop, m, bare, stirred>>
  BY DEF Counted, Found, mappingHistory
<1>2. Found' = Found
  BY <1>1 DEF Found, Carriers
<1>3. MappingTypeOK'
  BY <1>1 DEF IInv, MappingTypeOK
<1>4. QED
  BY <1>1, <1>2, <1>3 DEF IInv, Control, Mapped, Bareness, Seen

(* Read looks: it finds some, or none and the history knows.                 *)
LEMMA MappingReadStep == ASSUME IInv, MappingRead PROVE IInv'
<1>1. /\ mpc = "read" /\ mpc' = "done" /\ m' = ReadInto(m) /\ m \in MappingData
      /\ UNCHANGED <<policyOf, queued, mapping, mop, bare, stirred>>
  BY DEF MappingRead, mappingHistory, IInv, MappingTypeOK
<1>2. /\ m' \in MappingData /\ m'.indexes = m.indexes /\ m'.policy = m.policy
      /\ Found = {} => m'.id = {}
      /\ Found # {} => m'.id = m.indexes /\ m'.managed = Found
  BY <1>1, ReadTyped DEF Found
<1>3. Found' = Found
  BY <1>1, <1>2 DEF Found, Carriers
<1>4. MappingTypeOK'
  BY <1>1, <1>2 DEF IInv, MappingTypeOK
<1>5. Control'
  BY <1>1 DEF IInv, Control, Mapped
<1>6. Bareness'
  BY <1>1, <1>2, FoundSome DEF IInv, Bareness
<1>7. Seen'
  BY <1>1, <1>2, <1>3 DEF Seen
<1>8. QED
  BY <1>4, <1>5, <1>6, <1>7 DEF IInv

(* Errors and the end of the retry.                                          *)
LEMMA ErrorStep == ASSUME IInv, MappingReadFails \/ RetryExpires PROVE IInv'
<1>1. /\ m \in MappingData /\ ReadInto(m) \in MappingData
      /\ [m EXCEPT !.id = ReadInto(m).id] \in MappingData
  <2>1. m \in MappingData
    BY DEF IInv, MappingTypeOK
  <2>2. ReadInto(m) \in MappingData
    BY <2>1, ReadTyped
  <2>3. ReadInto(m).id \in SUBSET Targets
    BY <2>2 DEF MappingData
  <2>4. QED
    BY <2>1, <2>2, <2>3 DEF MappingData
<1>2. /\ \/ MappingFailed(m) \/ MappingFailed(ReadInto(m))
         \/ MappingFailed([m EXCEPT !.id = ReadInto(m).id])
      /\ policyOf' = policyOf /\ queued' = queued
  BY DEF MappingReadFails, RetryExpires
<1>3. QED
  BY <1>1, <1>2, FailedKeeps

(* Every step keeps the invariant.                                           *)
LEMMA NextStep == ASSUME IInv, [MappingNext]_mappingVars PROVE IInv'
<1>1. CASE MappingHandler
  BY <1>1, PostedStep, PostFailsStep, CountedStep, MappingReadStep, ErrorStep, EndStep
     DEF MappingHandler
<1>2. CASE MappingCore
  BY <1>2, StartStep, EndStep DEF MappingCore
<1>3. CASE MappingElsewhere
  BY <1>3, ElsewhereStep
<1>4. CASE UNCHANGED mappingVars
  BY <1>4 DEF mappingVars, mappingHandler, mappingHistory, IInv, MappingTypeOK, Control, Mapped,
     Bareness, Seen, Found, Carriers
<1>5. QED
  BY <1>1, <1>2, <1>3, <1>4 DEF MappingNext

-----------------------------------------------------------------------------

(* The invariant of every behaviour.                                         *)
THEOREM Invariance == MappingSpec => []IInv
<1>1. IInv /\ [MappingNext]_mappingVars => IInv'
  BY NextStep
<1>2. QED
  BY <1>1, Initially, PTL DEF MappingSpec

(* Every variable keeps its type: a request about some indices does not lose *)
(* the others, and no error leaves half an entry.                            *)
THEOREM MappingTypeCorrect == MappingSpec => []MappingTypeOK
<1>1. IInv => MappingTypeOK
  BY DEF IInv
<1>2. QED
  BY <1>1, Invariance, PTL

(* managed_indexes is what Read saw, and not empty.                          *)
THEOREM ManagedSeen == MappingSpec => ManagedIsSeen
<1>1. IInv /\ [MappingNext]_mappingVars =>
        [MappingReturn /\ m.id # {} /\ ~stirred
           => /\ mapping'.id = mapping'.indexes
              /\ mapping'.managed = {n \in mapping'.indexes : policyOf[n] = mapping'.policy}
              /\ mapping'.managed # {}]_mappingVars
  <2> SUFFICES ASSUME IInv, MappingReturn, m.id # {}, ~stirred
               PROVE  /\ mapping'.id = mapping'.indexes
                      /\ mapping'.managed = {n \in mapping'.indexes : policyOf[n] = mapping'.policy}
                      /\ mapping'.managed # {}
    OBVIOUS
  <2>1. mapping' = m /\ mpc = "done"
    BY DEF MappingReturn
  <2>2. m.id = m.indexes /\ m.managed = Found /\ Found # {}
    BY <2>1 DEF IInv, Seen
  <2>3. QED
    BY <2>1, <2>2 DEF Found, Carriers
<1>2. QED
  BY <1>1, Invariance, PTL DEF MappingSpec, ManagedIsSeen

(* An entry is forgotten after a destroy, or a moment without the policy.    *)
THEOREM ForgottenWasBare == MappingSpec => ForgetsOnlyBare
<1>1. IInv /\ [MappingNext]_mappingVars =>
        [Mapped /\ mapping'.id = {} => mop = "delete" \/ bare]_mappingVars
  <2> SUFFICES ASSUME IInv, MappingNext, Mapped, mapping'.id = {}, mop # "delete"
               PROVE  bare
    OBVIOUS
  <2>1. mapping' # mapping
    BY DEF Mapped
  <2>2. CASE MappingReturn
    <3>1. mpc = "done" /\ m.id = {}
      BY <2>2 DEF MappingReturn
    <3>2. QED
      BY <3>1 DEF IInv, Bareness
  <2>3. m \in MappingData
    BY DEF IInv, MappingTypeOK
  <2>4. ASSUME NEW data \in MappingData, MappingFailed(data)
        PROVE  mop = "update" /\ data.id = {}
    <3>1. mop = "update"
      BY <2>1, <2>4 DEF MappingFailed, IInv, Control
    <3>2. data.id # {} => mapping'.id = data.id
      BY <2>4, <3>1 DEF MappingFailed, MappingData
    <3>3. QED
      BY <3>1, <3>2
  <2>5. mpc # "done" => mop # "update" \/ m.id # {}
    BY DEF IInv, Control
  <2>6. CASE PostFails \/ MappingReadFails
    BY <2>3, <2>4, <2>5, <2>6 DEF PostFails, MappingReadFails
  <2>7. CASE RetryExpires
    <3>1. ~MappingFailed(m)
      BY <2>3, <2>4, <2>5, <2>7 DEF RetryExpires
    <3>2. ReadInto(m) \in MappingData /\ [m EXCEPT !.id = ReadInto(m).id] \in MappingData
      <4>1. ReadInto(m) \in MappingData
        BY <2>3, ReadTyped
      <4>2. ReadInto(m).id \in SUBSET Targets
        BY <4>1 DEF MappingData
      <4>3. QED
        BY <2>3, <4>1, <4>2 DEF MappingData
    <3>3. mpc = "read" /\ ReadInto(m).id = {}
      <4>1. mpc = "read" /\ (\/ MappingFailed(ReadInto(m))
                             \/ MappingFailed([m EXCEPT !.id = ReadInto(m).id]))
        BY <2>7, <3>1 DEF RetryExpires
      <4>2. [m EXCEPT !.id = ReadInto(m).id].id = ReadInto(m).id
        BY <2>3 DEF MappingData
      <4>3. QED
        BY <2>4, <3>2, <4>1, <4>2
    <3>4. Found = {}
      BY <2>3, <3>3, ReadTyped, FoundSome DEF Found
    <3>5. QED
      BY <3>3, <3>4 DEF IInv, Bareness
  <2>8. mapping' = mapping \/ MappingReturn \/ PostFails \/ MappingReadFails \/ RetryExpires
    BY DEF MappingNext, MappingHandler, MappingCore, MappingElsewhere, Posted, Counted,
       MappingRead, StartMappingCreate, StartMappingRefresh, StartMappingUpdate,
       StartMappingDelete, MappingStarts, MappingCrash, PolicyChanges, IndexElsewhere,
       Mapped
  <2>9. QED
    BY <2>1, <2>2, <2>6, <2>7, <2>8
<1>2. QED
  BY <1>1, Invariance, PTL DEF MappingSpec, ForgetsOnlyBare

(* Every step of a handler takes it nearer to its return, whether or not an  *)
(* index ever gets the policy; while it asks again and again nothing else    *)
(* changes, and what the plugin and other clients do never sets it back.     *)
StepsAhead == [idle |-> 0, done |-> 1, read |-> 2, count |-> 3, post |-> 4]

Advances == StepsAhead[mpc'] < StepsAhead[mpc]

AdvanceStep ==
  /\ MappingHandler => Advances
  /\ mpc # "idle" => Advances \/ UNCHANGED mappingHandler

HandlersAdvance == [][AdvanceStep]_mappingVars

(* Both GETs and the POST of a mapping are left behind for good once they   *)
(* are answered.                                                            *)
THEOREM HandlersRunOut == MappingSpec => HandlersAdvance
<1>1. ASSUME IInv, MappingHandler PROVE Advances
  BY <1>1
  DEF MappingHandler, Posted, PostFails, Counted, MappingRead, MappingReadFails, RetryExpires,
      MappingReturn, MappingFailed, MappingIdle, Advances, StepsAhead
<1>2. ASSUME IInv, MappingCore, mpc # "idle" PROVE Advances
  <2>1. mpc' = "idle"
    BY <1>2
    DEF MappingCore, StartMappingCreate, StartMappingRefresh, StartMappingUpdate,
        StartMappingDelete, MappingStarts, MappingCrash, MappingIdle
  <2>2. QED
    BY <1>2, <2>1 DEF IInv, MappingTypeOK, Advances, StepsAhead
<1>3. ASSUME MappingElsewhere \/ UNCHANGED mappingVars PROVE UNCHANGED mappingHandler
  BY <1>3 DEF MappingElsewhere, PolicyChanges, IndexElsewhere, mappingVars
<1>4. IInv /\ [MappingNext]_mappingVars => [AdvanceStep]_mappingVars
  BY <1>1, <1>2, <1>3 DEF AdvanceStep, MappingNext
<1>5. QED
  BY <1>4, Invariance, PTL DEF MappingSpec, HandlersAdvance
=============================================================================
