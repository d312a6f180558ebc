------------------------- MODULE CrudResourceProofs -------------------------
(***************************************************************************)
(* Proofs about CrudResource, for every set of objects and documents and   *)
(* any number of attempts, whichever kind the resource is.                 *)
(*                                                                         *)
(* What the handler holds is the object of the entry, or a new one while a *)
(* Create is on its way (Control); the handler drops it only after it was  *)
(* missing (Sighted), for good where the server chose the ID (Assigned);   *)
(* and what it read or wrote last is what the object holds until somebody  *)
(* interferes (EntryHolds, DataHolds).                                     *)
(***************************************************************************)
EXTENDS CrudResource, TLAPS

OnEntry == op \in {"refresh", "update", "delete"}

Control ==
  /\ pc = "idle" <=> op = "none"
  /\ pc = "idle" => d = NoData
  /\ pc = "check" => op = "create" /\ d.body \in Bodies
  /\ pc = "write" => op \in {"create", "update"} /\ d.body \in Bodies
  /\ pc = "get" => op \in {"create", "refresh", "update"} /\ d.id \in Ids
  /\ pc = "remove" => op = "delete" /\ d.id \in Ids
  /\ op = "create" => ~Tracked /\ (pc \in {"check", "write"} => d.id = NoId)
  /\ OnEntry => Tracked /\ d.id \in {state.id, NoId}
  /\ op = "update" /\ pc = "write" => d.id = state.id
  /\ op = "delete" /\ pc = "done" => d.id = NoId

(* An object of the entry that is missing, or dropped, was seen missing. *)
Sighted ==
  /\ op # "none" /\ Tracked /\ ~Exists(state.id) => gone
  /\ OnEntry /\ d.id = NoId => gone \/ kind.destroy = "nothing"

(* The server hands an ID out once, so that what is missing stays so. *)
Assigned ==
  kind.create = "post" =>
    /\ \A i \in Ids : Exists(i) => i \in used
    /\ OnEntry /\ d.id = NoId => ~Exists(state.id)

(* The entry is true until a write is tried; then d is, once it is answered. *)
EntryHolds ==
  /\ pc \in {"idle", "remove"} \/ (pc = "get" /\ op = "refresh")
  /\ Tracked /\ state.id \notin unseen
  => Agrees(state.body, state.id)

DataHolds ==
  /\ (pc \in {"get", "done"} /\ op \in {"create", "update"})
       \/ (pc = "done" /\ op = "refresh")
  /\ d.id \in Ids /\ d.id \notin unseen
  => Agrees(d.body, d.id)

IInv == TypeOK /\ Control /\ Sighted /\ Assigned /\ NothingLost /\ EntryHolds /\ DataHolds


-----------------------------------------------------------------------------
(* Constants and initial states *)

(* Every kind is one, and no two of its fields contradict each other. *)
Consistent(k) ==
  /\ k \in KindType
  /\ k.create = "post" => k.destroy # "nothing"
  /\ k.missing = "null" => k.updates

LEMMA KindFacts == ASSUME NEW k \in Kinds PROVE Consistent(k)
<1>1. Consistent(Monitor)
  BY DEF Consistent, KindType, Kind, Monitor
<1>2. Consistent(AnomalyDetection)
  BY DEF Consistent, KindType, Kind, AnomalyDetection
<1>3. Consistent(ChannelConfiguration)
  BY DEF Consistent, KindType, Kind, ChannelConfiguration
<1>4. Consistent(MLConnector)
  BY DEF Consistent, KindType, Kind, MLConnector
<1>5. Consistent(MLModelGroup)
  BY DEF Consistent, KindType, Kind, MLModelGroup
<1>6. Consistent(Script)
  BY DEF Consistent, KindType, Kind, Script
<1>7. Consistent(DataStream)
  BY DEF Consistent, KindType, Kind, DataStream
<1>8. Consistent(ComposableIndexTemplate)
  BY DEF Consistent, KindType, Kind, ComposableIndexTemplate
<1>9. Consistent(ComponentTemplate)
  BY DEF Consistent, KindType, Kind, ComponentTemplate
<1>10. Consistent(IndexTemplate)
  BY DEF Consistent, KindType, Kind, IndexTemplate
<1>11. Consistent(SnapshotRepository)
  BY DEF Consistent, KindType, Kind, SnapshotRepository
<1>12. Consistent(IngestPipeline)
  BY DEF Consistent, KindType, Kind, IngestPipeline
<1>13. Consistent(DashboardObject)
  BY DEF Consistent, KindType, Kind, DashboardObject
<1>14. Consistent(Role)
  BY DEF Consistent, KindType, Kind, Role
<1>15. Consistent(RolesMapping)
  BY DEF Consistent, KindType, Kind, RolesMapping
<1>16. Consistent(DashboardTenant)
  BY DEF Consistent, KindType, Kind, DashboardTenant
<1>17. Consistent(AuditConfig)
  BY DEF Consistent, KindType, Kind, AuditConfig
<1>18. QED
  BY <1>1, <1>2, <1>3, <1>4, <1>5, <1>6, <1>7, <1>8, <1>9, <1>10, <1>11, <1>12, <1>13,
     <1>14, <1>15, <1>16, <1>17 DEF Kinds

(* The empty entry and the empty data have their types; a try is possible. *)
LEMMA Constants ==
  /\ NoEntry \in [id : Ids \cup {NoId}, body : Documents, tainted : BOOLEAN]
  /\ NoData \in [id : Ids \cup {NoId}, body : Documents]
  /\ NoEntry.id = NoId /\ NoData.id = NoId
  /\ 1 \in 1..MaxTries /\ MaxTries \in Nat
  BY TriesAssumption DEF NoEntry, NoData, Documents

(* The initial states satisfy the invariant. *)
LEMMA Initially == Init => IInv
  BY Constants, IdsAssumption
  DEF Init, IInv, TypeOK, Control, Sighted, Assigned, NothingLost, EntryHolds, DataHolds,
      OnEntry, Tracked, Exists, Documents, NoEntry, NoData

(* What core writes after an error is an entry. *)
LEMMA FailedTyped ==
  ASSUME TypeOK, Failed
  PROVE  /\ state' \in [id : Ids \cup {NoId}, body : Documents, tainted : BOOLEAN]
         /\ pc' = "idle" /\ op' = "none" /\ tries' \in 1..MaxTries
         /\ d' \in [id : Ids \cup {NoId}, body : Documents]
<1> USE Constants DEF TypeOK
<1>1. CASE op = "update"
  BY <1>1 DEF Failed, Idle
<1>2. CASE op # "update" /\ op = "create" /\ d.id # NoId
  BY <1>2 DEF Failed, Idle
<1>3. CASE op # "update" /\ ~(op = "create" /\ d.id # NoId)
  BY <1>3 DEF Failed, Idle
<1>4. QED
  BY <1>1, <1>2, <1>3

(* So is what is left after a request without an answer. *)
LEMMA NoAnswerTyped ==
  ASSUME TypeOK, NoAnswer \/ Failed
  PROVE  /\ state' \in [id : Ids \cup {NoId}, body : Documents, tainted : BOOLEAN]
         /\ pc' \in {"idle", pc} /\ op' \in {"none", op} /\ tries' \in 1..MaxTries
         /\ d' \in [id : Ids \cup {NoId}, body : Documents]
<1>1. CASE Failed
  BY <1>1, FailedTyped
<1>2. CASE Again
  BY <1>2, Constants DEF TypeOK, Again
<1>3. QED
  BY <1>1, <1>2 DEF NoAnswer

(* A document is stored. *)
LEMMA PutTyped ==
  ASSUME TypeOK, NEW i \in Ids, NEW doc \in Documents, Put(i, doc)
  PROVE  server' \in [Ids -> Documents]
  BY DEF TypeOK, Put

(* A write goes to an object and stores a document of the user. *)
LEMMA ExecuteTyped ==
  ASSUME IInv, pc = "write", NEW i \in Targets, Execute(i)
  PROVE  /\ i \in Ids /\ d.body \in Bodies
         /\ server' \in [Ids -> Documents] /\ used' \subseteq Ids
         /\ server' = [server EXCEPT ![i] = d.body] /\ used' = used \cup {i}
<1>1. d.body \in Bodies
  BY DEF IInv, Control
<1>2. i \in Ids
  <2>1. CASE op = "update"
    BY <2>1, IdsAssumption DEF Targets, IInv, TypeOK, Control, OnEntry, Tracked
  <2>2. CASE op # "update"
    BY <2>2, IdsAssumption DEF Targets
  <2>3. QED
    BY <2>1, <2>2
<1>3. QED
  BY <1>1, <1>2, PutTyped DEF IInv, TypeOK, Execute, Put, Documents

-----------------------------------------------------------------------------
(* Every step preserves the invariant *)

(* A Create starts. *)
LEMMA StartCreateStep == ASSUME IInv, StartCreate PROVE IInv'
<1> USE KindFacts, Constants, IdsAssumption, BodiesAssumption
    DEF Consistent, IInv, TypeOK, cluster, core, handler, history
<1>1. TypeOK'
  BY DEF StartCreate, Start, Tracked, Documents
<1>2. Control'
  BY DEF StartCreate, Start, Tracked, Control, OnEntry
<1>3. Sighted'
  BY DEF StartCreate, Start, Tracked, Control, Sighted, OnEntry, Exists
<1>4. Assigned'
  BY DEF StartCreate, Start, Tracked, Control, Assigned, OnEntry, Exists
<1>5. NothingLost'
  BY DEF StartCreate, Start, Tracked, Control, Assigned, NothingLost, OnEntry, Exists
<1>6. EntryHolds'
  BY DEF StartCreate, Start, Tracked, Control, EntryHolds, DataHolds, OnEntry, Agrees,
     Exists
<1>7. DataHolds'
  BY DEF StartCreate, Start, Tracked, Control, EntryHolds, DataHolds, OnEntry, Agrees,
     Exists
<1>8. QED
  BY <1>1, <1>2, <1>3, <1>4, <1>5, <1>6, <1>7

(* A refresh starts. *)
LEMMA StartRefreshStep == ASSUME IInv, StartRefresh PROVE IInv'
<1> USE KindFacts, Constants, IdsAssumption, BodiesAssumption
    DEF Consistent, IInv, TypeOK, cluster, core, handler, history
<1>1. TypeOK'
  BY DEF StartRefresh, Start, Tracked, Known, Documents
<1>2. Control'
  BY DEF StartRefresh, Start, Tracked, Known, Control, OnEntry
<1>3. Sighted'
  BY DEF StartRefresh, Start, Tracked, Known, Control, Sighted, OnEntry, Exists
<1>4. Assigned'
  BY DEF StartRefresh, Start, Tracked, Known, Control, Assigned, OnEntry, Exists
<1>5. NothingLost'
  BY DEF StartRefresh, Start, Tracked, Known, Control, Assigned, NothingLost, OnEntry,
     Exists
<1>6. EntryHolds'
  BY DEF StartRefresh, Start, Tracked, Known, Control, EntryHolds, DataHolds, OnEntry,
     Agrees, Exists
<1>7. DataHolds'
  BY DEF StartRefresh, Start, Tracked, Known, Control, EntryHolds, DataHolds, OnEntry,
     Agrees, Exists
<1>8. QED
  BY <1>1, <1>2, <1>3, <1>4, <1>5, <1>6, <1>7

(* An Update starts. *)
LEMMA StartUpdateStep == ASSUME IInv, StartUpdate PROVE IInv'
<1> USE KindFacts, Constants, IdsAssumption, BodiesAssumption
    DEF Consistent, IInv, TypeOK, cluster, core, handler, history
<1>1. TypeOK'
  BY DEF StartUpdate, Start, Tracked, Known, Documents
<1>2. Control'
  BY DEF StartUpdate, Start, Tracked, Known, Control, OnEntry
<1>3. Sighted'
  BY DEF StartUpdate, Start, Tracked, Known, Control, Sighted, OnEntry, Exists
<1>4. Assigned'
  BY DEF StartUpdate, Start, Tracked, Known, Control, Assigned, OnEntry, Exists
<1>5. NothingLost'
  BY DEF StartUpdate, Start, Tracked, Known, Control, Assigned, NothingLost, OnEntry,
     Exists
<1>6. EntryHolds'
  BY DEF StartUpdate, Start, Tracked, Known, Control, EntryHolds, DataHolds, OnEntry,
     Agrees, Exists
<1>7. DataHolds'
  BY DEF StartUpdate, Start, Tracked, Known, Control, EntryHolds, DataHolds, OnEntry,
     Agrees, Exists
<1>8. QED
  BY <1>1, <1>2, <1>3, <1>4, <1>5, <1>6, <1>7

(* A Delete starts. *)
LEMMA StartDeleteStep == ASSUME IInv, StartDelete PROVE IInv'
<1> USE KindFacts, Constants, IdsAssumption, BodiesAssumption
    DEF Consistent, IInv, TypeOK, cluster, core, handler, history
<1>1. TypeOK'
  <2>1. CASE kind.destroy = "nothing"
    BY <2>1 DEF StartDelete, Start, Tracked, Known, Control, Documents
  <2>2. CASE kind.destroy # "nothing"
    <3>1. Tracked /\ Start("delete", "remove", Known)
      BY <2>2 DEF StartDelete
    <3>2. QED
      BY <3>1 DEF Start, Tracked, Known, Documents
  <2>3. QED
    BY <2>1, <2>2
<1>2. Control'
  BY DEF StartDelete, Start, Tracked, Known, NoData, Control, OnEntry
<1>3. Sighted'
  <2>1. CASE kind.destroy = "nothing"
    BY <2>1 DEF StartDelete, Start, Tracked, Known, Control, Sighted, OnEntry, Exists
  <2>2. CASE kind.destroy # "nothing"
    <3>1. Tracked /\ Start("delete", "remove", Known)
      BY <2>2 DEF StartDelete
    <3>2. QED
      BY <3>1 DEF Start, Tracked, Known, Control, Sighted, OnEntry, Exists
  <2>3. QED
    BY <2>1, <2>2
<1>4. Assigned'
  BY DEF StartDelete, Start, Tracked, Known, NoData, Control, Assigned, OnEntry, Exists
<1>5. NothingLost'
  BY DEF StartDelete, Start, Tracked, Known, NoData, Control, Assigned, NothingLost,
     OnEntry, Exists
<1>6. EntryHolds'
  BY DEF StartDelete, Start, Tracked, Known, NoData, Control, EntryHolds, DataHolds,
     OnEntry, Agrees, Exists
<1>7. DataHolds'
  BY DEF StartDelete, Start, Tracked, Known, NoData, Control, EntryHolds, DataHolds,
     OnEntry, Agrees, Exists
<1>8. QED
  BY <1>1, <1>2, <1>3, <1>4, <1>5, <1>6, <1>7

(* The user edits the configuration. *)
LEMMA EditConfigStep == ASSUME IInv, EditConfig PROVE IInv'
<1> USE KindFacts, Constants, IdsAssumption, BodiesAssumption
    DEF Consistent, IInv, TypeOK, cluster, core, handler, history
<1>1. TypeOK'
  BY DEF EditConfig, Documents
<1>2. Control'
  BY DEF EditConfig, Control, OnEntry, Tracked
<1>3. Sighted'
  BY DEF EditConfig, Control, Sighted, OnEntry, Tracked, Exists
<1>4. Assigned'
  BY DEF EditConfig, Control, Assigned, OnEntry, Tracked, Exists
<1>5. NothingLost'
  BY DEF EditConfig, Control, Assigned, NothingLost, OnEntry, Tracked, Exists
<1>6. EntryHolds'
  BY DEF EditConfig, Control, EntryHolds, DataHolds, OnEntry, Tracked, Agrees, Exists
<1>7. DataHolds'
  BY DEF EditConfig, Control, EntryHolds, DataHolds, OnEntry, Tracked, Agrees, Exists
<1>8. QED
  BY <1>1, <1>2, <1>3, <1>4, <1>5, <1>6, <1>7

(* A handler returned. *)
LEMMA ReturnStep == ASSUME IInv, Return PROVE IInv'
<1> USE KindFacts, Constants, IdsAssumption, BodiesAssumption
    DEF Consistent, IInv, TypeOK, cluster, core, handler, history
<1>1. TypeOK'
  BY DEF Return, Idle, NoEntry, NoData, Documents
<1>2. Control'
  BY DEF Return, Idle, NoEntry, NoData, Control, OnEntry, Tracked
<1>3. Sighted'
  BY DEF Return, Idle, NoEntry, NoData, Control, Sighted, OnEntry, Tracked, Exists
<1>4. Assigned'
  BY DEF Return, Idle, NoEntry, NoData, Control, Assigned, OnEntry, Tracked, Exists
<1>5. NothingLost'
  BY DEF Return, Idle, NoEntry, NoData, Control, Assigned, NothingLost, OnEntry, Tracked,
     Exists
<1>6. EntryHolds'
  BY DEF Return, Idle, NoEntry, NoData, Control, EntryHolds, DataHolds, OnEntry, Tracked,
     Agrees, Exists
<1>7. DataHolds'
  BY DEF Return, Idle, NoEntry, NoData, Control, EntryHolds, DataHolds, OnEntry, Tracked,
     Agrees, Exists
<1>8. QED
  BY <1>1, <1>2, <1>3, <1>4, <1>5, <1>6, <1>7

(* The process dies. *)
LEMMA CrashStep == ASSUME IInv, Crash PROVE IInv'
<1> USE KindFacts, Constants, IdsAssumption, BodiesAssumption
    DEF Consistent, IInv, TypeOK, cluster, core, handler, history
<1>1. TypeOK'
  BY DEF Crash, Idle, NoData, Documents
<1>2. Control'
  BY DEF Crash, Idle, NoData, Control, OnEntry, Tracked
<1>3. Sighted'
  BY DEF Crash, Idle, NoData, Control, Sighted, OnEntry, Tracked, Exists
<1>4. Assigned'
  BY DEF Crash, Idle, NoData, Control, Assigned, OnEntry, Tracked, Exists
<1>5. NothingLost'
  BY DEF Crash, Idle, NoData, Control, Assigned, NothingLost, OnEntry, Tracked, Exists
<1>6. EntryHolds'
  BY DEF Crash, Idle, NoData, Control, EntryHolds, DataHolds, OnEntry, Tracked, Agrees,
     Exists
<1>7. DataHolds'
  BY DEF Crash, Idle, NoData, Control, EntryHolds, DataHolds, OnEntry, Tracked, Agrees,
     Exists
<1>8. QED
  BY <1>1, <1>2, <1>3, <1>4, <1>5, <1>6, <1>7

(* Create looks the script up. *)
LEMMA CheckStep == ASSUME IInv, Check PROVE IInv'
<1> USE KindFacts, Constants, IdsAssumption, BodiesAssumption
    DEF Consistent, IInv, TypeOK, cluster, core, handler, history
<1>1. TypeOK'
  <2>1. CASE Exists(Name)
    BY <2>1, FailedTyped DEF Check
  <2>2. CASE ~Exists(Name)
    BY <2>2 DEF Check
  <2>3. QED
    BY <2>1, <2>2
<1>2. Control'
  BY DEF Check, Failed, Idle, NoData, Control, OnEntry, Tracked
<1>3. Sighted'
  BY DEF Check, Failed, Idle, NoData, Control, Sighted, OnEntry, Tracked, Exists
<1>4. Assigned'
  BY DEF Check, Failed, Idle, NoData, Control, Assigned, OnEntry, Tracked, Exists
<1>5. NothingLost'
  BY DEF Check, Failed, Idle, NoData, Control, Assigned, NothingLost, OnEntry, Tracked,
     Exists
<1>6. EntryHolds'
  BY DEF Check, Failed, Idle, NoData, Control, EntryHolds, DataHolds, OnEntry, Tracked,
     Agrees, Exists
<1>7. DataHolds'
  BY DEF Check, Failed, Idle, NoData, Control, EntryHolds, DataHolds, OnEntry, Tracked,
     Agrees, Exists
<1>8. QED
  BY <1>1, <1>2, <1>3, <1>4, <1>5, <1>6, <1>7

(* A write is answered. *)
LEMMA WrittenStep == ASSUME IInv, Written PROVE IInv'
<1> USE KindFacts, Constants, IdsAssumption, BodiesAssumption
    DEF Consistent, IInv, TypeOK, cluster, core, handler, history
<1>1. TypeOK'
  <2>1. PICK i \in Targets : Execute(i) /\ d' = [d EXCEPT !.id = i] /\ unseen' = unseen \ {i}
    BY DEF Written
  <2>2. QED
    BY <2>1, ExecuteTyped DEF Written
<1>2. Control'
  BY DEF Written, Execute, Accepts, Targets, Put, Control, OnEntry, Tracked
<1>3. Sighted'
  BY DEF Written, Execute, Accepts, Targets, Put, Control, Sighted, OnEntry, Tracked,
     Exists
<1>4. Assigned'
  BY DEF Written, Execute, Accepts, Targets, Put, Control, Assigned, OnEntry, Tracked,
     Exists
<1>5. NothingLost'
  BY DEF Written, Execute, Accepts, Targets, Put, Control, Assigned, NothingLost, OnEntry,
     Tracked, Exists
<1>6. EntryHolds'
  BY DEF Written, Execute, Accepts, Targets, Put, Control, EntryHolds, DataHolds, OnEntry,
     Tracked, Agrees, Exists
<1>7. DataHolds'
  BY DEF Written, Execute, Accepts, Targets, Put, Control, EntryHolds, DataHolds, OnEntry,
     Tracked, Agrees, Exists
<1>8. QED
  BY <1>1, <1>2, <1>3, <1>4, <1>5, <1>6, <1>7

(* A write is executed and not answered. *)
LEMMA WriteUnansweredStep == ASSUME IInv, WriteUnanswered PROVE IInv'
<1> USE KindFacts, Constants, IdsAssumption, BodiesAssumption
    DEF Consistent, IInv, TypeOK, cluster, core, handler, history
<1>1. TypeOK'
  <2>1. PICK i \in Targets : Execute(i) /\ lost' = (IF op = "create" THEN lost \cup {i} ELSE lost)
                                /\ unseen' = unseen \cup {i}
    BY DEF WriteUnanswered
  <2>2. QED
    BY <2>1, ExecuteTyped, NoAnswerTyped DEF WriteUnanswered
<1>2. Control'
  BY DEF WriteUnanswered, Execute, Accepts, Targets, Put, NoAnswer, Again, Failed, Idle,
     NoData, Control, OnEntry, Tracked
<1>3. Sighted'
  BY DEF WriteUnanswered, Execute, Accepts, Targets, Put, NoAnswer, Again, Failed, Idle,
     NoData, Control, Sighted, OnEntry, Tracked, Exists
<1>4. Assigned'
  BY DEF WriteUnanswered, Execute, Accepts, Targets, Put, NoAnswer, Again, Failed, Idle,
     NoData, Control, Assigned, OnEntry, Tracked, Exists
<1>5. NothingLost'
  BY DEF WriteUnanswered, Execute, Accepts, Targets, Put, NoAnswer, Again, Failed, Idle,
     NoData, Control, Assigned, NothingLost, OnEntry, Tracked, Exists
<1>6. EntryHolds'
  BY DEF WriteUnanswered, Execute, Accepts, Targets, Put, NoAnswer, Again, Failed, Idle,
     NoData, Control, EntryHolds, DataHolds, OnEntry, Tracked, Agrees, Exists
<1>7. DataHolds'
  BY DEF WriteUnanswered, Execute, Accepts, Targets, Put, NoAnswer, Again, Failed, Idle,
     NoData, Control, EntryHolds, DataHolds, OnEntry, Tracked, Agrees, Exists
<1>8. QED
  BY <1>1, <1>2, <1>3, <1>4, <1>5, <1>6, <1>7

(* A write fails. *)
LEMMA WriteFailsStep == ASSUME IInv, WriteFails PROVE IInv'
<1> USE KindFacts, Constants, IdsAssumption, BodiesAssumption
    DEF Consistent, IInv, TypeOK, cluster, core, handler, history
<1>1. TypeOK'
  BY NoAnswerTyped DEF WriteFails
<1>2. Control'
  BY DEF WriteFails, NoAnswer, Again, Failed, Idle, NoData, Control, OnEntry, Tracked
<1>3. Sighted'
  BY DEF WriteFails, NoAnswer, Again, Failed, Idle, NoData, Control, Sighted, OnEntry,
     Tracked, Exists
<1>4. Assigned'
  BY DEF WriteFails, NoAnswer, Again, Failed, Idle, NoData, Control, Assigned, OnEntry,
     Tracked, Exists
<1>5. NothingLost'
  BY DEF WriteFails, NoAnswer, Again, Failed, Idle, NoData, Control, Assigned, NothingLost,
     OnEntry, Tracked, Exists
<1>6. EntryHolds'
  BY DEF WriteFails, NoAnswer, Again, Failed, Idle, NoData, Control, EntryHolds, DataHolds,
     OnEntry, Tracked, Agrees, Exists
<1>7. DataHolds'
  BY DEF WriteFails, NoAnswer, Again, Failed, Idle, NoData, Control, EntryHolds, DataHolds,
     OnEntry, Tracked, Agrees, Exists
<1>8. QED
  BY <1>1, <1>2, <1>3, <1>4, <1>5, <1>6, <1>7

(* Read finds the object. *)
LEMMA FoundStep == ASSUME IInv, Found PROVE IInv'
<1> USE KindFacts, Constants, IdsAssumption, BodiesAssumption
    DEF Consistent, IInv, TypeOK, cluster, core, handler, history
<1>1. TypeOK'
  BY DEF Found, Control, Documents
<1>2. Control'
  BY DEF Found, Control, OnEntry, Tracked
<1>3. Sighted'
  BY DEF Found, Control, Sighted, OnEntry, Tracked, Exists
<1>4. Assigned'
  BY DEF Found, Control, Assigned, OnEntry, Tracked, Exists
<1>5. NothingLost'
  BY DEF Found, Control, Assigned, NothingLost, OnEntry, Tracked, Exists
<1>6. EntryHolds'
  BY DEF Found, Control, EntryHolds, DataHolds, OnEntry, Tracked, Agrees, Exists
<1>7. DataHolds'
  BY DEF Found, Control, EntryHolds, DataHolds, OnEntry, Tracked, Agrees, Exists
<1>8. QED
  BY <1>1, <1>2, <1>3, <1>4, <1>5, <1>6, <1>7

(* Read does not find the object. *)
LEMMA MissingStep == ASSUME IInv, Missing PROVE IInv'
<1> USE KindFacts, Constants, IdsAssumption, BodiesAssumption
    DEF Consistent, IInv, TypeOK, cluster, core, handler, history
<1>1. TypeOK'
  BY DEF Missing, NoData, Documents
<1>2. Control'
  BY DEF Missing, NoData, Control, OnEntry, Tracked
<1>3. Sighted'
  BY DEF Missing, NoData, Control, Sighted, OnEntry, Tracked, Exists
<1>4. Assigned'
  BY DEF Missing, NoData, Control, Assigned, OnEntry, Tracked, Exists
<1>5. NothingLost'
  BY DEF Missing, NoData, Control, Assigned, NothingLost, OnEntry, Tracked, Exists
<1>6. EntryHolds'
  BY DEF Missing, NoData, Control, EntryHolds, DataHolds, OnEntry, Tracked, Agrees, Exists
<1>7. DataHolds'
  BY DEF Missing, NoData, Control, EntryHolds, DataHolds, OnEntry, Tracked, Agrees, Exists
<1>8. QED
  BY <1>1, <1>2, <1>3, <1>4, <1>5, <1>6, <1>7

(* Read fails. *)
LEMMA GetFailsStep == ASSUME IInv, GetFails PROVE IInv'
<1> USE KindFacts, Constants, IdsAssumption, BodiesAssumption
    DEF Consistent, IInv, TypeOK, cluster, core, handler, history
<1>1. TypeOK'
  BY DEF GetFails, Failed, Idle, NoData, Documents
<1>2. Control'
  BY DEF GetFails, Failed, Idle, NoData, Control, OnEntry, Tracked
<1>3. Sighted'
  BY DEF GetFails, Failed, Idle, NoData, Control, Sighted, OnEntry, Tracked, Exists
<1>4. Assigned'
  BY DEF GetFails, Failed, Idle, NoData, Control, Assigned, OnEntry, Tracked, Exists
<1>5. NothingLost'
  BY DEF GetFails, Failed, Idle, NoData, Control, Assigned, NothingLost, OnEntry, Tracked,
     Exists
<1>6. EntryHolds'
  BY DEF GetFails, Failed, Idle, NoData, Control, EntryHolds, DataHolds, OnEntry, Tracked,
     Agrees, Exists
<1>7. DataHolds'
  BY DEF GetFails, Failed, Idle, NoData, Control, EntryHolds, DataHolds, OnEntry, Tracked,
     Agrees, Exists
<1>8. QED
  BY <1>1, <1>2, <1>3, <1>4, <1>5, <1>6, <1>7

(* The object is deleted. *)
LEMMA RemovedStep == ASSUME IInv, Removed PROVE IInv'
<1> USE KindFacts, Constants, IdsAssumption, BodiesAssumption
    DEF Consistent, IInv, TypeOK, cluster, core, handler, history
<1>1. TypeOK'
  BY DEF Removed, Put, Vanishes, NoData, Documents
<1>2. Control'
  BY DEF Removed, Put, Vanishes, NoData, Control, OnEntry, Tracked
<1>3. Sighted'
  BY DEF Removed, Put, Vanishes, NoData, Control, Sighted, OnEntry, Tracked, Exists
<1>4. Assigned'
  BY DEF Removed, Put, Vanishes, NoData, Control, Assigned, OnEntry, Tracked, Exists
<1>5. NothingLost'
  BY DEF Removed, Put, Vanishes, NoData, Control, Assigned, NothingLost, OnEntry, Tracked,
     Exists
<1>6. EntryHolds'
  BY DEF Removed, Put, Vanishes, NoData, Control, EntryHolds, DataHolds, OnEntry, Tracked,
     Agrees, Exists
<1>7. DataHolds'
  BY DEF Removed, Put, Vanishes, NoData, Control, EntryHolds, DataHolds, OnEntry, Tracked,
     Agrees, Exists
<1>8. QED
  BY <1>1, <1>2, <1>3, <1>4, <1>5, <1>6, <1>7

(* There is nothing to delete. *)
LEMMA RemoveMissingStep == ASSUME IInv, RemoveMissing PROVE IInv'
<1> USE KindFacts, Constants, IdsAssumption, BodiesAssumption
    DEF Consistent, IInv, TypeOK, cluster, core, handler, history
<1>1. TypeOK'
  <2>1. CASE kind.destroy = "ignore"
    BY <2>1 DEF RemoveMissing
  <2>2. CASE kind.destroy # "ignore"
    BY <2>2, FailedTyped DEF RemoveMissing
  <2>3. QED
    BY <2>1, <2>2
<1>2. Control'
  BY DEF RemoveMissing, Failed, Idle, NoData, Control, OnEntry, Tracked
<1>3. Sighted'
  BY DEF RemoveMissing, Failed, Idle, NoData, Control, Sighted, OnEntry, Tracked, Exists
<1>4. Assigned'
  BY DEF RemoveMissing, Failed, Idle, NoData, Control, Assigned, OnEntry, Tracked, Exists
<1>5. NothingLost'
  BY DEF RemoveMissing, Failed, Idle, NoData, Control, Assigned, NothingLost, OnEntry,
     Tracked, Exists
<1>6. EntryHolds'
  BY DEF RemoveMissing, Failed, Idle, NoData, Control, EntryHolds, DataHolds, OnEntry,
     Tracked, Agrees, Exists
<1>7. DataHolds'
  BY DEF RemoveMissing, Failed, Idle, NoData, Control, EntryHolds, DataHolds, OnEntry,
     Tracked, Agrees, Exists
<1>8. QED
  BY <1>1, <1>2, <1>3, <1>4, <1>5, <1>6, <1>7

(* A DELETE is executed and not answered. *)
LEMMA RemoveUnansweredStep == ASSUME IInv, RemoveUnanswered PROVE IInv'
<1> USE KindFacts, Constants, IdsAssumption, BodiesAssumption
    DEF Consistent, IInv, TypeOK, cluster, core, handler, history
<1>1. TypeOK'
  BY NoAnswerTyped, PutTyped DEF RemoveUnanswered, Vanishes, Control, Documents
<1>2. Control'
  BY DEF RemoveUnanswered, Put, Vanishes, NoAnswer, Again, Failed, Idle, NoData, Control,
     OnEntry, Tracked
<1>3. Sighted'
  BY DEF RemoveUnanswered, Put, Vanishes, NoAnswer, Again, Failed, Idle, NoData, Control,
     Sighted, OnEntry, Tracked, Exists
<1>4. Assigned'
  BY DEF RemoveUnanswered, Put, Vanishes, NoAnswer, Again, Failed, Idle, NoData, Control,
     Assigned, OnEntry, Tracked, Exists
<1>5. NothingLost'
  BY DEF RemoveUnanswered, Put, Vanishes, NoAnswer, Again, Failed, Idle, NoData, Control,
     Assigned, NothingLost, OnEntry, Tracked, Exists
<1>6. EntryHolds'
  BY DEF RemoveUnanswered, Put, Vanishes, NoAnswer, Again, Failed, Idle, NoData, Control,
     EntryHolds, DataHolds, OnEntry, Tracked, Agrees, Exists
<1>7. DataHolds'
  BY DEF RemoveUnanswered, Put, Vanishes, NoAnswer, Again, Failed, Idle, NoData, Control,
     EntryHolds, DataHolds, OnEntry, Tracked, Agrees, Exists
<1>8. QED
  BY <1>1, <1>2, <1>3, <1>4, <1>5, <1>6, <1>7

(* A DELETE fails. *)
LEMMA RemoveFailsStep == ASSUME IInv, RemoveFails PROVE IInv'
<1> USE KindFacts, Constants, IdsAssumption, BodiesAssumption
    DEF Consistent, IInv, TypeOK, cluster, core, handler, history
<1>1. TypeOK'
  BY NoAnswerTyped DEF RemoveFails
<1>2. Control'
  BY DEF RemoveFails, NoAnswer, Again, Failed, Idle, NoData, Control, OnEntry, Tracked
<1>3. Sighted'
  BY DEF RemoveFails, NoAnswer, Again, Failed, Idle, NoData, Control, Sighted, OnEntry,
     Tracked, Exists
<1>4. Assigned'
  BY DEF RemoveFails, NoAnswer, Again, Failed, Idle, NoData, Control, Assigned, OnEntry,
     Tracked, Exists
<1>5. NothingLost'
  BY DEF RemoveFails, NoAnswer, Again, Failed, Idle, NoData, Control, Assigned,
     NothingLost, OnEntry, Tracked, Exists
<1>6. EntryHolds'
  BY DEF RemoveFails, NoAnswer, Again, Failed, Idle, NoData, Control, EntryHolds,
     DataHolds, OnEntry, Tracked, Agrees, Exists
<1>7. DataHolds'
  BY DEF RemoveFails, NoAnswer, Again, Failed, Idle, NoData, Control, EntryHolds,
     DataHolds, OnEntry, Tracked, Agrees, Exists
<1>8. QED
  BY <1>1, <1>2, <1>3, <1>4, <1>5, <1>6, <1>7

(* Another client writes the object. *)
LEMMA WrittenElsewhereStep == ASSUME IInv, NEW i \in Ids, WrittenElsewhere(i) PROVE IInv'
<1> USE KindFacts, Constants, IdsAssumption, BodiesAssumption
    DEF Consistent, IInv, TypeOK, cluster, core, handler, history
<1>1. TypeOK'
  BY DEF WrittenElsewhere, Put, Documents
<1>2. Control'
  BY DEF WrittenElsewhere, Put, Control, OnEntry, Tracked
<1>3. Sighted'
  BY DEF WrittenElsewhere, Put, Control, Sighted, OnEntry, Tracked, Exists
<1>4. Assigned'
  BY DEF WrittenElsewhere, Put, Control, Assigned, OnEntry, Tracked, Exists
<1>5. NothingLost'
  BY DEF WrittenElsewhere, Put, Control, Assigned, NothingLost, OnEntry, Tracked, Exists
<1>6. EntryHolds'
  BY DEF WrittenElsewhere, Put, Control, EntryHolds, DataHolds, OnEntry, Tracked, Agrees,
     Exists
<1>7. DataHolds'
  BY DEF WrittenElsewhere, Put, Control, EntryHolds, DataHolds, OnEntry, Tracked, Agrees,
     Exists
<1>8. QED
  BY <1>1, <1>2, <1>3, <1>4, <1>5, <1>6, <1>7

(* Another client removes the object. *)
LEMMA RemovedElsewhereStep == ASSUME IInv, NEW i \in Ids, RemovedElsewhere(i) PROVE IInv'
<1> USE KindFacts, Constants, IdsAssumption, BodiesAssumption
    DEF Consistent, IInv, TypeOK, cluster, core, handler, history
<1>1. TypeOK'
  BY DEF RemovedElsewhere, Put, Vanishes, Documents
<1>2. Control'
  BY DEF RemovedElsewhere, Put, Vanishes, Control, OnEntry, Tracked
<1>3. Sighted'
  BY DEF RemovedElsewhere, Put, Vanishes, Control, Sighted, OnEntry, Tracked, Exists
<1>4. Assigned'
  BY DEF RemovedElsewhere, Put, Vanishes, Control, Assigned, OnEntry, Tracked, Exists
<1>5. NothingLost'
  BY DEF RemovedElsewhere, Put, Vanishes, Control, Assigned, NothingLost, OnEntry, Tracked,
     Exists
<1>6. EntryHolds'
  BY DEF RemovedElsewhere, Put, Vanishes, Control, EntryHolds, DataHolds, OnEntry, Tracked,
     Agrees, Exists
<1>7. DataHolds'
  BY DEF RemovedElsewhere, Put, Vanishes, Control, EntryHolds, DataHolds, OnEntry, Tracked,
     Agrees, Exists
<1>8. QED
  BY <1>1, <1>2, <1>3, <1>4, <1>5, <1>6, <1>7

(* Nothing happens. *)
LEMMA Stutter == ASSUME IInv, UNCHANGED vars PROVE IInv'
  BY DEF IInv, TypeOK, Control, Sighted, Assigned, NothingLost, EntryHolds, DataHolds, OnEntry,
     Tracked, Exists, Agrees, vars, cluster, core, handler, history

(* The invariant is inductive. *)
THEOREM Invariant == Spec => []IInv
<1>1. ASSUME IInv, [Next]_vars PROVE IInv'
  <2>1. CASE Handler
    BY <1>1, <2>1, CheckStep, WrittenStep, WriteUnansweredStep, WriteFailsStep, FoundStep,
       MissingStep, GetFailsStep, RemovedStep, RemoveMissingStep, RemoveUnansweredStep,
       RemoveFailsStep
    DEF Handler
  <2>2. CASE Core
    BY <1>1, <2>2, StartCreateStep, StartRefreshStep, StartUpdateStep, StartDeleteStep,
       EditConfigStep, ReturnStep, CrashStep
    DEF Core
  <2>3. CASE Elsewhere
    BY <1>1, <2>3, WrittenElsewhereStep, RemovedElsewhereStep DEF Elsewhere
  <2>4. CASE UNCHANGED vars
    BY <1>1, <2>4, Stutter
  <2>5. QED
    BY <1>1, <2>1, <2>2, <2>3, <2>4 DEF Next
<1>2. QED
  BY <1>1, Initially, PTL DEF Spec

-----------------------------------------------------------------------------
(* Properties *)

(* Every variable keeps its type; no request is sent more than MaxTries      *)
(* times.                                                                    *)
THEOREM TypeCorrect == Spec => []TypeOK
<1>1. IInv => TypeOK
  BY DEF IInv
<1>2. QED
  BY <1>1, Invariant, PTL

(* Once d.SetId has run, no error of a handler loses the object whose ID the *)
(* server chose.                                                             *)
THEOREM CreatedIsNotLost == Spec => []NothingLost
<1>1. IInv => NothingLost
  BY DEF IInv
<1>2. QED
  BY <1>1, Invariant, PTL

(* After a successful handler the entry says what the object holds, until    *)
(* something changes the object or tries to.                                 *)
THEOREM RecordedIsTrue == Spec => []EntryIsTrue
<1>1. IInv => EntryIsTrue
  BY DEF IInv, EntryHolds, EntryIsTrue
<1>2. QED
  BY <1>1, Invariant, PTL

(* An entry leaves the state file only if its object was missing during the  *)
(* operation that drops it.                                                  *)
THEOREM ForgottenWasGone == Spec => ForgetsOnlyGone
<1>1. ASSUME IInv, [Next]_vars, Tracked, state'.id = NoId
      PROVE  gone \/ kind.destroy = "nothing"
  <2> USE <1>1 DEF IInv, TypeOK, Control, OnEntry, Tracked
  <2>1. ~Failed
    BY IdsAssumption DEF Failed
  <2>2. Return
    BY <2>1
    DEF Next, Handler, Core, Elsewhere, Check, Written, WriteUnanswered, WriteFails, Found,
        Missing, GetFails, Removed, RemoveMissing, RemoveUnanswered, RemoveFails, NoAnswer,
        Again, StartCreate, StartRefresh, StartUpdate, StartDelete, Start, EditConfig, Crash,
        WrittenElsewhere, RemovedElsewhere, vars, core
  <2>3. d.id = NoId /\ op # "none"
    BY <2>2 DEF Return
  <2>4. QED
    BY <2>3 DEF Sighted
<1>2. IInv /\ [Next]_vars => [ForgetStep]_vars
  BY <1>1 DEF ForgetStep
<1>3. QED
  BY <1>2, Invariant, PTL DEF Spec, ForgetsOnlyGone

(* A POST, a Create with create=true and a new data stream change no object  *)
(* that exists.                                                              *)
THEOREM CreatesAreSafe == Spec => CreatesKeepOthers
<1>1. ASSUME IInv, [Next]_vars, op = "create", kind.create \in {"post", "refuse"},
             handler' # handler, NEW i \in Ids, Exists(i)
      PROVE  server'[i] = server[i]
  <2> USE <1>1 DEF IInv, TypeOK, Control
  <2>1. CASE \E j \in Targets : Execute(j)
    <3>1. PICK j \in Targets : Execute(j)
      BY <2>1
    <3>2. j \in Ids /\ ~Exists(j)
      BY <3>1, IdsAssumption DEF Targets, Execute, Accepts, Assigned
    <3>3. QED
      BY <3>1, <3>2 DEF Execute, Put
  <2>2. CASE UNCHANGED server
    BY <2>2
  <2>3. QED
    BY <2>1, <2>2
    DEF Next, Handler, Core, Elsewhere, Check, Written, WriteUnanswered, WriteFails, Found,
        Missing, GetFails, Removed, RemoveMissing, RemoveUnanswered, RemoveFails,
        StartCreate, StartRefresh, StartUpdate, StartDelete, Start, EditConfig, Return, Crash,
        WrittenElsewhere, RemovedElsewhere, vars, cluster
<1>2. IInv /\ [Next]_vars => [CreateStep({"post", "refuse"})]_vars
  BY <1>1 DEF CreateStep
<1>3. QED
  BY <1>2, Invariant, PTL DEF Spec, CreatesKeepOthers

-----------------------------------------------------------------------------
(* What an apply leaves behind *)

(* The plan: what the handlers of an apply write is the configuration, *)
(* and the object says so until another client changes it.             *)
PlanHolds ==
  op \in {"create", "update"} =>
    /\ pc \in {"check", "write"} => d.body = config
    /\ pc = "get" => /\ kind.readsBack
                     /\ d.body = config
                     /\ d.id \notin unseen => server[d.id] = config
    /\ pc = "done" /\ ~kind.readsBack => d.id \in Ids /\ d.body = config

LEMMA PlanKept == ASSUME IInv, PlanHolds, [Next]_vars PROVE PlanHolds'
<1> USE IdsAssumption DEF IInv, TypeOK, Control, OnEntry, Tracked, PlanHolds, cluster, core,
                          handler, history
<1>1. CASE StartCreate \/ StartRefresh \/ StartUpdate \/ StartDelete
  BY <1>1 DEF StartCreate, StartRefresh, StartUpdate, StartDelete, Start, Known
<1>2. CASE EditConfig \/ Return \/ Crash
  BY <1>2 DEF EditConfig, Return, Crash, Idle
<1>3. CASE Written
  <2>1. PICK i \in Targets : Execute(i) /\ d' = [d EXCEPT !.id = i] /\ op' = op
    BY <1>3 DEF Written
  <2>2. i \in Ids
    BY <1>3, <2>1 DEF Targets, Written
  <2>3. server'[i] = d.body /\ d'.id = i /\ d'.body = d.body
    BY <2>1, <2>2 DEF Execute, Put
  <2>4. QED
    BY <1>3, <2>1, <2>2, <2>3 DEF Written
<1>4. CASE WriteUnanswered \/ WriteFails \/ RemoveUnanswered \/ RemoveFails
  BY <1>4
  DEF WriteUnanswered, WriteFails, RemoveUnanswered, RemoveFails, NoAnswer, Again, Failed, Idle
<1>5. CASE Check \/ GetFails
  BY <1>5 DEF Check, GetFails, Failed, Idle
<1>6. CASE Found \/ Missing
  BY <1>6 DEF Found, Missing
<1>7. CASE Removed \/ RemoveMissing
  BY <1>7 DEF Removed, RemoveMissing, Failed, Idle
<1>8. CASE Elsewhere
  BY <1>8 DEF Elsewhere, WrittenElsewhere, RemovedElsewhere, Put
<1>9. CASE UNCHANGED vars
  BY <1>9 DEF vars
<1>10. QED
  BY <1>1, <1>2, <1>3, <1>4, <1>5, <1>6, <1>7, <1>8, <1>9 DEF Next, Handler, Core

(* What a PUT or POST is about to carry, in every behaviour.                 *)
LEMMA Planned == Spec => []PlanHolds
<1>1. Init => PlanHolds
  BY DEF Init, PlanHolds
<1>2. IInv /\ PlanHolds /\ [Next]_vars => PlanHolds'
  BY PlanKept
<1>3. QED
  BY <1>1, <1>2, Invariant, PTL DEF Spec

(* An apply that returns no error leaves the configuration in the state: a   *)
(* handler that does not read back records what it sent, and the read-back   *)
(* of the others finds what was written, but for a change by another client  *)
(* between the two requests.                                                 *)
PlanStep ==
  op \in {"create", "update"} =>
    /\ Found /\ d.id \notin unseen => d'.body = config
    /\ Return /\ ~kind.readsBack => state'.body = config

PlanIsApplied == [][PlanStep]_vars

(* What an apply of any kind records is the configuration.                  *)
THEOREM AppliesThePlan == Spec => PlanIsApplied
<1>1. ASSUME IInv, PlanHolds, op \in {"create", "update"}, Found, d.id \notin unseen
      PROVE  d'.body = config
  BY <1>1 DEF IInv, TypeOK, PlanHolds, Found
<1>2. ASSUME IInv, PlanHolds, op \in {"create", "update"}, Return, ~kind.readsBack
      PROVE  state'.body = config
  BY <1>2, IdsAssumption DEF IInv, TypeOK, Control, PlanHolds, Return
<1>3. IInv /\ PlanHolds => PlanStep
  BY <1>1, <1>2 DEF PlanStep
<1>4. QED
  BY <1>3, Invariant, Planned, PTL DEF PlanIsApplied

(* A handler changes no object but its own: a Create the one it was given    *)
(* an ID for, or the name; any other the object of the entry. What it leaves *)
(* there is the configuration, or nothing when the resource is destroyed.    *)
OwnStep ==
  handler' # handler => \A i \in Ids : server'[i] # server[i] =>
    /\ op = "create" => IF kind.create = "post" THEN i \notin used ELSE i = Name
    /\ op # "create" => i = state.id
    /\ server'[i] = IF op = "delete" THEN NoBody ELSE config

ChangesOnlyItsOwn == [][OwnStep]_vars

(* No handler of any kind writes to, or deletes, an object of another       *)
(* entry.                                                                   *)
THEOREM KeepsToItsOwn == Spec => ChangesOnlyItsOwn
<1>1. ASSUME IInv, PlanHolds, [Next]_vars, handler' # handler,
             NEW i \in Ids, server'[i] # server[i]
      PROVE  /\ op = "create" => IF kind.create = "post" THEN i \notin used ELSE i = Name
             /\ op # "create" => i = state.id
             /\ server'[i] = IF op = "delete" THEN NoBody ELSE config
  <2> USE <1>1 DEF IInv, TypeOK, Control, OnEntry
  <2>1. CASE pc = "write" /\ \E j \in Targets : Execute(j)
    <3>1. PICK j \in Targets : Execute(j)
      BY <2>1
    <3>2. i = j /\ server'[i] = d.body
      BY <3>1 DEF Execute, Put
    <3>3. d.body = config
      BY <2>1 DEF PlanHolds
    <3>4. QED
      BY <2>1, <3>1, <3>2, <3>3 DEF Targets
  <2>2. CASE pc = "remove" /\ Put(d.id, NoBody)
    BY <2>2, IdsAssumption DEF Put
  <2>3. CASE UNCHANGED server
    BY <2>3
  <2>4. QED
    BY <2>1, <2>2, <2>3
    DEF Next, Handler, Core, Elsewhere, Check, Written, WriteUnanswered, WriteFails, Found,
        Missing, GetFails, Removed, RemoveMissing, RemoveUnanswered, RemoveFails,
        StartCreate, StartRefresh, StartUpdate, StartDelete, Start, EditConfig, Return, Crash,
        WrittenElsewhere, RemovedElsewhere, vars, cluster
<1>2. IInv /\ PlanHolds /\ [Next]_vars => [OwnStep]_vars
  BY <1>1 DEF OwnStep
<1>3. QED
  BY <1>2, Invariant, Planned, PTL DEF Spec, ChangesOnlyItsOwn

(* Every step of a handler takes it nearer to its return: it goes on to the  *)
(* next request, or uses up one of the attempts of the present one; nothing  *)
(* another client does sets it back.                                         *)
Left ==
  CASE pc = "idle" -> 0 [] pc = "done" -> 1 [] pc \in {"get", "remove"} -> 2
    [] pc = "write" -> 3 [] pc = "check" -> 4

Advances ==
  \/ Left' < Left
  \/ Left' = Left /\ tries' = tries + 1 /\ tries' <= MaxTries

AdvanceStep ==
  /\ Handler => Advances
  /\ pc # "idle" => Advances \/ UNCHANGED handler

HandlersAdvance == [][AdvanceStep]_vars

(* The Retrier of a kind gives up after MaxTries requests, so that its      *)
(* handlers run out of steps.                                               *)
THEOREM HandlersRunOut == Spec => HandlersAdvance
<1>1. ASSUME IInv, Handler PROVE Advances
  <2> USE <1>1, TriesAssumption DEF IInv, TypeOK, Advances, Left
  <2>1. Failed /\ pc # "idle" => Advances
    BY DEF Failed, Idle
  <2>2. NoAnswer /\ pc # "idle" => Advances
    <3>1. CASE Again /\ pc # "idle"
      BY <3>1 DEF Again
    <3>2. QED
      BY <2>1, <3>1 DEF NoAnswer
  <2>3. CASE Check
    <3>1. CASE Exists(Name)
      BY <2>1, <2>3, <3>1 DEF Check
    <3>2. CASE ~Exists(Name)
      BY <2>3, <3>2 DEF Check
    <3>3. QED
      BY <3>1, <3>2
  <2>4. CASE Written \/ Found \/ Missing \/ Removed
    BY <2>4 DEF Written, Found, Missing, Removed
  <2>5. CASE WriteUnanswered \/ WriteFails \/ RemoveUnanswered \/ RemoveFails
    BY <2>1, <2>2, <2>5 DEF WriteUnanswered, WriteFails, RemoveUnanswered, RemoveFails
  <2>6. CASE GetFails
    BY <2>1, <2>6 DEF GetFails
  <2>7. CASE RemoveMissing
    <3>1. CASE kind.destroy = "ignore"
      BY <2>7, <3>1 DEF RemoveMissing
    <3>2. CASE kind.destroy # "ignore"
      BY <2>1, <2>7, <3>2 DEF RemoveMissing
    <3>3. QED
      BY <3>1, <3>2
  <2>8. QED
    BY <2>3, <2>4, <2>5, <2>6, <2>7 DEF Handler
<1>2. ASSUME IInv, Core, pc # "idle" PROVE Advances
  BY <1>2
  DEF IInv, TypeOK, Core, StartCreate, StartRefresh, StartUpdate, StartDelete, Start,
      EditConfig, Return, Crash, Idle, Advances, Left
<1>3. ASSUME Elsewhere \/ UNCHANGED vars PROVE UNCHANGED handler
  BY <1>3 DEF Elsewhere, WrittenElsewhere, RemovedElsewhere, vars
<1>4. IInv /\ [Next]_vars => [AdvanceStep]_vars
  BY <1>1, <1>2, <1>3 DEF AdvanceStep, Next
<1>5. QED
  BY <1>4, Invariant, PTL DEF Spec, HandlersAdvance

-----------------------------------------------------------------------------
(* The resource implements TrackedObject *)

(* The IDs of the entry, of the handler and of lost objects were handed out: *)
(* the ID of a new object is none of them.                                   *)
Handed ==
  Assigns => state.id \in used \cup {NoId} /\ d.id \in used \cup {NoId} /\ lost \subseteq used

LEMMA HandedStep == ASSUME IInv, Handed, [Next]_vars PROVE Handed'
<1> USE IdsAssumption, Constants
    DEF IInv, TypeOK, Control, OnEntry, Tracked, Handed, Assigns, cluster, core, handler,
        history
<1>1. Failed => state'.id \in {state.id, d.id} /\ d'.id = NoId
  BY DEF Failed, Idle
<1>2. Again => state' = state /\ d' = d
  BY DEF Again
<1>3. CASE Written \/ WriteUnanswered
  <2>1. PICK i \in Targets : used' = used \cup {i} /\ lost' \subseteq lost \cup {i}
                               /\ d'.id \in {d.id, i, NoId} /\ state'.id \in {state.id, d.id}
    BY <1>1, <1>2, <1>3 DEF Written, WriteUnanswered, Execute, NoAnswer
  <2>2. QED
    BY <1>3, <2>1 DEF Written, WriteUnanswered
<1>4. CASE Return
  BY <1>4 DEF Return, Idle
<1>5. CASE Crash
  BY <1>5 DEF Crash, Idle
<1>6. CASE \/ Check \/ WriteFails \/ Found \/ Missing \/ GetFails
           \/ Removed \/ RemoveMissing \/ RemoveUnanswered \/ RemoveFails
  <2>1. UNCHANGED <<kind, used, lost>>
    BY <1>6
    DEF Check, WriteFails, Found, Missing, GetFails, Removed, RemoveMissing,
        RemoveUnanswered, RemoveFails
  <2>2. d'.id \in {d.id, NoId} /\ state'.id \in {state.id, d.id}
    BY <1>1, <1>2, <1>6
    DEF Check, WriteFails, Found, Missing, GetFails, Removed, RemoveMissing,
        RemoveUnanswered, RemoveFails, NoAnswer
  <2>3. QED
    BY <2>1, <2>2
<1>7. CASE StartCreate \/ StartRefresh \/ StartUpdate \/ StartDelete \/ EditConfig
  BY <1>7
  DEF StartCreate, StartRefresh, StartUpdate, StartDelete, Start, Known, EditConfig
<1>8. CASE Elsewhere \/ UNCHANGED vars
  BY <1>8 DEF Elsewhere, WrittenElsewhere, RemovedElsewhere, vars
<1>9. QED
  BY <1>3, <1>4, <1>5, <1>6, <1>7, <1>8 DEF Next, Handler, Core

LEMMA HandedOut == Spec => []Handed
<1>1. Init => Handed
  BY Constants DEF Init, Handed
<1>2. QED
  BY <1>1, HandedStep, Invariant, PTL DEF Spec

(* For a kind whose names the configuration chooses the mapping is constant. *)
LEMMA NamedMaps == ASSUME IInv, ~Assigns, [Next]_vars PROVE UNCHANGED Object!vars
<1>1. kind' = kind
  BY DEF Next, Handler, Core, Elsewhere, Check, Written, WriteUnanswered, WriteFails, Found,
         Missing, GetFails, Removed, RemoveMissing, RemoveUnanswered, RemoveFails,
         StartCreate, StartRefresh, StartUpdate, StartDelete, Start, EditConfig, Return,
         Crash, WrittenElsewhere, RemovedElsewhere, vars
<1>2. QED
  BY <1>1 DEF Assigns, Live, Entry, Held, Orphans, Object!vars

(* An error, or another attempt: a Create that has an ID hands it to the     *)
(* entry.                                                                    *)
LEMMA NoAnswerMaps ==
  ASSUME IInv, Assigns, NoAnswer \/ Failed, kind' = kind
  PROVE  \/ Entry' = Entry /\ Held' = Held
         \/ Held = {d.id} /\ d.id # NoId /\ Entry = NoId /\ Entry' = d.id /\ Held' = {}
<1> USE Constants DEF IInv, Control, Tracked, Assigns, Entry, Held
<1>1. CASE Again
  BY <1>1 DEF Again
<1>2. CASE Failed /\ op = "create" /\ d.id # NoId
  BY <1>2 DEF Failed, Idle
<1>3. CASE Failed /\ ~(op = "create" /\ d.id # NoId)
  BY <1>3 DEF Failed, Idle
<1>4. QED
  BY <1>1, <1>2, <1>3 DEF NoAnswer

(* A write makes an object, or changes one that exists. *)
LEMMA ExecuteMaps ==
  ASSUME IInv, Handed, Assigns, pc = "write", NEW i \in Targets, Execute(i), kind' = kind
  PROVE  /\ op = "create" => i \notin Live \cup Held \cup Orphans \cup {Entry}
         /\ op = "create" => Live' = Live \cup {i}
         /\ op # "create" => Live' = Live
         /\ i \in Ids /\ i # NoId
<1> USE IdsAssumption, BodiesAssumption
    DEF IInv, TypeOK, Control, Assigned, Handed, Assigns, Live, Held, Orphans, Entry,
        Exists
<1>1. i \in Ids /\ i # NoId /\ d.body \in Bodies /\ server' = [server EXCEPT ![i] = d.body]
  BY ExecuteTyped
<1>2. op = "create" => i \in Ids \ used
  BY DEF Targets
<1>3. op # "create" => Exists(i)
  BY DEF Execute, Accepts
<1>4. \A j \in Ids : Exists(j)' <=> Exists(j) \/ i = j
  BY <1>1
<1>5. op = "create" => i \notin Live \cup Held \cup Orphans \cup {Entry}
  BY <1>1, <1>2
<1>6. QED
  BY <1>1, <1>3, <1>4, <1>5

(* A deletion makes an object that exists vanish. *)
LEMMA PutMaps ==
  ASSUME IInv, Assigns, NEW i \in Ids, Exists(i), Put(i, NoBody), kind' = kind
  PROVE  i \in Live /\ Live' = Live \ {i}
  BY DEF IInv, TypeOK, Put, Exists, Assigns, Live

(* Every step of a handler is a step of TrackedObject, or none. *)
LEMMA HandlerMaps ==
  ASSUME IInv, Handed, Assigns, Handler PROVE [Object!Next]_(Object!vars)
<1> USE Constants, IdsAssumption DEF IInv, TypeOK, Control, OnEntry, Tracked, Assigns
<1>1. kind' = kind
  BY DEF Handler, Check, Written, WriteUnanswered, WriteFails, Found, Missing, GetFails,
         Removed, RemoveMissing, RemoveUnanswered, RemoveFails
<1>2. CASE Written
  <2>1. PICK i \in Targets : Execute(i) /\ d' = [d EXCEPT !.id = i]
    BY <1>2 DEF Written
  <2>2. Orphans' = Orphans /\ Entry' = Entry
    BY <1>1, <1>2 DEF Written, Orphans, Entry, core
  <2>3. CASE op = "create"
    <3>1. Held = {} /\ Held' = {i}
      BY <1>1, <1>2, <2>1, <2>3, ExecuteMaps DEF Written, Held
    <3>2. Object!Appear(i) /\ i \in Ids
      BY <1>1, <1>2, <2>1, <2>2, <2>3, <3>1, ExecuteMaps DEF Written, Object!Appear
    <3>3. QED
      BY <3>2 DEF Object!Next
  <2>4. CASE op # "create"
    <3>1. Held' = Held /\ Live' = Live
      BY <1>1, <1>2, <2>1, <2>4, ExecuteMaps DEF Written, Held
    <3>2. QED
      BY <2>2, <3>1 DEF Object!vars
  <2>5. QED
    BY <2>3, <2>4
<1>3. CASE WriteUnanswered
  <2>1. PICK i \in Targets : Execute(i) /\ lost' = IF op = "create" THEN lost \cup {i} ELSE lost
    BY <1>3 DEF WriteUnanswered
  <2>2. Held' = Held /\ Entry' = Entry
    BY <1>1, <1>3, NoAnswerMaps DEF WriteUnanswered, Held
  <2>3. CASE op = "create"
    <3>1. Object!Appear(i) /\ i \in Ids
      BY <1>1, <1>3, <2>1, <2>2, <2>3, ExecuteMaps
      DEF WriteUnanswered, Object!Appear, Orphans
    <3>2. QED
      BY <3>1 DEF Object!Next
  <2>4. CASE op # "create"
    BY <1>1, <1>3, <2>1, <2>2, <2>4, ExecuteMaps DEF WriteUnanswered, Orphans, Object!vars
  <2>5. QED
    BY <2>3, <2>4
<1>4. CASE Check \/ WriteFails \/ GetFails \/ RemoveFails
  <2>1. Live' = Live /\ Orphans' = Orphans
    BY <1>1, <1>4
    DEF Check, WriteFails, GetFails, RemoveFails, Live, Orphans, Exists, cluster, history
  <2>2. NoAnswer \/ Failed \/ UNCHANGED <<state, op, d>>
    BY <1>4 DEF Check, WriteFails, GetFails, RemoveFails
  <2>3. CASE Entry' = Entry /\ Held' = Held
    BY <2>1, <2>3 DEF Object!vars
  <2>4. CASE /\ Held = {d.id} /\ d.id # NoId /\ Entry = NoId
             /\ Entry' = d.id /\ Held' = {}
    <3>1. Object!Adopt(d.id) /\ d.id \in Ids
      BY <2>1, <2>4 DEF Object!Adopt
    <3>2. QED
      BY <3>1 DEF Object!Next
  <2>5. QED
    BY <1>1, <2>2, <2>3, <2>4, NoAnswerMaps DEF Entry, Held
<1>5. CASE Found
  BY <1>1, <1>5
  DEF Found, Live, Held, Entry, Orphans, Exists, Object!vars, cluster, core
<1>6. CASE Missing
  <2>1. Live' = Live /\ Orphans' = Orphans /\ Entry' = Entry
    BY <1>1, <1>6 DEF Missing, Live, Orphans, Entry, Exists, cluster, core
  <2>2. CASE op = "create" /\ d'.id = NoId
    <3>1. Held = {d.id} /\ Held' = {} /\ d.id \notin Live /\ d.id \in Ids
      BY <1>1, <1>6, <2>2 DEF Missing, Held, Live
    <3>2. Object!Discard(d.id)
      BY <2>1, <3>1 DEF Object!Discard
    <3>3. QED
      BY <3>1, <3>2 DEF Object!Next
  <2>3. CASE ~(op = "create" /\ d'.id = NoId)
    <3>1. Held' = Held
      BY <1>1, <1>6, <2>3 DEF Missing, Held
    <3>2. QED
      BY <2>1, <3>1 DEF Object!vars
  <2>4. QED
    BY <2>2, <2>3
<1>16. CASE Removed \/ RemoveUnanswered
  <2>1. d.id \in Live /\ Live' = Live \ {d.id} /\ Orphans' = Orphans
    BY <1>1, <1>16, PutMaps DEF Removed, RemoveUnanswered, Orphans
  <2>2. Held' = Held /\ Entry' = Entry
    <3>1. op = "delete" /\ op' # "create"
      BY <1>16 DEF Removed, RemoveUnanswered, NoAnswer, Again, Failed, Idle
    <3>2. state' = state
      BY <1>16, <3>1 DEF Removed, RemoveUnanswered, NoAnswer, Again, Failed, core
    <3>3. QED
      BY <1>1, <3>1, <3>2 DEF Held, Entry
  <2>3. Object!Vanish(d.id) /\ d.id \in Ids
    BY <1>16, <2>1, <2>2 DEF Removed, RemoveUnanswered, Object!Vanish
  <2>4. QED
    BY <2>3 DEF Object!Next
<1>7. CASE RemoveMissing
  <2>1. op = "delete" /\ op' # "create" /\ state' = state
    BY <1>7 DEF RemoveMissing, Failed, Idle
  <2>2. QED
    BY <1>1, <1>7, <2>1
    DEF RemoveMissing, Live, Held, Entry, Orphans, Exists, Object!vars, cluster, history
<1>8. QED
  BY <1>2, <1>3, <1>4, <1>5, <1>6, <1>16, <1>7 DEF Handler

(* So is every other step. *)
LEMMA RestMaps ==
  ASSUME IInv, Handed, Assigns, Core \/ Elsewhere \/ UNCHANGED vars
  PROVE  [Object!Next]_(Object!vars)
<1> USE Constants, IdsAssumption DEF IInv, TypeOK, Control, OnEntry, Tracked, Assigns
<1>1. kind' = kind
  BY DEF Core, Elsewhere, StartCreate, StartRefresh, StartUpdate, StartDelete, Start,
         EditConfig, Return, Crash, WrittenElsewhere, RemovedElsewhere, vars
<1>2. CASE Return
  <2>1. Live' = Live /\ Orphans' = Orphans /\ Held' = {} /\ Entry' = d.id
    BY <1>1, <1>2
    DEF Return, Idle, Live, Held, Orphans, Entry, Exists, cluster, history
  <2>2. CASE op = "create" /\ d.id # NoId
    <3>1. Object!Adopt(d.id) /\ d.id \in Ids
      BY <2>1, <2>2 DEF Object!Adopt, Held, Entry
    <3>2. QED
      BY <3>1 DEF Object!Next
  <2>3. CASE op # "create" /\ d.id = NoId
    <3>1. OnEntry /\ ~Exists(state.id) /\ Held = {}
      BY <1>2, <2>3 DEF Return, Assigned, Held
    <3>2. Object!Forget
      BY <2>1, <2>3, <3>1 DEF Object!Forget, Entry, Live
    <3>3. QED
      BY <3>2 DEF Object!Next
  <2>4. CASE op = "create" <=> d.id = NoId
    <3>1. Held = {} /\ Entry = d.id
      BY <1>2, <2>4 DEF Return, Held, Entry
    <3>2. QED
      BY <2>1, <3>1 DEF Object!vars
  <2>5. QED
    BY <2>2, <2>3, <2>4
<1>3. CASE Crash
  <2>1. Live' = Live /\ Held' = {} /\ Entry' = Entry
    BY <1>1, <1>3 DEF Crash, Idle, Live, Held, Entry, Exists, cluster, core
  <2>2. CASE op = "create" /\ d.id # NoId
    <3>1. Object!Lose(d.id) /\ d.id \in Ids
      BY <1>1, <1>3, <2>1, <2>2 DEF Crash, Object!Lose, Held, Orphans
    <3>2. QED
      BY <3>1 DEF Object!Next
  <2>3. CASE ~(op = "create" /\ d.id # NoId)
    BY <1>1, <1>3, <2>1, <2>3 DEF Crash, Held, Orphans, Object!vars
  <2>4. QED
    BY <2>2, <2>3
<1>4. CASE StartCreate \/ StartRefresh \/ StartUpdate \/ StartDelete \/ EditConfig
  <2>1. pc = "idle" /\ (op' = "create" => d'.id = NoId) /\ state' = state
    BY <1>4
    DEF StartCreate, StartRefresh, StartUpdate, StartDelete, Start, EditConfig, core,
        handler
  <2>2. Held = {} /\ Held' = {}
    BY <2>1 DEF Held
  <2>3. QED
    BY <1>1, <1>4, <2>1, <2>2
    DEF StartCreate, StartRefresh, StartUpdate, StartDelete, Start, EditConfig, Live,
        Entry, Orphans, Exists, Object!vars, cluster, history
<1>5. ASSUME NEW i \in Ids, WrittenElsewhere(i) PROVE UNCHANGED Object!vars
  <2>1. Live' = Live
    <3>1. PICK b \in Bodies : Exists(i) /\ Put(i, b)
      BY <1>5 DEF WrittenElsewhere
    <3>2. \A j \in Ids : Exists(j)' <=> Exists(j)
      BY <3>1, BodiesAssumption DEF Put, Exists
    <3>3. QED
      BY <1>1, <3>2 DEF Live
  <2>2. QED
    BY <1>1, <1>5, <2>1
    DEF WrittenElsewhere, Entry, Held, Orphans, Object!vars, core, handler
<1>6. ASSUME NEW i \in Ids, RemovedElsewhere(i) PROVE Object!Next
  <2>1. Entry' = Entry /\ Held' = Held /\ Orphans' = Orphans
    BY <1>1, <1>6 DEF RemovedElsewhere, Entry, Held, Orphans, core, handler
  <2>2. i \in Live /\ Live' = Live \ {i}
    BY <1>1, <1>6, PutMaps DEF RemovedElsewhere
  <2>3. Object!Vanish(i)
    BY <2>1, <2>2 DEF Object!Vanish
  <2>4. QED
    BY <2>3 DEF Object!Next
<1>7. CASE UNCHANGED vars
  BY <1>7
  DEF vars, Live, Entry, Held, Orphans, Exists, Object!vars, cluster, core, handler, history
<1>8. QED
  BY <1>2, <1>3, <1>4, <1>5, <1>6, <1>7 DEF Core, Elsewhere

(* A resource whose ID the server chooses keeps the promises of              *)
(* TrackedObject: whatever is lost, repeated or removed by others, what it   *)
(* made is in the entry, in the hands of its Create or known to be lost, and *)
(* an entry is dropped only when its object is gone for good.                *)
THEOREM Implementation == Spec => ImplementsTrackedObject
<1>1. Init => Object!Init
  BY Constants
  DEF Init, Object!Init, Live, Entry, Held, Orphans, Exists
<1>2. ASSUME IInv, Handed, [Next]_vars PROVE [Object!Next]_(Object!vars)
  BY <1>2, NamedMaps, HandlerMaps, RestMaps DEF Next
<1>3. QED
  BY <1>1, <1>2, Invariant, HandedOut, PTL DEF Spec, ImplementsTrackedObject, Object!Spec

(* What TrackedObject promises on its own. *)
Accounted ==
  /\ Live \subseteq {Entry} \cup Held \cup Orphans
  /\ Orphans \cap ({Entry} \cup Held) = {} /\ Entry \notin Held
  /\ NoId \notin Live \cup Held \cup Orphans

LEMMA AbstractAccounts == ImplementsTrackedObject => []Accounted
<1>1. Object!Init => Accounted
  BY DEF Object!Init, Accounted
<1>2. Accounted /\ [Object!Next]_(Object!vars) => Accounted'
  <2> SUFFICES ASSUME Accounted, [Object!Next]_(Object!vars) PROVE Accounted'
    OBVIOUS
  <2> USE IdsAssumption DEF Accounted
  <2>1. ASSUME NEW i \in Ids, Object!Appear(i) PROVE Accounted'
    BY <2>1 DEF Object!Appear
  <2>2. ASSUME NEW i \in Ids, Object!Adopt(i) PROVE Accounted'
    BY <2>2 DEF Object!Adopt
  <2>3. ASSUME NEW i \in Ids, Object!Lose(i) PROVE Accounted'
    BY <2>3 DEF Object!Lose
  <2>4. ASSUME NEW i \in Ids, Object!Discard(i) \/ Object!Vanish(i) PROVE Accounted'
    BY <2>4 DEF Object!Discard, Object!Vanish
  <2>5. CASE Object!Forget
    BY <2>5 DEF Object!Forget
  <2>6. CASE UNCHANGED Object!vars
    BY <2>6 DEF Object!vars
  <2>7. QED
    BY <2>1, <2>2, <2>3, <2>4, <2>5, <2>6 DEF Object!Next
<1>3. QED
  BY <1>1, <1>2, PTL DEF ImplementsTrackedObject, Object!Spec

(* Where the server chooses the ID, every object the resource made has one   *)
(* keeper: the entry, the Create under way, or nobody, and then it was lost  *)
(* for good. No object that counts as lost turns up in the state later.      *)
THEOREM EveryObjectHasOneKeeper == Spec => []Accounted
  BY Implementation, AbstractAccounts, PTL
=============================================================================
