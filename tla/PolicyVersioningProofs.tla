----------------------- MODULE PolicyVersioningProofs -----------------------
(***************************************************************************)
(* Proofs about PolicyVersioning, for any number of states, documents,     *)
(* versions, attempts and late requests.                                   *)
(*                                                                         *)
(* An update carries a version its state has seen (Control, Carried), a    *)
(* version is never given out twice (Fresh), and so the version an update  *)
(* asks for is never current again once the update was applied (Spent).    *)
(***************************************************************************)
EXTENDS PolicyVersioning, TLAPS

(* What a handler holds of the entry it works on. *)
ControlOf(a) ==
  /\ pc[a] = "idle" <=> op[a] = "none"
  /\ pc[a] = "delete" <=> op[a] = "delete"
  /\ pc[a] = "write" => op[a] \in {"create", "update"} /\ d[a].body \in Bodies
  /\ op[a] = "create" => ~state[a].tracked /\ d[a].ver = NoVersion
  /\ op[a] \in {"update", "refresh", "delete"}
       => state[a].tracked /\ d[a].tracked /\ d[a].ver = state[a].ver
  /\ op[a] = "update" => ~state[a].tainted
  /\ state[a].tracked /\ ~state[a].tainted => state[a].ver \in seen[a]

Control == \A a \in Actors : ControlOf(a)

(* The versions in use are older than the next one. *)
Fresh ==
  /\ \/ policy = Absent
     \/ policy.body \in Bodies /\ policy.ver.term > 0 /\ policy.ver.seq < seq
  /\ \A a \in Actors : \A v \in seen[a] : v.term > 0 /\ v.seq < seq

(* A request, sent or late, carries what its handler held. *)
Sound(r) ==
  /\ r.op = "update" => r.ver \in seen[r.from] /\ r.body \in Bodies
  /\ r.op = "create" => r.ver = NoVersion /\ r.body \in Bodies
  /\ r.op = "delete" => r.body = NoBody

Carried ==
  /\ \A r \in late : Sound(r)
  /\ last.op # "none" => last.by \in Actors

(* The version an applied update asked for is no longer that of the policy. *)
Spent ==
  \A a \in Actors : op[a] = "update" /\ wrote[a] > 0 => policy.ver # d[a].ver

IInv == TypeOK /\ Control /\ Fresh /\ Carried /\ Spent
          /\ NoLostUpdate /\ UpdateAppliedOnce

-----------------------------------------------------------------------------
(* Initial states *)

(* The initial states satisfy the invariant. *)
LEMMA Initially == Init => IInv
  BY OtherAssumption, BoundsAssumption
  DEF Init, IInv, TypeOK, ClusterTypes, ActorTypes, HistoryTypes, Control, ControlOf,
      Fresh, Carried, Sound, Spent, NoLostUpdate, UpdateAppliedOnce, Versions, Documents,
      NoVersion, Absent, NoEntry, NoData, Requests

-----------------------------------------------------------------------------
(* Requests *)

(* The constants of the module have their types. *)
LEMMA Constants ==
  /\ NoVersion \in Versions
  /\ Absent \in [body : Documents, ver : Versions]
  /\ NoEntry \in [tracked : BOOLEAN, tainted : BOOLEAN, body : Documents, ver : Versions]
  /\ NoData \in [tracked : BOOLEAN, body : Documents, ver : Versions]
  /\ 0 < MaxTries /\ MaxTries \in Nat /\ MaxSeq \in Nat /\ MaxTerm \in Nat
  BY BoundsAssumption DEF NoVersion, Versions, Absent, Documents, NoEntry, NoData

(* A write gets a version of its own. *)
LEMMA StoreTyped ==
  ASSUME IInv, NEW b \in Documents, NEW by \in Actors \cup {Other},
         NEW o \in {"none", "create", "update", "delete"}, Store(b, by, o)
  PROVE  /\ policy' \in [body : Documents, ver : Versions]
         /\ seq' \in 0..MaxSeq /\ seq' = seq + 1
         /\ last' \in [by : Actors \cup {Other},
                       op : {"none", "create", "update", "delete"}, over : Versions]
         /\ \/ policy' = Absent
            \/ policy'.body \in Bodies /\ policy'.ver = [seq |-> seq, term |-> term]
<1> USE DEF IInv, TypeOK, ClusterTypes
<1>1. [seq |-> seq, term |-> term] \in Versions
  BY Constants DEF Versions
<1>2. seq' \in 0..MaxSeq /\ seq' = seq + 1
  BY Constants DEF Store
<1>3. QED
  BY <1>1, <1>2, Constants DEF Store, Documents

(* The request of a handler is one, and carries what the handler holds. *)
LEMMA RequestSound ==
  ASSUME IInv, NEW a \in Actors, Writing(a)
  PROVE  Request(a) \in Requests /\ Sound(Request(a))
<1> USE DEF IInv, TypeOK, ActorTypes
<1>1. ControlOf(a)
  BY DEF Control
<1>2. op[a] \in {"create", "update", "delete"}
  BY <1>1 DEF Writing, ControlOf
<1>3. d[a].body \in Documents /\ d[a].ver \in Versions
  OBVIOUS
<1>4. Request(a) \in Requests
  BY <1>2, <1>3, Constants DEF Request, Requests, Documents
<1>5. Sound(Request(a))
  BY <1>1, <1>2 DEF Request, Sound, Writing, ControlOf
<1>6. QED
  BY <1>4, <1>5

(* What a request that is executed does, now or late. *)
LEMMA Executed ==
  ASSUME IInv, NEW r \in Requests, Sound(r), Execute(r)
  PROVE  /\ policy' \in [body : Documents, ver : Versions]
         /\ seq' \in 0..MaxSeq /\ seq' = seq + 1
         /\ last' \in [by : Actors \cup {Other},
                       op : {"none", "create", "update", "delete"}, over : Versions]
         /\ \/ policy' = Absent
            \/ policy'.body \in Bodies /\ policy'.ver = [seq |-> seq, term |-> term]
         /\ wrote' \in [Actors -> 0..2]
         /\ last'.by \in Actors
         /\ last'.op = "update" => last'.over \in seen[last'.by]
         /\ last'.op = "create" /\ kind = "sm" => last'.over = NoVersion
         /\ \A a \in Actors :
              op[a] = "update" /\ d[a].ver \in seen[a] /\ wrote[a] <= 1
                /\ (wrote[a] > 0 => policy.ver # d[a].ver)
              => /\ wrote'[a] <= 1
                 /\ wrote'[a] > 0 => policy'.ver # d[a].ver
                 /\ wrote[a] = 1 => wrote'[a] = 1
<1>1. r.body \in Documents /\ r.from \in Actors
      /\ r.op \in {"none", "create", "update", "delete"} /\ r.ver \in Versions
  BY DEF Requests
<1>2. Store(r.body, r.from, r.op)
  BY DEF Execute
<1>3. /\ policy' \in [body : Documents, ver : Versions]
      /\ seq' \in 0..MaxSeq /\ seq' = seq + 1
      /\ last' \in [by : Actors \cup {Other},
                    op : {"none", "create", "update", "delete"}, over : Versions]
      /\ \/ policy' = Absent
         \/ policy'.body \in Bodies /\ policy'.ver = [seq |-> seq, term |-> term]
  BY <1>1, <1>2, StoreTyped
<1>4. wrote' \in [Actors -> 0..2]
  BY DEF Execute, IInv, TypeOK, HistoryTypes
<1>5. last' = [by |-> r.from, op |-> r.op, over |-> policy.ver]
  BY <1>2 DEF Store
<1>6. r.op = "update" => policy.ver = r.ver
  BY <1>1 DEF Execute, Accepts, Sound, Conditional, IInv, Fresh, TypeOK, HistoryTypes,
              Versions
<1>7. r.op = "create" /\ kind = "sm" => policy.ver = NoVersion
  BY DEF Execute, Accepts, Sound, Conditional, NoVersion, IsPost, Exists, Absent
<1>8. ASSUME NEW a \in Actors, op[a] = "update", d[a].ver \in seen[a], wrote[a] <= 1,
             wrote[a] > 0 => policy.ver # d[a].ver
      PROVE  /\ wrote'[a] <= 1
             /\ wrote'[a] > 0 => policy'.ver # d[a].ver
             /\ wrote[a] = 1 => wrote'[a] = 1
  <2>1. wrote[a] \in 0..1
    BY <1>8 DEF IInv, TypeOK, HistoryTypes
  <2>2. wrote'[a] = IF Counts(r, a) /\ wrote[a] < 2 THEN wrote[a] + 1 ELSE wrote[a]
    BY DEF Execute
  <2>3. Counts(r, a) => wrote[a] = 0
    BY <1>6, <1>8, <2>1 DEF Counts
  <2>4. policy'.ver # d[a].ver
    <3>1. d[a].ver.term > 0 /\ d[a].ver.seq < seq
      BY <1>8 DEF IInv, Fresh
    <3>2. CASE policy' = Absent
      BY <3>1, <3>2 DEF Absent, NoVersion
    <3>3. CASE policy'.ver = [seq |-> seq, term |-> term]
      BY <3>1, <3>3 DEF IInv, TypeOK, ClusterTypes
    <3>4. QED
      BY <1>3, <3>2, <3>3
  <2>5. QED
    BY <2>1, <2>2, <2>3, <2>4
<1>9. /\ last'.by \in Actors
      /\ last'.op = "update" => last'.over \in seen[last'.by]
      /\ last'.op = "create" /\ kind = "sm" => last'.over = NoVersion
  BY <1>1, <1>5, <1>6, <1>7 DEF Sound
<1>10. QED
  BY <1>3, <1>4, <1>8, <1>9

-----------------------------------------------------------------------------
(* Types *)

(* The entries of a state file. *)
EntryType == [tracked : BOOLEAN, tainted : BOOLEAN, body : Documents, ver : Versions]

(* A handler that returns leaves the types of the actors. *)
LEMMA ReturnTyped ==
  ASSUME ActorTypes, NEW a \in Actors, NEW entry \in EntryType, Return(a, entry),
         UNCHANGED config
  PROVE  ActorTypes'
  BY Constants DEF ActorTypes, Return, EntryType

(* A handler that fails leaves the types of the actors. *)
LEMMA FailTyped ==
  ASSUME ActorTypes, NEW a \in Actors, Fail(a), UNCHANGED config
  PROVE  ActorTypes'
<1> DEFINE entry == IF d[a].tracked
                    THEN [tracked |-> TRUE, tainted |-> state[a].tainted \/ op[a] = "create",
                          body |-> d[a].body, ver |-> d[a].ver]
                    ELSE NoEntry
<1>1. entry \in EntryType
  BY Constants DEF ActorTypes, EntryType
<1>2. Return(a, entry)
  BY DEF Fail
<1>3. QED
  BY <1>1, <1>2, ReturnTyped

(* Another attempt leaves the types of the actors. *)
LEMMA RetryTyped ==
  ASSUME ActorTypes, NEW a \in Actors, Retry(a), UNCHANGED config
  PROVE  ActorTypes'
<1>1. CASE Fail(a)
  BY <1>1, FailTyped
<1>2. CASE tries[a] < MaxTries /\ tries' = [tries EXCEPT ![a] = @ + 1]
           /\ UNCHANGED <<pc, op, d, state>>
  BY <1>2, Constants DEF ActorTypes
<1>3. QED
  BY <1>1, <1>2 DEF Retry

(* A handler that starts has the types of the actors. *)
LEMMA StartTyped ==
  ASSUME ActorTypes, NEW a \in Actors,
         NEW o \in {"create", "update", "refresh", "delete"},
         NEW p \in {"write", "read", "delete"},
         NEW data \in [tracked : BOOLEAN, body : Documents, ver : Versions],
         Start(a, o, p, data)
  PROVE  ActorTypes'
  BY DEF ActorTypes, Start, core

(* Every step of Terraform core keeps the types. *)
LEMMA CoreTyped ==
  ASSUME IInv, NEW a \in Actors, Core(a)
  PROVE  TypeOK'
<1> USE DEF IInv, TypeOK
<1>1. config[a] \in Documents /\ Known(a) \in [tracked : BOOLEAN, body : Documents, ver : Versions]
  BY DEF ActorTypes, Known, Documents
<1>2. CASE StartCreate(a) \/ StartRefresh(a) \/ StartUpdate(a) \/ StartDelete(a)
  <2>1. PICK o \in {"create", "update", "refresh", "delete"}, p \in {"write", "read", "delete"},
             data \in [tracked : BOOLEAN, body : Documents, ver : Versions] :
          Start(a, o, p, data)
    <3>1. [NoData EXCEPT !.body = config[a]] \in [tracked : BOOLEAN, body : Documents, ver : Versions]
      BY <1>1, Constants
    <3>2. [Known(a) EXCEPT !.body = config[a]] \in [tracked : BOOLEAN, body : Documents, ver : Versions]
      BY <1>1
    <3>3. QED
      BY <1>1, <1>2, <3>1, <3>2 DEF StartCreate, StartRefresh, StartUpdate, StartDelete
  <2>2. ActorTypes'
    BY <2>1, StartTyped
  <2>3. ClusterTypes' /\ HistoryTypes'
    BY <2>1 DEF Start, cluster, ClusterTypes, HistoryTypes
  <2>4. QED
    BY <2>2, <2>3
<1>3. CASE EditConfig(a)
  BY <1>3 DEF EditConfig, ClusterTypes, ActorTypes, HistoryTypes, cluster, handler, history
<1>4. CASE Crash(a)
  <2>1. state[a] \in EntryType
    BY DEF ActorTypes, EntryType
  <2>2. ActorTypes'
    BY <1>4, <2>1, ReturnTyped DEF Crash
  <2>3. QED
    BY <1>4, <2>2 DEF Crash, ClusterTypes, HistoryTypes, cluster, history
<1>5. QED
  BY <1>2, <1>3, <1>4 DEF Core

(* Every step of a handler keeps the types. *)
LEMMA HandlerTyped ==
  ASSUME IInv, NEW a \in Actors, Handler(a)
  PROVE  TypeOK'
<1> USE DEF IInv, TypeOK
<1>1. CASE Written(a)
  <2>1. Request(a) \in Requests /\ Sound(Request(a)) /\ Execute(Request(a))
    BY <1>1, RequestSound DEF Written, Writing
  <2>2. ClusterTypes' /\ HistoryTypes'
    BY <1>1, <2>1, Executed DEF Written, ClusterTypes, HistoryTypes
  <2>3. d' \in [Actors -> [tracked : BOOLEAN, body : Documents, ver : Versions]]
    <3>1. d' = [d EXCEPT ![a] = [d[a] EXCEPT !.tracked = TRUE]]
      BY <1>1 DEF Written
    <3>2. [d[a] EXCEPT !.tracked = TRUE] \in [tracked : BOOLEAN, body : Documents, ver : Versions]
      BY DEF ActorTypes
    <3>3. QED
      BY <3>1, <3>2 DEF ActorTypes
  <2>4. ActorTypes'
    BY <1>1, <2>3, Constants DEF Written, ActorTypes, core
  <2>5. QED
    BY <2>2, <2>4
<1>2. CASE Deleted(a)
  <2>1. Request(a) \in Requests /\ Sound(Request(a)) /\ Execute(Request(a))
    BY <1>2, RequestSound DEF Deleted, Writing
  <2>2. ClusterTypes' /\ HistoryTypes'
    BY <1>2, <2>1, Executed DEF Deleted, ClusterTypes, HistoryTypes
  <2>3. NoEntry \in EntryType
    BY Constants DEF EntryType
  <2>4. ActorTypes'
    BY <1>2, <2>3, ReturnTyped DEF Deleted
  <2>5. QED
    BY <2>2, <2>4
<1>3. CASE Unanswered(a)
  <2>1. Request(a) \in Requests /\ Sound(Request(a)) /\ Execute(Request(a))
    BY <1>3, RequestSound DEF Unanswered
  <2>2. ClusterTypes' /\ HistoryTypes'
    BY <1>3, <2>1, Executed DEF Unanswered, ClusterTypes, HistoryTypes
  <2>3. ActorTypes'
    BY <1>3, RetryTyped DEF Unanswered
  <2>4. QED
    BY <2>2, <2>3
<1>4. CASE Refused(a)
  <2>1. ActorTypes'
    BY <1>4, RetryTyped DEF Refused
  <2>2. QED
    BY <1>4, <2>1 DEF Refused, ClusterTypes, HistoryTypes, cluster, history
<1>5. CASE Undelivered(a)
  <2>1. ActorTypes'
    BY <1>5, RetryTyped DEF Undelivered
  <2>2. late' \subseteq Requests
    BY <1>5, RequestSound DEF Undelivered, ClusterTypes
  <2>3. QED
    BY <1>5, <2>1, <2>2 DEF Undelivered, ClusterTypes, HistoryTypes, history
<1>6. CASE RequestFails(a) \/ NotFound(a)
  <2>1. ActorTypes'
    BY <1>6, FailTyped DEF RequestFails, NotFound
  <2>2. QED
    BY <1>6, <2>1 DEF RequestFails, NotFound, ClusterTypes, HistoryTypes, cluster, history
<1>7. CASE Read(a)
  <2> DEFINE entry == [tracked |-> TRUE, tainted |-> state[a].tainted,
                       body |-> policy.body, ver |-> policy.ver]
  <2>1. entry \in EntryType /\ policy.ver \in Versions
    BY DEF ClusterTypes, ActorTypes, EntryType
  <2>2. ActorTypes'
    BY <1>7, <2>1, ReturnTyped DEF Read
  <2>3. HistoryTypes'
    BY <1>7, <2>1 DEF Read, HistoryTypes
  <2>4. QED
    BY <1>7, <2>2, <2>3 DEF Read, ClusterTypes, cluster
<1>8. QED
  BY <1>1, <1>2, <1>3, <1>4, <1>5, <1>6, <1>7 DEF Handler

(* Every step of the cluster and of its other clients keeps the types. *)
LEMMA ClusterTyped ==
  ASSUME IInv, LateArrives \/ WrittenElsewhere \/ RemovedElsewhere \/ PrimaryMoves
  PROVE  TypeOK'
<1> USE DEF IInv, TypeOK
<1>1. ActorTypes'
  BY DEF LateArrives, WrittenElsewhere, RemovedElsewhere, PrimaryMoves, core, handler,
         ActorTypes
<1>2. CASE LateArrives
  <2>1. PICK r \in late : /\ late' = late \ {r}
                          /\ Execute(r) \/ UNCHANGED <<policy, seq, last, wrote>>
    BY <1>2 DEF LateArrives
  <2>2. r \in Requests /\ Sound(r)
    BY DEF ClusterTypes, Carried
  <2>3. ClusterTypes' /\ HistoryTypes'
    BY <1>2, <2>1, <2>2, Executed DEF LateArrives, ClusterTypes, HistoryTypes
  <2>4. QED
    BY <1>1, <2>3
<1>3. CASE WrittenElsewhere \/ RemovedElsewhere
  <2>1. PICK b \in Documents : Store(b, Other, "none")
    BY <1>3 DEF WrittenElsewhere, RemovedElsewhere, Documents
  <2>2. ClusterTypes' /\ HistoryTypes'
    BY <1>3, <2>1, StoreTyped
    DEF WrittenElsewhere, RemovedElsewhere, ClusterTypes, HistoryTypes
  <2>3. QED
    BY <1>1, <2>2
<1>4. CASE PrimaryMoves
  BY <1>1, <1>4, Constants DEF PrimaryMoves, ClusterTypes, HistoryTypes, history
<1>5. QED
  BY <1>2, <1>3, <1>4

-----------------------------------------------------------------------------
(* The other conjuncts *)

(* A step of one actor keeps what the handlers of the others hold. *)
LEMMA ControlKept ==
  ASSUME IInv, [Next]_vars
  PROVE  Control'
<1> USE DEF IInv, TypeOK, ActorTypes, HistoryTypes
<1>1. ASSUME NEW a \in Actors, Return(a, state'[a]),
             state'[a].tracked /\ ~state'[a].tainted => state'[a].ver \in seen'[a],
             \A b \in Actors : seen[b] \subseteq seen'[b]
      PROVE  Control'
  BY <1>1, Constants DEF Control, ControlOf, Return, NoData
<1>2. ASSUME NEW a \in Actors, Fail(a), pc[a] # "idle", UNCHANGED seen
      PROVE  Control'
  <2>1. ControlOf(a)
    BY DEF Control
  <2>2. state'[a].tracked /\ ~state'[a].tainted => state'[a].ver \in seen[a]
    BY <1>2, <2>1 DEF Fail, Return, ControlOf, NoEntry
  <2>3. Return(a, state'[a])
    BY <1>2 DEF Fail, Return
  <2>4. QED
    BY <1>1, <1>2, <2>2, <2>3
<1>3. ASSUME NEW a \in Actors, Retry(a), pc[a] # "idle", UNCHANGED seen
      PROVE  Control'
  <2>1. CASE Fail(a)
    BY <1>2, <1>3, <2>1
  <2>2. CASE UNCHANGED <<pc, op, d, state>>
    BY <1>3, <2>2 DEF Control, ControlOf
  <2>3. QED
    BY <1>3, <2>1, <2>2 DEF Retry
<1>4. ASSUME NEW a \in Actors, Core(a)
      PROVE  Control'
  <2>1. CASE StartCreate(a)
    BY <2>1 DEF StartCreate, Start, Control, ControlOf, NoData, core
  <2>2. CASE StartRefresh(a)
    BY <2>2 DEF StartRefresh, Start, Known, Control, ControlOf, core
  <2>3. CASE StartUpdate(a)
    BY <2>3 DEF StartUpdate, Start, Known, Control, ControlOf, core
  <2>4. CASE StartDelete(a)
    BY <2>4 DEF StartDelete, Start, Known, Control, ControlOf, core
  <2>5. CASE EditConfig(a)
    BY <2>5 DEF EditConfig, Control, ControlOf, handler, history
  <2>6. CASE Crash(a)
    <3>1. Return(a, state'[a]) /\ state'[a] = state[a] /\ UNCHANGED seen
      BY <2>6 DEF Crash, Return, history
    <3>2. QED
      BY <1>1, <3>1 DEF Control, ControlOf
  <2>7. QED
    BY <1>4, <2>1, <2>2, <2>3, <2>4, <2>5, <2>6 DEF Core
<1>5. ASSUME NEW a \in Actors, Handler(a)
      PROVE  Control'
  <2>1. ControlOf(a)
    BY DEF Control
  <2>2. CASE Written(a)
    BY <2>1, <2>2 DEF Written, Control, ControlOf, core
  <2>3. CASE Deleted(a)
    <3>1. Return(a, state'[a]) /\ state'[a] = NoEntry /\ UNCHANGED seen
      BY <2>3 DEF Deleted, Return
    <3>2. QED
      BY <1>1, <3>1 DEF NoEntry
  <2>4. CASE Unanswered(a) \/ Refused(a) \/ Undelivered(a)
    BY <1>3, <2>4 DEF Unanswered, Refused, Undelivered, Writing, history
  <2>5. CASE RequestFails(a) \/ NotFound(a)
    BY <1>2, <2>5 DEF RequestFails, NotFound, history
  <2>6. CASE Read(a)
    <3>1. Return(a, state'[a]) /\ state'[a].ver = policy.ver
      BY <2>6 DEF Read, Return
    <3>2. \A b \in Actors : seen[b] \subseteq seen'[b]
      BY <2>6 DEF Read
    <3>3. policy.ver \in seen'[a]
      BY <2>6 DEF Read
    <3>4. QED
      BY <1>1, <3>1, <3>2, <3>3
  <2>7. QED
    BY <1>5, <2>2, <2>3, <2>4, <2>5, <2>6 DEF Handler
<1>6. CASE LateArrives \/ WrittenElsewhere \/ RemovedElsewhere \/ PrimaryMoves \/ UNCHANGED vars
  BY <1>6
  DEF LateArrives, WrittenElsewhere, RemovedElsewhere, PrimaryMoves, vars, core, handler,
      history, Control, ControlOf
<1>7. QED
  BY <1>4, <1>5, <1>6 DEF Next

(* What the rest of the invariant needs from a step that executes nothing. *)
LEMMA Quiescent ==
  ASSUME IInv, TypeOK', UNCHANGED <<kind, policy, seq, last>>,
         \A r \in late' : r \in Requests /\ Sound(r),
         \A a \in Actors : seen'[a] \subseteq seen[a] \cup ({policy.ver} \ {NoVersion}),
         \A a \in Actors : seen[a] \subseteq seen'[a],
         \A a \in Actors :
           \/ op'[a] # "update"
           \/ pc'[a] # "read" /\ wrote'[a] = 0
           \/ pc'[a] = pc[a] /\ op[a] = op'[a] /\ d'[a] = d[a] /\ wrote'[a] = wrote[a]
  PROVE  Fresh' /\ Carried' /\ Spent' /\ NoLostUpdate' /\ UpdateAppliedOnce'
<1>1. Fresh'
  BY DEF IInv, Fresh, Absent
<1>2. Carried'
  BY DEF IInv, Carried, Sound, Requests
<1>3. Spent' /\ UpdateAppliedOnce'
  BY DEF IInv, Spent, UpdateAppliedOnce
<1>4. NoLostUpdate'
  BY DEF IInv, Carried, NoLostUpdate
<1>5. QED
  BY <1>1, <1>2, <1>3, <1>4

(* ... and from a step that executes a request.                              *)
LEMMA AfterExecute ==
  ASSUME IInv, TypeOK', NEW r \in Requests, Sound(r), Execute(r),
         UNCHANGED <<kind, term, seen>>, late' \subseteq late,
         \A a \in Actors :
           \/ op'[a] # "update"
           \/ /\ op[a] = "update" /\ op'[a] = "update" /\ d'[a].ver = d[a].ver
              /\ pc'[a] = "read" => pc[a] = "read" \/ wrote'[a] = 1
  PROVE  Fresh' /\ Carried' /\ Spent' /\ NoLostUpdate' /\ UpdateAppliedOnce'
<1> USE DEF IInv
<1>1. seq \in Nat /\ seq' = seq + 1 /\ term > 0
  BY Executed, Constants DEF TypeOK, ClusterTypes
<1>2. policy' = Absent \/ (policy'.body \in Bodies /\ policy'.ver = [seq |-> seq, term |-> term])
  BY Executed
<1>3. \A a \in Actors : \A v \in seen'[a] : v.term > 0 /\ v.seq < seq'
  <2>1. ASSUME NEW a \in Actors, NEW v \in seen[a]
        PROVE  v.term > 0 /\ v.seq < seq + 1
    <3>1. v \in Versions
      BY DEF TypeOK, HistoryTypes
    <3>2. v.seq \in Nat
      BY <3>1, Constants DEF Versions
    <3>3. QED
      BY <1>1, <3>2 DEF Fresh
  <2>2. QED
    BY <1>1, <2>1
<1>4. Fresh'
  BY <1>1, <1>2, <1>3 DEF Fresh, Absent
<1>5. Carried'
  BY Executed DEF Carried, Sound
<1>6. NoLostUpdate'
  BY Executed DEF NoLostUpdate
<1>7. ASSUME NEW a \in Actors, op'[a] = "update"
      PROVE  /\ wrote'[a] <= 1 /\ (wrote'[a] > 0 => policy'.ver # d'[a].ver)
             /\ pc'[a] = "read" => wrote'[a] = 1
  <2>1. op[a] = "update" /\ d'[a].ver = d[a].ver /\ ControlOf(a)
    BY <1>7 DEF Control
  <2>2. d[a].ver \in seen[a]
    BY <2>1 DEF ControlOf
  <2>3. wrote[a] <= 1 /\ (pc[a] = "read" => wrote[a] = 1)
    BY <2>1 DEF UpdateAppliedOnce
  <2>4. wrote[a] > 0 => policy.ver # d[a].ver
    BY <2>1 DEF Spent
  <2>5. /\ wrote'[a] <= 1
        /\ wrote'[a] > 0 => policy'.ver # d[a].ver
        /\ wrote[a] = 1 => wrote'[a] = 1
    BY <2>1, <2>2, <2>3, <2>4, Executed
  <2>6. QED
    BY <1>7, <2>1, <2>3, <2>5
<1>8. QED
  BY <1>4, <1>5, <1>6, <1>7 DEF Spent, UpdateAppliedOnce

(* The steps that execute a request keep the rest of the invariant.          *)
LEMMA ExecutionKept ==
  ASSUME IInv, TypeOK',
         LateArrives \/ \E a \in Actors : Written(a) \/ Deleted(a) \/ Unanswered(a)
  PROVE  Fresh' /\ Carried' /\ Spent' /\ NoLostUpdate' /\ UpdateAppliedOnce'
<1> USE DEF IInv, TypeOK
<1>1. CASE LateArrives
  <2>1. PICK r \in late : /\ late' = late \ {r}
                          /\ Execute(r) \/ UNCHANGED <<policy, seq, last, wrote>>
    BY <1>1 DEF LateArrives
  <2>2. r \in Requests /\ Sound(r) /\ \A x \in late' : x \in Requests /\ Sound(x)
    BY <2>1 DEF ClusterTypes, Carried
  <2>3. UNCHANGED <<kind, term, seen, op, pc, d>>
    BY <1>1 DEF LateArrives, core, handler
  <2>4. CASE Execute(r)
    BY <2>1, <2>2, <2>3, <2>4, AfterExecute
  <2>5. CASE UNCHANGED <<policy, seq, last, wrote>>
    BY <2>2, <2>3, <2>5, Quiescent
  <2>6. QED
    BY <2>1, <2>4, <2>5
<1>2. ASSUME NEW a \in Actors, Written(a)
      PROVE  Fresh' /\ Carried' /\ Spent' /\ NoLostUpdate' /\ UpdateAppliedOnce'
  <2>1. Request(a) \in Requests /\ Sound(Request(a)) /\ Execute(Request(a))
    BY <1>2, RequestSound DEF Written, Writing
  <2>2. op[a] = "update" => wrote'[a] = 1
    <3>1. SUFFICES ASSUME op[a] = "update" PROVE wrote'[a] = 1
      OBVIOUS
    <3>2. ControlOf(a)
      BY DEF Control
    <3>3. Request(a).ver = d[a].ver /\ Request(a).op = "update" /\ Request(a).from = a
      BY <3>1 DEF Request
    <3>4. d[a].ver \in seen[a]
      BY <3>1, <3>2 DEF ControlOf
    <3>5. Conditional(d[a].ver)
      <4>1. d[a].ver.seq >= 0
        BY Constants DEF ActorTypes, Versions
      <4>2. QED
        BY <3>4, <4>1 DEF Fresh, Conditional
    <3>6. policy.ver = d[a].ver
      BY <2>1, <3>3, <3>5 DEF Execute, Accepts
    <3>7. wrote[a] = 0
      BY <3>1, <3>6 DEF Spent, HistoryTypes
    <3>8. wrote'[a] = IF Counts(Request(a), a) /\ wrote[a] < 2 THEN wrote[a] + 1 ELSE wrote[a]
      BY <2>1 DEF Execute
    <3>9. QED
      BY <3>1, <3>3, <3>7, <3>8 DEF Counts
  <2>3. UNCHANGED <<kind, term, seen, late, op>>
    BY <1>2 DEF Written
  <2>4. \A b \in Actors : d'[b].ver = d[b].ver /\ (pc'[b] = pc[b] \/ b = a)
    BY <1>2 DEF Written, ActorTypes
  <2>5. QED
    BY <2>1, <2>2, <2>3, <2>4, AfterExecute
<1>3. ASSUME NEW a \in Actors, Deleted(a)
      PROVE  Fresh' /\ Carried' /\ Spent' /\ NoLostUpdate' /\ UpdateAppliedOnce'
  <2>1. Request(a) \in Requests /\ Sound(Request(a)) /\ Execute(Request(a))
    BY <1>3, RequestSound DEF Deleted, Writing
  <2>2. UNCHANGED <<kind, term, seen, late>>
    BY <1>3 DEF Deleted
  <2>3. \A b \in Actors : \/ op'[b] # "update"
                          \/ op'[b] = op[b] /\ d'[b] = d[b] /\ pc'[b] = pc[b]
    BY <1>3 DEF Deleted, Return, ActorTypes
  <2>4. QED
    BY <2>1, <2>2, <2>3, AfterExecute
<1>4. ASSUME NEW a \in Actors, Unanswered(a)
      PROVE  Fresh' /\ Carried' /\ Spent' /\ NoLostUpdate' /\ UpdateAppliedOnce'
  <2>1. Request(a) \in Requests /\ Sound(Request(a)) /\ Execute(Request(a))
    BY <1>4, RequestSound DEF Unanswered
  <2>2. UNCHANGED <<kind, term, seen, late>>
    BY <1>4 DEF Unanswered
  <2>3. \A b \in Actors : \/ op'[b] # "update"
                          \/ op'[b] = op[b] /\ d'[b] = d[b] /\ pc'[b] = pc[b]
    BY <1>4 DEF Unanswered, Retry, Fail, Return, ActorTypes
  <2>4. QED
    BY <2>1, <2>2, <2>3, AfterExecute
<1>5. QED
  BY <1>1, <1>2, <1>3, <1>4

(* So does a write of another client.                                        *)
LEMMA ElsewhereKept ==
  ASSUME IInv, TypeOK', WrittenElsewhere \/ RemovedElsewhere
  PROVE  Fresh' /\ Carried' /\ Spent' /\ NoLostUpdate' /\ UpdateAppliedOnce'
<1> USE DEF IInv, TypeOK
<1>1. PICK b \in Documents : Store(b, Other, "none")
  BY DEF WrittenElsewhere, RemovedElsewhere, Documents
<1>2. UNCHANGED <<kind, term, late, seen, wrote, op, pc, d>>
  BY DEF WrittenElsewhere, RemovedElsewhere, core, handler
<1>3. /\ seq \in Nat /\ seq' = seq + 1 /\ term > 0 /\ last'.op = "none"
      /\ \/ policy' = Absent
         \/ policy'.body \in Bodies /\ policy'.ver = [seq |-> seq, term |-> term]
  <2>1. seq \in Nat /\ term > 0
    BY Constants DEF ClusterTypes
  <2>2. seq' = seq + 1 /\ last'.op = "none"
    BY <1>1 DEF Store
  <2>3. \/ policy' = Absent
        \/ policy'.body \in Bodies /\ policy'.ver = [seq |-> seq, term |-> term]
    BY <1>1, StoreTyped
  <2>4. QED
    BY <2>1, <2>2, <2>3
<1>4. ASSUME NEW a \in Actors, NEW v \in seen[a]
      PROVE  v.term > 0 /\ v.seq < seq + 1 /\ policy'.ver # v
  <2>1. v.seq \in Nat
    BY Constants DEF HistoryTypes, Versions
  <2>2. v.term > 0 /\ v.seq < seq
    BY DEF Fresh
  <2>3. QED
    BY <1>3, <2>1, <2>2 DEF Absent, NoVersion
<1>5. Fresh'
  BY <1>2, <1>3, <1>4 DEF Fresh
<1>6. Spent'
  BY <1>2, <1>4 DEF Spent, Control, ControlOf
<1>7. QED
  BY <1>2, <1>3, <1>5, <1>6 DEF Carried, Sound, NoLostUpdate, UpdateAppliedOnce

(* So does every other step.                                                 *)
LEMMA OthersKept ==
  ASSUME IInv, TypeOK',
         \/ PrimaryMoves \/ UNCHANGED vars
         \/ \E a \in Actors : \/ Core(a) \/ Refused(a) \/ Undelivered(a)
                              \/ RequestFails(a) \/ NotFound(a) \/ Read(a)
  PROVE  Fresh' /\ Carried' /\ Spent' /\ NoLostUpdate' /\ UpdateAppliedOnce'
<1> USE DEF IInv, TypeOK
<1>1. \A r \in late : r \in Requests /\ Sound(r)
  BY DEF ClusterTypes, Carried
<1>2. CASE PrimaryMoves \/ UNCHANGED vars
  BY <1>1, <1>2, Quiescent DEF PrimaryMoves, vars, cluster, core, handler, history
<1>3. ASSUME NEW a \in Actors,
             StartCreate(a) \/ StartRefresh(a) \/ StartUpdate(a) \/ StartDelete(a)
      PROVE  Fresh' /\ Carried' /\ Spent' /\ NoLostUpdate' /\ UpdateAppliedOnce'
  <2>1. UNCHANGED <<cluster, last, seen>>
    BY <1>3 DEF StartCreate, StartRefresh, StartUpdate, StartDelete, Start
  <2>2. \A b \in Actors : \/ op'[b] # "update"
                          \/ pc'[b] # "read" /\ wrote'[b] = 0
                          \/ /\ pc'[b] = pc[b] /\ op[b] = op'[b] /\ d'[b] = d[b]
                             /\ wrote'[b] = wrote[b]
    BY <1>3 DEF StartCreate, StartRefresh, StartUpdate, StartDelete, Start, ActorTypes,
                HistoryTypes
  <2>3. QED
    BY <1>1, <2>1, <2>2, Quiescent DEF cluster
<1>4. ASSUME NEW a \in Actors, EditConfig(a)
      PROVE  Fresh' /\ Carried' /\ Spent' /\ NoLostUpdate' /\ UpdateAppliedOnce'
  BY <1>1, <1>4, Quiescent DEF EditConfig, cluster, handler, history
<1>5. ASSUME NEW a \in Actors, Crash(a) \/ RequestFails(a) \/ NotFound(a) \/ Refused(a)
                                 \/ Undelivered(a)
      PROVE  Fresh' /\ Carried' /\ Spent' /\ NoLostUpdate' /\ UpdateAppliedOnce'
  <2>1. UNCHANGED <<kind, policy, seq, last, seen, wrote>>
    BY <1>5 DEF Crash, RequestFails, NotFound, Refused, Undelivered, cluster, history
  <2>2. \A r \in late' : r \in Requests /\ Sound(r)
    BY <1>1, <1>5, RequestSound
    DEF Crash, RequestFails, NotFound, Refused, Undelivered, cluster
  <2>3. \A b \in Actors : \/ op'[b] # "update"
                          \/ pc'[b] = pc[b] /\ op[b] = op'[b] /\ d'[b] = d[b]
    BY <1>5
    DEF Crash, RequestFails, NotFound, Refused, Undelivered, Retry, Fail, Return, ActorTypes
  <2>4. QED
    BY <2>1, <2>2, <2>3, Quiescent
<1>6. ASSUME NEW a \in Actors, Read(a)
      PROVE  Fresh' /\ Carried' /\ Spent' /\ NoLostUpdate' /\ UpdateAppliedOnce'
  <2>1. UNCHANGED <<cluster, last, wrote>>
    BY <1>6 DEF Read
  <2>2. policy.ver # NoVersion
    BY <1>6 DEF Read, Exists, Fresh, NoVersion
  <2>3. \A b \in Actors : seen[b] \subseteq seen'[b] /\ seen'[b] \subseteq seen[b] \cup {policy.ver}
    BY <1>6 DEF Read, HistoryTypes
  <2>4. \A b \in Actors : \/ op'[b] # "update"
                          \/ pc'[b] = pc[b] /\ op[b] = op'[b] /\ d'[b] = d[b]
    BY <1>6 DEF Read, Return, ActorTypes
  <2>5. QED
    BY <1>1, <2>1, <2>2, <2>3, <2>4, Quiescent DEF cluster
<1>7. QED
  BY <1>2, <1>3, <1>4, <1>5, <1>6 DEF Core

(* The invariant is inductive. *)
LEMMA Inductive == IInv /\ [Next]_vars => IInv'
<1> SUFFICES ASSUME IInv, [Next]_vars PROVE IInv'
  OBVIOUS
<1>1. TypeOK'
  <2>1. CASE UNCHANGED vars
    BY <2>1
    DEF IInv, TypeOK, ClusterTypes, ActorTypes, HistoryTypes, vars, cluster, core, handler,
        history
  <2>2. QED
    BY <2>1, CoreTyped, HandlerTyped, ClusterTyped DEF Next
<1>2. Control'
  BY ControlKept
<1>3. Fresh' /\ Carried' /\ Spent' /\ NoLostUpdate' /\ UpdateAppliedOnce'
  BY <1>1, ExecutionKept, ElsewhereKept, OthersKept DEF Next, Handler
<1>4. QED
  BY <1>1, <1>2, <1>3 DEF IInv

(* It holds in every reachable state. *)
LEMMA Invariant == Spec => []IInv
  BY Initially, Inductive, PTL DEF Spec

-----------------------------------------------------------------------------
(* Theorems *)

(* Every variable keeps its type; the Retrier stays within its attempts.     *)
THEOREM TypeCorrect == Spec => []TypeOK
<1>1. IInv => TypeOK
  BY DEF IInv
<1>2. QED
  BY <1>1, Invariant, PTL

(* No update overwrites a change its state has not seen, and Create of an SM *)
(* policy overwrites nothing.                                                *)
THEOREM UpdatesAreNotLost == Spec => []NoLostUpdate
<1>1. IInv => NoLostUpdate
  BY DEF IInv
<1>2. QED
  BY <1>1, Invariant, PTL

(* An update is applied at most once however often its request is repeated.  *)
THEOREM AppliedOnce == Spec => []UpdateAppliedOnce
<1>1. IInv => UpdateAppliedOnce
  BY DEF IInv
<1>2. QED
  BY <1>1, Invariant, PTL

(* An entry leaves a state file only in the step that deletes its policy.    *)
THEOREM ForgottenIsDeleted == Spec => ForgetsOnlyDeleted
<1>1. ASSUME IInv, [Next]_vars, NEW a \in Actors, state[a].tracked, ~state'[a].tracked
      PROVE  Exists /\ policy' = Absent
  <2> USE DEF IInv, TypeOK, ActorTypes
  <2>1. ControlOf(a)
    BY <1>1 DEF Control
  <2>2. Fail(a) /\ pc[a] # "idle" => state'[a].tracked
    BY <1>1, <2>1 DEF Fail, Return, ControlOf
  <2>3. Deleted(a)
    <3>1. ASSUME NEW b \in Actors, Handler(b) \/ Core(b), b # a PROVE FALSE
      BY <1>1, <3>1
      DEF Handler, Written, Deleted, Unanswered, Refused, Undelivered, RequestFails, NotFound,
          Read, Retry, Fail, Return, Core, Crash, StartCreate, StartRefresh, StartUpdate,
          StartDelete, Start, EditConfig, core
    <3>2. CASE Handler(a)
      BY <1>1, <2>2, <3>2
      DEF Handler, Written, Unanswered, Refused, Undelivered, Writing, RequestFails, NotFound,
          Read, Retry, Return, core
    <3>3. CASE Core(a)
      BY <1>1, <3>3
      DEF Core, Crash, StartCreate, StartRefresh, StartUpdate, StartDelete, Start, EditConfig,
          Return, core
    <3>4. CASE LateArrives \/ WrittenElsewhere \/ RemovedElsewhere \/ PrimaryMoves
                 \/ UNCHANGED vars
      BY <1>1, <3>4
      DEF LateArrives, WrittenElsewhere, RemovedElsewhere, PrimaryMoves, core, vars
    <3>5. QED
      BY <1>1, <3>1, <3>2, <3>3, <3>4 DEF Next
  <2>4. Request(a).op = "delete" /\ Request(a).body = NoBody
    BY <2>1, <2>3 DEF Deleted, Request, ControlOf
  <2>5. QED
    BY <2>3, <2>4 DEF Deleted, Execute, Accepts, Store
<1>2. IInv /\ [Next]_vars => [ForgetStep]_vars
  BY <1>1 DEF ForgetStep
<1>3. QED
  BY <1>2, Invariant, PTL DEF Spec, ForgetsOnlyDeleted

(* A conflict is final: an update whose condition no longer holds can repeat *)
(* its request as often as the Retrier likes, the condition stays false.     *)
ConflictStep ==
  \A a \in Actors :
    op[a] = "update" /\ op'[a] = "update" /\ policy.ver # d[a].ver => policy'.ver # d'[a].ver

ConflictIsFinal == [][ConflictStep]_vars

(* A repeated PUT of an update that met a conflict is refused again.        *)
THEOREM ConflictsAreFinal == Spec => ConflictIsFinal
<1>1. ASSUME IInv, [Next]_vars, NEW a \in Actors, op[a] = "update", op'[a] = "update",
             policy.ver # d[a].ver
      PROVE  policy'.ver # d'[a].ver
  <2> USE DEF IInv, TypeOK, ClusterTypes, ActorTypes
  <2>1. d[a].ver.term > 0 /\ d[a].ver.seq < seq /\ d[a].ver \in Versions
    BY <1>1 DEF Control, ControlOf, Fresh
  <2>2. d'[a].ver = d[a].ver
    <3>1. CASE \E b \in Actors : Handler(b) \/ Core(b)
      BY <1>1, <3>1
      DEF Handler, Written, Deleted, Unanswered, Refused, Undelivered, RequestFails, NotFound,
          Read, Retry, Fail, Return, Core, Crash, StartCreate, StartRefresh, StartUpdate,
          StartDelete, Start, EditConfig, handler, Control, ControlOf
    <3>2. CASE LateArrives \/ WrittenElsewhere \/ RemovedElsewhere \/ PrimaryMoves
                 \/ UNCHANGED vars
      BY <3>2
      DEF LateArrives, WrittenElsewhere, RemovedElsewhere, PrimaryMoves, handler, vars
    <3>3. QED
      BY <1>1, <3>1, <3>2 DEF Next
  <2>3. \/ policy' = policy \/ policy' = Absent
        \/ policy'.ver = [seq |-> seq, term |-> term]
    <3>1. CASE \E b \in Actors : Handler(b) \/ Core(b)
      BY <3>1
      DEF Handler, Written, Deleted, Unanswered, Refused, Undelivered, RequestFails, NotFound,
          Read, Core, Crash, StartCreate, StartRefresh, StartUpdate,
          StartDelete, Start, EditConfig, cluster, Execute, Store
    <3>2. CASE LateArrives \/ WrittenElsewhere \/ RemovedElsewhere \/ PrimaryMoves
                 \/ UNCHANGED vars
      BY <3>2
      DEF LateArrives, WrittenElsewhere, RemovedElsewhere, PrimaryMoves, cluster, vars,
          Execute, Store
    <3>3. QED
      BY <1>1, <3>1, <3>2 DEF Next
  <2>4. QED
    BY <1>1, <2>1, <2>2, <2>3 DEF Absent, NoVersion, Versions
<1>2. IInv /\ [Next]_vars => [ConflictStep]_vars
  BY <1>1 DEF ConflictStep
<1>3. QED
  BY <1>2, Invariant, PTL DEF Spec, ConflictIsFinal

(* Every step of a handler takes it nearer to its return, whatever the other *)
(* states, the other clients and the late requests do in between: it goes on *)
(* to the next request, or uses up one of the attempts of the present one.   *)
Left(a) ==
  CASE pc[a] = "idle" -> 0 [] pc[a] = "read" -> 1 [] pc[a] \in {"write", "delete"} -> 2

Advances(a) ==
  \/ Left(a)' < Left(a)
  \/ Left(a)' = Left(a) /\ tries'[a] = tries[a] + 1 /\ tries'[a] <= MaxTries

AdvanceStep ==
  \A a \in Actors :
    /\ Handler(a) => Advances(a)
    /\ pc[a] # "idle" => \/ Advances(a)
                         \/ UNCHANGED <<pc[a], op[a], d[a], tries[a]>>

HandlersAdvance == [][AdvanceStep]_vars

(* The Retrier gives up after MaxTries requests, so that the handlers of    *)
(* every state run out of steps.                                            *)
THEOREM HandlersRunOut == Spec => HandlersAdvance
<1>1. ASSUME IInv, NEW a \in Actors, Handler(a) PROVE Advances(a)
  <2> USE DEF IInv, TypeOK, ActorTypes
  <2>1. Retry(a) /\ Writing(a) => Advances(a)
    BY <1>1, BoundsAssumption DEF Retry, Fail, Return, Writing, Advances, Left
  <2>2. Fail(a) /\ pc[a] # "idle" => Advances(a)
    BY <1>1 DEF Fail, Return, Advances, Left
  <2>3. CASE Written(a)
    BY <1>1, <2>3 DEF Written, Advances, Left
  <2>4. CASE Deleted(a) \/ Read(a)
    BY <1>1, <2>4 DEF Deleted, Read, Return, Advances, Left
  <2>5. CASE Unanswered(a) \/ Refused(a) \/ Undelivered(a)
    BY <2>1, <2>5 DEF Unanswered, Refused, Undelivered
  <2>6. CASE RequestFails(a) \/ NotFound(a)
    BY <2>2, <2>6 DEF RequestFails, NotFound
  <2>7. QED
    BY <1>1, <2>3, <2>4, <2>5, <2>6 DEF Handler
<1>2. ASSUME IInv, NEW a \in Actors, [Next]_vars, pc[a] # "idle"
      PROVE  Advances(a) \/ UNCHANGED <<pc[a], op[a], d[a], tries[a]>>
  <2> USE DEF IInv, TypeOK, ActorTypes
  <2>1. CASE Core(a)
    BY <1>2, <2>1
    DEF Core, Crash, Return, StartCreate, StartRefresh, StartUpdate, StartDelete, Start,
        EditConfig, handler, Advances, Left
  <2>2. ASSUME NEW b \in Actors, b # a, Handler(b) \/ Core(b)
        PROVE  UNCHANGED <<pc[a], op[a], d[a], tries[a]>>
    BY <1>2, <2>2
    DEF Handler, Written, Deleted, Unanswered, Refused, Undelivered, RequestFails, NotFound,
        Read, Retry, Fail, Return, Core, Crash, StartCreate, StartRefresh, StartUpdate,
        StartDelete, Start, EditConfig, handler
  <2>3. CASE LateArrives \/ WrittenElsewhere \/ RemovedElsewhere \/ PrimaryMoves
               \/ UNCHANGED vars
    BY <1>2, <2>3 DEF LateArrives, WrittenElsewhere, RemovedElsewhere, PrimaryMoves, handler, vars
  <2>4. QED
    BY <1>1, <1>2, <2>1, <2>2, <2>3 DEF Next
<1>3. IInv /\ [Next]_vars => [AdvanceStep]_vars
  <2>1. ASSUME IInv, Next PROVE AdvanceStep
    BY <1>1, <1>2, <2>1 DEF AdvanceStep
  <2>2. QED
    BY <2>1
<1>4. QED
  BY <1>3, Invariant, PTL DEF Spec, HandlersAdvance

-----------------------------------------------------------------------------
(* The policy implements SharedDocument *)

(* A Create has an ID once its write was answered. *)
Claims == \A a \in Actors : op[a] = "create" => (d[a].tracked <=> pc[a] = "read")

(* A handler that returns leaves op and d of the others alone. *)
LEMMA ReturnFrame ==
  ASSUME TypeOK, NEW a \in Actors, NEW entry, Return(a, entry)
  PROVE  /\ op'[a] = "none" /\ d'[a] = NoData /\ state'[a] = entry /\ pc'[a] = "idle"
         /\ \A b \in Actors \ {a} :
              op'[b] = op[b] /\ d'[b] = d[b] /\ state'[b] = state[b] /\ pc'[b] = pc[b]
  BY DEF TypeOK, ActorTypes, Return

LEMMA ClaimsStep == ASSUME IInv, Claims, [Next]_vars PROVE Claims'
<1> USE DEF IInv, TypeOK, ActorTypes, Control, ControlOf, Claims
<1>1. ASSUME NEW a \in Actors, NEW entry, Return(a, entry) PROVE Claims'
  BY <1>1, ReturnFrame
<1>2. ASSUME NEW a \in Actors, Fail(a) PROVE Claims'
  BY <1>1, <1>2 DEF Fail
<1>3. ASSUME NEW a \in Actors, Retry(a) PROVE Claims'
  BY <1>2, <1>3 DEF Retry
<1>4. ASSUME NEW a \in Actors, Written(a) PROVE Claims'
  BY <1>4 DEF Written
<1>5. ASSUME NEW a \in Actors, Handler(a) PROVE Claims'
  BY <1>1, <1>2, <1>3, <1>4, <1>5
  DEF Handler, Deleted, Unanswered, Refused, Undelivered, RequestFails, NotFound, Read
<1>6. ASSUME NEW a \in Actors, Core(a) PROVE Claims'
  <2>1. CASE Crash(a)
    BY <1>1, <2>1 DEF Crash
  <2>2. ASSUME NEW o, NEW p, NEW data, Start(a, o, p, data),
               o = "create" => ~data.tracked /\ p = "write"
        PROVE  Claims'
    BY <2>2 DEF Start
  <2>3. CASE StartCreate(a) \/ StartRefresh(a) \/ StartUpdate(a) \/ StartDelete(a)
    BY <2>2, <2>3
    DEF StartCreate, StartRefresh, StartUpdate, StartDelete, NoData
  <2>4. CASE EditConfig(a)
    BY <2>4 DEF EditConfig, handler
  <2>5. QED
    BY <1>6, <2>1, <2>3, <2>4 DEF Core
<1>7. CASE LateArrives \/ WrittenElsewhere \/ RemovedElsewhere \/ PrimaryMoves
             \/ UNCHANGED vars
  BY <1>7
  DEF LateArrives, WrittenElsewhere, RemovedElsewhere, PrimaryMoves, vars, handler
<1>8. QED
  BY <1>5, <1>6, <1>7 DEF Next

LEMMA Claimed == Spec => []Claims
<1>1. Init => Claims
  BY DEF Init, Claims
<1>2. QED
  BY <1>1, ClaimsStep, Invariant, PTL DEF Spec

(* Nobody has seen what is stored. *)
LEMMA StoreMaps ==
  ASSUME IInv, NEW b \in Documents, NEW by \in Actors \cup {Other},
         NEW o \in {"none", "create", "update", "delete"}, Store(b, by, o),
         UNCHANGED <<kind, seen>>
  PROVE  Document!Replaced(b, by, o)
<1>1. policy'.body = b
  BY DEF Store, Absent
<1>2. <<last.by, last.op>>' = <<by, o>>
  BY DEF Store
<1>3. ASSUME NEW a \in Actors PROVE policy'.ver \notin seen[a]
  <2>1. \A v \in seen[a] : v.term > 0 /\ v.seq < seq
    BY DEF IInv, Fresh
  <2>2. CASE policy' = Absent
    BY <2>1, <2>2 DEF Absent, NoVersion
  <2>3. CASE policy'.ver = [seq |-> seq, term |-> term]
    BY <2>1, <2>3, Constants DEF IInv, TypeOK, ClusterTypes
  <2>4. QED
    BY <2>2, <2>3 DEF Store
<1>4. Current' = {}
  BY <1>3 DEF Current
<1>5. QED
  BY <1>1, <1>2, <1>4 DEF Document!Replaced

(* A request is executed for those who may have it executed. *)
LEMMA ExecuteMaps ==
  ASSUME IInv, NEW r \in Requests, Sound(r), Execute(r), UNCHANGED <<kind, seen>>
  PROVE  /\ r.from \in Actors
         /\ \/ /\ r.op = "update" /\ r.body \in Bodies /\ r.from \in Current
               /\ Document!Replaced(r.body, r.from, "update")
            \/ /\ r.op = "create" /\ r.body \in Bodies
               /\ kind = "sm" => policy.body = NoBody
               /\ Document!Replaced(r.body, r.from, "create")
            \/ /\ r.op = "delete" /\ policy.body # NoBody
               /\ Document!Replaced(NoBody, r.from, "delete")
<1>1. r.from \in Actors /\ r.op \in {"create", "update", "delete"} /\ r.body \in Documents
  BY DEF Requests
<1>2. Document!Replaced(r.body, r.from, r.op)
  BY <1>1, StoreMaps DEF Execute
<1>3. r.op = "update" => policy.ver = r.ver /\ r.ver \in seen[r.from]
  BY <1>1 DEF Execute, Accepts, Sound, Conditional, IInv, Fresh, TypeOK, HistoryTypes,
              Versions
<1>4. r.op = "create" /\ kind = "sm" => policy.body = NoBody
  BY DEF Execute, Accepts, Sound, Conditional, NoVersion, IsPost, Exists, Absent
<1>5. r.op = "delete" => policy.body # NoBody
  BY NoBodyAssumption DEF Execute, Accepts, Exists, IInv, Fresh
<1>6. QED
  BY <1>1, <1>2, <1>3, <1>4, <1>5 DEF Sound, Current

(* An error: the ID of a Create goes to the entry. *)
LEMMA FailMaps ==
  ASSUME IInv, NEW a \in Actors, pc[a] # "idle", Fail(a)
  PROVE  /\ Making' = Making \ {a}
         /\ Tracked' = IF a \in Making THEN Tracked \cup {a} ELSE Tracked
<1> DEFINE entry == IF d[a].tracked
                    THEN [tracked |-> TRUE, tainted |-> state[a].tainted \/ op[a] = "create",
                          body |-> d[a].body, ver |-> d[a].ver]
                    ELSE NoEntry
<1>1. Return(a, entry)
  BY DEF Fail
<1>2. /\ op'[a] = "none" /\ state'[a] = entry
      /\ \A b \in Actors \ {a} : op'[b] = op[b] /\ d'[b] = d[b] /\ state'[b] = state[b]
  BY <1>1, ReturnFrame DEF IInv
<1>3. Making' = Making \ {a}
  BY <1>2 DEF Making
<1>4. state'[a].tracked <=> d[a].tracked
  BY <1>2 DEF NoEntry
<1>5. /\ op[a] = "create" => ~state[a].tracked
      /\ op[a] # "create" => state[a].tracked /\ d[a].tracked
  BY DEF IInv, TypeOK, ActorTypes, Control, ControlOf
<1>6. QED
  BY <1>2, <1>3, <1>4, <1>5 DEF Making, Tracked

(* Neither is it lost by an attempt that is, or is not, the last.            *)
LEMMA RetryMaps ==
  ASSUME IInv, Claims, NEW a \in Actors, Writing(a), Retry(a)
  PROVE  Making' = Making /\ Tracked' = Tracked
<1>1. a \notin Making
  BY DEF Claims, Making, Writing
<1>2. CASE Fail(a)
  BY <1>1, <1>2, FailMaps DEF Writing
<1>3. CASE UNCHANGED <<op, d, state>>
  BY <1>3 DEF Making, Tracked
<1>4. QED
  BY <1>2, <1>3 DEF Retry

(* A step that replaces nothing, and shows nothing, leaves what was seen. *)
LEMMA SameMaps ==
  ASSUME UNCHANGED <<kind, policy, last, seen>>
  PROVE  UNCHANGED <<kind = "sm", policy.body, <<last.by, last.op>>, Current>>
  BY DEF Current

(* An error, with nothing executed. *)
LEMMA SettleMaps ==
  ASSUME IInv, NEW a \in Actors, pc[a] # "idle", Fail(a), UNCHANGED <<kind, policy, last, seen>>
  PROVE  [Document!Next]_(Document!vars)
<1>1. CASE a \in Making
  <2>1. Document!Settle(a)
    BY <1>1, FailMaps, SameMaps DEF Document!Settle
  <2>2. QED
    BY <2>1 DEF Document!Next
<1>2. CASE a \notin Making
  BY <1>2, FailMaps, SameMaps DEF Document!vars
<1>3. QED
  BY <1>1, <1>2

(* Every step of a handler is a step of SharedDocument, or none. *)
LEMMA HandlerMaps ==
  ASSUME IInv, Claims, NEW a \in Actors, Handler(a)
  PROVE  [Document!Next]_(Document!vars)
<1> DEFINE r == Request(a)
<1> USE DEF IInv
<1>1. ControlOf(a)
  BY DEF Control
<1>2. r.op = op[a] /\ r.from = a
  BY DEF Request
<1>3. Writing(a) => r \in Requests /\ Sound(r)
  BY RequestSound
<1>4. CASE Written(a)
  <2>1. /\ Writing(a) /\ Execute(r) /\ UNCHANGED <<kind, seen, op, state>>
        /\ d' = [d EXCEPT ![a].tracked = TRUE]
    BY <1>4 DEF Written, Writing, core
  <2>2. Tracked' = Tracked
    BY <2>1 DEF Tracked
  <2>3. CASE op[a] = "create"
    <3>1. Making' = Making \cup {a}
      BY <2>1, <2>3 DEF Making, TypeOK, ActorTypes
    <3>2. a \notin Tracked
      BY <1>1, <2>3 DEF ControlOf, Tracked
    <3>3. Document!Create(a, r.body) /\ r.body \in Bodies
      BY <1>2, <1>3, <2>1, <2>2, <2>3, <3>1, <3>2, ExecuteMaps DEF Document!Create
    <3>4. QED
      BY <3>3 DEF Document!Next
  <2>4. CASE op[a] = "update"
    <3>1. Making' = Making
      BY <2>1, <2>4 DEF Making, TypeOK, ActorTypes
    <3>2. Document!Update(a, r.body) /\ r.body \in Bodies
      BY <1>2, <1>3, <2>1, <2>2, <2>4, <3>1, ExecuteMaps DEF Document!Update
    <3>3. QED
      BY <3>2 DEF Document!Next
  <2>5. QED
    BY <1>1, <1>4, <2>3, <2>4 DEF Written, ControlOf
<1>5. CASE Deleted(a)
  <2>1. Writing(a) /\ op[a] = "delete" /\ Execute(r) /\ UNCHANGED <<kind, seen>>
    BY <1>1, <1>5 DEF Deleted, Writing, ControlOf
  <2>2. /\ op'[a] = "none" /\ state'[a] = NoEntry
        /\ \A b \in Actors \ {a} : op'[b] = op[b] /\ d'[b] = d[b] /\ state'[b] = state[b]
    BY <1>5, ReturnFrame DEF Deleted
  <2>3. Making' = Making /\ Tracked' = Tracked \ {a}
    BY <2>1, <2>2 DEF Making, Tracked, NoEntry
  <2>4. Document!Delete(a)
    BY <1>2, <1>3, <2>1, <2>3, ExecuteMaps DEF Document!Delete
  <2>5. QED
    BY <2>4 DEF Document!Next
<1>6. CASE Unanswered(a)
  <2>1. Writing(a) /\ Execute(r) /\ UNCHANGED <<kind, seen>>
    BY <1>6 DEF Unanswered
  <2>2. Making' = Making /\ Tracked' = Tracked
    BY <1>6, RetryMaps DEF Unanswered
  <2>3. CASE op[a] = "create"
    <3>1. Document!Create(a, r.body) /\ r.body \in Bodies
      BY <1>2, <1>3, <2>1, <2>2, <2>3, ExecuteMaps DEF Document!Create
    <3>2. QED
      BY <3>1 DEF Document!Next
  <2>4. CASE op[a] = "update"
    <3>1. Document!Update(a, r.body) /\ r.body \in Bodies
      BY <1>2, <1>3, <2>1, <2>2, <2>4, ExecuteMaps DEF Document!Update
    <3>2. QED
      BY <3>1 DEF Document!Next
  <2>5. CASE op[a] = "delete"
    <3>1. Document!Delete(a)
      BY <1>2, <1>3, <2>1, <2>2, <2>5, ExecuteMaps DEF Document!Delete
    <3>2. QED
      BY <3>1 DEF Document!Next
  <2>6. QED
    BY <1>1, <2>1, <2>3, <2>4, <2>5 DEF Writing, ControlOf
<1>7. CASE Refused(a) \/ Undelivered(a)
  <2>1. Making' = Making /\ Tracked' = Tracked
    BY <1>7, RetryMaps DEF Refused, Undelivered
  <2>2. UNCHANGED <<kind, policy, last, seen>>
    BY <1>7 DEF Refused, Undelivered, cluster, history
  <2>3. QED
    BY <2>1, <2>2, SameMaps DEF Document!vars
<1>8. CASE RequestFails(a) \/ NotFound(a)
  <2>1. pc[a] # "idle" /\ Fail(a) /\ UNCHANGED <<kind, policy, last, seen>>
    BY <1>8 DEF RequestFails, NotFound, cluster, history
  <2>2. QED
    BY <2>1, SettleMaps
<1>9. CASE Read(a)
  <2>1. policy.body # NoBody /\ a \in Making \cup Tracked
    BY <1>1, <1>9, NoBodyAssumption
    DEF Read, Exists, Fresh, ControlOf, Claims, Making, Tracked, TypeOK, ActorTypes
  <2>2. /\ op'[a] = "none" /\ state'[a].tracked
        /\ \A b \in Actors \ {a} : op'[b] = op[b] /\ d'[b] = d[b] /\ state'[b] = state[b]
    BY <1>9, ReturnFrame DEF Read
  <2>3. Making' = Making \ {a} /\ Tracked' = Tracked \cup {a}
    BY <2>2 DEF Making, Tracked
  <2>4. Current' = Current \cup {a}
    BY <1>9 DEF Read, Current, cluster, TypeOK, HistoryTypes
  <2>5. Document!Look(a)
    BY <1>9, <2>1, <2>3, <2>4 DEF Read, Document!Look, cluster
  <2>6. QED
    BY <2>5 DEF Document!Next
<1>10. QED
  BY <1>4, <1>5, <1>6, <1>7, <1>8, <1>9 DEF Handler

(* So is every step of Terraform core. *)
LEMMA CoreMaps ==
  ASSUME IInv, NEW a \in Actors, Core(a) PROVE [Document!Next]_(Document!vars)
<1> USE DEF IInv, TypeOK, ActorTypes
<1>1. UNCHANGED <<kind, policy, last, seen>>
  BY DEF Core, Crash, StartCreate, StartRefresh, StartUpdate, StartDelete, Start, EditConfig,
         cluster, history
<1>2. CASE Crash(a)
  <2>1. /\ op'[a] = "none" /\ state'[a] = state[a]
        /\ \A b \in Actors \ {a} : op'[b] = op[b] /\ d'[b] = d[b] /\ state'[b] = state[b]
    BY <1>2, ReturnFrame DEF Crash
  <2>2. Making' = Making \ {a} /\ Tracked' = Tracked
    BY <2>1 DEF Making, Tracked
  <2>3. CASE a \in Making
    <3>1. Document!Settle(a)
      BY <1>1, <2>2, <2>3, SameMaps DEF Document!Settle
    <3>2. QED
      BY <3>1 DEF Document!Next
  <2>4. CASE a \notin Making
    BY <1>1, <2>2, <2>4, SameMaps DEF Document!vars
  <2>5. QED
    BY <2>3, <2>4
<1>3. CASE ~Crash(a)
  <2>1. state' = state
    BY <1>3
    DEF Core, StartCreate, StartRefresh, StartUpdate, StartDelete, Start, EditConfig, core
  <2>2. \A b \in Actors : b \in Making' <=> b \in Making
    <3>1. CASE EditConfig(a)
      BY <3>1 DEF EditConfig, Making, handler
    <3>2. CASE ~EditConfig(a)
      <4>1. /\ pc[a] = "idle" /\ (op'[a] = "create" => ~d'[a].tracked)
            /\ \A b \in Actors \ {a} : op'[b] = op[b] /\ d'[b] = d[b]
        BY <1>3, <3>2
        DEF Core, StartCreate, StartRefresh, StartUpdate, StartDelete, Start, NoData
      <4>2. op[a] = "none"
        BY <4>1 DEF Control, ControlOf
      <4>3. QED
        BY <4>1, <4>2 DEF Making
    <3>3. QED
      BY <3>1, <3>2
  <2>3. Making' = Making
    BY <2>2 DEF Making
  <2>4. QED
    BY <1>1, <2>1, <2>3, SameMaps DEF Document!vars, Tracked
<1>4. QED
  BY <1>2, <1>3

(* So is every step of the cluster. *)
LEMMA ClusterMaps ==
  ASSUME IInv, LateArrives \/ WrittenElsewhere \/ RemovedElsewhere \/ PrimaryMoves
  PROVE  [Document!Next]_(Document!vars)
<1>1. UNCHANGED <<kind, seen, Making, Tracked>>
  BY DEF LateArrives, WrittenElsewhere, RemovedElsewhere, PrimaryMoves, core, handler,
         history, cluster, Making, Tracked
<1>2. CASE LateArrives
  <2>1. PICK r \in late : Execute(r) \/ UNCHANGED <<policy, last>>
    BY <1>2 DEF LateArrives
  <2>2. r \in Requests /\ Sound(r)
    BY DEF IInv, TypeOK, ClusterTypes, Carried
  <2>3. CASE Execute(r)
    <3>1. r.from \in Actors /\ \/ r.body \in Bodies /\ Document!Update(r.from, r.body)
                               \/ r.body \in Bodies /\ Document!Create(r.from, r.body)
                               \/ Document!Delete(r.from)
      BY <1>1, <2>2, <2>3, ExecuteMaps DEF Document!Update, Document!Create, Document!Delete
    <3>2. QED
      BY <3>1 DEF Document!Next
  <2>4. CASE UNCHANGED <<policy, last>>
    BY <1>1, <2>4, SameMaps DEF Document!vars
  <2>5. QED
    BY <2>1, <2>3, <2>4
<1>3. CASE WrittenElsewhere \/ RemovedElsewhere
  <2>1. PICK b \in Documents : Store(b, Other, "none")
    BY <1>3 DEF WrittenElsewhere, RemovedElsewhere, Documents
  <2>2. Document!Interfere
    BY <1>1, <2>1, StoreMaps DEF Document!Interfere, Documents
  <2>3. QED
    BY <2>2 DEF Document!Next
<1>4. CASE PrimaryMoves
  BY <1>1, <1>4, SameMaps DEF PrimaryMoves, Document!vars, history
<1>5. QED
  BY <1>2, <1>3, <1>4

(* The policy keeps the promises of SharedDocument, for any number of        *)
(* states, attempts, versions and late requests: an update replaces only     *)
(* what a read put into its state, once for each read, and a state names the *)
(* policy until the step in which its own Delete removes it.                 *)
THEOREM Implementation == Spec => ImplementsSharedDocument
<1>1. Init => Document!Init
  BY DEF Init, Document!Init, Current, Making, Tracked, Absent, NoEntry
<1>2. ASSUME IInv, Claims, [Next]_vars PROVE [Document!Next]_(Document!vars)
  <2>1. CASE UNCHANGED vars
    <3>1. UNCHANGED <<kind, policy, last, seen, Making, Tracked>>
      BY <2>1 DEF vars, cluster, core, handler, history, Making, Tracked
    <3>2. QED
      BY <3>1, SameMaps DEF Document!vars
  <2>2. QED
    BY <1>2, <2>1, HandlerMaps, CoreMaps, ClusterMaps DEF Next
<1>3. QED
  BY <1>1, <1>2, Invariant, Claimed, PTL
  DEF Spec, ImplementsSharedDocument, Document!Spec

(* What SharedDocument promises on its own: nobody has seen a document that  *)
(* does not exist.                                                           *)
NothingSeen == policy.body = NoBody => Current = {}

(* The abstract specification keeps that promise.                            *)
LEMMA AbstractSight == ImplementsSharedDocument => []NothingSeen
<1>1. Document!Init => NothingSeen
  BY DEF Document!Init, NothingSeen
<1>2. NothingSeen /\ [Document!Next]_(Document!vars) => NothingSeen'
  BY DEF NothingSeen, Document!Next, Document!vars, Document!Create, Document!Update,
         Document!Delete, Document!Look, Document!Settle, Document!Interfere,
         Document!Replaced
<1>3. QED
  BY <1>1, <1>2, PTL DEF ImplementsSharedDocument, Document!Spec

(* A policy that was deleted is not brought back by an update, however often *)
(* its request is repeated and however late it arrives: only a Create or     *)
(* another client makes a policy.                                            *)
ReviveStep ==
  policy.body = NoBody /\ policy'.body # NoBody => last'.op \in {"create", "none"}

UpdatesNeverRevive == [][ReviveStep]_vars

(* From the refinement: SharedDocument revives nothing, so the policies do  *)
(* not.                                                                     *)
THEOREM DeletedStaysDeleted == Spec => UpdatesNeverRevive
<1>1. NothingSeen /\ [Document!Next]_(Document!vars) => ReviveStep
  <2> SUFFICES ASSUME NothingSeen, [Document!Next]_(Document!vars),
                      policy.body = NoBody, policy'.body # NoBody
               PROVE  last'.op \in {"create", "none"}
    BY DEF ReviveStep
  <2>1. ASSUME NEW a \in Actors, NEW b \in Bodies, Document!Create(a, b)
        PROVE  last'.op = "create"
    BY <2>1 DEF Document!Create, Document!Replaced
  <2>2. ASSUME NEW a \in Actors, NEW b \in Bodies, Document!Update(a, b) PROVE FALSE
    BY <2>2 DEF Document!Update, NothingSeen
  <2>3. CASE Document!Interfere
    BY <2>3 DEF Document!Interfere, Document!Replaced
  <2>4. QED
    BY <2>1, <2>2, <2>3
    DEF Document!Next, Document!vars, Document!Delete, Document!Look, Document!Settle,
        Document!Replaced
<1>2. QED
  BY <1>1, Implementation, AbstractSight, PTL
  DEF ImplementsSharedDocument, Document!Spec, UpdatesNeverRevive
=============================================================================
