--------------------------- MODULE MLModelProofs ---------------------------
(***************************************************************************)
(* Proofs about MLModel, for any set of identifiers and any deadline.      *)
(*                                                                         *)
(* IInv strengthens the properties of MLModel into an inductive invariant: *)
(* what the program counter says about the handler (Control), what has     *)
(* happened to the model it works on (Progress, Quiet, Jobs), and what the *)
(* entry and the handler's data say of is_enabled (Recorded).              *)
(***************************************************************************)
EXTENDS MLModel, TLAPS

(* Which handler is at which step, and which identifiers it holds there. *)
Control ==
  /\ \/ pc = "idle" /\ op = "none" /\ d.id = NoId /\ task = NoId
     \/ pc = "register" /\ op = "create" /\ d.id = NoId /\ task = NoId
     \/ pc = "awaitTask" /\ op = "create" /\ d.id = NoId /\ task \in Ids
     \/ /\ pc \in {"enable", "deploy", "awaitDeploy", "undeploy",
                   "awaitUndeploy", "probe", "read"}
        /\ op = "create" /\ d.id \in Ids /\ task = NoId
     \/ /\ pc \in {"read", "put", "undeploy", "awaitUndeploy", "delete"}
        /\ op \in {"update", "refresh", "delete"}
        /\ (op = "delete") = (pc \in {"undeploy", "awaitUndeploy", "delete"})
        /\ op = "update" => ~state.tainted
        /\ d.id \in Ids /\ d.id = state.id /\ task = NoId
  /\ op = "create" => state.id = NoId
  /\ state.id = NoId => ~state.tainted
  /\ pc \in {"idle", "register", "awaitTask", "enable"} => attempt = 1
  /\ op = "create" /\ pc \in {"undeploy", "awaitUndeploy"} => attempt = 2

(* The server has handed out every identifier the provider or Terraform     *)
(* knows, and registered the models that were given their ID.               *)
Known ==
  /\ \A i \in {state.id, d.id} \ {NoId} : model[i] \in Settled \cup {"DEPLOYING", "gone"}
  /\ task # NoId => model[task] # "free"
  /\ \A i \in abandoned : model[i] # "free"
  /\ \A i \in Ids : model[i] = "DEPLOYED" => i \in everDeployed

(* What Create has achieved by the time it reaches a step. *)
Progress ==
  op = "create" =>
    /\ pc \in {"probe", "read"} /\ config.deploy => d.id \in everDeployed
    /\ pc = "read" /\ config.deploy /\ config.probe => d.id \in answered

(* The entry and the data say of is_enabled what the server uses; the entry  *)
(* is behind only while an Update has sent the flag and not yet returned.    *)
Recorded ==
  /\ state.id # NoId /\ ~state.tainted /\ ~(pc = "read" /\ Switching)
       => InStep(state.id, state.enabled)
  /\ op = "create" /\ pc \in {"deploy", "awaitDeploy", "undeploy", "awaitUndeploy",
                              "probe", "read"}
       => InStep(d.id, d.enabled)
  /\ op = "update" /\ pc = "read" => InStep(d.id, d.enabled)
  /\ op \in {"refresh", "delete"} => d.enabled = state.enabled

NoDeploy(i) == "deploy" \notin job[i]

(* The model a handler works on has settled when it is redeployed or, with a *)
(* clean entry, deleted; and no _deploy of a clean entry's model is pending. *)
Quiet ==
  /\ pc = "awaitTask"
       => model[task] \in {"registering", "regfailed", "REGISTERED", "gone"}
          /\ job[task] = {}
  /\ pc = "enable" \/ (pc = "deploy" /\ attempt = 1)
       => model[d.id] \in {"REGISTERED", "gone"} /\ job[d.id] = {}
  /\ pc = "deploy" => model[d.id] \in {"REGISTERED", "UNDEPLOYED", "gone"} /\ NoDeploy(d.id)
  /\ pc = "delete" /\ ~state.tainted => model[d.id] \in {"REGISTERED", "UNDEPLOYED", "gone"}
  /\ pc = "awaitDeploy" /\ attempt = 1
       => "undeploy" \notin job[d.id] /\ (model[d.id] = "UNDEPLOYED" => NoDeploy(d.id))
  /\ op = "create" /\ pc \in {"undeploy", "awaitUndeploy"}
       => NoDeploy(d.id) \/ model[d.id] = "PARTIALLY_DEPLOYED"
  /\ op = "create" /\ pc \in {"probe", "read"} => NoDeploy(d.id)
  /\ state.id # NoId /\ ~state.tainted => NoDeploy(state.id)

(* A job outlives neither its model nor its registration, and a deployment   *)
(* that succeeded is over.                                                   *)
Jobs ==
  \A i \in Ids : /\ job[i] # {} => model[i] \in Settled \cup {"DEPLOYING"}
                 /\ model[i] = "DEPLOYED" => NoDeploy(i)

IInv == TypeOK /\ Control /\ Known /\ EveryModelAccounted /\ Progress
          /\ AdoptedIsUsable /\ Recorded /\ Quiet /\ Jobs
-----------------------------------------------------------------------------
(* The initial states *)

(* The initial states satisfy the invariant.                                 *)
LEMMA Initially == Init => IInv
  BY NoIdAssumption, MaxPollsAssumption
  DEF Init, IInv, TypeOK, ServerTypes, HandlerTypes, Flags, Control, Known, Progress,
      AdoptedIsUsable, Recorded, Switching, Quiet, Jobs, NoDeploy, EveryModelAccounted,
      Live, Held, Phases,
      Existing, Settled, Steps, Waits, Entries, NoEntry, NoData

-----------------------------------------------------------------------------
(* Types *)

(* The empty entry and the empty data have their types.                                        *)
LEMMA Constants ==
  NoEntry \in Entries /\ NoData \in [id : Ids \cup {NoId}, enabled : BOOLEAN]
  BY DEF NoEntry, Entries, NoData

(* What a handler writes back when it returns has the type of an entry. *)
LEMMA FailTyped ==
  ASSUME HandlerTypes, Fail
  PROVE  HandlerTypes'
<1>1. state' \in Entries
  BY Constants DEF HandlerTypes, Fail, Return, Entries
<1>2. QED
  BY <1>1, Constants, MaxPollsAssumption DEF HandlerTypes, Fail, Return, Steps

(* Going to the next step keeps the types of the handler.                    *)
LEMMA GoToTyped ==
  ASSUME HandlerTypes, NEW p \in Steps, GoTo(p)
  PROVE  HandlerTypes'
  BY MaxPollsAssumption DEF HandlerTypes, GoTo

(* Polling again before the deadline keeps the types of the handler.         *)
LEMMA PollAgainTyped ==
  ASSUME HandlerTypes, polls < MaxPolls, PollAgain
  PROVE  HandlerTypes'
  BY MaxPollsAssumption DEF HandlerTypes, PollAgain

(* d.SetId keeps the types of the handler.                                   *)
LEMMA SetIdTyped ==
  ASSUME HandlerTypes, NEW i \in Ids, SetId(i)
  PROVE  HandlerTypes'
  BY MaxPollsAssumption DEF HandlerTypes, SetId, Steps, Waits

(* The one retry of the deployment keeps the types of the handler.           *)
LEMMA RedeployTyped ==
  ASSUME HandlerTypes, NEW p \in Steps, Redeploy(p)
  PROVE  HandlerTypes'
  BY MaxPollsAssumption DEF HandlerTypes, Redeploy

(* Starting a handler keeps its types.                                       *)
LEMMA StartTyped ==
  ASSUME HandlerTypes, NEW o \in {"create", "update", "refresh", "delete"},
         NEW p \in Steps, NEW id \in Ids \cup {NoId}, NEW on \in BOOLEAN,
         Start(o, p, id, on)
  PROVE  HandlerTypes'
  BY DEF HandlerTypes, Start

(* Every step keeps the types of the server and of the history.              *)
LEMMA ServerTyped ==
  ASSUME IInv, [Next]_vars
  PROVE  ServerTypes'
<1> USE NoIdAssumption
    DEF IInv, TypeOK, ServerTypes, Control, Live, Switched, Existing, Settled, Phases,
        Start, server, handler, history
<1>1. CASE RequestFails
  BY <1>1 DEF RequestFails
<1>2. CASE DeadlinePasses
  BY <1>2 DEF DeadlinePasses
<1>3. CASE Register
  BY <1>3 DEF Register
<1>4. CASE RegisterUnanswered
  BY <1>4 DEF RegisterUnanswered
<1>5. CASE AwaitTask
  BY <1>5 DEF AwaitTask
<1>6. CASE SetEnabled
  BY <1>6 DEF SetEnabled
<1>7. CASE Deploy
  BY <1>7 DEF Deploy
<1>8. CASE AwaitDeploy
  BY <1>8 DEF AwaitDeploy
<1>9. CASE Undeploy
  BY <1>9 DEF Undeploy
<1>10. CASE AwaitUndeploy
  BY <1>10 DEF AwaitUndeploy
<1>11. CASE Probe
  BY <1>11 DEF Probe
<1>12. CASE Read
  BY <1>12 DEF Read
<1>13. CASE Put
  BY <1>13 DEF Put
<1>14. CASE Delete
  BY <1>14 DEF Delete
<1>15. CASE StartCreate
  BY <1>15 DEF StartCreate
<1>16. CASE StartRefresh
  BY <1>16 DEF StartRefresh
<1>17. CASE StartUpdate
  BY <1>17 DEF StartUpdate
<1>18. CASE StartDelete
  BY <1>18 DEF StartDelete
<1>19. CASE EditConfig
  BY <1>19 DEF EditConfig
<1>20. CASE Crash
  BY <1>20 DEF Crash
<1>21. ASSUME NEW i \in Ids, ServerStep(i) PROVE ServerTypes'
  <2>1. CASE TaskEnds(i)
    BY <1>21, <2>1 DEF ServerStep, TaskEnds
  <2>2. CASE DeployStarts(i)
    BY <1>21, <2>2 DEF ServerStep, DeployStarts
  <2>3. CASE DeployEnds(i)
    BY <1>21, <2>3 DEF ServerStep, DeployEnds
  <2>4. CASE UndeployEnds(i)
    BY <1>21, <2>4 DEF ServerStep, UndeployEnds
  <2>5. CASE Drift(i)
    BY <1>21, <2>5 DEF ServerStep, Drift
  <2>6. CASE RemovedElsewhere(i)
    BY <1>21, <2>6 DEF ServerStep, RemovedElsewhere
  <2> QED BY <1>21, <2>1, <2>2, <2>3, <2>4, <2>5, <2>6 DEF ServerStep
<1>22. ASSUME NEW i \in Ids, SwitchedElsewhere(i) PROVE ServerTypes'
  BY <1>22 DEF SwitchedElsewhere
<1>23. CASE UNCHANGED vars
  BY <1>23 DEF vars
<1> QED
  BY <1>1, <1>2, <1>3, <1>4, <1>5, <1>6, <1>7, <1>8, <1>9, <1>10, <1>11, <1>12,
     <1>13, <1>14, <1>15, <1>16, <1>17, <1>18, <1>19, <1>20, <1>21, <1>22, <1>23
  DEF Next, Handler, Core

(* Every step keeps the types of the handler and of the entry.               *)
LEMMA HandlerTyped ==
  ASSUME IInv, [Next]_vars
  PROVE  HandlerTypes'
<1>0. TypeOK /\ HandlerTypes /\ Control
  BY DEF IInv, TypeOK
<1>1. CASE RequestFails
  BY <1>0, <1>1, FailTyped DEF RequestFails
<1>2. CASE DeadlinePasses
  BY <1>0, <1>2, FailTyped DEF DeadlinePasses
<1>3. CASE Register
  <2>1. PICK i \in Ids : SetId(i) \/ (/\ pc' = "awaitTask" /\ polls' = 0 /\ task' = i
                          /\ UNCHANGED <<state, op, d, attempt, abandoned>>)
    BY <1>3 DEF Register
  <2>2. QED
    BY <1>0, <2>1, SetIdTyped, MaxPollsAssumption DEF HandlerTypes, Steps, Waits
<1>4. CASE RegisterUnanswered
  <2>1. abandoned' \subseteq Ids
    BY <1>0, <1>4 DEF RegisterUnanswered, HandlerTypes
  <2>2. QED
    BY <1>0, <2>1, <1>4, Constants, MaxPollsAssumption
    DEF RegisterUnanswered, Return, HandlerTypes, Steps, handler
<1>5. CASE AwaitTask
  BY <1>0, <1>5, FailTyped, PollAgainTyped, SetIdTyped DEF AwaitTask, Control
<1>6. CASE SetEnabled
  BY <1>0, <1>6, GoToTyped, FailTyped DEF SetEnabled, AfterEnable, Steps, Waits
<1>7. CASE Deploy
  BY <1>0, <1>7, GoToTyped, FailTyped DEF Deploy, Steps, Waits
<1>8. CASE AwaitDeploy
  BY <1>0, <1>8, GoToTyped, FailTyped, PollAgainTyped, RedeployTyped
  DEF AwaitDeploy, Steps, Waits
<1>9. CASE Undeploy
  BY <1>0, <1>9, GoToTyped, FailTyped DEF Undeploy, AfterUndeploy, Steps, Waits
<1>10. CASE AwaitUndeploy
  BY <1>0, <1>10, GoToTyped, FailTyped, PollAgainTyped
  DEF AwaitUndeploy, AfterUndeploy, Steps, Waits
<1>11. CASE Probe
  BY <1>0, <1>11, GoToTyped, PollAgainTyped DEF Probe, Steps, Waits
<1>12. CASE Read
  <2>1. d.id \in Ids \cup {NoId} /\ state.tainted \in BOOLEAN /\ d.enabled \in BOOLEAN
    BY <1>0 DEF HandlerTypes, Entries
  <2>2. \A echoed \in BOOLEAN : (IF echoed THEN d.id \in enabled ELSE d.enabled) \in BOOLEAN
    <3>1. (d.id \in enabled) \in BOOLEAN
      OBVIOUS
    <3>2. QED
      BY <2>1, <3>1, Zenon
  <2>3. \A x \in Ids \cup {NoId}, y, z \in BOOLEAN :
          [id |-> x, tainted |-> y, enabled |-> z] \in Entries
    BY DEF Entries
  <2>4. state' \in Entries
    BY <2>1, <2>2, <2>3, <1>12, Constants DEF Read, Return
  <2>5. QED
    BY <1>0, <2>4, <1>12, Constants, MaxPollsAssumption DEF Read, Return, HandlerTypes, Steps
<1>13. CASE Put
  BY <1>0, <1>13, GoToTyped, FailTyped DEF Put, Steps, Waits
<1>14. CASE Delete
  <2>1. CASE Fail
    BY <1>0, <2>1, FailTyped
  <2>2. CASE Return(NoEntry) /\ UNCHANGED abandoned
    BY <1>0, <2>2, Constants, MaxPollsAssumption DEF Return, HandlerTypes, Steps
  <2>3. QED
    BY <2>1, <2>2, <1>14 DEF Delete
<1>15. CASE StartCreate
  BY <1>0, <1>15, StartTyped DEF StartCreate, TypeOK, Flags, Steps
<1>16. CASE StartRefresh
  <2>1. state.id \in Ids \cup {NoId} /\ state.enabled \in BOOLEAN
    BY <1>0 DEF HandlerTypes, Entries
  <2>2. QED
    BY <1>0, <2>1, <1>16, StartTyped DEF StartRefresh, Steps, Waits
<1>17. CASE StartUpdate
  BY <1>0, <1>17, StartTyped
  DEF StartUpdate, TypeOK, Flags, HandlerTypes, Entries, Steps
<1>18. CASE StartDelete
  <2>1. state.id \in Ids \cup {NoId} /\ state.enabled \in BOOLEAN
    BY <1>0 DEF HandlerTypes, Entries
  <2>2. QED
    BY <1>0, <2>1, <1>18, StartTyped DEF StartDelete, Steps, Waits
<1>19. CASE EditConfig
  BY <1>0, <1>19 DEF EditConfig, HandlerTypes, handler
<1>20. CASE Crash
  BY <1>0, <1>20, Constants, MaxPollsAssumption DEF Crash, Return, Held, HandlerTypes, Steps
<1>21. ASSUME NEW i \in Ids, ServerStep(i) \/ SwitchedElsewhere(i) PROVE HandlerTypes'
  BY <1>0, <1>21 DEF ServerStep, SwitchedElsewhere, HandlerTypes, handler
<1>22. CASE UNCHANGED vars
  BY <1>0, <1>22 DEF vars, HandlerTypes, handler
<1> QED
  BY <1>1, <1>2, <1>3, <1>4, <1>5, <1>6, <1>7, <1>8, <1>9, <1>10, <1>11, <1>12,
     <1>13, <1>14, <1>15, <1>16, <1>17, <1>18, <1>19, <1>20, <1>21, <1>22
  DEF Next, Handler, Core

(* Every step keeps the type of the configuration.                           *)
LEMMA ConfigTyped ==
  ASSUME TypeOK, [Next]_vars
  PROVE  config' \in Flags
<1>1. config' = config \/ EditConfig
  BY DEF Next, Handler, Core, vars, Start, RequestFails, DeadlinePasses, Register,
         RegisterUnanswered, AwaitTask, SetEnabled, Deploy, AwaitDeploy, Undeploy,
         AwaitUndeploy, Probe, Read, Put, Delete, StartCreate, StartRefresh, StartUpdate,
         StartDelete, Crash, ServerStep, SwitchedElsewhere
<1>2. QED
  BY <1>1 DEF TypeOK, Flags, EditConfig

-----------------------------------------------------------------------------
(* The invariant is inductive *)

(* Every step keeps what the program counter says, what is known, and the    *)
(* account of every model.                                                   *)
LEMMA ControlInductive ==
  ASSUME IInv, [Next]_vars
  PROVE  Control' /\ Known' /\ EveryModelAccounted'
<1> DEFINE Goal == Control' /\ Known' /\ EveryModelAccounted'
<1> USE NoIdAssumption
    DEF IInv, TypeOK, ServerTypes, HandlerTypes, Control, Known, EveryModelAccounted,
        Live, Held, Existing, Settled, Phases, Steps, Waits, Entries, NoEntry, NoData,
        Start, Return, Fail, GoTo, PollAgain, SetId, AfterEnable, AfterUndeploy,
        ObservedState, Redeploy, Switched, server, handler, history
<1>1. CASE RequestFails
  BY <1>1 DEF RequestFails
<1>2. CASE DeadlinePasses
  BY <1>2 DEF DeadlinePasses
<1>3. CASE Register
  BY <1>3 DEF Register
<1>4. CASE RegisterUnanswered
  BY <1>4 DEF RegisterUnanswered
<1>5. CASE AwaitTask
  BY <1>5 DEF AwaitTask
<1>6. CASE SetEnabled
  BY <1>6 DEF SetEnabled
<1>7. CASE Deploy
  BY <1>7 DEF Deploy
<1>8. CASE AwaitDeploy
  BY <1>8 DEF AwaitDeploy
<1>9. CASE Undeploy
  BY <1>9 DEF Undeploy
<1>10. CASE AwaitUndeploy
  BY <1>10 DEF AwaitUndeploy
<1>11. CASE Probe
  BY <1>11 DEF Probe
<1>12. CASE Read
  BY <1>12 DEF Read
<1>13. CASE Put
  BY <1>13 DEF Put
<1>14. CASE Delete
  BY <1>14 DEF Delete
<1>15. CASE StartCreate
  BY <1>15 DEF StartCreate
<1>16. CASE StartRefresh
  BY <1>16 DEF StartRefresh
<1>17. CASE StartUpdate
  BY <1>17 DEF StartUpdate
<1>18. CASE StartDelete
  BY <1>18 DEF StartDelete
<1>19. CASE EditConfig
  BY <1>19 DEF EditConfig
<1>20. CASE Crash
  BY <1>20 DEF Crash
<1>21. ASSUME NEW i \in Ids, ServerStep(i) PROVE Goal
  <2>1. CASE TaskEnds(i)
    BY <1>21, <2>1 DEF ServerStep, TaskEnds
  <2>2. CASE DeployStarts(i)
    BY <1>21, <2>2 DEF ServerStep, DeployStarts
  <2>3. CASE DeployEnds(i)
    BY <1>21, <2>3 DEF ServerStep, DeployEnds, UnderWay
  <2>4. CASE UndeployEnds(i)
    <3>1. PICK p \in {"UNDEPLOYED", "REGISTERED", "DEPLOY_FAILED"} :
            model' = [model EXCEPT ![i] = p]
      BY <2>4 DEF UndeployEnds
    <3>2. Live(i) /\ UNCHANGED <<state, handler, abandoned, everDeployed>>
      BY <1>21, <2>4 DEF ServerStep, UndeployEnds
    <3>3. QED
      BY <3>1, <3>2
  <2>5. CASE Drift(i)
    BY <1>21, <2>5 DEF ServerStep, Drift
  <2>6. CASE RemovedElsewhere(i)
    BY <1>21, <2>6 DEF ServerStep, RemovedElsewhere
  <2> QED BY <1>21, <2>1, <2>2, <2>3, <2>4, <2>5, <2>6 DEF ServerStep
<1>22. ASSUME NEW i \in Ids, SwitchedElsewhere(i) PROVE Goal
  BY <1>22 DEF SwitchedElsewhere
<1>23. CASE UNCHANGED vars
  BY <1>23 DEF vars
<1> QED
  BY <1>1, <1>2, <1>3, <1>4, <1>5, <1>6, <1>7, <1>8, <1>9, <1>10, <1>11, <1>12,
     <1>13, <1>14, <1>15, <1>16, <1>17, <1>18, <1>19, <1>20, <1>21, <1>22, <1>23
  DEF Next, Handler, Core

(* A handler that fails leaves a tainted entry, none, or the one there was. *)
LEMMA FailKeepsUsable ==
  ASSUME IInv, Fail, config' = config, everDeployed' = everDeployed, answered' = answered
  PROVE  AdoptedIsUsable'
<1> USE NoIdAssumption DEF IInv, Control, AdoptedIsUsable, Fail, Return, NoEntry
<1>1. CASE op = "create"
  BY <1>1
<1>2. CASE op # "create" /\ d.id # NoId
  <2>1. d.id = state.id /\ state'.id = state.id /\ state'.tainted = state.tainted
    BY <1>2 DEF TypeOK, HandlerTypes, Entries
  <2>2. QED
    BY <2>1
<1>3. CASE d.id = NoId
  BY <1>3
<1> QED
  BY <1>1, <1>2, <1>3

(* A step that leaves the entry alone and forgets nothing keeps it sound.    *)
LEMMA StateKeepsUsable ==
  ASSUME IInv, state' = state, config' = config, everDeployed' = everDeployed,
         answered' = answered
  PROVE  AdoptedIsUsable'
  BY DEF IInv, AdoptedIsUsable

(* Every step keeps what Create achieved and what a clean entry relies on.   *)
LEMMA UsableInductive ==
  ASSUME IInv, [Next]_vars
  PROVE  Progress' /\ AdoptedIsUsable' /\ Jobs'
<1> DEFINE Goal == Progress' /\ AdoptedIsUsable' /\ Jobs'
<1> USE NoIdAssumption
    DEF IInv, TypeOK, ServerTypes, HandlerTypes, Control, Known, Progress, AdoptedIsUsable,
        Quiet, Jobs, NoDeploy, UnderWay,
        Live, Held, Existing, Settled, Phases, Steps, Waits, Entries, NoEntry, NoData,
        Start, Return, Fail, GoTo, PollAgain, SetId, AfterEnable, AfterUndeploy,
        ObservedState, Redeploy, Switched, server, handler, history
<1>1. CASE RequestFails
  BY <1>1 DEF RequestFails
<1>2. CASE DeadlinePasses
  BY <1>2 DEF DeadlinePasses
<1>3. CASE Register
  BY <1>3 DEF Register
<1>4. CASE RegisterUnanswered
  BY <1>4 DEF RegisterUnanswered
<1>5. CASE AwaitTask
  BY <1>5 DEF AwaitTask
<1>6. CASE SetEnabled
  <2>1. Progress'
    BY <1>6 DEF SetEnabled
  <2>2. AdoptedIsUsable'
    BY <1>6, FailKeepsUsable, StateKeepsUsable DEF SetEnabled
  <2>3. Jobs'
    BY <1>6 DEF SetEnabled
  <2> QED BY <2>1, <2>2, <2>3
<1>7. CASE Deploy
  <2>1. Progress'
    BY <1>7 DEF Deploy
  <2>2. AdoptedIsUsable'
    BY <1>7, FailKeepsUsable, StateKeepsUsable DEF Deploy
  <2>3. Jobs'
    BY <1>7 DEF Deploy
  <2> QED BY <2>1, <2>2, <2>3
<1>8. CASE AwaitDeploy
  <2>1. Progress'
    BY <1>8 DEF AwaitDeploy
  <2>2. AdoptedIsUsable'
    BY <1>8, FailKeepsUsable, StateKeepsUsable DEF AwaitDeploy
  <2>3. Jobs'
    BY <1>8 DEF AwaitDeploy
  <2> QED BY <2>1, <2>2, <2>3
<1>9. CASE Undeploy
  <2>1. Progress'
    BY <1>9 DEF Undeploy
  <2>2. AdoptedIsUsable'
    BY <1>9, FailKeepsUsable, StateKeepsUsable DEF Undeploy
  <2>3. Jobs'
    BY <1>9 DEF Undeploy
  <2> QED BY <2>1, <2>2, <2>3
<1>10. CASE AwaitUndeploy
  <2>1. Progress'
    BY <1>10 DEF AwaitUndeploy
  <2>2. AdoptedIsUsable'
    BY <1>10, FailKeepsUsable, StateKeepsUsable DEF AwaitUndeploy
  <2>3. Jobs'
    BY <1>10 DEF AwaitUndeploy
  <2> QED BY <2>1, <2>2, <2>3
<1>11. CASE Probe
  BY <1>11 DEF Probe
<1>12. CASE Read
  BY <1>12 DEF Read
<1>13. CASE Put
  BY <1>13 DEF Put
<1>14. CASE Delete
  BY <1>14 DEF Delete
<1>15. CASE StartCreate
  BY <1>15 DEF StartCreate
<1>16. CASE StartRefresh
  BY <1>16 DEF StartRefresh
<1>17. CASE StartUpdate
  BY <1>17 DEF StartUpdate
<1>18. CASE StartDelete
  BY <1>18 DEF StartDelete
<1>19. CASE EditConfig
  BY <1>19 DEF EditConfig
<1>20. CASE Crash
  BY <1>20 DEF Crash
<1>21. ASSUME NEW i \in Ids, ServerStep(i) PROVE Goal
  <2>1. CASE TaskEnds(i)
    BY <1>21, <2>1 DEF ServerStep, TaskEnds
  <2>2. CASE DeployStarts(i)
    BY <1>21, <2>2 DEF ServerStep, DeployStarts
  <2>3. CASE DeployEnds(i)
    BY <1>21, <2>3 DEF ServerStep, DeployEnds
  <2>4. CASE UndeployEnds(i)
    BY <1>21, <2>4 DEF ServerStep, UndeployEnds
  <2>5. CASE Drift(i)
    BY <1>21, <2>5 DEF ServerStep, Drift
  <2>6. CASE RemovedElsewhere(i)
    BY <1>21, <2>6 DEF ServerStep, RemovedElsewhere
  <2> QED BY <1>21, <2>1, <2>2, <2>3, <2>4, <2>5, <2>6 DEF ServerStep
<1>22. ASSUME NEW i \in Ids, SwitchedElsewhere(i) PROVE Goal
  BY <1>22 DEF SwitchedElsewhere
<1>23. CASE UNCHANGED vars
  BY <1>23 DEF vars
<1> QED
  BY <1>1, <1>2, <1>3, <1>4, <1>5, <1>6, <1>7, <1>8, <1>9, <1>10, <1>11, <1>12,
     <1>13, <1>14, <1>15, <1>16, <1>17, <1>18, <1>19, <1>20, <1>21, <1>22, <1>23
  DEF Next, Handler, Core

(* Every step keeps the model settled where the handler relies on it.        *)
LEMMA QuietInductive ==
  ASSUME IInv, [Next]_vars
  PROVE  Quiet'
<1> USE NoIdAssumption
    DEF IInv, TypeOK, ServerTypes, HandlerTypes, Control, Known, Quiet, Jobs, NoDeploy, UnderWay,
        Live, Held, Existing, Settled, Phases, Steps, Waits, Entries, NoEntry, NoData,
        Start, Return, Fail, GoTo, PollAgain, SetId, AfterEnable, AfterUndeploy,
        ObservedState, Redeploy, Switched, server, handler, history
<1>1. CASE RequestFails
  BY <1>1 DEF RequestFails
<1>2. CASE DeadlinePasses
  BY <1>2 DEF DeadlinePasses
<1>3. CASE Register
  BY <1>3 DEF Register
<1>4. CASE RegisterUnanswered
  BY <1>4 DEF RegisterUnanswered
<1>5. CASE AwaitTask
  BY <1>5 DEF AwaitTask
<1>6. CASE SetEnabled
  BY <1>6 DEF SetEnabled
<1>7. CASE Deploy
  <2>1. /\ pc = "deploy" /\ op = "create" /\ d.id \in Ids /\ state.id = NoId
        /\ UNCHANGED model
        /\ job'[d.id] = job[d.id] \cup {"deploy"}
    BY <1>7 DEF Deploy
  <2>2. CASE GoTo("awaitDeploy")
    <3>1. attempt = 1 => model[d.id] # "UNDEPLOYED" /\ job'[d.id] = {"deploy"}
      BY <2>1
    <3>2. QED
      BY <2>1, <2>2, <3>1
  <2>3. CASE Fail
    BY <2>1, <2>3
  <2>4. QED
    BY <1>7, <2>2, <2>3 DEF Deploy
<1>8. CASE AwaitDeploy
  <2>1. /\ pc = "awaitDeploy" /\ op = "create" /\ d.id \in Ids /\ state.id = NoId
        /\ UNCHANGED <<model, job>>
        /\ model[d.id] \in {"DEPLOYED", "gone"} => NoDeploy(d.id)
    BY <1>8 DEF AwaitDeploy
  <2>2. CASE Fail
    BY <2>1, <2>2
  <2>7. CASE PollAgain
    BY <2>1, <2>7
  <2>3. CASE ObservedState = "DEPLOYED" /\ GoTo(IF config.probe THEN "probe" ELSE "read")
    BY <2>1, <2>3
  <2>4. CASE ObservedState = "PARTIALLY_DEPLOYED" /\ Redeploy("undeploy")
    BY <2>1, <2>4
  <2>5. CASE ObservedState = "UNDEPLOYED" /\ Redeploy("deploy")
    BY <2>1, <2>5
  <2>6. QED
    BY <1>8, <2>2, <2>3, <2>4, <2>5, <2>7 DEF AwaitDeploy
<1>9. CASE Undeploy
  <2>1. /\ pc = "undeploy" /\ d.id \in Ids /\ UNCHANGED model
        /\ model[d.id] = "gone" => NoDeploy(d.id)
    BY <1>9 DEF Undeploy
  <2>2. CASE GoTo(AfterUndeploy) /\ UNCHANGED job
    <3>1. model[d.id] \in {"REGISTERED", "UNDEPLOYED", "gone"}
      BY <1>9, <2>1, <2>2 DEF Undeploy
    <3>2. QED
      BY <2>1, <2>2, <3>1
  <2>3. CASE job' = [job EXCEPT ![d.id] = @ \cup {"undeploy"}] /\ (GoTo("awaitUndeploy") \/ Fail)
    <3>1. \A i \in Ids : NoDeploy(i) => NoDeploy(i)'
      BY <2>1, <2>3
    <3>2. CASE GoTo("awaitUndeploy")
      BY <2>1, <3>1, <3>2
    <3>3. CASE Fail
      BY <2>1, <3>1, <3>3
    <3>4. QED
      BY <2>3, <3>2, <3>3
  <2>4. QED
    BY <1>9, <2>2, <2>3 DEF Undeploy
<1>10. CASE AwaitUndeploy
  <2>1. /\ pc = "awaitUndeploy" /\ d.id \in Ids /\ UNCHANGED <<model, job>>
        /\ model[d.id] = "gone" => NoDeploy(d.id)
    BY <1>10 DEF AwaitUndeploy
  <2>2. CASE Fail
    BY <2>1, <2>2
  <2>5. CASE PollAgain
    BY <2>1, <2>5
  <2>3. CASE ObservedState \in {"UNDEPLOYED", "REGISTERED"} /\ GoTo(AfterUndeploy)
    <3>1. model[d.id] \in {"REGISTERED", "UNDEPLOYED", "gone"}
      BY <2>1, <2>3
    <3>2. QED
      BY <2>1, <2>3, <3>1
  <2>4. QED
    BY <1>10, <2>2, <2>3, <2>5 DEF AwaitUndeploy
<1>11. CASE Probe
  BY <1>11 DEF Probe
<1>12. CASE Read
  BY <1>12 DEF Read
<1>13. CASE Put
  BY <1>13 DEF Put
<1>14. CASE Delete
  BY <1>14 DEF Delete
<1>15. CASE StartCreate
  BY <1>15 DEF StartCreate
<1>16. CASE StartRefresh
  BY <1>16 DEF StartRefresh
<1>17. CASE StartUpdate
  BY <1>17 DEF StartUpdate
<1>18. CASE StartDelete
  BY <1>18 DEF StartDelete
<1>19. CASE EditConfig
  BY <1>19 DEF EditConfig
<1>20. CASE Crash
  BY <1>20 DEF Crash
<1>21. ASSUME NEW i \in Ids, ServerStep(i) PROVE Quiet'
  <2>1. CASE TaskEnds(i)
    BY <1>21, <2>1 DEF ServerStep, TaskEnds
  <2>2. CASE DeployStarts(i)
    BY <1>21, <2>2 DEF ServerStep, DeployStarts
  <2>3. CASE DeployEnds(i)
    BY <1>21, <2>3 DEF ServerStep, DeployEnds
  <2>4. CASE UndeployEnds(i)
    BY <1>21, <2>4 DEF ServerStep, UndeployEnds
  <2>5. CASE Drift(i)
    BY <1>21, <2>5 DEF ServerStep, Drift
  <2>6. CASE RemovedElsewhere(i)
    BY <1>21, <2>6 DEF ServerStep, RemovedElsewhere
  <2> QED BY <1>21, <2>1, <2>2, <2>3, <2>4, <2>5, <2>6 DEF ServerStep
<1>22. ASSUME NEW i \in Ids, SwitchedElsewhere(i) PROVE Quiet'
  BY <1>22 DEF SwitchedElsewhere
<1>23. CASE UNCHANGED vars
  BY <1>23 DEF vars
<1> QED
  BY <1>1, <1>2, <1>3, <1>4, <1>5, <1>6, <1>7, <1>8, <1>9, <1>10, <1>11, <1>12,
     <1>13, <1>14, <1>15, <1>16, <1>17, <1>18, <1>19, <1>20, <1>21, <1>22, <1>23
  DEF Next, Handler, Core

(* Every step keeps what is recorded of is_enabled.                          *)
LEMMA RecordedInductive ==
  ASSUME IInv, [Next]_vars
  PROVE  Recorded'
<1> USE NoIdAssumption
    DEF IInv, TypeOK, HandlerTypes, Control, Recorded, InStep, Switching, Live,
        Steps, Waits, Entries, NoEntry, NoData,
        Start, Return, Fail, GoTo, PollAgain, SetId, AfterEnable, AfterUndeploy,
        ObservedState, Redeploy, Switched, server, handler, history
<1>1. CASE RequestFails
  BY <1>1 DEF RequestFails
<1>2. CASE DeadlinePasses
  BY <1>2 DEF DeadlinePasses
<1>3. CASE Register
  BY <1>3 DEF Register
<1>4. CASE RegisterUnanswered
  BY <1>4 DEF RegisterUnanswered
<1>5. CASE AwaitTask
  BY <1>5 DEF AwaitTask
<1>6. CASE SetEnabled
  BY <1>6 DEF SetEnabled
<1>7. CASE Deploy
  BY <1>7 DEF Deploy
<1>8. CASE AwaitDeploy
  BY <1>8 DEF AwaitDeploy
<1>9. CASE Undeploy
  BY <1>9 DEF Undeploy
<1>10. CASE AwaitUndeploy
  BY <1>10 DEF AwaitUndeploy
<1>11. CASE Probe
  BY <1>11 DEF Probe
<1>12. CASE Read
  BY <1>12 DEF Read
<1>13. CASE Put
  BY <1>13 DEF Put
<1>14. CASE Delete
  BY <1>14 DEF Delete
<1>15. CASE StartCreate
  BY <1>15 DEF StartCreate
<1>16. CASE StartRefresh
  BY <1>16 DEF StartRefresh
<1>17. CASE StartUpdate
  BY <1>17 DEF StartUpdate
<1>18. CASE StartDelete
  BY <1>18 DEF StartDelete
<1>19. CASE EditConfig
  BY <1>19 DEF EditConfig
<1>20. CASE Crash
  BY <1>20 DEF Crash
<1>21. ASSUME NEW i \in Ids, ServerStep(i) PROVE Recorded'
  BY <1>21 DEF ServerStep
<1>22. ASSUME NEW i \in Ids, SwitchedElsewhere(i) PROVE Recorded'
  BY <1>22 DEF SwitchedElsewhere
<1>23. CASE UNCHANGED vars
  BY <1>23 DEF vars
<1> QED
  BY <1>1, <1>2, <1>3, <1>4, <1>5, <1>6, <1>7, <1>8, <1>9, <1>10, <1>11, <1>12,
     <1>13, <1>14, <1>15, <1>16, <1>17, <1>18, <1>19, <1>20, <1>21, <1>22, <1>23
  DEF Next, Handler, Core

(* The invariant is inductive.                                               *)
LEMMA Inductive == IInv /\ [Next]_vars => IInv'
  BY ServerTyped, HandlerTyped, ConfigTyped, ControlInductive, UsableInductive, QuietInductive,
     RecordedInductive
  DEF IInv, TypeOK

(* It holds in every reachable state.                                        *)
LEMMA Invariant == Spec => []IInv
  BY Initially, Inductive, PTL DEF Spec

-----------------------------------------------------------------------------
(* Theorems *)

(* Every variable keeps its type: a wait ends at its deadline and            *)
(* deployMLModel deploys at most twice.                                      *)
THEOREM TypeCorrect == Spec => []TypeOK
<1>1. IInv => TypeOK
  BY DEF IInv
<1>2. QED
  BY <1>1, Invariant, PTL

(* No model is lost once d.SetId recorded it: deploy, probe, read, update    *)
(* and delete may fail at any request without losing it.                     *)
THEOREM ModelsAccounted == Spec => []EveryModelAccounted
<1>1. IInv => EveryModelAccounted
  BY DEF IInv
<1>2. QED
  BY <1>1, Invariant, PTL

(* A clean entry names a model that was deployed and that answered its probe. *)
THEOREM CleanMeansUsable == Spec => []AdoptedIsUsable
<1>1. IInv => AdoptedIsUsable
  BY DEF IInv
<1>2. QED
  BY <1>1, Invariant, PTL

(* The retry of deployMLModel starts from a model that is not deployed.      *)
THEOREM RedeployIsClean == Spec => []RedeployStartsClean
<1>1. IInv => RedeployStartsClean
  BY DEF IInv, Quiet, RedeployStartsClean, UnderWay
<1>2. QED
  BY <1>1, Invariant, PTL

(* The DELETE request for a clean entry meets a model that is not deployed,  *)
(* with no _deploy pending.                                                  *)
THEOREM DeleteIsSafe == Spec => DeletesOnlyUndeployed
<1>1. ASSUME IInv, [Next]_vars, pc = "delete", model[d.id] # "gone", ~state.tainted
      PROVE  model[d.id] \in {"REGISTERED", "UNDEPLOYED"} /\ "deploy" \notin job[d.id]
  <2>1. d.id \in Ids /\ d.id = state.id
    BY <1>1 DEF IInv, Control
  <2>2. QED
    BY <1>1, <2>1, NoIdAssumption DEF IInv, Quiet, NoDeploy
<1>2. IInv /\ [Next]_vars => [DeleteStep]_vars
  BY <1>1 DEF DeleteStep
<1>3. QED
  BY <1>2, Invariant, PTL DEF Spec, DeletesOnlyUndeployed

(* An entry leaves the state file only after a 404 or an accepted DELETE,    *)
(* that is, for a model the server no longer has.                            *)
THEOREM ForgottenIsGone == Spec => ForgetsOnlyGone
<1>1. ASSUME IInv, [Next]_vars, state.id # NoId, state'.id # state.id
      PROVE  state'.id = NoId /\ model'[state.id] = "gone"
  <2> USE NoIdAssumption
      DEF IInv, TypeOK, ServerTypes, HandlerTypes, Control, Known, Live, Existing, Settled,
          Entries, NoEntry, Return, Fail, GoTo, PollAgain, SetId, Redeploy, Start, server
  <2>1. CASE Read
    BY <1>1, <2>1 DEF Read
  <2>2. CASE Delete
    BY <1>1, <2>2 DEF Delete
  <2>3. state' # state /\ (pc # "idle" => ~Fail)
    BY <1>1
  <2>4. CASE \/ Register \/ Deploy \/ Undeploy \/ SetEnabled \/ Put \/ Probe \/ AwaitTask
             \/ AwaitDeploy \/ AwaitUndeploy \/ RequestFails \/ DeadlinePasses
    BY <2>3, <2>4
    DEF Register, Deploy, Undeploy, SetEnabled, Put, Probe, AwaitTask, AwaitDeploy,
        AwaitUndeploy, RequestFails, DeadlinePasses, Waits
  <2>5. CASE \/ RegisterUnanswered \/ Crash \/ Core \/ UNCHANGED vars
             \/ \E i \in Ids : ServerStep(i) \/ SwitchedElsewhere(i)
    BY <1>1, <2>3, <2>5
    DEF RegisterUnanswered, Crash, Core, StartCreate, StartRefresh, StartUpdate,
        StartDelete, EditConfig, ServerStep, SwitchedElsewhere, vars
  <2>6. QED
    BY <1>1, <2>1, <2>2, <2>4, <2>5 DEF Next, Handler
<1>2. IInv /\ [Next]_vars => [ForgetStep]_vars
  BY <1>1 DEF ForgetStep
<1>3. QED
  BY <1>2, Invariant, PTL DEF Spec, ForgetsOnlyGone

(* Between two handlers a clean entry says of is_enabled what the server     *)
(* uses, unless the model rejects the PUT or is in doubt.                    *)
THEOREM RecordedIsTrue == Spec => []RecordedFlagIsTrue
<1>1. IInv => RecordedFlagIsTrue
  BY DEF IInv, Recorded, RecordedFlagIsTrue
<1>2. QED
  BY <1>1, Invariant, PTL

-----------------------------------------------------------------------------
(* A handler comes to its end *)

(* A handler has at most eleven steps ahead of it, the retry of the          *)
(* deployment included: Create registers, enables, deploys, waits, undeploys *)
(* and deploys once more; Delete undeploys, waits and deletes.               *)
StepsAhead ==
  [idle |-> 0, read |-> 1, probe |-> 2, put |-> 2, awaitDeploy |-> 3, deploy |-> 4, delete |-> 4,
   awaitUndeploy |-> 5, undeploy |-> 6, enable |-> 9, awaitTask |-> 10, register |-> 11]

AheadOf(p, n) ==
  StepsAhead[p] + (IF n = 1 /\ p \in {"deploy", "awaitDeploy"} THEN 4 ELSE 0)

Ahead == AheadOf(pc, attempt)

Advances ==
  \/ Ahead' < Ahead
  \/ Ahead' = Ahead /\ polls' = polls + 1 /\ polls' <= MaxPolls

(* Every step of a handler takes it nearer to its return or uses up one of   *)
(* the polls its wait may still make, whatever the ML plugin and its other   *)
(* users do to the model; only the HTTP client's own repetition of a         *)
(* registration, each time with another model, brings it no further.         *)
AdvanceStep ==
  /\ Handler => Advances \/ (RegisterUnanswered /\ UNCHANGED handler /\ abandoned' # abandoned)
  /\ pc # "idle" => Advances \/ UNCHANGED handler

HandlersAdvance == [][AdvanceStep]_vars

(* What the steps ahead are, one step at a time. *)
LEMMA AheadFacts ==
  ASSUME NEW p \in Steps, NEW n \in 1..2
  PROVE  /\ AheadOf(p, n) \in 0..11
         /\ AheadOf(p, n) = 0 <=> p = "idle"
         /\ p = "read" => AheadOf(p, n) = 1
         /\ p \in {"probe", "put"} => AheadOf(p, n) = 2
         /\ p = "awaitDeploy" => AheadOf(p, n) = IF n = 2 THEN 3 ELSE 7
         /\ p = "deploy" => AheadOf(p, n) = IF n = 2 THEN 4 ELSE 8
         /\ p = "delete" => AheadOf(p, n) = 4
         /\ p = "awaitUndeploy" => AheadOf(p, n) = 5
         /\ p = "undeploy" => AheadOf(p, n) = 6
         /\ p = "enable" => AheadOf(p, n) = 9
         /\ p = "awaitTask" => AheadOf(p, n) = 10
         /\ p = "register" => AheadOf(p, n) = 11
  BY DEF Steps, Waits, AheadOf, StepsAhead

(* Every wait of the ML model is bounded, and the deployment is retried     *)
(* once.                                                                    *)
THEOREM HandlersRunOut == Spec => HandlersAdvance
<1> USE MaxPollsAssumption DEF IInv, TypeOK, HandlerTypes
<1>1. ASSUME IInv, IInv', Handler
      PROVE  Advances \/ (RegisterUnanswered /\ UNCHANGED handler /\ abandoned' # abandoned)
  <2> USE <1>1
  <2>1. HandlerTypes /\ HandlerTypes'
    OBVIOUS
  <2>0. /\ Ahead \in 0..11 /\ Ahead' \in 0..11
        /\ Ahead = 0 <=> pc = "idle"
        /\ Ahead' = 0 <=> pc' = "idle"
    BY <2>1, AheadFacts DEF Ahead
  <2>2. pc # "idle" /\ pc' = "idle" => Advances
    BY <2>0 DEF Advances
  <2>3. pc' = pc /\ attempt' = attempt /\ pc \in Waits /\ polls' = polls + 1 => Advances
    BY DEF Advances, Ahead, Waits
  <2>5. CASE RequestFails \/ DeadlinePasses \/ Read
    BY <2>2, <2>5 DEF RequestFails, DeadlinePasses, Read, Waits, Fail, Return
  <2>6. CASE Register
    <3>1. pc = "register" /\ pc' \in {"enable", "awaitTask"}
      BY <2>6 DEF Register, SetId
    <3>2. QED
      BY <2>1, <3>1, AheadFacts DEF Advances, Ahead
  <2>7. CASE RegisterUnanswered
    <3>1. CASE UNCHANGED handler
      <4>1. PICK i \in Ids : model[i] = "free" /\ abandoned' = abandoned \cup {i}
        BY <2>7 DEF RegisterUnanswered
      <4>2. i \notin abandoned
        BY <4>1 DEF Known
      <4>3. QED
        BY <2>7, <3>1, <4>1, <4>2
    <3>2. CASE Return(NoEntry)
      BY <2>2, <2>7, <3>2 DEF RegisterUnanswered, Return
    <3>3. QED
      BY <2>7, <3>1, <3>2 DEF RegisterUnanswered
  <2>8. CASE AwaitTask
    <3>1. PollAgain => Advances
      BY <2>3, <2>8 DEF AwaitTask, PollAgain, Waits
    <3>2. Fail => Advances
      BY <2>2, <2>8 DEF AwaitTask, Fail, Return
    <3>3. SetId(task) => Advances
      <4>1. ASSUME SetId(task) PROVE pc = "awaitTask" /\ pc' = "enable"
        BY <2>8, <4>1 DEF AwaitTask, SetId
      <4>2. QED
        BY <2>1, <4>1, AheadFacts DEF Advances, Ahead
    <3>4. QED
      BY <2>8, <3>1, <3>2, <3>3 DEF AwaitTask
  <2>9. CASE SetEnabled
    <3>1. pc = "enable" /\ pc' \in {"deploy", "read", "idle"}
      BY <2>9 DEF SetEnabled, AfterEnable, GoTo, Fail, Return
    <3>2. QED
      BY <2>1, <3>1, AheadFacts DEF Advances, Ahead
  <2>10. CASE Deploy
    <3>1. pc = "deploy" /\ ((pc' = "awaitDeploy" /\ attempt' = attempt) \/ pc' = "idle")
      BY <2>10 DEF Deploy, GoTo, Fail, Return
    <3>2. QED
      BY <2>1, <3>1, AheadFacts DEF Advances, Ahead
  <2>11. CASE AwaitDeploy
    <3>1. PollAgain => Advances
      BY <2>3, <2>11 DEF AwaitDeploy, PollAgain, Waits
    <3>2. Fail => Advances
      BY <2>2, <2>11 DEF AwaitDeploy, Fail, Return
    <3>3. ASSUME NEW p \in {"probe", "read"}, GoTo(p) PROVE Advances
      <4>1. pc = "awaitDeploy" /\ pc' \in {"probe", "read"}
        BY <2>11, <3>3 DEF AwaitDeploy, GoTo
      <4>2. QED
        BY <2>1, <4>1, AheadFacts DEF Advances, Ahead
    <3>4. ASSUME NEW p \in {"deploy", "undeploy"}, Redeploy(p) PROVE Advances
      <4>1. pc = "awaitDeploy" /\ attempt = 1 /\ attempt' = 2 /\ pc' \in {"deploy", "undeploy"}
        BY <2>11, <3>4 DEF AwaitDeploy, Redeploy
      <4>2. QED
        BY <2>1, <4>1, AheadFacts DEF Advances, Ahead
    <3>5. QED
      BY <2>11, <3>1, <3>2, <3>3, <3>4 DEF AwaitDeploy
  <2>12. CASE Undeploy
    <3>1. pc = "undeploy" /\ pc' \in {"delete", "deploy", "awaitUndeploy", "idle"}
      BY <2>12 DEF Undeploy, AfterUndeploy, GoTo, Fail, Return
    <3>2. pc' = "deploy" => attempt' = 2
      BY <2>12 DEF Undeploy, AfterUndeploy, GoTo, Fail, Return, Control
    <3>3. QED
      BY <2>1, <3>1, <3>2, AheadFacts DEF Advances, Ahead
  <2>13. CASE AwaitUndeploy
    <3>1. PollAgain => Advances
      BY <2>3, <2>13 DEF AwaitUndeploy, PollAgain, Waits
    <3>2. Fail => Advances
      BY <2>2, <2>13 DEF AwaitUndeploy, Fail, Return
    <3>3. ASSUME GoTo(AfterUndeploy) PROVE Advances
      <4>1. pc = "awaitUndeploy" /\ pc' \in {"delete", "deploy"}
        BY <2>13, <3>3 DEF AwaitUndeploy, AfterUndeploy, GoTo
      <4>2. pc' = "deploy" => attempt' = 2
        BY <2>13, <3>3 DEF AwaitUndeploy, AfterUndeploy, GoTo, Control
      <4>3. QED
        BY <2>1, <4>1, <4>2, AheadFacts DEF Advances, Ahead
    <3>4. QED
      BY <2>13, <3>1, <3>2, <3>3 DEF AwaitUndeploy
  <2>14. CASE Probe
    <3>1. PollAgain => Advances
      BY <2>3, <2>14 DEF Probe, PollAgain, Waits
    <3>2. ASSUME GoTo("read") PROVE Advances
      <4>1. pc = "probe" /\ pc' = "read"
        BY <2>14, <3>2 DEF Probe, GoTo
      <4>2. QED
        BY <2>1, <4>1, AheadFacts DEF Advances, Ahead
    <3>3. QED
      BY <2>14, <3>1, <3>2 DEF Probe
  <2>15. CASE Put
    <3>1. pc = "put" /\ pc' \in {"read", "idle"}
      BY <2>15 DEF Put, GoTo, Fail, Return
    <3>2. QED
      BY <2>1, <3>1, AheadFacts DEF Advances, Ahead
  <2>16. CASE Delete
    BY <2>2, <2>16 DEF Delete, Fail, Return
  <2>17. QED
    BY <1>1, <2>5, <2>6, <2>7, <2>8, <2>9, <2>10, <2>11, <2>12, <2>13, <2>14, <2>15, <2>16
    DEF Handler
<1>2. ASSUME IInv, IInv', [Next]_vars, pc # "idle", ~Handler
      PROVE  Advances \/ UNCHANGED handler
  <2>1. CASE Crash
    <3>1. HandlerTypes /\ HandlerTypes' /\ pc' = "idle"
      BY <1>2, <2>1 DEF Crash, Return
    <3>2. QED
      BY <1>2, <3>1, AheadFacts DEF Advances, Ahead
  <2>2. CASE ~Crash
    BY <1>2, <2>2
    DEF Next, Core, StartCreate, StartRefresh, StartUpdate, StartDelete, Start, EditConfig,
        ServerStep, SwitchedElsewhere, vars
  <2>3. QED
    BY <2>1, <2>2
<1>3. IInv /\ IInv' /\ [Next]_vars => [AdvanceStep]_vars
  <2>1. ASSUME IInv, IInv', [Next]_vars, pc # "idle" PROVE Advances \/ UNCHANGED handler
    BY <1>1, <1>2, <2>1
  <2>2. QED
    BY <1>1, <2>1 DEF AdvanceStep
<1>4. QED
  BY <1>3, Invariant, PTL DEF Spec, HandlersAdvance

-----------------------------------------------------------------------------
(* The refinement of TrackedObject *)

LiveModels == {i \in Ids : Live(i)}

(* Without a change to the models, a handler that fails or dies loses at     *)
(* most the registration it holds, and records the model it has.             *)
LEMMA FailMaps ==
  ASSUME IInv, pc # "idle", Fail, LiveModels' = LiveModels
  PROVE  [Object!Next]_(Object!vars)
<1> USE NoIdAssumption
    DEF IInv, TypeOK, HandlerTypes, Control, Entries, NoEntry, Fail, Return, Held,
        LiveModels, Object!vars
<1>1. CASE op = "create" /\ d.id # NoId
  <2>1. Object!Adopt(d.id)
    BY <1>1 DEF Object!Adopt
  <2>2. QED
    BY <1>1, <2>1 DEF Object!Next
<1>2. CASE op = "create" /\ task # NoId
  <2>1. Object!Lose(task)
    BY <1>2 DEF Object!Lose
  <2>2. QED
    BY <1>2, <2>1 DEF Object!Next
<1>3. CASE op # "create" \/ (d.id = NoId /\ task = NoId)
  BY <1>3
<1>4. QED
  BY <1>1, <1>2, <1>3

(* A step of a handler that goes on keeps what the handler holds. *)
LEMMA GoesOnMaps ==
  ASSUME IInv, LiveModels' = LiveModels,
         PollAgain \/ SetId(task) \/ \E p \in Steps : GoTo(p) \/ Redeploy(p),
         pc # "idle", SetId(task) => pc = "awaitTask"
  PROVE  UNCHANGED Object!vars
<1> USE NoIdAssumption
    DEF IInv, Control, PollAgain, SetId, GoTo, Redeploy, Held, LiveModels, Object!vars
<1>1. CASE PollAgain
  BY <1>1
<1>2. CASE \E p \in Steps : GoTo(p) \/ Redeploy(p)
  BY <1>2
<1>3. CASE SetId(task) /\ pc = "awaitTask"
  <2>1. d.id = NoId /\ d'.id = task /\ task' = NoId
    BY <1>3 DEF TypeOK, HandlerTypes
  <2>2. Held' = Held
    BY <1>3, <2>1
  <2>3. QED
    BY <1>3, <2>2
<1>4. QED
  BY <1>1, <1>2, <1>3

(* Every step is a step of TrackedObject, or changes nothing it sees.        *)
LEMMA StepMaps ==
  ASSUME IInv, [Next]_vars
  PROVE  [Object!Next]_(Object!vars)
<1> USE NoIdAssumption
    DEF IInv, TypeOK, ServerTypes, HandlerTypes, Control, Known, Live, Existing, Settled,
        Phases, Entries, NoEntry, Return, Held, LiveModels, server, handler
<1>1. CASE Register
  <2>1. PICK i \in Ids :
          /\ model[i] = "free"
          /\ \E p \in {"REGISTERED", "registering"} : model' = [model EXCEPT ![i] = p]
          /\ SetId(i) \/ (task' = i /\ UNCHANGED <<state, op, d, abandoned>>)
    BY <1>1 DEF Register
  <2>2. Object!Appear(i)
    BY <1>1, <2>1 DEF Register, SetId, Object!Appear
  <2>3. QED
    BY <2>2 DEF Object!Next
<1>2. CASE RegisterUnanswered
  <2>1. PICK i \in Ids :
          /\ model[i] = "free"
          /\ \E p \in {"REGISTERED", "registering"} : model' = [model EXCEPT ![i] = p]
          /\ abandoned' = abandoned \cup {i}
    BY <1>2 DEF RegisterUnanswered
  <2>2. Object!Appear(i)
    BY <1>2, <2>1 DEF RegisterUnanswered, Object!Appear
  <2>3. QED
    BY <2>2 DEF Object!Next
<1>3. CASE \/ RequestFails \/ DeadlinePasses \/ AwaitTask \/ SetEnabled \/ Deploy
           \/ AwaitDeploy \/ Undeploy \/ AwaitUndeploy \/ Probe \/ Put
  <2>1. LiveModels' = LiveModels /\ pc # "idle"
    BY <1>3
    DEF RequestFails, DeadlinePasses, AwaitTask, SetEnabled, Deploy, AwaitDeploy,
        Undeploy, AwaitUndeploy, Probe, Put, Waits
  <2>2. \/ Fail
        \/ /\ PollAgain \/ SetId(task) \/ \E p \in Steps : GoTo(p) \/ Redeploy(p)
           /\ SetId(task) => pc = "awaitTask"
    BY <1>3
    DEF RequestFails, DeadlinePasses, AwaitTask, SetEnabled, Deploy, AwaitDeploy,
        Undeploy, AwaitUndeploy, Probe, Put, AfterEnable, AfterUndeploy, Steps, Waits,
        SetId, GoTo, PollAgain, Redeploy
  <2>3. QED
    BY <2>1, <2>2, FailMaps, GoesOnMaps
<1>4. CASE Read
  <2>1. CASE op = "create" /\ Live(d.id)
    <3>1. Object!Adopt(d.id)
      BY <1>4, <2>1 DEF Read, Object!Adopt
    <3>2. QED
      BY <1>4, <2>1, <3>1 DEF Read, Object!Next
  <2>2. CASE op = "create" /\ ~Live(d.id)
    <3>1. Object!Discard(d.id)
      BY <1>4, <2>2 DEF Read, Object!Discard
    <3>2. QED
      BY <1>4, <2>2, <3>1 DEF Read, Object!Next
  <2>3. CASE op # "create" /\ Live(d.id)
    BY <1>4, <2>3 DEF Read, Object!vars
  <2>4. CASE op # "create" /\ ~Live(d.id)
    <3>1. Object!Forget
      BY <1>4, <2>4 DEF Read, Object!Forget
    <3>2. QED
      BY <3>1 DEF Object!Next
  <2>5. QED
    BY <2>1, <2>2, <2>3, <2>4
<1>5. CASE Delete
  <2>1. CASE Return(NoEntry) /\ UNCHANGED abandoned
    <3>1. Object!Forget
      BY <1>5, <2>1 DEF Delete, Object!Forget
    <3>2. QED
      BY <3>1 DEF Object!Next
  <2>2. CASE Fail
    <3>1. PICK i \in Ids : i = d.id
      BY <1>5 DEF Delete
    <3>2. Live(i) /\ model' = [model EXCEPT ![i] = "gone"]
      BY <1>5, <2>2, <3>1 DEF Delete, Fail
    <3>3. Object!Vanish(i)
      BY <1>5, <2>2, <3>1, <3>2 DEF Delete, Fail, Object!Vanish
    <3>4. QED
      BY <3>3 DEF Object!Next
  <2>3. QED
    BY <1>5, <2>1, <2>2 DEF Delete
<1>6. CASE Core \/ UNCHANGED vars
  <2>1. UNCHANGED <<model, state, abandoned>>
    BY <1>6
    DEF Core, Start, StartCreate, StartRefresh, StartUpdate, StartDelete, EditConfig, vars
  <2>2. Held' = Held
    <3>1. CASE UNCHANGED <<op, d, task>>
      BY <3>1
    <3>2. CASE pc = "idle" /\ task' = task /\ (op' = "create" => d'.id = NoId)
      BY <3>2
    <3>3. QED
      BY <1>6, <3>1, <3>2
      DEF Core, Start, StartCreate, StartRefresh, StartUpdate, StartDelete, EditConfig, vars
  <2>3. QED
    BY <2>1, <2>2 DEF Object!vars
<1>7. CASE Crash
  <2>1. CASE op = "create" /\ \E i \in {d.id, task} : i # NoId
    <3>1. PICK i \in {d.id, task} : i # NoId
      BY <2>1
    <3>2. i \in Ids /\ Object!Lose(i)
      BY <1>7, <2>1, <3>1 DEF Crash, Object!Lose
    <3>3. QED
      BY <3>2 DEF Object!Next
  <2>2. CASE ~(op = "create" /\ \E i \in {d.id, task} : i # NoId)
    BY <1>7, <2>2 DEF Crash, Object!vars
  <2>3. QED
    BY <2>1, <2>2
<1>8. ASSUME NEW i \in Ids, ServerStep(i)
      PROVE  [Object!Next]_(Object!vars)
  <2>1. CASE Live(i) /\ model'[i] \in {"regfailed", "gone"}
    <3>1. Object!Vanish(i)
      BY <1>8, <2>1
      DEF ServerStep, TaskEnds, DeployStarts, DeployEnds, UndeployEnds, Drift,
          RemovedElsewhere, Object!Vanish
    <3>2. QED
      BY <3>1 DEF Object!Next
  <2>2. CASE ~(Live(i) /\ model'[i] \in {"regfailed", "gone"})
    <3>0. SUFFICES LiveModels' = LiveModels
      BY <1>8 DEF ServerStep, Object!vars
    <3>1. CASE TaskEnds(i) \/ RemovedElsewhere(i)
      BY <2>2, <3>1 DEF TaskEnds, RemovedElsewhere
    <3>2. CASE DeployStarts(i) \/ Drift(i)
      BY <3>2 DEF DeployStarts, Drift
    <3>3. CASE DeployEnds(i)
      BY <3>3 DEF DeployEnds, UnderWay
    <3>4. CASE UndeployEnds(i)
      <4>1. Live(i) /\ \E p \in Existing : model' = [model EXCEPT ![i] = p]
        BY <3>4 DEF UndeployEnds
      <4>2. QED
        BY <4>1
    <3>5. QED
      BY <1>8, <3>1, <3>2, <3>3, <3>4 DEF ServerStep
  <2>3. QED
    BY <2>1, <2>2
<1>9. ASSUME NEW i \in Ids, SwitchedElsewhere(i)
      PROVE  [Object!Next]_(Object!vars)
  BY <1>9 DEF SwitchedElsewhere, Object!vars
<1>10. QED
  BY <1>1, <1>2, <1>3, <1>4, <1>5, <1>6, <1>7, <1>8, <1>9 DEF Next, Handler

(* The resource keeps the promises of TrackedObject, for any number of      *)
(* models and however long a wait lasts.                                     *)
THEOREM Implementation == Spec => ImplementsTrackedObject
<1>1. Init => Object!Init
  BY NoIdAssumption DEF Init, Object!Init, Live, Existing, Settled, Held, NoEntry
<1>2. IInv /\ [Next]_vars => [Object!Next]_(Object!vars)
  BY StepMaps
<1>3. QED
  BY <1>1, <1>2, Invariant, PTL DEF Spec, ImplementsTrackedObject, Object!Spec
=============================================================================
