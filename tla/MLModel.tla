------------------------------ MODULE MLModel ------------------------------
(***************************************************************************)
(* The opensearch_ml_model resource: its Create, Read, Update and Delete   *)
(* handlers run one HTTP request at a time against the ML plugin, which    *)
(* registers and deploys models asynchronously, while Terraform core keeps *)
(* (or loses) what the handlers return.                                    *)
(*                                                                         *)
(* One resource instance; each apply that registers a model gets a fresh   *)
(* identifier of Ids from the server.                                      *)
(***************************************************************************)
EXTENDS Naturals

CONSTANTS Ids,        \* model identifiers the server may hand out
          NoId,       \* d.Id() = ""
          MaxPolls    \* polls a wait makes before its deadline passes

ASSUME NoIdAssumption == NoId \notin Ids
ASSUME MaxPollsAssumption == MaxPolls \in Nat \ {0}

VARIABLES
  (* The ML plugin of OpenSearch *)
  model,        \* model[i]: the life of model i, from "free" to "gone"
  job,          \* job[i]: which of _deploy and _undeploy are accepted, not yet done
  enabled,      \* models the Predict API may use
  (* Terraform core *)
  config,       \* the configuration of the resource
  state,        \* its entry in the state file
  (* The handler under way *)
  pc, op, d, task, attempt, polls,
  (* History *)
  abandoned,    \* models whose identifier the provider never recorded
  everDeployed, \* models that were DEPLOYED at some time
  answered,     \* models that answered a readiness probe
  doubted       \* models whose is_enabled changed behind the state file's back

server    == <<model, job, enabled>>
handler   == <<pc, op, d, task, attempt, polls>>
history   == <<everDeployed, answered, doubted>>
vars == <<server, config, state, handler, abandoned, history>>

Settled  == {"REGISTERED", "DEPLOYED", "PARTIALLY_DEPLOYED", "UNDEPLOYED",
             "DEPLOY_FAILED"}
Existing == Settled \cup {"registering", "DEPLOYING"}
Phases   == Existing \cup {"free", "regfailed", "gone"}
Waits    == {"awaitTask", "awaitDeploy", "awaitUndeploy", "probe"}
Steps    == Waits \cup {"idle", "register", "enable", "deploy", "undeploy",
                        "read", "put", "delete"}
Entries  == [id : Ids \cup {NoId}, tainted : BOOLEAN, enabled : BOOLEAN]
NoEntry  == [id |-> NoId, tainted |-> FALSE, enabled |-> TRUE]
NoData   == [id |-> NoId, enabled |-> TRUE]

Live(i) == model[i] \in Existing

Switched(i, on) == IF on THEN enabled \cup {i} ELSE enabled \ {i}

Flags    == [enabled : BOOLEAN, deploy : BOOLEAN, probe : BOOLEAN, fixed : BOOLEAN]

ServerTypes ==
  /\ model \in [Ids -> Phases]
  /\ job \in [Ids -> SUBSET {"deploy", "undeploy"}]
  /\ enabled \subseteq Ids
  /\ everDeployed \subseteq Ids
  /\ answered \subseteq Ids
  /\ doubted \subseteq Ids

HandlerTypes ==
  /\ state \in Entries
  /\ pc \in Steps
  /\ op \in {"none", "create", "update", "refresh", "delete"}
  /\ d \in [id : Ids \cup {NoId}, enabled : BOOLEAN]
  /\ task \in Ids \cup {NoId}
  /\ attempt \in 1..2
  /\ polls \in 0..MaxPolls
  /\ abandoned \subseteq Ids

(* Every variable has its type; in particular no wait polls past its         *)
(* deadline and the deployment is attempted at most twice.                   *)
TypeOK == config \in Flags /\ ServerTypes /\ HandlerTypes

Init ==
  /\ model = [i \in Ids |-> "free"]
  /\ job = [i \in Ids |-> {}]
  /\ enabled = Ids
  /\ config \in Flags
  /\ state = NoEntry
  /\ pc = "idle" /\ op = "none" /\ d = NoData /\ task = NoId
  /\ attempt = 1 /\ polls = 0
  /\ abandoned = {} /\ everDeployed = {} /\ answered = {} /\ doubted = {}

-----------------------------------------------------------------------------
(* Terraform core: what it starts, and what it does with a handler's return *)

Start(o, p, id, on) ==
  /\ pc = "idle"
  /\ op' = o /\ pc' = p /\ d' = [id |-> id, enabled |-> on]
  /\ UNCHANGED <<server, config, state, task, attempt, polls, abandoned, history>>

StartCreate == state.id = NoId /\ Start("create", "register", NoId, config.enabled)

StartRefresh == state.id # NoId /\ Start("refresh", "read", state.id, state.enabled)

(* Update sends only what changed; a change of an attribute it does not send *)
(* (wait_for_predict, url, ...) leaves the payload empty and it only reads.  *)
StartUpdate ==
  /\ state.id # NoId /\ ~state.tainted
  /\ \E sent \in BOOLEAN :
       /\ config.enabled # state.enabled => sent
       /\ Start("update", IF sent THEN "put" ELSE "read", state.id, config.enabled)

(* A destroy, or the first half of the replacement of a tainted entry. *)
StartDelete == state.id # NoId /\ Start("delete", "undeploy", state.id, state.enabled)

EditConfig ==
  /\ pc = "idle"
  /\ config' = [config EXCEPT !.enabled = ~@]
  /\ UNCHANGED <<server, state, handler, abandoned, history>>

Return(entry) ==
  /\ pc' = "idle" /\ op' = "none" /\ d' = NoData /\ task' = NoId
  /\ attempt' = 1 /\ polls' = 0
  /\ state' = entry

(* Mutants of Fail: Create sets the ID last; an error does not taint. *)
FailDropsId ==
  Return(NoEntry) /\ UNCHANGED abandoned

FailUntainted ==
  /\ Return(IF d.id = NoId THEN NoEntry
            ELSE [id |-> d.id, tainted |-> FALSE, enabled |-> d.enabled])
  /\ abandoned' = IF d.id = NoId THEN abandoned \cup ({task} \ {NoId})
                                 ELSE abandoned

(* A handler returns diagnostics. Core keeps what d holds if it has an ID:  *)
(* tainted when the handler was Create, and with the planned values even    *)
(* when it was an Update that did not happen. Before d.SetId there is       *)
(* nothing to keep, and a registration under way is lost.                   *)
Fail ==
  /\ Return(IF d.id = NoId THEN NoEntry
            ELSE [id |-> d.id, tainted |-> state.tainted \/ op = "create",
                  enabled |-> d.enabled])
  /\ abandoned' = IF d.id = NoId THEN abandoned \cup ({task} \ {NoId})
                                 ELSE abandoned

(* What the Create under way has registered and not yet written back. *)
Held == IF op = "create" THEN {d.id, task} \ {NoId} ELSE {}

(* The Update under way is to change is_enabled. *)
Switching == op = "update" /\ d.enabled # state.enabled

(* The plugin process or Terraform itself dies: nothing is written back. An  *)
(* Update that dies after its PUT leaves the old value in the state file.    *)
Crash ==
  /\ pc # "idle"
  /\ Return(state)
  /\ abandoned' = abandoned \cup Held
  /\ doubted' = IF pc = "read" /\ Switching THEN doubted \cup {d.id} ELSE doubted
  /\ UNCHANGED <<server, config, everDeployed, answered>>

-----------------------------------------------------------------------------
(* The handlers *)

GoTo(p) ==
  /\ pc' = p /\ polls' = 0
  /\ UNCHANGED <<state, op, d, task, attempt, abandoned>>

(* Mutant of PollAgain: every poll renews the deadline. *)
PollForever ==
  /\ polls' = (polls + 1) % MaxPolls
  /\ UNCHANGED <<state, pc, op, d, task, attempt, abandoned>>

PollAgain ==
  /\ polls' = polls + 1
  /\ UNCHANGED <<state, pc, op, d, task, attempt, abandoned>>

SetId(i) ==
  /\ pc' = "enable" /\ polls' = 0 /\ d' = [d EXCEPT !.id = i] /\ task' = NoId
  /\ UNCHANGED <<state, op, attempt, abandoned>>

(* A request that has no effect on the server: refused, not delivered, or   *)
(* not sent because the context is cancelled. Core then records the planned *)
(* is_enabled of an Update all the same.                                    *)
RequestFails ==
  /\ pc # "idle"
  /\ Fail
  /\ doubted' = IF pc = "put" /\ Switching THEN doubted \cup {d.id} ELSE doubted
  /\ UNCHANGED <<server, config, everDeployed, answered>>

(* The loop condition time.Now().Before(deadline) turns false. *)
DeadlinePasses ==
  /\ pc \in Waits
  /\ polls = MaxPolls
  /\ Fail
  /\ UNCHANGED <<server, config, history>>

(* POST _register: remote models answer with model_id, others with task_id. *)
Register ==
  /\ pc = "register"
  /\ \E i \in Ids :
       /\ model[i] = "free"
       /\ \/ /\ model' = [model EXCEPT ![i] = "REGISTERED"]
             /\ SetId(i)
          \/ /\ model' = [model EXCEPT ![i] = "registering"]
             /\ pc' = "awaitTask" /\ polls' = 0 /\ task' = i
             /\ UNCHANGED <<state, op, d, attempt, abandoned>>
  /\ UNCHANGED <<job, enabled, config, history>>

(* ... and the answer is lost on the way: the HTTP client sends the POST    *)
(* again, or gives up and Create returns.                                   *)
RegisterUnanswered ==
  /\ pc = "register"
  /\ \E i \in Ids, p \in {"REGISTERED", "registering"} :
       /\ model[i] = "free"
       /\ model' = [model EXCEPT ![i] = p]
       /\ abandoned' = abandoned \cup {i}
  /\ \/ UNCHANGED <<state, handler>>
     \/ Return(NoEntry)
  /\ UNCHANGED <<job, enabled, config, history>>

(* waitForModelRegistrationTask *)
AwaitTask ==
  /\ pc = "awaitTask" /\ polls < MaxPolls
  /\ \/ model[task] = "registering" /\ PollAgain
     \/ model[task] = "regfailed" /\ Fail
     \/ model[task] \notin {"registering", "regfailed"} /\ SetId(task)
  /\ UNCHANGED <<server, config, history>>

AfterEnable == IF config.deploy THEN "deploy" ELSE "read"

(* Mutant of SetEnabled: it relies on is_enabled in the registration. *)
EnabledAtRegister ==
  /\ pc = "enable"
  /\ Live(d.id)
  /\ GoTo(AfterEnable)
  /\ UNCHANGED <<server, config, history>>

(* setMLModelEnabled: the 403 of a model that cannot be updated is no error. *)
SetEnabled ==
  /\ pc = "enable"
  /\ Live(d.id)
  /\ \/ /\ config.fixed
        /\ GoTo(AfterEnable)
        /\ UNCHANGED <<enabled, doubted>>
     \/ /\ ~config.fixed
        /\ enabled' = Switched(d.id, d.enabled)
        /\ doubted' = doubted \ {d.id}
        /\ GoTo(AfterEnable) \/ Fail
  /\ UNCHANGED <<model, job, config, everDeployed, answered>>

(* POST _deploy *)
Deploy ==
  /\ pc = "deploy"
  /\ Live(d.id)
  /\ job' = [job EXCEPT ![d.id] = @ \cup {"deploy"}]
  /\ GoTo("awaitDeploy") \/ Fail
  /\ UNCHANGED <<model, enabled, config, history>>

(* What a poll of model_state returns: a 404 counts as UNDEPLOYED. *)
ObservedState == IF Live(d.id) THEN model[d.id] ELSE "UNDEPLOYED"

(* Mutant of Redeploy: as many retries as it takes. *)
RedeployAgain(p) ==
  /\ attempt' = attempt + 1 /\ pc' = p /\ polls' = 0
  /\ UNCHANGED <<state, op, d, task, abandoned>>

Redeploy(p) ==
  /\ attempt = 1
  /\ attempt' = 2 /\ pc' = p /\ polls' = 0
  /\ UNCHANGED <<state, op, d, task, abandoned>>

(* waitForModelDeploymentStateChange in deployMLModel, and what follows it *)
AwaitDeploy ==
  /\ pc = "awaitDeploy" /\ polls < MaxPolls
  /\ \/ ObservedState = "DEPLOYED" /\ GoTo(IF config.probe THEN "probe" ELSE "read")
     \/ ObservedState = "PARTIALLY_DEPLOYED" /\ Redeploy("undeploy")
     \/ ObservedState = "UNDEPLOYED" /\ Redeploy("deploy")
     \/ ObservedState \in {"PARTIALLY_DEPLOYED", "UNDEPLOYED"} /\ attempt = 2 /\ Fail
     \/ ObservedState = "DEPLOY_FAILED" /\ Fail
     \/ ObservedState \in {"REGISTERED", "DEPLOYING"} /\ PollAgain
  /\ UNCHANGED <<server, config, history>>

AfterUndeploy == IF op = "delete" THEN "delete" ELSE "deploy"

(* Mutant of Undeploy: it does not wait for the effect. *)
UndeployUnwaited ==
  /\ pc = "undeploy"
  /\ job' = IF Live(d.id) THEN [job EXCEPT ![d.id] = @ \cup {"undeploy"}] ELSE job
  /\ GoTo(AfterUndeploy)
  /\ UNCHANGED <<model, enabled, config, history>>

(* POST _undeploy: a 404 and "not deployed" are as good as done, whether or  *)
(* not a _deploy accepted before has begun.                                  *)
Undeploy ==
  /\ pc = "undeploy"
  /\ \/ /\ ~Live(d.id) \/ model[d.id] \in {"REGISTERED", "UNDEPLOYED"}
        /\ GoTo(AfterUndeploy)
        /\ UNCHANGED job
     \/ /\ Live(d.id)
        /\ job' = [job EXCEPT ![d.id] = @ \cup {"undeploy"}]
        /\ GoTo("awaitUndeploy") \/ Fail
  /\ UNCHANGED <<model, enabled, config, history>>

(* waitForModelDeploymentStateChange in undeployMLModel *)
AwaitUndeploy ==
  /\ pc = "awaitUndeploy" /\ polls < MaxPolls
  /\ \/ ObservedState \in {"UNDEPLOYED", "REGISTERED"} /\ GoTo(AfterUndeploy)
     \/ ObservedState = "DEPLOY_FAILED" /\ Fail
     \/ ObservedState \in {"DEPLOYED", "PARTIALLY_DEPLOYED", "DEPLOYING"} /\ PollAgain
  /\ UNCHANGED <<server, config, history>>

(* waitForModelPredictReady: errors and empty answers are retried. *)
Probe ==
  /\ pc = "probe" /\ polls < MaxPolls
  /\ \/ /\ model[d.id] \in {"DEPLOYED", "PARTIALLY_DEPLOYED"}
        /\ d.id \in enabled
        /\ answered' = answered \cup {d.id}
        /\ GoTo("read")
     \/ PollAgain /\ UNCHANGED answered
  /\ UNCHANGED <<server, config, everDeployed, doubted>>

(* Mutant of Read: any error clears the ID. *)
ReadForgetsOnError ==
  /\ pc = "read"
  /\ Return(NoEntry)
  /\ UNCHANGED <<server, config, abandoned, history>>

(* resourceOpensearchMLModelRead, the last call of Create and Update too: a  *)
(* 404 clears the entry; is_enabled is read back only if this GET echoes it, *)
(* and stays what it was in the data otherwise.                              *)
Read ==
  /\ pc = "read"
  /\ \/ ~Live(d.id) /\ Return(NoEntry) /\ UNCHANGED doubted
     \/ /\ Live(d.id)
        /\ \E echoed \in BOOLEAN :
             /\ Return([id |-> d.id, tainted |-> state.tainted,
                              enabled |-> IF echoed THEN d.id \in enabled
                                                    ELSE d.enabled])
             /\ doubted' = IF echoed THEN doubted \ {d.id} ELSE doubted
  /\ UNCHANGED <<server, config, abandoned, everDeployed, answered>>

(* PUT of the changed attributes; here a 403 is an error like any other. *)
Put ==
  /\ pc = "put"
  /\ Live(d.id)
  /\ \/ ~Switching /\ UNCHANGED <<enabled, doubted>>
     \/ /\ Switching /\ ~config.fixed
        /\ enabled' = Switched(d.id, d.enabled)
        /\ doubted' = doubted \ {d.id}
  /\ GoTo("read") \/ Fail
  /\ UNCHANGED <<model, job, config, everDeployed, answered>>

(* DELETE: a 404 is as good as done. *)
Delete ==
  /\ pc = "delete"
  /\ \/ ~Live(d.id) /\ Return(NoEntry) /\ UNCHANGED <<model, job, abandoned>>
     \/ /\ Live(d.id)
        /\ model' = [model EXCEPT ![d.id] = "gone"]
        /\ job' = [job EXCEPT ![d.id] = {}]
        /\ \/ Return(NoEntry) /\ UNCHANGED abandoned
           \/ Fail
  /\ UNCHANGED <<enabled, config, history>>

-----------------------------------------------------------------------------
(* The ML plugin on its own, and its other users *)

TaskEnds(i) ==
  /\ model[i] = "registering"
  /\ \E p \in {"REGISTERED", "regfailed"} : model' = [model EXCEPT ![i] = p]
  /\ UNCHANGED <<job, everDeployed>>

DeployStarts(i) ==
  /\ "deploy" \in job[i] /\ model[i] \in Settled \ {"PARTIALLY_DEPLOYED"}
  /\ model' = [model EXCEPT ![i] = "DEPLOYING"]
  /\ UNCHANGED <<job, everDeployed>>

UnderWay == {"DEPLOYING", "PARTIALLY_DEPLOYED"}

(* Some nodes may have the model before the others. *)
DeployEnds(i) ==
  /\ "deploy" \in job[i] /\ model[i] \in UnderWay
  /\ \E p \in Settled \ {"REGISTERED"} :
       /\ model' = [model EXCEPT ![i] = p]
       /\ \/ job' = [job EXCEPT ![i] = @ \ {"deploy"}]
          \/ p = "PARTIALLY_DEPLOYED" /\ UNCHANGED job
       /\ everDeployed' = IF p = "DEPLOYED" THEN everDeployed \cup {i} ELSE everDeployed

(* It ends a deployment under way; one that is accepted and has not begun    *)
(* goes on afterwards.                                                       *)
UndeployEnds(i) ==
  /\ "undeploy" \in job[i] /\ Live(i)
  /\ \E p \in {"UNDEPLOYED", model[i]} :
       /\ p \in {"UNDEPLOYED", "REGISTERED", "DEPLOY_FAILED"}
       /\ model' = [model EXCEPT ![i] = p]
  /\ job' = [job EXCEPT ![i] = IF model[i] \in UnderWay THEN {} ELSE @ \ {"undeploy"}]
  /\ UNCHANGED everDeployed

(* Nodes leave, or the model is evicted from memory. *)
Drift(i) ==
  /\ job[i] = {} /\ model[i] \in {"DEPLOYED", "PARTIALLY_DEPLOYED"}
  /\ \E p \in {"PARTIALLY_DEPLOYED", "UNDEPLOYED"} : model' = [model EXCEPT ![i] = p]
  /\ UNCHANGED <<job, everDeployed>>

RemovedElsewhere(i) ==
  /\ model[i] \in Existing \ {"registering"}
  /\ model' = [model EXCEPT ![i] = "gone"]
  /\ job' = [job EXCEPT ![i] = {}]
  /\ UNCHANGED everDeployed

ServerStep(i) ==
  /\ \/ TaskEnds(i) \/ DeployStarts(i) \/ DeployEnds(i) \/ UndeployEnds(i)
     \/ Drift(i) \/ RemovedElsewhere(i)
  /\ UNCHANGED <<enabled, config, state, handler, abandoned, answered, doubted>>

SwitchedElsewhere(i) ==
  /\ Live(i) /\ ~config.fixed
  /\ enabled' = Switched(i, i \notin enabled)
  /\ doubted' = doubted \cup {i}
  /\ UNCHANGED <<model, job, config, state, handler, abandoned, everDeployed, answered>>

-----------------------------------------------------------------------------
Handler ==
  \/ RequestFails \/ DeadlinePasses \/ Register \/ RegisterUnanswered
  \/ AwaitTask \/ SetEnabled \/ Deploy \/ AwaitDeploy \/ Undeploy
  \/ AwaitUndeploy \/ Probe \/ Read \/ Put \/ Delete

Core == StartCreate \/ StartRefresh \/ StartUpdate \/ StartDelete \/ EditConfig

Next ==
  \/ Handler \/ Core \/ Crash
  \/ \E i \in Ids : ServerStep(i) \/ SwitchedElsewhere(i)

Spec == Init /\ [][Next]_vars

(* A handler that was called runs: nothing else is assumed to happen. *)
FairSpec == Spec /\ WF_vars(Handler)

-----------------------------------------------------------------------------
(* Properties *)

(* Every model that exists is named by the state file, held by the Create    *)
(* under way, or was abandoned before d.SetId could record it: a failed      *)
(* deploy, probe, read, update or delete never loses a model.                *)
EveryModelAccounted ==
  \A i \in Ids : Live(i) => i \in {state.id} \cup Held \cup abandoned

(* An entry leaves the state file only once its model is gone: Delete does   *)
(* not take an error for an answer, and Read clears the ID on a 404 only.    *)
ForgetStep ==
  state.id # NoId /\ state'.id # state.id
    => state'.id = NoId /\ model'[state.id] = "gone"

ForgetsOnlyGone == [][ForgetStep]_vars

(* An entry that is not tainted names a model that was DEPLOYED and, when    *)
(* wait_for_predict asks for it, answered a probe: no error path of the      *)
(* deploy retry or of the probe ends in a clean entry.                       *)
AdoptedIsUsable ==
  state.id # NoId /\ ~state.tainted /\ config.deploy
    => state.id \in everDeployed /\ (config.probe => state.id \in answered)

(* Between two handlers a clean entry holds the value of is_enabled that the *)
(* server uses, although registration ignores the attribute and no GET need  *)
(* echo it: through retried deployments, updates with a lost answer, failed  *)
(* reads and crashes. Not for a model that rejects the PUT, and not while it *)
(* is in doubt: somebody else switched it, or an Update of it was refused or *)
(* died, and no PUT or echoed GET has been since.                            *)
InStep(i, on) == ~config.fixed /\ i \notin doubted => (on <=> i \in enabled)

RecordedFlagIsTrue ==
  pc = "idle" /\ state.id # NoId /\ ~state.tainted => InStep(state.id, state.enabled)

(* Delete reaches the model of a clean entry only when it is not deployed    *)
(* anywhere and no _deploy is pending that would deploy it between the wait  *)
(* and the DELETE. A tainted entry has no such promise: a Create may have    *)
(* failed with its _deploy accepted and not begun, and undeployMLModel takes *)
(* REGISTERED for an answer.                                                 *)
DeleteStep ==
  pc = "delete" /\ pc' = "idle" /\ model[d.id] # "gone" /\ ~state.tainted
    => model[d.id] \in {"REGISTERED", "UNDEPLOYED"} /\ "deploy" \notin job[d.id]

DeletesOnlyUndeployed == [][DeleteStep]_vars

(* The one retry of deployMLModel never redeploys over a partial deployment: *)
(* undeploying it first has taken effect, and ended what was left of the     *)
(* first deployment, before the second _deploy.                              *)
RedeployStartsClean ==
  pc = "deploy" => model[d.id] \notin UnderWay \cup {"DEPLOYED"}

(* Every handler returns: each wait has a deadline, the retry is made once.  *)
HandlerReturns == pc # "idle" ~> pc = "idle"

(* The probe asks the Predict API only for models it may serve: the docs say *)
(* of is_enabled that disabled models are unavailable to the Predict API.    *)
ProbesOnlyEnabled == pc = "probe" => d.id \in enabled

(* The resource keeps the promises of TrackedObject. *)
Object == INSTANCE TrackedObject
            WITH live <- {i \in Ids : Live(i)}, tracked <- state.id,
                 held <- Held, orphans <- abandoned

ImplementsTrackedObject == Object!Spec
=============================================================================
