# A model of the OpenSearch Terraform provider

TLA+ specifications of `src/provider`, the TLC configurations that check them on
small instances, and theorems about them that TLAPS checks for every value of the
constants.

| Module | What it is | Checked by | Proved in |
|---|---|---|---|
| `TrackedObject` | what a resource that owns a remote object promises | refined by `MLModel` and `CrudResource` | both refinements |
| `SharedDocument` | what a document promises that several state files manage | refined by `PolicyVersioning` | the refinement |
| `MLModel` | `opensearch_ml_model` | `ml_safety`, `ml_live`, `ml_probe` | `MLModelProofs` |
| `PolicyVersioning` | `opensearch_ism_policy`, `opensearch_sm_policy` | `policy_safety`, `policy_live`, `policy_missing` | `PolicyVersioningProofs` |
| `CrudResource` | 17 resources that are one document each | `crud_safety`, `crud_script` | `CrudResourceProofs` |
| `UserResource` | `opensearch_user` | `user_safety`, `user_rename` | `UserResourceProofs` |
| `IndexResource` | `opensearch_index` | `index_safety` | `IndexResourceProofs` |
| `PolicyMapping` | `opensearch_ism_policy_mapping` | `plugin_parts` | `PolicyMappingProofs` |
| `ClusterSettings` | `opensearch_cluster_settings` | `plugin_parts` | `ClusterSettingsProofs` |
| `ProviderConf` | configuration, clients, `elastic7CreateIndexIfNotExists` | `plugin_parts` | `ProviderConfProofs` |

`MC_*` give the constants their values; each `.cfg` is one run. `PROJECT.json` maps
every definition to the lines it stands for.

## 1. The system

`main.go` serves a Terraform plugin. The plugin has a configured provider
(`ProviderConf`), 24 resources and a data source. For each resource Terraform core
calls Create, Read, Update and Delete with `d`: the ID and the attributes, planned or
recorded. A handler sends HTTP requests to one OpenSearch cluster and leaves in `d`
what core is to write into the state file. Nothing else is kept: what the provider
knows of the world is the state file and what the cluster answers.

| Component | State | Operations | What makes it correct |
|---|---|---|---|
| Terraform core (outside `src`) | state file, configuration | apply, refresh, destroy | - |
| Provider configuration, clients (`provider.go`, `http.go`, `awsv4.go`) | `ProviderConf`, one for all handlers | `providerConfigure`, `getClient` in every handler, `getOSClient` once | both clients reach the cluster as the identity the documentation promises; concurrent handlers sign for one service |
| `opensearch_ml_model` | registered model, deployment, enable flag | register, deploy and wait, retry, probe, undeploy, enable, delete | no model is lost; only a usable model is reported deployed; the recorded flag is the server's; no deployed model of a clean entry is deleted |
| `opensearch_ism_policy`, `opensearch_sm_policy` | policy with `_seq_no`, `_primary_term` | create, conditional update, read, delete | nobody's change is overwritten unseen; an update is applied once |
| `opensearch_ism_policy_mapping` | which indices carry a policy | add, change, remove, poll | the poll ends; the indices recorded as managed carry the policy |
| `opensearch_index` | settings, mappings, aliases, rollover | create, update, destroy guard | documents that a search finds survive a destroy without `force_destroy`; an entry goes only with its index and says what it has |
| `opensearch_cluster_settings` | one object for the whole cluster | put, read, reset | what the entry records is in effect; a reset leaves nothing behind |
| monitor, detector, channel, script, data stream, three kinds of template, snapshot repository, pipeline, dashboard object, role, roles mapping, tenant, audit configuration, ML connector, ML model group | one document | create, read, update, delete | the entry says what the object holds; it goes only when the object is gone; Create takes over nobody's object and loses none |
| `opensearch_user` | user, password that cannot be read | put, read, delete | the recorded password is the user's; destroying removes the user |
| dashboard index of a tenant | index, its computed name | create if missing | a lost race for the index is not lost again |
| Normalisation, hashes, diff suppression (`util.go`, `diff_suppress_funcs.go`) | - | pure functions | a normal form is stable; different permissions differ; a real change is never hidden |

How they interact. Core runs handlers of different resources concurrently and those
of one resource one after the other. Handlers share `ProviderConf` and the cluster,
never each other's `d`. Two clients exist: `getClient` builds an olivere client in each
handler, the ML resources use the one opensearch-go client built at configuration.
The first repeats a request only where a `Retrier` is given, the second after network
errors and 502 to 504.

What core does with a result, from the plugin SDK: an error of Create without an ID
leaves no entry, with an ID a tainted one; after an error of Update the *planned* values
are saved; a Read that clears the ID removes the entry; a Delete without error does too.

What is hard: an error between two requests of one handler; a request that was executed
and not answered, repeated or not; a crash between the answer and the state file; other
clients between two requests; a state file that claims what was only planned. These are
the `hazards` of `PROJECT.json`, each at its line.

## 2. The plan

Done, in this order: `TrackedObject` and `MLModel` (the longest handler: polling,
retry, probe, cleanup), `PolicyVersioning` (several writers of one document),
`CrudResource` (all single-document resources at once), `UserResource`,
`IndexResource` (three requests for one destroy, a rollover between any two),
`PolicyMapping`, `ClusterSettings`, `ProviderConf`; then `SharedDocument`, and the proofs that
`PolicyVersioning` implements it and `CrudResource` implements `TrackedObject`.

Left:

1. Static settings and the mapping of an index, which force a new one.
2. Import of policies and indices.
3. The pure functions against reference definitions (section 7 says why they come last).

## 3. The modules

Conventions. The variables of a module are the cluster's, core's (`config`, `state`),
the handler's (`pc` is the request it is about to send or the call it waits for, `op` the
operation, `d` what SDK data it holds) and history variables that no guard of the code
reads. A handler step is one request with everything done up to the next one. Every
request may be refused or not arrive (`...Fails`), or be executed without an answer
(`...Unanswered`). Core steps are `StartCreate`, `StartRefresh`, `StartUpdate`,
`StartDelete`, `Return` and `Crash`; `Failed` is what core records after an error.
`...Elsewhere` is another client. Documents are model values: equal after the
normalisation and diff suppression of the resource.

**TrackedObject.** Objects of a server, the one the state file names, those only the
running operation knows, and those nobody recorded. `MLModel` implements it: `live` are
the models that exist, `held` what Create has in `d` or awaits, `orphans` the abandoned.
`CrudResource` implements it for the kinds whose IDs the server chooses (POST): `held` is the ID
between `d.SetId` and the return of Create, `orphans` are the `lost`. For a kind whose object has
the name of the configuration nothing is promised here: such an object cannot be lost.

**SharedDocument.** A document, who wrote it last, who has seen it as it is, and which state
files name it; Create, Update, Delete, Look and Settle are atomic. `PolicyVersioning` implements
it: `current` are the actors into whose state a read put the present version, `making` those
whose Create was answered and has not returned. A request that is repeated, late or
unanswered is one Update when it is executed, and nothing when it is refused.

**MLModel.** `model` and `job` are the life of each model in the plugin and the deploy and
undeploy it has accepted; the plugin works through them on its own, in any order. Assumed of it
(it is not under `src`): an undeployment that takes effect ends a deployment that is under way, and
leaves one alone that is accepted and has not begun. `RedeployStartsClean` rests on the
first half; because of the second a destroy can meet a pending `_deploy`: `undeployMLModel` accepts
REGISTERED (`resource_opensearch_ml_model.go:991`), and after a Create that failed before its
`_deploy` began, Delete deletes at once. `DeletesOnlyUndeployed` therefore speaks of clean entries. Create registers (the
answer is a model ID, or a task to poll), sets the ID, PUTs `is_enabled`, deploys and
polls `model_state` (`waitForModelDeploymentStateChange`), and after a partial or missing
deployment tries once more, undeploying first when the deployment was partial
(`deployMLModel`). Then it probes the model if `wait_for_predict` asks for it, and reads.
An error before `d.SetId` loses the registration (`abandoned`); one after it leaves a
tainted entry. Update PUTs what changed and reads; Delete undeploys, waits and deletes.
GET may echo `is_enabled` or not, at each Read anew: the comment in Read (581-584) says that it
never does, the one at 80 that false is not returned, a comment of the tests
(`resource_opensearch_ml_model_test.go:89`) that it does once a PUT has persisted it. The
properties hold either way. `doubted` are the models whose flag the entry cannot vouch for:
switched by others, or by an Update that was refused or died, and not sent or echoed since.
`config.enabled` may be edited; whether to deploy (ForceNew), whether to probe and whether
the model refuses a PUT of its flag (`fixed`) are chosen in `Init`.

**PolicyVersioning.** Several Terraform runs (`Actors`) with an entry each, on one policy
of the cluster. Read takes over `_seq_no` and `_primary_term`; Update sends them as a
condition; requests may be executed later than sent and repeated by the `Retrier`. `kind`
is ISM (PUT) or SM (POST for Create). `seen` records which versions a
read put into the state of an actor.

**CrudResource.** A `kind` is a record of five answers: how Create writes (PUT, POST,
create only, look up first), whether the handler ends with Read, what Read does with a 404,
what Delete does, and who repeats requests. Each resource is one line that says so; its
map entry is its handlers. The document is what Read returns: a connector's credential
is not part of it, and a data stream has none.

**UserResource.** The profile of a user is read back, the password is not. `Changed` is
`d.HasChange`. The name that is written and deleted (`Target`) is not the name that is
read (`d.id`) after a rename. `doubted` are the users for whose password the entry cannot
vouch: others wrote them, a write failed, or the name was taken over.

**IndexResource.** One entry, and indices that a rollover alias binds into a series.
Create makes the index under its name; Read, Update and Delete look the write index up
by alias (`Chosen`, a request of its own, whose error is only logged), and what they
then ask for may no longer be it. Update sends the changed aliases one by one, then the
settings, then reads; Delete counts documents unless `force_destroy` is set, and
deletes. The rollover alias is configured (at Create or Update) or learned by Read. `found`
are the indices in which a search finds documents: `_count` is a search (647), and
documents that no refresh has shown yet, with `refresh_interval = "-1"` never, are
for this code not there; `Refreshed` is the moment a refresh shows some. Only a destroy
asks for documents, so `found` is kept only while one runs, and any index may hold some
when it begins. Settings are never unset: a
planned value is sent when `d.HasChange` sees it change, an absent one is not, and Read keeps the
recorded value of a setting the index lacks (584-585).
Environment: refreshes, index state management that rolls over, others who
remove indices, empty them, change their settings and aliases. The history variables say
what a search could find when a destroy began (`before`), which indices were written to while it
ran (`writers`), whether others interfered with the operation (`meddled`), whether the aliases
(`doubted`) or the setting (`stale`) of the entry may be wrong, and whether an index asked for was
missing (`lost`).

**PolicyMapping.** Create and Update POST, then call the retry function: one GET until an
index carries the policy, then Read with another GET. `Given`, `Queued` and `Taken` are what
the plugin does with add, change_policy and remove, for whichever indices it accepts; it
carries a queued change out (`PolicyChanges`) whenever it likes, or never. `RetryExpires` is
the deadline of `RetryContext`, which may overtake the second GET: the goroutine then writes
to `d` while core reads it.

**ClusterSettings.** One entry on settings that every client shares (`SettingsElsewhere`). A
value is unset, zero, or one of two others: `GetOk` does not tell zero from unset, so zero is
never sent (`Sent`). Read takes over what the cluster has and skips what it lacks. `doubted` are
the settings for which the entry cannot vouch.

**ProviderConf.** `Configure` is `providerConfigure`: the ML client first, the web identity of
the environment after it. Handlers that create objects of one tenant then run
concurrently, each with the steps of `getClient` that read or write the shared
`ProviderConf` apart, then the look-up, the creation of the index and the PUT. `Panic` is
the nil pointer of `createIndex.Acknowledged`: `NewProcess` for all handlers at once.
`Setup` is what the block and the environment set; `SessionIdentity` is whom `awsSession`
ends up with.

`MC_Plugin` puts the last three into one run. They share no state, and a behaviour
takes the steps of the one that `Init` chose: nothing is shown about their interleaving,
and nothing need be.

## 4. The runs

| Run | States | Shows |
|---|---|---|
| `ml_safety` | 1.6 million | the invariants and action properties of `MLModel`, and that it implements `TrackedObject`, with two model IDs, so that a lost model and a second one exist together, and crashes and other clients everywhere |
| `ml_live` | 30 000 | every operation that starts ends, by an answer, an error or a crash |
| `ml_probe` | violated | a model is probed that is disabled (finding) |
| `policy_safety` | 1.0 million | no lost update, no double update, and that the states implement `SharedDocument`: among others, an entry is dropped only by the step that deletes its policy; two actors, requests in flight |
| `policy_live` | 136 000 | handlers return |
| `policy_missing` | violated | a policy that is missing is not removed by Read (finding) |
| `crud_safety` | 47 000 | an entry is true, dropped only for an object that was gone, a Create overwrites nothing, and the kinds with server-chosen IDs implement `TrackedObject`; all 17 kinds |
| `crud_script` | violated | Create of a script overrides another one (finding) |
| `user_safety` | 49 000 | the recorded password is the user's; entries dropped only for missing users |
| `user_rename` | violated | destroying a renamed user leaves the first one (finding) |
| `index_safety` | 1.6 million | what a destroy may delete, when an entry may go, and that what it records of aliases and settings is so, unless others or a failed operation put it in doubt |
| `plugin_parts` | 352 000 | mappings record what was seen, and their handlers return; an entry of the cluster settings is true, its handlers change only what it sends, and a reset is complete; identity and service of every signed client; one lost race at most |

Bounds. *Two identifiers* are enough for the interesting cases of a resource: its own
object and one that was lost or is somebody else's; a third would be another lost one.
*Two documents* tell old from new; *two passwords*, *two profiles* and *two names* allow an
update of one without the other. `MaxPolls` bounds how often a task is found unfinished
and `MaxTries` how often the `Retrier` repeats: two polls or tries already contain "once
more" and "no more". `MaxSeq`, `MaxTerm` and `MaxLate` bound the writes to the index of the
policies, its primary terms and the requests under way whose sender gave up: three writes
are a read, a competing write and the conditional one, and one late request is enough to
come after it. Two writers of a policy suffice for a lost update. `index_safety` has the index of the
entry and one that a rollover makes: an older member and a newer one, which is every role an
index has in a series; of a setting there is a value and none, which tells one that Read finds from
one that it keeps. In `plugin_parts` two indices and two policies make a pattern that is
partly mapped and a change of policy; two settings tell the one that is sent from the one
that is not; two objects race. Its setups (`MCSetups`) are every combination of the seven
sources of credentials on one host, and every combination of host, service, region and
version with the two identities of the environment; credentials and host do not meet in the
code. Model values are symmetric
where no action tells them apart; runs with liveness use no symmetry. No run switches
deadlock checking off.

Fairness. `MLModel!FairSpec` is weak fairness of the handler's own steps: its requests carry
the context of the handler, which the SDK cancels after 20 minutes, so that every
request ends, and the polling loops count or watch that context. `PolicyVersioning!FairSpec`
is weak fairness of each actor's handler: the `Retrier`'s exponential backoff gives up after
its last interval, and a client without a `Retrier` sends once. `PolicyMapping!MappingFair` is weak fairness of its
requests and of the deadline of `RetryContext`, not of the plugin: a change may stay queued
for ever. None assumes anything of
core, of other clients, or that a request succeeds.

## 5. The proofs

All constants are arbitrary, under the named assumptions of the modules (the "no such"
values are not values; bounds are positive). Each proof has the same shape: an inductive
invariant `IInv` that TLC was given first, one lemma per action, then the theorem.

**Invariants and action properties of the runs.** Every one of them is a theorem.

* `MLModelProofs`: `TypeOK`, `EveryModelAccounted`, `AdoptedIsUsable`,
  `RedeployStartsClean`, `RecordedFlagIsTrue` and the action properties.
  `IInv` adds to the properties what the handler knows at each `pc` (`Control`,
  `Known`), how far a deployment has come (`Progress`), what `d` and the entry say of the
  flag (`Recorded`), and where a `_deploy` may be pending (`Quiet`, `Jobs`). Without `Known` a model
  whose ID is only in a local variable would be unaccounted for.
* `PolicyVersioningProofs`: `TypeOK`, `NoLostUpdate`, `UpdateAppliedOnce`. `IInv` adds that
  versions are fresh (`Fresh`), that what a request carries was read by its sender
  (`Carried`) and that a version is spent by the write that matched it (`Spent`): this is
  why a repeated request cannot apply twice.
* `CrudResourceProofs`: `TypeOK`, `EntryIsTrue`, `ForgetsOnlyGone`,
  `CreatesKeepOthers`. `IInv` relates what the handler has in `d` (`DataHolds`) and what
  the entry says (`EntryHolds`) to the cluster until somebody changes it, and an ID the
  server chose to its holder (`Assigned`, `Sighted`).
* `UserResourceProofs`: `TypeOK`, `PasswordIsKnown`, `ForgetsOnlyGone`. `PasswordIsKnown`
  speaks of the time between operations; `IInv` follows the password through an Update:
  the recorded one until the PUT is sent (`EntryVouched`), the planned one once it is
  answered (`DataVouched`), and what the PUT carries (`SendsChange`).
* `IndexResourceProofs`: all six properties of `index_safety`. `IInv` says what each `pc`
  knows: that the index a request names is that of the entry or was a write index since
  the operation began, that the index the count found empty is the one DELETE names, and
  which aliases of the plan the index already has. `Settled` follows the setting: of the entry while no
  Update runs, of `d` from the answer to the PUT to the return; that PUT and Read ask the same index
  holds although each looks the write index up for itself.
* `PolicyMappingProofs`: `MappingTypeOK`, `ManagedIsSeen`, `ForgetsOnlyBare`. `IInv` ties what is in
  `d` after Read to what carried the policy then (`stirred`), and an ID that is empty in
  an entry's handler to a bare pattern (`bare`).
* `ClusterSettingsProofs`: `SettingsTypeOK`, `TruthfulEntry`, `ResetClears`, `ChangesOnlyItsOwn`
  (theorem `KeepsToItsOwn`). `TruthfulEntry` speaks
  of the time between operations; `IInv` says the same of `d` after each request.
* `ProviderConfProofs`: `ConfTypeOK`, `DocumentedIdentity`, `OneIdentity`, `SignsForServerless`,
  `RaceLostOnce`, for any number of objects and any set of setups. `IInv`: `conf` is always
  the resolved block but for the service and the version; a handler past `ChooseClient` has
  left "aoss" there; and once a race was lost, the index is there and no handler thinks it
  missing, since the panic ended those that did. `OneIdentity` is an equivalence: the two
  clients differ exactly in the setups of `EnvironmentAdds`.

**Refinements.** `ImplementsTrackedObject` of `MLModel` and of `CrudResource`, and
`ImplementsSharedDocument` of `PolicyVersioning`: initial states map to initial states, and
there is a lemma for each group of steps that says which abstract step, if any, it is. Beside
`IInv` the step lemmas need, of `CrudResource`, that every ID in use was handed out
(`Handed`), so that a new object is none of those held or lost; of `PolicyVersioning`, that a
Create has an ID exactly from the answer to its write to its read-back (`Claims`): that is
how long it is one of those `making`. What an abstract
specification implies is proved of it, in a few lines, and carried over: `Accounted` (every
object has one keeper, and what was lost is never adopted) becomes `EveryObjectHasOneKeeper`;
`NothingSeen` (nobody has seen a document that is not there) becomes `DeletedStaysDeleted`.

**Beyond the runs.** Theorems that no run repeats:

* `PolicyVersioning`: an update that met a conflict can never get past it by repetition
  (`ConflictsAreFinal`); `ForgetsOnlyDeleted`.
* `CrudResource`: a successful apply records the configuration (`AppliesThePlan`), a handler
  touches only its own object (`KeepsToItsOwn`), `NothingLost`.
* `IndexResource` (`KeepsToItsOwn`): what each operation may do to an index. An Update makes none,
  touches no alias of another index, and sends settings to another index only
  where the entry has, or is given, a rollover alias.
* `UserResource` (`KeepsToItsOwn`): only the user that the configuration names, or the destroyed
  entry, and its password only when the configured one is not the recorded one.
* The type invariants of `PolicyMapping` and `ClusterSettings`: no change of a handler breaks
  one, so that a run of them would show nothing.

These need that what is in `d` before a write is the configuration (`PlanHolds`): core does not
let it change under a running handler.

**The provable part of liveness.** `HandlersRunOut`, of every module but `UserResource` and
`ProviderConf`, is an action property about a rank: each step of a handler lowers it, or uses
up one of a bounded number of polls or attempts, and no step of the plugin, of
another client or of another actor raises it. Together with weak fairness of the handler, and
with the fact that a handler that has not returned can take a step, a handler that was called
returns. The exception stands in the theorem of `MLModel`: opensearch-go may repeat a
registration that was not answered, each time with another model.
`UserResource` has no such theorem because its repeated requests are not counted.

**Only model-checked.** `HandlerReturns`, `HandlersReturn` and `MappingReturns` themselves: they need
fairness and ENABLED, which the provers do not handle. And the properties that are violated: a
violated property is not a theorem; its counterexample is the result.

## 6. Findings

The four violated runs each refute a sentence of a document, comment or test;
`PROJECT.json` quotes it. In short: the ML probe runs against a disabled model; Read of
a policy does not remove one that is missing, because `IsNotFound` does not look into a
wrapped error; the look-up before a script's PUT is not a guard; `username` can be changed
in place but the ID cannot.

What the modules also record, without a run that is violated over it:

* Documents written between the count and the DELETE of a destroy are lost although
  `force_destroy` is false (`resource_opensearch_index.go:618-631`), and so are those that no
  refresh has shown to searches when it counts (647): with `refresh_interval = "-1"`, a setting of
  this resource (`docs/resources/index.md:106`), any number of them.
* A setting of an index that an Update failed to send for the first time is recorded and never
  sent: Read skips settings that the index lacks (584-585) and `d.HasChange` (665) is false from
  then on. `SettingsAsRecorded` excepts an entry from the failure on (`stale`); the aliases
  of a failed Update are likewise recorded and not sent (`AliasesAsRecorded`).
* Comments disagree on whether GET returns `is_enabled` of an ML model: never
  (`resource_opensearch_ml_model.go:581-584`), not when false (80), once a PUT persisted it
  (`resource_opensearch_ml_model_test.go:89`). Where it does not, a flag that somebody
  else switches, or that an Update failed to send, is never corrected: the entries
  `RecordedFlagIsTrue` excepts.
* The destroy of an ML model after a failed Create may delete it with a `_deploy` accepted and not
  begun (991 takes REGISTERED for settled).
* The destroy of an entry with a rollover alias deletes the write index of the series and drops
  the entry, while the index of the ID stays, with its documents
  (`resource_opensearch_index.go:616-630`). For this reason `IndexResource` does not implement
  `TrackedObject`; `DestroysOnlyItsOwn` and `DestroySparesDocuments` say what does hold.
* A zero or false of `opensearch_cluster_settings` is never sent but recorded; a setting
  that someone resets is never noticed, and an Update that fails keeps the planned values.
  `TruthfulEntry` exempts exactly these.
* The ML client does not see the web identity of the environment that completes, or
  outranks the keys of the environment beside, what the block says (the comment at `provider.go:671-674`
  presumes that it does); `OneIdentity` names exactly the cases. On a serverless host it signs for
  `aws_signature_service`, the handlers' clients for `aoss`.
* Two objects of a new tenant created at once end the provider with a nil pointer.
  `RaceLostOnce` says that the next apply gets past it.
* The Update of a policy mapping never finds its 404: the error is formatted with `%+v`.

## 7. What is left out

Abstracted in the modelled resources: wording of errors, logging, the fields of a document,
URL building. In `MLModel` one deployment at a time runs in the cluster
and nobody else deploys; a request that arrives after its sender gave up is modelled
only in `PolicyVersioning`. In `PolicyVersioning` the user never sets `seq_no` himself.
Import is in `ClusterSettings` only (of an index by alias, it is left out; of a policy
mapping, it finds nothing, since Read asks for the policy "");
`untaint` is in no module. A panic (the Read of a user without an answer,
an empty channel list) is a `Crash`. An index's static settings force a new index
and its mapping is only reported: neither is in `IndexResource`. In `ProviderConf` the
environment sets both variables of a web identity or neither, tokens, TLS and basic
authentication are left out (copied from the block, never changed), and a handler
has no other request than those that create a dashboard object. `flavor` is written without
a lock and never read, and `osVersion` is read only to be compared with "".

Not modelled: the pure functions (`util.go`, `diff_suppress_funcs.go`, the hashes of tenants
and permissions) take trees of JSON or strings apart character by character. They keep no
state and meet no other step; every module compares documents after them. Stated on a few
model values they would only repeat their own definition. Nor the entry point, the host data
source (no state, no request), AWS request signing and TLS (libraries), tests, documentation,
examples.
