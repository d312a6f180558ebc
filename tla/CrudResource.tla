---------------------------- MODULE CrudResource ----------------------------
(***************************************************************************)
(* The resources whose four handlers make one request each (a second one   *)
(* when a write is read back): monitors, detectors, channels, scripts,     *)
(* data streams, templates, repositories, pipelines, the security API and  *)
(* the ML connectors and model groups. They run the same steps and differ  *)
(* in what a Create may overwrite, whether a write is read back, what a    *)
(* 404 means to Read and to Delete and which client repeats a request:     *)
(* the record of a kind says so, and the handlers follow it.               *)
(*                                                                         *)
(* One entry of one state file, one handler at a time (core locks the      *)
(* state), other clients in between, requests executed without an answer,  *)
(* and crashes.                                                            *)
(***************************************************************************)
EXTENDS Naturals

CONSTANTS Ids,        \* identifiers of objects
          NoId,       \* d.Id() = ""
          Name,       \* the identifier the configuration chooses
          Bodies,     \* documents
          NoBody,     \* the document of an object that does not exist
          MaxTries    \* attempts of a client that repeats requests

ASSUME IdsAssumption == NoId \notin Ids /\ Name \in Ids
ASSUME BodiesAssumption == NoBody \notin Bodies
ASSUME TriesAssumption == MaxTries \in Nat \ {0}

-----------------------------------------------------------------------------
(* The kinds. create: "post" lets the server choose the ID, "refuse" is      *)
(* answered by an error when the object exists, "checked" asks for it first, *)
(* "put" overwrites. readsBack: Create and Update end with Read. missing:    *)
(* what Read makes of an object that does not exist. updates: there is an    *)
(* Update. destroy: what Delete makes of a 404, or that it sends nothing.    *)
(* repeats: whether the client sends a request again, "retrier" until it has *)
(* no attempts left, "client" as long as the context allows.                 *)
KindType ==
  [create : {"post", "refuse", "checked", "put"}, readsBack : BOOLEAN,
   missing : {"forget", "fail", "null"}, updates : BOOLEAN,
   destroy : {"fail", "ignore", "nothing"}, repeats : {"never", "retrier", "client"}]

Kind(create, readsBack, missing, updates, destroy, repeats) ==
  [create |-> create, readsBack |-> readsBack, missing |-> missing, updates |-> updates,
   destroy |-> destroy, repeats |-> repeats]

Monitor              == Kind("post", TRUE, "forget", TRUE, "fail", "never")
AnomalyDetection     == Kind("post", TRUE, "forget", TRUE, "fail", "never")
ChannelConfiguration == Kind("post", TRUE, "forget", TRUE, "fail", "never")

MLConnector  == Kind("post", TRUE, "forget", TRUE, "ignore", "client")
MLModelGroup == Kind("post", TRUE, "forget", TRUE, "ignore", "client")

Script     == Kind("checked", TRUE, "forget", TRUE, "fail", "never")
DataStream == Kind("refuse", TRUE, "forget", FALSE, "fail", "never")

ComposableIndexTemplate == Kind("refuse", FALSE, "forget", TRUE, "fail", "never")
ComponentTemplate       == Kind("refuse", FALSE, "forget", TRUE, "fail", "never")
IndexTemplate           == Kind("refuse", FALSE, "forget", TRUE, "fail", "never")

(* Read returns every error, a 404 included. *)
SnapshotRepository == Kind("put", FALSE, "fail", TRUE, "fail", "never")

(* Read fetches every pipeline and marshals the entry of a map that has none. *)
IngestPipeline == Kind("put", FALSE, "null", TRUE, "fail", "never")

DashboardObject == Kind("put", TRUE, "forget", TRUE, "fail", "never")

Role            == Kind("put", TRUE, "forget", TRUE, "fail", "retrier")
RolesMapping    == Kind("put", TRUE, "forget", TRUE, "fail", "retrier")
DashboardTenant == Kind("put", TRUE, "forget", TRUE, "fail", "retrier")

(* The audit configuration cannot be deleted: Delete only drops the entry. *)
AuditConfig == Kind("put", TRUE, "forget", TRUE, "nothing", "retrier")

Kinds ==
  {Monitor, AnomalyDetection, ChannelConfiguration, Script, DataStream,
   ComposableIndexTemplate, ComponentTemplate, IndexTemplate, SnapshotRepository,
   IngestPipeline, DashboardObject, Role, RolesMapping, DashboardTenant, AuditConfig,
   MLConnector, MLModelGroup}

-----------------------------------------------------------------------------
VARIABLES
  kind,       \* the resource whose handlers run
  (* The cluster *)
  server,     \* the document of every object
  used,       \* identifiers the server has handed out
  (* Terraform core *)
  config,     \* the document the user wants
  state,      \* the entry of the state file
  (* The handler under way *)
  pc, op, d, tries,
  (* History *)
  lost,       \* objects whose identifier nobody was told, or nobody kept
  unseen,     \* objects changed since their document was last known here
  gone        \* the object of the entry was missing during this operation

cluster == <<server, used>>
core    == <<config, state>>
handler == <<pc, op, d, tries>>
history == <<lost, unseen, gone>>
vars    == <<kind, cluster, core, handler, history>>

Documents == Bodies \cup {NoBody}
NoEntry   == [id |-> NoId, body |-> NoBody, tainted |-> FALSE]
NoData    == [id |-> NoId, body |-> NoBody]
Exists(i) == server[i] # NoBody

(* Every variable has its type; a request is sent MaxTries times at most.    *)
TypeOK ==
  /\ kind \in Kinds
  /\ server \in [Ids -> Documents] /\ used \subseteq Ids
  /\ config \in Bodies
  /\ state \in [id : Ids \cup {NoId}, body : Documents, tainted : BOOLEAN]
  /\ pc \in {"idle", "check", "write", "get", "remove", "done"}
  /\ op \in {"none", "create", "refresh", "update", "delete"}
  /\ d \in [id : Ids \cup {NoId}, body : Documents]
  /\ tries \in 1..MaxTries
  /\ lost \subseteq Ids /\ unseen \subseteq Ids /\ gone \in BOOLEAN

Init ==
  /\ kind \in Kinds
  /\ server = [i \in Ids |-> NoBody] /\ used = {}
  /\ config \in Bodies /\ state = NoEntry
  /\ pc = "idle" /\ op = "none" /\ d = NoData /\ tries = 1
  /\ lost = {} /\ unseen = {} /\ gone = FALSE

-----------------------------------------------------------------------------
(* Terraform core *)

Start(o, p, data) ==
  /\ pc = "idle"
  /\ op' = o /\ pc' = p /\ d' = data /\ tries' = 1
  /\ gone' = (state.id # NoId /\ ~Exists(state.id))
  /\ UNCHANGED <<kind, cluster, core, lost, unseen>>

Tracked == state.id # NoId
Known   == [id |-> state.id, body |-> state.body]

StartCreate ==
  /\ ~Tracked
  /\ Start("create", IF kind.create = "checked" THEN "check" ELSE "write",
           [id |-> NoId, body |-> config])

StartRefresh == Tracked /\ Start("refresh", "get", Known)

StartUpdate ==
  /\ Tracked /\ ~state.tainted
  /\ kind.updates /\ config # state.body
  /\ Start("update", "write", [Known EXCEPT !.body = config])

StartDelete ==
  /\ Tracked
  /\ IF kind.destroy = "nothing" THEN Start("delete", "done", NoData)
                                 ELSE Start("delete", "remove", Known)

EditConfig ==
  /\ pc = "idle"
  /\ config' \in Bodies
  /\ UNCHANGED <<kind, cluster, state, handler, history>>

Idle == pc' = "idle" /\ op' = "none" /\ d' = NoData /\ tries' = 1

(* The handler returned: core writes the entry d stands for, if it has an ID. *)
Return ==
  /\ pc = "done"
  /\ state' = IF d.id = NoId THEN NoEntry
              ELSE [id |-> d.id, body |-> d.body,
                    tainted |-> op = "refresh" /\ state.tainted]
  /\ Idle
  /\ UNCHANGED <<kind, cluster, config, history>>

(* An error. Core keeps the planned document of an Update, and what a Create *)
(* had set once there is an ID, as tainted.                                  *)
Failed ==
  /\ state' = CASE op = "update" -> [state EXCEPT !.body = d.body]
                [] op = "create" /\ d.id # NoId ->
                     [id |-> d.id, body |-> d.body, tainted |-> TRUE]
                [] OTHER -> state
  /\ Idle

Crash ==
  /\ pc # "idle"
  /\ lost' = IF op = "create" /\ d.id # NoId THEN lost \cup {d.id} ELSE lost
  /\ unseen' = unseen \cup ({d.id, state.id} \cap Ids)
  /\ Idle
  /\ UNCHANGED <<kind, cluster, core, gone>>

-----------------------------------------------------------------------------
(* The cluster, and its other clients *)

Put(i, doc) == server' = [server EXCEPT ![i] = doc]

WrittenElsewhere(i) ==
  /\ kind.create = "post" => Exists(i)
  /\ \E b \in Bodies : Put(i, b)
  /\ unseen' = unseen \cup {i}
  /\ UNCHANGED <<kind, used, core, handler, lost, gone>>

Vanishes(i) == gone' = (gone \/ i = state.id)

RemovedElsewhere(i) ==
  /\ Exists(i)
  /\ Put(i, NoBody)
  /\ Vanishes(i)
  /\ unseen' = unseen \cup {i}
  /\ UNCHANGED <<kind, used, core, handler, lost>>

-----------------------------------------------------------------------------
(* The handlers, one request at a time *)

(* Where a write goes: the ID of the entry, the name, or a new ID. *)
Targets ==
  IF op = "update" THEN {d.id} ELSE IF kind.create = "post" THEN Ids \ used ELSE {Name}

(* Mutant of Accepts: a Create sends create=false. *)
AcceptsAlways(i) == kind.create = "post" /\ op = "update" => Exists(i)

(* A Create may have to find nothing; a PUT to an ID of the server's must    *)
(* find an object.                                                           *)
Accepts(i) ==
  /\ op = "create" /\ kind.create = "refuse" => ~Exists(i)
  /\ op = "update" /\ kind.create = "post" => Exists(i)

Execute(i) ==
  /\ Accepts(i)
  /\ Put(i, d.body)
  /\ used' = used \cup {i}

(* Mutant of Again: one attempt too many. *)
AgainOnceMore ==
  /\ kind.repeats # "never" /\ tries <= MaxTries
  /\ tries' = tries + 1
  /\ UNCHANGED <<state, pc, op, d>>

(* A request failed, or its answer did not arrive: the client sends it again *)
(* or the handler returns the error.                                         *)
Again ==
  /\ kind.repeats # "never" /\ tries < MaxTries
  /\ tries' = tries + 1
  /\ UNCHANGED <<state, pc, op, d>>

NoAnswer ==
  \/ Again
  \/ (kind.repeats = "retrier" => tries = MaxTries) /\ Failed

(* The script is looked up, so that Create does not override it. *)
Check ==
  /\ pc = "check"
  /\ IF Exists(Name) THEN Failed
                     ELSE pc' = "write" /\ UNCHANGED <<state, op, d, tries>>
  /\ UNCHANGED <<kind, cluster, config, history>>

(* The object is written: d.SetId, then Read unless the handler ends here. *)
Written ==
  /\ pc = "write"
  /\ \E i \in Targets :
       /\ Execute(i)
       /\ d' = [d EXCEPT !.id = i]
       /\ unseen' = unseen \ {i}
  /\ pc' = IF kind.readsBack THEN "get" ELSE "done"
  /\ tries' = 1
  /\ UNCHANGED <<kind, core, op, lost, gone>>

WriteUnanswered ==
  /\ pc = "write"
  /\ \E i \in Targets :
       /\ Execute(i)
       /\ lost' = IF op = "create" THEN lost \cup {i} ELSE lost
       /\ unseen' = unseen \cup {i}
  /\ NoAnswer
  /\ UNCHANGED <<kind, config, gone>>

(* Nothing was written: no connection, an error status, or a refusal. *)
WriteFails ==
  /\ pc = "write"
  /\ NoAnswer \/ Failed
  /\ unseen' = unseen \cup ({d.id} \cap Ids)
  /\ UNCHANGED <<kind, cluster, config, lost, gone>>

(* Mutant of Found: Read does not set what it was answered. *)
FoundKeepsBody ==
  /\ pc = "get" /\ Exists(d.id)
  /\ unseen' = unseen \ {d.id}
  /\ pc' = "done"
  /\ UNCHANGED <<kind, cluster, core, op, d, tries, lost, gone>>

(* GET finds the object; a data stream has no document to read. *)
Found ==
  /\ pc = "get" /\ Exists(d.id)
  /\ d' = IF kind.updates THEN [d EXCEPT !.body = server[d.id]] ELSE d
  /\ unseen' = unseen \ {d.id}
  /\ pc' = "done"
  /\ UNCHANGED <<kind, cluster, core, op, tries, lost, gone>>

(* GET answers 404, or a list without the object. *)
Missing ==
  /\ pc = "get" /\ ~Exists(d.id)
  /\ \/ kind.missing = "forget" /\ d' = NoData /\ UNCHANGED unseen
     \/ /\ kind.missing = "null"
        /\ d' = [d EXCEPT !.body = NoBody]
        /\ unseen' = unseen \ {d.id}
  /\ pc' = "done"
  /\ UNCHANGED <<kind, cluster, core, op, tries, lost, gone>>

(* Mutant of GetFails: any error counts as a 404. *)
GetFailsForgets ==
  /\ pc = "get"
  /\ d' = NoData /\ pc' = "done"
  /\ UNCHANGED <<kind, cluster, core, op, tries, history>>

(* An error of GET; a repository that does not exist is one. *)
GetFails ==
  /\ pc \in {"check", "get"}
  /\ Failed
  /\ UNCHANGED <<kind, cluster, config, history>>

Removed ==
  /\ pc = "remove" /\ Exists(d.id)
  /\ Put(d.id, NoBody)
  /\ Vanishes(d.id)
  /\ d' = NoData /\ pc' = "done"
  /\ UNCHANGED <<kind, used, core, op, tries, lost, unseen>>

(* DELETE answers 404: only the ML resources take it for success. *)
RemoveMissing ==
  /\ pc = "remove" /\ ~Exists(d.id)
  /\ IF kind.destroy = "ignore"
     THEN d' = NoData /\ pc' = "done" /\ UNCHANGED <<state, op, tries>>
     ELSE Failed
  /\ UNCHANGED <<kind, cluster, config, history>>

RemoveUnanswered ==
  /\ pc = "remove" /\ Exists(d.id)
  /\ Put(d.id, NoBody)
  /\ Vanishes(d.id)
  /\ unseen' = unseen \cup {d.id}
  /\ NoAnswer
  /\ UNCHANGED <<kind, used, config, lost>>

RemoveFails ==
  /\ pc = "remove"
  /\ NoAnswer \/ Failed
  /\ UNCHANGED <<kind, cluster, config, history>>

-----------------------------------------------------------------------------
Handler ==
  \/ Check \/ Written \/ WriteUnanswered \/ WriteFails
  \/ Found \/ Missing \/ GetFails
  \/ Removed \/ RemoveMissing \/ RemoveUnanswered \/ RemoveFails

Core ==
  \/ StartCreate \/ StartRefresh \/ StartUpdate \/ StartDelete
  \/ EditConfig \/ Return \/ Crash

Elsewhere == \E i \in Ids : WrittenElsewhere(i) \/ RemovedElsewhere(i)

Next == Handler \/ Core \/ Elsewhere

Spec == Init /\ [][Next]_vars

-----------------------------------------------------------------------------
(* Properties *)

(* An object the server named is in the entry, in the hands of the handler   *)
(* that made it, or its answer was lost or the process died before its       *)
(* handler returned: once d.SetId has run, an error never loses an object.   *)
NothingLost ==
  kind.create = "post" =>
    \A i \in Ids : Exists(i) =>
      i \in lost \/ i = state.id \/ (op = "create" /\ i = d.id)

(* Where the server chooses the ID, the resource keeps the promises of       *)
(* TrackedObject: an object it made is named by the entry, held by the Create *)
(* under way or known to be lost, and once d.SetId has run no error loses it. *)
Assigns == kind.create = "post"
Live    == IF Assigns THEN {i \in Ids : Exists(i)} ELSE {}
Entry   == IF Assigns THEN state.id ELSE NoId
Held    == IF Assigns /\ op = "create" /\ d.id # NoId THEN {d.id} ELSE {}
Orphans == IF Assigns THEN lost ELSE {}

Object == INSTANCE TrackedObject
            WITH live <- Live, tracked <- Entry, held <- Held, orphans <- Orphans

ImplementsTrackedObject == Object!Spec

(* What the entry says of its object is so, unless something changed the     *)
(* object, or an attempt to change it failed, after the last successful      *)
(* handler: a refresh or a write that returned no error told the truth, also *)
(* of an object it did not find.                                             *)
Agrees(doc, i) == IF kind.updates THEN doc = server[i] ELSE Exists(i)

EntryIsTrue ==
  pc = "idle" /\ Tracked /\ state.id \notin unseen => Agrees(state.body, state.id)

(* An entry leaves the state file only if its object was missing at some     *)
(* moment of the operation that drops it.                                    *)
ForgetStep == Tracked /\ state'.id = NoId => gone \/ kind.destroy = "nothing"

ForgetsOnlyGone == [][ForgetStep]_vars

(* A Create that sends create=true, a POST or a new data stream never        *)
(* changes an object that exists.                                            *)
CreateStep(kinds) ==
  op = "create" /\ kind.create \in kinds /\ handler' # handler =>
    \A i \in Ids : Exists(i) => server'[i] = server[i]

CreatesKeepOthers == [][CreateStep({"post", "refuse"})]_vars

(* Create of a script does not override a script, as its first comment says. *)
ScriptsKeepOthers == [][CreateStep({"checked"})]_vars
=============================================================================
