-------------------------- MODULE PolicyVersioning --------------------------
(***************************************************************************)
(* opensearch_ism_policy and opensearch_sm_policy: policies with a version *)
(* (_seq_no and _primary_term) that Read records and Update sends back as  *)
(* the condition of its PUT, over an HTTP client that repeats a request    *)
(* after a 409 or a transport error.                                       *)
(*                                                                         *)
(* One policy, managed from several states (Actors) that know nothing of   *)
(* each other, and changed by other clients too. A request whose answer is *)
(* lost may have been executed, or may still be executed later.            *)
(***************************************************************************)
EXTENDS Naturals, FiniteSets

CONSTANTS Actors,     \* the state files in which the policy is a resource
          Other,      \* every other client of the cluster
          Bodies,     \* policy documents
          NoBody,     \* the document of a policy that does not exist
          MaxSeq,     \* writes to the index of the policies
          MaxTerm,    \* primary terms of that index
          MaxTries,   \* attempts the Retrier makes before it gives up
          MaxLate     \* requests under way whose sender no longer waits

ASSUME OtherAssumption == Other \notin Actors
ASSUME NoBodyAssumption == NoBody \notin Bodies
ASSUME BoundsAssumption ==
  MaxSeq \in Nat /\ MaxTerm \in Nat \ {0} /\ MaxTries \in Nat \ {0} /\ MaxLate \in Nat

VARIABLES
  kind,         \* which of the two resources, "ism" or "sm"
  (* The cluster *)
  policy,       \* the policy, or Absent
  seq, term,    \* the _seq_no the next write gets, the _primary_term
  late,         \* requests that may still arrive
  (* Each actor: Terraform core, and the handler under way *)
  config, state, pc, op, d, tries,
  (* History *)
  seen,         \* seen[a]: versions that a read put into the state of a
  wrote,        \* wrote[a]: how often the update of a under way was applied
  last          \* the last write: by whom, for which operation, over what

cluster == <<kind, policy, seq, term, late>>
core    == <<config, state>>
handler == <<pc, op, d, tries>>
history == <<seen, wrote, last>>
vars    == <<cluster, core, handler, history>>

Versions  == [seq : 0..MaxSeq, term : 0..MaxTerm]
Documents == Bodies \cup {NoBody}
NoVersion == [seq |-> 0, term |-> 0]
Absent    == [body |-> NoBody, ver |-> NoVersion]
Exists    == policy # Absent
NoEntry   == [tracked |-> FALSE, tainted |-> FALSE, body |-> NoBody, ver |-> NoVersion]
NoData    == [tracked |-> FALSE, body |-> NoBody, ver |-> NoVersion]
Requests  == [op : {"create", "update", "delete"}, from : Actors, body : Documents,
              ver : Versions]

ClusterTypes ==
  /\ kind \in {"ism", "sm"}
  /\ policy \in [body : Documents, ver : Versions]
  /\ seq \in 0..MaxSeq /\ term \in 1..MaxTerm
  /\ late \subseteq Requests

ActorTypes ==
  /\ config \in [Actors -> Bodies]
  /\ state \in [Actors -> [tracked : BOOLEAN, tainted : BOOLEAN, body : Documents,
                           ver : Versions]]
  /\ pc \in [Actors -> {"idle", "write", "read", "delete"}]
  /\ op \in [Actors -> {"none", "create", "update", "refresh", "delete"}]
  /\ d \in [Actors -> [tracked : BOOLEAN, body : Documents, ver : Versions]]
  /\ tries \in [Actors -> 1..MaxTries]

HistoryTypes ==
  /\ seen \in [Actors -> SUBSET Versions]
  /\ wrote \in [Actors -> 0..2]
  /\ last \in [by : Actors \cup {Other}, op : {"none", "create", "update", "delete"},
               over : Versions]

(* Every variable has its type; the Retrier stays within its attempts.       *)
TypeOK == ClusterTypes /\ ActorTypes /\ HistoryTypes

Init ==
  /\ kind \in {"ism", "sm"}
  /\ policy = Absent /\ seq = 0 /\ term = 1 /\ late = {}
  /\ config \in [Actors -> Bodies]
  /\ state = [a \in Actors |-> NoEntry]
  /\ pc = [a \in Actors |-> "idle"] /\ op = [a \in Actors |-> "none"]
  /\ d = [a \in Actors |-> NoData] /\ tries = [a \in Actors |-> 1]
  /\ seen = [a \in Actors |-> {}] /\ wrote = [a \in Actors |-> 0]
  /\ last = [by |-> Other, op |-> "none", over |-> NoVersion]

-----------------------------------------------------------------------------
(* What the plugin does with a request *)

(* Mutant of Conditional: the first write to the index has _seq_no 0. *)
ConditionalFromOne(v) == v.seq > 0 /\ v.term > 0

(* if_seq_no and if_primary_term are sent once a version is known. *)
Conditional(v) == v.seq >= 0 /\ v.term > 0

(* Create of an SM policy is a POST, every other write is a PUT. *)
IsPost(r) == r.op = "create" /\ kind = "sm"

(* A condition must hold; a POST makes a new policy; what a PUT without a    *)
(* condition does to a policy that exists is left to the plugin.             *)
Accepts(r) ==
  IF r.op = "delete" THEN Exists
  ELSE IF Conditional(r.ver) THEN policy.ver = r.ver
  ELSE ~Exists \/ ~IsPost(r)

Conflicts(r) ==
  /\ r.op # "delete"
  /\ IF Conditional(r.ver) THEN policy.ver # r.ver ELSE Exists

Store(doc, by, o) ==
  /\ seq < MaxSeq
  /\ policy' = IF doc = NoBody THEN Absent
               ELSE [body |-> doc, ver |-> [seq |-> seq, term |-> term]]
  /\ seq' = seq + 1
  /\ last' = [by |-> by, op |-> o, over |-> policy.ver]

Counts(r, a) ==
  r.from = a /\ r.op = "update" /\ op[a] = "update" /\ r.ver = d[a].ver

Execute(r) ==
  /\ Accepts(r)
  /\ Store(r.body, r.from, r.op)
  /\ wrote' = [a \in Actors |-> IF Counts(r, a) /\ wrote[a] < 2 THEN wrote[a] + 1
                                                                 ELSE wrote[a]]

LateArrives ==
  /\ \E r \in late :
       /\ late' = late \ {r}
       /\ \/ Execute(r)
          \/ ~Accepts(r) /\ UNCHANGED <<policy, seq, last, wrote>>
  /\ UNCHANGED <<kind, term, core, handler, seen>>

WrittenElsewhere ==
  /\ \E b \in Bodies : Store(b, Other, "none")
  /\ UNCHANGED <<kind, term, late, core, handler, seen, wrote>>

RemovedElsewhere ==
  /\ Exists
  /\ Store(NoBody, Other, "none")
  /\ UNCHANGED <<kind, term, late, core, handler, seen, wrote>>

PrimaryMoves ==
  /\ term < MaxTerm
  /\ term' = term + 1
  /\ UNCHANGED <<kind, policy, seq, late, core, handler, history>>

-----------------------------------------------------------------------------
(* Terraform core *)

Start(a, o, p, data) ==
  /\ pc[a] = "idle"
  /\ pc' = [pc EXCEPT ![a] = p]
  /\ op' = [op EXCEPT ![a] = o]
  /\ d' = [d EXCEPT ![a] = data]
  /\ wrote' = [wrote EXCEPT ![a] = 0]
  /\ UNCHANGED <<cluster, core, tries, seen, last>>

Known(a) == [tracked |-> TRUE, body |-> state[a].body, ver |-> state[a].ver]

StartCreate(a) ==
  ~state[a].tracked /\ Start(a, "create", "write", [NoData EXCEPT !.body = config[a]])

StartRefresh(a) == state[a].tracked /\ Start(a, "refresh", "read", Known(a))

StartUpdate(a) ==
  /\ state[a].tracked /\ ~state[a].tainted
  /\ config[a] # state[a].body
  /\ Start(a, "update", "write", [Known(a) EXCEPT !.body = config[a]])

StartDelete(a) == state[a].tracked /\ Start(a, "delete", "delete", Known(a))

EditConfig(a) ==
  /\ pc[a] = "idle"
  /\ \E b \in Bodies : config' = [config EXCEPT ![a] = b]
  /\ UNCHANGED <<cluster, state, handler, history>>

Return(a, entry) ==
  /\ pc' = [pc EXCEPT ![a] = "idle"]
  /\ op' = [op EXCEPT ![a] = "none"]
  /\ d' = [d EXCEPT ![a] = NoData]
  /\ tries' = [tries EXCEPT ![a] = 1]
  /\ state' = [state EXCEPT ![a] = entry]

(* An error: core keeps what d holds once it has an ID, with the planned     *)
(* body and the version of the last read, tainted if Create returned it.     *)
Fail(a) ==
  Return(a, IF d[a].tracked
            THEN [tracked |-> TRUE, tainted |-> state[a].tainted \/ op[a] = "create",
                  body |-> d[a].body, ver |-> d[a].ver]
            ELSE NoEntry)

Crash(a) ==
  /\ pc[a] # "idle"
  /\ Return(a, state[a])
  /\ UNCHANGED <<cluster, config, history>>

-----------------------------------------------------------------------------
(* The handlers: one attempt of a request at a time *)

Request(a) ==
  [op |-> op[a], from |-> a,
   body |-> IF op[a] = "delete" THEN NoBody ELSE d[a].body,
   ver |-> IF op[a] = "delete" THEN NoVersion ELSE d[a].ver]

Writing(a) == pc[a] \in {"write", "delete"}

(* Mutants of Retry: the backoff starts anew; one attempt too many is made. *)
RetryForever(a) ==
  /\ tries' = [tries EXCEPT ![a] = (@ % MaxTries) + 1]
  /\ UNCHANGED <<pc, op, d, state>>

RetryOnceMore(a) ==
  \/ /\ tries[a] <= MaxTries
     /\ tries' = [tries EXCEPT ![a] = @ + 1]
     /\ UNCHANGED <<pc, op, d, state>>
  \/ /\ tries[a] > MaxTries
     /\ Fail(a)

(* The Retrier of PerformRequest: again, or the error of the last attempt. *)
Retry(a) ==
  \/ /\ tries[a] < MaxTries
     /\ tries' = [tries EXCEPT ![a] = @ + 1]
     /\ UNCHANGED <<pc, op, d, state>>
  \/ /\ tries[a] = MaxTries
     /\ Fail(a)

(* The write is done and answered: d.SetId, and on to Read. *)
Written(a) ==
  /\ pc[a] = "write"
  /\ Execute(Request(a))
  /\ pc' = [pc EXCEPT ![a] = "read"]
  /\ d' = [d EXCEPT ![a].tracked = TRUE]
  /\ tries' = [tries EXCEPT ![a] = 1]
  /\ UNCHANGED <<kind, term, late, core, op, seen>>

Deleted(a) ==
  /\ pc[a] = "delete"
  /\ Execute(Request(a))
  /\ Return(a, NoEntry)
  /\ UNCHANGED <<kind, term, late, config, seen>>

(* The request is executed but its answer is lost. *)
Unanswered(a) ==
  /\ Writing(a)
  /\ Execute(Request(a))
  /\ Retry(a)
  /\ UNCHANGED <<kind, term, late, config, seen>>

Refused(a) ==
  /\ Writing(a)
  /\ Conflicts(Request(a))
  /\ Retry(a)
  /\ UNCHANGED <<cluster, config, history>>

(* A transport error; the request is lost, or still on its way. *)
Undelivered(a) ==
  /\ Writing(a)
  /\ \/ UNCHANGED late
     \/ Cardinality(late) < MaxLate /\ late' = late \cup {Request(a)}
  /\ Retry(a)
  /\ UNCHANGED <<kind, policy, seq, term, config, history>>

(* Any other status, or no connection for the GET, which is not repeated. *)
RequestFails(a) ==
  /\ pc[a] # "idle"
  /\ Fail(a)
  /\ UNCHANGED <<cluster, config, history>>

(* GET and DELETE answer 404. The error reaches the handler wrapped, so that *)
(* elastic7.IsNotFound does not recognize it: an error like any other.       *)
NotFound(a) ==
  /\ pc[a] \in {"read", "delete"}
  /\ ~Exists
  /\ Fail(a)
  /\ UNCHANGED <<cluster, config, history>>

(* Mutants of Read: it clears the entry; it does not record the version. *)
ReadForgets(a) ==
  /\ pc[a] = "read"
  /\ Return(a, NoEntry)
  /\ UNCHANGED <<cluster, config, history>>

ReadWithoutVersion(a) ==
  /\ pc[a] = "read"
  /\ Exists
  /\ Return(a, [tracked |-> TRUE, tainted |-> state[a].tainted,
                body |-> policy.body, ver |-> d[a].ver])
  /\ seen' = [seen EXCEPT ![a] = @ \cup {d[a].ver}]
  /\ UNCHANGED <<cluster, config, wrote, last>>

(* GET: the document and its version come from one answer. *)
Read(a) ==
  /\ pc[a] = "read"
  /\ Exists
  /\ Return(a, [tracked |-> TRUE, tainted |-> state[a].tainted,
                body |-> policy.body, ver |-> policy.ver])
  /\ seen' = [seen EXCEPT ![a] = @ \cup {policy.ver}]
  /\ UNCHANGED <<cluster, config, wrote, last>>

-----------------------------------------------------------------------------
Handler(a) ==
  \/ Written(a) \/ Deleted(a) \/ Unanswered(a) \/ Refused(a) \/ Undelivered(a)
  \/ RequestFails(a) \/ NotFound(a) \/ Read(a)

Core(a) ==
  \/ StartCreate(a) \/ StartRefresh(a) \/ StartUpdate(a) \/ StartDelete(a)
  \/ EditConfig(a) \/ Crash(a)

Next ==
  \/ \E a \in Actors : Handler(a) \/ Core(a)
  \/ LateArrives \/ WrittenElsewhere \/ RemovedElsewhere \/ PrimaryMoves

Spec == Init /\ [][Next]_vars

(* A handler that was called runs: nothing else is assumed to happen. *)
FairSpec == Spec /\ \A a \in Actors : WF_vars(Handler(a))

-----------------------------------------------------------------------------
(* Properties *)

(* No update overwrites a change its state has not seen: the version it      *)
(* replaces is one that a read recorded there, whatever the other states,    *)
(* other clients, repeated and late requests did in between. Create of an SM *)
(* policy replaces nothing at all.                                           *)
NoLostUpdate ==
  /\ last.op = "update" => last.over \in seen[last.by]
  /\ last.op = "create" /\ kind = "sm" => last.over = NoVersion

(* However often the Retrier repeats it, an update is applied at most once,  *)
(* and exactly once when the handler goes on to read the policy back.        *)
UpdateAppliedOnce ==
  \A a \in Actors :
    op[a] = "update" => wrote[a] <= 1 /\ (pc[a] = "read" => wrote[a] = 1)

(* An entry leaves a state file only in the step that deletes its policy.    *)
ForgetStep ==
  \A a \in Actors : state[a].tracked /\ ~state'[a].tracked => Exists /\ policy' = Absent

ForgetsOnlyDeleted == [][ForgetStep]_vars

(* The policy keeps the promises of SharedDocument: an update replaces only   *)
(* what a read put into its state, and once for each read, however often its *)
(* request is repeated or how late it arrives; a state names the policy from *)
(* its own Create on, until the step in which its own Delete removes it.     *)
Current == {a \in Actors : policy.ver \in seen[a]}
Making  == {a \in Actors : op[a] = "create" /\ d[a].tracked}
Tracked == {a \in Actors : state[a].tracked}

Document == INSTANCE SharedDocument
  WITH exclusive <- (kind = "sm"), doc <- policy.body, writer <- <<last.by, last.op>>,
       current <- Current, making <- Making, tracked <- Tracked

ImplementsSharedDocument == Document!Spec

(* Every handler returns: the attempts of the Retrier run out.               *)
HandlersReturn == \A a \in Actors : pc[a] # "idle" ~> pc[a] = "idle"

(* A read that finds no policy removes the entry from the state, as the      *)
(* warning logged in Read says.                                              *)
MissingStep ==
  \A a \in Actors : NotFound(a) /\ pc[a] = "read" => ~state'[a].tracked

ReadRemovesMissing == [][MissingStep]_vars
=============================================================================
