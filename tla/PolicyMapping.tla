---------------------------- MODULE PolicyMapping ----------------------------
(***************************************************************************)
(* opensearch_ism_policy_mapping. After one request that adds a policy to  *)
(* indices, or changes it, the handler asks which of them carry it until   *)
(* one does, for five minutes at most: the plugin queues a change and      *)
(* carries it out when the state of the index is at its end.               *)
(*                                                                         *)
(* One entry of one state file; the attribute "indexes", a name or a       *)
(* pattern, is the set of the indices it stands for.                       *)
(***************************************************************************)
CONSTANTS Targets,    \* names of indices
          Policies,   \* policy_id
          NoPolicy,   \* the index is not managed
          NoTarget    \* there is no index of that name

ASSUME PoliciesAssumption == NoPolicy \notin Policies
ASSUME NoTargetAssumption == NoTarget \notin Policies \cup {NoPolicy}

VARIABLES
  policyOf,    \* the policy of each index
  queued,      \* the change of policy that the plugin has accepted
  mapping,     \* the entry of the state file
  mpc, mop, m, \* the handler under way
  bare,        \* no index had the policy at a moment when Read was to look
  stirred      \* a policy changed after Read had looked

mappingHandler == <<mpc, mop, m>>
mappingHistory == <<bare, stirred>>
mappingVars == <<policyOf, queued, mapping, mappingHandler, mappingHistory>>

Patterns == SUBSET Targets \ {{}}

(* An ID is the attribute indexes; {} is d.Id() = "".                        *)
MappingData == [id : SUBSET Targets, indexes : SUBSET Targets,
                policy : Policies \cup {NoPolicy}, managed : SUBSET Targets,
                tainted : BOOLEAN]
NoMapping   == [id |-> {}, indexes |-> {}, policy |-> NoPolicy, managed |-> {},
                tainted |-> FALSE]

Mapped  == mapping.id # {}
Present == {n \in Targets : policyOf[n] # NoTarget}
Managed == {n \in Targets : policyOf[n] \in Policies}

(* Every variable has its type.                                              *)
MappingTypeOK ==
  /\ policyOf \in [Targets -> Policies \cup {NoPolicy, NoTarget}]
  /\ queued \in [Targets -> Policies \cup {NoPolicy}]
  /\ mapping \in MappingData
  /\ mpc \in {"idle", "post", "count", "read", "done"}
  /\ mop \in {"none", "create", "refresh", "update", "delete"}
  /\ m \in MappingData
  /\ bare \in BOOLEAN /\ stirred \in BOOLEAN

MappingInit ==
  /\ policyOf \in [Targets -> {NoPolicy, NoTarget}]
  /\ queued = [n \in Targets |-> NoPolicy]
  /\ mapping = NoMapping
  /\ mpc = "idle" /\ mop = "none" /\ m = NoMapping
  /\ bare = FALSE /\ stirred = FALSE

-----------------------------------------------------------------------------
(* Indices that carry a policy *)

(* Mutant of Carriers: any policy will do.                                   *)
CarriersOfAny(pattern, policy, of) == {n \in pattern : of[n] \in Policies}

(* resourceOpensearchOpendistroPolicyIndices.                                *)
Carriers(pattern, policy, of) == {n \in pattern : of[n] = policy}

(* What the history records when the policies change.                        *)
Noticed ==
  /\ bare' = (bare \/ (mpc = "read" /\ Carriers(m.indexes, m.policy, policyOf') = {}))
  /\ stirred' = (stirred \/ (mpc = "done" /\ policyOf' # policyOf))

-----------------------------------------------------------------------------
(* Terraform core *)

MappingStarts(o, p, data) ==
  /\ mpc = "idle"
  /\ mop' = o /\ mpc' = p /\ m' = data
  /\ bare' = (p = "read" /\ Carriers(data.indexes, data.policy, policyOf) = {})
  /\ stirred' = FALSE
  /\ UNCHANGED <<policyOf, queued, mapping>>

StartMappingCreate ==
  /\ ~Mapped
  /\ \E indexes \in Patterns, policy \in Policies :
       MappingStarts("create", "post",
                     [NoMapping EXCEPT !.indexes = indexes, !.policy = policy])

StartMappingRefresh == Mapped /\ MappingStarts("refresh", "read", mapping)

(* Any attribute may change in place, also indexes.                          *)
StartMappingUpdate ==
  /\ Mapped /\ ~mapping.tainted
  /\ \E indexes \in Patterns, policy \in Policies :
       MappingStarts("update", "post",
                     [mapping EXCEPT !.indexes = indexes, !.policy = policy])

StartMappingDelete == Mapped /\ MappingStarts("delete", "post", mapping)

MappingIdle ==
  /\ mpc' = "idle" /\ mop' = "none" /\ m' = NoMapping
  /\ bare' = FALSE /\ stirred' = FALSE

MappingReturn ==
  /\ mpc = "done"
  /\ mapping' = IF m.id = {} THEN NoMapping ELSE m
  /\ MappingIdle
  /\ UNCHANGED <<policyOf, queued>>

(* An error: core records what d holds then.                                 *)
MappingFailed(data) ==
  /\ mapping' = IF mop \in {"create", "update"}
                THEN IF data.id = {} THEN NoMapping
                     ELSE [data EXCEPT !.tainted = (mop = "create")]
                ELSE mapping
  /\ MappingIdle

MappingCrash ==
  /\ mpc # "idle"
  /\ MappingIdle
  /\ UNCHANGED <<policyOf, queued, mapping>>

-----------------------------------------------------------------------------
(* The plugin and other clients *)

(* The queued change of n is carried out.                                    *)
PolicyChanges(n) ==
  /\ queued[n] # NoPolicy
  /\ policyOf' = [policyOf EXCEPT ![n] = queued[n]]
  /\ queued' = [queued EXCEPT ![n] = NoPolicy]
  /\ Noticed
  /\ UNCHANGED <<mapping, mappingHandler>>

(* Another client makes or removes n, or changes its policy.                 *)
IndexElsewhere(n) ==
  /\ \E policy \in Policies \cup {NoPolicy, NoTarget} :
       policy # policyOf[n] /\ policyOf' = [policyOf EXCEPT ![n] = policy]
  /\ queued' = [queued EXCEPT ![n] = NoPolicy]
  /\ Noticed
  /\ UNCHANGED <<mapping, mappingHandler>>

(* POST _plugins/_ism/<action>/<indexes>. An index may refuse (all but "ok"  *)
(* do): the answer lists it, and the handler looks no further.               *)
Given(ok) ==
  /\ ok \subseteq m.indexes \ Managed /\ ok \subseteq Present
  /\ policyOf' = [n \in Targets |-> IF n \in ok THEN m.policy ELSE policyOf[n]]
  /\ UNCHANGED queued

Queued(ok) ==
  /\ ok \subseteq m.indexes \cap Managed
  /\ queued' = [n \in Targets |-> IF n \in ok THEN m.policy ELSE queued[n]]
  /\ UNCHANGED policyOf

Taken(ok) ==
  /\ ok \subseteq m.indexes \cap Managed
  /\ policyOf' = [n \in Targets |-> IF n \in ok THEN NoPolicy ELSE policyOf[n]]
  /\ queued' = [n \in Targets |-> IF n \in ok THEN NoPolicy ELSE queued[n]]

Executed(ok) ==
  IF mop = "create" THEN Given(ok) ELSE IF mop = "update" THEN Queued(ok) ELSE Taken(ok)

-----------------------------------------------------------------------------
(* The handlers *)

(* resourceOpensearchPostOpendistroPolicyMapping.                            *)
Posted ==
  /\ mpc = "post"
  /\ \E ok \in SUBSET Targets : Executed(ok)
  /\ mpc' = (IF mop = "delete" THEN "done" ELSE "count")
  /\ m' = (IF mop = "delete" THEN NoMapping ELSE m)
  /\ UNCHANGED <<mapping, mop, mappingHistory>>

(* An error, whether or not the request was executed; a 404 too, which       *)
(* Update would let pass were it not wrapped.                                *)
PostFails ==
  /\ mpc = "post"
  /\ (\E ok \in SUBSET Targets : Executed(ok)) \/ UNCHANGED <<policyOf, queued>>
  /\ MappingFailed(m)

(* The retry function, its first GET. While no index has the policy it is    *)
(* called again, and nothing changes.                                        *)
Counted ==
  /\ mpc = "count"
  /\ Carriers(m.indexes, m.policy, policyOf) # {}
  /\ mpc' = "read"
  /\ UNCHANGED <<policyOf, queued, mapping, mop, m, mappingHistory>>

(* Mutant of ReadInto: an index that is not there is enough to forget.       *)
ReadIntoAll(data) ==
  LET found == Carriers(data.indexes, data.policy, policyOf) IN
    IF found # data.indexes THEN [data EXCEPT !.id = {}]
    ELSE [data EXCEPT !.id = data.indexes, !.managed = found]

(* resourceOpensearchOpenDistroISMPolicyMappingRead: its effect on d.        *)
ReadInto(data) ==
  LET found == Carriers(data.indexes, data.policy, policyOf) IN
    IF found = {} THEN [data EXCEPT !.id = {}]
    ELSE [data EXCEPT !.id = data.indexes, !.managed = found]

MappingRead ==
  /\ mpc = "read"
  /\ m' = ReadInto(m)
  /\ mpc' = "done"
  /\ UNCHANGED <<policyOf, queued, mapping, mop, mappingHistory>>

(* Any error of the first GET or the second, a missing index among them.     *)
MappingReadFails ==
  /\ mpc \in {"count", "read"}
  /\ MappingFailed(m)
  /\ UNCHANGED <<policyOf, queued>>

(* Mutant of RetryExpires: the retry has no deadline.                        *)
RetryNeverExpires == FALSE /\ UNCHANGED mappingVars

(* RetryContext gives up while the retry function may be in its second GET,  *)
(* in a goroutine of its own. That one goes on, and what it then writes to d *)
(* core may or may not see.                                                  *)
RetryExpires ==
  /\ mpc \in {"count", "read"} /\ mop \in {"create", "update"}
  /\ \/ MappingFailed(m)
     \/ mpc = "read" /\ MappingFailed(ReadInto(m))
     \/ mpc = "read" /\ MappingFailed([m EXCEPT !.id = ReadInto(m).id])
  /\ UNCHANGED <<policyOf, queued>>

-----------------------------------------------------------------------------

MappingHandler ==
  \/ Posted \/ PostFails
  \/ Counted \/ MappingRead \/ MappingReadFails \/ RetryExpires
  \/ MappingReturn

MappingCore ==
  \/ StartMappingCreate \/ StartMappingRefresh \/ StartMappingUpdate \/ StartMappingDelete
  \/ MappingCrash

MappingElsewhere == \E n \in Targets : PolicyChanges(n) \/ IndexElsewhere(n)

MappingNext == MappingHandler \/ MappingCore \/ MappingElsewhere

MappingSpec == MappingInit /\ [][MappingNext]_mappingVars

(* Requests end, and so does RetryContext; that an index ever gets its       *)
(* policy is not assumed.                                                    *)
MappingFair ==
  /\ WF_mappingVars(Posted \/ PostFails)
  /\ WF_mappingVars(RetryExpires)
  /\ WF_mappingVars(mop = "refresh" /\ (MappingRead \/ MappingReadFails))
  /\ WF_mappingVars(MappingReturn)

-----------------------------------------------------------------------------
(* Properties *)

(* The managed_indexes that a handler without an error records are all of    *)
(* the indices of the pattern that carry the policy when Read looks, and     *)
(* there is one, although Read asks again after the look that ended the      *)
(* retry.                                                                    *)
ManagedIsSeen ==
  [][MappingReturn /\ m.id # {} /\ ~stirred
       => /\ mapping'.id = mapping'.indexes
          /\ mapping'.managed = {n \in mapping'.indexes : policyOf[n] = mapping'.policy}
          /\ mapping'.managed # {}]_mappingVars

(* An entry leaves the state file only with a destroy, or when no index of   *)
(* the pattern had the policy while Read was about to look: no error, no     *)
(* answer that comes too late and no index that lacks the policy is enough.  *)
(* A change of policy that is still queued does not count as having it.      *)
ForgetsOnlyBare ==
  [][Mapped /\ mapping'.id = {} => mop = "delete" \/ bare]_mappingVars

(* Every handler returns, also when no index ever gets the policy.           *)
MappingReturns == mpc # "idle" ~> mpc = "idle"
=============================================================================
