----------------------------- MODULE ProviderConf -----------------------------
(***************************************************************************)
(* The plugin process. Configuring it builds the client of the ML          *)
(* resources and a ProviderConf; every handler then builds a client of its *)
(* own from that ProviderConf, which they all read and write without a     *)
(* lock. The handlers here are those that create a dashboard object each,  *)
(* in the index of one tenant: they make the index when it is missing, and *)
(* a nil pointer when that fails ends the process with all its handlers.   *)
(*                                                                         *)
(* What becomes of the objects themselves is in CrudResource.              *)
(***************************************************************************)
EXTENDS Naturals

CONSTANTS Objects,  \* dashboard objects of the tenant
          Setups    \* configurations of the provider and its environment

(* Whether an attribute or a variable of the environment is set. The         *)
(* environment sets AWS_ROLE_ARN and AWS_WEB_IDENTITY_TOKEN_FILE together.   *)
Setup == [keys : BOOLEAN, assume : BOOLEAN, role : BOOLEAN, token : BOOLEAN,
          profile : BOOLEAN, envKeys : BOOLEAN, envWeb : BOOLEAN,
          sign : BOOLEAN, host : {"es", "serverless", "other"}, region : BOOLEAN,
          service : {"es", "aoss"}, version : BOOLEAN]

ASSUME SetupsAssumption == Setups \subseteq Setup

VARIABLES
  setup,        \* what the provider block and the environment say
  conf,         \* ProviderConf, the fields that change; version: it is known
  mlClient,     \* conf.osClient
  hpc, client,  \* the handler of each object, and its client
  written,      \* the handler has put the object and is to read it
  tenantIndex,  \* the index is there
  lostRaces     \* panics over an index that was there by then

confHandlers == <<hpc, client, written>>
confVars == <<setup, conf, mlClient, confHandlers, tenantIndex, lostRaces>>

(* Where a value comes from: the provider block or the environment.          *)
Origins == {"unset", "block", "env"}
Ambient == {"profile", "env keys", "default profile"}
Roles == {[kind |-> "web", role |-> r, token |-> t] : r \in Origins, t \in Origins}
Identity == [base : Roles \cup {[kind |-> k] : k \in Ambient \cup {"access key"}},
             assumed : BOOLEAN]
Signers  == [identity : Identity, service : {"es", "aoss"}]
Unsigned == [identity |-> "none"]
NoClient == [identity |-> "no client"]
NoConf   == [service |-> "es", version |-> FALSE, role |-> "unset", token |-> "unset"]

(* Every variable has its type.                                              *)
ConfTypeOK ==
  /\ setup \in Setups
  /\ conf \in [service : {"es", "aoss"}, version : BOOLEAN, role : Origins, token : Origins]
  /\ mlClient \in Signers \cup {Unsigned, NoClient}
  /\ hpc \in [Objects -> {"idle", "client", "build", "version", "ping",
                           "exists", "create", "put", "read"}]
  /\ client \in [Objects -> Signers \cup {Unsigned, NoClient}]
  /\ written \in [Objects -> BOOLEAN]
  /\ tenantIndex \in BOOLEAN
  /\ lostRaces \in 0..2

NewProcess ==
  /\ conf' = NoConf /\ mlClient' = NoClient
  /\ hpc' = [o \in Objects |-> "idle"]
  /\ client' = [o \in Objects |-> NoClient]
  /\ written' = [o \in Objects |-> FALSE]

ConfInit ==
  /\ setup \in Setups
  /\ conf = NoConf /\ mlClient = NoClient
  /\ hpc = [o \in Objects |-> "idle"]
  /\ client = [o \in Objects |-> NoClient]
  /\ written = [o \in Objects |-> FALSE]
  /\ tenantIndex = FALSE
  /\ lostRaces = 0

-----------------------------------------------------------------------------
(* Credentials *)

(* The credential chain of the AWS SDK, of a named profile or the default.   *)
Chain ==
  IF setup.profile THEN [kind |-> "profile"]
  ELSE IF setup.envKeys THEN [kind |-> "env keys"]
  ELSE IF setup.envWeb THEN [kind |-> "web", role |-> "env", token |-> "env"]
  ELSE [kind |-> "default profile"]

(* The role that a web identity assumes takes both.                          *)
Web(c) == IF c.role # "unset" /\ c.token # "unset"
          THEN [kind |-> "web", role |-> c.role, token |-> c.token]
          ELSE Chain

(* awsSession. With access keys no other provider is tried.                  *)
SessionIdentity(c) ==
  IF setup.keys THEN [base |-> [kind |-> "access key"], assumed |-> FALSE]
  ELSE [base |-> Web(c), assumed |-> setup.assume]

(* awsHttpClient.                                                            *)
AwsClient(c) == [identity |-> SessionIdentity(c), service |-> c.service]

(* Mutants of FromEnv: the profile is ignored; the environment wins.         *)
FromEnvAnyway(origin) == IF origin = "unset" /\ setup.envWeb THEN "env" ELSE origin
FromEnvAlways(origin) == IF setup.envWeb /\ ~setup.profile THEN "env" ELSE origin

(* resolveAWSWebIdentityEnv: of a field, and of both.                        *)
FromEnv(origin) ==
  IF origin = "unset" /\ setup.envWeb /\ ~setup.profile THEN "env" ELSE origin

Resolved(c) == [c EXCEPT !.role = FromEnv(@), !.token = FromEnv(@)]

Block == [service |-> setup.service, version |-> setup.version,
          role  |-> IF setup.role THEN "block" ELSE "unset",
          token |-> IF setup.token THEN "block" ELSE "unset"]

-----------------------------------------------------------------------------
(* Clients *)

(* The branches of createOSHttpClient and getClient, in their order.         *)
Serverless == setup.sign /\ \/ setup.host = "serverless"
                            \/ setup.host = "other" /\ setup.service = "aoss" /\ setup.region
Signing == setup.sign /\ (setup.host # "other" \/ setup.region)

(* providerConfigure. The client of the ML resources is built first, for the *)
(* service that the block names, whatever the host.                          *)
Configure ==
  /\ mlClient = NoClient
  /\ mlClient' = (IF Signing THEN AwsClient(Block) ELSE Unsigned)
  /\ conf' = Resolved(Block)
  /\ UNCHANGED <<setup, confHandlers, tenantIndex, lostRaces>>

(* Core calls the handler that creates o.                                    *)
StartObject(o) ==
  /\ mlClient # NoClient
  /\ hpc[o] = "idle"
  /\ hpc' = [hpc EXCEPT ![o] = "client"]
  /\ UNCHANGED <<setup, conf, mlClient, client, written, tenantIndex, lostRaces>>

Goes(o, p) ==
  /\ hpc' = [hpc EXCEPT ![o] = p]
  /\ UNCHANGED <<setup, mlClient>>

(* Mutants of SignedFor: the service stays, or is the name of the host.      *)
SignedAsGiven(c) == c
SignedAsHost(c)  == IF Serverless THEN [c EXCEPT !.service = setup.host] ELSE c

(* A serverless host is signed for "aoss".                                   *)
SignedFor(c) == IF Serverless THEN [c EXCEPT !.service = "aoss"] ELSE c

(* getClient, up to awsHttpClient.                                           *)
ChooseClient(o) ==
  /\ hpc[o] = "client"
  /\ conf' = SignedFor(conf)
  /\ Goes(o, "build")
  /\ UNCHANGED <<written, client, tenantIndex, lostRaces>>

(* awsHttpClient reads the service that some handler wrote last. Serverless  *)
(* hosts are not asked for their version.                                    *)
BuildClient(o) ==
  /\ hpc[o] = "build"
  /\ client' = [client EXCEPT ![o] = IF Signing THEN AwsClient(conf) ELSE Unsigned]
  /\ conf' = [conf EXCEPT !.version = @ \/ Serverless]
  /\ Goes(o, "version")
  /\ UNCHANGED <<written, tenantIndex, lostRaces>>

AfterClient(o) == IF written[o] THEN "read" ELSE "exists"

CheckVersion(o) ==
  /\ hpc[o] = "version"
  /\ Goes(o, IF conf.version THEN AfterClient(o) ELSE "ping")
  /\ UNCHANGED <<written, conf, client, tenantIndex, lostRaces>>

Ping(o) ==
  /\ hpc[o] = "ping"
  /\ conf' = [conf EXCEPT !.version = TRUE]
  /\ Goes(o, AfterClient(o))
  /\ UNCHANGED <<written, client, tenantIndex, lostRaces>>

(* The handler returns: done, or with the error of any call, of a creation   *)
(* of the index that was not acknowledged too.                               *)
ObjectReturns(o) ==
  /\ \/ hpc[o] \in {"build", "ping", "exists", "put", "read"} /\ UNCHANGED tenantIndex
     \/ hpc[o] = "create" /\ ~tenantIndex /\ tenantIndex' = TRUE
  /\ client' = [client EXCEPT ![o] = NoClient]
  /\ written' = [written EXCEPT ![o] = FALSE]
  /\ Goes(o, "idle")
  /\ UNCHANGED <<conf, lostRaces>>

-----------------------------------------------------------------------------
(* elastic7CreateIndexIfNotExists *)

IndexExists(o) ==
  /\ hpc[o] = "exists"
  /\ Goes(o, IF tenantIndex THEN "put" ELSE "create")
  /\ UNCHANGED <<written, conf, client, tenantIndex, lostRaces>>

CreateIndex(o) ==
  /\ hpc[o] = "create" /\ ~tenantIndex
  /\ tenantIndex' = TRUE
  /\ Goes(o, "put")
  /\ UNCHANGED <<written, conf, client, lostRaces>>

(* Mutant of Ended: only the handler is lost.                                *)
EndedAlone(o) ==
  /\ hpc' = [hpc EXCEPT ![o] = "idle"]
  /\ client' = [client EXCEPT ![o] = NoClient]
  /\ written' = [written EXCEPT ![o] = FALSE]
  /\ UNCHANGED <<conf, mlClient>>

(* The process ends, and with it all handlers.                               *)
Ended(o) == NewProcess

(* CreateIndex fails, createIndex is nil, and createIndex.Acknowledged       *)
(* panics: another handler or client has made the index, or the request is   *)
(* refused or its answer lost.                                               *)
Panic(o) ==
  /\ hpc[o] = "create"
  /\ Ended(o)
  /\ \/ tenantIndex /\ lostRaces' = (IF lostRaces < 2 THEN lostRaces + 1 ELSE 2)
        /\ UNCHANGED tenantIndex
     \/ ~tenantIndex /\ tenantIndex' \in BOOLEAN /\ UNCHANGED lostRaces
  /\ UNCHANGED setup

(* The PUT of the object, which makes a missing index. Read follows, and     *)
(* builds a client again.                                                    *)
PutObject(o) ==
  /\ hpc[o] = "put"
  /\ tenantIndex' = TRUE
  /\ written' = [written EXCEPT ![o] = TRUE]
  /\ Goes(o, "client")
  /\ UNCHANGED <<conf, client, lostRaces>>

-----------------------------------------------------------------------------

(* Terraform ends, or the process is killed.                                 *)
ProcessEnds ==
  /\ mlClient # NoClient
  /\ NewProcess
  /\ UNCHANGED <<setup, tenantIndex, lostRaces>>

(* Another client makes the index, or drops it.                              *)
IndexMadeElsewhere ==
  /\ ~tenantIndex /\ tenantIndex' = TRUE
  /\ UNCHANGED <<setup, conf, mlClient, confHandlers, lostRaces>>

IndexDroppedElsewhere ==
  /\ tenantIndex /\ tenantIndex' = FALSE
  /\ lostRaces' = 0
  /\ UNCHANGED <<setup, conf, mlClient, confHandlers>>

ConfHandler(o) ==
  \/ ChooseClient(o) \/ BuildClient(o) \/ CheckVersion(o) \/ Ping(o) \/ ObjectReturns(o)
  \/ IndexExists(o) \/ CreateIndex(o) \/ Panic(o) \/ PutObject(o)

ConfNext ==
  \/ Configure \/ ProcessEnds
  \/ \E o \in Objects : StartObject(o) \/ ConfHandler(o)
  \/ IndexMadeElsewhere \/ IndexDroppedElsewhere

ConfSpec == ConfInit /\ [][ConfNext]_confVars

-----------------------------------------------------------------------------
(* Properties *)

Signed(c) == c \notin {Unsigned, NoClient}

(* docs/index.md of the identity that the requests of a resource are signed  *)
(* with: access keys come first; the environment of EKS works with no        *)
(* configuration; web identity and assume role chain; a profile suppresses   *)
(* the environment; web identity in the block applies even with a profile.   *)
DocumentedIdentity ==
  \A o \in Objects : Signed(client[o]) =>
    LET i == client[o].identity IN
      /\ setup.keys <=> i.base.kind = "access key"
      /\ ~setup.keys =>
           /\ i.assumed = setup.assume
           /\ setup.profile /\ ~(setup.role /\ setup.token) => i.base.kind = "profile"
           /\ setup.role /\ setup.token =>
                i.base = [kind |-> "web", role |-> "block", token |-> "block"]
           /\ setup.envWeb /\ ~setup.profile => i.base.kind = "web"

(* The environment completes a web identity of which the block has a part or *)
(* nothing, where the SDK's own chain would not have come to the same.       *)
EnvironmentAdds ==
  /\ setup.envWeb /\ ~setup.profile /\ ~setup.keys
  /\ ~(setup.role /\ setup.token)
  /\ setup.envKeys \/ setup.role \/ setup.token

(* The ML resources and all others act with the same identity, however the   *)
(* handlers interleave, but for the setups in which the environment adds to  *)
(* the block, and in those never: the client of the ML resources was built   *)
(* before the environment was looked at.                                     *)
OneIdentity ==
  \A o \in Objects : Signed(client[o]) =>
    (client[o].identity = mlClient.identity <=> ~EnvironmentAdds)

(* Every handler's client of a serverless host signs for "aoss", whichever   *)
(* handlers run beside it. The client of the ML resources is not covered: it *)
(* signs for what aws_signature_service says.                                *)
SignsForServerless ==
  \A o \in Objects : Signed(client[o]) /\ Serverless => client[o].service = "aoss"

(* A race for the index is lost at most once, until it is dropped: the panic *)
(* ends all handlers that think it missing, so that the apply after it       *)
(* succeeds.                                                                 *)
RaceLostOnce == lostRaces <= 1
=============================================================================
