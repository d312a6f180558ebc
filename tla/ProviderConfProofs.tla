-------------------------- MODULE ProviderConfProofs --------------------------
(***************************************************************************)
(* Proofs about ProviderConf, for every set of objects and of setups.      *)
(*                                                                         *)
(* The properties speak of clients and of panics; the invariant says which *)
(* ProviderConf a client was built from (Built): what it was resolved to   *)
(* when the process was configured (Running), with the service that the    *)
(* handler itself or one beside it has written. After a lost race no       *)
(* handler thinks the index missing (Seen).                                *)
(***************************************************************************)
EXTENDS ProviderConf, TLAPS

ConfData == [service : {"es", "aoss"}, version : BOOLEAN, role : Origins, token : Origins]
Bases    == Roles \cup {[kind |-> k] : k \in Ambient \cup {"access key"}}

Resolution == Resolved(Block)
Acting     == SessionIdentity(Resolution)
MLActing   == IF Signing THEN AwsClient(Block) ELSE Unsigned

(* No handler runs before the process is configured; what was resolved then  *)
(* stays, and so does the client of the ML resources.                        *)
Running ==
  /\ mlClient = NoClient => \A o \in Objects : hpc[o] = "idle" /\ client[o] = NoClient
  /\ mlClient # NoClient =>
       /\ conf.role = Resolution.role /\ conf.token = Resolution.token
       /\ mlClient = MLActing

(* A client acts as the resolved configuration says, and signs for "aoss" on *)
(* a serverless host: so does the ProviderConf while it is built.            *)
Built ==
  /\ \A o \in Objects :
       \/ client[o] \in {NoClient, Unsigned}
       \/ /\ Signing /\ mlClient # NoClient
          /\ client[o].identity = Acting
          /\ Serverless => client[o].service = "aoss"
  /\ \A o \in Objects : hpc[o] = "build" /\ Serverless => conf.service = "aoss"

(* After a lost race the index is there, and no handler is about to make it. *)
Seen ==
  \/ lostRaces = 0
  \/ lostRaces = 1 /\ tenantIndex /\ (\A o \in Objects : hpc[o] # "create")

IInv == ConfTypeOK /\ Running /\ Built /\ Seen

-----------------------------------------------------------------------------
(* Configurations and credentials *)

(* The marks of no client and of an unsigned one are not signers. *)
LEMMA Marks ==
  /\ NoClient # Unsigned
  /\ \A c \in Signers : c # NoClient /\ c # Unsigned
<1>1. NoClient.identity = "no client" /\ Unsigned.identity = "none"
  BY DEF NoClient, Unsigned
<1>3. ASSUME NEW c \in Signers PROVE DOMAIN c = {"identity", "service"}
  BY <1>3 DEF Signers
<1>4. DOMAIN NoClient = {"identity"} /\ DOMAIN Unsigned = {"identity"}
  BY DEF NoClient, Unsigned
<1>6. {"identity"} # {"identity", "service"}
  OBVIOUS
<1>5. QED
  BY <1>1, <1>3, <1>4, <1>6

(* What the block says, and what it is resolved to, is a configuration. *)
LEMMA BlockTyped == ASSUME setup \in Setup PROVE Block \in ConfData /\ Resolution \in ConfData
<1>1. Block \in ConfData
  BY DEF Setup, Block, ConfData, Origins
<1>2. Resolution \in ConfData
  BY <1>1 DEF Resolution, Resolved, FromEnv, ConfData, Origins
<1>3. QED
  BY <1>1, <1>2

(* The chain of the SDK ends in one of its sources. *)
LEMMA ChainTyped == ASSUME setup \in Setup PROVE Chain \in Bases
<1>1. CASE setup.profile
  <2>1. Chain = [kind |-> "profile"]
    BY <1>1 DEF Chain, Setup
  <2>2. QED
    BY <2>1 DEF Bases, Ambient
<1>2. CASE ~setup.profile /\ setup.envKeys
  <2>1. Chain = [kind |-> "env keys"]
    BY <1>2 DEF Chain, Setup
  <2>2. QED
    BY <2>1 DEF Bases, Ambient
<1>3. CASE ~setup.profile /\ ~setup.envKeys /\ setup.envWeb
  <2>1. Chain = [kind |-> "web", role |-> "env", token |-> "env"]
    BY <1>3 DEF Chain, Setup
  <2>2. QED
    BY <2>1 DEF Bases, Roles, Origins
<1>4. CASE ~setup.profile /\ ~setup.envKeys /\ ~setup.envWeb
  <2>1. Chain = [kind |-> "default profile"]
    BY <1>4 DEF Chain, Setup
  <2>2. QED
    BY <2>1 DEF Bases, Ambient
<1>5. QED
  BY <1>1, <1>2, <1>3, <1>4 DEF Setup

(* Every configuration makes a client with an identity and a service. *)
LEMMA SessionTyped ==
  ASSUME setup \in Setup, NEW c \in ConfData
  PROVE  AwsClient(c) \in Signers
<1>1. Web(c) \in Bases
  <2>1. CASE c.role # "unset" /\ c.token # "unset"
    <3>1. [kind |-> "web", role |-> c.role, token |-> c.token] \in Roles
      BY DEF Roles, ConfData
    <3>2. QED
      BY <2>1, <3>1 DEF Web, Bases
  <2>2. CASE ~(c.role # "unset" /\ c.token # "unset")
    BY <2>2, ChainTyped DEF Web
  <2>3. QED
    BY <2>1, <2>2
<1>2. [kind |-> "access key"] \in Bases
  BY DEF Bases
<1>3. SessionIdentity(c) \in Identity
  <2>1. Identity = [base : Bases, assumed : BOOLEAN]
    BY DEF Identity, Bases
  <2>2. QED
    BY <1>1, <1>2, <2>1 DEF SessionIdentity, Setup
<1>4. QED
  BY <1>3 DEF AwsClient, Signers, ConfData

(* The session of a configuration depends on its role and its token only.    *)
LEMMA SessionOf ==
  ASSUME NEW c, NEW d, c.role = d.role, c.token = d.token
  PROVE  SessionIdentity(c) = SessionIdentity(d)
  BY DEF SessionIdentity, Web

(* The setup decides them all, and it stays.                                 *)
LEMMA SetupStays ==
  ASSUME setup' = setup
  PROVE  /\ Resolution' = Resolution /\ Acting' = Acting /\ MLActing' = MLActing
         /\ Signing' = Signing /\ Serverless' = Serverless
  BY DEF Resolution, Resolved, FromEnv, Block, Acting, MLActing, SessionIdentity, Web, Chain,
     Signing, Serverless, AwsClient

(* The initial states satisfy the invariant.                                 *)
LEMMA Initially == ConfInit => IInv
<1> SUFFICES ASSUME ConfInit PROVE IInv
  OBVIOUS
<1>1. NoConf \in ConfData
  BY DEF NoConf, ConfData, Origins
<1>2. ConfTypeOK
  <2>1. tenantIndex \in BOOLEAN
    BY Zenon DEF ConfInit
  <2>2. lostRaces \in 0..2
    BY DEF ConfInit
  <2>3. written \in [Objects -> BOOLEAN]
    BY Zenon DEF ConfInit
  <2>4. /\ setup \in Setups
        /\ conf = NoConf /\ mlClient = NoClient
        /\ hpc = [o \in Objects |-> "idle"] /\ client = [o \in Objects |-> NoClient]
    BY Zenon DEF ConfInit
  <2>5. QED
    BY <1>1, <2>1, <2>2, <2>3, <2>4 DEF ConfTypeOK, ConfData
<1>3. QED
  BY <1>2 DEF ConfInit, IInv, Running, Built, Seen

-----------------------------------------------------------------------------
(* The steps *)

(* Configure: the marks differ from what it builds. *)
LEMMA ConfigureStep ==
  ASSUME IInv, Configure
  PROVE  IInv'
<1>1. /\ setup' = setup /\ setup \in Setup
      /\ ConfTypeOK /\ Running /\ Built /\ Seen
  BY SetupsAssumption DEF IInv, ConfTypeOK, Configure, confVars, confHandlers
<1>2. ConfTypeOK'
  <2>1. Block \in ConfData /\ Resolution \in ConfData
    BY <1>1, BlockTyped
  <2>2. mlClient' \in Signers \cup {Unsigned}
    BY <1>1, <2>1, SessionTyped DEF Configure
  <2>3. conf' \in ConfData
    BY <2>1 DEF Configure, Resolution
  <2>4. QED
    BY <1>1, <2>2, <2>3 DEF ConfTypeOK, Configure, confHandlers, ConfData
<1>3. Running'
  <2>1. Block \in ConfData
    BY <1>1, BlockTyped
  <2>2. AwsClient(Block) # NoClient
    BY <1>1, <2>1, SessionTyped, Marks
  <2>3. mlClient' = MLActing /\ conf' = Resolution
    BY DEF Configure, MLActing, Resolution
  <2>4. mlClient' # NoClient
    BY <2>2, <2>3, Marks DEF MLActing
  <2>5. QED
    BY <1>1, <2>3, <2>4, SetupStays DEF Running, Configure, confHandlers
<1>4. Built'
  <2>1. \A o \in Objects : hpc[o] = "idle" /\ client[o] = NoClient
    BY <1>1 DEF Running, Configure
  <2>2. QED
    BY <1>1, <2>1 DEF Built, Configure, confHandlers
<1>5. Seen'
  BY <1>1 DEF ConfTypeOK, Seen, Configure, confHandlers
<1>6. QED
  BY <1>2, <1>3, <1>4, <1>5 DEF IInv

(* ProcessEnds: all is as before Configure. *)
LEMMA ProcessEndsStep ==
  ASSUME IInv, ProcessEnds
  PROVE  IInv'
<1>1. /\ setup' = setup /\ setup \in Setup
      /\ ConfTypeOK /\ Running /\ Built /\ Seen
  BY SetupsAssumption DEF IInv, ConfTypeOK, ProcessEnds, NewProcess, confVars, confHandlers
<1>2. ConfTypeOK'
  <2>1. NoConf \in ConfData
    BY DEF NoConf, ConfData, Origins
  <2>2. QED
    BY <1>1, <2>1 DEF ConfTypeOK, ProcessEnds, NewProcess, ConfData
<1>3. Running'
  BY <1>1, SetupStays DEF ConfTypeOK, Running, ProcessEnds, NewProcess, confHandlers
<1>4. Built'
  BY <1>1, SetupStays DEF ConfTypeOK, Built, ProcessEnds, NewProcess, confHandlers
<1>5. Seen'
  BY <1>1 DEF ConfTypeOK, Seen, ProcessEnds, NewProcess, confHandlers
<1>6. QED
  BY <1>2, <1>3, <1>4, <1>5 DEF IInv

(* StartObject: a handler starts once the process is configured. *)
LEMMA StartObjectStep ==
  ASSUME IInv, NEW o \in Objects, StartObject(o)
  PROVE  IInv'
<1>1. /\ setup' = setup /\ setup \in Setup
      /\ ConfTypeOK /\ Running /\ Built /\ Seen
  BY SetupsAssumption DEF IInv, ConfTypeOK, StartObject, confVars, confHandlers
<1>2. ConfTypeOK'
  BY <1>1 DEF ConfTypeOK, StartObject, confHandlers
<1>3. Running'
  BY <1>1, SetupStays DEF ConfTypeOK, Running, StartObject, confHandlers
<1>4. Built'
  BY <1>1, SetupStays DEF ConfTypeOK, Built, StartObject, confHandlers
<1>5. Seen'
  BY <1>1 DEF ConfTypeOK, Seen, StartObject, confHandlers
<1>6. QED
  BY <1>2, <1>3, <1>4, <1>5 DEF IInv

(* ChooseClient: the service is the one of the host. *)
LEMMA ChooseClientStep ==
  ASSUME IInv, NEW o \in Objects, ChooseClient(o)
  PROVE  IInv'
<1>1. /\ setup' = setup /\ setup \in Setup
      /\ ConfTypeOK /\ Running /\ Built /\ Seen
  BY SetupsAssumption DEF IInv, ConfTypeOK, ChooseClient, Goes, confVars, confHandlers
<1>2. ConfTypeOK'
  <2>1. conf' \in ConfData
    BY <1>1 DEF ConfTypeOK, ConfData, ChooseClient, SignedFor
  <2>2. QED
    BY <1>1, <2>1 DEF ConfTypeOK, ConfData, ChooseClient, Goes
<1>3. Running'
  <2>1. conf'.role = conf.role /\ conf'.token = conf.token
    BY <1>1 DEF ConfTypeOK, ChooseClient, SignedFor
  <2>2. mlClient # NoClient
    BY <1>1 DEF Running, ChooseClient
  <2>3. QED
    BY <1>1, <2>1, <2>2, SetupStays DEF Running, ChooseClient, Goes
<1>4. Built'
  <2>1. Serverless => conf'.service = "aoss"
    BY <1>1 DEF ConfTypeOK, ChooseClient, SignedFor
  <2>2. QED
    BY <1>1, <2>1, SetupStays DEF Built, ChooseClient, Goes
<1>5. Seen'
  BY <1>1 DEF ConfTypeOK, Seen, ChooseClient, Goes, confHandlers
<1>6. QED
  BY <1>2, <1>3, <1>4, <1>5 DEF IInv

(* BuildClient: the identity is the resolved one. *)
LEMMA BuildClientStep ==
  ASSUME IInv, NEW o \in Objects, BuildClient(o)
  PROVE  IInv'
<1>1. /\ setup' = setup /\ setup \in Setup
      /\ ConfTypeOK /\ Running /\ Built /\ Seen
  BY SetupsAssumption DEF IInv, ConfTypeOK, BuildClient, Goes, confVars, confHandlers
<1>2. ConfTypeOK'
  <2>1. conf \in ConfData
    BY <1>1 DEF ConfTypeOK, ConfData
  <2>2. conf' \in ConfData
    BY <2>1 DEF ConfData, BuildClient
  <2>3. AwsClient(conf) \in Signers
    BY <1>1, <2>1, SessionTyped
  <2>4. client' \in [Objects -> Signers \cup {Unsigned, NoClient}]
    BY <1>1, <2>3 DEF ConfTypeOK, BuildClient
  <2>5. QED
    BY <1>1, <2>2, <2>4 DEF ConfTypeOK, ConfData, BuildClient, Goes
<1>3. Running'
  <2>1. conf'.role = conf.role /\ conf'.token = conf.token
    BY <1>1 DEF ConfTypeOK, BuildClient
  <2>2. mlClient # NoClient
    BY <1>1 DEF Running, BuildClient
  <2>3. QED
    BY <1>1, <2>1, <2>2, SetupStays DEF Running, BuildClient, Goes
<1>4. Built'
  <2>1. mlClient # NoClient
    BY <1>1 DEF Running, BuildClient
  <2>2. AwsClient(conf).identity = Acting
    BY <1>1, <2>1, SessionOf DEF Running, AwsClient, Acting
  <2>3. AwsClient(conf).service = conf.service
    BY DEF AwsClient
  <2>4. Serverless => conf.service = "aoss"
    BY <1>1 DEF Built, BuildClient
  <2>5. conf'.service = conf.service
    BY <1>1 DEF ConfTypeOK, BuildClient
  <2>6. mlClient' = mlClient
    BY DEF BuildClient, Goes
  <2>7. ASSUME NEW p \in Objects
        PROVE  \/ client'[p] \in {NoClient, Unsigned}
               \/ /\ Signing /\ mlClient # NoClient
                  /\ client'[p].identity = Acting
                  /\ Serverless => client'[p].service = "aoss"
    <3>1. CASE p = o
      <4>1. client'[o] = IF Signing THEN AwsClient(conf) ELSE Unsigned
        BY <1>1 DEF ConfTypeOK, BuildClient
      <4>2. QED
        BY <2>1, <2>2, <2>3, <2>4, <3>1, <4>1
    <3>2. CASE p # o
      <4>1. client'[p] = client[p]
        BY <1>1, <3>2 DEF ConfTypeOK, BuildClient
      <4>2. QED
        BY <1>1, <4>1 DEF Built
    <3>3. QED
      BY <3>1, <3>2
  <2>8. ASSUME NEW p \in Objects, hpc'[p] = "build", Serverless
        PROVE  conf'.service = "aoss"
    BY <2>4, <2>5, <2>8
  <2>9. QED
    BY <1>1, <2>6, <2>7, <2>8, SetupStays DEF Built
<1>5. Seen'
  BY <1>1 DEF ConfTypeOK, Seen, BuildClient, Goes, confHandlers
<1>6. QED
  BY <1>2, <1>3, <1>4, <1>5 DEF IInv

(* CheckVersion. *)
LEMMA CheckVersionStep ==
  ASSUME IInv, NEW o \in Objects, CheckVersion(o)
  PROVE  IInv'
<1>1. /\ setup' = setup /\ setup \in Setup
      /\ ConfTypeOK /\ Running /\ Built /\ Seen
  BY SetupsAssumption DEF IInv, ConfTypeOK, CheckVersion, Goes, AfterClient, confVars, confHandlers
<1>2. ConfTypeOK'
  BY <1>1 DEF ConfTypeOK, CheckVersion, Goes, AfterClient, confHandlers
<1>3. Running'
  BY <1>1, SetupStays DEF ConfTypeOK, Running, CheckVersion, Goes, AfterClient, confHandlers
<1>4. Built'
  BY <1>1, SetupStays DEF ConfTypeOK, Built, CheckVersion, Goes, AfterClient, confHandlers
<1>5. Seen'
  BY <1>1 DEF ConfTypeOK, Seen, CheckVersion, Goes, AfterClient, confHandlers
<1>6. QED
  BY <1>2, <1>3, <1>4, <1>5 DEF IInv

(* Ping. *)
LEMMA PingStep ==
  ASSUME IInv, NEW o \in Objects, Ping(o)
  PROVE  IInv'
<1>1. /\ setup' = setup /\ setup \in Setup
      /\ ConfTypeOK /\ Running /\ Built /\ Seen
  BY SetupsAssumption DEF IInv, ConfTypeOK, Ping, Goes, AfterClient, confVars, confHandlers
<1>2. ConfTypeOK'
  BY <1>1 DEF ConfTypeOK, Ping, Goes, AfterClient, confHandlers
<1>3. Running'
  BY <1>1, SetupStays DEF ConfTypeOK, Running, Ping, Goes, AfterClient, confHandlers
<1>4. Built'
  BY <1>1, SetupStays DEF ConfTypeOK, Built, Ping, Goes, AfterClient, confHandlers
<1>5. Seen'
  BY <1>1 DEF ConfTypeOK, Seen, Ping, Goes, AfterClient, confHandlers
<1>6. QED
  BY <1>2, <1>3, <1>4, <1>5 DEF IInv

(* ObjectReturns. *)
LEMMA ObjectReturnsStep ==
  ASSUME IInv, NEW o \in Objects, ObjectReturns(o)
  PROVE  IInv'
<1>1. /\ setup' = setup /\ setup \in Setup
      /\ ConfTypeOK /\ Running /\ Built /\ Seen
  BY SetupsAssumption DEF IInv, ConfTypeOK, ObjectReturns, Goes, confVars, confHandlers
<1>2. ConfTypeOK'
  BY <1>1 DEF ConfTypeOK, ObjectReturns, Goes, confHandlers
<1>3. Running'
  BY <1>1, SetupStays DEF ConfTypeOK, Running, ObjectReturns, Goes, confHandlers
<1>4. Built'
  BY <1>1, SetupStays DEF ConfTypeOK, Built, ObjectReturns, Goes, confHandlers
<1>5. Seen'
  BY <1>1 DEF ConfTypeOK, Seen, ObjectReturns, Goes, confHandlers
<1>6. QED
  BY <1>2, <1>3, <1>4, <1>5 DEF IInv

(* IndexExists: a handler goes on to make the index only when it is missing. *)
LEMMA IndexExistsStep ==
  ASSUME IInv, NEW o \in Objects, IndexExists(o)
  PROVE  IInv'
<1>1. /\ setup' = setup /\ setup \in Setup
      /\ ConfTypeOK /\ Running /\ Built /\ Seen
  BY SetupsAssumption DEF IInv, ConfTypeOK, IndexExists, Goes, confVars, confHandlers
<1>2. ConfTypeOK'
  BY <1>1 DEF ConfTypeOK, IndexExists, Goes, confHandlers
<1>3. Running'
  BY <1>1, SetupStays DEF ConfTypeOK, Running, IndexExists, Goes, confHandlers
<1>4. Built'
  BY <1>1, SetupStays DEF ConfTypeOK, Built, IndexExists, Goes, confHandlers
<1>5. Seen'
  BY <1>1 DEF ConfTypeOK, Seen, IndexExists, Goes, confHandlers
<1>6. QED
  BY <1>2, <1>3, <1>4, <1>5 DEF IInv

(* CreateIndex. *)
LEMMA CreateIndexStep ==
  ASSUME IInv, NEW o \in Objects, CreateIndex(o)
  PROVE  IInv'
<1>1. /\ setup' = setup /\ setup \in Setup
      /\ ConfTypeOK /\ Running /\ Built /\ Seen
  BY SetupsAssumption DEF IInv, ConfTypeOK, CreateIndex, Goes, confVars, confHandlers
<1>2. ConfTypeOK'
  BY <1>1 DEF ConfTypeOK, CreateIndex, Goes, confHandlers
<1>3. Running'
  BY <1>1, SetupStays DEF ConfTypeOK, Running, CreateIndex, Goes, confHandlers
<1>4. Built'
  BY <1>1, SetupStays DEF ConfTypeOK, Built, CreateIndex, Goes, confHandlers
<1>5. Seen'
  BY <1>1 DEF ConfTypeOK, Seen, CreateIndex, Goes, confHandlers
<1>6. QED
  BY <1>2, <1>3, <1>4, <1>5 DEF IInv

(* Panic: a race is lost only to a handler that saw no index, and that is none *)
(* after a lost race. *)
LEMMA PanicStep ==
  ASSUME IInv, NEW o \in Objects, Panic(o)
  PROVE  IInv'
<1>1. /\ setup' = setup /\ setup \in Setup
      /\ ConfTypeOK /\ Running /\ Built /\ Seen
  BY SetupsAssumption DEF IInv, ConfTypeOK, Panic, Ended, NewProcess, confVars, confHandlers
<1>2. ConfTypeOK'
  <2>1. NoConf \in ConfData
    BY DEF NoConf, ConfData, Origins
  <2>2. lostRaces' \in 0..2
    BY <1>1 DEF ConfTypeOK, Panic
  <2>3. QED
    BY <1>1, <2>1, <2>2 DEF ConfTypeOK, Panic, Ended, NewProcess, ConfData
<1>3. Running'
  BY <1>1, SetupStays DEF ConfTypeOK, Running, Panic, Ended, NewProcess, confHandlers
<1>4. Built'
  BY <1>1, SetupStays DEF ConfTypeOK, Built, Panic, Ended, NewProcess, confHandlers
<1>5. Seen'
  BY <1>1 DEF ConfTypeOK, Seen, Panic, Ended, NewProcess, confHandlers
<1>6. QED
  BY <1>2, <1>3, <1>4, <1>5 DEF IInv

(* PutObject. *)
LEMMA PutObjectStep ==
  ASSUME IInv, NEW o \in Objects, PutObject(o)
  PROVE  IInv'
<1>1. /\ setup' = setup /\ setup \in Setup
      /\ ConfTypeOK /\ Running /\ Built /\ Seen
  BY SetupsAssumption DEF IInv, ConfTypeOK, PutObject, Goes, confVars, confHandlers
<1>2. ConfTypeOK'
  BY <1>1 DEF ConfTypeOK, PutObject, Goes, confHandlers
<1>3. Running'
  BY <1>1, SetupStays DEF ConfTypeOK, Running, PutObject, Goes, confHandlers
<1>4. Built'
  BY <1>1, SetupStays DEF ConfTypeOK, Built, PutObject, Goes, confHandlers
<1>5. Seen'
  BY <1>1 DEF ConfTypeOK, Seen, PutObject, Goes, confHandlers
<1>6. QED
  BY <1>2, <1>3, <1>4, <1>5 DEF IInv

(* IndexMadeElsewhere. *)
LEMMA IndexMadeElsewhereStep ==
  ASSUME IInv, IndexMadeElsewhere
  PROVE  IInv'
<1>1. /\ setup' = setup /\ setup \in Setup
      /\ ConfTypeOK /\ Running /\ Built /\ Seen
  BY SetupsAssumption DEF IInv, ConfTypeOK, IndexMadeElsewhere, confVars, confHandlers
<1>2. ConfTypeOK'
  BY <1>1 DEF ConfTypeOK, IndexMadeElsewhere, confHandlers
<1>3. Running'
  BY <1>1, SetupStays DEF ConfTypeOK, Running, IndexMadeElsewhere, confHandlers
<1>4. Built'
  BY <1>1, SetupStays DEF ConfTypeOK, Built, IndexMadeElsewhere, confHandlers
<1>5. Seen'
  BY <1>1 DEF ConfTypeOK, Seen, IndexMadeElsewhere, confHandlers
<1>6. QED
  BY <1>2, <1>3, <1>4, <1>5 DEF IInv

(* IndexDroppedElsewhere: a new count. *)
LEMMA IndexDroppedElsewhereStep ==
  ASSUME IInv, IndexDroppedElsewhere
  PROVE  IInv'
<1>1. /\ setup' = setup /\ setup \in Setup
      /\ ConfTypeOK /\ Running /\ Built /\ Seen
  BY SetupsAssumption DEF IInv, ConfTypeOK, IndexDroppedElsewhere, confVars, confHandlers
<1>2. ConfTypeOK'
  <2>1. tenantIndex' \in BOOLEAN
    BY Zenon DEF IndexDroppedElsewhere
  <2>2. lostRaces' \in 0..2
    BY DEF IndexDroppedElsewhere
  <2>3. UNCHANGED <<setup, conf, mlClient, hpc, client, written>>
    BY DEF IndexDroppedElsewhere, confHandlers
  <2>4. QED
    BY <1>1, <2>1, <2>2, <2>3 DEF ConfTypeOK
<1>3. Running'
  BY <1>1, SetupStays DEF ConfTypeOK, Running, IndexDroppedElsewhere, confHandlers
<1>4. Built'
  BY <1>1, SetupStays DEF ConfTypeOK, Built, IndexDroppedElsewhere, confHandlers
<1>5. Seen'
  BY <1>1 DEF ConfTypeOK, Seen, IndexDroppedElsewhere, confHandlers
<1>6. QED
  BY <1>2, <1>3, <1>4, <1>5 DEF IInv

(* Every step keeps the invariant.                                           *)
LEMMA NextStep == ASSUME IInv, [ConfNext]_confVars PROVE IInv'
<1>1. CASE Configure
  BY <1>1, ConfigureStep
<1>2. CASE ProcessEnds
  BY <1>2, ProcessEndsStep
<1>3. ASSUME NEW o \in Objects, StartObject(o) \/ ConfHandler(o) PROVE IInv'
  BY <1>3, StartObjectStep, ChooseClientStep, BuildClientStep, CheckVersionStep, PingStep,
     ObjectReturnsStep, IndexExistsStep, CreateIndexStep, PanicStep, PutObjectStep
     DEF ConfHandler
<1>4. CASE IndexMadeElsewhere
  BY <1>4, IndexMadeElsewhereStep
<1>5. CASE IndexDroppedElsewhere
  BY <1>5, IndexDroppedElsewhereStep
<1>6. CASE UNCHANGED confVars
  <2>1. setup' = setup
    BY <1>6 DEF confVars
  <2>2. QED
    BY <1>6, <2>1, SetupStays DEF confVars, confHandlers, IInv, ConfTypeOK, Running, Built, Seen
<1>7. QED
  BY <1>1, <1>2, <1>3, <1>4, <1>5, <1>6 DEF ConfNext

-----------------------------------------------------------------------------

(* The invariant of every behaviour.                                         *)
THEOREM Invariance == ConfSpec => []IInv
<1>1. IInv /\ [ConfNext]_confVars => IInv'
  BY NextStep
<1>2. QED
  BY <1>1, Initially, PTL DEF ConfSpec

(* Every variable keeps its type, so that a lost race is counted and clients *)
(* are what the handlers built.                                              *)
THEOREM ConfTypeCorrect == ConfSpec => []ConfTypeOK
<1>1. IInv => ConfTypeOK
  BY DEF IInv
<1>2. QED
  BY <1>1, Invariance, PTL

(* Handlers sign with the identity that the documentation promises.          *)
THEOREM IdentityAsDocumented == ConfSpec => []DocumentedIdentity
<1>1. IInv => DocumentedIdentity
  <2> SUFFICES ASSUME IInv, NEW o \in Objects, Signed(client[o])
               PROVE  LET i == client[o].identity IN
                        /\ setup.keys <=> i.base.kind = "access key"
                        /\ ~setup.keys =>
                             /\ i.assumed = setup.assume
                             /\ setup.profile /\ ~(setup.role /\ setup.token) => i.base.kind = "profile"
                             /\ setup.role /\ setup.token =>
                                  i.base = [kind |-> "web", role |-> "block", token |-> "block"]
                             /\ setup.envWeb /\ ~setup.profile => i.base.kind = "web"
    BY DEF DocumentedIdentity
  <2>1. client[o].identity = Acting /\ setup \in Setup
    BY SetupsAssumption DEF IInv, Built, Signed, ConfTypeOK
  <2>2. /\ Resolution.role = FromEnv(IF setup.role THEN "block" ELSE "unset")
        /\ Resolution.token = FromEnv(IF setup.token THEN "block" ELSE "unset")
    BY DEF Resolution, Resolved, Block
  <2>3. CASE setup.keys
    <3>1. Acting.base.kind = "access key"
      BY <2>3 DEF Acting, SessionIdentity
    <3>2. QED
      BY <2>1, <2>3, <3>1
  <2>4. CASE ~setup.keys
    <3>1. Acting.base = Web(Resolution) /\ Acting.assumed = setup.assume
      BY <2>4 DEF Acting, SessionIdentity
    <3>2. Web(Resolution).kind # "access key"
      BY DEF Web, Chain
    <3>3. setup.profile /\ ~(setup.role /\ setup.token) => Web(Resolution).kind = "profile"
      BY <2>1, <2>2 DEF Web, Chain, FromEnv, Setup
    <3>4. setup.role /\ setup.token =>
            Web(Resolution) = [kind |-> "web", role |-> "block", token |-> "block"]
      BY <2>1, <2>2 DEF Web, FromEnv
    <3>5. setup.envWeb /\ ~setup.profile => Web(Resolution).kind = "web"
      BY <2>1, <2>2 DEF Web, FromEnv
    <3>6. QED
      BY <2>1, <2>4, <3>1, <3>2, <3>3, <3>4, <3>5
  <2>5. QED
    BY <2>3, <2>4
<1>2. QED
  BY <1>1, Invariance, PTL

(* The ML resources act as the others do, but where the environment adds to  *)
(* the block; there they always act as somebody else.                        *)
THEOREM MostlyOneIdentity == ConfSpec => []OneIdentity
<1>1. IInv => OneIdentity
  <2> SUFFICES ASSUME IInv, NEW o \in Objects, Signed(client[o])
               PROVE  client[o].identity = mlClient.identity <=> ~EnvironmentAdds
    BY DEF OneIdentity
  <2>1. client[o].identity = Acting /\ Signing /\ mlClient # NoClient /\ setup \in Setup
    BY SetupsAssumption DEF IInv, Built, Signed, ConfTypeOK
  <2>2. mlClient.identity = SessionIdentity(Block)
    BY <2>1 DEF IInv, Running, MLActing, AwsClient
  <2>3. /\ Resolution.role = FromEnv(Block.role)
        /\ Resolution.token = FromEnv(Block.token)
    BY DEF Resolution, Resolved, Block
  <2>4. /\ Block.role = IF setup.role THEN "block" ELSE "unset"
        /\ Block.token = IF setup.token THEN "block" ELSE "unset"
    BY DEF Block
  <2>5. CASE setup.keys
    BY <2>1, <2>2, <2>5 DEF Acting, SessionIdentity, EnvironmentAdds
  <2>6. CASE ~setup.envWeb \/ setup.profile \/ (setup.role /\ setup.token)
    <3>1. Resolution.role = Block.role /\ Resolution.token = Block.token
      BY <2>3, <2>4, <2>6 DEF FromEnv
    <3>2. QED
      BY <2>1, <2>2, <2>6, <3>1, SessionOf DEF Acting, EnvironmentAdds
  <2>7. CASE setup.envWeb /\ ~setup.profile /\ ~setup.envKeys /\ ~setup.role /\ ~setup.token
    <3>1. Resolution.role = "env" /\ Resolution.token = "env"
      BY <2>3, <2>4, <2>7 DEF FromEnv
    <3>2. Web(Resolution) = Web(Block)
      BY <2>4, <2>7, <3>1 DEF Web, Chain
    <3>3. QED
      BY <2>1, <2>2, <2>7, <3>2 DEF Acting, SessionIdentity, EnvironmentAdds
  <2>8. CASE EnvironmentAdds
    <3>1. Web(Resolution) =
            [kind |-> "web", role |-> Resolution.role, token |-> Resolution.token]
      BY <2>3, <2>4, <2>8 DEF EnvironmentAdds, FromEnv, Web
    <3>2. Web(Block) = Chain
      BY <2>1, <2>4, <2>8 DEF EnvironmentAdds, Web, Setup
    <3>3. Web(Resolution) # Web(Block)
      <4>1. CASE setup.envKeys
        <5>1. Chain.kind = "env keys"
          BY <2>8, <4>1 DEF Chain, EnvironmentAdds
        <5>2. Web(Resolution).kind = "web"
          BY <3>1
        <5>3. QED
          BY <3>2, <5>1, <5>2
      <4>2. CASE ~setup.envKeys /\ setup.role
        <5>1. Chain.role = "env"
          BY <2>8, <4>2 DEF Chain, EnvironmentAdds
        <5>2. Web(Resolution).role = "block"
          BY <2>3, <2>4, <3>1, <4>2 DEF FromEnv
        <5>3. QED
          BY <3>2, <5>1, <5>2
      <4>3. CASE ~setup.envKeys /\ setup.token
        <5>1. Chain.token = "env"
          BY <2>8, <4>3 DEF Chain, EnvironmentAdds
        <5>2. Web(Resolution).token = "block"
          BY <2>3, <2>4, <3>1, <4>3 DEF FromEnv
        <5>3. QED
          BY <3>2, <5>1, <5>2
      <4>4. QED
        BY <2>8, <4>1, <4>2, <4>3 DEF EnvironmentAdds
    <3>4. Acting.base = Web(Resolution) /\ SessionIdentity(Block).base = Web(Block)
      BY <2>8 DEF EnvironmentAdds, Acting, SessionIdentity
    <3>5. QED
      BY <2>1, <2>2, <2>8, <3>3, <3>4
  <2>9. QED
    BY <2>5, <2>6, <2>7, <2>8 DEF EnvironmentAdds
<1>2. QED
  BY <1>1, Invariance, PTL

(* However many handlers write the service, a serverless host is signed for  *)
(* "aoss".                                                                   *)
THEOREM ServerlessSigned == ConfSpec => []SignsForServerless
<1>1. IInv => SignsForServerless
  BY DEF IInv, Built, SignsForServerless, Signed
<1>2. QED
  BY <1>1, Invariance, PTL

(* A second panic over the same index is not to be feared.                   *)
THEOREM OneLostRace == ConfSpec => []RaceLostOnce
<1>1. IInv => RaceLostOnce
  BY DEF IInv, Seen, RaceLostOnce
<1>2. QED
  BY <1>1, Invariance, PTL
=============================================================================
