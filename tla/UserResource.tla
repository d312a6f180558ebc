---------------------------- MODULE UserResource ----------------------------
(***************************************************************************)
(* opensearch_user. Unlike the resources of CrudResource it keeps a secret *)
(* that Read never returns and that Update sends only when it changed, and *)
(* it lets the user rename what it manages: username is not ForceNew, so   *)
(* Update writes to the new name while d.Id() stays the old one, Read asks *)
(* for d.Id() and Delete for username.                                     *)
(*                                                                         *)
(* The users of the security plugin, one entry of one state file, other    *)
(* clients, requests executed without an answer, and crashes. A repeated   *)
(* request (Retrier) is a request that is executed and waited for again.   *)
(***************************************************************************)
CONSTANTS Names,        \* user names
          NoName,       \* d.Id() = ""
          Profiles,     \* backend_roles, attributes and description
          NoProfile,    \* those of a user that does not exist
          Passwords,    \* password or password_hash
          NoPassword    \* neither is given

ASSUME NamesAssumption == NoName \notin Names
ASSUME ProfilesAssumption == NoProfile \notin Profiles
ASSUME PasswordsAssumption == NoPassword \notin Passwords

VARIABLES
  users,      \* the internal users of the security plugin
  config,     \* what the user wants
  state,      \* the entry of the state file
  pc, op, d,  \* the handler under way
  doubted,    \* users whose password the entry cannot vouch for: it was changed
              \* by others, by a write that failed, or before a rename
  gone        \* the user of the entry was missing during this operation

handler == <<pc, op, d>>
history == <<doubted, gone>>
vars    == <<users, config, state, handler, history>>

Secrets  == Passwords \cup {NoPassword}
Wishes   == [name : Names, profile : Profiles, password : Secrets]
NoUser   == [profile |-> NoProfile, password |-> NoPassword]
NoEntry  == [id |-> NoName, name |-> NoName, profile |-> NoProfile,
             password |-> NoPassword, tainted |-> FALSE]
NoData   == [id |-> NoName, name |-> NoName, profile |-> NoProfile,
             password |-> NoPassword, sent |-> NoPassword]
Exists(n) == users[n] # NoUser
Tracked   == state.id # NoName

(* Every variable has its type: an entry has the profile of some user.       *)
TypeOK ==
  /\ users \in [Names -> {NoUser} \cup [profile : Profiles, password : Passwords]]
  /\ config \in Wishes
  /\ state \in {NoEntry} \cup [id : Names, name : Names, profile : Profiles,
                              password : Secrets, tainted : BOOLEAN]
  /\ pc \in {"idle", "write", "get", "remove", "done"}
  /\ op \in {"none", "create", "refresh", "update", "delete"}
  /\ d \in {NoData} \cup [id : Names \cup {NoName}, name : Names, profile : Profiles,
                         password : Secrets, sent : Secrets]
  /\ doubted \subseteq Names /\ gone \in BOOLEAN

Init ==
  /\ users = [n \in Names |-> NoUser]
  /\ config \in Wishes
  /\ state = NoEntry
  /\ pc = "idle" /\ op = "none" /\ d = NoData
  /\ doubted = Names /\ gone = FALSE

-----------------------------------------------------------------------------
(* Terraform core *)

Start(o, p, data) ==
  /\ pc = "idle"
  /\ op' = o /\ pc' = p /\ d' = data
  /\ gone' = (Tracked /\ ~Exists(state.id))
  /\ UNCHANGED <<users, config, state, doubted>>

(* Mutant of Changed: the old value of d.GetChange is sent. *)
ChangedFrom == IF config.password # state.password THEN state.password ELSE NoPassword

(* d.HasChange: the password is sent when it is not the recorded one, and    *)
(* omitted when it was taken out of the configuration.                       *)
Changed == IF config.password # state.password THEN config.password ELSE NoPassword

Planned(id) ==
  [id |-> id, name |-> config.name, profile |-> config.profile,
   password |-> config.password, sent |-> Changed]

Known ==
  [id |-> state.id, name |-> state.name, profile |-> state.profile,
   password |-> state.password, sent |-> NoPassword]

StartCreate  == ~Tracked /\ Start("create", "write", Planned(NoName))
StartRefresh == Tracked /\ Start("refresh", "get", Known)
StartDelete  == Tracked /\ Start("delete", "remove", Known)

StartUpdate ==
  /\ Tracked /\ ~state.tainted
  /\ config # [name |-> state.name, profile |-> state.profile, password |-> state.password]
  /\ Start("update", "write", Planned(state.id))

EditConfig ==
  /\ pc = "idle"
  /\ config' \in Wishes
  /\ UNCHANGED <<users, state, handler, history>>

Idle == pc' = "idle" /\ op' = "none" /\ d' = NoData

Entry(tainted) ==
  [id |-> d.id, name |-> d.name, profile |-> d.profile, password |-> d.password,
   tainted |-> tainted]

Return ==
  /\ pc = "done"
  /\ state' = IF d.id = NoName THEN NoEntry ELSE Entry(op = "refresh" /\ state.tainted)
  /\ Idle
  /\ UNCHANGED <<users, config, history>>

(* An error: core keeps the planned values of an Update, the password too.   *)
(* A Create that failed after d.SetId leaves a tainted entry.                *)
Failed ==
  /\ state' = IF op \in {"create", "update"} /\ d.id # NoName THEN Entry(op = "create")
                                                              ELSE state
  /\ Idle

(* The provider dies; Read panics when its GET has no answer (res is nil).   *)
Crash ==
  /\ pc # "idle"
  /\ doubted' = IF op = "update" THEN doubted \cup {state.name} ELSE doubted
  /\ Idle
  /\ UNCHANGED <<users, config, state, gone>>

-----------------------------------------------------------------------------
(* The security plugin, and its other clients *)

Vanishes(n) == gone' = (gone \/ n = state.id)

WrittenElsewhere(n) ==
  /\ \E f \in Profiles, p \in Passwords :
       users' = [users EXCEPT ![n] = [profile |-> f, password |-> p]]
  /\ doubted' = doubted \cup {n}
  /\ UNCHANGED <<config, state, handler, gone>>

RemovedElsewhere(n) ==
  /\ Exists(n)
  /\ users' = [users EXCEPT ![n] = NoUser]
  /\ doubted' = doubted \cup {n}
  /\ Vanishes(n)
  /\ UNCHANGED <<config, state, handler>>

(* A PUT without a password keeps that of the user, who must exist. *)
Store(n) ==
  /\ d.sent = NoPassword => Exists(n)
  /\ users' = [users EXCEPT ![n] =
       [profile |-> d.profile,
        password |-> IF d.sent = NoPassword THEN users[n].password ELSE d.sent]]

-----------------------------------------------------------------------------
(* The handlers *)

(* Writes and Delete go to username, Read to d.Id(). *)
Target == d.name

(* The PUT is answered: d.SetId of a Create, and on to Read. *)
Written ==
  /\ pc = "write"
  /\ Store(Target)
  /\ d' = IF op = "create" THEN [d EXCEPT !.id = d.name] ELSE d
  /\ doubted' = CASE d.sent # NoPassword  -> doubted \ {Target}
                  [] Target # state.name   -> doubted \cup {Target}
                  [] OTHER                 -> doubted
  /\ pc' = "get"
  /\ UNCHANGED <<config, state, op, gone>>

(* It is executed, its answer lost: the client waits for a second one, or    *)
(* gives up.                                                                 *)
WriteUnanswered ==
  /\ pc = "write"
  /\ Store(Target)
  /\ doubted' = doubted \cup {Target}
  /\ Failed \/ UNCHANGED <<state, handler>>
  /\ UNCHANGED <<config, gone>>

(* It is refused, or never arrives. *)
WriteFails ==
  /\ pc = "write"
  /\ Failed
  /\ doubted' = doubted \cup {Target}
  /\ UNCHANGED <<users, config, gone>>

(* Mutant of Found: the answer is not looked at. *)
FoundAnything ==
  /\ pc = "get"
  /\ d' = [d EXCEPT !.profile = users[d.id].profile]
  /\ pc' = "done"
  /\ UNCHANGED <<users, config, state, op, history>>

(* Read sets what the plugin returns: neither the name nor the password. *)
Found ==
  /\ pc = "get" /\ Exists(d.id)
  /\ d' = [d EXCEPT !.profile = users[d.id].profile]
  /\ pc' = "done"
  /\ UNCHANGED <<users, config, state, op, history>>

Missing ==
  /\ pc = "get" /\ ~Exists(d.id)
  /\ d' = NoData /\ pc' = "done"
  /\ UNCHANGED <<users, config, state, op, history>>

(* Mutant of GetFails: any error counts as a 404. *)
GetFailsForgets ==
  /\ pc = "get"
  /\ d' = NoData /\ pc' = "done"
  /\ UNCHANGED <<users, config, state, op, history>>

GetFails ==
  /\ pc = "get"
  /\ Failed
  /\ UNCHANGED <<users, config, history>>

Removed ==
  /\ pc = "remove" /\ Exists(Target)
  /\ users' = [users EXCEPT ![Target] = NoUser]
  /\ Vanishes(Target)
  /\ d' = NoData /\ pc' = "done"
  /\ UNCHANGED <<config, state, op, doubted>>

RemoveUnanswered ==
  /\ pc = "remove" /\ Exists(Target)
  /\ users' = [users EXCEPT ![Target] = NoUser]
  /\ Vanishes(Target)
  /\ doubted' = doubted \cup {Target}
  /\ Failed \/ UNCHANGED <<state, handler>>
  /\ UNCHANGED config

(* A 404 is an error, like every other status. *)
RemoveFails ==
  /\ pc = "remove"
  /\ Failed
  /\ UNCHANGED <<users, config, history>>

Handler ==
  \/ Written \/ WriteUnanswered \/ WriteFails
  \/ Found \/ Missing \/ GetFails
  \/ Removed \/ RemoveUnanswered \/ RemoveFails

Core ==
  \/ StartCreate \/ StartRefresh \/ StartUpdate \/ StartDelete
  \/ EditConfig \/ Return \/ Crash

Elsewhere == \E n \in Names : WrittenElsewhere(n) \/ RemovedElsewhere(n)

Next == Handler \/ Core \/ Elsewhere

Spec == Init /\ [][Next]_vars

-----------------------------------------------------------------------------
(* Properties *)

(* The entry vouches for a password it never reads back: between two        *)
(* operations, the user that the entry names, if it exists, has the recorded *)
(* password, unless somebody else wrote the user, a write of it failed, or   *)
(* the entry took over the name of another user. Only an answered PUT that   *)
(* carried the password restores this; a refresh cannot.                     *)
PasswordIsKnown ==
  pc = "idle" /\ Tracked /\ state.password # NoPassword
    /\ state.name \notin doubted /\ Exists(state.name)
    => users[state.name].password = state.password

(* An entry whose name was never changed is dropped only if its user was     *)
(* missing during the operation, however often a DELETE or a PUT was         *)
(* executed without an answer.                                               *)
ForgetsOnlyGone ==
  [][Tracked /\ state'.id = NoName /\ (op = "delete" => state.id = state.name) => gone]_vars

(* CheckDestroy of resource_opensearch_user_test.go: a destroyed entry leaves *)
(* no user with its ID. The code lets username change and deletes only the   *)
(* user of that name.                                                        *)
DestroyRemovesUser ==
  [][Tracked /\ op = "delete" /\ state'.id = NoName => gone]_vars
=============================================================================
