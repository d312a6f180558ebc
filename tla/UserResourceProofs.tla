------------------------- MODULE UserResourceProofs -------------------------
(***************************************************************************)
(* Proofs about UserResource, for every set of users, profiles and         *)
(* passwords.                                                              *)
(*                                                                         *)
(* PasswordIsKnown speaks of the time between operations only. While an    *)
(* Update runs, the recorded password stays that of the user until the PUT *)
(* is sent (EntryVouched), and the planned one becomes it when the PUT is  *)
(* answered (DataVouched), because the PUT carries a password exactly when *)
(* the planned one is new (SendsChange).                                   *)
(***************************************************************************)
EXTENDS UserResource, TLAPS

EntryTypes == [id : Names, name : Names, profile : Profiles, password : Secrets,
               tainted : BOOLEAN]
DataTypes  == [id : Names \cup {NoName}, name : Names, profile : Profiles,
               password : Secrets, sent : Secrets]

Control ==
  /\ pc = "idle" <=> op = "none"
  /\ pc = "idle" => d = NoData
  /\ pc \in {"write", "get", "remove"} => d # NoData
  /\ pc = "write" => op \in {"create", "update"}
  /\ pc = "remove" => op = "delete"
  /\ pc = "get" => op \in {"create", "refresh", "update"} /\ d.id # NoName
  /\ pc = "done" => op # "none" /\ (d.id = NoName => d = NoData)
  /\ op = "delete" /\ pc = "done" => d = NoData
  /\ op = "create" => ~Tracked
  /\ op \in {"refresh", "update", "delete"} => Tracked /\ (d # NoData => d.id = state.id)
  /\ op \in {"refresh", "delete"} /\ d # NoData
       => d.name = state.name /\ d.password = state.password

(* The password p is that of user n, as far as anybody can tell. *)
Vouched(n, p) ==
  p # NoPassword /\ n \notin doubted /\ Exists(n) => users[n].password = p

EntryVouched ==
  Tracked /\ (op # "update" \/ pc = "write") => Vouched(state.name, state.password)

DataVouched == pc \in {"get", "done"} /\ d # NoData => Vouched(d.name, d.password)

SendsChange ==
  pc = "write" =>
    IF d.sent = NoPassword THEN d.password \in {NoPassword, state.password}
                           ELSE d.sent = d.password

(* A user of the entry that is missing, or was dropped, was seen missing. *)
Sighted ==
  /\ op # "none" /\ Tracked /\ ~Exists(state.id) => gone
  /\ pc = "done" /\ Tracked /\ d = NoData /\ (op = "delete" => state.id = state.name)
       => gone

IInv == TypeOK /\ Control /\ EntryVouched /\ DataVouched /\ SendsChange /\ Sighted

-----------------------------------------------------------------------------
(* Constants and initial states *)

(* The empty entry and the empty data are no entry and no data of a user. *)
LEMMA Constants ==
  /\ NoEntry.id = NoName /\ NoEntry.name = NoName /\ NoEntry.password = NoPassword
  /\ NoData.id = NoName /\ NoData.name = NoName
  /\ NoEntry \notin EntryTypes /\ NoData \notin DataTypes
  /\ NoPassword \in Secrets
  BY NamesAssumption DEF NoEntry, NoData, EntryTypes, DataTypes, Secrets

(* The types of the records, by name. *)
LEMMA Types ==
  /\ TypeOK => state \in {NoEntry} \cup EntryTypes /\ d \in {NoData} \cup DataTypes
  /\ TypeOK => (Tracked <=> state \in EntryTypes)
  /\ TypeOK => (d # NoData <=> d \in DataTypes)
  BY Constants, NamesAssumption DEF TypeOK, EntryTypes, DataTypes, Tracked, NoEntry

(* The initial states satisfy the invariant. *)
LEMMA Initially == Init => IInv
<1> SUFFICES ASSUME Init PROVE IInv
  OBVIOUS
<1>1. TypeOK
  BY DEF Init, TypeOK
<1>2. ~Tracked
  BY Constants DEF Init, Tracked
<1>3. QED
  BY <1>1, <1>2 DEF Init, IInv, Control, EntryVouched, DataVouched, SendsChange, Sighted

(* A PUT gives its user the profile and, if it carries one, the password. *)
LEMMA Stored ==
  ASSUME TypeOK, d \in DataTypes, Store(d.name)
  PROVE  /\ users' \in [Names -> {NoUser} \cup [profile : Profiles, password : Passwords]]
         /\ users'[d.name] # NoUser
         /\ \A n \in Names \ {d.name} : users'[n] = users[n]
         /\ users'[d.name].password =
              IF d.sent = NoPassword THEN users[d.name].password ELSE d.sent
         /\ d.sent = NoPassword => Exists(d.name)
<1> DEFINE new == [profile |-> d.profile,
                   password |-> IF d.sent = NoPassword THEN users[d.name].password
                                                       ELSE d.sent]
<1>1. d.name \in Names /\ d.profile \in Profiles /\ d.sent \in Secrets
  BY DEF DataTypes
<1>2. users' = [users EXCEPT ![d.name] = new] /\ (d.sent = NoPassword => Exists(d.name))
  BY DEF Store
<1>3. new.password \in Passwords
  BY <1>1, <1>2 DEF TypeOK, Exists, Secrets
<1>4. new \in [profile : Profiles, password : Passwords]
  BY <1>1, <1>3
<1>5. new # NoUser
  BY <1>1, ProfilesAssumption DEF NoUser
<1>6. users'[d.name] = new
  BY <1>1, <1>2 DEF TypeOK
<1>7. QED
  BY <1>1, <1>2, <1>4, <1>5, <1>6 DEF TypeOK, Exists

(* What core writes after an error is an entry: the planned one of an Update *)
(* and of a Create that has an ID, otherwise the one it had.                 *)
LEMMA FailedTyped ==
  ASSUME IInv, pc # "idle", Failed
  PROVE  /\ state' \in {NoEntry} \cup EntryTypes
         /\ pc' = "idle" /\ op' = "none" /\ d' = NoData
         /\ op \in {"create", "update"} /\ d.id # NoName
              => state' \in EntryTypes /\ state'.id = d.id /\ state'.name = d.name
                 /\ state'.password = d.password
         /\ ~(op \in {"create", "update"} /\ d.id # NoName) => state' = state
<1>1. CASE op \in {"create", "update"} /\ d.id # NoName
  <2>1. d \in DataTypes
    BY <1>1, Types, Constants DEF IInv
  <2>2. state' = Entry(op = "create")
    BY <1>1 DEF Failed
  <2>3. QED
    BY <1>1, <2>1, <2>2 DEF Failed, Idle, Entry, DataTypes, EntryTypes
<1>2. CASE ~(op \in {"create", "update"} /\ d.id # NoName)
  BY <1>2, Types DEF Failed, Idle, IInv
<1>3. QED
  BY <1>1, <1>2

-----------------------------------------------------------------------------
(* Every step preserves the invariant *)

(* A Create starts. *)
LEMMA StartCreateStep == ASSUME IInv, StartCreate PROVE IInv'
<1> USE Constants, Types, NamesAssumption DEF IInv, TypeOK, handler, history
<1>1. TypeOK'
  BY DEF StartCreate, Start, Planned, Changed, EntryTypes, DataTypes, Secrets, Wishes
<1>2. Control'
  BY DEF StartCreate, Start, Planned, Changed, Control, Tracked, Wishes
<1>3. EntryVouched'
  BY DEF StartCreate, Start, Planned, Changed, Control, EntryVouched, DataVouched,
     Vouched, Tracked, Exists
<1>4. DataVouched'
  BY DEF StartCreate, Start, Planned, Changed, Control, EntryVouched, DataVouched,
     SendsChange, Vouched, Tracked, Exists
<1>5. SendsChange'
  BY DEF StartCreate, Start, Planned, Changed, Control, SendsChange, Tracked
<1>6. Sighted'
  BY DEF StartCreate, Start, Planned, Changed, Control, Sighted, Tracked, Exists
<1>7. QED
  BY <1>1, <1>2, <1>3, <1>4, <1>5, <1>6

(* A refresh starts. *)
LEMMA StartRefreshStep == ASSUME IInv, StartRefresh PROVE IInv'
<1> USE Constants, Types, NamesAssumption DEF IInv, TypeOK, handler, history
<1>1. TypeOK'
  BY DEF StartRefresh, Start, Known, EntryTypes, DataTypes, Secrets, Wishes
<1>2. Control'
  BY DEF StartRefresh, Start, Known, Control, Tracked
<1>3. EntryVouched'
  BY DEF StartRefresh, Start, Known, Control, EntryVouched, DataVouched, Vouched, Tracked,
     Exists
<1>4. DataVouched'
  BY DEF StartRefresh, Start, Known, Control, EntryVouched, DataVouched, SendsChange,
     Vouched, Tracked, Exists
<1>5. SendsChange'
  BY DEF StartRefresh, Start, Known, Control, SendsChange, Tracked
<1>6. Sighted'
  BY DEF StartRefresh, Start, Known, Control, Sighted, Tracked, Exists
<1>7. QED
  BY <1>1, <1>2, <1>3, <1>4, <1>5, <1>6

(* An Update starts. *)
LEMMA StartUpdateStep == ASSUME IInv, StartUpdate PROVE IInv'
<1> USE Constants, Types, NamesAssumption DEF IInv, TypeOK, handler, history
<1>1. TypeOK'
  BY DEF StartUpdate, Start, Planned, Changed, EntryTypes, DataTypes, Secrets, Wishes
<1>2. Control'
  BY DEF StartUpdate, Start, Planned, Changed, Control, Tracked
<1>3. EntryVouched'
  BY DEF StartUpdate, Start, Planned, Changed, Control, EntryVouched, DataVouched,
     Vouched, Tracked, Exists
<1>4. DataVouched'
  BY DEF StartUpdate, Start, Planned, Changed, Control, EntryVouched, DataVouched,
     SendsChange, Vouched, Tracked, Exists
<1>5. SendsChange'
  BY DEF StartUpdate, Start, Planned, Changed, Control, SendsChange, Tracked
<1>6. Sighted'
  BY DEF StartUpdate, Start, Planned, Changed, Control, Sighted, Tracked, Exists
<1>7. QED
  BY <1>1, <1>2, <1>3, <1>4, <1>5, <1>6

(* A Delete starts. *)
LEMMA StartDeleteStep == ASSUME IInv, StartDelete PROVE IInv'
<1> USE Constants, Types, NamesAssumption DEF IInv, TypeOK, handler, history
<1>1. TypeOK'
  BY DEF StartDelete, Start, Known, EntryTypes, DataTypes, Secrets, Wishes
<1>2. Control'
  BY DEF StartDelete, Start, Known, Control, Tracked
<1>3. EntryVouched'
  BY DEF StartDelete, Start, Known, Control, EntryVouched, DataVouched, Vouched, Tracked,
     Exists
<1>4. DataVouched'
  BY DEF StartDelete, Start, Known, Control, EntryVouched, DataVouched, SendsChange,
     Vouched, Tracked, Exists
<1>5. SendsChange'
  BY DEF StartDelete, Start, Known, Control, SendsChange, Tracked
<1>6. Sighted'
  BY DEF StartDelete, Start, Known, Control, Sighted, Tracked, Exists
<1>7. QED
  BY <1>1, <1>2, <1>3, <1>4, <1>5, <1>6

(* The user edits the configuration. *)
LEMMA EditConfigStep == ASSUME IInv, EditConfig PROVE IInv'
<1> USE Constants, Types, NamesAssumption DEF IInv, TypeOK, handler, history
<1>1. TypeOK'
  BY DEF EditConfig, EntryTypes, DataTypes, Secrets, Wishes
<1>2. Control'
  BY DEF EditConfig, Control, Tracked
<1>3. EntryVouched'
  BY DEF EditConfig, Control, EntryVouched, DataVouched, Vouched, Tracked, Exists
<1>4. DataVouched'
  BY DEF EditConfig, Control, EntryVouched, DataVouched, SendsChange, Vouched, Tracked,
     Exists
<1>5. SendsChange'
  BY DEF EditConfig, Control, SendsChange, Tracked
<1>6. Sighted'
  BY DEF EditConfig, Control, Sighted, Tracked, Exists
<1>7. QED
  BY <1>1, <1>2, <1>3, <1>4, <1>5, <1>6

(* A handler returned. *)
LEMMA ReturnStep == ASSUME IInv, Return PROVE IInv'
<1> USE Constants, Types, NamesAssumption DEF IInv, TypeOK, handler, history
<1>1. TypeOK'
  BY DEF Return, Idle, Entry, EntryTypes, DataTypes, Secrets, Wishes
<1>2. Control'
  BY DEF Return, Idle, Entry, Control, Tracked
<1>3. EntryVouched'
  BY DEF Return, Idle, Entry, Control, EntryVouched, DataVouched, Vouched, Tracked, Exists
<1>4. DataVouched'
  BY DEF Return, Idle, Entry, Control, EntryVouched, DataVouched, SendsChange, Vouched,
     Tracked, Exists
<1>5. SendsChange'
  BY DEF Return, Idle, Entry, Control, SendsChange, Tracked
<1>6. Sighted'
  BY DEF Return, Idle, Entry, Control, Sighted, Tracked, Exists
<1>7. QED
  BY <1>1, <1>2, <1>3, <1>4, <1>5, <1>6

(* The process dies. *)
LEMMA CrashStep == ASSUME IInv, Crash PROVE IInv'
<1> USE Constants, Types, NamesAssumption DEF IInv, TypeOK, handler, history
<1>1. TypeOK'
  BY DEF Crash, Idle, Control, Tracked, Exists, EntryTypes, DataTypes, Secrets, Wishes
<1>2. Control'
  BY DEF Crash, Idle, Control, Tracked
<1>3. EntryVouched'
  BY DEF Crash, Idle, Control, EntryVouched, DataVouched, Vouched, Tracked, Exists
<1>4. DataVouched'
  BY DEF Crash, Idle, Control, EntryVouched, DataVouched, SendsChange, Vouched, Tracked,
     Exists
<1>5. SendsChange'
  BY DEF Crash, Idle, Control, SendsChange, Tracked
<1>6. Sighted'
  BY DEF Crash, Idle, Control, Sighted, Tracked, Exists
<1>7. QED
  BY <1>1, <1>2, <1>3, <1>4, <1>5, <1>6

(* A PUT is answered. *)
LEMMA WrittenStep == ASSUME IInv, Written PROVE IInv'
<1> USE Constants, Types, NamesAssumption DEF IInv, TypeOK, handler, history
<1>1. TypeOK'
  BY Stored DEF Written, Target, Control, Tracked, Exists, EntryTypes, DataTypes, Secrets,
     Wishes
<1>2. Control'
  BY Stored DEF Written, Target, Control, Tracked
<1>3. EntryVouched'
  BY Stored DEF Written, Target, Control, EntryVouched, DataVouched, Vouched, Tracked,
     Exists
<1>4. DataVouched'
  BY Stored DEF Written, Target, Control, EntryVouched, DataVouched, SendsChange, Vouched,
     Tracked, Exists
<1>5. SendsChange'
  BY Stored DEF Written, Target, Control, SendsChange, Tracked
<1>6. Sighted'
  BY Stored DEF Written, Target, Control, Sighted, Tracked, Exists
<1>7. QED
  BY <1>1, <1>2, <1>3, <1>4, <1>5, <1>6

(* A PUT is executed and not answered. *)
LEMMA WriteUnansweredStep == ASSUME IInv, WriteUnanswered PROVE IInv'
<1> USE Constants, Types, NamesAssumption DEF IInv, TypeOK, handler, history
<1>1. TypeOK'
  BY Stored, FailedTyped DEF WriteUnanswered, Target, Control, Tracked, Exists,
     EntryTypes, DataTypes, Secrets, Wishes
<1>2. Control'
  BY Stored, FailedTyped DEF WriteUnanswered, Target, Control, Tracked
<1>3. EntryVouched'
  BY Stored, FailedTyped DEF WriteUnanswered, Target, Control, EntryVouched, DataVouched,
     Vouched, Tracked, Exists
<1>4. DataVouched'
  BY Stored, FailedTyped DEF WriteUnanswered, Target, Control, EntryVouched, DataVouched,
     SendsChange, Vouched, Tracked, Exists
<1>5. SendsChange'
  BY Stored, FailedTyped DEF WriteUnanswered, Target, Control, SendsChange, Tracked
<1>6. Sighted'
  BY Stored, FailedTyped DEF WriteUnanswered, Target, Control, Sighted, Tracked, Exists
<1>7. QED
  BY <1>1, <1>2, <1>3, <1>4, <1>5, <1>6

(* A PUT fails. *)
LEMMA WriteFailsStep == ASSUME IInv, WriteFails PROVE IInv'
<1> USE Constants, Types, NamesAssumption DEF IInv, TypeOK, handler, history
<1>1. TypeOK'
  BY FailedTyped DEF WriteFails, Target, Control, Tracked, Exists, EntryTypes, DataTypes,
     Secrets, Wishes
<1>2. Control'
  BY FailedTyped DEF WriteFails, Target, Control, Tracked
<1>3. EntryVouched'
  BY FailedTyped DEF WriteFails, Target, Control, EntryVouched, DataVouched, Vouched,
     Tracked, Exists
<1>4. DataVouched'
  BY FailedTyped DEF WriteFails, Target, Control, EntryVouched, DataVouched, SendsChange,
     Vouched, Tracked, Exists
<1>5. SendsChange'
  BY FailedTyped DEF WriteFails, Target, Control, SendsChange, Tracked
<1>6. Sighted'
  BY FailedTyped DEF WriteFails, Target, Control, Sighted, Tracked, Exists
<1>7. QED
  BY <1>1, <1>2, <1>3, <1>4, <1>5, <1>6

(* Read finds the user. *)
LEMMA FoundStep == ASSUME IInv, Found PROVE IInv'
<1> USE Constants, Types, NamesAssumption DEF IInv, TypeOK, handler, history
<1>1. TypeOK'
  BY DEF Found, Control, Tracked, Exists, EntryTypes, DataTypes, Secrets, Wishes
<1>2. Control'
  BY DEF Found, Control, Tracked
<1>3. EntryVouched'
  BY DEF Found, Control, EntryVouched, DataVouched, Vouched, Tracked, Exists
<1>4. DataVouched'
  BY DEF Found, Control, EntryVouched, DataVouched, SendsChange, Vouched, Tracked, Exists
<1>5. SendsChange'
  BY DEF Found, Control, SendsChange, Tracked
<1>6. Sighted'
  BY DEF Found, Control, Sighted, Tracked, Exists
<1>7. QED
  BY <1>1, <1>2, <1>3, <1>4, <1>5, <1>6

(* Read does not find the user. *)
LEMMA MissingStep == ASSUME IInv, Missing PROVE IInv'
<1> USE Constants, Types, NamesAssumption DEF IInv, TypeOK, handler, history
<1>1. TypeOK'
  BY DEF Missing, EntryTypes, DataTypes, Secrets, Wishes
<1>2. Control'
  BY DEF Missing, Control, Tracked
<1>3. EntryVouched'
  BY DEF Missing, Control, EntryVouched, DataVouched, Vouched, Tracked, Exists
<1>4. DataVouched'
  BY DEF Missing, Control, EntryVouched, DataVouched, SendsChange, Vouched, Tracked,
     Exists
<1>5. SendsChange'
  BY DEF Missing, Control, SendsChange, Tracked
<1>6. Sighted'
  BY DEF Missing, Control, Sighted, Tracked, Exists
<1>7. QED
  BY <1>1, <1>2, <1>3, <1>4, <1>5, <1>6

(* Read fails. *)
LEMMA GetFailsStep == ASSUME IInv, GetFails PROVE IInv'
<1> USE Constants, Types, NamesAssumption DEF IInv, TypeOK, handler, history
<1>1. TypeOK'
  BY FailedTyped DEF GetFails, EntryTypes, DataTypes, Secrets, Wishes
<1>2. Control'
  BY FailedTyped DEF GetFails, Control, Tracked
<1>3. EntryVouched'
  BY FailedTyped DEF GetFails, Control, EntryVouched, DataVouched, Vouched, Tracked,
     Exists
<1>4. DataVouched'
  BY FailedTyped DEF GetFails, Control, EntryVouched, DataVouched, SendsChange, Vouched,
     Tracked, Exists
<1>5. SendsChange'
  BY FailedTyped DEF GetFails, Control, SendsChange, Tracked
<1>6. Sighted'
  BY FailedTyped DEF GetFails, Control, Sighted, Tracked, Exists
<1>7. QED
  BY <1>1, <1>2, <1>3, <1>4, <1>5, <1>6

(* The user is deleted. *)
LEMMA RemovedStep == ASSUME IInv, Removed PROVE IInv'
<1> USE Constants, Types, NamesAssumption DEF IInv, TypeOK, handler, history
<1>1. TypeOK'
  BY DEF Removed, Target, Vanishes, EntryTypes, DataTypes, Secrets, Wishes
<1>2. Control'
  BY DEF Removed, Target, Vanishes, Control, Tracked
<1>3. EntryVouched'
  BY DEF Removed, Target, Vanishes, Control, EntryVouched, DataVouched, Vouched, Tracked,
     Exists
<1>4. DataVouched'
  BY DEF Removed, Target, Vanishes, Control, EntryVouched, DataVouched, SendsChange,
     Vouched, Tracked, Exists
<1>5. SendsChange'
  BY DEF Removed, Target, Vanishes, Control, SendsChange, Tracked
<1>6. Sighted'
  BY DEF Removed, Target, Vanishes, Control, Sighted, Tracked, Exists
<1>7. QED
  BY <1>1, <1>2, <1>3, <1>4, <1>5, <1>6

(* A DELETE is executed and not answered. *)
LEMMA RemoveUnansweredStep == ASSUME IInv, RemoveUnanswered PROVE IInv'
<1> USE Constants, Types, NamesAssumption DEF IInv, TypeOK, handler, history
<1>1. TypeOK'
  BY FailedTyped DEF RemoveUnanswered, Target, Vanishes, Control, Tracked, Exists,
     EntryTypes, DataTypes, Secrets, Wishes
<1>2. Control'
  BY FailedTyped DEF RemoveUnanswered, Target, Vanishes, Control, Tracked
<1>3. EntryVouched'
  BY FailedTyped DEF RemoveUnanswered, Target, Vanishes, Control, EntryVouched,
     DataVouched, Vouched, Tracked, Exists
<1>4. DataVouched'
  BY FailedTyped DEF RemoveUnanswered, Target, Vanishes, Control, EntryVouched,
     DataVouched, SendsChange, Vouched, Tracked, Exists
<1>5. SendsChange'
  BY FailedTyped DEF RemoveUnanswered, Target, Vanishes, Control, SendsChange, Tracked
<1>6. Sighted'
  BY FailedTyped DEF RemoveUnanswered, Target, Vanishes, Control, Sighted, Tracked, Exists
<1>7. QED
  BY <1>1, <1>2, <1>3, <1>4, <1>5, <1>6

(* A DELETE fails. *)
LEMMA RemoveFailsStep == ASSUME IInv, RemoveFails PROVE IInv'
<1> USE Constants, Types, NamesAssumption DEF IInv, TypeOK, handler, history
<1>1. TypeOK'
  BY FailedTyped DEF RemoveFails, EntryTypes, DataTypes, Secrets, Wishes
<1>2. Control'
  BY FailedTyped DEF RemoveFails, Control, Tracked
<1>3. EntryVouched'
  BY FailedTyped DEF RemoveFails, Control, EntryVouched, DataVouched, Vouched, Tracked,
     Exists
<1>4. DataVouched'
  BY FailedTyped DEF RemoveFails, Control, EntryVouched, DataVouched, SendsChange,
     Vouched, Tracked, Exists
<1>5. SendsChange'
  BY FailedTyped DEF RemoveFails, Control, SendsChange, Tracked
<1>6. Sighted'
  BY FailedTyped DEF RemoveFails, Control, Sighted, Tracked, Exists
<1>7. QED
  BY <1>1, <1>2, <1>3, <1>4, <1>5, <1>6

(* Another client writes a user. *)
LEMMA WrittenElsewhereStep == ASSUME IInv, NEW n \in Names, WrittenElsewhere(n) PROVE IInv'
<1> USE Constants, Types, NamesAssumption DEF IInv, TypeOK, handler, history
<1>1. TypeOK'
  BY DEF WrittenElsewhere, EntryTypes, DataTypes, Secrets, Wishes
<1>2. Control'
  BY DEF WrittenElsewhere, Control, Tracked
<1>3. EntryVouched'
  BY DEF WrittenElsewhere, Control, EntryVouched, DataVouched, Vouched, Tracked, Exists
<1>4. DataVouched'
  BY DEF WrittenElsewhere, Control, EntryVouched, DataVouched, SendsChange, Vouched,
     Tracked, Exists
<1>5. SendsChange'
  BY DEF WrittenElsewhere, Control, SendsChange, Tracked
<1>6. Sighted'
  BY ProfilesAssumption DEF WrittenElsewhere, NoUser, Control, Sighted, Tracked, Exists
<1>7. QED
  BY <1>1, <1>2, <1>3, <1>4, <1>5, <1>6

(* Another client removes a user. *)
LEMMA RemovedElsewhereStep == ASSUME IInv, NEW n \in Names, RemovedElsewhere(n) PROVE IInv'
<1> USE Constants, Types, NamesAssumption DEF IInv, TypeOK, handler, history
<1>1. TypeOK'
  BY DEF RemovedElsewhere, Vanishes, EntryTypes, DataTypes, Secrets, Wishes
<1>2. Control'
  BY DEF RemovedElsewhere, Vanishes, Control, Tracked
<1>3. EntryVouched'
  BY DEF RemovedElsewhere, Vanishes, Control, EntryVouched, DataVouched, Vouched, Tracked,
     Exists
<1>4. DataVouched'
  BY DEF RemovedElsewhere, Vanishes, Control, EntryVouched, DataVouched, SendsChange,
     Vouched, Tracked, Exists
<1>5. SendsChange'
  BY DEF RemovedElsewhere, Vanishes, Control, SendsChange, Tracked
<1>6. Sighted'
  BY DEF RemovedElsewhere, Vanishes, Control, Sighted, Tracked, Exists
<1>7. QED
  BY <1>1, <1>2, <1>3, <1>4, <1>5, <1>6

(* Nothing happens. *)
LEMMA Stutter == ASSUME IInv, UNCHANGED vars PROVE IInv'
  BY DEF IInv, TypeOK, Control, EntryVouched, DataVouched, SendsChange, Sighted, Vouched,
     Tracked, Exists, vars, handler, history

(* The invariant is inductive. *)
THEOREM Invariant == Spec => []IInv
<1>1. ASSUME IInv, [Next]_vars PROVE IInv'
  <2>1. CASE Handler
    BY <1>1, <2>1, WrittenStep, WriteUnansweredStep, WriteFailsStep, FoundStep, MissingStep,
       GetFailsStep, RemovedStep, RemoveUnansweredStep, RemoveFailsStep
    DEF Handler
  <2>2. CASE Core
    BY <1>1, <2>2, StartCreateStep, StartRefreshStep, StartUpdateStep, StartDeleteStep,
       EditConfigStep, ReturnStep, CrashStep
    DEF Core
  <2>3. CASE Elsewhere
    BY <1>1, <2>3, WrittenElsewhereStep, RemovedElsewhereStep DEF Elsewhere
  <2>4. CASE UNCHANGED vars
    BY <1>1, <2>4, Stutter
  <2>5. QED
    BY <1>1, <2>1, <2>2, <2>3, <2>4 DEF Next
<1>2. QED
  BY <1>1, Initially, PTL DEF Spec

-----------------------------------------------------------------------------
(* Properties *)

(* Every variable keeps its type: an entry never has the profile of a user   *)
(* that does not exist.                                                      *)
THEOREM TypeCorrect == Spec => []TypeOK
<1>1. IInv => TypeOK
  BY DEF IInv
<1>2. QED
  BY <1>1, Invariant, PTL

(* Between two operations the recorded password is that of the user, unless  *)
(* somebody else wrote it, a write failed, or the entry was renamed to it.   *)
THEOREM RecordedPasswordHolds == Spec => []PasswordIsKnown
<1>1. IInv => PasswordIsKnown
  BY DEF IInv, Control, EntryVouched, Vouched, PasswordIsKnown
<1>2. QED
  BY <1>1, Invariant, PTL

(* An entry that was not renamed leaves the state file only if its user was  *)
(* missing during the operation that drops it.                               *)
THEOREM ForgottenWasGone == Spec => ForgetsOnlyGone
<1>1. ASSUME IInv, [Next]_vars, Tracked, state'.id = NoName,
             op = "delete" => state.id = state.name
      PROVE  gone
  <2> USE <1>1 DEF IInv, Tracked
  <2>1. ~Failed
    BY Constants DEF Failed, Entry
  <2>2. Return
    BY <2>1
    DEF Next, Handler, Core, Elsewhere, Written, WriteUnanswered, WriteFails, Found, Missing,
        GetFails, Removed, RemoveUnanswered, RemoveFails, StartCreate, StartRefresh,
        StartUpdate, StartDelete, Start, EditConfig, Crash, WrittenElsewhere,
        RemovedElsewhere, vars
  <2>3. d.id = NoName /\ pc = "done"
    BY <2>2, Constants DEF Return, Entry
  <2>4. QED
    BY <2>3 DEF Sighted, Control
<1>2. QED
  BY <1>1, Invariant, PTL DEF Spec, ForgetsOnlyGone

-----------------------------------------------------------------------------
(* What the handlers do to the users *)

(* What a PUT carries is the configuration, and its password only when it is *)
(* not the recorded one.                                                     *)
PlanHolds ==
  pc = "write" =>
    /\ d.name = config.name /\ d.profile = config.profile
    /\ d.sent = Changed

(* The user cannot edit the configuration under a running handler, and none  *)
(* changes d before its PUT is answered.                                     *)
LEMMA PlanKept == ASSUME IInv, PlanHolds, [Next]_vars PROVE PlanHolds'
<1> USE DEF IInv, PlanHolds, Changed
<1>1. CASE StartCreate \/ StartUpdate
  BY <1>1 DEF StartCreate, StartUpdate, Start, Planned
<1>2. CASE StartRefresh \/ StartDelete
  BY <1>2 DEF StartRefresh, StartDelete, Start
<1>3. CASE EditConfig
  BY <1>3 DEF EditConfig, handler
<1>4. CASE Return \/ Crash
  BY <1>4 DEF Return, Crash, Idle
<1>5. CASE Handler
  BY <1>5
  DEF Handler, Written, WriteUnanswered, WriteFails, Found, Missing, GetFails, Removed,
      RemoveUnanswered, RemoveFails, Failed, Idle, handler
<1>6. CASE Elsewhere \/ UNCHANGED vars
  BY <1>6 DEF Elsewhere, WrittenElsewhere, RemovedElsewhere, vars, handler
<1>7. QED
  BY <1>1, <1>2, <1>3, <1>4, <1>5, <1>6 DEF Next, Core

(* The plan of every behaviour.                                              *)
LEMMA PlanAlways == Spec => []PlanHolds
<1>1. Init => PlanHolds
  BY DEF Init, PlanHolds
<1>2. QED
  BY <1>1, PlanKept, Invariant, PTL DEF Spec

(* What a handler step does to the users.                                    *)
WriteStep ==
  Handler => \A n \in Names : users'[n] # users[n] =>
    \/ op = "delete" /\ n = state.name /\ users'[n] = NoUser
    \/ /\ op \in {"create", "update"} /\ n = config.name
       /\ users'[n].profile = config.profile
       /\ users'[n].password =
            IF config.password \in {NoPassword, state.password}
            THEN users[n].password ELSE config.password

WritesThePlan == [][WriteStep]_vars

(* A handler changes no user but the one its configuration, or the entry it  *)
(* destroys, names. An apply leaves there the profile of the configuration,  *)
(* and a new password only when the configured one is not the recorded one:  *)
(* an Update of the profile neither resets a password that others changed    *)
(* nor removes one that was taken out of the configuration.                  *)
THEOREM KeepsToItsOwn == Spec => WritesThePlan
<1>1. ASSUME IInv, PlanHolds, Handler, NEW n \in Names, users'[n] # users[n]
      PROVE  \/ op = "delete" /\ n = state.name /\ users'[n] = NoUser
             \/ /\ op \in {"create", "update"} /\ n = config.name
                /\ users'[n].profile = config.profile
                /\ users'[n].password =
                     IF config.password \in {NoPassword, state.password}
                     THEN users[n].password ELSE config.password
  <2>1. TypeOK /\ Control
    BY <1>1 DEF IInv
  <2>2. CASE pc = "write" /\ Store(Target)
    <3>1. n = d.name
      BY <1>1, <2>1, <2>2 DEF Store, Target, TypeOK
    <3>2. users'[n] = [profile |-> d.profile,
             password |-> IF d.sent = NoPassword THEN users[n].password ELSE d.sent]
      BY <2>1, <2>2, <3>1 DEF Store, Target, TypeOK
    <3>3. d.name = config.name /\ d.profile = config.profile /\ d.sent = Changed
      BY <1>1, <2>2 DEF PlanHolds
    <3>4. d.sent = NoPassword <=> config.password \in {NoPassword, state.password}
      BY <3>3 DEF Changed
    <3>5. d.sent # NoPassword => d.sent = config.password
      BY <3>3 DEF Changed
    <3>6. QED
      BY <2>1, <2>2, <3>1, <3>2, <3>3, <3>4, <3>5 DEF Control
  <2>3. CASE pc = "remove" /\ users' = [users EXCEPT ![Target] = NoUser]
    BY <1>1, <2>1, <2>3 DEF Target, TypeOK, Control
  <2>4. CASE UNCHANGED users
    BY <1>1, <2>4
  <2>5. QED
    BY <1>1, <2>2, <2>3, <2>4
    DEF Handler, Written, WriteUnanswered, WriteFails, Found, Missing, GetFails, Removed,
        RemoveUnanswered, RemoveFails
<1>2. IInv /\ PlanHolds /\ [Next]_vars => [WriteStep]_vars
  BY <1>1 DEF WriteStep
<1>3. QED
  BY <1>2, Invariant, PlanAlways, PTL DEF Spec, WritesThePlan
=============================================================================
