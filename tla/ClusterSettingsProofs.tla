------------------------- MODULE ClusterSettingsProofs -------------------------
(***************************************************************************)
(* Proofs about ClusterSettings, for every set of keys and values.         *)
(*                                                                         *)
(* The properties speak of the entry between handlers and of the end of a  *)
(* destroy; the invariant says what the handler on its way there holds:    *)
(* that the settings it is about to record are in effect but for doubts    *)
(* (Holds), and that after a reset nothing is left but doubts (Reset).     *)
(***************************************************************************)
EXTENDS ClusterSettings, Naturals, TLAPS

Claims(data) == \A k \in Keys \ doubted : data.values[k] \in {Zero, Unset, persistent[k]}

(* Which operation is at which step, and what it holds there.                *)
Control ==
  /\ spc = "idle" <=> sop = "none"
  /\ spc = "put" => sop \in {"create", "update"}
  /\ spc = "put" /\ sop = "create" => ~s.tracked
  /\ spc = "clear" => sop = "delete" /\ declared.reset
  /\ spc = "read" => sop \in {"create", "import", "refresh"}
  /\ sop \in {"create", "import"} => ~declared.tracked
  /\ sop \in {"refresh", "update", "delete"} => declared.tracked
  /\ spc = "read" => s.tracked
  /\ spc = "done" => (s.tracked <=> sop # "delete")
  /\ sop = "refresh" /\ spc = "read" => s = declared

(* What is recorded, or is about to be, is in effect.                        *)
Holds ==
  /\ spc = "idle" /\ declared.tracked => Claims(declared)
  /\ spc = "read" \/ (spc = "done" /\ s.tracked) => Claims(s)

(* After a reset nothing is left.                                            *)
Reset ==
  spc = "done" /\ sop = "delete" /\ declared.reset =>
    \A k \in Keys \ doubted : persistent[k] = Unset

IInv == SettingsTypeOK /\ Control /\ Holds /\ Reset

-----------------------------------------------------------------------------
(* Entries and settings *)

(* The empty entry.                                                          *)
LEMMA NoEntryTyped ==
  /\ NoEntry \in SettingsData
  /\ NoEntry.tracked = FALSE /\ NoEntry.values = Nothing
  BY DEF NoEntry, SettingsData, Nothing, Settings

(* What a read makes of an entry: the settings that the cluster has.         *)
LEMMA TakenOverTyped ==
  ASSUME SettingsTypeOK, NEW data \in SettingsData, NEW ks \in SUBSET Keys
  PROVE  /\ TakenOver(data, ks) \in SettingsData
         /\ TakenOver(data, ks).tracked = data.tracked
         /\ \A k \in Keys : TakenOver(data, ks).values[k] =
              IF k \in ks /\ persistent[k] # Unset THEN persistent[k] ELSE data.values[k]
<1> DEFINE values == [k \in Keys |->
     IF k \in ks /\ persistent[k] # Unset THEN persistent[k] ELSE data.values[k]]
<1>1. values \in Settings
  BY DEF SettingsTypeOK, Settings, SettingsData
<1>2. TakenOver(data, ks) = [data EXCEPT !.values = values]
  BY DEF TakenOver
<1>3. \A k \in Keys : values[k] =
        IF k \in ks /\ persistent[k] # Unset THEN persistent[k] ELSE data.values[k]
  OBVIOUS
<1> HIDE DEF values
<1>4. QED
  BY <1>1, <1>2, <1>3 DEF SettingsData

(* A read adds no claim that does not hold.                                  *)
LEMMA ReadHolds ==
  ASSUME SettingsTypeOK, NEW data \in SettingsData, NEW ks \in SUBSET Keys, Claims(data)
  PROVE  Claims(TakenOver(data, ks))
<1> DEFINE taken == TakenOver(data, ks)
<1>1. ASSUME NEW k \in Keys \ doubted
      PROVE  taken.values[k] \in {Zero, Unset, persistent[k]}
  <2>1. taken.values[k] \in {persistent[k], data.values[k]}
    BY TakenOverTyped
  <2>2. data.values[k] \in {Zero, Unset, persistent[k]}
    BY DEF Claims
  <2>3. QED
    BY <2>1, <2>2
<1>2. QED
  BY <1>1 DEF Claims

(* The settings after a PUT.                                                 *)
LEMMA LaidTyped ==
  ASSUME SettingsTypeOK
  PROVE  /\ Laid \in Settings
         /\ \A k \in Keys : Laid[k] = IF k \in Sent(s) THEN s.values[k] ELSE persistent[k]
  BY DEF SettingsTypeOK, Laid, Settings, SettingsData

(* The initial states satisfy the invariant.                                 *)
LEMMA Initially == SettingsInit => IInv
<1> SUFFICES ASSUME SettingsInit PROVE IInv
  OBVIOUS
<1>1. SettingsTypeOK
  BY NoEntryTyped DEF SettingsInit, SettingsTypeOK
<1>2. QED
  BY <1>1, NoEntryTyped DEF SettingsInit, IInv, Control, Holds, Reset

-----------------------------------------------------------------------------
(* The steps *)

(* A Create claims nothing yet. *)
LEMMA StartSettingsCreateStep ==
  ASSUME IInv, StartSettingsCreate
  PROVE  IInv'
<1>1. SettingsTypeOK /\ Control /\ Holds /\ Reset
  BY DEF IInv
<1>2. SettingsTypeOK'
  BY <1>1, NoEntryTyped DEF SettingsTypeOK, SettingsData, StartSettingsCreate, SettingsStarts, Settings
<1>3. Control'
  BY <1>1, NoEntryTyped DEF Control, SettingsTypeOK, SettingsData, StartSettingsCreate, SettingsStarts, Settings
<1>4. Holds'
  BY <1>1, NoEntryTyped DEF Control, Holds, Claims, SettingsTypeOK, StartSettingsCreate, SettingsStarts, Settings
<1>5. Reset'
  BY <1>1, NoEntryTyped DEF Control, Reset, SettingsTypeOK, StartSettingsCreate, SettingsStarts, Settings
<1>6. QED
  BY <1>2, <1>3, <1>4, <1>5 DEF IInv

(* An import claims nothing. *)
LEMMA StartSettingsImportStep ==
  ASSUME IInv, StartSettingsImport
  PROVE  IInv'
<1>1. SettingsTypeOK /\ Control /\ Holds /\ Reset
  BY DEF IInv
<1>2. SettingsTypeOK'
  BY <1>1, NoEntryTyped DEF SettingsTypeOK, SettingsData, StartSettingsImport, SettingsStarts, Settings
<1>3. Control'
  BY <1>1, NoEntryTyped DEF Control, SettingsTypeOK, SettingsData, StartSettingsImport, SettingsStarts, Settings
<1>4. Holds'
  <2>1. s'.values = Nothing
    BY NoEntryTyped DEF StartSettingsImport, SettingsStarts, SettingsData
  <2>2. \A k \in Keys : s'.values[k] = Unset
    BY <2>1 DEF Nothing
  <2>3. spc' # "idle"
    BY DEF StartSettingsImport, SettingsStarts
  <2>4. QED
    BY <2>2, <2>3 DEF Holds, Claims
<1>5. Reset'
  BY <1>1, NoEntryTyped DEF Control, Reset, SettingsTypeOK, StartSettingsImport, SettingsStarts, Settings
<1>6. QED
  BY <1>2, <1>3, <1>4, <1>5 DEF IInv

(* A refresh claims what the entry does. *)
LEMMA StartSettingsRefreshStep ==
  ASSUME IInv, StartSettingsRefresh
  PROVE  IInv'
<1>1. SettingsTypeOK /\ Control /\ Holds /\ Reset
  BY DEF IInv
<1>2. SettingsTypeOK'
  BY <1>1, NoEntryTyped DEF SettingsTypeOK, SettingsData, StartSettingsRefresh, SettingsStarts, Settings
<1>3. Control'
  BY <1>1, NoEntryTyped DEF Control, SettingsTypeOK, SettingsData, StartSettingsRefresh, SettingsStarts, Settings
<1>4. Holds'
  BY <1>1, NoEntryTyped DEF Control, Holds, Claims, SettingsTypeOK, StartSettingsRefresh, SettingsStarts, Settings
<1>5. Reset'
  BY <1>1, NoEntryTyped DEF Control, Reset, SettingsTypeOK, StartSettingsRefresh, SettingsStarts, Settings
<1>6. QED
  BY <1>2, <1>3, <1>4, <1>5 DEF IInv

(* An Update claims nothing yet. *)
LEMMA StartSettingsUpdateStep ==
  ASSUME IInv, StartSettingsUpdate
  PROVE  IInv'
<1>1. SettingsTypeOK /\ Control /\ Holds /\ Reset
  BY DEF IInv
<1>2. SettingsTypeOK'
  BY <1>1, NoEntryTyped DEF SettingsTypeOK, SettingsData, StartSettingsUpdate, SettingsStarts, Settings
<1>3. Control'
  BY <1>1, NoEntryTyped DEF Control, SettingsTypeOK, SettingsData, StartSettingsUpdate, SettingsStarts, Settings
<1>4. Holds'
  BY <1>1, NoEntryTyped DEF Control, Holds, Claims, SettingsTypeOK, StartSettingsUpdate, SettingsStarts, Settings
<1>5. Reset'
  BY <1>1, NoEntryTyped DEF Control, Reset, SettingsTypeOK, StartSettingsUpdate, SettingsStarts, Settings
<1>6. QED
  BY <1>2, <1>3, <1>4, <1>5 DEF IInv

(* A Delete without reset is done. *)
LEMMA StartSettingsDeleteStep ==
  ASSUME IInv, StartSettingsDelete
  PROVE  IInv'
<1>1. SettingsTypeOK /\ Control /\ Holds /\ Reset
  BY DEF IInv
<1>2. SettingsTypeOK'
  BY <1>1, NoEntryTyped DEF SettingsTypeOK, SettingsData, StartSettingsDelete, SettingsStarts, Settings
<1>3. Control'
  BY <1>1, NoEntryTyped DEF Control, SettingsTypeOK, SettingsData, StartSettingsDelete, SettingsStarts, Settings
<1>4. Holds'
  BY <1>1, NoEntryTyped DEF Control, Holds, Claims, SettingsTypeOK, StartSettingsDelete, SettingsStarts, Settings
<1>5. Reset'
  BY <1>1, NoEntryTyped DEF Control, Reset, SettingsTypeOK, StartSettingsDelete, SettingsStarts, Settings
<1>6. QED
  BY <1>2, <1>3, <1>4, <1>5 DEF IInv

(* What a handler recorded is what it held. *)
LEMMA SettingsReturnStep ==
  ASSUME IInv, SettingsReturn
  PROVE  IInv'
<1>1. SettingsTypeOK /\ Control /\ Holds /\ Reset
  BY DEF IInv
<1>2. SettingsTypeOK'
  BY <1>1, NoEntryTyped DEF SettingsTypeOK, SettingsData, SettingsReturn, SettingsIdle
<1>3. Control'
  BY <1>1, NoEntryTyped DEF Control, SettingsTypeOK, SettingsData, SettingsReturn, SettingsIdle
<1>4. Holds'
  BY <1>1, NoEntryTyped DEF Control, Holds, Claims, SettingsTypeOK, SettingsReturn, SettingsIdle
<1>5. Reset'
  BY <1>1, NoEntryTyped DEF Control, Reset, SettingsTypeOK, SettingsReturn, SettingsIdle
<1>6. QED
  BY <1>2, <1>3, <1>4, <1>5 DEF IInv

(* After a crash everything is doubted. *)
LEMMA SettingsCrashStep ==
  ASSUME IInv, SettingsCrash
  PROVE  IInv'
<1>1. SettingsTypeOK /\ Control /\ Holds /\ Reset
  BY DEF IInv
<1>2. SettingsTypeOK'
  BY <1>1, NoEntryTyped DEF SettingsTypeOK, SettingsData, SettingsCrash, SettingsIdle
<1>3. Control'
  BY <1>1, NoEntryTyped DEF Control, SettingsTypeOK, SettingsData, SettingsCrash, SettingsIdle
<1>4. Holds'
  BY <1>1, NoEntryTyped DEF Control, Holds, Claims, SettingsTypeOK, SettingsCrash, SettingsIdle
<1>5. Reset'
  BY <1>1, NoEntryTyped DEF Control, Reset, SettingsTypeOK, SettingsCrash, SettingsIdle
<1>6. QED
  BY <1>2, <1>3, <1>4, <1>5 DEF IInv

(* What others change is doubted. *)
LEMMA SettingsElsewhereStep ==
  ASSUME IInv, SettingsElsewhere
  PROVE  IInv'
<1>1. SettingsTypeOK /\ Control /\ Holds /\ Reset
  BY DEF IInv
<1>2. SettingsTypeOK'
  BY <1>1, NoEntryTyped DEF SettingsTypeOK, SettingsData, SettingsElsewhere, settingsHandler
<1>3. Control'
  BY <1>1, NoEntryTyped DEF Control, SettingsTypeOK, SettingsData, SettingsElsewhere, settingsHandler
<1>4. Holds'
  BY <1>1, NoEntryTyped DEF Control, Holds, Claims, SettingsTypeOK, SettingsElsewhere, settingsHandler
<1>5. Reset'
  BY <1>1, NoEntryTyped DEF Control, Reset, SettingsTypeOK, SettingsElsewhere, settingsHandler
<1>6. QED
  BY <1>2, <1>3, <1>4, <1>5 DEF IInv

(* A PUT makes the claims true that it sends. *)
LEMMA SettingsPutStep ==
  ASSUME IInv, SettingsPut
  PROVE  IInv'
<1>1. SettingsTypeOK /\ Control /\ Holds /\ Reset
  BY DEF IInv
<1>2. SettingsTypeOK'
  <2>1. s' \in SettingsData
    BY <1>1 DEF SettingsTypeOK, SettingsData, SettingsPut
  <2>2. QED
    BY <1>1, <2>1, LaidTyped DEF SettingsTypeOK, SettingsPut
<1>3. Control'
  <2>1. s'.tracked = TRUE
    BY <1>1 DEF SettingsTypeOK, SettingsData, SettingsPut
  <2>2. QED
    BY <1>1, <2>1 DEF Control, SettingsPut
<1>4. Holds'
  <2>1. s'.values = s.values
    BY <1>1 DEF SettingsTypeOK, SettingsData, SettingsPut
  <2>2. ASSUME NEW k \in Keys, k \notin doubted'
        PROVE  s.values[k] \in {Zero, Unset, persistent'[k]}
    BY <1>1, <2>2, LaidTyped DEF SettingsPut, Sent
  <2>3. spc' # "idle"
    BY DEF SettingsPut
  <2>4. QED
    BY <2>1, <2>2, <2>3 DEF Holds, Claims
<1>5. Reset'
  BY <1>1, NoEntryTyped DEF Control, Reset, SettingsTypeOK, SettingsPut, Sent
<1>6. QED
  BY <1>2, <1>3, <1>4, <1>5 DEF IInv

(* What was to be sent is doubted. *)
LEMMA SettingsPutFailsStep ==
  ASSUME IInv, SettingsPutFails
  PROVE  IInv'
<1>1. SettingsTypeOK /\ Control /\ Holds /\ Reset
  BY DEF IInv
<1>2. SettingsTypeOK'
  <2>1. declared' \in SettingsData
    BY <1>1 DEF SettingsTypeOK, SettingsData, SettingsPutFails, SettingsFailed, Control
  <2>2. persistent' \in Settings
    BY <1>1, LaidTyped DEF SettingsTypeOK, SettingsPutFails
  <2>3. doubted' \in SUBSET Keys
    BY <1>1 DEF SettingsTypeOK, SettingsPutFails, Sent
  <2>4. QED
    BY <2>1, <2>2, <2>3, NoEntryTyped DEF SettingsTypeOK, SettingsPutFails, SettingsFailed, SettingsIdle
<1>3. Control'
  BY <1>1, NoEntryTyped DEF Control, SettingsTypeOK, SettingsData, SettingsPutFails, SettingsFailed, SettingsIdle, Sent
<1>4. Holds'
  <2>1. CASE sop = "create"
    <3>1. ~declared.tracked
      BY <1>1, <2>1 DEF Control
    <3>2. declared' = declared
      BY <1>1, <2>1 DEF Control, SettingsPutFails, SettingsFailed
    <3>3. QED
      BY <1>1, <3>1, <3>2 DEF Holds, SettingsPutFails, SettingsFailed, SettingsIdle
  <2>2. CASE sop = "update"
    <3>1. declared' = s /\ declared.tracked
      BY <1>1, <2>2 DEF SettingsPutFails, SettingsFailed, Control
    <3>2. doubted' = doubted \cup Sent(s)
      BY <3>1 DEF SettingsPutFails
    <3>3. \A k \in Keys \ doubted' : s.values[k] \in {Zero, Unset}
      BY <3>2 DEF Sent
    <3>4. QED
      BY <3>1, <3>3 DEF Holds, Claims, SettingsPutFails, SettingsFailed, SettingsIdle
  <2>3. QED
    BY <1>1, <2>1, <2>2 DEF Control, SettingsPutFails
<1>5. Reset'
  BY <1>1, NoEntryTyped DEF Control, Reset, SettingsTypeOK, SettingsPutFails, SettingsFailed, SettingsIdle, Sent
<1>6. QED
  BY <1>2, <1>3, <1>4, <1>5 DEF IInv

(* A read ends doubts about what the cluster has. *)
LEMMA SettingsReadStep ==
  ASSUME IInv, SettingsRead
  PROVE  IInv'
<1>1. SettingsTypeOK /\ Control /\ Holds /\ Reset
  BY DEF IInv
<1>2. SettingsTypeOK'
  <2>1. s' \in SettingsData
    BY <1>1, TakenOverTyped DEF SettingsTypeOK, SettingsRead
  <2>2. QED
    BY <1>1, <2>1 DEF SettingsTypeOK, SettingsRead
<1>3. Control'
  <2>1. s'.tracked = s.tracked
    BY <1>1, TakenOverTyped DEF SettingsTypeOK, SettingsRead
  <2>2. QED
    BY <1>1, <2>1 DEF Control, SettingsRead
<1>4. Holds'
  <2>1. \A k \in Keys : s'.values[k] = IF persistent[k] # Unset THEN persistent[k] ELSE s.values[k]
    BY <1>1, TakenOverTyped DEF SettingsTypeOK, SettingsRead
  <2>2. Claims(s)
    BY <1>1 DEF Holds, SettingsRead
  <2>3. \A k \in Keys \ doubted' : s'.values[k] \in {Zero, Unset, persistent[k]}
    BY <2>1, <2>2 DEF Claims, SettingsRead
  <2>4. QED
    BY <2>3 DEF Holds, Claims, SettingsRead
<1>5. Reset'
  BY <1>1, NoEntryTyped DEF Control, Reset, SettingsTypeOK, SettingsRead
<1>6. QED
  BY <1>2, <1>3, <1>4, <1>5 DEF IInv

(* What was read before the error holds too. *)
LEMMA SettingsReadFailsStep ==
  ASSUME IInv, SettingsReadFails
  PROVE  IInv'
<1>1. SettingsTypeOK /\ Control /\ Holds /\ Reset
  BY DEF IInv
<1>2. SettingsTypeOK'
  <2> PICK ks \in SUBSET Keys : SettingsFailed(TakenOver(s, ks))
    BY DEF SettingsReadFails
  <2>1. TakenOver(s, ks) \in SettingsData
    BY <1>1, TakenOverTyped DEF SettingsTypeOK
  <2>2. declared' \in SettingsData
    BY <1>1, <2>1 DEF SettingsFailed, SettingsTypeOK, SettingsData
  <2>3. QED
    BY <1>1, <2>2, NoEntryTyped DEF SettingsTypeOK, SettingsReadFails, SettingsFailed, SettingsIdle
<1>3. Control'
  BY <1>1, NoEntryTyped DEF Control, SettingsTypeOK, SettingsData, SettingsReadFails, SettingsFailed, SettingsIdle
<1>4. Holds'
  <2> PICK ks \in SUBSET Keys : SettingsFailed(TakenOver(s, ks))
    BY DEF SettingsReadFails
  <2> DEFINE data == TakenOver(s, ks)
  <2>1. Claims(s) /\ s \in SettingsData /\ persistent' = persistent
    BY <1>1 DEF Holds, SettingsReadFails, SettingsTypeOK
  <2>2. Claims(data) /\ data \in SettingsData
    BY <1>1, <2>1, ReadHolds, TakenOverTyped
  <2> HIDE DEF data
  <2>3. CASE sop = "create"
    <3>1. ~declared.tracked
      BY <1>1, <2>3 DEF Control
    <3>2. declared' = declared \/ declared' = [data EXCEPT !.tainted = TRUE]
      BY <2>3 DEF SettingsFailed, data
    <3>3. declared'.tracked => declared'.values = data.values /\ doubted' = doubted
      BY <2>2, <3>1, <3>2 DEF SettingsData, SettingsReadFails
    <3>4. QED
      BY <2>1, <2>2, <3>3 DEF Holds, Claims, SettingsFailed, SettingsIdle
  <2>4. CASE sop = "import"
    <3>1. declared' = declared /\ ~declared.tracked
      BY <1>1, <2>4 DEF Control, SettingsFailed
    <3>2. QED
      BY <3>1 DEF Holds, SettingsFailed, SettingsIdle
  <2>5. CASE sop = "refresh"
    <3>1. declared' = declared /\ s = declared
      BY <1>1, <2>5 DEF Control, SettingsFailed, SettingsReadFails
    <3>2. QED
      BY <2>1, <3>1 DEF Holds, Claims, SettingsFailed, SettingsIdle, SettingsReadFails
  <2>6. QED
    BY <1>1, <2>3, <2>4, <2>5 DEF Control, SettingsReadFails
<1>5. Reset'
  BY <1>1, NoEntryTyped DEF Control, Reset, SettingsTypeOK, SettingsReadFails, SettingsFailed, SettingsIdle
<1>6. QED
  BY <1>2, <1>3, <1>4, <1>5 DEF IInv

(* A reset leaves nothing. *)
LEMMA SettingsClearStep ==
  ASSUME IInv, SettingsClear
  PROVE  IInv'
<1>1. SettingsTypeOK /\ Control /\ Holds /\ Reset
  BY DEF IInv
<1>2. SettingsTypeOK'
  <2>1. Nothing \in Settings
    BY DEF Nothing, Settings
  <2>2. QED
    BY <1>1, <2>1, NoEntryTyped DEF SettingsTypeOK, SettingsClear, Cleared
<1>3. Control'
  BY <1>1, NoEntryTyped DEF Control, SettingsTypeOK, SettingsData, SettingsClear, Cleared, Nothing
<1>4. Holds'
  BY <1>1, NoEntryTyped DEF Control, Holds, Claims, SettingsTypeOK, SettingsClear, Cleared, Nothing
<1>5. Reset'
  BY <1>1, NoEntryTyped DEF Control, Reset, SettingsTypeOK, SettingsClear, Cleared, Nothing
<1>6. QED
  BY <1>2, <1>3, <1>4, <1>5 DEF IInv

(* After a reset that fails everything is doubted. *)
LEMMA SettingsClearFailsStep ==
  ASSUME IInv, SettingsClearFails
  PROVE  IInv'
<1>1. SettingsTypeOK /\ Control /\ Holds /\ Reset
  BY DEF IInv
<1>2. SettingsTypeOK'
  <2>1. Nothing \in Settings
    BY DEF Nothing, Settings
  <2>2. declared' = declared
    BY <1>1 DEF Control, SettingsClearFails, SettingsFailed
  <2>3. QED
    BY <1>1, <2>1, <2>2, NoEntryTyped DEF SettingsTypeOK, SettingsClearFails, Cleared, SettingsFailed, SettingsIdle
<1>3. Control'
  BY <1>1, NoEntryTyped DEF Control, SettingsTypeOK, SettingsData, SettingsClearFails, Cleared, SettingsFailed, SettingsIdle
<1>4. Holds'
  BY <1>1, NoEntryTyped DEF Control, Holds, Claims, SettingsTypeOK, SettingsClearFails, Cleared, SettingsFailed, SettingsIdle
<1>5. Reset'
  BY <1>1, NoEntryTyped DEF Control, Reset, SettingsTypeOK, SettingsClearFails, Cleared, SettingsFailed, SettingsIdle
<1>6. QED
  BY <1>2, <1>3, <1>4, <1>5 DEF IInv

(* Every step keeps the invariant.                                           *)
LEMMA NextStep == ASSUME IInv, [SettingsNext]_settingsVars PROVE IInv'
<1>1. CASE SettingsHandler
  BY <1>1, SettingsReturnStep, SettingsPutStep, SettingsPutFailsStep,
     SettingsReadStep, SettingsReadFailsStep, SettingsClearStep,
     SettingsClearFailsStep
     DEF SettingsHandler
<1>2. CASE SettingsCore
  BY <1>2, StartSettingsCreateStep, StartSettingsImportStep,
     StartSettingsRefreshStep, StartSettingsUpdateStep,
     StartSettingsDeleteStep, SettingsCrashStep
     DEF SettingsCore
<1>3. CASE SettingsElsewhere
  BY <1>3, SettingsElsewhereStep
<1>4. CASE UNCHANGED settingsVars
  BY <1>4 DEF settingsVars, settingsHandler, IInv, SettingsTypeOK, Control, Holds, Claims, Reset
<1>5. QED
  BY <1>1, <1>2, <1>3, <1>4 DEF SettingsNext

-----------------------------------------------------------------------------

(* The invariant of every behaviour.                                         *)
THEOREM Invariance == SettingsSpec => []IInv
<1>1. IInv /\ [SettingsNext]_settingsVars => IInv'
  BY NextStep
<1>2. QED
  BY <1>1, Initially, PTL DEF SettingsSpec

(* Every variable keeps its type: a PUT or a read of some settings does not  *)
(* lose the others.                                                          *)
THEOREM SettingsTypeCorrect == SettingsSpec => []SettingsTypeOK
<1>1. IInv => SettingsTypeOK
  BY DEF IInv
<1>2. QED
  BY <1>1, Invariance, PTL

(* What a plan may rely on when it compares the configuration with the entry *)
(* alone.                                                                    *)
THEOREM EntryTruthful == SettingsSpec => []TruthfulEntry
<1>1. IInv => TruthfulEntry
  BY DEF IInv, Holds, Claims, TruthfulEntry
<1>2. QED
  BY <1>1, Invariance, PTL

(* A destroy with reset_settings_on_delete leaves no setting.                *)
THEOREM AllReset == SettingsSpec => ResetClears
<1>1. IInv /\ [SettingsNext]_settingsVars =>
        [SettingsReturn /\ sop = "delete" /\ declared.reset
           => \A k \in Keys \ doubted : persistent'[k] = Unset]_settingsVars
  BY DEF IInv, Reset, SettingsReturn
<1>2. QED
  BY <1>1, Invariance, PTL DEF SettingsSpec, ResetClears

(* SettingsPut sends what the entry sets and nothing else; only             *)
(* clearAllSettings goes beyond it.                                         *)
THEOREM KeepsToItsOwn == SettingsSpec => ChangesOnlyItsOwn
<1>1. ASSUME IInv, [SettingsNext]_settingsVars, settingsHandler' # settingsHandler,
             NEW k \in Keys, persistent'[k] # persistent[k]
      PROVE  \/ /\ sop \in {"create", "update"}
                /\ k \in Sent(s) /\ persistent'[k] = s.values[k]
             \/ /\ sop = "delete" /\ declared.tracked /\ declared.reset
                /\ persistent'[k] = Unset
  <2>1. SettingsTypeOK /\ Control
    BY <1>1 DEF IInv
  <2>2. CASE spc = "put" /\ persistent' = Laid
    BY <1>1, <2>1, <2>2, LaidTyped DEF Control
  <2>3. CASE spc = "clear" /\ Cleared
    BY <1>1, <2>1, <2>3 DEF Control, Cleared, Nothing
  <2>4. CASE UNCHANGED persistent
    BY <1>1, <2>4
  <2>5. QED
    BY <1>1, <2>2, <2>3, <2>4
    DEF SettingsNext, SettingsHandler, SettingsCore, SettingsElsewhere, SettingsPut,
        SettingsPutFails, SettingsRead, SettingsReadFails, SettingsClear, SettingsClearFails,
        SettingsReturn, StartSettingsCreate, StartSettingsImport, StartSettingsRefresh,
        StartSettingsUpdate, StartSettingsDelete, SettingsStarts, SettingsCrash, settingsVars
<1>2. IInv /\ [SettingsNext]_settingsVars =>
        [settingsHandler' # settingsHandler =>
           \A k \in Keys : persistent'[k] # persistent[k] =>
             \/ /\ sop \in {"create", "update"}
                /\ k \in Sent(s) /\ persistent'[k] = s.values[k]
             \/ /\ sop = "delete" /\ declared.tracked /\ declared.reset
                /\ persistent'[k] = Unset]_settingsVars
  BY <1>1
<1>3. QED
  BY <1>2, Invariance, PTL DEF SettingsSpec, ChangesOnlyItsOwn

(* Every step of a handler takes it nearer to its return, and nothing others *)
(* do meanwhile sets it back: no request is ever repeated.                   *)
StepsLeft ==
  CASE spc = "idle" -> 0 [] spc = "done" -> 1 [] spc \in {"read", "clear"} -> 2
    [] spc = "put" -> 3

HandlersAdvance ==
  [][/\ SettingsHandler => StepsLeft' < StepsLeft
     /\ spc # "idle" => StepsLeft' < StepsLeft \/ UNCHANGED settingsHandler]_settingsVars

(* A handler of the cluster settings sends two requests at most.            *)
THEOREM HandlersRunOut == SettingsSpec => HandlersAdvance
<1>1. ASSUME IInv, SettingsHandler PROVE StepsLeft' < StepsLeft
  BY <1>1 DEF IInv, SettingsTypeOK, StepsLeft, SettingsHandler, SettingsPut, SettingsPutFails,
     SettingsRead, SettingsReadFails, SettingsClear, SettingsClearFails, SettingsReturn,
     SettingsFailed, SettingsIdle
<1>2. ASSUME IInv, SettingsNext, spc # "idle"
      PROVE  StepsLeft' < StepsLeft \/ UNCHANGED settingsHandler
  <2>1. CASE SettingsHandler
    BY <1>1, <1>2, <2>1
  <2>2. CASE SettingsCrash
    BY <1>2, <2>2 DEF IInv, SettingsTypeOK, StepsLeft, SettingsCrash, SettingsIdle
  <2>3. CASE SettingsElsewhere
    BY <2>3 DEF SettingsElsewhere
  <2>4. QED
    BY <1>2, <2>1, <2>2, <2>3
    DEF SettingsNext, SettingsCore, StartSettingsCreate, StartSettingsImport,
        StartSettingsRefresh, StartSettingsUpdate, StartSettingsDelete, SettingsStarts
<1>3. IInv /\ [SettingsNext]_settingsVars =>
        [/\ SettingsHandler => StepsLeft' < StepsLeft
         /\ spc # "idle" => StepsLeft' < StepsLeft \/ UNCHANGED settingsHandler]_settingsVars
  BY <1>1, <1>2
<1>4. QED
  BY <1>3, Invariance, PTL DEF SettingsSpec, HandlersAdvance
=============================================================================
