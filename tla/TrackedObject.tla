--------------------------- MODULE TrackedObject ---------------------------
(***************************************************************************)
(* What a managed resource promises its user, whatever kind of object it   *)
(* stands for: the state file names at most one object, an object that     *)
(* exists is named by the state file, held by the operation under way or   *)
(* known to have been lost, and an entry leaves the state file only when   *)
(* the object it names is gone.                                            *)
(*                                                                         *)
(* The detailed specifications (MLModel, ...) implement this one: they     *)
(* instantiate it with a refinement mapping and check TrackedObject!Spec.  *)
(***************************************************************************)
CONSTANTS Ids,      \* identifiers the server may hand out
          NoId      \* d.Id() = "": no object

VARIABLES live,     \* objects that exist on the server
          tracked,  \* the object named by the state file, or NoId
          held,     \* objects only the running operation knows
          orphans   \* objects whose identifier was lost

vars == <<live, tracked, held, orphans>>

Init ==
  /\ live = {}
  /\ tracked = NoId
  /\ held = {}
  /\ orphans = {}

(* The server makes object i; its answer reaches the operation or is lost. *)
Appear(i) ==
  /\ i \notin live \cup held \cup orphans \cup {tracked}
  /\ live' = live \cup {i}
  /\ \/ held' = held \cup {i} /\ UNCHANGED orphans
     \/ orphans' = orphans \cup {i} /\ UNCHANGED held
  /\ UNCHANGED tracked

(* The operation ends by writing the object it holds to the state file. *)
Adopt(i) ==
  /\ tracked = NoId
  /\ i \in held
  /\ tracked' = i
  /\ held' = held \ {i}
  /\ UNCHANGED <<live, orphans>>

(* The operation ends, or dies, without having written its object down. *)
Lose(i) ==
  /\ i \in held
  /\ held' = held \ {i}
  /\ orphans' = orphans \cup {i}
  /\ UNCHANGED <<live, tracked>>

(* The operation finds the object it holds gone, and forgets it. *)
Discard(i) ==
  /\ i \in held \ live
  /\ held' = held \ {i}
  /\ UNCHANGED <<live, tracked, orphans>>

(* An object goes away, by this resource's doing or by someone else's. *)
Vanish(i) ==
  /\ i \in live
  /\ live' = live \ {i}
  /\ UNCHANGED <<tracked, held, orphans>>

(* The entry leaves the state file: its object is gone after this step. *)
Forget ==
  /\ tracked # NoId
  /\ tracked' = NoId
  /\ live' = live \ {tracked}
  /\ UNCHANGED <<held, orphans>>

Next ==
  \/ \E i \in Ids : Appear(i) \/ Adopt(i) \/ Lose(i) \/ Discard(i) \/ Vanish(i)
  \/ Forget

Spec == Init /\ [][Next]_vars
=============================================================================
