--------------------------- MODULE SharedDocument ---------------------------
(***************************************************************************)
(* What a document promises that several state files manage, and others    *)
(* change too: an Update replaces only what its author has seen, and once  *)
(* for each time it looked; an exclusive document is never created over    *)
(* another; a state file names the document from its own Create on, until  *)
(* the step in which its own Delete removes it.                            *)
(*                                                                         *)
(* Nothing is said of versions, attempts or lost answers: PolicyVersioning *)
(* implements this specification with them.                                *)
(***************************************************************************)
CONSTANTS Actors,     \* those who manage the document
          Other,      \* everybody else
          Bodies,     \* what a document says
          NoBody      \* there is no document

VARIABLES
  exclusive,  \* a Create refuses to replace a document
  doc,        \* the document
  writer,     \* who wrote or removed it last, and by which operation
  current,    \* those who have seen the document as it is
  making,     \* those whose Create was answered and has not returned
  tracked     \* those whose state file names the document

vars == <<exclusive, doc, writer, current, making, tracked>>

Init ==
  /\ exclusive \in BOOLEAN
  /\ doc = NoBody /\ writer = <<Other, "none">>
  /\ current = {} /\ making = {} /\ tracked = {}

(* Nobody has seen the document that replaces another. *)
Replaced(b, a, o) ==
  /\ doc' = b
  /\ writer' = <<a, o>>
  /\ current' = {}
  /\ UNCHANGED exclusive

(* The answer may be lost, and the author none the wiser. *)
Create(a, b) ==
  /\ exclusive => doc = NoBody
  /\ Replaced(b, a, "create")
  /\ \/ a \notin tracked /\ making' = making \cup {a}
     \/ UNCHANGED making
  /\ UNCHANGED tracked

Update(a, b) ==
  /\ a \in current
  /\ Replaced(b, a, "update")
  /\ UNCHANGED <<making, tracked>>

Delete(a) ==
  /\ doc # NoBody
  /\ Replaced(NoBody, a, "delete")
  /\ tracked' \in {tracked, tracked \ {a}}
  /\ UNCHANGED making

(* The document is read and its entry written to the state file. *)
Look(a) ==
  /\ doc # NoBody /\ a \in making \cup tracked
  /\ current' = current \cup {a}
  /\ making' = making \ {a}
  /\ tracked' = tracked \cup {a}
  /\ UNCHANGED <<exclusive, doc, writer>>

(* A Create that was answered fails later on, or its process dies. *)
Settle(a) ==
  /\ a \in making
  /\ making' = making \ {a}
  /\ tracked' \in {tracked, tracked \cup {a}}
  /\ UNCHANGED <<exclusive, doc, writer, current>>

Interfere ==
  /\ \E b \in Bodies \cup {NoBody} : Replaced(b, Other, "none")
  /\ UNCHANGED <<making, tracked>>

Next ==
  \/ \E a \in Actors :
       \/ Delete(a) \/ Look(a) \/ Settle(a)
       \/ \E b \in Bodies : Create(a, b) \/ Update(a, b)
  \/ Interfere

Spec == Init /\ [][Next]_vars
=============================================================================
