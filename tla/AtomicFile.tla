----------------------------- MODULE AtomicFile -----------------------------
(***************************************************************************)
(* What state.write_json promises ("Atomic writes with backup-before-write", *)
(* app/services/state.py): readers get one whole document, a request that  *)
(* is answered with success adds its own update to it and loses none, and  *)
(* the document it replaces is whole in a backup at that moment.  How long *)
(* a backup stays is not promised: a later one of the same second takes    *)
(* its place, and copies that were cut off count among those that are kept.*)
(***************************************************************************)

CONSTANT Updates   \* the changes that requests make

VARIABLES
  doc,     \* the document a reader gets: the set of updates it reflects
  acked,   \* the updates whose request was answered with success
  kept     \* the documents that are in some backup

vars == <<doc, acked, kept>>

Init == doc = {} /\ acked = {} /\ kept = {}

Save(u) ==
  /\ u \notin doc
  /\ doc = {} \/ doc \in kept
  /\ doc' = doc \union {u}
  /\ acked' = acked \union {u}
  /\ UNCHANGED kept

\* A backup of the document is complete, or others are dropped.
Backup ==
  /\ kept' \subseteq kept \union {doc}
  /\ UNCHANGED <<doc, acked>>

Next == Backup \/ \E u \in Updates : Save(u)

Spec == Init /\ [][Next]_vars

=============================================================================
