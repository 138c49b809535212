--------------------------- MODULE ContextHistory ---------------------------
(***************************************************************************)
(* What the canonical context of a project promises its readers, with no   *)
(* branches, reviews, requests or retries: a log of applied Deltas and the *)
(* items that are in force.  The log only grows, applies each Delta once,  *)
(* and every entry replaces exactly the items in force just before it.     *)
(***************************************************************************)
EXTENDS Naturals, Sequences

CONSTANTS Deltas, None

VARIABLES log, items

Slot(v) == <<v.topic, v.scope>>
Name(v) == <<v.lineage, v.commit>>

\* One item of each lineage, one authoritative active item in each slot.
Consistent(S) ==
  /\ \A v, w \in S : v.lineage = w.lineage => v = w
  /\ \A v, w \in {u \in S : u.lifecycle = "active" /\ u.authority = "authoritative"} :
       Slot(v) = Slot(w) => v = w

\* Lineages are never dropped; a changed one continues the item it replaces
\* and a new one continues nothing.
Succeeds(new, old) ==
  /\ \A v \in old : \E w \in new : w.lineage = v.lineage
  /\ \A w \in new \ old :
       \/ \E v \in old : v.lineage = w.lineage /\ w.previous = Name(v)
       \/ w.previous = None /\ \A v \in old : v.lineage # w.lineage

Init == log = <<>> /\ items = {}

Apply(d) ==
  /\ \A i \in DOMAIN log : log[i] # d
  /\ log' = Append(log, d)
  /\ items' # items
  /\ Succeeds(items', items)
  /\ Consistent(items')

Next == \E d \in Deltas : Apply(d)

Spec == Init /\ [][Next]_<<log, items>>
=============================================================================
