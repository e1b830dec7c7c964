------------------------------- MODULE Journal -------------------------------
(***************************************************************************)
(* What a run store promises its users (runstore/store.go, Run): a journal *)
(* of entries, each a set of facts.  Readers only ever see it grow; no     *)
(* record ID and no unique key comes twice; and what a committed Append    *)
(* acknowledged is in it.  Nothing is said about when facts appear: a fact *)
(* nobody was told about may surface later or be lost.                     *)
(***************************************************************************)
EXTENDS Naturals, Sequences

CONSTANT UniqueKinds

VARIABLES
  entries,   \* what readers have been shown
  acked      \* the facts whose committed Append returned

Facts(e) == UNION {e[i].facts : i \in 1..Len(e)}

Extends(e, d) == Len(d) <= Len(e) /\ \A i \in 1..Len(d) : e[i] = d[i]

Limited(f) == f.kind \in UniqueKinds \cup {"node-created"}

\* No two facts share a record ID, and no two share a node and a limited kind.
OneFactPerKey(e) ==
  \A f, g \in Facts(e) :
    f # g => /\ f.id # g.id
             /\ ~(Limited(f) /\ f.kind = g.kind /\ f.node = g.node)

Init == entries = <<>> /\ acked = {}

Publish ==
  /\ Extends(entries', entries)
  /\ OneFactPerKey(entries')
  /\ acked \subseteq acked' /\ acked' \subseteq Facts(entries')

Spec == Init /\ [][Publish]_<<entries, acked>>
=============================================================================
