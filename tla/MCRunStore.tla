----------------------------- MODULE MCRunStore -----------------------------
(* Two workflow goroutines write the facts of one action: its intent, its    *)
(* outcome, and a second outcome with the same unique key.                   *)
EXTENDS RunStore, TLC

Fact(id, kind) == [id |-> <<"action", id>>, node |-> "action", kind |-> kind]

MCSlots       == {"action"}
MCUniqueKinds == {"intent", "outcome"}
MCBatches     == {{Fact("i", "intent")},
                  {Fact("i", "intent"), Fact("o1", "outcome")},
                  {Fact("o2", "outcome")}}

\* For the liveness run: facts of the root node, which needs no EnsureNode.
LiveBatches == {{[id |-> <<"root", k>>, node |-> "root", kind |-> k]} : k \in {"intent", "outcome"}}

MCSymmetry == Permutations(Clients)
=============================================================================
