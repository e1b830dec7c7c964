------------------------------ MODULE MCScopes ------------------------------
(***************************************************************************)
(* Small workflows for module Scopes: a group of two children, a loop with *)
(* two tasks, an iteration over two items and two nested scopes, with two  *)
(* services each.                                                          *)
(***************************************************************************)
EXTENDS Scopes

MCScopes == {"root", "a", "b", "c"}
MCServices == {"v", "w"}

\* parents, kinds and calls in the order a, b, c; owners in the order v, w
Shape(pa, pb, pc, ka, kb, kc, ca, cb, cc, ov, ow) ==
  LET of(s, a, b, c, r) == IF s = "a" THEN a ELSE IF s = "b" THEN b ELSE IF s = "c" THEN c ELSE r
      up(s) == of(s, pa, pb, pc, "none")
      above(s) == {s, up(s)} \cup {up(up(s)), up(up(up(s)))}
  IN [parent |-> [s \in MCScopes |-> up(s)],
      kind   |-> [s \in MCScopes |-> of(s, ka, kb, kc, "root")],
      calls  |-> [s \in MCScopes |-> of(s, ca, cb, cc, {})],
      above  |-> [s \in MCScopes |-> above(s) \ {"none"}],
      owner  |-> [x \in MCServices |-> IF x = "v" THEN ov ELSE ow]]

GroupShape == Shape("root", "a", "a", "group", "scope", "scope", {}, {"turn"}, {"command"}, "none", "none")
LoopShape  == Shape("root", "a", "a", "loop", "task", "task", {}, {"turn"}, {}, "none", "b")
ItemShape  == Shape("root", "root", "none", "item", "item", "scope", {}, {"turn"}, {}, "root", "a")
ScopeShape == Shape("root", "none", "none", "scope", "scope", "scope", {"turn"}, {}, {}, "a", "a")

MCTrees == {GroupShape, LoopShape, ItemShape, ScopeShape}
MCGroup == {GroupShape}
=============================================================================
