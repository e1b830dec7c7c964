----------------------------- MODULE MCExecutor -----------------------------
(***************************************************************************)
(* A session with two turns and two closes, a session forked from it, and  *)
(* a command; two callers submit one operation twice, with the same or    *)
(* with other inputs, or two that meet on a session.                      *)
(***************************************************************************)
EXTENDS Executor, TLC

CONSTANTS c1, c2

MCSessionOf == [o \in {"t1", "t2", "x", "y"} |-> "s"] @@ [o \in {"f"} |-> "u"]
MCParentOf == [s \in {"s"} |-> None] @@ [s \in {"u"} |-> "s"]
MCPlan(a, b, old) == [job |-> (c1 :> a) @@ (c2 :> b), old |-> old]
MCPlans ==
  {MCPlan(<<o, "i">>, <<o, "i">>, {}) : o \in Ops \ {"t2", "y"}}
  \cup {MCPlan(<<"k", "i">>, <<"k", "j">>, {}), MCPlan(<<"x", "i">>, <<"x", "i">>, {"s"})}
  \cup {MCPlan(<<"t1", "i">>, <<o, "i">>, {}) : o \in {"t2", "x", "f"}}
  \cup {MCPlan(<<"f", "i">>, <<"x", "i">>, {"s"}), MCPlan(<<"x", "i">>, <<"y", "i">>, {"s"})}
=============================================================================
