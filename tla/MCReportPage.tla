---------------------------- MODULE MCReportPage ----------------------------
(* A page with one repository, a leaf from it and a leaf from elsewhere    *)
(* that share an automatic package, and one user account. The second leaf  *)
(* is installed for two architectures.                                     *)
EXTENDS ReportPage, TLC

CONSTANTS r1, a, b, x, u, t

MCTwinOf       == (t :> b)
MCProvides     == (r1 :> {a})
MCDomOrder     == (r1 :> 1)
MCDeps         == [l \in {a, b} |-> {x}]
MCItems        == {r1, a, b, x, u, t}
MCSnapshot     == [include : [MCItems -> BOOLEAN], strategy : [{u} -> {"sysusers", "useradd"}]]
\* A fresh inspection: everything included.
MCInspected    == {[include |-> [i \in MCItems |-> TRUE], strategy |-> [v \in {u} |-> "sysusers"]]}
=============================================================================
