--------------------------- MODULE MCRefineSession ---------------------------
(* One row, two requests  outstanding, and a tarball that carries an       *)
(* entitlement directory which renderings do not.                          *)
EXTENDS RefineSession

CONSTANT c

MCNone        == [i \in {} |-> {}]
MCItems       == {c}
MCSnapshot    == [include : [MCItems -> BOOLEAN], strategy : [{} -> {}]]
MCAll         == [include |-> [i \in MCItems |-> TRUE], strategy |-> MCNone]
MCInspected   == {MCAll}
=============================================================================
