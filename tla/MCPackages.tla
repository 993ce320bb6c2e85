----------------------------- MODULE MCPackages -----------------------------
(* Three packages, 1 to 3, with any requirements among them, cycles        *)
(* included, one of which may be met by another package; podman, 4, which  *)
(* is there or not and may require 3; and 5, a package of the base image.  *)
EXTENDS Packages

MCNames == 1..5
MCTool  == 4

Own == 1..3

Graph(edges) == [p \in MCNames |-> {q \in MCNames : <<p, q>> \in edges}]

\* What dnf installs for edges: all, or all but one with an alternative.
Choices(edges) ==
    {edges} \cup {edges \ {e} : e \in {e \in edges \ {<<4, 3>>} :
                                         \E a \in edges : a[1] = e[1] /\ a[2] # e[2]}}

Requirements == SUBSET {e \in Own \X Own : e[1] # e[2]}

HostsWith(edges, there, extra) ==
    {[requires |-> Graph(edges), pulls |-> Graph(pulled),
      installed |-> {1, 2, 3, 5} \cup there, base |-> {5} \cup extra] :
        pulled \in Choices(edges)}

MCHosts ==
    {h \in UNION {HostsWith(edges, there, extra) :
                    edges \in Requirements \cup {r \cup {<<4, 3>>} : r \in Requirements},
                    there \in {{}, {4}}, extra \in {{}, {3}}} :
        /\ 4 \in h.installed => h.requires[4] = {}
        /\ Below(h.pulls, h.base) \subseteq h.base}
=============================================================================
