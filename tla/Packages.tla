------------------------------ MODULE Packages ------------------------------
(***************************************************************************)
(* The packages of a host on their way into the image: run-yoinkc.sh       *)
(* installs the tool it needs, the rpm inspector takes off the baseline    *)
(* and splits what is left into leaves and automatic packages over a       *)
(* dependency graph it queries (inspectors/rpm.py), the operator excludes  *)
(* some in the report, and the Containerfile installs and enables what is  *)
(* left (renderers/containerfile.py).                                      *)
(*                                                                         *)
(* A package is its name, a number in sorted order. Each has one unit that *)
(* is enabled on the host against the default, owned by it. What dnf then  *)
(* installs into the image is external: all that the named packages pull.  *)
(***************************************************************************)
EXTENDS Naturals, FiniteSets

CONSTANTS
    Names,      \* package names
    Tool,       \* podman
    Hosts,      \* what a host has: see HostAssumption
    MaxLost,    \* bound: direct requirements rpm cannot resolve
    None        \* Python's None

Graphs == [Names -> SUBSET Names]

\* What packages of from require in g, directly or not: the least set that has
\* their requirements and is closed.
Below(g, from) ==
    {q \in Names : \A C \in SUBSET Names :
        ((\A p \in from : g[p] \subseteq C) /\ (\A p \in C : g[p] \subseteq C)) => q \in C}

With(g, from) == from \cup Below(g, from)

\* requires: a package that provides what is required, as the queries answer;
\* pulls: the one dnf installs for it, when several provide it.
ASSUME HostAssumption ==
    /\ Names \subseteq Nat /\ IsFiniteSet(Names) /\ Tool \in Names /\ MaxLost \in Nat
    /\ \A S \in SUBSET Names : None # S
    /\ \A h \in Hosts :
        /\ h.requires \in Graphs /\ h.pulls \in Graphs
        /\ h.installed \in SUBSET Names /\ h.base \in SUBSET Names
        /\ \A p \in Names : h.pulls[p] \subseteq h.requires[p] /\ p \notin h.requires[p]
        /\ Below(h.pulls, h.base) \subseteq h.base
        /\ Below(h.pulls, h.installed) \subseteq h.installed

VARIABLES
    host,       \* the host's graph and the packages of its base image
    installed,
    tools,      \* YOINKC_EXCLUDE_PREREQS
    phase,
    rpm,        \* the snapshot's section
    marked,     \* added packages dnf has as asked for, or None
    deps,       \* depends_on, over the added packages
    walk,       \* the walk from one leaf: leaf, reachable, stack
    excluded    \* packages unchecked in the report

packageVars == <<host, installed, tools, phase, rpm, marked, deps, walk, excluded>>

NoWalk == [leaf |-> None, reachable |-> {}, stack |-> {}]
NoTree == [l \in {} |-> {}]
NoRpm  == [baseline |-> None, added |-> {}, leaf |-> None, auto |-> None, tree |-> NoTree]
NoDeps == [p \in Names |-> {}]

PackagesInit ==
    /\ \E h \in Hosts :
        /\ host = [requires |-> h.requires, pulls |-> h.pulls, base |-> h.base]
        /\ installed = h.installed
    /\ tools = {} /\ phase = "host" /\ rpm = NoRpm /\ marked = None
    /\ deps = NoDeps /\ walk = NoWalk /\ excluded = {}
-----------------------------------------------------------------------------
(* run-yoinkc.sh *)

\* The tool is installed when it is missing, and is in the environment of this
\* run alone; without a login the run stops there, to be started again.
Wrapper ==
    /\ phase = "host"
    /\ LET new == {Tool} \ installed IN
        /\ installed' = installed \cup (IF new = {} THEN {} ELSE With(host.pulls, new))
        /\ \/ tools' = new /\ phase' = "inspect"
           \/ UNCHANGED <<tools, phase>>
    /\ UNCHANGED <<host, rpm, marked, deps, walk, excluded>>
-----------------------------------------------------------------------------
(* inspectors/rpm.py *)

\* rpm -qa against the baseline, if there is one.
Inspect ==
    /\ phase = "inspect"
    /\ \E baseline \in {host.base, None} :
        LET added == (IF baseline = None THEN installed ELSE installed \ baseline) \ tools
        IN  /\ rpm' = [baseline |-> baseline, added |-> added,
                       leaf |-> None, auto |-> None, tree |-> NoTree]
            /\ phase' = IF baseline # None /\ added # {} THEN "marks" ELSE "report"
    /\ UNCHANGED <<host, installed, tools, marked, deps, walk, excluded>>

\* _query_user_installed(): dnf answers with any of the packages, or not at all.
AskMarks ==
    /\ phase = "marks"
    /\ marked' \in {None} \cup SUBSET rpm.added
    /\ phase' = "dnf"
    /\ UNCHANGED <<host, installed, tools, rpm, deps, walk, excluded>>

\* Fault: an answer counts with all the packages of the host in it.
WholeAnswer(p) == Below(host.requires, {p})

DnfAnswer(p) == (Below(host.requires, {p}) \cap rpm.added) \ {p}

\* _classify_deps_via_dnf(): the first package's query decides on rpm instead;
\* any other that fails leaves its package without dependencies.
FirstName(S) == CHOOSE p \in S : \A q \in S : p <= q

AskDnf ==
    /\ phase = "dnf"
    /\ \/ \E lost \in SUBSET (rpm.added \ {FirstName(rpm.added)}) :
            /\ deps' = [p \in Names |-> IF p \in rpm.added \ lost THEN DnfAnswer(p) ELSE {}]
            /\ phase' = "classify"
       \/ phase' = "rpm" /\ UNCHANGED deps
    /\ UNCHANGED <<host, installed, tools, rpm, marked, walk, excluded>>

\* _classify_deps_via_rpm(): direct requirements, without those that are paths
\* and those in a batch of which one has no provider.
AskRpm ==
    /\ phase = "rpm"
    /\ LET direct == {e \in rpm.added \X rpm.added : e[2] \in host.requires[e[1]]}
       IN \E lost \in SUBSET direct :
            /\ Cardinality(lost) <= MaxLost
            /\ deps' = [p \in Names |-> {q \in Names : <<p, q>> \in direct \ lost}]
    /\ phase' = "rpm classify"
    /\ UNCHANGED <<host, installed, tools, rpm, marked, walk, excluded>>

DependedOn == UNION {deps[p] : p \in rpm.added}

\* Faults: an answer without any of the added packages counts; a leaf is what
\* depends on nothing.
MarkedIfAnswered == IF marked = None THEN rpm.added \ DependedOn ELSE marked
Independent == IF marked \in {None, {}} THEN {p \in rpm.added : deps[p] = {}} ELSE marked

\* What dnf has as asked for, or what no added package depends on.
Leaves == IF marked \in {None, {}} THEN rpm.added \ DependedOn ELSE marked

\* _classify_leaf_auto(): dnf's answers are closed already, rpm's are walked.
Classify ==
    /\ phase \in {"classify", "rpm classify"}
    /\ LET auto == rpm.added \ Leaves IN
        rpm' = [baseline |-> rpm.baseline, added |-> rpm.added, leaf |-> Leaves, auto |-> auto,
                tree |-> IF phase = "classify" THEN [l \in Leaves |-> deps[l] \cap auto]
                                               ELSE NoTree]
    /\ phase' = IF phase = "classify" THEN "report" ELSE "walk"
    /\ UNCHANGED <<host, installed, tools, marked, deps, walk, excluded>>

Unwalked == rpm.leaf \ DOMAIN rpm.tree

\* The leaves one after the other; their order makes no difference.
StartWalk ==
    /\ phase = "walk" /\ walk = NoWalk
    /\ \E l \in Unwalked : walk' = [leaf |-> l, reachable |-> {}, stack |-> deps[l]]
    /\ UNCHANGED <<host, installed, tools, phase, rpm, marked, deps, excluded>>

\* Fault: what a dependency depends on is not followed.
PushedNothing(dep, reachable) == {}

Pushed(dep, reachable) == deps[dep] \ reachable

\* The stack is the set of its entries, which the loop takes off in any order;
\* a second entry of a dependency is skipped by the loop and is none here.
Pop ==
    /\ phase = "walk"
    /\ \E dep \in walk.stack :
        LET reachable == walk.reachable \cup {dep} IN
        walk' = [leaf |-> walk.leaf, reachable |-> reachable,
                 stack |-> (walk.stack \ {dep}) \cup Pushed(dep, reachable)]
    /\ UNCHANGED <<host, installed, tools, phase, rpm, marked, deps, excluded>>

EndWalk ==
    /\ phase = "walk" /\ walk # NoWalk /\ walk.stack = {}
    /\ rpm' = [rpm EXCEPT !.tree = [l \in DOMAIN rpm.tree \cup {walk.leaf} |->
                    IF l = walk.leaf THEN walk.reachable \cap rpm.auto ELSE rpm.tree[l]]]
    /\ walk' = NoWalk
    /\ UNCHANGED <<host, installed, tools, phase, marked, deps, excluded>>

Classified ==
    /\ phase = "walk" /\ walk = NoWalk /\ Unwalked = {}
    /\ phase' = "report"
    /\ UNCHANGED <<host, installed, tools, rpm, marked, deps, walk, excluded>>
-----------------------------------------------------------------------------
(* The report and the Containerfile *)

Rows == IF rpm.leaf = None THEN rpm.added ELSE rpm.leaf

\* A row is unchecked, or checked again, and the result rendered. What becomes
\* of the automatic packages follows: see Shown.
Toggle ==
    /\ phase = "report"
    /\ \E p \in Rows :
        excluded' = IF p \in excluded THEN excluded \ {p} ELSE excluded \cup {p}
    /\ UNCHANGED <<host, installed, tools, phase, rpm, marked, deps, walk>>

\* Faults: every leaf is installed, excluded or not; a unit is enabled whatever
\* package it is of.
AllLeaves == IF rpm.leaf = None THEN rpm.added ELSE rpm.leaf
AllUnits == installed

\* The packages of dnf install.
InstallNames == IF rpm.leaf = None THEN rpm.added \ excluded ELSE rpm.leaf \ excluded

\* The packages a unit may be of: all leaves and their dependencies.
Installable ==
    (IF rpm.baseline = None THEN {} ELSE rpm.baseline)
    \cup (IF rpm.leaf = None THEN rpm.added \ excluded
          ELSE rpm.leaf \cup UNION {rpm.tree[l] : l \in rpm.leaf})

\* systemctl enable; no set of packages at all means that nothing is known.
EnabledUnits == {p \in installed : Installable = {} \/ p \in Installable}

\* What the build has then.
Image == host.base \cup With(host.pulls, InstallNames)

PackagesNext ==
    \/ Wrapper \/ Inspect \/ AskMarks \/ AskDnf \/ AskRpm
    \/ Classify \/ StartWalk \/ Pop \/ EndWalk \/ Classified
    \/ Toggle

PackagesSpec == PackagesInit /\ [][PackagesNext]_packageVars
-----------------------------------------------------------------------------
(* Properties *)

\* Types, and that leaves and automatic packages are the added ones.
PackagesTypeOK ==
    /\ host.requires \in Graphs /\ host.pulls \in Graphs /\ host.base \subseteq Names
    /\ \A p \in Names : p \notin host.requires[p]
    /\ installed \subseteq Names /\ tools \subseteq {Tool}
    /\ phase \in {"host", "inspect", "marks", "dnf", "rpm", "classify", "rpm classify",
                  "walk", "report"}
    /\ rpm = [baseline |-> rpm.baseline, added |-> rpm.added, leaf |-> rpm.leaf,
              auto |-> rpm.auto, tree |-> rpm.tree]
    /\ rpm.added \subseteq installed \ tools
    /\ marked \in {None} \cup SUBSET rpm.added
    /\ deps \in [Names -> SUBSET rpm.added] /\ \A p \in Names : p \notin deps[p]
    /\ rpm.tree = [l \in DOMAIN rpm.tree |-> rpm.tree[l]]
    /\ rpm.leaf = None => rpm.tree = NoTree
    /\ rpm.leaf # None => /\ rpm.leaf \subseteq rpm.added /\ rpm.auto = rpm.added \ rpm.leaf
                          /\ DOMAIN rpm.tree \subseteq rpm.leaf
    /\ walk = NoWalk \/ walk \in [leaf : Names, reachable : SUBSET Names, stack : SUBSET Names]
    /\ excluded \subseteq Rows

\* Packages of a cycle of requirements, which have each other and may have no
\* leaf above them, and such as are required only where another serves as well.
Doubtful ==
    {q \in Names : q \in Below(host.requires, {q})
                   \/ \E p \in Names : q \in host.requires[p] \ host.pulls[p]}

\* Where dnf's marks are of no help, every added package reaches the image as
\* long as nothing is excluded, whatever queries fail - but for cycles,
\* alternatives, and what these require (rpm.py: a failed query makes leaves
\* rather than loses packages).
OnlyCyclesAreLost ==
    phase = "report" /\ excluded = {} /\ marked \in {None, {}} =>
        rpm.added \ Image \subseteq With(host.requires, Doubtful)

\* The walk over rpm's direct dependencies ends with exactly the automatic
\* packages a leaf depends on, directly or not, and dnf's answers have the same:
\* the tree the report's cascade goes by (rpm.py, leaf_dep_tree).
TreeIsBelow ==
    \A l \in DOMAIN rpm.tree : rpm.tree[l] = Below(deps, {l}) \cap rpm.auto

\* The queries told all there is.
Complete ==
    \A p \in rpm.added : With(deps, {p}) = With(host.requires, {p}) \cap rpm.added

InTrees(S) == UNION {rpm.tree[l] : l \in S}

\* What the report has checked: rows that are not excluded, and the automatic
\* packages of one of these. (Automatic packages of no leaf are checked until the
\* first change, and are of no interest to the Containerfile.)
Shown == LET leaves == rpm.leaf \ excluded IN leaves \cup InTrees(leaves)

\* With complete answers, the report tells what the image will have of the added
\* packages: what is unchecked is not in it, but for a leaf that a checked leaf
\* requires, and what is checked is.
ReportMatchesImage ==
    phase = "report" /\ rpm.leaf # None /\ Complete =>
        /\ (rpm.added \cap Image) \ Shown \subseteq rpm.leaf \cap Below(host.requires, rpm.leaf \ excluded)
        /\ host.pulls = host.requires => Shown \subseteq Image

\* A unit is enabled only if its package is in the image: the exceptions are
\* packages that an excluded row named or brought (and doubtful ones), and a report
\* in which every row is excluded.
OrphanUnitsSkipped ==
    phase = "report" /\ excluded # Rows =>
        EnabledUnits \ Image \subseteq With(host.requires, excluded \cup Doubtful)

\* Units are skipped whose package will not be installed in the image (the
\* comments at containerfile.py:734 and inspectors/service.py:321). An excluded
\* leaf is not installed, and its unit is enabled all the same.
UnitsSkippedWithoutPackage ==
    phase = "report" /\ rpm.baseline # None /\ host.pulls = host.requires =>
        EnabledUnits \subseteq Image
=============================================================================
