--------------------------- MODULE PackagesProofs ---------------------------
(***************************************************************************)
(* For any packages, requirements and answers of the host's queries: the   *)
(* dependency tree the snapshot gets for a leaf is what the leaf depends   *)
(* on in the recorded graph, whichever way the graph was recorded, in      *)
(* whatever order the walk takes dependencies off its stack, and with or   *)
(* without cycles.                                                         *)
(***************************************************************************)
EXTENDS Packages, DataInduction

-----------------------------------------------------------------------------
(* The least closed set *)

\* Below stays within the names, has the requirements it starts from, is closed,
\* and is within every set that does.
LEMMA BelowIsLeast ==
    ASSUME NEW g \in Graphs, NEW from \in SUBSET Names
    PROVE  /\ Below(g, from) \subseteq Names
           /\ \A p \in from : g[p] \subseteq Below(g, from)
           /\ \A p \in Below(g, from) : g[p] \subseteq Below(g, from)
           /\ \A C \in SUBSET Names :
                (\A p \in from : g[p] \subseteq C) /\ (\A p \in C : g[p] \subseteq C)
                    => Below(g, from) \subseteq C
<1>1. Below(g, from) \subseteq Names
    BY DEF Below
<1>2. ASSUME NEW p \in from, NEW q \in g[p] PROVE q \in Below(g, from)
    BY <1>2 DEF Below, Graphs
<1>3. ASSUME NEW p \in Below(g, from), NEW q \in g[p] PROVE q \in Below(g, from)
    <2>1. q \in Names
        BY <1>1, <1>3 DEF Graphs
    <2>2. ASSUME NEW C \in SUBSET Names,
                 \A x \in from : g[x] \subseteq C, \A x \in C : g[x] \subseteq C
          PROVE  q \in C
        <3>1. p \in C
            BY <1>3, <2>2 DEF Below
        <3> QED BY <1>3, <2>2, <3>1
    <2> QED BY <2>1, <2>2 DEF Below
<1>4. ASSUME NEW C \in SUBSET Names,
             \A p \in from : g[p] \subseteq C, \A p \in C : g[p] \subseteq C,
             NEW q \in Below(g, from)
      PROVE  q \in C
    BY <1>4 DEF Below
<1> QED BY <1>1, <1>2, <1>3, <1>4

\* The same of one package.
LEMMA BelowOne ==
    ASSUME NEW g \in Graphs, NEW p \in Names
    PROVE  /\ Below(g, {p}) \in SUBSET Names
           /\ g[p] \subseteq Below(g, {p})
           /\ \A q \in Below(g, {p}) : g[q] \subseteq Below(g, {p})
           /\ \A C \in SUBSET Names :
                g[p] \subseteq C /\ (\A q \in C : g[q] \subseteq C) => Below(g, {p}) \subseteq C
<1> DEFINE from == {p}
<1>1. from \in SUBSET Names
    OBVIOUS
<1>2. /\ Below(g, from) \subseteq Names
      /\ \A x \in from : g[x] \subseteq Below(g, from)
      /\ \A x \in Below(g, from) : g[x] \subseteq Below(g, from)
      /\ \A C \in SUBSET Names :
            (\A x \in from : g[x] \subseteq C) /\ (\A x \in C : g[x] \subseteq C)
                => Below(g, from) \subseteq C
    <2> HIDE DEF from
    <2> QED BY <1>1, BelowIsLeast
<1> QED BY <1>2

-----------------------------------------------------------------------------
(* The inductive invariant *)

\* What is settled in which phase: marks, dependencies, leaves and exclusions
\* come one after the other, and a walk is on between the classification and the
\* report only.
PhaseInv ==
    /\ phase \in {"host", "inspect"} => rpm = NoRpm /\ marked = None
    /\ phase \in {"host", "inspect", "marks", "dnf"} => deps = NoDeps
    /\ phase \notin {"walk", "report"} => rpm.leaf = None
    /\ phase = "walk" => rpm.leaf # None
    /\ phase # "walk" => walk = NoWalk
    /\ phase # "report" => excluded = {}

\* dnf's answers hold what their members' answers hold.
AnswersClosed ==
    phase = "classify" =>
        \A p \in Names : \A q \in deps[p] : deps[q] \subseteq deps[p] \cup {p}

\* The walk has found nothing but what its leaf depends on, and what it has not
\* looked at yet is on the stack.
WalkInv ==
    walk # NoWalk =>
        /\ walk.leaf \in rpm.leaf
        /\ walk.reachable \cup walk.stack \subseteq Below(deps, {walk.leaf})
        /\ deps[walk.leaf] \subseteq walk.reachable \cup walk.stack
        /\ \A p \in walk.reachable : deps[p] \subseteq walk.reachable \cup walk.stack

PackagesInv == PackagesTypeOK /\ PhaseInv /\ AnswersClosed /\ WalkInv /\ TreeIsBelow

LEMMA NoneIsNoSet == \A S \in SUBSET Names : S # None
BY HostAssumption

LEMMA PackagesInitInv == PackagesInit => PackagesInv
<1> SUFFICES ASSUME PackagesInit PROVE PackagesInv
    OBVIOUS
<1>1. PICK h \in Hosts :
        /\ host = [requires |-> h.requires, pulls |-> h.pulls, base |-> h.base]
        /\ installed = h.installed
    BY DEF PackagesInit
<1> USE DEF PackagesInit
<1>2. PackagesTypeOK
    <2>1. /\ host.requires \in Graphs /\ host.pulls \in Graphs /\ host.base \subseteq Names
          /\ installed \subseteq Names
          /\ \A p \in Names : p \notin host.requires[p]
        BY <1>1, HostAssumption
    <2>2. deps \in [Names -> SUBSET rpm.added] /\ \A p \in Names : p \notin deps[p]
        BY DEF NoDeps, NoRpm
    <2>3. /\ rpm = [baseline |-> rpm.baseline, added |-> rpm.added, leaf |-> rpm.leaf,
                    auto |-> rpm.auto, tree |-> rpm.tree]
          /\ rpm.tree = NoTree /\ rpm.leaf = None /\ rpm.added = {}
        BY DEF NoRpm
    <2>4. rpm.tree = [l \in DOMAIN rpm.tree |-> rpm.tree[l]]
        BY <2>3 DEF NoTree
    <2> QED BY <2>1, <2>2, <2>3, <2>4 DEF PackagesTypeOK
<1>3. PhaseInv /\ AnswersClosed /\ WalkInv
    BY DEF PhaseInv, AnswersClosed, WalkInv, NoRpm
<1>4. TreeIsBelow
    BY DEF TreeIsBelow, NoRpm, NoTree
<1> QED BY <1>2, <1>3, <1>4 DEF PackagesInv

\* What a step leaves alone, it leaves alone in the invariant's parts.
LEMMA TreeKept ==
    ASSUME TreeIsBelow, rpm'.tree = rpm.tree, rpm'.auto = rpm.auto, deps' = deps
    PROVE  TreeIsBelow'
BY DEF TreeIsBelow, Below

LEMMA NoTreeIsBelow ==
    ASSUME rpm'.tree = NoTree
    PROVE  TreeIsBelow'
BY DEF TreeIsBelow, NoTree

LEMMA WrapperInv == PackagesInv /\ Wrapper => PackagesInv'
<1> SUFFICES ASSUME PackagesInv, Wrapper PROVE PackagesInv'
    OBVIOUS
<1> USE DEF PackagesInv
<1>1. Below(host.pulls, {Tool} \ installed) \subseteq Names
    BY DEF Below
<1>2. installed \subseteq installed' /\ installed' \subseteq Names
    BY <1>1, HostAssumption DEF Wrapper, With, PackagesTypeOK
<1>3. tools' \subseteq {Tool} /\ phase' \in {"host", "inspect"}
    BY DEF Wrapper, PackagesTypeOK
<1>4. rpm = NoRpm /\ rpm.added = {}
    BY DEF Wrapper, PhaseInv, NoRpm
<1>5. PackagesTypeOK'
    BY <1>2, <1>3, <1>4 DEF Wrapper, PackagesTypeOK, Rows
<1>6. PhaseInv' /\ AnswersClosed' /\ WalkInv'
    BY <1>3, <1>4 DEF Wrapper, PhaseInv, AnswersClosed, WalkInv, NoRpm
<1>7. TreeIsBelow'
    BY TreeKept DEF Wrapper
<1> QED BY <1>5, <1>6, <1>7

LEMMA InspectInv == PackagesInv /\ Inspect => PackagesInv'
<1> SUFFICES ASSUME PackagesInv, Inspect PROVE PackagesInv'
    OBVIOUS
<1> USE DEF PackagesInv
<1>1. PICK baseline \in {host.base, None} :
        LET added == (IF baseline = None THEN installed ELSE installed \ baseline) \ tools
        IN  /\ rpm' = [baseline |-> baseline, added |-> added,
                       leaf |-> None, auto |-> None, tree |-> NoTree]
            /\ phase' = IF baseline # None /\ added # {} THEN "marks" ELSE "report"
    BY DEF Inspect
<1>2. /\ rpm' = [baseline |-> rpm'.baseline, added |-> rpm'.added, leaf |-> rpm'.leaf,
                 auto |-> rpm'.auto, tree |-> rpm'.tree]
      /\ rpm'.leaf = None /\ rpm'.tree = NoTree /\ rpm'.added \subseteq installed \ tools
    BY <1>1
<1>3. phase' \in {"marks", "report"}
    BY <1>1
<1>4. deps = NoDeps /\ marked = None /\ walk = NoWalk /\ excluded = {}
    BY DEF Inspect, PhaseInv
<1>5. deps \in [Names -> SUBSET rpm'.added] /\ \A p \in Names : p \notin deps[p]
    BY <1>4 DEF NoDeps
<1>6. rpm'.tree = [l \in DOMAIN rpm'.tree |-> rpm'.tree[l]]
    BY <1>2 DEF NoTree
<1>7. PackagesTypeOK'
    BY <1>2, <1>3, <1>4, <1>5, <1>6 DEF Inspect, PackagesTypeOK
<1>8. PhaseInv' /\ AnswersClosed' /\ WalkInv'
    BY <1>2, <1>3, <1>4 DEF Inspect, PhaseInv, AnswersClosed, WalkInv
<1>9. TreeIsBelow'
    BY <1>2, NoTreeIsBelow
<1> QED BY <1>7, <1>8, <1>9

LEMMA AskMarksInv == PackagesInv /\ AskMarks => PackagesInv'
<1> SUFFICES ASSUME PackagesInv, AskMarks PROVE PackagesInv'
    OBVIOUS
<1> USE DEF PackagesInv
<1>1. PackagesTypeOK'
    BY DEF AskMarks, PackagesTypeOK, Rows
<1>2. PhaseInv' /\ AnswersClosed' /\ WalkInv'
    BY DEF AskMarks, PhaseInv, AnswersClosed, WalkInv
<1>3. TreeIsBelow'
    BY TreeKept DEF AskMarks
<1> QED BY <1>1, <1>2, <1>3

\* What dnf answers for a package are added packages below it, and what these are
\* answered lies below it too.
LEMMA AskDnfInv == PackagesInv /\ AskDnf => PackagesInv'
<1> SUFFICES ASSUME PackagesInv, AskDnf PROVE PackagesInv'
    OBVIOUS
<1> USE DEF PackagesInv
<1>1. rpm.leaf = None /\ rpm.tree = NoTree /\ walk = NoWalk /\ excluded = {}
    BY DEF AskDnf, PhaseInv, PackagesTypeOK
<1>2. TreeIsBelow'
    BY <1>1, NoTreeIsBelow DEF AskDnf
<1>3. CASE phase' = "rpm" /\ UNCHANGED deps
    <2>1. PackagesTypeOK'
        BY <1>3 DEF AskDnf, PackagesTypeOK, Rows
    <2>2. PhaseInv' /\ AnswersClosed' /\ WalkInv'
        BY <1>1, <1>3 DEF AskDnf, PhaseInv, AnswersClosed, WalkInv
    <2> QED BY <1>2, <2>1, <2>2
<1>4. CASE \E lost \in SUBSET (rpm.added \ {FirstName(rpm.added)}) :
            /\ deps' = [p \in Names |-> IF p \in rpm.added \ lost THEN DnfAnswer(p) ELSE {}]
            /\ phase' = "classify"
    <2>1. PICK lost \in SUBSET (rpm.added \ {FirstName(rpm.added)}) :
            /\ deps' = [p \in Names |-> IF p \in rpm.added \ lost THEN DnfAnswer(p) ELSE {}]
            /\ phase' = "classify"
        BY <1>4
    <2>2. \A p \in Names : DnfAnswer(p) \subseteq rpm.added /\ p \notin DnfAnswer(p)
        BY DEF DnfAnswer
    <2>3. deps' \in [Names -> SUBSET rpm.added] /\ \A p \in Names : p \notin deps'[p]
        BY <2>1, <2>2
    <2>4. PackagesTypeOK'
        BY <2>1, <2>3 DEF AskDnf, PackagesTypeOK, Rows
    <2>5. ASSUME NEW p \in Names, NEW q \in deps'[p]
          PROVE  deps'[q] \subseteq deps'[p] \cup {p}
        <3>1. p \in rpm.added \ lost /\ q \in Below(host.requires, {p}) /\ q \in Names
            BY <2>1, <2>5 DEF DnfAnswer, Below
        <3> DEFINE C == Below(host.requires, {p})
        <3>2. /\ host.requires \in Graphs /\ C \in SUBSET Names
              /\ host.requires[q] \subseteq C /\ \A r \in C : host.requires[r] \subseteq C
            BY <3>1, BelowOne DEF PackagesTypeOK
        <3> HIDE DEF C
        <3>3. Below(host.requires, {q}) \subseteq C
            BY <3>1, <3>2, BelowOne
        <3> USE DEF C
        <3>4. deps'[q] \subseteq Below(host.requires, {q}) \cap rpm.added
            BY <2>1, <3>1 DEF DnfAnswer
        <3>5. deps'[p] = (Below(host.requires, {p}) \cap rpm.added) \ {p}
            BY <2>1, <3>1 DEF DnfAnswer
        <3> QED BY <3>3, <3>4, <3>5
    <2>6. AnswersClosed'
        BY <2>5 DEF AnswersClosed
    <2>7. PhaseInv' /\ WalkInv'
        BY <1>1, <2>1 DEF AskDnf, PhaseInv, WalkInv
    <2> QED BY <1>2, <2>4, <2>6, <2>7
<1> QED BY <1>3, <1>4 DEF AskDnf

LEMMA AskRpmInv == PackagesInv /\ AskRpm => PackagesInv'
<1> SUFFICES ASSUME PackagesInv, AskRpm PROVE PackagesInv'
    OBVIOUS
<1> USE DEF PackagesInv
<1> DEFINE direct == {e \in rpm.added \X rpm.added : e[2] \in host.requires[e[1]]}
<1>1. PICK lost \in SUBSET direct :
        deps' = [p \in Names |-> {q \in Names : <<p, q>> \in direct \ lost}]
    BY DEF AskRpm
<1>2. \A p \in Names : p \notin host.requires[p]
    BY DEF PackagesTypeOK
<1>3. deps' \in [Names -> SUBSET rpm.added] /\ \A p \in Names : p \notin deps'[p]
    BY <1>1, <1>2
<1>4. rpm.leaf = None /\ rpm.tree = NoTree /\ walk = NoWalk /\ excluded = {}
    BY DEF AskRpm, PhaseInv, PackagesTypeOK
<1>5. PackagesTypeOK'
    <2>1. phase' = "rpm classify" /\ UNCHANGED <<host, installed, tools, rpm, marked, walk, excluded>>
        BY DEF AskRpm
    <2> QED BY <1>3, <2>1 DEF PackagesTypeOK, Rows
<1>6. PhaseInv' /\ AnswersClosed' /\ WalkInv'
    BY <1>4 DEF AskRpm, PhaseInv, AnswersClosed, WalkInv
<1>7. TreeIsBelow'
    BY <1>4, NoTreeIsBelow DEF AskRpm
<1> QED BY <1>5, <1>6, <1>7

LEMMA ClassifyInv == PackagesInv /\ Classify => PackagesInv'
<1> SUFFICES ASSUME PackagesInv, Classify PROVE PackagesInv'
    OBVIOUS
<1> USE DEF PackagesInv
<1> DEFINE auto == rpm.added \ Leaves
<1>1. /\ rpm'.baseline = rpm.baseline /\ rpm'.added = rpm.added
      /\ rpm'.leaf = Leaves /\ rpm'.auto = auto
      /\ rpm'.tree = IF phase = "classify" THEN [l \in Leaves |-> deps[l] \cap auto] ELSE NoTree
      /\ rpm' = [baseline |-> rpm'.baseline, added |-> rpm'.added, leaf |-> rpm'.leaf,
                 auto |-> rpm'.auto, tree |-> rpm'.tree]
      /\ phase' = IF phase = "classify" THEN "report" ELSE "walk"
    BY DEF Classify
<1>2. Leaves \subseteq rpm.added /\ rpm.added \subseteq Names
    BY DEF Leaves, PackagesTypeOK
<1>3. rpm'.leaf # None
    BY <1>1, <1>2, NoneIsNoSet
<1>4. rpm'.tree = [l \in DOMAIN rpm'.tree |-> rpm'.tree[l]] /\ DOMAIN rpm'.tree \subseteq Leaves
    BY <1>1 DEF NoTree
<1>5. walk = NoWalk /\ excluded = {}
    BY DEF Classify, PhaseInv
<1>6. PackagesTypeOK'
    BY <1>1, <1>2, <1>3, <1>4, <1>5 DEF Classify, PackagesTypeOK
<1>7. PhaseInv' /\ AnswersClosed' /\ WalkInv'
    BY <1>1, <1>3, <1>5 DEF Classify, PhaseInv, AnswersClosed, WalkInv
<1>8. ASSUME phase = "classify", NEW l \in Leaves
      PROVE  deps[l] \cap auto = Below(deps, {l}) \cap auto
    <2>1. l \in Names /\ deps \in Graphs /\ deps[l] \in SUBSET Names
        BY <1>2, <1>8 DEF PackagesTypeOK, Graphs
    <2>2. deps[l] \subseteq Below(deps, {l})
        BY <2>1, BelowOne
    <2> DEFINE C == deps[l] \cup {l}
    <2>3. C \in SUBSET Names /\ deps[l] \subseteq C /\ \A p \in C : deps[p] \subseteq C
        BY <1>8, <2>1 DEF AnswersClosed
    <2>4. Below(deps, {l}) \subseteq C
        BY <2>1, <2>3, BelowOne
    <2> QED BY <1>8, <2>2, <2>4
<1>9. TreeIsBelow'
    <2>1. CASE phase = "classify"
        BY <1>1, <1>8, <2>1 DEF Classify, TreeIsBelow, Below
    <2>2. CASE phase # "classify"
        BY <1>1, <2>2, NoTreeIsBelow
    <2> QED BY <2>1, <2>2
<1> QED BY <1>6, <1>7, <1>9

LEMMA StartWalkInv == PackagesInv /\ StartWalk => PackagesInv'
<1> SUFFICES ASSUME PackagesInv, StartWalk PROVE PackagesInv'
    OBVIOUS
<1> USE DEF PackagesInv
<1>1. PICK l \in Unwalked : walk' = [leaf |-> l, reachable |-> {}, stack |-> deps[l]]
    BY DEF StartWalk
<1>2. /\ rpm.leaf # None /\ l \in rpm.leaf /\ l \in Names
      /\ deps \in Graphs /\ deps[l] \in SUBSET Names
    BY <1>1 DEF StartWalk, PhaseInv, PackagesTypeOK, Unwalked, Graphs
<1>3. UNCHANGED <<host, installed, tools, phase, rpm, marked, deps, excluded>> /\ phase = "walk"
    BY DEF StartWalk
<1>4. walk' \in [leaf : Names, reachable : SUBSET Names, stack : SUBSET Names]
    BY <1>1, <1>2
<1>5. PackagesTypeOK'
    BY <1>3, <1>4 DEF PackagesTypeOK, Rows
<1>6. WalkInv'
    <2>1. deps[l] \subseteq Below(deps, {l})
        BY <1>2, BelowOne
    <2>2. Below(deps, {l})' = Below(deps, {l})
        BY <1>3 DEF Below
    <2>3. /\ walk'.leaf = l /\ walk'.reachable = {} /\ walk'.stack = deps[l]
        BY <1>1
    <2> QED BY <1>2, <1>3, <2>1, <2>2, <2>3 DEF WalkInv, Below
<1>7. PhaseInv' /\ AnswersClosed'
    BY <1>3 DEF PhaseInv, AnswersClosed
<1>8. TreeIsBelow'
    BY <1>3, TreeKept
<1> QED BY <1>5, <1>6, <1>7, <1>8

\* A dependency off the stack becomes reachable, and what it depends on is
\* reachable or goes on the stack; all that is below the leaf as well.
LEMMA PopInv == PackagesInv /\ Pop => PackagesInv'
<1> SUFFICES ASSUME PackagesInv, Pop PROVE PackagesInv'
    OBVIOUS
<1> USE DEF PackagesInv
<1>1. PICK dep \in walk.stack :
        LET reachable == walk.reachable \cup {dep} IN
        walk' = [leaf |-> walk.leaf, reachable |-> reachable,
                 stack |-> (walk.stack \ {dep}) \cup Pushed(dep, reachable)]
    BY DEF Pop
<1>2. /\ walk'.leaf = walk.leaf /\ walk'.reachable = walk.reachable \cup {dep}
      /\ walk'.stack = (walk.stack \ {dep}) \cup (deps[dep] \ (walk.reachable \cup {dep}))
      /\ walk' = [leaf |-> walk'.leaf, reachable |-> walk'.reachable, stack |-> walk'.stack]
    BY <1>1 DEF Pushed
<1>3. UNCHANGED <<host, installed, tools, phase, rpm, marked, deps, excluded>> /\ phase = "walk"
    BY DEF Pop
<1>4. walk # NoWalk
    BY DEF NoWalk
<1>5. walk \in [leaf : Names, reachable : SUBSET Names, stack : SUBSET Names]
    BY <1>4 DEF PackagesTypeOK
<1>6. /\ walk.leaf \in Names /\ dep \in Names
      /\ deps \in Graphs /\ \A p \in Names : deps[p] \in SUBSET Names
    BY <1>5 DEF PackagesTypeOK, Graphs
<1>7. walk' \in [leaf : Names, reachable : SUBSET Names, stack : SUBSET Names]
    <2>1. walk'.leaf \in Names /\ walk'.reachable \in SUBSET Names /\ walk'.stack \in SUBSET Names
        BY <1>2, <1>5, <1>6
    <2> QED BY <1>2, <2>1
<1>8. PackagesTypeOK'
    BY <1>3, <1>7 DEF PackagesTypeOK, Rows
<1>9. WalkInv'
    <2> DEFINE B == Below(deps, {walk.leaf})
    <2>1. /\ walk.leaf \in rpm.leaf /\ walk.reachable \cup walk.stack \subseteq B
          /\ deps[walk.leaf] \subseteq walk.reachable \cup walk.stack
          /\ \A p \in walk.reachable : deps[p] \subseteq walk.reachable \cup walk.stack
        BY <1>4 DEF WalkInv
    <2>2. \A p \in B : deps[p] \subseteq B
        BY <1>6, BelowOne
    <2>3. Below(deps, {walk.leaf})' = B
        BY <1>2, <1>3 DEF Below
    <2> HIDE DEF B
    <2>4. walk'.reachable \cup walk'.stack \subseteq B
        BY <1>2, <2>1, <2>2
    <2>5. walk.reachable \cup walk.stack \cup deps[dep] \subseteq walk'.reachable \cup walk'.stack
        BY <1>2
    <2>6. \A p \in walk'.reachable : deps[p] \subseteq walk'.reachable \cup walk'.stack
        BY <1>2, <2>1, <2>5
    <2>7. deps[walk.leaf] \subseteq walk'.reachable \cup walk'.stack
        BY <2>1, <2>5
    <2> QED BY <1>2, <1>3, <2>1, <2>3, <2>4, <2>6, <2>7 DEF WalkInv
<1>10. PhaseInv' /\ AnswersClosed'
    BY <1>3 DEF PhaseInv, AnswersClosed
<1>11. TreeIsBelow'
    BY <1>3, TreeKept
<1> QED BY <1>8, <1>9, <1>10, <1>11

\* An empty stack: what is reachable is closed, and so is all there is below.
LEMMA EndWalkInv == PackagesInv /\ EndWalk => PackagesInv'
<1> SUFFICES ASSUME PackagesInv, EndWalk PROVE PackagesInv'
    OBVIOUS
<1> USE DEF PackagesInv
<1> DEFINE grown == DOMAIN rpm.tree \cup {walk.leaf}
           found == walk.reachable \cap rpm.auto
           tree  == [l \in grown |-> IF l = walk.leaf THEN found ELSE rpm.tree[l]]
<1>1. /\ rpm' = [rpm EXCEPT !.tree = tree] /\ walk # NoWalk /\ walk.stack = {}
      /\ walk' = NoWalk /\ phase = "walk"
      /\ UNCHANGED <<host, installed, tools, phase, marked, deps, excluded>>
    BY DEF EndWalk
<1> HIDE DEF tree
<1>2. /\ rpm'.baseline = rpm.baseline /\ rpm'.added = rpm.added /\ rpm'.leaf = rpm.leaf
      /\ rpm'.auto = rpm.auto /\ rpm'.tree = tree
      /\ rpm' = [baseline |-> rpm'.baseline, added |-> rpm'.added, leaf |-> rpm'.leaf,
                 auto |-> rpm'.auto, tree |-> rpm'.tree]
    BY <1>1 DEF PackagesTypeOK
<1>3. /\ walk.leaf \in rpm.leaf /\ walk.leaf \in Names /\ walk.reachable \in SUBSET Names
      /\ walk.reachable \subseteq Below(deps, {walk.leaf})
      /\ deps[walk.leaf] \subseteq walk.reachable
      /\ \A p \in walk.reachable : deps[p] \subseteq walk.reachable
    BY <1>1 DEF WalkInv, PackagesTypeOK
<1>4. rpm.leaf # None
    BY <1>1 DEF PhaseInv
<1>5. /\ tree = [l \in DOMAIN tree |-> tree[l]] /\ DOMAIN tree = grown
      /\ tree[walk.leaf] = found
      /\ \A l \in DOMAIN rpm.tree \ {walk.leaf} : tree[l] = rpm.tree[l]
    BY DEF tree
<1>6. PackagesTypeOK'
    <2>1. DOMAIN tree \subseteq rpm.leaf
        BY <1>3, <1>4, <1>5 DEF PackagesTypeOK
    <2> QED BY <1>1, <1>2, <1>4, <1>5, <2>1 DEF PackagesTypeOK, Rows
<1>7. PhaseInv' /\ AnswersClosed' /\ WalkInv'
    BY <1>1, <1>2 DEF PhaseInv, AnswersClosed, WalkInv
<1>8. Below(deps, {walk.leaf}) = walk.reachable
    <2>1. deps \in Graphs
        BY DEF PackagesTypeOK, Graphs
    <2> QED BY <1>3, <2>1, BelowOne
<1>9. ASSUME NEW l \in DOMAIN tree PROVE tree[l] = Below(deps, {l}) \cap rpm.auto
    <2>1. CASE l = walk.leaf
        BY <1>5, <1>8, <2>1
    <2>2. CASE l # walk.leaf
        BY <1>5, <2>2 DEF TreeIsBelow
    <2> QED BY <2>1, <2>2
<1>10. TreeIsBelow'
    BY <1>1, <1>2, <1>9 DEF TreeIsBelow, Below
<1> QED BY <1>6, <1>7, <1>10

LEMMA ClassifiedInv == PackagesInv /\ Classified => PackagesInv'
<1> SUFFICES ASSUME PackagesInv, Classified PROVE PackagesInv'
    OBVIOUS
<1> USE DEF PackagesInv
<1>1. PackagesTypeOK'
    BY DEF Classified, PackagesTypeOK, Rows
<1>2. PhaseInv' /\ AnswersClosed' /\ WalkInv'
    BY DEF Classified, PhaseInv, AnswersClosed, WalkInv
<1>3. TreeIsBelow'
    BY TreeKept DEF Classified
<1> QED BY <1>1, <1>2, <1>3

LEMMA ToggleInv == PackagesInv /\ Toggle => PackagesInv'
<1> SUFFICES ASSUME PackagesInv, Toggle PROVE PackagesInv'
    OBVIOUS
<1> USE DEF PackagesInv
<1>1. excluded' \subseteq Rows
    BY DEF Toggle, PackagesTypeOK
<1>2. UNCHANGED <<host, installed, tools, phase, rpm, marked, deps, walk>> /\ phase = "report"
    BY DEF Toggle
<1>3. PackagesTypeOK'
    BY <1>1, <1>2 DEF PackagesTypeOK, Rows
<1>4. PhaseInv' /\ AnswersClosed' /\ WalkInv'
    BY <1>2 DEF PhaseInv, AnswersClosed, WalkInv
<1>5. TreeIsBelow'
    BY <1>2, TreeKept
<1> QED BY <1>3, <1>4, <1>5

LEMMA PackagesStepInv == PackagesInv /\ [PackagesNext]_packageVars => PackagesInv'
<1>1. PackagesInv /\ UNCHANGED packageVars => PackagesInv'
    BY TreeKept DEF packageVars, PackagesInv, PackagesTypeOK, Rows, PhaseInv, AnswersClosed,
                    WalkInv, Below
<1> QED BY <1>1, WrapperInv, InspectInv, AskMarksInv, AskDnfInv, AskRpmInv, ClassifyInv,
           StartWalkInv, PopInv, EndWalkInv, ClassifiedInv, ToggleInv DEF PackagesNext
-----------------------------------------------------------------------------
(* The theorems *)

\* The inspector's variables and the snapshot's section have their types, leaves
\* and automatic packages are the added ones, and only rows are excluded.
THEOREM PackagesTypeCorrect == PackagesSpec => []PackagesTypeOK
<1>1. PackagesInv => PackagesTypeOK
    BY DEF PackagesInv
<1> QED BY <1>1, PackagesInitInv, PackagesStepInv, PTL DEF PackagesSpec

\* _classify_leaf_auto(): the tree of every leaf is what the leaf depends on in
\* the recorded graph, for dnf's closed answers and for the walk over rpm's.
THEOREM TreesAreClosures == PackagesSpec => []TreeIsBelow
<1>1. PackagesInv => TreeIsBelow
    BY DEF PackagesInv
<1> QED BY <1>1, PackagesInitInv, PackagesStepInv, PTL DEF PackagesSpec
-----------------------------------------------------------------------------
(* What the report and the image have in common *)

\* What is recorded as depended on is required, directly or not.
GraphInv ==
    /\ \A p \in Names : host.pulls[p] \subseteq host.requires[p]
    /\ Below(host.pulls, host.base) \subseteq host.base
    /\ \A p \in Names : deps[p] \subseteq Below(host.requires, {p})

\* What is classified was compared with the base image, and each leaf of a
\* report has its tree.
SectionInv ==
    /\ rpm.baseline \in {None, host.base}
    /\ phase \in {"marks", "dnf", "rpm", "classify", "rpm classify", "walk"} => rpm.baseline # None
    /\ rpm.baseline # None => rpm.added \cap rpm.baseline = {}
    /\ rpm.leaf # None => rpm.baseline # None /\ rpm.leaf = Leaves
    /\ phase = "report" /\ rpm.leaf # None => DOMAIN rpm.tree = rpm.leaf

LEMMA ReportInitHolds == PackagesInit => GraphInv /\ SectionInv
<1> SUFFICES ASSUME PackagesInit PROVE GraphInv /\ SectionInv
    OBVIOUS
<1>1. PICK h \in Hosts : host = [requires |-> h.requires, pulls |-> h.pulls, base |-> h.base]
    BY DEF PackagesInit
<1>2. host.requires = h.requires /\ host.pulls = h.pulls /\ host.base = h.base
    BY <1>1
<1>3. /\ \A p \in Names : host.pulls[p] \subseteq host.requires[p]
      /\ Below(host.pulls, host.base) \subseteq host.base
    BY <1>2, HostAssumption
<1>4. \A p \in Names : deps[p] = {}
    BY DEF PackagesInit, NoDeps
<1>5. rpm.baseline = None /\ rpm.leaf = None /\ rpm.added = {} /\ phase = "host"
    BY DEF PackagesInit, NoRpm
<1> QED BY <1>3, <1>4, <1>5 DEF GraphInv, SectionInv

LEMMA GraphStep ==
    ASSUME PackagesInv, GraphInv, [PackagesNext]_packageVars
    PROVE  GraphInv'
<1>1. host' = host
    BY DEF PackagesNext, packageVars, Wrapper, Inspect, AskMarks, AskDnf, AskRpm, Classify,
           StartWalk, Pop, EndWalk, Classified, Toggle
<1>2. \A p \in Names : deps'[p] \subseteq Below(host.requires, {p})
    <2>1. CASE UNCHANGED deps
        BY <2>1 DEF GraphInv
    <2>2. CASE AskDnf
        <3>1. \A p \in Names : DnfAnswer(p) \subseteq Below(host.requires, {p})
            BY DEF DnfAnswer
        <3>2. CASE UNCHANGED deps
            BY <3>2 DEF GraphInv
        <3>3. CASE \E lost \in SUBSET (rpm.added \ {FirstName(rpm.added)}) :
                    deps' = [p \in Names |-> IF p \in rpm.added \ lost THEN DnfAnswer(p) ELSE {}]
            BY <3>1, <3>3
        <3> QED BY <2>2, <3>2, <3>3 DEF AskDnf
    <2>3. CASE AskRpm
        <3>1. \A p \in Names : host.requires[p] \subseteq Below(host.requires, {p})
            BY BelowOne DEF PackagesInv, PackagesTypeOK
        <3>2. \A p \in Names : deps'[p] \subseteq host.requires[p]
            BY <2>3 DEF AskRpm
        <3> QED BY <3>1, <3>2
    <2> QED BY <2>1, <2>2, <2>3 DEF PackagesNext, packageVars, Wrapper, Inspect, AskMarks, Classify,
               StartWalk, Pop, EndWalk, Classified, Toggle
<1>3. /\ Below(host.pulls, host.base)' = Below(host.pulls, host.base)
      /\ \A p : Below(host.requires, {p})' = Below(host.requires, {p})
    BY <1>1 DEF Below
<1> QED BY <1>1, <1>2, <1>3 DEF GraphInv

\* The section as the inspector leaves it is read, not changed, by the rest.
LEMMA SectionKept ==
    ASSUME SectionInv, UNCHANGED <<host, rpm, deps, marked>>, phase' \in {phase, "report"},
           phase' = phase \/ rpm.leaf = None \/ DOMAIN rpm.tree = rpm.leaf
    PROVE  SectionInv'
<1>1. Leaves' = Leaves
    BY DEF Leaves, DependedOn
<1> QED BY <1>1 DEF SectionInv

LEMMA SectionStep ==
    ASSUME PackagesInv, SectionInv, [PackagesNext]_packageVars
    PROVE  SectionInv'
<1> USE DEF PackagesInv
<1>1. CASE Wrapper
    <2>1. rpm' = rpm /\ rpm.baseline = None /\ rpm.leaf = None /\ phase' \in {"host", "inspect"}
        BY <1>1 DEF Wrapper, PhaseInv, NoRpm
    <2> QED BY <2>1 DEF SectionInv
<1>2. CASE Inspect
    <2>1. PICK baseline \in {host.base, None} :
            /\ rpm' = [baseline |-> baseline,
                       added |-> (IF baseline = None THEN installed ELSE installed \ baseline) \ tools,
                       leaf |-> None, auto |-> None, tree |-> NoTree]
            /\ phase' \in {"marks", "report"}
            /\ phase' = "marks" => baseline # None
        BY <1>2 DEF Inspect
    <2>2. host' = host
        BY <1>2 DEF Inspect
    <2>3. rpm'.baseline = baseline /\ rpm'.leaf = None
          /\ (baseline # None => rpm'.added \cap baseline = {})
        BY <2>1
    <2> QED BY <2>1, <2>2, <2>3 DEF SectionInv
<1>3. CASE AskMarks \/ AskDnf \/ AskRpm
    <2>1. /\ rpm' = rpm /\ host' = host /\ rpm.leaf = None /\ rpm.baseline # None
          /\ phase' \notin {"report", "walk"}
        BY <1>3 DEF AskMarks, AskDnf, AskRpm, PhaseInv, SectionInv
    <2> QED BY <2>1 DEF SectionInv
<1>4. CASE Classify
    <2>1. /\ rpm'.baseline = rpm.baseline /\ rpm'.added = rpm.added /\ rpm'.leaf = Leaves
          /\ rpm'.tree = IF phase = "classify" THEN [l \in Leaves |-> deps[l] \cap rpm'.auto]
                                               ELSE NoTree
          /\ phase' = IF phase = "classify" THEN "report" ELSE "walk"
          /\ phase \in {"classify", "rpm classify"}
          /\ UNCHANGED <<host, marked, deps>>
        BY <1>4 DEF Classify
    <2>2. Leaves' = Leaves
        BY <2>1 DEF Leaves, DependedOn
    <2>3. phase' = "report" => DOMAIN rpm'.tree = rpm'.leaf
        BY <2>1
    <2> QED BY <2>1, <2>2, <2>3 DEF SectionInv
<1>5. CASE StartWalk \/ Pop \/ Toggle \/ UNCHANGED packageVars
    BY <1>5, SectionKept DEF StartWalk, Pop, Toggle, packageVars
<1>6. CASE EndWalk
    <2>1. /\ rpm'.baseline = rpm.baseline /\ rpm'.added = rpm.added /\ rpm'.leaf = rpm.leaf
          /\ UNCHANGED <<host, marked, deps, phase>> /\ phase = "walk"
        BY <1>6 DEF EndWalk, PackagesTypeOK
    <2>2. Leaves' = Leaves
        BY <2>1 DEF Leaves, DependedOn
    <2> QED BY <2>1, <2>2 DEF SectionInv
<1>7. CASE Classified
    <2>1. DOMAIN rpm.tree = rpm.leaf
        BY <1>7 DEF Classified, Unwalked, PackagesTypeOK, PhaseInv
    <2> QED BY <1>7, <2>1, SectionKept DEF Classified
<1> QED BY <1>1, <1>2, <1>3, <1>4, <1>5, <1>6, <1>7 DEF PackagesNext
LEMMA ReportInvHolds == PackagesSpec => [](PackagesInv /\ GraphInv /\ SectionInv)
<1>1. /\ PackagesInv /\ GraphInv /\ SectionInv
      /\ [PackagesNext]_packageVars
      => (PackagesInv /\ GraphInv /\ SectionInv)'
    BY PackagesStepInv, GraphStep, SectionStep
<1> QED BY <1>1, PackagesInitInv, ReportInitHolds, PTL DEF PackagesSpec
-----------------------------------------------------------------------------
(* Requirements of several packages, and of packages of one another *)

\* What packages require is what one of them requires.
LEMMA BelowOfOne ==
    ASSUME NEW g \in Graphs, NEW from \in SUBSET Names
    PROVE  \A q \in Names : q \in Below(g, from) <=> \E p \in from : q \in Below(g, {p})
<1> DEFINE C == UNION {Below(g, {p}) : p \in from}
<1>1. \A p \in from : /\ Below(g, {p}) \in SUBSET Names /\ g[p] \subseteq Below(g, {p})
                      /\ \A q \in Below(g, {p}) : g[q] \subseteq Below(g, {p})
    BY BelowOne
<1>2. C \in SUBSET Names /\ (\A p \in from : g[p] \subseteq C) /\ (\A p \in C : g[p] \subseteq C)
    BY <1>1
<1>3. Below(g, from) \subseteq C
    <2> HIDE DEF C
    <2> QED BY <1>2, BelowIsLeast
<1>4. ASSUME NEW p \in from PROVE Below(g, {p}) \subseteq Below(g, from)
    <2>1. /\ Below(g, from) \in SUBSET Names /\ g[p] \subseteq Below(g, from)
          /\ \A q \in Below(g, from) : g[q] \subseteq Below(g, from)
        BY BelowIsLeast
    <2> QED BY <2>1, BelowOne
<1> QED BY <1>3, <1>4

\* Requirements of requirements are requirements.
LEMMA BelowTransitive ==
    ASSUME NEW g \in Graphs, NEW p \in Names, NEW q \in Below(g, {p})
    PROVE  Below(g, {q}) \subseteq Below(g, {p})
<1>1. /\ Below(g, {p}) \in SUBSET Names /\ q \in Names
      /\ \A r \in Below(g, {p}) : g[r] \subseteq Below(g, {p})
    BY BelowOne
<1> QED BY <1>1, BelowOne

\* More requirements, more below.
LEMMA BelowMonotonic ==
    ASSUME NEW g \in Graphs, NEW h \in Graphs, \A p \in Names : g[p] \subseteq h[p],
           NEW p \in Names
    PROVE  Below(g, {p}) \subseteq Below(h, {p})
<1>1. /\ Below(h, {p}) \in SUBSET Names /\ h[p] \subseteq Below(h, {p})
      /\ \A r \in Below(h, {p}) : h[r] \subseteq Below(h, {p})
    BY BelowOne
<1>2. g[p] \subseteq Below(h, {p}) /\ \A r \in Below(h, {p}) : g[r] \subseteq Below(h, {p})
    BY <1>1
<1> QED BY <1>1, <1>2, BelowOne

\* A package that nothing doubtful requires, directly or not.
Certain == Names \ With(host.requires, Doubtful)

HostFacts ==
    /\ host.requires \in Graphs /\ host.pulls \in Graphs /\ host.base \in SUBSET Names
    /\ Doubtful \in SUBSET Names
    /\ \A p \in Names : host.pulls[p] \subseteq host.requires[p]

LEMMA HostHasFacts == PackagesTypeOK /\ GraphInv => HostFacts
BY DEF PackagesTypeOK, GraphInv, HostFacts, Doubtful

\* What requires a certain package is certain.
LEMMA CertainUpwards ==
    ASSUME HostFacts, NEW p \in Names, NEW q \in Certain, q \in Below(host.requires, {p})
    PROVE  p \in Certain
<1>1. SUFFICES ASSUME p \in With(host.requires, Doubtful)
               PROVE  q \in Below(host.requires, Doubtful)
    BY DEF Certain, With
<1>2. PICK d \in Doubtful : p = d \/ p \in Below(host.requires, {d})
    BY <1>1, BelowOfOne DEF HostFacts, With
<1>3. d \in Names
    BY <1>2 DEF HostFacts
<1>4. q \in Below(host.requires, {d})
    BY <1>2, <1>3, BelowTransitive DEF HostFacts
<1> QED BY <1>2, <1>4, BelowOfOne DEF HostFacts, Certain

\* dnf pulls a certain package for all that require it, directly or not: no
\* other package would have served.
LEMMA CertainIsPulled ==
    ASSUME HostFacts, NEW p \in Names, NEW q \in Certain, q \in Below(host.requires, {p})
    PROVE  q \in Below(host.pulls, {p})
<1> DEFINE C == Below(host.pulls, {p}) \cup (Names \ Certain)
<1>1. \A r \in Certain : r \in Names /\ r \notin Doubtful
    BY DEF Certain, With
<1>2. \A r \in Names : \A s \in host.requires[r] : s \in Names /\ (s \in Certain => s \in host.pulls[r])
    BY <1>1 DEF Doubtful, HostFacts, Graphs
<1>3. /\ Below(host.pulls, {p}) \in SUBSET Names /\ host.pulls[p] \subseteq Below(host.pulls, {p})
      /\ \A r \in Below(host.pulls, {p}) : host.pulls[r] \subseteq Below(host.pulls, {p})
    BY BelowOne DEF HostFacts
<1>4. \A r \in Names : host.requires[r] \subseteq Below(host.requires, {r})
    BY BelowOne DEF HostFacts
<1>5. \A r \in Names : \A s \in host.requires[r] : s \in Certain => r \in Certain
    BY <1>4, CertainUpwards
<1>6. host.requires[p] \subseteq C
    BY <1>2, <1>3
<1>7. \A r \in C : host.requires[r] \subseteq C
    BY <1>2, <1>3, <1>5
<1>8. Below(host.requires, {p}) \subseteq C
    <2>1. C \in SUBSET Names
        BY <1>3
    <2> HIDE DEF C
    <2> QED BY <1>6, <1>7, <2>1, BelowOne DEF HostFacts
<1> QED BY <1>8
-----------------------------------------------------------------------------
(* The three properties *)

\* Some element of a finite set is below none, in an order without cycles.
LEMMA SomethingIsOnTop ==
    ASSUME NEW S, IsFiniteSet(S), S # {}, NEW below,
           \A x \in S : x \notin below[x],
           \A x, y, z \in S : x \in below[y] /\ y \in below[z] => x \in below[z]
    PROVE  \E top \in S : \A x \in S : top \notin below[x]
<1> DEFINE F == {T \in SUBSET S : T # {} => \E top \in T : \A x \in T : top \notin below[x]}
<1>1. {} \in F
    OBVIOUS
<1>2. ASSUME NEW T \in SUBSET S, NEW y \in S \ T, T \in F PROVE T \cup {y} \in F
    <2>1. CASE T = {}
        BY <2>1
    <2>2. CASE T # {}
        <3>1. PICK top \in T : \A x \in T : top \notin below[x]
            BY <1>2, <2>2
        <3>2. CASE top \in below[y]
            <4>1. \A x \in T : y \notin below[x]
                BY <3>1, <3>2
            <4> QED BY <4>1
        <3>3. CASE top \notin below[y]
            BY <3>1, <3>3
        <3> QED BY <3>2, <3>3
    <2> QED BY <2>1, <2>2
<1>3. S \in F
    <2> HIDE DEF F
    <2> QED BY <1>1, <1>2, SubsetInduction
<1> QED BY <1>3

\* What a report installs of a host that was compared with its base image.
LEMMA ReportFacts ==
    ASSUME PackagesInv, GraphInv, SectionInv, phase = "report", rpm.leaf # None
    PROVE  /\ HostFacts /\ deps \in Graphs
           /\ rpm.baseline = host.base /\ rpm.added \cap host.base = {}
           /\ rpm.added \in SUBSET Names /\ rpm.leaf \in SUBSET rpm.added
           /\ rpm.auto = rpm.added \ rpm.leaf /\ rpm.leaf = Leaves
           /\ InstallNames = rpm.leaf \ excluded
           /\ DOMAIN rpm.tree = rpm.leaf
           /\ \A l \in rpm.leaf : rpm.tree[l] = Below(deps, {l}) \cap rpm.auto
           /\ \A p \in Names : Below(deps, {p}) \subseteq Below(host.requires, {p})
<1>1. HostFacts /\ deps \in Graphs
    BY HostHasFacts DEF PackagesInv, PackagesTypeOK, Graphs
<1>2. ASSUME NEW p \in Names PROVE Below(deps, {p}) \subseteq Below(host.requires, {p})
    <2>1. /\ Below(host.requires, {p}) \in SUBSET Names
          /\ \A q \in Names : deps[q] \subseteq Below(host.requires, {q})
        BY <1>1, BelowOne DEF GraphInv, HostFacts
    <2>2. \A q \in Below(host.requires, {p}) : deps[q] \subseteq Below(host.requires, {p})
        BY <1>1, <2>1, BelowTransitive DEF HostFacts
    <2> QED BY <1>1, <2>1, <2>2, BelowOne
<1> QED BY <1>1, <1>2 DEF PackagesInv, PackagesTypeOK, SectionInv, TreeIsBelow, InstallNames

\* The image has what dnf pulls for what is in it.
LEMMA ImageIsClosed ==
    ASSUME HostFacts, GraphInv, InstallNames \in SUBSET Names,
           NEW p \in Image, NEW q \in Below(host.pulls, {p})
    PROVE  q \in Image /\ p \in Names
<1>1. q \in Names /\ p \in Names
    BY BelowIsLeast DEF Image, With, HostFacts, Below
<1>2. CASE p \in host.base
    BY <1>1, <1>2, BelowOfOne DEF HostFacts, GraphInv, Image
<1>3. CASE p \in InstallNames
    BY <1>1, <1>3, BelowOfOne DEF HostFacts, Image, With
<1>4. CASE p \in Below(host.pulls, InstallNames)
    <2>1. PICK r \in InstallNames : p \in Below(host.pulls, {r})
        BY <1>1, <1>4, BelowOfOne DEF HostFacts
    <2>2. q \in Below(host.pulls, {r})
        BY <2>1, BelowTransitive DEF HostFacts
    <2> QED BY <1>1, <2>1, <2>2, BelowOfOne DEF HostFacts, Image, With
<1> QED BY <1>1, <1>2, <1>3, <1>4 DEF Image, With

LEMMA LostAreDoubtful == PackagesInv /\ GraphInv /\ SectionInv => OnlyCyclesAreLost
<1> SUFFICES ASSUME PackagesInv, GraphInv, SectionInv, phase = "report", excluded = {},
                    marked \in {None, {}}
             PROVE  rpm.added \ Image \subseteq With(host.requires, Doubtful)
    BY DEF OnlyCyclesAreLost
<1>1. CASE rpm.leaf = None
    BY <1>1 DEF InstallNames, Image, With
<1>2. CASE rpm.leaf # None
    <2> DEFINE lost == (rpm.added \ Image) \cap Certain
               below == [p \in lost |-> Below(host.requires, {p})]
    <2>1. /\ HostFacts /\ rpm.added \in SUBSET Names /\ rpm.leaf = rpm.added \ DependedOn
          /\ InstallNames = rpm.leaf
        BY <1>2, ReportFacts DEF Leaves
    <2>2. lost \in SUBSET Names /\ IsFiniteSet(lost)
        <3>1. lost \in SUBSET Names
            BY <2>1
        <3> QED BY <3>1, FS_Subset, HostAssumption
    <2>3. ASSUME NEW q \in lost PROVE \E p \in lost : q \in below[p]
        <3>1. q \in rpm.added /\ q \notin InstallNames
            BY DEF Image, With
        <3>2. PICK p \in rpm.added : q \in deps[p]
            BY <2>1, <3>1 DEF DependedOn
        <3>3. p \in Names /\ q \in Below(host.requires, {p})
            BY <2>1, <3>2 DEF GraphInv
        <3>4. p \in Certain /\ q \in Below(host.pulls, {p})
            BY <2>1, <3>3, CertainUpwards, CertainIsPulled
        <3>5. InstallNames \in SUBSET Names
            BY <2>1
        <3>6. p \notin Image
            BY <2>1, <3>4, <3>5, ImageIsClosed
        <3> QED BY <3>2, <3>3, <3>4, <3>6
    <2>4. \A q \in lost : q \notin below[q]
        BY DEF Certain, With, Doubtful
    <2>5. \A x, y, z \in lost : x \in below[y] /\ y \in below[z] => x \in below[z]
        BY <2>1, <2>2, BelowTransitive DEF HostFacts
    <2>6. lost = {}
        <3> HIDE DEF lost, below
        <3> QED BY <2>2, <2>3, <2>4, <2>5, SomethingIsOnTop
    <2> QED BY <2>1, <2>6 DEF Certain
<1> QED BY <1>1, <1>2

LEMMA ReportIsAccurate == PackagesInv /\ GraphInv /\ SectionInv => ReportMatchesImage
<1> SUFFICES ASSUME PackagesInv, GraphInv, SectionInv, phase = "report", rpm.leaf # None, Complete
             PROVE  /\ (rpm.added \cap Image) \ Shown
                            \subseteq rpm.leaf \cap Below(host.requires, rpm.leaf \ excluded)
                    /\ host.pulls = host.requires => Shown \subseteq Image
    BY DEF ReportMatchesImage
<1> DEFINE kept == rpm.leaf \ excluded
<1>1. /\ HostFacts /\ deps \in Graphs
      /\ rpm.added \cap host.base = {} /\ rpm.added \in SUBSET Names
      /\ rpm.leaf \in SUBSET rpm.added /\ rpm.auto = rpm.added \ rpm.leaf
      /\ InstallNames = kept
      /\ \A l \in rpm.leaf : rpm.tree[l] = Below(deps, {l}) \cap rpm.auto
      /\ \A p \in Names : Below(deps, {p}) \subseteq Below(host.requires, {p})
    BY ReportFacts
<1>2. kept \in SUBSET rpm.leaf /\ kept \in SUBSET Names
    BY <1>1
<1>3. \A p : p \in Shown <=> p \in kept \/ \E l \in kept : p \in rpm.tree[l]
    BY DEF Shown, InTrees
<1>4. ASSUME NEW p \in rpm.added \cap Image, p \notin Shown
      PROVE  p \in rpm.leaf /\ p \in Below(host.requires, kept)
    <2>1. p \in Below(host.pulls, kept) /\ p \in Names
        BY <1>1, <1>3, <1>4 DEF Image, With
    <2>2. PICK l \in kept : p \in Below(host.pulls, {l})
        BY <1>1, <1>2, <2>1, BelowOfOne DEF HostFacts
    <2>3. l \in Names /\ l \in rpm.leaf /\ l \in rpm.added
        BY <1>1, <1>2
    <2>4. p \in Below(host.requires, {l})
        BY <1>1, <2>2, <2>3, BelowMonotonic DEF HostFacts
    <2>5. p \in With(deps, {l})
        BY <1>4, <2>3, <2>4 DEF Complete, With
    <2>6. p \in Below(deps, {l})
        BY <1>3, <1>4, <2>2, <2>5 DEF With
    <2>7. p \in rpm.leaf
        BY <1>1, <1>3, <1>4, <2>2, <2>3, <2>6
    <2> QED BY <1>1, <1>2, <2>1, <2>2, <2>4, <2>7, BelowOfOne DEF HostFacts
<1>5. ASSUME host.pulls = host.requires, NEW p \in Shown PROVE p \in Image
    <2>1. CASE p \in kept
        BY <1>1, <2>1 DEF Image, With
    <2>2. CASE \E l \in kept : p \in rpm.tree[l]
        <3>1. PICK l \in kept : p \in rpm.tree[l]
            BY <2>2
        <3>2. p \in Below(host.pulls, {l})
            BY <1>1, <1>2, <1>5, <3>1
        <3>3. p \in Names
            BY <3>2 DEF Below
        <3> QED BY <1>1, <1>2, <3>2, <3>3, BelowOfOne DEF HostFacts, Image, With
    <2> QED BY <1>3, <1>5, <2>1, <2>2
<1> QED BY <1>4, <1>5

LEMMA OrphansAreSkipped == PackagesInv /\ GraphInv /\ SectionInv => OrphanUnitsSkipped
<1> SUFFICES ASSUME PackagesInv, GraphInv, SectionInv, phase = "report", excluded # Rows,
                    NEW p \in EnabledUnits \ Image
             PROVE  p \in With(host.requires, excluded \cup Doubtful)
    BY DEF OrphanUnitsSkipped
<1>1. excluded \subseteq Rows /\ p \in installed /\ installed \subseteq Names
    BY DEF EnabledUnits, PackagesInv, PackagesTypeOK
<1>2. p \in Installable
    <2>1. SUFFICES ASSUME Installable = {} PROVE FALSE
        BY DEF EnabledUnits
    <2>2. Rows \subseteq excluded
        BY <2>1 DEF Installable, Rows
    <2> QED BY <1>1, <2>2
<1>3. CASE rpm.leaf = None
    BY <1>2, <1>3 DEF Installable, InstallNames, Image, With, SectionInv
<1>4. CASE rpm.leaf # None
    <2>1. /\ HostFacts /\ rpm.baseline = host.base /\ rpm.leaf \in SUBSET Names
          /\ InstallNames = rpm.leaf \ excluded
          /\ \A l \in rpm.leaf : rpm.tree[l] \subseteq Below(host.requires, {l})
        BY <1>4, ReportFacts
    <2>2. p \notin host.base /\ p \notin InstallNames
        BY DEF Image, With
    <2>3. CASE p \in rpm.leaf
        BY <2>1, <2>2, <2>3 DEF With
    <2>4. CASE \E l \in rpm.leaf : p \in rpm.tree[l]
        <3> DEFINE from == excluded \cup Doubtful
        <3>1. PICK l \in rpm.leaf : p \in Below(host.requires, {l})
            BY <2>1, <2>4
        <3>2. from \in SUBSET Names
            BY <1>1, <1>4, <2>1 DEF HostFacts, Rows
        <3>3. CASE l \in excluded
            BY <1>1, <2>1, <3>1, <3>2, <3>3, BelowOfOne DEF HostFacts, With
        <3>4. CASE l \notin excluded
            <4>1. p \notin Below(host.pulls, {l})
                BY <1>1, <2>1, <3>1, <3>4, BelowOfOne DEF HostFacts, Image, With
            <4>2. p \notin Certain
                BY <2>1, <3>1, <4>1, CertainIsPulled
            <4>3. p \in Doubtful \/ p \in Below(host.requires, Doubtful)
                BY <1>1, <4>2 DEF Certain, With
            <4> QED BY <1>1, <2>1, <3>2, <4>3, BelowOfOne DEF HostFacts, With
        <3> QED BY <3>3, <3>4
    <2> QED BY <1>2, <1>4, <2>1, <2>2, <2>3, <2>4 DEF Installable
<1> QED BY <1>3, <1>4

\* Whatever queries fail or are cut short, a package without marks gets to the
\* image unless requirements go in circles or have alternatives: a failed query
\* makes leaves rather than loses packages.
THEOREM NothingCertainIsLost == PackagesSpec => []OnlyCyclesAreLost
<1> QED BY ReportInvHolds, LostAreDoubtful, PTL

\* With complete answers the cascade of the report's checkboxes and dnf agree
\* on what comes into the image.
THEOREM ReportTellsTheImage == PackagesSpec => []ReportMatchesImage
<1> QED BY ReportInvHolds, ReportIsAccurate, PTL

\* _section_services() enables units of packages that will be there, of excluded
\* rows, and of what circles and alternatives leave in doubt.
THEOREM UnitsHaveTheirPackage == PackagesSpec => []OrphanUnitsSkipped
<1> QED BY ReportInvHolds, OrphansAreSkipped, PTL
=============================================================================
