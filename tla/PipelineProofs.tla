--------------------------- MODULE PipelineProofs ---------------------------
(***************************************************************************)
(* Theorems about repeated runs of yoinkc over one output directory, for   *)
(* any files, command lines, repositories and number of runs.              *)
(*                                                                         *)
(* The argument: what a stage may rely on is what the stages before it     *)
(* have made (StageInv): the temporary directory is whole when it is       *)
(* copied or packed, the destination is whole when it is removed, and HEAD *)
(* covers the directory when it is pushed. A run that goes wrong is idle   *)
(* at once, and leaves nothing to rely on but what the next one writes.    *)
(***************************************************************************)
EXTENDS Pipeline, DataInduction, SequenceTheorems

-----------------------------------------------------------------------------
(* Trees of files *)

LEMMA TreeIff ==
    ASSUME NEW t, t = [p \in DOMAIN t |-> t[p]], DOMAIN t \subseteq Paths,
           \A p \in DOMAIN t : t[p] \in 0..MaxRuns
    PROVE  t \in Trees
<1>1. t \in [DOMAIN t -> 0..MaxRuns]
    OBVIOUS
<1> QED BY <1>1 DEF Trees, Torn

LEMMA TreeOf ==
    ASSUME NEW t \in Trees
    PROVE  /\ t = [p \in DOMAIN t |-> t[p]]
           /\ DOMAIN t \subseteq Paths
           /\ \A p \in DOMAIN t : t[p] \in 0..MaxRuns
<1>1. PICK S \in SUBSET Paths : t \in [S -> 0..MaxRuns]
    BY DEF Trees, Torn
<1> QED BY <1>1

LEMMA NothingIsTree == Nothing \in Trees /\ DOMAIN Nothing = {}
<1>1. DOMAIN Nothing = {} /\ Nothing = [p \in DOMAIN Nothing |-> Nothing[p]]
    BY DEF Nothing
<1> QED BY <1>1, TreeIff

\* One tree laid over another has the files of both.
LEMMA OverProperties ==
    ASSUME NEW new, NEW old
    PROVE  /\ DOMAIN Over(new, old) = DOMAIN new \cup DOMAIN old
           /\ \A p \in DOMAIN new : Over(new, old)[p] = new[p]
           /\ \A p \in DOMAIN old \ DOMAIN new : Over(new, old)[p] = old[p]
BY DEF Over

LEMMA OverIsTree ==
    ASSUME NEW new \in Trees, NEW old \in Trees
    PROVE  Over(new, old) \in Trees
<1> DEFINE t == Over(new, old)
<1>1. t = [p \in DOMAIN t |-> t[p]]
    BY DEF Over
<1>2. /\ DOMAIN t = DOMAIN new \cup DOMAIN old
      /\ \A p \in DOMAIN new : t[p] = new[p]
      /\ \A p \in DOMAIN old \ DOMAIN new : t[p] = old[p]
    BY OverProperties
<1> HIDE DEF t
<1>3. DOMAIN t \subseteq Paths /\ \A p \in DOMAIN t : t[p] \in 0..MaxRuns
    BY <1>2, TreeOf
<1>4. t \in Trees
    BY <1>1, <1>3, TreeIff
<1> QED BY <1>4 DEF t

\* Files of one run.
Stamp(S, n) == [p \in S |-> n]

LEMMA StampIsTree ==
    ASSUME NEW S \in SUBSET Paths, NEW n \in 0..MaxRuns
    PROVE  /\ Stamp(S, n) \in Trees
           /\ DOMAIN Stamp(S, n) = S
           /\ \A p \in S : Stamp(S, n)[p] = n
<1> DEFINE t == Stamp(S, n)
<1>1. t = [p \in DOMAIN t |-> t[p]] /\ DOMAIN t = S /\ \A p \in S : t[p] = n
    BY DEF Stamp
<1> HIDE DEF t
<1>2. t \in Trees
    BY <1>1, TreeIff
<1> QED BY <1>1, <1>2 DEF t

\* Files of one run laid over a tree.
LEMMA StampedOver ==
    ASSUME NEW S, NEW n, NEW old
    PROVE  /\ \A p : p \in DOMAIN Over(Stamp(S, n), old) <=> p \in S \/ p \in DOMAIN old
           /\ \A p \in S : Over(Stamp(S, n), old)[p] = n
           /\ \A p \in DOMAIN old \ S : Over(Stamp(S, n), old)[p] = old[p]
BY DEF Over, Stamp

LEMMA RestrictIsTree ==
    ASSUME NEW t \in Trees, NEW S \in SUBSET DOMAIN t
    PROVE  /\ Restrict(t, S) \in Trees
           /\ DOMAIN Restrict(t, S) = S
           /\ \A p \in S : Restrict(t, S)[p] = t[p]
<1> DEFINE r == Restrict(t, S)
<1>1. r = [p \in DOMAIN r |-> r[p]] /\ DOMAIN r = S /\ \A p \in S : r[p] = t[p]
    BY DEF Restrict
<1> HIDE DEF r
<1>2. r \in Trees
    BY <1>1, TreeOf, TreeIff
<1> QED BY <1>1, <1>2 DEF r

-----------------------------------------------------------------------------
(* The inductive invariant *)

\* Between "idle" and "idle" there is one run, on a command line its stage fits.
RunInv ==
    /\ stage # "idle" => run \in 1..MaxRuns /\ exit = "none" /\ Core \subseteq want
    /\ stage = "copying" => opt.target = "dir"
    /\ stage \in {"packing", "writing"} => opt.target # "dir"
    /\ stage \in After => opt.target = "dir"
    /\ stage \in After \ {"validating"} => opt.push # NoSpec

\* The temporary directory holds this run's files: those that come before what
\* is still to be rendered, all of them, and the certificates.
TmpInv ==
    /\ \A p \in DOMAIN tmp : tmp[p] = run
    /\ stage = "inspecting" => tmp = Nothing
    /\ stage = "rendering" =>
        /\ DOMAIN tmp \subseteq want
        /\ RenderOrder[2] \in DOMAIN tmp => want \ Core \subseteq DOMAIN tmp
    /\ stage = "bundling" => DOMAIN tmp = want
    /\ stage \in {"copying", "packing", "writing", "removing"} =>
        DOMAIN tmp = want \cup Bundled

Delivered ==
    IF opt.target = "dir"
    THEN \A p \in want \cup Bundled : p \in DOMAIN out /\ out[p] = run
    ELSE TarballHolds(Path) /\ DOMAIN tarballs[Path].tree = want \cup Bundled

\* From the removal of the temporary directory on, the destination is whole.
DeliveredInv == (stage = "removing" \/ stage \in After \/ Succeeded) => Delivered

WarnedInv == warned \subseteq DOMAIN out /\ WarningMatchesLog

\* From the commit to the push HEAD has the whole directory, and the push goes
\* where it was asked to.
PushInv ==
    /\ stage \in {"confirming", "creating", "linking", "uploading"} => Covers(repo.head)
    /\ stage = "uploading" => repo.origin = opt.push
    /\ PushedOrRefused

PipelineInv == PipelineTypeOK /\ RunInv /\ TmpInv /\ DeliveredInv /\ WarnedInv /\ PushInv

-----------------------------------------------------------------------------
(* The files of a run *)

LEMMA FilesOfRun ==
    ASSUME PipelineTypeOK
    PROVE  /\ Bundled \subseteq Certs /\ Reports \subseteq Core
           /\ want \cup Bundled \subseteq Paths /\ BuildLog \in Paths
           /\ BuildLog \notin want \cup Bundled
           /\ run \in 0..MaxRuns /\ Path \in 0..MaxRuns /\ MaxRuns \in Nat
BY PipelineAssumption, PushAssumption DEF PipelineTypeOK, Bundled, Path

\* While something is missing there is a next file to render.
LEMMA NextCoreProperties ==
    ASSUME PipelineTypeOK, TmpInv, stage = "rendering", ~TmpWhole
    PROVE  NextCore \in DOMAIN RenderOrder /\ RenderOrder[NextCore] \notin DOMAIN tmp
<1> DEFINE Missing == {i \in DOMAIN RenderOrder : RenderOrder[i] \notin DOMAIN tmp}
<1>0. /\ DOMAIN RenderOrder = 1..Len(RenderOrder) /\ Len(RenderOrder) \in Nat
      /\ 2 \in DOMAIN RenderOrder
    BY PipelineAssumption, LenProperties
<1>1. Missing # {}
    <2>1. PICK p \in want : p \notin DOMAIN tmp
        BY DEF TmpWhole
    <2>2. CASE p \in Core
        BY <2>1, <2>2 DEF Core
    <2>3. CASE p \notin Core
        BY <2>1, <2>3, <1>0 DEF TmpInv
    <2> QED BY <2>2, <2>3
<1>2. Missing \in SUBSET Nat
    BY <1>0
<1>3. PICK n \in Missing : \A m \in Missing : n <= m
    <2> HIDE DEF Missing
    <2> QED BY <1>1, <1>2, LeastNatural
<1>4. ASSUME NEW j \in 1..(n - 1) PROVE RenderOrder[j] \in DOMAIN tmp
    <2>1. j \in DOMAIN RenderOrder /\ ~(n <= j)
        BY <1>0
    <2> QED BY <2>1, <1>3
<1>5. \E i \in DOMAIN RenderOrder :
        RenderOrder[i] \notin DOMAIN tmp /\ \A j \in 1..(i - 1) : RenderOrder[j] \in DOMAIN tmp
    BY <1>3, <1>4
<1> QED BY <1>5 DEF NextCore

LEMMA CoreFiles ==
    ASSUME NEW i \in DOMAIN RenderOrder
    PROVE  RenderOrder[i] \in Core /\ RenderOrder[i] \in Paths
BY PipelineAssumption DEF Core

-----------------------------------------------------------------------------
(* Types *)

LEMMA PipelineInitType == PipelineInit => PipelineTypeOK
<1> SUFFICES ASSUME PipelineInit PROVE PipelineTypeOK
    OBVIOUS
<1>1. GitTypeOK
    <2>1. repo \in [head : Trees, origin : Specs \cup {NoSpec}]
        BY NothingIsTree DEF PipelineInit, GitInit
    <2>2. \A e \in BOOLEAN : [NoRepository EXCEPT !.exists = e]
                                \in [exists : BOOLEAN, tree : [Branches -> Trees], refuses : SUBSET Branches]
        BY NothingIsTree DEF NoRepository
    <2>3. github \in [Specs -> [exists : BOOLEAN, tree : [Branches -> Trees], refuses : SUBSET Branches]]
        BY <2>2 DEF PipelineInit, GitInit
    <2> QED BY <2>1, <2>3 DEF GitTypeOK
<1>2. NoOptions \in CommandLines
    BY DEF NoOptions, CommandLines, Targets
<1>3. tarballs \in [0..MaxRuns -> [by : 0..MaxRuns, whole : BOOLEAN, tree : Trees]]
    BY NothingIsTree, PushAssumption DEF PipelineInit, NoTarball
<1> QED
    BY <1>1, <1>2, <1>3, NothingIsTree, PushAssumption DEF PipelineInit, PipelineTypeOK, Working, After

\* The temporary directory of a run that goes wrong.
LEMMA PreserveType ==
    ASSUME PipelineTypeOK, run \in 1..MaxRuns, Preserve
    PROVE  tmp' = Nothing /\ kept' \subseteq [by : 1..MaxRuns, tree : Trees]
<1>1. PICK left \in SUBSET DOMAIN tmp :
        kept' = kept \cup (IF left = {} THEN {} ELSE {[by |-> run, tree |-> Restrict(tmp, left)]})
    BY DEF Preserve
<1>2. Restrict(tmp, left) \in Trees
    BY RestrictIsTree DEF PipelineTypeOK
<1> QED BY <1>1, <1>2 DEF Preserve, PipelineTypeOK

LEMMA UncopiedProperties ==
    ASSUME PipelineTypeOK
    PROVE  Uncopied \subseteq DOMAIN tmp /\ Uncopied \subseteq Paths
BY TreeOf DEF Uncopied, PipelineTypeOK

LEMMA TearType ==
    ASSUME PipelineTypeOK, NEW torn \in SUBSET Uncopied, Tear(torn)
    PROVE  out' \in Trees /\ warned' \subseteq Reports
<1>1. torn \subseteq Paths /\ 0 \in 0..MaxRuns
    BY UncopiedProperties, PushAssumption
<1>2. Stamp(torn, 0) \in Trees
    BY <1>1, StampIsTree
<1>3. out' = Over(Stamp(torn, 0), out)
    BY DEF Tear, Torn, Stamp
<1> QED BY <1>2, <1>3, OverIsTree DEF Tear, PipelineTypeOK

\* A file of this run laid over the directory.
LEMMA WriteType ==
    ASSUME PipelineTypeOK, NEW p \in Paths, out' = Over([q \in {p} |-> run], out)
    PROVE  out' \in Trees
<1>1. {p} \in SUBSET Paths /\ run \in 0..MaxRuns
    BY DEF PipelineTypeOK
<1>2. Stamp({p}, run) \in Trees
    BY <1>1, StampIsTree
<1>3. out' = Over(Stamp({p}, run), out)
    BY DEF Stamp
<1> QED BY <1>2, <1>3, OverIsTree DEF PipelineTypeOK

LEMMA GitTypes ==
    ASSUME PipelineTypeOK
    PROVE  /\ Commit(out) => GitTypeOK'
           /\ \A s \in Specs : UseOrigin(s) \/ AddOrigin(s) => GitTypeOK'
           /\ \A s \in Specs : CreateRepo(s) => GitTypeOK'
           /\ \A b \in Branches : repo.origin \in Specs /\ (Upload(b) \/ Refuse(b)) => GitTypeOK'
           /\ UNCHANGED gitVars => GitTypeOK'
<1>0. GitTypeOK /\ out \in Trees
    BY DEF PipelineTypeOK
<1>1. ASSUME Commit(out) PROVE GitTypeOK'
    <2>1. repo' = [repo EXCEPT !.head = Over(out, repo.head)]
        BY <1>1 DEF Commit
    <2>2. Over(out, repo.head) \in Trees
        BY <1>0, OverIsTree DEF GitTypeOK
    <2> QED BY <1>0, <1>1, <2>1, <2>2 DEF GitTypeOK, Commit
<1>2. ASSUME NEW s \in Specs, UseOrigin(s) \/ AddOrigin(s) PROVE GitTypeOK'
    BY <1>0, <1>2 DEF GitTypeOK, UseOrigin, AddOrigin
<1>3. ASSUME NEW s \in Specs, CreateRepo(s) PROVE GitTypeOK'
    <2>1. [github[s] EXCEPT !.exists = TRUE] \in [exists : BOOLEAN, tree : [Branches -> Trees], refuses : SUBSET Branches]
        BY <1>0 DEF GitTypeOK
    <2>2. github' = [github EXCEPT ![s] = [github[s] EXCEPT !.exists = TRUE]]
        BY <1>0, <1>3 DEF CreateRepo, GitTypeOK
    <2> QED BY <1>0, <1>3, <2>1, <2>2 DEF GitTypeOK, CreateRepo
<1>4. ASSUME NEW b \in Branches, repo.origin \in Specs, Upload(b) PROVE GitTypeOK'
    <2> DEFINE s == repo.origin
    <2>1. [github[s].tree EXCEPT ![b] = repo.head] \in [Branches -> Trees]
        BY <1>0, <1>4 DEF GitTypeOK
    <2>2. [github[s] EXCEPT !.tree = [github[s].tree EXCEPT ![b] = repo.head]]
            \in [exists : BOOLEAN, tree : [Branches -> Trees], refuses : SUBSET Branches]
        BY <1>0, <1>4, <2>1 DEF GitTypeOK
    <2>3. github' = [github EXCEPT ![s] =
                        [github[s] EXCEPT !.tree = [github[s].tree EXCEPT ![b] = repo.head]]]
        BY <1>0, <1>4 DEF Upload, GitTypeOK
    <2>4. github' \in [Specs -> [exists : BOOLEAN, tree : [Branches -> Trees], refuses : SUBSET Branches]]
        BY <1>0, <1>4, <2>2, <2>3 DEF GitTypeOK
    <2> QED BY <1>0, <1>4, <2>4 DEF GitTypeOK, Upload
<1>5. ASSUME UNCHANGED gitVars PROVE GitTypeOK'
    BY <1>0, <1>5 DEF GitTypeOK, gitVars
<1>6. ASSUME NEW b \in Branches, repo.origin \in Specs, Refuse(b) PROVE GitTypeOK'
    <2> DEFINE s == repo.origin
    <2>1. [github[s] EXCEPT !.refuses = github[s].refuses \cup {b}]
            \in [exists : BOOLEAN, tree : [Branches -> Trees], refuses : SUBSET Branches]
        BY <1>0, <1>6 DEF GitTypeOK
    <2>2. github' = [github EXCEPT ![s] = [github[s] EXCEPT !.refuses = github[s].refuses \cup {b}]]
        BY <1>0, <1>6 DEF Refuse, GitTypeOK
    <2> QED BY <1>0, <1>6, <2>1, <2>2 DEF GitTypeOK, Refuse
<1> QED BY <1>1, <1>2, <1>3, <1>4, <1>5, <1>6

LEMMA PipelineTypeStep ==
    ASSUME PipelineInv, [PipelineNext]_pipelineVars
    PROVE  PipelineTypeOK'
<1> USE DEF Working, After, files, fixed
<1>0. PipelineTypeOK /\ RunInv /\ TmpInv /\ PushInv
    BY DEF PipelineInv
<1>1. CASE Start
    <2>1. PICK o \in Options, extra \in SUBSET Optional : opt' = o /\ want' = Core \cup extra
        BY <1>1 DEF Start
    <2>2. run' \in 0..MaxRuns
        BY <1>0, <1>1, PushAssumption DEF Start, PipelineTypeOK
    <2>3. GitTypeOK'
        BY <1>0, <1>1, GitTypes DEF Start
    <2> QED BY <1>0, <1>1, <2>1, <2>2, <2>3, PipelineAssumption DEF Start, PipelineTypeOK
<1>2. CASE GiveUp \/ InspectOnly \/ StartRendering \/ Rendered \/ Copied \/ RemoveTemp
    <2>1. GitTypeOK'
        BY <1>0, <1>2, GitTypes DEF GiveUp, InspectOnly, StartRendering, Rendered, Copied, RemoveTemp
    <2> QED
        BY <1>0, <1>2, <2>1, NothingIsTree
        DEF GiveUp, InspectOnly, StartRendering, Rendered, Copied, RemoveTemp, Exit, NextDuty,
            PipelineTypeOK, RunInv, TmpInv
<1>3. CASE RenderNext
    <2> DEFINE new == {RenderOrder[NextCore]} \cup (IF NextCore = 2 THEN want \ Core ELSE {})
    <2>1. new \in SUBSET Paths /\ run \in 0..MaxRuns
        BY <1>0, <1>3, NextCoreProperties, CoreFiles, FilesOfRun DEF RenderNext
    <2>2. tmp' = Over(Stamp(new, run), tmp)
        BY <1>3 DEF RenderNext, Stamp
    <2>3. tmp' \in Trees
        <3> HIDE DEF new
        <3> QED BY <1>0, <2>1, <2>2, StampIsTree, OverIsTree DEF PipelineTypeOK
    <2>4. GitTypeOK'
        BY <1>0, <1>3, GitTypes DEF RenderNext
    <2> QED BY <1>0, <1>3, <2>3, <2>4 DEF RenderNext, PipelineTypeOK
<1>4. CASE Bundle
    <2>1. tmp' \in Trees
        <3>1. Bundled \in SUBSET Paths /\ run \in 0..MaxRuns
            BY <1>0, FilesOfRun
        <3>2. tmp' = Over(Stamp(Bundled, run), tmp)
            BY <1>4 DEF Bundle, Stamp
        <3> QED BY <1>0, <3>1, <3>2, StampIsTree, OverIsTree DEF PipelineTypeOK
    <2>2. GitTypeOK'
        BY <1>0, <1>4, GitTypes DEF Bundle
    <2> QED BY <1>0, <1>4, <2>1, <2>2 DEF Bundle, PipelineTypeOK
<1>5. CASE CopyOne
    <2>1. PICK p \in Uncopied : out' = Over([q \in {p} |-> run], out) /\ warned' = warned \ {p}
        BY <1>5 DEF CopyOne
    <2>2. out' \in Trees
        BY <1>0, <2>1, UncopiedProperties, WriteType
    <2>3. GitTypeOK'
        BY <1>0, <1>5, GitTypes DEF CopyOne
    <2> QED BY <1>0, <1>5, <2>1, <2>2, <2>3 DEF CopyOne, PipelineTypeOK
<1>6. CASE OpenTarball \/ WriteTarball
    <2>1. GitTypeOK'
        BY <1>0, <1>6, GitTypes DEF OpenTarball, WriteTarball
    <2>2. Path \in 0..MaxRuns /\ run \in 0..MaxRuns
        BY <1>0, FilesOfRun
    <2>3. \A whole \in BOOLEAN, tree \in Trees :
            [by |-> run, whole |-> whole, tree |-> tree]
                \in [by : 0..MaxRuns, whole : BOOLEAN, tree : Trees]
        BY <2>2
    <2>4. PICK whole \in BOOLEAN, tree \in Trees :
            tarballs' = [tarballs EXCEPT ![Path] = [by |-> run, whole |-> whole, tree |-> tree]]
        BY <1>0, <1>6, NothingIsTree DEF OpenTarball, WriteTarball, PipelineTypeOK
    <2>5. tarballs' \in [0..MaxRuns -> [by : 0..MaxRuns, whole : BOOLEAN, tree : Trees]]
        BY <1>0, <2>2, <2>3, <2>4 DEF PipelineTypeOK
    <2> QED BY <1>0, <1>6, <2>1, <2>5 DEF OpenTarball, WriteTarball, PipelineTypeOK
<1>7. CASE Fails \/ Killed
    <2>1. PICK torn \in SUBSET Uncopied : Tear(torn)
        BY <1>7 DEF Fails, Killed
    <2>2. run \in 1..MaxRuns
        BY <1>0, <1>7 DEF Fails, Killed, RunInv
    <2>3. out' \in Trees /\ warned' \subseteq Reports
        BY <1>0, <2>1, TearType
    <2>4. tmp' = Nothing /\ kept' \subseteq [by : 1..MaxRuns, tree : Trees]
        BY <1>0, <1>7, <2>2, PreserveType DEF Fails, Killed
    <2>5. GitTypeOK'
        BY <1>0, <1>7, GitTypes DEF Fails, Killed
    <2> QED
        BY <1>0, <1>7, <2>3, <2>4, <2>5, NothingIsTree DEF Fails, Killed, Exit, PipelineTypeOK
<1>8. CASE BuildPasses
    <2>1. GitTypeOK'
        BY <1>0, <1>8, GitTypes DEF BuildPasses
    <2> QED BY <1>0, <1>8, <2>1 DEF BuildPasses, Validated, AfterValidate, PipelineTypeOK
<1>9. CASE BuildFails
    <2>1. PICK some \in SUBSET Reports : warned' = warned \cup some
        BY <1>9 DEF BuildFails
    <2>2. out' \in Trees
        BY <1>0, <1>9, FilesOfRun, WriteType DEF BuildFails
    <2>3. GitTypeOK'
        BY <1>0, <1>9, GitTypes DEF BuildFails
    <2> QED
        BY <1>0, <1>9, <2>1, <2>2, <2>3 DEF BuildFails, Validated, AfterValidate, PipelineTypeOK
<1>10. CASE CommitOutput
    <2>1. GitTypeOK'
        BY <1>0, <1>10, GitTypes DEF CommitOutput
    <2> QED BY <1>0, <1>10, <2>1 DEF CommitOutput, PipelineTypeOK
<1>11. CASE PushFails \/ Confirmed \/ Created \/ CreatedUnseen \/ NotCreated \/ Linked \/ Pushed \/ PushedUnseen
    <2>1. opt.push \in Specs
        BY <1>0, <1>11
        DEF PushFails, Confirmed, Created, CreatedUnseen, NotCreated, Linked, Pushed, PushedUnseen,
            RunInv, PipelineTypeOK, CommandLines
    <2>2. stage = "uploading" => repo.origin \in Specs
        BY <1>0, <2>1 DEF PushInv
    <2>3. GitTypeOK'
        BY <1>0, <1>11, <2>1, <2>2, GitTypes
        DEF PushFails, Confirmed, Created, CreatedUnseen, NotCreated, Linked, Pushed, PushedUnseen
    <2> QED
        BY <1>0, <1>11, <2>3
        DEF PushFails, Confirmed, Created, CreatedUnseen, NotCreated, Linked, Pushed, PushedUnseen, Exit,
            PipelineTypeOK
<1>12. CASE OperatorRemoves
    <2>1. PICK p \in DOMAIN out : out' = Restrict(out, DOMAIN out \ {p}) /\ warned' = warned \ {p}
        BY <1>12 DEF OperatorRemoves
    <2>2. out' \in Trees
        BY <1>0, <2>1, RestrictIsTree DEF PipelineTypeOK
    <2>3. GitTypeOK'
        BY <1>0, <1>12, GitTypes DEF OperatorRemoves
    <2> QED BY <1>0, <1>12, <2>1, <2>2, <2>3 DEF OperatorRemoves, PipelineTypeOK
<1>13. CASE UNCHANGED pipelineVars
    <2>1. GitTypeOK'
        BY <1>0, <1>13, GitTypes DEF pipelineVars
    <2> QED BY <1>0, <1>13, <2>1 DEF pipelineVars, PipelineTypeOK
<1> QED
    BY <1>1, <1>2, <1>3, <1>4, <1>5, <1>6, <1>7, <1>8, <1>9, <1>10, <1>11, <1>12, <1>13
    DEF PipelineNext, RunStep, DutyStep

-----------------------------------------------------------------------------
(* The parts of the invariant *)

LEMMA PipelineInitInv == PipelineInit => PipelineInv
<1> SUFFICES ASSUME PipelineInit PROVE PipelineInv
    OBVIOUS
<1>1. PipelineTypeOK
    BY PipelineInitType
<1>2. RunInv /\ TmpInv /\ DeliveredInv
    BY NothingIsTree DEF PipelineInit, RunInv, TmpInv, DeliveredInv, After, Succeeded
<1>3. WarnedInv /\ PushInv
    BY DEF PipelineInit, WarnedInv, WarningMatchesLog, PushInv, PushedOrRefused, SucceededPush, Succeeded
<1> QED BY <1>1, <1>2, <1>3 DEF PipelineInv

\* Only a start changes the command line, the number and the wishes of a run.
LEMMA FixedKept ==
    ASSUME [PipelineNext]_pipelineVars, ~Start
    PROVE  UNCHANGED <<opt, run, want>> /\ Bundled' = Bundled /\ Path' = Path
<1>1. UNCHANGED <<opt, run, want>>
    BY DEF PipelineNext, RunStep, DutyStep, pipelineVars, fixed, OperatorRemoves,
           GiveUp, InspectOnly, StartRendering, RenderNext, Rendered, Bundle, CopyOne, Copied,
           OpenTarball, WriteTarball, RemoveTemp, Fails, Killed, BuildPasses, BuildFails,
           CommitOutput, PushFails, Confirmed, Created, CreatedUnseen, NotCreated, Linked, Pushed, PushedUnseen
<1> QED BY <1>1 DEF Bundled, Path

LEMMA RunInvStep ==
    ASSUME PipelineTypeOK, RunInv, [PipelineNext]_pipelineVars
    PROVE  RunInv'
<1> USE DEF RunInv, After, Exit
<1>1. CASE Start
    BY <1>1, PushAssumption DEF Start, PipelineTypeOK
<1>2. CASE ~Start
    <2>1. UNCHANGED <<opt, run, want>>
        BY <1>2, FixedKept
    <2>2. CASE GiveUp \/ InspectOnly \/ Fails \/ Killed \/ PushFails \/ CreatedUnseen \/ Pushed
        BY <2>1, <2>2 DEF GiveUp, InspectOnly, Fails, Killed, PushFails, CreatedUnseen, Pushed
    <2>3. CASE StartRendering \/ RenderNext \/ Rendered \/ Bundle \/ CopyOne \/ Copied
               \/ OpenTarball \/ WriteTarball
        BY <2>1, <2>3 DEF StartRendering, RenderNext, Rendered, Bundle, CopyOne, Copied,
                          OpenTarball, WriteTarball
    <2>4. CASE RemoveTemp
        BY <2>1, <2>4 DEF RemoveTemp, NextDuty
    <2>5. CASE BuildPasses \/ BuildFails
        BY <2>1, <2>5 DEF BuildPasses, BuildFails, Validated, AfterValidate
    <2>6. CASE CommitOutput \/ Confirmed \/ Created \/ NotCreated \/ Linked \/ PushedUnseen
        BY <2>1, <2>6 DEF CommitOutput, Confirmed, Created, NotCreated, Linked, PushedUnseen
    <2>7. CASE OperatorRemoves \/ UNCHANGED pipelineVars
        BY <2>1, <2>7 DEF OperatorRemoves, pipelineVars
    <2> QED BY <1>2, <2>2, <2>3, <2>4, <2>5, <2>6, <2>7 DEF PipelineNext, RunStep, DutyStep
<1> QED BY <1>1, <1>2

LEMMA TmpInvStep ==
    ASSUME PipelineTypeOK, RunInv, TmpInv, [PipelineNext]_pipelineVars
    PROVE  TmpInv'
<1> USE DEF files
<1>1. CASE Start
    <2>1. tmp' = Nothing
        BY <1>1 DEF Start, PipelineTypeOK, Working
    <2> QED BY <1>1, <2>1, NothingIsTree DEF Start, TmpInv
<1>2. CASE ~Start
    <2>1. UNCHANGED <<opt, run, want>> /\ Bundled' = Bundled
        BY <1>2, FixedKept
    <2>2. CASE tmp' = Nothing /\ stage' \notin {"rendering", "bundling", "copying", "packing",
                                                "writing", "removing"}
        BY <2>2, NothingIsTree DEF TmpInv
    <2>3. CASE UNCHANGED <<tmp, stage>>
        BY <2>1, <2>3 DEF TmpInv
    <2>4. CASE StartRendering
        BY <2>1, <2>4, NothingIsTree DEF StartRendering, TmpInv
    <2>5. CASE RenderNext
        <3> DEFINE new == {RenderOrder[NextCore]} \cup (IF NextCore = 2 THEN want \ Core ELSE {})
        <3>1. tmp' = Over(Stamp(new, run), tmp) /\ stage' = "rendering" /\ stage = "rendering"
            BY <2>5 DEF RenderNext, Stamp
        <3>2. NextCore \in DOMAIN RenderOrder /\ RenderOrder[NextCore] \notin DOMAIN tmp
            BY <2>5, NextCoreProperties DEF RenderNext
        <3>3. RenderOrder[NextCore] \in Core /\ RenderOrder[NextCore] \in Paths
            BY <3>2, CoreFiles
        <3>4. new \in SUBSET Paths /\ run \in 0..MaxRuns
            BY <3>3, FilesOfRun
        <3> HIDE DEF new
        <3>5. /\ \A p : p \in DOMAIN tmp' <=> p \in new \/ p \in DOMAIN tmp
              /\ \A p \in new : tmp'[p] = run
              /\ \A p \in DOMAIN tmp \ new : tmp'[p] = tmp[p]
            BY <3>1, StampedOver
        <3>6. \A p \in DOMAIN tmp' : tmp'[p] = run
            BY <3>5 DEF TmpInv
        <3>7. new \subseteq want
            BY <2>5, <3>3 DEF new, RenderNext, RunInv
        <3>8. ASSUME RenderOrder[2] \in DOMAIN tmp' PROVE want \ Core \subseteq DOMAIN tmp'
            <4>1. CASE RenderOrder[2] \in DOMAIN tmp
                BY <4>1, <3>1, <3>5 DEF TmpInv
            <4>2. CASE RenderOrder[2] \in new
                <5>1. 2 \in DOMAIN RenderOrder
                    BY PipelineAssumption, LenProperties
                <5>2. RenderOrder[2] = RenderOrder[NextCore]
                    BY <4>2, <5>1, CoreFiles DEF new
                <5>3. NextCore = 2
                    BY <5>1, <5>2, <3>2, PipelineAssumption
                <5> QED BY <5>3, <3>5 DEF new
            <4> QED BY <3>5, <3>8, <4>1, <4>2
        <3>9. DOMAIN tmp' \subseteq want
            BY <3>1, <3>5, <3>7 DEF TmpInv
        <3> QED BY <2>1, <3>1, <3>6, <3>8, <3>9 DEF TmpInv
    <2>6. CASE Rendered
        BY <2>1, <2>6 DEF Rendered, TmpInv, TmpWhole
    <2>7. CASE Bundle
        <3>1. Bundled \in SUBSET Paths /\ run \in 0..MaxRuns
            BY FilesOfRun
        <3>2. tmp' = Over(Stamp(Bundled, run), tmp)
            BY <2>7 DEF Bundle, Stamp
        <3>3. /\ DOMAIN tmp' = Bundled \cup DOMAIN tmp
              /\ \A p \in Bundled : tmp'[p] = run
              /\ \A p \in DOMAIN tmp \ Bundled : tmp'[p] = tmp[p]
            BY <3>2, StampedOver
        <3>4. DOMAIN tmp' = want \cup Bundled /\ \A p \in DOMAIN tmp' : tmp'[p] = run
            BY <2>7, <3>3 DEF Bundle, TmpInv
        <3> QED BY <2>1, <2>7, <3>4 DEF Bundle, TmpInv
    <2>8. CASE Copied \/ OpenTarball \/ WriteTarball
        BY <2>1, <2>8 DEF Copied, OpenTarball, WriteTarball, TmpInv
    <2>9. CASE ~(StartRendering \/ RenderNext \/ Rendered \/ Bundle \/ Copied \/ OpenTarball
                    \/ WriteTarball \/ CopyOne \/ UNCHANGED pipelineVars \/ OperatorRemoves)
        <3>1. tmp' = Nothing
            BY <1>2, <2>9 DEF PipelineNext, RunStep, DutyStep, PipelineTypeOK, Working, After,
                  GiveUp, InspectOnly, RemoveTemp, Fails, Killed, Preserve, BuildPasses, BuildFails,
                  CommitOutput, PushFails, Confirmed, Created, CreatedUnseen, NotCreated, Linked, Pushed, PushedUnseen,
                  TmpInv
        <3>2. stage' \in {"idle"} \cup After
            BY <1>2, <2>9 DEF PipelineNext, RunStep, DutyStep, Exit, NextDuty, After, AfterValidate,
                  GiveUp, InspectOnly, RemoveTemp, Fails, Killed, BuildPasses, BuildFails, Validated,
                  CommitOutput, PushFails, Confirmed, Created, CreatedUnseen, NotCreated, Linked, Pushed, PushedUnseen
        <3> QED BY <2>2, <3>1, <3>2 DEF After
    <2>10. CASE CopyOne \/ UNCHANGED pipelineVars \/ OperatorRemoves
        BY <2>3, <2>10 DEF CopyOne, pipelineVars, OperatorRemoves
    <2> QED BY <2>4, <2>5, <2>6, <2>7, <2>8, <2>9, <2>10
<1> QED BY <1>1, <1>2

\* A failing build writes the log, and nothing of what the run rendered.
LEMMA BuildFailsWrites ==
    ASSUME PipelineTypeOK, BuildFails
    PROVE  /\ \A p : p \in DOMAIN out' <=> p = BuildLog \/ p \in DOMAIN out
           /\ out'[BuildLog] = run
           /\ \A p \in DOMAIN out : p # BuildLog => out'[p] = out[p]
<1>1. out' = Over(Stamp({BuildLog}, run), out)
    BY DEF BuildFails, Stamp
<1>2. /\ \A p : p \in DOMAIN out' <=> p \in {BuildLog} \/ p \in DOMAIN out
      /\ \A p \in {BuildLog} : out'[p] = run
      /\ \A p \in DOMAIN out \ {BuildLog} : out'[p] = out[p]
    BY <1>1, StampedOver
<1> QED BY <1>2

\* A copied file is this run's.
LEMMA CopyOneWrites ==
    ASSUME CopyOne
    PROVE  \E c \in Uncopied :
            /\ \A p : p \in DOMAIN out' <=> p = c \/ p \in DOMAIN out
            /\ out'[c] = run
            /\ \A p \in DOMAIN out : p # c => out'[p] = out[p]
            /\ warned' = warned \ {c}
<1>1. PICK c \in Uncopied : out' = Over(Stamp({c}, run), out) /\ warned' = warned \ {c}
    BY DEF CopyOne, Stamp
<1>2. /\ \A p : p \in DOMAIN out' <=> p \in {c} \/ p \in DOMAIN out
      /\ \A p \in {c} : out'[p] = run
      /\ \A p \in DOMAIN out \ {c} : out'[p] = out[p]
    BY <1>1, StampedOver
<1> QED BY <1>1, <1>2

\* A copy that breaks off has touched nothing but files still to be copied.
LEMMA TearWrites ==
    ASSUME NEW torn \in SUBSET Uncopied, Tear(torn)
    PROVE  /\ \A p : p \in DOMAIN out' <=> p \in torn \/ p \in DOMAIN out
           /\ \A p \in DOMAIN out : p \notin torn => out'[p] = out[p]
           /\ warned' = warned \ torn
<1>1. out' = Over(Stamp(torn, Torn), out) /\ warned' = warned \ torn
    BY DEF Tear, Stamp
<1>2. /\ \A p : p \in DOMAIN out' <=> p \in torn \/ p \in DOMAIN out
      /\ \A p \in DOMAIN out \ torn : out'[p] = out[p]
    BY <1>1, StampedOver
<1> QED BY <1>1, <1>2

LEMMA DeliveredInvStep ==
    ASSUME PipelineTypeOK, RunInv, TmpInv, DeliveredInv, [PipelineNext]_pipelineVars
    PROVE  DeliveredInv'
<1> USE DEF files
<1> DEFINE Rests == stage = "removing" \/ stage \in After \/ Succeeded
<1>1. CASE Start
    BY <1>1 DEF Start, DeliveredInv, After, Succeeded
<1>2. CASE ~Start
    <2>1. UNCHANGED <<opt, run, want>> /\ Bundled' = Bundled /\ Path' = Path
        BY <1>2, FixedKept
    <2>2. ASSUME UNCHANGED <<out, tarballs>>, Rests' => Rests PROVE DeliveredInv'
        <3>1. Delivered' <=> Delivered
            BY <2>1, <2>2 DEF Delivered, TarballHolds, Holds
        <3> QED BY <2>2, <3>1 DEF DeliveredInv
    <2>3. ASSUME ~Rests' PROVE DeliveredInv'
        BY <2>3 DEF DeliveredInv
    <2>4. CASE GiveUp \/ InspectOnly \/ Fails \/ Killed \/ PushFails \/ CreatedUnseen \/ OperatorRemoves
        <3>1. ~Succeeded' /\ stage' = "idle"
            BY <2>1, <2>4
            DEF GiveUp, InspectOnly, Fails, Killed, PushFails, CreatedUnseen, OperatorRemoves,
                Exit, Succeeded
        <3> QED BY <2>3, <3>1 DEF After
    <2>5. CASE StartRendering \/ RenderNext \/ Rendered \/ Bundle \/ CopyOne \/ OpenTarball
        <3>1. stage' \in {"rendering", "bundling", "copying", "packing", "writing"}
            BY <2>5 DEF StartRendering, RenderNext, Rendered, Bundle, CopyOne, OpenTarball
        <3> QED BY <2>3, <3>1 DEF After, Succeeded
    <2>6. CASE Copied
        <3>1. \A p \in DOMAIN tmp : p \in DOMAIN out /\ out[p] = run
            BY <2>6 DEF Copied, Uncopied
        <3>2. opt.target = "dir" /\ DOMAIN tmp = want \cup Bundled
            BY <2>6 DEF Copied, RunInv, TmpInv
        <3>3. UNCHANGED out
            BY <2>6 DEF Copied
        <3> QED BY <2>1, <3>1, <3>2, <3>3 DEF DeliveredInv, Delivered
    <2>7. CASE WriteTarball
        <3>1. opt.target # "dir" /\ DOMAIN tmp = want \cup Bundled
            BY <2>7 DEF WriteTarball, RunInv, TmpInv
        <3>2. tarballs'[Path] = [by |-> run, whole |-> TRUE, tree |-> tmp]
            BY <2>7, FilesOfRun DEF WriteTarball, PipelineTypeOK
        <3>3. tarballs'[Path'] = [by |-> run, whole |-> TRUE, tree |-> tmp]
            BY <2>1, <3>2
        <3>4. tarballs'[Path'].whole /\ tarballs'[Path'].tree = tmp
            BY <3>3
        <3>5. want \subseteq DOMAIN tmp /\ \A p \in want : tmp[p] = run
            BY <3>1 DEF TmpInv
        <3> QED BY <2>1, <3>1, <3>4, <3>5 DEF DeliveredInv, Delivered, TarballHolds, Holds
    <2>8. CASE RemoveTemp
        <3>1. Rests /\ UNCHANGED <<out, tarballs>>
            BY <2>8 DEF RemoveTemp
        <3> QED BY <2>2, <3>1
    <2>9. CASE BuildPasses \/ CommitOutput \/ Confirmed \/ Created \/ NotCreated \/ Linked \/ Pushed \/ PushedUnseen
        <3>1. stage \in After /\ UNCHANGED <<out, tarballs>>
            BY <2>9 DEF BuildPasses, CommitOutput, Confirmed, Created, NotCreated, Linked, Pushed, PushedUnseen, After
        <3> QED BY <2>2, <3>1
    <2>10. CASE BuildFails
        <3>1. stage \in After
            BY <2>10 DEF BuildFails, After
        <3>2. opt.target = "dir" /\ Delivered
            BY <3>1 DEF RunInv, DeliveredInv
        <3>3. \A p \in want \cup Bundled : p \in DOMAIN out' /\ out'[p] = run
            BY <2>10, <3>2, FilesOfRun, BuildFailsWrites DEF Delivered
        <3> QED BY <2>1, <3>2, <3>3 DEF DeliveredInv, Delivered
    <2>11. CASE UNCHANGED pipelineVars
        <3>1. UNCHANGED <<stage, exit, out, tarballs>>
            BY <2>11 DEF pipelineVars
        <3>2. Rests' <=> Rests
            BY <2>1, <3>1 DEF Succeeded
        <3> QED BY <2>2, <3>1, <3>2
    <2> HIDE DEF Rests
    <2> QED
        BY <1>2, <2>4, <2>5, <2>6, <2>7, <2>8, <2>9, <2>10, <2>11 DEF PipelineNext, RunStep, DutyStep
<1> QED BY <1>1, <1>2

LEMMA WarnedInvStep ==
    ASSUME PipelineTypeOK, RunInv, TmpInv, DeliveredInv, WarnedInv, [PipelineNext]_pipelineVars
    PROVE  WarnedInv'
<1> USE DEF WarnedInv, WarningMatchesLog
<1>1. CASE UNCHANGED <<out, warned>>
    BY <1>1
<1>2. CASE CopyOne
    <2>1. BuildLog \notin Uncopied
        BY <1>2, UncopiedProperties, FilesOfRun DEF CopyOne, TmpInv
    <2> QED BY <1>2, <2>1, CopyOneWrites
<1>3. CASE Fails \/ Killed
    <2>1. PICK torn \in SUBSET Uncopied : Tear(torn)
        BY <1>3 DEF Fails, Killed
    <2>2. BuildLog \notin torn
        BY <2>1, UncopiedProperties, FilesOfRun DEF Tear, TmpInv
    <2> QED BY <2>1, <2>2, TearWrites
<1>4. CASE BuildFails
    <2>1. PICK some \in SUBSET Reports : warned' = warned \cup some
        BY <1>4 DEF BuildFails
    <2>2. opt.target = "dir" /\ Delivered /\ Core \subseteq want
        BY <1>4 DEF BuildFails, RunInv, DeliveredInv, After
    <2>3. \A r \in Reports : r \in DOMAIN out /\ out[r] = run /\ r # BuildLog
        BY <2>2, FilesOfRun DEF Delivered
    <2>4. warned \subseteq Reports
        BY DEF PipelineTypeOK
    <2> QED BY <1>4, <2>1, <2>3, <2>4, BuildFailsWrites
<1>5. CASE OperatorRemoves
    <2>1. PICK p \in DOMAIN out : out' = Restrict(out, DOMAIN out \ {p}) /\ warned' = warned \ {p}
        BY <1>5 DEF OperatorRemoves
    <2>2. /\ \A q : q \in DOMAIN out' <=> q \in DOMAIN out /\ q # p
          /\ \A q \in DOMAIN out : q # p => out'[q] = out[q]
        BY <2>1 DEF Restrict
    <2> QED BY <2>1, <2>2
<1>6. CASE ~(CopyOne \/ Fails \/ Killed \/ BuildFails \/ OperatorRemoves)
    <2>1. UNCHANGED <<out, warned>>
        BY <1>6
        DEF files, PipelineNext, RunStep, DutyStep, pipelineVars, Start, GiveUp, InspectOnly,
            StartRendering, RenderNext, Rendered, Bundle, Copied, OpenTarball, WriteTarball,
            RemoveTemp, BuildPasses, CommitOutput, PushFails, Confirmed, Created, CreatedUnseen,
            NotCreated, Linked, Pushed, PushedUnseen
    <2> QED BY <1>1, <2>1
<1> QED BY <1>2, <1>3, <1>4, <1>5, <1>6

LEMMA PushInvStep ==
    ASSUME PipelineTypeOK, RunInv, DeliveredInv, PushInv, [PipelineNext]_pipelineVars
    PROVE  PushInv'
<1> USE DEF files
<1> DEFINE Pushing == {"confirming", "creating", "linking", "uploading"}
<1>1. CASE Start
    BY <1>1 DEF Start, PushInv, PushedOrRefused, SucceededPush, Succeeded
<1>2. CASE ~Start
    <2>1. UNCHANGED <<opt, run, want>>
        BY <1>2, FixedKept
    <2>2. ASSUME stage' \notin Pushing, ~(Succeeded' /\ opt.push # NoSpec) PROVE PushInv'
        BY <2>1, <2>2 DEF PushInv, PushedOrRefused, SucceededPush
    <2>3. opt.push # NoSpec => opt.target = "dir"
        BY DEF PipelineTypeOK, CommandLines
    <2>4. CASE GiveUp \/ InspectOnly \/ Fails \/ Killed \/ PushFails \/ CreatedUnseen \/ OperatorRemoves
        <3>1. ~Succeeded' /\ stage' = "idle"
            BY <2>1, <2>4
            DEF GiveUp, InspectOnly, Fails, Killed, PushFails, CreatedUnseen, OperatorRemoves,
                Exit, Succeeded
        <3> QED BY <2>2, <3>1
    <2>5. CASE StartRendering \/ RenderNext \/ Rendered \/ Bundle \/ CopyOne \/ Copied
               \/ OpenTarball \/ WriteTarball
        <3>1. stage' \in {"rendering", "bundling", "copying", "packing", "writing", "removing"}
            BY <2>5 DEF StartRendering, RenderNext, Rendered, Bundle, CopyOne, Copied,
                        OpenTarball, WriteTarball
        <3> QED BY <2>2, <3>1 DEF Succeeded
    <2>6. CASE RemoveTemp
        <3>1. stage' = NextDuty
            BY <2>6 DEF RemoveTemp
        <3>2. NextDuty \in {"validating", "committing", "idle"}
            BY DEF NextDuty
        <3>3. opt.push # NoSpec => NextDuty # "idle"
            BY <2>3 DEF NextDuty
        <3> QED BY <2>2, <3>1, <3>2, <3>3 DEF Succeeded
    <2>7. CASE BuildPasses \/ BuildFails
        <3>1. stage' = AfterValidate
            BY <2>7 DEF BuildPasses, BuildFails, Validated
        <3> QED BY <2>2, <3>1 DEF AfterValidate, Succeeded
    <2>8. CASE CommitOutput
        <3>1. repo' = [repo EXCEPT !.head = Over(out, repo.head)] /\ stage' = "confirming"
            BY <2>8 DEF CommitOutput, Commit
        <3>2. repo'.head = Over(out, repo.head)
            BY <3>1 DEF PipelineTypeOK, GitTypeOK
        <3>3. Covers(repo'.head) /\ UNCHANGED out
            BY <2>8, <3>2 DEF Covers, Over, CommitOutput
        <3>4. Covers(repo.head)'
            BY <3>3 DEF Covers
        <3> QED BY <3>1, <3>4 DEF PushInv, PushedOrRefused, SucceededPush, Succeeded
    <2>9. CASE Confirmed \/ Created \/ NotCreated \/ Linked \/ PushedUnseen
        <3>1. /\ stage \in Pushing /\ stage' \in Pushing
              /\ UNCHANGED out /\ repo'.head = repo.head
              /\ stage' = "uploading" => repo'.origin = opt.push
            BY <2>9 DEF Confirmed, Created, NotCreated, Linked, PushedUnseen, UseOrigin, AddOrigin,
                        CreateRepo, Upload, PushInv,
                        PipelineTypeOK, GitTypeOK, gitVars
        <3>2. Covers(repo.head)'
            BY <3>1 DEF PushInv, Covers
        <3>3. ~Succeeded'
            BY <3>1 DEF Succeeded
        <3> QED BY <2>1, <3>1, <3>2, <3>3 DEF PushInv, PushedOrRefused, SucceededPush
    <2>10. CASE Pushed
        <3>1. PICK b \in Branches : Upload(b) \/ Refuse(b)
            BY <2>10 DEF Pushed
        <3>2. stage = "uploading" /\ stage' = "idle" /\ UNCHANGED <<out, repo>>
            BY <2>10, <3>1 DEF Pushed, Exit, Upload, Refuse
        <3>3. opt.push = repo.origin /\ opt.push \in Specs /\ Covers(repo.head)
            BY <3>2 DEF PushInv, RunInv, After, PipelineTypeOK, CommandLines
        <3>4. repo'.origin = opt'.push /\ Covers(repo.head)'
            BY <2>1, <3>2, <3>3 DEF Covers
        <3>5. CASE Upload(b)
            <4>1. github'[opt.push].tree[b] = repo.head
                BY <3>3, <3>5 DEF Upload, PipelineTypeOK, GitTypeOK
            <4>2. Covers(github[opt.push].tree[b])'
                BY <2>1, <3>2, <3>3, <4>1 DEF Covers
            <4> QED BY <3>2, <3>4, <4>2 DEF PushInv, PushedOrRefused
        <3>6. CASE Refuse(b)
            <4>1. b \in github'[opt.push].refuses
                BY <3>3, <3>6 DEF Refuse, PipelineTypeOK, GitTypeOK
            <4>2. github'[opt'.push].refuses # {}
                BY <2>1, <4>1
            <4> QED BY <3>2, <3>4, <4>2 DEF PushInv, PushedOrRefused
        <3> QED BY <3>1, <3>5, <3>6
    <2>11. CASE UNCHANGED pipelineVars
        <3>1. UNCHANGED <<stage, exit, out, repo, github>>
            BY <2>11 DEF pipelineVars, gitVars
        <3>2. Succeeded' <=> Succeeded
            BY <2>1, <3>1 DEF Succeeded
        <3> QED BY <2>1, <3>1, <3>2 DEF PushInv, PushedOrRefused, SucceededPush, Covers
    <2> QED
        BY <1>2, <2>4, <2>5, <2>6, <2>7, <2>8, <2>9, <2>10, <2>11 DEF PipelineNext, RunStep, DutyStep
<1> QED BY <1>1, <1>2

-----------------------------------------------------------------------------
(* A rendering is kept *)

\* What holds the rendering is told apart by its files alone.
LEMMA HoldsSame ==
    ASSUME NEW t, NEW u, Holds(t),
           \A p \in DOMAIN t : p \in DOMAIN u /\ (t[p] = run => u[p] = run)
    PROVE  Holds(u)
BY DEF Holds

\* From the clean-up on the destination has all there is.
LEMMA DestinationHolds ==
    ASSUME PipelineInv, stage = "removing" \/ stage \in After
    PROVE  \/ Holds(out)
           \/ \E t \in DOMAIN tarballs : TarballHolds(t)
<1>1. Delivered /\ Path \in DOMAIN tarballs
    BY FilesOfRun DEF PipelineInv, DeliveredInv, PipelineTypeOK
<1>2. CASE opt.target = "dir"
    BY <1>1, <1>2 DEF Delivered, Holds
<1>3. CASE opt.target # "dir"
    BY <1>1, <1>3 DEF Delivered
<1> QED BY <1>2, <1>3

\* While there is a copy or a tarball to make, the temporary directory is whole.
LEMMA TmpHolds ==
    ASSUME PipelineInv, stage \in {"copying", "packing", "writing"}
    PROVE  Holds(tmp) /\ tmp \in Trees
BY DEF PipelineInv, TmpInv, PipelineTypeOK, Holds

\* What a run that goes wrong leaves of its temporary directory.
LEMMA PreserveHolds ==
    ASSUME PipelineInv, Preserve, UNCHANGED <<run, want>>, stage \notin {"idle", "removing"}, Holds(tmp)
    PROVE  \E k \in kept' : Holds(k.tree)'
<1>1. want # {}
    <2>1. 2 \in DOMAIN RenderOrder
        BY PipelineAssumption, LenProperties
    <2> QED BY <2>1, CoreFiles DEF PipelineInv, RunInv
<1>2. DOMAIN tmp # {}
    BY <1>1 DEF Holds
<1>3. [by |-> run, tree |-> Restrict(tmp, DOMAIN tmp)] \in kept'
    BY <1>2 DEF Preserve
<1>4. Holds(Restrict(tmp, DOMAIN tmp))
    BY DEF Restrict, Holds
<1>5. PICK k \in kept' : k.tree = Restrict(tmp, DOMAIN tmp)
    BY <1>3
<1>6. Holds(k.tree)'
    BY <1>4, <1>5 DEF Holds
<1> QED BY <1>6

LEMMA RenderingKeptStep ==
    ASSUME PipelineInv, [PipelineNext]_pipelineVars, Somewhere, ~Start, ~OperatorRemoves
    PROVE  Somewhere'
<1> USE DEF files
<1>0. UNCHANGED <<opt, run, want>> /\ Path' = Path /\ PipelineTypeOK
    BY FixedKept DEF PipelineInv
<1>1. ASSUME NEW t, Holds(t) PROVE Holds(t)'
    BY <1>0, <1>1 DEF Holds
<1>2. CASE UNCHANGED <<tmp, out, tarballs, kept>>
    BY <1>0, <1>2 DEF Somewhere, Holds, TarballHolds
<1>3. CASE RenderNext
    <2>1. ~Holds(tmp) /\ UNCHANGED <<out, tarballs, kept>>
        BY <1>3 DEF RenderNext, Holds, TmpWhole
    <2> QED BY <1>0, <2>1 DEF Somewhere, Holds, TarballHolds
<1>4. CASE Bundle
    <2>1. tmp' = Over(Stamp(Bundled, run), tmp) /\ UNCHANGED <<out, tarballs, kept>>
        BY <1>4 DEF Bundle, Stamp
    <2>2. Holds(tmp) => Holds(tmp)'
        BY <1>0, <2>1, StampedOver DEF Holds
    <2> QED BY <1>0, <2>1, <2>2 DEF Somewhere, Holds, TarballHolds
<1>5. CASE CopyOne \/ OpenTarball \/ WriteTarball
    <2>1. Holds(tmp) /\ UNCHANGED tmp
        BY <1>5, TmpHolds DEF CopyOne, OpenTarball, WriteTarball
    <2>2. Holds(tmp)'
        BY <1>0, <2>1 DEF Holds
    <2> QED BY <2>2 DEF Somewhere
<1>6. CASE RemoveTemp \/ ((Fails \/ Killed) /\ stage \in {"removing"} \cup After)
    <2>1. UNCHANGED <<out, tarballs>>
        <3>1. CASE RemoveTemp
            BY <3>1 DEF RemoveTemp
        <3>2. CASE (Fails \/ Killed) /\ stage \in {"removing"} \cup After
            <4>1. UNCHANGED tarballs
                BY <3>2 DEF Fails, Killed
            <4>2. PICK torn \in SUBSET Uncopied : Tear(torn)
                BY <3>2 DEF Fails, Killed
            <4>3. torn = {}
                BY <3>2, <4>2 DEF Tear, After
            <4>4. out' = Over(Stamp({}, Torn), out)
                BY <4>2, <4>3 DEF Tear, Stamp
            <4>5. out' = out
                <5>1. out = [p \in DOMAIN out |-> out[p]]
                    BY <1>0, TreeOf DEF PipelineTypeOK
                <5>2. DOMAIN Stamp({}, Torn) = {}
                    BY DEF Stamp
                <5> QED BY <4>4, <5>1, <5>2 DEF Over
            <4> QED BY <4>1, <4>5
        <3> QED BY <1>6, <3>1, <3>2
    <2>2. Holds(out) \/ \E t \in DOMAIN tarballs : TarballHolds(t)
        BY <1>6, DestinationHolds DEF RemoveTemp
    <2> QED BY <1>0, <2>1, <2>2 DEF Somewhere, Holds, TarballHolds
<1>7. CASE (Fails \/ Killed) /\ stage \notin {"removing"} \cup After
    <2>1. /\ Preserve /\ UNCHANGED <<run, want, tarballs>> /\ stage # "idle"
          /\ kept \subseteq kept'
        BY <1>0, <1>7 DEF Fails, Killed, Preserve, Working
    <2>2. PICK torn \in SUBSET Uncopied : Tear(torn)
        BY <1>7 DEF Fails, Killed
    <2>3. CASE Holds(tmp)
        <3>1. \E k \in kept' : Holds(k.tree)'
            BY <1>7, <2>1, <2>3, PreserveHolds
        <3> QED BY <3>1 DEF Somewhere
    <2>4. CASE ~Holds(tmp)
        <3>1. torn = {}
            BY <2>2, <2>4, TmpHolds DEF Tear
        <3>2. /\ \A p : p \in DOMAIN out' <=> p \in DOMAIN out
              /\ \A p \in DOMAIN out : out'[p] = out[p]
            BY <2>2, <3>1, TearWrites
        <3>3. Holds(out) => Holds(out)'
            BY <1>0, <3>2 DEF Holds
        <3> QED BY <1>0, <2>1, <2>4, <3>3 DEF Somewhere, Holds, TarballHolds
    <2> QED BY <2>3, <2>4
<1>8. CASE BuildFails
    <2>1. UNCHANGED <<tmp, kept, tarballs>>
        BY <1>8 DEF BuildFails
    <2>2. Holds(out) => Holds(out)'
        BY <1>0, <1>8, FilesOfRun, BuildFailsWrites DEF Holds
    <2> QED BY <1>0, <2>1, <2>2 DEF Somewhere, Holds, TarballHolds
<1>9. CASE ~(RenderNext \/ Bundle \/ CopyOne \/ OpenTarball \/ WriteTarball \/ RemoveTemp
                \/ Fails \/ Killed \/ BuildFails)
    <2>1. UNCHANGED <<tmp, out, tarballs, kept>>
        BY <1>9
        DEF PipelineNext, RunStep, DutyStep, pipelineVars, GiveUp, InspectOnly, StartRendering,
            Rendered, Copied, BuildPasses, CommitOutput, PushFails, Confirmed, Created,
            CreatedUnseen, NotCreated, Linked, Pushed, PushedUnseen
    <2> QED BY <1>2, <2>1
<1> QED BY <1>3, <1>4, <1>5, <1>6, <1>7, <1>8, <1>9

-----------------------------------------------------------------------------
(* The theorems *)

\* Every state of the pipeline satisfies the invariant.
THEOREM PipelineInvariant == PipelineSpec => []PipelineInv
<1>1. PipelineInit => PipelineInv
    BY PipelineInitInv
<1>2. PipelineInv /\ [PipelineNext]_pipelineVars => PipelineInv'
    BY PipelineTypeStep, RunInvStep, TmpInvStep, DeliveredInvStep, WarnedInvStep, PushInvStep
    DEF PipelineInv
<1> QED BY <1>1, <1>2, PTL DEF PipelineSpec

\* The variables of pipeline.py, of the output directory and of the repositories
\* have their types; in particular a finished run has no temporary directory.
THEOREM PipelineTypeCorrect == PipelineSpec => []PipelineTypeOK
<1>1. PipelineInv => PipelineTypeOK
    BY DEF PipelineInv
<1> QED BY <1>1, PipelineInvariant, PTL

\* Exit status 0 means that the destination holds all that the run rendered, and a
\* tarball nothing else (run_pipeline(): copy or tarball, then clean-up).
THEOREM SuccessfulRunsDeliver == PipelineSpec => []SuccessDelivers
<1>1. PipelineInv => SuccessDelivers
    BY DEF PipelineInv, DeliveredInv, Delivered, SuccessDelivers, Holds
<1> QED BY <1>1, PipelineInvariant, PTL

\* A report with a build failure added sits next to the log of its own run
\* (run_validate()).
THEOREM WarningsMatchTheLog == PipelineSpec => []WarningMatchesLog
<1>1. PipelineInv => WarningMatchesLog
    BY DEF PipelineInv, WarnedInv
<1> QED BY <1>1, PipelineInvariant, PTL

\* A push that is reported as done has committed every file of the output
\* directory and has put them into the repository that was asked for, unless that
\* repository refuses a branch (push_to_github()).
THEOREM PushesArriveOrAreRefused == PipelineSpec => []PushedOrRefused
<1>1. PipelineInv => PushedOrRefused
    BY DEF PipelineInv, PushInv
<1> QED BY <1>1, PipelineInvariant, PTL

\* A rendering once made is never lost, whatever fails and whenever the process is
\* killed, until another run starts or the operator removes files (run_pipeline():
\* what is deleted has been delivered, what is not delivered is left behind).
THEOREM RenderingsAreKept == PipelineSpec => RenderingKept
<1>1. PipelineInv /\ [PipelineNext]_pipelineVars
        => (Somewhere => (Somewhere' \/ Start \/ OperatorRemoves))
    BY RenderingKeptStep
<1> QED BY <1>1, PipelineInvariant, PTL DEF PipelineSpec, RenderingKept
=============================================================================
