------------------------------ MODULE Pipeline ------------------------------
(***************************************************************************)
(* One operator running yoinkc again and again, with other options, over   *)
(* the same output directory and the same tarball path: main() of          *)
(* __main__.py and run_pipeline() of pipeline.py, with the renderers, the  *)
(* entitlement bundle, the tarball, --validate and --push-to-github.       *)
(* A file is known by the number of the run that rendered it. Any step     *)
(* that writes may fail, and the process may be killed between any two.    *)
(***************************************************************************)
EXTENDS GitPush, Sequences

CONSTANTS
    RenderOrder,    \* files every run renders, in the order it renders them
    Optional,       \* files only some snapshots call for (config/..., quadlet/...)
    Certs,          \* entitlement/ and rhsm/ files of the host
    Reports,        \* audit-report.md and report.html
    BuildLog,       \* build-errors.log
    Options,        \* command lines the operator uses
    Removable       \* bound: files the operator removes from output_dir

Core == {RenderOrder[i] : i \in DOMAIN RenderOrder}

\* Where the tarball goes: the -o path, or a name with the run's own stamp.
Targets == {"dir", "-o", "stamp"}

\* What parse_args() lets pass.
CommandLines ==
    {o \in [fromSnapshot : BOOLEAN, inspectOnly : BOOLEAN, noEntitlement : BOOLEAN,
            target : Targets, validate : BOOLEAN, push : Specs \cup {NoSpec}] :
        /\ ~(o.fromSnapshot /\ o.inspectOnly)
        /\ (o.validate \/ o.push # NoSpec) => o.target = "dir"}

ASSUME PipelineAssumption ==
    /\ RenderOrder \in Seq(Paths) /\ Len(RenderOrder) >= 2
    /\ \A i, j \in DOMAIN RenderOrder : RenderOrder[i] = RenderOrder[j] => i = j
    /\ Paths = Core \cup Optional \cup Certs \cup {BuildLog}
    /\ Core \cap (Optional \cup Certs \cup {BuildLog}) = {}
    /\ Optional \cap (Certs \cup {BuildLog}) = {} /\ BuildLog \notin Certs
    /\ Reports \subseteq Core
    /\ Options \subseteq CommandLines

VARIABLES
    stage,      \* what the process is doing; "idle" between runs
    opt,        \* its command line
    run,        \* number of the run
    want,       \* what its snapshot calls for
    tmp,        \* its temporary directory
    kept,       \* temporary directories earlier runs left behind
    out,        \* output_dir
    warned,     \* reports in output_dir with a build failure added
    tarballs,   \* -o path (0) and stamped names (run number) -> run and state
    saved,      \* run whose snapshot --inspect-only left in the working directory
    exit        \* how the last run ended

files  == <<out, warned, tarballs, saved>>
fixed  == <<opt, run, want>>
pipelineVars == <<stage, fixed, tmp, kept, files, exit, gitVars>>

Working == {"inspecting", "rendering", "bundling", "copying", "packing", "writing", "removing"}
After   == {"validating", "committing", "confirming", "creating", "linking", "uploading"}

PipelineTypeOK ==
    /\ GitTypeOK
    /\ stage \in {"idle"} \cup Working \cup After
    /\ opt \in CommandLines
    /\ run \in 0..MaxRuns /\ saved \in 0..MaxRuns
    /\ want \subseteq Core \cup Optional
    /\ tmp \in Trees /\ out \in Trees
    /\ stage \notin Working => tmp = Nothing
    /\ kept \subseteq [by : 1..MaxRuns, tree : Trees]
    /\ warned \subseteq Reports
    /\ tarballs \in [0..MaxRuns -> [by : 0..MaxRuns, whole : BOOLEAN, tree : Trees]]
    /\ exit \in {"none", "ok", "error", "killed"}

NoTarball == [by |-> 0, whole |-> FALSE, tree |-> Nothing]

\* Before the first run.
NoOptions == [fromSnapshot |-> FALSE, inspectOnly |-> FALSE, noEntitlement |-> FALSE,
              target |-> "stamp", validate |-> FALSE, push |-> NoSpec]

PipelineInit ==
    /\ stage = "idle" /\ opt = NoOptions /\ run = 0 /\ want = {}
    /\ tmp = Nothing /\ kept = {}
    /\ out = Nothing /\ warned = {}
    /\ tarballs = [t \in 0..MaxRuns |-> NoTarball]
    /\ saved = 0 /\ exit = "none"
    /\ GitInit

TmpWhole == want \subseteq DOMAIN tmp

\* What bundle_entitlement_certs() finds to copy.
Bundled == IF opt.noEntitlement \/ opt.fromSnapshot THEN {} ELSE Certs
-----------------------------------------------------------------------------
(***************************************************************************)
(* How a run ends                                                          *)
(***************************************************************************)

Exit(how) == stage' = "idle" /\ exit' = how

\* Fault: the temporary directory goes the way of the process.
DropTemp == tmp' = Nothing /\ UNCHANGED kept

\* The temporary directory outlives the process: as it is or, when rmtree()
\* was at work on it, what is left of it.
Preserve ==
    /\ \E left \in (IF stage = "removing" THEN SUBSET DOMAIN tmp ELSE {DOMAIN tmp}) :
        kept' = kept \cup (IF left = {} THEN {} ELSE {[by |-> run, tree |-> Restrict(tmp, left)]})
    /\ tmp' = Nothing

\* The temporary directory is gone; what is left to do needs the directory.
NextDuty ==
    CASE opt.target = "dir" /\ opt.validate -> "validating"
      [] opt.target = "dir" /\ ~opt.validate /\ opt.push # NoSpec -> "committing"
      [] OTHER -> "idle"
-----------------------------------------------------------------------------
(***************************************************************************)
(* run_pipeline()                                                          *)
(***************************************************************************)

Start ==
    /\ stage = "idle" /\ run < MaxRuns
    /\ \E o \in Options, extra \in SUBSET Optional :
        opt' = o /\ want' = Core \cup extra
    /\ run' = run + 1
    /\ stage' = "inspecting"
    /\ exit' = "none"
    /\ UNCHANGED <<tmp, kept, files, gitVars>>

\* Preflight checks, a snapshot of another schema version, an inspector
\* that gives up: nothing has been written.
GiveUp ==
    /\ stage = "inspecting"
    /\ Exit("error")
    /\ UNCHANGED <<fixed, tmp, kept, files, gitVars>>

InspectOnly ==
    /\ stage = "inspecting" /\ opt.inspectOnly
    /\ saved' = run
    /\ Exit("ok")
    /\ UNCHANGED <<fixed, tmp, kept, out, warned, tarballs, gitVars>>

\* The redacted snapshot is the first file of the temporary directory.
StartRendering ==
    /\ stage = "inspecting" /\ ~opt.inspectOnly
    /\ stage' = "rendering"
    /\ UNCHANGED <<fixed, tmp, kept, files, exit, gitVars>>

NextCore == CHOOSE i \in DOMAIN RenderOrder :
    RenderOrder[i] \notin DOMAIN tmp /\ \A j \in 1..(i - 1) : RenderOrder[j] \in DOMAIN tmp

\* The renderers run in their order; the optional files are written along
\* with the Containerfile, the second file.
RenderNext ==
    /\ stage = "rendering" /\ ~TmpWhole
    /\ LET first == RenderOrder[NextCore]
           new   == {first} \cup (IF NextCore = 2 THEN want \ Core ELSE {})
       IN  tmp' = Over([p \in new |-> run], tmp)
    /\ UNCHANGED <<stage, fixed, kept, files, exit, gitVars>>

Rendered ==
    /\ stage = "rendering" /\ TmpWhole
    /\ stage' = "bundling"
    /\ UNCHANGED <<fixed, tmp, kept, files, exit, gitVars>>

\* bundle_entitlement_certs()
Bundle ==
    /\ stage = "bundling"
    /\ tmp' = Over([p \in Bundled |-> run], tmp)
    /\ stage' = IF opt.target = "dir" THEN "copying" ELSE "packing"
    /\ UNCHANGED <<fixed, kept, files, exit, gitVars>>

\* Fault: a file that is there already is left alone.
UncopiedUnlessThere == DOMAIN tmp \ DOMAIN out

Uncopied == {p \in DOMAIN tmp : p \notin DOMAIN out \/ out[p] # run}

\* Nothing of an earlier run is removed: directories are merged.
CopyOne ==
    /\ stage = "copying"
    /\ \E p \in Uncopied :
        /\ out' = Over([q \in {p} |-> run], out)
        /\ warned' = warned \ {p}
    /\ UNCHANGED <<stage, fixed, tmp, kept, tarballs, saved, exit, gitVars>>

Copied ==
    /\ stage = "copying" /\ Uncopied = {}
    /\ stage' = "removing"
    /\ UNCHANGED <<fixed, tmp, kept, files, exit, gitVars>>

Path == IF opt.target = "-o" THEN 0 ELSE run

\* create_tarball() truncates what is at its path before it writes.
OpenTarball ==
    /\ stage = "packing"
    /\ tarballs' = [tarballs EXCEPT ![Path] = [by |-> run, whole |-> FALSE, tree |-> Nothing]]
    /\ stage' = "writing"
    /\ UNCHANGED <<fixed, tmp, kept, out, warned, saved, exit, gitVars>>

WriteTarball ==
    /\ stage = "writing"
    /\ tarballs' = [tarballs EXCEPT ![Path] = [by |-> run, whole |-> TRUE, tree |-> tmp]]
    /\ stage' = "removing"
    /\ UNCHANGED <<fixed, tmp, kept, out, warned, saved, exit, gitVars>>

\* Fault: the temporary directory of a successful run stays.
RemoveTempForgotten ==
    /\ stage = "removing"
    /\ stage' = NextDuty
    /\ exit' = IF NextDuty = "idle" THEN "ok" ELSE exit
    /\ UNCHANGED <<fixed, tmp, kept, files, gitVars>>

RemoveTemp ==
    /\ stage = "removing"
    /\ tmp' = Nothing
    /\ stage' = NextDuty
    /\ exit' = IF NextDuty = "idle" THEN "ok" ELSE exit
    /\ UNCHANGED <<fixed, kept, files, gitVars>>

\* Files the copy has begun and not finished.
Tear(torn) ==
    /\ torn # {} => stage = "copying"
    /\ out' = Over([p \in torn |-> Torn], out)
    /\ warned' = warned \ torn

\* An exception while output is made: the rendered files are preserved. One
\* from rmtree() comes past the handler, and leaves files all the same.
Fails ==
    /\ stage \in Working \ {"inspecting"}
    /\ \E torn \in SUBSET Uncopied : Tear(torn)
    /\ Preserve
    /\ Exit("error")
    /\ UNCHANGED <<fixed, tarballs, saved, gitVars>>

\* SIGKILL, SIGTERM, ^C: no handler runs, and nothing is said about the
\* temporary directory.
Killed ==
    /\ stage # "idle"
    /\ \E torn \in SUBSET Uncopied : Cardinality(torn) <= 1 /\ Tear(torn)
    /\ Preserve
    /\ Exit("killed")
    /\ UNCHANGED <<fixed, tarballs, saved, gitVars>>
-----------------------------------------------------------------------------
(***************************************************************************)
(* run_validate(); its result is not looked at                             *)
(***************************************************************************)

AfterValidate == IF opt.push # NoSpec THEN "committing" ELSE "idle"

Validated ==
    /\ stage' = AfterValidate
    /\ exit' = IF AfterValidate = "idle" THEN "ok" ELSE exit

\* The build succeeds, or it cannot be tried (no Containerfile, no podman):
\* nothing is written, and an earlier log stays.
BuildPasses ==
    /\ stage = "validating"
    /\ Validated
    /\ UNCHANGED <<fixed, tmp, kept, files, gitVars>>

\* Fault: a log that is there is not written again.
BuildFailsOldLog ==
    /\ stage = "validating"
    /\ out' = Over(out, [p \in {BuildLog} |-> run])
    /\ \E some \in SUBSET Reports : warned' = warned \cup some
    /\ Validated
    /\ UNCHANGED <<fixed, tmp, kept, tarballs, saved, gitVars>>

\* The log is written first; adding to a report may fail.
BuildFails ==
    /\ stage = "validating"
    /\ out' = Over([p \in {BuildLog} |-> run], out)
    /\ \E some \in SUBSET Reports : warned' = warned \cup some
    /\ Validated
    /\ UNCHANGED <<fixed, tmp, kept, tarballs, saved, gitVars>>
-----------------------------------------------------------------------------
(***************************************************************************)
(* --push-to-github                                                        *)
(***************************************************************************)

CommitOutput ==
    /\ stage = "committing"
    /\ Commit(out)
    /\ stage' = "confirming"
    /\ UNCHANGED <<fixed, tmp, kept, files, exit>>

\* Every way the push can end without having pushed: no GitPython, the scan
\* of the directory finds something, the operator says no, no token, an
\* error of GitHub.
PushFails ==
    /\ stage \in After \ {"validating"}
    /\ Exit("error")
    /\ UNCHANGED <<fixed, tmp, kept, files, gitVars>>

Confirmed ==
    /\ stage = "confirming"
    /\ \/ UseOrigin(opt.push) /\ stage' = "uploading"
       \/ ~HasOrigin /\ stage' = "creating" /\ UNCHANGED gitVars
    /\ UNCHANGED <<fixed, tmp, kept, files, exit>>

Created ==
    /\ stage = "creating"
    /\ CreateRepo(opt.push)
    /\ stage' = "linking"
    /\ UNCHANGED <<fixed, tmp, kept, files, exit>>

\* GitHub creates the repository and the answer is lost.
CreatedUnseen ==
    /\ stage = "creating"
    /\ CreateRepo(opt.push)
    /\ Exit("error")
    /\ UNCHANGED <<fixed, tmp, kept, files>>

\* PyGithub is not installed: the URL is made up from the argument.
NotCreated ==
    /\ stage = "creating"
    /\ stage' = "linking"
    /\ UNCHANGED <<fixed, tmp, kept, files, exit, gitVars>>

Linked ==
    /\ stage = "linking"
    /\ AddOrigin(opt.push)
    /\ stage' = "uploading"
    /\ UNCHANGED <<fixed, tmp, kept, files, exit>>

\* HEAD:main, or HEAD:master when the push to main raises. A refusal does not
\* raise: it ends the push as a success does.
Pushed ==
    /\ stage = "uploading"
    /\ \E branch \in Branches : Upload(branch) \/ Refuse(branch)
    /\ Exit("ok")
    /\ UNCHANGED <<fixed, tmp, kept, files>>

\* The branch is updated and the answer is lost: master is next, or an error.
PushedUnseen ==
    /\ stage = "uploading"
    /\ \E branch \in Branches : Upload(branch)
    /\ UNCHANGED <<stage, fixed, tmp, kept, files, exit>>
-----------------------------------------------------------------------------
\* Between runs the operator tidies up: a file of the output directory.
OperatorRemoves ==
    /\ stage = "idle"
    /\ \E p \in Removable \cap DOMAIN out :
        /\ out' = Restrict(out, DOMAIN out \ {p})
        /\ warned' = warned \ {p}
    /\ exit' = "none"
    /\ UNCHANGED <<stage, fixed, tmp, kept, tarballs, saved, gitVars>>

RunStep ==
    \/ GiveUp \/ InspectOnly \/ StartRendering \/ RenderNext \/ Rendered \/ Bundle
    \/ CopyOne \/ Copied \/ OpenTarball \/ WriteTarball \/ RemoveTemp \/ Fails \/ Killed

DutyStep ==
    \/ BuildPasses \/ BuildFails
    \/ CommitOutput \/ PushFails \/ Confirmed \/ Created \/ CreatedUnseen \/ NotCreated
    \/ Linked \/ Pushed \/ PushedUnseen

PipelineNext == Start \/ RunStep \/ DutyStep \/ OperatorRemoves

PipelineSpec == PipelineInit /\ [][PipelineNext]_pipelineVars
-----------------------------------------------------------------------------
(***************************************************************************)
(* Properties                                                              *)
(***************************************************************************)

\* The whole of what this run rendered, and nothing older in its place.
Holds(tree) == want \subseteq DOMAIN tree /\ \A p \in want : tree[p] = run

TarballHolds(t) == tarballs[t].whole /\ Holds(tarballs[t].tree)

Somewhere ==
    \/ Holds(tmp) \/ Holds(out)
    \/ \E t \in DOMAIN tarballs : TarballHolds(t)
    \/ \E k \in kept : Holds(k.tree)

\* A rendering once made is never lost: through failing copies, truncated
\* tarballs, a failing clean-up and kills between any two steps, all of it
\* is in one place, until another run starts or the operator removes files.
RenderingKept ==
    [][Somewhere => (Somewhere' \/ Start \/ OperatorRemoves)]_pipelineVars

Succeeded == stage = "idle" /\ exit = "ok" /\ ~opt.inspectOnly

\* Exit status 0 means that the destination holds all of this run's
\* rendering, over whatever earlier and failed runs left there. A tarball
\* holds nothing else, and no certificates that were not asked for.
SuccessDelivers ==
    Succeeded =>
        IF opt.target = "dir"
        THEN Holds(out) /\ \A p \in Bundled : out[p] = run
        ELSE TarballHolds(Path) /\ DOMAIN tarballs[Path].tree = want \cup Bundled

\* A report that says "see build-errors.log" sits next to the log of its own
\* run, however runs with and without --validate follow each other and
\* wherever they fail.
WarningMatchesLog ==
    \A r \in warned : BuildLog \in DOMAIN out => out[BuildLog] = out[r]

\* Every file of the output directory, as it is there.
Covers(tree) == \A p \in DOMAIN out : p \in DOMAIN tree /\ tree[p] = out[p]

SucceededPush == Succeeded /\ opt.push # NoSpec

\* A push that is reported as done has committed every file of the output
\* directory, and the repository that was asked for has that commit, earlier
\* runs' pushes elsewhere, lost answers and files removed in between
\* notwithstanding, unless that repository refuses one of the two branches.
PushedOrRefused ==
    SucceededPush =>
        /\ repo.origin = opt.push /\ Covers(repo.head)
        /\ \/ \E branch \in Branches : Covers(github[opt.push].tree[branch])
           \/ github[opt.push].refuses # {}

\* What push_to_github() documents: it returns a message when it fails, and
\* None, the exit status 0, when the files have been pushed.
PushedArrives ==
    SucceededPush => \E branch \in Branches : Covers(github[opt.push].tree[branch])
=============================================================================
