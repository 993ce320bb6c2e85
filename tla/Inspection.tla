----------------------------- MODULE Inspection -----------------------------
(***************************************************************************)
(* One inspection: run_all() of inspectors/__init__.py, with the queries   *)
(* of the base image that BaselineResolver (baseline.py) makes through the *)
(* host's podman. Each command on the host is a step, and the host is not  *)
(* still meanwhile: logins expire, networks drop, images are removed from  *)
(* the store, and a tag of the registry can move.                          *)
(***************************************************************************)
EXTENDS BaseImage, FiniteSets

CONSTANTS
    Hosts,          \* /etc/os-release: records id and version
    CommandLines,   \* the options that bear on the baseline
    Sections,       \* the inspectors after rpm, in their order
    MaxContent      \* bound: contents the registry has under one tag

Others == {Sections[i] : i \in DOMAIN Sections}

ASSUME InspectionAssumption ==
    /\ MaxContent \in Nat \ {0}
    /\ Sections \in Seq(STRING)
    /\ "service" \in Others
    /\ Others \cap {"start", "resolving", "resolved", "rpm", "checked", "presets", "done", "failed"} = {}
    /\ \A i, j \in DOMAIN Sections : Sections[i] = Sections[j] => i = j
    /\ \A o \in CommandLines : ~(o.noBaseline /\ o.file # "none")

VARIABLES
    os, opt,    \* the host, the command line
    host,       \* of podman: access, login, reachable, and what the store and
                \* the registry hold under the name of the target image
    probe,      \* _nsenter_available: "unknown", "yes" or "no"
    query,      \* the query under way
    base,       \* what resolve() returned, or NoBase
    snap,       \* the snapshot so far
    stage,      \* of run_all()
    missed      \* history: an image was removed from the store, or was there and a
                \* look at the store failed

inputs == <<os, opt>>
vars == <<inputs, host, probe, query, base, snap, stage, missed>>

Contents == 1..MaxContent

\* Images that can come up: the ones asked for and the ones mapped to.
Images == ({o.image : o \in CommandLines}
             \cup {SelectBaseImage(h, o.version) : h \in Hosts, o \in CommandLines}) \ {NoImage}

\* A package list: where it comes from, and which content that image had.
\* "empty" is a list without a name in it.
NoList == [from |-> "nothing", image |-> NoImage, content |-> 0]
FileList == [NoList EXCEPT !.from = "file"]
Lists == [from : {"nothing", "file", "empty", "image"}, image : Images \cup {NoImage},
          content : 0..MaxContent]

NoBase == [names |-> NoList, image |-> NoImage, noBaseline |-> FALSE, resolved |-> FALSE]
Bases == [names : Lists, image : Images \cup {NoImage}, noBaseline : BOOLEAN, resolved : BOOLEAN]

NoQuery == [what |-> "nothing", image |-> NoImage, step |-> "auth"]
Steps == {"auth", "cached", "pull", "run"}
Stages == {"start", "resolving", "resolved", "rpm", "checked", "presets", "done", "failed"}
              \cup Others

InspectionTypeOK ==
    /\ os \in Hosts /\ opt \in CommandLines
    /\ host \in [access : BOOLEAN, login : BOOLEAN, reachable : BOOLEAN,
                 store : 0..MaxContent, registry : Contents]
    /\ probe \in {"unknown", "yes", "no"}
    /\ query = NoQuery \/ query \in [what : {"packages", "presets"}, image : Images, step : Steps]
    /\ base \in Bases
    /\ snap \in [rpm : Bases, presets : {l \in Lists : l.from \in {"nothing", "image"}}, present : SUBSET (Others \cup {"rpm"}),
                 warned : SUBSET (Others \cup {"rpm", "baseline"})]
    /\ stage \in Stages
    /\ query # NoQuery => stage \in {"resolving", "presets"}
    /\ missed \in BOOLEAN

InspectionInit ==
    /\ os \in Hosts /\ opt \in CommandLines
    /\ host \in [access : BOOLEAN, login : BOOLEAN, reachable : BOOLEAN,
                 store : 0..1, registry : {1}]
    /\ probe = "unknown" /\ query = NoQuery /\ base = NoBase
    /\ snap = [rpm |-> NoBase, presets |-> NoList, present |-> {}, warned |-> {}]
    /\ stage = "start" /\ missed = FALSE
-----------------------------------------------------------------------------
(***************************************************************************)
(* The host                                                                *)
(***************************************************************************)

HostChanges ==
    /\ stage \notin {"done", "failed"}
    /\ \/ host' = [host EXCEPT !.login = ~@] /\ UNCHANGED missed
       \/ host' = [host EXCEPT !.reachable = ~@] /\ UNCHANGED missed
       \/ /\ host.registry < MaxContent
          /\ host' = [host EXCEPT !.registry = @ + 1]
          /\ UNCHANGED missed
       \/ /\ host.store # 0
          /\ host' = [host EXCEPT !.store = 0]
          /\ missed' = TRUE
    /\ UNCHANGED <<inputs, probe, query, base, snap, stage>>
-----------------------------------------------------------------------------
(***************************************************************************)
(* What a query leads to                                                   *)
(***************************************************************************)

\* The triple that resolve() returns.
Resolved(names, image, noBaseline) ==
    /\ base' = [names |-> names, image |-> image, noBaseline |-> noBaseline, resolved |-> TRUE]
    /\ stage' = "resolved"

TargetImage == IF opt.image # NoImage THEN opt.image ELSE SelectBaseImage(os, opt.version)

\* resolve() trusts an empty list of an image that was asked for, and
\* get_baseline_packages() does not trust one of a mapped image.
PackagesAnswer(list) ==
    LET failed == list.from = "nothing" \/ (list.from = "empty" /\ opt.image = NoImage)
    IN  /\ Resolved(IF failed THEN NoList ELSE list, TargetImage, failed)
        /\ UNCHANGED snap

\* Fault: a text without a preset in it is taken for presets.
PresetsAnswerUnchecked(list) ==
    /\ snap' = [snap EXCEPT !.presets = list]
    /\ stage' = "service"
    /\ UNCHANGED base

PresetsAnswer(list) ==
    /\ snap' = [snap EXCEPT !.presets = IF list.from = "image" THEN list ELSE NoList]
    /\ stage' = "service"
    /\ UNCHANGED base

Answer(list) ==
    /\ query' = NoQuery
    /\ IF query.what = "packages" THEN PackagesAnswer(list) ELSE PresetsAnswer(list)

NextStep(step) ==
    /\ query' = [query EXCEPT !.step = step]
    /\ UNCHANGED <<base, snap, stage>>

Querying(step) == query # NoQuery /\ query.step = step
-----------------------------------------------------------------------------
(***************************************************************************)
(* BaselineResolver                                                        *)
(***************************************************************************)

\* _probe_nsenter() asks once; it may fail, by its time-out, on a host that
\* does give access.
ProbeTo(usable) ==
    IF probe = "unknown"
    THEN /\ usable => host.access
         /\ probe' = IF usable THEN "yes" ELSE "no"
    ELSE usable = (probe = "yes") /\ UNCHANGED probe

AskAuth ==
    /\ Querying("auth")
    /\ IF NeedsLogin(query.image)
       THEN \E usable \in BOOLEAN :
                /\ ProbeTo(usable)
                /\ IF usable /\ host.login THEN NextStep("cached") ELSE Answer(NoList)
       ELSE NextStep("cached") /\ UNCHANGED probe
    /\ UNCHANGED <<inputs, host, missed>>

Stored == host.store # 0

\* Fault: the image is pulled whether or not it is there.
AskCachedNever ==
    /\ Querying("cached")
    /\ \E usable \in BOOLEAN :
        /\ ProbeTo(usable)
        /\ IF usable THEN NextStep("pull") ELSE Answer(NoList)
    /\ UNCHANGED <<inputs, host, missed>>

\* Every exit status of "podman image exists" but 0, the executor's time-out
\* among them, reads as "not there": an image that is there is pulled again.
AskCached ==
    /\ Querying("cached")
    /\ \E usable \in BOOLEAN :
        /\ ProbeTo(usable)
        /\ \/ usable /\ Stored /\ NextStep("run") /\ UNCHANGED missed
           \/ usable /\ ~Stored /\ NextStep("pull") /\ UNCHANGED missed
           \/ usable /\ Stored /\ NextStep("pull") /\ missed' = TRUE
           \/ ~usable /\ Answer(NoList) /\ UNCHANGED missed
    /\ UNCHANGED <<inputs, host>>

Pullable(image) == host.reachable /\ (NeedsLogin(image) => host.login)

Pulls ==
    /\ Querying("pull") /\ Pullable(query.image)
    /\ host' = [host EXCEPT !.store = host.registry]
    /\ NextStep("run")
    /\ UNCHANGED <<inputs, probe, missed>>

PullFails ==
    /\ Querying("pull")
    /\ Answer(NoList)
    /\ UNCHANGED <<inputs, host, probe, missed>>

\* Fault: subprocess.run() without a time-out.
PullNeverTimesOut == FALSE

\* _PULL_TIMEOUT_S
PullTimesOut == PullFails

\* podman run pulls an image that is not there any more by itself.
RunsInImage ==
    /\ Querying("run")
    /\ Stored \/ Pullable(query.image)
    /\ LET content == IF Stored THEN host.store ELSE host.registry
       IN  /\ host' = [host EXCEPT !.store = content]
           /\ \/ Answer([from |-> "image", image |-> query.image, content |-> content])
              \/ Answer([from |-> "empty", image |-> query.image, content |-> content])
    /\ UNCHANGED <<inputs, probe, missed>>

\* Also the executor's time-out.
RunFails ==
    /\ Querying("run")
    /\ Answer(NoList)
    /\ UNCHANGED <<inputs, host, probe, missed>>
-----------------------------------------------------------------------------
(***************************************************************************)
(* run_all()                                                               *)
(***************************************************************************)

Ask(what, image) == query' = [what |-> what, image |-> image, step |-> "auth"]

\* A host that is not supported raises; the preflight is skipped when
\* os-release names no host or no version.
Begin ==
    /\ stage = "start"
    /\ stage' = CASE ~Supported(os) -> "failed"
                  [] os.id = "" \/ ~HasVersion(os) -> "rpm"
                  [] OTHER -> "resolving"
    /\ UNCHANGED <<inputs, host, probe, query, base, snap, missed>>

\* --baseline-packages; an unreadable or empty file is final only together
\* with --target-image.
ReadFile ==
    /\ stage = "resolving" /\ query = NoQuery
    /\ opt.file = "good" \/ (opt.file = "bad" /\ opt.image # NoImage)
    /\ IF opt.file = "good" THEN Resolved(FileList, TargetImage, FALSE)
                            ELSE Resolved(NoList, TargetImage, TRUE)
    /\ UNCHANGED <<inputs, host, probe, query, snap, missed>>

AskPackages ==
    /\ stage = "resolving" /\ query = NoQuery
    /\ opt.file = "none" \/ (opt.file = "bad" /\ opt.image = NoImage)
    /\ IF TargetImage = NoImage
       THEN Resolved(NoList, NoImage, TRUE) /\ UNCHANGED query
       ELSE Ask("packages", TargetImage) /\ UNCHANGED <<base, stage>>
    /\ UNCHANGED <<inputs, host, probe, snap, missed>>

WarnBaseline == snap' = [snap EXCEPT !.warned = @ \cup {"baseline"}]

\* _baseline_fail_fast(), or the opt-in.
CheckBaseline ==
    /\ stage = "resolved"
    /\ IF ~base.noBaseline
       THEN stage' = "rpm" /\ UNCHANGED snap
       ELSE IF opt.noBaseline THEN stage' = "rpm" /\ WarnBaseline
                              ELSE stage' = "failed" /\ UNCHANGED snap
    /\ UNCHANGED <<inputs, host, probe, query, base, missed>>

\* What rpm.run() records of the baseline.
RpmSection == IF base.resolved THEN base ELSE [NoBase EXCEPT !.noBaseline = TRUE]

InspectRpm ==
    /\ stage = "rpm"
    /\ stage' = "checked"
    /\ snap' = [snap EXCEPT !.rpm = RpmSection, !.present = @ \cup {"rpm"}]
    /\ UNCHANGED <<inputs, host, probe, query, base, missed>>

RpmFails ==
    /\ stage = "rpm"
    /\ stage' = "checked"
    /\ snap' = [snap EXCEPT !.warned = @ \cup {"rpm"}]
    /\ UNCHANGED <<inputs, host, probe, query, base, missed>>

\* Fault: the second look is forgotten.
CheckRpmForgotten ==
    /\ stage = "checked"
    /\ stage' = Sections[1]
    /\ UNCHANGED <<inputs, host, probe, query, base, snap, missed>>

\* The same look at the baseline when the preflight was skipped.
CheckRpm ==
    /\ stage = "checked"
    /\ LET lacking == ~base.resolved /\ "rpm" \in snap.present /\ snap.rpm.noBaseline
       IN  CASE ~lacking -> stage' = Sections[1] /\ UNCHANGED snap
             [] lacking /\ opt.noBaseline -> stage' = Sections[1] /\ WarnBaseline
             [] OTHER -> stage' = "failed" /\ UNCHANGED snap
    /\ UNCHANGED <<inputs, host, probe, query, base, missed>>

\* query_presets(), before the service inspector.
PresetsDue(i) == Sections[i] = "service" /\ "rpm" \in snap.present /\ snap.rpm.image # NoImage

After(i) ==
    IF i = Len(Sections) THEN "done"
    ELSE IF PresetsDue(i + 1) THEN "presets" ELSE Sections[i + 1]

AskPresets ==
    /\ stage = "presets" /\ query = NoQuery
    /\ Ask("presets", snap.rpm.image)
    /\ UNCHANGED <<inputs, host, probe, base, snap, stage, missed>>

\* _safe_run()
Inspect ==
    /\ \E i \in DOMAIN Sections :
        /\ stage = Sections[i]
        /\ stage' = After(i)
        /\ snap' = [snap EXCEPT !.present = @ \cup {Sections[i]}]
    /\ UNCHANGED <<inputs, host, probe, query, base, missed>>

\* Fault: the default is taken and nothing is said.
InspectorFailsSilently ==
    /\ \E i \in DOMAIN Sections : stage = Sections[i] /\ stage' = After(i)
    /\ UNCHANGED <<inputs, host, probe, query, base, snap, missed>>

InspectorFails ==
    /\ \E i \in DOMAIN Sections :
        /\ stage = Sections[i]
        /\ stage' = After(i)
        /\ snap' = [snap EXCEPT !.warned = @ \cup {Sections[i]}]
    /\ UNCHANGED <<inputs, host, probe, query, base, missed>>

\* Any exception but OSError ends the run.
Aborts ==
    /\ stage \notin {"start", "resolving", "resolved", "presets", "done", "failed"}
    /\ stage' = "failed"
    /\ UNCHANGED <<inputs, host, probe, query, base, snap, missed>>
-----------------------------------------------------------------------------
QueryStep ==
    AskAuth \/ AskCached \/ Pulls \/ PullFails \/ PullTimesOut \/ RunsInImage \/ RunFails

RunAllStep ==
    \/ Begin \/ ReadFile \/ AskPackages \/ CheckBaseline \/ InspectRpm \/ RpmFails \/ CheckRpm
    \/ AskPresets \/ Inspect \/ InspectorFails \/ Aborts

InspectionNext == HostChanges \/ QueryStep \/ RunAllStep

\* A pull may hang for ever, its time-out may not; every other command runs
\* under the executor's time-out.
Progress == AskAuth \/ AskCached \/ PullTimesOut \/ RunFails \/ RunAllStep

InspectionSpec == InspectionInit /\ [][InspectionNext]_vars /\ WF_vars(Progress)
-----------------------------------------------------------------------------
(***************************************************************************)
(* Properties                                                              *)
(***************************************************************************)

Finished == stage = "done"
HasRpm == "rpm" \in snap.present
FromImage == BaseImageForSnapshot(IF HasRpm THEN snap.rpm.image ELSE NoImage, os)

\* A snapshot without the names of a base image, whose Containerfile installs
\* every package of the host, exists only if --no-baseline was given, and says
\* so, on whichever of the ways to it the baseline was lost. The one exception
\* is an image asked for by --target-image whose list comes back empty: it counts
\* as a baseline. (README.md:389 and design.md:269 describe a run that goes on
\* without the option; _baseline_fail_fast() ends it.)
NoBaselineOnlyByChoice ==
    (Finished /\ HasRpm /\ snap.rpm.names.from \in {"nothing", "empty"}) =>
        \/ opt.noBaseline /\ snap.rpm.noBaseline /\ "baseline" \in snap.warned
        \/ snap.rpm.names.from = "empty" /\ opt.image # NoImage

\* What was subtracted is what the Containerfile builds on: a package list
\* taken from an image is the list of the FROM image, and the presets are
\* those of the same image - of the same content even, though the tag moved in
\* between, if the image stayed in the host's store and every look at the
\* store found it there.
BaselineIsOfFromImage ==
    (Finished /\ snap.rpm.names.from = "image") =>
        /\ snap.rpm.names.image = FromImage
        /\ snap.presets.from = "image" =>
            /\ snap.presets.image = FromImage
            /\ missed \/ snap.presets.content = snap.rpm.names.content

\* Nothing is missing without a word: an inspector either leaves its section
\* or a warning that it was skipped.
SectionsAccounted ==
    Finished => \A s \in Others \cup {"rpm"} : s \in snap.present \/ s \in snap.warned

\* The inspection comes to an end, registries and pulls that hang included.
InspectionEnds == stage = "start" ~> stage \in {"done", "failed"}
=============================================================================
