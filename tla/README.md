# yoinkc in TLA+

yoinkc inspects a package-based RHEL, CentOS Stream or Fedora host and turns what
it finds into a bootc image: a Containerfile, the configuration files it copies,
and reports, one of which is an interactive page. This directory models the parts
of yoinkc whose correctness depends on the order of steps, on failures and on
several actors: TLC checks them on small instances, and TLAPS proves some of the
results for instances of any size.

All paths below are relative to the repository; `yoinkc/` is `src/yoinkc/`.

## 1. The system

### Components, their state and how they interact

| Component | Code | State it keeps | Operations |
|---|---|---|---|
| Inspection | `yoinkc/inspectors/__init__.py` | the snapshot under construction, its warnings | `run_all()`: host check, baseline preflight, eleven inspectors |
| Baseline resolution | `yoinkc/baseline.py`, `executor.py` | cached nsenter probe; the host's podman store | mapping host to image, login check, pull, queries of packages and presets |
| RPM inspector | `inspectors/rpm.py` | none | added and missing packages, leaf/auto split, repositories, keys |
| Service inspector | `inspectors/service.py` | none | unit states against presets, owners, drop-ins |
| Scheduled tasks inspector | `inspectors/scheduled_tasks.py` | none | cron jobs to timers, local timers |
| File inspectors | `inspectors/{config,network,container,kernel_boot,non_rpm_software}.py` | none | the files of each, modified, unowned, orphaned or in known places |
| Users and groups | `inspectors/users_groups.py`, `renderers/kickstart.py` | none | a strategy for each, and what creates it |
| other inspectors | `inspectors/{storage,selinux}.py` | none | a section for the reports |
| Redaction | `redact.py` | none | replaces secrets in the snapshot, scans a directory |
| Output pipeline | `pipeline.py`, `__main__.py`, `packaging.py`, `entitlement.py` | a temporary directory, the output directory or tarball | render, bundle certificates, copy or pack, clean up, validate, push |
| Renderers | `renderers/*.py` | files of the temporary directory | Containerfile and configuration tree, audit report, README, kickstart, secrets review, HTML report, triage numbers |
| Build validation | `validate.py` | a log and changed reports in the output directory | `podman build` of the output |
| GitHub push | `git_github.py` | local repository, `origin`, repository on GitHub | commit, scan, confirm, create, push |
| Report page | `templates/report.html.j2`, `renderers/html_report.py` | two copies of the snapshot, controls, buttons | edits, cascades, reset, re-render |
| yoinkc-refine | `yoinkc-refine` | an extracted tarball, the requests of pages | serve, re-render in a container, replace the directory |
| yoinkc-fleet | `yoinkc/fleet/*.py` | a directory of snapshots | merge by prevalence |
| yoinkc-build | `yoinkc-build` | a temporary directory | find certificates, `podman build` |
| run-yoinkc.sh | `run-yoinkc.sh` | podman, logins on the host | install podman, run the container |

The parts talk through files and two channels. An inspection ends in
`inspection-snapshot.json`, which the pipeline renders, the page embeds,
`yoinkc-refine` renders again by way of `yoinkc --from-snapshot`, and
`yoinkc-fleet` merges. The page talks HTTP to `yoinkc-refine`; baseline resolution
talks to the host's podman through nsenter.

### What is hard about it, and what has to hold

- *Page and server* (interleaving, time-outs, restarts). Edits go on while a
  re-render is under way, answers replace the page, the server replaces its
  directory entry by entry and may stop at any point. What is shown has to be what
  is posted; directory and page have to agree; the page may not get stuck.
- *Cascades* (long sequences). Repositories, leaves and automatic packages change
  each other through toggles and resets in any order.
- *Pipeline* (crashes, partial failures, stale files). Runs follow each other over
  one output directory; each write may fail; a rendering has to survive, and
  success has to mean that the destination holds it.
- *Push* (lost answers, refusals, retries). A push is several steps on two machines,
  and GitPython does not raise for a branch GitHub refuses.
- *Inspection* (hanging commands, a host that changes). A lost baseline has to be
  noticed on every path, and packages, presets and `FROM` have to be of one image.
- *Fleet* (boundaries, repetition). Counting what has a content, comparing with a
  threshold, not merging an earlier output.
- *Packages* (graphs). What the Containerfile installs has to be what the report
  says, for cyclic dependencies and several architectures.
- *From host to image* (order of steps, files several sections write, edits).
  A file may be taken by several inspectors and written by several sections; the
  Containerfile has to bring each thing before it is used; what was on the host
  and was kept has to be in the image and what was excluded has not; units have to
  be enabled as they were, jobs to run when they ran, accounts to exist.
- *Redaction* (repetition). Each rendering of the report redacts again what was
  redacted, marks of secrets included, and the scan before a push has to agree
  with it.

`PROJECT.json` lists these as hazards, each at its line.

## 2. The modules

| Module | What it models |
|---|---|
| `RerenderChannel` | the outstanding `POST /api/re-render` requests between one page and one server |
| `ReportPage` | the script of the report page: every handler that changes state is an action |
| `RefineServer` | `yoinkc-refine`: a re-render step by step, stop and relaunch |
| `OutputStore` | abstract: what clients of the server may see of the output directory |
| `RefineSession` | `ReportPage` and `RefineServer` joined by `RerenderChannel` |
| `GitPush` | repositories here and on GitHub, and the operations of a push |
| `Pipeline` | repeated runs of `yoinkc`, on top of `GitPush` |
| `BaseImage` | the pure mapping from host and options to a base image |
| `Inspection` | one `run_all()`, with the queries of the base image, on top of `BaseImage` |
| `FleetMerge` | `yoinkc-fleet aggregate` over a directory that changes |
| `Packages` | the packages of a host, from `rpm -qa` to `dnf install` in the Containerfile |
| `Snapshot` | the snapshot's sections, as the modules below write and read them |
| `Services`, `ScheduledTasks`, `Accounts`, `HostFiles` | the inspectors, each an operator from a host and a snapshot to a snapshot |
| `Redaction` | the pass over the snapshot, and the scan |
| `ConfigTree`, `Containerfile` | what the renderer writes: the directories `config/` and `quadlet/`, and the instructions in their order |
| `Migration` | inspection, redaction, rendering, edits, renderings again, and the build of the image: all of the above in a state machine |
| `MigrationProperties` | what the image has to be, given the host and the edits |
| `RefineSessionProofs` | theorems about `ReportPage` and `RefineSession` |
| `PipelineProofs`, `InspectionProofs`, `FleetMergeProofs`, `PackagesProofs` | theorems about the module each is named after |
| `MigrationProofs`, `MigrationBuildProofs` | theorems about `Migration`: snapshot, renderings and the state of the build; what the built image is |
| `DataInduction` | induction on numbers and finite sets, for those proofs |
| `MC*` | values for the constants of a module |

Operators whose comment begins with "Fault" are no part of any specification: each
is a definition next to it as a plausible bug would have it, and is used to
confirm that the property named in `PROJECT.json` notices that bug.

### The report page (`ReportPage`, `RerenderChannel`)

`snap` and `orig` are `snapshot` and `originalSnapshot` of the script; `checked`,
`selected` and `disabled` are the DOM's controls; `btn` the toolbar. A handler with
all listeners of its event is one action, since JavaScript runs it to its end. The
include flags and strategies of the snapshot are kept, all other data are not. A
row is a repository, a leaf package, an account, or any other row ("Others": all
sections whose checkbox does nothing but set `include`). "Twins" are entries of
`packages_added` that repeat a leaf's name (another architecture): the server
renders the checkbox from the last entry and binds the row to the first
(`html_report.py`), so such leaves are excepted where the comments say so.
`helper`/`attempt` is the detection of `yoinkc-refine` with its three retries.
Because `document.write()` keeps pending fetches of the old page, a request
carries whether the displayed page made it.

### yoinkc-refine (`RefineServer`, `OutputStore`, `RefineSession`)

The server is single-threaded: it works on the oldest request, through rendering,
clearing the directory entry by entry, copying entry by entry, and answering with
the report read back. Any of it may fail; `subprocess.run(timeout=300)` is
`RenderTimesOut`; `Stop` is the signal handler, `Launch` a new process on the same
tarball. `OutputStore` is the abstract specification: renderings replace each
other as a whole, and a breakdown leaves part of one. The run checks that
`RefineServer` implements it under the mapping `up <- phase # "down"`,
`published <- Served`, where `Served` is the directory before the replacement as
long as that is under way, because no GET is served in the middle of a POST.

### The pipeline (`Pipeline`, `GitPush`)

A file is known by the number of the run that rendered it. A run inspects (or
loads a snapshot), renders file by file into a temporary directory, adds
certificates, copies file by file over the output directory or writes a tarball,
removes the temporary directory, and goes on to `--validate` and
`--push-to-github`. `Fails` is an exception at a step that writes, which preserves
the temporary directory; `Killed` a signal at any step. `GitPush` has the local
tree and remote and, for each GitHub repository, its branches and the branches it
was found to refuse (others have pushed to them, or protect them). `Upload` is a push
that arrives, `Refuse` one GitHub answers with a refusal: `Remote.push()` returns it
in a list the code drops, so the pipeline goes on as after any other push, and only
an exception leads to `master`.

### The inspection (`Inspection`, `BaseImage`)

Each command on the host is a step and the host changes in between (`HostChanges`:
logins, network, images removed, a tag that moves). An image's content is a
number; a package list remembers image and content. A query is the chain login
check, cache check, pull, run; failing commands answer nothing. A look at the store
that fails counts as a missing image, and the pull that follows may bring a moved
tag; `missed` is a history variable for this and for images removed from the store.
The two places
where a lost baseline ends the run are `CheckBaseline` and `CheckRpm`. Inspectors
after rpm succeed, are skipped with a warning (`OSError`), or abort the run.

### The fleet merge (`FleetMerge`)

What is counted are snapshots, and a host may have several tarballs in the directory.
File names are numbers in their sorted order; a snapshot has two lists that stand
for all: `packages`, merged by identity, and `files`, of which each content is an
item. Users, groups, warnings and redactions are merged as plain values and are
not modelled. Schema version and os_release are one value; the base image is that of
the first snapshot with an rpm section.

### The packages (`Packages`)

A host is a graph: `requires` has every package that provides something required,
as the queries of dnf and rpm answer, `pulls` the one dnf installs for it. A run
goes from `run-yoinkc.sh` (which may install podman and stop for the login, to be
started again) through `rpm -qa`, dnf's marks, dnf's or rpm's dependencies with
failed and partial answers, to the split into leaves and automatic packages and
the tree of each leaf; the walk over rpm's direct dependencies is modelled step by
step, in every order its stack may have. Then the operator toggles rows.
`InstallNames`, `EnabledUnits` and `Shown` are what Containerfile and report make
of it; `Image`, what dnf installs, is external. Two entries of one name are one
here; a unit's package is always known, since a unit without one is enabled
unconditionally. `StartWalk` takes the leaves in any order, the code in that of
their names.

### From host to image (`Migration` and the modules below it)

A host is a record: its packages, those of the base image, unit files with state
and owner, preset rules, cron files with their lines, other files with owner and
text, projects under `/opt`, `/srv` and `/usr/local`, packages of the system's Python,
users and groups. `run_all()` is a sequence of steps,
one for each inspector, in its order; `answered` says which of four questions that
may fail (`rpm -qa` with paths, the base image's presets, `systemctl`, `rpm -qf`)
were answered, as the inspectors go on without an answer. A file may not decode
(`decodes`): it is read as an empty text (`Read`), and its entry is kept; where the
code does not catch that failure it ends the inspector, which is in `Inspection`, so
files of those directories decode here. `RenderFirst` is
redaction, configuration tree and Containerfile of one run of the pipeline;
`Toggle` and `SetStrategy` are edits of the report, `Rerender` the rendering
`yoinkc-refine` asks for, also of an unedited snapshot. `BuildStep` is podman's
build of an instruction (external): a `COPY` fails without its sources,
`systemctl enable` without the unit file, `useradd` without the group; packages
enable units by the base image's presets. `Boot` creates the accounts that are not
made in the build.

Lists are selected from with `Select`, which is defined without recursion (the
element at place `i` of the selection is the one with `i` selected places up to
it), so that it can be reasoned about; `Written` likewise says which of the files
of a path is the last one. `HostAssumption` has what the commands and directories
of a real host give: lists, a table for each cron file, a package for a file that
`rpm -Va` lists, one entry for each path.

Data are abstracted to what these steps tell apart. A text is whose it is and what
in it the patterns may match: secrets, the same on comment lines, harmless words, and
marks. A secret has the number of keywords before it that match on their own: `token:
Bearer <secret>` has one, so that the mark it gets, `token: REDACTED_BEARER_TOKEN_1`, is
matched by the `TOKEN` pattern in the next pass and in the scan, and becomes a mark with
one keyword less.
A path is top directory, directory and name. A field of a cron line is its form
(`a-b/n`), as `CalendarField` treats all fields of a form alike; a calendar is read
back with `Reading`, which says what systemd understands. A preset rule is the set
of units its pattern matches. A user's shell and home are the classes the code
distinguishes. `redact_snapshot()` treats several kinds of text the same way; the
model has those that are written to the image, and the shadow entries.

Where the code has what looks like an exception to a promise, the property names
it, by an operator of its own:

- of the ways an image build fails, `MayBeMissing` (a unit whose package is unknown,
  and every unit when no package is kept, since the filter of the unit lists is then
  off), `GroupElsewhere`, and `ToolLeftOut` (gems, yarn and venvs are rebuilt without
  asking for their tool, and so is npm next to a kept `nodejs`, of which RHEL 9's does
  not bring it);
- of files, `StaysBehind` (DHCP profiles and NetworkManager's `.bak` copies) and
  `GeneratedUnits` (a timer made from a cron line takes the place of a file captured at
  its path), and that a file that cannot be decoded arrives empty (`Read`);
- of units, `Overtaken` (a rule without wildcards behind one with);
- of jobs, `Sayable` (the fields the code makes calendars of; of the others, steps of
  minutes have the run `cron_steps`), `LastKept` (of the units of one name, all lines of
  a cron file among them, the last replaces the others) and `IsJob` (lines with a
  shortcut are passed over);
- of accounts, `HasGroup` and `CreatesGroup`;
- of secrets, `NotRedacted` (sections the redaction does not read), and marks.

Section 3 says which of these disagree with what the repository says. `MayBeMissing`,
the `.bak` copies and `GeneratedUnits` were found by proofs that failed without them;
the instance of the run has a host for each.

## 3. The runs

| Run | Module, cfg | Shows |
|---|---|---|
| `page` | `MCReportPage`, `ReportPage.cfg` | controls and snapshot agree; disabled leaves, automatic packages, dirty flag and Re-render button are right through every sequence of handlers |
| `page_reset` (violation) | `PageReset.cfg` | a reset does not restore a leaf whose own exclusion came with the snapshot |
| `session` | `MCRefineSession`, `RefineSession.cfg` | page and directory agree, the directory is never a mixture, the server implements `OutputStore`, and requests are worked off |
| `pipeline` | `MCPipeline`, `Pipeline.cfg` | renderings survive, success delivers, logs match reports, a push that is reported as done arrived or met a refusal |
| `silent_push` (violation) | `MCPipeline`, `SilentPush.cfg` | a refused push is reported as done |
| `inspection` | `MCInspection`, `Inspection.cfg` | no unnoticed loss of the baseline but by the empty list of `--target-image`, one image for packages, presets and `FROM`, and one content of it unless it was missed in the store, no unnoticed loss of a section, the run ends |
| `fleet` | `MCFleetMerge`, `FleetMerge.cfg` | prevalence of contents, among snapshots and, with one snapshot each, among hosts; one content above one half, nothing lost, merges repeat |
| `fleet_duplicates` (violation) | `FleetDuplicates.cfg` | a package with two entries on one host counts as two hosts |
| `packages` | `MCPackages`, `Packages.cfg` | nothing is lost but cycles and alternatives, trees are closures, report and image agree, units are of installed packages unless rows are excluded |
| `excluded_units` (violation) | `ExcludedUnits.cfg` | the unit of an excluded leaf is still enabled |
| `migration` | `MCMigration`, `Migration.cfg` | files arrive and nothing unasked does, units keep their states, jobs their times, accounts exist, an image build fails for named reasons only, the scan meets no secret in what the redaction reads, renderings of what was rendered settle |
| `cron_steps` (violation) | `MCMigration`, `CronSteps.cfg` | a step of minutes becomes a calendar systemd does not read |

A violation run checks one property, which states what a document or comment of
the repository says; the finding in `PROJECT.json` quotes it.

Other disagreements are in the models without a run of their own, as exceptions of a
property or as what its statement says of the code:

- A strategy changed before `yoinkc-refine` answers the health probe leaves the
  tarball of the last rendering on offer while changes are pending, where
  `README.md:269` has exclusive states (`EnableHelperButtons` of `ReportPage`).
- A push whose first attempt created the GitHub repository but not `origin` asks for
  it to be created again, which is refused every time, where `git_github.py:60` says
  "If repo does not exist" (`CreateRepo` of `GitPush`).
- When the base image cannot be queried the run ends, unless `--no-baseline` was
  given; `README.md:389` and `design.md:271` have it go on with all packages and a
  warning. `NoBaselineOnlyByChoice` states what the code does. Its exception is
  `--target-image` on a release without a base image: the snapshot then has an empty
  list that does not count as a lost baseline.
- `--target-image` is lost without os-release and when the rpm inspector fails
  (`rpm.py:633-649`), where `README.md:318` has it override the mapping
  (`RpmSection` of `Inspection`).
- `yoinkc-fleet` counts snapshots, so that a host with two tarballs counts twice;
  `docs/specs/2026-03-13-fleet-analysis-design.md:75` and `:98` speak of hosts.
  `FilePrevalence` says both: snapshots always, hosts if each has one.
- A local service that is enabled on the host is enabled in section 3, before
  `config/` brings its file (`containerfile.py:710-720`, `:750-770`), and the build
  fails; the comment at `:707` has units of `config/` enabled after it (`MayBeMissing`).
- A file that is not text is captured as an empty one, which replaces that of the
  image (`config.py:376-379`, `:436-439`, `:469-472`; repository files `rpm.py:279`);
  elsewhere such a file ends its inspector, and a crontab is passed over in silence
  (`scheduled_tasks.py:228-232`). When `rpm -qa` fails, the warning at `config.py:237`
  says unowned files are not captured, and all of them are (`Read` and `FilesArrive`).
- Of several lines of a crontab only the last has a timer, as all have the file's
  name (`scheduled_tasks.py:216`), and lines with `@daily` and the like, which the
  docstring at `:112` has, are passed over by the scan (`:207`); `design.md:128`
  says "Captures and converts all scheduled execution" (`LastKept`, `IsJob`).
- The redaction does not read repository files, drop-ins, tuned profiles, lock files
  and local timers (`NotRedacted`), where `redact.py:161` has "all captured text
  content redacted" and `design.md:285` "all captured file contents".
- The next pass of the redaction redacts and notes some of its own marks
  (`RerenderSettles`), where `tests/test_redact.py:376` says "calling redact_snapshot
  twice produces the same result".

### Bounds, and why they are enough

- `page`: one repository, two leaves that share an automatic package, one of them
  outside the repository and with a twin, one account with two strategies, one
  request. The cascades relate a repository to its leaves and two leaves to one
  automatic package; a third of each adds no new relation. What needs two
  providers of one leaf (the order of the cascades in a reset) is in the model and
  is proved for any number.
- `session`: one row, so that two snapshots can differ, two outstanding requests,
  so that one can wait while another is served, a tarball with one entry a
  rendering does not have.
- `pipeline`: two runs, which is one earlier run whose files can be stale; two
  repositories, each of which may refuse either branch; a rendering of three files and
  one optional file; one certificate.
- `inspection`: five hosts (supported, too old a minor release, unmapped,
  unsupported, without os-release), eight command lines, two contents of a tag, two
  inspectors after rpm, since each of the ten does the same to the snapshot.
- `fleet`: three tarballs besides the default output, of two hosts, so that a host
  is there twice; of one of them two different snapshots; snapshots without an rpm
  section, of another base image and without os-release; thresholds of 50 and 51
  percent, on either side of one half.
- `packages`: every graph over three packages, with at most one requirement that
  another package meets as well, since three are enough for a cycle with a package
  above and one below it and for a dependency shared by two leaves; any failed
  queries of dnf, one requirement rpm does not resolve.
- `migration`: five kinds of hosts, every combination within a kind: three states
  of a packaged unit, three of one of the base image, three of a local service and
  of a local timer, with five texts of presets, and a host without answers whose one
  package may be excluded; each form in each field of a cron line, seven cron files
  that share names, crontabs with two lines, with a shortcut and not to be decoded,
  and a cron job whose timer is there already; four groups of files that compete
  for a path or an inspector, a keystore and a changed database that cannot be
  decoded among them, with texts of secrets behind up to two keywords, comments and
  harmless words, and every method of a network profile; every mixture of findings
  in a project with another one inside it, and projects under `/srv` and
  `/usr/local` next to packages of the system's Python, where each tool is there or
  not, `nodejs` without `npm` too; two users of every class that share a group or
  not. Kinds meet in the sections that more than one writes (a cron file is a
  configuration file, too), so each has files. One edit (`MaxEdits`) of every item
  and every strategy, since the renderers read each flag on its own; it can be taken
  back, and renderings may follow in any number: two settle the marks of two
  keywords.

`CHECK_DEADLOCK FALSE` is set where the system stops by itself: an inspection ends
(`Inspection`), a host ends booted or with a failed build (`Migration`), `Pipeline` has
a bound on runs, and a report without added packages has no row to toggle (`Packages`).

### Fairness

- `session`: the server's code runs on and answers reach the browser. A container
  may run for ever, so of the ways a rendering can end only the time-out of
  `subprocess.run` is fair; `Launch`, user actions and failures are not.
- `inspection`: the program runs on; a command may hang for ever, so of the ways a
  command can end only its time-out (`_PULL_TIMEOUT_S`, the executor's 300 s) is
  fair, next to commands that do not hang (login and store queries, which run
  under the executor's time-out as well). `HostChanges` is not fair.

All other properties are safety properties and assume none.

## 4. What is proved

Theorems hold for every value of the constants that satisfies the `ASSUME`s of the
modules they are about; the assumptions are named, and TLC evaluates each in the
run of its module. An invariant theorem has the usual shape: an inductive
invariant, a lemma for each action, and a temporal step. Each inductive invariant
was first checked by TLC on the instance of the module's run.

Of the 40 properties of the passing runs, 38 are theorems: every invariant and
every action property. Which property each theorem states is listed in
`PROJECT.json`.

**The page, in `RefineSessionProofs`**, from `PageAssumption`, `RowsAreDistinct` and
`MaxPostsAssumption`: for every set of repositories, leaves, automatic packages,
rows, accounts and strategies, every dependency relation and any number of
outstanding requests. `PageTypeCorrect`, `ShownIsPosted`,
`DisabledLeavesArePinned`, `AutosFollowLeaves`, `RerenderStaysReachable`, and the
action property `OnlyResetHides`. The inductive invariant is `ControlsInv`, the
conjunction of the type invariant (which holds the shape of the requests: a
successful answer carries a snapshot, so that the page it loads has one),
`ShownMatchesSnapshot` and `DisabledLeafPinned`. `DisabledLeafPinned` alone is not
inductive: that a disabled leaf stays excluded needs that its checkbox agrees with
the snapshot and that the rows are distinct, and a reset needs that a leaf's last
repository exists. `RerenderStaysReachable` adds `ButtonInv`: a dirty page has
changed controls, and with the helper there its button is enabled or an answer to
this very page is awaited. All of it is proved of `PageMove`, one step of the page
against any server, so that the session can use it.

**The session, in `RefineSessionProofs`**, from the same and `ServerAssumption`: any set of files,
any length of the queue, any order of stopping, launching, failing and reloading.
`SessionTypeCorrect`, `OutputNeverMixes`, `PageStaysInStep`, `PageHoldsInSession`
(what is proved of the page holds of it with the real server, which may die), and
`ServerImplementsStore`: every step of the session is a step of `OutputStore` or
leaves what its clients see unchanged. The inductive invariant `SessionInv` says,
besides the page's, that the answered requests come before the others (`Ordered`),
that what is removed from the directory was there before and what was copied is of
the request being served (`PhaseInv`), and that the report in the directory is the
one on display or the one of the last answer under way (`InStepInv`). `PageInStep`
itself speaks of idle moments; what keeps it true is what happens between them.

**`PipelineProofs`**, from `PipelineAssumption` and `PushAssumption`: any number of
runs and repositories, any files, any order of rendering. `PipelineTypeCorrect`,
`SuccessfulRunsDeliver`, `WarningsMatchTheLog`, `PushesArriveOrAreRefused`, and the
action property `RenderingsAreKept`. The inductive invariant `PipelineInv` follows
a rendering: what the temporary directory holds at each stage (`TmpInv`), that the
destination is whole from the moment the temporary directory may be removed
(`DeliveredInv`), and that from the commit to the push HEAD covers the directory
and the push goes where it was asked to (`PushInv`), so that a finished one has put it
there or met a branch that refuses. That a rendering is kept while
the temporary directory is removed is `DeliveredInv`; without it, the step that
removes the last copy could not be told from the one that removes a spare one.

**`InspectionProofs`**, from `InspectionAssumption`: any hosts, command lines,
inspectors and number of changes of the tag. `InspectionTypeCorrect`,
`BaselineLostOnlyByChoice`, `SubtractedIsTheFromImage`, `NoSectionLostSilently`.
The inductive invariant `InspectionInv` holds which query may be under way and of
which image (`QueryInv`), that the rpm section is what was resolved (`RpmInv`),
that after each of the two looks at the baseline a missing one was chosen
(`ChoiceInv`), that the store keeps the content the package list came from as
long as it is not missed there, so that presets asked later are of the same
(`ContentInv`), and that every inspector before the current one is accounted for
(`AccountInv`).

**`FleetMergeProofs`**, from `FleetAssumption`: any directory, snapshots and
thresholds. `FleetTypeCorrect`, `FilesByPrevalence` (the sightings of a content and
the snapshots that have it are in bijection, since a snapshot has a content once; so
are snapshots and hosts, if no host has two), `OneContentOfAPath` (two contents above
one half would make a snapshot that has both),
`MergeIsUnion`, and the action property `AggregateIsRepeatable`. The inductive
invariant `FleetInv` adds to the types that the default output is marked as merged
and that a file not so marked is a host's (`DirInv`), and that merging what is
there now gives what the last merge gave, unless an output was put into the
directory under another name (`LastInv`).

**`PackagesProofs`**, from `Packages`'s `HostAssumption`: any packages and hosts.
`PackagesTypeCorrect`; `TreesAreClosures`, the tree of a leaf is what the leaf
depends on in the recorded graph; `NothingCertainIsLost`, `ReportTellsTheImage` and
`UnitsHaveTheirPackage`. `Below` is the least closed set (`BelowIsLeast`), defined
without recursion so that it can be reasoned about. The inductive invariant is
`PackagesInv`: with types and phases, that dnf's answers are closed when they are
taken as trees (`AnswersClosed`), and that during a walk everything found or on
the stack is below the leaf, and whatever a found package depends on is found or
on the stack (`WalkInv`). When the stack is empty, the second half makes the found
packages a closed set, so that they have all of `Below`, and the first half gives
the rest. What is said of the image needs `GraphInv` (recorded dependencies are
real ones) and `SectionInv` (what was added was not in the baseline) besides. The
heart of `NothingCertainIsLost` is that a lost package that is on no cycle and
below none would have another one above it, as only what something added depends
on is not installed by name; but of finitely many one is above all others
(`SomethingIsOnTop`), so none is lost.

**`MigrationProofs`**, from `HostAssumption` of `Migration`: any hosts, any number
of edits and renderings. Of snapshot and renderings: `MigrationInvariant`;
`NoSecretLeft`, the files of a rendering have no secret that the patterns match but
in the sections `NotRedacted` names, although marks of secrets may be left for the
scan to object to; and the action property `RenderingsSettle`. The inductive
invariant `MigrationInv` says that each section of the snapshot is a list whose
elements have the fields that redaction and renderers read (`IsSnapshot`), that
generated calendars hold nothing of the host's texts (`Jobs`) and items of software
have lists of files (`Projects`), and that a page that was not edited since shows the
rendering of its snapshot, over whose texts the redaction has passed (`Passed`,
`InStep`). A pass over a text turns what matches into marks with one keyword less and
leaves the rest (`RedactTextFacts`); so what is unsettled in a snapshot after a pass is
marks of what was before (`PassOver`), and one that has been passed and in which nothing
matches is left as it is, with nothing noted (`PassAgain`). Redaction and rendering
being functions of the snapshot, `RenderingsSettle` follows. For `NoSecretLeft`, `Passed`
has no secret in a section the redaction reads, and each of the seventeen writers of
`WriteConfigTree` writes texts of such sections, texts of its own, or to a path that
`NotRedacted` names (`HarmlessTree`).

Of the image: `WholeInvariant`, `KeptAccountsExist` and `NothingUnaskedArrives`. The
inductive invariant is `WholeInv`, `MigrationInv` with four more parts.
`InspectedInv`: the snapshot is what the inspectors up to this phase found on the
host, but for redaction, checkboxes and strategies (`Like` for an item, `Alike` for
a list of them). `PlaceInv`: the build is at an instruction of the program, and a
failed one at an instruction that cannot succeed. `ContentInv`: packages, files and
accounts of the image are those of the base image and what the instructions done
brought. `UnitsInv`: a unit some instruction enabled still is, unless a later one
disabled it, and the other way round; presets were applied to every package that
was installed; nothing else is enabled. With these a property of the image is one
of the program and of the tree, that is of the snapshot, that is of the host.
`KeptAccountsExist` needs no more than which instructions a kept account gets, and
the first boot (`Deploy`). `NothingUnaskedArrives` needs the configuration tree as
`Layers`: seventeen sets of files, one for each writer of `_write_config_tree()`,
of which a later one lies over an earlier (`LayeredWritten`); each file of each
layer is one that was asked for.

The module first proves what lists selected, joined and
flattened are made of (`PickedFacts`, `Concatenation`, `FlattenFacts`), the last by
induction on the numbers up to which the recursive function in `FlattenSeq` is
defined.

**`MigrationBuildProofs`**, from the same assumption and `WholeInv`, which needs no
further strengthening for any of these:

- `MigrationTypes`: the types of all variables; most of the work is that what was
  found is of the host's packages, units and paths.
- `BuildFailures`: the program is divided into its nine sections, so that at a
  failed instruction all earlier sections are done. A unit of a kept package is
  then in the image, as its package is installed or in the base; a group comes
  before its users; a tool before its rebuild, if the Containerfile asks for it, and
  if not it is one of `ToolLeftOut`; and no directory copied is empty.
- `UnitStatesAreCarried`: the presets of the base image as `_parse_preset_files()` reads
  them and systemd applies them give the same default for a unit they judge
  without overtaking; a unit whose state differs from it is in the list of changes,
  and its instruction comes after the installation, one of the same default does
  not need one.
- `JobsAreKept`: each job of a crontab that was read, and each script of a period, is
  in the list of generated timers with its name and command (`JobReported`,
  `ScriptReported`), and each part of its calendar reads as the field it was made from,
  if the code can say that field (`CalendarReads`). Of the kept units of a name the
  last one's pair lies over those of the others (`LastPair`). Of the layers above only
  that of local timers writes to the same directory, under other names; so the pair
  arrives, is enabled in the fourth section and not disabled after (`LastRuns`).
- `FilesDoArrive`: a file of the administrator is found by some inspector
  (`OwnFound`: not excluded as unowned, or of a section), its entry is kept, with what
  was read of it, and so a layer has it (`OwnLayer`). What the image has at its path is
  of the topmost layer with that path, and whichever of the seventeen that is, its file
  fits (`LayerFits`): the text that was read, as the redaction left it and perhaps with
  a note, or a file of the tool's own. The files without text which `MissingProfiles`
  adds lie over no other (`NoEmptyProfile`). Lock files are told apart by their
  projects' paths, or are the same file (`LocksArrive`); in the quadlets' directory
  nothing is of `config/`, and the last of a name arrives (`QuadletsArrive`).

**`DataInduction`** has the induction these proofs need: the least number of a set
(`LeastNatural`), and induction on numbers (`NatSetInduction`) and over the subsets
of a finite set (`SubsetInduction`). The library's theorems take
the induction hypothesis as an operator, which the provers cannot instantiate;
these take it as the set of the numbers, or of the subsets, for which it holds.

Three assumptions say more than TLC would need. `PipelineAssumption` has
`RenderOrder` as a sequence of at least two distinct files, as `run_all()` of
`renderers/__init__.py` calls its renderers one after another, and
`InspectionAssumption` has `Sections` as a sequence of strings. `HostAssumption` is
what a real host is like, and all the theorems on `Migration` know of one:

- its lists are sequences, paths and texts have their parts (`IsPath`, `IsText`),
  shadow lines a name and a hash, and `None` is the name of no package;
- a path is listed once; exactly the cron files have a table of lines; a file that
  `rpm -Va` lists as changed has a package, and a unit of no package has a file;
- preset rules enable or disable;
- a project's directory is under `/opt`, `/srv` or `/usr/local`, where
  `non_rpm_software.py` looks, its lock files are of the five names it looks for, each
  once (`IsProject`), and a file that is listed both by itself and with a project is
  one file, read the same way (`SameAsIn`);
- a file whose undecodable text would end the inspector that reads it decodes
  (`StrictDirs`): how a failing inspector is dealt with is in `Inspection`;
- nothing captured is below `/tmp`, where the Containerfile puts its own copies;
- a host with drop-ins has some packaged unit (the service inspector stops early on a
  host without any unit).

Only model-checked are `QueueDrains` and `InspectionEnds`: liveness, which needs
fairness and ENABLED. For the same reason it is not proved that a walk of `Packages`
ends; each step takes a package off the stack and pushes only what is not reachable
yet. External code, such as podman's build of an instruction or what dnf installs,
is in the theorems as it is in the models.

## 5. The plan

1. Report page, server and session - done.
2. Pipeline and push - done.
3. Inspection and baseline - done.
4. Fleet merge - done; redactions and users are not told apart.
5. Packages, from the host to `dnf install` - done.
6. From host to image: service presets, cron, users and groups, files, redaction
   and scan, configuration tree, Containerfile, build - done.
7. Theorems about page, session, pipeline, inspection, fleet merge and packages,
   and the refinement of `OutputStore` - done.
8. Theorems about `Migration`, for any host: every invariant and the action
   property of its run - done.

## 6. Not modelled

- Parsing of files and of commands' output, and the wording of Containerfile and
  reports: no state. What a form means is in the models where a property needs it.
- In `Migration`: the packages have no baseline and no leaves, which `Packages`
  has; a unit's package is excluded as a package, and that the renderer counts
  excluded leaves as installed when it asks for tools (`containerfile.py:891-894`) has
  no case here. A failing inspector is in `Inspection`. The names and versions of the
  packages of virtual environments and of the system's Python (whether there are any
  is in the model), at jobs, compose files
  and running containers, diffs of `--config-diffs`, sudoers rules, SSH keys,
  passwords, clashes of numeric ids, and the commands of the Containerfile that
  change neither packages, units, captured files nor accounts: `update-ca-trust`,
  `tuned-adm`, SELinux booleans and ports, lines added to `/etc/hosts` and proxies.
  What is a comment there (storage, FIXMEs) is left out.
- `inspectors/storage.py` and `selinux.py`, `_triage.py`, `audit_report.py`,
  `readme.py`, `secrets_review.py`: sections and texts that no other part reads
  back, but for SELinux's commands above.
- `yoinkc-build`: one sequence without state of its own.
- `preflight.py` reads privileges before anything is written and appears as the
  failure `GiveUp` of `Pipeline`.
- Extraction, validation of the tarball and the search for a port in
  `yoinkc-refine`: only their success, as `Launch`.
- podman, git and GitHub appear as the outcomes the code distinguishes.
- Two pages on one server: a session has one.
- Schema, helpers, style sheets.
