------------------------------ MODULE Migration -----------------------------
(***************************************************************************)
(* A host on its way into an image: the inspectors in the order of         *)
(* run_all() (inspectors/__init__.py), the redaction and the rendering of  *)
(* pipeline.py, edits in the report each followed by another rendering,    *)
(* and, external, podman's build of the Containerfile and the first boot.  *)
(*                                                                         *)
(* host.asks says which questions may go unanswered on this host: "paths"  *)
(* of packages, "presets" of the base image, "systemctl", "owners".        *)
(***************************************************************************)
EXTENDS Services, ScheduledTasks, HostFiles, Redaction, Containerfile, FiniteSets

CONSTANTS
    Hosts,          \* see HostAssumption
    Overrides,      \* values of --user-strategy, None for without
    MaxEdits        \* bound: checkboxes and strategies changed in the report

Questions == {"paths", "presets", "systemctl", "owners"}

HostLists == {"packages", "files", "direct", "sysctl", "cmdline", "apps", "dists", "users",
              "groups", "shadow", "base_presets", "etc_presets", "usr_presets"}

\* A directory of /opt, /srv or /usr/local with its lock files, each once.
IsProject(app) ==
    /\ IsPath(app.path) /\ app.path.top \in {"opt", "srv", "usr"}
    /\ app.path.top = "usr" => app.path.dir = "local"
    /\ \A i \in DOMAIN app.locks : app.locks[i].name \in LockNames
    /\ \A i, j \in DOMAIN app.locks : app.locks[i].name = app.locks[j].name => i = j
    /\ \A i \in DOMAIN app.locks : IsText(app.locks[i].text)

\* A file that is also one of a project is one file, read twice.
SameAsIn(app, file) ==
    /\ \A i \in DOMAIN app.locks : file.path = InDir(app.path, <<app.locks[i].name>>)
                                        => Read(file) = app.locks[i].text
    /\ app.requirements # None /\ file.path = InDir(app.path, <<"requirements", "txt">>)
            => Read(file) = app.requirements

\* Files whose text, if it cannot be decoded, ends the inspector that reads it.
StrictDirs ==
    {"pki/rpm-gpg", "NetworkManager/system-connections", "sysconfig/network-scripts",
     "firewalld", "firewalld/zones", "sysctl.d", "systemd/system/*.d", "tuned/*", UnitDir}
    \cup ToSet(SnippetDirs) \cup ToSet(QuadletDirs)

ReadStrictly(file) == file.path.dir \in StrictDirs \/ file.path.name \in EnvFileNames

ASSUME HostAssumption ==
    /\ MaxEdits \in Nat
    /\ Overrides \subseteq Strategies \cup {None}
    /\ \A h \in Hosts :
        /\ \A list \in HostLists : h[list] \in Seq(ToSet(h[list]))
        /\ \A p \in DOMAIN h.crontabs : h.crontabs[p] \in Seq(ToSet(h.crontabs[p]))
        /\ \A i \in DOMAIN h.files : IsCrontab(h.files[i]) <=> h.files[i].path \in DOMAIN h.crontabs
        /\ \A i \in DOMAIN h.apps : h.apps[i].locks \in Seq(ToSet(h.apps[i].locks))
        /\ \A i \in DOMAIN h.shadow : DOMAIN h.shadow[i] = {"name", "hash"}
        /\ h.asks \subseteq Questions
        /\ \A i \in DOMAIN h.files : h.files[i].modified => h.files[i].owner # None
        /\ \A i, j \in DOMAIN h.files : h.files[i].path = h.files[j].path => i = j
        /\ \A u \in DOMAIN h.units : h.units[u].owner = None
                => \E i \in DOMAIN h.files : h.files[i].path = UnitPath(u)
        /\ \A i \in DOMAIN h.files : IsPath(h.files[i].path) /\ h.files[i].path.top # "tmp"
        /\ \A i \in DOMAIN h.files : IsText(h.files[i].text)
        /\ \A i \in DOMAIN h.files : h.files[i].decodes \/ ~ReadStrictly(h.files[i])
        /\ \A i \in DOMAIN h.apps : IsProject(h.apps[i])
        /\ \A i \in DOMAIN h.apps, j \in DOMAIN h.files : SameAsIn(h.apps[i], h.files[j])
        /\ \A list \in {"base_presets", "etc_presets", "usr_presets"} :
                \A i \in DOMAIN h[list] : h[list][i].action \in {"enable", "disable"}
        /\ None # h.base_presets /\ None \notin ToSet(h.packages) \cup {"enable", "disable", "manual"}
        /\ (\E i \in DOMAIN h.files : h.files[i].path.dir = "systemd/system/*.d")
                => \E u \in DOMAIN h.units : h.units[u].owner # None

VARIABLES
    host,
    phase,
    answered,   \* the questions that were answered
    snap,       \* the snapshot
    edits,      \* what the operator changed in it
    tree,       \* config/ and quadlet/ of the last rendering
    program,    \* its Containerfile
    pc,         \* the next instruction of the build
    image       \* what is built: packages, units enabled, files, accounts

migrationVars == <<host, phase, answered, snap, edits, tree, program, pc, image>>
rendering     == <<tree, program>>
building      == <<pc, image>>

NoTree  == [config |-> [p \in {} |-> NoText], quadlet |-> [p \in {} |-> NoText]]
NoImage == [packages |-> {}, enabled |-> {}, files |-> [p \in {} |-> NoText],
            accounts |-> [gids |-> {}, names |-> {}]]

MigrationInit ==
    /\ host \in Hosts /\ phase = "config"
    /\ answered \in {Questions \ S : S \in SUBSET host.asks}
    /\ snap = [EmptySnapshot EXCEPT
                !.packages = [i \in DOMAIN host.packages |->
                                [name |-> host.packages[i], include |-> TRUE]]]
    /\ edits = {} /\ tree = NoTree /\ program = <<>> /\ pc = 1 /\ image = NoImage
-----------------------------------------------------------------------------
(* inspectors/__init__.py: one after the other *)

Inspector(now, next, section) ==
    /\ phase = now /\ phase' = next /\ snap' = section
    /\ UNCHANGED <<host, answered, edits, rendering, building>>

BasePresets == IF "presets" \in answered THEN host.base_presets ELSE None

Modified == {f.path : f \in {f \in ToSet(host.files) : f.modified}}

\* With --config-diffs, an original may not be found.
InspectConfig ==
    \E undiffed \in {{}, Modified} :
        Inspector("config", "services",
                  RunRepos(RunConfig(snap, host, "paths" \in answered, undiffed), host))

InspectServices ==
    Inspector("services", "network",
              RunServices(snap, host, BasePresets, "systemctl" \in answered, "owners" \in answered))

InspectNetwork    == Inspector("network", "scheduled", RunNetwork(snap, host))
InspectScheduled  == Inspector("scheduled", "containers",
                               RunScheduled(snap, host, "paths" \in answered))
InspectContainers == Inspector("containers", "software", RunContainers(snap, host))
InspectSoftware   == Inspector("software", "kernel", RunSoftware(snap, host))
InspectKernel     == Inspector("kernel", "users", RunKernel(snap, host))

InspectUsers ==
    \E override \in Overrides : Inspector("users", "render", RunUsers(snap, host, override))
-----------------------------------------------------------------------------
(* pipeline.py: redaction, then the renderers; the same on a re-render *)

RenderFrom(phases) ==
    /\ phase \in phases /\ phase' = "page"
    /\ LET redacted == RedactSnapshot(snap)
           config   == WriteConfigTree(redacted)
       IN  /\ snap' = redacted
           /\ tree' = [config |-> config, quadlet |-> WriteQuadlets(redacted)]
           /\ program' = Render(redacted, config)
    /\ UNCHANGED <<host, answered, edits, building>>

RenderFirst == RenderFrom({"render"})
Rerender    == RenderFrom({"page", "edited"})
-----------------------------------------------------------------------------
(* The report: items with a checkbox, and the strategies of users *)

Checkboxes == {"packages", "config", "repo_files", "drop_ins", "firewall_zones", "direct_rules",
               "generated_timer_units", "quadlet_units", "items", "sysctl_overrides",
               "users", "groups"}

Edit(edit) ==
    /\ phase \in {"page", "edited"} /\ phase' = "edited"
    /\ edits' = (edits \ {edit}) \cup ({edit} \ edits)
    /\ Cardinality(edits') <= MaxEdits
    /\ UNCHANGED <<host, answered, rendering, building>>

Toggle ==
    \E section \in Checkboxes : \E i \in DOMAIN snap[section] :
        /\ Edit(<<section, i>>)
        /\ snap' = [snap EXCEPT ![section][i].include = ~@]

\* A user's strategy leaves the group's alone, and the other way round.
SetStrategy ==
    \E list \in {"users", "groups"}, s \in Strategies : \E i \in DOMAIN snap[list] :
        /\ <<"strategy", list, i>> \notin edits /\ s # snap[list][i].strategy
        /\ Edit(<<"strategy", list, i>>)
        /\ snap' = [snap EXCEPT ![list][i].strategy = s]
-----------------------------------------------------------------------------
(* podman build (external) *)

\* The units of packages that are enabled as they are installed.
PresetUnits(packages) ==
    {u \in DOMAIN host.units : /\ host.units[u].owner \in packages
                               /\ StateOf(host, u) # "static"
                               /\ PresetState(host.base_presets, u) = "enabled"}

StartBuild ==
    /\ phase = "page" /\ phase' = "build"
    /\ image' = [packages |-> host.base, enabled |-> PresetUnits(host.base),
                 files |-> [p \in {} |-> NoText],
                 accounts |-> [gids |-> host.base_gids, names |-> {}]]
    /\ UNCHANGED <<host, answered, snap, edits, rendering, pc>>

HasUnit(unit) ==
    \/ UnitPath(unit) \in DOMAIN image.files
    \/ unit \in DOMAIN host.units /\ host.units[unit].owner \in image.packages

\* The files a COPY takes.
Sources(step) ==
    LET config == DOMAIN tree.config
    IN  CASE step.do = "copy" -> {p \in config : [top |-> p.top, dir |-> p.dir] \in step.args}
          [] step.do = "copy_roots" -> {p \in config : p.top \in step.args}
          [] step.do = "copy_project" ->
                {p \in config : /\ p.top = step.args.top /\ p.dir = step.args.dir
                                /\ IsPrefix(step.args.name, p.name)}
          [] step.do = "copy_quadlets" -> {}
          [] OTHER -> {}

\* Whether a step succeeds on the image so far.
Succeeds(step) ==
    CASE step.do \in {"enable", "disable"} -> \A u \in step.args : HasUnit(u)
      [] step.do \in {"copy", "copy_project"} -> Sources(step) # {}
      [] step.do = "rebuild" -> step.args \in image.packages
      [] step.do = "useradd" -> step.args.gid \in image.accounts.gids
      [] OTHER -> TRUE

\* Files over those of the image.
Over(files, there) ==
    [p \in DOMAIN files \cup DOMAIN there |-> IF p \in DOMAIN files THEN files[p] ELSE there[p]]

Copied(files) == [image EXCEPT !.files = Over(files, @)]

After(step) ==
    CASE step.do = "install" ->
            [image EXCEPT !.packages = @ \cup step.args,
                          !.enabled = @ \cup PresetUnits(step.args \ image.packages)]
      [] step.do = "enable"  -> [image EXCEPT !.enabled = @ \cup step.args]
      [] step.do = "disable" -> [image EXCEPT !.enabled = @ \ step.args]
      [] step.do \in {"copy", "copy_roots", "copy_project"} ->
            Copied([p \in Sources(step) |-> tree.config[p]])
      [] step.do = "copy_quadlets" -> Copied(tree.quadlet)
      [] step.do = "groupadd" -> [image EXCEPT !.accounts.gids = @ \cup {step.args.gid}]
      [] step.do = "useradd"  -> [image EXCEPT !.accounts.names = @ \cup {step.args.name}]
      [] step.do = "rebuild"  -> image

BuildStep ==
    /\ phase = "build" /\ pc <= Len(program)
    /\ IF Succeeds(program[pc])
       THEN image' = After(program[pc]) /\ pc' = pc + 1 /\ UNCHANGED phase
       ELSE phase' = "failed" /\ UNCHANGED building
    /\ UNCHANGED <<host, answered, snap, edits, rendering>>

\* Deployment and first boot of what was built.
Boot ==
    /\ phase = "build" /\ pc > Len(program) /\ phase' = "booted"
    /\ image' = [image EXCEPT !.accounts = Deploy(@, snap, SysusersConf \in DOMAIN image.files)]
    /\ UNCHANGED <<host, answered, snap, edits, rendering, pc>>

MigrationNext ==
    \/ InspectConfig \/ InspectServices \/ InspectNetwork \/ InspectScheduled
    \/ InspectContainers \/ InspectSoftware \/ InspectKernel \/ InspectUsers
    \/ RenderFirst \/ Rerender \/ Toggle \/ SetStrategy
    \/ StartBuild \/ BuildStep \/ Boot

MigrationSpec == MigrationInit /\ [][MigrationNext]_migrationVars
=============================================================================
