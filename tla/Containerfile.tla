---------------------------- MODULE Containerfile ---------------------------
(***************************************************************************)
(* renderers/containerfile.py: the instructions of the Containerfile in    *)
(* their order, as far as they change packages, units, files or accounts   *)
(* of the image. An instruction is [do, args].                             *)
(*                                                                         *)
(* The packages here are those of a host inspected without a baseline: all *)
(* are added and none is told a leaf (Packages has the others).            *)
(***************************************************************************)
EXTENDS ConfigTree

Do(what, args) == <<[do |-> what, args |-> args]>>

\* An instruction for each of list, of what it is.
DoEach(what, list) == [i \in DOMAIN list |-> [do |-> what, args |-> list[i]]]

When(condition, instructions) == IF condition THEN instructions ELSE <<>>

Installed(snap) == {p.name : p \in ToSet(Kept(snap.packages))}

\* 1. Repositories and keys, before the packages they are for.
CopyDirs(items) == {[top |-> i.path.top, dir |-> i.path.dir] : i \in ToSet(Kept(items))}

RepositoryConfiguration(snap) ==
    LET repos == CopyDirs(snap.repo_files)
        keys  == CopyDirs(snap.gpg_keys)
    IN  When(keys # {} /\ (repos # {} \/ snap.repo_files = <<>>), Do("copy", keys))
        \o When(repos # {}, Do("copy", repos))

\* 2.
PackageInstallation(snap) == When(Installed(snap) # {}, Do("install", Installed(snap)))

\* Units that come with config/: the pairs of the local and of the kept timers.
ConfigTreeUnits(snap) ==
    {Append(t.name, suffix) :
        t \in ToSet(snap.systemd_timers) \cup ToSet(Kept(snap.generated_timer_units)),
        suffix \in {"timer", "service"}}

\* _unit_installable()
UnitInstallable(snap, unit) ==
    LET owner == snap.state_changes[unit].owning_package
    IN  owner = None \/ Installed(snap) = {} \/ owner \in Installed(snap)

\* 3. Units of config/ are left for later when they are to be enabled.
EnabledEarly(snap) ==
    {u \in snap.enabled_units : u \notin ConfigTreeUnits(snap) /\ UnitInstallable(snap, u)}

DisabledEarly(snap) == {u \in snap.disabled_units : UnitInstallable(snap, u)}

ServiceEnablement(snap) ==
    When(EnabledEarly(snap) # {}, Do("enable", EnabledEarly(snap)))
    \o When(DisabledEarly(snap) # {}, Do("disable", DisabledEarly(snap)))

\* Fault: the timers' files are not there yet when they are enabled.
EnableBeforeCopy(snap) ==
    LET timers == ToSet(snap.systemd_timers) \cup ToSet(Kept(snap.generated_timer_units))
    IN  When(timers # {}, Do("enable", {Append(t.name, "timer") : t \in timers}))

\* 5. All timers, whatever their state was.
ScheduledTasksSection(snap) ==
    LET timers == {t.name : t \in ToSet(snap.systemd_timers)}
                  \cup {u.name : u \in ToSet(Kept(snap.generated_timer_units))}
    IN  When(timers # {}, Do("copy", {[top |-> "etc", dir |-> UnitDir]})
                          \o Do("enable", {Append(t, "timer") : t \in timers}))

\* 6. _config_copy_roots(): every top directory with a file.
ConfigCopyRoots(tree) == {p.top : p \in DOMAIN tree} \ {"tmp"}

\* 7. The package with what a project's directory or file is rebuilt with.
Tool(method) ==
    CASE method = "npm package-lock.json" -> "npm"
      [] method = "yarn.lock"             -> "yarn"
      [] method = "gem Gemfile.lock"      -> "bundler"
      [] method = "pip requirements.txt"  -> "python3-pip"
      [] OTHER -> None

\* pip install on its own is for requirements and the packages of the system's Python.
OfPip(snap)    == {i \in ToSet(Kept(snap.items)) : i.pip /\ i.method # "python venv"}
OfDists(snap)  == {i \in OfPip(snap) : i.method = "pip dist-info"}
OfNodejs(snap) == {i \in ToSet(Kept(snap.items)) :
                        i.method \in {"npm package-lock.json", "yarn.lock"}}

\* What is installed for them: npm with nodejs, unless either is an added package,
\* and pip.
Needed(snap) ==
    (IF OfNodejs(snap) = {} \/ Installed(snap) \cap {"npm", "nodejs"} # {} THEN {}
     ELSE {"nodejs", "npm"})
    \cup (IF OfPip(snap) = {} THEN {} ELSE {"python3-pip"} \ Installed(snap))

\* A venv with packages is made again; of a project the directory or the file is
\* copied and rebuilt in place.
Rebuilt(item) ==
    IF item.method = "python venv" THEN When(item.pip, Do("rebuild", "python3"))
    ELSE When(Tool(item.method) # None,
              Do("copy_project", item.path) \o Do("rebuild", Tool(item.method)))

\* The packages of the system's Python come last, in one step.
NonRpmSoftware(snap) ==
    LET kept == Kept(snap.items)
    IN  When(Needed(snap) # {}, Do("install", Needed(snap)))
        \o FlattenSeq([i \in DOMAIN kept |-> Rebuilt(kept[i])])
        \o When(OfDists(snap) # {}, Do("rebuild", "python3-pip"))

\* 8.
ContainerWorkloads(snap) == When(Kept(snap.quadlet_units) # <<>>, Do("copy_quadlets", {}))

\* 9. The file for sysusers if it has users, and groups and users of the build; the
\* other strategies have files outside of the image.
UsersAndGroups(snap) ==
    When(By("sysusers", snap.users) # <<>>,
         Do("copy", {[top |-> SysusersConf.top, dir |-> SysusersConf.dir]}))
    \o DoEach("groupadd", UseraddGroups(snap)) \o DoEach("useradd", By("useradd", snap.users))

\* 10. The file of kernel arguments; modules, sysctl.d and tuned came with 6.
KernelConfiguration(snap) ==
    When(OperatorKargs(snap.cmdline) # <<>>,
         Do("copy", {[top |-> KargsToml.top, dir |-> KargsToml.dir]}))

\* _render_containerfile_content()
Render(snap, tree) ==
    RepositoryConfiguration(snap) \o PackageInstallation(snap) \o ServiceEnablement(snap)
    \o ScheduledTasksSection(snap) \o Do("copy_roots", ConfigCopyRoots(tree))
    \o NonRpmSoftware(snap) \o ContainerWorkloads(snap) \o UsersAndGroups(snap)
    \o KernelConfiguration(snap)
=============================================================================
