----------------------------- MODULE HostFiles ------------------------------
(***************************************************************************)
(* The inspectors of files: config.py, the repository part of rpm.py,      *)
(* network.py, container.py, kernel_boot.py and non_rpm_software.py. Each  *)
(* takes the files of host that are its own; one file can have several.    *)
(*                                                                         *)
(* A file of the host is [path, owner, modified, text, decodes]: the       *)
(* package it belongs to, or None, whether rpm -Va lists it, and whether   *)
(* its text is UTF-8. A file under /etc that belongs to none and that      *)
(* packages or the system make has a name with "generated" in it.          *)
(***************************************************************************)
EXTENDS Snapshot

\* read_text(), and "" if it fails. Where the code does not catch that failure
\* (StrictDirs), it ends the inspector, as in Inspection.
Read(file) == IF file.decodes THEN file.text ELSE NoText

Items(files) == [i \in DOMAIN files |-> Item(files[i].path, Read(files[i]))]

FilesIn(host, dir, suffixes) ==
    Select(host.files, LAMBDA f : f.path.dir = dir /\ Suffix(f.path) \in suffixes)

Mentions(path, word) == \E i \in DOMAIN path.name : path.name[i] = word
-----------------------------------------------------------------------------
(* config.py *)

\* _is_excluded_unowned(): what another inspector handles, and what is generated.
ExcludedUnowned(path) ==
    \/ path.dir = "systemd/system/*.d" /\ Suffix(path) = "conf"
    \/ path.dir = "tuned/*" /\ Suffix(path) = "conf"
    \/ path.dir = "modprobe.d" /\ Mentions(path, "blacklist") /\ Suffix(path) = "conf"
    \/ path.dir = "NetworkManager/system-connections" /\ Suffix(path) = "bak"
    \/ Mentions(path, "generated")

\* The content as far as it could be read, with a note when --config-diffs could
\* not find what the package ships.
Captured(file, undiffed) ==
    IF file.path \in undiffed THEN Text(Append(Read(file).of, "note"), Read(file).holds)
                              ELSE Read(file)

InEtc(host) == Select(host.files, LAMBDA f : f.path.top = "etc")

Owned(file, owned) == owned /\ file.owner # None

Unowned(host, owned) ==
    Select(InEtc(host),
        LAMBDA f : ~f.modified /\ ~Owned(f, owned) /\ ~ExcludedUnowned(f.path))

\* Named like a package that was removed, and not captured yet: the exclusions do
\* not apply.
Orphaned(host, owned) ==
    Select(InEtc(host),
        LAMBDA f : /\ ~f.modified /\ ~Owned(f, owned) /\ ExcludedUnowned(f.path)
                   /\ \E p \in host.removed : Mentions(f.path, p))

\* run(): owned, whether rpm lists the paths of packages; undiffed, the modified
\* files whose original was not found.
RunConfig(snap, host, owned, undiffed) ==
    LET modified == Select(host.files, LAMBDA f : f.modified)
        unowned  == Unowned(host, owned)
        orphaned == Orphaned(host, owned)
        entries(files, kind, notes) ==
            [i \in DOMAIN files |->
                ConfigFileEntry(files[i].path, kind, Captured(files[i], notes))]
    IN  [snap EXCEPT !.config = entries(modified, "rpm_owned_modified", undiffed)
                                \o entries(unowned, "unowned", {})
                                \o entries(orphaned, "orphaned", {})]
-----------------------------------------------------------------------------
(* rpm.py: repositories and their keys *)

IsRepoFile(file) ==
    \/ file.path.dir = "yum.repos.d" /\ Suffix(file.path) \in {"repo", "conf"}
    \/ file.path.dir = "dnf"

\* _collect_gpg_keys(): the files that repositories name and that are there.
RunRepos(snap, host) ==
    [snap EXCEPT
        !.repo_files = Items(Select(host.files, IsRepoFile)),
        !.gpg_keys   = Items(Select(host.files, LAMBDA f : f.path.dir = "pki/rpm-gpg"
                                                              /\ f.path \in host.gpgkeys))]
-----------------------------------------------------------------------------
(* network.py *)

\* _classify_connection(): host.methods has ipv4.method of each profile; an ifcfg
\* file has none.
ConnectionMethod(value) ==
    CASE value = "manual" -> "static"
      [] value = "auto"   -> "dhcp"
      [] value = None     -> "unknown"
      [] OTHER -> value

RunNetwork(snap, host) ==
    LET in(dir)  == Select(InEtc(host), LAMBDA f : f.path.dir = dir)
        profiles == in("NetworkManager/system-connections") \o in("sysconfig/network-scripts")
    IN  [snap EXCEPT
            !.connections = [i \in DOMAIN profiles |->
                NMConnection(profiles[i].path, ConnectionMethod(host.methods[profiles[i].path]))],
            !.firewall_zones = Items(FilesIn(host, "firewalld/zones", {"xml"})),
            !.direct_rules   = [i \in DOMAIN host.direct |->
                                    [rule |-> host.direct[i], include |-> TRUE]]]
-----------------------------------------------------------------------------
(* container.py *)

QuadletSuffixes == {"container", "volume", "network", "kube", "image", "build"}

\* The system's units, those of packages, and those of users; a unit keeps its
\* name only.
QuadletDirs == <<"containers/systemd", "share/containers/systemd", UnitDir,
                 ".config/containers/systemd">>

RunContainers(snap, host) ==
    [snap EXCEPT !.quadlet_units =
        FlattenSeq([i \in DOMAIN QuadletDirs |->
                        Items(FilesIn(host, QuadletDirs[i], QuadletSuffixes))])]
-----------------------------------------------------------------------------
(* kernel_boot.py *)

SnippetDirs == <<"modules-load.d", "modprobe.d", "dracut.conf.d">>

\* _diff_sysctl(): values are what /proc has, what packages ship and what /etc
\* sets, each None when there is none.
Runtime(key) ==
    CASE key.proc # None -> key.proc
      [] key.proc = None /\ key.set # None -> key.set
      [] OTHER -> key.shipped

DiffSysctl(keys) ==
    LET differ == Select(keys, LAMBDA k : k.shipped = None \/ Runtime(k) # k.shipped)
    IN  [i \in DOMAIN differ |->
            [key |-> differ[i].name, runtime |-> Runtime(differ[i]), include |-> TRUE]]

RunKernel(snap, host) ==
    [snap EXCEPT
        !.cmdline = host.cmdline,
        !.sysctl_overrides = DiffSysctl(host.sysctl),
        !.snippets = FlattenSeq([i \in DOMAIN SnippetDirs |->
                                    Items(FilesIn(host, SnippetDirs[i], {"conf"}))]),
        !.tuned_profiles = Items(FilesIn(host, "tuned/*", {"conf"}))]
-----------------------------------------------------------------------------
(* non_rpm_software.py *)

\* A directory under /opt, /srv or /usr/local: [path, git, venv, pips, binary,
\* locks, requirements], pips whether the venv has packages, binary "elf", "version"
\* (strings find one) or "none", locks the lock files in it with their texts,
\* requirements a text or None; nested, one inside another.
Bare(path, method, confidence) == NonRpmItem(path, method, confidence, <<>>, NoText, FALSE)

ScanDirs(apps) ==
    LET entries == Select(apps, LAMBDA a : /\ a.path.top # "srv" /\ ~a.nested
                                           /\ a.git \/ ~a.venv)
    IN  [i \in DOMAIN entries |->
            IF entries[i].git THEN Bare(entries[i].path, "git repository", 2)
            ELSE Bare(entries[i].path, "directory scan",
                      CASE entries[i].binary = "elf" -> 2
                        [] entries[i].binary = "version" -> 1
                        [] OTHER -> 0)]

ScanVenvs(apps) ==
    LET venvs == Select(apps, LAMBDA a : a.path.top # "usr" /\ a.venv)
    IN  [i \in DOMAIN venvs |->
            NonRpmItem(venvs[i].path, "python venv", 2, <<>>, NoText, venvs[i].pips)]

\* _scan_pip(): the packages of the system's Python, [path, pips], pips if there is a
\* version and no extension in C.
ScanDists(dists) ==
    [i \in DOMAIN dists |->
        NonRpmItem(dists[i].path, "pip dist-info", 2, <<>>, NoText, dists[i].pips)]

ScanRequirements(apps) ==
    LET with == Select(apps, LAMBDA a : a.path.top # "usr" /\ a.requirements # None)
    IN  [i \in DOMAIN with |->
            NonRpmItem(InDir(with[i].path, <<"requirements", "txt">>),
                       "pip requirements.txt", 2, <<>>, with[i].requirements, TRUE)]

\* _scan_npm(), _scan_gem(): all the lock files of the directory go with the item.
LockNames == {"package.json", "package-lock.json", "yarn.lock", "Gemfile", "Gemfile.lock"}

ScanLocks(apps, lock, method) ==
    LET with == Select(apps, LAMBDA a : \E i \in DOMAIN a.locks : a.locks[i].name = lock)
    IN  [i \in DOMAIN with |-> NonRpmItem(with[i].path, method, 2, with[i].locks, NoText, FALSE)]

\* Fault: what is found later replaces what was found with the same confidence.
BestLast(items) ==
    Select(items, LAMBDA x : \A i \in DOMAIN items :
        items[i].path = x.path => items[i].confidence <= x.confidence)

\* The first of the items of a path with the highest confidence, at the place of
\* the path's first item.
Best(items, path) ==
    LET same == Select(items, LAMBDA x : x.path = path)
    IN  Select(same, LAMBDA x : \A i \in DOMAIN same : same[i].confidence <= x.confidence)[1]

Dedup(items) ==
    LET firsts == Select([i \in DOMAIN items |-> [at |-> i, path |-> items[i].path]],
                            LAMBDA x : \A j \in 1..(x.at - 1) : items[j].path # x.path)
    IN  [i \in DOMAIN firsts |-> Best(items, firsts[i].path)]

EnvFileNames == {<<"env">>} \cup {<<"env", kind>> :
                                    kind \in {"local", "production", "staging", "development"}}

RunSoftware(snap, host) ==
    [snap EXCEPT
        !.items = Dedup(ScanDirs(host.apps) \o ScanVenvs(host.apps)
                        \o ScanDists(host.dists) \o ScanRequirements(host.apps)
                        \o ScanLocks(host.apps, "package-lock.json", "npm package-lock.json")
                        \o ScanLocks(host.apps, "yarn.lock", "yarn.lock")
                        \o ScanLocks(host.apps, "Gemfile.lock", "gem Gemfile.lock")),
        !.env_files = Items(Select(host.files, LAMBDA f : f.path.top = "opt"
                                                             /\ f.path.name \in EnvFileNames))]
=============================================================================
