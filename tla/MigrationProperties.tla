------------------------- MODULE MigrationProperties ------------------------
(***************************************************************************)
(* What a migration (Migration) promises: that the image has what the host *)
(* had and the operator kept, and nothing that was left out; and how far   *)
(* the promise goes, every exception named.                                *)
(***************************************************************************)
EXTENDS Migration

Ended  == phase \in {"build", "booted"} /\ pc > Len(program)
Drawn  == phase \in {"page", "build", "booted", "failed"}

Phases == {"config", "services", "network", "scheduled", "containers", "software", "kernel",
           "users", "render", "page", "edited", "build", "failed", "booted"}

\* Types; an item of software has one place in its section (_deduplicate_items),
\* a timer a calendar of five parts, and edits are of what is there.
MigrationTypeOK ==
    /\ phase \in Phases /\ answered \subseteq Questions
    /\ Cardinality(edits) <= MaxEdits
    /\ pc \in 1..(Len(program) + 1)
    /\ image.packages \subseteq ToSet(host.packages) \cup host.base
                                \cup {"nodejs", "npm", "python3-pip"}
    /\ image.enabled \subseteq DOMAIN host.units \cup {Append(t.name, "timer") :
                        t \in ToSet(snap.generated_timer_units) \cup ToSet(snap.systemd_timers)}
    /\ \A e \in edits : e[1] = "strategy" \/ e[2] \in DOMAIN snap[e[1]]
    /\ \A i \in DOMAIN snap.generated_timer_units :
            Len(snap.generated_timer_units[i].timer_content.of) = 6
    /\ \A i, j \in DOMAIN snap.items : snap.items[i].path = snap.items[j].path => i = j
-----------------------------------------------------------------------------
(* A unit without a known owner is taken for one of the base image.        *)
OwnerUnknown(unit) == snap.state_changes[unit].owning_package = None

\* Without a package to install, every unit counts as installable.
MayBeMissing(unit) == OwnerUnknown(unit) \/ Installed(snap) = {}

\* A user whose group another user of it, listed before, took elsewhere, or an
\* edit, or which is not the administrator's.
GroupElsewhere(user) ==
    \/ \E e \in edits : e[1] \in {"groups", "strategy"}
    \/ WithGid(snap.users, user.gid)[1].strategy # "useradd"
    \/ \A i \in DOMAIN host.groups : host.groups[i].gid = user.gid => ~OwnId(user.gid)

\* Gems, yarn and venvs are rebuilt without asking for their tool, and so is npm where
\* nodejs is kept: on RHEL 9 npm is a package of its own (containerfile.py:907).
ToolLeftOut(tool) ==
    /\ tool \notin Installed(snap)
    /\ \/ tool \in {"bundler", "yarn", "python3"}
       \/ tool = "npm" /\ "nodejs" \in Installed(snap)

\* An image build fails in four ways: at units whose package is not known (local
\* services among them, which are enabled before config/ is copied) or when no package
\* is kept, at users whose group is created by other means, at a project whose tool
\* nobody installs, and at an empty requirements.txt. The order of the sections of
\* the Containerfile never makes it fail otherwise.
BuildFailureExplained ==
    phase = "failed" =>
        LET step == program[pc]
        IN  CASE step.do = "enable"  -> \E u \in step.args \cap snap.enabled_units : MayBeMissing(u)
              [] step.do = "disable" -> \E u \in step.args \cap snap.disabled_units : MayBeMissing(u)
              [] step.do = "useradd" -> GroupElsewhere(step.args)
              [] step.do = "rebuild" -> ToolLeftOut(step.args)
              [] step.do = "copy_project" -> Suffix(step.args) = "txt"
              [] OTHER -> FALSE
-----------------------------------------------------------------------------
(* Files *)

FileSections == {"config", "repo_files", "gpg_keys", "firewall_zones", "drop_ins",
                 "tuned_profiles", "snippets", "env_files"}

Paths(items) == {i.path : i \in ToSet(items)}

OfSections(op(_)) == UNION {Paths(op(snap[s])) : s \in FileSections}

Left(items) == Select(items, LAMBDA i : ~i.include)

\* What the administrator has put on the host, or changed.
OwnFile(file) ==
    \/ file.modified
    \/ file.owner = None /\ file.path.top = "etc" /\ ~Mentions(file.path, "generated")
    \/ file.path \in Paths(snap.env_files)

\* Network profiles stay with the host unless they are static, and so do the
\* copies NetworkManager keeps; files next to quadlets are no part of config/.
IsProfile(path) ==
    path.top = "etc" /\ path.dir \in {"NetworkManager/system-connections", "sysconfig/network-scripts"}

StaysBehind(path) ==
    \/ IsProfile(path) /\ (host.methods[path] # "manual" \/ Suffix(path) = "bak")
    \/ path.top = "etc" /\ path.dir = QuadletDir

ToolsOwn == {SysusersConf, SysctlPath, KargsToml, Tmpfiles("yoinkc-sysusers-homes"),
             Tmpfiles("yoinkc-var"), Path("etc", "firewalld", <<"direct", "xml">>)}

GeneratedUnits == {UnitPath(Append(t.name, suffix)) : suffix \in {"timer", "service"},
                        t \in ToSet(Kept(snap.generated_timer_units))}

ToolsWords == {"direct", "sysctl", "sysusers", "homes", "kargs", "var", "timer", "service"}

\* In the image, as it was read, but for what redaction and notes change, or
\* replaced by what yoinkc makes of it, or in its place.
Arrived(path, text) ==
    /\ path \in DOMAIN image.files
    /\ \/ image.files[path].of \in {text.of, Append(text.of, "note")}
       \/ IsExcludedPath(path) /\ image.files[path] = ExcludedPlaceholder
       \/ path \in ToolsOwn \cup GeneratedUnits /\ image.files[path].of[1] \in ToolsWords

\* Every file of the administrator of which no entry was excluded is in the
\* image, whichever inspectors and renderers it passed, and whether or not rpm
\* answered; so are the quadlets, the last of a name, and the lock files of the
\* projects. Its text is there if it can be decoded: a keystore or a database is read
\* as "" (config.py:378), and its empty file takes the place of what the image has.
FilesArrive ==
    Ended =>
        /\ \A f \in ToSet(host.files) :
            OwnFile(f) /\ ~StaysBehind(f.path) /\ f.path \notin OfSections(Left)
                => Arrived(f.path, Read(f))
        /\ \A q \in ToSet(Kept(snap.quadlet_units)) : q.text # NoText =>
            \E r \in ToSet(Kept(snap.quadlet_units)) :
                /\ r.path.name = q.path.name
                /\ Arrived(Path("etc", QuadletDir, q.path.name), r.text)
        /\ \A item \in ToSet(Kept(snap.items)) : \A i \in DOMAIN item.files :
            Arrived(InDir(item.path, <<item.files[i].name>>), item.files[i].text)

\* The files someone asked for.
AskedFiles ==
    {p \in OfSections(Kept) : ~StaysBehind(p)} \cup StaticPaths(snap) \cup ToolsOwn
    \cup GeneratedUnits
    \cup {UnitPath(Append(t.name, suffix)) : suffix \in {"timer", "service"},
            t \in ToSet(snap.systemd_timers)}
    \cup {Path("etc", QuadletDir, q.path.name) : q \in ToSet(Kept(snap.quadlet_units))}
    \cup Paths(Kept(snap.items))
    \cup (UNION {{InDir(i.path, <<i.files[j].name>>) : j \in DOMAIN i.files} :
                    i \in ToSet(Kept(snap.items))})

\* What was excluded in the report, or belongs to the host alone, is not in the
\* image by another way: files, packages, units, users and groups are those of
\* the base image and of what was kept.
NothingUnasked ==
    Ended =>
        /\ DOMAIN image.files \subseteq AskedFiles
        /\ image.packages \subseteq host.base \cup Installed(snap)
                                    \cup (IF OfNodejs(snap) = {} THEN {} ELSE {"nodejs", "npm"})
                                    \cup (IF OfPip(snap) = {} THEN {} ELSE {"python3-pip"})
        /\ image.enabled \subseteq PresetUnits(image.packages) \cup snap.enabled_units
                \cup {Append(t.name, "timer") :
                        t \in ToSet(snap.systemd_timers) \cup ToSet(Kept(snap.generated_timer_units))}
        /\ image.accounts.names \subseteq {u.name : u \in ToSet(Kept(snap.users))}
        /\ image.accounts.gids \subseteq host.base_gids \cup Gids(Kept(snap.groups))
                                         \cup Gids(Kept(snap.users))
-----------------------------------------------------------------------------
(* Units *)

\* A rule without wildcards that comes after one with, which the presets' reader
\* looks up first and systemd does not reach.
Overtaken(unit) ==
    \E i, j \in DOMAIN host.base_presets :
        /\ i < j /\ Matches(host.base_presets[i], unit) /\ Matches(host.base_presets[j], unit)
        /\ host.base_presets[i].glob /\ ~host.base_presets[j].glob

\* A unit of a kept package is enabled in the image if and only if it is on the
\* host, when the base image's presets are known and judge it. Not so for a
\* disabled unit no rule speaks of, and for the service of a local timer.
UnitStatesCarried ==
    Ended /\ "presets" \in answered =>
        \A u \in DOMAIN host.units :
            /\ host.units[u].owner \in Installed(snap)
            /\ StateOf(host, u) \in {"enabled", "disabled"}
            /\ u \notin ConfigTreeUnits(snap) /\ ~Overtaken(u)
            /\ StateOf(host, u) = "disabled" => FirstMatch(host.base_presets, u, None) # None
            => (u \in image.enabled <=> StateOf(host, u) = "enabled")
-----------------------------------------------------------------------------
(* Jobs *)

\* What a part of a calendar means to systemd, as a field of cron; the forms of
\* lists of ranges and steps of weekdays it does not read.
Reading ==
    [part \in {"*", "n", "a,b", "a..b", "a..b/n", "00/n", "a,b..c"} |->
        CASE part = "a..b"   -> "a-b"
          [] part = "a..b/n" -> "a-b/n"
          [] part = "00/n"   -> "*/n"
          [] part = "a,b..c" -> "a,b-c"
          [] OTHER -> part]

\* The forms of a field that the code puts into words of a calendar. It could do so
\* with the other steps, too (StepsMeanTheSame).
Sayable(field, kind) ==
    \/ field \in {"*", "n", "a,b", "a-b"}
    \/ field \in {"a-b/n", "a,b-c"} /\ kind # "dow"
    \/ field = "*/n" /\ kind = "hour"

\* cron takes either of two restricted days, a calendar both.
Convertible(fields) ==
    /\ \A i \in 1..5 : Sayable(fields[i], Kinds[i])
    /\ fields[3] = "*" \/ fields[5] = "*"

MeansSame(calendar, fields) ==
    \A i \in 1..5 : calendar[6 - i] \in DOMAIN Reading /\ Reading[calendar[6 - i]] = fields[i]

\* The last kept unit of its name, whose files replace those of the others.
LastKept(i) ==
    LET units == snap.generated_timer_units
    IN  /\ units[i].include
        /\ \A t \in ToSet(snap.systemd_timers) : t.name # units[i].name
        /\ \A j \in DOMAIN units : j > i /\ units[j].name = units[i].name => ~units[j].include

\* What a service that runs the job says.
Starts(job) == <<"service", IF job = "" THEN "true" ELSE job>>

\* Enabled, with the unit's times and the job's command.
Runs(i, job) ==
    LET unit == snap.generated_timer_units[i]
    IN  /\ Append(unit.name, "timer") \in image.enabled
        /\ image.files[UnitPath(Append(unit.name, "timer"))].of = unit.timer_content.of
        /\ image.files[UnitPath(Append(unit.name, "service"))].of = Starts(job)

\* Of no package, as far as is known.
NotPackaged(file) == file.owner = None \/ "paths" \notin answered

\* The i-th unit is a job's: it has its name and its command.
IsOf(i, name, job) ==
    /\ snap.generated_timer_units[i].name = name
    /\ snap.generated_timer_units[i].service_content.of = Starts(job)

\* It is started when the line says.
AtTimesOf(i, line) == MeansSame(Tail(snap.generated_timer_units[i].timer_content.of), line.fields)

LinesOf(file) == {line \in ToSet(host.crontabs[file.path]) : IsJob(file, line)}

\* Every job of a crontab that can be decoded, and every script of a period, unless it
\* is the package's, has a unit, of the same times if the code can say them; and the
\* last kept unit of a name runs in the image, as does every timer of the
\* administrator. The other units of that name are replaced (those of all lines of
\* a file but the last, scheduled_tasks.py:216), and lines with a shortcut have none.
JobsKept ==
    Ended =>
        /\ \A f \in ToSet(host.files) :
            f.path \in DOMAIN host.crontabs /\ f.decodes /\ NotPackaged(f) =>
                \A line \in LinesOf(f) : \E i \in DOMAIN snap.generated_timer_units :
                    /\ IsOf(i, <<"cron">> \o f.path.name, line.job)
                    /\ Convertible(line.fields) => AtTimesOf(i, line)
                    /\ LastKept(i) => Runs(i, line.job)
        /\ \A f \in ToSet(host.files), p \in ToSet(Periods) : f.path.dir = p.dir /\ NotPackaged(f) =>
            \E i \in DOMAIN snap.generated_timer_units :
                /\ IsOf(i, <<"cron", p.name>> \o f.path.name, Last(f.path.name))
                /\ LastKept(i) => Runs(i, Last(f.path.name))
        /\ \A f \in ToSet(host.files) :
            f.path.top = "etc" /\ f.path.dir = UnitDir /\ Suffix(f.path) = "timer" /\ f.text # NoText
                => f.path.name \in image.enabled

\* The comment on steps (scheduled_tasks.py:60) has those of minutes and of hours
\* become calendars that mean the same.
StepsMeanTheSame ==
    Drawn =>
        \A f \in ToSet(host.files) :
            f.path \in DOMAIN host.crontabs /\ f.decodes /\ NotPackaged(f) =>
                \A line \in LinesOf(f) :
                    {line.fields[1], line.fields[2]} \subseteq {"*", "n", "*/n"}
                    /\ (\A i \in 3..5 : line.fields[i] = "*")
                    => \E i \in DOMAIN snap.generated_timer_units :
                        /\ IsOf(i, <<"cron">> \o f.path.name, line.job)
                        /\ AtTimesOf(i, line)
-----------------------------------------------------------------------------
(* Accounts *)

\* Of the users or groups of the host those of people and services are in the
\* snapshot.
Listed(accounts, of, id) ==
    {a.name : a \in ToSet(accounts)} = {a.name : a \in {a \in ToSet(of) : OwnId(a[id])}}

\* A group its own user's strategy creates, or that is there.
HasGroup(user) ==
    \/ user.strategy = "kickstart" \/ user.gid \in host.base_gids
    \/ \E g \in ToSet(Kept(snap.groups)) : g.gid = user.gid /\ g.strategy = user.strategy

\* A group is created for itself by sysusers and the blueprint; by useradd only
\* next to users, and by the kickstart file only as the group of one.
CreatesGroup(group) ==
    \/ group.strategy \in {"sysusers", "blueprint"}
    \/ group.strategy = "useradd" /\ By("useradd", snap.users) # <<>>
    \/ group.strategy = "kickstart" /\ group.gid \in Gids(Kickstart(snap))

\* After the first boot every user and group of the host that was kept exists,
\* created by one of the four strategies, if its group is or can be.
AccountsExist ==
    phase = "booted" =>
        /\ Listed(snap.users, host.users, "uid") /\ Listed(snap.groups, host.groups, "gid")
        /\ \A u \in ToSet(Kept(snap.users)) : HasGroup(u) => u.name \in image.accounts.names
        /\ \A g \in ToSet(Kept(snap.groups)) : CreatesGroup(g) => g.gid \in image.accounts.gids
-----------------------------------------------------------------------------
(* Redaction *)

\* The files of sections that redact_snapshot() does not read.
NotRedacted ==
    (UNION {Paths(snap[s]) : s \in {"repo_files", "gpg_keys", "drop_ins", "tuned_profiles", "items"}})
    \cup (UNION {{InDir(i.path, <<i.files[j].name>>) : j \in DOMAIN i.files} : i \in ToSet(snap.items)})
    \cup {UnitPath(Append(t.name, "timer")) : t \in ToSet(snap.systemd_timers)}

\* What the scan before a push objects to in a rendering is a comment, a harmless
\* word, a mark that a keyword before it matches, or in a section the redaction
\* passes over: never a secret the redaction was to replace.
ScanAgreesWithRedaction ==
    Drawn =>
        /\ \A p \in DOMAIN tree.config \ NotRedacted :
            \A match \in Objections(tree.config[p]) : match[1] # "secret"
        /\ \A p \in DOMAIN tree.quadlet :
            \A match \in Objections(tree.quadlet[p]) : match[1] # "secret"

\* What the patterns match in the texts the redaction reads.
Unsettled(s) ==
    (UNION {Matching(x.text) : x \in UNION {ToSet(s[section]) : section \in
                {"config", "firewall_zones", "quadlet_units", "snippets", "env_files"}}})
    \cup (UNION {Matching(x.service_content) :
                    x \in ToSet(s.generated_timer_units) \cup ToSet(s.systemd_timers)})
    \cup (UNION {Matching(x.command) : x \in ToSet(s.generated_timer_units)})

\* Renderings of an unedited page settle: each leaves of the marks that were matched
\* marks with one keyword less, and one that matches none redacts and notes
\* nothing and changes neither files nor Containerfile (yoinkc-refine renders snapshots
\* of earlier renderings).
RerenderSettles ==
    [][Rerender /\ phase = "page" =>
        /\ Unsettled(snap') \subseteq {Mark(match) : match \in Unsettled(snap)}
        /\ Unsettled(snap) = {} => UNCHANGED <<snap, tree, program>>]_migrationVars
=============================================================================
