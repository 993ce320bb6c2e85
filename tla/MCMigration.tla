----------------------------- MODULE MCMigration ----------------------------
(* Hosts with a few units, jobs, files, projects or accounts each, every   *)
(* kind in the combinations that matter for it; a plain host has a package *)
(* of the base image and one of its own.                                   *)
EXTENDS MigrationProperties

Plain ==
    [packages |-> <<"openssh", "httpd">>, base |-> {"openssh"}, removed |-> {}, asks |-> {},
     files |-> <<>>, units |-> [u \in {} |-> None], crontabs |-> [p \in {} |-> <<>>],
     base_presets |-> <<>>, etc_presets |-> <<>>, usr_presets |-> <<>>,
     methods |-> [p \in {} |-> None], direct |-> <<>>, gpgkeys |-> {}, sysctl |-> <<>>,
     cmdline |-> <<>>, apps |-> <<>>, dists |-> <<>>, users |-> <<>>, groups |-> <<>>, shadow |-> <<>>,
     base_gids |-> {0, 100}]

HostFile(path, owner, modified, holds) ==
    [path |-> path, owner |-> owner, modified |-> modified, decodes |-> TRUE,
     text |-> Text(<<"of", path>>, holds)]

\* What a text can hold: a secret, one after a keyword or two, and what is spared.
Secret   == <<"secret", 0>>
Wrapped  == <<"secret", 1>>
Twice    == <<"secret", 2>>
Comment  == <<"comment", 0>>
Harmless == <<"harmless", 0>>

Local(path, holds) == HostFile(path, None, FALSE, holds)
-----------------------------------------------------------------------------
(* Units: one of a package, one of the base image, a local service and a   *)
(* local timer with its service, against presets of up to two rules.       *)

Web   == <<"httpd", "service">>
Sshd  == <<"sshd", "service">>
Agent == <<"agent", "service">>
JobT  == <<"job", "timer">>
JobS  == <<"job", "service">>

Rule(action, glob, units) ==
    [action |-> action, glob |-> glob, all |-> FALSE, units |-> units]

DisableAll == [action |-> "disable", glob |-> TRUE, all |-> TRUE, units |-> {}]

PresetTexts ==
    {<<DisableAll>>,
     <<Rule("enable", FALSE, {Web}), Rule("enable", FALSE, {Sshd}), DisableAll>>,
     <<Rule("disable", TRUE, {Web}), Rule("enable", FALSE, {Web})>>,
     <<Rule("enable", TRUE, {Web, Sshd}), Rule("disable", TRUE, {Web}), DisableAll>>,
     <<Rule("enable", TRUE, {JobT, JobS, Agent}), Rule("disable", FALSE, {Sshd})>>}

LocalUnits(agent, job) ==
    (IF agent = None THEN {} ELSE {Agent}) \cup (IF job = None THEN {} ELSE {JobT, JobS})

UnitHost(web, sshd, agent, job, presets) ==
    [Plain EXCEPT
        !.asks = {"presets", "systemctl", "owners"},
        !.base_presets = presets,
        !.etc_presets = <<Rule("enable", FALSE, {Web})>>,
        !.usr_presets = <<DisableAll>>,
        !.units = [u \in {Web, Sshd} \cup LocalUnits(agent, job) |->
            CASE u = Web   -> [state |-> web, owner |-> "httpd"]
              [] u = Sshd  -> [state |-> sshd, owner |-> "openssh"]
              [] u = Agent -> [state |-> agent, owner |-> None]
              [] u = JobT  -> [state |-> job, owner |-> None]
              [] u = JobS  -> [state |-> "static", owner |-> None]],
        !.files = (IF agent = None THEN <<>> ELSE <<Local(UnitPath(Agent), {})>>)
                  \o (IF job = None THEN <<>>
                      ELSE <<Local(UnitPath(JobT), {}), Local(UnitPath(JobS), {Secret})>>)]

UnitHosts ==
    {UnitHost(web, sshd, agent, job, presets) :
        web \in {"enabled", "disabled", "masked"}, sshd \in {"enabled", "disabled", "static"},
        agent \in {None, "enabled", "disabled"}, job \in {None, "enabled", "disabled"},
        presets \in PresetTexts}
    \cup
    {[UnitHost("enabled", "enabled", None, "enabled", <<DisableAll>>) EXCEPT
        !.units[JobS] = [state |-> "enabled", owner |-> "httpd"]],
     [UnitHost("enabled", "enabled", None, None, <<DisableAll>>) EXCEPT
        !.packages = <<"httpd">>, !.asks = {}]}
-----------------------------------------------------------------------------
(* Jobs: a line with each form in each place, files with two lines, with a *)
(* shortcut, of a package, of a user, one that cannot be decoded, and a    *)
(* script of each period.                                                  *)

Forms == {"*", "n", "a,b", "a-b", "*/n", "a-b/n", "a,b-c", "a-b,c-d"}

Line(job, fields) == [job |-> job, shortcut |-> FALSE, fields |-> fields]
Nightly(job)      == Line(job, <<"n", "n", "*", "*", "*">>)

CronFile(top, dir, name) == Path(top, dir, name)
CronD   == CronFile("etc", "cron.d", <<"backup">>)
OfDaily == CronFile("etc", "cron.d", <<"daily", "rotate">>)
Crontab == CronFile("etc", "crontab", <<"crontab">>)
Spool   == CronFile("var", "spool/cron", <<"backup">>)
Daily   == CronFile("etc", "cron.daily", <<"rotate">>)
Hourly  == CronFile("etc", "cron.hourly", <<"rotate">>)
BackupT == UnitPath(<<"cron", "backup", "timer">>)
Monthly == CronFile("etc", "cron.monthly", <<"rotate">>)

CronHost(files, tables, asks) ==
    [Plain EXCEPT !.files = files, !.crontabs = tables, !.asks = asks]

OneLine(fields) ==
    CronHost(<<Local(CronD, {Secret})>>, (CronD :> <<Line("dump", fields)>>), {})

CronHosts ==
    {OneLine([<<"n", "n", "*", "*", "*">> EXCEPT ![i] = form]) : i \in 1..5, form \in Forms}
    \cup {OneLine(<<"n", "n", "n", "*", "a,b">>)}
    \cup
    {CronHost(<<Local(CronD, {}), Local(BackupT, {}), Local(Path("etc", "tmpfiles.d", <<"yoinkc-var", "conf">>), {})>>,
              (CronD :> <<Nightly("dump")>>), {})}
    \cup
    {CronHost(<<[Local(CronD, {Secret}) EXCEPT !.decodes = FALSE], Local(Spool, {})>>,
              (CronD :> <<Nightly("dump")>>) @@ (Spool :> <<Nightly("fetch")>>), {})}
    \cup
    {CronHost(<<Local(Crontab, {}), Local(OfDaily, {}), Local(CronD, {}), Local(Spool, {Secret}),
                HostFile(Daily, owner, FALSE, {}), Local(Hourly, {}), Local(Monthly, {})>>,
              (Crontab :> <<Nightly("check")>>) @@ (OfDaily :> <<Nightly("clean")>>)
              @@ (CronD :> lines) @@ (Spool :> <<Nightly(own)>>), {"paths"}) :
        owner \in {None, "httpd"}, own \in {"", "fetch"},
        lines \in {<<Nightly("dump")>>, <<Nightly("dump"), Nightly("send")>>, <<Nightly("")>>,
                   <<[job |-> "dump", shortcut |-> TRUE, fields |-> <<>>]>>}}
-----------------------------------------------------------------------------
(* Files: those several inspectors take, of several owners and texts; a    *)
(* keystore and a database cannot be decoded.                              *)

Conf      == Path("etc", "", <<"site", "conf">>)
Owned1    == Path("etc", "", <<"httpd", "conf">>)
PrivKey   == Path("etc", "pki/tls/private", <<"site", "key">>)
Keystore  == Path("etc", "pki/tls", <<"site", "jks">>)
Database  == Path("etc", "pki/nssdb", <<"cert", "db">>)
Shadow    == Path("etc", "", <<"shadow">>)
Leftover  == Path("etc", "modprobe.d", <<"oldpkg", "blacklist", "conf">>)
Blacklist == Path("etc", "modprobe.d", <<"usb", "blacklist", "conf">>)
Snippet   == Path("etc", "modprobe.d", <<"disk", "conf">>)
Repo      == Path("etc", "yum.repos.d", <<"epel", "repo">>)
RepoKey   == Path("etc", "pki/rpm-gpg", <<"epel">>)
DnfConf   == Path("etc", "dnf", <<"generated", "conf">>)
Zone      == Path("etc", "firewalld/zones", <<"public", "xml">>)
DirectF   == Path("etc", "firewalld", <<"direct", "xml">>)
Profile   == Path("etc", "NetworkManager/system-connections", <<"eth0", "nmconnection">>)
Ifcfg     == Path("etc", "sysconfig/network-scripts", <<"ifcfg-eth1">>)
DropIn    == Path("etc", "systemd/system/*.d", <<"httpd", "limits", "conf">>)
Tuned     == Path("etc", "tuned/*", <<"mine", "conf">>)
Script    == Path("etc", "tuned/*", <<"mine", "sh">>)
Backup    == Path("etc", "NetworkManager/system-connections", <<"eth0", "bak">>)
Quadlet   == Path("etc", "containers/systemd", <<"db", "container">>)
QuadConf  == Path("etc", "containers/systemd", <<"db", "env">>)
UserQuad  == Path("home", ".config/containers/systemd", <<"db", "container">>)
EnvFile   == Path("opt", "app", <<"env">>)
Sysctl    == Path("etc", "sysctl.d", <<"99-yoinkc", "conf">>)
UsrConf   == Path("usr", "lib/httpd", <<"httpd", "conf">>)

Groups3 ==
    {<<Conf, PrivKey, Keystore, Leftover, Blacklist, Snippet, Tuned, Script>>,
     <<Repo, RepoKey, DnfConf, Sysctl, EnvFile>>,
     <<Zone, DirectF, Profile, Backup, Ifcfg, DropIn>>,
     <<Quadlet, QuadConf, UserQuad, DropIn, Conf>>}

FileHost(paths, holds, method, direct) ==
    [Plain EXCEPT
        !.asks = {"paths"}, !.removed = {"oldpkg"},
        !.units = (Web :> [state |-> "enabled", owner |-> "httpd"]),
        !.files = [i \in DOMAIN paths |->
                    [Local(paths[i], holds) EXCEPT !.decodes = paths[i] # Keystore]]
                  \o <<[HostFile(Database, "nss", TRUE, holds) EXCEPT !.decodes = FALSE],
                       HostFile(Owned1, "httpd", TRUE, holds),
                       HostFile(Path("etc", "", <<"plain", "conf">>), "httpd", FALSE, {}),
                       HostFile(UsrConf, "httpd", TRUE, {}),
                       HostFile(Shadow, "setup", TRUE, {})>>,
        !.methods = [p \in ToSet(paths) |-> IF p = Ifcfg THEN None ELSE method],
        !.direct = direct, !.gpgkeys = {RepoKey},
        !.sysctl = <<[name |-> "vm.swap", proc |-> "1", set |-> None, shipped |-> "0"],
                     [name |-> "vm.same", proc |-> None, set |-> None, shipped |-> "0"]>>,
        !.cmdline = <<[arg |-> "root", bootloader |-> TRUE, safe |-> TRUE],
                      [arg |-> "nosmt", bootloader |-> FALSE, safe |-> TRUE],
                      [arg |-> "odd", bootloader |-> FALSE, safe |-> FALSE]>>]

FileHosts ==
    {FileHost(paths, holds, method, direct) :
        paths \in Groups3, holds \in {{}, {Secret}, {Comment, Twice}, {Wrapped, Harmless, Secret}},
        method \in {"manual", "auto", "disabled"}, direct \in {<<>>, <<"log", "drop">>}}
-----------------------------------------------------------------------------
(* Projects under /opt: every combination of what is found in one, and     *)
(* another inside it; projects under /srv and /usr/local, next to packages *)
(* of the system's Python.                                                 *)

App  == Path("opt", "", <<"app">>)
Part == Path("opt", "", <<"app", "web">>)
Dist == Path("usr", "lib/python3", <<"requests", "dist-info">>)

Lock(name)  == [name |-> name, text |-> Text(<<"lock", name>>, {})]
NoLocks     == <<>>
ProjectText == Text(<<"requirements">>, {Secret})

Project(path, git, venv, binary, locks, requirements) ==
    [path |-> path, nested |-> FALSE, git |-> git, venv |-> venv # "none", pips |-> venv = "full",
     binary |-> binary, locks |-> locks, requirements |-> requirements]

Inner == [Project(Part, FALSE, "none", "none", <<Lock("yarn.lock")>>, None) EXCEPT !.nested = TRUE]

AppHosts ==
    {[Plain EXCEPT !.apps = <<Project(App, git, venv, binary, locks, requirements), Inner>>,
                   !.packages = packages] :
        git \in BOOLEAN, venv \in {"none", "empty", "full"}, binary \in {"none", "version", "elf"},
        locks \in {NoLocks, <<Lock("package-lock.json")>>, <<Lock("Gemfile.lock")>>,
                   <<Lock("package-lock.json"), Lock("yarn.lock")>>},
        requirements \in {None, NoText, ProjectText},
        packages \in {<<"openssh", "httpd">>, <<"nodejs", "yarn">>,
                      <<"openssh", "npm", "bundler", "yarn", "python3">>}}
    \cup
    {[Plain EXCEPT !.apps = <<Project(path, git, venv, "none", locks, requirements)>>,
                   !.dists = dists, !.packages = packages] :
        path \in {Path("srv", "", <<"app">>), Path("usr", "local", <<"app">>)},
        git \in BOOLEAN, venv \in {"none", "full"},
        locks \in {<<Lock("package.json"), Lock("package-lock.json")>>,
                   <<Lock("Gemfile.lock"), Lock("Gemfile")>>},
        requirements \in {None, ProjectText},
        dists \in {<<>>, <<[path |-> Dist, pips |-> TRUE]>>, <<[path |-> Dist, pips |-> FALSE]>>},
        packages \in {<<"openssh", "nodejs">>, <<"openssh", "bundler", "python3">>}}
-----------------------------------------------------------------------------
(* Accounts: two users who share a group or not, in or out of the ranges.  *)

User(name, uid, gid, shell, home) ==
    [name |-> name, uid |-> uid, gid |-> gid, shell |-> shell, home |-> home]

Shapes == {<<"nologin", "service">>, <<"real", "home">>, <<"real", "service">>, <<"other", "none">>,
           <<"other", "home">>}

AccountHosts ==
    {[Plain EXCEPT
        !.users = <<User("root", 0, 0, "real", "other"),
                    User("ann", 1000, 1000, a[1], a[2]), User("bob", 1001, gid, b[1], b[2])>>,
        !.groups = <<[name |-> "root", gid |-> 0], [name |-> "ann", gid |-> 1000],
                     [name |-> "team", gid |-> 1002]>>,
        !.shadow = <<[name |-> "root", hash |-> "hash"], [name |-> "ann", hash |-> "hash"],
                     [name |-> "bob", hash |-> "locked"]>>] :
        a \in Shapes, b \in Shapes, gid \in {1000, 100, 990}}
-----------------------------------------------------------------------------
MCHosts == UnitHosts \cup CronHosts \cup FileHosts \cup AppHosts \cup AccountHosts

MCOverrides == Strategies \cup {None}
=============================================================================
