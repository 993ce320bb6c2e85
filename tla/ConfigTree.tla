----------------------------- MODULE ConfigTree -----------------------------
(***************************************************************************)
(* The directories config/ and quadlet/ of the output, as                  *)
(* _write_config_tree() of renderers/containerfile.py writes them: section *)
(* after section, a later file in place of an earlier one of its path.     *)
(***************************************************************************)
EXTENDS Accounts

QuadletDir == "containers/systemd"

\* _dhcp_connection_paths(): every profile that is not static.
DhcpConnectionPaths(snap) ==
    {c.path : c \in {c \in ToSet(snap.connections) : c.method # "static"}}

StaticPaths(snap) == {c.path : c \in {c \in ToSet(snap.connections) : c.method = "static"}}

File(path, text) == [path |-> path, text |-> text]

Files(items) == LET kept == Kept(items)
                IN  [i \in DOMAIN kept |-> File(kept[i].path, kept[i].text)]

\* Fault: profiles of any method are baked in.
EveryConfigFile(snap) ==
    Files(Select(snap.config, LAMBDA f : ~(f.path.top = "etc" /\ f.path.dir = QuadletDir)))

ConfigFiles(snap) ==
    Files(Select(snap.config,
        LAMBDA f : /\ f.path \notin DhcpConnectionPaths(snap)
                   /\ ~(f.path.top = "etc" /\ f.path.dir = QuadletDir)))

DirectXml(snap) ==
    LET rules == Kept(snap.direct_rules)
    IN  IF rules = <<>> THEN <<>>
        ELSE <<File(Path("etc", "firewalld", <<"direct", "xml">>),
                    Text(<<"direct">> \o [i \in DOMAIN rules |-> rules[i].rule], {}))>>

\* The pair of a timer, each file if there is a text for it.
TimerFiles(timers) ==
    FlattenSeq([i \in DOMAIN timers |->
        LET t == timers[i]
            file(suffix, text) == IF text = NoText THEN <<>>
                                  ELSE <<File(UnitPath(Append(t.name, suffix)), text)>>
        IN  file("timer", t.timer_content) \o file("service", t.service_content)])

\* The files of a project, or a single file if it has a text.
SoftwareFiles(snap) ==
    LET kept == Kept(snap.items)
    IN  FlattenSeq([i \in DOMAIN kept |->
            IF kept[i].files # <<>>
            THEN [j \in DOMAIN kept[i].files |->
                    File(InDir(kept[i].path, <<kept[i].files[j].name>>), kept[i].files[j].text)]
            ELSE IF kept[i].content # NoText THEN <<File(kept[i].path, kept[i].content)>>
            ELSE <<>>])

Generated(path, word, lines) ==
    IF lines = <<>> THEN <<>> ELSE <<File(path, Text(<<word>> \o lines, {}))>>

Names(accounts) == [i \in DOMAIN accounts |-> accounts[i].name]

SysusersConf == Path("usr", "lib/sysusers.d", <<"yoinkc-users", "conf">>)
Tmpfiles(name) == Path("etc", "tmpfiles.d", <<name, "conf">>)

\* With the homes of the users who have one.
SysusersFiles(snap) ==
    Generated(SysusersConf, "sysusers", Names(Sysusers(snap).groups) \o Names(Sysusers(snap).users))
    \o Generated(Tmpfiles("yoinkc-sysusers-homes"), "homes",
                 Names(Select(Sysusers(snap).users, LAMBDA u : u.home # "none")))

SysctlPath == Path("etc", "sysctl.d", <<"99-yoinkc", "conf">>)

SysctlConf(snap) ==
    LET kept == Kept(snap.sysctl_overrides)
    IN  Generated(SysctlPath, "sysctl", [i \in DOMAIN kept |-> kept[i].key])

\* _operator_kargs(): neither the boot loader's nor what a shell would take apart.
OperatorKargs(cmdline) == Select(cmdline, LAMBDA k : ~k.bootloader /\ k.safe)

KargsToml == Path("usr", "lib/bootc/kargs.d", <<"yoinkc-migrated", "toml">>)

Kargs(snap) ==
    LET kargs == OperatorKargs(snap.cmdline)
    IN  Generated(KargsToml, "kargs", [i \in DOMAIN kargs |-> kargs[i].arg])

\* Homes of the first users, or an example.
MaxHomes == 20

VarTmpfiles(snap) ==
    LET first == Kept(SubSeq(snap.users, 1, IF Len(snap.users) < MaxHomes THEN Len(snap.users)
                                                                          ELSE MaxHomes))
    IN  <<File(Tmpfiles("yoinkc-var"),
               Text(<<"var">> \o (IF first = <<>> THEN <<"app">> ELSE Names(first)), {}))>>

\* A directory of files by path; an earlier write of a path is lost.
LastOf(files, path) ==
    CHOOSE i \in DOMAIN files :
        files[i].path = path /\ \A j \in DOMAIN files : files[j].path = path => j <= i

Written(files) ==
    [p \in {files[i].path : i \in DOMAIN files} |-> files[LastOf(files, p)].text]

\* Fault: the empty profile replaces the captured one.
EmptyProfiles(snap, before) == StaticPaths(snap)

\* A static profile is created empty unless its file was captured.
MissingProfiles(snap, before) ==
    {p \in StaticPaths(snap) : \A i \in DOMAIN before : before[i].path # p}

\* _write_config_tree(), config/
WriteConfigTree(snap) ==
    LET before == ConfigFiles(snap) \o Files(snap.repo_files) \o Files(snap.gpg_keys)
                  \o Files(snap.firewall_zones) \o DirectXml(snap)
        profiles == SetToSeq(MissingProfiles(snap, before))
    IN  Written(before
                \o [i \in DOMAIN profiles |-> File(profiles[i], NoText)]
                \o Files(snap.tuned_profiles) \o Files(snap.drop_ins)
                \o TimerFiles(Kept(snap.generated_timer_units))
                \o TimerFiles(snap.systemd_timers)
                \o Files(snap.env_files) \o SoftwareFiles(snap)
                \o SysusersFiles(snap) \o Files(snap.snippets) \o SysctlConf(snap)
                \o Kargs(snap) \o VarTmpfiles(snap))

\* quadlet/, by the unit's name alone.
WriteQuadlets(snap) ==
    LET units == Select(Kept(snap.quadlet_units), LAMBDA u : u.text # NoText)
    IN  Written([i \in DOMAIN units |->
                    File(Path("etc", QuadletDir, units[i].path.name), units[i].text)])
=============================================================================
