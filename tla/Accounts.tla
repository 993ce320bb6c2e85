------------------------------ MODULE Accounts ------------------------------
(***************************************************************************)
(* Users and groups: the inspector (inspectors/users_groups.py) gives each *)
(* a strategy, and the renderers create it by that strategy: systemd's     *)
(* sysusers at boot, useradd in the build, the image builder's blueprint   *)
(* or the kickstart file.                                                  *)
(*                                                                         *)
(* A user is [name, uid, gid, shell, home] with shell "nologin", "real" or *)
(* "other", and home "none" (empty), "service" (/var, /opt, /srv), "home"  *)
(* or "other"; a group is [name, gid].                                     *)
(***************************************************************************)
EXTENDS Snapshot

Strategies == {"sysusers", "useradd", "blueprint", "kickstart"}

\* _classify_user()
Classify(user) ==
    LET real == user.shell = "real"
    IN  CASE user.shell = "nologin" \/ user.home = "none" -> "service"
          [] user.shell # "nologin" /\ user.home = "service" ->
                IF real THEN "ambiguous" ELSE "service"
          [] real /\ user.home = "home" -> "human"
          [] OTHER -> "ambiguous"

Default(class) ==
    CASE class = "service"   -> "sysusers"
      [] class = "human"     -> "kickstart"
      [] class = "ambiguous" -> "useradd"

\* Ids of people and services the administrator added.
OwnId(id) == id \in 1000..59999

Strategy(user, override) == IF override # None THEN override ELSE Default(Classify(user))

Users(host, override) ==
    LET own == Select(host.users, LAMBDA u : OwnId(u.uid))
    IN  [i \in DOMAIN own |->
            [name |-> own[i].name, uid |-> own[i].uid, gid |-> own[i].gid,
             home |-> own[i].home, strategy |-> Strategy(own[i], override), include |-> TRUE]]

WithGid(users, gid) == Select(users, LAMBDA u : u.gid = gid)

\* The group of several users follows the first.
GroupStrategy(group, users, override) ==
    CASE override # None -> override
      [] override = None /\ WithGid(users, group.gid) = <<>> -> "sysusers"
      [] OTHER -> WithGid(users, group.gid)[1].strategy

Groups(host, users, override) ==
    LET own == Select(host.groups, LAMBDA g : OwnId(g.gid))
    IN  [i \in DOMAIN own |->
            [name |-> own[i].name, gid |-> own[i].gid,
             strategy |-> GroupStrategy(own[i], users, override), include |-> TRUE]]

\* run(): with --user-strategy as override, or None. A shadow line is
\* [name, hash].
RunUsers(snap, host, override) ==
    LET users == Users(host, override)
    IN  [snap EXCEPT
            !.users  = users,
            !.groups = Groups(host, users, override),
            !.shadow_entries = Select(host.shadow,
                                         LAMBDA s : \E i \in DOMAIN users : users[i].name = s.name)]
-----------------------------------------------------------------------------
(* What the renderers make of a section. *)

By(strategy, accounts) == Select(accounts, LAMBDA a : a.include /\ a.strategy = strategy)

Gids(accounts) == {a.gid : a \in ToSet(accounts)}

\* Fault: a file of users only.
SysusersUsersOnly(snap) == [groups |-> <<>>, users |-> By("sysusers", snap.users)]

\* yoinkc-users.conf of sysusers.d, and yoinkc-users.toml.
Sysusers(snap) ==
    [groups |-> By("sysusers", snap.groups), users |-> By("sysusers", snap.users)]

Blueprint(snap) ==
    [groups |-> By("blueprint", snap.groups), users |-> By("blueprint", snap.users)]

\* The users of the kickstart file; it has no groups.
Kickstart(snap) == By("kickstart", snap.users)

\* Groups are added in the build only next to users.
UseraddGroups(snap) ==
    IF By("useradd", snap.users) = <<>> THEN <<>> ELSE By("useradd", snap.groups)
-----------------------------------------------------------------------------
(* Deployment and first boot (external). *)

Created(users, gids) == Select(users, LAMBDA u : u.gid \in gids)

\* accounts are those of the image. The image builder applies the blueprint, the
\* installer the kickstart, which makes a user's group if need be, and systemd
\* creates at boot what the sysusers file names and has a group for.
Deploy(accounts, snap, sysusers) ==
    LET built     == accounts.gids \cup Gids(Blueprint(snap).groups)
        installed == built \cup Gids(Kickstart(snap))
        booted    == IF sysusers THEN installed \cup Gids(Sysusers(snap).groups) ELSE installed
        users     == Created(Blueprint(snap).users, built) \o Kickstart(snap)
                     \o (IF sysusers THEN Created(Sysusers(snap).users, booted) ELSE <<>>)
    IN  [gids |-> booted, names |-> accounts.names \cup {u.name : u \in ToSet(users)}]
=============================================================================
