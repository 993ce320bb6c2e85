---------------------------- MODULE MCFleetMerge ----------------------------
(* Two hosts, one of them inspected twice, over a package of which a host  *)
(* may have two entries and a file with two contents; snapshots of         *)
(* another base image, without an rpm section and without os_release.      *)
EXTENDS FleetMerge

Item(key, variant) == [key |-> key, variant |-> variant]

Of(host, packages, files) ==
    [host |-> host, merged |-> FALSE, release |-> "9.4", rpm |-> TRUE, base |-> "rhel-bootc:9.6",
     noBaseline |-> FALSE, packages |-> packages, files |-> files]

One  == {Item("glibc", "x86_64")}
Both == {Item("glibc", "x86_64"), Item("glibc", "i686")}

MCSnapshots ==
    {Of("a", One, {Item("motd", 1)}),
     Of("a", {}, {Item("motd", 2)}),
     Of("b", Both, {Item("motd", 1)}),
     [Of("b", {}, {Item("motd", 2)}) EXCEPT !.rpm = FALSE, !.base = NoBaseImage],
     [Of("b", {}, {}) EXCEPT !.base = "rhel-bootc:9.8", !.noBaseline = TRUE],
     [Of("a", {}, {}) EXCEPT !.release = NoRelease]}
=============================================================================
