------------------------------ MODULE Snapshot ------------------------------
(***************************************************************************)
(* The inspection snapshot (schema.py): what the inspectors of files,      *)
(* units, jobs and accounts put into it, and the renderers and the page    *)
(* read from it. Packages have modules of their own (Packages, FleetMerge).*)
(*                                                                         *)
(* A path is the top directory, the rest of the directories, and the name, *)
(* a tuple whose last member is the suffix. Of a text is kept whose it is  *)
(* and what the patterns of redact.py match in it, each with a number: a   *)
(* "secret" after n keywords of other patterns, the "mark" of one that was *)
(* redacted, the same on a "comment" line, or a "harmless" word after      *)
(* password. 'token: Bearer ...' is a secret after one keyword.            *)
(***************************************************************************)
EXTENDS Naturals, FiniteSets, SequencesExt

CONSTANT None       \* Python's None

Path(top, dir, name) == [top |-> top, dir |-> dir, name |-> name]
Text(of, holds)      == [of |-> of, holds |-> holds]
NoText               == Text(<<>>, {})

Suffix(path) == Last(path.name)

\* A text is a list of parts.
IsText(text) == /\ Len(text.of) \in Nat
                /\ text.of = [i \in 1..Len(text.of) |-> text.of[i]]
                /\ text.holds \subseteq {"secret", "mark", "comment", "harmless"} \X Nat

\* A path has its three parts, and a name.
IsPath(path) == /\ path = Path(path.top, path.dir, path.name)
                /\ path.name \in Seq(ToSet(path.name)) \ {<<>>}

\* A file in a directory that is a path.
InDir(path, name) == [path EXCEPT !.name = @ \o name]

UnitDir == "systemd/system"

\* Where a unit of the administrator is.
UnitPath(unit) == Path("etc", UnitDir, unit)

\* The elements of a list at places, in its order; and those that pass a test.
Picked(list, places) ==
    [i \in 1..Cardinality(places) |->
        list[CHOOSE n \in places : Cardinality({m \in places : m <= n}) = i]]

Select(list, Test(_)) == Picked(list, {n \in DOMAIN list : Test(list[n])})

\* An item of a section: a file with its text and its checkbox.
Item(path, text) == [path |-> path, text |-> text, include |-> TRUE]

Kept(items) == Select(items, LAMBDA i : i.include)

ConfigFileEntry(path, kind, text) ==
    [path |-> path, text |-> text, include |-> TRUE, kind |-> kind]

ServiceStateChange(state, default, action, owner) ==
    [current_state |-> state, default_state |-> default, action |-> action,
     owning_package |-> owner]

NMConnection(path, method) == [path |-> path, method |-> method]

\* A timer and the service it starts; name is without suffix.
SystemdTimer(name, source, timer, service) ==
    [name |-> name, source |-> source, timer_content |-> timer, service_content |-> service]

GeneratedTimerUnit(name, timer, service, command) ==
    [name |-> name, timer_content |-> timer, service_content |-> service,
     command |-> command, include |-> TRUE]

\* files: the lock files of a project, by name; content: a single file's text; pip:
\* whether pip can install it again.
NonRpmItem(path, method, confidence, files, content, pip) ==
    [path |-> path, method |-> method, confidence |-> confidence, files |-> files,
     content |-> content, pip |-> pip, include |-> TRUE]

EmptySnapshot ==
    [packages |-> <<>>, config |-> <<>>, repo_files |-> <<>>, gpg_keys |-> <<>>,
     state_changes |-> [u \in {} |-> None], enabled_units |-> {}, disabled_units |-> {}, drop_ins |-> <<>>,
     connections |-> <<>>, firewall_zones |-> <<>>, direct_rules |-> <<>>,
     generated_timer_units |-> <<>>, systemd_timers |-> <<>>,
     quadlet_units |-> <<>>, items |-> <<>>, env_files |-> <<>>,
     snippets |-> <<>>, tuned_profiles |-> <<>>, sysctl_overrides |-> <<>>, cmdline |-> <<>>,
     users |-> <<>>, groups |-> <<>>, shadow_entries |-> <<>>, redactions |-> <<>>]
=============================================================================
