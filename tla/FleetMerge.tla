----------------------------- MODULE FleetMerge -----------------------------
(***************************************************************************)
(* yoinkc-fleet aggregate: snapshots of several hosts, gathered in one     *)
(* directory, merged into one snapshot by prevalence (fleet/loader.py,     *)
(* fleet/merge.py). Hosts are inspected again, files come and go, and the  *)
(* merge is repeated with other thresholds and other output paths.         *)
(*                                                                         *)
(* Two lists stand for all of a snapshot's: packages, which are merged by  *)
(* identity alone, and files, of which every content is an item. A list is *)
(* the set of its items; that a host has two items of one identity (two    *)
(* architectures, three kernels) is what it has to tell apart.             *)
(***************************************************************************)
EXTENDS Naturals, FiniteSets

CONSTANTS
    Files,          \* names in the directory, as numbers in their sorted order
    Default,        \* fleet-snapshot.json, the default output
    Snapshots,      \* what an inspection can leave in the directory
    Thresholds,     \* --min-prevalence
    NoFile, Spoilt, \* no such file; one that does not load
    NoRelease,      \* a snapshot without os_release
    NoBaseImage,    \* a snapshot that names no base image
    NoMerge

Items(list) == UNION {s[list] : s \in Snapshots}

ASSUME FleetAssumption ==
    /\ Files \subseteq Nat /\ IsFiniteSet(Files) /\ Default \in Files
    /\ Thresholds \subseteq 1..100
    /\ \A s \in Snapshots, list \in {"packages", "files"} :
        IsFiniteSet(s[list]) /\ \A x \in s[list] : DOMAIN x = {"key", "variant"}
    /\ \A s \in Snapshots : ~s.merged
    /\ \A s \in Snapshots : ~s.rpm => s.packages = {} /\ s.base = NoBaseImage /\ ~s.noBaseline
    /\ \A s \in Snapshots : \A x, y \in s.files : x.key = y.key => x = y

VARIABLES
    dir,    \* the input directory
    last    \* what the last aggregate merged, while the directory has not changed

fleetVars == <<dir, last>>

\* Fault: its own output is not skipped.
LoadedWithDefault == {f \in Files : dir[f] \notin {NoFile, Spoilt}}

\* discover_snapshots(): an earlier output under the default name is skipped,
\* and so is what does not load.
Loaded == {f \in Files \ {Default} : dir[f] \notin {NoFile, Spoilt}}

\* validate_snapshots(). Schema version and os_release are one here.
Compatible ==
    /\ Cardinality(Loaded) >= 2
    /\ \A f \in Loaded : dir[f].release # NoRelease
    /\ \A f, g \in Loaded : dir[f].release = dir[g].release
    /\ \A f, g \in Loaded : dir[f].base = dir[g].base \/ NoBaseImage \in {dir[f].base, dir[g].base}
-----------------------------------------------------------------------------
(***************************************************************************)
(* merge_snapshots()                                                       *)
(***************************************************************************)

\* Faults: a share of exactly the threshold is left out; a snapshot is
\* compared with the others only.
AboveThreshold(count, total, min) == count * 100 > min * total
OfTheOthers(count, total, min) == count * 100 >= min * (total - 1)

\* _prevalence_include()
PrevalenceInclude(count, total, min) == count * 100 >= min * total

\* An item of a list, with the file it comes from.
Occurrences(list) == UNION {{<<f, x>> : x \in dir[f][list]} : f \in Loaded}

\* Packages are identified by their key, files by key and content.
Same(list, x, y) == x.key = y.key /\ (list = "files" => x.variant = y.variant)

\* The items counted as one with x.
Sightings(list, x) == {o \in Occurrences(list) : Same(list, o[2], x)}

\* Fault: entries of one identity are kept apart.
FirstOfItself(list, x) ==
    CHOOSE o \in Sightings(list, x) :
        o[2] = x /\ \A q \in Sightings(list, x) : q[2] = x => o[1] <= q[1]

\* The merged entry has its values from the first of them. In what order a
\* host lists items of one identity is not known.
FirstSeen(list, x) ==
    CHOOSE o \in Sightings(list, x) : \A q \in Sightings(list, x) : o[1] <= q[1]

Entry(list, x, min) ==
    LET count == Cardinality(Sightings(list, x))
    IN  [item    |-> FirstSeen(list, x)[2],
         count   |-> count,
         hosts   |-> {dir[o[1]].host : o \in Sightings(list, x)},
         include |-> PrevalenceInclude(count, Cardinality(Loaded), min)]

\* Fault: what is below the threshold is left out of the list.
MergedAbove(list, min) ==
    {e \in {Entry(list, o[2], min) : o \in Occurrences(list)} : e.include}

\* _merge_identity_items(), _merge_content_items()
Merged(list, min) == {Entry(list, o[2], min) : o \in Occurrences(list)}

FirstOf(files) == CHOOSE f \in files : \A g \in files : f <= g

\* What the first snapshot with an rpm section says of the baseline.
WithRpm == {f \in Loaded : dir[f].rpm}
Baseline ==
    IF WithRpm = {} THEN [rpm |-> FALSE, image |-> NoBaseImage, none |-> FALSE]
    ELSE [rpm |-> TRUE, image |-> dir[FirstOf(WithRpm)].base, none |-> dir[FirstOf(WithRpm)].noBaseline]

MergeSnapshots(min) ==
    [min |-> min, total |-> Cardinality(Loaded), baseline |-> Baseline,
     packages |-> Merged("packages", min), files |-> Merged("files", min)]

\* The merged snapshot as a file: prevalence and include of an input are not
\* looked at by the next merge.
AsSnapshot(m) ==
    [host |-> "fleet", merged |-> TRUE, release |-> dir[FirstOf(Loaded)].release,
     rpm |-> m.baseline.rpm, base |-> m.baseline.image, noBaseline |-> m.baseline.none,
     packages |-> {e.item : e \in m.packages}, files |-> {e.item : e \in m.files}]
-----------------------------------------------------------------------------
FleetInit == dir = [f \in Files |-> NoFile] /\ last = NoMerge

\* A host's tarball, or something that is none, comes into the directory.
Gather ==
    /\ \E f \in Files \ {Default}, s \in Snapshots \cup {Spoilt} :
        dir[f] = NoFile /\ dir' = [dir EXCEPT ![f] = s]
    /\ last' = NoMerge

Discard ==
    /\ \E f \in Files : dir[f] # NoFile /\ dir' = [dir EXCEPT ![f] = NoFile]
    /\ last' = NoMerge

\* The default output, or -o FILE: elsewhere, or in the directory under
\* another name.
Aggregate ==
    /\ Compatible
    /\ \E merged \in {MergeSnapshots(min) : min \in Thresholds} :
        /\ last' = merged
        /\ \/ UNCHANGED dir
           \/ \E f \in Files :
                /\ f = Default \/ dir[f] = NoFile
                /\ dir' = [dir EXCEPT ![f] = AsSnapshot(merged)]

FleetNext == Gather \/ Discard \/ Aggregate

FleetSpec == FleetInit /\ [][FleetNext]_fleetVars
-----------------------------------------------------------------------------
(***************************************************************************)
(* Properties                                                              *)
(***************************************************************************)

\* The snapshots the hosts left, and an output of yoinkc-fleet among them.
Own == {f \in Files : dir[f] \notin {NoFile, Spoilt} /\ ~dir[f].merged}
Contaminated ==
    \E f \in Files \ {Default} : dir[f] \notin {NoFile, Spoilt} /\ dir[f].merged

Entries(list) == [item : Items(list), count : Nat, hosts : SUBSET ({s.host : s \in Snapshots} \cup {"fleet"}),
                  include : BOOLEAN]

\* One entry for each identity, counted at least once and at each host once.
FleetTypeOK ==
    /\ DOMAIN dir = Files
    /\ \A f \in Files : dir[f] \notin Snapshots \cup {NoFile, Spoilt} =>
        /\ dir[f].merged
        /\ \A list \in {"packages", "files"} : dir[f][list] \subseteq Items(list)
    /\ last # NoMerge =>
        /\ last.min \in Thresholds
        /\ \A list \in {"packages", "files"} :
            /\ last[list] \subseteq Entries(list)
            /\ \A e \in last[list] : e.count >= Cardinality(e.hosts) /\ e.hosts # {}
            /\ \A d, e \in last[list] : Same(list, d.item, e.item) => d = e

\* The snapshots with an item, and the hosts they were taken on. A host that was
\* inspected twice has two snapshots in the directory: that is warned of.
Holders(list, x) == {f \in Own : \E y \in dir[f][list] : Same(list, x, y)}

Hosts(files) == {dir[f].host : f \in files}
OneSnapshotEach == \A f, g \in Own : dir[f].host = dir[g].host => f = g

Reaches(some, all, min) == 100 * Cardinality(some) >= min * Cardinality(all)

\* A file content is included if and only if the snapshots that have it are at
\* least the share asked for of the snapshots in the directory, and of the
\* hosts if each has one snapshot there - outputs of earlier merges, unreadable
\* files and repeated merges notwithstanding, as long as no output went into
\* the directory under a name of its own. (The design counts hosts: "count
\* prevalence (how many hosts have it)".)
FilePrevalence ==
    (last # NoMerge /\ ~Contaminated) =>
        /\ \A e \in last.files : e.include = Reaches(Holders("files", e.item), Own, last.min)
        /\ OneSnapshotEach =>
            \A e \in last.files :
                e.include = Reaches(Hosts(Holders("files", e.item)), Hosts(Own), last.min)

\* --min-prevalence counts a package once wherever it is installed, as the help
\* and the design say of every item.
PackagePrevalence ==
    (last # NoMerge /\ ~Contaminated) =>
        \A e \in last.packages : e.include = Reaches(Holders("packages", e.item), Own, last.min)

\* Above one half, at most one content of a path is included: the config
\* tree, where contents of one path replace each other, has nothing to
\* choose.
OneContentIncluded ==
    (last # NoMerge /\ last.min > 50 /\ ~Contaminated) =>
        \A d, e \in last.files : (d.include /\ e.include /\ d.item.key = e.item.key) => d = e

\* The merge is a union: what any host has is in it, included or not, and
\* told of each host that has it.
NothingLost ==
    (last # NoMerge /\ ~Contaminated) =>
        \A list \in {"packages", "files"} : \A f \in Own : \A x \in dir[f][list] :
            \E e \in last[list] : Same(list, e.item, x) /\ dir[f].host \in e.hosts

\* The output of a merge is no input of the next: repeated over the same
\* tarballs, with the same threshold, it comes to the same.
AggregateRepeats ==
    [][(last # NoMerge /\ last' # NoMerge /\ last'.min = last.min /\ ~Contaminated)
        => last' = last]_fleetVars
=============================================================================
