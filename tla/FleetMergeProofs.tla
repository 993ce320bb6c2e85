-------------------------- MODULE FleetMergeProofs --------------------------
(***************************************************************************)
(* Theorems about yoinkc-fleet, for any directory, any snapshots and any   *)
(* thresholds.                                                             *)
(*                                                                         *)
(* The argument: what is in the directory is a host's snapshot or the      *)
(* output of a merge, and only the latter under the default name (DirInv); *)
(* and as long as no output was written under another name, the last merge *)
(* is what a merge of the directory would be now (LastInv) - so what it    *)
(* counts can be counted in the directory.                                 *)
(***************************************************************************)
EXTENDS FleetMerge, DataInduction

-----------------------------------------------------------------------------
(* The inductive invariant *)

Lists == {"packages", "files"}

HostNames == {s.host : s \in Snapshots} \cup {"fleet"}

\* What is loaded is finite, has the hosts' items, and is a host's snapshot
\* unless it was merged; under the default name it was.
DirInv ==
    /\ \A f \in Files : dir[f] \notin {NoFile, Spoilt} =>
        /\ \A list \in Lists : IsFiniteSet(dir[f][list]) /\ dir[f][list] \subseteq Items(list)
        /\ dir[f].host \in HostNames
        /\ ~dir[f].merged => dir[f] \in Snapshots
    /\ dir[Default] \notin {NoFile, Spoilt} => dir[Default].merged

\* A merge of what is there now comes to what the last one came to.
LastInv ==
    (last # NoMerge /\ ~Contaminated) =>
        /\ Cardinality(Loaded) >= 2 /\ last.min \in Thresholds
        /\ last = MergeSnapshots(last.min)

FleetInv == FleetTypeOK /\ DirInv /\ LastInv
-----------------------------------------------------------------------------
(* What a merge counts *)

\* The items of a list in the files that are loaded.
Gathered(list) == UNION {dir[f][list] : f \in Loaded}

LEMMA LoadedIsFinite ==
    /\ IsFiniteSet(Loaded) /\ Cardinality(Loaded) \in Nat
    /\ \A f \in Loaded : f \in Files /\ f \in Nat /\ dir[f] \notin {NoFile, Spoilt}
<1>1. Loaded \in SUBSET Files
    BY DEF Loaded
<1> QED BY <1>1, FS_Subset, FS_CardinalityType, FleetAssumption DEF Loaded

LEMMA SameIsEquivalence ==
    ASSUME NEW list, NEW x, NEW y, NEW z
    PROVE  /\ Same(list, x, x)
           /\ Same(list, x, y) => Same(list, y, x)
           /\ Same(list, x, y) /\ Same(list, y, z) => Same(list, x, z)
BY DEF Same

LEMMA OccurrencesAre ==
    ASSUME NEW list, NEW o
    PROVE  o \in Occurrences(list) <=> \E f \in Loaded : \E x \in dir[f][list] : o = <<f, x>>
BY DEF Occurrences

\* An item of a loaded file, counted as one with x.
LEMMA SightingsAre ==
    ASSUME NEW list, NEW x
    PROVE  /\ \A o \in Sightings(list, x) :
                /\ o = <<o[1], o[2]>> /\ o[1] \in Loaded /\ o[2] \in dir[o[1]][list]
                /\ Same(list, o[2], x)
           /\ \A f \in Loaded : \A y \in dir[f][list] :
                Same(list, y, x) => <<f, y>> \in Sightings(list, x)
BY OccurrencesAre DEF Sightings

LEMMA GatheredIsFinite ==
    ASSUME DirInv, NEW list \in Lists
    PROVE  IsFiniteSet(Gathered(list)) /\ Gathered(list) \subseteq Items(list)
<1> DEFINE itemsOf == [f \in Loaded |-> dir[f][list]]
           all == {dir[f][list] : f \in Loaded}
<1>1. itemsOf \in Surjection(Loaded, all)
    BY DEF Surjection
<1>2. IsFiniteSet(all)
    <2> HIDE DEF itemsOf, all
    <2> QED BY <1>1, LoadedIsFinite, FS_Surjection
<1>3. \A T \in all : IsFiniteSet(T) /\ T \subseteq Items(list)
    BY LoadedIsFinite DEF DirInv
<1>4. Gathered(list) = UNION all
    BY DEF Gathered
<1> QED BY <1>2, <1>3, <1>4, FS_UNION

LEMMA SightingsAreFinite ==
    ASSUME DirInv, NEW list \in Lists, NEW x
    PROVE  IsFiniteSet(Sightings(list, x)) /\ Cardinality(Sightings(list, x)) \in Nat
<1>1. IsFiniteSet(Loaded \X Gathered(list))
    BY GatheredIsFinite, LoadedIsFinite, FS_Product
<1>2. Sightings(list, x) \in SUBSET (Loaded \X Gathered(list))
    BY SightingsAre DEF Gathered
<1> QED BY <1>1, <1>2, FS_Subset, FS_CardinalityType

\* The first of the sightings is one of them.
First(sightings) == CHOOSE o \in sightings : \A q \in sightings : o[1] <= q[1]

LEMMA FirstIsSeen ==
    ASSUME NEW list, NEW x, Sightings(list, x) # {}
    PROVE  FirstSeen(list, x) \in Sightings(list, x)
<1> DEFINE numbers == {o[1] : o \in Sightings(list, x)}
<1>1. numbers \in SUBSET Nat /\ numbers # {}
    BY SightingsAre, LoadedIsFinite
<1>2. PICK n \in numbers : \A m \in numbers : n <= m
    <2> HIDE DEF numbers
    <2> QED BY <1>1, LeastNatural
<1>3. \E o \in Sightings(list, x) : \A q \in Sightings(list, x) : o[1] <= q[1]
    BY <1>2
<1> QED BY <1>3 DEF FirstSeen

HostsOf(sightings) == {dir[o[1]].host : o \in sightings}

\* An entry depends on the items counted as one with x only.
LEMMA EntryOfSightings ==
    ASSUME NEW list, NEW x, NEW min
    PROVE  /\ Entry(list, x, min).item = First(Sightings(list, x))[2]
           /\ Entry(list, x, min) =
                [item    |-> First(Sightings(list, x))[2],
                 count   |-> Cardinality(Sightings(list, x)),
                 hosts   |-> HostsOf(Sightings(list, x)),
                 include |-> PrevalenceInclude(Cardinality(Sightings(list, x)), Cardinality(Loaded), min)]
BY DEF Entry, FirstSeen, First, HostsOf

LEMMA SameEntry ==
    ASSUME NEW list, NEW x, NEW y, NEW min, Same(list, x, y)
    PROVE  Entry(list, x, min) = Entry(list, y, min)
<1>1. Sightings(list, x) = Sightings(list, y)
    BY SameIsEquivalence DEF Sightings
<1> QED BY <1>1, EntryOfSightings

\* What is known of the entry of an item that some host has.
LEMMA EntryIsSound ==
    ASSUME DirInv, NEW list \in Lists, NEW min \in Thresholds,
           NEW o \in Occurrences(list)
    PROVE  LET e == Entry(list, o[2], min)
           IN  /\ e \in Entries(list) /\ Same(list, e.item, o[2])
               /\ e = Entry(list, e.item, min)
               /\ e.count >= Cardinality(e.hosts) /\ e.hosts # {}
<1> DEFINE x == o[2]
           seen == Sightings(list, x)
           e == Entry(list, x, min)
           at == [q \in seen |-> dir[q[1]].host]
<1>1. o \in seen
    BY SameIsEquivalence DEF Sightings
<1>2. IsFiniteSet(seen) /\ Cardinality(seen) \in Nat
    BY SightingsAreFinite
<1>3. First(seen) \in seen
    <2>1. FirstSeen(list, x) = First(seen)
        BY DEF FirstSeen, First
    <2> QED BY <1>1, <2>1, FirstIsSeen
<1>4. \A q \in seen : /\ q[2] \in Items(list) /\ Same(list, q[2], x)
                      /\ dir[q[1]].host \in HostNames
    BY SightingsAre, LoadedIsFinite DEF DirInv
<1>5. at \in Surjection(seen, HostsOf(seen))
    BY DEF Surjection, HostsOf
<1>6. Cardinality(HostsOf(seen)) <= Cardinality(seen) /\ IsFiniteSet(HostsOf(seen))
    <2> HIDE DEF at, seen
    <2> QED BY <1>2, <1>5, FS_Surjection
<1>7. HostsOf(seen) # {} /\ HostsOf(seen) \in SUBSET HostNames
    BY <1>1, <1>4 DEF HostsOf
<1>8. /\ e.item = First(seen)[2] /\ e.count = Cardinality(seen) /\ e.hosts = HostsOf(seen)
      /\ e.include \in BOOLEAN
      /\ e = [item |-> e.item, count |-> e.count, hosts |-> e.hosts, include |-> e.include]
    <2> DEFINE fits == PrevalenceInclude(Cardinality(seen), Cardinality(Loaded), min)
    <2>1. fits \in BOOLEAN
        BY DEF PrevalenceInclude
    <2>2. e = [item |-> First(seen)[2], count |-> Cardinality(seen), hosts |-> HostsOf(seen),
               include |-> fits]
        BY EntryOfSightings
    <2> HIDE DEF e, fits, seen
    <2> QED BY <2>1, <2>2
<1>9. e = Entry(list, e.item, min)
    <2>1. Same(list, e.item, x)
        BY <1>3, <1>4, <1>8
    <2> QED BY <2>1, SameEntry
<1>10. e \in Entries(list)
    BY <1>2, <1>3, <1>4, <1>7, <1>8 DEF Entries, HostNames
<1>11. e.count >= Cardinality(e.hosts)
    BY <1>2, <1>6, <1>8, FS_CardinalityType
<1> QED BY <1>3, <1>4, <1>7, <1>8, <1>9, <1>10, <1>11
-----------------------------------------------------------------------------
(* Type correctness *)

\* A merge has one entry for each identity, and items the hosts have.
LEMMA MergedIsSound ==
    ASSUME DirInv, NEW list \in Lists, NEW min \in Thresholds
    PROVE  /\ Merged(list, min) \subseteq Entries(list)
           /\ \A e \in Merged(list, min) :
                /\ e.count >= Cardinality(e.hosts) /\ e.hosts # {}
                /\ e = Entry(list, e.item, min) /\ e.item \in Gathered(list)
           /\ \A d, e \in Merged(list, min) : Same(list, d.item, e.item) => d = e
<1>1. \A e \in Merged(list, min) : \E o \in Occurrences(list) : e = Entry(list, o[2], min)
    BY DEF Merged
<1>2. ASSUME NEW e \in Merged(list, min)
      PROVE  /\ e \in Entries(list) /\ e.count >= Cardinality(e.hosts) /\ e.hosts # {}
             /\ e = Entry(list, e.item, min) /\ e.item \in Gathered(list)
    <2>1. PICK o \in Occurrences(list) : e = Entry(list, o[2], min)
        BY <1>1
    <2>2. e.item \in Gathered(list)
        <3>1. Sightings(list, o[2]) # {}
            BY SameIsEquivalence DEF Sightings
        <3>2. FirstSeen(list, o[2]) \in Sightings(list, o[2])
            BY <3>1, FirstIsSeen
        <3>3. e.item = FirstSeen(list, o[2])[2]
            BY <2>1 DEF Entry
        <3> QED BY <3>2, <3>3, SightingsAre DEF Gathered
    <2> QED BY <2>1, <2>2, EntryIsSound
<1>3. ASSUME NEW d \in Merged(list, min), NEW e \in Merged(list, min),
             Same(list, d.item, e.item)
      PROVE  d = e
    BY <1>2, <1>3, SameEntry
<1> QED BY <1>2, <1>3

\* The output of a merge is like a host's snapshot, and says that it is none.
LEMMA OutputIsSound ==
    ASSUME DirInv, NEW min \in Thresholds
    PROVE  LET out == AsSnapshot(MergeSnapshots(min))
           IN  /\ out.merged /\ out.host \in HostNames
               /\ \A list \in Lists : IsFiniteSet(out[list]) /\ out[list] \subseteq Items(list)
<1> DEFINE out == AsSnapshot(MergeSnapshots(min))
<1>1. out.merged /\ out.host \in HostNames
    BY DEF AsSnapshot, HostNames
<1>2. ASSUME NEW list \in Lists PROVE IsFiniteSet(out[list]) /\ out[list] \subseteq Items(list)
    <2>1. out[list] = {e.item : e \in Merged(list, min)}
        BY DEF AsSnapshot, MergeSnapshots, Lists
    <2>2. {e.item : e \in Merged(list, min)} \in SUBSET Gathered(list)
        BY MergedIsSound
    <2> QED BY <2>1, <2>2, GatheredIsFinite, FS_Subset
<1> QED BY <1>1, <1>2

LEMMA HostsAreSound ==
    ASSUME NEW s \in Snapshots
    PROVE  /\ s.host \in HostNames
           /\ \A list \in Lists : IsFiniteSet(s[list]) /\ s[list] \subseteq Items(list)
BY FleetAssumption DEF HostNames, Lists, Items
\* What a file can become: nothing, something that does not load, a host's
\* snapshot, or the output of a merge, which is all the default name gets.
Sound(f, v) ==
    \/ v \in {NoFile, Spoilt}
    \/ /\ \A list \in Lists : IsFiniteSet(v[list]) /\ v[list] \subseteq Items(list)
       /\ v.host \in HostNames
       /\ v.merged \/ (v \in Snapshots /\ ~v.merged /\ f # Default)

DirTypeOK ==
    /\ DOMAIN dir = Files
    /\ \A f \in Files : dir[f] \notin Snapshots \cup {NoFile, Spoilt} =>
        /\ dir[f].merged
        /\ \A list \in Lists : dir[f][list] \subseteq Items(list)

LastTypeOK ==
    last # NoMerge =>
        /\ last.min \in Thresholds
        /\ \A list \in Lists :
            /\ last[list] \subseteq Entries(list)
            /\ \A e \in last[list] : e.count >= Cardinality(e.hosts) /\ e.hosts # {}
            /\ \A d, e \in last[list] : Same(list, d.item, e.item) => d = e

LEMMA TypeParts == FleetTypeOK <=> DirTypeOK /\ LastTypeOK
BY DEF FleetTypeOK, DirTypeOK, LastTypeOK, Lists

LEMMA WriteKeepsDir ==
    ASSUME DirTypeOK, DirInv, NEW f \in Files, NEW v, Sound(f, v),
           dir' = [dir EXCEPT ![f] = v]
    PROVE  DirTypeOK' /\ DirInv'
<1>1. DOMAIN dir' = Files /\ dir'[f] = v /\ \A g \in Files : g # f => dir'[g] = dir[g]
    BY DEF DirTypeOK
<1>2. ASSUME NEW g \in Files PROVE Sound(g, dir'[g]) \/ (g # f /\ dir'[g] = dir[g])
    BY <1>1
<1>3. DirTypeOK'
    BY <1>1 DEF DirTypeOK, Sound
<1>4. DirInv'
    BY <1>1, FleetAssumption DEF DirInv, Sound
<1> QED BY <1>3, <1>4

LEMMA MergeIsTyped ==
    ASSUME DirInv, NEW min \in Thresholds, last' = MergeSnapshots(min)
    PROVE  LastTypeOK' /\ last'.min = min
<1>1. last'.min = min /\ \A list \in Lists : last'[list] = Merged(list, min)
    BY DEF MergeSnapshots, Lists
<1>2. \A list : Entries(list)' = Entries(list)
    BY DEF Entries, Items
<1> QED BY <1>1, <1>2, MergedIsSound DEF LastTypeOK, Same
-----------------------------------------------------------------------------
(* A merge of the same files comes to the same *)

LEMMA FirstOfIsOne ==
    ASSUME NEW files \in SUBSET Loaded, files # {}
    PROVE  FirstOf(files) \in files
<1>1. files \in SUBSET Nat
    BY LoadedIsFinite
<1>2. \E f \in files : \A g \in files : f <= g
    BY <1>1, LeastNatural
<1> QED BY <1>2 DEF FirstOf

SameInput ==
    /\ Loaded' = Loaded /\ Cardinality(Loaded) >= 2
    /\ \A f \in Loaded : dir'[f] = dir[f]

LEMMA SameEntries ==
    ASSUME SameInput, NEW list, NEW min
    PROVE  Merged(list, min)' = Merged(list, min)
<1>1. Occurrences(list)' = Occurrences(list)
    BY DEF Occurrences, SameInput
<1>2. ASSUME NEW x PROVE Sightings(list, x)' = Sightings(list, x)
    BY <1>1 DEF Sightings, Same
<1>3. ASSUME NEW x PROVE HostsOf(Sightings(list, x))' = HostsOf(Sightings(list, x))
    <2>1. \A o \in Sightings(list, x) : dir'[o[1]] = dir[o[1]]
        BY SightingsAre DEF SameInput
    <2> QED BY <1>2, <2>1 DEF HostsOf
<1>4. ASSUME NEW x PROVE Entry(list, x, min)' = Entry(list, x, min)
    <2>1. Cardinality(Loaded)' = Cardinality(Loaded)
        BY DEF SameInput
    <2>2. FirstSeen(list, x)' = FirstSeen(list, x)
        BY <1>2 DEF FirstSeen
    <2>3. Entry(list, x, min) =
            [item    |-> FirstSeen(list, x)[2],
             count   |-> Cardinality(Sightings(list, x)),
             hosts   |-> HostsOf(Sightings(list, x)),
             include |-> PrevalenceInclude(Cardinality(Sightings(list, x)), Cardinality(Loaded), min)]
        BY DEF Entry, HostsOf
    <2>4. Entry(list, x, min)' =
            [item    |-> FirstSeen(list, x)'[2],
             count   |-> Cardinality(Sightings(list, x)'),
             hosts   |-> HostsOf(Sightings(list, x))',
             include |-> PrevalenceInclude(Cardinality(Sightings(list, x)'), Cardinality(Loaded'), min)]
        BY DEF Entry, HostsOf, PrevalenceInclude
    <2> QED BY <1>2, <1>3, <2>1, <2>2, <2>3, <2>4 DEF SameInput
<1> QED BY <1>1, <1>4 DEF Merged

LEMMA SameMerge ==
    ASSUME SameInput, NEW min
    PROVE  MergeSnapshots(min)' = MergeSnapshots(min)
<1>1. Baseline' = Baseline
    <2>1. WithRpm' = WithRpm
        BY DEF WithRpm, SameInput
    <2>2. CASE WithRpm = {}
        BY <2>1, <2>2 DEF Baseline
    <2>3. CASE WithRpm # {}
        <3>1. FirstOf(WithRpm) \in Loaded
            BY <2>3, FirstOfIsOne DEF WithRpm
        <3>2. FirstOf(WithRpm)' = FirstOf(WithRpm)
            BY <2>1 DEF FirstOf
        <3>3. dir'[FirstOf(WithRpm)] = dir[FirstOf(WithRpm)]
            BY <3>1 DEF SameInput
        <3> QED BY <2>1, <2>3, <3>2, <3>3 DEF Baseline
    <2> QED BY <2>2, <2>3
<1>2. \A list : Merged(list, min)' = Merged(list, min)
    BY SameEntries
<1>3. Cardinality(Loaded)' = Cardinality(Loaded)
    BY DEF SameInput
<1> QED BY <1>1, <1>2, <1>3 DEF MergeSnapshots
-----------------------------------------------------------------------------
(* Every step keeps the invariant *)

LEMMA GatherKeeps ==
    ASSUME FleetInv, Gather
    PROVE  FleetInv'
<1>1. PICK f \in Files \ {Default}, s \in Snapshots \cup {Spoilt} : dir' = [dir EXCEPT ![f] = s]
    BY DEF Gather
<1>2. Sound(f, s)
    BY HostsAreSound, FleetAssumption DEF Sound
<1>3. DirTypeOK' /\ DirInv'
    BY <1>1, <1>2, TypeParts, WriteKeepsDir DEF FleetInv
<1>4. LastTypeOK' /\ LastInv'
    BY DEF Gather, LastTypeOK, LastInv
<1> QED BY <1>3, <1>4, TypeParts DEF FleetInv, FleetTypeOK, DirTypeOK, LastTypeOK, Lists

LEMMA DiscardKeeps ==
    ASSUME FleetInv, Discard
    PROVE  FleetInv'
<1>1. PICK f \in Files : dir' = [dir EXCEPT ![f] = NoFile]
    BY DEF Discard
<1>2. Sound(f, NoFile)
    BY DEF Sound
<1>3. DirTypeOK' /\ DirInv'
    BY <1>1, <1>2, TypeParts, WriteKeepsDir DEF FleetInv
<1>4. LastTypeOK' /\ LastInv'
    BY DEF Discard, LastTypeOK, LastInv
<1> QED BY <1>3, <1>4 DEF FleetInv, FleetTypeOK, DirTypeOK, LastTypeOK, Lists

\* An output under the default name is not loaded, one under another name
\* contaminates the directory - or is no output that loads.
LEMMA OutputKeepsInput ==
    ASSUME DirTypeOK, Compatible, NEW f \in Files, NEW v, dir' = [dir EXCEPT ![f] = v],
           f = Default \/ dir[f] = NoFile, v.merged
    PROVE  Contaminated' \/ SameInput
<1>1. dir'[f] = v /\ \A g \in Files : g # f => dir'[g] = dir[g]
    BY DEF DirTypeOK
<1>2. CASE f = Default
    BY <1>1, <1>2 DEF SameInput, Loaded, Compatible
<1>3. CASE f # Default /\ v \in {NoFile, Spoilt}
    BY <1>1, <1>3 DEF SameInput, Loaded, Compatible
<1>4. CASE f # Default /\ v \notin {NoFile, Spoilt}
    BY <1>1, <1>4 DEF Contaminated
<1> QED BY <1>2, <1>3, <1>4

LEMMA AggregateKeeps ==
    ASSUME FleetInv, Aggregate
    PROVE  FleetInv' /\ (Contaminated' \/ SameInput)
<1>1. PICK min \in Thresholds :
        /\ last' = MergeSnapshots(min)
        /\ \/ UNCHANGED dir
           \/ \E f \in Files : /\ f = Default \/ dir[f] = NoFile
                               /\ dir' = [dir EXCEPT ![f] = AsSnapshot(MergeSnapshots(min))]
    BY DEF Aggregate
<1>2. DirTypeOK /\ DirInv /\ Compatible
    BY TypeParts DEF FleetInv, Aggregate
<1>3. DirTypeOK' /\ DirInv' /\ (Contaminated' \/ SameInput)
    <2>1. CASE UNCHANGED dir
        BY <1>2, <2>1 DEF DirTypeOK, DirInv, SameInput, Loaded, Compatible, HostNames, Items
    <2>2. CASE \E f \in Files : /\ f = Default \/ dir[f] = NoFile
                                /\ dir' = [dir EXCEPT ![f] = AsSnapshot(MergeSnapshots(min))]
        <3> DEFINE out == AsSnapshot(MergeSnapshots(min))
        <3>1. PICK f \in Files : (f = Default \/ dir[f] = NoFile) /\ dir' = [dir EXCEPT ![f] = out]
            BY <2>2
        <3>2. out.merged /\ Sound(f, out)
            BY <1>2, OutputIsSound DEF Sound
        <3> HIDE DEF out
        <3> QED BY <1>2, <3>1, <3>2, WriteKeepsDir, OutputKeepsInput
    <2> QED BY <1>1, <2>1, <2>2
<1>4. LastTypeOK' /\ last'.min = min
    BY <1>1, <1>2, MergeIsTyped
<1>5. LastInv'
    <2>1. SUFFICES ASSUME SameInput PROVE LastInv'
        BY <1>3 DEF LastInv
    <2>2. last' = MergeSnapshots(min)' /\ Cardinality(Loaded') >= 2
        BY <1>1, <2>1, SameMerge DEF SameInput
    <2> QED BY <1>4, <2>2 DEF LastInv
<1> QED BY <1>3, <1>4, <1>5 DEF FleetInv, FleetTypeOK, DirTypeOK, LastTypeOK, Lists

LEMMA FleetStutterKeeps ==
    ASSUME FleetInv, UNCHANGED fleetVars
    PROVE  FleetInv'
<1>1. DirTypeOK' /\ DirInv' /\ LastTypeOK'
    BY TypeParts DEF FleetInv, fleetVars, DirTypeOK, DirInv, LastTypeOK, HostNames, Items, Entries, Same
<1>2. LastInv'
    <2>1. SUFFICES ASSUME last # NoMerge, ~Contaminated PROVE LastInv'
        BY DEF LastInv, Contaminated, fleetVars
    <2>2. SameInput
        BY <2>1 DEF FleetInv, LastInv, SameInput, Loaded, fleetVars
    <2>3. PICK min \in Thresholds : min = last.min
        BY <2>1 DEF FleetInv, LastInv
    <2>4. MergeSnapshots(min)' = MergeSnapshots(min)
        BY <2>2, SameMerge
    <2>5. last' = last /\ last = MergeSnapshots(min) /\ Cardinality(Loaded') >= 2
        BY <2>1, <2>2, <2>3 DEF FleetInv, LastInv, fleetVars, SameInput
    <2> QED BY <2>3, <2>4, <2>5 DEF LastInv
<1> QED BY <1>1, <1>2 DEF FleetInv, FleetTypeOK, DirTypeOK, LastTypeOK, Lists
LEMMA FleetInitHolds == FleetInit => FleetInv
<1> SUFFICES ASSUME FleetInit PROVE FleetInv
    OBVIOUS
<1>1. DOMAIN dir = Files /\ \A f \in Files : dir[f] = NoFile
    BY DEF FleetInit
<1>2. last = NoMerge
    BY DEF FleetInit
<1> QED BY <1>1, <1>2, FleetAssumption DEF FleetInv, FleetTypeOK, DirInv, LastInv

LEMMA FleetStep == FleetInv /\ [FleetNext]_fleetVars => FleetInv'
<1> SUFFICES ASSUME FleetInv, [FleetNext]_fleetVars PROVE FleetInv'
    OBVIOUS
<1>1. CASE Gather
    BY <1>1, GatherKeeps
<1>2. CASE Discard
    BY <1>2, DiscardKeeps
<1>3. CASE Aggregate
    BY <1>3, AggregateKeeps
<1>4. CASE UNCHANGED fleetVars
    BY <1>4, FleetStutterKeeps
<1> QED BY <1>1, <1>2, <1>3, <1>4 DEF FleetNext

\* What the directory holds and what the last merge found agree at all times:
\* discover_snapshots() skips yoinkc-fleet's own output, and merge_snapshots()
\* depends on what is discovered only.
THEOREM FleetInvariant == FleetSpec => []FleetInv
<1> QED BY FleetInitHolds, FleetStep, PTL DEF FleetSpec

\* Each identity has one entry of a merge, which _merge_identity_items() and
\* _merge_content_items() count at least once, and at each host once.
THEOREM FleetTypeCorrect == FleetSpec => []FleetTypeOK
<1>1. FleetInv => FleetTypeOK
    BY DEF FleetInv
<1> QED BY <1>1, FleetInvariant, PTL
-----------------------------------------------------------------------------
(* What a merge says of the hosts *)

\* Without an output under a name of its own, what is loaded is the hosts'.
LEMMA OwnIsLoaded ==
    ASSUME FleetInv, ~Contaminated
    PROVE  /\ Own = Loaded
           /\ \A f \in Own : dir[f] \in Snapshots
<1>1. \A f : f \in Own <=> f \in Loaded
    BY DEF Own, Loaded, Contaminated, FleetInv, DirInv
<1> QED BY <1>1 DEF Own, FleetInv, DirInv

LEMMA LastIsNow ==
    ASSUME FleetInv, ~Contaminated, last # NoMerge
    PROVE  /\ last.min \in Thresholds /\ DirInv /\ Cardinality(Own) = Cardinality(Loaded)
           /\ \A list \in Lists : last[list] = Merged(list, last.min)
<1>1. last = MergeSnapshots(last.min) /\ last.min \in Thresholds
    BY DEF FleetInv, LastInv
<1>2. MergeSnapshots(last.min).packages = Merged("packages", last.min)
    BY DEF MergeSnapshots
<1>3. MergeSnapshots(last.min).files = Merged("files", last.min)
    BY DEF MergeSnapshots
<1> QED BY <1>1, <1>2, <1>3, OwnIsLoaded DEF FleetInv, Lists

\* A snapshot has one file of a path: as many sightings as snapshots.
LEMMA FilesCountSnapshots ==
    ASSUME FleetInv, ~Contaminated, NEW x
    PROVE  Cardinality(Sightings("files", x)) = Cardinality(Holders("files", x))
<1> DEFINE seen == Sightings("files", x)
           held == Holders("files", x)
           at == [o \in seen |-> o[1]]
<1>1. Own = Loaded /\ \A f \in Own : dir[f] \in Snapshots
    BY OwnIsLoaded
<1>2. \A o \in seen : o[1] \in held
    BY <1>1, SightingsAre, SameIsEquivalence DEF Holders
<1>3. \A o, q \in seen : o[1] = q[1] => o = q
    <2>1. SUFFICES ASSUME NEW o \in seen, NEW q \in seen, o[1] = q[1] PROVE o = q
        OBVIOUS
    <2>2. /\ o = <<o[1], o[2]>> /\ q = <<q[1], q[2]>> /\ o[1] \in Loaded
          /\ o[2] \in dir[o[1]].files /\ q[2] \in dir[o[1]].files
          /\ o[2].key = q[2].key
        <3>1. dir[o[1]].files = dir[o[1]]["files"]
            OBVIOUS
        <3> QED BY <2>1, SightingsAre DEF Same
    <2>3. o[2] = q[2]
        BY <1>1, <2>2, FleetAssumption
    <2> QED BY <2>1, <2>2, <2>3
<1>4. ASSUME NEW f \in held PROVE \E o \in seen : o[1] = f
    <2>1. PICK y \in dir[f]["files"] : Same("files", x, y)
        BY DEF Holders
    <2>2. f \in Loaded /\ Same("files", y, x)
        BY <1>1, <2>1, SameIsEquivalence DEF Holders
    <2>3. <<f, y>> \in seen
        BY <2>1, <2>2, SightingsAre
    <2> QED BY <2>3
<1>5. at \in Bijection(seen, held)
    <2> HIDE DEF seen, held
    <2> QED BY <1>2, <1>3, <1>4 DEF Bijection, Injection, IsInjective, Surjection
<1>6. IsFiniteSet(seen)
    BY SightingsAreFinite DEF FleetInv, Lists
<1> HIDE DEF at, seen, held
<1>7. ExistsBijection(seen, held)
    BY <1>5 DEF ExistsBijection
<1> QED BY <1>6, <1>7, FS_Bijection DEF seen, held

\* Hosts with one snapshot each are as many as their snapshots.
LEMMA SnapshotsAreHosts ==
    ASSUME OneSnapshotEach, NEW files \in SUBSET Own, IsFiniteSet(files)
    PROVE  Cardinality(Hosts(files)) = Cardinality(files)
<1> DEFINE on == [f \in files |-> dir[f].host]
<1>1. \A f, g \in files : on[f] = on[g] => f = g
    BY DEF OneSnapshotEach
<1>2. \A f \in files : on[f] \in Hosts(files)
    BY DEF Hosts
<1>3. \A h \in Hosts(files) : \E f \in files : on[f] = h
    BY DEF Hosts
<1>4. on \in Bijection(files, Hosts(files))
    BY <1>1, <1>2, <1>3 DEF Bijection, Injection, IsInjective, Surjection
<1> HIDE DEF on
<1>5. ExistsBijection(files, Hosts(files))
    BY <1>4 DEF ExistsBijection
<1> QED BY <1>5, FS_Bijection

LEMMA FilesIncluded == FleetInv => FilePrevalence
<1> SUFFICES ASSUME FleetInv, last # NoMerge, ~Contaminated, NEW e \in last.files
             PROVE  LET held == Holders("files", e.item) IN
                    /\ e.include = Reaches(held, Own, last.min)
                    /\ OneSnapshotEach => e.include = Reaches(Hosts(held), Hosts(Own), last.min)
    BY DEF FilePrevalence
<1> DEFINE held == Holders("files", e.item)
<1>1. e \in Merged("files", last.min) /\ DirInv /\ last.min \in Thresholds
    BY LastIsNow DEF Lists
<1>2. e = Entry("files", e.item, last.min)
    BY <1>1, MergedIsSound DEF Lists
<1>3. e.include = PrevalenceInclude(Cardinality(Sightings("files", e.item)), Cardinality(Loaded), last.min)
    BY <1>2, EntryOfSightings
<1>4. Cardinality(Sightings("files", e.item)) = Cardinality(held)
    BY FilesCountSnapshots
<1>5. Cardinality(Sightings("files", e.item)) \in Nat
    BY <1>1, SightingsAreFinite DEF Lists
<1>6. Cardinality(Own) = Cardinality(Loaded)
    BY LastIsNow
<1>7. e.include = Reaches(held, Own, last.min)
    BY <1>3, <1>4, <1>5, <1>6 DEF PrevalenceInclude, Reaches
<1>8. ASSUME OneSnapshotEach PROVE e.include = Reaches(Hosts(held), Hosts(Own), last.min)
    <2>1. IsFiniteSet(Own) /\ held \in SUBSET Own
        BY OwnIsLoaded, LoadedIsFinite DEF Holders
    <2>2. IsFiniteSet(held)
        BY <2>1, FS_Subset
    <2> HIDE DEF held
    <2>3. Cardinality(Hosts(held)) = Cardinality(held)
        BY <1>8, <2>1, <2>2, SnapshotsAreHosts
    <2>4. Cardinality(Hosts(Own)) = Cardinality(Own)
        BY <1>8, <2>1, SnapshotsAreHosts
    <2> QED BY <1>7, <2>3, <2>4 DEF Reaches
<1> QED BY <1>7, <1>8

\* _prevalence_include() keeps a file content if and only if the share of the
\* snapshots that have it, and of the hosts if each has one snapshot, is at least
\* --min-prevalence, unless an output was written into the directory under another
\* name.
THEOREM FilesByPrevalence == FleetSpec => []FilePrevalence
<1> QED BY FilesIncluded, FleetInvariant, PTL

LEMMA Majority ==
    ASSUME NEW a \in Nat, NEW b \in Nat, NEW n \in Nat, NEW min \in Nat, n > 0, min > 50,
           100 * a >= min * n, 100 * b >= min * n
    PROVE  a + b > n
<1>1. min * n >= 51 * n
    OBVIOUS
<1> QED BY <1>1

\* Above one half, at most one content of a path is included, so that the
\* config tree has nothing to choose.
THEOREM OneContentOfAPath == FleetSpec => []OneContentIncluded
<1>1. FleetInv => OneContentIncluded
    <2>1. SUFFICES ASSUME FleetInv, last # NoMerge, last.min > 50, ~Contaminated,
                          NEW d \in last.files, NEW e \in last.files,
                          d.include, e.include, d.item.key = e.item.key
                   PROVE  d = e
        BY DEF OneContentIncluded
    <2> DEFINE hd == Holders("files", d.item)
               he == Holders("files", e.item)
    <2>2. Reaches(hd, Own, last.min) /\ Reaches(he, Own, last.min)
        BY <2>1, FilesIncluded DEF FilePrevalence
    <2>3. Cardinality(Own) > 0 /\ IsFiniteSet(Own) /\ Cardinality(Own) \in Nat
        BY <2>1, OwnIsLoaded, LoadedIsFinite DEF FleetInv, LastInv
    <2>4. hd \in SUBSET Own /\ he \in SUBSET Own
        BY DEF Holders
    <2>5. Cardinality(hd) + Cardinality(he) > Cardinality(Own)
        <3> HIDE DEF hd, he
        <3>1. Cardinality(hd) \in Nat /\ Cardinality(he) \in Nat
            BY <2>3, <2>4, FS_Subset, FS_CardinalityType
        <3>2. last.min \in Nat
            <4>1. last.min \in Thresholds
                BY <2>1, LastIsNow
            <4>2. \A min \in Thresholds : min \in Nat
                BY FleetAssumption
            <4> QED BY <4>1, <4>2
        <3> QED BY <2>1, <2>2, <2>3, <3>1, <3>2, Majority DEF Reaches
    <2>6. PICK f \in hd \cap he : TRUE
        <3> HIDE DEF hd, he
        <3>1. hd \cap he # {}
            BY <2>3, <2>4, <2>5, FS_MajoritiesIntersect
        <3> QED BY <3>1
    <2>7. Same("files", d.item, e.item)
        <3>1. PICK y \in dir[f].files : Same("files", d.item, y)
            BY <2>6 DEF Holders
        <3>2. PICK z \in dir[f].files : Same("files", e.item, z)
            BY <2>6 DEF Holders
        <3>3. y = z
            <4>1. dir[f] \in Snapshots
                BY <2>1, <2>4, <2>6, OwnIsLoaded
            <4> QED BY <2>1, <3>1, <3>2, <4>1, FleetAssumption DEF Same
        <3> QED BY <3>1, <3>2, <3>3, SameIsEquivalence
    <2> QED BY <2>1, <2>7 DEF FleetInv, FleetTypeOK
<1> QED BY <1>1, FleetInvariant, PTL
\* A merge is a union: merge_snapshots() leaves out nothing that any host has,
\* and the entry tells of each host that has it.
THEOREM MergeIsUnion == FleetSpec => []NothingLost
<1>1. FleetInv => NothingLost
    <2>1. SUFFICES ASSUME FleetInv, last # NoMerge, ~Contaminated, NEW list \in Lists,
                          NEW f \in Own, NEW x \in dir[f][list]
                   PROVE  \E e \in last[list] : Same(list, e.item, x) /\ dir[f].host \in e.hosts
        BY DEF NothingLost, Lists
    <2>2. f \in Loaded
        BY <2>1, OwnIsLoaded
    <2> DEFINE o == <<f, x>>
               e == Entry(list, o[2], last.min)
    <2>3. o \in Occurrences(list)
        BY <2>2, OccurrencesAre
    <2>4. /\ e \in last[list] /\ DirInv /\ last.min \in Thresholds
        BY <2>1, <2>3, LastIsNow DEF Merged
    <2>5. Same(list, e.item, x)
        BY <2>3, <2>4, EntryIsSound
    <2>6. dir[f].host \in e.hosts
        <3>1. o \in Sightings(list, x)
            BY <2>3, SameIsEquivalence DEF Sightings
        <3>2. e.hosts = HostsOf(Sightings(list, x))
            BY EntryOfSightings
        <3> QED BY <3>1, <3>2 DEF HostsOf
    <2> QED BY <2>4, <2>5, <2>6
<1> QED BY <1>1, FleetInvariant, PTL

\* Repeated over the same tarballs with the same threshold, aggregate comes to
\* the same: its own output is no input of the next.
THEOREM AggregateIsRepeatable == FleetSpec => AggregateRepeats
<1>1. ASSUME FleetInv, [FleetNext]_fleetVars, last # NoMerge, last' # NoMerge,
             last'.min = last.min, ~Contaminated
      PROVE  last' = last
    <2>1. CASE Gather \/ Discard
        BY <1>1, <2>1 DEF Gather, Discard
    <2>2. CASE Aggregate
        <3>1. PICK min \in Thresholds : last' = MergeSnapshots(min)
            BY <2>2 DEF Aggregate
        <3>2. last'.min = min
            BY <3>1 DEF MergeSnapshots
        <3> QED BY <1>1, <3>1, <3>2 DEF FleetInv, LastInv
    <2>3. CASE UNCHANGED fleetVars
        BY <2>3 DEF fleetVars
    <2> QED BY <1>1, <2>1, <2>2, <2>3 DEF FleetNext
<1>2. FleetInv /\ [FleetNext]_fleetVars =>
        [(last # NoMerge /\ last' # NoMerge /\ last'.min = last.min /\ ~Contaminated)
            => last' = last]_fleetVars
    BY <1>1
<1> QED BY <1>2, FleetInvariant, PTL DEF FleetSpec, AggregateRepeats
=============================================================================
