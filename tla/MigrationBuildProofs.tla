------------------------ MODULE MigrationBuildProofs ------------------------
(***************************************************************************)
(* What a build makes of a rendering, for any host, any questions left     *)
(* unanswered, any edits and any number of renderings.                     *)
(*                                                                         *)
(* The argument rests on WholeInvariant: the snapshot is like what the     *)
(* inspectors that ran found on the host (InspectedInv), the instructions  *)
(* are those of the snapshot, the build has done a beginning of them       *)
(* (PlaceInv), and the image is what this beginning makes (ContentInv,     *)
(* UnitsInv). Sections of the Containerfile are told apart by their        *)
(* number, so what a step needs from an earlier section is there.          *)
(***************************************************************************)
EXTENDS MigrationProofs
-----------------------------------------------------------------------------
(* Types                                                                   *)

(* Edits are as many as are allowed, and of what is there.                 *)
IsEdit(e, s) ==
    \/ \E d \in {"users", "groups"} : \E i \in DOMAIN s[d] : e = <<"strategy", d, i>>
    \/ \E d \in Checkboxes : \E i \in DOMAIN s[d] : e = <<d, i>>

EditsInv == Cardinality(edits) <= MaxEdits /\ \A e \in edits : IsEdit(e, snap)

LEMMA SameEdits ==
    ASSUME NEW s, NEW t, Alike(s, t), NEW e, IsEdit(e, t)
    PROVE  IsEdit(e, s)
<1>1. \A d \in Checkboxes \cup {"users", "groups"} : DOMAIN s[d] = DOMAIN t[d]
    <2>1. Checkboxes \cup {"users", "groups"} \subseteq Lists \ {"redactions", "cmdline"}
        BY DEF Checkboxes, Lists
    <2> QED BY <2>1 DEF Alike, LikeAll
<1> QED BY <1>1 DEF IsEdit

LEMMA EditsInit == ASSUME MigrationInit PROVE EditsInv
<1>1. edits = {} /\ MaxEdits \in Nat /\ Cardinality({}) = 0
    BY HostAssumption, FS_EmptySet DEF MigrationInit
<1> QED BY <1>1 DEF EditsInv

LEMMA EditsStep ==
    ASSUME MigrationInv, InspectedInv, EditsInv, [MigrationNext]_migrationVars
    PROVE  EditsInv'
<1>1. IsSnapshot(snap) /\ (~Reported => edits = {})
    BY DEF MigrationInv, InspectedInv
<1>2. ASSUME edits' = edits, Alike(snap', snap) PROVE EditsInv'
    <2>1. PICK s, t : s = snap' /\ t = snap
        OBVIOUS
    <2>2. \A e \in edits : IsEdit(e, t)
        BY <2>1 DEF EditsInv
    <2>3. \A e \in edits : IsEdit(e, s)
        BY <1>2, <2>1, <2>2, SameEdits
    <2> QED BY <1>2, <2>1, <2>3 DEF EditsInv
<1>3. CASE edits' = edits /\ edits = {}
    BY <1>3 DEF EditsInv
<1>4. CASE RenderFirst \/ Rerender
    <2>1. snap' = RedactSnapshot(snap) /\ edits' = edits
        BY <1>4 DEF RenderFirst, Rerender, RenderFrom
    <2>2. Alike(snap', snap)
        BY <1>1, <2>1, LikeSelf, AlikeRedacted
    <2> QED BY <1>2, <2>1, <2>2
<1>5. ASSUME NEW d \in Lists \ {"redactions", "cmdline"}, NEW i \in DOMAIN snap[d],
             NEW field \in {"include", "strategy"}, NEW value, NEW e, IsEdit(e, snap),
             Edit(e), snap' = [snap EXCEPT ![d] = [snap[d] EXCEPT ![i] = [snap[d][i] EXCEPT ![field] = value]]]
      PROVE  EditsInv'
    <2>1. Alike(snap', snap)
        BY <1>1, <1>5, LikeSelf, AlikeEdited
    <2>2. edits' = (edits \ {e}) \cup ({e} \ edits) /\ Cardinality(edits') <= MaxEdits
        BY <1>5 DEF Edit
    <2>3. \A f \in edits' : IsEdit(f, snap)
        BY <1>5, <2>2 DEF EditsInv
    <2>4. PICK s, t, E : s = snap' /\ t = snap /\ E = edits'
        OBVIOUS
    <2>5. \A f \in E : IsEdit(f, s)
        BY <2>1, <2>3, <2>4, SameEdits
    <2> QED BY <2>2, <2>4, <2>5 DEF EditsInv
<1>6. CASE Toggle
    <2>1. PICK d \in Checkboxes : \E i \in DOMAIN snap[d] :
                Edit(<<d, i>>) /\ snap' = [snap EXCEPT ![d][i].include = ~@]
        BY <1>6 DEF Toggle
    <2>2. PICK i \in DOMAIN snap[d] :
                Edit(<<d, i>>) /\ snap' = [snap EXCEPT ![d][i].include = ~@]
        BY <2>1
    <2>3. PICK value : value = ~snap[d][i].include
        OBVIOUS
    <2>4. snap' = [snap EXCEPT ![d] = [snap[d] EXCEPT ![i] = [snap[d][i] EXCEPT !["include"] = value]]]
        BY <2>2, <2>3
    <2>5. d \in Lists \ {"redactions", "cmdline"}
        BY DEF Checkboxes, Lists
    <2>6. PICK e, field : e = <<d, i>> /\ field = "include"
        OBVIOUS
    <2>7. IsEdit(e, snap) /\ Edit(e)
        BY <2>2, <2>6 DEF IsEdit
    <2> QED BY <1>5, <2>4, <2>5, <2>6, <2>7
<1>7. CASE SetStrategy
    <2>1. PICK d \in {"users", "groups"}, value \in Strategies : \E i \in DOMAIN snap[d] :
                Edit(<<"strategy", d, i>>) /\ snap' = [snap EXCEPT ![d][i].strategy = value]
        BY <1>7 DEF SetStrategy
    <2>2. PICK i \in DOMAIN snap[d] :
                Edit(<<"strategy", d, i>>) /\ snap' = [snap EXCEPT ![d][i].strategy = value]
        BY <2>1
    <2>4. snap' = [snap EXCEPT ![d] = [snap[d] EXCEPT ![i] = [snap[d][i] EXCEPT !["strategy"] = value]]]
        BY <2>2
    <2>5. d \in Lists \ {"redactions", "cmdline"}
        BY DEF Lists
    <2>6. PICK e, field : e = <<"strategy", d, i>> /\ field = "strategy"
        OBVIOUS
    <2>7. IsEdit(e, snap) /\ Edit(e)
        BY <2>2, <2>6 DEF IsEdit
    <2> QED BY <1>5, <2>4, <2>5, <2>6, <2>7
<1>8. CASE StartBuild \/ BuildStep \/ Boot \/ UNCHANGED migrationVars
    <2>1. snap' = snap /\ edits' = edits
        BY <1>8 DEF StartBuild, BuildStep, Boot, migrationVars
    <2> QED BY <1>2, <2>1, LikeSelf
<1>9. CASE \/ InspectConfig \/ InspectServices \/ InspectNetwork \/ InspectScheduled
           \/ InspectContainers \/ InspectSoftware \/ InspectKernel \/ InspectUsers
    <2>1. edits' = edits /\ ~Reported
        BY <1>9 DEF Inspector, InspectConfig, InspectServices, InspectNetwork,
           InspectScheduled, InspectContainers, InspectSoftware, InspectKernel, InspectUsers, Reported
    <2> QED BY <1>1, <1>3, <2>1
<1> QED BY <1>4, <1>6, <1>7, <1>8, <1>9 DEF MigrationNext

(* The packages kept are of the host.                                      *)
LEMMA PackagesOfHost ==
    ASSUME WholeInv, Reported
    PROVE  Installed(snap) \subseteq ToSet(host.packages)
<1>1. PICK u \in {{}, Modified} : InspectedAs(u)
    BY DEF WholeInv, InspectedInv
<1>2. PICK o \in Overrides : Alike(snap, Found(host, answered, u, o))
    BY <1>1 DEF InspectedAs
<1>3. PICK h, a, s, t : h = host /\ a = answered /\ s = snap /\ t = Found(h, a, u, o)
    OBVIOUS
<1>4. h \in Hosts /\ Alike(s, t) /\ IsSnapshot(s)
    BY <1>2, <1>3 DEF WholeInv, MigrationInv
<1>5. LikeAll(s.packages, t.packages)
    BY <1>4 DEF Alike, Lists
<1>6. t.packages = [i \in DOMAIN h.packages |-> [name |-> h.packages[i], include |-> TRUE]]
    BY <1>3, <1>4, FoundSections, Found0IsSnapshot
<1>7. IsList(s.packages)
    BY <1>4 DEF IsSnapshot, Records, Lists
<1>8. SUFFICES ASSUME NEW x \in ToSet(s.packages) PROVE x.name \in ToSet(h.packages)
    BY <1>3, <1>7, KeptFacts DEF Installed
<1>9. PICK i \in DOMAIN s.packages : x = s.packages[i]
    BY DEF ToSet
<1>10. DOMAIN s.packages = DOMAIN h.packages /\ Like(s.packages[i], t.packages[i])
    BY <1>5, <1>6, <1>9 DEF LikeAll
<1>11. t.packages[i].name = h.packages[i] /\ "name" \in DOMAIN t.packages[i]
    BY <1>6, <1>9, <1>10
<1>12. x.name = h.packages[i]
    BY <1>9, <1>10, <1>11 DEF Like, Marked
<1> QED BY <1>9, <1>10, <1>12 DEF ToSet

(* The units to enable are of the host.                                    *)
LEMMA UnitsOfHost ==
    ASSUME WholeInv, Reported
    PROVE  snap.enabled_units \subseteq DOMAIN host.units
<1>1. PICK u \in {{}, Modified} : InspectedAs(u)
    BY DEF WholeInv, InspectedInv
<1>2. PICK o \in Overrides : Alike(snap, Found(host, answered, u, o))
    BY <1>1 DEF InspectedAs
<1>3. PICK h, a, s, t : h = host /\ a = answered /\ s = snap /\ t = Found(h, a, u, o)
    OBVIOUS
<1>4. h \in Hosts /\ Alike(s, t)
    BY <1>2, <1>3 DEF WholeInv, MigrationInv
<1>5. s.enabled_units = t.enabled_units /\ t.enabled_units = Found2(h, a, u).enabled_units
    BY <1>3, <1>4, FoundSections DEF Alike, Parts, Lists
<1>6. PICK r : r = Found1(h, a, u)
    OBVIOUS
<1>7. IsSnapshot(r) /\ r.enabled_units = {}
    <2>1. PICK f, p : f = Found0(h) /\ p = ("paths" \in a)
        OBVIOUS
    <2>2. r = RunRepos(RunConfig(f, h, p, u), h) /\ IsSnapshot(f)
        BY <1>4, <1>6, <2>1, Found0IsSnapshot DEF Found1
    <2>3. r["enabled_units"] = f["enabled_units"]
        BY <2>2, OwnConfig DEF Parts, Lists
    <2>4. f["enabled_units"] = EmptySnapshot["enabled_units"]
        BY <1>4, <2>1, Found0IsSnapshot DEF Parts, Lists
    <2>5. EmptySnapshot["enabled_units"] = {}
        BY DEF EmptySnapshot
    <2> QED BY <1>4, <1>6, <2>3, <2>4, <2>5, FoundSnapshots
<1>8. PICK base, lists, answers : Found2(h, a, u) = RunServices(r, h, base, lists, answers)
    <2>1. PICK base, lists, answers : /\ base = IF "presets" \in a THEN h.base_presets ELSE None
                                      /\ lists = ("systemctl" \in a) /\ answers = ("owners" \in a)
        OBVIOUS
    <2> QED BY <1>6, <2>1 DEF Found2
<1>9. PICK current : current = IF lists THEN ListUnitFiles(h) ELSE ScanUnitFiles(h)
    OBVIOUS
<1>10. DOMAIN current \subseteq DOMAIN h.units
    BY <1>9 DEF ListUnitFiles, ScanUnitFiles, UnitsIn
<1>11. RunServices(r, h, base, lists, answers).enabled_units \subseteq DOMAIN current
    BY <1>7, <1>9 DEF RunServices, IsSnapshot, Parts, Lists
<1> QED BY <1>3, <1>5, <1>8, <1>10, <1>11
-----------------------------------------------------------------------------
(* The timers found                                                        *)

(* x is the timer of a line of a crontab, or of a script of a period.      *)
CronTimer(x, f, line) ==
    x = Timer(<<"cron">> \o f.path.name, OnCalendar(line.fields), line.job, f.text.holds)

ScriptTimer(x, f, p) ==
    x = Timer(<<"cron", p.name>> \o f.path.name, p.calendar, Last(f.path.name), {})

(* The timers of one cron directory, and of a directory of scripts.        *)
OfCrontabs(list, h, dir, owned) ==
    /\ IsList(list)
    /\ \A x \in ToSet(list) : \E f \in ToSet(h.files) : \E line \in ToSet(h.crontabs[f.path]) :
            f.path.dir = dir /\ IsJob(f, line) /\ CronTimer(x, f, line)
    /\ \A f \in ToSet(h.files) : f.path.dir = dir /\ ~IsRpmOwned(f, owned) /\ f.decodes =>
            \A line \in ToSet(h.crontabs[f.path]) : IsJob(f, line) =>
                \E x \in ToSet(list) : CronTimer(x, f, line)

OfScripts(list, h, p, owned) ==
    /\ IsList(list)
    /\ \A x \in ToSet(list) : \E f \in ToSet(h.files) : f.path.dir = p.dir /\ ScriptTimer(x, f, p)
    /\ \A f \in ToSet(h.files) : f.path.dir = p.dir /\ ~IsRpmOwned(f, owned) =>
            \E x \in ToSet(list) : ScriptTimer(x, f, p)

LEMMA CrontabFound ==
    ASSUME NEW h \in Hosts, NEW f \in ToSet(h.files), IsCrontab(f), NEW owned,
           NEW t, t = ScanCronFile(h, f, owned)
    PROVE  /\ IsList(t)
           /\ \A x \in ToSet(t) : \E line \in ToSet(h.crontabs[f.path]) :
                IsJob(f, line) /\ CronTimer(x, f, line)
           /\ ~IsRpmOwned(f, owned) /\ f.decodes =>
                \A line \in ToSet(h.crontabs[f.path]) : IsJob(f, line) =>
                    \E x \in ToSet(t) : CronTimer(x, f, line)
<1>1. PICK all : all = h.crontabs[f.path]
    OBVIOUS
<1>2. IsList(all)
    <2>1. PICK i \in DOMAIN h.files : f = h.files[i]
        BY DEF ToSet
    <2> QED BY <1>1, <2>1, ListsOfHost
<1>3. PICK lines : lines = Select(all, LAMBDA l : IsJob(f, l))
    OBVIOUS
<1>4. IsList(lines) /\ ToSet(lines) = {l \in ToSet(all) : IsJob(f, l)}
    <2> DEFINE places == {n \in DOMAIN all : IsJob(f, all[n])}
    <2>1. PICK S : S = {l \in ToSet(all) : IsJob(f, l)}
        OBVIOUS
    <2>2. places \subseteq DOMAIN all /\ \A n \in DOMAIN all : n \in places <=> all[n] \in S
        BY <2>1 DEF ToSet
    <2>3. lines = Picked(all, places)
        BY <1>3 DEF Select
    <2> HIDE DEF places
    <2>4. IsList(lines) /\ ToSet(lines) = ToSet(all) \cap S
        BY <1>2, <2>2, <2>3, PickedSet
    <2> QED BY <2>1, <2>4
<1>5. PICK timers : timers = [i \in DOMAIN lines |->
                Timer(<<"cron">> \o f.path.name, OnCalendar(lines[i].fields),
                      lines[i].job, f.text.holds)]
    OBVIOUS
<1>6. t = IF IsRpmOwned(f, owned) \/ ~f.decodes THEN <<>> ELSE timers
    BY <1>1, <1>3, <1>5 DEF ScanCronFile
<1>7. /\ IsList(timers) /\ DOMAIN timers = DOMAIN lines
      /\ \A i \in DOMAIN lines : CronTimer(timers[i], f, lines[i])
    <2>1. timers = [i \in DOMAIN lines |-> timers[i]]
        BY <1>5
    <2>2. \A i \in DOMAIN lines : CronTimer(timers[i], f, lines[i])
        BY <1>5 DEF CronTimer
    <2> QED BY <1>4, <2>1, <2>2, MapFacts
<1>8. \A x \in ToSet(timers) : \E line \in ToSet(lines) : CronTimer(x, f, line)
    BY <1>7 DEF ToSet
<1>9. \A line \in ToSet(lines) : \E x \in ToSet(timers) : CronTimer(x, f, line)
    BY <1>7 DEF ToSet
<1>10. CASE IsRpmOwned(f, owned) \/ ~f.decodes
    BY <1>6, <1>10, EmptyList
<1>11. CASE ~IsRpmOwned(f, owned) /\ f.decodes
    BY <1>1, <1>4, <1>6, <1>7, <1>8, <1>9, <1>11
<1> QED BY <1>10, <1>11

LEMMA FilesOfDir ==
    ASSUME NEW h \in Hosts, NEW dir, NEW files, files = Picked(h.files, {n \in DOMAIN h.files : h.files[n].path.dir = dir})
    PROVE  IsList(files) /\ ToSet(files) = {f \in ToSet(h.files) : f.path.dir = dir}
<1> DEFINE places == {n \in DOMAIN h.files : h.files[n].path.dir = dir}
<1>1. PICK all, S : all = h.files /\ S = {f \in ToSet(h.files) : f.path.dir = dir}
    OBVIOUS
<1>2. IsList(all) /\ places \subseteq DOMAIN all /\ \A n \in DOMAIN all : n \in places <=> all[n] \in S
    BY <1>1, ListsOfHost DEF ToSet
<1>3. files = Picked(all, places)
    BY <1>1
<1> HIDE DEF places
<1>4. IsList(files) /\ ToSet(files) = ToSet(all) \cap S
    BY ONLY <1>2, <1>3, PickedSet
<1> QED BY <1>1, <1>4

LEMMA CrontabsFound ==
    ASSUME NEW h \in Hosts, NEW dir \in {"cron.d", "crontab", "spool/cron"}, NEW owned
    PROVE  OfCrontabs(ScanFiles(h, dir, owned), h, dir, owned)
<1>1. PICK files : files = Select(h.files, LAMBDA f : f.path.dir = dir)
    OBVIOUS
<1>2. IsList(files) /\ ToSet(files) = {f \in ToSet(h.files) : f.path.dir = dir}
    <2>1. files = Picked(h.files, {n \in DOMAIN h.files : h.files[n].path.dir = dir})
        BY <1>1 DEF Select
    <2> QED BY <2>1, FilesOfDir
<1>3. PICK lists : lists = [i \in DOMAIN files |-> ScanCronFile(h, files[i], owned)]
    OBVIOUS
<1>4. PICK t : t = ScanFiles(h, dir, owned)
    OBVIOUS
<1>5. t = FlattenSeq(lists)
    BY <1>1, <1>3, <1>4 DEF ScanFiles
<1>6. ASSUME NEW i \in DOMAIN files
      PROVE  /\ files[i] \in ToSet(h.files) /\ files[i].path.dir = dir /\ IsCrontab(files[i])
             /\ lists[i] = ScanCronFile(h, files[i], owned) /\ IsList(lists[i])
    <2>1. files[i] \in ToSet(files)
        BY DEF ToSet
    <2>2. files[i] \in ToSet(h.files) /\ files[i].path.dir = dir
        BY <1>2, <2>1
    <2>3. IsCrontab(files[i])
        BY <2>2 DEF IsCrontab
    <2>4. lists[i] = ScanCronFile(h, files[i], owned)
        BY <1>3
    <2> QED BY <2>2, <2>3, <2>4, CrontabFound
<1>7. IsList(lists) /\ DOMAIN lists = DOMAIN files
    <2>1. lists = [i \in DOMAIN files |-> lists[i]]
        BY <1>3
    <2> QED BY <1>2, <2>1, MapFacts
<1>8. IsList(t) /\ ToSet(t) = UNION {ToSet(lists[i]) : i \in DOMAIN lists}
    BY <1>5, <1>6, <1>7, FlattenFacts
<1>9. ASSUME NEW x \in ToSet(t)
      PROVE  \E f \in ToSet(h.files) : \E line \in ToSet(h.crontabs[f.path]) :
                f.path.dir = dir /\ IsJob(f, line) /\ CronTimer(x, f, line)
    <2>1. PICK i \in DOMAIN files : x \in ToSet(lists[i])
        BY <1>7, <1>8
    <2>2. PICK f : f = files[i]
        OBVIOUS
    <2>3. \E line \in ToSet(h.crontabs[f.path]) : IsJob(f, line) /\ CronTimer(x, f, line)
        BY <1>6, <2>1, <2>2, CrontabFound
    <2> QED BY <1>6, <2>2, <2>3
<1>10. ASSUME NEW f \in ToSet(h.files), f.path.dir = dir, ~IsRpmOwned(f, owned), f.decodes,
              NEW line \in ToSet(h.crontabs[f.path]), IsJob(f, line)
       PROVE  \E x \in ToSet(t) : CronTimer(x, f, line)
    <2>1. f \in ToSet(files)
        BY <1>2, <1>10
    <2>2. PICK i \in DOMAIN files : f = files[i]
        BY <2>1 DEF ToSet
    <2>3. PICK list : list = lists[i]
        OBVIOUS
    <2>4. list = ScanCronFile(h, f, owned) /\ IsCrontab(f)
        BY <1>6, <2>2, <2>3
    <2>5. PICK x \in ToSet(list) : CronTimer(x, f, line)
        BY <1>10, <2>4, CrontabFound
    <2> QED BY <1>7, <1>8, <2>3, <2>5
<1> QED BY <1>4, <1>8, <1>9, <1>10 DEF OfCrontabs

LEMMA ScriptsFound ==
    ASSUME NEW h \in Hosts, NEW p, NEW owned
    PROVE  OfScripts(ScanPeriod(h, p, owned), h, p, owned)
<1>1. PICK t, files : /\ t = ScanPeriod(h, p, owned)
                      /\ files = Select(h.files, LAMBDA f : f.path.dir = p.dir /\ ~IsRpmOwned(f, owned))
    OBVIOUS
<1>2. /\ IsList(files)
      /\ ToSet(files) = {f \in ToSet(h.files) : f.path.dir = p.dir /\ ~IsRpmOwned(f, owned)}
    <2> DEFINE places == {n \in DOMAIN h.files : h.files[n].path.dir = p.dir /\ ~IsRpmOwned(h.files[n], owned)}
    <2>1. PICK all, S : all = h.files /\ S = {f \in ToSet(h.files) : f.path.dir = p.dir /\ ~IsRpmOwned(f, owned)}
        OBVIOUS
    <2>2. IsList(all) /\ places \subseteq DOMAIN all /\ \A n \in DOMAIN all : n \in places <=> all[n] \in S
        BY <2>1, ListsOfHost DEF ToSet
    <2>3. files = Picked(all, places)
        BY <1>1, <2>1 DEF Select
    <2> HIDE DEF places
    <2>4. IsList(files) /\ ToSet(files) = ToSet(all) \cap S
        BY <2>2, <2>3, PickedSet
    <2> QED BY <2>1, <2>4
<1>3. t = [i \in DOMAIN files |-> Timer(<<"cron", p.name>> \o files[i].path.name, p.calendar,
                                        Last(files[i].path.name), {})]
    BY <1>1 DEF ScanPeriod
<1>4. t = [i \in DOMAIN files |-> t[i]] /\ \A i \in DOMAIN files : ScriptTimer(t[i], files[i], p)
    BY <1>3 DEF ScriptTimer
<1>5. IsList(t) /\ DOMAIN t = DOMAIN files
    BY <1>2, <1>4, MapFacts
<1>6. /\ \A x \in ToSet(t) : \E f \in ToSet(files) : ScriptTimer(x, f, p)
      /\ \A f \in ToSet(files) : \E x \in ToSet(t) : ScriptTimer(x, f, p)
    BY <1>4, <1>5 DEF ToSet
<1> QED BY <1>1, <1>2, <1>5, <1>6 DEF OfScripts

(* The timers of a host's jobs, each of a line or a script of it.          *)
IsTimerOf(x, h) ==
    \/ \E f \in ToSet(h.files) : \E line \in ToSet(h.crontabs[f.path]) :
            IsCrontab(f) /\ IsJob(f, line) /\ CronTimer(x, f, line)
    \/ \E p \in ToSet(Periods) : \E f \in ToSet(h.files) : f.path.dir = p.dir /\ ScriptTimer(x, f, p)

TimersOf(list, h, owned) ==
    /\ IsList(list) /\ \A x \in ToSet(list) : IsTimerOf(x, h)
    /\ \A f \in ToSet(h.files) : IsCrontab(f) /\ ~IsRpmOwned(f, owned) /\ f.decodes =>
            \A line \in ToSet(h.crontabs[f.path]) : IsJob(f, line) =>
                \E x \in ToSet(list) : CronTimer(x, f, line)
    /\ \A p \in ToSet(Periods) : \A f \in ToSet(h.files) : f.path.dir = p.dir /\ ~IsRpmOwned(f, owned) =>
            \E x \in ToSet(list) : ScriptTimer(x, f, p)

LEMMA PeriodsAre ==
    /\ IsList(Periods) /\ ToSet(Periods) = {Periods[i] : i \in 1..4} /\ DOMAIN Periods = 1..4
    /\ \A p \in ToSet(Periods) : IsList(p.calendar) /\ Len(p.calendar) = 5
<1>1. Periods = [i \in 1..4 |-> Periods[i]] /\ DOMAIN Periods = 1..4
    BY DEF Periods
<1>2. IsList(Periods)
    BY <1>1, ListOf
<1>3. ToSet(Periods) = {Periods[i] : i \in 1..4}
    BY <1>1 DEF ToSet
<1>4. \A p \in ToSet(Periods) : p.calendar = [i \in 1..5 |-> p.calendar[i]]
    <2>1. \A i \in 1..4 : Periods[i].calendar = [j \in 1..5 |-> Periods[i].calendar[j]]
        BY DEF Periods
    <2> QED BY <1>3, <2>1
<1>5. \A p \in ToSet(Periods) : IsList(p.calendar) /\ Len(p.calendar) = 5
    BY <1>4, ListOf
<1> QED BY <1>1, <1>2, <1>3, <1>5

LEMMA TimersFound ==
    ASSUME NEW h \in Hosts, NEW s, IsSnapshot(s), NEW owned
    PROVE  TimersOf(RunScheduled(s, h, owned).generated_timer_units, h, owned)
<1> DEFINE scripts == [i \in DOMAIN Periods |-> ScanPeriod(h, Periods[i], owned)]
<1>1. PICK a, b, c, d, q : /\ a = ScanFiles(h, "cron.d", owned) /\ b = ScanFiles(h, "crontab", owned)
                           /\ c = FlattenSeq(scripts) /\ d = ScanFiles(h, "spool/cron", FALSE)
                           /\ q = scripts
    OBVIOUS
<1>2. RunScheduled(s, h, owned).generated_timer_units = a \o b \o c \o d
    BY <1>1 DEF RunScheduled, IsSnapshot, Parts, Lists
<1>3. /\ OfCrontabs(a, h, "cron.d", owned) /\ OfCrontabs(b, h, "crontab", owned)
      /\ OfCrontabs(d, h, "spool/cron", FALSE)
    BY <1>1, CrontabsFound
<1>4. /\ DOMAIN q = 1..4 /\ IsList(q)
      /\ \A i \in 1..4 : OfScripts(q[i], h, Periods[i], owned)
    <2>1. q = [i \in 1..4 |-> q[i]] /\ \A i \in 1..4 : q[i] = ScanPeriod(h, Periods[i], owned)
        BY <1>1, PeriodsAre
    <2> QED BY <2>1, ListOf, ScriptsFound
<1>5. IsList(c) /\ ToSet(c) = UNION {ToSet(q[i]) : i \in 1..4}
    BY <1>1, <1>4, FlattenFacts DEF OfScripts
<1>6. PICK t : t = a \o b \o c \o d
    OBVIOUS
<1>7. IsList(t) /\ ToSet(t) = ToSet(a) \cup ToSet(b) \cup ToSet(c) \cup ToSet(d)
    <2>1. IsList(a) /\ IsList(b) /\ IsList(d)
        BY <1>3 DEF OfCrontabs
    <2>2. IsList(a \o b) /\ ToSet(a \o b) = ToSet(a) \cup ToSet(b)
        BY <2>1, Concatenation
    <2>3. IsList((a \o b) \o c) /\ ToSet((a \o b) \o c) = ToSet(a) \cup ToSet(b) \cup ToSet(c)
        BY <1>5, <2>2, Concatenation
    <2> QED BY <1>6, <2>1, <2>3, Concatenation
<1>8. ASSUME NEW x \in ToSet(t) PROVE IsTimerOf(x, h)
    <2>1. CASE x \in ToSet(a)
        BY <1>3, <2>1 DEF OfCrontabs, IsTimerOf, IsCrontab
    <2>2. CASE x \in ToSet(b)
        BY <1>3, <2>2 DEF OfCrontabs, IsTimerOf, IsCrontab
    <2>3. CASE x \in ToSet(d)
        BY <1>3, <2>3 DEF OfCrontabs, IsTimerOf, IsCrontab
    <2>4. CASE x \in ToSet(c)
        <3>1. PICK i \in 1..4 : x \in ToSet(q[i])
            BY <1>5, <2>4
        <3>2. Periods[i] \in ToSet(Periods)
            BY PeriodsAre
        <3> QED BY <1>4, <3>1, <3>2 DEF OfScripts, IsTimerOf
    <2> QED BY <1>7, <1>8, <2>1, <2>2, <2>3, <2>4
<1>9. ASSUME NEW f \in ToSet(h.files), IsCrontab(f), ~IsRpmOwned(f, owned), f.decodes,
             NEW line \in ToSet(h.crontabs[f.path]), IsJob(f, line)
      PROVE  \E x \in ToSet(t) : CronTimer(x, f, line)
    <2>1. CASE f.path.dir = "cron.d"
        BY <1>3, <1>7, <1>9, <2>1 DEF OfCrontabs
    <2>2. CASE f.path.dir = "crontab"
        BY <1>3, <1>7, <1>9, <2>2 DEF OfCrontabs
    <2>3. CASE f.path.dir = "spool/cron"
        <3>1. ~IsRpmOwned(f, FALSE)
            BY DEF IsRpmOwned
        <3> QED BY <1>3, <1>7, <1>9, <2>3, <3>1 DEF OfCrontabs
    <2> QED BY <1>9, <2>1, <2>2, <2>3 DEF IsCrontab
<1>10. ASSUME NEW p \in ToSet(Periods), NEW f \in ToSet(h.files), f.path.dir = p.dir, ~IsRpmOwned(f, owned)
       PROVE  \E x \in ToSet(t) : ScriptTimer(x, f, p)
    <2>1. PICK i \in 1..4 : p = Periods[i]
        BY PeriodsAre
    <2>2. PICK x \in ToSet(q[i]) : ScriptTimer(x, f, p)
        BY <1>4, <1>10, <2>1 DEF OfScripts
    <2> QED BY <1>5, <1>7, <2>2
<1> QED BY <1>2, <1>6, <1>7, <1>8, <1>9, <1>10 DEF TimersOf

(* A generated timer's parts.                                              *)
LEMMA TimerParts ==
    ASSUME NEW name, NEW calendar, NEW job, NEW has, NEW x, x = Timer(name, calendar, job, has)
    PROVE  /\ x.name = name /\ x.timer_content = TimerText(calendar)
           /\ x.service_content.of = <<"service", IF job = "" THEN "true" ELSE job>>
           /\ x.include = TRUE
           /\ DOMAIN x = {"name", "timer_content", "service_content", "command", "include"}
BY DEF Timer, GeneratedTimerUnit, ServiceText, Text

LEMMA CalendarLength ==
    ASSUME NEW calendar, IsList(calendar), Len(calendar) = 5
    PROVE  Len(TimerText(calendar).of) = 6
<1>1. PICK w : w = <<"timer">>
    OBVIOUS
<1>2. IsList(w) /\ Len(w) = 1
    BY <1>1, OneElement
<1>3. Len(w \o calendar) = Len(w) + Len(calendar)
    BY <1>2, Concatenation
<1>4. Len(w \o calendar) = 6
    BY <1>2, <1>3
<1> QED BY <1>1, <1>4 DEF TimerText, Text

LEMMA TimerLength ==
    ASSUME NEW h, NEW x, IsTimerOf(x, h)
    PROVE  Len(x.timer_content.of) = 6
<1>1. CASE \E f \in ToSet(h.files) : \E line \in ToSet(h.crontabs[f.path]) : CronTimer(x, f, line)
    <2>1. PICK f, line : CronTimer(x, f, line)
        BY <1>1
    <2>2. PICK calendar, name, has : /\ calendar = OnCalendar(line.fields) /\ name = <<"cron">> \o f.path.name
                                     /\ has = f.text.holds
        OBVIOUS
    <2>3. calendar = [i \in 1..5 |-> calendar[i]]
        BY <2>2 DEF OnCalendar
    <2>4. IsList(calendar) /\ Len(calendar) = 5
        BY <2>3, ListOf
    <2>5. x = Timer(name, calendar, line.job, has)
        BY <2>1, <2>2 DEF CronTimer
    <2>6. x.timer_content = TimerText(calendar)
        BY <2>5 DEF Timer, GeneratedTimerUnit
    <2>7. Len(TimerText(calendar).of) = 6
        BY <2>4, CalendarLength
    <2> QED BY <2>6, <2>7
<1>2. CASE \E p \in ToSet(Periods) : \E f \in ToSet(h.files) : ScriptTimer(x, f, p)
    <2>1. PICK p \in ToSet(Periods) : \E f \in ToSet(h.files) : ScriptTimer(x, f, p)
        BY <1>2
    <2>2. PICK f : ScriptTimer(x, f, p)
        BY <2>1
    <2>3. PICK calendar, name, job : /\ calendar = p.calendar /\ name = <<"cron", p.name>> \o f.path.name
                                     /\ job = Last(f.path.name)
        OBVIOUS
    <2>4. x = Timer(name, calendar, job, {})
        BY <2>2, <2>3 DEF ScriptTimer
    <2>5. IsList(calendar) /\ Len(calendar) = 5
        BY <2>3, PeriodsAre
    <2>6. x.timer_content = TimerText(calendar)
        BY <2>4 DEF Timer, GeneratedTimerUnit
    <2>7. Len(TimerText(calendar).of) = 6
        BY <2>5, CalendarLength
    <2> QED BY <2>6, <2>7
<1> QED BY <1>1, <1>2 DEF IsTimerOf

(* The timers of the administrator.                                        *)
IsLocalTimer(f) == f.path.top = "etc" /\ f.path.dir = UnitDir /\ Suffix(f.path) = "timer" /\ f.text # NoText

LocalTimer(x, f, files) ==
    /\ x.name = Front(f.path.name) /\ x.timer_content = f.text
    /\ \/ /\ x.service_content = NoText
          /\ \A g \in files : g.path # UnitPath(Append(Front(f.path.name), "service"))
       \/ \E g \in files : /\ g.path = UnitPath(Append(Front(f.path.name), "service"))
                           /\ x.service_content = g.text

LEMMA LocalTimersFound ==
    ASSUME NEW h \in Hosts, NEW t, t = LocalTimers(h)
    PROVE  /\ IsList(t)
           /\ \A x \in ToSet(t) : DOMAIN x = {"name", "source", "timer_content", "service_content"}
           /\ \A x \in ToSet(t) : \E f \in ToSet(h.files) : IsLocalTimer(f) /\ LocalTimer(x, f, ToSet(h.files))
           /\ \A f \in ToSet(h.files) : IsLocalTimer(f) =>
                \E x \in ToSet(t) : LocalTimer(x, f, ToSet(h.files))
<1> DEFINE places == {n \in DOMAIN h.files : IsLocalTimer(h.files[n])}
           of(f)  == {n \in DOMAIN h.files : h.files[n].path = UnitPath(Append(Front(f.path.name), "service"))}
           service(f) == Picked(h.files, of(f))
<1>1. PICK all, files, S : /\ all = h.files /\ files = Picked(all, places)
                           /\ S = {f \in ToSet(all) : IsLocalTimer(f)}
    OBVIOUS
<1>2. IsList(all) /\ places \subseteq DOMAIN all /\ \A n \in DOMAIN all : n \in places <=> all[n] \in S
    BY <1>1, ListsOfHost DEF ToSet
<1>3. t = [i \in DOMAIN files |->
                SystemdTimer(Front(files[i].path.name), "local", files[i].text,
                    IF service(files[i]) = <<>> THEN NoText ELSE service(files[i])[1].text)]
    BY <1>1 DEF LocalTimers, Select, IsLocalTimer
<1>4. ASSUME NEW f
      PROVE  \/ /\ service(f) = <<>>
                /\ \A g \in ToSet(h.files) : g.path # UnitPath(Append(Front(f.path.name), "service"))
             \/ /\ service(f) # <<>>
                /\ \E g \in ToSet(h.files) :
                        g.path = UnitPath(Append(Front(f.path.name), "service")) /\ service(f)[1] = g
    <2>1. PICK p, s : p = of(f) /\ s = service(f)
        OBVIOUS
    <2>2. p \in SUBSET DOMAIN all /\ s = Picked(all, p)
        BY <1>1, <2>1
    <2>3. IsList(s) /\ ToSet(s) = {all[n] : n \in p} /\ (s = <<>> <=> p = {})
        BY <1>2, <2>2, PickedFacts
    <2>5. p = {} => \A g \in ToSet(h.files) : g.path # UnitPath(Append(Front(f.path.name), "service"))
        BY <2>1 DEF ToSet
    <2>4. CASE s # <<>>
        <3>1. 1 \in DOMAIN s
            BY <2>3, <2>4, ListFacts
        <3>2. s[1] \in ToSet(s)
            BY <3>1 DEF ToSet
        <3>3. PICK n \in p : s[1] = all[n]
            BY <2>3, <3>2
        <3>4. n \in DOMAIN h.files
            BY <1>1, <2>2, <3>3
        <3>5. s[1] = h.files[n] /\ h.files[n] \in ToSet(h.files)
            BY <1>1, <3>3, <3>4 DEF ToSet
        <3>6. h.files[n].path = UnitPath(Append(Front(f.path.name), "service"))
            BY <2>1, <3>3
        <3> QED BY <2>1, <2>4, <3>5, <3>6
    <2> QED BY <2>1, <2>3, <2>4, <2>5
<1> HIDE DEF places, of, service
<1>5. IsList(files) /\ ToSet(files) = ToSet(all) \cap S
    BY ONLY <1>1, <1>2, PickedSet
<1>6. \A i \in DOMAIN files : LocalTimer(t[i], files[i], ToSet(h.files))
                              /\ DOMAIN t[i] = {"name", "source", "timer_content", "service_content"}
    <2> TAKE i \in DOMAIN files
    <2>1. PICK f, s : f = files[i] /\ s = service(f)
        OBVIOUS
    <2>2. t[i] = SystemdTimer(Front(f.path.name), "local", f.text, IF s = <<>> THEN NoText ELSE s[1].text)
        BY <1>3, <2>1
    <2>3. \/ /\ s = <<>>
             /\ \A g \in ToSet(h.files) : g.path # UnitPath(Append(Front(f.path.name), "service"))
          \/ /\ s # <<>>
             /\ \E g \in ToSet(h.files) :
                    g.path = UnitPath(Append(Front(f.path.name), "service")) /\ s[1] = g
        BY <1>4, <2>1
    <2> QED BY <2>1, <2>2, <2>3 DEF SystemdTimer, LocalTimer
<1>7. t = [i \in DOMAIN files |-> t[i]]
    BY <1>3
<1>8. IsList(t) /\ DOMAIN t = DOMAIN files
    BY <1>5, <1>7, MapFacts
<1>9. \A f \in ToSet(files) : f \in ToSet(h.files) /\ IsLocalTimer(f)
    BY <1>1, <1>5
<1>10. \A x \in ToSet(t) : \E f \in ToSet(files) : LocalTimer(x, f, ToSet(h.files))
    BY <1>6, <1>8 DEF ToSet
<1>11. \A f \in ToSet(files) : \E x \in ToSet(t) : LocalTimer(x, f, ToSet(h.files))
    BY <1>6, <1>8 DEF ToSet
<1>12. \A f \in ToSet(h.files) : IsLocalTimer(f) => f \in ToSet(files)
    BY <1>1, <1>5
<1>13. \A x \in ToSet(t) : DOMAIN x = {"name", "source", "timer_content", "service_content"}
    BY <1>6, <1>8 DEF ToSet
<1> QED BY <1>8, <1>9, <1>10, <1>11, <1>12, <1>13

(* The place each element picked comes from.                               *)
LEMMA PickedPlaces ==
    ASSUME NEW list, IsList(list), NEW places \in SUBSET DOMAIN list
    PROVE  \A i \in DOMAIN Picked(list, places) : \E n \in places :
                Rank(places, n) = i /\ Picked(list, places)[i] = list[n]
<1> DEFINE at(i) == CHOOSE n \in places : Rank(places, n) = i
           p == Picked(list, places)
<1>1. /\ IsFiniteSet(places) /\ places \in SUBSET Nat
    BY ListFacts, FS_Subset
<1>2. p = [i \in 1..Cardinality(places) |-> list[at(i)]]
    BY DEF Picked, Rank
<1>3. \A i \in 1..Cardinality(places) : at(i) \in places /\ Rank(places, at(i)) = i
    BY <1>1, RanksAreNumbers
<1> QED BY <1>2, <1>3

LEMMA DedupDistinct ==
    ASSUME NEW items, Records(items, Fields("items")),
           \A i \in DOMAIN items : items[i].confidence \in 0..2
    PROVE  \A i, j \in DOMAIN Dedup(items) : Dedup(items)[i].path = Dedup(items)[j].path => i = j
<1> DEFINE list == [i \in DOMAIN items |-> [at |-> i, path |-> items[i].path]]
           places == {n \in DOMAIN list : \A j \in 1..(list[n].at - 1) : items[j].path # list[n].path}
<1>1. IsList(items) /\ DOMAIN items = 1..Len(items) /\ Len(items) \in Nat
    BY ListFacts DEF Records
<1>2. PICK l, p, firsts, d : l = list /\ p = places /\ firsts = Picked(l, p) /\ d = Dedup(items)
    OBVIOUS
<1>3. /\ l = [i \in DOMAIN items |-> l[i]] /\ \A n \in DOMAIN items : l[n].path = items[n].path
      /\ p \in SUBSET DOMAIN items
      /\ \A n \in p : \A j \in 1..(n - 1) : items[j].path # items[n].path
    BY <1>2
<1>4. d = [i \in DOMAIN firsts |-> Best(items, firsts[i].path)]
    BY <1>2 DEF Dedup, Select
<1> HIDE DEF list, places
<1>5. IsList(l) /\ DOMAIN l = DOMAIN items
    BY <1>1, <1>3, MapFacts
<1>6. \A i \in DOMAIN firsts : \E n \in p : Rank(p, n) = i /\ firsts[i] = l[n]
    BY <1>2, <1>3, <1>5, PickedPlaces
<1>7. \A i \in DOMAIN firsts : d[i].path = firsts[i].path
    <2>1. \A i \in DOMAIN firsts : \E n \in DOMAIN items : items[n].path = firsts[i].path
        BY <1>3, <1>6
    <2> QED BY <1>1, <1>4, <2>1, BestIsThere
<1>8. SUFFICES ASSUME NEW i \in DOMAIN firsts, NEW j \in DOMAIN firsts, d[i].path = d[j].path
               PROVE  i = j
    BY <1>2, <1>4
<1>9. PICK n \in p : Rank(p, n) = i /\ firsts[i] = l[n]
    BY <1>6
<1>10. PICK m \in p : Rank(p, m) = j /\ firsts[j] = l[m]
    BY <1>6
<1>11. items[n].path = items[m].path /\ n \in 1..Len(items) /\ m \in 1..Len(items)
    BY <1>1, <1>3, <1>7, <1>8, <1>9, <1>10
<1>12. ~(n < m) /\ ~(m < n)
    BY <1>1, <1>3, <1>11
<1>13. n = m
    BY <1>1, <1>11, <1>12
<1> QED BY <1>9, <1>10, <1>13

(* Before the first rendering timers and software are not looked for yet,  *)
(* or as they were found.                                                  *)
LEMMA SoFar ==
    ASSUME WholeInv, ~Reported
    PROVE  /\ snap.generated_timer_units = <<>> \/ \E s, a : IsSnapshot(s)
                /\ snap.generated_timer_units = RunScheduled(s, host, a).generated_timer_units
           /\ snap.items = <<>> \/ \E s : IsSnapshot(s) /\ snap.items = RunSoftware(s, host).items
<1>1. PICK u \in {{}, Modified} : InspectedAs(u)
    BY DEF WholeInv, InspectedInv
<1>2. PICK h, a : h = host /\ a = answered
    OBVIOUS
<1>3. h \in Hosts
    BY <1>2 DEF WholeInv, MigrationInv
<1>4. PICK f0, f1, f2, f3, f4, f5, f6, f7 :
            /\ f0 = Found0(h) /\ f1 = Found1(h, a, u) /\ f2 = Found2(h, a, u) /\ f3 = Found3(h, a, u)
            /\ f4 = Found4(h, a, u) /\ f5 = Found5(h, a, u) /\ f6 = Found6(h, a, u) /\ f7 = Found7(h, a, u)
    OBVIOUS
<1>5. /\ IsSnapshot(f0) /\ IsSnapshot(f1) /\ IsSnapshot(f2) /\ IsSnapshot(f3) /\ IsSnapshot(f4)
      /\ IsSnapshot(f5) /\ IsSnapshot(f6)
    BY <1>3, <1>4, FoundSnapshots
<1>6. PICK p, b, l, o : /\ p = ("paths" \in a) /\ l = ("systemctl" \in a) /\ o = ("owners" \in a)
                        /\ b = IF "presets" \in a THEN h.base_presets ELSE None
    OBVIOUS
<1>7. /\ f1 = RunRepos(RunConfig(f0, h, p, u), h) /\ f2 = RunServices(f1, h, b, l, o)
      /\ f3 = RunNetwork(f2, h) /\ f4 = RunScheduled(f3, h, p) /\ f5 = RunContainers(f4, h)
      /\ f6 = RunSoftware(f5, h) /\ f7 = RunKernel(f6, h)
    BY <1>4, <1>6 DEF Found1, Found2, Found3, Found4, Found5, Found6, Found7
<1>8. f0["generated_timer_units"] = <<>> /\ f0["items"] = <<>>
    <2>1. EmptySnapshot["generated_timer_units"] = <<>> /\ EmptySnapshot["items"] = <<>>
        BY DEF EmptySnapshot
    <2> QED BY <1>3, <1>4, <2>1, Found0IsSnapshot DEF Parts, Lists
<1>9. \A d \in {"generated_timer_units", "items"} : /\ f1[d] = f0[d] /\ f2[d] = f1[d] /\ f3[d] = f2[d]
                                                    /\ f5[d] = f4[d] /\ f7[d] = f6[d]
    <2>1. \A d \in {"generated_timer_units", "items"} : f1[d] = f0[d]
        <3>1. \A d \in {"generated_timer_units", "items"} : d \in Parts \ {"config", "repo_files", "gpg_keys"}
            BY DEF Parts, Lists
        <3>2. \A d \in Parts \ {"config", "repo_files", "gpg_keys"} : RunRepos(RunConfig(f0, h, p, u), h)[d] = f0[d]
            BY <1>5, OwnConfig
        <3> QED BY <1>7, <3>1, <3>2
    <2>2. \A d \in {"generated_timer_units", "items"} : f2[d] = f1[d]
        BY <1>5, <1>7, LeftAlone
    <2>3. \A d \in {"generated_timer_units", "items"} : f3[d] = f2[d]
        BY <1>5, <1>7, LeftAlone
    <2>4. \A d \in {"generated_timer_units", "items"} : f5[d] = f4[d]
        BY <1>5, <1>7, LeftAlone
    <2>5. \A d \in {"generated_timer_units", "items"} : f7[d] = f6[d]
        BY <1>5, <1>7, LeftAlone
    <2> QED BY <2>1, <2>2, <2>3, <2>4, <2>5
<1>10. f4.items = f3.items /\ f6.generated_timer_units = f5.generated_timer_units
    <2>1. RunScheduled(f3, h, p).items = f3.items
        BY <1>5, LeftAlone
    <2>2. RunSoftware(f5, h).generated_timer_units = f5.generated_timer_units
        BY <1>5, LeftAlone
    <2> QED BY <1>7, <2>1, <2>2
<1>11. /\ \A f \in {f0, f1, f2, f3} : f.generated_timer_units = <<>> /\ f.items = <<>>
       /\ \A f \in {f4, f5, f6, f7} : f.generated_timer_units = f4.generated_timer_units
       /\ \A f \in {f4, f5} : f.items = <<>>
       /\ \A f \in {f6, f7} : f.items = f6.items
    BY <1>8, <1>9, <1>10
<1>12. snap \in {f0, f1, f2, f3, f4, f5, f6, f7}
    BY <1>1, <1>2, <1>4 DEF WholeInv, PlaceInv, Phases, Reported, InspectedAs
<1> QED BY <1>2, <1>5, <1>7, <1>11, <1>12

(* The items found have a place each.                                      *)
LEMMA ItemsDistinct ==
    ASSUME NEW s, IsSnapshot(s), NEW h \in Hosts, NEW t, t = RunSoftware(s, h).items
    PROVE  \A i, j \in DOMAIN t : t[i].path = t[j].path => i = j
<1>1. PICK found : t = Dedup(found) /\ Projects(found) /\ Sure(found)
    <2>1. PICK a, b, g, c, d, e, f : /\ a = ScanDirs(h.apps) /\ b = ScanVenvs(h.apps)
                /\ g = ScanDists(h.dists) /\ c = ScanRequirements(h.apps)
                /\ d = ScanLocks(h.apps, "package-lock.json", "npm package-lock.json")
                /\ e = ScanLocks(h.apps, "yarn.lock", "yarn.lock")
                /\ f = ScanLocks(h.apps, "Gemfile.lock", "gem Gemfile.lock")
        OBVIOUS
    <2>2. t = Dedup(a \o b \o g \o c \o d \o e \o f)
        BY <2>1 DEF RunSoftware, IsSnapshot, Parts, Lists
    <2>3. /\ Projects(a) /\ Sure(a) /\ Projects(b) /\ Sure(b) /\ Projects(g) /\ Sure(g)
          /\ Projects(c) /\ Sure(c) /\ Projects(d) /\ Sure(d) /\ Projects(e) /\ Sure(e) /\ Projects(f) /\ Sure(f)
        BY <2>1, ScansAreProjects
    <2>4. Projects(a \o b \o g \o c \o d \o e \o f) /\ Sure(a \o b \o g \o c \o d \o e \o f)
        BY <2>3, ConcatProjects
    <2> QED BY <2>2, <2>4
<1>2. Records(found, Fields("items")) /\ \A i \in DOMAIN found : found[i].confidence \in 0..2
    BY <1>1 DEF Projects, Sure, ToSet
<1> QED BY <1>1, <1>2, DedupDistinct

(* The timers and the software of a report are like those found.           *)
LEMMA SnapFound ==
    ASSUME WholeInv, Reported
    PROVE  \E f4, f6, s, r, a : /\ LikeAll(snap.generated_timer_units, f4.generated_timer_units)
                                /\ LikeAll(snap.systemd_timers, f4.systemd_timers)
                                /\ LikeAll(snap.items, f6.items)
                                /\ IsSnapshot(s) /\ f4 = RunScheduled(s, host, a) /\ a = ("paths" \in answered)
                                /\ IsSnapshot(r) /\ f6 = RunSoftware(r, host)
<1>1. PICK u \in {{}, Modified} : InspectedAs(u)
    BY DEF WholeInv, InspectedInv
<1>2. PICK o \in Overrides : Alike(snap, Found(host, answered, u, o))
    BY <1>1 DEF InspectedAs
<1>3. PICK h, a, s, t : h = host /\ a = answered /\ s = snap /\ t = Found(h, a, u, o)
    OBVIOUS
<1>4. h \in Hosts /\ Alike(s, t)
    BY <1>2, <1>3 DEF WholeInv, MigrationInv
<1>5. PICK f3, f4, f5, f6, p : /\ f3 = Found3(h, a, u) /\ f4 = Found4(h, a, u) /\ f5 = Found5(h, a, u)
                               /\ f6 = Found6(h, a, u) /\ p = ("paths" \in a)
    OBVIOUS
<1>6. IsSnapshot(f3) /\ IsSnapshot(f5)
    BY <1>4, <1>5, FoundSnapshots
<1>7. f4 = RunScheduled(f3, h, p) /\ f6 = RunSoftware(f5, h)
    BY <1>5 DEF Found4, Found6
<1>8. /\ LikeAll(s.generated_timer_units, t.generated_timer_units)
      /\ LikeAll(s.systemd_timers, t.systemd_timers) /\ LikeAll(s.items, t.items)
    BY <1>4 DEF Alike, Lists
<1>9. /\ t["generated_timer_units"] = f4["generated_timer_units"]
      /\ t["systemd_timers"] = f4["systemd_timers"]
    BY <1>3, <1>4, <1>5, FoundSections
<1>10. t["items"] = f6["items"]
    BY <1>3, <1>4, <1>5, FoundSections
<1> QED BY <1>3, <1>5, <1>6, <1>7, <1>8, <1>9, <1>10

(* What the units, the timers and the items are, all the time.             *)
LEMMA TimersAreTyped ==
    ASSUME WholeInv
    PROVE  \A i \in DOMAIN snap.generated_timer_units :
                Len(snap.generated_timer_units[i].timer_content.of) = 6
<1>1. PICK list, h : list = snap.generated_timer_units /\ h = host
    OBVIOUS
<1>2. h \in Hosts
    BY <1>1 DEF WholeInv, MigrationInv
<1>3. ASSUME NEW found, NEW s, IsSnapshot(s), NEW a, found = RunScheduled(s, h, a).generated_timer_units
      PROVE  \A i \in DOMAIN found : /\ Len(found[i].timer_content.of) = 6
                                     /\ "timer_content" \in DOMAIN found[i]
    <2>1. TimersOf(found, h, a)
        BY <1>2, <1>3, TimersFound
    <2>2. \A i \in DOMAIN found : found[i] \in ToSet(found)
        BY DEF ToSet
    <2>3. \A i \in DOMAIN found : Len(found[i].timer_content.of) = 6
        BY <2>1, <2>2, TimerLength DEF TimersOf
    <2>4. Records(found, Fields("generated_timer_units"))
        BY <1>2, <1>3, ScheduledSnapshot DEF Jobs
    <2> QED BY <2>2, <2>3, <2>4, FieldsAre DEF Records
<1>4. CASE ~Reported
    <2>1. list = <<>> \/ \E s, a : IsSnapshot(s) /\ list = RunScheduled(s, h, a).generated_timer_units
        BY <1>1, <1>4, SoFar
    <2>2. DOMAIN <<>> = {}
        OBVIOUS
    <2> QED BY <1>1, <1>3, <2>1, <2>2
<1>5. CASE Reported
    <2>1. PICK found, s, a : /\ LikeAll(list, found) /\ IsSnapshot(s)
                             /\ found = RunScheduled(s, h, a).generated_timer_units
        BY <1>1, <1>5, SnapFound
    <2>2. ASSUME NEW i \in DOMAIN list PROVE Len(list[i].timer_content.of) = 6
        <3>1. i \in DOMAIN found /\ Like(list[i], found[i])
            BY <2>1 DEF LikeAll
        <3>2. list[i].timer_content = found[i].timer_content
            BY <1>3, <2>1, <3>1 DEF Like, Marked
        <3> QED BY <1>3, <2>1, <3>1, <3>2
    <2> QED BY <1>1, <2>2
<1> QED BY <1>4, <1>5

LEMMA ItemsAreTyped ==
    ASSUME WholeInv
    PROVE  \A i, j \in DOMAIN snap.items : snap.items[i].path = snap.items[j].path => i = j
<1>1. PICK list, h : list = snap.items /\ h = host
    OBVIOUS
<1>2. h \in Hosts
    BY <1>1 DEF WholeInv, MigrationInv
<1>4. CASE ~Reported
    <2>1. list = <<>> \/ \E s : IsSnapshot(s) /\ list = RunSoftware(s, h).items
        BY <1>1, <1>4, SoFar
    <2>2. DOMAIN <<>> = {}
        OBVIOUS
    <2>3. \A i, j \in DOMAIN list : list[i].path = list[j].path => i = j
        BY <1>2, <2>1, <2>2, ItemsDistinct
    <2> QED BY <1>1, <2>3
<1>5. CASE Reported
    <2>1. PICK found, s : LikeAll(list, found) /\ IsSnapshot(s) /\ found = RunSoftware(s, h).items
        BY <1>1, <1>5, SnapFound
    <2>2. \A i \in DOMAIN found : "path" \in DOMAIN found[i]
        <3>1. Records(found, Fields("items"))
            BY <1>2, <2>1, SoftwareSnapshot DEF Projects
        <3> QED BY <3>1, FieldsAre DEF Records, ToSet
    <2>3. \A i \in DOMAIN list : i \in DOMAIN found /\ list[i].path = found[i].path
        BY <2>1, <2>2 DEF LikeAll, Like, Marked
    <2>4. \A i, j \in DOMAIN found : found[i].path = found[j].path => i = j
        BY <1>2, <2>1, ItemsDistinct
    <2>5. \A i, j \in DOMAIN list : list[i].path = list[j].path => i = j
        BY <2>3, <2>4
    <2> QED BY <1>1, <2>5
<1> QED BY <1>4, <1>5

LEMMA ImageIsTyped ==
    ASSUME WholeInv
    PROVE  /\ image.packages \subseteq ToSet(host.packages) \cup host.base
                                        \cup {"nodejs", "npm", "python3-pip"}
           /\ image.enabled \subseteq DOMAIN host.units \cup {Append(t.name, "timer") :
                        t \in ToSet(snap.generated_timer_units) \cup ToSet(snap.systemd_timers)}
<1>1. CASE ~Building
    BY <1>1 DEF WholeInv, PlaceInv, NoImage
<1>2. CASE Building
    <2>1. PICK sets : sets = Instructions(snap, tree.config)
        OBVIOUS
    <2>2. IsSnapshot(snap) /\ Reported
        BY <1>2 DEF WholeInv, MigrationInv, Building, Reported
    <2>3. IsList(snap.items) /\ IsList(snap.generated_timer_units)
        BY <2>2 DEF IsSnapshot, Records, Lists
    <2>4. ASSUME NEW x \in Done, x.do = "install"
          PROVE  x.args \subseteq ToSet(host.packages) \cup {"nodejs", "npm", "python3-pip"}
        <3>1. PICK k \in 1..14 : x \in sets[k]
            BY <1>2, <2>1, DoneKinds
        <3>2. x.args = Installed(snap) \/ x.args = Needed(snap)
            BY <2>1, <2>4, <3>1, InstructionKinds
        <3>3. Needed(snap) \subseteq {"nodejs", "npm", "python3-pip"}
            BY DEF Needed
        <3> QED BY <2>2, <3>2, <3>3, PackagesOfHost
    <2>5. Args("install", Done) \subseteq ToSet(host.packages) \cup {"nodejs", "npm", "python3-pip"}
        BY <2>4 DEF Args, Of
    <2>6. image.packages = host.base \cup Args("install", Done)
        BY <1>2 DEF WholeInv, ContentInv
    <2>7. SUFFICES ASSUME NEW u \in image.enabled, u \notin PresetUnits(image.packages)
                   PROVE  u \in DOMAIN host.units \cup {Append(t.name, "timer") :
                            t \in ToSet(snap.generated_timer_units) \cup ToSet(snap.systemd_timers)}
        BY <2>5, <2>6 DEF PresetUnits
    <2>8. PICK x \in Of("enable", Done) : u \in x.args
        BY <1>2, <2>7 DEF WholeInv, UnitsInv, OnlyEnabled
    <2>9. PICK k \in 1..14 : x \in sets[k]
        BY <1>2, <2>1, <2>8, DoneKinds DEF Of
    <2>10. x.args = EnabledEarly(snap) \/ x.args = TimerUnits(snap)
        BY <2>1, <2>8, <2>9, InstructionKinds DEF Of
    <2>11. CASE x.args = EnabledEarly(snap)
        BY <2>2, <2>8, <2>11, UnitsOfHost DEF EnabledEarly
    <2>12. CASE x.args = TimerUnits(snap)
        <3>1. ToSet(Kept(snap.generated_timer_units)) \subseteq ToSet(snap.generated_timer_units)
            BY <2>3, KeptFacts
        <3> QED BY <2>8, <2>12, <3>1 DEF TimerUnits, TimerNames
    <2> QED BY <2>10, <2>11, <2>12
<1> QED BY <1>1, <1>2

\* Every state of a migration has its types, whatever the host, the answers and
\* the edits: one item for each place, timers of five parts, and packages and
\* units of the host or of the tool.
THEOREM MigrationTypes == MigrationSpec => []MigrationTypeOK
<1>1. MigrationInit => EditsInv
    BY EditsInit
<1>2. WholeInv /\ EditsInv /\ [MigrationNext]_migrationVars => EditsInv'
    BY EditsStep DEF WholeInv
<1>3. WholeInv /\ EditsInv => MigrationTypeOK
    <2> SUFFICES ASSUME WholeInv, EditsInv PROVE MigrationTypeOK
        OBVIOUS
    <2>1. phase \in Phases /\ answered \subseteq Questions /\ pc \in 1..(Len(program) + 1)
        BY DEF WholeInv, PlaceInv, InspectedInv
    <2>2. Cardinality(edits) <= MaxEdits
        BY DEF EditsInv
    <2>3. \A e \in edits : e[1] = "strategy" \/ e[2] \in DOMAIN snap[e[1]]
        <3> TAKE e \in edits
        <3>1. CASE \E d \in {"users", "groups"} : \E i \in DOMAIN snap[d] : e = <<"strategy", d, i>>
            BY <3>1
        <3>2. CASE \E d \in Checkboxes : \E i \in DOMAIN snap[d] : e = <<d, i>>
            BY <3>2
        <3> QED BY <3>1, <3>2 DEF EditsInv, IsEdit
    <2>4. image.packages \subseteq ToSet(host.packages) \cup host.base \cup {"nodejs", "npm", "python3-pip"}
        BY ImageIsTyped
    <2>5. image.enabled \subseteq DOMAIN host.units \cup {Append(t.name, "timer") :
                        t \in ToSet(snap.generated_timer_units) \cup ToSet(snap.systemd_timers)}
        BY ImageIsTyped
    <2> QED BY <2>1, <2>2, <2>3, <2>4, <2>5, TimersAreTyped, ItemsAreTyped DEF MigrationTypeOK
<1> QED BY <1>1, <1>2, <1>3, WholeInvariant, PTL DEF MigrationSpec
-----------------------------------------------------------------------------
(* The units of the host                                                   *)

(* s has of the units of current those that differ from the presets, with  *)
(* the package that owns them if that is known.                            *)
UnitsOf(s, h, current, presets, answers) ==
    LET action(u) == Action(current[u], DefaultState(presets, u))
    IN  /\ s.enabled_units = {u \in DOMAIN current : action(u) = "enable"}
        /\ s.disabled_units = {u \in DOMAIN current : action(u) = "disable"}
        /\ \A u \in DOMAIN current :
                s.state_changes[u].owning_package = OwningPackage(h, answers, u, action(u))

LEMMA UnitsFound ==
    ASSUME NEW s, IsSnapshot(s), s.enabled_units = {}, s.disabled_units = {}, NEW h, NEW base,
           NEW lists, NEW answers, NEW current, current = IF lists THEN ListUnitFiles(h) ELSE ScanUnitFiles(h),
           NEW presets, presets = ParsePresetFiles(h, base)
    PROVE  UnitsOf(RunServices(s, h, base, lists, answers), h, current, presets, answers)
<1>1. PICK t : t = RunServices(s, h, base, lists, answers)
    OBVIOUS
<1>2. CASE DOMAIN current = {}
    <2>1. t = s
        BY <1>1, <1>2 DEF RunServices
    <2> QED BY <1>1, <1>2, <2>1 DEF UnitsOf
<1>3. CASE DOMAIN current # {}
    <2>1. PICK default, action :
            /\ default = [u \in DOMAIN current |-> DefaultState(presets, u)]
            /\ action = [u \in DOMAIN current |-> Action(current[u], DefaultState(presets, u))]
        OBVIOUS
    <2>2. t = [s EXCEPT
                !.state_changes  = [u \in DOMAIN current |->
                    ServiceStateChange(current[u], default[u], action[u],
                                       OwningPackage(h, answers, u, action[u]))],
                !.enabled_units  = {u \in DOMAIN current : action[u] = "enable"},
                !.disabled_units = {u \in DOMAIN current : action[u] = "disable"},
                !.drop_ins       = DropIns(h)]
        <3>1. \A u \in DOMAIN current : /\ default[u] = DefaultState(presets, u)
                                        /\ action[u] = Action(current[u], DefaultState(presets, u))
            BY <2>1
        <3>2. [u \in DOMAIN current |->
                    ServiceStateChange(current[u], default[u], action[u],
                                       OwningPackage(h, answers, u, action[u]))]
              = [u \in DOMAIN current |->
                    ServiceStateChange(current[u], DefaultState(presets, u),
                                       Action(current[u], DefaultState(presets, u)),
                                       OwningPackage(h, answers, u, Action(current[u], DefaultState(presets, u))))]
            BY <3>1
        <3>3. /\ {u \in DOMAIN current : action[u] = "enable"}
                    = {u \in DOMAIN current : Action(current[u], DefaultState(presets, u)) = "enable"}
              /\ {u \in DOMAIN current : action[u] = "disable"}
                    = {u \in DOMAIN current : Action(current[u], DefaultState(presets, u)) = "disable"}
            BY <3>1
        <3>4. t = [s EXCEPT
                    !.state_changes  = [u \in DOMAIN current |->
                        ServiceStateChange(current[u], DefaultState(presets, u),
                                           Action(current[u], DefaultState(presets, u)),
                                           OwningPackage(h, answers, u, Action(current[u], DefaultState(presets, u))))],
                    !.enabled_units  = {u \in DOMAIN current : Action(current[u], DefaultState(presets, u)) = "enable"},
                    !.disabled_units = {u \in DOMAIN current : Action(current[u], DefaultState(presets, u)) = "disable"},
                    !.drop_ins       = DropIns(h)]
            BY <1>1, <1>3, Zenon DEF RunServices
        <3> QED BY ONLY <3>2, <3>3, <3>4
    <2>3. /\ t.enabled_units = {u \in DOMAIN current : action[u] = "enable"}
          /\ t.disabled_units = {u \in DOMAIN current : action[u] = "disable"}
          /\ \A u \in DOMAIN current :
                t.state_changes[u].owning_package = OwningPackage(h, answers, u, action[u])
        BY <2>2 DEF IsSnapshot, Parts, Lists, ServiceStateChange
    <2> QED BY <1>1, <2>1, <2>3 DEF UnitsOf
<1> QED BY <1>2, <1>3

LEMMA SnapUnits ==
    ASSUME WholeInv, Reported, NEW current, NEW presets, NEW answers,
           current = IF "systemctl" \in answered THEN ListUnitFiles(host) ELSE ScanUnitFiles(host),
           presets = ParsePresetFiles(host, BasePresets), answers = ("owners" \in answered)
    PROVE  UnitsOf(snap, host, current, presets, answers)
<1>1. PICK u \in {{}, Modified} : InspectedAs(u)
    BY DEF WholeInv, InspectedInv
<1>2. PICK o \in Overrides : Alike(snap, Found(host, answered, u, o))
    BY <1>1 DEF InspectedAs
<1>3. PICK h, a, s, t : h = host /\ a = answered /\ s = snap /\ t = Found(h, a, u, o)
    OBVIOUS
<1>4. h \in Hosts /\ Alike(s, t)
    BY <1>2, <1>3 DEF WholeInv, MigrationInv
<1>5. PICK f0, f1, f2, p, lists, base : /\ f0 = Found0(h) /\ f1 = Found1(h, a, u) /\ f2 = Found2(h, a, u)
            /\ p = ("paths" \in a) /\ lists = ("systemctl" \in a)
            /\ base = IF "presets" \in a THEN h.base_presets ELSE None
    OBVIOUS
<1>6. IsSnapshot(f0) /\ IsSnapshot(f1) /\ f1 = RunRepos(RunConfig(f0, h, p, u), h)
    BY <1>4, <1>5, FoundSnapshots DEF Found1
<1>7. \A d \in {"enabled_units", "disabled_units"} : f1[d] = {}
    <2>1. \A d \in {"enabled_units", "disabled_units"} : f1[d] = f0[d]
        BY <1>6, OwnConfig DEF Parts, Lists
    <2>2. \A d \in {"enabled_units", "disabled_units"} : f0[d] = EmptySnapshot[d]
        BY <1>4, <1>5, Found0IsSnapshot DEF Parts, Lists
    <2>3. \A d \in {"enabled_units", "disabled_units"} : EmptySnapshot[d] = {}
        BY DEF EmptySnapshot
    <2> QED BY <2>1, <2>2, <2>3
<1>8. f2 = RunServices(f1, h, base, lists, answers)
    BY <1>3, <1>5 DEF Found2
<1>9. /\ current = IF lists THEN ListUnitFiles(h) ELSE ScanUnitFiles(h)
      /\ presets = ParsePresetFiles(h, base)
    BY <1>3, <1>5 DEF BasePresets
<1>10. UnitsOf(f2, h, current, presets, answers)
    BY <1>6, <1>7, <1>8, <1>9, UnitsFound
<1>11. \A d \in {"state_changes", "enabled_units", "disabled_units"} : s[d] = f2[d]
    <2>1. \A d \in {"state_changes", "enabled_units", "disabled_units"} : t[d] = f2[d]
        BY <1>3, <1>4, <1>5, FoundSections
    <2> QED BY <1>4, <2>1 DEF Alike, Parts, Lists
<1> QED BY <1>3, <1>10, <1>11 DEF UnitsOf

(* The units to enable and to disable are of the host, and of the package  *)
(* they are said to be of.                                                 *)
LEMMA OwnersFacts ==
    ASSUME WholeInv, Reported, NEW u \in snap.enabled_units \cup snap.disabled_units
    PROVE  /\ u \in DOMAIN host.units
           /\ snap.state_changes[u].owning_package # None =>
                snap.state_changes[u].owning_package = host.units[u].owner
<1>1. PICK current, presets, answers :
        /\ current = IF "systemctl" \in answered THEN ListUnitFiles(host) ELSE ScanUnitFiles(host)
        /\ presets = ParsePresetFiles(host, BasePresets) /\ answers = ("owners" \in answered)
    OBVIOUS
<1>2. UnitsOf(snap, host, current, presets, answers)
    BY <1>1, SnapUnits
<1>3. DOMAIN current \subseteq DOMAIN host.units
    BY <1>1 DEF ListUnitFiles, ScanUnitFiles, UnitsIn
<1>4. u \in DOMAIN current
    BY <1>2 DEF UnitsOf
<1> QED BY <1>2, <1>3, <1>4 DEF UnitsOf, OwningPackage
-----------------------------------------------------------------------------
(* A failed build                                                          *)

(* The failing step is of a section, and the sections before are done.     *)
LEMMA FailedFacts ==
    ASSUME WholeInv, phase = "failed", NEW sets, sets = Instructions(snap, tree.config),
           NEW x, x = program[pc]
    PROVE  /\ Building /\ Drawn /\ Reported /\ IsSnapshot(snap) /\ host \in Hosts
           /\ tree.config = WriteConfigTree(snap) /\ Projects(snap.items)
           /\ image.packages = host.base \cup Args("install", Done)
           /\ ~Succeeds(x) /\ x.do \in Doings
           /\ \E k \in 1..14 : x \in sets[k] /\ \A l \in 1..(k - 1) : sets[l] \subseteq Done
<1>1. Building /\ Drawn /\ Reported
    BY DEF Building, Drawn, Reported
<1>2. /\ IsSnapshot(snap) /\ host \in Hosts /\ Projects(snap.items)
      /\ tree.config = WriteConfigTree(snap)
    BY <1>1 DEF WholeInv, MigrationInv, InStep
<1>3. image.packages = host.base \cup Args("install", Done)
    BY <1>1 DEF WholeInv, ContentInv
<1>4. /\ IsList(program) /\ Len(program) \in Nat /\ DOMAIN program = 1..Len(program)
      /\ \A i \in DOMAIN program : \E k \in 1..14 :
                /\ program[i] \in sets[k]
                /\ \A l \in 1..(k - 1) : sets[l] \subseteq Before(program, i)
      /\ \A i \in DOMAIN program : program[i].do \in Doings
    <2>1. MigrationInv
        BY DEF WholeInv
    <2> QED BY ONLY <1>1, <2>1, BuiltSteps, sets = Instructions(snap, tree.config)
<1>5. pc \in DOMAIN program /\ ~Succeeds(program[pc])
    BY <1>4 DEF WholeInv, PlaceInv
<1>6. \E k \in 1..14 : /\ program[pc] \in sets[k]
                       /\ \A l \in 1..(k - 1) : sets[l] \subseteq Before(program, pc)
    BY <1>4, <1>5
<1> QED BY <1>1, <1>2, <1>3, <1>4, <1>5, <1>6 DEF Done

(* What is done when the sections of packages are.                         *)
LEMMA PackagesAreThere ==
    ASSUME WholeInv, Building, NEW sets, sets = Instructions(snap, tree.config)
    PROVE  /\ sets[2] \subseteq Done => Installed(snap) \subseteq image.packages
           /\ sets[8] \subseteq Done => Needed(snap) \subseteq image.packages
<1>1. image.packages = host.base \cup Args("install", Done)
    BY DEF WholeInv, ContentInv
<1>2. PICK some, more : some = Installed(snap) /\ more = Needed(snap)
    OBVIOUS
<1>3. some # {} => Step("install", some) \in sets[2]
    BY <1>2 DEF Instructions
<1>4. more # {} => Step("install", more) \in sets[8]
    BY <1>2 DEF Instructions
<1>5. \A y \in {some, more} : Step("install", y) \in Done => y \subseteq image.packages
    BY <1>1 DEF Args, Of, Step
<1> QED BY <1>2, <1>3, <1>4, <1>5

(* A unit of a package that is installed is in the image.                  *)
LEMMA EarlyUnits ==
    ASSUME WholeInv, Reported, Installed(snap) \subseteq image.packages,
           NEW u \in snap.enabled_units \cup snap.disabled_units, UnitInstallable(snap, u)
    PROVE  HasUnit(u) \/ MayBeMissing(u)
<1>1. PICK owner : owner = snap.state_changes[u].owning_package
    OBVIOUS
<1>2. CASE owner = None \/ Installed(snap) = {}
    BY <1>1, <1>2 DEF MayBeMissing, OwnerUnknown
<1>3. CASE owner # None /\ owner \in Installed(snap)
    <2>1. u \in DOMAIN host.units /\ owner = host.units[u].owner
        BY <1>1, <1>3, OwnersFacts
    <2> QED BY <1>3, <2>1 DEF HasUnit
<1> QED BY <1>1, <1>2, <1>3 DEF UnitInstallable

LEMMA EnableEarlyExplained ==
    ASSUME WholeInv, phase = "failed", NEW x, x = program[pc],
           Installed(snap) \subseteq image.packages, ~Succeeds(x)
    PROVE  /\ x.do = "enable" /\ x.args = EnabledEarly(snap) =>
                \E u \in x.args \cap snap.enabled_units : MayBeMissing(u)
           /\ x.do = "disable" /\ x.args = DisabledEarly(snap) =>
                \E u \in x.args \cap snap.disabled_units : MayBeMissing(u)
<1>1. Reported
    BY DEF Reported
<1>2. x.do \in {"enable", "disable"} => \E u \in x.args : ~HasUnit(u)
    BY DEF Succeeds
<1>3. \A u \in EnabledEarly(snap) : u \in snap.enabled_units /\ UnitInstallable(snap, u)
    BY DEF EnabledEarly
<1>4. \A u \in DisabledEarly(snap) : u \in snap.disabled_units /\ UnitInstallable(snap, u)
    BY DEF DisabledEarly
<1>5. ASSUME x.do = "enable", x.args = EnabledEarly(snap)
      PROVE  \E u \in x.args \cap snap.enabled_units : MayBeMissing(u)
    <2>1. PICK u \in x.args : ~HasUnit(u)
        BY <1>2, <1>5
    <2> QED BY <1>1, <1>3, <1>5, <2>1, EarlyUnits
<1>6. ASSUME x.do = "disable", x.args = DisabledEarly(snap)
      PROVE  \E u \in x.args \cap snap.disabled_units : MayBeMissing(u)
    <2>1. PICK u \in x.args : ~HasUnit(u)
        BY <1>2, <1>6
    <2> QED BY <1>1, <1>4, <1>6, <2>1, EarlyUnits
<1> QED BY <1>5, <1>6

(* Timers of a report against those found.                                 *)
SameTimer(x, y) == /\ x.name = y.name /\ x.timer_content = y.timer_content
                   /\ x.service_content.of = y.service_content.of
SameTimers(list, found) ==
    /\ \A x \in ToSet(list) : \E y \in ToSet(found) : SameTimer(x, y)
    /\ \A y \in ToSet(found) : \E x \in ToSet(list) : SameTimer(x, y)

LEMMA LikeTimers ==
    ASSUME NEW list, NEW found, LikeAll(list, found),
           \A y \in ToSet(found) : {"name", "timer_content", "service_content"} \subseteq DOMAIN y
    PROVE  SameTimers(list, found)
<1>1. \A i \in DOMAIN found : SameTimer(list[i], found[i])
    <2> TAKE i \in DOMAIN found
    <2>1. Like(list[i], found[i])
        BY DEF LikeAll
    <2>2. {"name", "timer_content", "service_content"} \subseteq DOMAIN found[i]
        BY DEF ToSet
    <2> QED BY <2>1, <2>2 DEF Like, Marked, SameTimer
<1>2. DOMAIN list = DOMAIN found
    BY DEF LikeAll
<1> QED BY <1>1, <1>2 DEF SameTimers, ToSet

LEMMA ReportedTimers ==
    ASSUME WholeInv, Reported
    PROVE  \E jobs, locals, a :
                /\ a = ("paths" \in answered) /\ TimersOf(jobs, host, a) /\ locals = LocalTimers(host)
                /\ SameTimers(snap.generated_timer_units, jobs) /\ SameTimers(snap.systemd_timers, locals)
<1>1. PICK f4, s, a : /\ LikeAll(snap.generated_timer_units, f4.generated_timer_units)
                      /\ LikeAll(snap.systemd_timers, f4.systemd_timers)
                      /\ IsSnapshot(s) /\ f4 = RunScheduled(s, host, a) /\ a = ("paths" \in answered)
    BY SnapFound
<1>2. PICK h, jobs, locals : h = host /\ jobs = f4.generated_timer_units /\ locals = f4.systemd_timers
    OBVIOUS
<1>3. h \in Hosts /\ f4 = RunScheduled(s, h, a)
    BY <1>1, <1>2 DEF WholeInv, MigrationInv
<1>4. locals = LocalTimers(h)
    BY <1>1, <1>2, <1>3 DEF RunScheduled, IsSnapshot, Parts, Lists
<1>5. TimersOf(jobs, h, a)
    BY <1>1, <1>2, <1>3, TimersFound
<1>6. \A y \in ToSet(jobs) : {"name", "timer_content", "service_content"} \subseteq DOMAIN y
    <2>1. Jobs(jobs)
        BY <1>1, <1>2, <1>3, ScheduledSnapshot
    <2> QED BY <2>1, FieldsAre DEF Jobs, Records
<1>7. \A y \in ToSet(locals) : {"name", "timer_content", "service_content"} \subseteq DOMAIN y
    BY <1>3, <1>4, LocalTimersFound
<1>8. SameTimers(snap.generated_timer_units, jobs)
    BY <1>1, <1>2, <1>6, LikeTimers
<1>9. SameTimers(snap.systemd_timers, locals)
    BY <1>1, <1>2, <1>7, LikeTimers
<1> QED BY <1>1, <1>2, <1>4, <1>5, <1>8, <1>9

(* Every timer has a text.                                                 *)
LEMMA TimerTexts ==
    ASSUME WholeInv, Reported
    PROVE  /\ \A t \in ToSet(snap.systemd_timers) : t.timer_content # NoText
           /\ \A t \in ToSet(snap.generated_timer_units) : t.timer_content # NoText
<1>1. PICK locals : /\ locals = LocalTimers(host)
                    /\ SameTimers(snap.systemd_timers, locals)
    BY ReportedTimers
<1>2. host \in Hosts
    BY DEF WholeInv, MigrationInv
<1>3. \A x \in ToSet(locals) : \E f \in ToSet(host.files) : IsLocalTimer(f) /\ LocalTimer(x, f, ToSet(host.files))
    BY <1>1, <1>2, LocalTimersFound
<1>4. \A x \in ToSet(locals) : x.timer_content # NoText
    BY <1>3 DEF IsLocalTimer, LocalTimer
<1>5. \A t \in ToSet(snap.systemd_timers) : t.timer_content # NoText
    BY <1>1, <1>4 DEF SameTimers, SameTimer
<1>6. \A t \in ToSet(snap.generated_timer_units) : Len(t.timer_content.of) = 6
    BY TimersAreTyped DEF ToSet
<1>7. Len(NoText.of) = 0
    BY EmptyList DEF NoText, Text
<1> QED BY <1>5, <1>6, <1>7

LEMMA TimersInTree ==
    ASSUME WholeInv, Reported, tree.config = WriteConfigTree(snap), NEW n \in TimerNames(snap)
    PROVE  UnitPath(Append(n, "timer")) \in DOMAIN tree.config
<1>1. PICK s, t, layers : s = snap /\ t = tree.config /\ layers = Layers(s)
    OBVIOUS
<1>2. IsSnapshot(s) /\ Projects(s.items) /\ t = WriteConfigTree(s)
    BY <1>1 DEF WholeInv, MigrationInv
<1>3. IsList(s.generated_timer_units)
    BY <1>2 DEF IsSnapshot, Records, Lists
<1>4. \A k \in 1..17 : \A f \in layers[k] : f.path \in DOMAIN t
    <2>1. \A k \in 1..17 : \A l \in k..17 : \A f \in layers[l] : f.path \in DOMAIN t
        BY <1>1, <1>2, TreeFacts
    <2> QED BY <2>1
<1>5. layers[9] = PairsOf(ToSet(Kept(s.generated_timer_units))) /\ layers[10] = PairsOf(ToSet(s.systemd_timers))
    BY <1>1 DEF Layers
<1>6. ASSUME NEW timers, NEW u \in timers, u.timer_content # NoText
      PROVE  \E f \in PairsOf(timers) : f.path = UnitPath(Append(u.name, "timer"))
    <2>1. File(UnitPath(Append(u.name, "timer")), u.timer_content) \in PairsOf(timers)
        BY <1>6 DEF PairsOf
    <2> QED BY <2>1 DEF File
<1>7. CASE \E u \in ToSet(s.systemd_timers) : n = u.name
    <2>1. PICK u \in ToSet(s.systemd_timers) : n = u.name
        BY <1>7
    <2>2. u.timer_content # NoText
        BY <1>1, <2>1, TimerTexts
    <2> QED BY <1>1, <1>4, <1>5, <1>6, <2>1, <2>2
<1>8. CASE \E u \in ToSet(Kept(s.generated_timer_units)) : n = u.name
    <2>1. PICK u \in ToSet(Kept(s.generated_timer_units)) : n = u.name
        BY <1>8
    <2>2. u \in ToSet(s.generated_timer_units)
        BY <1>3, <2>1, KeptFacts
    <2>3. u.timer_content # NoText
        BY <1>1, <2>2, TimerTexts
    <2> QED BY <1>1, <1>4, <1>5, <1>6, <2>1, <2>3
<1> QED BY <1>1, <1>7, <1>8 DEF TimerNames

(* The timers' files are copied before the timers are enabled.             *)
LEMMA TimersAreThere ==
    ASSUME WholeInv, Building, tree.config = WriteConfigTree(snap),
           NEW sets, sets = Instructions(snap, tree.config), sets[5] \subseteq Done,
           NEW u \in TimerUnits(snap)
    PROVE  HasUnit(u)
<1>1. PICK n \in TimerNames(snap) : u = Append(n, "timer")
    BY DEF TimerUnits
<1>2. Reported
    BY DEF Building, Reported
<1>3. UnitPath(u) \in DOMAIN tree.config
    BY <1>1, <1>2, TimersInTree
<1>4. PICK dirs : dirs = {[top |-> "etc", dir |-> UnitDir]}
    OBVIOUS
<1>5. Step("copy", dirs) \in Done
    <2>1. PICK s, t : s = snap /\ t = tree.config
        OBVIOUS
    <2>2. Instructions(s, t)[5] = {x \in {Step("copy", dirs)} : TimerNames(s) # {}}
        BY <1>4 DEF Instructions
    <2> QED BY <1>1, <2>1, <2>2
<1>6. UnitPath(u) \in Brought(Step("copy", dirs))
    BY <1>3, <1>4 DEF Brought, Sources, Step, UnitPath, Path
<1>7. UnitPath(u) \in DOMAIN image.files
    BY <1>5, <1>6 DEF WholeInv, ContentInv
<1> QED BY <1>7 DEF HasUnit

(* The files of a layer are in the tree.                                   *)
LEMMA LayerInTree ==
    ASSUME WholeInv, tree.config = WriteConfigTree(snap), NEW k \in 1..17, NEW f \in Layers(snap)[k]
    PROVE  f.path \in DOMAIN tree.config
<1>1. PICK s, t, layers : s = snap /\ t = tree.config /\ layers = Layers(s)
    OBVIOUS
<1>2. IsSnapshot(s) /\ Projects(s.items) /\ t = WriteConfigTree(s)
    BY <1>1 DEF WholeInv, MigrationInv
<1>3. \A m \in 1..17 : \A l \in m..17 : \A g \in layers[l] : g.path \in DOMAIN t
    BY <1>1, <1>2, TreeFacts
<1>4. k \in k..17 /\ f \in layers[k]
    BY <1>1
<1> QED BY <1>1, <1>3, <1>4

LEMMA ItemInTree ==
    ASSUME WholeInv, tree.config = WriteConfigTree(snap), NEW d \in {"repo_files", "gpg_keys"},
           NEW i \in ToSet(Kept(snap[d]))
    PROVE  i.path \in DOMAIN tree.config
<1>1. PICK s : s = snap
    OBVIOUS
<1>2. IsSnapshot(s)
    BY <1>1 DEF WholeInv, MigrationInv
<1>3. IsList(s[d])
    BY <1>2 DEF IsSnapshot, Records, Lists
<1>4. i \in ToSet(s[d]) /\ i.include
    BY <1>1, <1>3, KeptFacts
<1>5. File(i.path, i.text) \in FilesOf(s[d])
    BY <1>4 DEF FilesOf
<1>6. Layers(s)[2] = FilesOf(s.repo_files) /\ Layers(s)[3] = FilesOf(s.gpg_keys)
    BY DEF Layers
<1>7. File(i.path, i.text) \in Layers(s)[2] \/ File(i.path, i.text) \in Layers(s)[3]
    BY <1>5, <1>6
<1>8. File(i.path, i.text).path = i.path
    BY DEF File
<1>9. PICK f : f = File(i.path, i.text)
    OBVIOUS
<1>10. \E k \in 1..17 : f \in Layers(snap)[k]
    BY <1>1, <1>7, <1>9
<1> QED BY <1>8, <1>9, <1>10, LayerInTree

LEMMA KargsInTree ==
    ASSUME WholeInv, tree.config = WriteConfigTree(snap), OperatorKargs(snap.cmdline) # <<>>
    PROVE  KargsToml \in DOMAIN tree.config
<1>1. PICK s, kargs : s = snap /\ kargs = OperatorKargs(s.cmdline)
    OBVIOUS
<1>2. IsSnapshot(s)
    BY <1>1 DEF WholeInv, MigrationInv
<1>3. IsList(s.cmdline)
    BY <1>2 DEF IsSnapshot, Records, Lists
<1>4. IsList(kargs)
    <2>1. PICK list, places : list = s.cmdline /\ places = {n \in DOMAIN list : ~list[n].bootloader /\ list[n].safe}
        OBVIOUS
    <2>2. kargs = Picked(list, places)
        BY <1>1, <2>1 DEF OperatorKargs, Select
    <2> QED BY <1>3, <2>1, <2>2, PickedFacts
<1>5. PICK lines : lines = [i \in DOMAIN kargs |-> kargs[i].arg]
    OBVIOUS
<1>6. lines # <<>>
    <2>1. DOMAIN lines = DOMAIN kargs /\ IsList(lines)
        BY <1>4, <1>5, MapFacts
    <2>2. Len(kargs) # 0 /\ DOMAIN kargs = 1..Len(kargs) /\ Len(kargs) \in Nat
        BY <1>1, <1>4, ListFacts
    <2>3. DOMAIN <<>> = {}
        OBVIOUS
    <2> QED BY <2>1, <2>2, <2>3
<1>7. PICK text : text = Text(<<"kargs">> \o lines, {})
    OBVIOUS
<1>8. Kargs(s) = <<File(KargsToml, text)>>
    BY <1>1, <1>5, <1>6, <1>7 DEF Kargs, Generated
<1>9. File(KargsToml, text) \in ToSet(Kargs(s))
    BY <1>8, OneElement
<1>10. Layers(s)[16] = ToSet(Kargs(s))
    BY DEF Layers
<1>11. File(KargsToml, text).path = KargsToml
    BY DEF File
<1> QED BY <1>1, <1>9, <1>10, <1>11, LayerInTree

(* A directory that is copied has files.                                   *)
LEMMA CopyFinds ==
    ASSUME WholeInv, Reported, tree.config = WriteConfigTree(snap), NEW k \in 1..14,
           NEW x \in Instructions(snap, tree.config)[k], x.do = "copy"
    PROVE  Sources(x) # {}
<1>1. PICK s, t : s = snap /\ t = tree.config
    OBVIOUS
<1>2. IsSnapshot(s)
    BY <1>1 DEF WholeInv, MigrationInv
<1>3. ASSUME NEW p \in DOMAIN tree.config, [top |-> p.top, dir |-> p.dir] \in x.args PROVE Sources(x) # {}
    BY <1>3 DEF Sources
<1>4. \/ x.args = CopyDirs(s.gpg_keys) /\ x.args # {}
      \/ x.args = CopyDirs(s.repo_files) /\ x.args # {}
      \/ x.args = {[top |-> "etc", dir |-> UnitDir]} /\ TimerNames(s) # {}
      \/ /\ x.args = {[top |-> SysusersConf.top, dir |-> SysusersConf.dir]}
         /\ By("sysusers", s.users) # <<>>
      \/ /\ x.args = {[top |-> KargsToml.top, dir |-> KargsToml.dir]}
         /\ OperatorKargs(s.cmdline) # <<>>
    BY <1>1, InstructionKinds
<1>5. CASE x.args = CopyDirs(s.gpg_keys) /\ x.args # {}
    <2>1. PICK i \in ToSet(Kept(s.gpg_keys)) : [top |-> i.path.top, dir |-> i.path.dir] \in x.args
        BY <1>5 DEF CopyDirs
    <2>2. s.gpg_keys = snap["gpg_keys"]
        BY <1>1
    <2> QED BY <1>3, <2>1, <2>2, ItemInTree
<1>6. CASE x.args = CopyDirs(s.repo_files) /\ x.args # {}
    <2>1. PICK i \in ToSet(Kept(s.repo_files)) : [top |-> i.path.top, dir |-> i.path.dir] \in x.args
        BY <1>6 DEF CopyDirs
    <2>2. s.repo_files = snap["repo_files"]
        BY <1>1
    <2> QED BY <1>3, <2>1, <2>2, ItemInTree
<1>7. CASE x.args = {[top |-> "etc", dir |-> UnitDir]} /\ TimerNames(s) # {}
    <2>1. PICK n \in TimerNames(snap) : UnitPath(Append(n, "timer")) \in DOMAIN tree.config
        BY <1>1, <1>7, TimersInTree
    <2>2. PICK p : p = UnitPath(Append(n, "timer"))
        OBVIOUS
    <2>3. p.top = "etc" /\ p.dir = UnitDir
        BY <2>2 DEF UnitPath, Path
    <2> QED BY <1>3, <1>7, <2>1, <2>2, <2>3
<1>8. CASE /\ x.args = {[top |-> SysusersConf.top, dir |-> SysusersConf.dir]}
           /\ By("sysusers", s.users) # <<>>
    <2>1. IsList(s.users)
        BY <1>2 DEF IsSnapshot, Records, Lists
    <2>2. KeptBy("sysusers", s.users) # {}
        BY <1>8, <2>1, ByFacts DEF KeptBy
    <2>3. PICK f \in ToSet(SysusersFiles(s)) : f.path = SysusersConf
        BY <1>2, <2>2, SysusersFileIs
    <2>4. Layers(s)[13] = ToSet(SysusersFiles(s))
        BY DEF Layers
    <2>5. SysusersConf \in DOMAIN tree.config
        BY <1>1, <2>3, <2>4, LayerInTree
    <2> QED BY <1>3, <1>8, <2>5
<1>9. CASE /\ x.args = {[top |-> KargsToml.top, dir |-> KargsToml.dir]}
           /\ OperatorKargs(s.cmdline) # <<>>
    BY <1>1, <1>3, <1>9, KargsInTree
<1> QED BY <1>4, <1>5, <1>6, <1>7, <1>8, <1>9
-----------------------------------------------------------------------------
(* The software found                                                      *)

(* x is what one of the scans makes of the directory a: an item with its   *)
(* lock files, or its requirements.txt; or it has no files.                *)
LockItem(x, a) == x.path = a.path /\ x.files = a.locks /\ a.locks # <<>> /\ x.content = NoText
PipItem(x, a)  == /\ x.path = InDir(a.path, <<"requirements", "txt">>) /\ x.files = <<>>
                  /\ x.content = a.requirements /\ a.requirements # None
BareItem(x)    == x.files = <<>> /\ x.content = NoText /\ Tool(x.method) = None
AppItem(x, h)  == /\ x.method = "pip requirements.txt" => x.pip
                  /\ \/ BareItem(x)
                     \/ \E a \in ToSet(h.apps) : LockItem(x, a) \/ PipItem(x, a)

AppItems(list, h) == \A x \in ToSet(list) : AppItem(x, h)

LEMMA DomainOfNone == DOMAIN <<>> = {}
OBVIOUS

LEMMA MapAppItems ==
    ASSUME NEW h, NEW list, NEW t, t = [i \in DOMAIN list |-> t[i]],
           \A i \in DOMAIN list : AppItem(t[i], h)
    PROVE  AppItems(t, h)
BY DEF AppItems, ToSet

LEMMA ConcatAppItems ==
    ASSUME NEW h, NEW s, NEW t, IsList(s), IsList(t), AppItems(s, h), AppItems(t, h)
    PROVE  AppItems(s \o t, h)
<1>1. ToSet(s \o t) = ToSet(s) \cup ToSet(t)
    BY Concatenation
<1> QED BY <1>1 DEF AppItems

LEMMA BareFacts ==
    ASSUME NEW path, NEW confidence, NEW pip,
           NEW method \in {"git repository", "directory scan", "python venv", "pip dist-info"},
           NEW x, x = NonRpmItem(path, method, confidence, <<>>, NoText, pip)
    PROVE  BareItem(x) /\ x.method # "pip requirements.txt"
<1>1. Tool(method) = None /\ method # "pip requirements.txt"
    BY DEF Tool
<1> QED BY <1>1 DEF BareItem, NonRpmItem

LEMMA ScansFound ==
    ASSUME NEW h \in Hosts
    PROVE  /\ AppItems(ScanDirs(h.apps), h) /\ AppItems(ScanVenvs(h.apps), h)
           /\ AppItems(ScanDists(h.dists), h) /\ AppItems(ScanRequirements(h.apps), h)
           /\ \A lock, method : method # "pip requirements.txt"
                                    => AppItems(ScanLocks(h.apps, lock, method), h)
<1>0. IsList(h.apps)
    BY ListsOfHost
<1>1. AppItems(ScanDirs(h.apps), h)
    <2>1. PICK places, entries : /\ places = {n \in DOMAIN h.apps :
                                                /\ h.apps[n].path.top # "srv" /\ ~h.apps[n].nested
                                                /\ h.apps[n].git \/ ~h.apps[n].venv}
                                 /\ entries = Picked(h.apps, places)
        OBVIOUS
    <2>2. PICK c : c = [i \in DOMAIN entries |-> CASE entries[i].binary = "elf" -> 2
                                                   [] entries[i].binary = "version" -> 1
                                                   [] OTHER -> 0]
        OBVIOUS
    <2>3. ScanDirs(h.apps) = [i \in DOMAIN entries |->
                IF entries[i].git THEN NonRpmItem(entries[i].path, "git repository", 2, <<>>, NoText, FALSE)
                ELSE NonRpmItem(entries[i].path, "directory scan", c[i], <<>>, NoText, FALSE)]
        BY <2>1, <2>2 DEF ScanDirs, Select, Bare
    <2>4. PICK git, scan : git = "git repository" /\ scan = "directory scan"
        OBVIOUS
    <2>5. PICK t : t = ScanDirs(h.apps)
        OBVIOUS
    <2>6. t = [i \in DOMAIN entries |-> t[i]]
        BY <2>3, <2>5
    <2>7. ASSUME NEW i \in DOMAIN entries PROVE AppItem(t[i], h)
        <3>1. t[i] = NonRpmItem(entries[i].path, git, 2, <<>>, NoText, FALSE)
                \/ t[i] = NonRpmItem(entries[i].path, scan, c[i], <<>>, NoText, FALSE)
            BY <2>3, <2>4, <2>5
        <3>2. git \in {"git repository", "directory scan", "python venv", "pip dist-info"}
                /\ scan \in {"git repository", "directory scan", "python venv", "pip dist-info"}
            BY <2>4
        <3>3. BareItem(t[i]) /\ t[i].method # "pip requirements.txt"
            BY ONLY <3>1, <3>2, BareFacts
        <3> QED BY <3>3 DEF AppItem
    <2> QED BY <2>5, <2>6, <2>7, MapAppItems
<1>2. AppItems(ScanVenvs(h.apps), h)
    <2>1. PICK places, entries : /\ places = {n \in DOMAIN h.apps : h.apps[n].path.top # "usr" /\ h.apps[n].venv}
                                 /\ entries = Picked(h.apps, places)
        OBVIOUS
    <2>2. PICK venv, t : venv = "python venv" /\ t = ScanVenvs(h.apps)
        OBVIOUS
    <2>3. t = [i \in DOMAIN entries |-> NonRpmItem(entries[i].path, venv, 2, <<>>, NoText, entries[i].pips)]
        BY <2>1, <2>2 DEF ScanVenvs, Select
    <2>4. t = [i \in DOMAIN entries |-> t[i]]
        BY <2>3
    <2>5. ASSUME NEW i \in DOMAIN entries PROVE AppItem(t[i], h)
        <3>1. t[i] = NonRpmItem(entries[i].path, venv, 2, <<>>, NoText, entries[i].pips)
            BY <2>3
        <3>2. venv \in {"git repository", "directory scan", "python venv", "pip dist-info"}
            BY <2>2
        <3> QED BY <3>1, <3>2, BareFacts DEF AppItem
    <2> QED BY <2>2, <2>4, <2>5, MapAppItems
<1>5. AppItems(ScanDists(h.dists), h)
    <2>1. PICK list, dist, t : list = h.dists /\ dist = "pip dist-info" /\ t = ScanDists(list)
        OBVIOUS
    <2>2. t = [i \in DOMAIN list |-> NonRpmItem(list[i].path, dist, 2, <<>>, NoText, list[i].pips)]
        BY <2>1 DEF ScanDists
    <2>3. t = [i \in DOMAIN list |-> t[i]]
        BY <2>2
    <2>4. ASSUME NEW i \in DOMAIN list PROVE AppItem(t[i], h)
        <3>1. t[i] = NonRpmItem(list[i].path, dist, 2, <<>>, NoText, list[i].pips)
            BY <2>2
        <3>2. dist \in {"git repository", "directory scan", "python venv", "pip dist-info"}
            BY <2>1
        <3> QED BY <3>1, <3>2, BareFacts DEF AppItem
    <2> QED BY <2>1, <2>3, <2>4, MapAppItems
<1>3. AppItems(ScanRequirements(h.apps), h)
    <2>1. PICK places, entries : /\ places = {n \in DOMAIN h.apps : h.apps[n].path.top # "usr" /\ h.apps[n].requirements # None}
                                 /\ entries = Picked(h.apps, places)
        OBVIOUS
    <2>2. PICK pip, t : pip = "pip requirements.txt" /\ t = ScanRequirements(h.apps)
        OBVIOUS
    <2>3. t = [i \in DOMAIN entries |-> NonRpmItem(InDir(entries[i].path, <<"requirements", "txt">>), pip, 2,
                                                   <<>>, entries[i].requirements, TRUE)]
        BY <2>1, <2>2 DEF ScanRequirements, Select
    <2>4. t = [i \in DOMAIN entries |-> t[i]]
        BY <2>3
    <2>5. ASSUME NEW i \in DOMAIN entries PROVE AppItem(t[i], h)
        <3>1. ToSet(entries) = {h.apps[n] : n \in places}
            BY <1>0, <2>1, PickedFacts
        <3>2. entries[i] \in ToSet(h.apps) /\ entries[i].requirements # None
            <4>1. entries[i] \in {h.apps[n] : n \in places}
                BY ONLY <2>5, <3>1 DEF ToSet
            <4>2. places \subseteq DOMAIN h.apps /\ \A n \in places : h.apps[n].requirements # None
                BY <2>1
            <4> QED BY ONLY <4>1, <4>2 DEF ToSet
        <3>3. t[i] = NonRpmItem(InDir(entries[i].path, <<"requirements", "txt">>), pip, 2,
                                <<>>, entries[i].requirements, TRUE)
            BY <2>3
        <3>4. PipItem(t[i], entries[i]) /\ t[i].pip
            BY <3>2, <3>3 DEF PipItem, NonRpmItem
        <3> QED BY <3>2, <3>4 DEF AppItem
    <2> QED BY <2>2, <2>4, <2>5, MapAppItems
<1>4. ASSUME NEW lock, NEW method, method # "pip requirements.txt"
      PROVE  AppItems(ScanLocks(h.apps, lock, method), h)
    <2>1. PICK places, entries : /\ places = {n \in DOMAIN h.apps : \E i \in DOMAIN h.apps[n].locks : h.apps[n].locks[i].name = lock}
                                 /\ entries = Picked(h.apps, places)
        OBVIOUS
    <2>2. PICK t : t = ScanLocks(h.apps, lock, method)
        OBVIOUS
    <2>3. t = [i \in DOMAIN entries |-> NonRpmItem(entries[i].path, method, 2, entries[i].locks, NoText, FALSE)]
        BY <2>1, <2>2 DEF ScanLocks, Select
    <2>4. t = [i \in DOMAIN entries |-> t[i]]
        BY <2>3
    <2>5. ASSUME NEW i \in DOMAIN entries PROVE AppItem(t[i], h)
        <3>1. ToSet(entries) = {h.apps[n] : n \in places}
            BY <1>0, <2>1, PickedFacts
        <3>2. entries[i] \in ToSet(h.apps) /\ DOMAIN entries[i].locks # {}
            BY <2>1, <3>1 DEF ToSet
        <3>3. t[i] = NonRpmItem(entries[i].path, method, 2, entries[i].locks, NoText, FALSE)
            BY <2>3
        <3>4. DOMAIN <<>> = {}
            OBVIOUS
        <3>5. LockItem(t[i], entries[i]) /\ t[i].method = method
            BY <3>2, <3>3, <3>4 DEF LockItem, NonRpmItem
        <3> QED BY <1>4, <3>2, <3>5 DEF AppItem
    <2> QED BY <2>2, <2>4, <2>5, MapAppItems
<1> QED BY <1>1, <1>2, <1>3, <1>4, <1>5

LEMMA SoftwareFound ==
    ASSUME NEW s, IsSnapshot(s), NEW h \in Hosts, NEW t, t = RunSoftware(s, h).items
    PROVE  AppItems(t, h)
<1>1. PICK a, b, g, c, d, e, f : /\ a = ScanDirs(h.apps) /\ b = ScanVenvs(h.apps)
            /\ g = ScanDists(h.dists) /\ c = ScanRequirements(h.apps)
            /\ d = ScanLocks(h.apps, "package-lock.json", "npm package-lock.json")
            /\ e = ScanLocks(h.apps, "yarn.lock", "yarn.lock")
            /\ f = ScanLocks(h.apps, "Gemfile.lock", "gem Gemfile.lock")
    OBVIOUS
<1>2. PICK found : found = a \o b \o g \o c \o d \o e \o f
    OBVIOUS
<1>3. t = Dedup(found)
    BY <1>1, <1>2 DEF RunSoftware, IsSnapshot, Parts, Lists
<1>4. /\ Projects(a) /\ Sure(a) /\ Projects(b) /\ Sure(b) /\ Projects(g) /\ Sure(g) /\ Projects(c) /\ Sure(c)
      /\ Projects(d) /\ Sure(d) /\ Projects(e) /\ Sure(e) /\ Projects(f) /\ Sure(f)
    BY <1>1, ScansAreProjects
<1>5. /\ AppItems(a, h) /\ AppItems(b, h) /\ AppItems(g, h) /\ AppItems(c, h)
      /\ AppItems(d, h) /\ AppItems(e, h) /\ AppItems(f, h)
    BY <1>1, ScansFound
<1>6. \A x \in {a, b, c, d, e, f, g} : IsList(x)
    BY <1>4 DEF Projects, Records
<1>7. IsList(found) /\ AppItems(found, h)
    <2>1. IsList(a \o b) /\ AppItems(a \o b, h)
        BY <1>5, <1>6, Concatenation, ConcatAppItems
    <2>5. IsList(a \o b \o g) /\ AppItems(a \o b \o g, h)
        BY <1>5, <1>6, <2>1, Concatenation, ConcatAppItems
    <2>2. IsList(a \o b \o g \o c) /\ AppItems(a \o b \o g \o c, h)
        BY <1>5, <1>6, <2>5, Concatenation, ConcatAppItems
    <2>3. IsList(a \o b \o g \o c \o d) /\ AppItems(a \o b \o g \o c \o d, h)
        BY <1>5, <1>6, <2>2, Concatenation, ConcatAppItems
    <2>4. IsList(a \o b \o g \o c \o d \o e) /\ AppItems(a \o b \o g \o c \o d \o e, h)
        BY <1>5, <1>6, <2>3, Concatenation, ConcatAppItems
    <2> QED BY <1>2, <1>5, <1>6, <2>4, Concatenation, ConcatAppItems
<1>8. Projects(found) /\ Sure(found)
    BY <1>2, <1>4, ConcatProjects
<1>9. Records(found, Fields("items")) /\ \A i \in DOMAIN found : found[i].confidence \in 0..2
    BY <1>8 DEF Projects, Sure, ToSet
<1>10. ToSet(t) \subseteq ToSet(found)
    BY <1>3, <1>9, DedupRecords
<1> QED BY <1>7, <1>10 DEF AppItems

(* The software of a report is of the host's directories.                  *)
LEMMA ReportedItems ==
    ASSUME WholeInv, Reported, NEW x \in ToSet(snap.items)
    PROVE  AppItem(x, host)
<1>1. PICK list, h : list = snap.items /\ h = host
    OBVIOUS
<1>2. h \in Hosts
    BY <1>1 DEF WholeInv, MigrationInv
<1>3. PICK found, s : LikeAll(list, found) /\ IsSnapshot(s) /\ found = RunSoftware(s, h).items
    BY <1>1, SnapFound
<1>4. AppItems(found, h)
    BY <1>2, <1>3, SoftwareFound
<1>5. Records(found, Fields("items"))
    BY <1>2, <1>3, SoftwareSnapshot DEF Projects
<1>6. PICK i \in DOMAIN list : x = list[i]
    BY <1>1 DEF ToSet
<1>7. i \in DOMAIN found /\ Like(x, found[i])
    BY <1>3, <1>6 DEF LikeAll
<1>8. {"path", "method", "files", "content", "pip"} \subseteq DOMAIN found[i]
    BY <1>5, <1>7, FieldsAre DEF Records, ToSet
<1>9. /\ x.path = found[i].path /\ x.method = found[i].method
      /\ x.files = found[i].files /\ x.content = found[i].content /\ x.pip = found[i].pip
    BY <1>7, <1>8 DEF Like, Marked
<1>10. AppItem(found[i], h)
    BY <1>4, <1>7 DEF AppItems, ToSet
<1>11. AppItem(x, h)
    BY <1>9, <1>10 DEF AppItem, LockItem, PipItem, BareItem
<1> QED BY <1>1, <1>11

LEMMA PrefixConcat ==
    ASSUME NEW s, NEW u, IsList(s), IsList(u)
    PROVE  IsPrefix(s, s \o u)
<1>1. /\ Len(s) \in Nat /\ Len(u) \in Nat /\ s = [i \in 1..Len(s) |-> s[i]] /\ s \in Seq(ToSet(s))
    BY ListFacts
<1>2. /\ IsList(s \o u) /\ Len(s \o u) = Len(s) + Len(u) /\ \A i \in 1..Len(s) : (s \o u)[i] = s[i]
    BY Concatenation
<1>3. PICK t, n : t = s \o u /\ n = Len(s)
    OBVIOUS
<1>4. t \in Seq(ToSet(t)) /\ n \in Nat /\ n <= Len(t) /\ Len(t) \in Nat
    <2>1. IsList(t) /\ Len(t) = n + Len(u)
        BY <1>2, <1>3
    <2>2. t \in Seq(ToSet(t))
        BY <2>1, ListFacts
    <2>3. n \in Nat /\ Len(u) \in Nat
        BY <1>1, <1>3
    <2> QED BY ONLY <2>1, <2>2, <2>3
<1>5. SubSeq(s, 1, n) = [i \in 1..n |-> s[i]]
    BY <1>1, <1>3
<1>6. SubSeq(t, 1, n) = [i \in 1..n |-> t[i]]
    BY <1>4
<1>7. SubSeq(s, 1, n) = SubSeq(t, 1, n)
    BY <1>2, <1>3, <1>5, <1>6
<1> QED BY <1>3, <1>4, <1>7 DEF IsPrefix

(* A project's path is one.                                                *)
LEMMA AppFacts ==
    ASSUME NEW h \in Hosts, NEW a \in ToSet(h.apps)
    PROVE  /\ IsProject(a) /\ IsPath(a.path) /\ IsList(a.path.name) /\ a.path.name # <<>>
           /\ IsList(a.locks)
<1>1. PICK i \in DOMAIN h.apps : a = h.apps[i]
    BY DEF ToSet
<1>2. IsProject(a)
    BY <1>1, HostAssumption
<1>3. IsPath(a.path)
    BY <1>2 DEF IsProject
<1>4. a.path.name \in Seq(ToSet(a.path.name)) /\ a.path.name # <<>>
    BY <1>3 DEF IsPath
<1>5. IsList(a.locks)
    BY <1>1, ListsOfHost
<1> QED BY <1>2, <1>3, <1>4, <1>5, ListsAreSequences

LEMMA InDirFacts ==
    ASSUME NEW path, IsPath(path), NEW name, NEW q, q = InDir(path, name)
    PROVE  q.top = path.top /\ q.dir = path.dir /\ q.name = path.name \o name
BY DEF InDir, IsPath, Path

LEMMA ProjectInTree ==
    ASSUME WholeInv, tree.config = WriteConfigTree(snap), NEW x \in ToSet(Kept(snap.items)),
           NEW j \in DOMAIN x.files
    PROVE  InDir(x.path, <<x.files[j].name>>) \in DOMAIN tree.config
<1>1. PICK p : p = InDir(x.path, <<x.files[j].name>>)
    OBVIOUS
<1>2. File(p, x.files[j].text) \in ProjectOf(x)
    BY <1>1 DEF ProjectOf
<1>3. PICK f \in ProjectOf(x) : f.path = p
    BY <1>2 DEF File
<1>4. PICK s : s = snap
    OBVIOUS
<1>5. Layers(s)[12] = UNION {ProjectOf(y) : y \in ToSet(Kept(s.items))}
    BY DEF Layers
<1>6. f \in Layers(s)[12]
    BY <1>3, <1>4, <1>5
<1> QED BY <1>1, <1>3, <1>4, <1>6, LayerInTree

(* A project that is copied has files, but for an empty requirements.txt.  *)
LEMMA CopyProjectExplained ==
    ASSUME WholeInv, Reported, tree.config = WriteConfigTree(snap), NEW i \in Built9(snap),
           NEW x, x.do = "copy_project", x.args = i.path, Sources(x) = {}
    PROVE  Suffix(i.path) = "txt"
<1>1. host \in Hosts /\ Projects(snap.items)
    BY DEF WholeInv, MigrationInv
<1>2. i \in ToSet(Kept(snap.items)) /\ Tool(i.method) # None
    BY DEF Built9
<1>3. i \in ToSet(snap.items)
    BY <1>1, <1>2, KeptFacts DEF Projects, Records
<1>8. ~BareItem(i)
    BY <1>2 DEF BareItem
<1>4. PICK a \in ToSet(host.apps) : LockItem(i, a) \/ PipItem(i, a)
    BY <1>3, <1>8, ReportedItems DEF AppItem
<1>5. /\ IsPath(a.path) /\ IsList(a.path.name) /\ IsList(a.locks)
    BY <1>1, AppFacts
<1>6. CASE PipItem(i, a)
    <2>1. PICK name : name = <<"requirements", "txt">>
        OBVIOUS
    <2>2. IsList(name) /\ Len(name) = 2 /\ name[2] = "txt"
        <3>1. name = [n \in 1..2 |-> name[n]] /\ name[2] = "txt"
            BY <2>1
        <3> QED BY <3>1, ListOf
    <2>3. i.path.name = a.path.name \o name
        BY <1>5, <1>6, <2>1, InDirFacts, ZenonT(40) DEF PipItem
    <2>4. /\ Len(i.path.name) = Len(a.path.name) + 2 /\ i.path.name[Len(a.path.name) + 2] = "txt"
        <3>1. PICK b, full : b = a.path.name /\ full = i.path.name
            OBVIOUS
        <3>2. IsList(b) /\ full = b \o name /\ 2 \in 1..Len(name)
            BY <1>5, <2>2, <2>3, <3>1
        <3>3. /\ Len(b \o name) = Len(b) + Len(name)
              /\ \A m \in 1..Len(name) : (b \o name)[Len(b) + m] = name[m]
            <4>1. IsList(b) /\ IsList(name)
                BY <2>2, <3>2
            <4> QED BY ONLY <4>1, Concatenation
        <3> QED BY <2>2, <3>1, <3>2, <3>3
    <2> QED BY <2>4 DEF Suffix, Last
<1>7. CASE LockItem(i, a)
    <2>1. DOMAIN i.files = 1..Len(i.files) /\ Len(i.files) \in Nat /\ Len(i.files) # 0
        BY <1>5, <1>7, ListFacts DEF LockItem
    <2>2. PICK p, name : name = <<i.files[1].name>> /\ p = InDir(i.path, name)
        OBVIOUS
    <2>3. p \in DOMAIN tree.config
        BY <1>2, <2>1, <2>2, ProjectInTree
    <2>4. i.path = a.path /\ IsList(name)
        BY <1>7, <2>2, OneElement DEF LockItem
    <2>5. p.top = i.path.top /\ p.dir = i.path.dir /\ p.name = i.path.name \o name
        <3>1. IsPath(i.path)
            BY <1>5, <2>4
        <3>2. p = InDir(i.path, name)
            BY <2>2
        <3> QED BY ONLY <3>1, <3>2, InDirFacts
    <2>6. IsPrefix(i.path.name, p.name)
        BY <1>5, <2>4, <2>5, PrefixConcat
    <2>7. p \in Sources(x)
        BY <2>3, <2>5, <2>6 DEF Sources
    <2> QED BY <2>7
<1> QED BY <1>4, <1>6, <1>7

(* What software is rebuilt with is there, but for what nobody asks for.   *)
LEMMA RebuildExplained ==
    ASSUME NEW s, \A i \in Built9(s) : i.method = "pip requirements.txt" => i.pip,
           NEW packages, Installed(s) \cup Needed(s) \subseteq packages,
           NEW tool, tool \notin packages,
           \/ \E i \in Built9(s) : tool = Tool(i.method)
           \/ tool = "python3" /\ Venvs9(s) # {}
           \/ tool = "python3-pip" /\ OfDists(s) # {}
    PROVE  /\ tool \notin Installed(s)
           /\ \/ tool \in {"bundler", "yarn", "python3"}
              \/ tool = "npm" /\ "nodejs" \in Installed(s)
<1>1. tool \notin Installed(s) /\ tool \notin Needed(s)
    OBVIOUS
<1>2. OfPip(s) # {} => "python3-pip" \in Needed(s) \cup Installed(s)
    BY DEF Needed
<1>3. OfNodejs(s) # {} => \/ "npm" \in Needed(s) \cup Installed(s)
                          \/ "nodejs" \in Installed(s)
    BY DEF Needed
<1>4. CASE tool = "python3-pip" /\ OfDists(s) # {}
    BY <1>1, <1>2, <1>4 DEF OfDists
<1>5. CASE \E i \in Built9(s) : tool = Tool(i.method)
    <2>1. PICK i \in Built9(s) : tool = Tool(i.method)
        BY <1>5
    <2>2. i \in ToSet(Kept(s.items)) /\ Tool(i.method) # None
        BY DEF Built9
    <2>3. CASE i.method = "npm package-lock.json"
        <3>1. tool = "npm"
            BY <2>1, <2>3 DEF Tool
        <3>2. i \in OfNodejs(s)
            BY <2>2, <2>3 DEF OfNodejs
        <3> QED BY <1>1, <1>3, <3>1, <3>2
    <2>4. CASE i.method = "pip requirements.txt"
        <3>1. tool = "python3-pip"
            BY <2>1, <2>4 DEF Tool
        <3>2. i \in OfPip(s)
            BY <2>2, <2>4 DEF OfPip
        <3> QED BY <1>1, <1>2, <3>1, <3>2
    <2>5. CASE i.method \notin {"npm package-lock.json", "pip requirements.txt"}
        BY <1>1, <2>1, <2>2, <2>5 DEF Tool
    <2> QED BY <2>3, <2>4, <2>5
<1> QED BY <1>1, <1>4, <1>5

(* The first of the users of a group is the same one in a list like it.    *)
LEMMA SameFirst ==
    ASSUME NEW s, NEW t, IsList(s), IsList(t), DOMAIN s = DOMAIN t, NEW gid,
           \A i \in DOMAIN s : s[i].gid = t[i].gid /\ s[i].strategy = t[i].strategy,
           WithGid(s, gid) # <<>>
    PROVE  WithGid(t, gid) # <<>> /\ WithGid(s, gid)[1].strategy = WithGid(t, gid)[1].strategy
<1>1. PICK places : places = {n \in DOMAIN s : s[n].gid = gid}
    OBVIOUS
<1>2. places = {n \in DOMAIN t : t[n].gid = gid}
    BY <1>1
<1>3. WithGid(s, gid) = Picked(s, places) /\ WithGid(t, gid) = Picked(t, places)
    BY <1>1, <1>2 DEF WithGid, Select
<1>4. places \in SUBSET DOMAIN s /\ places \in SUBSET DOMAIN t /\ DOMAIN s = 1..Len(s) /\ Len(s) \in Nat
    BY <1>1, ListFacts
<1>5. /\ IsFiniteSet(places) /\ Cardinality(places) \in Nat /\ places # {}
      /\ Len(Picked(s, places)) = Cardinality(places) /\ Len(Picked(t, places)) = Cardinality(places)
      /\ IsList(Picked(s, places)) /\ IsList(Picked(t, places))
      /\ Picked(t, places) # <<>>
    BY <1>3, <1>4, PickedFacts
<1>6. 1 \in DOMAIN Picked(s, places) /\ 1 \in DOMAIN Picked(t, places)
    BY <1>3, <1>5, ListFacts
<1>7. PICK n \in places : Rank(places, n) = 1 /\ Picked(s, places)[1] = s[n]
    BY <1>4, <1>6, PickedPlaces
<1>8. PICK m \in places : Rank(places, m) = 1 /\ Picked(t, places)[1] = t[m]
    <2>1. IsList(t) /\ places \in SUBSET DOMAIN t /\ 1 \in DOMAIN Picked(t, places)
        BY <1>4, <1>6
    <2> QED BY ONLY <2>1, PickedPlaces
<1>9. n = m
    BY <1>4, <1>5, <1>7, <1>8, RanksAreNumbers
<1> QED BY <1>1, <1>3, <1>5, <1>7, <1>8, <1>9

LEMMA OverrideFacts ==
    ASSUME NEW h, NEW o, o # None, NEW i \in DOMAIN Users(h, o)
    PROVE  Users(h, o)[i].strategy = o
BY DEF Users, Strategy

(* Without an edit of groups or strategies a group follows its users.      *)
LEMMA GroupFollows ==
    ASSUME WholeInv, Reported, NEW u \in ToSet(snap.users), u.strategy = "useradd", ~GroupElsewhere(u)
    PROVE  \E g \in KeptBy("useradd", snap.groups) : g.gid = u.gid
<1>1. PICK v \in {{}, Modified} : InspectedAs(v)
    BY DEF WholeInv, InspectedInv
<1>2. PICK o \in Overrides : /\ Alike(snap, Found(host, answered, v, o))
                             /\ Untouched(snap, Found(host, answered, v, o), edits)
    BY <1>1 DEF InspectedAs
<1>3. PICK h, a, s, f, e : h = host /\ a = answered /\ s = snap /\ f = Found(h, a, v, o) /\ e = edits
    OBVIOUS
<1>4. h \in Hosts /\ IsSnapshot(s) /\ Alike(s, f) /\ Untouched(s, f, e)
    BY <1>2, <1>3 DEF WholeInv, MigrationInv
<1>5. IsSnapshot(f) /\ f.users = Users(h, o) /\ f.groups = Groups(h, f.users, o)
    BY <1>3, <1>4, FoundSnapshots, FoundAccounts
<1>6. IsList(s.users) /\ IsList(f.users) /\ Records(f.users, Fields("users")) /\ Records(f.groups, Fields("groups"))
    BY <1>4, <1>5 DEF IsSnapshot, Records, Lists
<1>7. LikeAll(s.users, f.users) /\ LikeAll(s.groups, f.groups)
    BY <1>4 DEF Alike, Lists
<1>8. /\ \A x \in e : x[1] \notin {"groups", "strategy"}
      /\ WithGid(s.users, u.gid)[1].strategy = "useradd"
      /\ \E i \in DOMAIN h.groups : h.groups[i].gid = u.gid /\ OwnId(u.gid)
    BY <1>3 DEF GroupElsewhere
<1>9. \A d, i : <<"strategy", d, i>> \notin e
    BY <1>8
<1>10. \A i : <<"groups", i>> \notin e
    BY <1>8
<1>11. \A i \in DOMAIN s.users : s.users[i].gid = f.users[i].gid /\ s.users[i].strategy = f.users[i].strategy
    <2>1. \A i \in DOMAIN s.users : s.users[i].gid = f.users[i].gid
        <3>1. \A i \in DOMAIN f.users : "gid" \in DOMAIN f.users[i]
            BY <1>6, FieldsAre DEF Records, ToSet
        <3> QED BY <1>7, <3>1 DEF LikeAll, Like, Marked
    <2>2. \A i \in DOMAIN s.users : s.users[i].strategy = f.users[i].strategy
        <3>1. \A i \in DOMAIN s["users"] : s["users"][i].strategy = f["users"][i].strategy
            BY <1>4, <1>9 DEF Untouched
        <3> QED BY <3>1
    <2> QED BY <2>1, <2>2
<1>12. PICK own : own = OwnAccounts(h.groups, "gid")
    OBVIOUS
<1>13. PICK j \in DOMAIN own : own[j].gid = u.gid
    <2>1. ToSet(own) = {x \in ToSet(h.groups) : OwnId(x.gid)}
        BY <1>4, <1>12, ListsOfHost, OwnAccountsFacts
    <2>2. \E x \in ToSet(h.groups) : x.gid = u.gid /\ OwnId(x.gid)
        BY <1>8 DEF ToSet
    <2>3. \E x \in ToSet(own) : x.gid = u.gid
        BY <2>1, <2>2
    <2> QED BY <2>3 DEF ToSet
<1>14. \A x \in ToSet(f.users) : x.strategy \in Strategies
    <2>1. \A i \in DOMAIN f.users : f.users[i].strategy \in Strategies
        BY <1>4, <1>5, UsersFacts
    <2> QED BY <2>1 DEF ToSet
<1>15. /\ DOMAIN f.groups = DOMAIN own /\ f.groups[j].gid = u.gid
       /\ f.groups[j].strategy = GroupStrategy(own[j], f.users, o)
    BY <1>4, <1>5, <1>6, <1>12, <1>13, <1>14, GroupsFacts
<1>16. j \in DOMAIN s.groups /\ s.groups[j].gid = u.gid
    <2>1. "gid" \in DOMAIN f.groups[j]
        BY <1>6, <1>13, <1>15, FieldsAre DEF Records, ToSet
    <2> QED BY <1>7, <1>13, <1>15, <2>1 DEF LikeAll, Like, Marked
<1>17. s.groups[j].include /\ s.groups[j].strategy = f.groups[j].strategy
    <2>1. s.groups[j].include
        BY <1>4, <1>10, <1>16 DEF Untouched
    <2>2. s["groups"][j].strategy = f["groups"][j].strategy
        BY <1>4, <1>9, <1>16 DEF Untouched
    <2> QED BY <2>1, <2>2
<1>18. PICK m \in DOMAIN s.users : u = s.users[m]
    BY <1>3 DEF ToSet
<1>19. f.groups[j].strategy = "useradd"
    <2>1. CASE o # None
        <3>1. f.groups[j].strategy = o
            BY <1>15, <2>1 DEF GroupStrategy
        <3>2. m \in DOMAIN f.users
            BY <1>7, <1>18 DEF LikeAll
        <3>3. f.users[m].strategy = o
            BY <1>5, <2>1, <3>2, OverrideFacts
        <3> QED BY <1>11, <1>18, <3>1, <3>3
    <2>2. CASE o = None
        <3>1. WithGid(s.users, u.gid) # <<>>
            BY <1>3, <1>6, WithGidFacts
        <3>2. DOMAIN s.users = DOMAIN f.users
            BY <1>7 DEF LikeAll
        <3>3. /\ WithGid(f.users, u.gid) # <<>>
              /\ WithGid(s.users, u.gid)[1].strategy = WithGid(f.users, u.gid)[1].strategy
            BY <1>6, <1>11, <3>1, <3>2, SameFirst
        <3>4. f.groups[j].strategy = WithGid(f.users, u.gid)[1].strategy
            BY <1>13, <1>15, <2>2, <3>3 DEF GroupStrategy
        <3> QED BY <1>8, <3>3, <3>4
    <2> QED BY <2>1, <2>2
<1>20. s.groups[j] \in KeptBy("useradd", s.groups)
    BY <1>16, <1>17, <1>19 DEF KeptBy, ToSet
<1> QED BY <1>3, <1>16, <1>20

LEMMA UseraddExplained ==
    ASSUME WholeInv, phase = "failed", NEW sets, sets = Instructions(snap, tree.config),
           sets[12] \subseteq Done, NEW u \in ToSet(By("useradd", snap.users)),
           u.gid \notin image.accounts.gids
    PROVE  GroupElsewhere(u)
<1>1. Reported /\ Building /\ IsSnapshot(snap)
    BY DEF Reported, Building, WholeInv, MigrationInv
<1>2. IsList(snap.users) /\ IsList(snap.groups)
    BY <1>1 DEF IsSnapshot, Records, Lists
<1>3. u \in ToSet(snap.users) /\ u.strategy = "useradd" /\ By("useradd", snap.users) # <<>>
    BY <1>2, ByFacts
<1>4. ASSUME NEW g \in KeptBy("useradd", snap.groups) PROVE g.gid \in image.accounts.gids
    <2>1. g \in ToSet(UseraddGroups(snap))
        BY <1>2, <1>3, <1>4, ByFacts DEF UseraddGroups, KeptBy
    <2>2. Step("groupadd", g) \in Done
        <3>1. PICK s, t : s = snap /\ t = tree.config
            OBVIOUS
        <3>2. Instructions(s, t)[12] = {Step("groupadd", y) : y \in ToSet(UseraddGroups(s))}
            BY DEF Instructions
        <3> QED BY <2>1, <3>1, <3>2
    <2>3. g.gid \in Added.gids
        BY <2>2 DEF Added, Of, Step
    <2>4. image.accounts = Added
        BY <1>1 DEF WholeInv, ContentInv
    <2> QED BY <2>3, <2>4
<1> QED BY <1>1, <1>3, <1>4, GroupFollows

(* Each kind of step that fails, and why.                                  *)
LEMMA UnitsExplained ==
    ASSUME WholeInv, phase = "failed", NEW x, x = program[pc], x.do \in {"enable", "disable"}
    PROVE  /\ x.do = "enable"  => \E u \in x.args \cap snap.enabled_units : MayBeMissing(u)
           /\ x.do = "disable" => \E u \in x.args \cap snap.disabled_units : MayBeMissing(u)
<1>1. PICK sets : sets = Instructions(snap, tree.config)
    OBVIOUS
<1>2. /\ Building /\ tree.config = WriteConfigTree(snap) /\ ~Succeeds(x)
      /\ \E k \in 1..14 : x \in sets[k] /\ \A l \in 1..(k - 1) : sets[l] \subseteq Done
    BY <1>1, FailedFacts
<1>3. PICK k \in 1..14 : x \in sets[k] /\ \A l \in 1..(k - 1) : sets[l] \subseteq Done
    BY <1>2
<1>4. /\ x.do = "enable" => \/ k = 3 /\ x.args = EnabledEarly(snap)
                            \/ k = 6 /\ x.args = TimerUnits(snap)
      /\ x.do = "disable" => k = 4 /\ x.args = DisabledEarly(snap)
    BY <1>1, <1>3, InstructionKinds
<1>5. CASE k = 6 /\ x.do = "enable" /\ x.args = TimerUnits(snap)
    <2>1. sets[5] \subseteq Done
        BY <1>3, <1>5
    <2>2. \A u \in x.args : HasUnit(u)
        BY <1>1, <1>2, <1>5, <2>1, TimersAreThere
    <2> QED BY <1>2, <1>5, <2>2 DEF Succeeds
<1>6. CASE k \in {3, 4}
    <2>1. sets[2] \subseteq Done
        BY <1>3, <1>6
    <2>2. Installed(snap) \subseteq image.packages
        BY <1>1, <1>2, <2>1, PackagesAreThere
    <2>3. /\ x.do = "enable" => x.args = EnabledEarly(snap)
          /\ x.do = "disable" => x.args = DisabledEarly(snap)
        BY <1>4, <1>6
    <2> QED BY <1>2, <2>2, <2>3, EnableEarlyExplained
<1> QED BY <1>4, <1>5, <1>6

LEMMA CopiesNeverFail ==
    ASSUME WholeInv, phase = "failed"
    PROVE  program[pc].do # "copy"
<1>1. PICK sets, x : sets = Instructions(snap, tree.config) /\ x = program[pc]
    OBVIOUS
<1>2. /\ Reported /\ tree.config = WriteConfigTree(snap) /\ ~Succeeds(x)
      /\ \E k \in 1..14 : x \in sets[k]
    BY <1>1, FailedFacts
<1>3. PICK k \in 1..14 : x \in Instructions(snap, tree.config)[k]
    BY <1>1, <1>2
<1>4. SUFFICES ASSUME x.do = "copy" PROVE FALSE
    BY <1>1
<1>5. Sources(x) # {}
    BY <1>2, <1>3, <1>4, CopyFinds
<1> QED BY <1>2, <1>4, <1>5 DEF Succeeds

LEMMA ProjectsExplained ==
    ASSUME WholeInv, phase = "failed", NEW x, x = program[pc]
    PROVE  /\ x.do = "copy_project" => Suffix(x.args) = "txt"
           /\ x.do = "rebuild" => ToolLeftOut(x.args)
<1>1. PICK sets : sets = Instructions(snap, tree.config)
    OBVIOUS
<1>2. /\ Building /\ Reported /\ tree.config = WriteConfigTree(snap) /\ ~Succeeds(x)
      /\ \E k \in 1..14 : x \in sets[k] /\ \A l \in 1..(k - 1) : sets[l] \subseteq Done
    BY <1>1, FailedFacts
<1>3. PICK k \in 1..14 : x \in sets[k] /\ \A l \in 1..(k - 1) : sets[l] \subseteq Done
    BY <1>2
<1>4. /\ x.do = "copy_project" => k = 9 /\ \E i \in Built9(snap) : x.args = i.path
      /\ x.do = "rebuild" => /\ k = 9
                             /\ \/ \E i \in Built9(snap) : x.args = Tool(i.method)
                                \/ x.args = "python3" /\ Venvs9(snap) # {}
                                \/ x.args = "python3-pip" /\ OfDists(snap) # {}
    BY <1>1, <1>3, InstructionKinds
<1>5. ASSUME x.do = "copy_project" PROVE Suffix(x.args) = "txt"
    <2>1. PICK i \in Built9(snap) : x.args = i.path
        BY <1>4, <1>5
    <2>2. Sources(x) = {}
        BY <1>2, <1>5 DEF Succeeds
    <2> QED BY <1>2, <1>5, <2>1, <2>2, CopyProjectExplained
<1>6. ASSUME x.do = "rebuild" PROVE ToolLeftOut(x.args)
    <2>1. sets[2] \subseteq Done /\ sets[8] \subseteq Done
        BY <1>3, <1>4, <1>6
    <2>2. PICK s, packages, tool : s = snap /\ packages = image.packages /\ tool = x.args
        OBVIOUS
    <2>3. Installed(s) \cup Needed(s) \subseteq packages
        BY <1>1, <1>2, <2>1, <2>2, PackagesAreThere
    <2>4. tool \notin packages
        BY <1>2, <1>6, <2>2 DEF Succeeds
    <2>5. ASSUME NEW i \in Built9(s), i.method = "pip requirements.txt" PROVE i.pip
        <3>1. i \in ToSet(Kept(s.items)) /\ IsList(s.items)
            BY <2>2 DEF Built9, WholeInv, MigrationInv, IsSnapshot, Records, Lists
        <3>2. i \in ToSet(snap.items)
            BY <2>2, <3>1, KeptFacts
        <3> QED BY <1>2, <2>5, <3>2, ReportedItems DEF AppItem
    <2>6. \/ \E i \in Built9(s) : tool = Tool(i.method)
          \/ tool = "python3" /\ Venvs9(s) # {}
          \/ tool = "python3-pip" /\ OfDists(s) # {}
        BY <1>4, <1>6, <2>2
    <2>7. /\ tool \notin Installed(s)
          /\ \/ tool \in {"bundler", "yarn", "python3"}
             \/ tool = "npm" /\ "nodejs" \in Installed(s)
        BY ONLY <2>3, <2>4, <2>5, <2>6, RebuildExplained
    <2> QED BY <2>2, <2>7 DEF ToolLeftOut
<1> QED BY <1>5, <1>6

LEMMA UsersExplained ==
    ASSUME WholeInv, phase = "failed", NEW x, x = program[pc], x.do = "useradd"
    PROVE  GroupElsewhere(x.args)
<1>1. PICK sets : sets = Instructions(snap, tree.config)
    OBVIOUS
<1>2. /\ ~Succeeds(x)
      /\ \E k \in 1..14 : x \in sets[k] /\ \A l \in 1..(k - 1) : sets[l] \subseteq Done
    BY <1>1, FailedFacts
<1>3. PICK k \in 1..14 : x \in sets[k] /\ \A l \in 1..(k - 1) : sets[l] \subseteq Done
    BY <1>2
<1>4. k = 13 /\ x.args \in ToSet(By("useradd", snap.users))
    BY <1>1, <1>3, InstructionKinds
<1>5. sets[12] \subseteq Done
    BY <1>3, <1>4
<1>6. x.args.gid \notin image.accounts.gids
    BY <1>2 DEF Succeeds
<1> QED BY <1>1, <1>4, <1>5, <1>6, UseraddExplained

\* Whatever the host, the answers and the edits, a Containerfile is never in an
\* order its build fails at: units come after the packages and the files they are
\* of, users after their groups, a rebuild after the tool that is asked for, and no
\* directory is copied that is empty. What fails is one of the kinds named: among them
\* npm ci where nodejs is an added package and npm is not.
THEOREM BuildFailures == MigrationSpec => []BuildFailureExplained
<1>1. ASSUME WholeInv PROVE BuildFailureExplained
    <2> SUFFICES ASSUME phase = "failed", NEW step, step = program[pc]
                 PROVE  CASE step.do = "enable"  -> \E u \in step.args \cap snap.enabled_units : MayBeMissing(u)
                          [] step.do = "disable" -> \E u \in step.args \cap snap.disabled_units : MayBeMissing(u)
                          [] step.do = "useradd" -> GroupElsewhere(step.args)
                          [] step.do = "rebuild" -> ToolLeftOut(step.args)
                          [] step.do = "copy_project" -> Suffix(step.args) = "txt"
                          [] OTHER -> FALSE
        BY DEF BuildFailureExplained
    <2>1. PICK sets : sets = Instructions(snap, tree.config)
        OBVIOUS
    <2>2. ~Succeeds(step) /\ step.do \in Doings
        BY <1>1, <2>1, FailedFacts
    <2>3. step.do \in {"enable", "disable", "useradd", "rebuild", "copy", "copy_project"}
        BY <2>2 DEF Succeeds, Doings
    <2>4. step.do # "copy"
        BY <1>1, CopiesNeverFail
    <2>5. /\ step.do = "enable"  => \E u \in step.args \cap snap.enabled_units : MayBeMissing(u)
          /\ step.do = "disable" => \E u \in step.args \cap snap.disabled_units : MayBeMissing(u)
        BY <1>1, UnitsExplained
    <2>6. step.do = "useradd" => GroupElsewhere(step.args)
        BY <1>1, UsersExplained
    <2>7. /\ step.do = "copy_project" => Suffix(step.args) = "txt"
          /\ step.do = "rebuild" => ToolLeftOut(step.args)
        BY <1>1, ProjectsExplained
    <2> QED BY <2>3, <2>4, <2>5, <2>6, <2>7
<1> QED BY <1>1, WholeInvariant, PTL
-----------------------------------------------------------------------------
(* The presets                                                             *)

(* Later places of a selection are numbered higher.                        *)
LEMMA RanksAreOrdered ==
    ASSUME NEW places \in SUBSET Nat, IsFiniteSet(places), NEW n \in places, NEW m \in places, n <= m
    PROVE  Rank(places, n) <= Rank(places, m)
<1> DEFINE upto(k) == {i \in places : i <= k}
<1>1. n \in Nat /\ m \in Nat /\ \A i \in places : i \in Nat
    OBVIOUS
<1>2. upto(n) \in SUBSET upto(m)
    <2>1. \A x \in places : x <= n => x <= m
        BY <1>1
    <2> QED BY <2>1
<1>3. IsFiniteSet(upto(m))
    <2>1. upto(m) \in SUBSET places
        OBVIOUS
    <2> HIDE DEF upto
    <2> QED BY <2>1, FS_Subset
<1>4. Cardinality(upto(n)) <= Cardinality(upto(m))
    <2> HIDE DEF upto
    <2> QED BY <1>2, <1>3, FS_Subset
<1> QED BY <1>4 DEF Rank

(* n is the place of the first of some rules that matches.                 *)
IsFirst(rules, places, unit, n) ==
    /\ n \in places /\ Matches(rules[n], unit)
    /\ \A m \in places : Matches(rules[m], unit) => n <= m

LEMMA FirstOfAll ==
    ASSUME NEW rules, IsList(rules), NEW unit, NEW d
    PROVE  \/ \E n : IsFirst(rules, DOMAIN rules, unit, n) /\ FirstMatch(rules, unit, d) = rules[n].action
           \/ /\ \A n \in DOMAIN rules : ~Matches(rules[n], unit)
              /\ FirstMatch(rules, unit, d) = d
<1>1. PICK S : S = {n \in DOMAIN rules : Matches(rules[n], unit)}
    OBVIOUS
<1>2. Select(rules, LAMBDA r : Matches(r, unit)) = Picked(rules, S)
    BY <1>1 DEF Select
<1>3. FirstMatch(rules, unit, d) = IF Picked(rules, S) = <<>> THEN d ELSE Picked(rules, S)[1].action
    BY <1>2 DEF FirstMatch
<1>4. S \in SUBSET DOMAIN rules /\ S \in SUBSET Nat
    BY <1>1, ListFacts
<1>5. /\ Picked(rules, S) = <<>> <=> S = {}
      /\ \A n \in S : (\A m \in S : n <= m) => Picked(rules, S)[1] = rules[n]
    BY <1>4, PickedFacts
<1>6. CASE S = {}
    BY <1>1, <1>3, <1>5, <1>6
<1>7. CASE S # {}
    <2>1. PICK n \in S : \A m \in S : n <= m
        BY <1>4, <1>7, LeastNatural
    <2>2. FirstMatch(rules, unit, d) = rules[n].action
        BY <1>3, <1>5, <1>7, <2>1
    <2>3. IsFirst(rules, DOMAIN rules, unit, n)
        BY <1>1, <2>1 DEF IsFirst
    <2> QED BY <2>2, <2>3
<1> QED BY <1>6, <1>7

(* The first match of some of the rules is the first of those.             *)
LEMMA FirstOfSome ==
    ASSUME NEW rules, IsList(rules), NEW places \in SUBSET DOMAIN rules, NEW unit, NEW d
    PROVE  \/ \E n : /\ IsFirst(rules, places, unit, n)
                     /\ FirstMatch(Picked(rules, places), unit, d) = rules[n].action
           \/ /\ \A n \in places : ~Matches(rules[n], unit)
              /\ FirstMatch(Picked(rules, places), unit, d) = d
<1>1. PICK some : some = Picked(rules, places)
    OBVIOUS
<1>2. /\ IsList(some) /\ Len(some) = Cardinality(places) /\ IsFiniteSet(places) /\ Cardinality(places) \in Nat
      /\ places \in SUBSET Nat
    BY <1>1, PickedFacts, ListFacts
<1>3. \A i \in DOMAIN some : \E n \in places : Rank(places, n) = i /\ some[i] = rules[n]
    BY <1>1, PickedPlaces
<1>4. DOMAIN some = 1..Cardinality(places)
    BY <1>2, ListFacts
<1>5. ASSUME NEW n \in places PROVE Rank(places, n) \in DOMAIN some /\ some[Rank(places, n)] = rules[n]
    <2>1. Rank(places, n) \in DOMAIN some
        BY <1>2, <1>4, RanksAreNumbers
    <2>2. PICK m \in places : Rank(places, m) = Rank(places, n) /\ some[Rank(places, n)] = rules[m]
        BY <1>3, <2>1
    <2>3. m = n
        BY <1>2, <2>2, RanksAreNumbers
    <2> QED BY <2>1, <2>2, <2>3
<1>6. CASE \E i : IsFirst(some, DOMAIN some, unit, i) /\ FirstMatch(some, unit, d) = some[i].action
    <2>1. PICK i : IsFirst(some, DOMAIN some, unit, i) /\ FirstMatch(some, unit, d) = some[i].action
        BY <1>6
    <2>2. PICK n \in places : Rank(places, n) = i /\ some[i] = rules[n]
        BY <1>3, <2>1 DEF IsFirst
    <2>3. ASSUME NEW m \in places, Matches(rules[m], unit) PROVE n <= m
        <3>1. i <= Rank(places, m)
            BY <1>5, <2>1, <2>3 DEF IsFirst
        <3>2. SUFFICES ASSUME m <= n PROVE n = m
            BY <1>2
        <3>3. Rank(places, m) <= i
            BY <1>2, <2>2, <3>2, RanksAreOrdered
        <3>4. Rank(places, m) \in 1..Cardinality(places) /\ i \in 1..Cardinality(places)
            BY <1>2, <2>2, RanksAreNumbers
        <3>5. Rank(places, m) = Rank(places, n)
            BY <1>2, <2>2, <3>1, <3>3, <3>4
        <3> QED BY <1>2, <3>5, RanksAreNumbers
    <2>4. IsFirst(rules, places, unit, n)
        BY <2>1, <2>2, <2>3 DEF IsFirst
    <2> QED BY <1>1, <2>1, <2>2, <2>4
<1>7. CASE (\A i \in DOMAIN some : ~Matches(some[i], unit)) /\ FirstMatch(some, unit, d) = d
    <2>1. \A n \in places : ~Matches(rules[n], unit)
        BY <1>5, <1>7
    <2> QED BY <1>1, <1>7, <2>1
<1> QED BY <1>2, <1>6, <1>7, FirstOfAll

(* A rule without wildcards that matches comes after one with.             *)
Outranked(rules, unit) ==
    \E i, j \in DOMAIN rules :
        /\ i < j /\ Matches(rules[i], unit) /\ Matches(rules[j], unit)
        /\ rules[i].glob /\ ~rules[j].glob

(* The default the inspector gives a unit is that of systemctl, if a rule  *)
(* speaks of it and none is passed over.                                   *)
LEMMA JudgedAlike ==
    ASSUME NEW rules, IsList(rules), \A i \in DOMAIN rules : rules[i].action \in {"enable", "disable"},
           None \notin {"enable", "disable"}, NEW unit, ~Outranked(rules, unit),
           NEW default, default = DefaultState(ParsePresetLines(rules), unit)
    PROVE  \/ /\ \A d : FirstMatch(rules, unit, d) = "enable"
              /\ default = "enabled" /\ PresetState(rules, unit) = "enabled"
           \/ /\ \A d : FirstMatch(rules, unit, d) = "disable"
              /\ default = "disabled" /\ PresetState(rules, unit) = "disabled"
           \/ /\ \A d : FirstMatch(rules, unit, d) = d
              /\ default # "enabled" /\ PresetState(rules, unit) = "enabled"
<1>1. PICK E, G : /\ E = {n \in DOMAIN rules : ~rules[n].glob}
                  /\ G = {n \in DOMAIN rules : rules[n].glob}
    OBVIOUS
<1>2. E \in SUBSET DOMAIN rules /\ G \in SUBSET DOMAIN rules /\ DOMAIN rules = E \cup G
    BY <1>1
<1>3. PICK presets : presets = ParsePresetLines(rules)
    OBVIOUS
<1>4. presets.exact = Picked(rules, E) /\ presets.glob_rules = Picked(rules, G)
    BY <1>1, <1>3 DEF ParsePresetLines, Select
<1>5. PICK exact, glob : /\ exact = FirstMatch(presets.exact, unit, None)
                         /\ glob = FirstMatch(presets.glob_rules, unit, None)
    OBVIOUS
<1>6. DOMAIN rules \subseteq Nat
    BY ListFacts
<1>7. /\ exact # None => default = IF exact = "enable" THEN "enabled" ELSE "disabled"
      /\ exact = None /\ glob # None => default = IF glob = "enable" THEN "enabled" ELSE "disabled"
      /\ exact = None /\ glob = None => default \in {"disabled", "unknown"}
    BY <1>3, <1>5 DEF DefaultState
<1>8. CASE \E n : IsFirst(rules, E, unit, n) /\ exact = rules[n].action
    <2>1. PICK n : IsFirst(rules, E, unit, n) /\ exact = rules[n].action
        BY <1>8
    <2>2. ASSUME NEW m \in DOMAIN rules, Matches(rules[m], unit) PROVE n <= m
        <3>1. CASE m \in E
            BY <2>1, <2>2, <3>1 DEF IsFirst
        <3>2. CASE m \in G
            <4>1. ~(m < n)
                BY <1>1, <2>1, <2>2, <3>2 DEF IsFirst, Outranked
            <4>2. n \in Nat /\ m \in Nat
                BY <1>2, <1>6, <2>1 DEF IsFirst
            <4> QED BY <4>1, <4>2
        <3> QED BY <1>2, <3>1, <3>2
    <2>3. IsFirst(rules, DOMAIN rules, unit, n)
        BY <1>2, <2>1, <2>2 DEF IsFirst
    <2>4. \A d : FirstMatch(rules, unit, d) = exact
        <3> TAKE d
        <3>1. PICK k : IsFirst(rules, DOMAIN rules, unit, k) /\ FirstMatch(rules, unit, d) = rules[k].action
            BY <2>3, FirstOfAll DEF IsFirst
        <3>2. k = n
            BY <1>6, <2>3, <3>1 DEF IsFirst
        <3> QED BY <2>1, <3>1, <3>2
    <2>5. exact \in {"enable", "disable"} /\ exact # None
        BY <1>2, <2>1 DEF IsFirst
    <2> QED BY <1>7, <2>4, <2>5 DEF PresetState
<1>9. CASE /\ \A n \in E : ~Matches(rules[n], unit)
           /\ exact = None
    <2>1. CASE \E n : IsFirst(rules, G, unit, n) /\ glob = rules[n].action
        <3>1. PICK n : IsFirst(rules, G, unit, n) /\ glob = rules[n].action
            BY <2>1
        <3>2. IsFirst(rules, DOMAIN rules, unit, n)
            BY <1>2, <1>9, <3>1 DEF IsFirst
        <3>3. \A d : FirstMatch(rules, unit, d) = glob
            <4> TAKE d
            <4>1. PICK k : IsFirst(rules, DOMAIN rules, unit, k) /\ FirstMatch(rules, unit, d) = rules[k].action
                BY <3>2, FirstOfAll DEF IsFirst
            <4>2. k = n
                BY <1>6, <3>2, <4>1 DEF IsFirst
            <4> QED BY <3>1, <4>1, <4>2
        <3>4. glob \in {"enable", "disable"} /\ glob # None
            BY <1>2, <3>1 DEF IsFirst
        <3> QED BY <1>7, <1>9, <3>3, <3>4 DEF PresetState
    <2>2. CASE /\ \A n \in G : ~Matches(rules[n], unit)
               /\ glob = None
        <3>1. \A n \in DOMAIN rules : ~Matches(rules[n], unit)
            BY <1>2, <1>9, <2>2
        <3>2. \A d : FirstMatch(rules, unit, d) = d
            BY <3>1, FirstOfAll DEF IsFirst
        <3>3. default # "enabled"
            BY <1>7, <1>9, <2>2
        <3>4. PresetState(rules, unit) = "enabled"
            BY <3>2 DEF PresetState
        <3> QED BY <3>2, <3>3, <3>4
    <2>3. \/ \E n : IsFirst(rules, G, unit, n) /\ glob = rules[n].action
          \/ (\A n \in G : ~Matches(rules[n], unit)) /\ glob = None
        BY <1>2, <1>4, <1>5, FirstOfSome
    <2> QED BY <2>1, <2>2, <2>3
<1>10. \/ \E n : IsFirst(rules, E, unit, n) /\ exact = rules[n].action
       \/ (\A n \in E : ~Matches(rules[n], unit)) /\ exact = None
    BY <1>2, <1>4, <1>5, FirstOfSome
<1> QED BY <1>8, <1>9, <1>10

LEMMA ActionFacts ==
    ASSUME NEW state, NEW default
    PROVE  /\ Action(state, default) = "enable" <=> state = "enabled" /\ default # "enabled"
           /\ Action(state, default) = "disable" <=> state = "disabled" /\ default = "enabled"
BY DEF Action

(* What is to be done about a unit of a kept package that a rule judges.   *)
LEMMA UnitActions ==
    ASSUME WholeInv, Reported, "presets" \in answered, NEW u \in DOMAIN host.units,
           host.units[u].owner \in Installed(snap), ~Overtaken(u),
           NEW state \in {"enabled", "disabled"}, state = StateOf(host, u),
           NEW judged, judged = PresetState(host.base_presets, u),
           state = "disabled" => FirstMatch(host.base_presets, u, None) # None
    PROVE  /\ UnitInstallable(snap, u) \/ u \notin snap.enabled_units \cup snap.disabled_units
           /\ state = "enabled" => /\ u \notin snap.disabled_units
                                   /\ u \in snap.enabled_units \/ judged = "enabled"
           /\ state = "disabled" => /\ u \notin snap.enabled_units
                                    /\ u \in snap.disabled_units \/ judged = "disabled"
<1>1. PICK current, presets, answers, base :
        /\ current = IF "systemctl" \in answered THEN ListUnitFiles(host) ELSE ScanUnitFiles(host)
        /\ presets = ParsePresetFiles(host, BasePresets) /\ answers = ("owners" \in answered)
        /\ base = host.base_presets
    OBVIOUS
<1>2. UnitsOf(snap, host, current, presets, answers)
    BY <1>1, SnapUnits
<1>3. host \in Hosts
    BY DEF WholeInv, MigrationInv
<1>4. /\ IsList(base) /\ base # None /\ None \notin {"enable", "disable"}
      /\ \A i \in DOMAIN base : base[i].action \in {"enable", "disable"}
      /\ None \notin ToSet(host.packages)
    <2>1. IsList(base)
        BY <1>1, <1>3, ListsOfHost DEF HostLists
    <2>2. /\ base # None /\ None \notin ToSet(host.packages) \cup {"enable", "disable"}
          /\ \A list \in {"base_presets", "etc_presets", "usr_presets"} :
                \A i \in DOMAIN host[list] : host[list][i].action \in {"enable", "disable"}
        BY <1>1, <1>3, HostAssumption
    <2>3. \A i \in DOMAIN host["base_presets"] : host["base_presets"][i].action \in {"enable", "disable"}
        BY <2>2
    <2> QED BY <1>1, <2>1, <2>2, <2>3
<1>5. host.units[u].owner # None
    BY <1>4, PackagesOfHost
<1>6. u \in DOMAIN current /\ current[u] = state
    BY <1>1, <1>5 DEF ListUnitFiles, ScanUnitFiles, UnitsIn, IsLocal
<1>7. PICK default : default = DefaultState(presets, u)
    OBVIOUS
<1>8. /\ u \in snap.enabled_units <=> state = "enabled" /\ default # "enabled"
      /\ u \in snap.disabled_units <=> state = "disabled" /\ default = "enabled"
    BY <1>2, <1>6, <1>7, ActionFacts DEF UnitsOf
<1>9. ASSUME u \in snap.enabled_units \cup snap.disabled_units PROVE UnitInstallable(snap, u)
    BY <1>9, OwnersFacts DEF UnitInstallable
<1>10. BasePresets = base
    BY <1>1 DEF BasePresets
<1>11. CASE base # <<>>
    <2>1. presets = ParsePresetLines(base)
        BY <1>1, <1>4, <1>10, <1>11 DEF ParsePresetFiles
    <2>2. ~Outranked(base, u)
        BY <1>1 DEF Overtaken, Outranked
    <2>3. default = DefaultState(ParsePresetLines(base), u)
        BY <1>7, <2>1
    <2>4. \/ /\ \A d : FirstMatch(base, u, d) = "enable"
             /\ default = "enabled" /\ PresetState(base, u) = "enabled"
          \/ /\ \A d : FirstMatch(base, u, d) = "disable"
             /\ default = "disabled" /\ PresetState(base, u) = "disabled"
          \/ /\ \A d : FirstMatch(base, u, d) = d
             /\ default # "enabled" /\ PresetState(base, u) = "enabled"
        BY ONLY <1>4, <2>2, <2>3, JudgedAlike
    <2>5. /\ judged = PresetState(base, u)
          /\ state = "disabled" => FirstMatch(base, u, None) # None
        BY <1>1
    <2> QED BY <1>8, <1>9, <2>4, <2>5
<1>12. CASE base = <<>>
    <2>1. \A d : FirstMatch(base, u, d) = d
        <3>1. \A n \in DOMAIN base : FALSE
            BY <1>12
        <3> QED BY <1>4, <3>1, FirstOfAll DEF IsFirst
    <2>2. judged = "enabled" /\ state # "disabled"
        BY <1>1, <2>1 DEF PresetState
    <2> QED BY <1>8, <1>9, <2>2
<1> QED BY <1>11, <1>12

(* The steps that enable or disable a unit which does not come with config/. *)
LEMMA UnitSteps ==
    ASSUME WholeInv, Ended, NEW u, u \notin ConfigTreeUnits(snap)
    PROVE  /\ \A i \in DOMAIN program : program[i].do = "enable" /\ u \in program[i].args => u \in EnabledEarly(snap)
           /\ \A i \in DOMAIN program : program[i].do = "disable" /\ u \in program[i].args => u \in DisabledEarly(snap)
           /\ u \in EnabledEarly(snap) => \E i \in DOMAIN program : program[i].do = "enable" /\ u \in program[i].args
           /\ u \in DisabledEarly(snap) =>
                \E i \in DOMAIN program : program[i].do = "disable" /\ u \in program[i].args
<1>1. PICK sets : sets = Instructions(snap, tree.config)
    OBVIOUS
<1>2. Building /\ Done = ToSet(program) /\ Done = UNION {sets[k] : k \in 1..14} /\ IsSnapshot(snap)
    BY <1>1, EndedFacts
<1>3. \A i \in DOMAIN program : program[i] \in Done
    BY <1>2 DEF ToSet
<1>4. u \notin TimerUnits(snap)
    BY DEF TimerUnits, TimerNames, ConfigTreeUnits
<1>5. ASSUME NEW i \in DOMAIN program
      PROVE  /\ program[i].do = "enable" /\ u \in program[i].args => u \in EnabledEarly(snap)
             /\ program[i].do = "disable" /\ u \in program[i].args => u \in DisabledEarly(snap)
    <2>1. PICK x : x = program[i]
        OBVIOUS
    <2>2. PICK k \in 1..14 : x \in sets[k]
        BY <1>1, <1>2, <1>3, <2>1, DoneKinds
    <2>3. /\ x.do = "enable" => x.args = EnabledEarly(snap) \/ x.args = TimerUnits(snap)
          /\ x.do = "disable" => x.args = DisabledEarly(snap)
        BY <1>1, <2>2, InstructionKinds
    <2> QED BY <1>4, <2>1, <2>3
<1>6. PICK s, t, some, others : s = snap /\ t = tree.config /\ some = EnabledEarly(s) /\ others = DisabledEarly(s)
    OBVIOUS
<1>7. /\ some # {} => Step("enable", some) \in sets[3]
      /\ others # {} => Step("disable", others) \in sets[4]
    BY <1>1, <1>6 DEF Instructions
<1>8. \A y \in sets[3] \cup sets[4] : \E i \in DOMAIN program : program[i] = y
    BY <1>2 DEF ToSet
<1>9. \A v : Step("enable", v).do = "enable" /\ Step("enable", v).args = v
             /\ Step("disable", v).do = "disable" /\ Step("disable", v).args = v
    BY DEF Step
<1>10. ASSUME u \in some PROVE \E i \in DOMAIN program : program[i].do = "enable" /\ u \in program[i].args
    <2>1. PICK i \in DOMAIN program : program[i] = Step("enable", some)
        BY <1>7, <1>8, <1>10
    <2> QED BY <1>9, <1>10, <2>1
<1>11. ASSUME u \in others PROVE \E i \in DOMAIN program : program[i].do = "disable" /\ u \in program[i].args
    <2>1. PICK i \in DOMAIN program : program[i] = Step("disable", others)
        BY <1>7, <1>8, <1>11
    <2> QED BY <1>9, <1>11, <2>1
<1> QED BY <1>5, <1>6, <1>10, <1>11

(* The packages kept are installed before a unit is disabled.              *)
LEMMA InstalledFirst ==
    ASSUME WholeInv, Ended, NEW i \in DOMAIN program, program[i].do = "disable",
           NEW j \in DOMAIN program, i < j
    PROVE  Installed(snap) \subseteq PackagesBefore(j)
<1>1. PICK sets, x : sets = Instructions(snap, tree.config) /\ x = program[i]
    OBVIOUS
<1>2. Drawn
    BY <1>1, EndedFacts
<1>3. /\ IsList(program) /\ Len(program) \in Nat /\ DOMAIN program = 1..Len(program)
      /\ \A n \in DOMAIN program : \E k \in 1..14 :
                /\ program[n] \in sets[k]
                /\ \A l \in 1..(k - 1) : sets[l] \subseteq Before(program, n)
    BY <1>1, <1>2, BuiltSteps DEF WholeInv
<1>4. PICK k \in 1..14 : /\ x \in sets[k]
                         /\ \A l \in 1..(k - 1) : sets[l] \subseteq Before(program, i)
    BY <1>1, <1>3
<1>5. k = 4
    BY <1>1, <1>4, InstructionKinds
<1>6. sets[2] \subseteq Before(program, i)
    BY <1>4, <1>5
<1>7. Before(program, i) \subseteq Before(program, j)
    <2>1. i \in Nat /\ j \in Nat
        BY <1>3
    <2>2. 1..(i - 1) \subseteq 1..(j - 1)
        BY <2>1
    <2> QED BY <2>2 DEF Before
<1>8. PICK s, t, some : s = snap /\ t = tree.config /\ some = Installed(s)
    OBVIOUS
<1>9. some # {} => Step("install", some) \in sets[2]
    BY <1>1, <1>8 DEF Instructions
<1>10. Step("install", some) \in Before(program, j) => some \subseteq PackagesBefore(j)
    BY DEF PackagesBefore, Args, Of, Step
<1> QED BY <1>6, <1>7, <1>8, <1>9, <1>10

LEMMA UnitsCarried ==
    ASSUME WholeInv, Ended, "presets" \in answered, NEW u \in DOMAIN host.units,
           host.units[u].owner \in Installed(snap), StateOf(host, u) \in {"enabled", "disabled"},
           u \notin ConfigTreeUnits(snap), ~Overtaken(u),
           StateOf(host, u) = "disabled" => FirstMatch(host.base_presets, u, None) # None
    PROVE  u \in image.enabled <=> StateOf(host, u) = "enabled"
<1>1. PICK sets, state, judged : /\ sets = Instructions(snap, tree.config) /\ state = StateOf(host, u)
                                 /\ judged = PresetState(host.base_presets, u)
    OBVIOUS
<1>2. Building /\ Reported /\ Done = ToSet(program) /\ image.packages = host.base \cup Args("install", Done)
    BY <1>1, EndedFacts
<1>3. /\ UnitInstallable(snap, u) \/ u \notin snap.enabled_units \cup snap.disabled_units
      /\ state = "enabled" => /\ u \notin snap.disabled_units
                              /\ u \in snap.enabled_units \/ judged = "enabled"
      /\ state = "disabled" => /\ u \notin snap.enabled_units
                               /\ u \in snap.disabled_units \/ judged = "disabled"
    BY <1>1, <1>2, UnitActions
<1>4. /\ u \in snap.enabled_units <=> u \in EnabledEarly(snap)
      /\ u \in snap.disabled_units <=> u \in DisabledEarly(snap)
    BY <1>3 DEF EnabledEarly, DisabledEarly
<1>5. /\ StaysEnabled /\ StaysDisabled /\ PresetsApplied /\ OnlyEnabled
    BY <1>2 DEF WholeInv, UnitsInv
<1>6. pc = Len(program) + 1 /\ DOMAIN program = 1..(pc - 1) /\ Len(program) \in Nat
    <2>1. IsList(program) /\ pc \in 1..(Len(program) + 1) /\ pc > Len(program)
        BY DEF WholeInv, PlaceInv, Ended
    <2>2. Len(program) \in Nat /\ DOMAIN program = 1..Len(program)
        BY <2>1, ListFacts
    <2>3. pc = Len(program) + 1
        BY <2>1, <2>2
    <2> QED BY <2>2, <2>3
<1>7. Installed(snap) \subseteq image.packages
    BY <1>1, <1>2, PackagesAreThere, EndedFacts
<1>8. judged = "enabled" <=> u \in PresetUnits(image.packages)
    <2>1. StateOf(host, u) # "static"
        OBVIOUS
    <2>2. judged \in {"enabled", "disabled"}
        BY <1>1 DEF PresetState
    <2> QED BY <1>1, <1>7, <2>1, <2>2 DEF PresetUnits
<1>9. CASE state = "enabled"
    <2>1. \A i \in DOMAIN program : program[i].do = "disable" => u \notin program[i].args
        BY <1>3, <1>4, <1>9, UnitSteps
    <2>2. CASE u \in EnabledEarly(snap)
        <3>1. PICK i \in DOMAIN program : program[i].do = "enable" /\ u \in program[i].args
            BY <2>2, UnitSteps
        <3>2. \/ u \in image.enabled
              \/ \E j \in (i + 1)..(pc - 1) : program[j].do = "disable" /\ u \in program[j].args
            BY <1>5, <1>6, <3>1 DEF StaysEnabled
        <3>3. \A j \in (i + 1)..(pc - 1) : j \in DOMAIN program
            BY <1>6, <3>1
        <3> QED BY <1>1, <1>9, <2>1, <3>2, <3>3
    <2>3. CASE judged = "enabled"
        <3>1. u \in image.enabled \/ \E x \in Of("disable", Done) : u \in x.args
            BY <1>5, <1>8, <2>3 DEF PresetsApplied
        <3>2. \A x \in Of("disable", Done) : u \notin x.args
            BY <1>2, <2>1 DEF Of, ToSet
        <3> QED BY <1>1, <1>9, <3>1, <3>2
    <2> QED BY <1>3, <1>4, <1>9, <2>2, <2>3
<1>10. CASE state = "disabled"
    <2>1. \A i \in DOMAIN program : program[i].do = "enable" => u \notin program[i].args
        BY <1>3, <1>4, <1>10, UnitSteps
    <2>2. CASE u \in DisabledEarly(snap)
        <3>1. PICK i \in DOMAIN program : program[i].do = "disable" /\ u \in program[i].args
            BY <2>2, UnitSteps
        <3>2. SUFFICES ASSUME u \in image.enabled PROVE FALSE
            BY <1>1, <1>10
        <3>3. PICK j \in (i + 1)..(pc - 1) :
                \/ program[j].do = "enable" /\ u \in program[j].args
                \/ program[j].do = "install" /\ host.units[u].owner \notin PackagesBefore(j)
            BY <1>5, <1>6, <3>1, <3>2 DEF StaysDisabled
        <3>4. j \in DOMAIN program /\ i < j
            BY <1>6, <3>1
        <3>5. Installed(snap) \subseteq PackagesBefore(j)
            BY <3>1, <3>4, InstalledFirst
        <3> QED BY <2>1, <3>3, <3>4, <3>5
    <2>3. CASE judged = "disabled"
        <3>1. u \notin PresetUnits(image.packages)
            BY <1>8, <2>3
        <3>2. \A x \in Of("enable", Done) : u \notin x.args
            BY <1>2, <2>1 DEF Of, ToSet
        <3> QED BY <1>1, <1>5, <1>10, <3>1, <3>2 DEF OnlyEnabled
    <2> QED BY <1>3, <1>4, <1>10, <2>2, <2>3
<1> QED BY <1>1, <1>9, <1>10

\* On every host whose base image's presets are known, and whatever was edited, a
\* unit of a kept package that they judge is enabled in the image if and only if
\* it is on the host: the presets as the inspector reads them, the units it lists
\* and the order of installing, enabling and disabling come to the same.
THEOREM UnitStatesAreCarried == MigrationSpec => []UnitStatesCarried
<1>1. ASSUME WholeInv, Ended, "presets" \in answered, NEW u \in DOMAIN host.units,
             /\ host.units[u].owner \in Installed(snap)
             /\ StateOf(host, u) \in {"enabled", "disabled"}
             /\ u \notin ConfigTreeUnits(snap) /\ ~Overtaken(u)
             /\ StateOf(host, u) = "disabled" => FirstMatch(host.base_presets, u, None) # None
      PROVE  u \in image.enabled <=> StateOf(host, u) = "enabled"
    BY <1>1, UnitsCarried
<1>2. WholeInv => UnitStatesCarried
    BY <1>1 DEF UnitStatesCarried
<1> QED BY <1>2, WholeInvariant, PTL
-----------------------------------------------------------------------------
(* Jobs                                                                    *)

(* What is done before a step is of its section or of an earlier one.      *)
LEMMA EarlierSteps ==
    ASSUME MigrationInv, Drawn, NEW sets, sets = Instructions(snap, tree.config), NEW j \in DOMAIN program
    PROVE  \E k \in 1..14 : /\ program[j] \in sets[k]
                            /\ \A x \in Before(program, j) : \E l \in 1..k : x \in sets[l]
<1>1. PICK s, t, c : s = snap /\ t = tree.config /\ c = program
    OBVIOUS
<1>2. IsSnapshot(s) /\ c = Render(s, t) /\ sets = Instructions(s, t)
    BY <1>1 DEF MigrationInv, InStep
<1>3. InOrder(Render(s, t), Instructions(s, t), 14)
    BY <1>2, RenderInOrder
<1>4. InOrder(c, sets, 14) /\ j \in DOMAIN c
    BY <1>1, <1>2, <1>3
<1>5. \E k \in 1..14 : /\ c[j] \in sets[k]
                       /\ \A x \in Before(c, j) : \E l \in 1..k : x \in sets[l]
    BY ONLY <1>4 DEF InOrder
<1> QED BY <1>1, <1>5

(* Every timer of config/ is enabled: nothing is disabled after it.        *)
LEMMA TimersEnabled ==
    ASSUME WholeInv, Ended, NEW n \in TimerNames(snap)
    PROVE  Append(n, "timer") \in image.enabled
<1>1. PICK sets, timers, u : /\ sets = Instructions(snap, tree.config) /\ timers = TimerUnits(snap)
                             /\ u = Append(n, "timer")
    OBVIOUS
<1>0. Drawn
    BY <1>1, EndedFacts
<1>2. Building /\ Done = ToSet(program) /\ Done = UNION {sets[k] : k \in 1..14}
    BY <1>1, EndedFacts
<1>3. u \in timers
    BY <1>1 DEF TimerUnits
<1>4. Step("enable", timers) \in sets[6]
    <2>1. PICK s, t : s = snap /\ t = tree.config
        OBVIOUS
    <2>2. timers = {Append(m, "timer") : m \in TimerNames(s)}
        BY <1>1, <2>1 DEF TimerUnits
    <2>3. Instructions(s, t)[6] = {x \in {Step("enable", timers)} : TimerNames(s) # {}}
        BY <2>2 DEF Instructions
    <2> QED BY <1>1, <2>1, <2>3
<1>5. PICK i \in DOMAIN program : program[i] = Step("enable", timers)
    BY <1>2, <1>4 DEF ToSet
<1>6. program[i].do = "enable" /\ program[i].args = timers
    BY <1>5 DEF Step
<1>7. Len(program) \in Nat /\ DOMAIN program = 1..Len(program)
    BY <1>1, <1>0, BuiltSteps DEF WholeInv
<1>8. pc = Len(program) + 1
    BY <1>7 DEF WholeInv, PlaceInv, Ended
<1>9. u \notin EnabledEarly(snap)
    <2>1. u \in ConfigTreeUnits(snap)
        BY <1>1 DEF ConfigTreeUnits, TimerNames
    <2> QED BY <2>1 DEF EnabledEarly
<1>10. ASSUME NEW j \in (i + 1)..(pc - 1), program[j].do = "disable" PROVE FALSE
    <2>1. i \in Nat /\ j \in DOMAIN program /\ i \in 1..(j - 1)
        BY <1>7, <1>8
    <2>2. PICK k \in 1..14 : /\ program[j] \in sets[k]
                             /\ \A x \in Before(program, j) : \E l \in 1..k : x \in sets[l]
        BY <1>0, <1>1, <2>1, EarlierSteps DEF WholeInv
    <2>3. k = 4
        BY <1>1, <1>10, <2>2, InstructionKinds
    <2>4. program[i] \in Before(program, j)
        BY <2>1 DEF Before
    <2>5. PICK l \in 1..4 : program[i] \in sets[l]
        BY <2>2, <2>3, <2>4
    <2>6. l \in 1..14 /\ l # 6
        OBVIOUS
    <2>7. timers = EnabledEarly(snap)
        BY <1>1, <1>6, <2>5, <2>6, InstructionKinds
    <2> QED BY <1>3, <1>9, <2>7
<1>11. StaysEnabled
    BY <1>2 DEF WholeInv, UnitsInv
<1>12. i \in 1..(pc - 1)
    BY <1>7, <1>8
<1> QED BY <1>1, <1>3, <1>6, <1>10, <1>11, <1>12 DEF StaysEnabled

(* The name of a timer is a list.                                          *)
LEMMA FrontFacts ==
    ASSUME NEW s, IsList(s), s # <<>>
    PROVE  /\ IsList(Front(s)) /\ Append(Front(s), Last(s)) = s
<1>1. s \in Seq(ToSet(s)) /\ Len(s) \in Nat /\ Len(s) # 0
    BY ListFacts
<1>2. Front(s) \in Seq(ToSet(s)) /\ Append(Front(s), Last(s)) = s
    BY <1>1 DEF Front, Last
<1> QED BY <1>2, SeqIsList

LEMMA PathsOfHost ==
    ASSUME NEW h \in Hosts, NEW f \in ToSet(h.files)
    PROVE  /\ IsPath(f.path) /\ IsList(f.path.name) /\ f.path.name # <<>> /\ f.path.top # "tmp"
           /\ \A g \in ToSet(h.files) : g.path = f.path => g = f
<1>1. IsPath(f.path) /\ f.path.top # "tmp"
    BY HostAssumption DEF ToSet
<1>2. \A g \in ToSet(h.files) : g.path = f.path => g = f
    BY HostAssumption DEF ToSet
<1> QED BY <1>1, <1>2, SeqIsList DEF IsPath

LEMMA PairIsList == ASSUME NEW x, NEW y PROVE IsList(<<x, y>>)
<1>1. PICK s : s = <<x, y>>
    OBVIOUS
<1>2. s = [i \in 1..2 |-> s[i]]
    BY <1>1
<1> QED BY <1>1, <1>2, ListOf

(* The parts of the timer of a line, and of a script.                      *)
LEMMA CronTimerParts ==
    ASSUME NEW x, NEW f, NEW line, CronTimer(x, f, line)
    PROVE  /\ x.name = <<"cron">> \o f.path.name
           /\ x.timer_content = TimerText(OnCalendar(line.fields))
           /\ x.service_content.of = <<"service", IF line.job = "" THEN "true" ELSE line.job>>
<1>1. PICK calendar, name, has : /\ calendar = OnCalendar(line.fields) /\ name = <<"cron">> \o f.path.name
                                 /\ has = f.text.holds
    OBVIOUS
<1>2. x = Timer(name, calendar, line.job, has)
    BY <1>1 DEF CronTimer
<1>3. /\ x.name = name /\ x.timer_content = TimerText(calendar)
      /\ x.service_content.of = <<"service", IF line.job = "" THEN "true" ELSE line.job>>
    BY <1>2 DEF Timer, GeneratedTimerUnit, ServiceText, Text
<1> QED BY <1>1, <1>3

LEMMA ScriptTimerParts ==
    ASSUME NEW x, NEW f, NEW p, ScriptTimer(x, f, p)
    PROVE  LET job == Last(f.path.name)
           IN  /\ x.name = <<"cron", p.name>> \o f.path.name
               /\ x.service_content.of = <<"service", IF job = "" THEN "true" ELSE job>>
<1>1. PICK calendar, name, job : /\ calendar = p.calendar /\ name = <<"cron", p.name>> \o f.path.name
                                 /\ job = Last(f.path.name)
    OBVIOUS
<1>2. x = Timer(name, calendar, job, {})
    BY <1>1 DEF ScriptTimer
<1>3. x.name = name /\ x.service_content.of = <<"service", IF job = "" THEN "true" ELSE job>>
    BY <1>2 DEF Timer, GeneratedTimerUnit, ServiceText, Text
<1> QED BY <1>1, <1>3

LEMMA TimerNamesAre ==
    ASSUME WholeInv, Reported,
           NEW t \in ToSet(snap.generated_timer_units) \cup ToSet(snap.systemd_timers)
    PROVE  IsList(t.name)
<1>1. PICK h, jobs, locals, a : /\ h = host /\ TimersOf(jobs, h, a) /\ locals = LocalTimers(h)
                                /\ SameTimers(snap.generated_timer_units, jobs)
                                /\ SameTimers(snap.systemd_timers, locals)
    BY ReportedTimers
<1>2. h \in Hosts
    BY <1>1 DEF WholeInv, MigrationInv
<1>3. ASSUME NEW x, IsTimerOf(x, h) PROVE IsList(x.name)
    <2>1. CASE \E f \in ToSet(h.files) : \E line \in ToSet(h.crontabs[f.path]) : CronTimer(x, f, line)
        <3>1. PICK f \in ToSet(h.files) : \E line : CronTimer(x, f, line)
            BY <2>1
        <3>2. x.name = <<"cron">> \o f.path.name
            BY <3>1, CronTimerParts
        <3> QED BY <1>2, <3>2, PathsOfHost, Concatenation, OneElement
    <2>2. CASE \E p \in ToSet(Periods) : \E f \in ToSet(h.files) : ScriptTimer(x, f, p)
        <3>1. PICK f \in ToSet(h.files) : \E p : ScriptTimer(x, f, p)
            BY <2>2
        <3>4. PICK p : ScriptTimer(x, f, p)
            BY <3>1
        <3>2. x.name = <<"cron", p.name>> \o f.path.name
            BY <3>4, ScriptTimerParts
        <3>3. IsList(<<"cron", p.name>>)
            BY PairIsList
        <3> QED BY <1>2, <3>2, <3>3, PathsOfHost, Concatenation
    <2> QED BY <1>3, <2>1, <2>2 DEF IsTimerOf
<1>4. ASSUME NEW x \in ToSet(locals) PROVE IsList(x.name)
    <2>1. PICK f \in ToSet(h.files) : LocalTimer(x, f, ToSet(h.files))
        BY <1>1, <1>2, LocalTimersFound
    <2> QED BY <1>2, <2>1, PathsOfHost, FrontFacts DEF LocalTimer
<1>5. \A x \in ToSet(jobs) : IsTimerOf(x, h)
    BY <1>1 DEF TimersOf
<1>6. ASSUME t \in ToSet(snap.generated_timer_units) PROVE \E y \in ToSet(jobs) : t.name = y.name
    BY <1>1, <1>6 DEF SameTimers, SameTimer
<1>7. ASSUME t \in ToSet(snap.systemd_timers) PROVE \E y \in ToSet(locals) : t.name = y.name
    BY <1>1, <1>7 DEF SameTimers, SameTimer
<1> QED BY <1>3, <1>4, <1>5, <1>6, <1>7

(* Over the layer of generated timers only timers write to the directory   *)
(* of units.                                                               *)
LEMMA ProjectPaths ==
    ASSUME WholeInv, Reported, NEW x \in ToSet(snap.items), NEW g \in ProjectOf(x)
    PROVE  g.path.top \in {"opt", "srv", "usr"} /\ (g.path.top = "usr" => g.path.dir = "local")
<1>1. PICK h : h = host /\ h \in Hosts /\ AppItem(x, h)
    BY ReportedItems DEF WholeInv, MigrationInv
<1> DEFINE Place(q) == q.top \in {"opt", "srv", "usr"} /\ (q.top = "usr" => q.dir = "local")
<1>2. \A a \in ToSet(h.apps) : IsPath(a.path) /\ Place(a.path)
    BY <1>1, AppFacts DEF IsProject
<1>3. ASSUME NEW q, IsPath(q), NEW name, NEW p, p = InDir(q, name)
      PROVE  p.top = q.top /\ p.dir = q.dir
    BY <1>3, InDirFacts
<1>4. CASE BareItem(x)
    <2>1. ProjectOf(x) = {}
        BY <1>4, DomainOfNone DEF BareItem, ProjectOf
    <2> QED BY <2>1
<1>5. CASE \E a \in ToSet(h.apps) : LockItem(x, a)
    <2>1. PICK a \in ToSet(h.apps) : LockItem(x, a)
        BY <1>5
    <2>2. x.path = a.path /\ x.content = NoText
        BY <2>1 DEF LockItem
    <2>3. PICK j \in DOMAIN x.files : g = File(InDir(x.path, <<x.files[j].name>>), x.files[j].text)
        BY <2>2 DEF ProjectOf
    <2>4. PICK name : g.path = InDir(x.path, name)
        BY <2>3 DEF File
    <2>5. IsPath(x.path) /\ Place(x.path)
        BY <1>2, <2>2
    <2>6. g.path.top = x.path.top /\ g.path.dir = x.path.dir
        BY <1>3, <2>4, <2>5
    <2> QED BY <2>5, <2>6
<1>6. CASE \E a \in ToSet(h.apps) : PipItem(x, a)
    <2>1. PICK a \in ToSet(h.apps) : PipItem(x, a)
        BY <1>6
    <2>2. x.files = <<>>
        BY <2>1 DEF PipItem
    <2>3. g.path = x.path
        BY <2>2, DomainOfNone DEF ProjectOf, File
    <2>4. PICK name : x.path = InDir(a.path, name)
        BY <2>1 DEF PipItem
    <2>5. x.path.top = a.path.top /\ x.path.dir = a.path.dir
        BY <1>2, <1>3, <2>4
    <2> QED BY <1>2, <2>3, <2>5
<1> QED BY <1>1, <1>4, <1>5, <1>6 DEF AppItem

LEMMA UnitDirLayers ==
    ASSUME WholeInv, Reported, NEW j \in 9..17, NEW g \in Layers(snap)[j],
           g.path.top = "etc", g.path.dir = UnitDir
    PROVE  j = 9 \/ j = 10
<1>1. PICK s, layers : s = snap /\ layers = Layers(s)
    OBVIOUS
<1>2. g \in layers[j]
    BY <1>1
<1>3. ASSUME j = 11 PROVE FALSE
    <2>1. g \in FilesOf(s.env_files)
        BY <1>1, <1>2, <1>3 DEF Layers
    <2>2. PICK x \in ToSet(snap["env_files"]) : g.path = x.path
        BY <1>1, <2>1 DEF FilesOf, File
    <2>3. PICK f \in SectionFiles(host, answered, "env_files") : x.path = f.path
        BY <2>2, SnapSections DEF Taken, FileSections
    <2> QED BY <2>2, <2>3 DEF SectionFiles, EnvFiles
<1>4. ASSUME j = 14 PROVE FALSE
    <2>1. g \in FilesOf(s.snippets)
        BY <1>1, <1>2, <1>4 DEF Layers
    <2>2. PICK x \in ToSet(snap["snippets"]) : g.path = x.path
        BY <1>1, <2>1 DEF FilesOf, File
    <2>3. PICK f \in SectionFiles(host, answered, "snippets") : x.path = f.path
        BY <2>2, SnapSections DEF Taken, FileSections
    <2> QED BY <2>2, <2>3 DEF SectionFiles, SnippetFiles, FilesThere, UnitDir
<1>5. ASSUME j = 12 PROVE FALSE
    <2>1. layers[12] = UNION {ProjectOf(x) : x \in ToSet(Kept(s.items))}
        BY <1>1 DEF Layers
    <2>2. PICK x \in ToSet(Kept(s.items)) : g \in ProjectOf(x)
        BY <1>2, <1>5, <2>1
    <2>3. IsList(s.items)
        BY <1>1 DEF WholeInv, MigrationInv, IsSnapshot, Records, Lists
    <2>4. x \in ToSet(snap.items)
        BY <1>1, <2>2, <2>3, KeptFacts
    <2> QED BY <2>2, <2>4, ProjectPaths
<1>6. ASSUME j \in {13, 15, 16, 17} PROVE FALSE
    <2>1. g \in ToSet(SysusersFiles(s)) \cup ToSet(SysctlConf(s)) \cup ToSet(Kargs(s)) \cup ToSet(VarTmpfiles(s))
        BY <1>1, <1>2, <1>6 DEF Layers
    <2>2. g.path \in {SysusersConf, SysctlPath, KargsToml} \/ \E name : g.path = Tmpfiles(name)
        BY <2>1, ToolFilesAreLists
    <2>3. /\ SysusersConf.dir # UnitDir /\ SysctlPath.dir # UnitDir /\ KargsToml.dir # UnitDir
          /\ \A name : Tmpfiles(name).dir # UnitDir
        BY DEF SysusersConf, SysctlPath, KargsToml, Tmpfiles, Path, UnitDir
    <2> QED BY <2>2, <2>3
<1> QED BY <1>3, <1>4, <1>5, <1>6

(* Of what is picked from a list, what comes after an element came after it. *)
LEMMA PickedOrder ==
    ASSUME NEW list, IsList(list), NEW places \in SUBSET DOMAIN list, NEW n \in places,
           NEW picked, picked = Picked(list, places)
    PROVE  \E k \in DOMAIN picked :
                /\ picked[k] = list[n]
                /\ \A j \in DOMAIN picked : j > k => \E m \in places : m > n /\ picked[j] = list[m]
<1> DEFINE at(i) == CHOOSE m \in places : Rank(places, m) = i
<1>1. IsFiniteSet(places) /\ Cardinality(places) \in Nat /\ places \in SUBSET Nat
    BY ListFacts, FS_Subset, FS_CardinalityType
<1>2. picked = [i \in 1..Cardinality(places) |-> list[at(i)]]
    BY DEF Picked, Rank
<1>3. \A i \in 1..Cardinality(places) : at(i) \in places /\ Rank(places, at(i)) = i
    BY <1>1, RanksAreNumbers
<1>4. DOMAIN picked = 1..Cardinality(places) /\ \A i \in DOMAIN picked : picked[i] = list[at(i)]
    BY <1>2
<1>5. PICK k : k = Rank(places, n)
    OBVIOUS
<1>6. k \in 1..Cardinality(places) /\ at(k) = n
    BY <1>1, <1>3, <1>5, RanksAreNumbers
<1> HIDE DEF at
<1>7. ASSUME NEW j \in DOMAIN picked, j > k PROVE at(j) > n
    <2>1. at(j) \in places /\ Rank(places, at(j)) = j
        BY <1>3, <1>4, <1>7
    <2>2. SUFFICES ASSUME at(j) <= n PROVE FALSE
        BY <1>1, <2>1
    <2>3. Rank(places, at(j)) <= Rank(places, n)
        BY <1>1, <2>1, <2>2, RankGrows
    <2> QED BY <1>4, <1>5, <1>6, <1>7, <2>1, <2>3
<1> QED BY <1>3, <1>4, <1>6, <1>7

LEMMA AppendFacts ==
    ASSUME NEW s, NEW t, IsList(s), IsList(t), NEW x, NEW y, Append(s, x) = Append(t, y)
    PROVE  s = t /\ x = y
<1>1. s \in Seq(ToSet(s)) /\ t \in Seq(ToSet(t)) /\ Len(s) \in Nat /\ Len(t) \in Nat
    BY ListFacts
<1>2. PICK S : s \in Seq(S) /\ t \in Seq(S) /\ x \in S /\ y \in S
    <2>1. PICK S : S = ToSet(s) \cup ToSet(t) \cup {x, y}
        OBVIOUS
    <2>2. s \in Seq(S) /\ t \in Seq(S)
        <3>1. ToSet(s) \subseteq S /\ ToSet(t) \subseteq S
            BY <2>1
        <3> QED BY <1>1, <3>1
    <2> QED BY <2>1, <2>2
<1>3. s = t /\ x = y
    BY <1>2, AppendProperties
<1> QED BY <1>3

LEMMA UnitPathFacts ==
    ASSUME NEW u, NEW v
    PROVE  /\ UnitPath(u).top = "etc" /\ UnitPath(u).dir = UnitDir
           /\ UnitPath(u) = UnitPath(v) => u = v
BY DEF UnitPath, Path

(* What is at the path of a file of a layer is of that layer or one over it. *)
LEMMA OverLayer ==
    ASSUME NEW s, IsSnapshot(s), Projects(s.items), NEW t, t = WriteConfigTree(s), NEW L, L = Layers(s),
           NEW k \in 1..17, NEW f \in L[k]
    PROVE  /\ f.path \in DOMAIN t
           /\ \E j \in k..17 : \E g \in L[j] : g.path = f.path /\ t[f.path] = g.text
<1>1. k \in k..17
    OBVIOUS
<1> QED BY <1>1, TreeFacts, SMTT(30)

(* The pair of files of a timer alone is its own in the tree.              *)
PairText(t, suffix) == IF suffix = "timer" THEN t.timer_content ELSE t.service_content

LEMMA PairsAre ==
    ASSUME NEW timers, NEW g
    PROVE  g \in PairsOf(timers) <=> \E t \in timers : \E suffix \in {"timer", "service"} :
                /\ PairText(t, suffix) # NoText
                /\ g = File(UnitPath(Append(t.name, suffix)), PairText(t, suffix))
<1>1. /\ \A t : PairText(t, "timer") = t.timer_content
      /\ \A t : PairText(t, "service") = t.service_content
    BY DEF PairText
<1>2. g \in PairsOf(timers) <=>
        \/ \E t \in timers : /\ t.timer_content # NoText
                             /\ g = File(UnitPath(Append(t.name, "timer")), t.timer_content)
        \/ \E t \in timers : /\ t.service_content # NoText
                             /\ g = File(UnitPath(Append(t.name, "service")), t.service_content)
    BY DEF PairsOf
<1> QED BY <1>1, <1>2

(* Of the pairs of one name that are written the last one stays.           *)
LEMMA LastPair ==
    ASSUME WholeInv, Reported, NEW i \in DOMAIN snap.generated_timer_units, LastKept(i),
           NEW x, x = snap.generated_timer_units[i],
           NEW suffix \in {"timer", "service"}, PairText(x, suffix) # NoText,
           NEW p, p = UnitPath(Append(x.name, suffix)),
           NEW pairs, pairs = TimerFiles(Kept(snap.generated_timer_units))
    PROVE  p \in DOMAIN Written(pairs) /\ Written(pairs)[p] = PairText(x, suffix)
<1>1. PICK units, places, kept : /\ units = snap.generated_timer_units /\ kept = Kept(units)
                                 /\ places = {n \in DOMAIN units : units[n].include}
    OBVIOUS
<1>2. IsList(units)
    BY <1>1 DEF WholeInv, MigrationInv, IsSnapshot, Records, Lists
<1>3. i \in places /\ \A m \in places : m > i => units[m].name # x.name
    BY <1>1 DEF LastKept
<1>4. kept = Picked(units, places)
    BY <1>1 DEF Kept, Select
<1>5. PICK k \in DOMAIN kept :
            /\ kept[k] = units[i]
            /\ \A j \in DOMAIN kept : j > k => \E m \in places : m > i /\ kept[j] = units[m]
    <2>1. places \in SUBSET DOMAIN units
        BY <1>1
    <2> QED BY ONLY <1>2, <1>3, <1>4, <2>1, PickedOrder
<1>6. kept[k] = x /\ \A j \in DOMAIN kept : j > k => kept[j].name # x.name
    BY <1>1, <1>3, <1>5
<1>7. IsList(kept) /\ ToSet(kept) \subseteq ToSet(units)
    BY <1>1, <1>2, KeptFacts
<1>8. PICK lists : /\ IsList(lists) /\ DOMAIN lists = DOMAIN kept /\ pairs = FlattenSeq(lists)
                   /\ \A j \in DOMAIN kept : IsList(lists[j]) /\ ToSet(lists[j]) = PairsOf({kept[j]})
    BY <1>1, <1>7, TimerLists
<1>9. PICK N : /\ N = Len(lists) /\ N \in Nat /\ DOMAIN kept = 1..N /\ N # 0 /\ k \in 1..N
    BY <1>5, <1>8, ListFacts
<1>10. PICK sets : \A j \in 1..N : sets[j] = PairsOf({kept[j]})
    <2>1. \A j \in 1..N : [l \in 1..N |-> PairsOf({kept[l]})][j] = PairsOf({kept[j]})
        OBVIOUS
    <2> QED BY ONLY <2>1
<1>11. Layered(pairs, sets, N)
    <2>1. \A j \in DOMAIN lists : IsList(lists[j]) /\ sets[j] = ToSet(lists[j])
        BY <1>8, <1>9, <1>10
    <2>2. Layered(FlattenSeq(lists), sets, Len(lists))
        BY ONLY <1>8, <1>9, <2>1, FlattenLayered
    <2> QED BY <1>8, <1>9, <2>2
<1>12. PICK f : f = File(p, PairText(x, suffix))
    OBVIOUS
<1>13. f \in sets[k] /\ f.path = p
    <2>1. f \in PairsOf({x})
        BY <1>12, PairsAre
    <2> QED BY <1>6, <1>9, <1>10, <1>12, <2>1 DEF File
<1>14. /\ p \in DOMAIN Written(pairs)
       /\ \E j \in k..N : \E g \in sets[j] : g.path = p /\ Written(pairs)[p] = g.text
    <2>1. k \in k..N
        BY <1>9
    <2>2. /\ f.path \in DOMAIN Written(pairs)
          /\ \E j \in k..N : \E g \in sets[j] : g.path = f.path /\ Written(pairs)[f.path] = g.text
        BY ONLY <1>9, <1>11, <1>13, <2>1, LayeredWritten
    <2> QED BY <1>13, <2>2
<1>15. PICK j \in k..N : \E g \in sets[j] : g.path = p /\ Written(pairs)[p] = g.text
    BY <1>14
<1>16. PICK g \in sets[j] : g.path = p /\ Written(pairs)[p] = g.text
    BY <1>15
<1>17. j \in 1..N /\ (j = k \/ j > k)
    BY <1>9
<1>18. PICK y : y = kept[j]
    OBVIOUS
<1>19. PICK other \in {"timer", "service"} :
                g = File(UnitPath(Append(y.name, other)), PairText(y, other))
    <2>1. g \in PairsOf({y})
        BY <1>10, <1>16, <1>17, <1>18
    <2> QED BY <2>1, PairsAre
<1>20. g.path = UnitPath(Append(y.name, other)) /\ g.text = PairText(y, other)
    BY <1>19 DEF File
<1>21. IsList(x.name) /\ IsList(y.name)
    <2>1. x \in ToSet(units) /\ y \in ToSet(units)
        BY <1>1, <1>7, <1>9, <1>17, <1>18 DEF ToSet
    <2> QED BY <1>1, <2>1, TimerNamesAre
<1>22. y.name = x.name /\ other = suffix
    <2>1. UnitPath(Append(y.name, other)) = UnitPath(Append(x.name, suffix))
        BY <1>16, <1>20
    <2>2. Append(y.name, other) = Append(x.name, suffix)
        BY ONLY <2>1, UnitPathFacts
    <2>3. PICK q, r : q = y.name /\ r = x.name
        OBVIOUS
    <2>4. IsList(q) /\ IsList(r) /\ Append(q, other) = Append(r, suffix)
        BY <1>21, <2>2, <2>3
    <2>5. q = r /\ other = suffix
        BY ONLY <2>4, AppendFacts
    <2> QED BY <2>3, <2>5
<1>23. y = x
    BY <1>6, <1>9, <1>17, <1>18, <1>22
<1> QED BY <1>14, <1>16, <1>20, <1>22, <1>23

LEMMA PairInTree ==
    ASSUME WholeInv, Reported, tree.config = WriteConfigTree(snap),
           NEW i \in DOMAIN snap.generated_timer_units, LastKept(i),
           NEW x, x = snap.generated_timer_units[i],
           NEW suffix \in {"timer", "service"}, PairText(x, suffix) # NoText,
           NEW p, p = UnitPath(Append(x.name, suffix))
    PROVE  p \in DOMAIN tree.config /\ tree.config[p] = PairText(x, suffix)
<1>1. PICK s, layers, pairs : /\ s = snap /\ layers = Layers(s)
                              /\ pairs = TimerFiles(Kept(s.generated_timer_units))
    OBVIOUS
<1>2. IsSnapshot(s) /\ Projects(s.items)
    BY <1>1 DEF WholeInv, MigrationInv
<1>3. p \in DOMAIN Written(pairs) /\ Written(pairs)[p] = PairText(x, suffix)
    BY <1>1, LastPair
<1>4. layers[10] = PairsOf(ToSet(s.systemd_timers))
    BY <1>1 DEF Layers
<1>5. x \in ToSet(snap.generated_timer_units) /\ \A t \in ToSet(snap.systemd_timers) : t.name # x.name
    BY DEF LastKept, ToSet
<1>6. ASSUME NEW j \in 10..17, NEW g \in layers[j], g.path = p PROVE FALSE
    <2>1. g.path.top = "etc" /\ g.path.dir = UnitDir
        BY <1>6, UnitPathFacts
    <2>2. j = 10
        BY <1>1, <1>6, <2>1, UnitDirLayers
    <2>3. PICK timers : timers = ToSet(s.systemd_timers) /\ g \in PairsOf(timers)
        BY <1>4, <1>6, <2>2
    <2>4. PICK y \in timers : \E other \in {"timer", "service"} :
                    g = File(UnitPath(Append(y.name, other)), PairText(y, other))
        BY <2>3, PairsAre
    <2>5. PICK other : g = File(UnitPath(Append(y.name, other)), PairText(y, other))
        BY <2>4
    <2>6. UnitPath(Append(y.name, other)) = UnitPath(Append(x.name, suffix))
        BY <1>6, <2>5 DEF File
    <2>7. Append(y.name, other) = Append(x.name, suffix)
        BY ONLY <2>6, UnitPathFacts
    <2>8. y \in ToSet(snap.systemd_timers)
        BY <1>1, <2>3, <2>4
    <2>9. IsList(y.name) /\ IsList(x.name)
        BY <1>5, <2>8, TimerNamesAre
    <2>10. y.name = x.name
        BY <2>7, <2>9, AppendFacts
    <2> QED BY <1>5, <2>8, <2>10
<1>7. \A j \in 10..17 : \A g \in Layers(s)[j] : g.path # p
    BY <1>1, <1>6
<1>8. p \in DOMAIN WriteConfigTree(s) /\ WriteConfigTree(s)[p] = Written(pairs)[p]
    BY ONLY <1>1, <1>2, <1>3, <1>7, GeneratedInTree
<1> QED BY <1>1, <1>3, <1>8

(* What of config/ is not next to quadlets is in the image as it is.       *)
LEMMA TreeInImage ==
    ASSUME WholeInv, Ended, NEW p \in DOMAIN tree.config, p.top # "tmp",
           ~(p.top = "etc" /\ p.dir = QuadletDir)
    PROVE  p \in DOMAIN image.files /\ image.files[p] = tree.config[p]
<1>1. p \in DOMAIN image.files
    BY TreeArrives
<1>2. PICK s, t, sets : s = snap /\ t = tree.quadlet /\ sets = Instructions(snap, tree.config)
    OBVIOUS
<1>3. IsSnapshot(s) /\ t = WriteQuadlets(s) /\ Building
    BY <1>2, EndedFacts
<1>4. IsList(s.quadlet_units)
    BY <1>3 DEF IsSnapshot, Records, Lists
<1>5. p \notin DOMAIN t
    <2>1. \A q \in DOMAIN t : \E name : q = Path("etc", QuadletDir, name)
        BY <1>3, <1>4, QuadletsAre
    <2> QED BY <2>1 DEF Path
<1>6. \/ p \in DOMAIN tree.quadlet /\ image.files[p] = tree.quadlet[p]
      \/ p \in DOMAIN tree.config /\ image.files[p] = tree.config[p]
    BY <1>1, <1>3 DEF WholeInv, ContentInv
<1> QED BY <1>1, <1>2, <1>5, <1>6

LEMMA PairInImage ==
    ASSUME WholeInv, Ended, NEW i \in DOMAIN snap.generated_timer_units, LastKept(i),
           NEW x, x = snap.generated_timer_units[i],
           NEW suffix \in {"timer", "service"}, PairText(x, suffix) # NoText
    PROVE  image.files[UnitPath(Append(x.name, suffix))] = PairText(x, suffix)
<1>1. PICK p, sets : p = UnitPath(Append(x.name, suffix)) /\ sets = Instructions(snap, tree.config)
    OBVIOUS
<1>2. Reported /\ tree.config = WriteConfigTree(snap)
    BY <1>1, EndedFacts
<1>3. p \in DOMAIN tree.config /\ tree.config[p] = PairText(x, suffix)
    BY <1>1, <1>2, PairInTree
<1>4. p.top # "tmp" /\ p.dir # QuadletDir
    BY <1>1, UnitPathFacts DEF UnitDir, QuadletDir
<1>5. image.files[p] = tree.config[p]
    BY <1>3, <1>4, TreeInImage
<1> QED BY <1>1, <1>3, <1>5

(* A calendar reads as the fields it is made of.                           *)
LEMMA ReadingFacts ==
    /\ DOMAIN Reading = {"*", "n", "a,b", "a..b", "a..b/n", "00/n", "a,b..c"}
    /\ Reading["*"] = "*" /\ Reading["n"] = "n" /\ Reading["a,b"] = "a,b"
    /\ Reading["a..b"] = "a-b" /\ Reading["a..b/n"] = "a-b/n" /\ Reading["00/n"] = "*/n"
    /\ Reading["a,b..c"] = "a,b-c"
BY DEF Reading

LEMMA FieldReads ==
    ASSUME NEW field, NEW kind, Sayable(field, kind), NEW part, part = CalendarField(field, kind)
    PROVE  part \in DOMAIN Reading /\ Reading[part] = field
<1>1. CASE field \in {"*", "n", "a,b"}
    <2>1. part = field
        BY <1>1 DEF CalendarField
    <2> QED BY <1>1, <2>1, ReadingFacts
<1>2. CASE field = "a-b"
    <2>1. part = "a..b"
        BY <1>2 DEF CalendarField
    <2> QED BY <1>2, <2>1, ReadingFacts
<1>3. CASE field = "a-b/n"
    <2>1. part = "a..b/n"
        BY <1>3 DEF CalendarField
    <2> QED BY <1>3, <2>1, ReadingFacts
<1>4. CASE field = "a,b-c" /\ kind # "dow"
    <2>1. part = "a,b..c"
        BY <1>4 DEF CalendarField
    <2> QED BY <1>4, <2>1, ReadingFacts
<1>5. CASE field = "*/n" /\ kind = "hour"
    <2>1. part = "00/n"
        BY <1>5 DEF CalendarField
    <2> QED BY <1>5, <2>1, ReadingFacts
<1> QED BY <1>1, <1>2, <1>3, <1>4, <1>5 DEF Sayable

LEMMA CalendarReads ==
    ASSUME NEW fields, Convertible(fields)
    PROVE  MeansSame(Tail(TimerText(OnCalendar(fields)).of), fields)
<1>1. PICK cal : cal = OnCalendar(fields)
    OBVIOUS
<1>2. /\ cal = [i \in 1..5 |-> cal[i]]
      /\ \A i \in 1..5 : cal[6 - i] = CalendarField(fields[i], Kinds[i])
    <2>1. /\ cal = [i \in 1..5 |-> cal[i]]
          /\ cal[1] = CalendarField(fields[5], Kinds[5]) /\ cal[2] = CalendarField(fields[4], Kinds[4])
          /\ cal[3] = CalendarField(fields[3], Kinds[3]) /\ cal[4] = CalendarField(fields[2], Kinds[2])
          /\ cal[5] = CalendarField(fields[1], Kinds[1])
        BY <1>1 DEF OnCalendar
    <2>2. \A i \in 1..5 : i = 1 \/ i = 2 \/ i = 3 \/ i = 4 \/ i = 5
        OBVIOUS
    <2> QED BY <2>1, <2>2
<1>3. IsList(cal) /\ Len(cal) = 5
    BY <1>2, ListOf
<1>4. Tail(TimerText(cal).of) = cal
    <2>1. PICK word : word = <<"timer">>
        OBVIOUS
    <2>2. IsList(word) /\ Len(word) = 1
        BY <2>1, OneElement
    <2>3. TimerText(cal).of = word \o cal
        BY <2>1 DEF TimerText, Text
    <2>5. PICK all : all = word \o cal
        OBVIOUS
    <2>4. /\ IsList(all) /\ Len(all) = Len(word) + Len(cal)
          /\ \A i \in 1..Len(cal) : all[Len(word) + i] = cal[i]
        <3>1. IsList(word) /\ IsList(cal)
            BY <1>3, <2>2
        <3>2. /\ IsList(word \o cal) /\ Len(word \o cal) = Len(word) + Len(cal)
              /\ \A i \in 1..Len(cal) : (word \o cal)[Len(word) + i] = cal[i]
            BY ONLY <3>1, Concatenation
        <3> QED BY <2>5, <3>2
    <2>6. Len(all) = 6 /\ \A i \in 1..5 : all[i + 1] = cal[i]
        BY <1>3, <2>2, <2>4
    <2>10. all \in Seq(ToSet(all)) /\ all # <<>>
        BY <2>4, <2>6, ListFacts
    <2>7. /\ Tail(all) \in Seq(ToSet(all)) /\ Len(Tail(all)) = Len(all) - 1
          /\ \A i \in 1..Len(Tail(all)) : Tail(all)[i] = all[i + 1]
        BY <2>10, HeadTailProperties
    <2>11. Len(Tail(all)) = 5
        BY <2>6, <2>7
    <2>8. IsList(Tail(all)) /\ \A i \in 1..5 : Tail(all)[i] = cal[i]
        BY <2>6, <2>7, <2>11, SeqIsList
    <2>9. Tail(all) = cal
        BY <1>3, <2>11, <2>8, SameList
    <2> QED BY <2>3, <2>5, <2>9
<1>5. \A i \in 1..5 : cal[6 - i] \in DOMAIN Reading /\ Reading[cal[6 - i]] = fields[i]
    BY <1>2, FieldReads DEF Convertible
<1> QED BY <1>1, <1>4, <1>5 DEF MeansSame

(* The last kept unit of a name runs in the image.                         *)
LEMMA LastRuns ==
    ASSUME WholeInv, Ended, NEW i \in DOMAIN snap.generated_timer_units, LastKept(i),
           NEW job, snap.generated_timer_units[i].service_content.of = Starts(job)
    PROVE  Runs(i, job)
<1>1. PICK s, sets, x : /\ s = snap /\ sets = Instructions(snap, tree.config)
                        /\ x = snap.generated_timer_units[i]
    OBVIOUS
<1>2. Reported /\ IsSnapshot(s) /\ x \in ToSet(snap.generated_timer_units)
    BY <1>1, EndedFacts DEF ToSet
<1>3. x.name \in TimerNames(snap)
    <2>1. x.include
        BY <1>1 DEF LastKept
    <2>2. IsList(s.generated_timer_units)
        BY <1>2 DEF IsSnapshot, Records, Lists
    <2>3. x \in ToSet(Kept(s.generated_timer_units))
        BY <1>1, <1>2, <2>1, <2>2, KeptFacts
    <2> QED BY <1>1, <2>3 DEF TimerNames
<1>4. Append(x.name, "timer") \in image.enabled
    BY <1>3, TimersEnabled
<1>5. PairText(x, "timer") = x.timer_content /\ PairText(x, "service") = x.service_content
    BY DEF PairText
<1>6. x.timer_content # NoText
    BY <1>2, TimerTexts
<1>7. x.service_content # NoText
    <2>1. PICK word, what : word = "service" /\ what = IF job = "" THEN "true" ELSE job
        OBVIOUS
    <2>2. <<word, what>> # <<>>
        OBVIOUS
    <2>3. x.service_content.of = <<word, what>>
        BY <1>1, <2>1, Zenon DEF Starts
    <2>4. NoText.of = <<>>
        BY DEF NoText, Text
    <2>5. x.service_content.of # NoText.of
        BY ONLY <2>2, <2>3, <2>4, Zenon
    <2> QED BY ONLY <2>5
<1>8. image.files[UnitPath(Append(x.name, "timer"))] = x.timer_content
    BY <1>1, <1>5, <1>6, PairInImage
<1>9. image.files[UnitPath(Append(x.name, "service"))] = x.service_content
    BY <1>1, <1>5, <1>7, PairInImage
<1> QED BY <1>1, <1>4, <1>8, <1>9 DEF Runs

(* A job or a script that is not the package's has its unit in the report. *)
LEMMA JobReported ==
    ASSUME WholeInv, Ended, NEW f \in ToSet(host.files), NotPackaged(f),
           f.path \in DOMAIN host.crontabs, f.decodes, NEW line \in LinesOf(f),
           NEW name, name = <<"cron">> \o f.path.name
    PROVE  \E i \in DOMAIN snap.generated_timer_units :
                /\ IsOf(i, name, line.job)
                /\ snap.generated_timer_units[i].timer_content = TimerText(OnCalendar(line.fields))
<1>1. PICK sets : sets = Instructions(snap, tree.config)
    OBVIOUS
<1>2. Reported /\ host \in Hosts
    BY <1>1, EndedFacts
<1>3. PICK h, list, jobs, a : /\ h = host /\ list = snap.generated_timer_units
                              /\ a = ("paths" \in answered) /\ TimersOf(jobs, h, a) /\ SameTimers(list, jobs)
    BY <1>2, ReportedTimers
<1>4. ~IsRpmOwned(f, a) /\ f \in ToSet(h.files) /\ f.path \in DOMAIN h.crontabs
    BY <1>3 DEF IsRpmOwned, NotPackaged
<1>5. line \in ToSet(h.crontabs[f.path]) /\ IsJob(f, line)
    BY <1>3 DEF LinesOf
<1>6. IsCrontab(f)
    BY <1>2, <1>3, <1>4, HostAssumption DEF ToSet
<1>7. PICK y \in ToSet(jobs) : CronTimer(y, f, line)
    BY <1>3, <1>4, <1>5, <1>6 DEF TimersOf
<1>8. PICK x \in ToSet(list) : SameTimer(x, y)
    BY <1>3 DEF SameTimers
<1>9. PICK i \in DOMAIN list : x = list[i]
    BY DEF ToSet
<1>10. /\ x.name = name /\ x.timer_content = TimerText(OnCalendar(line.fields))
       /\ x.service_content.of = Starts(line.job)
    <2>1. /\ y.name = <<"cron">> \o f.path.name
          /\ y.timer_content = TimerText(OnCalendar(line.fields))
          /\ y.service_content.of = <<"service", IF line.job = "" THEN "true" ELSE line.job>>
        BY <1>7, CronTimerParts
    <2>2. /\ x.name = y.name /\ x.timer_content = y.timer_content
          /\ x.service_content.of = y.service_content.of
        BY <1>8 DEF SameTimer
    <2>3. Starts(line.job) = <<"service", IF line.job = "" THEN "true" ELSE line.job>>
        BY DEF Starts
    <2> QED BY <2>1, <2>2, <2>3, Zenon
<1> QED BY <1>3, <1>9, <1>10 DEF IsOf

LEMMA ScriptReported ==
    ASSUME WholeInv, Ended, NEW f \in ToSet(host.files), NotPackaged(f),
           NEW p \in ToSet(Periods), f.path.dir = p.dir,
           NEW name, name = <<"cron", p.name>> \o f.path.name
    PROVE  \E i \in DOMAIN snap.generated_timer_units : IsOf(i, name, Last(f.path.name))
<1>1. PICK sets : sets = Instructions(snap, tree.config)
    OBVIOUS
<1>2. Reported /\ host \in Hosts
    BY <1>1, EndedFacts
<1>3. PICK h, list, jobs, a : /\ h = host /\ list = snap.generated_timer_units
                              /\ a = ("paths" \in answered) /\ TimersOf(jobs, h, a) /\ SameTimers(list, jobs)
    BY <1>2, ReportedTimers
<1>4. ~IsRpmOwned(f, a) /\ f \in ToSet(h.files)
    BY <1>3 DEF IsRpmOwned, NotPackaged
<1>5. PICK y \in ToSet(jobs) : ScriptTimer(y, f, p)
    BY <1>3, <1>4 DEF TimersOf
<1>6. PICK x \in ToSet(list) : SameTimer(x, y)
    BY <1>3 DEF SameTimers
<1>7. PICK i \in DOMAIN list : x = list[i]
    BY DEF ToSet
<1>8. PICK job : job = Last(f.path.name)
    OBVIOUS
<1>9. x.name = name /\ x.service_content.of = Starts(job)
    <2>1. /\ y.name = <<"cron", p.name>> \o f.path.name
          /\ y.service_content.of = <<"service", IF job = "" THEN "true" ELSE job>>
        BY <1>5, <1>8, ScriptTimerParts
    <2>2. x.name = y.name /\ x.service_content.of = y.service_content.of
        BY <1>6 DEF SameTimer
    <2>3. Starts(job) = <<"service", IF job = "" THEN "true" ELSE job>>
        BY DEF Starts
    <2> QED BY <2>1, <2>2, <2>3, Zenon
<1> QED BY <1>3, <1>7, <1>8, <1>9 DEF IsOf

LEMMA CronJobRuns ==
    ASSUME WholeInv, Ended, NEW f \in ToSet(host.files), f.path \in DOMAIN host.crontabs, f.decodes,
           NotPackaged(f), NEW line \in LinesOf(f), NEW name, name = <<"cron">> \o f.path.name
    PROVE  \E i \in DOMAIN snap.generated_timer_units :
                /\ IsOf(i, name, line.job)
                /\ Convertible(line.fields) => AtTimesOf(i, line)
                /\ LastKept(i) => Runs(i, line.job)
<1>1. PICK i \in DOMAIN snap.generated_timer_units :
            /\ IsOf(i, name, line.job)
            /\ snap.generated_timer_units[i].timer_content = TimerText(OnCalendar(line.fields))
    BY JobReported
<1>2. Convertible(line.fields) => AtTimesOf(i, line)
    BY <1>1, CalendarReads DEF AtTimesOf
<1>3. LastKept(i) => Runs(i, line.job)
    BY <1>1, LastRuns DEF IsOf
<1> QED BY <1>1, <1>2, <1>3

LEMMA ScriptRuns ==
    ASSUME WholeInv, Ended, NEW f \in ToSet(host.files), NEW p \in ToSet(Periods), f.path.dir = p.dir,
           NotPackaged(f), NEW name, name = <<"cron", p.name>> \o f.path.name
    PROVE  \E i \in DOMAIN snap.generated_timer_units :
                /\ IsOf(i, name, Last(f.path.name))
                /\ LastKept(i) => Runs(i, Last(f.path.name))
<1>1. PICK i \in DOMAIN snap.generated_timer_units : IsOf(i, name, Last(f.path.name))
    BY ScriptReported
<1> QED BY <1>1, LastRuns DEF IsOf

LEMMA LocalTimerRuns ==
    ASSUME WholeInv, Ended, NEW f \in ToSet(host.files), IsLocalTimer(f)
    PROVE  f.path.name \in image.enabled
<1>1. PICK sets : sets = Instructions(snap, tree.config)
    OBVIOUS
<1>2. Reported
    BY <1>1, EndedFacts
<1>3. PICK h, list, locals : /\ h = host /\ list = snap.systemd_timers /\ locals = LocalTimers(h)
                             /\ SameTimers(list, locals)
    BY <1>2, ReportedTimers
<1>4. h \in Hosts /\ f \in ToSet(h.files)
    BY <1>3 DEF WholeInv, MigrationInv
<1>5. PICK y \in ToSet(locals) : LocalTimer(y, f, ToSet(h.files))
    BY <1>3, <1>4, LocalTimersFound
<1>6. PICK x \in ToSet(list) : x.name = Front(f.path.name)
    BY <1>3, <1>5 DEF SameTimers, SameTimer, LocalTimer
<1>7. Append(x.name, "timer") \in image.enabled
    BY <1>3, <1>6, TimersEnabled DEF TimerNames
<1>8. Append(Front(f.path.name), "timer") = f.path.name
    BY <1>4, PathsOfHost, FrontFacts DEF IsLocalTimer, Suffix
<1> QED BY <1>6, <1>7, <1>8

\* On every host, whatever was answered and edited, each job of a crontab that can
\* be decoded and each script of a period has a unit in the report, at the times of
\* its line where the code has words for them; the last kept unit of a name runs in
\* the image, as each timer of the administrator does.
THEOREM JobsAreKept == MigrationSpec => []JobsKept
<1>1. ASSUME WholeInv PROVE JobsKept
    <2> SUFFICES ASSUME Ended PROVE JobsKept
        BY DEF JobsKept
    <2> QED BY <1>1, CronJobRuns, ScriptRuns, LocalTimerRuns DEF JobsKept, IsLocalTimer
<1> QED BY <1>1, WholeInvariant, PTL
-----------------------------------------------------------------------------
(* Files                                                                   *)

(* What is at a path in place of a text of the host.                       *)
Fits(path, text, got) ==
    \/ got.of \in {text.of, Append(text.of, "note")}
    \/ IsExcludedPath(path) /\ got = ExcludedPlaceholder
    \/ path \in ToolsOwn \cup GeneratedUnits /\ got.of[1] \in ToolsWords

LEMMA TakenFits ==
    ASSUME NEW x, NEW f, Taken(x, f)
    PROVE  Fits(f.path, Read(f), x.text)
BY DEF Taken, Fits

(* The files of the sections.                                              *)
LEMMA SectionFits ==
    ASSUME WholeInv, Reported, NEW f \in ToSet(host.files), NEW d \in FileSections,
           NEW x \in ToSet(snap[d]), x.path = f.path
    PROVE  Fits(f.path, Read(f), x.text)
<1>1. PICK h : h = host /\ h \in Hosts /\ f \in ToSet(h.files)
    BY DEF WholeInv, MigrationInv
<1>2. PICK g \in SectionFiles(host, answered, d) : Taken(x, g)
    BY SnapSections
<1>3. g \in ToSet(h.files)
    BY <1>1, <1>2, SectionsOfHost
<1>4. g.path = f.path
    BY <1>2 DEF Taken
<1>5. g = f
    BY <1>1, <1>3, <1>4, PathsOfHost
<1> QED BY <1>1, <1>2, <1>5, TakenFits

(* The tool's own files begin with a word of theirs.                       *)
LEMMA WordFirst ==
    ASSUME NEW word, NEW lines, IsList(lines), NEW has
    PROVE  Text(<<word>> \o lines, has).of[1] = word
<1>1. PICK one : one = <<word>>
    OBVIOUS
<1>2. IsList(one) /\ Len(one) = 1 /\ one[1] = word
    BY <1>1, OneElement
<1>3. (one \o lines)[1] = word
    BY <1>2, Concatenation
<1>4. Text(one \o lines, has).of = one \o lines
    BY DEF Text
<1> QED BY <1>1, <1>3, <1>4

LEMMA GeneratedFits ==
    ASSUME NEW path, NEW word, NEW lines, IsList(lines), NEW g \in ToSet(Generated(path, word, lines)),
           path \in ToolsOwn, word \in ToolsWords, NEW text
    PROVE  Fits(g.path, text, g.text)
<1>1. PICK made : made = File(path, Text(<<word>> \o lines, {}))
    OBVIOUS
<1>2. Generated(path, word, lines) = <<>> \/ Generated(path, word, lines) = <<made>>
    BY <1>1 DEF Generated
<1>3. g = made
    BY <1>2, EmptyList, OneElement
<1>4. g.path = path /\ g.text = Text(<<word>> \o lines, {})
    BY <1>1, <1>3 DEF File
<1>5. g.text.of[1] = word
    BY <1>4, WordFirst
<1> QED BY <1>4, <1>5 DEF Fits

(* The lines of the tool's own files are lists.                            *)
LEMMA FirstUsers ==
    ASSUME NEW users, IsList(users), NEW n, n = IF Len(users) < MaxHomes THEN Len(users) ELSE MaxHomes
    PROVE  IsList(SubSeq(users, 1, n))
<1>1. users \in Seq(ToSet(users)) /\ Len(users) \in Nat
    BY ListFacts
<1>2. n \in 0..Len(users) /\ 1 \in 1..(Len(users) + 1)
    BY <1>1 DEF MaxHomes
<1>3. SubSeq(users, 1, n) \in Seq(ToSet(users))
    BY <1>1, <1>2, SubSeqProperties
<1> QED BY <1>3, SeqIsList

LEMMA FieldLines ==
    ASSUME NEW list, IsList(list), NEW t, t = [i \in DOMAIN list |-> t[i]]
    PROVE  IsList(t)
<1>1. Len(list) \in Nat /\ DOMAIN list = 1..Len(list)
    BY ListFacts
<1> QED BY <1>1, ListOf

LEMMA OneFileFits ==
    ASSUME NEW path \in ToolsOwn, NEW word \in ToolsWords, NEW lines, IsList(lines), NEW g,
           g \in ToSet(<<File(path, Text(<<word>> \o lines, {}))>>), NEW text
    PROVE  Fits(g.path, text, g.text)
<1>1. PICK made : made = File(path, Text(<<word>> \o lines, {}))
    OBVIOUS
<1>2. g = made
    BY <1>1, OneElement
<1>3. g.path = path /\ g.text = Text(<<word>> \o lines, {})
    BY <1>1, <1>2 DEF File
<1>4. g.text.of[1] = word
    BY <1>3, WordFirst
<1> QED BY <1>3, <1>4 DEF Fits

LEMMA ToolFits ==
    ASSUME NEW s, IsSnapshot(s), IsList(s.cmdline), NEW text, NEW g,
           \/ g \in ToSet(DirectXml(s)) \/ g \in ToSet(SysusersFiles(s)) \/ g \in ToSet(SysctlConf(s))
           \/ g \in ToSet(Kargs(s)) \/ g \in ToSet(VarTmpfiles(s))
    PROVE  Fits(g.path, text, g.text)
<1>1. /\ IsList(s.direct_rules) /\ IsList(s.sysctl_overrides) /\ IsList(s.users) /\ IsList(s.groups)
    BY DEF IsSnapshot, Records, Lists, Parts
<1>2. {SysusersConf, SysctlPath, KargsToml, Tmpfiles("yoinkc-sysusers-homes"),
       Tmpfiles("yoinkc-var"), Path("etc", "firewalld", <<"direct", "xml">>)} = ToolsOwn
    BY DEF ToolsOwn
<1>3. {"direct", "sysctl", "sysusers", "homes", "kargs", "var"} \subseteq ToolsWords
    BY DEF ToolsWords
<1>4. CASE g \in ToSet(DirectXml(s))
    <2>1. PICK path, rules : path = Path("etc", "firewalld", <<"direct", "xml">>) /\ rules = Kept(s.direct_rules)
        OBVIOUS
    <2>2. PICK lines : lines = [i \in DOMAIN rules |-> rules[i].rule]
        OBVIOUS
    <2>3. DirectXml(s) = <<>> \/ DirectXml(s) = <<File(path, Text(<<"direct">> \o lines, {}))>>
        BY <2>1, <2>2 DEF DirectXml
    <2>4. IsList(rules) /\ lines = [i \in DOMAIN rules |-> lines[i]]
        BY <1>1, <2>1, <2>2, KeptFacts
    <2>5. IsList(lines)
        BY <2>4, FieldLines
    <2>6. path \in ToolsOwn
        BY <1>2, <2>1
    <2> QED BY <1>3, <1>4, <2>3, <2>5, <2>6, OneFileFits, EmptyList
<1>5. CASE g \in ToSet(SysusersFiles(s))
    <2>1. PICK own, homes, a, b :
            /\ SysusersFiles(s) = Generated(a, "sysusers", own) \o Generated(b, "homes", homes)
            /\ a = SysusersConf /\ b = Tmpfiles("yoinkc-sysusers-homes")
            /\ own = Names(Sysusers(s).groups) \o Names(Sysusers(s).users)
            /\ homes = Names(Select(Sysusers(s).users, LAMBDA u : u.home # "none"))
        BY DEF SysusersFiles
    <2>2. PICK groups, users : groups = Sysusers(s).groups /\ users = Sysusers(s).users
        OBVIOUS
    <2>3. IsList(groups) /\ IsList(users)
        BY <1>1, <2>2, ByFacts DEF Sysusers
    <2>4. IsList(own)
        BY <2>1, <2>2, <2>3, NamesFacts, Concatenation
    <2>5. PICK places : places = {n \in DOMAIN users : users[n].home # "none"}
        OBVIOUS
    <2>6. homes = Names(Picked(users, places))
        BY <2>1, <2>2, <2>5 DEF Select
    <2>7. IsList(homes)
        BY <2>3, <2>5, <2>6, PickedFacts, NamesFacts
    <2>8. IsList(Generated(a, "sysusers", own)) /\ IsList(Generated(b, "homes", homes))
        BY GeneratedFacts
    <2>9. g \in ToSet(Generated(a, "sysusers", own)) \/ g \in ToSet(Generated(b, "homes", homes))
        BY <1>5, <2>1, <2>8, Concatenation
    <2>10. a \in ToolsOwn /\ b \in ToolsOwn
        BY <1>2, <2>1
    <2> QED BY <1>3, <2>4, <2>7, <2>9, <2>10, GeneratedFits
<1>6. CASE g \in ToSet(SysctlConf(s))
    <2>1. PICK kept : kept = Kept(s.sysctl_overrides)
        OBVIOUS
    <2>2. PICK lines : lines = [i \in DOMAIN kept |-> kept[i].key]
        OBVIOUS
    <2>3. SysctlConf(s) = Generated(SysctlPath, "sysctl", lines)
        BY <2>1, <2>2 DEF SysctlConf
    <2>4. IsList(kept) /\ lines = [i \in DOMAIN kept |-> lines[i]]
        BY <1>1, <2>1, <2>2, KeptFacts
    <2>5. IsList(lines)
        BY <2>4, FieldLines
    <2> QED BY <1>2, <1>3, <1>6, <2>3, <2>5, GeneratedFits
<1>7. CASE g \in ToSet(Kargs(s))
    <2>1. PICK kept, places : kept = Picked(s.cmdline, places)
                              /\ places = {n \in DOMAIN s.cmdline : ~s.cmdline[n].bootloader /\ s.cmdline[n].safe}
        OBVIOUS
    <2>2. kept = OperatorKargs(s.cmdline)
        BY <2>1 DEF OperatorKargs, Select
    <2>3. PICK lines : lines = [i \in DOMAIN kept |-> kept[i].arg]
        OBVIOUS
    <2>4. Kargs(s) = Generated(KargsToml, "kargs", lines)
        BY <2>2, <2>3 DEF Kargs
    <2>5. IsList(kept) /\ lines = [i \in DOMAIN kept |-> lines[i]]
        BY <2>1, <2>3, PickedFacts
    <2>6. IsList(lines)
        BY <2>5, FieldLines
    <2> QED BY <1>2, <1>3, <1>7, <2>4, <2>6, GeneratedFits
<1>8. CASE g \in ToSet(VarTmpfiles(s))
    <2>1. PICK first, n : /\ n = IF Len(s.users) < MaxHomes THEN Len(s.users) ELSE MaxHomes
                          /\ first = Kept(SubSeq(s.users, 1, n))
        OBVIOUS
    <2>2. PICK path, lines : path = Tmpfiles("yoinkc-var") /\ lines = IF first = <<>> THEN <<"app">> ELSE Names(first)
        OBVIOUS
    <2>3. VarTmpfiles(s) = <<File(path, Text(<<"var">> \o lines, {}))>>
        BY <2>1, <2>2 DEF VarTmpfiles
    <2>4. IsList(first)
        BY <1>1, <2>1, FirstUsers, KeptFacts
    <2>5. IsList(<<"app">>) /\ IsList(Names(first))
        BY <2>4, NamesFacts, OneElement
    <2>6. IsList(lines)
        BY <2>2, <2>5
    <2>7. path \in ToolsOwn
        BY <1>2, <2>2
    <2> QED BY <1>3, <1>8, <2>3, <2>6, <2>7, OneFileFits
<1> QED BY <1>4, <1>5, <1>6, <1>7, <1>8

(* The texts of generated timers begin with a word of the tool's.          *)
LEMMA CalendarWord ==
    ASSUME NEW calendar, IsList(calendar)
    PROVE  TimerText(calendar).of[1] = "timer"
BY WordFirst DEF TimerText

LEMMA TimerWord ==
    ASSUME NEW name, NEW calendar, IsList(calendar), NEW job, NEW has, NEW x,
           x = Timer(name, calendar, job, has)
    PROVE  x.timer_content.of[1] = "timer" /\ x.service_content.of[1] = "service"
<1>1. x.timer_content = TimerText(calendar) /\ x.service_content = ServiceText(job, has)
    BY DEF Timer, GeneratedTimerUnit
<1>2. PICK run : ServiceText(job, has) = Text(<<"service", run>>, has)
    BY DEF ServiceText
<1>3. x.service_content.of[1] = "service"
    BY <1>1, <1>2 DEF Text
<1> QED BY <1>1, <1>3, CalendarWord

LEMMA TimerWords ==
    ASSUME NEW h, NEW x, IsTimerOf(x, h)
    PROVE  x.timer_content.of[1] = "timer" /\ x.service_content.of[1] = "service"
<1>1. CASE \E f \in ToSet(h.files) : \E line \in ToSet(h.crontabs[f.path]) : CronTimer(x, f, line)
    <2>1. PICK f, line : CronTimer(x, f, line)
        BY <1>1
    <2>2. PICK calendar, name, has, job : /\ calendar = OnCalendar(line.fields) /\ name = <<"cron">> \o f.path.name
                                          /\ has = f.text.holds /\ job = line.job
        OBVIOUS
    <2>3. x = Timer(name, calendar, job, has)
        BY <2>1, <2>2 DEF CronTimer
    <2>4. calendar = [i \in 1..5 |-> calendar[i]]
        BY <2>2 DEF OnCalendar
    <2>5. IsList(calendar)
        BY <2>4, ListOf
    <2> QED BY <2>3, <2>5, TimerWord
<1>2. CASE \E p \in ToSet(Periods) : \E f \in ToSet(h.files) : ScriptTimer(x, f, p)
    <2>1. PICK p \in ToSet(Periods) : \E f \in ToSet(h.files) : ScriptTimer(x, f, p)
        BY <1>2
    <2>2. PICK f : ScriptTimer(x, f, p)
        BY <2>1
    <2>3. PICK calendar, name, job : /\ calendar = p.calendar /\ name = <<"cron", p.name>> \o f.path.name
                                     /\ job = Last(f.path.name)
        OBVIOUS
    <2>4. x = Timer(name, calendar, job, {})
        BY <2>2, <2>3 DEF ScriptTimer
    <2>5. IsList(calendar)
        BY <2>3, PeriodsAre
    <2> QED BY <2>4, <2>5, TimerWord
<1> QED BY <1>1, <1>2 DEF IsTimerOf

LEMMA GeneratedPairFits ==
    ASSUME WholeInv, Reported, NEW g \in PairsOf(ToSet(Kept(snap.generated_timer_units))), NEW text
    PROVE  Fits(g.path, text, g.text)
<1>1. PICK s, list : s = snap /\ list = snap.generated_timer_units /\ IsSnapshot(s)
    BY DEF WholeInv, MigrationInv
<1>2. IsList(list)
    BY <1>1 DEF IsSnapshot, Records, Lists, Parts
<1>3. PICK t \in ToSet(Kept(list)) : \E suffix \in {"timer", "service"} :
            g = File(UnitPath(Append(t.name, suffix)), PairText(t, suffix))
    BY <1>1, PairsAre
<1>4. PICK suffix \in {"timer", "service"} : g = File(UnitPath(Append(t.name, suffix)), PairText(t, suffix))
    BY <1>3
<1>5. t \in ToSet(list)
    BY <1>2, <1>3, KeptFacts
<1>6. PICK jobs, h, a : h = host /\ TimersOf(jobs, h, a) /\ SameTimers(list, jobs)
    BY <1>1, ReportedTimers
<1>7. PICK y \in ToSet(jobs) : SameTimer(t, y)
    BY <1>5, <1>6 DEF SameTimers
<1>8. IsTimerOf(y, h)
    BY <1>6, <1>7 DEF TimersOf
<1>9. t.timer_content.of[1] = "timer" /\ t.service_content.of[1] = "service"
    BY <1>7, <1>8, TimerWords DEF SameTimer
<1>10. g.path = UnitPath(Append(t.name, suffix)) /\ g.text = PairText(t, suffix)
    BY <1>4 DEF File
<1>11. g.text.of[1] \in ToolsWords
    BY <1>9, <1>10 DEF PairText, ToolsWords
<1>12. t \in ToSet(Kept(snap.generated_timer_units))
    BY <1>1, <1>3
<1>13. g.path \in GeneratedUnits
    BY <1>10, <1>12 DEF GeneratedUnits
<1> QED BY <1>11, <1>13 DEF Fits

(* The timers of the administrator are his files.                          *)
LEMMA LocalPairFits ==
    ASSUME WholeInv, Reported, NEW f \in ToSet(host.files),
           NEW g \in PairsOf(ToSet(snap.systemd_timers)), g.path = f.path
    PROVE  Fits(f.path, Read(f), g.text)
<1>1. PICK h, list : h = host /\ list = snap.systemd_timers /\ h \in Hosts /\ f \in ToSet(h.files)
    BY DEF WholeInv, MigrationInv
<1>2. PICK t \in ToSet(list) : \E suffix \in {"timer", "service"} :
            g = File(UnitPath(Append(t.name, suffix)), PairText(t, suffix))
    BY <1>1, PairsAre
<1>3. PICK suffix \in {"timer", "service"} : g = File(UnitPath(Append(t.name, suffix)), PairText(t, suffix))
    BY <1>2
<1>4. PICK locals : locals = LocalTimers(h) /\ SameTimers(list, locals)
    BY <1>1, ReportedTimers
<1>5. PICK y \in ToSet(locals) : SameTimer(t, y)
    BY <1>2, <1>4 DEF SameTimers
<1>6. PICK files : files = ToSet(h.files)
    OBVIOUS
<1>7. PICK own \in files : IsLocalTimer(own) /\ LocalTimer(y, own, files)
    BY <1>1, <1>4, <1>5, <1>6, LocalTimersFound
<1>8. IsPath(own.path) /\ IsList(own.path.name) /\ own.path.name # <<>>
    BY <1>1, <1>6, <1>7, PathsOfHost
<1>9. g.path = UnitPath(Append(t.name, suffix)) /\ g.text = PairText(t, suffix)
    BY <1>3 DEF File
<1>10. t.name = Front(own.path.name) /\ t.timer_content = own.text
    BY <1>5, <1>7 DEF SameTimer, LocalTimer
<1>11. Read(f) = f.text
    <2>1. f.path.dir = UnitDir
        BY <1>9, UnitPathFacts
    <2>2. f.decodes
        BY <1>1, <2>1, HostAssumption DEF ToSet, ReadStrictly, StrictDirs
    <2> QED BY <2>2 DEF Read
<1>12. ASSUME NEW x \in files, x.path = f.path PROVE x = f
    BY <1>1, <1>6, <1>12, PathsOfHost
<1>13. CASE suffix = "timer"
    <2>1. Append(t.name, suffix) = own.path.name
        BY <1>7, <1>8, <1>10, <1>13, FrontFacts DEF IsLocalTimer, Suffix
    <2>2. own.path = UnitPath(own.path.name)
        BY <1>7, <1>8 DEF IsLocalTimer, IsPath, UnitPath
    <2>3. own = f
        BY <1>7, <1>9, <1>12, <2>1, <2>2
    <2>4. g.text = f.text
        BY <1>9, <1>10, <1>13, <2>3 DEF PairText
    <2> QED BY <1>11, <2>4 DEF Fits
<1>14. CASE suffix = "service"
    <2>1. PICK p : p = UnitPath(Append(Front(own.path.name), "service"))
        OBVIOUS
    <2>2. p = f.path
        BY <1>9, <1>10, <1>14, <2>1
    <2>3. f \in files
        BY <1>1, <1>6
    <2>4. PICK x \in files : x.path = p /\ y.service_content = x.text
        BY <1>7, <2>1, <2>2, <2>3 DEF LocalTimer
    <2>5. x = f
        BY <1>12, <2>2, <2>4
    <2>6. g.text.of = f.text.of
        BY <1>5, <1>9, <1>14, <2>4, <2>5 DEF PairText, SameTimer
    <2> QED BY <1>11, <2>6 DEF Fits
<1> QED BY <1>13, <1>14

(* A project's files are those that are in its directory.                  *)
LEMMA ProjectFits ==
    ASSUME WholeInv, Reported, NEW f \in ToSet(host.files), NEW x \in ToSet(snap.items),
           NEW g \in ProjectOf(x), g.path = f.path
    PROVE  Fits(f.path, Read(f), g.text)
<1>1. PICK h : h = host /\ h \in Hosts /\ f \in ToSet(h.files)
    BY DEF WholeInv, MigrationInv
<1>4. CASE BareItem(x)
    <2>1. ProjectOf(x) = {}
        BY <1>4, DomainOfNone DEF BareItem, ProjectOf
    <2> QED BY <2>1
<1>8. SUFFICES ASSUME ~BareItem(x) PROVE Fits(f.path, Read(f), g.text)
    BY <1>4
<1>2. PICK a \in ToSet(h.apps) : LockItem(x, a) \/ PipItem(x, a)
    BY <1>1, <1>8, ReportedItems DEF AppItem
<1>3. SameAsIn(a, f)
    BY <1>1, <1>2, HostAssumption DEF ToSet
<1>5. \/ \E j \in DOMAIN x.files : g = File(InDir(x.path, <<x.files[j].name>>), x.files[j].text)
      \/ x.files = <<>> /\ x.content # NoText /\ g = File(x.path, x.content)
    BY DEF ProjectOf
<1>6. CASE \E j \in DOMAIN x.files : g = File(InDir(x.path, <<x.files[j].name>>), x.files[j].text)
    <2>1. PICK j \in DOMAIN x.files : g = File(InDir(x.path, <<x.files[j].name>>), x.files[j].text)
        BY <1>6
    <2>2. x.files # <<>>
        BY <2>1, EmptyList
    <2>3. x.path = a.path /\ x.files = a.locks
        BY <1>2, <2>2 DEF LockItem, PipItem
    <2>4. g.path = InDir(a.path, <<a.locks[j].name>>) /\ g.text = a.locks[j].text /\ j \in DOMAIN a.locks
        BY <2>1, <2>3 DEF File
    <2>5. Read(f) = g.text
        BY <1>3, <2>4 DEF SameAsIn
    <2> QED BY <2>5 DEF Fits
<1>7. CASE x.files = <<>> /\ x.content # NoText /\ g = File(x.path, x.content)
    <2>1. PipItem(x, a)
        BY <1>2, <1>7 DEF LockItem
    <2>2. g.path = InDir(a.path, <<"requirements", "txt">>) /\ g.text = a.requirements
          /\ a.requirements # None
        BY <1>7, <2>1 DEF PipItem, File
    <2>3. Read(f) = g.text
        BY <1>3, <2>2 DEF SameAsIn
    <2> QED BY <2>3 DEF Fits
<1> QED BY <1>5, <1>6, <1>7

(* What any layer but the empty profiles has at the path of a file of the  *)
(* host fits it.                                                           *)
LEMMA FilesOfFits ==
    ASSUME WholeInv, Reported, NEW f \in ToSet(host.files), NEW d \in FileSections,
           NEW items, items = snap[d], NEW g, g.path = f.path,
           \E x \in ToSet(items) : g = File(x.path, x.text)
    PROVE  Fits(f.path, Read(f), g.text)
<1>1. PICK x \in ToSet(items) : g = File(x.path, x.text)
    OBVIOUS
<1>2. x.path = f.path /\ g.text = x.text
    BY <1>1 DEF File
<1> QED BY <1>1, <1>2, SectionFits

LEMMA LayerFits ==
    ASSUME WholeInv, Reported, NEW f \in ToSet(host.files), NEW j \in 1..17, j # 6,
           NEW g \in Layers(snap)[j], g.path = f.path
    PROVE  Fits(f.path, Read(f), g.text)
<1>1. PICK s : s = snap /\ IsSnapshot(s) /\ s.cmdline = host.cmdline /\ host \in Hosts
    BY SnapConnections DEF WholeInv, MigrationInv
<1>2. g \in Layers(s)[j]
    BY <1>1
<1>3. CASE j = 1
    <2>1. \E x \in ToSet(s.config) : g = File(x.path, x.text)
        BY <1>2, <1>3 DEF Layers, ConfigKept
    <2> QED BY <1>1, <2>1, FilesOfFits DEF FileSections
<1>4. \A items : g \in FilesOf(items) => \E x \in ToSet(items) : g = File(x.path, x.text)
    BY DEF FilesOf
<1>5. CASE j = 2
    <2>1. g \in FilesOf(s["repo_files"])
        BY <1>2, <1>5 DEF Layers
    <2> QED BY <1>1, <1>4, <2>1, FilesOfFits DEF FileSections
<1>6. CASE j = 3
    <2>1. g \in FilesOf(s["gpg_keys"])
        BY <1>2, <1>6 DEF Layers
    <2> QED BY <1>1, <1>4, <2>1, FilesOfFits DEF FileSections
<1>7. CASE j = 4
    <2>1. g \in FilesOf(s["firewall_zones"])
        BY <1>2, <1>7 DEF Layers
    <2> QED BY <1>1, <1>4, <2>1, FilesOfFits DEF FileSections
<1>8. CASE j = 7
    <2>1. g \in FilesOf(s["tuned_profiles"])
        BY <1>2, <1>8 DEF Layers
    <2> QED BY <1>1, <1>4, <2>1, FilesOfFits DEF FileSections
<1>9. CASE j = 8
    <2>1. g \in FilesOf(s["drop_ins"])
        BY <1>2, <1>9 DEF Layers
    <2> QED BY <1>1, <1>4, <2>1, FilesOfFits DEF FileSections
<1>10. CASE j = 11
    <2>1. g \in FilesOf(s["env_files"])
        BY <1>2, <1>10 DEF Layers
    <2> QED BY <1>1, <1>4, <2>1, FilesOfFits DEF FileSections
<1>11. CASE j = 14
    <2>1. g \in FilesOf(s["snippets"])
        BY <1>2, <1>11 DEF Layers
    <2> QED BY <1>1, <1>4, <2>1, FilesOfFits DEF FileSections
<1>12. CASE j \in {5, 13, 15, 16, 17}
    <2>1. \/ g \in ToSet(DirectXml(s)) \/ g \in ToSet(SysusersFiles(s)) \/ g \in ToSet(SysctlConf(s))
          \/ g \in ToSet(Kargs(s)) \/ g \in ToSet(VarTmpfiles(s))
        BY <1>2, <1>12 DEF Layers
    <2>2. IsList(s.cmdline)
        BY <1>1, ListsOfHost
    <2>3. Fits(g.path, Read(f), g.text)
        BY <1>1, <2>1, <2>2, ToolFits
    <2> QED BY <2>3
<1>13. CASE j = 9
    <2>1. g \in PairsOf(ToSet(Kept(s.generated_timer_units)))
        BY <1>2, <1>13 DEF Layers
    <2>2. Fits(g.path, Read(f), g.text)
        BY <1>1, <2>1, GeneratedPairFits
    <2> QED BY <2>2
<1>14. CASE j = 10
    <2>1. g \in PairsOf(ToSet(s.systemd_timers))
        BY <1>2, <1>14 DEF Layers
    <2> QED BY <1>1, <2>1, LocalPairFits
<1>15. CASE j = 12
    <2>1. \E x \in ToSet(Kept(s.items)) : g \in ProjectOf(x)
        BY <1>2, <1>15 DEF Layers
    <2>2. PICK x \in ToSet(Kept(s.items)) : g \in ProjectOf(x)
        BY <2>1
    <2>3. IsList(s.items)
        BY <1>1 DEF IsSnapshot, Records, Lists, Parts
    <2>4. x \in ToSet(snap.items)
        BY <1>1, <2>2, <2>3, KeptFacts
    <2> QED BY <2>2, <2>4, ProjectFits
<1> QED BY <1>3, <1>5, <1>6, <1>7, <1>8, <1>9, <1>10, <1>11, <1>12, <1>13, <1>14, <1>15

(* A file of the administrator's is in a section, and kept unless excluded. *)
LEMMA OwnFound ==
    ASSUME WholeInv, Reported, NEW f \in ToSet(host.files), OwnFile(f), ~StaysBehind(f.path)
    PROVE  \E d \in {"config", "drop_ins", "tuned_profiles", "snippets", "env_files"} :
                \E x \in ToSet(snap[d]) : x.path = f.path
<1>1. PICK h, o, a : h = host /\ o = ("paths" \in answered) /\ a = answered /\ f \in ToSet(h.files)
    OBVIOUS
<1>2. ASSUME NEW d \in FileSections, f \in SectionFiles(h, a, d)
      PROVE  \E x \in ToSet(snap[d]) : x.path = f.path
    <2>1. f \in SectionFiles(host, answered, d)
        BY <1>1, <1>2
    <2>2. \E x \in ToSet(snap[d]) : Taken(x, f)
        BY <2>1, SnapSections
    <2> QED BY <2>2 DEF Taken
<1>3. CASE f.path \in Paths(snap.env_files)
    BY <1>3 DEF Paths
<1>4. ASSUME f \in ConfigFilesOf(h, o)
      PROVE  \E x \in ToSet(snap["config"]) : x.path = f.path
    <2>1. f \in SectionFiles(h, a, "config")
        BY <1>1, <1>4 DEF SectionFiles
    <2> QED BY <1>2, <2>1 DEF FileSections
<1>5. CASE f.modified
    <2>1. f \in ConfigFilesOf(h, o)
        BY <1>1, <1>5 DEF ConfigFilesOf, ModifiedFiles
    <2> QED BY <1>4, <2>1
<1>6. CASE ~f.modified /\ f.owner = None /\ f.path.top = "etc" /\ ~Mentions(f.path, "generated")
    <2>1. ~Owned(f, o)
        BY <1>6 DEF Owned
    <2>2. CASE ~ExcludedUnowned(f.path)
        <3>1. f \in ConfigFilesOf(h, o)
            BY <1>1, <1>6, <2>1, <2>2 DEF ConfigFilesOf, UnownedFiles
        <3> QED BY <1>4, <3>1
    <2>3. CASE ExcludedUnowned(f.path)
        <3>1. ~(f.path.dir = "NetworkManager/system-connections" /\ Suffix(f.path) = "bak")
            BY <1>6 DEF StaysBehind, IsProfile
        <3>2. \/ f.path.dir = "systemd/system/*.d" /\ Suffix(f.path) = "conf"
              \/ f.path.dir = "tuned/*" /\ Suffix(f.path) = "conf"
              \/ f.path.dir = "modprobe.d" /\ Suffix(f.path) = "conf"
            BY <1>6, <2>3, <3>1 DEF ExcludedUnowned
        <3>3. CASE f.path.dir = "systemd/system/*.d" /\ Suffix(f.path) = "conf"
            <4>1. f \in SectionFiles(h, a, "drop_ins")
                BY <1>1, <3>3 DEF SectionFiles, DropFiles, FilesThere
            <4> QED BY <1>2, <4>1 DEF FileSections
        <3>4. CASE f.path.dir = "tuned/*" /\ Suffix(f.path) = "conf"
            <4>1. f \in SectionFiles(h, a, "tuned_profiles")
                BY <1>1, <3>4 DEF SectionFiles, TunedFiles, FilesThere
            <4> QED BY <1>2, <4>1 DEF FileSections
        <3>5. CASE f.path.dir = "modprobe.d" /\ Suffix(f.path) = "conf"
            <4>1. f \in SectionFiles(h, a, "snippets")
                BY <1>1, <3>5 DEF SectionFiles, SnippetFiles, FilesThere
            <4> QED BY <1>2, <4>1 DEF FileSections
        <3> QED BY <3>2, <3>3, <3>4, <3>5
    <2> QED BY <2>2, <2>3
<1> QED BY <1>3, <1>5, <1>6 DEF OwnFile

LEMMA NotLeft ==
    ASSUME IsSnapshot(snap), NEW d \in FileSections, NEW x \in ToSet(snap[d]),
           x.path \notin OfSections(Left)
    PROVE  x.include
<1>1. SUFFICES ASSUME ~x.include PROVE x.path \in OfSections(Left)
    OBVIOUS
<1>2. PICK list : list = snap[d]
    OBVIOUS
<1>3. IsList(list)
    BY <1>2 DEF IsSnapshot, Records, FileSections, Lists
<1>4. PICK places : places = {n \in DOMAIN list : ~list[n].include}
    OBVIOUS
<1>5. ToSet(Picked(list, places)) = {list[n] : n \in places}
    BY <1>3, <1>4, PickedFacts
<1>6. x \in ToSet(Picked(list, places))
    BY <1>1, <1>2, <1>4, <1>5 DEF ToSet
<1>7. x \in ToSet(Left(snap[d]))
    BY <1>2, <1>4, <1>6 DEF Left, Select
<1>8. x.path \in Paths(Left(snap[d]))
    BY <1>7 DEF Paths
<1> QED BY <1>8 DEF OfSections

(* It is then in one of the layers of sections, and under it are no empty  *)
(* profiles.                                                               *)
LEMMA OwnLayer ==
    ASSUME WholeInv, Reported, NEW f \in ToSet(host.files), ~StaysBehind(f.path),
           NEW d \in {"config", "drop_ins", "tuned_profiles", "snippets", "env_files"},
           NEW x \in ToSet(snap[d]), x.path = f.path, x.include
    PROVE  IF d = "config" THEN x \in ConfigKept(snap) ELSE File(x.path, x.text) \in FilesOf(snap[d])
<1>1. CASE d = "config"
    <2>1. ~(x.path.top = "etc" /\ x.path.dir = QuadletDir)
        BY DEF StaysBehind
    <2>2. x.path \notin DhcpConnectionPaths(snap)
        <3>1. SUFFICES ASSUME NEW c \in ToSet(snap.connections), c.method # "static", c.path = x.path
                       PROVE  FALSE
            BY DEF DhcpConnectionPaths
        <3>2. PICK g \in ProfileFiles(host) : c.path = g.path /\ c.method = ConnectionMethod(host.methods[g.path])
            BY SnapConnections
        <3>3. IsProfile(f.path) /\ g.path = f.path
            BY <3>1, <3>2 DEF ProfileFiles
        <3>4. host.methods[f.path] = "manual"
            BY <3>3 DEF StaysBehind
        <3>5. None # "manual"
            BY HostAssumption DEF WholeInv, MigrationInv
        <3>6. ConnectionMethod("manual") = "static"
            BY <3>5 DEF ConnectionMethod
        <3> QED BY <3>1, <3>2, <3>3, <3>4, <3>6
    <2> QED BY <1>1, <2>1, <2>2 DEF ConfigKept
<1>2. CASE d # "config"
    BY <1>2 DEF FilesOf
<1> QED BY <1>1, <1>2

LEMMA NoEmptyProfile ==
    ASSUME NEW s, IsSnapshot(s), NEW x \in ConfigKept(s)
    PROVE  x.path \notin MissingProfiles(s, BeforeProfiles(s))
<1>1. PICK a, b, c, d, e : /\ a = ConfigFiles(s) /\ b = Files(s.repo_files) /\ c = Files(s.gpg_keys)
                           /\ d = Files(s.firewall_zones) /\ e = DirectXml(s)
    OBVIOUS
<1>2. PICK before : before = BeforeProfiles(s) /\ before = a \o b \o c \o d \o e
    BY <1>1 DEF BeforeProfiles
<1>3. IsList(s.config) /\ IsList(s.repo_files) /\ IsList(s.gpg_keys) /\ IsList(s.firewall_zones)
    BY DEF IsSnapshot, Records, Lists, Parts
<1>4. IsList(a) /\ ToSet(a) = {File(y.path, y.text) : y \in ConfigKept(s)}
    BY <1>1, <1>3, ConfigFilesAre
<1>5. IsList(b) /\ IsList(c) /\ IsList(d) /\ IsList(e)
    BY <1>1, <1>3, FilesAre, ToolFilesAreLists
<1>6. IsList(a \o b) /\ ToSet(a \o b) = ToSet(a) \cup ToSet(b)
    BY <1>4, <1>5, Concatenation
<1>7. IsList(a \o b \o c) /\ ToSet(a \o b \o c) = ToSet(a \o b) \cup ToSet(c)
    BY <1>5, <1>6, Concatenation
<1>8. IsList(a \o b \o c \o d) /\ ToSet(a \o b \o c \o d) = ToSet(a \o b \o c) \cup ToSet(d)
    BY <1>5, <1>7, Concatenation
<1>9. ToSet(before) = ToSet(a \o b \o c \o d) \cup ToSet(e)
    BY <1>2, <1>5, <1>8, Concatenation
<1>10. File(x.path, x.text) \in ToSet(before)
    BY <1>4, <1>6, <1>7, <1>8, <1>9
<1>11. PICK i \in DOMAIN before : before[i] = File(x.path, x.text)
    BY <1>10 DEF ToSet
<1>12. before[i].path = x.path
    BY <1>11 DEF File
<1> QED BY <1>2, <1>12 DEF MissingProfiles

LEMMA OwnFilesArrive ==
    ASSUME WholeInv, Ended, NEW f \in ToSet(host.files), OwnFile(f), ~StaysBehind(f.path),
           f.path \notin OfSections(Left)
    PROVE  Arrived(f.path, Read(f))
<1>1. PICK s, t, sets, L : /\ s = snap /\ t = tree.config /\ sets = Instructions(snap, tree.config)
                           /\ L = Layers(s)
    OBVIOUS
<1>2. Reported /\ IsSnapshot(s) /\ host \in Hosts /\ t = WriteConfigTree(s) /\ Projects(s.items)
    BY <1>1, EndedFacts
<1>3. PICK d \in {"config", "drop_ins", "tuned_profiles", "snippets", "env_files"} :
            \E x \in ToSet(snap[d]) : x.path = f.path
    BY <1>2, OwnFound
<1>4. PICK x \in ToSet(snap[d]) : x.path = f.path
    BY <1>3
<1>5. x.include
    BY <1>1, <1>2, <1>4, NotLeft DEF FileSections
<1>6. IF d = "config" THEN x \in ConfigKept(snap) ELSE File(x.path, x.text) \in FilesOf(snap[d])
    BY <1>2, <1>4, <1>5, OwnLayer
<1>7. PICK y : y = File(x.path, x.text)
    OBVIOUS
<1>8. y.path = f.path
    BY <1>4, <1>7 DEF File
<1>9. \E k \in {1, 7, 8, 11, 14} : y \in L[k] /\ (k = 1 => x \in ConfigKept(s))
    <2>1. CASE d = "config"
        <3>1. x \in ConfigKept(s)
            BY <1>1, <1>6, <2>1
        <3>2. L[1] = {File(z.path, z.text) : z \in ConfigKept(s)}
            BY <1>1 DEF Layers
        <3> QED BY <1>7, <3>1, <3>2
    <2>2. CASE d # "config"
        <3>1. y \in FilesOf(s[d])
            BY <1>1, <1>6, <1>7, <2>2
        <3>2. /\ L[7] = FilesOf(s["tuned_profiles"]) /\ L[8] = FilesOf(s["drop_ins"])
              /\ L[11] = FilesOf(s["env_files"]) /\ L[14] = FilesOf(s["snippets"])
            BY <1>1 DEF Layers
        <3> QED BY <2>2, <3>1, <3>2
    <2> QED BY <2>1, <2>2
<1>10. PICK k \in {1, 7, 8, 11, 14} : y \in L[k] /\ (k = 1 => x \in ConfigKept(s))
    BY <1>9
<1>11. /\ y.path \in DOMAIN t
       /\ \E j \in k..17 : \E g \in L[j] : g.path = y.path /\ t[y.path] = g.text
    BY <1>1, <1>2, <1>10, OverLayer
<1>12. PICK j \in k..17 : \E g \in L[j] : g.path = y.path /\ t[y.path] = g.text
    BY <1>11
<1>13. PICK g \in L[j] : g.path = y.path /\ t[y.path] = g.text
    BY <1>12
<1>14. j \in 1..17
    BY <1>10, <1>12
<1>15. j # 6
    <2>1. SUFFICES ASSUME j = 6 PROVE FALSE
        OBVIOUS
    <2>2. k = 1
        BY <1>10, <1>12, <2>1
    <2>3. L[6] = {File(p, NoText) : p \in MissingProfiles(s, BeforeProfiles(s))}
        BY <1>1 DEF Layers
    <2>4. g.path \in MissingProfiles(s, BeforeProfiles(s))
        BY <1>13, <2>1, <2>3 DEF File
    <2>5. x.path \notin MissingProfiles(s, BeforeProfiles(s))
        BY <1>2, <1>10, <2>2, NoEmptyProfile
    <2> QED BY <1>4, <1>8, <1>13, <2>4, <2>5
<1>16. g \in Layers(snap)[j] /\ g.path = f.path
    BY <1>1, <1>8, <1>13
<1>17. Fits(f.path, Read(f), g.text)
    BY <1>2, <1>14, <1>15, <1>16, LayerFits
<1>18. f.path \in DOMAIN tree.config /\ tree.config[f.path] = g.text
    BY <1>1, <1>8, <1>11, <1>13
<1>19. f.path.top # "tmp" /\ ~(f.path.top = "etc" /\ f.path.dir = QuadletDir)
    BY <1>2, PathsOfHost DEF StaysBehind
<1>20. f.path \in DOMAIN image.files /\ image.files[f.path] = g.text
    BY <1>18, <1>19, TreeInImage
<1> QED BY <1>17, <1>20 DEF Fits, Arrived

(* The lock files of different projects have different paths, and those of *)
(* a project, too.                                                         *)
LEMMA LockPaths ==
    ASSUME NEW a, NEW b, IsPath(a), IsPath(b), IsList(a.name), IsList(b.name), NEW m, NEW n,
           InDir(a, <<m>>) = InDir(b, <<n>>)
    PROVE  a = b /\ m = n
<1>1. PICK q, u, v : q = InDir(a, u) /\ q = InDir(b, v) /\ u = <<m>> /\ v = <<n>>
    OBVIOUS
<1>2. q.top = a.top /\ q.dir = a.dir /\ q.name = a.name \o u
    <2>1. q = InDir(a, u)
        BY <1>1
    <2> QED BY ONLY IsPath(a), <2>1, InDirFacts
<1>3. q.top = b.top /\ q.dir = b.dir /\ q.name = b.name \o v
    <2>1. q = InDir(b, v)
        BY <1>1
    <2> QED BY ONLY IsPath(b), <2>1, InDirFacts
<1>4. Append(a.name, m) = a.name \o u /\ Append(b.name, n) = b.name \o v
    <2>1. PICK S : S = ToSet(a.name) \cup ToSet(b.name) \cup {m, n}
        OBVIOUS
    <2>2. a.name \in Seq(ToSet(a.name)) /\ b.name \in Seq(ToSet(b.name))
        BY ListFacts
    <2>3. a.name \in Seq(S) /\ b.name \in Seq(S) /\ m \in S /\ n \in S
        BY <2>1, <2>2
    <2> QED BY <1>1, <2>3, AppendIsConcat
<1>5. Append(a.name, m) = Append(b.name, n)
    BY <1>2, <1>3, <1>4
<1>6. a.name = b.name /\ m = n
    BY ONLY IsList(a.name), IsList(b.name), <1>5, AppendFacts
<1> QED BY <1>2, <1>3, <1>6 DEF IsPath, Path

LEMMA LastOfConcat ==
    ASSUME NEW s, NEW u, IsList(s), IsList(u), u # <<>>
    PROVE  Last(s \o u) = Last(u)
<1>1. Len(s) \in Nat /\ Len(u) \in Nat /\ Len(u) # 0
    BY ListFacts
<1>2. Len(s \o u) = Len(s) + Len(u) /\ (s \o u)[Len(s) + Len(u)] = u[Len(u)]
    BY <1>1, Concatenation
<1> QED BY <1>2 DEF Last

(* A lock file is not a configuration snippet or a requirements.txt.       *)
LEMMA LockSuffix ==
    ASSUME NEW a, IsPath(a), IsList(a.name), NEW m
    PROVE  /\ Suffix(InDir(a, <<m>>)) = m
           /\ Suffix(InDir(a, <<"requirements", "txt">>)) = "txt"
<1>1. PICK q, u : q = InDir(a, u) /\ u = <<m>>
    OBVIOUS
<1>2. PICK r, v : r = InDir(a, v) /\ v = <<"requirements", "txt">>
    OBVIOUS
<1>3. IsList(u) /\ u # <<>> /\ Last(u) = m
    BY <1>1, OneElement DEF Last
<1>4. IsList(v)
    BY <1>2, PairIsList
<1>5. v # <<>> /\ Last(v) = "txt"
    BY <1>2 DEF Last
<1>6. q.name = a.name \o u
    BY <1>1, InDirFacts
<1>7. r.name = a.name \o v
    BY <1>2, InDirFacts
<1>8. Last(a.name \o u) = m
    BY <1>3, LastOfConcat
<1>9. Last(a.name \o v) = "txt"
    BY <1>4, <1>5, LastOfConcat
<1>10. Suffix(q) = m
    BY <1>6, <1>8 DEF Suffix
<1>11. Suffix(r) = "txt"
    BY <1>7, <1>9 DEF Suffix
<1> QED BY <1>1, <1>2, <1>10, <1>11

LEMMA LocksOf ==
    ASSUME WholeInv, Reported, NEW x \in ToSet(snap.items), x.files # <<>>
    PROVE  \E a \in ToSet(host.apps) : /\ x.path = a.path /\ x.files = a.locks /\ IsProject(a)
                                       /\ IsPath(a.path) /\ IsList(a.path.name)
<1>1. PICK h : h = host /\ h \in Hosts
    BY DEF WholeInv, MigrationInv
<1>2. PICK a \in ToSet(h.apps) : LockItem(x, a)
    BY <1>1, ReportedItems DEF AppItem, PipItem, BareItem
<1>3. x.path = a.path /\ x.files = a.locks
    BY <1>2 DEF LockItem
<1>4. IsProject(a) /\ IsPath(a.path) /\ IsList(a.path.name)
    BY <1>1, <1>2, AppFacts
<1> QED BY <1>1, <1>2, <1>3, <1>4

(* The file of a project at the path of a lock file is that lock file.     *)
LEMMA SameLock ==
    ASSUME WholeInv, Reported, NEW x \in ToSet(snap.items), NEW y \in ToSet(snap.items),
           NEW i \in DOMAIN x.files, NEW g \in ProjectOf(y), g.path = InDir(x.path, <<x.files[i].name>>)
    PROVE  g.text = x.files[i].text
<1>1. PICK h : h = host /\ h \in Hosts
    BY DEF WholeInv, MigrationInv
<1>2. x.files # <<>>
    BY EmptyList
<1>3. PICK a \in ToSet(h.apps) : /\ x.path = a.path /\ x.files = a.locks /\ IsProject(a)
                                 /\ IsPath(a.path) /\ IsList(a.path.name)
    BY <1>1, <1>2, LocksOf
<1>4. x.files[i].name # "txt"
    BY <1>3 DEF IsProject, LockNames
<1>5. CASE \E j \in DOMAIN y.files : g = File(InDir(y.path, <<y.files[j].name>>), y.files[j].text)
    <2>1. PICK j \in DOMAIN y.files : g = File(InDir(y.path, <<y.files[j].name>>), y.files[j].text)
        BY <1>5
    <2>2. g.path = InDir(y.path, <<y.files[j].name>>) /\ g.text = y.files[j].text
        BY <2>1 DEF File
    <2>3. y.files # <<>>
        BY <2>1, EmptyList
    <2>4. PICK b \in ToSet(h.apps) : /\ y.path = b.path /\ y.files = b.locks /\ IsProject(b)
                                     /\ IsPath(b.path) /\ IsList(b.path.name)
        BY <1>1, <2>3, LocksOf
    <2>5. PICK m, n, p, q : /\ m = x.files[i].name /\ n = y.files[j].name /\ p = x.path /\ q = y.path
        OBVIOUS
    <2>6. InDir(p, <<m>>) = InDir(q, <<n>>)
        BY <2>2, <2>5
    <2>7. IsPath(p) /\ IsPath(q) /\ IsList(p.name) /\ IsList(q.name)
        BY <1>3, <2>4, <2>5
    <2>8. p = q /\ m = n
        BY ONLY <2>6, <2>7, LockPaths
    <2>9. x = y
        <3>1. PICK k, l : /\ k \in DOMAIN snap.items /\ l \in DOMAIN snap.items
                          /\ x = snap.items[k] /\ y = snap.items[l]
            BY DEF ToSet
        <3>2. k = l
            BY <2>5, <2>8, <3>1, ItemsAreTyped
        <3> QED BY <3>1, <3>2
    <2>10. i = j
        BY <1>3, <2>1, <2>5, <2>8, <2>9 DEF IsProject
    <2> QED BY <2>2, <2>9, <2>10
<1>6. CASE y.files = <<>> /\ y.content # NoText /\ g = File(y.path, y.content)
    <2>1. PICK b \in ToSet(h.apps) : PipItem(y, b)
        BY <1>1, <1>6, ReportedItems DEF AppItem, LockItem, BareItem
    <2>2. g.path = InDir(b.path, <<"requirements", "txt">>)
        BY <1>6, <2>1 DEF PipItem, File
    <2>3. IsPath(b.path) /\ IsList(b.path.name)
        BY <1>1, <2>1, AppFacts
    <2>4. Suffix(g.path) = "txt"
        BY <2>2, <2>3, LockSuffix
    <2>5. PICK p, m : p = x.path /\ m = x.files[i].name
        OBVIOUS
    <2>6. Suffix(InDir(p, <<m>>)) = m
        BY <1>3, <2>5, LockSuffix
    <2> QED BY <1>4, <2>4, <2>5, <2>6
<1> QED BY <1>5, <1>6 DEF ProjectOf

(* Nothing is written over it.                                             *)
LEMMA LockLayers ==
    ASSUME WholeInv, Reported, NEW j \in 12..17, NEW g \in Layers(snap)[j],
           g.path.top \in {"opt", "srv", "usr"}, g.path.top = "usr" => g.path.dir = "local",
           Suffix(g.path) # "conf"
    PROVE  j = 12
<1>1. PICK s : s = snap /\ IsSnapshot(s)
    BY DEF WholeInv, MigrationInv
<1>2. g \in Layers(s)[j]
    BY <1>1
<1>3. j \notin {13, 15, 16, 17}
    <2>1. /\ SysusersConf.dir = "lib/sysusers.d" /\ KargsToml.dir = "lib/bootc/kargs.d"
          /\ SysusersConf.top = "usr" /\ SysctlPath.top = "etc" /\ KargsToml.top = "usr"
          /\ \A name : Tmpfiles(name).top = "etc"
        BY DEF SysusersConf, SysctlPath, KargsToml, Tmpfiles, Path
    <2>2. SUFFICES ASSUME j \in {13, 15, 16, 17} PROVE FALSE
        OBVIOUS
    <2>3. \/ g \in ToSet(SysusersFiles(s)) \/ g \in ToSet(SysctlConf(s))
          \/ g \in ToSet(Kargs(s)) \/ g \in ToSet(VarTmpfiles(s))
        BY <1>2, <2>2 DEF Layers
    <2>4. g.path \in {SysusersConf, SysctlPath, KargsToml, Tmpfiles("yoinkc-sysusers-homes"), Tmpfiles("yoinkc-var")}
        BY <2>3, ToolFilesAreLists
    <2> QED BY <2>1, <2>4
<1>4. ASSUME j = 14 PROVE FALSE
    <2>1. g \in FilesOf(s["snippets"])
        BY <1>2, <1>4 DEF Layers
    <2>2. PICK x \in ToSet(snap["snippets"]) : g = File(x.path, x.text)
        BY <1>1, <2>1 DEF FilesOf
    <2>3. PICK f \in SectionFiles(host, answered, "snippets") : Taken(x, f)
        BY <2>2, SnapSections DEF FileSections
    <2>4. g.path = f.path
        BY <2>2, <2>3 DEF Taken, File
    <2>5. Suffix(f.path) = "conf"
        BY <2>3 DEF SectionFiles, SnippetFiles, FilesThere
    <2> QED BY <2>4, <2>5
<1> QED BY <1>3, <1>4

LEMMA LocksArrive ==
    ASSUME WholeInv, Ended, NEW x \in ToSet(Kept(snap.items)), NEW i \in DOMAIN x.files
    PROVE  Arrived(InDir(x.path, <<x.files[i].name>>), x.files[i].text)
<1>1. PICK s, t, sets, L : /\ s = snap /\ t = tree.config /\ sets = Instructions(snap, tree.config)
                           /\ L = Layers(s)
    OBVIOUS
<1>2. Reported /\ IsSnapshot(s) /\ host \in Hosts /\ t = WriteConfigTree(s) /\ Projects(s.items)
    BY <1>1, EndedFacts
<1>3. IsList(s.items)
    BY <1>2 DEF IsSnapshot, Records, Lists, Parts
<1>4. x \in ToSet(snap.items) /\ x \in ToSet(Kept(s.items))
    BY <1>1, <1>3, KeptFacts
<1>5. PICK p, y : p = InDir(x.path, <<x.files[i].name>>) /\ y = File(p, x.files[i].text)
    OBVIOUS
<1>6. y \in ProjectOf(x)
    BY <1>5 DEF ProjectOf
<1>7. y.path = p /\ p.top \in {"opt", "srv", "usr"} /\ (p.top = "usr" => p.dir = "local")
    BY <1>2, <1>4, <1>5, <1>6, ProjectPaths DEF File
<1>8. y \in L[12]
    <2>1. L[12] = UNION {ProjectOf(z) : z \in ToSet(Kept(s.items))}
        BY <1>1 DEF Layers
    <2> QED BY <1>4, <1>6, <2>1
<1>9. p \in DOMAIN t /\ \E j \in 12..17 : \E g \in L[j] : g.path = p /\ t[p] = g.text
    BY <1>1, <1>2, <1>7, <1>8, OverLayer
<1>10. PICK j \in 12..17 : \E g \in L[j] : g.path = p /\ t[p] = g.text
    BY <1>9
<1>11. PICK g \in L[j] : g.path = p /\ t[p] = g.text
    BY <1>10
<1>12. PICK a \in ToSet(host.apps) : /\ x.path = a.path /\ x.files = a.locks /\ IsProject(a)
                                     /\ IsPath(a.path) /\ IsList(a.path.name)
    BY <1>2, <1>4, LocksOf, EmptyList
<1>13. Suffix(p) # "conf"
    <2>1. PICK d, m : d = x.path /\ m = x.files[i].name /\ p = InDir(d, <<m>>)
        BY <1>5
    <2>2. IsPath(d) /\ IsList(d.name)
        BY <1>12, <2>1
    <2>3. Suffix(InDir(d, <<m>>)) = m
        BY <2>2, LockSuffix
    <2>4. m # "conf"
        BY <1>12, <2>1 DEF IsProject, LockNames
    <2> QED BY <2>1, <2>3, <2>4
<1>14. j = 12
    <2>1. g \in Layers(snap)[j]
        BY <1>1, <1>11
    <2> QED BY <1>2, <1>7, <1>11, <1>13, <2>1, LockLayers
<1>15. PICK z \in ToSet(Kept(s.items)) : g \in ProjectOf(z)
    <2>1. L[12] = UNION {ProjectOf(z) : z \in ToSet(Kept(s.items))}
        BY <1>1 DEF Layers
    <2> QED BY <1>11, <1>14, <2>1
<1>16. z \in ToSet(snap.items)
    BY <1>1, <1>3, <1>15, KeptFacts
<1>17. g.text = x.files[i].text
    BY <1>2, <1>4, <1>5, <1>11, <1>15, <1>16, SameLock
<1>18. p \in DOMAIN image.files /\ image.files[p] = tree.config[p]
    BY <1>1, <1>7, <1>9, TreeInImage
<1>19. image.files[p].of = x.files[i].text.of
    BY <1>1, <1>11, <1>17, <1>18
<1> QED BY <1>5, <1>18, <1>19 DEF Arrived

(* Nothing of config/ is where quadlets are.                               *)
LEMMA LayerOf ==
    ASSUME NEW s, IsSnapshot(s), Projects(s.items), NEW t, t = WriteConfigTree(s), NEW p \in DOMAIN t
    PROVE  \E j \in 1..17 : \E g \in Layers(s)[j] : g.path = p
<1>1. PICK c : Layered(c, Layers(s), 17) /\ t = Written(c)
    BY TreeLayered
<1>2. PICK i \in DOMAIN c : p = c[i].path
    BY <1>1 DEF Written
<1>3. PICK L, top : L = Layers(s) /\ top = 17
    OBVIOUS
<1>4. c[i] \in UNION {L[l] : l \in 1..top}
    BY <1>1, <1>2, <1>3 DEF Layered, ToSet
<1> QED BY <1>2, <1>3, <1>4

LEMMA NoFileAmongQuadlets ==
    ASSUME WholeInv, Reported, NEW j \in 1..17, NEW g \in Layers(snap)[j]
    PROVE  ~(g.path.top = "etc" /\ g.path.dir = QuadletDir)
<1>1. PICK s : s = snap /\ IsSnapshot(s)
    BY DEF WholeInv, MigrationInv
<1>2. g \in Layers(s)[j]
    BY <1>1
<1>3. CASE j = 1
    BY <1>2, <1>3 DEF Layers, ConfigKept, File
<1>4. ASSUME NEW d \in FileSections \ {"config"}, g \in FilesOf(s[d])
      PROVE  ~(g.path.top = "etc" /\ g.path.dir = QuadletDir)
    <2>1. PICK x \in ToSet(snap[d]) : g = File(x.path, x.text)
        BY <1>1, <1>4 DEF FilesOf
    <2>2. PICK f \in SectionFiles(host, answered, d) : Taken(x, f)
        BY <2>1, SnapSections
    <2>3. g.path = f.path
        BY <2>1, <2>2 DEF Taken, File
    <2> QED BY <2>2, <2>3, NotBehind
<1>5. CASE j \in {2, 3, 4, 7, 8, 11, 14}
    <2>1. \E d \in {"repo_files", "gpg_keys", "firewall_zones", "tuned_profiles", "drop_ins", "env_files", "snippets"} :
            g \in FilesOf(s[d])
        BY <1>2, <1>5 DEF Layers
    <2> QED BY <1>4, <2>1 DEF FileSections
<1>6. CASE j = 6
    <2>1. g.path \in MissingProfiles(s, BeforeProfiles(s))
        BY <1>2, <1>6 DEF Layers, File
    <2>2. \E c \in ToSet(s.connections) : c.path = g.path
        BY <2>1 DEF MissingProfiles, StaticPaths
    <2>3. PICK f \in ProfileFiles(host) : g.path = f.path
        BY <1>1, <2>2, SnapConnections
    <2> QED BY <2>3 DEF ProfileFiles, IsProfile, QuadletDir
<1>7. CASE j \in {9, 10}
    <2>1. \E timers : g \in PairsOf(timers)
        BY <1>2, <1>7 DEF Layers
    <2>2. PICK timers : g \in PairsOf(timers)
        BY <2>1
    <2>3. \E u : g.path = UnitPath(u)
        BY <2>2 DEF PairsOf, File
    <2>4. g.path.dir = UnitDir
        BY <2>3, UnitPathFacts
    <2> QED BY <2>4 DEF UnitDir, QuadletDir
<1>8. CASE j = 12
    <2>1. \E x \in ToSet(Kept(s.items)) : g \in ProjectOf(x)
        BY <1>2, <1>8 DEF Layers
    <2>2. PICK x \in ToSet(Kept(s.items)) : g \in ProjectOf(x)
        BY <2>1
    <2>3. IsList(s.items)
        BY <1>1 DEF IsSnapshot, Records, Lists, Parts
    <2>4. x \in ToSet(snap.items)
        BY <1>1, <2>2, <2>3, KeptFacts
    <2> QED BY <2>2, <2>4, ProjectPaths
<1>9. CASE j \in {5, 13, 15, 16, 17}
    <2>1. \/ g \in ToSet(DirectXml(s)) \/ g \in ToSet(SysusersFiles(s)) \/ g \in ToSet(SysctlConf(s))
          \/ g \in ToSet(Kargs(s)) \/ g \in ToSet(VarTmpfiles(s))
        BY <1>2, <1>9 DEF Layers
    <2>2. g.path \in {Path("etc", "firewalld", <<"direct", "xml">>), SysusersConf, SysctlPath, KargsToml,
                      Tmpfiles("yoinkc-sysusers-homes"), Tmpfiles("yoinkc-var")}
        BY <2>1, ToolFilesAreLists
    <2>3. /\ SysusersConf.dir # QuadletDir /\ SysctlPath.dir # QuadletDir /\ KargsToml.dir # QuadletDir
          /\ \A name : Tmpfiles(name).dir # QuadletDir
          /\ Path("etc", "firewalld", <<"direct", "xml">>).dir # QuadletDir
        BY DEF SysusersConf, SysctlPath, KargsToml, Tmpfiles, Path, QuadletDir
    <2> QED BY <2>2, <2>3
<1> QED BY <1>3, <1>5, <1>6, <1>7, <1>8, <1>9

LEMMA QuadletsArrive ==
    ASSUME WholeInv, Ended, NEW q \in ToSet(Kept(snap.quadlet_units)), q.text # NoText
    PROVE  \E r \in ToSet(Kept(snap.quadlet_units)) :
                /\ r.path.name = q.path.name
                /\ Arrived(Path("etc", QuadletDir, q.path.name), r.text)
<1>1. PICK s, t, c, sets : s = snap /\ t = tree.quadlet /\ c = tree.config /\ sets = Instructions(s, c)
    OBVIOUS
<1>2. /\ Building /\ Reported /\ IsSnapshot(s) /\ c = WriteConfigTree(s) /\ t = WriteQuadlets(s)
      /\ Projects(s.items) /\ Done = UNION {sets[k] : k \in 1..14}
    BY <1>1, EndedFacts
<1>3. IsList(s.quadlet_units)
    BY <1>2 DEF IsSnapshot, Records, Lists, Parts
<1>4. PICK p, kept : p = Path("etc", QuadletDir, q.path.name) /\ kept = Kept(s.quadlet_units)
    OBVIOUS
<1>5. p \in DOMAIN t
    BY <1>1, <1>2, <1>3, <1>4, QuadletsAre
<1>6. PICK r \in ToSet(kept) : p = Path("etc", QuadletDir, r.path.name) /\ t[p] = r.text
    BY <1>2, <1>3, <1>4, <1>5, QuadletsAre
<1>7. r.path.name = q.path.name
    BY <1>4, <1>6 DEF Path
<1>8. p \in DOMAIN image.files
    <2>1. PICK x : x = Step("copy_quadlets", {})
        OBVIOUS
    <2>2. sets[10] = {y \in {Step("copy_quadlets", {})} : Kept(s.quadlet_units) # <<>>}
        BY <1>1 DEF Instructions
    <2>3. kept # <<>>
        BY <1>6, EmptyList
    <2>4. x \in sets[10]
        BY <1>4, <2>1, <2>2, <2>3
    <2>5. x \in Done
        BY <1>2, <2>4
    <2>6. x.do = "copy_quadlets"
        BY <2>1 DEF Step
    <2>7. p \in Brought(x)
        BY <1>1, <1>5, <2>6 DEF Brought
    <2> QED BY <2>5, <2>7, EndedFiles
<1>9. p \notin DOMAIN c
    <2>1. SUFFICES ASSUME p \in DOMAIN c PROVE FALSE
        OBVIOUS
    <2>2. PICK j \in 1..17 : \E g \in Layers(s)[j] : g.path = p
        BY <1>2, <2>1, LayerOf
    <2>3. PICK g \in Layers(snap)[j] : g.path = p
        BY <1>1, <2>2
    <2>4. p.top = "etc" /\ p.dir = QuadletDir
        BY <1>4 DEF Path
    <2> QED BY <1>2, <2>3, <2>4, NoFileAmongQuadlets
<1>10. \/ p \in DOMAIN tree.quadlet /\ image.files[p] = tree.quadlet[p]
       \/ p \in DOMAIN tree.config /\ image.files[p] = tree.config[p]
    BY <1>2, <1>8 DEF WholeInv, ContentInv
<1>11. image.files[p] = r.text
    BY <1>1, <1>6, <1>9, <1>10
<1>12. Arrived(p, r.text)
    BY <1>8, <1>11 DEF Arrived
<1> QED BY <1>1, <1>4, <1>6, <1>7, <1>12

\* Every file the administrator put on the host or changed, of which no entry was
\* excluded, is in the image with the text that was read from it, or that text and a
\* note, whichever inspectors took it and whatever the seventeen writers of config/
\* wrote to its path before and after; so are the quadlets, the last of a name, and
\* the lock files of the projects.
THEOREM FilesDoArrive == MigrationSpec => []FilesArrive
<1>1. WholeInv => FilesArrive
    <2>1. SUFFICES ASSUME WholeInv, Ended
                   PROVE  /\ \A f \in ToSet(host.files) :
                                OwnFile(f) /\ ~StaysBehind(f.path) /\ f.path \notin OfSections(Left)
                                    => Arrived(f.path, Read(f))
                          /\ \A q \in ToSet(Kept(snap.quadlet_units)) : q.text # NoText =>
                                \E r \in ToSet(Kept(snap.quadlet_units)) :
                                    /\ r.path.name = q.path.name
                                    /\ Arrived(Path("etc", QuadletDir, q.path.name), r.text)
                          /\ \A item \in ToSet(Kept(snap.items)) : \A i \in DOMAIN item.files :
                                Arrived(InDir(item.path, <<item.files[i].name>>), item.files[i].text)
        BY DEF FilesArrive
    <2> QED BY <2>1, OwnFilesArrive, QuadletsArrive, LocksArrive
<1> QED BY <1>1, WholeInvariant, PTL
==============================================================================
