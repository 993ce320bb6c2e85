-------------------------- MODULE InspectionProofs --------------------------
(***************************************************************************)
(* Theorems about one inspection, for any hosts, command lines, inspectors *)
(* and contents of the registry.                                           *)
(*                                                                         *)
(* The argument: a query is about the image its stage needs (QueryInv),    *)
(* the rpm section records the baseline that was resolved (RpmInv), a      *)
(* baseline that was lost is only got past by choice (ChoiceInv), the      *)
(* image stays what the package list was taken from unless it is missed    *)
(* (ContentInv), and the inspectors before the current one have left       *)
(* their section or their warning (AccountInv).                            *)
(***************************************************************************)
EXTENDS Inspection, SequenceTheorems, TLAPS

-----------------------------------------------------------------------------
(* The inductive invariant *)

Chosen == opt.noBaseline /\ "baseline" \in snap.warned

\* What a query asks for, and when.
QueryInv ==
    query # NoQuery =>
        \/ stage = "resolving" /\ query.what = "packages" /\ query.image = TargetImage
        \/ stage = "presets" /\ query.what = "presets" /\ query.image = snap.rpm.image

Early == {"start", "resolving", "resolved", "rpm"}

\* The rpm section is the baseline that was resolved, or says that none was.
RpmInv ==
    /\ stage \in Early => snap.present = {} /\ snap.presets = NoList
    /\ stage \in {"start", "resolving"} => base = NoBase
    /\ IF HasRpm THEN snap.rpm = RpmSection ELSE snap.rpm = NoBase
    /\ stage = "presets" => HasRpm /\ snap.rpm.image # NoImage
    /\ base.names.from = "image" =>
        base.resolved /\ base.names.image = base.image /\ base.image # NoImage
    /\ base.resolved /\ base.names.from = "nothing" => base.noBaseline
    /\ base.names.from = "empty" => opt.image # NoImage

\* Where a lost baseline would have been noticed it has been, by choice.
ChoiceInv ==
    /\ stage \in {"rpm", "checked"} /\ base.resolved /\ base.noBaseline => Chosen
    /\ stage \in {"presets", "done"} \cup Others /\ HasRpm /\ snap.rpm.noBaseline => Chosen

\* As long as the image is not missed, the store has the content the package
\* list was taken from, and so have the presets.
ContentInv ==
    base.names.from = "image" =>
        /\ ~missed => host.store = base.names.content /\ host.store # 0
        /\ query.what = "presets" /\ query.step = "pull" => missed
        /\ snap.presets.from = "image" =>
            /\ snap.presets.image = base.image
            /\ missed \/ snap.presets.content = base.names.content

Accounted(s) == s \in snap.present \/ s \in snap.warned

\* What comes before the current stage is accounted for.
AccountInv ==
    /\ stage \in {"checked", "presets", "done"} \cup Others => Accounted("rpm")
    /\ \A i \in DOMAIN Sections :
        stage = Sections[i] \/ (stage = "presets" /\ Sections[i] = "service") =>
            \A j \in 1..(i - 1) : Accounted(Sections[j])
    /\ stage = "done" => \A s \in Others : Accounted(s)

InspectionInv ==
    InspectionTypeOK /\ QueryInv /\ RpmInv /\ ChoiceInv /\ ContentInv /\ AccountInv

-----------------------------------------------------------------------------
(* Types *)

LEMMA NoTypes ==
    /\ NoList \in Lists /\ FileList \in Lists /\ NoBase \in Bases
    /\ [NoBase EXCEPT !.noBaseline = TRUE] \in Bases
    /\ NoList.from = "nothing" /\ FileList.from = "file"
    /\ NoBase.names = NoList /\ NoBase.image = NoImage /\ ~NoBase.noBaseline /\ ~NoBase.resolved
<1>1. /\ NoList \in Lists /\ NoList.from = "nothing"
      /\ FileList \in Lists /\ FileList.from = "file"
    BY InspectionAssumption DEF NoList, FileList, Lists
<1>2. /\ NoBase.names = NoList /\ NoBase.image = NoImage /\ ~NoBase.noBaseline /\ ~NoBase.resolved
      /\ NoBase \in Bases
    BY <1>1 DEF NoBase, Bases
<1>3. [NoBase EXCEPT !.noBaseline = TRUE] \in Bases
    BY <1>2 DEF Bases
<1> QED BY <1>1, <1>2, <1>3

LEMMA SectionTypes ==
    /\ DOMAIN Sections = 1..Len(Sections) /\ Len(Sections) \in Nat /\ 1 \in DOMAIN Sections
    /\ \A i \in DOMAIN Sections : Sections[i] \in Others
    /\ Others \cap {"start", "resolving", "resolved", "rpm", "checked", "presets", "done", "failed"} = {}
<1>1. DOMAIN Sections = 1..Len(Sections) /\ Len(Sections) \in Nat
    BY InspectionAssumption, LenProperties
<1>2. \A i \in DOMAIN Sections : Sections[i] \in Others
    BY DEF Others
<1>3. PICK i \in DOMAIN Sections : Sections[i] = "service"
    BY InspectionAssumption DEF Others
<1> QED BY <1>1, <1>2, <1>3, InspectionAssumption

LEMMA AfterType ==
    ASSUME NEW i \in DOMAIN Sections
    PROVE  /\ After(i) \in {"done", "presets"} \cup Others
           /\ After(i) = "done" => i = Len(Sections)
           /\ After(i) # "done" => i + 1 \in DOMAIN Sections
           /\ After(i) \in Others => After(i) = Sections[i + 1]
           /\ After(i) = "presets" => PresetsDue(i + 1)
<1>1. i # Len(Sections) => i + 1 \in DOMAIN Sections
    BY SectionTypes
<1> QED BY <1>1, SectionTypes DEF After

LEMMA TargetType ==
    ASSUME os \in Hosts, opt \in CommandLines
    PROVE  TargetImage \in Images \cup {NoImage}
BY DEF TargetImage, Images

\* A step of a query goes on to the next command, or answers with nothing or with
\* the list of the content that is in the store from then on.
LEMMA QuerySteps ==
    ASSUME InspectionTypeOK, QueryStep
    PROVE  /\ query # NoQuery
           /\ UNCHANGED <<os, opt>> /\ missed' \in BOOLEAN /\ (missed => missed')
           /\ probe' \in {"unknown", "yes", "no"}
           /\ host' \in [access : BOOLEAN, login : BOOLEAN, reachable : BOOLEAN,
                         store : 0..MaxContent, registry : Contents]
           /\ \/ \E step \in Steps : NextStep(step) /\ (step = "pull" => host.store = 0 \/ missed')
              \/ \E list \in Lists :
                    /\ Answer(list)
                    /\ list.from \in {"nothing", "empty", "image"}
                    /\ list.from = "image" => /\ list.image = query.image
                                              /\ list.content = host'.store /\ host'.store # 0
           /\ host.store # 0 => query.step = "pull" \/ host'.store = host.store
<1> USE DEF InspectionTypeOK, inputs, Steps, Querying
<1>1. CASE AskAuth
    BY <1>1, NoTypes DEF AskAuth, ProbeTo
<1>2. CASE AskCached
    <2>1. PICK usable \in BOOLEAN :
            /\ ProbeTo(usable)
            /\ \/ usable /\ Stored /\ NextStep("run") /\ UNCHANGED missed
               \/ usable /\ ~Stored /\ NextStep("pull") /\ UNCHANGED missed
               \/ usable /\ Stored /\ NextStep("pull") /\ missed' = TRUE
               \/ ~usable /\ Answer(NoList) /\ UNCHANGED missed
        BY <1>2 DEF AskCached
    <2>2. /\ query # NoQuery /\ UNCHANGED <<os, opt, host>>
          /\ missed \in BOOLEAN /\ (missed' = missed \/ missed' = TRUE)
        BY <1>2, <2>1 DEF AskCached
    <2>3. probe' \in {"unknown", "yes", "no"}
        BY <2>1 DEF ProbeTo
    <2>4. missed' \in BOOLEAN /\ (missed => missed')
        <3>1. CASE missed' = missed
            BY <2>2, <3>1
        <3>2. CASE missed' = TRUE
            BY <3>2
        <3> QED BY <2>2, <3>1, <3>2
    <2>5. CASE NextStep("run") \/ (NextStep("pull") /\ (host.store = 0 \/ missed'))
        BY <2>2, <2>3, <2>4, <2>5
    <2>6. CASE Answer(NoList)
        BY <2>2, <2>3, <2>4, <2>6, NoTypes
    <2> QED BY <2>1, <2>2, <2>4, <2>5, <2>6 DEF Stored
<1>3. CASE Pulls
    BY <1>3 DEF Pulls, Contents
<1>4. CASE PullFails \/ PullTimesOut \/ RunFails
    BY <1>4, NoTypes DEF PullFails, PullTimesOut, RunFails
<1>5. CASE RunsInImage
    <2> DEFINE content == IF Stored THEN host.store ELSE host.registry
    <2>1. /\ query # NoQuery /\ UNCHANGED <<os, opt, missed, probe>>
          /\ host' = [host EXCEPT !.store = content]
          /\ \/ Answer([from |-> "image", image |-> query.image, content |-> content])
             \/ Answer([from |-> "empty", image |-> query.image, content |-> content])
        BY <1>5 DEF RunsInImage
    <2>2. content \in 0..MaxContent /\ content # 0 /\ content \in Contents
        BY InspectionAssumption DEF Stored, Contents
    <2>3. query.image \in Images
        BY <2>1
    <2> HIDE DEF content
    <2>4. \A from \in {"image", "empty"} :
            [from |-> from, image |-> query.image, content |-> content] \in Lists
        BY <2>2, <2>3 DEF Lists
    <2>5. host'.store = content
        BY <2>1
    <2>6. host.store # 0 => content = host.store
        BY DEF content, Stored
    <2> QED BY <2>1, <2>2, <2>4, <2>5, <2>6
<1> QED BY <1>1, <1>2, <1>3, <1>4, <1>5 DEF QueryStep

LEMMA InspectionInitInv == InspectionInit => InspectionInv
<1> SUFFICES ASSUME InspectionInit PROVE InspectionInv
    OBVIOUS
<1> USE DEF InspectionInit
<1>1. InspectionTypeOK
    <2>1. [rpm |-> NoBase, presets |-> NoList, present |-> {}, warned |-> {}]
            \in [rpm : Bases, presets : {l \in Lists : l.from \in {"nothing", "image"}},
                 present : SUBSET (Others \cup {"rpm"}), warned : SUBSET (Others \cup {"rpm", "baseline"})]
        BY NoTypes
    <2>2. host \in [access : BOOLEAN, login : BOOLEAN, reachable : BOOLEAN,
                    store : 0..MaxContent, registry : Contents]
        BY InspectionAssumption DEF Contents
    <2> QED BY <2>1, <2>2, NoTypes DEF InspectionTypeOK, Stages
<1>2. QueryInv /\ ChoiceInv /\ AccountInv
    BY SectionTypes DEF QueryInv, ChoiceInv, AccountInv
<1>3. RpmInv /\ ContentInv
    BY NoTypes DEF RpmInv, ContentInv, HasRpm
<1> QED BY <1>1, <1>2, <1>3 DEF InspectionInv

\* An answer to a query is a list of packages or of presets.
LEMMA AnswerTypes ==
    ASSUME InspectionTypeOK, QueryInv, NEW list \in Lists, list.from \in {"nothing", "empty", "image"},
           Answer(list), query # NoQuery
    PROVE  /\ query' = NoQuery
           /\ \/ /\ stage = "resolving" /\ stage' = "resolved" /\ UNCHANGED snap
                 /\ base' \in Bases /\ base'.resolved /\ base'.image = TargetImage
                 /\ base'.names \in {list, NoList}
                 /\ base'.names.from = "nothing" => base'.noBaseline
                 /\ base'.names.from = "empty" => opt.image # NoImage
              \/ /\ stage = "presets" /\ stage' = "service" /\ UNCHANGED base
                 /\ snap' = [snap EXCEPT !.presets = IF list.from = "image" THEN list ELSE NoList]
<1>1. CASE query.what = "packages"
    <2> DEFINE lost == list.from = "nothing" \/ (list.from = "empty" /\ opt.image = NoImage)
               names == IF lost THEN NoList ELSE list
    <2>1. Answer(list) => /\ query' = NoQuery /\ stage' = "resolved" /\ UNCHANGED snap
                          /\ base' = [names |-> names, image |-> TargetImage,
                                      noBaseline |-> lost, resolved |-> TRUE]
        BY <1>1 DEF Answer, PackagesAnswer, Resolved
    <2>2. names \in Lists /\ names \in {list, NoList} /\ lost \in BOOLEAN
        BY NoTypes
    <2>3. TargetImage \in Images \cup {NoImage}
        BY TargetType DEF InspectionTypeOK
    <2>4. stage = "resolving"
        BY <1>1 DEF QueryInv
    <2>7. (names.from = "nothing" => lost) /\ (names.from = "empty" => opt.image # NoImage)
        BY NoTypes
    <2> HIDE DEF names, lost
    <2>5. [names |-> names, image |-> TargetImage, noBaseline |-> lost, resolved |-> TRUE] \in Bases
        BY <2>2, <2>3 DEF Bases
    <2>6. base'.resolved /\ base'.image = TargetImage /\ base'.names = names /\ base'.noBaseline = lost
        BY <2>1
    <2> QED BY <2>1, <2>2, <2>4, <2>5, <2>6, <2>7
<1>2. CASE query.what # "packages"
    BY <1>2 DEF Answer, PresetsAnswer, QueryInv
<1> QED BY <1>1, <1>2

LEMMA InspectionTypeStep ==
    ASSUME InspectionTypeOK, QueryInv, RpmInv, [InspectionNext]_vars
    PROVE  InspectionTypeOK'
<1> USE DEF inputs
<1>1. CASE HostChanges
    <2>1. host' \in [access : BOOLEAN, login : BOOLEAN, reachable : BOOLEAN,
                     store : 0..MaxContent, registry : Contents]
        <3>1. \/ host' = [host EXCEPT !.login = ~host.login]
              \/ host' = [host EXCEPT !.reachable = ~host.reachable]
              \/ host.registry < MaxContent /\ host' = [host EXCEPT !.registry = host.registry + 1]
              \/ host' = [host EXCEPT !.store = 0]
            BY <1>1 DEF HostChanges
        <3>2. host.registry < MaxContent => host.registry + 1 \in Contents
            BY InspectionAssumption DEF InspectionTypeOK, Contents
        <3>3. CASE host' = [host EXCEPT !.login = ~host.login]
                   \/ host' = [host EXCEPT !.reachable = ~host.reachable]
            BY <3>3 DEF InspectionTypeOK
        <3>4. CASE host.registry < MaxContent /\ host' = [host EXCEPT !.registry = host.registry + 1]
            BY <3>2, <3>4 DEF InspectionTypeOK
        <3>5. CASE host' = [host EXCEPT !.store = 0]
            BY <3>5, InspectionAssumption DEF InspectionTypeOK
        <3> QED BY <3>1, <3>3, <3>4, <3>5
    <2> QED BY <1>1, <2>1 DEF HostChanges, InspectionTypeOK
<1>2. CASE QueryStep
    <2>0. /\ query # NoQuery /\ UNCHANGED <<os, opt>> /\ missed' \in BOOLEAN
          /\ probe' \in {"unknown", "yes", "no"}
          /\ host' \in [access : BOOLEAN, login : BOOLEAN, reachable : BOOLEAN,
                        store : 0..MaxContent, registry : Contents]
        BY <1>2, QuerySteps
    <2>1. ASSUME NEW step \in Steps, NextStep(step) PROVE InspectionTypeOK'
        <3>1. query' \in [what : {"packages", "presets"}, image : Images, step : Steps]
            BY <2>0, <2>1 DEF NextStep, InspectionTypeOK
        <3> QED BY <2>0, <2>1, <3>1 DEF NextStep, InspectionTypeOK, NoQuery, Stages
    <2>2. ASSUME NEW list \in Lists, Answer(list), list.from \in {"nothing", "empty", "image"}
          PROVE  InspectionTypeOK'
        <3>1. CASE stage = "resolving"
            BY <2>0, <2>2, <3>1, AnswerTypes DEF InspectionTypeOK, Stages
        <3>2. CASE stage # "resolving"
            <4>1. /\ query' = NoQuery /\ stage' = "service" /\ UNCHANGED base
                  /\ snap' = [snap EXCEPT !.presets = IF list.from = "image" THEN list ELSE NoList]
                BY <2>0, <2>2, <3>2, AnswerTypes
            <4>2. snap' \in [rpm : Bases, presets : {l \in Lists : l.from \in {"nothing", "image"}},
                             present : SUBSET (Others \cup {"rpm"}),
                             warned : SUBSET (Others \cup {"rpm", "baseline"})]
                BY <4>1, NoTypes DEF InspectionTypeOK
            <4> QED BY <2>0, <4>1, <4>2, InspectionAssumption DEF InspectionTypeOK, Stages
        <3> QED BY <3>1, <3>2
    <2> QED BY <1>2, <2>1, <2>2, QuerySteps
<1>3. CASE Begin \/ Aborts
    BY <1>3 DEF Begin, Aborts, InspectionTypeOK, Stages
<1>4. CASE ReadFile \/ AskPackages
    <2>1. TargetImage \in Images \cup {NoImage}
        BY TargetType DEF InspectionTypeOK
    <2>2. \A names \in {NoList, FileList}, lost \in BOOLEAN, image \in {TargetImage, NoImage} :
            [names |-> names, image |-> image, noBaseline |-> lost, resolved |-> TRUE] \in Bases
        BY <2>1, NoTypes DEF Bases
    <2>3. CASE ReadFile
        BY <2>2, <2>3 DEF ReadFile, Resolved, InspectionTypeOK, Stages
    <2>4. CASE AskPackages /\ TargetImage = NoImage
        BY <2>2, <2>4 DEF AskPackages, Resolved, InspectionTypeOK, Stages
    <2>5. CASE AskPackages /\ TargetImage # NoImage
        <3>1. query' \in [what : {"packages", "presets"}, image : Images, step : Steps]
            BY <2>1, <2>5 DEF AskPackages, Ask, Steps
        <3> QED BY <2>5, <3>1 DEF AskPackages, InspectionTypeOK, NoQuery, Stages
    <2> QED BY <1>4, <2>3, <2>4, <2>5
<1>5. CASE CheckBaseline \/ CheckRpm
    BY <1>5, SectionTypes DEF CheckBaseline, CheckRpm, WarnBaseline, InspectionTypeOK, Stages
<1>6. CASE InspectRpm \/ RpmFails
    <2>1. RpmSection \in Bases
        BY NoTypes DEF RpmSection, InspectionTypeOK
    <2>2. /\ stage = "rpm" /\ stage' = "checked"
          /\ UNCHANGED <<os, opt, host, probe, query, base, missed>>
          /\ snap' \in {[snap EXCEPT !.rpm = RpmSection, !.present = snap.present \cup {"rpm"}],
                        [snap EXCEPT !.warned = snap.warned \cup {"rpm"}]}
        BY <1>6 DEF InspectRpm, RpmFails
    <2>3. snap' \in [rpm : Bases, presets : {l \in Lists : l.from \in {"nothing", "image"}},
                     present : SUBSET (Others \cup {"rpm"}),
                     warned : SUBSET (Others \cup {"rpm", "baseline"})]
        <3>1. CASE snap' = [snap EXCEPT !.rpm = RpmSection, !.present = snap.present \cup {"rpm"}]
            <4>1. [snap EXCEPT !.rpm = RpmSection]
                    \in [rpm : Bases, presets : {l \in Lists : l.from \in {"nothing", "image"}},
                         present : SUBSET (Others \cup {"rpm"}),
                         warned : SUBSET (Others \cup {"rpm", "baseline"})]
                BY <2>1 DEF InspectionTypeOK
            <4>2. snap.present \cup {"rpm"} \in SUBSET (Others \cup {"rpm"})
                BY DEF InspectionTypeOK
            <4> QED BY <3>1, <4>1, <4>2
        <3>2. CASE snap' = [snap EXCEPT !.warned = snap.warned \cup {"rpm"}]
            BY <3>2 DEF InspectionTypeOK
        <3> QED BY <2>2, <3>1, <3>2
    <2> QED BY <2>2, <2>3 DEF InspectionTypeOK, Stages
<1>7. CASE AskPresets
    <2>1. snap.rpm.image \in Images
        BY <1>7 DEF AskPresets, RpmInv, InspectionTypeOK, Bases
    <2>2. query' \in [what : {"packages", "presets"}, image : Images, step : Steps]
        BY <1>7, <2>1 DEF AskPresets, Ask, Steps
    <2> QED BY <1>7, <2>2 DEF AskPresets, InspectionTypeOK, NoQuery
<1>8. CASE Inspect \/ InspectorFails
    <2>1. PICK i \in DOMAIN Sections :
            /\ stage = Sections[i] /\ stage' = After(i)
            /\ snap' \in {[snap EXCEPT !.present = snap.present \cup {Sections[i]}],
                          [snap EXCEPT !.warned = snap.warned \cup {Sections[i]}]}
        BY <1>8 DEF Inspect, InspectorFails
    <2>2. After(i) \in Stages /\ Sections[i] \in Others
        BY AfterType, SectionTypes DEF Stages
    <2>3. snap' \in [rpm : Bases, presets : {l \in Lists : l.from \in {"nothing", "image"}},
                     present : SUBSET (Others \cup {"rpm"}),
                     warned : SUBSET (Others \cup {"rpm", "baseline"})]
        BY <2>1, <2>2 DEF InspectionTypeOK
    <2>4. query = NoQuery
        BY <2>1, <2>2, SectionTypes DEF InspectionTypeOK
    <2> QED BY <1>8, <2>1, <2>2, <2>3, <2>4 DEF Inspect, InspectorFails, InspectionTypeOK
<1>9. CASE UNCHANGED vars
    BY <1>9 DEF vars, InspectionTypeOK
<1> QED
    BY <1>1, <1>2, <1>3, <1>4, <1>5, <1>6, <1>7, <1>8, <1>9 DEF InspectionNext, RunAllStep

-----------------------------------------------------------------------------
(* The parts of the invariant *)

Parts == QueryInv /\ RpmInv /\ ChoiceInv /\ ContentInv /\ AccountInv

\* A change of the host breaks nothing that is not excused by a removal or a failed look.
LEMMA HostKeepsParts ==
    ASSUME InspectionInv, HostChanges
    PROVE  Parts'
<1>1. UNCHANGED <<os, opt, probe, query, base, snap, stage>>
    BY DEF HostChanges, inputs
<1>2. (QueryInv /\ RpmInv /\ ChoiceInv /\ AccountInv)'
    BY <1>1 DEF InspectionInv, QueryInv, RpmInv, ChoiceInv, AccountInv, TargetImage, HasRpm,
                RpmSection, Chosen, Accounted
<1>3. (missed => missed') /\ (~missed' => host'.store = host.store)
    <2>1. CASE missed' = missed /\ ( \/ host' = [host EXCEPT !.login = ~host.login]
                                       \/ host' = [host EXCEPT !.reachable = ~host.reachable]
                                       \/ host' = [host EXCEPT !.registry = host.registry + 1])
        BY <2>1 DEF InspectionInv, InspectionTypeOK
    <2>2. CASE missed' = TRUE
        BY <2>2
    <2> QED BY <2>1, <2>2 DEF HostChanges
<1>4. ContentInv'
    BY <1>1, <1>3 DEF InspectionInv, ContentInv
<1> QED BY <1>2, <1>4 DEF Parts

\* Going on with a query: the image is pulled only when it is not found in the store.
LEMMA NextStepKeepsParts ==
    ASSUME InspectionInv, QueryStep, NEW step \in Steps, NextStep(step),
           step = "pull" => host.store = 0 \/ missed'
    PROVE  Parts'
<1>0. InspectionTypeOK /\ Parts
    BY DEF InspectionInv, Parts
<1>1. /\ query # NoQuery /\ UNCHANGED <<os, opt, base, snap, stage>>
      /\ missed => missed'
      /\ query'.what = query.what /\ query'.image = query.image /\ query'.step = step
      /\ host.store # 0 => query.step = "pull" \/ host'.store = host.store
    BY <1>0, QuerySteps DEF NextStep, InspectionTypeOK, NoQuery
<1>2. (QueryInv /\ RpmInv /\ ChoiceInv /\ AccountInv)'
    BY <1>0, <1>1 DEF Parts, QueryInv, RpmInv, ChoiceInv, AccountInv, TargetImage, HasRpm,
                      RpmSection, Chosen, Accounted
<1>3. ContentInv'
    <2>1. SUFFICES ASSUME base.names.from = "image" PROVE ContentInv'
        BY <1>1 DEF ContentInv
    <2>2. query.what = "presets"
        BY <1>0, <1>1, <2>1, NoTypes DEF Parts, QueryInv, RpmInv
    <2>3. ASSUME ~missed PROVE host.store # 0 /\ query.step # "pull"
        BY <1>0, <2>1, <2>2, <2>3 DEF Parts, ContentInv
    <2>4. ~missed' => host'.store = host.store /\ step # "pull"
        BY <1>1, <2>3
    <2> QED BY <1>0, <1>1, <2>1, <2>4 DEF Parts, ContentInv
<1> QED BY <1>2, <1>3 DEF Parts

LEMMA PackagesAnswerKeepsParts ==
    ASSUME InspectionInv, QueryStep, NEW list \in Lists, Answer(list),
           list.from \in {"nothing", "empty", "image"},
           list.from = "image" => /\ list.image = query.image
                                  /\ list.content = host'.store /\ host'.store # 0,
           stage = "resolving"
    PROVE  Parts'
<1>0. InspectionTypeOK /\ Parts
    BY DEF InspectionInv, Parts
<1>1. query # NoQuery /\ UNCHANGED <<os, opt>>
    BY <1>0, QuerySteps
<1>2. /\ query' = NoQuery /\ stage' = "resolved" /\ UNCHANGED snap
      /\ base'.resolved /\ base'.image = TargetImage /\ base'.names \in {list, NoList}
      /\ base'.names.from = "nothing" => base'.noBaseline
      /\ base'.names.from = "empty" => opt'.image # NoImage
    BY <1>0, <1>1, AnswerTypes DEF Parts
<1>3. query.image = TargetImage /\ query.image # NoImage
    BY <1>0, <1>1 DEF Parts, QueryInv, InspectionTypeOK, Images
<1>4. snap.present = {} /\ snap.rpm = NoBase
    BY <1>0 DEF Parts, RpmInv, Early, HasRpm
<1>5. base'.names.from = "image" =>
        base'.names.image = base'.image /\ base'.image # NoImage
            /\ base'.names.content = host'.store /\ host'.store # 0
    BY <1>2, <1>3, NoTypes
<1>6. snap.presets = NoList
    BY <1>0 DEF Parts, RpmInv, Early
<1>7. (QueryInv /\ RpmInv)'
    BY <1>2, <1>4, <1>5, <1>6 DEF QueryInv, RpmInv, HasRpm, Early
<1>8. (ChoiceInv /\ AccountInv)'
    BY <1>2, SectionTypes DEF ChoiceInv, AccountInv
<1>9. ContentInv'
    BY <1>2, <1>5, <1>6, NoTypes DEF ContentInv, NoQuery
<1> QED BY <1>7, <1>8, <1>9 DEF Parts

\* The presets are taken from the content the package list was taken from.
LEMMA PresetsAnswerKeepsParts ==
    ASSUME InspectionInv, QueryStep, NEW list \in Lists, Answer(list),
           list.from \in {"nothing", "empty", "image"},
           list.from = "image" => /\ list.image = query.image
                                  /\ list.content = host'.store /\ host'.store # 0,
           stage # "resolving"
    PROVE  Parts'
<1>0. InspectionTypeOK /\ Parts
    BY DEF InspectionInv, Parts
<1>1. /\ query # NoQuery /\ UNCHANGED <<os, opt>> /\ (missed => missed')
      /\ host.store # 0 => query.step = "pull" \/ host'.store = host.store
    BY <1>0, QuerySteps
<1>2. /\ query' = NoQuery /\ stage = "presets" /\ stage' = "service" /\ UNCHANGED base
      /\ snap' = [snap EXCEPT !.presets = IF list.from = "image" THEN list ELSE NoList]
    BY <1>0, <1>1, AnswerTypes DEF Parts
<1>3. /\ snap'.rpm = snap.rpm /\ snap'.present = snap.present /\ snap'.warned = snap.warned
      /\ snap'.presets = IF list.from = "image" THEN list ELSE NoList
    BY <1>0, <1>2 DEF InspectionTypeOK
<1>4. query.what = "presets" /\ query.image = snap.rpm.image
    BY <1>0, <1>1, <1>2 DEF Parts, QueryInv
<1>5. HasRpm /\ HasRpm' /\ snap.rpm = RpmSection
    BY <1>0, <1>2, <1>3 DEF Parts, RpmInv, HasRpm
<1>6. "service" \in Others /\ "service" \notin Early
    BY InspectionAssumption DEF Early
<1>7. (QueryInv /\ RpmInv)'
    BY <1>0, <1>1, <1>2, <1>3, <1>5, <1>6 DEF Parts, QueryInv, RpmInv, RpmSection, Early
<1>8. (ChoiceInv /\ AccountInv)'
    BY <1>0, <1>1, <1>2, <1>3, <1>5, <1>6, SectionTypes
        DEF Parts, ChoiceInv, AccountInv, Chosen, Accounted, HasRpm
<1>9. ContentInv'
    <2>1. SUFFICES ASSUME base.names.from = "image" PROVE ContentInv'
        BY <1>2 DEF ContentInv
    <2>2. ASSUME ~missed
          PROVE  host.store = base.names.content /\ host.store # 0 /\ query.step # "pull"
        BY <1>0, <1>4, <2>1, <2>2 DEF Parts, ContentInv
    <2>3. ~missed' => host'.store = base.names.content /\ host'.store # 0
        BY <1>1, <2>2
    <2>4. snap.rpm.image = base.image
        BY <1>0, <1>5, <2>1 DEF Parts, RpmInv, RpmSection
    <2> QED BY <1>1, <1>2, <1>3, <1>4, <2>3, <2>4, NoTypes DEF ContentInv, NoQuery
<1> QED BY <1>7, <1>8, <1>9 DEF Parts

\* Up to the baseline: nothing is in the snapshot yet.
LEMMA ResolvingKeepsParts ==
    ASSUME InspectionInv, Begin \/ ReadFile \/ AskPackages
    PROVE  Parts'
<1> USE DEF inputs
<1>0. InspectionTypeOK /\ Parts
    BY DEF InspectionInv, Parts
<1>1. /\ UNCHANGED <<os, opt, host, snap, missed>>
      /\ stage \in {"start", "resolving"} /\ stage' \in {"failed", "rpm", "resolving", "resolved"}
      /\ stage' \in {"rpm", "resolving"} => base' = base
      /\ \/ base' = base
         \/ \E names \in {NoList, FileList} : \E image :
                base' = [names |-> names, image |-> image, noBaseline |-> names = NoList, resolved |-> TRUE]
    <2>1. CASE Begin
        BY <2>1 DEF Begin
    <2>2. CASE ReadFile
        BY <2>2, NoTypes DEF ReadFile, Resolved
    <2>3. CASE AskPackages
        BY <2>3, NoTypes DEF AskPackages, Resolved, Ask
    <2> QED BY <2>1, <2>2, <2>3
<1>2. base = NoBase /\ snap.present = {} /\ snap.presets = NoList /\ snap.rpm = NoBase
    BY <1>0, <1>1 DEF Parts, RpmInv, HasRpm, Early
<1>3. base'.names \in {NoList, FileList}
    BY <1>1, <1>2, NoTypes
<1>4. base'.names.from # "image" /\ base'.names.from # "empty"
    BY <1>3, NoTypes
<1>9. base'.resolved /\ base'.names.from = "nothing" => base'.noBaseline
    <2>1. CASE base' = base
        BY <1>2, <2>1, NoTypes
    <2>2. ASSUME NEW names \in {NoList, FileList}, NEW image,
                 base' = [names |-> names, image |-> image, noBaseline |-> names = NoList, resolved |-> TRUE]
          PROVE  base'.names.from = "nothing" => base'.noBaseline
        <3>1. base'.names = names /\ base'.noBaseline = (names = NoList)
            BY <2>2
        <3>2. names.from = "nothing" => names = NoList
            BY NoTypes
        <3> QED BY <3>1, <3>2
    <2> QED BY <1>1, <2>1, <2>2
<1>5. QueryInv'
    <2>1. CASE Begin
        BY <1>0, <2>1 DEF Begin, InspectionTypeOK, QueryInv
    <2>2. CASE ReadFile
        BY <2>2 DEF ReadFile, QueryInv
    <2>3. CASE AskPackages
        BY <2>3 DEF AskPackages, QueryInv, Ask, TargetImage, Resolved
    <2> QED BY <2>1, <2>2, <2>3
<1>6. RpmInv'
    BY <1>1, <1>2, <1>4, <1>9 DEF RpmInv, HasRpm, Early
<1>7. (ChoiceInv /\ AccountInv)'
    BY <1>1, <1>2, NoTypes, SectionTypes DEF ChoiceInv, AccountInv
<1>8. ContentInv'
    BY <1>4 DEF ContentInv
<1> QED BY <1>5, <1>6, <1>7, <1>8 DEF Parts

\* The preflight: a lost baseline is got past by choice.
LEMMA CheckBaselineKeepsParts ==
    ASSUME InspectionInv, CheckBaseline
    PROVE  Parts'
<1> USE DEF inputs
<1>0. InspectionTypeOK /\ Parts
    BY DEF InspectionInv, Parts
<1>1. /\ UNCHANGED <<os, opt, host, query, base, missed>>
      /\ stage = "resolved" /\ stage' \in {"rpm", "failed"}
      /\ snap' = snap \/ snap' = [snap EXCEPT !.warned = snap.warned \cup {"baseline"}]
      /\ stage' = "rpm" /\ base.noBaseline =>
            opt.noBaseline /\ snap' = [snap EXCEPT !.warned = snap.warned \cup {"baseline"}]
    BY DEF CheckBaseline, WarnBaseline
<1>2. /\ snap'.rpm = snap.rpm /\ snap'.present = snap.present /\ snap'.presets = snap.presets
      /\ snap'.warned = snap.warned \/ snap'.warned = snap.warned \cup {"baseline"}
      /\ stage' = "rpm" /\ base.noBaseline => Chosen'
    BY <1>0, <1>1 DEF InspectionTypeOK, Chosen
<1>3. (QueryInv /\ RpmInv)'
    BY <1>0, <1>1, <1>2 DEF InspectionTypeOK, Parts, QueryInv, RpmInv, HasRpm, RpmSection, Early
<1>4. (ChoiceInv /\ AccountInv)'
    BY <1>1, <1>2, SectionTypes DEF ChoiceInv, AccountInv
<1>5. ContentInv'
    BY <1>0, <1>1, <1>2 DEF Parts, ContentInv
<1> QED BY <1>3, <1>4, <1>5 DEF Parts

\* The rpm inspector: its section is the baseline, or there is a warning.
LEMMA RpmKeepsParts ==
    ASSUME InspectionInv, InspectRpm \/ RpmFails
    PROVE  Parts'
<1> USE DEF inputs
<1>0. InspectionTypeOK /\ Parts
    BY DEF InspectionInv, Parts
<1>1. /\ UNCHANGED <<os, opt, host, query, base, missed>> /\ stage = "rpm" /\ stage' = "checked"
    BY DEF InspectRpm, RpmFails
<1>2. snap.present = {} /\ snap.rpm = NoBase
    BY <1>0, <1>1 DEF Parts, RpmInv, HasRpm, Early
<1>3. /\ snap'.presets = snap.presets
      /\ \/ snap'.rpm = RpmSection /\ snap'.present = {"rpm"} /\ snap'.warned = snap.warned
         \/ snap'.rpm = NoBase /\ snap'.present = {} /\ snap'.warned = snap.warned \cup {"rpm"}
    <2>1. CASE InspectRpm
        <3> DEFINE s == [snap EXCEPT !.rpm = RpmSection]
        <3>1. /\ s.presets = snap.presets /\ s.rpm = RpmSection /\ s.warned = snap.warned
              /\ DOMAIN s = {"rpm", "presets", "present", "warned"}
            BY <1>0 DEF InspectionTypeOK
        <3>2. snap' = [s EXCEPT !.present = {"rpm"}]
            BY <1>0, <1>2, <2>1 DEF InspectRpm, InspectionTypeOK
        <3> HIDE DEF s
        <3> QED BY <3>1, <3>2
    <2>2. CASE RpmFails
        BY <1>0, <1>2, <2>2 DEF RpmFails, InspectionTypeOK
    <2> QED BY <2>1, <2>2
<1>4. (QueryInv /\ RpmInv)'
    BY <1>0, <1>1, <1>3 DEF InspectionTypeOK, Parts, QueryInv, RpmInv, HasRpm, RpmSection, Early
<1>5. (ChoiceInv /\ AccountInv)'
    BY <1>0, <1>1, <1>3, SectionTypes DEF Parts, ChoiceInv, AccountInv, Chosen, Accounted
<1>6. ContentInv'
    BY <1>0, <1>1, <1>3 DEF Parts, ContentInv
<1> QED BY <1>4, <1>5, <1>6 DEF Parts

\* The second look: what the preflight did not see is got past by choice.
LEMMA CheckRpmKeepsParts ==
    ASSUME InspectionInv, CheckRpm
    PROVE  Parts'
<1> USE DEF inputs
<1>0. InspectionTypeOK /\ Parts
    BY DEF InspectionInv, Parts
<1>1. /\ UNCHANGED <<os, opt, host, query, base, missed>>
      /\ stage = "checked" /\ stage' \in {Sections[1], "failed"}
      /\ snap' = snap \/ snap' = [snap EXCEPT !.warned = snap.warned \cup {"baseline"}]
      /\ stage' # "failed" /\ ~base.resolved /\ "rpm" \in snap.present /\ snap.rpm.noBaseline =>
            opt.noBaseline /\ snap' = [snap EXCEPT !.warned = snap.warned \cup {"baseline"}]
    BY DEF CheckRpm, WarnBaseline
<1>2. /\ snap'.rpm = snap.rpm /\ snap'.present = snap.present /\ snap'.presets = snap.presets
      /\ snap'.warned = snap.warned \/ snap'.warned = snap.warned \cup {"baseline"}
      /\ stage' # "failed" /\ ~base.resolved /\ HasRpm /\ snap.rpm.noBaseline => Chosen'
    BY <1>0, <1>1 DEF InspectionTypeOK, Chosen, HasRpm
<1>3. Sections[1] \in Others /\ query = NoQuery
    BY <1>0, <1>1, SectionTypes DEF InspectionTypeOK
<1>4. (QueryInv /\ RpmInv)'
    BY <1>0, <1>1, <1>2, <1>3, SectionTypes DEF Parts, QueryInv, RpmInv, HasRpm, RpmSection, Early
<1>5. ChoiceInv'
    <2>1. HasRpm /\ base.resolved => snap.rpm = base
        BY <1>0 DEF Parts, RpmInv, RpmSection
    <2>2. base.resolved /\ base.noBaseline => Chosen
        BY <1>0, <1>1 DEF Parts, ChoiceInv
    <2>3. Chosen => Chosen'
        BY <1>1, <1>2 DEF Chosen
    <2> QED BY <1>1, <1>2, <1>3, <2>1, <2>2, <2>3, SectionTypes DEF ChoiceInv, HasRpm
<1>6. AccountInv'
    <2>1. Accounted("rpm")'
        BY <1>0, <1>1, <1>2 DEF Parts, AccountInv, Accounted
    <2>2. \A i \in DOMAIN Sections : stage' = Sections[i] => 1..(i - 1) = {}
        BY <1>1, <1>3, SectionTypes, InspectionAssumption
    <2> QED BY <1>1, <1>3, <2>1, <2>2, SectionTypes DEF AccountInv
<1>7. ContentInv'
    BY <1>0, <1>1, <1>2 DEF Parts, ContentInv
<1> QED BY <1>4, <1>5, <1>6, <1>7 DEF Parts

LEMMA AskPresetsKeepsParts ==
    ASSUME InspectionInv, AskPresets
    PROVE  Parts'
<1> USE DEF inputs
<1>0. InspectionTypeOK /\ Parts
    BY DEF InspectionInv, Parts
<1>1. /\ UNCHANGED <<os, opt, host, base, snap, stage, missed>> /\ stage = "presets"
      /\ query' = [what |-> "presets", image |-> snap.rpm.image, step |-> "auth"]
    BY DEF AskPresets, Ask
<1>2. (QueryInv /\ RpmInv /\ ChoiceInv /\ AccountInv)'
    BY <1>0, <1>1 DEF Parts, QueryInv, RpmInv, ChoiceInv, AccountInv, HasRpm, RpmSection,
                      Chosen, Accounted
<1>3. ContentInv'
    BY <1>0, <1>1 DEF Parts, ContentInv
<1> QED BY <1>2, <1>3 DEF Parts

\* Every later inspector leaves its section or its warning.
LEMMA InspectKeepsParts ==
    ASSUME InspectionInv, Inspect \/ InspectorFails
    PROVE  Parts'
<1> USE DEF inputs
<1>0. InspectionTypeOK /\ Parts
    BY DEF InspectionInv, Parts
<1>1. UNCHANGED <<os, opt, host, query, base, missed>>
    BY DEF Inspect, InspectorFails
<1>2. PICK i \in DOMAIN Sections :
        /\ stage = Sections[i] /\ stage' = After(i)
        /\ snap' \in {[snap EXCEPT !.present = snap.present \cup {Sections[i]}],
                      [snap EXCEPT !.warned = snap.warned \cup {Sections[i]}]}
    BY DEF Inspect, InspectorFails
<1>3. /\ snap'.rpm = snap.rpm /\ snap'.presets = snap.presets
      /\ \/ snap'.present = snap.present \cup {Sections[i]} /\ snap'.warned = snap.warned
         \/ snap'.present = snap.present /\ snap'.warned = snap.warned \cup {Sections[i]}
    BY <1>0, <1>2 DEF InspectionTypeOK
<1>4. Sections[i] \in Others /\ Sections[i] # "rpm" /\ query = NoQuery
    BY <1>0, <1>2, SectionTypes DEF InspectionTypeOK
<1>5. HasRpm' <=> HasRpm
    BY <1>3, <1>4 DEF HasRpm
<1>6. After(i) \in {"done", "presets"} \cup Others
    BY AfterType
<1>7. (QueryInv /\ RpmInv)'
    <2>1. stage' = "presets" => HasRpm /\ snap.rpm.image # NoImage
        BY <1>2, AfterType DEF PresetsDue, HasRpm
    <2> QED BY <1>0, <1>1, <1>2, <1>3, <1>4, <1>5, <1>6, <2>1, SectionTypes
            DEF Parts, QueryInv, RpmInv, RpmSection, Early
<1>8. ChoiceInv'
    <2>1. Chosen => Chosen'
        BY <1>1, <1>3 DEF Chosen
    <2> QED BY <1>0, <1>1, <1>2, <1>3, <1>4, <1>5, <1>6, <2>1, SectionTypes DEF Parts, ChoiceInv
<1>9. AccountInv'
    <2>1. \A s : Accounted(s) => Accounted(s)'
        BY <1>3 DEF Accounted
    <2>2. Accounted(Sections[i])'
        BY <1>3 DEF Accounted
    <2>3. \A j \in 1..i : Accounted(Sections[j])'
        BY <1>0, <1>2, <2>1, <2>2, SectionTypes DEF Parts, AccountInv
    <2>4. Accounted("rpm")'
        BY <1>0, <1>2, <1>4, <2>1 DEF Parts, AccountInv
    <2>5. ASSUME NEW k \in DOMAIN Sections,
                 stage' = Sections[k] \/ (stage' = "presets" /\ Sections[k] = "service")
          PROVE  k = i + 1
        <3>1. CASE stage' = Sections[k]
            <4>1. Sections[k] = Sections[i + 1] /\ i + 1 \in DOMAIN Sections
                BY <1>2, <1>6, <3>1, AfterType, SectionTypes
            <4> QED BY <4>1, InspectionAssumption
        <3>2. CASE stage' = "presets" /\ Sections[k] = "service"
            <4>1. Sections[i + 1] = "service" /\ i + 1 \in DOMAIN Sections
                BY <1>2, <3>2, AfterType DEF PresetsDue
            <4> QED BY <3>2, <4>1, InspectionAssumption
        <3> QED BY <2>5, <3>1, <3>2
    <2>6. \A k \in DOMAIN Sections :
            stage' = Sections[k] \/ (stage' = "presets" /\ Sections[k] = "service") =>
                \A j \in 1..(k - 1) : Accounted(Sections[j])'
        BY <2>3, <2>5, SectionTypes
    <2>7. stage' = "done" => \A s \in Others : Accounted(s)'
        BY <1>2, <2>3, AfterType, SectionTypes DEF Others
    <2> QED BY <2>4, <2>6, <2>7 DEF AccountInv, Accounted
<1>10. ContentInv'
    BY <1>0, <1>1, <1>3 DEF Parts, ContentInv
<1> QED BY <1>7, <1>8, <1>9, <1>10 DEF Parts

\* A run that aborts promises nothing.
LEMMA AbortsKeepsParts ==
    ASSUME InspectionInv, Aborts
    PROVE  Parts'
<1> USE DEF inputs
<1>0. InspectionTypeOK /\ Parts
    BY DEF InspectionInv, Parts
<1>1. UNCHANGED <<os, opt, host, query, base, snap, missed>> /\ stage' = "failed"
    BY DEF Aborts
<1>2. query = NoQuery
    BY <1>0 DEF Aborts, InspectionTypeOK
<1>3. (QueryInv /\ RpmInv /\ ChoiceInv /\ AccountInv)'
    BY <1>0, <1>1, <1>2, SectionTypes
        DEF Parts, QueryInv, RpmInv, ChoiceInv, AccountInv, HasRpm, RpmSection, Early
<1>4. ContentInv'
    BY <1>0, <1>1 DEF Parts, ContentInv
<1> QED BY <1>3, <1>4 DEF Parts

LEMMA InspectionStepInv ==
    ASSUME InspectionInv, [InspectionNext]_vars
    PROVE  InspectionInv'
<1>0. InspectionTypeOK /\ Parts
    BY DEF InspectionInv, Parts
<1>1. InspectionTypeOK'
    BY <1>0, InspectionTypeStep DEF Parts
<1> SUFFICES Parts'
    BY <1>1 DEF InspectionInv, Parts
<1>2. CASE QueryStep
    <2>1. ASSUME NEW step \in Steps, NextStep(step),
           step = "pull" => host.store = 0 \/ missed'
          PROVE  Parts'
        BY <1>2, <2>1, NextStepKeepsParts
    <2>2. ASSUME NEW list \in Lists, Answer(list), list.from \in {"nothing", "empty", "image"},
                 list.from = "image" => /\ list.image = query.image
                                        /\ list.content = host'.store /\ host'.store # 0
          PROVE  Parts'
        <3>1. CASE stage = "resolving"
            BY <1>2, <2>2, <3>1, PackagesAnswerKeepsParts
        <3>2. CASE stage # "resolving"
            BY <1>2, <2>2, <3>2, PresetsAnswerKeepsParts
        <3> QED BY <3>1, <3>2
    <2>3. \/ \E step \in Steps : NextStep(step) /\ (step = "pull" => host.store = 0 \/ missed')
          \/ \E list \in Lists :
                /\ Answer(list)
                /\ list.from \in {"nothing", "empty", "image"}
                /\ list.from = "image" => /\ list.image = query.image
                                          /\ list.content = host'.store /\ host'.store # 0
        BY <1>0, <1>2, QuerySteps
    <2> QED BY <2>1, <2>2, <2>3
<1>3. CASE UNCHANGED vars
    <2>1. UNCHANGED <<os, opt, host, probe, query, base, snap, stage, missed>>
        BY <1>3 DEF vars, inputs
    <2>2. (QueryInv /\ RpmInv /\ ChoiceInv /\ AccountInv)'
        BY <1>0, <2>1 DEF Parts, QueryInv, RpmInv, ChoiceInv, AccountInv, TargetImage, HasRpm,
                          RpmSection, Chosen, Accounted
    <2>3. ContentInv'
        BY <1>0, <2>1 DEF Parts, ContentInv
    <2> QED BY <2>2, <2>3 DEF Parts
<1>4. CASE RunAllStep
    BY <1>4, ResolvingKeepsParts, CheckBaselineKeepsParts, RpmKeepsParts,
       CheckRpmKeepsParts, AskPresetsKeepsParts, InspectKeepsParts, AbortsKeepsParts
        DEF RunAllStep
<1> QED BY <1>2, <1>3, <1>4, HostKeepsParts DEF InspectionNext

-----------------------------------------------------------------------------
(* The theorems *)

\* The invariant holds throughout an inspection.
THEOREM InspectionInvariant == InspectionSpec => []InspectionInv
<1>1. InspectionInit => InspectionInv
    BY InspectionInitInv
<1>2. InspectionInv /\ [InspectionNext]_vars => InspectionInv'
    BY InspectionStepInv
<1> QED BY <1>1, <1>2, PTL DEF InspectionSpec

\* Every variable of an inspection keeps its type (run_all() and BaselineResolver).
THEOREM InspectionTypeCorrect == InspectionSpec => []InspectionTypeOK
<1>1. InspectionInv => InspectionTypeOK
    BY DEF InspectionInv
<1> QED BY <1>1, InspectionInvariant, PTL

\* A finished snapshot without the names of a base image was asked for and says so, or
\* took an empty list of --target-image for one: neither look of run_all() at the
\* baseline lets another through (_baseline_fail_fast).
THEOREM BaselineLostOnlyByChoice == InspectionSpec => []NoBaselineOnlyByChoice
<1>1. ASSUME InspectionInv, Finished, HasRpm, snap.rpm.names.from \in {"nothing", "empty"}
      PROVE  \/ opt.noBaseline /\ snap.rpm.noBaseline /\ "baseline" \in snap.warned
             \/ snap.rpm.names.from = "empty" /\ opt.image # NoImage
    <2>1. snap.rpm = RpmSection
        BY <1>1 DEF InspectionInv, RpmInv
    <2>2. snap.rpm.noBaseline \/ (snap.rpm.names.from = "empty" /\ opt.image # NoImage)
        BY <1>1, <2>1 DEF InspectionInv, RpmInv, RpmSection, NoBase
    <2> QED BY <1>1, <2>2 DEF InspectionInv, ChoiceInv, Chosen, Finished
<1>2. InspectionInv => NoBaselineOnlyByChoice
    BY <1>1 DEF NoBaselineOnlyByChoice
<1> QED BY <1>2, InspectionInvariant, PTL

\* The packages subtracted, and the presets, are those of the image that the
\* Containerfile builds on, and of the same content of it unless the image was removed
\* from the store or a look at the store failed (BaselineResolver.pull_image).
THEOREM SubtractedIsTheFromImage == InspectionSpec => []BaselineIsOfFromImage
<1>1. ASSUME InspectionInv, Finished, snap.rpm.names.from = "image"
      PROVE  /\ snap.rpm.names.image = FromImage
             /\ snap.presets.from = "image" =>
                 /\ snap.presets.image = FromImage
                 /\ missed \/ snap.presets.content = snap.rpm.names.content
    <2>1. HasRpm /\ snap.rpm = RpmSection
        BY <1>1, NoTypes DEF InspectionInv, RpmInv
    <2>2. base.resolved /\ snap.rpm = base
        BY <1>1, <2>1, NoTypes DEF RpmSection, NoBase
    <2>3. base.names.image = base.image /\ base.image # NoImage
        BY <1>1, <2>2 DEF InspectionInv, RpmInv
    <2>4. FromImage = base.image
        BY <2>1, <2>2, <2>3 DEF FromImage, BaseImageForSnapshot
    <2> QED BY <1>1, <2>2, <2>3, <2>4 DEF InspectionInv, ContentInv
<1>2. InspectionInv => BaselineIsOfFromImage
    BY <1>1 DEF BaselineIsOfFromImage
<1> QED BY <1>2, InspectionInvariant, PTL

\* An inspector that failed has left a warning, whichever it was (_safe_run).
THEOREM NoSectionLostSilently == InspectionSpec => []SectionsAccounted
<1>1. InspectionInv => SectionsAccounted
    BY DEF InspectionInv, AccountInv, Accounted, SectionsAccounted, Finished
<1> QED BY <1>1, InspectionInvariant, PTL
=============================================================================
