------------------------- MODULE RefineSessionProofs -------------------------
(***************************************************************************)
(* Theorems about the report page, for every set of rows, every dependency *)
(* tree and every number of outstanding requests, and then about one       *)
(* browser tab and one yoinkc-refine process, for every report, every set  *)
(* of files and every number of outstanding requests.                      *)
(*                                                                         *)
(* The argument for the page: whatever the handler, an edit, a reset and a *)
(* page load write the same values to the controls and to the live         *)
(* snapshot, and every other step leaves both alone. The invariant is      *)
(* ControlsInv.                                                            *)
(*                                                                         *)
(* The argument for the session: whatever the server does is, for the      *)
(* page, an answer or a report to load (SessionIsMove), so the invariants  *)
(* of the page alone hold. Requests are answered in order (Ordered); the   *)
(* request a rendering is for stays the current one while the directory is *)
(* replaced (PhaseInv) - so its entries are those of one rendering; and    *)
(* what clients are served is what the page shows or is about to show      *)
(* (InStepInv).                                                            *)
(***************************************************************************)
EXTENDS RefineSession, DataInduction, SequenceTheorems, FiniteSetTheorems, TLAPS

-----------------------------------------------------------------------------
(* The channel *)

LEMMA PostType ==
    ASSUME ChannelTypeOK, NEW s \in Snapshot, Post(s)
    PROVE  ChannelTypeOK'
<1>1. [body |-> s, own |-> TRUE, open |-> TRUE, reply |-> "none", html |-> s] \in Exchange
    BY DEF Exchange
<1> QED BY <1>1 DEF ChannelTypeOK, Post

LEMMA AnswerType ==
    ASSUME ChannelTypeOK, NEW i \in DOMAIN net,
           NEW reply \in {"ok", "failed"}, NEW html \in Snapshot, Answer(i, reply, html)
    PROVE  ChannelTypeOK'
<1>0. /\ Len(net) \in Nat /\ DOMAIN net = 1..Len(net) /\ net \in [1..Len(net) -> Exchange]
    BY LenProperties DEF ChannelTypeOK
<1>1. CASE net[i].open
    <2>1. [net[i] EXCEPT !.reply = reply, !.html = html] \in Exchange
        BY <1>0 DEF Exchange
    <2>2. net' = [net EXCEPT ![i] = [net[i] EXCEPT !.reply = reply, !.html = html]]
        BY <1>1, <1>0 DEF Answer
    <2> QED BY <2>1, <2>2, <1>0, ExceptSeq DEF ChannelTypeOK
<1>2. CASE ~net[i].open
    <2>1. SubSeq(net, 1, i - 1) \in Seq(Exchange)
        BY <1>0, SubSeqProperties
    <2>2. SubSeq(net, i + 1, Len(net)) \in Seq(Exchange)
        BY <1>0, SubSeqProperties
    <2> QED BY <1>2, <2>1, <2>2, ConcatProperties DEF Answer, Without, ChannelTypeOK
<1> QED BY <1>1, <1>2

LEMMA HangUpType ==
    ASSUME ChannelTypeOK, NEW i \in DOMAIN net, HangUp(i)
    PROVE  ChannelTypeOK'
<1>0. /\ Len(net) \in Nat /\ DOMAIN net = 1..Len(net) /\ net \in [1..Len(net) -> Exchange]
    BY LenProperties DEF ChannelTypeOK
<1>1. [net[i] EXCEPT !.open = FALSE] \in Exchange
    BY <1>0 DEF Exchange
<1>2. net' = [net EXCEPT ![i] = [net[i] EXCEPT !.open = FALSE]]
    BY <1>0 DEF HangUp
<1> QED BY <1>0, <1>1, <1>2, ExceptSeq DEF ChannelTypeOK

LEMMA DisownType ==
    ASSUME NEW s \in Seq(Exchange)
    PROVE  Disown(s) \in Seq(Exchange)
<1>0. /\ Len(s) \in Nat /\ DOMAIN s = 1..Len(s) /\ s \in [1..Len(s) -> Exchange]
    BY LenProperties
<1>1. \A i \in 1..Len(s) : [s[i] EXCEPT !.own = FALSE] \in Exchange
    BY <1>0 DEF Exchange
<1>2. Disown(s) \in [1..Len(s) -> Exchange]
    BY <1>0, <1>1 DEF Disown
<1> QED BY <1>0, <1>2, SeqDef

LEMMA ReloadChannelType ==
    ASSUME ChannelTypeOK, NEW s, Reload(s)
    PROVE  ChannelTypeOK'
<1> DEFINE gone == [i \in DOMAIN net |-> [net[i] EXCEPT !.own = FALSE, !.open = FALSE]]
<1>0. /\ Len(net) \in Nat /\ DOMAIN net = 1..Len(net) /\ net \in [1..Len(net) -> Exchange]
    BY LenProperties DEF ChannelTypeOK
<1>1. \A i \in 1..Len(net) : gone[i] \in Exchange
    BY <1>0 DEF Exchange
<1>2. FirstUnanswered \in 1..(Len(net) + 1)
    <2>1. DOMAIN net \ Unanswered \subseteq 1..Len(net)
        BY <1>0
    <2>2. IsFiniteSet(1..Len(net)) /\ Cardinality(1..Len(net)) = Len(net)
        BY <1>0, FS_Interval
    <2>3. /\ Cardinality(DOMAIN net \ Unanswered) \in Nat
          /\ Cardinality(DOMAIN net \ Unanswered) <= Len(net)
        BY <2>1, <2>2, FS_Subset, FS_CardinalityType
    <2> QED BY <2>3, <1>0 DEF FirstUnanswered
<1>3. SubSeq(gone, FirstUnanswered, Len(net)) \in Seq(Exchange)
    <2> HIDE DEF gone
    <2>0. FirstUnanswered..Len(net) \subseteq 1..Len(net)
        BY <1>0, <1>2
    <2>1. \A i \in FirstUnanswered..Len(net) : gone[i] \in Exchange
        BY <2>0, <1>1
    <2> QED BY <2>1, <1>0, <1>2, SubSeqProperties
<1> QED BY <1>3 DEF Reload, ChannelTypeOK
-----------------------------------------------------------------------------
(* Snapshots and controls *)

LEMMA SelectionsType ==
    ASSUME NEW s \in Snapshot
    PROVE  /\ s.include \in [Items -> BOOLEAN]
           /\ s.strategy \in [Accounts -> Strategies]
BY PageAssumption DEF Selections

LEMMA LoadedChecksType ==
    ASSUME NEW s \in Snapshot
    PROVE  /\ LoadedChecks(s) \in [Rows -> BOOLEAN]
           /\ \A r \in Rows \ Ambiguous : LoadedChecks(s)[r] = s.include[r]
<1>1. \A r \in Rows : RenderedCheck(s, r) \in BOOLEAN
    <2> SUFFICES ASSUME NEW r \in Rows PROVE RenderedCheck(s, r) \in BOOLEAN
        OBVIOUS
    <2>1. CASE r \in Ambiguous
        <3>1. (CHOOSE t \in Twins : TwinOf[t] = r) \in Twins
            BY <2>1 DEF Ambiguous
        <3> QED BY <3>1, <2>1, SelectionsType DEF RenderedCheck, Items
    <2>2. CASE r \notin Ambiguous
        BY <2>2, SelectionsType DEF RenderedCheck, Items
    <2> QED BY <2>1, <2>2
<1>2. \A r \in Rows \ Ambiguous : RenderedCheck(s, r) = s.include[r]
    BY DEF RenderedCheck
<1> QED BY <1>1, <1>2 DEF LoadedChecks

LEMMA RecomputeAutoDepsType ==
    ASSUME NEW inc \in [Items -> BOOLEAN], NEW chk
    PROVE  /\ RecomputeAutoDeps(inc, chk) \in [Items -> BOOLEAN]
           /\ \A r \in Rows : RecomputeAutoDeps(inc, chk)[r] = inc[r]
           /\ \A a \in Autos : RecomputeAutoDeps(inc, chk)[a] = Covered(a, chk)
<1>1. \A a : Covered(a, chk) \in BOOLEAN
    BY DEF Covered
<1>2. Autos \subseteq Items /\ Rows \subseteq Items
    BY DEF Items
<1> QED BY <1>1, <1>2, RowsAreDistinct DEF RecomputeAutoDeps

LEMMA CascadeType ==
    ASSUME NEW chk \in [Rows -> BOOLEAN], NEW inc \in [Items -> BOOLEAN],
           NEW L \in SUBSET Leaves, NEW forced \in [L -> BOOLEAN]
    PROVE  /\ CascadeChecks(chk, forced) \in [Rows -> BOOLEAN]
           /\ CascadeIncludes(inc, forced) \in [Items -> BOOLEAN]
           /\ \A r \in Rows \ L : /\ CascadeChecks(chk, forced)[r] = chk[r]
                                  /\ CascadeIncludes(inc, forced)[r] = inc[r]
           /\ \A l \in L : /\ CascadeChecks(chk, forced)[l] = forced[l]
                           /\ CascadeIncludes(inc, forced)[l] = forced[l]
BY DEF CascadeChecks, CascadeIncludes, Items, Rows

LEMMA ButtonsType ==
    ASSUME NEW d \in BOOLEAN, NEW changed \in BOOLEAN, NEW found \in BOOLEAN,
           NEW b \in [Buttons -> BOOLEAN]
    PROVE  /\ Toolbar(changed, found, b) \in [Buttons -> BOOLEAN]
           /\ DirtyButtons(d, b) \in [Buttons -> BOOLEAN]
BY DEF Toolbar, DirtyButtons, Buttons

(* An edit writes the same values to the controls and to the snapshot.     *)
LEMMA EditKeepsControls ==
    ASSUME PageTypeOK,
           NEW chk \in [Rows -> BOOLEAN], NEW sel \in [Accounts -> Strategies],
           NEW inc \in [Items -> BOOLEAN],
           \A r \in Rows \ Ambiguous : chk[r] = inc[r],
           Edit(chk, sel, inc),
           disabled' \subseteq Leaves
    PROVE  PageTypeOK' /\ ShownMatchesSnapshot'
<1>1. Changed(chk, sel) \in BOOLEAN
    BY DEF Changed
<1>2. snap' \in Snapshot /\ snap'.include = inc /\ snap'.strategy = sel
    BY PageAssumption DEF Edit, Selections
<1>3. btn' \in [Buttons -> BOOLEAN]
    BY <1>1, ButtonsType DEF Edit, PageTypeOK
<1>4. PageTypeOK'
    BY <1>1, <1>2, <1>3 DEF Edit, PageTypeOK, ChannelTypeOK, probe
<1> QED BY <1>2, <1>4 DEF Edit, ShownMatchesSnapshot

LEMMA LoadKeepsControls ==
    ASSUME NEW s \in Snapshot, Load(s), ChannelTypeOK'
    PROVE  PageTypeOK' /\ ShownMatchesSnapshot' /\ DisabledLeafPinned'
<1>1. btn' \in [Buttons -> BOOLEAN]
    BY DEF Load, LoadedButtons
<1>2. /\ LoadedChecks(s) \in [Rows -> BOOLEAN]
      /\ \A r \in Rows \ Ambiguous : LoadedChecks(s)[r] = s.include[r]
      /\ s.strategy \in [Accounts -> Strategies]
    BY SelectionsType, LoadedChecksType
<1>3. PageTypeOK'
    <2>1. helper' \in {"probing", "available", "absent"} /\ dirty' \in BOOLEAN
        BY DEF Load
    <2>2. attempt' \in 0..MaxAttempt
        BY DEF Load, MaxAttempt
    <2>3. checked' \in [Rows -> BOOLEAN] /\ selected' \in [Accounts -> Strategies]
        BY <1>2 DEF Load
    <2>4. snap' \in Snapshot /\ orig' \in Snapshot /\ disabled' \subseteq Leaves
        BY DEF Load
    <2> QED BY <1>1, <2>1, <2>2, <2>3, <2>4 DEF PageTypeOK
<1>4. ShownMatchesSnapshot'
    BY <1>2 DEF Load, ShownMatchesSnapshot
<1>5. DisabledLeafPinned'
    BY DEF Load, DisabledLeafPinned
<1> QED BY <1>3, <1>4, <1>5
-----------------------------------------------------------------------------
(* The inductive invariant and its steps *)

ControlsInv == PageTypeOK /\ ShownMatchesSnapshot /\ DisabledLeafPinned

LEMMA ControlsInit == PageInit => ControlsInv
<1> SUFFICES ASSUME PageInit PROVE ControlsInv
    OBVIOUS
<1>1. PICK s \in InitialSnapshots :
        /\ snap = s /\ orig = s /\ checked = LoadedChecks(s) /\ selected = s.strategy
        /\ disabled = {} /\ dirty = FALSE /\ btn = LoadedButtons
        /\ helper = "probing" /\ attempt = 0 /\ net = <<>>
    BY DEF PageInit
<1>2. s \in Snapshot
    BY PageAssumption
<1>3. /\ LoadedChecks(s) \in [Rows -> BOOLEAN]
      /\ \A r \in Rows \ Ambiguous : LoadedChecks(s)[r] = s.include[r]
      /\ s.strategy \in [Accounts -> Strategies]
    BY <1>2, SelectionsType, LoadedChecksType
<1>4. ChannelTypeOK
    BY <1>1, EmptySeq DEF ChannelTypeOK
<1>5. btn \in [Buttons -> BOOLEAN]
    BY <1>1 DEF LoadedButtons
<1>6. PageTypeOK
    <2>1. helper \in {"probing", "available", "absent"} /\ dirty \in BOOLEAN
        BY <1>1
    <2>2. attempt \in 0..MaxAttempt
        BY <1>1 DEF MaxAttempt
    <2>3. checked \in [Rows -> BOOLEAN] /\ selected \in [Accounts -> Strategies]
        BY <1>1, <1>3
    <2>4. snap \in Snapshot /\ orig \in Snapshot /\ disabled \subseteq Leaves
        BY <1>1, <1>2
    <2> QED BY <1>4, <1>5, <2>1, <2>2, <2>3, <2>4 DEF PageTypeOK
<1> QED BY <1>1, <1>3, <1>6 DEF ControlsInv, ShownMatchesSnapshot, DisabledLeafPinned

(* What the row-level handlers start from. *)
LEMMA LiveType ==
    ASSUME ControlsInv
    PROVE  /\ snap.include \in [Items -> BOOLEAN]
           /\ checked \in [Rows -> BOOLEAN]
           /\ selected \in [Accounts -> Strategies]
           /\ disabled \subseteq Leaves
           /\ \A r \in Rows \ Ambiguous : checked[r] = snap.include[r]
           /\ orig \in Snapshot /\ btn \in [Buttons -> BOOLEAN] /\ ChannelTypeOK
BY SelectionsType DEF ControlsInv, PageTypeOK, ShownMatchesSnapshot

LEMMA ToggleRowStep ==
    ASSUME ControlsInv, NEW r \in Others \cup Accounts, ToggleRow(r)
    PROVE  ControlsInv'
<1> DEFINE chk == [checked EXCEPT ![r] = ~@]
           inc == [snap.include EXCEPT ![r] = ~checked[r]]
<1>1. /\ chk \in [Rows -> BOOLEAN] /\ inc \in [Items -> BOOLEAN]
      /\ \A q \in Rows \ Ambiguous : chk[q] = inc[q]
    BY LiveType DEF Rows, Items
<1>2. Edit(chk, selected, inc) /\ disabled' = disabled
    BY DEF ToggleRow
<1>3. PageTypeOK' /\ ShownMatchesSnapshot'
    <2> HIDE DEF chk, inc
    <2> QED BY <1>1, <1>2, LiveType, EditKeepsControls DEF ControlsInv
<1>4. DisabledLeafPinned'
    <2>1. checked' = chk /\ snap'.include = inc
        BY <1>2 DEF Edit
    <2>2. \A q \in Leaves \cup Repos : checked'[q] = checked[q] /\ snap'.include[q] = snap.include[q]
        BY <2>1, LiveType, RowsAreDistinct DEF Rows, Items
    <2> QED BY <2>2, <1>2, LiveType DEF ControlsInv, DisabledLeafPinned
<1> QED BY <1>3, <1>4 DEF ControlsInv

LEMMA ToggleLeafStep ==
    ASSUME ControlsInv, NEW l \in Leaves, ToggleLeaf(l)
    PROVE  ControlsInv'
<1> DEFINE chk == [checked EXCEPT ![l] = ~@]
           inc == [snap.include EXCEPT ![l] = ~checked[l]]
           all == RecomputeAutoDeps(inc, chk)
<1>1. /\ chk \in [Rows -> BOOLEAN] /\ inc \in [Items -> BOOLEAN]
      /\ \A q \in Rows \ Ambiguous : chk[q] = inc[q]
    BY LiveType DEF Rows, Items
<1>2. /\ all \in [Items -> BOOLEAN]
      /\ \A q \in Rows : all[q] = inc[q]
    <2> HIDE DEF chk, inc
    <2> QED BY <1>1, RecomputeAutoDepsType
<1>3. Edit(chk, selected, all) /\ disabled' = disabled /\ l \notin disabled
    BY DEF ToggleLeaf
<1>4. PageTypeOK' /\ ShownMatchesSnapshot'
    <2> HIDE DEF chk, inc, all
    <2> QED BY <1>1, <1>2, <1>3, LiveType, EditKeepsControls DEF ControlsInv
<1>5. DisabledLeafPinned'
    <2>1. checked' = chk /\ snap'.include = all
        BY <1>3 DEF Edit
    <2>2. \A q \in (Leaves \cup Repos) \ {l} :
            checked'[q] = checked[q] /\ snap'.include[q] = snap.include[q]
        <3> HIDE DEF all
        <3> QED BY <2>1, <1>2, LiveType DEF Rows, Items
    <2> QED BY <2>2, <1>3, LiveType, RowsAreDistinct DEF ControlsInv, DisabledLeafPinned
<1> QED BY <1>4, <1>5 DEF ControlsInv

LEMMA ToggleRepoStep ==
    ASSUME ControlsInv, NEW r \in Repos, ToggleRepo(r)
    PROVE  ControlsInv'
<1> DEFINE on == ~checked[r]
           chk == [checked EXCEPT ![r] = on]
           inc == [snap.include EXCEPT ![r] = on]
           forced == [l \in Provides[r] |-> on]
           chk2 == CascadeChecks(chk, forced)
           inc2 == CascadeIncludes(inc, forced)
           all == RecomputeAutoDeps(inc2, chk2)
<1>0. Provides[r] \in SUBSET Leaves
    BY PageAssumption
<1>1. /\ chk \in [Rows -> BOOLEAN] /\ inc \in [Items -> BOOLEAN]
      /\ \A q \in Rows \ Ambiguous : chk[q] = inc[q]
      /\ \A q \in Rows \ {r} : chk[q] = checked[q] /\ inc[q] = snap.include[q]
    BY LiveType DEF Rows, Items
<1>2. forced \in [Provides[r] -> BOOLEAN] /\ \A l \in Provides[r] : forced[l] = on
    BY LiveType DEF Rows
<1>3. /\ chk2 \in [Rows -> BOOLEAN] /\ inc2 \in [Items -> BOOLEAN]
      /\ \A q \in Rows \ Provides[r] : chk2[q] = chk[q] /\ inc2[q] = inc[q]
      /\ \A l \in Provides[r] : chk2[l] = forced[l] /\ inc2[l] = forced[l]
    <2> HIDE DEF chk, inc, forced
    <2> QED BY <1>0, <1>1, <1>2, CascadeType
<1>4. all \in [Items -> BOOLEAN] /\ \A q \in Rows : all[q] = inc2[q]
    <2> HIDE DEF chk2, inc2
    <2> QED BY <1>3, RecomputeAutoDepsType
<1>5. Edit(chk2, selected, all)
    BY DEF ToggleRepo, RepoCascade
<1>6. disabled' = IF on THEN disabled \ Provides[r] ELSE disabled \cup Provides[r]
    BY DEF ToggleRepo
<1>7. PageTypeOK' /\ ShownMatchesSnapshot'
    <2>1. \A q \in Rows \ Ambiguous : chk2[q] = all[q]
        <3> HIDE DEF chk, inc, forced, chk2, inc2, all
        <3> QED BY <1>1, <1>3, <1>4
    <2>2. disabled' \subseteq Leaves
        BY <1>0, <1>6, LiveType
    <2> HIDE DEF chk2, inc2, all
    <2> QED BY <1>3, <1>4, <1>5, <2>1, <2>2, LiveType, EditKeepsControls DEF ControlsInv
<1>8. DisabledLeafPinned'
    <2>1. checked' = chk2 /\ snap'.include = all
        BY <1>5 DEF Edit
    <2>2. \A q \in (Leaves \cup Repos) \ (Provides[r] \cup {r}) :
            checked'[q] = checked[q] /\ snap'.include[q] = snap.include[q]
        <3> HIDE DEF chk, inc, forced, chk2, inc2, all
        <3> QED BY <2>1, <1>1, <1>3, <1>4 DEF Rows
    <2>3. \A l \in Provides[r] : checked'[l] = on /\ snap'.include[l] = on
        <3> HIDE DEF chk, inc, forced, chk2, inc2, all, on
        <3> QED BY <2>1, <1>0, <1>2, <1>3, <1>4 DEF Rows
    <2>4. checked'[r] = on
        <3>1. r \notin Provides[r] /\ r \in Rows
            BY <1>0, RowsAreDistinct DEF Rows
        <3>2. chk[r] = on
            BY LiveType, <3>1
        <3> HIDE DEF chk, inc, forced, chk2, inc2, all, on
        <3> QED BY <2>1, <1>3, <3>1, <3>2
    <2> SUFFICES ASSUME NEW l \in disabled'
                 PROVE  /\ ~checked'[l] /\ ~snap'.include[l]
                        /\ \E q \in Repos : l \in Provides[q] /\ ~checked'[q]
        BY DEF DisabledLeafPinned
    <2> HIDE DEF chk, inc, forced, chk2, inc2, all
    <2>5. CASE l \in Provides[r]
        <3>1. ~on
            BY <2>5, <1>6
        <3> QED BY <3>1, <2>3, <2>4, <2>5
    <2>6. CASE l \notin Provides[r]
        <3>1. l \in disabled /\ l \in Leaves /\ l # r
            BY <2>6, <1>6, LiveType, RowsAreDistinct
        <3>2. PICK q \in Repos : l \in Provides[q] /\ ~checked[q]
            BY <3>1 DEF ControlsInv, DisabledLeafPinned
        <3>3. q # r /\ q \notin Provides[r]
            BY <3>2, <2>6, <1>0, RowsAreDistinct
        <3>4. ~checked[l] /\ ~snap.include[l]
            BY <3>1 DEF ControlsInv, DisabledLeafPinned
        <3> QED BY <3>1, <3>2, <3>3, <3>4, <2>2, <2>6
    <2> QED BY <2>5, <2>6
<1> QED BY <1>7, <1>8 DEF ControlsInv

LEMMA StrategyStep ==
    ASSUME ControlsInv,
           NEW sel \in [Accounts -> Strategies],
           Edit(checked, sel, snap.include), disabled' = disabled
    PROVE  ControlsInv'
<1>1. PageTypeOK' /\ ShownMatchesSnapshot'
    BY LiveType, EditKeepsControls DEF ControlsInv
<1>2. DisabledLeafPinned'
    BY DEF Edit, ControlsInv, DisabledLeafPinned
<1> QED BY <1>1, <1>2 DEF ControlsInv

LEMMA ResetStep ==
    ASSUME ControlsInv, ResetToOriginal
    PROVE  ControlsInv'
<1> DEFINE chk == [r \in Rows |-> orig.include[r]]
           inc == [i \in Items |-> IF i \in Rows THEN orig.include[i] ELSE snap.include[i]]
           inc2 == CascadeIncludes(inc, ResetForced)
<1>0. Provided \in SUBSET Leaves
    BY DEF Provided
<1>1. orig.include \in [Items -> BOOLEAN] /\ orig.strategy \in [Accounts -> Strategies]
    BY LiveType, SelectionsType
<1>2. \A l \in Provided : LastRepo(l) \in Repos /\ IsLastRepo(LastRepo(l), l)
    BY LastRepoExists DEF LastRepo
<1>3. /\ ResetForced \in [Provided -> BOOLEAN]
      /\ \A l \in Provided : ResetForced[l] = orig.include[LastRepo(l)]
    BY <1>1, <1>2 DEF ResetForced, Items, Rows
<1>4. /\ chk \in [Rows -> BOOLEAN] /\ inc \in [Items -> BOOLEAN]
      /\ \A q \in Rows : chk[q] = orig.include[q] /\ inc[q] = orig.include[q]
    BY <1>1, LiveType DEF Items
<1>5. /\ ResetChecks \in [Rows -> BOOLEAN] /\ inc2 \in [Items -> BOOLEAN]
      /\ \A q \in Rows \ Provided : ResetChecks[q] = orig.include[q] /\ inc2[q] = orig.include[q]
      /\ \A l \in Provided : ResetChecks[l] = ResetForced[l] /\ inc2[l] = ResetForced[l]
    <2>1. ResetChecks = CascadeChecks(chk, ResetForced)
        BY DEF ResetChecks
    <2> HIDE DEF chk, inc
    <2> QED BY <1>0, <1>3, <1>4, <2>1, CascadeType
<1>6. /\ ResetIncludes \in [Items -> BOOLEAN]
      /\ \A q \in Rows : ResetIncludes[q] = inc2[q]
    <2>1. ResetIncludes = RecomputeAutoDeps(inc2, ResetChecks)
        BY DEF ResetIncludes
    <2> HIDE DEF inc2
    <2> QED BY <1>5, <2>1, RecomputeAutoDepsType
<1>7. /\ checked' = ResetChecks /\ selected' = orig.strategy
      /\ snap' = [include |-> ResetIncludes, strategy |-> orig.strategy]
      /\ disabled' = {l \in Provided : ~ResetForced[l]}
      /\ dirty' = FALSE /\ orig' = orig /\ helper' = helper /\ attempt' = attempt
      /\ net' = net
    BY DEF ResetToOriginal, probe
<1>8. PageTypeOK'
    <2>1. snap' \in Snapshot
        BY <1>1, <1>6, <1>7, PageAssumption DEF Selections
    <2>2. btn' \in [Buttons -> BOOLEAN]
        <3>1. Changed(ResetChecks, orig.strategy) \in BOOLEAN
            BY DEF Changed
        <3> QED BY <3>1, LiveType, ButtonsType DEF ResetToOriginal
    <2>3. disabled' \subseteq Leaves
        BY <1>0, <1>7
    <2> QED BY <1>1, <1>5, <1>7, <2>1, <2>2, <2>3 DEF ControlsInv, PageTypeOK, ChannelTypeOK
<1>9. ShownMatchesSnapshot'
    <2>1. \A q \in Rows : ResetChecks[q] = ResetIncludes[q]
        <3> HIDE DEF inc2
        <3> QED BY <1>5, <1>6
    <2> QED BY <1>7, <2>1 DEF ShownMatchesSnapshot
<1>10. DisabledLeafPinned'
    <2> SUFFICES ASSUME NEW l \in Provided, ~ResetForced[l]
                 PROVE  /\ ~ResetChecks[l] /\ ~ResetIncludes[l]
                        /\ \E q \in Repos : l \in Provides[q] /\ ~ResetChecks[q]
        BY <1>7 DEF DisabledLeafPinned
    <2>1. l \in Rows /\ LastRepo(l) \in Rows \ Provided
        BY <1>0, <1>2, RowsAreDistinct DEF Rows
    <2>2. ~ResetChecks[l] /\ ~ResetIncludes[l]
        <3> HIDE DEF inc2
        <3> QED BY <1>5, <1>6, <2>1
    <2>3. l \in Provides[LastRepo(l)] /\ ~ResetChecks[LastRepo(l)]
        BY <1>2, <1>3, <1>5, <2>1 DEF IsLastRepo
    <2> QED BY <1>2, <2>2, <2>3
<1> QED BY <1>8, <1>9, <1>10 DEF ControlsInv

(* Steps that leave controls and snapshot alone. *)
LEMMA QuietStep ==
    ASSUME ControlsInv, UNCHANGED <<controls, orig, dirty>>,
           btn' \in [Buttons -> BOOLEAN], ChannelTypeOK',
           helper' \in {"probing", "available", "absent"}, attempt' \in 0..MaxAttempt
    PROVE  ControlsInv'
BY DEF ControlsInv, PageTypeOK, ShownMatchesSnapshot, DisabledLeafPinned, controls

LEMMA ReenableType ==
    ASSUME btn \in [Buttons -> BOOLEAN], NEW own \in BOOLEAN, ReenableRerender(own)
    PROVE  btn' \in [Buttons -> BOOLEAN]
BY DEF ReenableRerender

(* What can happen to a page, whatever server answers and whatever report  *)
(* a reload is served.                                                     *)
ServerMove ==
    /\ \E i \in DOMAIN net, reply \in {"ok", "failed"}, html \in Snapshot : Answer(i, reply, html)
    /\ UNCHANGED pageVars

PageMove ==
    \/ UserStep \/ BrowserStep \/ RetryOrGiveUp \/ ServerMove
    \/ \E available \in BOOLEAN : HelperFound(available)
    \/ \E s \in Snapshot : Reload(s)
    \/ UNCHANGED <<pageVars, net>>

LEMMA MoveKeepsControls ==
    ASSUME ControlsInv, PageMove
    PROVE  ControlsInv'
<1>0. /\ ChannelTypeOK /\ btn \in [Buttons -> BOOLEAN]
      /\ helper \in {"probing", "available", "absent"} /\ attempt \in 0..MaxAttempt
    BY DEF ControlsInv, PageTypeOK
<1>1. ASSUME NEW r \in Others \cup Accounts, ToggleRow(r) PROVE ControlsInv'
    BY <1>1, ToggleRowStep
<1>2. ASSUME NEW l \in Leaves, ToggleLeaf(l) PROVE ControlsInv'
    BY <1>2, ToggleLeafStep
<1>3. ASSUME NEW r \in Repos, ToggleRepo(r) PROVE ControlsInv'
    BY <1>3, ToggleRepoStep
<1>4. ASSUME NEW u \in Accounts, NEW s \in Strategies, SelectStrategy(u, s) PROVE ControlsInv'
    <2>1. [selected EXCEPT ![u] = s] \in [Accounts -> Strategies]
        BY LiveType
    <2> QED BY <1>4, <2>1, StrategyStep DEF SelectStrategy
<1>5. ASSUME NEW s \in Strategies, ApplyStrategyToAll(s) PROVE ControlsInv'
    <2>1. [u \in Accounts |-> s] \in [Accounts -> Strategies]
        OBVIOUS
    <2> QED BY <1>5, <2>1, StrategyStep DEF ApplyStrategyToAll
<1>6. CASE ResetToOriginal
    BY <1>6, ResetStep
<1>7. CASE ClickRerender
    <2>1. ChannelTypeOK'
        BY <1>7, PostType DEF ClickRerender, ControlsInv, PageTypeOK
    <2>2. btn' \in [Buttons -> BOOLEAN]
        BY <1>0, <1>7 DEF ClickRerender
    <2> QED BY <1>0, <1>7, <2>1, <2>2, QuietStep DEF ClickRerender, probe
<1>8. CASE ReplacePage
    <2>1. Head(net) \in Exchange /\ Tail(net) \in Seq(Exchange)
        BY <1>0, <1>8, HeadTailProperties DEF ReplacePage, Arrived, ChannelTypeOK
    <2>2. Head(net).html \in Snapshot
        BY <2>1 DEF Exchange
    <2>3. ChannelTypeOK'
        BY <1>8, <2>1, DisownType DEF ReplacePage, ChannelTypeOK
    <2> QED BY <1>8, <2>2, <2>3, LoadKeepsControls DEF ReplacePage, ControlsInv
<1>9. CASE RerenderFailed
    <2>1. Head(net) \in Exchange /\ Tail(net) \in Seq(Exchange)
        BY <1>0, <1>9, HeadTailProperties DEF RerenderFailed, Arrived, ChannelTypeOK
    <2>2. ChannelTypeOK'
        BY <1>9, <2>1 DEF RerenderFailed, ChannelTypeOK
    <2>3. btn' \in [Buttons -> BOOLEAN]
        BY <1>0, <1>9, <2>1, ReenableType DEF RerenderFailed, Exchange
    <2> QED BY <1>0, <1>9, <2>2, <2>3, QuietStep DEF RerenderFailed, probe
<1>10. CASE FetchTimesOut
    <2>1. PICK i \in DOMAIN net : HangUp(i) /\ ReenableRerender(net[i].own)
        BY <1>10 DEF FetchTimesOut
    <2>2. net[i] \in Exchange
        BY <1>0, LenProperties DEF ChannelTypeOK
    <2>3. ChannelTypeOK'
        BY <1>0, <2>1, HangUpType
    <2>4. btn' \in [Buttons -> BOOLEAN]
        BY <1>0, <2>1, <2>2, ReenableType DEF Exchange
    <2> QED BY <1>0, <1>10, <2>3, <2>4, QuietStep DEF FetchTimesOut, probe
<1>11. ASSUME NEW available \in BOOLEAN, HelperFound(available) PROVE ControlsInv'
    <2>1. EnableHelperButtons(available)
        BY <1>11 DEF HelperFound
    <2>2. btn' \in [Buttons -> BOOLEAN]
        <3>1. Changed(checked, selected) \in BOOLEAN
            BY DEF Changed
        <3>2. [btn EXCEPT !["rerender"] = @ \/ available, !["tarball"] = TRUE] \in [Buttons -> BOOLEAN]
            BY <1>0 DEF Buttons
        <3> QED BY <2>1, <3>1, <3>2, ButtonsType DEF EnableHelperButtons
    <2>3. helper' = "available"
        BY <2>1 DEF EnableHelperButtons
    <2> QED BY <1>0, <1>11, <2>2, <2>3, QuietStep DEF HelperFound, ChannelTypeOK
<1>12. CASE RetryOrGiveUp
    <2>1. helper' \in {"probing", "available", "absent"} /\ attempt' \in 0..MaxAttempt
        BY <1>0, <1>12 DEF RetryOrGiveUp, MaxAttempt
    <2> QED BY <1>0, <1>12, <2>1, QuietStep DEF RetryOrGiveUp, ChannelTypeOK
<1>13. CASE ServerMove
    <2>1. ChannelTypeOK'
        BY <1>0, <1>13, AnswerType DEF ServerMove
    <2> QED BY <1>0, <1>13, <2>1, QuietStep DEF ServerMove, pageVars, controls
<1>14. ASSUME NEW s \in Snapshot, Reload(s) PROVE ControlsInv'
    <2>1. ChannelTypeOK'
        BY <1>0, <1>14, ReloadChannelType
    <2> QED BY <1>14, <2>1, LoadKeepsControls DEF Reload, ControlsInv
<1>15. CASE UNCHANGED <<pageVars, net>>
    BY <1>0, <1>15, QuietStep DEF pageVars, controls, ChannelTypeOK
<1> QED
    BY <1>1, <1>2, <1>3, <1>4, <1>5, <1>6, <1>7, <1>8, <1>9, <1>10, <1>11, <1>12, <1>13,
       <1>14, <1>15 DEF PageMove, UserStep, BrowserStep

LEMMA NextIsMove ==
    ASSUME ControlsInv, [PageNext]_<<pageVars, net>>
    PROVE  PageMove
<1>1. CASE ServerAnswers
    <2>1. PICK i \in DOMAIN net, reply \in {"ok", "failed"} : Answer(i, reply, net[i].body)
        BY <1>1 DEF ServerAnswers
    <2>2. net[i] \in Exchange
        BY <2>1, LenProperties DEF ControlsInv, PageTypeOK, ChannelTypeOK
    <2>3. net[i].body \in Snapshot
        BY <2>2 DEF Exchange
    <2> QED BY <1>1, <2>1, <2>3 DEF ServerAnswers, PageMove, ServerMove
<1>2. CASE Reload(orig)
    BY <1>2, LiveType DEF PageMove
<1> QED BY <1>1, <1>2 DEF PageNext, PageMove

LEMMA ControlsStep == ControlsInv /\ [PageNext]_<<pageVars, net>> => ControlsInv'
BY NextIsMove, MoveKeepsControls

-----------------------------------------------------------------------------
(* Automatic packages                                                      *)

LEMMA RecomputedAutos ==
    ASSUME NEW inc, NEW chk, NEW a \in Autos
    PROVE  RecomputeAutoDeps(inc, chk)[a] = Covered(a, chk)
BY DEF RecomputeAutoDeps, Items

(* Every handler leaves the automatic packages alone and the leaves too,   *)
(* or recomputes them from the leaves.                                     *)
LEMMA MoveKeepsAutos ==
    ASSUME ControlsInv, AutoFollowsLeaves, PageMove
    PROVE  AutoFollowsLeaves'
<1>1. ASSUME \A a \in Autos : snap'.include[a] = snap.include[a],
             \A l \in Leaves : checked'[l] = checked[l], orig' = orig
      PROVE  AutoFollowsLeaves'
    BY <1>1 DEF AutoFollowsLeaves, Covered
<1>2. ASSUME NEW inc, NEW chk, NEW sel, Edit(chk, sel, RecomputeAutoDeps(inc, chk))
      PROVE  AutoFollowsLeaves'
    <2>1. checked' = chk /\ snap'.include = RecomputeAutoDeps(inc, chk)
        BY <1>2 DEF Edit
    <2>2. \A a \in Autos : snap'.include[a] = Covered(a, chk)
        BY <2>1, RecomputedAutos
    <2>3. \A a : Covered(a, chk) = Covered(a, checked)'
        BY <2>1 DEF Covered
    <2> QED BY <2>2, <2>3 DEF AutoFollowsLeaves
<1>3. ASSUME NEW s, Load(s) PROVE AutoFollowsLeaves'
    BY <1>3 DEF Load, AutoFollowsLeaves
<1>4. CASE UNCHANGED <<controls, orig>>
    BY <1>1, <1>4 DEF controls
<1>5. ASSUME NEW r \in Others \cup Accounts, ToggleRow(r) PROVE AutoFollowsLeaves'
    <2>1. /\ checked' = [checked EXCEPT ![r] = ~checked[r]]
          /\ snap'.include = [snap.include EXCEPT ![r] = ~checked[r]] /\ orig' = orig
        BY <1>5 DEF ToggleRow, Edit
    <2>2. /\ \A l \in Leaves : l # r /\ l \in Rows
          /\ \A a \in Autos : a # r /\ a \in Items
        BY RowsAreDistinct DEF Rows, Items
    <2> QED BY <1>1, <2>1, <2>2, LiveType
<1>6. ASSUME NEW l \in Leaves, ToggleLeaf(l) PROVE AutoFollowsLeaves'
    BY <1>2, <1>6 DEF ToggleLeaf
<1>7. ASSUME NEW r \in Repos, ToggleRepo(r) PROVE AutoFollowsLeaves'
    BY <1>2, <1>7 DEF ToggleRepo, RepoCascade
<1>8. ASSUME NEW sel, Edit(checked, sel, snap.include) PROVE AutoFollowsLeaves'
    BY <1>1, <1>8 DEF Edit
<1>9. CASE ResetToOriginal
    <2>1. PICK inc : ResetIncludes = RecomputeAutoDeps(inc, ResetChecks)
        BY DEF ResetIncludes
    <2>2. checked' = ResetChecks /\ snap'.include = ResetIncludes
        BY <1>9 DEF ResetToOriginal
    <2>3. \A a \in Autos : snap'.include[a] = Covered(a, ResetChecks)
        BY <2>1, <2>2, RecomputedAutos
    <2>4. \A a : Covered(a, ResetChecks) = Covered(a, checked)'
        BY <2>2 DEF Covered
    <2> QED BY <2>3, <2>4 DEF AutoFollowsLeaves
<1>10. CASE ClickRerender \/ RetryOrGiveUp \/ \E available \in BOOLEAN : HelperFound(available)
    BY <1>4, <1>10 DEF ClickRerender, RetryOrGiveUp, HelperFound
<1>11. CASE BrowserStep
    BY <1>3, <1>4, <1>11 DEF BrowserStep, ReplacePage, RerenderFailed, FetchTimesOut
<1>12. CASE ServerMove \/ UNCHANGED <<pageVars, net>>
    BY <1>4, <1>12 DEF ServerMove, pageVars, controls
<1>13. CASE \E s \in Snapshot : Reload(s)
    BY <1>3, <1>13 DEF Reload
<1> QED BY <1>5, <1>6, <1>7, <1>8, <1>9, <1>10, <1>11, <1>12, <1>13
        DEF PageMove, UserStep, SelectStrategy, ApplyStrategyToAll

-----------------------------------------------------------------------------
(* The Re-render button                                                    *)

(* The page awaits an answer.                                              *)
Waiting == \E i \in DOMAIN net : net[i].own /\ net[i].open

(* A page is dirty only if a control differs from page load, and then the  *)
(* button is enabled unless an answer is awaited.                          *)
ButtonInv ==
    /\ dirty => Changed(checked, selected)
    /\ helper = "available" /\ dirty => btn["rerender"] \/ Waiting

LEMMA WithoutElements ==
    ASSUME ChannelTypeOK, NEW i \in DOMAIN net
    PROVE  /\ Without(i) \in Seq(Exchange)
           /\ DOMAIN Without(i) = 1..(Len(net) - 1)
           /\ \A k \in DOMAIN net : k < i => k \in DOMAIN Without(i) /\ Without(i)[k] = net[k]
           /\ \A k \in DOMAIN net : k > i =>
                k - 1 \in DOMAIN Without(i) /\ Without(i)[k - 1] = net[k]
<1>0. Len(net) \in Nat /\ DOMAIN net = 1..Len(net) /\ net \in Seq(Exchange) /\ i \in 1..Len(net)
    BY LenProperties DEF ChannelTypeOK
<1> DEFINE front == SubSeq(net, 1, i - 1)
           back  == SubSeq(net, i + 1, Len(net))
<1>1. /\ front \in Seq(Exchange) /\ Len(front) = i - 1
      /\ \A k \in 1..(i - 1) : front[k] = net[k]
    BY <1>0, SubSeqProperties
<1>2. /\ back \in Seq(Exchange) /\ Len(back) = Len(net) - i
      /\ \A k \in 1..(Len(net) - i) : back[k] = net[i + k]
    BY <1>0, SubSeqProperties
<1>3. Without(i) = front \o back
    BY DEF Without
<1> HIDE DEF front, back
<1>4. /\ front \o back \in Seq(Exchange)
      /\ Len(front \o back) = Len(net) - 1
      /\ \A k \in 1..(i - 1) : (front \o back)[k] = net[k]
      /\ \A k \in i..(Len(net) - 1) : (front \o back)[k] = net[k + 1]
    <2>0. front \in Seq(Exchange) /\ back \in Seq(Exchange)
        BY <1>1, <1>2
    <2>1. /\ front \o back \in Seq(Exchange) /\ Len(front \o back) = Len(front) + Len(back)
          /\ \A k \in 1..(Len(front) + Len(back)) :
                (front \o back)[k] = IF k <= Len(front) THEN front[k] ELSE back[k - Len(front)]
        BY <2>0, ConcatProperties
    <2>2. Len(front) + Len(back) = Len(net) - 1
        BY <1>0, <1>1, <1>2
    <2>3. ASSUME NEW k \in i..(Len(net) - 1) PROVE (front \o back)[k] = net[k + 1]
        <3>1. k - (i - 1) \in 1..(Len(net) - i) /\ i + (k - (i - 1)) = k + 1 /\ ~(k <= i - 1)
            BY <1>0
        <3>2. back[k - (i - 1)] = net[k + 1]
            BY <1>2, <3>1
        <3>3. k \in 1..(Len(front) + Len(back))
            BY <1>0, <1>1, <1>2
        <3> QED BY <1>1, <2>1, <3>1, <3>2, <3>3
    <2>4. ASSUME NEW k \in 1..(i - 1) PROVE (front \o back)[k] = net[k]
        BY <1>0, <1>1, <1>2, <2>1
    <2> QED BY <2>1, <2>2, <2>3, <2>4
<1>5. DOMAIN (front \o back) = 1..(Len(net) - 1)
    BY <1>4, LenProperties
<1>6. \A k \in DOMAIN net : k < i => k \in 1..(i - 1) /\ k \in 1..(Len(net) - 1)
    BY <1>0
<1>7. \A k \in DOMAIN net : k > i =>
        k - 1 \in i..(Len(net) - 1) /\ k - 1 \in 1..(Len(net) - 1) /\ (k - 1) + 1 = k
    BY <1>0
<1> HIDE DEF front
<1>8. \A k \in DOMAIN net : k < i => (front \o back)[k] = net[k]
    BY <1>4, <1>6
<1>9. ASSUME NEW k \in DOMAIN net, k > i PROVE (front \o back)[k - 1] = net[k]
    <2>1. k - 1 \in i..(Len(net) - 1) /\ (k - 1) + 1 = k
        BY <1>7, <1>9
    <2>2. (front \o back)[k - 1] = net[(k - 1) + 1]
        BY <1>4, <2>1
    <2> QED BY <2>1, <2>2
<1> QED BY <1>3, <1>4, <1>5, <1>6, <1>7, <1>8, <1>9

(* An answer does not take away the request that the page waits for: only  *)
(* its arrival does.                                                       *)
LEMMA AnswerKeepsWaiting ==
    ASSUME ChannelTypeOK, NEW i \in DOMAIN net, NEW reply, NEW html, Answer(i, reply, html), Waiting
    PROVE  Waiting'
<1>0. Len(net) \in Nat /\ DOMAIN net = 1..Len(net) /\ \A k \in DOMAIN net : net[k] \in Exchange
    BY LenProperties DEF ChannelTypeOK
<1>1. PICK k \in DOMAIN net : net[k].own /\ net[k].open
    BY DEF Waiting
<1>2. CASE net[i].open
    <2>1. /\ net' = [net EXCEPT ![i] = [net[i] EXCEPT !.reply = reply, !.html = html]]
        BY <1>2 DEF Answer
    <2>2. DOMAIN net' = DOMAIN net
        BY <2>1
    <2>3. net'[k].own = net[k].own /\ net'[k].open = net[k].open
        BY <1>0, <2>1 DEF Exchange
    <2> QED BY <1>1, <2>2, <2>3 DEF Waiting
<1>3. CASE ~net[i].open
    <2>1. net' = Without(i) /\ k # i
        BY <1>1, <1>3 DEF Answer
    <2>2. k < i \/ k > i
        BY <1>0, <2>1
    <2>3. CASE k < i
        BY <1>1, <2>1, <2>3, WithoutElements DEF Waiting
    <2>4. CASE k > i
        BY <1>1, <2>1, <2>4, WithoutElements DEF Waiting
    <2> QED BY <2>2, <2>3, <2>4
<1> QED BY <1>2, <1>3

LEMMA EditSetsButton ==
    ASSUME ControlsInv, NEW chk, NEW sel, NEW inc, Edit(chk, sel, inc)
    PROVE  ButtonInv'
<1>1. /\ checked' = chk /\ selected' = sel /\ orig' = orig /\ dirty' = Changed(chk, sel)
      /\ btn' = DirtyButtons(Changed(chk, sel), Toolbar(Changed(chk, sel), helper = "available", btn))
    BY DEF Edit
<1>2. btn'["rerender"] = Changed(chk, sel)
    BY <1>1, LiveType DEF DirtyButtons, Toolbar, Buttons
<1>3. Changed(checked, selected)' = Changed(chk, sel)
    BY <1>1 DEF Changed, LoadedChecks, RenderedCheck
<1> QED BY <1>1, <1>2, <1>3 DEF ButtonInv

LEMMA MoveKeepsButton ==
    ASSUME ControlsInv, ButtonInv, PageMove
    PROVE  ButtonInv'
<1>0. /\ ChannelTypeOK /\ Len(net) \in Nat /\ DOMAIN net = 1..Len(net) /\ net \in Seq(Exchange)
      /\ \A k \in DOMAIN net : net[k] \in Exchange
      /\ btn \in [Buttons -> BOOLEAN] /\ "rerender" \in Buttons
    BY LenProperties DEF ControlsInv, PageTypeOK, ChannelTypeOK, Buttons
<1>1. ASSUME NEW chk, NEW sel, NEW inc, Edit(chk, sel, inc) PROVE ButtonInv'
    BY <1>1, EditSetsButton
<1>2. ASSUME NEW s, Load(s) PROVE ButtonInv'
    BY <1>2 DEF Load, ButtonInv
<1>3. ASSUME UNCHANGED <<controls, orig, dirty>> PROVE Changed(checked, selected)' = Changed(checked, selected)
    BY <1>3 DEF Changed, controls, LoadedChecks, RenderedCheck
<1>4. ASSUME UNCHANGED <<controls, orig, dirty, helper, btn>>, Waiting => Waiting' PROVE ButtonInv'
    BY <1>3, <1>4 DEF ButtonInv
<1>5. ASSUME UNCHANGED <<controls, orig, dirty>>, btn'["rerender"] PROVE ButtonInv'
    BY <1>3, <1>5 DEF ButtonInv
<1>6. CASE UserStep
    <2>1. CASE ResetToOriginal
        BY <2>1 DEF ResetToOriginal, ButtonInv
    <2>2. CASE ClickRerender
        <3>1. net' = Append(net, [body |-> snap, own |-> TRUE, open |-> TRUE,
                                  reply |-> "none", html |-> snap])
            BY <2>2 DEF ClickRerender, Post
        <3>2. Len(net) + 1 \in DOMAIN net' /\ net'[Len(net) + 1].own /\ net'[Len(net) + 1].open
            BY <1>0, <3>1, AppendProperties
        <3>3. Waiting'
            BY <3>2 DEF Waiting
        <3>4. UNCHANGED <<controls, orig, dirty>>
            BY <2>2 DEF ClickRerender
        <3> QED BY <1>3, <3>3, <3>4 DEF ButtonInv
    <2> QED BY <1>1, <1>6, <2>1, <2>2
            DEF UserStep, ToggleRow, ToggleLeaf, ToggleRepo, RepoCascade, SelectStrategy, ApplyStrategyToAll
<1>7. CASE ReplacePage
    BY <1>2, <1>7 DEF ReplacePage
<1>8. CASE RerenderFailed
    <2>1. /\ net # <<>> /\ net' = Tail(net) /\ UNCHANGED <<controls, orig, dirty, probe>>
          /\ ReenableRerender(Head(net).own)
        BY <1>8 DEF RerenderFailed, Arrived
    <2>2. /\ Head(net) = net[1] /\ net[1].own \in BOOLEAN
          /\ DOMAIN Tail(net) = 1..(Len(net) - 1)
          /\ \A k \in 1..(Len(net) - 1) : Tail(net)[k] = net[k + 1]
        <3>1. 1 \in DOMAIN net
            BY <1>0, <2>1, EmptySeq
        <3>2. /\ Tail(net) \in Seq(Exchange) /\ Len(Tail(net)) = Len(net) - 1
              /\ \A k \in 1..Len(Tail(net)) : Tail(net)[k] = net[k + 1]
              /\ Head(net) = net[1]
            BY <1>0, <2>1, HeadTailProperties
        <3> QED BY <1>0, <3>1, <3>2, LenProperties DEF Exchange
    <2>3. CASE net[1].own
        BY <1>0, <1>5, <2>1, <2>2, <2>3 DEF ReenableRerender
    <2>4. CASE ~net[1].own
        <3>1. ASSUME NEW k \in DOMAIN net, net[k].own /\ net[k].open PROVE Waiting'
            <4>1. k # 1 /\ k - 1 \in 1..(Len(net) - 1) /\ (k - 1) + 1 = k
                BY <1>0, <2>4, <3>1
            <4>2. net'[k - 1] = net[k] /\ k - 1 \in DOMAIN net'
                BY <2>1, <2>2, <4>1
            <4> QED BY <3>1, <4>2 DEF Waiting
        <3>2. Waiting => Waiting'
            BY <3>1 DEF Waiting
        <3> QED BY <1>4, <2>1, <2>2, <2>4, <3>2 DEF ReenableRerender, probe
    <2> QED BY <2>2, <2>3, <2>4
<1>9. CASE FetchTimesOut
    <2>1. PICK i \in DOMAIN net : HangUp(i) /\ ReenableRerender(net[i].own)
        BY <1>9 DEF FetchTimesOut
    <2>2. UNCHANGED <<controls, orig, dirty, probe>>
        BY <1>9 DEF FetchTimesOut
    <2>3. CASE net[i].own
        BY <1>0, <1>5, <2>1, <2>2, <2>3 DEF ReenableRerender
    <2>4. CASE ~net[i].own
        <3>1. net' = [net EXCEPT ![i] = [net[i] EXCEPT !.open = FALSE]]
            BY <2>1 DEF HangUp
        <3>2. Waiting => Waiting'
            BY <1>0, <2>4, <3>1 DEF Waiting
        <3> QED BY <1>4, <2>1, <2>2, <2>4, <3>2 DEF ReenableRerender, probe
    <2> QED BY <1>0, <2>3, <2>4 DEF Exchange
<1>10. CASE RetryOrGiveUp
    <2>1. /\ UNCHANGED <<controls, orig, dirty, btn, net>>
          /\ helper = "probing" /\ helper' # "available"
        BY <1>10 DEF RetryOrGiveUp
    <2> QED BY <1>3, <2>1 DEF ButtonInv
<1>11. ASSUME NEW available \in BOOLEAN, HelperFound(available) PROVE ButtonInv'
    <2>1. UNCHANGED <<controls, orig, dirty>> /\ EnableHelperButtons(available)
        BY <1>11 DEF HelperFound
    <2>2. btn'["rerender"] = Changed(checked, selected)
        <3> DEFINE enabled == [btn EXCEPT !["rerender"] = @ \/ available, !["tarball"] = TRUE]
        <3>1. enabled \in [Buttons -> BOOLEAN]
            BY <1>0 DEF Buttons
        <3>2. btn' = Toolbar(Changed(checked, selected), TRUE, enabled)
            BY <2>1 DEF EnableHelperButtons
        <3>3. Changed(checked, selected) \in BOOLEAN
            BY DEF Changed
        <3> HIDE DEF enabled
        <3> QED BY <3>1, <3>2, <3>3 DEF Toolbar, Buttons
    <2> QED BY <1>3, <2>1, <2>2 DEF ButtonInv
<1>12. CASE ServerMove
    BY <1>0, <1>4, <1>12, AnswerKeepsWaiting DEF ServerMove, pageVars, controls
<1>13. CASE \E s \in Snapshot : Reload(s)
    BY <1>2, <1>13 DEF Reload
<1>14. CASE UNCHANGED <<pageVars, net>>
    BY <1>4, <1>14 DEF pageVars, controls, Waiting
<1> QED BY <1>6, <1>7, <1>8, <1>9, <1>10, <1>11, <1>12, <1>13, <1>14 DEF PageMove, BrowserStep

LEMMA ButtonMeansReachable == ButtonInv => RerenderReachable
BY DEF ButtonInv, RerenderReachable, Waiting
-----------------------------------------------------------------------------
(* The clean flag after an edit: dirty is what Changed says of the rows on *)
(* display, and those are the rows of the snapshot.                        *)
LEMMA EditNeverHides ==
    ASSUME ControlsInv, ControlsInv', NEW chk, NEW sel, NEW inc, Edit(chk, sel, inc)
    PROVE  CleanMeansUnmodified'
<1> SUFFICES ASSUME ~dirty' PROVE Unmodified'
    BY DEF CleanMeansUnmodified
<1>1. checked' = LoadedChecks(orig) /\ selected' = orig.strategy /\ orig' = orig
    BY DEF Edit, Changed
<1>2. \A r \in Rows \ Ambiguous : LoadedChecks(orig)[r] = orig.include[r]
    BY LiveType, LoadedChecksType
<1>3. /\ \A r \in Rows \ Ambiguous : checked'[r] = snap'.include[r]
      /\ selected' = snap'.strategy
    BY DEF ControlsInv, ShownMatchesSnapshot
<1> QED BY <1>1, <1>2, <1>3 DEF Unmodified

LEMMA StepHidesNothing ==
    ASSUME ControlsInv, ControlsInv', PageNext, CleanMeansUnmodified, ~ResetToOriginal
    PROVE  CleanMeansUnmodified'
<1>1. CASE \E chk, sel, inc : Edit(chk, sel, inc)
    BY <1>1, EditNeverHides
<1>2. CASE \E s : Load(s)
    BY <1>2 DEF Load, CleanMeansUnmodified, Unmodified
<1>3. CASE UNCHANGED <<snap, orig, dirty>>
    BY <1>3 DEF CleanMeansUnmodified, Unmodified
<1>4. ASSUME NEW r \in Others \cup Accounts, ToggleRow(r) PROVE CleanMeansUnmodified'
    BY <1>1, <1>4 DEF ToggleRow
<1>5. ASSUME NEW l \in Leaves, ToggleLeaf(l) PROVE CleanMeansUnmodified'
    BY <1>1, <1>5 DEF ToggleLeaf
<1>6. ASSUME NEW r \in Repos, ToggleRepo(r) PROVE CleanMeansUnmodified'
    BY <1>1, <1>6 DEF ToggleRepo, RepoCascade
<1>7. ASSUME NEW u \in Accounts, NEW s \in Strategies, SelectStrategy(u, s)
      PROVE  CleanMeansUnmodified'
    BY <1>1, <1>7 DEF SelectStrategy
<1>8. ASSUME NEW s \in Strategies, ApplyStrategyToAll(s) PROVE CleanMeansUnmodified'
    BY <1>1, <1>8 DEF ApplyStrategyToAll
<1>9. CASE ClickRerender
    BY <1>3, <1>9 DEF ClickRerender, controls
<1>10. CASE BrowserStep
    BY <1>2, <1>3, <1>10 DEF BrowserStep, ReplacePage, RerenderFailed, FetchTimesOut, controls
<1>11. CASE (\E available \in BOOLEAN : HelperFound(available)) \/ RetryOrGiveUp \/ ServerAnswers
    BY <1>3, <1>11 DEF HelperFound, RetryOrGiveUp, ServerAnswers, pageVars, controls
<1>12. CASE Reload(orig)
    BY <1>2, <1>12 DEF Reload
<1> QED
    BY <1>4, <1>5, <1>6, <1>7, <1>8, <1>9, <1>10, <1>11, <1>12 DEF PageNext, UserStep
-----------------------------------------------------------------------------
(* Theorems *)

(* Every variable of the page and of its exchange with the server keeps    *)
(* its type: handlers of report.html.j2 never leave a row without a value. *)
THEOREM PageTypeCorrect == PageSpec => []PageTypeOK
<1>1. ControlsInv => PageTypeOK
    BY DEF ControlsInv
<1> QED BY <1>1, ControlsInit, ControlsStep, PTL DEF PageSpec

(* What the operator sees is what Re-render posts, whatever edits,         *)
(* cascades, resets, re-renders and reloads came before.                   *)
THEOREM ShownIsPosted == PageSpec => []ShownMatchesSnapshot
<1>1. ControlsInv => ShownMatchesSnapshot
    BY DEF ControlsInv
<1> QED BY <1>1, ControlsInit, ControlsStep, PTL DEF PageSpec

(* The repository cascade never leaves a leaf disabled without an          *)
(* unchecked repository behind it, nor a disabled leaf in the snapshot.    *)
THEOREM DisabledLeavesArePinned == PageSpec => []DisabledLeafPinned
<1>1. ControlsInv => DisabledLeafPinned
    BY DEF ControlsInv
<1> QED BY <1>1, ControlsInit, ControlsStep, PTL DEF PageSpec

(* The dirty flag never comes to hide a modification except through a      *)
(* reset: the tarball, offered on the strength of the flag, is that of the *)
(* selections on display.                                                  *)
THEOREM OnlyResetHides == PageSpec => OnlyResetHidesChanges
<1>1. ControlsInv /\ ControlsInv' /\ [PageNext]_<<pageVars, net>>
        => [(CleanMeansUnmodified /\ ~ResetToOriginal) => CleanMeansUnmodified']_<<pageVars, net>>
    BY StepHidesNothing
<1> QED BY <1>1, ControlsInit, ControlsStep, PTL DEF PageSpec, OnlyResetHidesChanges

(* Automatic packages are as loaded or as the checked leaves demand: the   *)
(* recomputation of recomputeAutoDeps() is forgotten by no handler that    *)
(* changes a leaf.                                                         *)
THEOREM AutosFollowLeaves == PageSpec => []AutoFollowsLeaves
<1>1. PageInit => AutoFollowsLeaves
    BY DEF PageInit, AutoFollowsLeaves
<1>2. ControlsInv /\ AutoFollowsLeaves /\ [PageNext]_<<pageVars, net>> => AutoFollowsLeaves'
    BY NextIsMove, MoveKeepsAutos
<1> QED BY <1>1, <1>2, ControlsInit, ControlsStep, PTL DEF PageSpec

(* With changes pending and no answer awaited, Re-render can be clicked,   *)
(* whatever requests failed, timed out or were lost with an older page.    *)
THEOREM RerenderStaysReachable == PageSpec => []RerenderReachable
<1>1. PageInit => ButtonInv
    BY DEF PageInit, ButtonInv
<1>2. ControlsInv /\ ButtonInv /\ [PageNext]_<<pageVars, net>> => ButtonInv'
    BY NextIsMove, MoveKeepsButton
<1> QED BY <1>1, <1>2, ControlsInit, ControlsStep, ButtonMeansReachable, PTL DEF PageSpec

-----------------------------------------------------------------------------
(* The session: the inductive invariant *)

(* Requests are answered in the order they were made.                      *)
Ordered == \A i, j \in DOMAIN net : i < j /\ net[j].reply # "none" => net[i].reply # "none"

(* The request the server works on was made with selections s.             *)
CurrentBody(s) == \E i \in DOMAIN net : IsCurrent(i) /\ net[i].body = s

(* A rendering has its request, what is being removed is what was there    *)
(* before, and what was copied is the rendering of the request.            *)
PhaseInv ==
    /\ phase \in {"rendering", "clearing", "copying"} => \E s \in Snapshot : CurrentBody(s)
    /\ phase = "clearing" => \A f \in DOMAIN dir : f \in DOMAIN before /\ dir[f] = before[f]
    /\ phase = "copying" => \A f \in DOMAIN dir : f \in RenderedFiles /\ CurrentBody(dir[f])

LastAnswered(i) == i \in Answered /\ \A j \in Answered : j <= i

(* The page shows the report of selections s, or will when the answers     *)
(* under way have arrived.                                                 *)
Shows(s) ==
    \/ Answered = {} /\ orig = s
    \/ \E i \in DOMAIN net : LastAnswered(i) /\ net[i].html = s

InStepInv ==
    ~unseen => phase # "down" /\ Whole(Served) /\ Shows(Served["report.html"])

SessionInv ==
    /\ ControlsInv /\ ServerTypeOK /\ unseen \in BOOLEAN
    /\ Ordered /\ PhaseInv /\ OutputCoherent /\ InStepInv
-----------------------------------------------------------------------------
(* What the channel's operations preserve                                  *)

LEMMA NetType ==
    ASSUME ChannelTypeOK
    PROVE  /\ Len(net) \in Nat /\ DOMAIN net = 1..Len(net)
           /\ net \in Seq(Exchange) /\ \A i \in DOMAIN net : net[i] \in Exchange
BY LenProperties DEF ChannelTypeOK

(* The same exchanges, apart from who owns them and who waits for them.    *)
LEMMA SameExchanges ==
    ASSUME \A i : i \in DOMAIN net' <=> i \in DOMAIN net,
           \A i \in DOMAIN net : /\ net'[i].body = net[i].body /\ net'[i].reply = net[i].reply
                                 /\ net'[i].html = net[i].html
    PROVE  /\ Ordered => Ordered'
           /\ \A s : CurrentBody(s) => CurrentBody(s)'
           /\ orig' = orig => \A s : Shows(s) => Shows(s)'
<1>1. \A i : i \in Unanswered' <=> i \in Unanswered
    BY DEF Unanswered
<1>2. \A i : i \in Answered' <=> i \in Answered
    BY DEF Answered
<1>3. \A i : IsCurrent(i)' <=> IsCurrent(i)
    BY <1>1 DEF IsCurrent
<1>4. \A i : LastAnswered(i)' <=> LastAnswered(i)
    BY <1>2 DEF LastAnswered
<1>5. Ordered => Ordered'
    BY DEF Ordered
<1>6. \A s : CurrentBody(s) => CurrentBody(s)'
    BY <1>3 DEF CurrentBody
<1>7. orig' = orig => \A s : Shows(s) => Shows(s)'
    BY <1>2, <1>4 DEF Shows
<1> QED BY <1>5, <1>6, <1>7

(* A request goes to the end of the queue.                                 *)
LEMMA PostKeeps ==
    ASSUME ChannelTypeOK, NEW b, Post(b)
    PROVE  /\ Ordered => Ordered'
           /\ \A s : CurrentBody(s) => CurrentBody(s)'
           /\ orig' = orig => \A s : Shows(s) => Shows(s)'
<1> DEFINE n == Len(net) + 1
<1>1. /\ DOMAIN net' = 1..n
      /\ \A i \in DOMAIN net : i \in 1..n /\ i < n /\ net'[i] = net[i]
      /\ net'[n].reply = "none"
      /\ \A i \in 1..n : i # n => i \in DOMAIN net
    <2> DEFINE e == [body |-> b, own |-> TRUE, open |-> TRUE, reply |-> "none", html |-> b]
    <2>1. net' = Append(net, e) /\ e.reply = "none"
        BY DEF Post
    <2> HIDE DEF e
    <2>2. /\ Len(Append(net, e)) = Len(net) + 1
          /\ \A i \in 1..Len(net) : Append(net, e)[i] = net[i]
          /\ Append(net, e)[Len(net) + 1] = e
          /\ DOMAIN Append(net, e) = 1..(Len(net) + 1)
        <3>1. net \in Seq(Exchange \cup {e}) /\ e \in Exchange \cup {e}
            BY NetType, SeqMonotonic
        <3> QED BY <3>1, AppendProperties
    <2> QED BY <2>1, <2>2, NetType
<1> HIDE DEF n
<1>2. n \in Nat /\ n \in 1..n
    BY NetType DEF n
<1>3. \A i \in DOMAIN net : i \in Nat
    BY NetType
<1>4. Ordered => Ordered'
    BY <1>1, <1>2, <1>3 DEF Ordered
<1>5. \A i : i \in Unanswered' <=> i \in Unanswered \/ i = n
    BY <1>1, <1>2 DEF Unanswered
<1>6. \A i : i \in Answered' <=> i \in Answered
    BY <1>1 DEF Answered
<1>7. \A i \in DOMAIN net : IsCurrent(i) => IsCurrent(i)'
    BY <1>1, <1>2, <1>3, <1>5 DEF IsCurrent
<1>8. \A i : LastAnswered(i)' <=> LastAnswered(i)
    BY <1>6 DEF LastAnswered
<1>9. \A s : CurrentBody(s) => CurrentBody(s)'
    BY <1>1, <1>7 DEF CurrentBody
<1>10. orig' = orig => \A s : Shows(s) => Shows(s)'
    BY <1>1, <1>6, <1>8 DEF Shows
<1> QED BY <1>4, <1>9, <1>10

(* The first answer arrives: the page goes on with the report it carries,  *)
(* or with its own.                                                        *)
LEMMA ArrivalKeeps ==
    ASSUME ChannelTypeOK, net # <<>>, net[1].reply # "none",
           \A i : i \in DOMAIN net' <=> i \in 1..(Len(net) - 1),
           \A i \in 1..(Len(net) - 1) : /\ net'[i].body = net[i + 1].body
                                        /\ net'[i].reply = net[i + 1].reply
                                        /\ net'[i].html = net[i + 1].html,
           orig' = IF net[1].reply = "ok" THEN net[1].html ELSE orig
    PROVE  /\ Ordered => Ordered'
           /\ \A s : CurrentBody(s) => CurrentBody(s)'
           /\ \A s : Shows(s) => Shows(s)'
<1>1. /\ 1 \in DOMAIN net
      /\ \A i \in DOMAIN net : i \in Nat /\ (i = 1 \/ i - 1 \in DOMAIN net')
      /\ \A i \in DOMAIN net' : i \in Nat /\ i + 1 \in DOMAIN net /\ i + 1 # 1
    BY NetType, EmptySeq
<1>2. \A i \in DOMAIN net' : /\ net'[i].body = net[i + 1].body /\ net'[i].html = net[i + 1].html
                             /\ net'[i].reply = net[i + 1].reply
    OBVIOUS
<1>3. Ordered => Ordered'
    <2> SUFFICES ASSUME Ordered, NEW i \in DOMAIN net', NEW j \in DOMAIN net',
                        i < j, net'[j].reply # "none"
                 PROVE  net'[i].reply # "none"
        BY DEF Ordered
    <2>1. i + 1 < j + 1 /\ i + 1 \in DOMAIN net /\ j + 1 \in DOMAIN net
        BY <1>1
    <2> QED BY <1>2, <2>1 DEF Ordered
<1>4. \A i \in DOMAIN net : i # 1 => net'[i - 1].body = net[i].body /\ net'[i - 1].html = net[i].html
                                      /\ net'[i - 1].reply = net[i].reply
    <2> SUFFICES ASSUME NEW i \in DOMAIN net, i # 1
                 PROVE  /\ net'[i - 1].body = net[i].body /\ net'[i - 1].html = net[i].html
                        /\ net'[i - 1].reply = net[i].reply
        OBVIOUS
    <2>1. i - 1 \in DOMAIN net' /\ (i - 1) + 1 = i
        BY <1>1
    <2>2. net'[i - 1].body = net[(i - 1) + 1].body
        BY <1>2, <2>1
    <2>3. net'[i - 1].html = net[(i - 1) + 1].html
        BY <1>2, <2>1
    <2>4. net'[i - 1].reply = net[(i - 1) + 1].reply
        BY <1>2, <2>1
    <2> QED BY <2>1, <2>2, <2>3, <2>4
<1>5. \A s : CurrentBody(s) => CurrentBody(s)'
    <2> SUFFICES ASSUME NEW s, NEW i \in DOMAIN net, IsCurrent(i), net[i].body = s
                 PROVE  CurrentBody(s)'
        BY DEF CurrentBody
    <2>1. i # 1 /\ i - 1 \in DOMAIN net'
        BY <1>1 DEF IsCurrent, Unanswered
    <2>2. i - 1 \in Unanswered'
        BY <1>4, <2>1 DEF IsCurrent, Unanswered
    <2>3. ASSUME NEW j \in Unanswered' PROVE i - 1 <= j
        <3>1. j \in DOMAIN net' /\ j + 1 \in Unanswered
            BY <1>1, <1>2, <2>3 DEF Unanswered
        <3>2. i <= j + 1
            BY <3>1 DEF IsCurrent
        <3> QED BY <1>1, <3>1, <3>2
    <2>4. IsCurrent(i - 1)'
        BY <2>2, <2>3 DEF IsCurrent
    <2>5. net'[i - 1].body = s
        BY <1>4, <2>1
    <2> QED BY <2>1, <2>4, <2>5 DEF CurrentBody
<1>6. \A s : Shows(s) => Shows(s)'
    <2>1. \A j \in Answered' : j \in DOMAIN net' /\ j + 1 \in Answered
        BY <1>1, <1>2 DEF Answered
    <2>2. ASSUME NEW s, Answered = {}, orig = s PROVE Shows(s)'
        <3>1. net[1].reply # "ok"
            BY <1>1, <2>2 DEF Answered
        <3>2. Answered' = {}
            BY <2>1, <2>2
        <3> QED BY <2>2, <3>1, <3>2 DEF Shows
    <2>3. ASSUME NEW s, NEW i \in DOMAIN net, LastAnswered(i), net[i].html = s PROVE Shows(s)'
        <3>1. CASE i = 1
            <4>1. ASSUME NEW j \in Answered' PROVE FALSE
                <5>1. j + 1 <= 1 /\ j \in Nat /\ j \in DOMAIN net'
                    BY <1>1, <2>1, <2>3, <3>1 DEF LastAnswered
                <5>2. j \in 1..(Len(net) - 1)
                    BY <5>1
                <5> QED BY <5>1, <5>2
            <4>2. orig' = s
                BY <2>3, <3>1 DEF LastAnswered, Answered
            <4> QED BY <4>1, <4>2 DEF Shows
        <3>2. CASE i # 1
            <4>1. i - 1 \in DOMAIN net' /\ i \in Nat
                BY <1>1, <3>2
            <4>2. i - 1 \in Answered' /\ net'[i - 1].html = s
                BY <1>4, <2>3, <3>2, <4>1 DEF LastAnswered, Answered
            <4>3. \A j \in Answered' : j <= i - 1
                BY <1>1, <2>1, <2>3, <4>1 DEF LastAnswered
            <4> QED BY <4>1, <4>2, <4>3 DEF Shows, LastAnswered
        <3> QED BY <3>1, <3>2
    <2> QED BY <2>2, <2>3 DEF Shows
<1> QED BY <1>3, <1>5, <1>6

(* The server answers its current request.                                 *)
LEMMA AnswerKeeps ==
    ASSUME ChannelTypeOK, Ordered, NEW i \in DOMAIN net, IsCurrent(i),
           NEW reply \in {"ok", "failed"}, NEW html \in Snapshot, Answer(i, reply, html),
           orig' = orig
    PROVE  /\ Ordered'
           /\ reply = "failed" => \A s : Shows(s) => Shows(s)'
           /\ reply = "ok" /\ net[i].open => Shows(html)'
<1>0. /\ Len(net) \in Nat /\ DOMAIN net = 1..Len(net) /\ i \in Nat
      /\ \A k \in DOMAIN net : k \in Nat
      /\ \A k \in DOMAIN net : net[k] \in Exchange
    BY NetType
<1>1. /\ net[i].reply = "none"
      /\ \A k \in DOMAIN net : k < i => net[k].reply # "none"
      /\ \A k \in DOMAIN net : i < k => net[k].reply = "none"
    BY <1>0 DEF IsCurrent, Unanswered, Ordered
<1>2. CASE net[i].open
    <2>1. net' = [net EXCEPT ![i] = [net[i] EXCEPT !.reply = reply, !.html = html]]
        BY <1>2 DEF Answer
    <2>2. /\ DOMAIN net' = DOMAIN net
          /\ \A k \in DOMAIN net : k # i => net'[k] = net[k]
          /\ net'[i].reply = reply /\ net'[i].html = html
        BY <1>0, <2>1 DEF Exchange
    <2>3. Ordered'
        BY <1>0, <1>1, <2>2 DEF Ordered
    <2>4. \A k \in DOMAIN net : k \in Answered' <=> k \in Answered \/ (k = i /\ reply = "ok")
        BY <1>1, <2>2 DEF Answered
    <2>5. Answered \subseteq DOMAIN net /\ Answered' \subseteq DOMAIN net /\ i \notin Answered
        BY <1>1, <2>2 DEF Answered
    <2>6. ASSUME reply = "failed", NEW s, Shows(s) PROVE Shows(s)'
        <3>1. \A k : k \in Answered' <=> k \in Answered
            BY <2>4, <2>5, <2>6
        <3> QED BY <2>2, <2>5, <2>6, <3>1 DEF Shows, LastAnswered
    <2>7. ASSUME reply = "ok" PROVE Shows(html)'
        <3>1. ASSUME NEW k \in Answered' PROVE k <= i
            BY <1>0, <1>1, <2>4, <2>5, <3>1 DEF Answered
        <3>2. i \in Answered'
            BY <2>4, <2>7
        <3> QED BY <2>2, <3>1, <3>2 DEF Shows, LastAnswered
    <2> QED BY <2>3, <2>6, <2>7
<1>3. CASE ~net[i].open
    <2>1. net' = Without(i)
        BY <1>3 DEF Answer
    <2>2. /\ DOMAIN net' = 1..(Len(net) - 1)
          /\ \A k \in DOMAIN net : k < i => k \in DOMAIN net' /\ net'[k] = net[k]
          /\ \A k \in DOMAIN net : k > i => k - 1 \in DOMAIN net' /\ net'[k - 1] = net[k]
        BY <2>1, <1>0, WithoutElements
    <2>3. ASSUME NEW k \in DOMAIN net', ~(k < i) PROVE net'[k].reply = "none" /\ k \in Nat
        <3>1. k \in Nat /\ k + 1 \in DOMAIN net /\ k + 1 > i /\ (k + 1) - 1 = k
            BY <1>0, <2>2, <2>3
        <3>2. net'[(k + 1) - 1] = net[k + 1]
            BY <2>2, <3>1
        <3> QED BY <1>0, <1>1, <3>1, <3>2
    <2>4. \A k \in DOMAIN net' : k < i => k \in DOMAIN net /\ net'[k] = net[k]
        BY <1>0, <2>2
    <2>5. Ordered'
        BY <1>0, <1>1, <2>2, <2>3, <2>4 DEF Ordered
    <2>6. \A k : k \in Answered' <=> k \in Answered
        <3>1. \A k \in Answered' : k < i /\ k \in DOMAIN net'
            BY <2>3 DEF Answered
        <3>2. \A k \in Answered : k < i /\ k \in DOMAIN net
            BY <1>0, <1>1 DEF Answered
        <3> QED BY <2>2, <2>4, <3>1, <3>2 DEF Answered
    <2>7. \A k \in Answered : k \in DOMAIN net' /\ net'[k] = net[k]
        BY <1>0, <1>1, <2>2 DEF Answered
    <2>8. \A s : Shows(s) => Shows(s)'
        BY <2>6, <2>7 DEF Shows, LastAnswered
    <2> QED BY <1>3, <2>5, <2>8
<1> QED BY <1>2, <1>3

LEMMA CurrentExists ==
    ASSUME ChannelTypeOK, Unanswered # {}
    PROVE  \E i \in DOMAIN net : IsCurrent(i)
<1>1. Unanswered \in SUBSET Nat /\ Unanswered \subseteq DOMAIN net
    BY NetType DEF Unanswered
<1>2. PICK i \in Unanswered : \A j \in Unanswered : i <= j
    BY <1>1, LeastNatural
<1> QED BY <1>1, <1>2 DEF IsCurrent

(* The number of answered requests tells which is the current one.         *)
LEMMA FirstIsCurrent ==
    ASSUME ChannelTypeOK, Ordered
    PROVE  /\ \A i \in DOMAIN net : IsCurrent(i) => FirstUnanswered = i
           /\ FirstUnanswered \in 1..(Len(net) + 1)
           /\ \A i \in DOMAIN net : i >= FirstUnanswered => i \in Unanswered
<1>0. Len(net) \in Nat /\ DOMAIN net = 1..Len(net)
    BY NetType
<1>1. ASSUME NEW n \in 1..(Len(net) + 1),
             \A k \in DOMAIN net : k \in Unanswered <=> k >= n
      PROVE  FirstUnanswered = n
    <2>1. DOMAIN net \ Unanswered = 1..(n - 1)
        BY <1>0, <1>1
    <2>2. Cardinality(1..(n - 1)) = n - 1
        <3>1. n - 1 \in Nat
            BY <1>0
        <3> QED BY <3>1, FS_Interval
    <2>3. FirstUnanswered = (n - 1) + 1
        BY <2>1, <2>2 DEF FirstUnanswered
    <2> QED BY <1>0, <2>3
<1>2. ASSUME NEW i \in DOMAIN net, IsCurrent(i)
      PROVE  FirstUnanswered = i /\ \A k \in DOMAIN net : k \in Unanswered <=> k >= i
    <2>1. \A k \in DOMAIN net : k \in Unanswered <=> k >= i
        BY <1>0, <1>2 DEF IsCurrent, Unanswered, Ordered
    <2> QED BY <1>0, <1>1, <2>1
<1>3. CASE Unanswered = {}
    <2>1. FirstUnanswered = Len(net) + 1
        BY <1>0, <1>1, <1>3
    <2> QED BY <1>0, <1>3, <2>1 DEF IsCurrent
<1>4. CASE Unanswered # {}
    <2>1. PICK i \in DOMAIN net : IsCurrent(i)
        BY <1>4, CurrentExists
    <2> QED BY <1>0, <1>2, <2>1
<1> QED BY <1>3, <1>4

(* A reload: what has been answered belongs to the page that is gone.      *)
LEMMA ReloadKeeps ==
    ASSUME ChannelTypeOK, Ordered, NEW s \in Snapshot, Reload(s)
    PROVE  Ordered' /\ Shows(s)'
<1> DEFINE gone == [i \in DOMAIN net |-> [net[i] EXCEPT !.own = FALSE, !.open = FALSE]]
           m == FirstUnanswered
<1>0. Len(net) \in Nat /\ DOMAIN net = 1..Len(net) /\ \A k \in DOMAIN net : net[k] \in Exchange
    BY NetType
<1>1. m \in 1..(Len(net) + 1) /\ \A i \in DOMAIN net : i >= m => net[i].reply = "none"
    BY FirstIsCurrent DEF Unanswered
<1>2. \A i \in DOMAIN net : gone[i].reply = net[i].reply /\ gone[i] \in Exchange
    BY <1>0 DEF Exchange
<1>3. net' = SubSeq(gone, m, Len(net)) /\ orig' = s
    BY DEF Reload, Load
<1> HIDE DEF gone, m
<1>4. \A k \in DOMAIN net' : net'[k].reply = "none"
    <2>1. \A i \in m..Len(net) : gone[i] \in Exchange
        BY <1>0, <1>1, <1>2
    <2>2. /\ Len(net') = IF m <= Len(net) THEN Len(net) - m + 1 ELSE 0
          /\ net' \in Seq(Exchange)
          /\ \A k \in 1..(Len(net) - m + 1) : net'[k] = gone[m + k - 1]
        BY <1>0, <1>1, <1>3, <2>1, SubSeqProperties
    <2>3. DOMAIN net' = 1..Len(net')
        BY <2>2, LenProperties
    <2> SUFFICES ASSUME NEW k \in DOMAIN net' PROVE net'[k].reply = "none"
        OBVIOUS
    <2>4. /\ k \in 1..(Len(net) - m + 1)
          /\ m + k - 1 \in DOMAIN net /\ m + k - 1 >= m
        BY <1>0, <1>1, <2>2, <2>3
    <2> QED BY <1>1, <1>2, <2>2, <2>4
<1> QED BY <1>3, <1>4 DEF Ordered, Shows, Answered
-----------------------------------------------------------------------------
(* What the page makes of the server, and the server of the page           *)

LEMMA BodyType ==
    ASSUME ChannelTypeOK
    PROVE  /\ \A i \in DOMAIN net : net[i].body \in Snapshot
           /\ \A s : CurrentBody(s) => s \in Snapshot
           /\ \A s, t : CurrentBody(s) /\ CurrentBody(t) => s = t
<1>1. \A i \in DOMAIN net : net[i].body \in Snapshot /\ i \in Nat
    BY NetType DEF Exchange
<1>2. \A i, j \in DOMAIN net : IsCurrent(i) /\ IsCurrent(j) => i = j
    BY <1>1 DEF IsCurrent
<1> QED BY <1>1, <1>2 DEF CurrentBody

(* A directory, entry by entry.                                            *)
LEMMA DirType ==
    /\ \A d \in Directories :
        /\ DOMAIN d \in SUBSET Files /\ d = [f \in DOMAIN d |-> d[f]]
        /\ \A f \in DOMAIN d : d[f] \in Snapshot \cup {Truncated}
    /\ \A S \in SUBSET Files : \A d \in [S -> Snapshot \cup {Truncated}] : d \in Directories
BY DEF Directories

LEMMA KnownDirs ==
    /\ Extracted \in Directories /\ Empty \in Directories
    /\ DOMAIN Extracted = TarballFiles /\ DOMAIN Empty = {}
    /\ "report.html" \in TarballFiles \cap RenderedFiles
    /\ \A f \in TarballFiles : Extracted[f] = TarballSnapshot
<1>1. TarballFiles \in SUBSET Files /\ {} \in SUBSET Files
    BY DEF Files
<1>2. Extracted \in [TarballFiles -> Snapshot \cup {Truncated}]
    BY ServerAssumption DEF Extracted
<1>3. Empty \in [{} -> Snapshot \cup {Truncated}]
    BY DEF Empty
<1> QED BY <1>1, <1>2, <1>3, DirType, ServerAssumption DEF Extracted, Empty, RequiredFiles

LEMMA WithType ==
    ASSUME dir \in Directories, NEW f \in Files, NEW v \in Snapshot \cup {Truncated}
    PROVE  /\ With(f, v) \in Directories
           /\ \A g : g \in DOMAIN With(f, v) <=> g \in DOMAIN dir \/ g = f
           /\ \A g \in DOMAIN With(f, v) : With(f, v)[g] = IF g = f THEN v ELSE dir[g]
<1>1. DOMAIN dir \cup {f} \in SUBSET Files /\ \A g \in DOMAIN dir : dir[g] \in Snapshot \cup {Truncated}
    BY DirType
<1>2. With(f, v) \in [DOMAIN dir \cup {f} -> Snapshot \cup {Truncated}]
    BY <1>1 DEF With
<1> QED BY <1>1, <1>2, DirType DEF With

LEMMA RemoveType ==
    ASSUME dir \in Directories, NEW f
    PROVE  LET d == Restrict(dir, DOMAIN dir \ {f})
           IN  /\ d \in Directories
               /\ \A g : g \in DOMAIN d <=> g \in DOMAIN dir /\ g # f
               /\ \A g \in DOMAIN d : d[g] = dir[g]
<1>1. DOMAIN dir \ {f} \in SUBSET Files /\ \A g \in DOMAIN dir : dir[g] \in Snapshot \cup {Truncated}
    BY DirType
<1>2. Restrict(dir, DOMAIN dir \ {f}) \in [DOMAIN dir \ {f} -> Snapshot \cup {Truncated}]
    BY <1>1 DEF Restrict
<1> QED BY <1>1, <1>2, DirType DEF Restrict

(* The report that was just copied is the rendering of a request.          *)
LEMMA FinishedReport ==
    ASSUME ChannelTypeOK, PhaseInv, phase = "copying", DOMAIN dir = RenderedFiles
    PROVE  /\ dir["report.html"] \in Snapshot
           /\ \A f \in RenderedFiles : dir[f] = dir["report.html"]
BY BodyType, KnownDirs DEF PhaseInv

(* For the page, a step of the server is an answer, a report to load, or   *)
(* nothing.                                                                *)
LEMMA SessionIsMove ==
    ASSUME SessionInv, [SessionNext]_sessionVars
    PROVE  PageMove
<1>0. ChannelTypeOK /\ PhaseInv /\ \A i \in DOMAIN net : net[i].body \in Snapshot
    BY BodyType DEF SessionInv, ControlsInv, PageTypeOK
<1>1. CASE PageStep
    BY <1>1 DEF PageStep, PageMove
<1>2. CASE Probe
    BY <1>2 DEF Probe, PageMove
<1>3. CASE ReloadTab
    <2>1. dir["report.html"] \in Snapshot /\ Reload(dir["report.html"])
        BY <1>3, DirType DEF ReloadTab, SessionInv, ServerTypeOK
    <2> QED BY <2>1 DEF PageMove
<1>4. CASE ServerStep
    <2>0. UNCHANGED pageVars
        BY <1>4 DEF ServerStep
    <2>1. CASE UNCHANGED net
        BY <2>0, <2>1 DEF PageMove
    <2>2. ASSUME NEW i \in DOMAIN net, Fail(i) PROVE PageMove
        BY <1>0, <2>0, <2>2 DEF Fail, PageMove, ServerMove
    <2>3. CASE Finish
        <3>1. dir["report.html"] \in Snapshot
            BY <1>0, <2>3, FinishedReport DEF Finish
        <3> QED BY <2>0, <2>3, <3>1 DEF Finish, PageMove, ServerMove
    <2> QED BY <1>4, <2>1, <2>2, <2>3
            DEF ServerStep, Rerendering, StartRender, NoRuntime, RenderFails, RenderDone, ClearOne,
                StartCopy, CopyOne, Refuse, InstallFails, Stop, Launch
<1>5. CASE UNCHANGED sessionVars
    BY <1>5 DEF sessionVars, PageMove
<1> QED BY <1>1, <1>2, <1>3, <1>4, <1>5 DEF SessionNext

(* The page posts, gives up on and receives requests without disturbing    *)
(* their order, the current one, or what it is about to show.              *)
LEMMA PageKeepsExchanges ==
    ASSUME ChannelTypeOK, PageStep \/ Probe
    PROVE  /\ Ordered => Ordered'
           /\ \A s : CurrentBody(s) => CurrentBody(s)'
           /\ \A s : Shows(s) => Shows(s)'
<1>0. \A i \in DOMAIN net : net[i] \in Exchange
    BY NetType
<1>1. CASE UNCHANGED <<orig, net>>
    BY <1>1, SameExchanges
<1>2. CASE ClickRerender
    BY <1>2, PostKeeps DEF ClickRerender
<1>3. CASE ReplacePage \/ RerenderFailed
    <2>1. /\ net # <<>> /\ Head(net) = net[1]
          /\ Tail(net) \in Seq(Exchange) /\ Len(Tail(net)) = Len(net) - 1
          /\ \A i \in 1..Len(Tail(net)) : Tail(net)[i] = net[i + 1]
        <3>1. net # <<>>
            BY <1>3 DEF ReplacePage, RerenderFailed, Arrived
        <3> QED BY <3>1, NetType, HeadTailProperties
    <2>2. DOMAIN Tail(net) = 1..(Len(net) - 1) /\ \A i \in DOMAIN Tail(net) : Tail(net)[i] \in Exchange
        BY <2>1, LenProperties
    <2>3. /\ net[1].reply # "none"
          /\ orig' = IF net[1].reply = "ok" THEN net[1].html ELSE orig
        <3>1. CASE ReplacePage
            BY <2>1, <3>1 DEF ReplacePage, Arrived, Load
        <3>2. CASE RerenderFailed
            BY <2>1, <3>2 DEF RerenderFailed, Arrived
        <3> QED BY <1>3, <3>1, <3>2
    <2>4. /\ DOMAIN net' = 1..(Len(net) - 1)
          /\ \A i \in 1..(Len(net) - 1) : /\ net'[i].body = net[i + 1].body
                                          /\ net'[i].reply = net[i + 1].reply
                                          /\ net'[i].html = net[i + 1].html
        <3>1. CASE ReplacePage
            BY <2>1, <2>2, <3>1 DEF ReplacePage, Disown, Exchange
        <3>2. CASE RerenderFailed
            BY <2>1, <2>2, <3>2 DEF RerenderFailed
        <3> QED BY <1>3, <3>1, <3>2
    <2>5. \A i : i \in DOMAIN net' <=> i \in 1..(Len(net) - 1)
        BY <2>4
    <2> QED BY <2>1, <2>3, <2>4, <2>5, ArrivalKeeps
<1>4. CASE FetchTimesOut
    <2>1. PICK i \in DOMAIN net : net' = [net EXCEPT ![i] = [net[i] EXCEPT !.open = FALSE]]
        BY <1>4 DEF FetchTimesOut, HangUp
    <2>2. /\ DOMAIN net' = DOMAIN net
          /\ \A k \in DOMAIN net : /\ net'[k].body = net[k].body /\ net'[k].reply = net[k].reply
                                   /\ net'[k].html = net[k].html
        BY <1>0, <2>1 DEF Exchange
    <2>3. orig' = orig
        BY <1>4 DEF FetchTimesOut
    <2> QED BY <2>2, <2>3, SameExchanges
<1>5. UserStep => ClickRerender \/ UNCHANGED <<orig, net>>
    BY DEF UserStep, ToggleRow, ToggleLeaf, ToggleRepo, RepoCascade, SelectStrategy,
           ApplyStrategyToAll, Edit, ResetToOriginal
<1>6. RetryOrGiveUp \/ (\E available \in BOOLEAN : HelperFound(available)) => UNCHANGED <<orig, net>>
    BY DEF RetryOrGiveUp, HelperFound
<1> QED BY <1>1, <1>2, <1>3, <1>4, <1>5, <1>6 DEF PageStep, Probe, BrowserStep
-----------------------------------------------------------------------------
(* The steps                                                               *)

Rest == ServerTypeOK /\ unseen \in BOOLEAN /\ Ordered /\ PhaseInv /\ OutputCoherent /\ InStepInv

LEMMA SessionInitInv == SessionInit => SessionInv
<1> SUFFICES ASSUME SessionInit PROVE SessionInv
    OBVIOUS
<1>1. ControlsInv
    BY ControlsInit DEF SessionInit
<1>2. /\ phase = "idle" /\ dir = Extracted /\ before = Empty /\ orig = TarballSnapshot /\ unseen = FALSE
      /\ net = <<>>
    BY DEF SessionInit, ServerInit, PageInit
<1>3. ServerTypeOK
    BY <1>2, KnownDirs DEF ServerTypeOK
<1>4. DOMAIN net = {}
    BY <1>2
<1>5. Ordered /\ PhaseInv
    BY <1>2, <1>4 DEF Ordered, PhaseInv
<1>6. OutputCoherent
    BY <1>2, KnownDirs DEF OutputCoherent
<1>7. InStepInv
    <2>1. Answered = {}
        BY <1>4 DEF Answered
    <2>2. Served = Extracted
        BY <1>2 DEF Served, Installing
    <2> QED BY <1>2, <2>1, <2>2, KnownDirs DEF InStepInv, Whole, Shows
<1> QED BY <1>1, <1>2, <1>3, <1>5, <1>6, <1>7 DEF SessionInv

(* The page cannot disturb the server.                                     *)
LEMMA PageStepRest ==
    ASSUME SessionInv, PageStep \/ Probe
    PROVE  Rest'
<1>0. ChannelTypeOK /\ Rest
    BY DEF SessionInv, ControlsInv, PageTypeOK, Rest
<1>1. UNCHANGED <<phase, dir, before, unseen>>
    BY DEF PageStep, Probe, serverVars
<1>2. /\ Ordered'
      /\ \A s : CurrentBody(s) => CurrentBody(s)'
      /\ \A s : Shows(s) => Shows(s)'
    BY <1>0, PageKeepsExchanges DEF Rest
<1>3. PhaseInv'
    BY <1>0, <1>1, <1>2 DEF Rest, PhaseInv
<1>4. Served' = Served
    BY <1>1 DEF Served, Installing
<1>5. InStepInv'
    BY <1>0, <1>1, <1>2, <1>4 DEF Rest, InStepInv
<1> QED BY <1>0, <1>1, <1>2, <1>3, <1>5 DEF Rest, ServerTypeOK, OutputCoherent

(* A reloaded page shows what the directory holds.                         *)
LEMMA ReloadRest ==
    ASSUME SessionInv, ReloadTab
    PROVE  Rest'
<1>0. ChannelTypeOK /\ Rest
    BY DEF SessionInv, ControlsInv, PageTypeOK, Rest
<1>1. /\ phase = "idle" /\ UNCHANGED <<phase, dir, before>> /\ unseen' = ~Whole(dir)
      /\ dir["report.html"] \in Snapshot /\ Reload(dir["report.html"])
    BY <1>0, DirType DEF ReloadTab, Rest, ServerTypeOK, serverVars
<1>2. Ordered' /\ Shows(dir["report.html"])'
    BY <1>0, <1>1, ReloadKeeps DEF Rest
<1>3. Served' = dir /\ phase' = "idle"
    BY <1>1 DEF Served, Installing
<1>4. InStepInv'
    BY <1>1, <1>2, <1>3 DEF InStepInv
<1>5. PhaseInv'
    BY <1>1 DEF PhaseInv
<1>6. unseen' \in BOOLEAN
    BY <1>1 DEF Whole
<1> QED BY <1>0, <1>1, <1>2, <1>4, <1>5, <1>6 DEF Rest, ServerTypeOK, OutputCoherent

(* Steps of a rendering that the page does not hear of.                    *)
LEMMA QuietServerRest ==
    ASSUME SessionInv, UNCHANGED <<orig, net>>,
           (StartRender \/ RenderDone \/ ClearOne \/ StartCopy \/ CopyOne) /\ UNCHANGED unseen
    PROVE  Rest'
<1>0. ChannelTypeOK /\ Rest
    BY DEF SessionInv, ControlsInv, PageTypeOK, Rest
<1>1. /\ Ordered'
      /\ \A s : CurrentBody(s) => CurrentBody(s)'
      /\ \A s : Shows(s) => Shows(s)'
    BY <1>0, SameExchanges DEF Rest
<1>2. CASE StartRender
    <2>1. PICK i \in DOMAIN net : IsCurrent(i)
        BY <1>0, <1>2, CurrentExists DEF StartRender
    <2>2. \E s \in Snapshot : CurrentBody(s)'
        BY <1>0, <1>1, <2>1, BodyType DEF CurrentBody
    <2>3. PhaseInv'
        BY <1>2, <2>2 DEF StartRender, PhaseInv
    <2>4. Served' = Served /\ phase' # "down"
        BY <1>2 DEF StartRender, Served, Installing
    <2>5. InStepInv'
        BY <1>0, <1>1, <2>4 DEF Rest, InStepInv
    <2> QED BY <1>0, <1>1, <1>2, <2>3, <2>5 DEF StartRender, Rest, ServerTypeOK, OutputCoherent
<1>3. CASE RenderDone
    <2>1. PhaseInv'
        BY <1>0, <1>1, <1>3 DEF Rest, RenderDone, PhaseInv
    <2>2. Served' = Served /\ phase' # "down"
        BY <1>3 DEF RenderDone, Served, Installing
    <2>3. InStepInv'
        BY <1>0, <1>1, <2>2 DEF Rest, InStepInv
    <2> QED BY <1>0, <1>1, <1>3, <2>1, <2>3 DEF RenderDone, Rest, ServerTypeOK, OutputCoherent
<1>4. CASE ClearOne
    <2>1. PICK f \in DOMAIN dir : dir' = Restrict(dir, DOMAIN dir \ {f})
        BY <1>4 DEF ClearOne
    <2>2. /\ dir' \in Directories
          /\ \A g : g \in DOMAIN dir' <=> g \in DOMAIN dir /\ g # f
          /\ \A g \in DOMAIN dir' : dir'[g] = dir[g]
        BY <1>0, <2>1, RemoveType DEF Rest, ServerTypeOK
    <2>3. phase = "clearing" /\ UNCHANGED <<phase, before>>
        BY <1>4 DEF ClearOne
    <2>4. PhaseInv'
        BY <1>0, <1>1, <2>2, <2>3 DEF Rest, PhaseInv
    <2>5. OutputCoherent'
        BY <1>0, <2>2 DEF Rest, OutputCoherent
    <2>6. Served' = Served /\ phase' # "down"
        BY <2>3 DEF Served, Installing
    <2>7. InStepInv'
        BY <1>0, <1>1, <2>6 DEF Rest, InStepInv
    <2> QED BY <1>0, <1>1, <2>2, <2>3, <2>4, <2>5, <2>7 DEF Rest, ServerTypeOK
<1>5. CASE StartCopy
    <2>1. PhaseInv'
        BY <1>0, <1>1, <1>5 DEF Rest, StartCopy, PhaseInv
    <2>2. Served' = Served /\ phase' # "down"
        BY <1>5 DEF StartCopy, Served, Installing
    <2>3. InStepInv'
        BY <1>0, <1>1, <2>2 DEF Rest, InStepInv
    <2> QED BY <1>0, <1>1, <1>5, <2>1, <2>3 DEF StartCopy, Rest, ServerTypeOK, OutputCoherent
<1>6. CASE CopyOne
    <2>1. PICK i \in DOMAIN net, f \in RenderedFiles \ DOMAIN dir :
            IsCurrent(i) /\ dir' = With(f, net[i].body)
        BY <1>6 DEF CopyOne
    <2>2. net[i].body \in Snapshot /\ CurrentBody(net[i].body) /\ f \in Files
        BY <1>0, <2>1, BodyType DEF CurrentBody, Files
    <2>3. /\ dir' \in Directories
          /\ \A g : g \in DOMAIN dir' <=> g \in DOMAIN dir \/ g = f
          /\ \A g \in DOMAIN dir' : dir'[g] = IF g = f THEN net[i].body ELSE dir[g]
        BY <1>0, <2>1, <2>2, WithType DEF Rest, ServerTypeOK
    <2>4. phase = "copying" /\ UNCHANGED <<phase, before>>
        BY <1>6 DEF CopyOne
    <2>5. \A g \in DOMAIN dir : g \in RenderedFiles /\ CurrentBody(dir[g]) /\ dir[g] = net[i].body
        BY <1>0, <2>2, <2>4, BodyType DEF Rest, PhaseInv
    <2>6. PhaseInv'
        BY <1>0, <1>1, <2>1, <2>2, <2>3, <2>4, <2>5 DEF Rest, PhaseInv
    <2>7. OutputCoherent'
        BY <2>3, <2>5 DEF OutputCoherent
    <2>8. Served' = Served /\ phase' # "down"
        BY <2>4 DEF Served, Installing
    <2>9. InStepInv'
        BY <1>0, <1>1, <2>8 DEF Rest, InStepInv
    <2> QED BY <1>0, <1>1, <2>3, <2>4, <2>6, <2>7, <2>9 DEF Rest, ServerTypeOK
<1> QED BY <1>2, <1>3, <1>4, <1>5, <1>6

(* A request is refused, or its rendering fails: nothing has changed.      *)
LEMMA FailedRest ==
    ASSUME SessionInv, UNCHANGED <<orig, unseen>>, NoRuntime \/ RenderFails \/ Refuse
    PROVE  Rest'
<1>0. ChannelTypeOK /\ Rest
    BY DEF SessionInv, ControlsInv, PageTypeOK, Rest
<1>1. /\ UNCHANGED <<dir, before>>
      /\ \/ phase \in {"idle", "rendering"} /\ phase' = "idle"
         \/ phase = "down" /\ phase' = "down"
    BY DEF NoRuntime, RenderFails, Refuse, serverVars
<1>2. PICK i \in DOMAIN net : IsCurrent(i) /\ Fail(i)
    BY DEF NoRuntime, RenderFails, Refuse
<1>3. Answer(i, "failed", net[i].body) /\ net[i].body \in Snapshot
    BY <1>0, <1>2, BodyType DEF Fail
<1>4. Ordered' /\ \A s : Shows(s) => Shows(s)'
    BY <1>0, <1>2, <1>3, AnswerKeeps DEF Rest
<1>5. PhaseInv'
    BY <1>1 DEF PhaseInv
<1>6. Served' = Served /\ (phase # "down" => phase' # "down")
    BY <1>1 DEF Served, Installing
<1>7. InStepInv'
    BY <1>0, <1>4, <1>6 DEF Rest, InStepInv
<1> QED BY <1>0, <1>1, <1>4, <1>5, <1>7 DEF Rest, ServerTypeOK, OutputCoherent

(* The answer carries the report of the directory that was just filled.    *)
LEMMA FinishRest ==
    ASSUME SessionInv, orig' = orig, Finish, unseen' = ~net[FirstUnanswered].open
    PROVE  Rest' /\ \E s \in Snapshot : dir = Rendering(s)
<1>0. ChannelTypeOK /\ Rest
    BY DEF SessionInv, ControlsInv, PageTypeOK, Rest
<1>1. /\ phase = "copying" /\ phase' = "idle" /\ before' = Empty /\ dir' = dir
      /\ DOMAIN dir = RenderedFiles
    BY DEF Finish
<1>2. PICK i \in DOMAIN net : IsCurrent(i) /\ Answer(i, "ok", dir["report.html"])
    BY DEF Finish
<1>3. dir["report.html"] \in Snapshot /\ \A f \in RenderedFiles : dir[f] = dir["report.html"]
    BY <1>0, <1>1, FinishedReport DEF Rest
<1>4. PICK r \in Snapshot : r = dir["report.html"]
    BY <1>3
<1>5. Ordered' /\ (net[i].open => Shows(r)')
    BY <1>0, <1>2, <1>4, AnswerKeeps DEF Rest
<1>6. unseen' = ~net[i].open /\ net[i].open \in BOOLEAN
    BY <1>0, <1>2, FirstIsCurrent, NetType DEF Rest, Exchange
<1>7. dir = Rendering(dir["report.html"])
    <2>1. dir = [f \in RenderedFiles |-> dir[f]]
        BY <1>0, <1>1, DirType DEF Rest, ServerTypeOK
    <2> QED BY <1>3, <2>1 DEF Rendering
<1>8. Whole(dir)
    BY <1>3, <1>7 DEF Whole
<1>9. Served' = dir /\ phase' # "down"
    BY <1>1 DEF Served, Installing
<1>10. InStepInv'
    BY <1>1, <1>4, <1>5, <1>6, <1>8, <1>9 DEF InStepInv
<1>11. PhaseInv'
    BY <1>1 DEF PhaseInv
<1>12. ServerTypeOK' /\ OutputCoherent'
    BY <1>0, <1>1, KnownDirs DEF Rest, ServerTypeOK, OutputCoherent
<1> QED BY <1>3, <1>5, <1>6, <1>7, <1>10, <1>11, <1>12 DEF Rest

(* The directory is lost, or part of it: never parts of two renderings.    *)
LEMMA BreakdownRest ==
    ASSUME SessionInv, orig' = orig, unseen' = TRUE, InstallFails \/ Stop \/ Launch
    PROVE  Rest'
<1>0. ChannelTypeOK /\ Rest
    BY DEF SessionInv, ControlsInv, PageTypeOK, Rest
<1>1. InStepInv'
    BY DEF InStepInv
<1>2. CASE Stop \/ Launch
    <2>1. UNCHANGED net /\ phase' \in {"down", "idle"} /\ dir' \in {Empty, Extracted}
          /\ before' \in {Empty, before}
        BY <1>2 DEF Stop, Launch
    <2>2. Ordered'
        BY <1>0, <2>1, SameExchanges DEF Rest
    <2>3. OutputCoherent'
        BY <2>1, KnownDirs DEF OutputCoherent
    <2> QED BY <1>0, <1>1, <2>1, <2>2, <2>3, KnownDirs DEF Rest, ServerTypeOK, PhaseInv
<1>3. CASE InstallFails
    <2>1. /\ Installing /\ phase' = "idle" /\ before' = Empty
          /\ \/ dir' = dir
             \/ \E f \in Files : dir' = With(f, Truncated)
        <3>1. (DOMAIN dir \cap Folders) \cup (RenderedFiles \ DOMAIN dir) \subseteq Files
            BY <1>0, DirType DEF Rest, ServerTypeOK, Files
        <3> QED BY <1>3, <3>1 DEF InstallFails
    <2>2. PICK i \in DOMAIN net : IsCurrent(i) /\ Fail(i)
        BY <1>3 DEF InstallFails
    <2>3. Ordered'
        BY <1>0, <2>2, BodyType, AnswerKeeps DEF Rest, Fail
    <2>4. dir' \in Directories /\ OutputCoherent'
        <3>1. CASE dir' = dir
            BY <1>0, <3>1 DEF Rest, ServerTypeOK, OutputCoherent
        <3>2. ASSUME NEW f \in Files, dir' = With(f, Truncated)
              PROVE  dir' \in Directories /\ OutputCoherent'
            <4>1. /\ dir' \in Directories
                  /\ \A g : g \in DOMAIN dir' <=> g \in DOMAIN dir \/ g = f
                  /\ \A g \in DOMAIN dir' : dir'[g] = IF g = f THEN Truncated ELSE dir[g]
                BY <1>0, <3>2, WithType DEF Rest, ServerTypeOK
            <4> QED BY <1>0, <4>1 DEF Rest, OutputCoherent
        <3> QED BY <2>1, <3>1, <3>2
    <2> QED BY <1>1, <2>1, <2>3, <2>4, KnownDirs DEF Rest, ServerTypeOK, PhaseInv
<1> QED BY <1>2, <1>3

LEMMA SessionStep ==
    ASSUME SessionInv, [SessionNext]_sessionVars
    PROVE  SessionInv'
<1>0. ControlsInv /\ Rest
    BY DEF SessionInv, Rest
<1>1. ControlsInv'
    BY <1>0, SessionIsMove, MoveKeepsControls
<1>2. CASE ServerStep
    <2>1. orig' = orig
        BY <1>2 DEF ServerStep, pageVars
    <2>2. CASE (StartRender \/ RenderDone \/ ClearOne \/ StartCopy \/ CopyOne) /\ UNCHANGED unseen
        <3>1. UNCHANGED net
            BY <2>2 DEF StartRender, RenderDone, ClearOne, StartCopy, CopyOne
        <3> QED BY <1>1, <2>1, <2>2, <3>1, QuietServerRest DEF SessionInv, Rest
    <2>3. CASE (NoRuntime \/ RenderFails \/ Refuse) /\ UNCHANGED unseen
        BY <1>1, <2>1, <2>3, FailedRest DEF SessionInv, Rest
    <2>4. CASE Finish /\ unseen' = ~net[FirstUnanswered].open
        BY <1>1, <2>1, <2>4, FinishRest DEF SessionInv, Rest
    <2>5. CASE (InstallFails \/ Stop \/ Launch) /\ unseen' = TRUE
        BY <1>1, <2>1, <2>5, BreakdownRest DEF SessionInv, Rest
    <2> QED BY <1>2, <2>2, <2>3, <2>4, <2>5 DEF ServerStep, Rerendering
<1>3. CASE UNCHANGED sessionVars
    <2>1. UNCHANGED <<orig, net, phase, dir, before, unseen>>
        BY <1>3 DEF sessionVars, pageVars, serverVars
    <2>2. /\ Ordered'
          /\ \A s : CurrentBody(s) => CurrentBody(s)'
          /\ \A s : Shows(s) => Shows(s)'
        BY <1>0, <2>1, SameExchanges DEF Rest
    <2>3. PhaseInv'
        BY <1>0, <2>1, <2>2 DEF Rest, PhaseInv
    <2>4. InStepInv'
        BY <1>0, <2>1, <2>2 DEF Rest, InStepInv, Served, Installing
    <2> QED BY <1>0, <1>1, <2>1, <2>2, <2>3, <2>4 DEF SessionInv, Rest, ServerTypeOK, OutputCoherent
<1>4. Rest' => SessionInv'
    BY <1>1 DEF SessionInv, Rest
<1> QED BY <1>2, <1>3, <1>4, PageStepRest, ReloadRest DEF SessionNext

-----------------------------------------------------------------------------
(* The output directory implements OutputStore                             *)

LEMMA StoreCardinality == \A S : Store!Cardinality(S) = Cardinality(S)
BY DEF Store!Cardinality, Cardinality

(* A damaged entry, in a part of a set of whole ones.                      *)
LEMMA TornIsTear ==
    ASSUME phase # "down", phase' # "down", dir \in Directories, NEW f,
           NEW base, base = Served \/ \E s \in Snapshot : base = Rendering(s),
           \A g \in DOMAIN dir : g \in DOMAIN base /\ dir[g] = base[g],
           \/ Served' = dir
           \/ f \in DOMAIN base /\ Served' = With(f, Truncated)
    PROVE  Store!Tear
<1>1. DOMAIN dir \in SUBSET DOMAIN base /\ dir = [g \in DOMAIN dir |-> dir[g]]
    BY DirType
<1>2. base \in {Served} \cup {Store!Rendering(s) : s \in Snapshot}
    BY DEF Store!Rendering, Rendering
<1>3. CASE Served' = dir
    <2> DEFINE none == {}
    <2>1. \A g : g \notin none
        OBVIOUS
    <2>2. Store!Cardinality(none) = 0 /\ none \in SUBSET DOMAIN base
        BY FS_EmptySet, StoreCardinality
    <2> HIDE DEF none
    <2>3. DOMAIN dir = DOMAIN dir \cup none /\ \A g \in DOMAIN dir : dir[g] = base[g]
        BY <2>1
    <2>4. Served' = [g \in DOMAIN dir \cup none |-> IF g \in none THEN Truncated ELSE base[g]]
        BY <1>1, <1>3, <2>1, <2>3
    <2>5. \E kept, damaged \in SUBSET DOMAIN base :
            /\ Store!Cardinality(damaged) <= 1
            /\ Served' = [g \in kept \cup damaged |-> IF g \in damaged THEN Truncated ELSE base[g]]
        <3>1. DOMAIN dir \in SUBSET DOMAIN base
            BY <1>1
        <3> USE <2>2, <3>1
        <3> WITNESS DOMAIN dir \in SUBSET DOMAIN base, none \in SUBSET DOMAIN base
        <3> QED BY <2>4
    <2> QED BY <1>2, <2>5 DEF Store!Tear
<1>4. CASE f \in DOMAIN base /\ Served' = With(f, Truncated)
    <2>1. Served' = [g \in DOMAIN dir \cup {f} |-> IF g \in {f} THEN Truncated ELSE base[g]]
        BY <1>1, <1>4 DEF With
    <2>2. Store!Cardinality({f}) = 1 /\ {f} \in SUBSET DOMAIN base
        BY <1>4, FS_Singleton, StoreCardinality
    <2> QED BY <1>1, <1>2, <2>1, <2>2 DEF Store!Tear
<1> QED BY <1>3, <1>4

LEMMA OutputInit == SessionInit => Store!StoreInit
BY DEF SessionInit, ServerInit, Served, Installing, Extracted, Store!StoreInit, Store!Extracted

LEMMA OutputStep ==
    ASSUME SessionInv, [SessionNext]_sessionVars
    PROVE  [Store!StoreNext]_<<phase # "down", Served>>
<1>0. ChannelTypeOK /\ Rest /\ dir \in Directories
    BY DEF SessionInv, ControlsInv, PageTypeOK, Rest, ServerTypeOK
<1>1. CASE UNCHANGED serverVars
    BY <1>1 DEF serverVars, Served, Installing
<1>2. CASE StartRender \/ NoRuntime \/ RenderFails \/ RenderDone \/ ClearOne \/ StartCopy \/ CopyOne \/ Refuse
    <2>1. phase' # "down" <=> phase # "down"
        BY <1>2 DEF StartRender, NoRuntime, RenderFails, RenderDone, ClearOne, StartCopy, CopyOne,
                    Refuse, serverVars
    <2>2. Served' = Served
        BY <1>2 DEF StartRender, NoRuntime, RenderFails, RenderDone, ClearOne, StartCopy, CopyOne,
                    Refuse, serverVars, Served, Installing
    <2> QED BY <2>1, <2>2
<1>3. CASE Finish /\ unseen' = ~net[FirstUnanswered].open /\ orig' = orig
    <2>1. PICK s \in Snapshot : dir = Rendering(s)
        BY <1>3, FinishRest
    <2>2. phase # "down" /\ phase' # "down" /\ Served' = dir
        BY <1>3 DEF Finish, Served, Installing
    <2>3. Store!Publish
        BY <2>1, <2>2 DEF Store!Publish, Store!Rendering, Rendering
    <2> QED BY <2>3 DEF Store!StoreNext
<1>4. CASE InstallFails
    <2>1. Installing /\ phase' = "idle" /\ Served' = dir'
        BY <1>4 DEF InstallFails, Served, Installing
    <2>2. CASE phase = "clearing"
        <3>1. \A g \in DOMAIN dir : g \in DOMAIN Served /\ dir[g] = Served[g]
            BY <1>0, <2>2 DEF Rest, PhaseInv, Served, Installing
        <3>2. dir' = dir \/ \E f \in DOMAIN dir : dir' = With(f, Truncated)
            BY <1>4, <2>2 DEF InstallFails
        <3>3. Store!Tear
            BY <1>0, <2>1, <2>2, <3>1, <3>2, TornIsTear
        <3> QED BY <3>3 DEF Store!StoreNext
    <2>3. CASE phase # "clearing"
        <3>0. phase = "copying"
            BY <2>1, <2>3 DEF Installing
        <3>1. PICK s \in Snapshot : CurrentBody(s)
            BY <1>0, <3>0 DEF Rest, PhaseInv
        <3>2. \A g \in DOMAIN dir : g \in RenderedFiles /\ dir[g] = s
            BY <1>0, <3>0, <3>1, BodyType DEF Rest, PhaseInv
        <3>3. DOMAIN Rendering(s) = RenderedFiles /\ \A g \in RenderedFiles : Rendering(s)[g] = s
            BY DEF Rendering
        <3>4. dir' = dir \/ \E f \in RenderedFiles : dir' = With(f, Truncated)
            BY <1>4, <3>0 DEF InstallFails
        <3>5. Store!Tear
            BY <1>0, <2>1, <3>0, <3>2, <3>3, <3>4, TornIsTear
        <3> QED BY <3>5 DEF Store!StoreNext
    <2> QED BY <2>2, <2>3
<1>5. CASE Stop
    <2>1. Store!Discard
        BY <1>5 DEF Stop, Store!Discard, Served, Installing, Empty
    <2> QED BY <2>1 DEF Store!StoreNext
<1>6. CASE Launch
    <2>1. Store!Launch
        BY <1>6 DEF Launch, Store!Launch, Served, Installing, Extracted, Store!Extracted
    <2> QED BY <2>1 DEF Store!StoreNext
<1>7. CASE ServerStep
    BY <1>2, <1>3, <1>4, <1>5, <1>6, <1>7 DEF ServerStep, Rerendering, pageVars
<1>8. CASE PageStep \/ Probe \/ ReloadTab \/ UNCHANGED sessionVars
    BY <1>1, <1>8 DEF PageStep, Probe, ReloadTab, sessionVars
<1> QED BY <1>7, <1>8 DEF SessionNext

-----------------------------------------------------------------------------
(* Theorems                                                                *)

(* The invariant holds throughout a session.                               *)
THEOREM SessionInvariant == SessionSpec => []SessionInv
<1>1. SessionInv /\ [SessionNext]_sessionVars => SessionInv'
    BY SessionStep
<1> QED BY <1>1, SessionInitInv, PTL DEF SessionSpec

(* Page, requests and server keep their types, whoever stops or reloads    *)
(* what.                                                                   *)
THEOREM SessionTypeCorrect == SessionSpec => []SessionTypeOK
<1>1. SessionInv => SessionTypeOK
    BY DEF SessionInv, ControlsInv, SessionTypeOK
<1> QED BY <1>1, SessionInvariant, PTL

(* _re_render() replaces the directory entry by entry, and may break down  *)
(* or be killed at any of them: entries of two renderings never meet.      *)
THEOREM OutputNeverMixes == SessionSpec => []OutputCoherent
<1>1. SessionInv => OutputCoherent
    BY DEF SessionInv
<1> QED BY <1>1, SessionInvariant, PTL

(* Between two requests the tarball is complete and of the report on       *)
(* display, or of the one whose answer is under way, unless the browser    *)
(* gave up on the request that changed it or the directory was lost.       *)
THEOREM PageStaysInStep == SessionSpec => []PageInStep
<1>1. ASSUME SessionInv, phase = "idle", ~unseen
      PROVE  Whole(dir) /\ dir["report.html"] = ShownNext
    <2>1. Whole(dir) /\ Shows(dir["report.html"])
        BY <1>1 DEF SessionInv, InStepInv, Served, Installing
    <2>2. CASE Answered = {} /\ orig = dir["report.html"]
        BY <2>1, <2>2 DEF ShownNext
    <2>3. ASSUME NEW i \in DOMAIN net, LastAnswered(i), net[i].html = dir["report.html"]
          PROVE  dir["report.html"] = ShownNext
        <3>1. DOMAIN net \subseteq Nat /\ Answered \subseteq DOMAIN net
            BY <1>1, NetType DEF SessionInv, ControlsInv, PageTypeOK, Answered
        <3>2. ASSUME NEW k \in Answered, \A j \in Answered : j <= k PROVE k = i
            BY <2>3, <3>1, <3>2 DEF LastAnswered
        <3>3. (CHOOSE k \in Answered : \A j \in Answered : j <= k) = i
            BY <2>3, <3>2 DEF LastAnswered
        <3> QED BY <2>3, <3>3 DEF ShownNext, LastAnswered
    <2> QED BY <2>1, <2>2, <2>3 DEF Shows
<1>2. SessionInv => PageInStep
    BY <1>1 DEF PageInStep
<1> QED BY <1>2, SessionInvariant, PTL

(* What clients of the GET routes are served changes as OutputStore        *)
(* allows: do_POST() publishes whole renderings, and what a breakdown      *)
(* leaves is part of one.                                                  *)
THEOREM ServerImplementsStore == SessionSpec => Output
<1>1. SessionInv /\ [SessionNext]_sessionVars => [Store!StoreNext]_<<phase # "down", Served>>
    BY OutputStep
<1> QED BY <1>1, OutputInit, SessionInvariant, PTL DEF SessionSpec, Output, Store!StoreSpec

(* What holds of the page alone holds of it with the real server: what is  *)
(* shown is posted, disabled leaves are pinned, automatic packages follow  *)
(* and Re-render stays reachable when the server dies, is launched again   *)
(* or serves a reload what a breakdown left.                               *)
THEOREM PageHoldsInSession ==
    SessionSpec => [](ShownMatchesSnapshot /\ DisabledLeafPinned /\ AutoFollowsLeaves /\ RerenderReachable)
<1>1. SessionInit => AutoFollowsLeaves /\ ButtonInv
    BY DEF SessionInit, PageInit, AutoFollowsLeaves, ButtonInv
<1>2. SessionInv /\ AutoFollowsLeaves /\ ButtonInv /\ [SessionNext]_sessionVars
        => AutoFollowsLeaves' /\ ButtonInv'
    BY SessionIsMove, MoveKeepsAutos, MoveKeepsButton DEF SessionInv
<1>3. SessionInv /\ AutoFollowsLeaves /\ ButtonInv
        => ShownMatchesSnapshot /\ DisabledLeafPinned /\ AutoFollowsLeaves /\ RerenderReachable
    BY ButtonMeansReachable DEF SessionInv, ControlsInv
<1> QED BY <1>1, <1>2, <1>3, SessionInvariant, PTL DEF SessionSpec
=============================================================================
