----------------------------- MODULE ReportPage -----------------------------
(***************************************************************************)
(* The interactive part of the HTML report: the script of                  *)
(* src/src/yoinkc/templates/report.html.j2 as one browser tab runs it.     *)
(*                                                                         *)
(* The page holds two copies of the inspection snapshot, the live one and  *)
(* the one of page load, and the controls of every row: a checkbox bound   *)
(* to the row's "include", and for users and groups a drop-down bound to   *)
(* "strategy". Each handler below is one action: JavaScript runs a         *)
(* handler, and every listener of one event, without interruption.         *)
(***************************************************************************)
EXTENDS RerenderChannel, Functions

CONSTANTS
    Repos,          \* rows of the repository table
    DefaultRepos,   \* the ones whose checkbox the template disables
    Leaves,         \* rows of the dependency tree, one per leaf package name
    Autos,          \* automatic packages: in the snapshot, without a row
    Twins,          \* packages_added entries that repeat a leaf's name
    Others,         \* rows of every other section (configs, services, ...)
    Accounts,       \* rows of users and groups: checkbox and drop-down
    Strategies,     \* options of the drop-down
    TwinOf,         \* the leaf whose name a twin repeats
    Provides,       \* the leaves whose source_repo is a section of the file
    DomOrder,       \* position of a repository's row in the table
    Deps,           \* leaf_dep_tree: the automatic packages under a leaf
    InitialSnapshots

Rows  == Repos \cup Leaves \cup Others \cup Accounts
Items == Rows \cup Autos \cup Twins

Selections == [include : [Items -> BOOLEAN], strategy : [Accounts -> Strategies]]

ASSUME PageAssumption ==
    /\ Snapshot = Selections
    /\ InitialSnapshots \subseteq Snapshot
    /\ DefaultRepos \subseteq Repos
    /\ TwinOf \in [Twins -> Leaves]
    /\ Provides \in [Repos -> SUBSET Leaves]
    /\ Deps \in [Leaves -> SUBSET Autos]
    /\ DomOrder \in [Repos -> Nat]
    /\ \A q, r \in Repos : DomOrder[q] = DomOrder[r] => q = r

ASSUME RowsAreDistinct ==
    /\ Repos \cap Leaves = {} /\ Repos \cap Others = {} /\ Repos \cap Accounts = {}
    /\ Leaves \cap Others = {} /\ Leaves \cap Accounts = {} /\ Others \cap Accounts = {}
    /\ Rows \cap Autos = {} /\ Rows \cap Twins = {} /\ Autos \cap Twins = {}

VARIABLES
    snap,       \* var snapshot: what Re-render posts and Download saves
    orig,       \* var originalSnapshot: the snapshot at page load
    checked,    \* .checked of every row's checkbox
    selected,   \* .value of every strategy drop-down
    disabled,   \* leaf checkboxes disabled by the repository cascade
    dirty,
    btn,        \* which toolbar buttons are enabled
    helper,     \* is yoinkc-refine there: "probing", "available" or "absent"
    attempt     \* of checkHelperAvailable

controls == <<snap, checked, selected, disabled>>
probe    == <<helper, attempt>>
pageVars == <<snap, orig, checked, selected, disabled, dirty, btn, helper, attempt>>

MaxAttempt == 3
Buttons == {"rerender", "tarball", "download", "reset"}

PageTypeOK ==
    /\ ChannelTypeOK
    /\ snap \in Snapshot /\ orig \in Snapshot
    /\ checked \in [Rows -> BOOLEAN]
    /\ selected \in [Accounts -> Strategies]
    /\ disabled \subseteq Leaves
    /\ dirty \in BOOLEAN
    /\ btn \in [Buttons -> BOOLEAN]
    /\ helper \in {"probing", "available", "absent"}
    /\ attempt \in 0..MaxAttempt
-----------------------------------------------------------------------------
(***************************************************************************)
(* Page load                                                               *)
(***************************************************************************)

\* Leaves whose name several package entries carry: the row is bound to the
\* first entry, but the server renders its checkbox from the last one.
Ambiguous == {TwinOf[t] : t \in Twins}

RenderedCheck(s, r) ==
    IF r \in Ambiguous
    THEN s.include[CHOOSE t \in Twins : TwinOf[t] = r]
    ELSE s.include[r]

LoadedChecks(s) == [r \in Rows |-> RenderedCheck(s, r)]

LoadedButtons == [b \in Buttons |-> b = "download"]

Load(s) ==
    /\ snap' = s /\ orig' = s
    /\ checked' = LoadedChecks(s)
    /\ selected' = s.strategy
    /\ disabled' = {}
    /\ dirty' = FALSE
    /\ btn' = LoadedButtons
    /\ helper' = "probing" /\ attempt' = 0

PageInit ==
    \E s \in InitialSnapshots :
        /\ snap = s /\ orig = s
        /\ checked = LoadedChecks(s)
        /\ selected = s.strategy
        /\ disabled = {}
        /\ dirty = FALSE
        /\ btn = LoadedButtons
        /\ helper = "probing" /\ attempt = 0
        /\ net = <<>>
-----------------------------------------------------------------------------
(***************************************************************************)
(* Toolbar                                                                 *)
(***************************************************************************)

\* Fault: the drop-downs are not compared.
ChangedChecksOnly(chk, sel) == chk # LoadedChecks(orig)

\* ~isSnapshotClean(): some control differs from what it was at page load.
Changed(chk, sel) == chk # LoadedChecks(orig) \/ sel # orig.strategy

\* updateToolbar(): "found" says that the toolbar is in helper mode.
Toolbar(changed, found, b) ==
    [b EXCEPT !["rerender"] = changed \/ (~found /\ @),
              !["download"] = changed \/ (~found /\ @),
              !["reset"]    = changed]

\* The two buttons setDirty(d) switches.
DirtyButtons(d, b) == [b EXCEPT !["tarball"] = ~d, !["rerender"] = d]

\* How every edit ends. updateToolbar() and setDirty() come in either order
\* in the handlers; both orders leave the same buttons enabled.
Edit(chk, sel, inc) ==
    LET changed == Changed(chk, sel) IN
    /\ checked' = chk
    /\ selected' = sel
    /\ snap' = [include |-> inc, strategy |-> sel]
    /\ dirty' = changed
    /\ btn' = DirtyButtons(changed, Toolbar(changed, helper = "available", btn))
    /\ UNCHANGED <<orig, probe, net>>
-----------------------------------------------------------------------------
(***************************************************************************)
(* The package cascade                                                     *)
(***************************************************************************)

Covered(a, chk) == \E l \in Leaves : chk[l] /\ a \in Deps[l]

\* Fault: automatic packages are dropped, never taken back.
RecomputeAutoDepsDropsOnly(inc, chk) ==
    [i \in Items |-> inc[i] /\ (i \in Autos => Covered(i, chk))]

\* recomputeAutoDeps()
RecomputeAutoDeps(inc, chk) ==
    [i \in Items |-> IF i \in Autos THEN Covered(i, chk) ELSE inc[i]]

\* Fault: the cascade sets the checkboxes and forgets the snapshot.
CascadeIncludesForgotten(inc, forced) == inc

\* applyRepoCascade() forces every leaf of the repository to the
\* repository's own checkbox; forced maps such leaves to their new value.
CascadeChecks(chk, forced) == [r \in Rows |-> IF r \in DOMAIN forced THEN forced[r] ELSE chk[r]]
CascadeIncludes(inc, forced) == [i \in Items |-> IF i \in DOMAIN forced THEN forced[i] ELSE inc[i]]

RepoCascade(chk, inc, forced) ==
    LET chk2 == CascadeChecks(chk, forced)
        inc2 == CascadeIncludes(inc, forced)
    IN  Edit(chk2, selected, RecomputeAutoDeps(inc2, chk2))
-----------------------------------------------------------------------------
(***************************************************************************)
(* Edits. Checkboxes stay hidden until yoinkc-refine has been found; the   *)
(* strategy drop-downs are always visible.                                 *)
(***************************************************************************)

ToggleRow(r) ==
    /\ helper = "available"
    /\ r \in Others \cup Accounts
    /\ Edit([checked EXCEPT ![r] = ~@], selected, [snap.include EXCEPT ![r] = ~checked[r]])
    /\ UNCHANGED disabled

\* Fault: the cascade greys out a leaf without disabling its checkbox.
ToggleLeafUnguarded(l) ==
    /\ helper = "available"
    /\ LET chk == [checked EXCEPT ![l] = ~@]
           inc == [snap.include EXCEPT ![l] = ~checked[l]]
       IN  Edit(chk, selected, RecomputeAutoDeps(inc, chk))
    /\ UNCHANGED disabled

ToggleLeaf(l) ==
    /\ helper = "available"
    /\ l \notin disabled
    /\ LET chk == [checked EXCEPT ![l] = ~@]
           inc == [snap.include EXCEPT ![l] = ~checked[l]]
       IN  Edit(chk, selected, RecomputeAutoDeps(inc, chk))
    /\ UNCHANGED disabled

ToggleRepo(r) ==
    /\ helper = "available"
    /\ r \notin DefaultRepos
    /\ LET on == ~checked[r]
       IN  /\ RepoCascade([checked EXCEPT ![r] = on],
                          [snap.include EXCEPT ![r] = on],
                          [l \in Provides[r] |-> on])
           /\ disabled' = IF on THEN disabled \ Provides[r] ELSE disabled \cup Provides[r]

SelectStrategy(u, s) ==
    /\ Edit(checked, [selected EXCEPT ![u] = s], snap.include)
    /\ UNCHANGED disabled

ApplyStrategyToAll(s) ==
    /\ Edit(checked, [u \in Accounts |-> s], snap.include)
    /\ UNCHANGED disabled
-----------------------------------------------------------------------------
(***************************************************************************)
(* resetToOriginal(), after the confirmation. The cascade is run again for *)
(* every repository in table order, so the last repository that provides a *)
(* leaf decides about it.                                                  *)
(***************************************************************************)

Provided == {l \in Leaves : \E r \in Repos : l \in Provides[r]}

IsLastRepo(r, l) ==
    /\ l \in Provides[r]
    /\ \A q \in Repos : l \in Provides[q] => DomOrder[q] <= DomOrder[r]

LastRepo(l) == CHOOSE r \in Repos : IsLastRepo(r, l)

\* True of every finite table.
ASSUME LastRepoExists == \A l \in Provided : \E r \in Repos : IsLastRepo(r, l)

ResetForced == [l \in Provided |-> orig.include[LastRepo(l)]]

ResetChecks ==
    CascadeChecks([r \in Rows |-> orig.include[r]], ResetForced)

\* Entries without a row of their own keep their live value.
ResetIncludes ==
    RecomputeAutoDeps(
        CascadeIncludes([i \in Items |-> IF i \in Rows THEN orig.include[i] ELSE snap.include[i]],
                        ResetForced),
        ResetChecks)

ResetToOriginal ==
    /\ btn["reset"]
    /\ checked' = ResetChecks
    /\ selected' = orig.strategy
    /\ snap' = [include |-> ResetIncludes, strategy |-> orig.strategy]
    /\ disabled' = {l \in Provided : ~ResetForced[l]}
    /\ dirty' = FALSE
    /\ btn' = DirtyButtons(FALSE, Toolbar(Changed(ResetChecks, orig.strategy),
                                          helper = "available", btn))
    /\ UNCHANGED <<orig, probe, net>>
-----------------------------------------------------------------------------
(***************************************************************************)
(* Detection of yoinkc-refine                                              *)
(***************************************************************************)

\* enableHelperButtons(available)
EnableHelperButtons(available) ==
    LET enabled == [btn EXCEPT !["rerender"] = @ \/ available, !["tarball"] = TRUE]
    IN  /\ helper' = "available"
        /\ btn' = Toolbar(Changed(checked, selected), TRUE, enabled)

HelperFound(available) ==
    /\ helper = "probing"
    /\ EnableHelperButtons(available)
    /\ UNCHANGED <<controls, orig, dirty, attempt, net>>

\* Fault: one attempt too many.
RetryTooOften ==
    /\ helper = "probing"
    /\ \/ attempt <= MaxAttempt /\ attempt' = attempt + 1 /\ UNCHANGED helper
       \/ attempt > MaxAttempt /\ helper' = "absent" /\ UNCHANGED attempt
    /\ UNCHANGED <<controls, orig, dirty, btn, net>>

RetryOrGiveUp ==
    /\ helper = "probing"
    /\ \/ /\ attempt < MaxAttempt
          /\ attempt' = attempt + 1
          /\ UNCHANGED helper
       \/ /\ attempt = MaxAttempt
          /\ helper' = "absent"
          /\ UNCHANGED attempt
    /\ UNCHANGED <<controls, orig, dirty, btn, net>>
-----------------------------------------------------------------------------
(***************************************************************************)
(* Re-rendering                                                            *)
(***************************************************************************)

ClickRerender ==
    /\ btn["rerender"]
    /\ helper = "available"
    /\ dirty
    /\ Post(snap)
    /\ btn' = [btn EXCEPT !["rerender"] = FALSE]
    /\ UNCHANGED <<controls, orig, dirty, probe>>

\* document.write(): the answer's page takes the place of whatever page is
\* on display, edits made in the meantime included.
ReplacePage ==
    /\ Arrived("ok")
    /\ Load(Head(net).html)
    /\ net' = Disown(Tail(net))

\* Fault: the catch reports the error and leaves the button alone.
ReenableForgotten(own) == UNCHANGED btn

\* The catch of a fetch made by a page already replaced touches only the
\* detached buttons of that page.
ReenableRerender(own) == btn' = IF own THEN [btn EXCEPT !["rerender"] = TRUE] ELSE btn

RerenderFailed ==
    /\ Arrived("failed")
    /\ ReenableRerender(Head(net).own)
    /\ net' = Tail(net)
    /\ UNCHANGED <<controls, orig, dirty, probe>>

\* The browser's own network timeout: the same catch, while the server is
\* still rendering.
FetchTimesOut ==
    /\ \E i \in DOMAIN net :
        /\ Pending(i)
        /\ HangUp(i)
        /\ ReenableRerender(net[i].own)
    /\ UNCHANGED <<controls, orig, dirty, probe>>

\* The user reloads the tab: s is what the browser is served, and the
\* outstanding fetches of the old document are gone.
Reload(s) ==
    /\ Load(s)
    /\ net' = SubSeq([i \in DOMAIN net |-> [net[i] EXCEPT !.own = FALSE, !.open = FALSE]],
                     FirstUnanswered, Len(net))
-----------------------------------------------------------------------------
UserStep ==
    \/ \E r \in Others \cup Accounts : ToggleRow(r)
    \/ \E l \in Leaves : ToggleLeaf(l)
    \/ \E r \in Repos : ToggleRepo(r)
    \/ \E u \in Accounts, s \in Strategies : SelectStrategy(u, s)
    \/ \E s \in Strategies : ApplyStrategyToAll(s)
    \/ ResetToOriginal
    \/ ClickRerender

BrowserStep == ReplacePage \/ RerenderFailed \/ FetchTimesOut

\* The server seen from the page alone: it may fail any request, and a
\* request that succeeds is answered with the rendering of its body.
ServerAnswers ==
    /\ \E i \in DOMAIN net :
        /\ IsCurrent(i)
        /\ \E reply \in {"ok", "failed"} : Answer(i, reply, net[i].body)
    /\ UNCHANGED pageVars

PageNext ==
    \/ UserStep
    \/ BrowserStep
    \/ \E available \in BOOLEAN : HelperFound(available)
    \/ RetryOrGiveUp
    \/ ServerAnswers
    \/ Reload(orig)

PageSpec == PageInit /\ [][PageNext]_<<pageVars, net>>
-----------------------------------------------------------------------------
(***************************************************************************)
(* Properties                                                              *)
(***************************************************************************)

\* What the operator sees is what would be posted: every checkbox agrees
\* with the include flag of its entry in the live snapshot, and every
\* drop-down with the strategy, through edits, cascades, resets and
\* re-renders. Leaves whose name several entries carry are excepted.
ShownMatchesSnapshot ==
    /\ \A r \in Rows \ Ambiguous : checked[r] = snap.include[r]
    /\ selected = snap.strategy

\* A leaf the cascade has disabled is out of the snapshot, and there is an
\* unchecked repository behind it: no leaf is left disabled by a repository
\* that has come back, whatever the order of toggles, resets and re-renders.
DisabledLeafPinned ==
    \A l \in disabled :
        /\ ~checked[l] /\ ~snap.include[l]
        /\ \E r \in Repos : l \in Provides[r] /\ ~checked[r]

\* Automatic packages are all as the page was loaded, or all as the checked
\* leaves demand: an automatic package two leaves share stays in as long as
\* one of them does.
AutoFollowsLeaves ==
    \/ \A a \in Autos : snap.include[a] = orig.include[a]
    \/ \A a \in Autos : snap.include[a] = Covered(a, checked)

\* The live snapshot's rows hold what they held at page load.
Unmodified ==
    /\ \A r \in Rows \ Ambiguous : snap.include[r] = orig.include[r]
    /\ snap.strategy = orig.strategy

\* A page that is not dirty would post what it was loaded with. The toolbar
\* offers the tarball of the last rendering, and no re-render, on the
\* strength of this.
CleanMeansUnmodified == ~dirty => Unmodified

\* No step but a reset can make the dirty flag hide a modification.
OnlyResetHidesChanges ==
    [][(CleanMeansUnmodified /\ ~ResetToOriginal) => CleanMeansUnmodified']_<<pageVars, net>>

\* An operator with pending changes is never stuck: once no answer is
\* awaited, whatever failures and time-outs came before, Re-render can be
\* clicked.
RerenderReachable ==
    (helper = "available" /\ dirty /\ \A i \in DOMAIN net : ~(net[i].own /\ net[i].open))
        => btn["rerender"]

\* A confirmed reset puts every row's checkbox and drop-down back.
ResetRestoresSelections ==
    [][ResetToOriginal => Unmodified']_<<pageVars, net>>
=============================================================================
