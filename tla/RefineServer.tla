---------------------------- MODULE RefineServer ----------------------------
(***************************************************************************)
(* yoinkc-refine: one process that serves an extracted output tarball and  *)
(* re-renders it in a container. do_POST() runs from its first line to its *)
(* answer before the server accepts anything else, and so does do_GET();   *)
(* between two requests the server is "idle". The directory is replaced    *)
(* entry by entry, and SIGINT or SIGTERM can come at any point.            *)
(***************************************************************************)
EXTENDS RerenderChannel, Functions

CONSTANTS
    TarballFiles,       \* top-level entries of the tarball being served
    RenderedFiles,      \* top-level entries the container writes
    Folders,            \* the entries that are directories
    TarballSnapshot,    \* the selections the tarball was made from
    Truncated           \* an entry that was written or removed in part

RequiredFiles == {"report.html", "inspection-snapshot.json"}

ASSUME ServerAssumption ==
    /\ RequiredFiles \subseteq TarballFiles     \* _validate_output_dir()
    /\ RequiredFiles \subseteq RenderedFiles
    /\ Folders \subseteq TarballFiles \cup RenderedFiles
    /\ TarballSnapshot \in Snapshot
    /\ Truncated \notin Snapshot

VARIABLES
    phase,      \* of _re_render(), "idle" between requests
    dir,        \* output_dir: entry -> the selections it was rendered from
    before      \* history: output_dir when its replacement began

serverVars == <<phase, dir, before>>

Files == TarballFiles \cup RenderedFiles
Installing == phase \in {"clearing", "copying"}

Extracted == [f \in TarballFiles |-> TarballSnapshot]
Rendering(s) == [f \in RenderedFiles |-> s]
Empty == [f \in {} |-> TarballSnapshot]

Directories == UNION {[S -> Snapshot \cup {Truncated}] : S \in SUBSET Files}

ServerTypeOK ==
    /\ phase \in {"idle", "rendering", "clearing", "copying", "down"}
    /\ dir \in Directories
    /\ before \in Directories

ServerInit == phase = "idle" /\ dir = Extracted /\ before = Empty
-----------------------------------------------------------------------------
(***************************************************************************)
(* POST /api/re-render                                                     *)
(***************************************************************************)

Fail(i) == Answer(i, "failed", net[i].body)

StartRender ==
    /\ phase = "idle"
    /\ Unanswered # {}
    /\ phase' = "rendering"
    /\ UNCHANGED <<dir, before, net>>

\* _find_runtime() is asked again for every request.
NoRuntime ==
    /\ phase = "idle"
    /\ \E i \in DOMAIN net : IsCurrent(i) /\ Fail(i)
    /\ UNCHANGED serverVars

\* Exit status other than 0, or no report.html.
RenderFails ==
    /\ phase = "rendering"
    /\ \E i \in DOMAIN net : IsCurrent(i) /\ Fail(i)
    /\ phase' = "idle"
    /\ UNCHANGED <<dir, before>>

\* Fault: subprocess.run() is given no time-out.
RenderNeverTimesOut == FALSE

\* subprocess.run(timeout=300). The container may run for ever, this may not.
RenderTimesOut == RenderFails

RenderDone ==
    /\ phase = "rendering"
    /\ phase' = "clearing"
    /\ before' = dir
    /\ UNCHANGED <<dir, net>>

ClearOne ==
    /\ phase = "clearing"
    /\ \E f \in DOMAIN dir : dir' = Restrict(dir, DOMAIN dir \ {f})
    /\ UNCHANGED <<phase, before, net>>

\* Fault: the new entries are copied over what is there.
StartCopyOverOld ==
    /\ phase = "clearing"
    /\ phase' = "copying"
    /\ UNCHANGED <<dir, before, net>>

StartCopy ==
    /\ phase = "clearing"
    /\ DOMAIN dir = {}
    /\ phase' = "copying"
    /\ UNCHANGED <<dir, before, net>>

With(f, v) == [g \in DOMAIN dir \cup {f} |-> IF g = f THEN v ELSE dir[g]]

CopyOne ==
    /\ phase = "copying"
    /\ \E i \in DOMAIN net, f \in RenderedFiles \ DOMAIN dir :
        IsCurrent(i) /\ dir' = With(f, net[i].body)
    /\ UNCHANGED <<phase, before, net>>

\* Fault: the answer is the report that was there before.
FinishWithOldReport ==
    /\ phase = "copying"
    /\ DOMAIN dir = RenderedFiles
    /\ \E i \in DOMAIN net : IsCurrent(i) /\ Answer(i, "ok", before["report.html"])
    /\ phase' = "idle"
    /\ before' = Empty
    /\ UNCHANGED dir

\* The answer is read back from the directory that was just filled.
Finish ==
    /\ phase = "copying"
    /\ DOMAIN dir = RenderedFiles
    /\ \E i \in DOMAIN net : IsCurrent(i) /\ Answer(i, "ok", dir["report.html"])
    /\ phase' = "idle"
    /\ before' = Empty
    /\ UNCHANGED dir

\* An OSError while the directory is replaced: no handler catches it,
\* socketserver drops the connection and the server goes on.
InstallFails ==
    /\ Installing
    /\ LET breakable == IF phase = "clearing" THEN DOMAIN dir \cap Folders
                        ELSE RenderedFiles \ DOMAIN dir
       IN  \/ UNCHANGED dir
           \/ \E f \in breakable : dir' = With(f, Truncated)
    /\ \E i \in DOMAIN net : IsCurrent(i) /\ Fail(i)
    /\ phase' = "idle"
    /\ before' = Empty
-----------------------------------------------------------------------------
(***************************************************************************)
(* The process                                                             *)
(***************************************************************************)

\* _cleanup(): SIGINT or SIGTERM, whatever the server is doing.
Stop ==
    /\ phase # "down"
    /\ phase' = "down"
    /\ dir' = Empty
    /\ before' = Empty
    /\ UNCHANGED net

\* A connection that died with the process, or finds none.
Refuse ==
    /\ phase = "down"
    /\ \E i \in DOMAIN net : IsCurrent(i) /\ Fail(i)
    /\ UNCHANGED serverVars

\* main(), run again on the tarball the user has: the one served before.
Launch ==
    /\ phase = "down"
    /\ Unanswered = {}
    /\ phase' = "idle"
    /\ dir' = Extracted
    /\ UNCHANGED <<before, net>>
-----------------------------------------------------------------------------
(***************************************************************************)
(* What the clients of the GET routes are served. They are served only     *)
(* between re-renders, so the replacement is not visible to them.          *)
(***************************************************************************)

Served == IF Installing THEN before ELSE dir

Store == INSTANCE OutputStore WITH up <- phase # "down", published <- Served

\* The directory clients see changes as OutputStore allows: whole renderings
\* replace each other, and only a breakdown leaves part of one.
Output == Store!StoreSpec

\* At no moment, a crash included, does the directory hold entries of two
\* renderings.
OutputCoherent ==
    \A f, g \in DOMAIN dir : Truncated \in {dir[f], dir[g]} \/ dir[f] = dir[g]
=============================================================================
