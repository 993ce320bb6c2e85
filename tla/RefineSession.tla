---------------------------- MODULE RefineSession ----------------------------
(***************************************************************************)
(* One browser tab and one yoinkc-refine process: ReportPage and           *)
(* RefineServer joined by the requests both see. The user may reload the   *)
(* tab, the browser may give up on a request the server goes on with, and  *)
(* the server may be stopped and launched again under a page left open.    *)
(***************************************************************************)
EXTENDS ReportPage, RefineServer

\* History: output_dir has changed, or may have, without the page being told.
VARIABLE unseen

sessionVars == <<pageVars, net, serverVars, unseen>>

Whole(d) == d = Extracted \/ \E s \in Snapshot : d = Rendering(s)

SessionTypeOK == PageTypeOK /\ ServerTypeOK /\ unseen \in BOOLEAN

SessionInit ==
    /\ PageInit /\ ServerInit
    /\ orig = TarballSnapshot
    /\ unseen = FALSE

PageStep ==
    /\ UserStep \/ BrowserStep \/ RetryOrGiveUp
    /\ UNCHANGED <<serverVars, unseen>>

\* GET /api/health
Probe ==
    /\ phase = "idle"
    /\ \E available \in BOOLEAN : HelperFound(available)
    /\ UNCHANGED <<serverVars, unseen>>

\* GET /
ReloadTab ==
    /\ phase = "idle"
    /\ "report.html" \in DOMAIN dir
    /\ dir["report.html"] # Truncated
    /\ Reload(dir["report.html"])
    /\ unseen' = ~Whole(dir)
    /\ UNCHANGED serverVars

Rerendering == StartRender \/ NoRuntime \/ RenderFails \/ RenderDone \/ ClearOne \/ StartCopy \/ CopyOne

ServerStep ==
    /\ UNCHANGED pageVars
    /\ \/ (Rerendering \/ Refuse) /\ UNCHANGED unseen
       \/ Finish /\ unseen' = ~net[FirstUnanswered].open
       \/ (InstallFails \/ Stop \/ Launch) /\ unseen' = TRUE

SessionNext == PageStep \/ Probe \/ ReloadTab \/ ServerStep

(***************************************************************************)
(* Fairness. A container may run for ever, its time-out may not: of the    *)
(* ways a rendering can end only RenderTimesOut is certain. Everything     *)
(* else is code that runs to its end, and answers that reach the browser.  *)
(***************************************************************************)
ServerRuns ==
    /\ StartRender \/ RenderTimesOut \/ ClearOne \/ StartCopy \/ CopyOne \/ Finish \/ Refuse
    /\ ServerStep

AnswerArrives == (ReplacePage \/ RerenderFailed) /\ PageStep

SessionSpec ==
    /\ SessionInit /\ [][SessionNext]_sessionVars
    /\ WF_sessionVars(ServerRuns)
    /\ WF_sessionVars(AnswerArrives)
-----------------------------------------------------------------------------
(***************************************************************************)
(* Properties                                                              *)
(***************************************************************************)

Answered == {i \in DOMAIN net : net[i].reply = "ok"}

\* The report the page shows once it has seen the answers under way.
ShownNext == IF Answered = {} THEN orig
             ELSE net[CHOOSE i \in Answered : \A j \in Answered : j <= i].html

\* The tarball and the page agree: between two requests the directory is
\* complete and is what the page shows or is about to show, with edits made,
\* requests failing or timing out and further requests queued in between -
\* unless the browser gave up on the very request that changed it, or the
\* directory was lost.
PageInStep ==
    (phase = "idle" /\ ~unseen) => Whole(dir) /\ dir["report.html"] = ShownNext

\* The single-threaded server works off its requests, and the page gets an
\* answer to each, a container that hangs notwithstanding.
QueueDrains == (Len(net) = MaxPosts) ~> (Len(net) < MaxPosts)
=============================================================================
