-------------------------- MODULE RerenderChannel --------------------------
(***************************************************************************)
(* The HTTP exchange behind the Re-render button: the POST /api/re-render  *)
(* requests of one report page (report.html.j2) to one yoinkc-refine       *)
(* process, from fetch() until its promise is settled and the server is    *)
(* done with the request.                                                  *)
(*                                                                         *)
(* yoinkc-refine serves from a single-threaded http.server.HTTPServer, so  *)
(* requests are handled one at a time, in the order they were made.        *)
(***************************************************************************)
EXTENDS Naturals, Sequences, FiniteSets

CONSTANTS
    Snapshot,   \* the selections a snapshot can hold
    MaxPosts    \* bound: requests outstanding at once

ASSUME MaxPostsAssumption == MaxPosts \in Nat

VARIABLE net    \* the outstanding requests, oldest first

(***************************************************************************)
(*   body   the snapshot that was posted                                   *)
(*   own    the page on display made the request (no page replaced it)     *)
(*   open   the browser still waits for the answer                         *)
(*   reply  "none" until the server has answered; "failed" stands for any  *)
(*          status but 200, and for a connection that was dropped          *)
(*   html   the selections embedded in the report a 200 answer carries     *)
(***************************************************************************)
Exchange ==
    [body : Snapshot, own : BOOLEAN, open : BOOLEAN,
     reply : {"none", "ok", "failed"}, html : Snapshot]

ChannelTypeOK == net \in Seq(Exchange)

Post(s) ==
    /\ Len(net) < MaxPosts
    /\ net' = Append(net, [body |-> s, own |-> TRUE, open |-> TRUE,
                           reply |-> "none", html |-> s])

\* The request the server works on, or will work on next.
Unanswered == {i \in DOMAIN net : net[i].reply = "none"}
IsCurrent(i) == i \in Unanswered /\ \A j \in Unanswered : i <= j

\* Answered requests come before all others.
FirstUnanswered == Cardinality(DOMAIN net \ Unanswered) + 1

Without(i) == SubSeq(net, 1, i - 1) \o SubSeq(net, i + 1, Len(net))

\* The server is done with request i; an answer nobody waits for is dropped.
Answer(i, reply, html) ==
    net' = IF net[i].open
           THEN [net EXCEPT ![i].reply = reply, ![i].html = html]
           ELSE Without(i)

Pending(i) == net[i].open /\ net[i].reply = "none"

\* The browser reports an error for request i; the server goes on with it.
HangUp(i) == net' = [net EXCEPT ![i].open = FALSE]

Disown(exchanges) ==
    [i \in DOMAIN exchanges |-> [exchanges[i] EXCEPT !.own = FALSE]]

\* Answers reach the page in the order they were sent.
Arrived(reply) == net # <<>> /\ Head(net).open /\ Head(net).reply = reply
=============================================================================
