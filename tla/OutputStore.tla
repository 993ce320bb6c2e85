----------------------------- MODULE OutputStore -----------------------------
(***************************************************************************)
(* What yoinkc-refine promises the clients of its GET routes ("/",         *)
(* "/snapshot", "/api/tarball", any file) about the output directory it    *)
(* serves: it holds the files of one rendering. A re-render replaces them  *)
(* all at once; when the replacement breaks down half-way, what is left is *)
(* part of the old files or part of the new ones, never some of each.      *)
(***************************************************************************)
EXTENDS Naturals, FiniteSets

CONSTANTS
    Snapshot,           \* the selections a rendering is made from
    TarballFiles,       \* top-level entries of the tarball being served
    RenderedFiles,      \* top-level entries a re-render writes
    TarballSnapshot,    \* the selections the tarball was made from
    Truncated           \* an entry that was written or removed in part

VARIABLES
    up,                 \* is anything served at all
    published           \* what a client is served: entry -> selections

Extracted == [f \in TarballFiles |-> TarballSnapshot]
Rendering(s) == [f \in RenderedFiles |-> s]

Launch == ~up /\ up' = TRUE /\ published' = Extracted

Publish ==
    /\ up
    /\ \E s \in Snapshot : published' = Rendering(s)
    /\ UNCHANGED up

\* At most one entry is damaged: the one being worked on.
Tear ==
    /\ up
    /\ \E base \in {published} \cup {Rendering(s) : s \in Snapshot} :
        \E kept, damaged \in SUBSET DOMAIN base :
            /\ Cardinality(damaged) <= 1
            /\ published' = [f \in kept \cup damaged |->
                                IF f \in damaged THEN Truncated ELSE base[f]]
    /\ UNCHANGED up

Discard == up /\ up' = FALSE /\ published' = [f \in {} |-> TarballSnapshot]

StoreInit == up = TRUE /\ published = Extracted

StoreNext == Launch \/ Publish \/ Tear \/ Discard

StoreSpec == StoreInit /\ [][StoreNext]_<<up, published>>
=============================================================================
