------------------------------- MODULE GitPush -------------------------------
(***************************************************************************)
(* git_github.py: the git repository yoinkc keeps in --output-dir and the  *)
(* GitHub repositories it is pushed to. GitPython, PyGithub and GitHub are *)
(* external: what they do is what push_to_github() and add_and_commit()    *)
(* count on, and every call may fail. A push GitHub answers with a refusal *)
(* is no failure to GitPython: Remote.push() raises only when git leaves   *)
(* no answer to read, and flags a refused branch in the list it returns.   *)
(***************************************************************************)
EXTENDS Naturals, FiniteSets, Functions

CONSTANTS
    Paths,      \* the files the output directory can hold
    MaxRuns,    \* bound: runs of yoinkc
    Specs,      \* owner/repo arguments of --push-to-github
    NoSpec      \* no remote, no --push-to-github

ASSUME PushAssumption == MaxRuns \in Nat /\ NoSpec \notin Specs

Torn == 0           \* a file that was written in part

\* A tree of files, each with the run it was rendered by.
Trees == UNION {[S -> Torn..MaxRuns] : S \in SUBSET Paths}
Nothing == [p \in {} |-> Torn]
Over(new, old) == [p \in DOMAIN new \cup DOMAIN old |-> IF p \in DOMAIN new THEN new[p] ELSE old[p]]

VARIABLES
    repo,       \* output_dir/.git: what HEAD holds, and the URL of "origin"
    github      \* the repositories on GitHub, with the branches found to refuse

gitVars == <<repo, github>>

Branches == {"main", "master"}

GitTypeOK ==
    /\ repo \in [head : Trees, origin : Specs \cup {NoSpec}]
    /\ github \in [Specs -> [exists : BOOLEAN, tree : [Branches -> Trees], refuses : SUBSET Branches]]

NoRepository == [exists |-> FALSE, tree |-> [b \in Branches |-> Nothing], refuses |-> {}]

\* Others may have created a repository by hand.
GitInit ==
    /\ repo = [head |-> Nothing, origin |-> NoSpec]
    /\ github \in [Specs -> {[NoRepository EXCEPT !.exists = e] : e \in BOOLEAN}]
-----------------------------------------------------------------------------
\* Fault: only files git does not know yet are added.
CommitNewOnly(out) ==
    /\ repo' = [repo EXCEPT !.head = Over(@, out)]
    /\ UNCHANGED github

\* init_git_repo() and add_and_commit(): index.add("*") takes every file of
\* the directory, and leaves in the index what has been deleted from it.
Commit(out) ==
    /\ repo' = [repo EXCEPT !.head = Over(out, @)]
    /\ UNCHANGED github

HasOrigin == repo.origin # NoSpec

\* An origin that is there is pointed at the repository asked for.
UseOrigin(s) ==
    /\ HasOrigin
    /\ repo' = [repo EXCEPT !.origin = s]
    /\ UNCHANGED github

\* create_repo() is refused when the repository exists.
CreateRepo(s) ==
    /\ ~github[s].exists
    /\ github' = [github EXCEPT ![s].exists = TRUE]
    /\ UNCHANGED repo

AddOrigin(s) ==
    /\ repo' = [repo EXCEPT !.origin = s]
    /\ UNCHANGED github

Upload(branch) ==
    /\ github[repo.origin].exists /\ branch \notin github[repo.origin].refuses
    /\ github' = [github EXCEPT ![repo.origin].tree[branch] = repo.head]
    /\ UNCHANGED repo

\* Others have committed to the branch or protect it, at any time before. The
\* list push() returns is dropped, the refusal in it too.
Refuse(branch) ==
    /\ github[repo.origin].exists
    /\ github' = [github EXCEPT ![repo.origin].refuses = @ \cup {branch}]
    /\ UNCHANGED repo
=============================================================================
