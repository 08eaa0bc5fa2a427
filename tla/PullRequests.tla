---------------------------- MODULE PullRequests ----------------------------
(***************************************************************************)
(* What the engine writes on the forge beside the commit status: a comment *)
(* on the pull request a critical path runs through, found again by a      *)
(* marker and updated, and a pull request of its own with the fix for a    *)
(* path, on an admin's request.                                            *)
(*                                                                         *)
(* Every call of the forge is a step that may fail, or land and lose its   *)
(* answer.  The commenter runs in the passes of the replica that leads;    *)
(* requests for a fix come to any replica, several at once.                *)
(***************************************************************************)
EXTENDS Integers, FiniteSets, Sequences

CONSTANTS
  Commenters,       \* replicas
  CommentedPaths,           \* the critical paths through the pull request
  Bodies,           \* what a comment on a path may say
  PageSize,         \* comments per page of the forge
  MaxCommentPages,  \* pages searched for the marker
  FixRequests,      \* requests for the fix of one path
  FilesOf,          \* request -> the files of its fix
  MaxChat,          \* bound: comments of people
  MaxReposts,       \* bound: passes of the commenter
  MaxForgeFaults    \* bound: failing calls, lost answers, changes of leader and restarts

\* No path, and no text.
Blank == ""

\* A comment of a person is marked for no path.
ASSUME ForgeAssumption == PageSize \in Nat /\ MaxCommentPages \in Nat /\ Blank \notin CommentedPaths

VARIABLES
  says,       \* path -> what its comment ought to say, Blank when it does not count
  comments,   \* the comments on the pull request, oldest first
  leads,      \* the replica that leads
  landed,     \* replica -> path -> the body it landed last
  post,       \* replica -> the comment it is posting
  shown,      \* path -> bodies the forge has shown (observation only)
  excused,    \* two replicas were posting at once (observation only)
  branch,     \* the branch of the fix: whether it is there, and its files
  opened,     \* the fix's pull requests: the request each answers and its files
  fix,        \* request -> how far it is
  chat, reposts, forgeFaults

commentVars == <<says, comments, leads, landed, post, shown, excused, chat, reposts>>
fixVars == <<branch, opened, fix>>
forgeVars == <<commentVars, fixVars, forgeFaults>>

Nothing == [at |-> "idle"]
NoBranch == [there |-> FALSE, files |-> {}]

ForgeInit ==
  /\ says \in [CommentedPaths -> Bodies \cup {Blank}]
  /\ comments = << >>
  /\ leads \in Commenters
  /\ landed = [r \in Commenters |-> [p \in CommentedPaths |-> Blank]]
  /\ post = [r \in Commenters |-> Nothing]
  /\ shown = [p \in CommentedPaths |-> {}]
  /\ excused = FALSE
  /\ branch = NoBranch /\ opened = {}
  /\ fix = [q \in FixRequests |-> [at |-> "none"]]
  /\ chat = 0 /\ reposts = 0 /\ forgeFaults = 0

Misfires == forgeFaults < MaxForgeFaults /\ forgeFaults' = forgeFaults + 1
Works == UNCHANGED forgeFaults

---------------------------------------------------------------------------
(***************************************************************************)
(* The commenter.                                                          *)
(***************************************************************************)

Others(r) == \E x \in Commenters \ {r} : post[x] # Nothing

\* A pass: a path that counts against the change, and whose comment is not as landed last.
Upsert(r, p) ==
  /\ leads = r /\ post[r] = Nothing /\ reposts < MaxReposts
  /\ says[p] # Blank /\ landed[r][p] # says[p]
  /\ post' = [post EXCEPT ![r] = [at |-> "find", route |-> p, body |-> says[p], id |-> 0]]
  /\ reposts' = reposts + 1
  /\ excused' = (excused \/ Others(r))
  /\ UNCHANGED <<says, comments, leads, landed, shown, chat, fixVars, forgeFaults>>

Marked(p) == {i \in DOMAIN comments : comments[i].route = p}

\* Fault: only the first page is searched.
SearchedOnePage == PageSize

\* How many comments the search for the marker covers.
Searched == PageSize * MaxCommentPages

Find(r) ==
  /\ post[r].at = "find"
  /\ LET found == {i \in Marked(post[r].route) : i <= Searched}
         Found(i) == post' = [post EXCEPT ![r] = [at |-> "write", route |-> @.route, body |-> @.body, id |-> i]]
     IN \/ found = {} /\ Found(0) /\ Works
        \/ (\E i \in found : Found(i) /\ \A j \in found : i <= j) /\ Works
        \/ post' = [post EXCEPT ![r] = Nothing] /\ Misfires
  /\ UNCHANGED <<says, comments, leads, landed, shown, excused, chat, reposts, fixVars>>

Written(w) ==
  IF w.id = 0 THEN Append(comments, [route |-> w.route, body |-> w.body])
  ELSE [comments EXCEPT ![w.id].body = w.body]

\* Fault: what was sent is taken for landed.
RememberedAnyhow(p, old, body, ok) == [old EXCEPT ![p] = body]

\* remember, once the forge has answered.
Remembered(p, old, body, ok) == IF ok THEN [old EXCEPT ![p] = body] ELSE old

\* create or update: answered, landed with its answer lost, or failed.
WriteComment(r) ==
  LET w == post[r]
      Lands == /\ comments' = Written(w)
               /\ shown' = [shown EXCEPT ![w.route] = @ \cup {w.body}]
      Ends(ok) == landed' = [landed EXCEPT ![r] = Remembered(w.route, @, w.body, ok)]
  IN /\ w.at = "write"
     /\ \/ Lands /\ Ends(TRUE) /\ Works
        \/ Lands /\ Ends(FALSE) /\ Misfires
        \/ UNCHANGED <<comments, shown>> /\ Ends(FALSE) /\ Misfires
     /\ post' = [post EXCEPT ![r] = Nothing]
     /\ UNCHANGED <<says, leads, excused, chat, reposts, fixVars>>

\* The graph moves: the score, the reason, or whether the path counts.
Reworded(p, body) ==
  /\ says[p] # body /\ reposts < MaxReposts
  /\ says' = [says EXCEPT ![p] = body]
  /\ UNCHANGED <<comments, leads, landed, post, shown, excused, chat, reposts, fixVars, forgeFaults>>

PersonComments ==
  /\ chat < MaxChat /\ chat' = chat + 1
  /\ comments' = Append(comments, [route |-> Blank, body |-> Blank])
  /\ UNCHANGED <<says, leads, landed, post, shown, excused, reposts, fixVars, forgeFaults>>

LeaderChanges(r) ==
  /\ leads # r /\ Misfires
  /\ leads' = r
  /\ UNCHANGED <<says, comments, landed, post, shown, excused, chat, reposts, fixVars>>

RestartCommenter(r) ==
  /\ Misfires
  /\ landed' = [landed EXCEPT ![r] = [p \in CommentedPaths |-> Blank]]
  /\ post' = [post EXCEPT ![r] = Nothing]
  /\ UNCHANGED <<says, comments, leads, shown, excused, chat, reposts, fixVars>>

---------------------------------------------------------------------------
(***************************************************************************)
(* The fix for a path, as a pull request.  The branch is named for the     *)
(* path, so all requests for one path share it.                            *)
(***************************************************************************)

Goes(q, step) == fix' = [fix EXCEPT ![q] = step]
Failed == [at |-> "failed"]

\* The default branch and its head are read, which changes nothing.
OpenRemediationPR(q) ==
  /\ fix[q].at = "none"
  /\ \/ Goes(q, [at |-> "branch"]) /\ Works
     \/ Goes(q, Failed) /\ Misfires
  /\ UNCHANGED <<commentVars, branch, opened>>

\* Fault: a branch that is there already will do.
BranchGrantedAnyhow == TRUE

\* The forge refuses a reference that exists.
BranchGranted == ~branch.there

CreateBranch(q) ==
  /\ fix[q].at = "branch"
  /\ \/ /\ BranchGranted /\ Works
        /\ branch' = [branch EXCEPT !.there = TRUE]
        /\ Goes(q, [at |-> "commit", left |-> FilesOf[q]])
     \/ /\ BranchGranted /\ Misfires
        /\ branch' \in {branch, [branch EXCEPT !.there = TRUE]}
        /\ Goes(q, Failed)
     \/ /\ ~BranchGranted /\ Works
        /\ Goes(q, Failed) /\ UNCHANGED branch
  /\ UNCHANGED <<commentVars, opened>>

\* One file, in the order of the request; a file that is there is not overwritten.
CommitFile(q) ==
  /\ fix[q].at = "commit" /\ fix[q].left # {}
  /\ \E f \in fix[q].left :
       \/ /\ f \notin branch.files /\ Works
          /\ branch' = [branch EXCEPT !.files = @ \cup {f}]
          /\ Goes(q, [fix[q] EXCEPT !.left = @ \ {f}])
       \/ /\ f \notin branch.files /\ Misfires
          /\ branch' \in {branch, [branch EXCEPT !.files = @ \cup {f}]}
          /\ Goes(q, Failed)
       \/ /\ f \in branch.files /\ Works
          /\ Goes(q, Failed) /\ UNCHANGED branch
  /\ UNCHANGED <<commentVars, opened>>

ReadyToOpen(step) == step.at = "commit" /\ step.left = {}

OpenPR(q) ==
  /\ ReadyToOpen(fix[q])
  /\ \/ opened' = opened \cup {[by |-> q, files |-> branch.files]} /\ Goes(q, [at |-> "done"]) /\ Works
     \/ /\ opened' \in {opened, opened \cup {[by |-> q, files |-> branch.files]}}
        /\ Goes(q, Failed) /\ Misfires
  /\ UNCHANGED <<commentVars, branch>>

ForgeNext ==
  \/ \E r \in Commenters :
       \/ \E p \in CommentedPaths : Upsert(r, p)
       \/ Find(r) \/ WriteComment(r) \/ LeaderChanges(r) \/ RestartCommenter(r)
  \/ \E p \in CommentedPaths, b \in Bodies \cup {Blank} : Reworded(p, b)
  \/ PersonComments
  \/ \E q \in FixRequests : OpenRemediationPR(q) \/ CreateBranch(q) \/ CommitFile(q) \/ OpenPR(q)

ForgeSpec == ForgeInit /\ [][ForgeNext]_forgeVars

---------------------------------------------------------------------------
(***************************************************************************)
(* Properties.                                                             *)
(***************************************************************************)

\* A path has one comment on a pull request, whatever calls fail or lose their answers
\* and however often replicas restart or the leader changes; two when two replicas were
\* posting at once, or the marker is further back than the search goes (upsert, find).
OneCommentPerPath ==
  \A p \in CommentedPaths : Cardinality(Marked(p)) > 1 =>
    excused \/ \A i \in Marked(p) : i > PageSize * MaxCommentPages

\* What a replica takes for landed has been on the pull request: a body the forge never
\* showed is not skipped as unchanged at the next pass (upsert, remember).
PostedWasShown ==
  \A r \in Commenters, p \in CommentedPaths : landed[r][p] # Blank => landed[r][p] \in shown[p]

\* A fix's pull request carries the files of one request, all of them, when several
\* admins ask at once and whatever call of whose fails (openRemediationPR, OpenPR).
FixIsWhole == \A o \in opened : o.files = FilesOf[o.by]

\* What the manual says of the comment: the action layer "upserts a single comment per
\* path (idempotent across the analyzer's repeated passes)".
SingleComment == \A p \in CommentedPaths : Cardinality(Marked(p)) <= 1

\* The pull request shows each path's verdict, once (upsert, find, remember).
CommentsHold == OneCommentPerPath /\ PostedWasShown
=============================================================================
