---------------------------- MODULE CodeQaCache -----------------------------
(***************************************************************************)
(* Questions about code (code_qa.py).  query_codebase clones or pulls the  *)
(* repositories it was asked about into a cache on disk, lists their       *)
(* files, lets a model pick some, reads those and has the question         *)
(* answered from them.  Calls run in threads of their own and share the    *)
(* cache without a lock.                                                   *)
(***************************************************************************)
EXTENDS Naturals, FiniteSets, SequencesExt

CONSTANTS
  Repos,     \* cfg.code_qa_repos()
  Orders,    \* the names a call may give, those not in Repos left out
  Files,     \* paths in a repository
  Callers,   \* threads that call query_codebase
  MaxPushes, \* bound on the commits pushed to each repository
  MaxPicks,  \* the model names at most so many files (ten)
  MaxCuts    \* bound on git runs killed at their timeout, and on crashes

ASSUME CodeQaAssumption ==
  /\ Orders \subseteq Seq(Repos)
  /\ MaxPushes \in Nat /\ MaxPicks \in Nat /\ MaxCuts \in Nat

VARIABLES
  remote,    \* per repository its last commit
  copy,      \* per repository what the cache directory holds
  fetchHead, \* per repository what the last pull to write FETCH_HEAD fetched
  call,      \* per caller the call it is in
  cuts,
  spoilt     \* history: repositories with a copy that was cut off, or pulled
             \* while its clone still ran, or by a pull that got less than it
             \* had fetched

vars == <<remote, copy, fetchHead, call, cuts, spoilt>>

Commits == 1..(MaxPushes + 1)

(* begun: a clone runs.  torn: there is a .git, but not every file.        *)
Copy   == [state : {"absent", "begun", "torn", "whole"}, commit : Commits \cup {0}]
Absent == [state |-> "absent", commit |-> 0]

(* order: the repositories asked about.  todo: those still to update, then *)
(* to list, as at says.  since: the commits when the call came.  crossed:  *)
(* repositories that another call changed after they were listed.          *)
Idle == [at |-> "idle", order |-> <<>>, todo |-> <<>>, fetched |-> 0, listed |-> {}, picks |-> {},
         contents |-> {}, since |-> [r \in Repos |-> 0], crossed |-> {}]

(* What was listed or read: a repository at a commit.                      *)
State == [repo : Repos, commit : Commits \cup {0}]

Call == [at : {"idle", "update", "clone", "fetch", "checkout", "pull", "received", "merge",
               "list", "pick", "read"},
         order : Seq(Repos), todo : Seq(Repos), fetched : Commits \cup {0},
         listed : SUBSET State, picks : SUBSET [repo : Repos, file : Files],
         contents : SUBSET State, since : [Repos -> Commits \cup {0}], crossed : SUBSET Repos]

TypeOK ==
  /\ remote \in [Repos -> Commits]
  /\ copy \in [Repos -> Copy]
  /\ fetchHead \in [Repos -> Commits \cup {0}]
  /\ \A r \in Repos : /\ copy[r].commit <= remote[r] /\ fetchHead[r] <= remote[r]
                      /\ copy[r].state = "whole" => copy[r].commit # 0
  /\ call \in [Callers -> Call]
  /\ \A c \in Callers :
       /\ ToSet(call[c].todo) \subseteq ToSet(call[c].order)
       /\ call[c].at \notin {"idle", "pick", "read"} => call[c].todo # <<>>
       /\ IsFiniteSet(call[c].picks) /\ Cardinality(call[c].picks) <= MaxPicks
  /\ cuts \in 0..MaxCuts
  /\ spoilt \subseteq Repos

Init ==
  /\ remote = [r \in Repos |-> 1]
  /\ copy = [r \in Repos |-> Absent]
  /\ fetchHead = [r \in Repos |-> 0]
  /\ call = [c \in Callers |-> Idle]
  /\ cuts = 0 /\ spoilt = {}

At(c, where) == call[c].at = where
Sets(c, new) == call' = [call EXCEPT ![c] = new]

(* The repositories a call is about, and the one whose turn it is.         *)
Named(c) == ToSet(call[c].order)
Repo(c)  == Head(call[c].todo)

(* Any error, of git, of the model or of the file system, ends the call.   *)
Raises(c) == Sets(c, Idle)

(* A call changes the copy of r, and those that have listed it notice.     *)
Changes(c, r, new, after) ==
  /\ copy' = [copy EXCEPT ![r] = new]
  /\ call' = [d \in Callers |->
       IF d = c THEN after
       ELSE [call[d] EXCEPT !.crossed = @ \cup ({r} \cap { l.repo : l \in call[d].listed })]]

Cloning(r) == \E d \in Callers : call[d].at \in {"fetch", "checkout"} /\ Repo(d) = r

-----------------------------------------------------------------------------
(* query_codebase: without names it asks about every repository, in the    *)
(* order of the configuration; names it does not know are skipped, and if  *)
(* it knows none there is nothing to update or to list.                    *)
Ask(c, order) ==
  /\ At(c, "idle")
  /\ Sets(c, [Idle EXCEPT !.at = IF order = <<>> THEN "pick" ELSE "update",
                          !.order = order, !.todo = order,
                          !.since = [r \in Repos |-> IF r \in ToSet(order) THEN remote[r] ELSE 0]])
  /\ UNCHANGED <<remote, copy, fetchHead, cuts, spoilt>>

\* Mutant of Updated: the listing goes on where the updates ended.
UpdatedAll(c) ==
  LET todo == Tail(call[c].todo)
  IN  [call[c] EXCEPT !.fetched = 0, !.at = IF todo = <<>> THEN "list" ELSE "update", !.todo = todo]

(* After the last update the repositories are listed, from the first.      *)
Updated(c) ==
  LET todo == Tail(call[c].todo)
  IN  [call[c] EXCEPT !.fetched = 0,
                      !.at = IF todo = <<>> THEN "list" ELSE "update",
                      !.todo = IF todo = <<>> THEN call[c].order ELSE todo]

\* Mutant of Update: what was cloned once is taken to be up to date.
UpdateOnce(c) ==
  /\ At(c, "update")
  /\ Sets(c, IF copy[Repo(c)].state = "absent" THEN [call[c] EXCEPT !.at = "clone"] ELSE Updated(c))
  /\ UNCHANGED <<remote, copy, fetchHead, cuts, spoilt>>

(* _clone_or_update: a directory with a .git counts as a clone.            *)
Update(c) ==
  /\ At(c, "update")
  /\ Sets(c, [call[c] EXCEPT !.at = IF copy[Repo(c)].state = "absent" THEN "clone" ELSE "pull"])
  /\ UNCHANGED <<remote, copy, fetchHead, cuts, spoilt>>

(* git clone: refuses a directory that is not empty, creates the .git,     *)
(* fetches the last commit and checks its files out.                       *)
CloneStarts(c) ==
  /\ At(c, "clone")
  /\ IF copy[Repo(c)].state = "absent"
     THEN Changes(c, Repo(c), [state |-> "begun", commit |-> 0], [call[c] EXCEPT !.at = "fetch"])
     ELSE Raises(c) /\ UNCHANGED copy
  /\ UNCHANGED <<remote, fetchHead, cuts, spoilt>>

CloneFetches(c) ==
  /\ At(c, "fetch")
  /\ Sets(c, [call[c] EXCEPT !.at = "checkout", !.fetched = remote[Repo(c)]])
  /\ UNCHANGED <<remote, copy, fetchHead, cuts, spoilt>>

CloneEnds(c) ==
  /\ At(c, "checkout")
  /\ \E state \in IF copy[Repo(c)].state = "begun" THEN {"whole"} ELSE {"whole", "torn"} :
       Changes(c, Repo(c), [state |-> state, commit |-> call[c].fetched], Updated(c))
  /\ UNCHANGED <<remote, fetchHead, cuts, spoilt>>

(* A clone that fails by itself removes what it made.                      *)
CloneFails(c) ==
  /\ At(c, "fetch") \/ At(c, "checkout")
  /\ Changes(c, Repo(c), Absent, Idle)
  /\ fetchHead' = [fetchHead EXCEPT ![Repo(c)] = 0]
  /\ UNCHANGED <<remote, cuts, spoilt>>

(* git pull: fetches the last commit, writes it down in FETCH_HEAD, which  *)
(* every pull of the copy shares, and merges what it finds there.          *)
PullFetches(c) ==
  /\ At(c, "pull")
  /\ Sets(c, [call[c] EXCEPT !.at = "received", !.fetched = remote[Repo(c)]])
  /\ UNCHANGED <<remote, copy, fetchHead, cuts, spoilt>>

PullWrites(c) ==
  /\ At(c, "received") /\ copy[Repo(c)].state # "absent"
  /\ Sets(c, [call[c] EXCEPT !.at = "merge"])
  /\ fetchHead' = [fetchHead EXCEPT ![Repo(c)] = call[c].fetched]
  /\ UNCHANGED <<remote, copy, cuts, spoilt>>

(* A copy that has the commit already stays at its own.                    *)
Merged(r) == IF fetchHead[r] > copy[r].commit THEN fetchHead[r] ELSE copy[r].commit

(* Of a copy that is not whole it may check out the missing files, or find *)
(* it up to date and leave them missing.                                   *)
PullEnds(c) ==
  /\ At(c, "merge") /\ copy[Repo(c)].state # "absent" /\ fetchHead[Repo(c)] # 0
  /\ \E state \in IF copy[Repo(c)].state = "whole" THEN {"whole"} ELSE {"whole", "torn"} :
       Changes(c, Repo(c), [state |-> state, commit |-> Merged(Repo(c))], Updated(c))
  /\ spoilt' = IF Cloning(Repo(c)) \/ Merged(Repo(c)) < call[c].fetched
               THEN spoilt \cup {Repo(c)} ELSE spoilt
  /\ UNCHANGED <<remote, fetchHead, cuts>>

PullFails(c) ==
  /\ call[c].at \in {"pull", "received", "merge"}
  /\ Raises(c)
  /\ UNCHANGED <<remote, copy, fetchHead, cuts, spoilt>>

(* Git is at the copy's files: it clones it, or checks out what it pulled. *)
Writing(c) ==
  /\ call[c].at \in {"fetch", "checkout", "merge"}
  /\ copy[Repo(c)].state # "absent"

(* The 60 seconds are over and git is killed: nothing is cleaned up.  (A   *)
(* pull killed before it merges leaves the files alone, as PullFails does.) *)
GitKilled(c) ==
  /\ Writing(c)
  /\ cuts < MaxCuts /\ cuts' = cuts + 1
  /\ \E commit \in {copy[Repo(c)].commit, IF At(c, "merge") THEN Merged(Repo(c)) ELSE call[c].fetched} :
       Changes(c, Repo(c), [state |-> "torn", commit |-> commit], Idle)
  /\ spoilt' = spoilt \cup {Repo(c)}
  /\ UNCHANGED <<remote, fetchHead>>

-----------------------------------------------------------------------------
(* list_files of one repository; one that is named twice is listed anew.   *)
List(c) ==
  /\ At(c, "list")
  /\ LET r    == Repo(c)
         todo == Tail(call[c].todo)
     IN  Sets(c, [call[c] EXCEPT !.todo = todo,
                                 !.at = IF todo = <<>> THEN "pick" ELSE "list",
                                 !.listed = { l \in @ : l.repo # r }
                                              \cup {[repo |-> r, commit |-> copy[r].commit]}])
  /\ UNCHANGED <<remote, copy, fetchHead, cuts, spoilt>>

(* The model may name any file, also of a repository that was not asked    *)
(* about.                                                                  *)
Pick(c, picks) ==
  /\ At(c, "pick")
  /\ Sets(c, [call[c] EXCEPT !.at = "read", !.picks = picks])
  /\ UNCHANGED <<remote, copy, fetchHead, cuts, spoilt>>

\* Mutant of Read: the repository is updated once more before the file is read.
ReadUpdated(c, pick) ==
  /\ At(c, "read") /\ pick \in call[c].picks
  /\ copy[pick.repo].state = "whole"
  /\ LET new == [copy[pick.repo] EXCEPT !.commit = remote[pick.repo]]
     IN  Changes(c, pick.repo, new, [call[c] EXCEPT !.picks = @ \ {pick},
           !.contents = @ \cup {[repo |-> pick.repo, commit |-> new.commit]}])
  /\ UNCHANGED <<remote, fetchHead, cuts, spoilt>>

(* read_file; a file that is missing, too large or that cannot be opened   *)
(* is left out.                                                            *)
Read(c, pick) ==
  /\ At(c, "read") /\ pick \in call[c].picks
  /\ \/ /\ copy[pick.repo].state # "absent"
        /\ Sets(c, [call[c] EXCEPT !.picks = @ \ {pick},
                      !.contents = @ \cup {[repo |-> pick.repo, commit |-> copy[pick.repo].commit]}])
     \/ Sets(c, [call[c] EXCEPT !.picks = @ \ {pick}])
  /\ UNCHANGED <<remote, copy, fetchHead, cuts, spoilt>>

(* The question is answered from what was read, or the model raises, or    *)
(* reading does: a path without a common root, a file gone since isfile.   *)
Return(c) ==
  /\ call[c].at \in {"pick", "read"}
  /\ Raises(c)
  /\ UNCHANGED <<remote, copy, fetchHead, cuts, spoilt>>

-----------------------------------------------------------------------------
Push(r) ==
  /\ remote[r] <= MaxPushes
  /\ remote' = [remote EXCEPT ![r] = @ + 1]
  /\ UNCHANGED <<copy, fetchHead, call, cuts, spoilt>>

(* The process dies, and git with it.                                      *)
Crash ==
  /\ cuts < MaxCuts /\ cuts' = cuts + 1
  /\ LET cut == { r \in Repos : \E c \in Callers : Writing(c) /\ Repo(c) = r }
     IN  /\ copy' = [r \in Repos |-> IF r \in cut THEN [copy[r] EXCEPT !.state = "torn"] ELSE copy[r]]
         /\ spoilt' = spoilt \cup cut
  /\ call' = [c \in Callers |-> Idle]
  /\ UNCHANGED <<remote, fetchHead>>

Picks == { picks \in SUBSET [repo : Repos, file : Files] :
             IsFiniteSet(picks) /\ Cardinality(picks) <= MaxPicks }

Git(c) == \/ CloneStarts(c) \/ CloneFetches(c) \/ CloneEnds(c) \/ CloneFails(c)
          \/ PullFetches(c) \/ PullWrites(c) \/ PullEnds(c) \/ PullFails(c) \/ GitKilled(c)

Query(c) == \/ \E order \in Orders : Ask(c, order)
            \/ Update(c) \/ Git(c) \/ List(c)
            \/ \E picks \in Picks : Pick(c, picks)
            \/ \E pick \in call[c].picks : Read(c, pick)
            \/ Return(c)

Next == (\E c \in Callers : Query(c)) \/ (\E r \in Repos : Push(r)) \/ Crash

Spec == Init /\ [][Next]_vars

-----------------------------------------------------------------------------
(* An answer rests on every commit that was pushed before the question     *)
(* came, in the repositories it was asked about, unless git was cut off at *)
(* the copy's files, or a pull came to it while its clone still ran, or    *)
(* merged the older commit that another pull had meanwhile written down.   *)
AnswersAreFresh ==
  \A c \in Callers : \A got \in call[c].contents :
      got.repo \in Named(c) \ spoilt => got.commit >= call[c].since[got.repo]

(* What is read is of the commit whose files were listed, unless another   *)
(* call changed the copy in between.                                       *)
ReadsWhatWasListed ==
  \A c \in Callers : \A got \in call[c].contents :
    got.repo \in Named(c) \ call[c].crossed => got \in call[c].listed
=============================================================================
