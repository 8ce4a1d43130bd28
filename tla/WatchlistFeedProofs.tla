-------------------------- MODULE WatchlistFeedProofs --------------------------
(***************************************************************************)
(* Proofs about WatchlistFeed, for any sets of profiles, boards, postings  *)
(* and overlapping refreshes: types, no job in the feed without an entry,  *)
(* and outages; and for an installation with one profile, that applied     *)
(* postings are kept.                                                      *)
(***************************************************************************)
EXTENDS WatchlistFeed, TLAPS

(* An entry that a refresh read and that was not deleted since is there.   *)
HeldEntryExists ==
    \A f \in Refreshers, b \in Boards :
        refreshing[f] # NoProfile /\ f \notin broken /\ got[f][b].state # "unwatched"
            => entry[refreshing[f]][b] # "none"

(* A refresh holds jobs from boards that answered it, and only these.      *)
AnswersFit ==
    \A f \in Refreshers, b \in Boards : \A j \in got[f][b].jobs :
        BoardOf(j) = b /\ got[f][b].state = "fetched"

(* The end of a refresh needs both to bring back nothing without an entry. *)
FeedIInv == TypeOK /\ HeldEntryExists /\ AnswersFit /\ FeedHasItsEntry

LEMMA JobHasBoard == \A j \in Jobs : BoardOf(j) \in Boards
BY DEF Jobs, BoardOf

(* What a refresh is about to merge belongs to entries that exist.         *)
LEMMA MatchedFits ==
    ASSUME FeedIInv, NEW f \in Refreshers, NEW j \in Matched(f)
    PROVE  j \in Jobs /\ got[f][BoardOf(j)].state = "fetched"
<1>1. PICK b \in Boards : j \in got[f][b].jobs
  BY DEF Matched
<1>2. got[f][b] \in Answers
  BY DEF FeedIInv, TypeOK
<1> QED
  BY <1>1, <1>2 DEF FeedIInv, AnswersFit, Answers

LEMMA FeedInitIInv == Init => FeedIInv
<1> SUFFICES ASSUME Init PROVE FeedIInv
  OBVIOUS
<1>1. NoAnswers \in [Boards -> Answers] /\ NoRow \in Rows
  BY DEF NoAnswers, Answers, Answer, NoRow, Rows
<1>2. TypeOK
  BY <1>1 DEF Init, TypeOK
<1>3. HeldEntryExists
  BY DEF Init, HeldEntryExists
<1>4. AnswersFit
  BY DEF Init, AnswersFit, NoAnswers, Answer
<1>5. FeedHasItsEntry
  BY WatchlistAssumption DEF Init, FeedHasItsEntry, InFeed, NoRow
<1> QED
  BY <1>2, <1>3, <1>4, <1>5 DEF FeedIInv

(* Reading the entries: what is read exists.                               *)
LEMMA StartKeepsIInv ==
    ASSUME FeedIInv, NEW f \in Refreshers, NEW p \in Profiles, Start(f, p)
    PROVE  FeedIInv'
<1> DEFINE Read == [b \in Boards |-> IF entry[p][b] = "on" THEN Answer("fetching", {})
                                      ELSE Answer("unwatched", {})]
<1> USE DEF FeedIInv
<1>1. /\ Read \in [Boards -> Answers]
      /\ \A b \in Boards : /\ Read[b].jobs = {}
                           /\ Read[b].state # "unwatched" => entry[p][b] = "on"
  BY DEF Answers, Answer
<1>2. \A g \in Refreshers : /\ got'[g] = IF g = f THEN Read ELSE got[g]
                            /\ refreshing'[g] = IF g = f THEN p ELSE refreshing[g]
  BY DEF Start, TypeOK
<1> HIDE DEF Read
<1>3. TypeOK'
  BY <1>1, WatchlistAssumption DEF Start, TypeOK, Read
<1>4. f \notin broken
  BY DEF TypeOK, Start
<1>5. HeldEntryExists'
  <2> SUFFICES ASSUME NEW g \in Refreshers, NEW b \in Boards,
                      refreshing'[g] # NoProfile, g \notin broken', got'[g][b].state # "unwatched"
               PROVE  entry'[refreshing'[g]][b] # "none"
    BY DEF HeldEntryExists
  <2>1. CASE g = f
    BY <1>1, <1>2, <2>1 DEF Start
  <2>2. CASE g # f
    BY <1>2, <2>2 DEF Start, HeldEntryExists
  <2> QED
    BY <2>1, <2>2
<1>6. AnswersFit'
  BY <1>1, <1>2 DEF AnswersFit
<1>7. FeedHasItsEntry'
  BY DEF Start, FeedHasItsEntry, InFeed
<1> QED
  BY <1>3, <1>5, <1>6, <1>7

(* An answer of a board, or its failure.                                   *)
LEMMA AnswerKeepsIInv ==
    ASSUME FeedIInv, NEW f \in Refreshers, NEW b \in Boards,
           FetchOk(f, b) \/ FetchFails(f, b)
    PROVE  FeedIInv'
<1> USE DEF FeedIInv
<1>1. PICK a \in Answers :
        /\ got' = [got EXCEPT ![f][b] = a]
        /\ a.state # "unwatched"
        /\ \A j \in a.jobs : BoardOf(j) = b /\ a.state = "fetched"
  <2>1. CASE FetchOk(f, b)
    <3>1. refreshing[f] \in Profiles
      BY <2>1 DEF FetchOk, Fetching, TypeOK
    <3>2. listed[refreshing[f]] \subseteq Jobs
      BY <3>1 DEF TypeOK
    <3> DEFINE a == Answer("fetched", {j \in listed[refreshing[f]] : BoardOf(j) = b})
    <3>3. a \in Answers
      BY <3>2 DEF Answer, Answers
    <3> QED
      BY <2>1, <3>3 DEF FetchOk, Answer
  <2>2. CASE FetchFails(f, b)
    <3>1. Answer("failed", {}) \in Answers
      BY DEF Answer, Answers
    <3> QED
      BY <2>2, <3>1 DEF FetchFails, Answer
  <2> QED
    BY <2>1, <2>2
<1>2. got[f][b].state = "fetching"
  BY DEF FetchOk, FetchFails, Fetching
<1>3. UNCHANGED <<listed, entry, row, applied, refreshing, broken>>
  BY DEF FetchOk, FetchFails
<1>4. \A g \in Refreshers, c \in Boards : got'[g][c] = IF g = f /\ c = b THEN a ELSE got[g][c]
  BY <1>1 DEF TypeOK
<1>5. TypeOK'
  BY <1>1, <1>3 DEF TypeOK
<1>6. HeldEntryExists'
  BY <1>2, <1>3, <1>4 DEF HeldEntryExists
<1>7. AnswersFit'
  BY <1>1, <1>4 DEF AnswersFit
<1>8. FeedHasItsEntry'
  BY <1>3 DEF FeedHasItsEntry, InFeed
<1> QED
  BY <1>5, <1>6, <1>7, <1>8

(* The end of a refresh that leaves a feed whose jobs have entries.        *)
LEMMA EndKeepsIInv ==
    ASSUME FeedIInv, NEW f \in Refreshers, EndRefresh(f),
           row' \in [Jobs -> Rows], FeedHasItsEntry'
    PROVE  FeedIInv'
<1> USE DEF FeedIInv
<1>1. NoAnswers \in [Boards -> Answers]
  BY DEF NoAnswers, Answers, Answer
<1>2. \A g \in Refreshers : /\ got'[g] = IF g = f THEN NoAnswers ELSE got[g]
                            /\ refreshing'[g] = IF g = f THEN NoProfile ELSE refreshing[g]
  BY DEF EndRefresh, TypeOK
<1>3. TypeOK'
  BY <1>1, <1>2 DEF EndRefresh, TypeOK
<1>4. HeldEntryExists'
  BY <1>2 DEF EndRefresh, HeldEntryExists
<1>5. AnswersFit'
  BY <1>2 DEF AnswersFit, NoAnswers, Answer
<1> QED
  BY <1>3, <1>4, <1>5

(* The merge brings in jobs of entries that exist.                         *)
LEMMA FinishKeepsIInv ==
    ASSUME FeedIInv, NEW f \in Refreshers, Finish(f)
    PROVE  FeedIInv'
<1>1. refreshing[f] \in Profiles
  BY DEF FeedIInv, TypeOK, Finish, Answered
<1>2. Merged(f) \in [Jobs -> Rows]
  BY <1>1 DEF Merged, Rows, NoRow, FeedIInv, TypeOK
<1>3. FeedHasItsEntry'
  <2> SUFFICES ASSUME NEW p \in Profiles, NEW j \in Jobs, row'[j] = [owner |-> p, feed |-> "watched"]
               PROVE  entry[p][BoardOf(j)] # "none"
    BY DEF FeedHasItsEntry, InFeed, Finish, EndRefresh
  <2>1. CASE j \in Matched(f)
    <3>1. refreshing[f] = p
      BY <2>1 DEF Finish, Merged
    <3> QED
      BY <1>1, <2>1, <3>1, MatchedFits, JobHasBoard, WatchlistAssumption
         DEF FeedIInv, HeldEntryExists, Finish
  <2>2. CASE j \notin Matched(f)
    <3>1. InFeed(p, j)
      BY <2>2, WatchlistAssumption DEF Finish, Merged, NoRow, InFeed
    <3> QED
      BY <3>1 DEF FeedIInv, FeedHasItsEntry
  <2> QED
    BY <2>1, <2>2
<1> QED
  BY <1>2, <1>3, EndKeepsIInv DEF Finish

LEMMA AbortKeepsIInv ==
    ASSUME FeedIInv, NEW f \in Refreshers, Abort(f)
    PROVE  FeedIInv'
<1>1. FeedHasItsEntry' /\ row' \in [Jobs -> Rows]
  BY DEF FeedIInv, TypeOK, Abort, EndRefresh, FeedHasItsEntry, InFeed
<1> QED
  BY <1>1, EndKeepsIInv DEF Abort

(* A deletion breaks the refreshes that hold what is deleted.              *)
LEMMA DeletionKeepsHeld ==
    ASSUME FeedIInv, NEW p \in Profiles, NEW B \in SUBSET Boards,
           broken' = broken \cup Holding(p, B), UNCHANGED <<refreshing, got>>,
           \A q \in Profiles, b \in Boards : q # p \/ b \notin B => entry'[q][b] = entry[q][b]
    PROVE  HeldEntryExists' /\ broken' \subseteq {f \in Refreshers : refreshing'[f] # NoProfile}
<1> USE DEF FeedIInv
<1>1. HeldEntryExists'
  <2> SUFFICES ASSUME NEW f \in Refreshers, NEW b \in Boards,
                      refreshing[f] # NoProfile, f \notin broken', got[f][b].state # "unwatched"
               PROVE  entry'[refreshing[f]][b] # "none"
    BY DEF HeldEntryExists
  <2>1. refreshing[f] \in Profiles
    BY DEF TypeOK
  <2>2. refreshing[f] # p \/ b \notin B
    BY DEF Holding
  <2> QED
    BY <2>1, <2>2 DEF HeldEntryExists
<1>2. broken' \subseteq {f \in Refreshers : refreshing'[f] # NoProfile}
  BY WatchlistAssumption DEF TypeOK, Holding
<1> QED
  BY <1>1, <1>2

LEMMA UnfollowKeepsIInv ==
    ASSUME FeedIInv, NEW p \in Profiles, NEW b \in Boards, Unfollow(p, b)
    PROVE  FeedIInv'
<1> USE DEF FeedIInv
<1>1. \A q \in Profiles, c \in Boards :
         entry'[q][c] = IF q = p /\ c = b THEN "none" ELSE entry[q][c]
  BY DEF Unfollow, TypeOK
<1>2. HeldEntryExists' /\ broken' \subseteq {f \in Refreshers : refreshing'[f] # NoProfile}
  <2>1. /\ broken' = broken \cup Holding(p, {b})
        /\ UNCHANGED <<refreshing, got>>
        /\ \A q \in Profiles, c \in Boards : q # p \/ c \notin {b} => entry'[q][c] = entry[q][c]
    BY <1>1 DEF Unfollow
  <2>2. {b} \in SUBSET Boards
    OBVIOUS
  <2> QED
    BY <2>1, <2>2, DeletionKeepsHeld
<1>3. \A j \in Jobs : row'[j] = IF InFeed(p, j) /\ BoardOf(j) = b
                                  THEN [owner |-> p, feed |-> "left"] ELSE row[j]
  BY DEF Unfollow
<1>4. TypeOK'
  <2>1. row' \in [Jobs -> Rows]
    BY DEF Unfollow, TypeOK, Rows
  <2>2. entry' \in [Profiles -> [Boards -> {"none", "on", "off"}]]
    BY DEF Unfollow, TypeOK
  <2> QED
    BY <1>2, <2>1, <2>2 DEF Unfollow, TypeOK
<1>5. AnswersFit'
  BY DEF Unfollow, AnswersFit
<1>6. FeedHasItsEntry'
  BY <1>1, <1>3, JobHasBoard DEF FeedHasItsEntry, InFeed
<1> QED
  BY <1>2, <1>4, <1>5, <1>6

LEMMA DeleteProfileKeepsIInv ==
    ASSUME FeedIInv, NEW p \in Profiles, DeleteProfile(p)
    PROVE  FeedIInv'
<1> USE DEF FeedIInv
<1>1. \A q \in Profiles, c \in Boards :
         entry'[q][c] = IF q = p THEN "none" ELSE entry[q][c]
  BY DEF DeleteProfile, TypeOK
<1>2. HeldEntryExists' /\ broken' \subseteq {f \in Refreshers : refreshing'[f] # NoProfile}
  BY <1>1, DeletionKeepsHeld, Boards \in SUBSET Boards DEF DeleteProfile
<1>3. \A j \in Jobs : row'[j] = IF row[j].owner = p THEN NoRow ELSE row[j]
  BY DEF DeleteProfile
<1>4. TypeOK'
  <2>1. row' \in [Jobs -> Rows]
    BY DEF DeleteProfile, TypeOK, Rows, NoRow
  <2>2. entry' \in [Profiles -> [Boards -> {"none", "on", "off"}]]
    BY DEF DeleteProfile, TypeOK
  <2>3. applied' \subseteq Profiles \X Jobs
    BY DEF DeleteProfile, TypeOK
  <2> QED
    BY <1>2, <2>1, <2>2, <2>3 DEF DeleteProfile, TypeOK
<1>5. AnswersFit'
  BY DEF DeleteProfile, AnswersFit
<1>6. FeedHasItsEntry'
  <2> SUFFICES ASSUME NEW q \in Profiles, NEW j \in Jobs, row'[j] = [owner |-> q, feed |-> "watched"]
               PROVE  entry'[q][BoardOf(j)] # "none"
    BY DEF FeedHasItsEntry, InFeed
  <2>1. row[j].owner # p /\ row[j] = [owner |-> q, feed |-> "watched"]
    BY <1>3, WatchlistAssumption DEF NoRow
  <2>2. q # p
    BY <2>1
  <2> QED
    BY <1>1, <2>1, <2>2, JobHasBoard DEF FeedHasItsEntry, InFeed
<1> QED
  BY <1>2, <1>4, <1>5, <1>6

(* Following a board, or pausing it.                                       *)
LEMMA FollowKeepsIInv ==
    ASSUME FeedIInv, NEW p \in Profiles, NEW b \in Boards, NEW s, Follow(p, b, s)
    PROVE  FeedIInv'
<1> USE DEF FeedIInv
<1>1. s \in {"on", "off"} /\ UNCHANGED <<listed, row, applied, refreshing, got, broken>>
  BY DEF Follow
<1>2. \A q \in Profiles, c \in Boards : entry'[q][c] = IF q = p /\ c = b THEN s ELSE entry[q][c]
  BY DEF Follow, TypeOK
<1>3. TypeOK'
  BY <1>1 DEF Follow, TypeOK
<1>4. HeldEntryExists'
  <2> SUFFICES ASSUME NEW f \in Refreshers, NEW c \in Boards,
                      refreshing[f] # NoProfile, f \notin broken, got[f][c].state # "unwatched"
               PROVE  entry'[refreshing[f]][c] # "none"
    BY <1>1 DEF HeldEntryExists
  <2>1. refreshing[f] \in Profiles
    BY DEF TypeOK
  <2> QED
    BY <1>1, <1>2, <2>1 DEF HeldEntryExists
<1>5. AnswersFit'
  BY <1>1 DEF AnswersFit
<1>6. FeedHasItsEntry'
  BY <1>1, <1>2, JobHasBoard DEF FeedHasItsEntry, InFeed
<1> QED
  BY <1>3, <1>4, <1>5, <1>6

(* Searches and applications, and what the boards do.                      *)
LEMMA JobStepKeepsIInv ==
    ASSUME FeedIInv, NEW p \in Profiles, NEW j \in Jobs,
           Search(p, j) \/ Apply(p, j) \/ Relist(p, j)
    PROVE  FeedIInv'
<1> USE DEF FeedIInv
<1>1. UNCHANGED <<entry, refreshing, got, broken>>
  BY DEF Search, Apply, Relist
<1>2. HeldEntryExists' /\ AnswersFit'
  BY <1>1 DEF HeldEntryExists, AnswersFit
<1>3. CASE Search(p, j)
  <2>1. \A k \in Jobs : row'[k] = IF k = j THEN [owner |-> p, feed |-> "no"] ELSE row[k]
    BY <1>3 DEF Search, TypeOK
  <2>2. TypeOK'
    BY <1>3 DEF Search, TypeOK, Rows
  <2>3. FeedHasItsEntry'
    BY <1>1, <2>1 DEF FeedHasItsEntry, InFeed
  <2> QED
    BY <1>2, <2>2, <2>3
<1>4. CASE Apply(p, j)
  <2>1. TypeOK'
    BY <1>4 DEF Apply, TypeOK
  <2>2. FeedHasItsEntry'
    BY <1>4 DEF Apply, FeedHasItsEntry, InFeed
  <2> QED
    BY <1>2, <2>1, <2>2
<1>5. CASE Relist(p, j)
  <2>1. TypeOK'
    BY <1>5 DEF Relist, TypeOK
  <2>2. FeedHasItsEntry'
    BY <1>5 DEF Relist, FeedHasItsEntry, InFeed
  <2> QED
    BY <1>2, <2>1, <2>2
<1> QED
  BY <1>3, <1>4, <1>5

LEMMA FeedStepIInv == FeedIInv /\ [Next]_vars => FeedIInv'
<1> SUFFICES ASSUME FeedIInv, [Next]_vars PROVE FeedIInv'
  OBVIOUS
<1>1. ASSUME NEW f \in Refreshers, RefreshStep(f) PROVE FeedIInv'
  BY <1>1, StartKeepsIInv, AnswerKeepsIInv, FinishKeepsIInv, AbortKeepsIInv DEF RefreshStep
<1>2. ASSUME NEW p \in Profiles, NEW b \in Boards, Unfollow(p, b) PROVE FeedIInv'
  BY <1>2, UnfollowKeepsIInv
<1>3. ASSUME NEW p \in Profiles, NEW b \in Boards, NEW s \in {"on", "off"}, Follow(p, b, s)
      PROVE  FeedIInv'
  BY <1>3, FollowKeepsIInv
<1>4. ASSUME NEW p \in Profiles, NEW j \in Jobs, Search(p, j) \/ Apply(p, j) \/ Relist(p, j)
      PROVE  FeedIInv'
  BY <1>4, JobStepKeepsIInv
<1>5. ASSUME NEW p \in Profiles, DeleteProfile(p) PROVE FeedIInv'
  BY <1>5, DeleteProfileKeepsIInv
<1>6. CASE UNCHANGED vars
  BY <1>6 DEF vars, FeedIInv, TypeOK, HeldEntryExists, AnswersFit, FeedHasItsEntry, InFeed
<1> QED
  BY <1>1, <1>2, <1>3, <1>4, <1>5, <1>6 DEF Next

(* The inductive invariant holds in every reachable state.                 *)
THEOREM FeedInvariant == Spec => []FeedIInv
<1> QED
  BY FeedInitIInv, FeedStepIInv, PTL DEF Spec

(* Entries, rows and answers keep their types, and only a refresh that is  *)
(* under way can have lost an entry (watchlist.py, application_store.py).  *)
THEOREM FeedTypeCorrect == Spec => []TypeOK
<1>1. FeedIInv => TypeOK
  BY DEF FeedIInv
<1> QED
  BY <1>1, FeedInvariant, PTL

(* A refresh brings back nothing of an entry or a profile that was deleted *)
(* while it fetched: KeyError in update_watchlist_entry ends it first.     *)
THEOREM FeedHasItsEntryAlways == Spec => []FeedHasItsEntry
<1>1. FeedIInv => FeedHasItsEntry
  BY DEF FeedIInv
<1> QED
  BY <1>1, FeedInvariant, PTL

(* An outage empties nothing: what a failed board brought stays, since a   *)
(* refresh merges and prunes only the jobs of boards that answered it.     *)
THEOREM OutageKeepsFeedAlways == Spec => OutageKeepsFeed
<1> DEFINE Outage ==
      \A f \in Refreshers, j \in Jobs :
          refreshing[f] # NoProfile /\ refreshing'[f] = NoProfile
          /\ got[f][BoardOf(j)].state = "failed" => row'[j] = row[j]
<1>1. FeedIInv /\ [Next]_vars => [Outage]_vars
  <2> SUFFICES ASSUME FeedIInv, Next, NEW f \in Refreshers, NEW j \in Jobs,
                      refreshing[f] # NoProfile, refreshing'[f] = NoProfile,
                      got[f][BoardOf(j)].state = "failed"
               PROVE  row'[j] = row[j]
    OBVIOUS
  <2>1. PICK g \in Refreshers : RefreshStep(g)
    BY DEF Next, Follow, Unfollow, Search, Apply, Relist, DeleteProfile
  <2>2. CASE Finish(g)
    <3>1. g = f
      BY <2>2 DEF Finish, EndRefresh, FeedIInv, TypeOK
    <3>2. j \notin Matched(f)
      BY MatchedFits
    <3>3. j \notin Stale(f)
      BY DEF Stale
    <3> QED
      BY <2>2, <3>1, <3>2, <3>3 DEF Finish, Merged
  <2>3. CASE ~Finish(g)
    BY <2>1, <2>3 DEF RefreshStep, Start, FetchOk, FetchFails, Abort
  <2> QED
    BY <2>2, <2>3
<1> HIDE DEF Outage
<1>2. Spec => [][Outage]_vars
  BY <1>1, FeedInvariant, PTL DEF Spec
<1> QED
  BY <1>2 DEF OutageKeepsFeed, Outage

(* With one profile, prune_feed_jobs keeps its promise: whatever is        *)
(* searched, refreshed and deleted, an application's posting stays.        *)
THEOREM AppliedPostingIsKeptAlways ==
    ASSUME NEW p, Profiles = {p}
    PROVE  Spec => []AppliedPostingIsKept
<1>1. Init => AppliedPostingIsKept
  BY DEF Init, AppliedPostingIsKept
<1>2. FeedIInv /\ AppliedPostingIsKept /\ [Next]_vars => AppliedPostingIsKept'
  <2> SUFFICES ASSUME FeedIInv, AppliedPostingIsKept, [Next]_vars PROVE AppliedPostingIsKept'
    OBVIOUS
  <2> USE DEF AppliedPostingIsKept, Stored
  <2>1. \A a \in applied : a[1] = p /\ a[2] \in Jobs /\ a = <<p, a[2]>>
    BY DEF FeedIInv, TypeOK
  <2>2. ASSUME NEW f \in Refreshers, Finish(f) PROVE AppliedPostingIsKept'
    <3>1. refreshing[f] = p
      BY <2>2 DEF FeedIInv, TypeOK, Finish, Answered
    <3>2. \A a \in applied : a[2] \notin Stale(f)
      BY <2>1, <3>1 DEF Stale
    <3>3. ASSUME NEW a \in applied PROVE row'[a[2]].owner # NoProfile
      BY <2>1, <2>2, <3>1, <3>2, WatchlistAssumption DEF Finish, Merged
    <3> QED
      BY <2>2, <3>3 DEF Finish, EndRefresh
  <2>3. ASSUME NEW f \in Refreshers, RefreshStep(f), ~Finish(f) PROVE AppliedPostingIsKept'
    BY <2>3 DEF RefreshStep, Start, FetchOk, FetchFails, Abort, EndRefresh
  <2>4. ASSUME NEW b \in Boards, Unfollow(p, b) PROVE AppliedPostingIsKept'
    BY <2>1, <2>4, WatchlistAssumption DEF Unfollow
  <2>5. ASSUME NEW j \in Jobs, Search(p, j) PROVE AppliedPostingIsKept'
    BY <2>1, <2>5, WatchlistAssumption DEF Search, FeedIInv, TypeOK
  <2>6. ASSUME NEW j \in Jobs, Apply(p, j) PROVE AppliedPostingIsKept'
    BY <2>6 DEF Apply
  <2>7. CASE DeleteProfile(p)
    BY <2>1, <2>7 DEF DeleteProfile
  <2>8. ASSUME NEW b \in Boards, NEW s \in {"on", "off"}, Follow(p, b, s) PROVE AppliedPostingIsKept'
    BY <2>8 DEF Follow
  <2>9. ASSUME NEW j \in Jobs, Relist(p, j) PROVE AppliedPostingIsKept'
    BY <2>9 DEF Relist
  <2>10. CASE UNCHANGED vars
    BY <2>10 DEF vars
  <2> QED
    BY <2>2, <2>3, <2>4, <2>5, <2>6, <2>7, <2>8, <2>9, <2>10 DEF Next
<1> QED
  BY <1>1, <1>2, FeedInvariant, PTL DEF Spec

(* One table row per job is why WatchlistShared finds a refresh that takes  *)
(* an applied posting away: with one profile none does, for any boards,     *)
(* postings and refreshes at once.                                          *)
THEOREM SoleProfileKeepsApplied ==
    ASSUME NEW p, Profiles = {p}
    PROVE  Spec => RefreshKeepsApplied
<1> DEFINE Keeps == \A f \in Refreshers, a \in applied :
               refreshing[f] # NoProfile /\ refreshing'[f] = NoProfile /\ Stored(a[2])
                   => row'[a[2]].owner # NoProfile
<1>1. FeedIInv /\ [Next]_vars => [Keeps]_vars
  <2> SUFFICES ASSUME FeedIInv, Next, NEW f \in Refreshers, NEW a \in applied,
                      refreshing[f] # NoProfile, refreshing'[f] = NoProfile, Stored(a[2])
               PROVE  row'[a[2]].owner # NoProfile
    BY DEF vars
  <2>1. a[1] = p /\ a[2] \in Jobs /\ a = <<p, a[2]>> /\ p # NoProfile
    BY WatchlistAssumption DEF FeedIInv, TypeOK
  <2>2. row' # row => \E g \in Refreshers : Finish(g)
    <3>1. ASSUME NEW q \in Profiles,
                 \/ DeleteProfile(q) \/ \E b \in Boards : Unfollow(q, b)
                 \/ \E j \in Jobs : Search(q, j)
          PROVE  FALSE
      BY <3>1 DEF DeleteProfile, Unfollow, Search
    <3>2. ASSUME NEW q \in Profiles,
                 \/ \E b \in Boards, s \in {"on", "off"} : Follow(q, b, s)
                 \/ \E j \in Jobs : Apply(q, j) \/ Relist(q, j)
          PROVE  row' = row
      BY <3>2 DEF Follow, Apply, Relist
    <3>3. ASSUME NEW g \in Refreshers, RefreshStep(g), ~Finish(g) PROVE row' = row
      BY <3>3 DEF RefreshStep, Start, FetchOk, FetchFails, Abort, EndRefresh
    <3> QED
      BY <3>1, <3>2, <3>3 DEF Next
  <2>3. ASSUME NEW g \in Refreshers, Finish(g) PROVE row'[a[2]].owner # NoProfile
    <3>1. refreshing[g] = p
      BY <2>3 DEF FeedIInv, TypeOK, Finish, Answered
    <3>2. a[2] \notin Stale(g)
      BY <2>1, <3>1 DEF Stale
    <3> QED
      BY <2>1, <2>3, <3>1, <3>2 DEF Finish, Merged, Stored
  <2> QED
    BY <2>2, <2>3 DEF Stored
<1> QED
  BY <1>1, FeedInvariant, PTL DEF Spec, RefreshKeepsApplied
=============================================================================
