----------------------------- MODULE WatchlistFeed -----------------------------
(***************************************************************************)
(* The watchlist feed (watchlist.py, routers/watchlist.py and the feed     *)
(* part of application_store.py): a refresh of a profile fetches every     *)
(* board the profile follows and then, in one go, adds what matches to the *)
(* shared table of jobs and prunes what a board no longer lists.           *)
(*                                                                         *)
(* The scheduled loop and "refresh now" may run at the same time.  A       *)
(* refresh awaits the boards only; everything after the last answer runs   *)
(* without an await and is one step.  Users edit watchlists, search and    *)
(* apply meanwhile.                                                        *)
(*                                                                         *)
(* Abstractions.  "listed" holds the postings that a board lists and that  *)
(* pass a profile's preferences, which do not change here.  Scores,        *)
(* first_seen_at, counters and the records of past refreshes are left out, *)
(* and a request that follows several boards is several steps.             *)
(***************************************************************************)
EXTENDS Naturals, FiniteSets

CONSTANTS
    Profiles,    \* profile ids
    NoProfile,   \* the owner of a job without a row, and of an idle refresh
    Boards,      \* public boards: provider and board token
    Postings,    \* external ids of the postings on a board
    Refreshers   \* how many refreshes can run at once

ASSUME WatchlistAssumption == NoProfile \notin Profiles

(* _stable_job_id: the same posting has the same id in every profile.      *)
Jobs == Boards \X Postings
BoardOf(j) == j[1]

VARIABLES
    listed,      \* per profile, the postings that its boards list and that suit it
    entry,       \* watchlist_entries: "none", or "on" / "off" by enabled
    row,         \* the jobs table
    applied,     \* <<profile, job>> of every application
    refreshing,  \* the profile a refresh works on
    got,         \* what a refresh has from each board
    broken       \* the refreshes of which an entry was deleted meanwhile

vars == <<listed, entry, row, applied, refreshing, got, broken>>

(* A row belongs to captured_for_profile_id.  In the feed it carries the   *)
(* watchlist_entry_id: "watched" if that entry exists, "left" if it was    *)
(* deleted (following the board again makes a new entry).                  *)
Rows == [owner : Profiles \cup {NoProfile}, feed : {"no", "watched", "left"}]

NoRow == [owner |-> NoProfile, feed |-> "no"]
Stored(j) == row[j].owner # NoProfile
InFeed(p, j) == row[j] = [owner |-> p, feed |-> "watched"]

Answers == [state : {"unwatched", "fetching", "failed", "fetched"}, jobs : SUBSET Jobs]

Answer(state, jobs) == [state |-> state, jobs |-> jobs]
NoAnswers == [b \in Boards |-> Answer("unwatched", {})]

TypeOK ==
    /\ listed \in [Profiles -> SUBSET Jobs]
    /\ entry \in [Profiles -> [Boards -> {"none", "on", "off"}]]
    /\ row \in [Jobs -> Rows]
    /\ applied \subseteq Profiles \X Jobs
    /\ refreshing \in [Refreshers -> Profiles \cup {NoProfile}]
    /\ got \in [Refreshers -> [Boards -> Answers]]
    /\ broken \subseteq {f \in Refreshers : refreshing[f] # NoProfile}

Init ==
    /\ listed \in [Profiles -> SUBSET Jobs]
    /\ entry = [p \in Profiles |-> [b \in Boards |-> "none"]]
    /\ row = [j \in Jobs |-> NoRow]
    /\ applied = {}
    /\ refreshing = [f \in Refreshers |-> NoProfile]
    /\ got = [f \in Refreshers |-> NoAnswers]
    /\ broken = {}

-----------------------------------------------------------------------------
(* A refresh.                                                              *)

(* refresh up to the gather: the enabled entries are read once.  Without   *)
(* any the refresh ends at once.                                           *)
Start(f, p) ==
    /\ refreshing[f] = NoProfile
    /\ \E b \in Boards : entry[p][b] = "on"
    /\ refreshing' = [refreshing EXCEPT ![f] = p]
    /\ got' = [got EXCEPT ![f] =
                  [b \in Boards |-> IF entry[p][b] = "on" THEN Answer("fetching", {})
                                    ELSE Answer("unwatched", {})]]
    /\ UNCHANGED <<listed, entry, row, applied, broken>>

Fetching(f, b) == refreshing[f] # NoProfile /\ got[f][b].state = "fetching"

(* _fetch_entry: the board answers with what it lists now ...              *)
FetchOk(f, b) ==
    /\ Fetching(f, b)
    /\ got' = [got EXCEPT ![f][b] =
                  Answer("fetched", {j \in listed[refreshing[f]] : BoardOf(j) = b})]
    /\ UNCHANGED <<listed, entry, row, applied, refreshing, broken>>

(* ... or the request fails.                                               *)
FetchFails(f, b) ==
    /\ Fetching(f, b)
    /\ got' = [got EXCEPT ![f][b] = Answer("failed", {})]
    /\ UNCHANGED <<listed, entry, row, applied, refreshing, broken>>

Answered(f) ==
    /\ refreshing[f] # NoProfile
    /\ \A b \in Boards : got[f][b].state # "fetching"

Matched(f) == UNION {got[f][b].jobs : b \in Boards}

(* Mutants of Stale. *)
StaleThoughFailed(f) ==
    LET p == refreshing[f]
    IN  {j \in Jobs : /\ InFeed(p, j)
                      /\ got[f][BoardOf(j)].state \in {"fetched", "failed"}
                      /\ j \notin Matched(f)
                      /\ <<p, j>> \notin applied}

StaleThoughApplied(f) ==
    LET p == refreshing[f]
    IN  {j \in Jobs : /\ InFeed(p, j)
                      /\ got[f][BoardOf(j)].state = "fetched"
                      /\ j \notin Matched(f)}

NeverStale(f) == {}

(* prune_feed_jobs, for the boards that answered.                          *)
Stale(f) ==
    LET p == refreshing[f]
    IN  {j \in Jobs : /\ InFeed(p, j)
                      /\ got[f][BoardOf(j)].state = "fetched"
                      /\ j \notin Matched(f)
                      /\ <<p, j>> \notin applied}

(* Mutant of Merged: a row that is in the table already is left alone.     *)
MergedIfNew(f) ==
    [j \in Jobs |->
        IF j \in Matched(f) /\ ~Stored(j) THEN [owner |-> refreshing[f], feed |-> "watched"]
        ELSE IF j \in Stale(f) THEN NoRow
        ELSE row[j]]

(* upsert_feed_jobs takes a row over from whichever profile had it.        *)
Merged(f) ==
    [j \in Jobs |->
        IF j \in Matched(f) THEN [owner |-> refreshing[f], feed |-> "watched"]
        ELSE IF j \in Stale(f) THEN NoRow
        ELSE row[j]]

(* A refresh that is over holds nothing.                                   *)
EndRefresh(f) ==
    /\ refreshing' = [refreshing EXCEPT ![f] = NoProfile]
    /\ got' = [got EXCEPT ![f] = NoAnswers]
    /\ broken' = broken \ {f}
    /\ UNCHANGED <<listed, entry, applied>>

Finish(f) ==
    /\ Answered(f)
    /\ f \notin broken
    /\ row' = Merged(f)
    /\ EndRefresh(f)

(* Mutant of Abort.                                                        *)
FinishAnyway(f) ==
    /\ Answered(f)
    /\ f \in broken
    /\ row' = Merged(f)
    /\ EndRefresh(f)

(* update_watchlist_entry does not find an entry that was deleted while    *)
(* the boards were fetched: the KeyError ends the refresh before anything  *)
(* is merged, whatever the other boards answered.                          *)
Abort(f) ==
    /\ Answered(f)
    /\ f \in broken
    /\ EndRefresh(f)
    /\ UNCHANGED row

-----------------------------------------------------------------------------
(* Users.                                                                  *)

(* POST /watchlist (which finds an entry of the board, or makes one) and   *)
(* PATCH /watchlist/{entry_id}.                                            *)
Follow(p, b, s) ==
    /\ s \in {"on", "off"} \ {entry[p][b]}
    /\ entry' = [entry EXCEPT ![p][b] = s]
    /\ UNCHANGED <<listed, row, applied, refreshing, got, broken>>

(* The refreshes of p that hold an entry of the boards in B.               *)
Holding(p, B) ==
    {f \in Refreshers : refreshing[f] = p /\ \E b \in B : got[f][b].state # "unwatched"}

(* DELETE /watchlist/{entry_id}: the jobs it brought keep its id.          *)
Unfollow(p, b) ==
    /\ entry[p][b] # "none"
    /\ entry' = [entry EXCEPT ![p][b] = "none"]
    /\ row' = [j \in Jobs |-> IF InFeed(p, j) /\ BoardOf(j) = b
                                THEN [owner |-> p, feed |-> "left"] ELSE row[j]]
    /\ broken' = broken \cup Holding(p, {b})
    /\ UNCHANGED <<listed, applied, refreshing, got>>

(* POST /jobs/search: save_search replaces the row of a job it found.      *)
Search(p, j) ==
    /\ row' = [row EXCEPT ![j] = [owner |-> p, feed |-> "no"]]
    /\ UNCHANGED <<listed, entry, applied, refreshing, got, broken>>

(* POST /applications, for any job in the table.                           *)
Apply(p, j) ==
    /\ Stored(j)
    /\ applied' = applied \cup {<<p, j>>}
    /\ UNCHANGED <<listed, entry, row, refreshing, got, broken>>

(* delete_profile_data.                                                    *)
DeleteProfile(p) ==
    /\ applied' = {a \in applied : a[1] # p}
    /\ row' = [j \in Jobs |-> IF row[j].owner = p THEN NoRow ELSE row[j]]
    /\ entry' = [entry EXCEPT ![p] = [b \in Boards |-> "none"]]
    /\ broken' = broken \cup Holding(p, Boards)
    /\ UNCHANGED <<listed, refreshing, got>>

(* A board puts a posting up that suits the profile, or takes it down.     *)
Relist(p, j) ==
    /\ listed' = [listed EXCEPT ![p] = IF j \in @ THEN @ \ {j} ELSE @ \cup {j}]
    /\ UNCHANGED <<entry, row, applied, refreshing, got, broken>>

RefreshStep(f) ==
    \/ \E p \in Profiles : Start(f, p)
    \/ \E b \in Boards : FetchOk(f, b) \/ FetchFails(f, b)
    \/ Finish(f) \/ Abort(f)

Next ==
    \/ \E f \in Refreshers : RefreshStep(f)
    \/ \E p \in Profiles, b \in Boards :
          Unfollow(p, b) \/ \E s \in {"on", "off"} : Follow(p, b, s)
    \/ \E p \in Profiles, j \in Jobs : Search(p, j) \/ Apply(p, j) \/ Relist(p, j)
    \/ \E p \in Profiles : DeleteProfile(p)

Spec == Init /\ [][Next]_vars

(* The scheduled loop refreshes every profile again and again, and every   *)
(* request to a board ends (30 seconds).  No board is out for ever, and    *)
(* from some time on no watchlist entry is deleted any more.               *)
FairSpec ==
    /\ Spec
    /\ \A f \in Refreshers :
          /\ WF_vars(RefreshStep(f))
          /\ \A b \in Boards : SF_vars(FetchOk(f, b))
    /\ \A p \in Profiles : SF_vars(\E f \in Refreshers : Start(f, p))
    /\ <>[][\A p \in Profiles : ~DeleteProfile(p) /\ \A b \in Boards : ~Unfollow(p, b)]_vars

-----------------------------------------------------------------------------
(* Properties.                                                             *)

(* prune_feed_jobs: "Jobs that already have an application for this        *)
(* profile are kept, so tracker history never loses its posting."  With    *)
(* one profile, nothing that happens takes an applied posting away ...     *)
AppliedPostingIsKept == \A a \in applied : Stored(a[2])

(* ... and with several no refresh should.  (Job ids are shared, and prune *)
(* looks at the applications of the refreshed profile only.)               *)
RefreshKeepsApplied ==
    [][\A f \in Refreshers, a \in applied :
          refreshing[f] # NoProfile /\ refreshing'[f] = NoProfile /\ Stored(a[2])
              => row'[a[2]].owner # NoProfile]_vars

(* A job in the feed belongs to an entry its profile has: a refresh that   *)
(* was under way when the entry (or the profile) was deleted brings        *)
(* nothing of it back.                                                     *)
FeedHasItsEntry ==
    \A p \in Profiles, j \in Jobs : InFeed(p, j) => entry[p][BoardOf(j)] # "none"

(* "An outage must not empty the feed": the end of a refresh changes no    *)
(* job of a board that did not answer it.                                  *)
OutageKeepsFeed ==
    [][\A f \in Refreshers, j \in Jobs :
          refreshing[f] # NoProfile /\ refreshing'[f] = NoProfile
          /\ got[f][BoardOf(j)].state = "failed" => row'[j] = row[j]]_vars

Follows(p, j) == entry[p][BoardOf(j)] = "on"

(* Under FairSpec: what a followed board lists gets into the feed, also    *)
(* with overlapping refreshes, outages and searches in between ...         *)
ListedReachesFeed ==
    \A p \in Profiles, j \in Jobs :
        j \in listed[p] /\ Follows(p, j)
            ~> InFeed(p, j) \/ j \notin listed[p] \/ ~Follows(p, j)

(* ... and what it takes down leaves the feed, unless the user applied.    *)
TakenDownLeavesFeed ==
    \A p \in Profiles, j \in Jobs :
        InFeed(p, j) /\ j \notin listed[p] /\ Follows(p, j)
            ~> \/ ~InFeed(p, j) \/ j \in listed[p] \/ ~Follows(p, j)
               \/ <<p, j>> \in applied
=============================================================================
