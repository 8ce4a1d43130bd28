------------------------------- MODULE Accounts -------------------------------
(* Profiles and who acts for them: passwords and bearer tokens              *)
(* (local_auth.py, routers/auth.py), the profile that a request acts on     *)
(* (routers/_deps.py), what requests store for a profile (routers/          *)
(* profiles.py) and the deletion of all of it                               *)
(* (ApplicationStore.delete_profile_data).                                  *)
(*                                                                          *)
(* The middleware resolves the token when a request arrives; the handler    *)
(* begins later (the body is awaited in between) and then runs alone,       *)
(* except that the GitHub sync awaits the network after it has read the     *)
(* profile.  Any other handler that awaits is like it.                      *)
(*                                                                          *)
(* Abstractions.  Of the facts of a profile only the file of its resume is  *)
(* kept, and its projects stand for all it owns in other tables.  A         *)
(* password is there or not, and a login brings the right one or not.       *)

CONSTANTS
    Profiles,
    Default,  \* the profile that is active when none was selected
    Files,    \* names of resume files
    Tokens,   \* bound: tokens issued
    Requests, \* bound: requests at a time
    Absent

ASSUME AccountsAssumption ==
    /\ Default \in Profiles
    /\ Absent \notin Profiles \cup Files \cup Tokens
    /\ "bare" \notin Files

VARIABLES
    authOn,    \* APPLYTEX_REQUIRE_AUTH, read from the environment
    resume,    \* candidate_profiles: [profile -> file, "bare", or Absent]
    projects,  \* the profiles with rows in the other tables
    protected, \* the profiles with a password
    sessions,  \* auth_sessions, by token
    selected,  \* the setting active_profile_id, or Absent
    files,     \* <<profile, file>>: the files on disk
    requests,  \* the requests that are being served
    erased,    \* profiles deleted, and not named since (history)
    revoked,   \* tokens that a sign-out or a deletion has ended (history)
    leftover   \* <<profile, file>> that no row was left with (history)

database == <<resume, projects, protected, sessions, selected>>
accountVars == <<authOn, database, files, requests, erased, revoked, leftover>>

NoRequest == [at |-> "none", bound |-> Absent, token |-> Absent,
              for |-> Absent, late |-> FALSE]
NoSession == [profile |-> Absent, state |-> "unused"]

SessionsOf(p) == {t \in Tokens : sessions[t].profile = p}
Ends(r) == requests' = [requests EXCEPT ![r] = NoRequest]

(* The requests but r go on, those which act for p without knowing better.  *)
EndsAndOvertakes(r, p, overtaken) ==
    requests' = [o \in Requests |->
        IF o = r THEN NoRequest
        ELSE [requests[o] EXCEPT
                 !.late = @ \/ requests[o].token \in overtaken \/ requests[o].for \in {p} \ {Absent}]]

-----------------------------------------------------------------------------
(* Requests.                                                                *)

Arrived(profile, token) ==
    [at |-> "arrived", bound |-> profile, token |-> token, for |-> Absent, late |-> FALSE]

(* require_bearer_when_enabled, resolve_token: an expired session is        *)
(* revoked when its token is used.                                          *)
Arrive(r, token) ==
    /\ requests[r] = NoRequest
    /\ requests' = [requests EXCEPT ![r] =
           IF token # Absent /\ sessions[token].state = "live"
           THEN Arrived(sessions[token].profile, token) ELSE Arrived(Absent, Absent)]
    /\ sessions' = IF token # Absent /\ sessions[token].state = "expired"
                   THEN [sessions EXCEPT ![token].state = "revoked"] ELSE sessions
    /\ UNCHANGED <<authOn, resume, projects, protected, selected, files,
                   erased, revoked, leftover>>

(* The request is refused, or fails before it has changed anything more.    *)
RequestEnds(r) ==
    /\ requests[r] # NoRequest
    /\ Ends(r)
    /\ UNCHANGED <<authOn, database, files, erased, revoked, leftover>>

(* get_active_profile_id                                                    *)
Active == IF selected = Absent THEN Default ELSE selected

(* resolve_request_profile_id: r acts on p.  "asked" is the profile that    *)
(* header, query or body name, if any.                                      *)
ActsOn(r, asked, p) ==
    /\ requests[r].at = "arrived"
    /\ IF authOn THEN requests[r].bound # Absent /\ asked \in {Absent, requests[r].bound}
                      /\ p = requests[r].bound
       ELSE p = IF asked # Absent THEN asked ELSE Active

(* get_candidate_profile, with what the handler stores in the row: a        *)
(* profile that is not there is created.                                    *)
Stored(p, file) == resume' = [resume EXCEPT ![p] = file]
OfProfile(p) == IF resume[p] = Absent THEN "bare" ELSE resume[p]

(* A profile that was deleted comes back when, without authentication, a    *)
(* request names it or it is the default that requests act on for want of   *)
(* another, and when a request that the deletion has overtaken goes on.     *)
Revived(r, asked, p) ==
    erased' = IF requests[r].late \/ (~authOn /\ p \in {asked, Default})
              THEN erased \ {p} ELSE erased

-----------------------------------------------------------------------------
(* Sessions.                                                                *)

(* auth_login: the profile is created before the password is looked at; the *)
(* first login sets it.  "right": it verifies, or the request is bound to   *)
(* the profile and sets another one.                                        *)
Login(r, p, right) ==
    /\ requests[r].at = "arrived"
    /\ Stored(p, OfProfile(p))
    /\ IF p \notin protected \/ right
       THEN \E t \in Tokens :
              /\ sessions[t] = NoSession
              /\ sessions' = [sessions EXCEPT ![t] = [profile |-> p, state |-> "live"]]
              /\ protected' = protected \cup {p}
              /\ selected' = IF authOn THEN selected ELSE p
       ELSE UNCHANGED <<sessions, protected, selected>>
    /\ erased' = erased \ {p}
    /\ Ends(r)
    /\ UNCHANGED <<authOn, projects, files, revoked, leftover>>

Revoke(ended) ==
    sessions' = [t \in Tokens |->
        IF t \in ended THEN [sessions[t] EXCEPT !.state = "revoked"] ELSE sessions[t]]

(* Mutant: signing out everywhere ends the session of the request only.     *)
LogoutHere(r, everywhere) ==
    /\ requests[r].at = "arrived" /\ requests[r].bound # Absent
    /\ LET ended == IF everywhere THEN SessionsOf(requests[r].bound) ELSE {requests[r].token}
       IN  /\ Revoke({requests[r].token} \cap SessionsOf(requests[r].bound))
           /\ EndsAndOvertakes(r, Absent, ended)
           /\ revoked' = revoked \cup ended
    /\ UNCHANGED <<authOn, resume, projects, protected, selected, files, erased, leftover>>
(* auth_logout: this session, or all of the profile.                        *)
Logout(r, everywhere) ==
    /\ requests[r].at = "arrived" /\ requests[r].bound # Absent
    /\ LET ended == IF everywhere THEN SessionsOf(requests[r].bound) ELSE {requests[r].token}
       IN  /\ Revoke(ended \cap SessionsOf(requests[r].bound))
           /\ EndsAndOvertakes(r, Absent, ended)
           /\ revoked' = revoked \cup ended
    /\ UNCHANGED <<authOn, resume, projects, protected, selected, files, erased, leftover>>

Expire(t) ==
    /\ sessions[t].state = "live"
    /\ sessions' = [sessions EXCEPT ![t].state = "expired"]
    /\ UNCHANGED <<authOn, resume, projects, protected, selected, files, requests,
                   erased, revoked, leftover>>

-----------------------------------------------------------------------------
(* What is stored for a profile.                                            *)

(* The handlers that read the profile, or read and save it, in one go.      *)
Visit(r, asked, p) ==
    /\ ActsOn(r, asked, p)
    /\ Stored(p, OfProfile(p))
    /\ Revived(r, asked, p)
    /\ Ends(r)
    /\ UNCHANGED <<authOn, projects, protected, sessions, selected, files, revoked, leftover>>

(* set_active_profile                                                       *)
SetActive(r, p) ==
    /\ ActsOn(r, p, p)
    /\ selected' = p
    /\ Stored(p, OfProfile(p))
    /\ Revived(r, p, p)
    /\ Ends(r)
    /\ UNCHANGED <<authOn, projects, protected, sessions, files, revoked, leftover>>

(* upload_profile_resume: the file is written before the row, and an upload *)
(* whose facts are invalid breaks off in between.  A file of another name   *)
(* stays when the row comes to name a new one.                              *)
Upload(r, asked, p, file, accepted) ==
    /\ ActsOn(r, asked, p)
    /\ files' = files \cup {<<p, file>>}
    /\ Stored(p, IF accepted THEN file ELSE OfProfile(p))
    /\ leftover' = (leftover \cup ({<<p, resume[p]>>, <<p, file>>} \cap files'))
                       \ {<<p, resume'[p]>>}
    /\ Revived(r, asked, p)
    /\ Ends(r)
    /\ UNCHANGED <<authOn, projects, protected, sessions, selected, revoked>>

(* sync_profile_github_projects reads the profile and asks GitHub ...       *)
StartSync(r, asked, p) ==
    /\ ActsOn(r, asked, p)
    /\ Stored(p, OfProfile(p))
    /\ Revived(r, asked, p)
    /\ requests' = [requests EXCEPT ![r] = [@ EXCEPT !.at = "fetching", !.for = p]]
    /\ UNCHANGED <<authOn, projects, protected, sessions, selected, files, revoked, leftover>>

(* ... and replaces its projects, whatever has become of the profile.       *)
FinishSync(r, found) ==
    /\ requests[r].at = "fetching"
    /\ LET p == requests[r].for
       IN  /\ projects' = IF found THEN projects \cup {p} ELSE projects \ {p}
           /\ erased' = IF requests[r].late THEN erased \ {p} ELSE erased
    /\ Ends(r)
    /\ UNCHANGED <<authOn, resume, protected, sessions, selected, files, revoked, leftover>>

-----------------------------------------------------------------------------
(* Deletion.                                                                *)

(* Mutant: sessions are not among the deleted tables.                       *)
TransactionKeepingSessions(p) ==
    /\ resume' = [resume EXCEPT ![p] = Absent]
    /\ projects' = projects \ {p}
    /\ protected' = protected \ {p}
    /\ sessions' = sessions
    /\ selected' = IF selected = p THEN Absent ELSE selected
    /\ erased' = erased \cup {p}
    /\ revoked' = revoked \cup SessionsOf(p)
(* All rows go together.                                                    *)
Transaction(p) ==
    /\ resume' = [resume EXCEPT ![p] = Absent]
    /\ projects' = projects \ {p}
    /\ protected' = protected \ {p}
    /\ sessions' = [t \in Tokens |-> IF t \in SessionsOf(p)
                                     THEN [profile |-> Absent, state |-> "deleted"]
                                     ELSE sessions[t]]
    /\ selected' = IF selected = p THEN Absent ELSE selected
    /\ erased' = erased \cup {p}
    /\ revoked' = revoked \cup SessionsOf(p)

(* Mutant: the path of the file is looked up when the row is gone.          *)
DeleteRowsFirst(r, asked, p) ==
    /\ ActsOn(r, asked, p)
    /\ Transaction(p)
    /\ files' = files \ {<<p, resume'[p]>>}
    /\ EndsAndOvertakes(r, p, SessionsOf(p))
    /\ UNCHANGED <<authOn, leftover>>
(* delete_profile: what files there are is read first; rows go in one       *)
(* transaction, files afterwards.                                           *)
Delete(r, asked, p) ==
    /\ ActsOn(r, asked, p)
    /\ Transaction(p)
    /\ files' = files \ {<<p, resume[p]>>}
    /\ EndsAndOvertakes(r, p, SessionsOf(p))
    /\ UNCHANGED <<authOn, leftover>>

Restarted == requests' = [r \in Requests |-> NoRequest]

(* The process dies in between.                                             *)
DeleteDies(r, asked, p) ==
    /\ ActsOn(r, asked, p)
    /\ Transaction(p)
    /\ leftover' = leftover \cup ({<<p, resume[p]>>} \cap files)
    /\ Restarted
    /\ UNCHANGED <<authOn, files>>

(* The process stops, and starts with or without authentication.            *)
Restart ==
    /\ authOn' \in BOOLEAN
    /\ Restarted
    /\ UNCHANGED <<database, files, erased, revoked, leftover>>

-----------------------------------------------------------------------------
AccountsInit ==
    /\ authOn \in BOOLEAN
    /\ resume = [p \in Profiles |-> Absent]
    /\ projects = {}
    /\ protected = {}
    /\ sessions = [t \in Tokens |-> NoSession]
    /\ selected = Absent
    /\ files = {}
    /\ requests = [r \in Requests |-> NoRequest]
    /\ erased = {}
    /\ revoked = {}
    /\ leftover = {}

Serve(r) ==
    \/ RequestEnds(r)
    \/ \E p \in Profiles : SetActive(r, p) \/ \E right \in BOOLEAN : Login(r, p, right)
    \/ \E here \in BOOLEAN : Logout(r, here) \/ FinishSync(r, here)
    \/ \E p \in Profiles, asked \in Profiles \cup {Absent} :
          \/ Visit(r, asked, p) \/ StartSync(r, asked, p)
          \/ Delete(r, asked, p) \/ DeleteDies(r, asked, p)
          \/ \E file \in Files, accepted \in BOOLEAN : Upload(r, asked, p, file, accepted)

AccountsNext ==
    \/ \E r \in Requests : Serve(r) \/ \E token \in Tokens \cup {Absent} : Arrive(r, token)
    \/ \E t \in Tokens : Expire(t)
    \/ Restart

AccountsSpec == AccountsInit /\ [][AccountsNext]_accountVars

-----------------------------------------------------------------------------
(* Properties.                                                              *)

(* The types.                                                               *)
AccountsTypeOK ==
    /\ authOn \in BOOLEAN
    /\ resume \in [Profiles -> Files \cup {"bare", Absent}]
    /\ projects \subseteq Profiles /\ protected \subseteq Profiles /\ erased \subseteq Profiles
    /\ sessions \in [Tokens -> [profile : Profiles \cup {Absent},
                                state : {"unused", "live", "expired", "revoked", "deleted"}]]
    /\ selected \in Profiles \cup {Absent}
    /\ files \subseteq Profiles \X Files
    /\ requests \in [Requests -> [at : {"none", "arrived", "fetching"},
                                  bound : Profiles \cup {Absent}, token : Tokens \cup {Absent},
                                  for : Profiles \cup {Absent}, late : BOOLEAN]]
    /\ revoked \subseteq Tokens

(* After the deletion of a profile, nothing of it comes back on its own:    *)
(* not through a token issued before, nor through the selection of the      *)
(* active profile, which requests without a name go by.  Somebody has to    *)
(* log in with it, or, without authentication, ask for it (the default      *)
(* profile also comes back by a request that names none and finds none      *)
(* selected), or a request that the deletion overtook writes for it.        *)
ErasedStaysErased ==
    \A p \in erased :
        /\ resume[p] = Absent /\ p \notin projects /\ p \notin protected
        /\ SessionsOf(p) = {} /\ selected # p

(* A sign-out, of one session or everywhere, and a deletion take effect at  *)
(* once: a request that carries a token they ended was there before them.   *)
(* Sessions expire and are issued meanwhile, and the process restarts.      *)
SignedOutIsOut ==
    \A r \in Requests : requests[r].token \in revoked => requests[r].late

(* Every file is named by the row of its profile and so goes when the       *)
(* profile goes, except those of replaced resumes, of uploads that broke    *)
(* off, and of a deletion during which the process died.                    *)
FilesHaveAnOwner ==
    \A f \in files : resume[f[1]] = f[2] \/ f \in leftover
=============================================================================
