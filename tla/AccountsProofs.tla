----------------------------- MODULE AccountsProofs -----------------------------
(* Proofs about Accounts, for any profiles, files, tokens and requests.     *)
EXTENDS Accounts, TLAPS

(* A token that was ended is dead for good, and only a deletion unbinds it. *)
EndedTokensAreDead ==
    /\ \A t \in revoked : sessions[t].state \in {"revoked", "deleted"}
    /\ \A t \in Tokens :
          /\ sessions[t].profile = Absent <=> sessions[t].state \in {"unused", "deleted"}
          /\ sessions[t].state = "deleted" => t \in revoked

(* A request is bound to the profile of its token, and one that is bound to *)
(* a deleted profile, or works for it, is one that the deletion overtook.   *)
BoundByToken ==
    \A r \in Requests :
        /\ requests[r].bound # Absent =>
              /\ requests[r].token \in Tokens
              /\ \/ sessions[requests[r].token].profile = requests[r].bound
                 \/ sessions[requests[r].token].state = "deleted"
        /\ requests[r].bound \in erased \/ requests[r].for \in erased => requests[r].late
        /\ requests[r].at = "fetching" => requests[r].for \in Profiles

AccountsIInv ==
    /\ AccountsTypeOK
    /\ EndedTokensAreDead
    /\ BoundByToken
    /\ ErasedStaysErased
    /\ SignedOutIsOut
    /\ FilesHaveAnOwner

-----------------------------------------------------------------------------
(* The initial states satisfy the invariant.                                *)
LEMMA AccountsInitIInv == AccountsInit => AccountsIInv
  BY AccountsAssumption
  DEF AccountsInit, AccountsIInv, AccountsTypeOK, EndedTokensAreDead, BoundByToken,
      ErasedStaysErased, SignedOutIsOut, FilesHaveAnOwner, SessionsOf, NoSession, NoRequest

(* Whoever acts on a profile brings it back, if it was deleted.             *)
LEMMA ActingRevives ==
    ASSUME AccountsIInv, NEW r \in Requests, NEW asked, NEW p \in Profiles,
           ActsOn(r, asked, p), Revived(r, asked, p)
    PROVE  p \notin erased' /\ erased' \subseteq erased
<1>1. p \in erased => requests[r].late \/ (~authOn /\ p \in {asked, Default})
  BY AccountsAssumption DEF AccountsIInv, ActsOn, BoundByToken, ErasedStaysErased, Active
<1> QED
  BY <1>1 DEF Revived

(* A request that ends leaves the others as they are.                       *)
LEMMA EndingKeepsBounds ==
    ASSUME AccountsIInv, NEW r \in Requests, Ends(r), erased' \subseteq erased,
           revoked' = revoked,
           \A t \in Tokens : sessions[t].profile # Absent => sessions'[t] = sessions[t],
           \A t \in Tokens : sessions[t].state = "deleted" => sessions'[t].state = "deleted"
    PROVE  BoundByToken' /\ SignedOutIsOut'
  BY AccountsAssumption
  DEF AccountsIInv, AccountsTypeOK, BoundByToken, SignedOutIsOut, Ends, NoRequest

-----------------------------------------------------------------------------
(* One lemma for each kind of step.                                         *)
LEMMA ArriveKeepsIInv ==
    ASSUME AccountsIInv, NEW r \in Requests, NEW token \in Tokens \cup {Absent}, Arrive(r, token)
    PROVE  AccountsIInv'
<1> USE AccountsAssumption DEF Arrive, Arrived, AccountsIInv
<1>a. sessions' \in [Tokens -> [profile : Profiles \cup {Absent},
                                state : {"unused", "live", "expired", "revoked", "deleted"}]]
  BY DEF AccountsTypeOK
<1>b. requests' \in [Requests -> [at : {"none", "arrived", "fetching"},
                                  bound : Profiles \cup {Absent}, token : Tokens \cup {Absent},
                                  for : Profiles \cup {Absent}, late : BOOLEAN]]
  <2>1. token # Absent => sessions[token].profile \in Profiles \cup {Absent}
    BY DEF AccountsTypeOK
  <2> QED
    BY <2>1 DEF AccountsTypeOK
<1>1. AccountsTypeOK'
  BY <1>a, <1>b DEF AccountsTypeOK
<1>2. EndedTokensAreDead'
  BY DEF AccountsTypeOK, EndedTokensAreDead
<1>3. BoundByToken'
  BY DEF AccountsTypeOK, EndedTokensAreDead, BoundByToken, ErasedStaysErased, SessionsOf
<1>4. ErasedStaysErased'
  BY DEF AccountsTypeOK, ErasedStaysErased, SessionsOf
<1>5. SignedOutIsOut'
  BY DEF AccountsTypeOK, EndedTokensAreDead, SignedOutIsOut
<1>6. FilesHaveAnOwner'
  BY DEF FilesHaveAnOwner
<1> QED
  BY <1>1, <1>2, <1>3, <1>4, <1>5, <1>6

LEMMA EndKeepsIInv ==
    ASSUME AccountsIInv, NEW r \in Requests, RequestEnds(r)
    PROVE  AccountsIInv'
<1> USE AccountsAssumption DEF RequestEnds, database
<1>1. AccountsTypeOK'
  BY DEF AccountsIInv, AccountsTypeOK, Ends, NoRequest
<1>2. BoundByToken' /\ SignedOutIsOut'
  BY EndingKeepsBounds DEF AccountsIInv
<1> QED
  BY <1>1, <1>2
  DEF AccountsIInv, EndedTokensAreDead, ErasedStaysErased, FilesHaveAnOwner, SessionsOf

(* What Visit, SetActive, StartSync and Upload have in common: the row of   *)
(* p is there afterwards, and p is not a deleted profile any more.          *)
LEMMA StoringKeepsErased ==
    ASSUME AccountsIInv, NEW p \in Profiles, NEW file \in Files \cup {"bare"}, Stored(p, file),
           p \notin erased', erased' \subseteq erased,
           UNCHANGED <<projects, protected, sessions>>, selected' \in {selected, p}
    PROVE  ErasedStaysErased'
  BY DEF AccountsIInv, AccountsTypeOK, ErasedStaysErased, Stored, SessionsOf

LEMMA StoringKeepsOwners ==
    ASSUME AccountsIInv, NEW p \in Profiles, Stored(p, OfProfile(p)), UNCHANGED <<files, leftover>>
    PROVE  FilesHaveAnOwner'
<1>1. ASSUME NEW f \in files PROVE resume'[f[1]] = f[2] \/ f \in leftover
  <2>1. f[1] \in Profiles /\ f[2] \in Files
    BY DEF AccountsIInv, AccountsTypeOK
  <2>2. resume[f[1]] = f[2] \/ f \in leftover
    BY DEF AccountsIInv, FilesHaveAnOwner
  <2> QED
    BY <2>1, <2>2, AccountsAssumption DEF AccountsIInv, AccountsTypeOK, Stored, OfProfile
<1> QED
  BY <1>1 DEF FilesHaveAnOwner

LEMMA OfProfileType ==
    ASSUME AccountsIInv, NEW p \in Profiles
    PROVE  OfProfile(p) \in Files \cup {"bare"}
  BY DEF AccountsIInv, AccountsTypeOK, OfProfile

LEMMA LoginKeepsIInv ==
    ASSUME AccountsIInv, NEW r \in Requests, NEW p \in Profiles, NEW right, Login(r, p, right)
    PROVE  AccountsIInv'
<1> USE DEF Login
<1>1. /\ sessions' \in [Tokens -> [profile : Profiles \cup {Absent},
                                state : {"unused", "live", "expired", "revoked", "deleted"}]]
      /\ \A t \in Tokens : \/ sessions'[t] = sessions[t]
                           \/ sessions[t] = NoSession /\ sessions'[t] = [profile |-> p, state |-> "live"]
      /\ protected' \subseteq protected \cup {p}
      /\ selected' \in {selected, p}
  BY DEF AccountsIInv, AccountsTypeOK
<1>2. AccountsTypeOK'
  BY <1>1, OfProfileType, AccountsAssumption DEF AccountsIInv, AccountsTypeOK, Stored, Ends, NoRequest
<1>3. EndedTokensAreDead'
  BY <1>1, AccountsAssumption DEF AccountsIInv, AccountsTypeOK, EndedTokensAreDead, NoSession
<1>4. BoundByToken' /\ SignedOutIsOut'
  BY <1>1, EndingKeepsBounds DEF AccountsIInv, NoSession, EndedTokensAreDead
<1>5. ErasedStaysErased'
  BY <1>1 DEF AccountsIInv, AccountsTypeOK, ErasedStaysErased, SessionsOf, Stored, NoSession
<1>6. FilesHaveAnOwner'
  BY StoringKeepsOwners
<1> QED
  BY <1>2, <1>3, <1>4, <1>5, <1>6 DEF AccountsIInv

RequestRecords ==
    [at : {"none", "arrived", "fetching"}, bound : Profiles \cup {Absent},
     token : Tokens \cup {Absent}, for : Profiles \cup {Absent}, late : BOOLEAN]

LEMMA LateRecord ==
    ASSUME NEW q \in RequestRecords, NEW x \in BOOLEAN
    PROVE  /\ [q EXCEPT !.late = x] \in RequestRecords
           /\ [q EXCEPT !.late = x].at = q.at
           /\ [q EXCEPT !.late = x].bound = q.bound
           /\ [q EXCEPT !.late = x].token = q.token
           /\ [q EXCEPT !.late = x].for = q.for
           /\ [q EXCEPT !.late = x].late = x
  BY DEF RequestRecords

(* A request ends and others are overtaken: they keep all but late.         *)
LEMMA OvertakingShape ==
    ASSUME AccountsTypeOK, NEW r \in Requests, NEW p, NEW overtaken,
           EndsAndOvertakes(r, p, overtaken)
    PROVE  /\ requests' \in [Requests -> RequestRecords]
           /\ requests'[r] = NoRequest
           /\ \A o \in Requests \ {r} :
                /\ requests'[o].at = requests[o].at
                /\ requests'[o].bound = requests[o].bound
                /\ requests'[o].token = requests[o].token
                /\ requests'[o].for = requests[o].for
                /\ requests[o].late => requests'[o].late
                /\ requests[o].token \in overtaken => requests'[o].late
                /\ requests[o].for = p /\ p # Absent => requests'[o].late
<1> DEFINE Late(o) == requests[o].late \/ requests[o].token \in overtaken
                          \/ requests[o].for \in {p} \ {Absent}
<1> DEFINE Then(o) == IF o = r THEN NoRequest ELSE [requests[o] EXCEPT !.late = Late(o)]
<1>1. requests' = [o \in Requests |-> Then(o)]
  BY DEF EndsAndOvertakes
<1>2. \A o \in Requests : Late(o) \in BOOLEAN
  OBVIOUS
<1>3. \A o \in Requests : requests[o] \in RequestRecords
  BY DEF AccountsTypeOK, RequestRecords
<1>4. NoRequest \in RequestRecords
  BY DEF NoRequest, RequestRecords
<1>5. ASSUME NEW o \in Requests \ {r}
      PROVE  /\ requests'[o] \in RequestRecords
             /\ requests'[o].at = requests[o].at
             /\ requests'[o].bound = requests[o].bound
             /\ requests'[o].token = requests[o].token
             /\ requests'[o].for = requests[o].for
             /\ requests'[o].late = Late(o)
  <2>1. PICK x \in BOOLEAN : x = Late(o)
    BY <1>2
  <2>2. requests'[o] = [requests[o] EXCEPT !.late = x]
    <3>1. requests'[o] = [requests[o] EXCEPT !.late = Late(o)]
      <4> HIDE DEF Late
      <4> QED
        BY <1>1, Zenon
    <3> QED
      BY <2>1, <3>1, Zenon
  <2>3. requests[o] \in RequestRecords
    BY <1>3
  <2> HIDE DEF Late, Then
  <2> QED
    BY <2>1, <2>2, <2>3, LateRecord
<1>6. requests'[r] = NoRequest
  BY <1>1, Zenon
<1>7. requests' \in [Requests -> RequestRecords]
  <2>1. \A o \in Requests : requests'[o] \in RequestRecords
    BY <1>4, <1>5, <1>6
  <2>2. \A o \in Requests : requests'[o] = Then(o)
    <3> HIDE DEF Then
    <3> QED
      BY <1>1, Zenon
  <2>3. \A o \in Requests : Then(o) \in RequestRecords
    <3> HIDE DEF Then
    <3> QED
      BY <2>1, <2>2, Zenon
  <2> HIDE DEF Then
  <2> QED
    BY <1>1, <2>3, Zenon
<1> QED
  BY <1>5, <1>6, <1>7

LEMMA LogoutKeepsIInv ==
    ASSUME AccountsIInv, NEW r \in Requests, NEW everywhere, Logout(r, everywhere)
    PROVE  AccountsIInv'
<1> DEFINE ended == IF everywhere THEN SessionsOf(requests[r].bound) ELSE {requests[r].token}
<1> USE AccountsAssumption DEF Logout
<1>1. ended \subseteq Tokens
  BY DEF AccountsIInv, BoundByToken, SessionsOf
<1>2. \A t \in ended : sessions[t].profile = requests[r].bound \/ sessions[t].state = "deleted"
  BY DEF AccountsIInv, BoundByToken, SessionsOf
<1>3. /\ Revoke(ended \cap SessionsOf(requests[r].bound))
      /\ EndsAndOvertakes(r, Absent, ended)
      /\ revoked' = revoked \cup ended
  OBVIOUS
<1>4. /\ sessions' \in [Tokens -> [profile : Profiles \cup {Absent},
                                state : {"unused", "live", "expired", "revoked", "deleted"}]]
      /\ \A t \in Tokens : /\ sessions'[t].profile = sessions[t].profile
                           /\ sessions'[t].state = IF t \in ended \cap SessionsOf(requests[r].bound)
                                                   THEN "revoked" ELSE sessions[t].state
  BY <1>3 DEF AccountsIInv, AccountsTypeOK, Revoke
<1>5. /\ requests' \in [Requests -> RequestRecords]
      /\ requests'[r] = NoRequest
      /\ \A o \in Requests \ {r} :
           /\ requests'[o].at = requests[o].at
           /\ requests'[o].bound = requests[o].bound
           /\ requests'[o].token = requests[o].token
           /\ requests'[o].for = requests[o].for
           /\ requests[o].late => requests'[o].late
           /\ requests[o].token \in ended => requests'[o].late
  BY <1>3, OvertakingShape DEF AccountsIInv
<1> HIDE DEF ended, Logout
<1>6. /\ requests[r].bound # Absent
      /\ UNCHANGED <<authOn, resume, projects, protected, selected, files, erased, leftover>>
  BY DEF Logout
<1>7. AccountsTypeOK'
  BY <1>1, <1>3, <1>4, <1>5, <1>6 DEF AccountsIInv, AccountsTypeOK, RequestRecords
<1>8. EndedTokensAreDead'
  BY <1>1, <1>2, <1>3, <1>4, <1>6 DEF AccountsIInv, AccountsTypeOK, EndedTokensAreDead, SessionsOf
<1>9. BoundByToken'
  BY <1>4, <1>5, <1>6
  DEF AccountsIInv, AccountsTypeOK, EndedTokensAreDead, BoundByToken, NoRequest, SessionsOf
<1>10. ErasedStaysErased'
  BY <1>4, <1>6 DEF AccountsIInv, ErasedStaysErased, SessionsOf
<1>11. SignedOutIsOut'
  BY <1>1, <1>3, <1>5 DEF AccountsIInv, AccountsTypeOK, SignedOutIsOut, NoRequest
<1> QED
  BY <1>6, <1>7, <1>8, <1>9, <1>10, <1>11 DEF AccountsIInv, FilesHaveAnOwner

LEMMA ExpireKeepsIInv ==
    ASSUME AccountsIInv, NEW t \in Tokens, Expire(t)
    PROVE  AccountsIInv'
<1> USE AccountsAssumption DEF Expire, AccountsIInv
<1>1. AccountsTypeOK'
  BY DEF AccountsTypeOK
<1>2. EndedTokensAreDead'
  BY DEF AccountsTypeOK, EndedTokensAreDead
<1>3. BoundByToken'
  BY DEF AccountsTypeOK, BoundByToken
<1>4. ErasedStaysErased'
  BY DEF AccountsTypeOK, ErasedStaysErased, SessionsOf
<1> QED
  BY <1>1, <1>2, <1>3, <1>4 DEF SignedOutIsOut, FilesHaveAnOwner

LEMMA VisitKeepsIInv ==
    ASSUME AccountsIInv, NEW r \in Requests, NEW p \in Profiles, NEW asked \in Profiles \cup {Absent},
           Visit(r, asked, p) \/ SetActive(r, p)
    PROVE  AccountsIInv'
<1>1. PICK a \in Profiles \cup {Absent} :
          /\ ActsOn(r, a, p) /\ Revived(r, a, p) /\ Stored(p, OfProfile(p)) /\ Ends(r)
          /\ selected' \in {selected, p}
          /\ UNCHANGED <<authOn, projects, protected, sessions, files, revoked, leftover>>
  BY DEF Visit, SetActive
<1>2. p \notin erased' /\ erased' \subseteq erased
  BY <1>1, ActingRevives
<1>3. AccountsTypeOK'
  BY <1>1, <1>2, OfProfileType, AccountsAssumption
  DEF AccountsIInv, AccountsTypeOK, Stored, Ends, NoRequest
<1>4. EndedTokensAreDead'
  BY <1>1 DEF AccountsIInv, EndedTokensAreDead
<1>5. BoundByToken' /\ SignedOutIsOut'
  BY <1>1, <1>2, EndingKeepsBounds
<1>6. ErasedStaysErased'
  BY <1>1, <1>2, OfProfileType, StoringKeepsErased
<1>7. FilesHaveAnOwner'
  BY <1>1, StoringKeepsOwners
<1> QED
  BY <1>3, <1>4, <1>5, <1>6, <1>7 DEF AccountsIInv

LEMMA UploadKeepsIInv ==
    ASSUME AccountsIInv, NEW r \in Requests, NEW p \in Profiles, NEW asked \in Profiles \cup {Absent},
           NEW file \in Files, NEW accepted \in BOOLEAN, Upload(r, asked, p, file, accepted)
    PROVE  AccountsIInv'
<1> DEFINE new == IF accepted THEN file ELSE OfProfile(p)
<1>1. /\ ActsOn(r, asked, p) /\ Revived(r, asked, p) /\ Stored(p, new) /\ Ends(r)
      /\ files' = files \cup {<<p, file>>}
      /\ UNCHANGED <<authOn, projects, protected, sessions, selected, revoked>>
  BY DEF Upload
<1>2. p \notin erased' /\ erased' \subseteq erased
  BY <1>1, ActingRevives
<1>3. new \in Files \cup {"bare"}
  BY OfProfileType
<1>4. resume' = [resume EXCEPT ![p] = new]
  BY <1>1 DEF Stored
<1>5. AccountsTypeOK'
  BY <1>1, <1>2, <1>3, <1>4, AccountsAssumption
  DEF AccountsIInv, AccountsTypeOK, Ends, NoRequest
<1>6. EndedTokensAreDead'
  BY <1>1 DEF AccountsIInv, EndedTokensAreDead
<1>7. BoundByToken' /\ SignedOutIsOut'
  BY <1>1, <1>2, EndingKeepsBounds
<1>8. ErasedStaysErased'
  BY <1>1, <1>2, <1>3, StoringKeepsErased
<1>9. FilesHaveAnOwner'
  <2>1. resume'[p] = new /\ \A q \in Profiles \ {p} : resume'[q] = resume[q]
    BY <1>4 DEF AccountsIInv, AccountsTypeOK
  <2>2. leftover' = (leftover \cup ({<<p, resume[p]>>, <<p, file>>} \cap files')) \ {<<p, resume'[p]>>}
    BY DEF Upload
  <2>3. ASSUME NEW f \in files' PROVE resume'[f[1]] = f[2] \/ f \in leftover'
    <3>1. f = <<f[1], f[2]>> /\ f[1] \in Profiles
      BY <1>5 DEF AccountsTypeOK
    <3>2. CASE f = <<p, file>>
      BY <2>1, <2>2, <3>2
    <3>3. CASE f # <<p, file>>
      <4>1. f \in files /\ (resume[f[1]] = f[2] \/ f \in leftover)
        BY <1>1, <3>3 DEF AccountsIInv, FilesHaveAnOwner
      <4> QED
        BY <2>1, <2>2, <3>1, <4>1
    <3> QED
      BY <3>2, <3>3
  <2> QED
    BY <2>3 DEF FilesHaveAnOwner
<1> QED
  BY <1>5, <1>6, <1>7, <1>8, <1>9 DEF AccountsIInv

LEMMA StartSyncKeepsIInv ==
    ASSUME AccountsIInv, NEW r \in Requests, NEW p \in Profiles, NEW asked \in Profiles \cup {Absent},
           StartSync(r, asked, p)
    PROVE  AccountsIInv'
<1>1. /\ ActsOn(r, asked, p) /\ Revived(r, asked, p) /\ Stored(p, OfProfile(p))
      /\ requests' = [requests EXCEPT ![r] = [@ EXCEPT !.at = "fetching", !.for = p]]
      /\ UNCHANGED <<authOn, projects, protected, sessions, selected, files, revoked, leftover>>
  BY DEF StartSync
<1>2. p \notin erased' /\ erased' \subseteq erased
  BY <1>1, ActingRevives
<1>3. AccountsTypeOK'
  <2>1. requests[r] \in RequestRecords
    BY DEF AccountsIInv, AccountsTypeOK, RequestRecords
  <2>2. [requests[r] EXCEPT !.at = "fetching", !.for = p] \in RequestRecords
    BY <2>1 DEF RequestRecords
  <2>3. requests' \in [Requests -> RequestRecords]
    BY <1>1, <2>2 DEF RequestRecords, AccountsIInv, AccountsTypeOK
  <2> QED
    BY <1>1, <1>2, <2>3, OfProfileType DEF AccountsIInv, AccountsTypeOK, Stored, RequestRecords
<1>4. EndedTokensAreDead'
  BY <1>1 DEF AccountsIInv, EndedTokensAreDead
<1>5. BoundByToken'
  BY <1>1, <1>2 DEF AccountsIInv, AccountsTypeOK, BoundByToken
<1>6. ErasedStaysErased'
  BY <1>1, <1>2, OfProfileType, StoringKeepsErased
<1>7. SignedOutIsOut'
  BY <1>1 DEF AccountsIInv, AccountsTypeOK, SignedOutIsOut
<1>8. FilesHaveAnOwner'
  BY <1>1, StoringKeepsOwners
<1> QED
  BY <1>3, <1>4, <1>5, <1>6, <1>7, <1>8 DEF AccountsIInv

LEMMA FinishSyncKeepsIInv ==
    ASSUME AccountsIInv, NEW r \in Requests, NEW found \in BOOLEAN, FinishSync(r, found)
    PROVE  AccountsIInv'
<1>1. requests[r].for \in Profiles
  BY DEF AccountsIInv, BoundByToken, FinishSync
<1>2. PICK p \in Profiles :
          /\ p \in erased => requests[r].late
          /\ projects' = IF found THEN projects \cup {p} ELSE projects \ {p}
          /\ erased' = IF requests[r].late THEN erased \ {p} ELSE erased
  BY <1>1 DEF FinishSync, AccountsIInv, BoundByToken
<1>3. /\ Ends(r)
      /\ UNCHANGED <<authOn, resume, protected, sessions, selected, files, revoked, leftover>>
  BY DEF FinishSync
<1>4. p \notin erased' /\ erased' \subseteq erased
  BY <1>2
<1>5. AccountsTypeOK'
  BY <1>2, <1>3, <1>4 DEF AccountsIInv, AccountsTypeOK, Ends, NoRequest
<1>6. BoundByToken' /\ SignedOutIsOut'
  BY <1>3, <1>4, EndingKeepsBounds
<1>7. ErasedStaysErased'
  BY <1>2, <1>3, <1>4 DEF AccountsIInv, ErasedStaysErased, SessionsOf
<1> QED
  BY <1>3, <1>5, <1>6, <1>7 DEF AccountsIInv, EndedTokensAreDead, FilesHaveAnOwner

(* The transaction, whatever becomes of the requests: only one that is      *)
(* neither bound to p nor works for p may go on as it was.                  *)
LEMMA TransactionKeeps ==
    ASSUME AccountsIInv, NEW p \in Profiles, Transaction(p)
    PROVE  /\ EndedTokensAreDead' /\ ErasedStaysErased'
           /\ resume' \in [Profiles -> Files \cup {"bare", Absent}]
           /\ sessions' \in [Tokens -> [profile : Profiles \cup {Absent},
                                state : {"unused", "live", "expired", "revoked", "deleted"}]]
           /\ \A t \in Tokens :
                 \/ sessions'[t].profile = sessions[t].profile
                       /\ sessions'[t].state = sessions[t].state
                 \/ sessions'[t].state = "deleted"
<1> USE AccountsAssumption DEF Transaction, AccountsIInv
<1>1. \A t \in Tokens : sessions'[t] = IF sessions[t].profile = p
                                       THEN [profile |-> Absent, state |-> "deleted"]
                                       ELSE sessions[t]
  BY DEF AccountsTypeOK, SessionsOf
<1>2. sessions' \in [Tokens -> [profile : Profiles \cup {Absent},
                                state : {"unused", "live", "expired", "revoked", "deleted"}]]
  BY DEF AccountsTypeOK
<1>3. EndedTokensAreDead'
  BY <1>1, <1>2 DEF AccountsTypeOK, EndedTokensAreDead, SessionsOf
<1>4. ErasedStaysErased'
  BY <1>1, <1>2 DEF AccountsTypeOK, ErasedStaysErased, SessionsOf
<1>5. resume' \in [Profiles -> Files \cup {"bare", Absent}]
  BY DEF AccountsTypeOK
<1> QED
  BY <1>1, <1>2, <1>3, <1>4, <1>5

LEMMA DeleteKeepsIInv ==
    ASSUME AccountsIInv, NEW r \in Requests, NEW p \in Profiles, NEW asked \in Profiles \cup {Absent},
           Delete(r, asked, p)
    PROVE  AccountsIInv'
<1>1. /\ Transaction(p) /\ EndsAndOvertakes(r, p, SessionsOf(p))
      /\ files' = files \ {<<p, resume[p]>>}
      /\ UNCHANGED <<authOn, leftover>>
  BY DEF Delete
<1>2. /\ EndedTokensAreDead' /\ ErasedStaysErased'
      /\ resume' \in [Profiles -> Files \cup {"bare", Absent}]
      /\ sessions' \in [Tokens -> [profile : Profiles \cup {Absent},
                                state : {"unused", "live", "expired", "revoked", "deleted"}]]
      /\ \A t \in Tokens :
            \/ sessions'[t].profile = sessions[t].profile
                  /\ sessions'[t].state = sessions[t].state
            \/ sessions'[t].state = "deleted"
  BY <1>1, TransactionKeeps
<1>3. /\ requests' \in [Requests -> RequestRecords]
      /\ requests'[r] = NoRequest
      /\ \A o \in Requests \ {r} :
           /\ requests'[o].at = requests[o].at
           /\ requests'[o].bound = requests[o].bound
           /\ requests'[o].token = requests[o].token
           /\ requests'[o].for = requests[o].for
           /\ requests[o].late => requests'[o].late
           /\ requests[o].token \in SessionsOf(p) => requests'[o].late
           /\ requests[o].for = p /\ p # Absent => requests'[o].late
  BY <1>1, OvertakingShape DEF AccountsIInv
<1>4. /\ erased' = erased \cup {p} /\ revoked' = revoked \cup SessionsOf(p)
      /\ projects' \subseteq projects /\ protected' \subseteq protected
      /\ selected' \in {selected, Absent}
      /\ resume' = [resume EXCEPT ![p] = Absent]
  BY <1>1 DEF Transaction
<1>5. AccountsTypeOK'
  BY <1>1, <1>2, <1>3, <1>4 DEF AccountsIInv, AccountsTypeOK, RequestRecords, SessionsOf
<1>6. ASSUME NEW o \in Requests, requests[o].bound = p
      PROVE  requests[o].token \in SessionsOf(p) \/ requests[o].late
  BY <1>6, AccountsAssumption
  DEF AccountsIInv, BoundByToken, EndedTokensAreDead, SignedOutIsOut, SessionsOf
<1>7. BoundByToken'
  BY <1>2, <1>3, <1>4, <1>6, AccountsAssumption
  DEF AccountsIInv, AccountsTypeOK, BoundByToken, NoRequest
<1>8. SignedOutIsOut'
  BY <1>3, <1>4, AccountsAssumption
  DEF AccountsIInv, AccountsTypeOK, SignedOutIsOut, SessionsOf, NoRequest
<1>9. FilesHaveAnOwner'
  <2>1. ASSUME NEW f \in files' PROVE resume'[f[1]] = f[2] \/ f \in leftover
    <3>1. f = <<f[1], f[2]>> /\ f[1] \in Profiles /\ f \in files /\ f # <<p, resume[p]>>
      BY <1>1 DEF AccountsIInv, AccountsTypeOK
    <3> QED
      BY <1>4, <3>1 DEF AccountsIInv, AccountsTypeOK, FilesHaveAnOwner
  <2> QED
    BY <1>1, <2>1 DEF FilesHaveAnOwner
<1> QED
  BY <1>2, <1>5, <1>7, <1>8, <1>9 DEF AccountsIInv

LEMMA RestartedKeeps ==
    ASSUME Restarted, erased' \subseteq Profiles, revoked' \subseteq Tokens
    PROVE  /\ BoundByToken' /\ SignedOutIsOut'
           /\ requests' \in [Requests -> [at : {"none", "arrived", "fetching"},
                                  bound : Profiles \cup {Absent}, token : Tokens \cup {Absent},
                                  for : Profiles \cup {Absent}, late : BOOLEAN]]
  BY AccountsAssumption DEF Restarted, NoRequest, BoundByToken, SignedOutIsOut

LEMMA DeleteDiesKeepsIInv ==
    ASSUME AccountsIInv, NEW r \in Requests, NEW p \in Profiles, NEW asked \in Profiles \cup {Absent},
           DeleteDies(r, asked, p)
    PROVE  AccountsIInv'
<1>1. /\ Transaction(p) /\ Restarted
      /\ leftover' = leftover \cup ({<<p, resume[p]>>} \cap files)
      /\ UNCHANGED <<authOn, files>>
  BY DEF DeleteDies
<1>2. /\ EndedTokensAreDead' /\ ErasedStaysErased'
      /\ resume' \in [Profiles -> Files \cup {"bare", Absent}]
      /\ sessions' \in [Tokens -> [profile : Profiles \cup {Absent},
                                state : {"unused", "live", "expired", "revoked", "deleted"}]]
  BY <1>1, TransactionKeeps
<1>3. /\ erased' = erased \cup {p} /\ revoked' = revoked \cup SessionsOf(p)
      /\ projects' \subseteq projects /\ protected' \subseteq protected
      /\ selected' \in {selected, Absent}
      /\ resume' = [resume EXCEPT ![p] = Absent]
  BY <1>1 DEF Transaction
<1>4. erased' \subseteq Profiles /\ revoked' \subseteq Tokens
  BY <1>3 DEF AccountsIInv, AccountsTypeOK, SessionsOf
<1>5. AccountsTypeOK'
  BY <1>1, <1>2, <1>3, <1>4, RestartedKeeps DEF AccountsIInv, AccountsTypeOK
<1>6. FilesHaveAnOwner'
  <2>1. ASSUME NEW f \in files' PROVE resume'[f[1]] = f[2] \/ f \in leftover'
    <3>1. f = <<f[1], f[2]>> /\ f[1] \in Profiles /\ f \in files
      BY <1>1 DEF AccountsIInv, AccountsTypeOK
    <3> QED
      BY <1>1, <1>3, <3>1 DEF AccountsIInv, AccountsTypeOK, FilesHaveAnOwner
  <2> QED
    BY <2>1 DEF FilesHaveAnOwner
<1> QED
  BY <1>1, <1>2, <1>4, <1>5, <1>6, RestartedKeeps DEF AccountsIInv

LEMMA RestartKeepsIInv ==
    ASSUME AccountsIInv, Restart
    PROVE  AccountsIInv'
<1>1. /\ Restarted /\ authOn' \in BOOLEAN
      /\ UNCHANGED <<resume, projects, protected, sessions, selected, files, erased, revoked, leftover>>
  BY DEF Restart, database
<1>2. erased' \subseteq Profiles /\ revoked' \subseteq Tokens
  BY <1>1 DEF AccountsIInv, AccountsTypeOK
<1>3. AccountsTypeOK'
  BY <1>1, <1>2, RestartedKeeps DEF AccountsIInv, AccountsTypeOK
<1> QED
  BY <1>1, <1>2, <1>3, RestartedKeeps
  DEF AccountsIInv, EndedTokensAreDead, ErasedStaysErased, FilesHaveAnOwner, SessionsOf

-----------------------------------------------------------------------------
(* The theorems.                                                            *)

LEMMA ServeKeepsIInv ==
    ASSUME AccountsIInv, NEW r \in Requests, Serve(r)
    PROVE  AccountsIInv'
<1>1. CASE RequestEnds(r)
  BY <1>1, EndKeepsIInv
<1>2. CASE \E p \in Profiles : SetActive(r, p)
  BY <1>2, VisitKeepsIInv
<1>3. CASE \E p \in Profiles, right \in BOOLEAN : Login(r, p, right)
  BY <1>3, LoginKeepsIInv
<1>4. CASE \E here \in BOOLEAN : Logout(r, here)
  BY <1>4, LogoutKeepsIInv
<1>5. CASE \E here \in BOOLEAN : FinishSync(r, here)
  BY <1>5, FinishSyncKeepsIInv
<1>6. ASSUME NEW p \in Profiles, NEW asked \in Profiles \cup {Absent},
             \/ Visit(r, asked, p) \/ StartSync(r, asked, p)
             \/ Delete(r, asked, p) \/ DeleteDies(r, asked, p)
             \/ \E file \in Files, accepted \in BOOLEAN : Upload(r, asked, p, file, accepted)
      PROVE  AccountsIInv'
  BY <1>6, VisitKeepsIInv, StartSyncKeepsIInv, DeleteKeepsIInv, DeleteDiesKeepsIInv,
     UploadKeepsIInv
<1> QED
  BY <1>1, <1>2, <1>3, <1>4, <1>5, <1>6 DEF Serve

(* The inductive invariant.                                                 *)
THEOREM AccountsInvariant == AccountsSpec => []AccountsIInv
<1>1. ASSUME AccountsIInv, [AccountsNext]_accountVars PROVE AccountsIInv'
  <2>1. CASE UNCHANGED accountVars
    BY <1>1, <2>1
    DEF accountVars, database, AccountsIInv, AccountsTypeOK, EndedTokensAreDead, BoundByToken,
        ErasedStaysErased, SignedOutIsOut, FilesHaveAnOwner, SessionsOf
  <2>2. CASE AccountsNext
    <3>1. ASSUME NEW r \in Requests,
                 Serve(r) \/ \E token \in Tokens \cup {Absent} : Arrive(r, token)
          PROVE  AccountsIInv'
      BY <1>1, <3>1, ServeKeepsIInv, ArriveKeepsIInv
    <3>2. ASSUME NEW t \in Tokens, Expire(t) PROVE AccountsIInv'
      BY <1>1, <3>2, ExpireKeepsIInv
    <3> QED
      BY <1>1, <2>2, <3>1, <3>2, RestartKeepsIInv DEF AccountsNext
  <2> QED
    BY <1>1, <2>1, <2>2
<1> QED
  BY <1>1, AccountsInitIInv, PTL DEF AccountsSpec

(* The types of the tables and of the requests.                             *)
THEOREM AccountsTypeCorrect == AccountsSpec => []AccountsTypeOK
  BY AccountsInvariant, PTL DEF AccountsIInv

(* Nothing of a deleted profile comes back on its own, whatever tokens,     *)
(* selections and requests are around (delete_profile_data): by a login, by *)
(* what asks for it without authentication, by what was overtaken only.     *)
THEOREM ErasedStaysErasedAlways == AccountsSpec => []ErasedStaysErased
  BY AccountsInvariant, PTL DEF AccountsIInv

(* No request that arrives after the end of its token is let in.            *)
THEOREM SignedOutIsOutAlways == AccountsSpec => []SignedOutIsOut
  BY AccountsInvariant, PTL DEF AccountsIInv

(* No file stays behind but those that are accounted for.                   *)
THEOREM FilesHaveAnOwnerAlways == AccountsSpec => []FilesHaveAnOwner
  BY AccountsInvariant, PTL DEF AccountsIInv
=============================================================================
