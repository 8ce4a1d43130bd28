---------------------------- MODULE MCServerRecords ----------------------------
(* What the server records, on small instances: the workflow of duplicate   *)
(* applications, the letters and the resumes of an application, the         *)
(* sessions and the files of profiles.  The parts share no variable, so a   *)
(* behaviour is about one of them and the others stay as they begin.        *)
(* Applications, tokens and requests are interchangeable.                   *)
EXTENDS ApplicationTracker, ApplicationDocuments, Accounts, TLC

VARIABLE about

recordsVars == <<vars, documentVars, accountVars, about>>

Subjects == {"workflow", "letters", "resumes", "sessions", "files"}

(* One letter claims what only the tailored resumes say.                    *)
SomeSupports == {SavedResume} \X {"modest"} \cup Resumes \X {"modest", "bold"}

(* Letters: at most two artifacts, the tailored resume is approved and one  *)
(* text, and only letters are attached.                                     *)
OnlyLetters ==
    /\ Len(artifacts') <= 2 /\ "second" \notin vouched'
    /\ errand'.kind # "resume"
    /\ \A i \in DOMAIN artifacts' :
          artifacts'[i].kind = "resume" => artifacts'[i].status = "approved"

OnlyResumes ==
    /\ errand'.kind \notin {"draft", "show", "letter"} /\ focus'.at = "none"
    /\ \A i \in DOMAIN artifacts' : artifacts'[i].kind = "resume"

OnlySessions == files' = {}

OnlyFiles == authOn' = FALSE /\ \A t \in Tokens : sessions'[t] = NoSession

RecordsInit ==
    /\ Init /\ DocumentsInit /\ AccountsInit
    /\ about \in Subjects
    /\ about # "sessions" => ~authOn

Workflow ==
    /\ about = "workflow" /\ UNCHANGED about
    /\ Next
    /\ UNCHANGED <<documentVars, accountVars>>

Documents ==
    /\ about \in {"letters", "resumes"} /\ UNCHANGED about
    /\ receipt = NoReceipt
    /\ DocumentsNext
    /\ IF about = "letters" THEN OnlyLetters ELSE OnlyResumes
    /\ UNCHANGED <<vars, accountVars>>

ProfilesAndSessions ==
    /\ about \in {"sessions", "files"} /\ UNCHANGED about
    /\ AccountsNext
    /\ IF about = "sessions" THEN OnlySessions ELSE OnlyFiles
    /\ UNCHANGED <<vars, documentVars>>

RecordsNext == Workflow \/ Documents \/ ProfilesAndSessions

RecordsSpec == RecordsInit /\ [][RecordsNext]_recordsVars

Alike == Permutations(AppIds) \cup Permutations(Tokens) \cup Permutations(Requests)
=============================================================================
