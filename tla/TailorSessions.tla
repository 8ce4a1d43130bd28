---------------------------- MODULE TailorSessions ----------------------------
(* The guided tailor flow (routers/tailor.py, tailor_store.py) over the    *)
(* classic sessions.  A tailor session is a row only: a request loads its  *)
(* own copy, awaits the model, and saves the copy whole.  Its optimize     *)
(* works on the linked classic session's object, under that object's lock  *)
(* and without saving it; its refine takes no lock at all.                 *)
(*                                                                         *)
(* The tailor session and its classic session are created together and     *)
(* share an id here.  A tailor session lives twice as long.                *)
EXTENDS ResumeSessions

CONSTANTS
    Drafts,     \* texts that come from the user: the profile's resume, edits
    NoResult,   \* last_result is None or has no PDF
    TailorTTL   \* SESSION_TTL_SECONDS of tailor_store.py, in ticks

ASSUME TailorAssumption == TailorTTL \in Nat /\ TailorTTL > TTL

VARIABLES
    tailor,     \* the tailor_sessions table
    copies,     \* the TailorSession that each tailoring request works on
    approved    \* the artifact that approve saved last: its text and PDF

tailorVars == <<tailor, copies, approved>>
allVars == <<vars, tailorVars>>

(* A resume: whose text it started from and the requests whose edits are   *)
(* complete in it.                                                         *)
Texts == [draft : Drafts, edits : SUBSET Requests]
Rewritten(text, h) == [text EXCEPT !.edits = @ \cup {h}]

(* A row.  Of last_result it keeps the text that its PDF shows: a trial of *)
(* a request's pipeline shows the text that the request started from.      *)
NoTailor == [age |-> TailorTTL + 2]
TailorRecords ==
    [source : Texts, current : Texts, history : SUBSET Requests,
     result : Texts \cup {NoResult}, age : 0..(TailorTTL + 1)]

Artifacts == [text : Texts, pdf : Texts]

TailorTypeOK ==
    /\ TypeOK
    /\ tailor \in [Sessions -> TailorRecords \cup {NoTailor}]
    /\ copies \in [Requests -> TailorRecords \cup {NoTailor}]
    /\ approved \in [Sessions -> Artifacts \cup {NoResult}]

TailorInit ==
    /\ Init
    /\ tailor = [s \in Sessions |-> NoTailor]
    /\ copies = [h \in Requests |-> NoTailor]
    /\ approved = [s \in Sessions |-> NoResult]

TailorExpired(t) == t.age > TailorTTL

(* TailorStore.get finds the session, touches it and writes it back.       *)
TailorFound(s) == tailor[s] # NoTailor /\ ~TailorExpired(tailor[s])

(* TailorStore.save of a copy: the row is rewritten whole.                 *)
SaveTailor(s, t) == tailor' = [tailor EXCEPT ![s] = [t EXCEPT !.age = 0]]

-----------------------------------------------------------------------------
(* POST /tailor/sessions: a classic session and a tailor session of the    *)
(* profile's resume.                                                       *)
CreateTailor(s, d) ==
    /\ Upload(s)
    /\ SaveTailor(s, [source |-> [draft |-> d, edits |-> {}],
                      current |-> [draft |-> d, edits |-> {}],
                      history |-> {}, result |-> NoResult, age |-> 0])
    /\ UNCHANGED <<copies, approved>>

(* GET, and the routes that rank or select projects: the row is loaded and *)
(* saved again within one step.                                            *)
LookAtTailor(s) ==
    /\ TailorFound(s)
    /\ SaveTailor(s, tailor[s])
    /\ UNCHANGED <<vars, copies, approved>>

TailorFindExpired(s) ==
    /\ tailor[s] # NoTailor /\ TailorExpired(tailor[s])
    /\ tailor' = [tailor EXCEPT ![s] = NoTailor]
    /\ UNCHANGED <<vars, copies, approved>>

(* Mutant: the PDF of the former text is kept.                             *)
PatchKeepingResult(s, d) ==
    /\ TailorFound(s)
    /\ SaveTailor(s, [tailor[s] EXCEPT
           !.source = [draft |-> d, edits |-> {}],
           !.current = [draft |-> d, edits |-> {}]])
    /\ UNCHANGED <<vars, copies, approved>>

(* PATCH /tailor/sessions/{id} with current_latex                          *)
Patch(s, d) ==
    /\ TailorFound(s)
    /\ SaveTailor(s, [tailor[s] EXCEPT
           !.source = [draft |-> d, edits |-> {}],
           !.current = [draft |-> d, edits |-> {}],
           !.result = NoResult])
    /\ UNCHANGED <<vars, copies, approved>>

(* POST optimize, up to the lock of the classic session: it works on the   *)
(* clean source of its copy.  Without the classic session it answers 404.  *)
BeginTailor(h, s) ==
    /\ TailorFound(s)
    /\ Enqueue(h, s, "tailor", tailor[s].source.edits)
    /\ SaveTailor(s, tailor[s])
    /\ copies' = [copies EXCEPT ![h] = tailor[s]]
    /\ UNCHANGED <<opened, rows, approved, deleted>>

(* POST refine, up to the await: it works on the current text of its copy. *)
BeginTailorRefine(h, s) ==
    /\ Stage(h) = "new"
    /\ TailorFound(s)
    /\ req' = [req EXCEPT ![h] =
           [stage |-> "working", op |-> "tailorRefine", session |-> s, object |-> 0,
            base |-> tailor[s].current.edits]]
    /\ Bind(h)
    /\ SaveTailor(s, tailor[s])
    /\ copies' = [copies EXCEPT ![h] = tailor[s]]
    /\ UNCHANGED <<opened, objects, registered, rows, approved, deleted>>

(* Mutant: the history of the latest request only.                         *)
TailoredAnew(h, from, pdf) ==
    [copies[h] EXCEPT !.current = Rewritten(from, h),
                      !.history = {h},
                      !.result = pdf]

(* The copy with the result of request h: current_latex, diff,             *)
(* change_history and last_result.                                         *)
Tailored(h, from, pdf) ==
    [copies[h] EXCEPT !.current = Rewritten(from, h),
                      !.history = @ \cup {h},
                      !.result = pdf]

(* Optimize answers: the classic object has the new text, in memory only.  *)
(* The pipeline has rendered one trial after the other.  A render without  *)
(* a PDF leaves the one before, so pdf_bytes is of the final text, of an   *)
(* earlier trial, or None; last_result has no PDF below the target or      *)
(* beyond the page either.                                                 *)
FinishTailor(h) ==
    LET s == req[h].session
        i == req[h].object
        from == copies[h].source
        text == Rewritten(from, h)
    IN  /\ Stage(h) = "working" /\ req[h].op = "tailor"
        /\ h \notin calling
        /\ objects' = [objects EXCEPT ![s][i] =
               [text |-> text.edits, result |-> h, age |-> 0, holder |-> NoRequest]]
        /\ \E pdf \in {text, from, NoResult} : SaveTailor(s, Tailored(h, from, pdf))
        /\ copies' = [copies EXCEPT ![h] = NoTailor]
        /\ req' = [req EXCEPT ![h] = [stage |-> "answered"]]
        /\ UNCHANGED <<budgetVars, opened, registered, rows, approved, deleted>>

(* Refine answers: the classic session, if get finds it, is given the text *)
(* whoever holds its lock.  The text is rendered once.                     *)
FinishTailorRefine(h) ==
    LET s == req[h].session
        from == copies[h].current
        text == Rewritten(from, h)
    IN  /\ Stage(h) = "working" /\ req[h].op = "tailorRefine"
        /\ h \notin calling
        /\ \/ /\ Available(s)
              /\ Got(s, [Loaded(s) EXCEPT !.text = text.edits,
                                         !.result = h, !.age = 0])
              /\ UNCHANGED rows
           \/ /\ Exists(s) /\ Expired(Loaded(s))
              /\ Erase(s)
              /\ UNCHANGED objects
           \/ ~Exists(s) /\ UNCHANGED <<objects, registered, rows>>
        /\ \E pdf \in {text, NoResult} : SaveTailor(s, Tailored(h, from, pdf))
        /\ copies' = [copies EXCEPT ![h] = NoTailor]
        /\ req' = [req EXCEPT ![h] = [stage |-> "answered"]]
        /\ UNCHANGED <<budgetVars, opened, approved, deleted>>

(* The pipeline raises: the copy is dropped.  An optimization leaves the   *)
(* object as it found it under the lock, on the selected projects.         *)
FailTailor(h) ==
    /\ Stage(h) = "working"
    /\ \/ req[h].op = "tailor" /\ Fail(h)
       \/ /\ req[h].op = "tailorRefine"
          /\ h \notin calling
          /\ req' = [req EXCEPT ![h] = [stage |-> "refused"]]
          /\ UNCHANGED <<budgetVars, opened, objects, registered, rows, deleted>>
    /\ copies' = [copies EXCEPT ![h] = NoTailor]
    /\ UNCHANGED <<tailor, approved>>

(* POST approve: the current text with the PDF rendered from it.  When the *)
(* render has none (no engine, a timeout, a text that does not compile),   *)
(* with the PDF in last_result, whichever trial that shows; without either *)
(* PDF, or when the render overflows the page, it answers 409.             *)
Approve(s) ==
    LET t == tailor[s]
    IN  /\ TailorFound(s)
        /\ \E pdf \in {t.current, t.result} \ {NoResult} :
               approved' = [approved EXCEPT ![s] =
                   [text |-> t.current, pdf |-> pdf]]
        /\ SaveTailor(s, t)
        /\ UNCHANGED <<vars, copies>>

-----------------------------------------------------------------------------
(* The steps of the classic API with the tailor sessions beside them.      *)
TailorTick ==
    /\ Tick
    /\ tailor' = [s \in Sessions |->
           IF tailor[s] = NoTailor THEN NoTailor
           ELSE [tailor[s] EXCEPT !.age = IF @ > TailorTTL THEN @ ELSE @ + 1]]
    /\ UNCHANGED <<copies, approved>>

TailorDeleteProfile ==
    /\ DeleteProfile
    /\ tailor' = [s \in Sessions |-> NoTailor]
    /\ approved' = [s \in Sessions |-> NoResult]
    /\ UNCHANGED copies

TailorRestart ==
    /\ Restart
    /\ copies' = [h \in Requests |-> NoTailor]
    /\ UNCHANGED <<tailor, approved>>

ClassicStep ==
    /\ \/ \E s \in Sessions : Upload(s) \/ Look(s) \/ FindExpired(s) \/ Delete(s)
       \/ \E h \in Requests :
              \/ \E s \in Sessions : Begin(h, s)
              \/ TakeLock(h) \/ Call(h) \/ Answered(h) \/ Finish(h)
              \/ Fail(h) /\ copies[h] = NoTailor
       \/ Cleanup
       \/ (SetBudget \/ NewDay) /\ UNCHANGED sessionVars
    /\ UNCHANGED tailorVars

TailorNext ==
    \/ ClassicStep \/ TailorTick \/ TailorDeleteProfile \/ TailorRestart
    \/ \E s \in Sessions :
           \/ \E d \in Drafts : CreateTailor(s, d) \/ Patch(s, d)
           \/ LookAtTailor(s) \/ TailorFindExpired(s) \/ Approve(s)
    \/ \E h \in Requests :
           \/ \E s \in Sessions : BeginTailor(h, s) \/ BeginTailorRefine(h, s)
           \/ FinishTailor(h) \/ FinishTailorRefine(h) \/ FailTailor(h)

TailorSpec == TailorInit /\ [][TailorNext]_allVars

(* The server runs what it can: a freed lock wakes a waiting request, a    *)
(* backend answers or times out, and a pipeline that makes a bounded       *)
(* number of calls comes to its end.  Users owe nothing.                   *)
Fairness ==
    \A h \in Requests :
        /\ WF_allVars(TakeLock(h) /\ UNCHANGED tailorVars)
        /\ WF_allVars(Answered(h) /\ UNCHANGED tailorVars)
        /\ SF_allVars(\/ (Finish(h) \/ (Fail(h) /\ copies[h] = NoTailor))
                          /\ UNCHANGED tailorVars
                     \/ FinishTailor(h) \/ FinishTailorRefine(h) \/ FailTailor(h))

FairTailorSpec == TailorSpec /\ Fairness

-----------------------------------------------------------------------------
(* The history that the user reviews explains the resume: every request    *)
(* whose edits are in the current text is in change_history, although      *)
(* concurrent requests overwrite each other's copies.                      *)
HistoryExplainsText ==
    \A s \in Sessions :
        tailor[s] # NoTailor => tailor[s].current.edits \subseteq tailor[s].history

(* A PDF that shows the text, or a trial of the one request that made it.  *)
Shows(pdf, text) == pdf = text \/ \E h \in Requests : Rewritten(pdf, h) = text

(* An approved PDF shows the approved text or, out of last_result, a trial *)
(* of the one request that made that text: never a text from before the    *)
(* user's last edit, nor one that lacks another request's edits.           *)
ApprovedPdfIsOfItsRequest ==
    \A s \in Sessions :
        approved[s] # NoResult => Shows(approved[s].pdf, approved[s].text)

(* Every request that waits for a session's lock is answered, refused or   *)
(* lost with the process: no exit of a handler leaves the lock taken.      *)
EveryRequestEnds == \A h \in Requests : InFlight(h) ~> ~InFlight(h)
=============================================================================
