------------------------- MODULE ApplicationDocuments -------------------------
(* The tailored resumes and cover letters of one application: rows and      *)
(* files on the server (cover_letters.py, artifact_files.py, the artifact   *)
(* part of application_store.py), the routes that make, approve, serve and  *)
(* mark them, the panel that attaches them to the employer's form, and the  *)
(* receipt that names them (submission.build_submission_bundle).            *)
(*                                                                          *)
(* A handler here runs alone, except that a draft awaits the model; what    *)
(* its caller gets, it gets in a later step.  The panel runs one task at a  *)
(* time (state.busy), but a window that gains the focus reads the letter    *)
(* again meanwhile, and the web studio approves resumes on its own.         *)
(*                                                                          *)
(* Abstractions.  A document is its text.  Whether a page fits and LaTeX    *)
(* compiles is a choice; the profile has a resume, which does not change.   *)
EXTENDS Naturals, Sequences

CONSTANTS
    Resumes,      \* texts of tailored resumes
    Letters,      \* texts of letters
    SavedResume,  \* the text of the profile's resume
    Supports,     \* <<resume, letter>>: validate_letter finds no error
    MaxArtifacts, \* bound: artifacts of the application
    None

ASSUME DocumentsAssumption ==
    /\ MaxArtifacts \in Nat
    /\ Supports \subseteq (Resumes \cup {SavedResume}) \X Letters

VARIABLES
    artifacts, \* application_artifacts, in the order of updated_at
    disk,      \* [kind -> the PDF at the path of this application's files]
    attached,  \* [kind -> what the panel last put into the employer's form]
    letter,    \* state.coverLetter
    errand,    \* the task that state.busy stands for
    focus,     \* the reading that a focus event started
    receipt,   \* submission_bundles, the documents it names
    isSubmitted, \* the application is submitted
    vouched,   \* the texts that the user approved (history)
    unseen,    \* edits that the panel's copy did not come to show (history)
    writer     \* [kind -> the artifact whose PDF was written last] (history)

server == <<artifacts, disk>>
history == <<vouched, unseen, writer>>
documentVars ==
    <<server, attached, letter, errand, focus, receipt, isSubmitted, history>>

Kinds == {"resume", "letter"}
Statuses == {"generated", "approved", "uploaded"}

-----------------------------------------------------------------------------
(* Rows and files.                                                          *)

NoArtifact == [id |-> 0]
HasRoom == Len(artifacts) < MaxArtifacts
NewArtifact(kind, status, text, file) ==
    [id |-> Len(artifacts) + 1, kind |-> kind, status |-> status, text |-> text, file |-> file]
Row(id) == CHOOSE a \in {artifacts[i] : i \in DOMAIN artifacts} : a.id = id

(* save_application_artifact: whatever is saved becomes the newest.         *)
Saved(a) ==
    IF \A i \in DOMAIN artifacts : artifacts[i].id # a.id
    THEN Append(artifacts, a)
    ELSE LET at == CHOOSE i \in DOMAIN artifacts : artifacts[i].id = a.id
         IN  [i \in DOMAIN artifacts |->
                 IF i < at THEN artifacts[i]
                 ELSE IF i < Len(artifacts) THEN artifacts[i + 1] ELSE a]

(* get_latest_application_artifact                                          *)
LatestOf(kind, statuses) ==
    LET found == {i \in DOMAIN artifacts :
                     artifacts[i].kind = kind /\ artifacts[i].status \in statuses}
    IN  IF found = {} THEN NoArtifact
        ELSE artifacts[CHOOSE i \in found : \A j \in found : j <= i]

(* Mutant: a file that exists is not written again.                         *)
WriteOnce(a) ==
    /\ disk' = IF disk[a.kind] = None THEN [disk EXCEPT ![a.kind] = a.text] ELSE disk
    /\ writer' = [writer EXCEPT ![a.kind] = a.id]
(* write_pdf_bytes: the name of the file is made of the application, and of *)
(* the job's or company's name, so that all documents of a kind share it.   *)
Write(a) ==
    /\ disk' = [disk EXCEPT ![a.kind] = a.text]
    /\ writer' = [writer EXCEPT ![a.kind] = a.id]

(* load_pdf_b64, artifact_file_payload                                      *)
Bytes(a) == IF a.file THEN disk[a.kind] ELSE a.text

-----------------------------------------------------------------------------
(* Resumes.                                                                 *)

(* approve_tailor_session, of a text that fits the page.                    *)
ApproveTailored(text) ==
    /\ HasRoom
    /\ LET a == NewArtifact("resume", "approved", text, TRUE)
       IN  artifacts' = Saved(a) /\ Write(a)
    /\ vouched' = vouched \cup {text}
    /\ UNCHANGED <<attached, letter, errand, focus, receipt, isSubmitted, unseen>>

(* prepare_extension_resume with customize, when the optimizer has made a   *)
(* page: its PDF is kept in the row.                                        *)
GenerateTailored(text) ==
    /\ HasRoom
    /\ artifacts' = Saved(NewArtifact("resume", "generated", text, FALSE))
    /\ UNCHANGED <<disk, attached, letter, errand, focus, receipt, isSubmitted, history>>

NoErrand == [kind |-> "none"]
Carry(kind, id, text) == [kind |-> kind, step |-> "attach", id |-> id, text |-> text]

(* uploadDefaultResume up to the answer of prepare_extension_resume: the    *)
(* latest approved tailored resume if that is preferred, else the profile's.*)
Prepared(preferApproved) ==
    LET a == LatestOf("resume", {"approved"})
    IN  IF preferApproved /\ a # NoArtifact
        THEN Carry("resume", a.id, Bytes(a))
        ELSE Carry("resume", 0, SavedResume)
PrepareResume(preferApproved) ==
    /\ errand = NoErrand
    /\ errand' = Prepared(preferApproved)
    /\ UNCHANGED <<server, attached, letter, focus, receipt, isSubmitted, history>>

-----------------------------------------------------------------------------
(* Letters.                                                                 *)

NoLetter == [id |-> 0, status |-> "none", text |-> None]
Copy(a) ==
    IF a = NoArtifact THEN NoLetter ELSE [id |-> a.id, status |-> a.status, text |-> a.text]
Show(a) == [kind |-> "show", letter |-> Copy(a)]

(* resume_text_for_application                                              *)
GroundingResume ==
    LET a == LatestOf("resume", {"approved"})
    IN  IF a = NoArtifact THEN SavedResume ELSE a.text

(* draftCoverLetter; generate_cover_letter reads the resume, and awaits.    *)
StartDraft ==
    /\ errand = NoErrand
    /\ errand' = [kind |-> "draft", resume |-> GroundingResume]
    /\ UNCHANGED <<server, attached, letter, focus, receipt, isSubmitted, history>>

FinishDraft(text) ==
    /\ errand.kind = "draft"
    /\ HasRoom /\ <<errand.resume, text>> \in Supports
    /\ LET a == NewArtifact("letter", "generated", text, FALSE)
       IN  artifacts' = Saved(a) /\ errand' = Show(a)
    /\ UNCHANGED <<disk, attached, letter, focus, receipt, isSubmitted, history>>

(* create_cover_letter_from_text, for a client of the API.                  *)
OwnLetter(text) ==
    /\ HasRoom /\ <<GroundingResume, text>> \in Supports
    /\ artifacts' = Saved(NewArtifact("letter", "generated", text, FALSE))
    /\ UNCHANGED <<disk, attached, letter, errand, focus, receipt, isSubmitted, history>>

(* Mutants: an edit leaves the letter approved; it keeps the PDF.           *)
EditedKeepingStatus(a, text) == [a EXCEPT !.text = text, !.file = FALSE]
EditedKeepingFile(a, text) == [a EXCEPT !.text = text, !.status = "generated"]
(* update_cover_letter_text                                                 *)
Edited(a, text) == [a EXCEPT !.text = text, !.status = "generated", !.file = FALSE]

(* saveCoverLetterEdits                                                     *)
EditLetter(text) ==
    /\ errand = NoErrand /\ letter # NoLetter
    /\ <<GroundingResume, text>> \in Supports
    /\ LET a == Edited(Row(letter.id), text)
       IN  artifacts' = Saved(a) /\ errand' = Show(a)
    /\ UNCHANGED <<disk, attached, letter, focus, receipt, isSubmitted, history>>

(* approveCoverLetter, approve_cover_letter: of the text in the row.  Where *)
(* no page is rendered, the row keeps the file it may have.                 *)
ApproveLetter(rendered) ==
    /\ errand = NoErrand /\ letter # NoLetter /\ letter.status # "approved"
    /\ LET row == Row(letter.id)
           a == [row EXCEPT !.status = "approved", !.file = rendered \/ row.file]
       IN  /\ artifacts' = Saved(a)
           /\ errand' = Show(a)
           /\ IF rendered THEN Write(a) ELSE UNCHANGED <<disk, writer>>
    /\ vouched' = vouched \cup {letter.text}
    /\ UNCHANGED <<attached, letter, focus, receipt, isSubmitted, unseen>>

(* attachCoverLetter up to the answer of get_artifact_file.  The status is  *)
(* that of the panel's copy.                                                *)
FetchLetter ==
    /\ errand = NoErrand /\ letter.status = "approved"
    /\ errand' = Carry("letter", letter.id, Bytes(Row(letter.id)))
    /\ UNCHANGED <<server, attached, letter, focus, receipt, isSubmitted, history>>

-----------------------------------------------------------------------------
(* The panel.                                                               *)

(* The answer with the letter as it is now.                                 *)
ShowLetter ==
    /\ errand.kind = "show"
    /\ letter' = errand.letter
    /\ errand' = NoErrand
    /\ UNCHANGED <<server, attached, focus, receipt, isSubmitted, history>>

(* attachFileToInput; a resume without artifact has no status to set.       *)
Attach ==
    /\ errand.kind \in Kinds /\ errand.step = "attach"
    /\ attached' = [attached EXCEPT ![errand.kind] = [id |-> errand.id, text |-> errand.text]]
    /\ errand' = IF errand.id = 0 THEN NoErrand ELSE [errand EXCEPT !.step = "mark"]
    /\ UNCHANGED <<server, letter, focus, receipt, isSubmitted, history>>

(* markArtifactStatus "uploaded" once the form has the file.  For a letter  *)
(* a failure does not count, and the panel reads the page again.            *)
MarkUploaded(recorded) ==
    /\ errand.kind \in Kinds /\ errand.step = "mark"
    /\ artifacts' = IF recorded THEN Saved([Row(errand.id) EXCEPT !.status = "uploaded"])
                    ELSE artifacts
    /\ letter' = IF errand.kind = "resume" THEN letter
                 ELSE Copy(LatestOf("letter", Statuses)')
    /\ errand' = NoErrand
    /\ UNCHANGED <<disk, attached, focus, receipt, isSubmitted, history>>

(* A request fails, an answer is lost, or the form has no field for a file. *)
ErrandFails ==
    /\ \/ errand.kind \in {"draft", "show"}
       \/ errand.kind \in Kinds /\ errand.step = "attach"
    /\ errand' = NoErrand
    /\ unseen' = IF errand.kind = "show" THEN unseen \cup {errand.letter.text} ELSE unseen
    /\ UNCHANGED <<server, attached, letter, focus, receipt, isSubmitted, vouched, writer>>

NoFocus == [at |-> "none", letter |-> NoLetter]

(* The handler of window focus, which looks at state.busy only once ...     *)
GainFocus ==
    /\ errand = NoErrand /\ focus = NoFocus
    /\ focus' = [NoFocus EXCEPT !.at = "reading"]
    /\ UNCHANGED <<server, attached, letter, errand, receipt, isSubmitted, history>>

(* ... and gets to loadCoverLetter some requests later.                     *)
ReadLetter ==
    /\ focus.at = "reading"
    /\ letter' = NoLetter
    /\ focus' = [at |-> "answered", letter |-> Copy(LatestOf("letter", Statuses))]
    /\ UNCHANGED <<server, attached, errand, receipt, isSubmitted, history>>

LetterRead ==
    /\ focus.at = "answered"
    /\ letter' \in {focus.letter, NoLetter}
    /\ unseen' = IF letter' = NoLetter \/ letter' = Copy(Row(letter'.id)) THEN unseen
                 ELSE unseen \cup {Row(letter'.id).text}
    /\ focus' = NoFocus
    /\ UNCHANGED <<server, attached, errand, receipt, isSubmitted, vouched, writer>>

-----------------------------------------------------------------------------
(* The receipt.                                                             *)

Nothing == [id |-> 0, text |-> None]
Named(kind) ==
    LET uploaded == LatestOf(kind, {"uploaded"})
        a == IF uploaded # NoArtifact THEN uploaded ELSE LatestOf(kind, {"approved"})
    IN  IF a # NoArtifact THEN [id |-> a.id, text |-> a.text]
        ELSE IF kind = "resume" THEN [id |-> 0, text |-> SavedResume] ELSE Nothing
NoReceipt == [k \in {} |-> Nothing]

(* confirm_submission; ApplicationTracker has what else it does, and when   *)
(* the application gets to submitted.                                       *)
ConfirmSubmission ==
    /\ receipt = NoReceipt \/ ~isSubmitted
    /\ receipt' = [kind \in Kinds |-> Named(kind)]
    /\ isSubmitted' \in {isSubmitted, TRUE}
    /\ UNCHANGED <<server, attached, letter, errand, focus, history>>

-----------------------------------------------------------------------------
DocumentsInit ==
    /\ artifacts = <<>>
    /\ disk = [kind \in Kinds |-> None]
    /\ attached = [kind \in Kinds |-> Nothing]
    /\ letter = NoLetter
    /\ errand = NoErrand
    /\ focus = NoFocus
    /\ receipt = NoReceipt
    /\ isSubmitted = FALSE
    /\ vouched = {}
    /\ unseen = {}
    /\ writer = [kind \in Kinds |-> 0]

PanelDocuments ==
    \/ \E prefer \in BOOLEAN : PrepareResume(prefer)
    \/ StartDraft \/ FetchLetter \/ ShowLetter \/ Attach \/ ErrandFails
    \/ \E text \in Letters : FinishDraft(text) \/ EditLetter(text)
    \/ \E rendered \in BOOLEAN : ApproveLetter(rendered)
    \/ \E recorded \in BOOLEAN : MarkUploaded(recorded)
    \/ GainFocus \/ ReadLetter \/ LetterRead

DocumentsNext ==
    \/ PanelDocuments
    \/ \E text \in Resumes : ApproveTailored(text) \/ GenerateTailored(text)
    \/ \E text \in Letters : OwnLetter(text)
    \/ ConfirmSubmission

DocumentsSpec == DocumentsInit /\ [][DocumentsNext]_documentVars

-----------------------------------------------------------------------------
(* Properties.                                                              *)

(* Whatever the panel put into the employer's form, the user had approved:  *)
(* it is the profile's own resume, or a text that the studio or the panel   *)
(* showed when the user pressed Approve.  The panel judges by its own copy  *)
(* of the letter and gets the file from the server, which does not check    *)
(* the status; so there is one excuse: an edit that was saved and whose     *)
(* answer was lost, or overtaken by an older reading.                       *)
OnlyApprovedIsAttached ==
    \A kind \in Kinds :
        attached[kind].text \in vouched \cup unseen \cup {SavedResume, None}

(* Row and file of an artifact change in different places (approval writes  *)
(* both, an edit drops the file from the row, a later approval of another   *)
(* document overwrites it): the artifact whose PDF was written last is      *)
(* served as the text that its row, and so a receipt, names.                *)
WriterIsServedWhole ==
    \A kind \in Kinds :
        writer[kind] # 0 => Bytes(Row(writer[kind])) = Row(writer[kind]).text

(* extension/README.md: the receipt says "which resume and cover letter     *)
(* were attached (by artifact id and SHA-256)".                             *)
ReceiptNamesWhatWasAttached ==
    [][\A kind \in Kinds :
          receipt' # receipt /\ attached[kind] # Nothing
              => receipt'[kind] = attached[kind]]_documentVars
=============================================================================
