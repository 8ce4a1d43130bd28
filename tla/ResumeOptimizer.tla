---------------------------- MODULE ResumeOptimizer ----------------------------
(* What one request does to a resume (optimizer.py): the model proposes     *)
(* rewrites of single statements, each is validated, the resume is rebuilt, *)
(* rendered and scored, skills and keywords are patched in, and edits are   *)
(* shortened or taken back until the resume is one page again.  The model   *)
(* is asked again and again; every question may fail.                       *)
(*                                                                          *)
(* A wording stands for the text of a statement: how many words it has,     *)
(* whether it claims only what the original supports (_fabricated_metrics,  *)
(* _unsupported_claim_drifts), and whether LaTeX compiles it within the     *)
(* time limit.  Scores and lengths belong to whole resumes, and a resume is *)
(* the partial function from its changed statements to their new wordings.  *)
EXTENDS Naturals, FiniteSets, Functions

CONSTANTS
    Prose,          \* statements of the summary, the jobs and the projects
    Skills,         \* the skills lines
    Wordings,       \* texts of a statement: [words, sound, compiles]
    Original,       \* the text a statement has in the parsed resume
    AllowedWords,   \* _allowed_words_for_change
    MinimumWords,   \* statements this short are left alone by the strict fit
    Scopes,         \* the sets of statements a user selects
    Pages,          \* how long a resume may be to fit one page
    Score(_),       \* check_ats of a resume
    Length(_),      \* the length of a resume, in the unit of Pages
    Target,         \* ATS_TARGET_SCORE
    Tolerance,      \* the score the strict fit may give up for one statement
    MaxReviews,     \* max_iterations of _run_recruiter_review_loop
    MaxAttempts,    \* max_attempts of _compact_original_resume_for_strict_fit
    None            \* no PDF, no score

Statements == Prose \cup Skills
Resumes == UNION {[S -> Wordings] : S \in SUBSET Statements}
Unchanged == [s \in {} |-> Original]

ASSUME WordingsAssumption ==
    /\ Original \in Wordings
    /\ \A w \in Wordings :
           w.words \in Nat /\ w.sound \in BOOLEAN /\ w.compiles \in BOOLEAN
    /\ Original.sound
    /\ Scopes \subseteq SUBSET Statements
ASSUME ScoreAssumption ==
    /\ \A r \in Resumes : Score(r) \in Nat
    /\ Target \in Nat /\ Tolerance \in Nat /\ None \notin Nat
    /\ AllowedWords \in Nat /\ MinimumWords \in Nat
    /\ MaxReviews \in Nat /\ MaxAttempts \in Nat

VARIABLES
    phase,      \* the stage of the pipeline
    job,        \* the request: its scope, the page, whether an engine exists
    result,     \* the OptimizationResult
    todo,       \* the statements that the stage has still to look at
    enforce,    \* the score met the target when the stage began
    blocked,    \* confirmation_required_skills is not empty
    reviews,    \* recruiter reviews applied or refused so far
    base,       \* the score before the review that is being applied
    attempts,   \* statements that the strict fit has tried
    failed      \* "Recruiter review loop failed"

control == <<todo, enforce, blocked, reviews, base, attempts, failed>>
optimizerVars == <<phase, job, result, control>>

Ended == {"idle", "done", "edited", "raised"}
(* The stages in which result holds a rendered and scored resume.           *)
Rendered ==
    {"skills", "keywords", "shorten", "prune", "review", "strict", "done",
     "edited"}
Phases == Ended \cup Rendered \cup {"extract", "diffs", "voice", "apply", "edit"}

Jobs == [scope : Scopes, page : Pages, engine : BOOLEAN]
Results ==
    [changes : Resumes, diff : Resumes, latex : Resumes,
     score : Nat \cup {None}, overflow : BOOLEAN, pdf : Resumes \cup {None}]

OptimizerTypeOK ==
    /\ phase \in Phases
    /\ job \in Jobs \cup {None}
    /\ result \in Results
    /\ todo \subseteq Statements
    /\ enforce \in BOOLEAN /\ blocked \in BOOLEAN /\ failed \in BOOLEAN
    /\ reviews \in 0..MaxReviews
    /\ base \in Nat \cup {None}
    /\ attempts \in 0..MaxAttempts

-----------------------------------------------------------------------------
Wording(r, s) == IF s \in DOMAIN r THEN r[s] ELSE Original
Edited(r, s, w) == [x \in DOMAIN r \cup {s} |-> IF x = s THEN w ELSE r[x]]
Merged(r, q) ==
    [x \in DOMAIN r \cup DOMAIN q |-> IF x \in DOMAIN q THEN q[x] ELSE r[x]]
Without(r, s) == Restrict(r, DOMAIN r \ {s})

(* validate_changes, on one statement.                                      *)
Valid(w) == w # Original /\ w.sound
(* _filter_wordy_changes_for_page_budget: skills lines are exempt.          *)
FitsTheLine(s, w) == s \in Skills \/ w.words <= AllowedWords
(* Both gates: a wording that fails the second is compacted by the model,   *)
(* once, and has to pass both again.                                        *)
Admitted(s, w) == Valid(w) /\ FitsTheLine(s, w)
AdmittedFor(S) ==
    UNION {{r \in [D -> Wordings] : \A s \in D : Admitted(s, r[s])} :
           D \in SUBSET S}

Compiles(r) == \A s \in DOMAIN r : r[s].compiles

(* check_one_page: a resume that does not compile reports no overflow, and  *)
(* without a LaTeX engine the words are counted instead.                    *)
Overflows(r) == Length(r) > job.page /\ (job.engine => Compiles(r))

(* _record_render: pdf_bytes is replaced only by a PDF.                     *)
PdfAfter(r) == IF job.engine /\ Compiles(r) THEN r ELSE result.pdf

(* The result with resume r as its artifact: validated_changes,             *)
(* modified_latex, ats_after and the fields of the render.  The displayed   *)
(* diff is kept by other code and is given apart.                           *)
Artifact(r, diff) ==
    [changes |-> r, diff |-> diff, latex |-> r, score |-> Score(r),
     overflow |-> Overflows(r), pdf |-> PdfAfter(r)]

MeetsTarget == result.score >= Target
OnTarget == MeetsTarget /\ ~result.overflow

(* A step that puts wording w in statement s, and its entry in the diff.    *)
Adopt(s, w) ==
    result' = Artifact(Edited(result.changes, s, w), Edited(result.diff, s, w))

(* Entry of a stage that loops over the statements S.                       *)
Enter(stage, S) ==
    /\ phase' = stage
    /\ todo' = S
    /\ enforce' = (result'.score >= Target)

Looked(s) == s \in todo /\ todo' = todo \ {s}

-----------------------------------------------------------------------------
Blank ==
    [changes |-> Unchanged, diff |-> Unchanged, latex |-> Unchanged,
     score |-> None, overflow |-> FALSE, pdf |-> None]

OptimizerInit ==
    /\ phase = "idle"
    /\ job = None
    /\ result = Blank
    /\ todo = {} /\ enforce = FALSE /\ blocked = FALSE /\ failed = FALSE
    /\ reviews = 0 /\ base = None /\ attempts = 0

(* A request: the whole pipeline, or one of its short forms.                *)
StartJob(j, stage) ==
    /\ phase \in Ended
    /\ job' = j
    /\ phase' = stage
    /\ result' = Blank
    /\ todo' = {} /\ enforce' = FALSE /\ blocked' = FALSE /\ failed' = FALSE
    /\ reviews' = 0 /\ base' = None /\ attempts' = 0

(* Stage 1: keywords.  Without them the original is the artifact, with no   *)
(* score.                                                                   *)
ExtractKeywords ==
    /\ phase = "extract"
    /\ \/ phase' = "diffs" /\ UNCHANGED result
       \/ phase' = "done"
          /\ result' = [Artifact(Unchanged, Unchanged) EXCEPT !.score = None]
    /\ UNCHANGED <<job, control>>

(* Stages 2 to 5: the plan of skills, whose failure is made up for locally; *)
(* the rewrites; the scope; the validation; repair of unsupported claims;   *)
(* the page budget; and a second, compact rewrite of what is too long.  A   *)
(* repaired or compacted rewrite passes the gates of the first one, so      *)
(* three ways of getting in lead to one condition.                          *)
Screened == AdmittedFor(job.scope)

GenerateDiffs ==
    /\ phase = "diffs"
    /\ \/ \E r \in Screened :
              /\ result' = [result EXCEPT !.diff = r]
              /\ phase' = "voice"
       \/ /\ result' = Artifact(Unchanged, Unchanged)
          /\ phase' = "done"
    /\ UNCHANGED <<job, control>>

(* Mutant: a second rewrite is trusted.                                     *)
RefineVoiceUnchecked ==
    /\ phase = "voice"
    /\ \E r \in [DOMAIN result.diff -> Wordings \ {Original}] :
           result' = [result EXCEPT !.diff = r]
    /\ phase' = "apply"
    /\ UNCHANGED <<job, control>>

(* Stage 5.5: a rewrite that sounds generated may be replaced by another    *)
(* one, of any length.                                                      *)
RefineVoice ==
    /\ phase = "voice"
    /\ \E r \in [DOMAIN result.diff -> Wordings] :
           /\ \A s \in DOMAIN r : r[s] = result.diff[s] \/ Valid(r[s])
           /\ result' = [result EXCEPT !.diff = r]
    /\ phase' = "apply"
    /\ UNCHANGED <<job, control>>

(* The score names the skills that the resume still misses.  The lines of   *)
(* those that the user confirmed are patched; the others wait for the user. *)
Confirmed == SUBSET (Skills \cap job.scope)

(* The accepted rewrites are rendered and scored.                           *)
ApplyDiffs ==
    /\ phase = "apply"
    /\ result' = Artifact(result.diff, result.diff)
    /\ \E S \in Confirmed : Enter("skills", S)
    /\ blocked' \in BOOLEAN
    /\ UNCHANGED <<job, reviews, base, attempts, failed>>

(* refine_resume_with_instruction and apply_manual_statement_edits: scope,  *)
(* validation, render and score, and nothing else.                          *)
EditOnce ==
    /\ phase = "edit"
    /\ \/ \E r \in UNION {[S -> Wordings] : S \in SUBSET job.scope} :
              /\ \A s \in DOMAIN r : Valid(r[s])
              /\ result' = Artifact(r, r)
              /\ phase' = "edited"
       \/ phase' = "raised" /\ UNCHANGED result
    /\ UNCHANGED <<job, control>>

-----------------------------------------------------------------------------
(* _deterministic_skills_patch: the line of statement s with a skill more.  *)
WithSkill(s) ==
    {w \in Wordings : w.sound /\ w.words = Wording(result.changes, s).words + 1}

(* A confirmed skill is appended to its line if that raises the score and   *)
(* does not push a fitting resume over the page; until the target is met.   *)
PatchSkill(s) ==
    /\ phase = "skills" /\ ~OnTarget
    /\ Looked(s)
    /\ \/ UNCHANGED result
       \/ \E w \in WithSkill(s) :
              LET trial == Edited(result.changes, s, w)
              IN  /\ Score(trial) > result.score
                  /\ Overflows(trial) => result.overflow
                  /\ Adopt(s, w)
    /\ UNCHANGED <<phase, job, enforce, blocked, reviews, base, attempts, failed>>

LeaveSkills ==
    /\ phase = "skills" /\ (OnTarget \/ todo = {})
    /\ UNCHANGED <<job, result, blocked, reviews, base, attempts, failed>>
    /\ Enter("keywords", Prose)

(* The phrases of the job that statement s supports in other words, woven   *)
(* into it: a fixed table, which claims nothing new.                        *)
Woven(s) ==
    {w \in Wordings : w.sound /\ w.words > Wording(result.changes, s).words}

(* try_patch: in or out of the selected scope, if the score does not fall   *)
(* and a fitting resume stays on its page.                                  *)
PatchKeyword(s) ==
    /\ phase = "keywords"
    /\ Looked(s)
    /\ \/ UNCHANGED result
       \/ \E w \in Woven(s) :
              LET trial == Edited(result.changes, s, w)
              IN  /\ Score(trial) >= result.score
                  /\ Overflows(trial) => result.overflow
                  /\ Adopt(s, w)
    /\ UNCHANGED <<phase, job, enforce, blocked, reviews, base, attempts, failed>>

LeaveKeywords ==
    /\ phase = "keywords" /\ todo = {}
    /\ UNCHANGED <<job, result, blocked, reviews, base, attempts, failed>>
    /\ IF result.overflow
       THEN Enter("shorten", Prose \cap DOMAIN result.changes)
       ELSE Enter("review", {})

-----------------------------------------------------------------------------
InReview == phase = "review" \/ (phase = "shorten" /\ reviews > 0)

(* The model fails in the middle of a stage.  Within the recruiter review   *)
(* that ends the review, wherever it stood; elsewhere it ends the request.  *)
GiveUp ==
    /\ UNCHANGED <<job, result, blocked, reviews, base, attempts>>
    /\ IF InReview
       THEN failed' = TRUE /\ Enter("strict", Statements)
       ELSE phase' = "raised" /\ UNCHANGED <<todo, enforce, failed>>

(* _compact_overflowing_applied_changes, on one statement: the answer may   *)
(* be of no use, or lose score that the resume may not lose.                *)
Shorten(s) ==
    /\ phase = "shorten" /\ result.overflow
    /\ Looked(s)
    /\ \/ UNCHANGED result
       \/ \E w \in Wordings :
              LET trial == Score(Edited(result.changes, s, w))
              IN  /\ Valid(w)
                  /\ trial >= IF enforce THEN Target ELSE result.score
                  /\ Adopt(s, w)
    /\ UNCHANGED <<phase, job, enforce, blocked, reviews, base, attempts, failed>>

ShortenFails == phase = "shorten" /\ result.overflow /\ todo # {} /\ GiveUp

LeaveShorten ==
    /\ phase = "shorten" /\ (todo = {} \/ ~result.overflow)
    /\ UNCHANGED <<job, result, blocked, reviews, base, attempts, failed>>
    /\ Enter("prune", {})

(* Mutant: the target is defended before it is met.                         *)
RemovableAtTarget ==
    {s \in DOMAIN result.changes :
        Score(Without(result.changes, s)) >= Target}

(* The edits that may be taken back: a met target stays met.                *)
Removable ==
    {s \in DOMAIN result.changes :
        enforce => Score(Without(result.changes, s)) >= Target}

(* The sort key: a removal that fits the page, then the least loss of       *)
(* score, then prose before skills.                                         *)
ScoreLost(s) ==
    LET left == Score(Without(result.changes, s))
    IN  IF left < result.score THEN result.score - left ELSE 0
Before(s, t) ==
    LET over(x) == Overflows(Without(result.changes, x))
    IN  \/ ~over(s) /\ over(t)
        \/ /\ over(s) = over(t)
           /\ \/ ScoreLost(s) < ScoreLost(t)
              \/ ScoreLost(s) = ScoreLost(t) /\ s \in Prose /\ t \in Skills

(* Mutant: the diff goes on showing the edit.                               *)
PruneShown(s) ==
    /\ phase = "prune" /\ result.overflow
    /\ s \in Removable /\ ~\E t \in Removable : Before(t, s)
    /\ result' = Artifact(Without(result.changes, s), result.diff)
    /\ UNCHANGED <<phase, job, control>>

(* _repair_overflow_by_pruning_low_roi_changes: the best edit to lose.      *)
Prune(s) ==
    /\ phase = "prune" /\ result.overflow
    /\ s \in Removable /\ ~\E t \in Removable : Before(t, s)
    /\ result' = Artifact(Without(result.changes, s), Without(result.diff, s))
    /\ UNCHANGED <<phase, job, control>>

(* After a review the loop goes on only if the review was of use.           *)
LeavePrune ==
    /\ phase = "prune" /\ (~result.overflow \/ Removable = {})
    /\ UNCHANGED <<job, result, blocked, reviews, base, attempts, failed>>
    /\ IF reviews > 0 /\ (result.overflow \/ result.score < base)
       THEN Enter("strict", Statements)
       ELSE Enter("review", {})

-----------------------------------------------------------------------------
LeaveReview ==
    /\ phase = "review"
    /\ OnTarget \/ blocked \/ reviews = MaxReviews
    /\ UNCHANGED <<job, result, blocked, reviews, base, attempts, failed>>
    /\ Enter("strict", Statements)

(* What a review may propose: wordings that pass the gates, for statements  *)
(* in or out of the selected scope.                                         *)
Reviewed == AdmittedFor(Statements)

(* Mutant: the reviewer's word is taken for the score.                      *)
ReviewUnscored ==
    /\ phase = "review" /\ ~OnTarget /\ ~blocked /\ reviews < MaxReviews
    /\ reviews' = reviews + 1
    /\ \E r \in Reviewed :
           /\ result' = Artifact(Merged(result.changes, r), Merged(result.diff, r))
           /\ base' = result.score
           /\ IF result'.overflow
              THEN Enter("shorten", Prose \cap DOMAIN result'.changes)
              ELSE Enter("review", {})
    /\ UNCHANGED <<job, blocked, attempts, failed>>

(* Mutant: the iterations are not counted.                                  *)
ReviewUncounted ==
    /\ phase = "review" /\ ~OnTarget /\ ~blocked
    /\ \E r \in Reviewed :
           LET trial == Merged(result.changes, r)
           IN  /\ Score(trial) >= result.score
               /\ result' = Artifact(trial, Merged(result.diff, r))
               /\ base' = result.score
               /\ IF result'.overflow
                  THEN Enter("shorten", Prose \cap DOMAIN trial)
                  ELSE Enter("review", {})
    /\ UNCHANGED <<job, blocked, reviews, attempts, failed>>

(* One iteration of _run_recruiter_review_loop: changes that lower the      *)
(* score are refused, and end the loop, as no changes do.  A resume that    *)
(* fitted its page may overflow now, and is repaired.                       *)
Review ==
    /\ phase = "review" /\ ~OnTarget /\ ~blocked /\ reviews < MaxReviews
    /\ reviews' = reviews + 1
    /\ \E r \in Reviewed :
           LET trial == Merged(result.changes, r)
           IN  IF r = Unchanged \/ Score(trial) < result.score
               THEN /\ UNCHANGED <<result, base>>
                    /\ Enter("strict", Statements)
               ELSE /\ result' = Artifact(trial, Merged(result.diff, r))
                    /\ base' = result.score
                    /\ IF result'.overflow
                       THEN Enter("shorten", Prose \cap DOMAIN trial)
                       ELSE Enter("review", {})
    /\ UNCHANGED <<job, blocked, attempts, failed>>

ReviewFails ==
    /\ phase = "review" /\ ~OnTarget /\ ~blocked /\ reviews < MaxReviews
    /\ GiveUp

-----------------------------------------------------------------------------
(* The strict fit looks at prose before skills, and asks for statements     *)
(* that have words to spare.                                                *)
InTurn(s) ==
    /\ phase = "strict" /\ result.overflow /\ attempts < MaxAttempts
    /\ s \in todo /\ (s \in Skills => todo \cap Prose = {})
Spare(s) == Wording(result.changes, s).words > MinimumWords

PassOver(s) ==
    /\ InTurn(s) /\ ~Spare(s)
    /\ Looked(s)
    /\ UNCHANGED <<phase, job, result, enforce, blocked, reviews, base, attempts, failed>>

(* _compact_original_resume_for_strict_fit, on one statement: the model's   *)
(* wording or one cut at a clause, if it is shorter and loses at most the   *)
(* tolerance, or no score that the target needs.                            *)
FitStatement(s) ==
    /\ InTurn(s) /\ Spare(s)
    /\ Looked(s)
    /\ attempts' = attempts + 1
    /\ \/ UNCHANGED result
       \/ \E w \in Wordings :
              LET trial == Score(Edited(result.changes, s, w))
              IN  /\ Valid(w)
                  /\ w.words < Wording(result.changes, s).words
                  /\ IF enforce THEN trial >= Target
                     ELSE trial + Tolerance >= result.score
                  /\ Adopt(s, w)
    /\ UNCHANGED <<phase, job, enforce, blocked, reviews, base, failed>>

FitFails == (\E s \in todo : InTurn(s) /\ Spare(s)) /\ GiveUp

FinishJob ==
    /\ phase = "strict"
    /\ ~result.overflow \/ todo = {} \/ attempts = MaxAttempts
    /\ phase' = "done"
    /\ UNCHANGED <<job, result, control>>

-----------------------------------------------------------------------------
Pipeline ==
    \/ ExtractKeywords \/ GenerateDiffs \/ RefineVoice \/ ApplyDiffs \/ EditOnce
    \/ LeaveSkills \/ LeaveKeywords
    \/ ShortenFails \/ LeaveShorten \/ LeavePrune
    \/ LeaveReview \/ Review \/ ReviewFails \/ FitFails \/ FinishJob
    \/ \E s \in Statements :
           \/ PatchSkill(s) \/ PatchKeyword(s) \/ Shorten(s) \/ Prune(s)
           \/ PassOver(s) \/ FitStatement(s)

OptimizerNext ==
    \/ Pipeline
    \/ \E j \in Jobs, stage \in {"extract", "diffs", "edit"} : StartJob(j, stage)

OptimizerSpec == OptimizerInit /\ [][OptimizerNext]_optimizerVars

(* A pipeline that has begun goes on: a model that does not answer is timed *)
(* out by its client.                                                       *)
FairOptimizerSpec == OptimizerSpec /\ WF_optimizerVars(Pipeline)

-----------------------------------------------------------------------------
(* What the user is shown is what the resume is: the diff lists exactly the *)
(* changes in the LaTeX text, and the score and the page warning are those  *)
(* of that text, whichever stages have edited, refused or taken back edits. *)
ReportIsOfTheResume ==
    phase \in Rendered =>
        /\ result.diff = result.changes
        /\ result.latex = result.changes
        /\ result.score \in {Score(result.latex), None}
        /\ result.overflow = Overflows(result.latex)

(* No wording with an unsupported claim reaches the resume by any of the    *)
(* ways in: proposal, repair, compaction, voice, review, strict fit.        *)
AppliedTextIsSound ==
    phase \in Rendered => \A s \in DOMAIN result.latex : result.latex[s].sound

(* A resume that has reached the target keeps it through every later stage, *)
(* however much is shortened or taken back; only a repair that began below  *)
(* the target may pass it and fall again.                                   *)
TargetIsKept ==
    [][(/\ phase \in Rendered \ Ended /\ MeetsTarget
        /\ phase \in {"prune", "strict"} => enforce)
           => phase' = "raised" \/ result'.score >= Target]_optimizerVars

(* The page comes before the score: a result longer than its page either    *)
(* has reached the target, or is of an original that is itself too long, or *)
(* the review broke off before it could repair what it had applied.         *)
OverflowIsJustified ==
    phase = "done" /\ result.overflow /\ result.score # None =>
        \/ result.score >= Target \/ Overflows(Unchanged) \/ failed

(* Every request that begins ends, with a result or with an error.          *)
PipelineEnds == phase \notin Ended ~> phase \in Ended
=============================================================================
