------------------------- MODULE ResumeOptimizerProofs -------------------------
(***************************************************************************)
(* Proofs about ResumeOptimizer, for any statements, wordings, scores and  *)
(* lengths: types, the report is that of the resume, no unsupported claim  *)
(* is applied, a met target is kept, and overflow has a reason.            *)
(***************************************************************************)
EXTENDS ResumeOptimizer, TLAPS

SoundResume(r) == \A s \in DOMAIN r : r[s].sound

(* Every resume in the result is sound, from the screening on.             *)
AllSound ==
    /\ SoundResume(result.changes) /\ SoundResume(result.diff)
    /\ SoundResume(result.latex)

(* Until the end the score is always that of the resume.                   *)
Scored == phase \in Rendered \ Ended => result.score = Score(result.changes)

(* There is a job wherever there is a resume to work on.                   *)
HasJob == phase # "idle" => job \in Jobs

ControlOK ==
    /\ phase \in Phases
    /\ todo \subseteq Statements
    /\ enforce \in BOOLEAN /\ blocked \in BOOLEAN /\ failed \in BOOLEAN
    /\ reviews \in 0..MaxReviews
    /\ base \in Nat \cup {None}
    /\ attempts \in 0..MaxAttempts

ResultOK ==
    /\ result \in Results
    /\ ReportIsOfTheResume /\ Scored /\ AllSound

OptimizerIInv == ControlOK /\ HasJob /\ job \in Jobs \cup {None} /\ ResultOK

-----------------------------------------------------------------------------
(* Resumes are partial functions, and so are edited, merged, reduced ones. *)
LEMMA IsResume ==
    ASSUME NEW D \in SUBSET Statements, NEW f \in [D -> Wordings]
    PROVE  f \in Resumes
BY DEF Resumes

LEMMA ResumeType ==
    ASSUME NEW r \in Resumes
    PROVE  DOMAIN r \subseteq Statements /\ r \in [DOMAIN r -> Wordings]
BY DEF Resumes

LEMMA UnchangedIsResume == Unchanged \in Resumes /\ SoundResume(Unchanged)
<1>1. Unchanged \in [{} -> Wordings]
  BY DEF Unchanged
<1> QED
  BY <1>1, IsResume DEF SoundResume, Unchanged

LEMMA EditedIsResume ==
    ASSUME NEW r \in Resumes, NEW s \in Statements, NEW w \in Wordings
    PROVE  /\ Edited(r, s, w) \in Resumes
           /\ SoundResume(r) /\ w.sound => SoundResume(Edited(r, s, w))
<1>1. Edited(r, s, w) \in [DOMAIN r \cup {s} -> Wordings]
  BY ResumeType DEF Edited
<1>2. Edited(r, s, w) \in Resumes
  BY <1>1, ResumeType, IsResume
<1> QED
  BY <1>2 DEF SoundResume, Edited

LEMMA MergedIsResume ==
    ASSUME NEW r \in Resumes, NEW q \in Resumes
    PROVE  /\ Merged(r, q) \in Resumes
           /\ SoundResume(r) /\ SoundResume(q) => SoundResume(Merged(r, q))
<1>1. Merged(r, q) \in [DOMAIN r \cup DOMAIN q -> Wordings]
  BY ResumeType DEF Merged
<1>2. Merged(r, q) \in Resumes
  BY <1>1, ResumeType, IsResume
<1> QED
  BY <1>2 DEF SoundResume, Merged

LEMMA WithoutIsResume ==
    ASSUME NEW r \in Resumes, NEW s
    PROVE  /\ Without(r, s) \in Resumes
           /\ SoundResume(r) => SoundResume(Without(r, s))
<1>1. Without(r, s) \in [DOMAIN r \ {s} -> Wordings]
  BY ResumeType DEF Without, Restrict
<1>2. Without(r, s) \in Resumes
  BY <1>1, ResumeType, IsResume
<1> QED
  BY <1>2 DEF SoundResume, Without, Restrict

LEMMA AdmittedIsResume ==
    ASSUME NEW S \in SUBSET Statements, NEW r \in AdmittedFor(S)
    PROVE  r \in Resumes /\ SoundResume(r)
<1>1. PICK D \in SUBSET S : r \in {q \in [D -> Wordings] : \A s \in D : Admitted(s, q[s])}
  BY DEF AdmittedFor
<1> QED
  BY <1>1, IsResume DEF SoundResume, Admitted, Valid

(* A rendered artifact is a result whose fields fit each other.            *)
LEMMA ArtifactFits ==
    ASSUME OptimizerIInv, NEW r \in Resumes, NEW d \in Resumes
    PROVE  Artifact(r, d) \in Results
<1>1. Score(r) \in Nat /\ Overflows(r) \in BOOLEAN
  BY ScoreAssumption DEF Overflows
<1>2. PdfAfter(r) \in Resumes \cup {None}
  BY DEF PdfAfter, OptimizerIInv, ResultOK, Results
<1> QED
  BY <1>1, <1>2 DEF Artifact, Results

(* Putting a sound resume in place, with the same diff, keeps the result   *)
(* in order whatever the next phase is.                                    *)
LEMMA ArtifactKeepsResultOK ==
    ASSUME OptimizerIInv, NEW r \in Resumes, SoundResume(r),
           result' = Artifact(r, r), job' = job
    PROVE  ResultOK'
<1>1. result' \in Results
  BY ArtifactFits
<1>2. /\ result'.changes = r /\ result'.diff = r /\ result'.latex = r
      /\ result'.score = Score(r) /\ result'.overflow = Overflows(r)
  BY DEF Artifact
<1>3. Overflows(result.latex)' = Overflows(r)
  BY <1>2 DEF Overflows, Compiles
<1>4. ReportIsOfTheResume'
  BY <1>2, <1>3 DEF ReportIsOfTheResume
<1>5. Scored' /\ AllSound'
  BY <1>2 DEF Scored, AllSound, SoundResume
<1> QED
  BY <1>1, <1>4, <1>5 DEF ResultOK

(* A step from one rendered stage to another that leaves the result alone. *)
LEMMA SameResultOK ==
    ASSUME OptimizerIInv, result' = result, job' = job,
           phase' \in Rendered => phase \in Rendered \ Ended
    PROVE  ResultOK'
<1>1. Overflows(result.latex)' = Overflows(result.latex)
  BY DEF Overflows
<1>2. ReportIsOfTheResume'
  BY <1>1 DEF OptimizerIInv, ResultOK, ReportIsOfTheResume
<1>3. Scored'
  BY DEF OptimizerIInv, ResultOK, Scored
<1>4. result' \in Results /\ AllSound'
  BY DEF OptimizerIInv, ResultOK, AllSound, SoundResume
<1> QED
  BY <1>2, <1>3, <1>4 DEF ResultOK

-----------------------------------------------------------------------------
LEMMA BlankIsInOrder == Blank \in Results /\ SoundResume(Unchanged)
BY UnchangedIsResume DEF Blank, Results

LEMMA CountersStart == 0 \in 0..MaxReviews /\ 0 \in 0..MaxAttempts
<1>1. MaxReviews \in Nat /\ MaxAttempts \in Nat
  BY ScoreAssumption, Zenon
<1> QED
  BY <1>1

LEMMA InitIInv == OptimizerInit => OptimizerIInv
<1> SUFFICES ASSUME OptimizerInit PROVE OptimizerIInv
  OBVIOUS
<1>1. ControlOK /\ HasJob /\ job \in Jobs \cup {None}
  BY CountersStart DEF OptimizerInit, ControlOK, Phases, Ended, HasJob
<1>2. ResultOK
  BY BlankIsInOrder
     DEF OptimizerInit, ResultOK, ReportIsOfTheResume, Scored, AllSound, Blank,
         Rendered
<1> QED
  BY <1>1, <1>2 DEF OptimizerIInv

LEMMA StartKeepsIInv ==
    ASSUME OptimizerIInv, NEW j \in Jobs,
           NEW stage \in {"extract", "diffs", "edit"}, StartJob(j, stage)
    PROVE  OptimizerIInv'
<1> USE DEF StartJob
<1>1. ControlOK' /\ HasJob' /\ (job \in Jobs \cup {None})'
  BY CountersStart DEF ControlOK, Phases, Ended, HasJob
<1>2. ResultOK'
  BY BlankIsInOrder
     DEF ResultOK, ReportIsOfTheResume, Scored, AllSound, Blank, Rendered,
         SoundResume
<1> QED
  BY <1>1, <1>2 DEF OptimizerIInv

(* Before anything is rendered.                                            *)
LEMMA ProposalKeepsIInv ==
    ASSUME OptimizerIInv,
           ExtractKeywords \/ GenerateDiffs \/ RefineVoice \/ ApplyDiffs \/ EditOnce
    PROVE  OptimizerIInv'
<1> USE DEF OptimizerIInv
<1>1. CASE ExtractKeywords
  <2>1. ControlOK' /\ HasJob' /\ (job \in Jobs \cup {None})'
    BY <1>1 DEF ExtractKeywords, ControlOK, Phases, Ended, Rendered, HasJob, control
  <2>2. CASE phase' = "diffs" /\ UNCHANGED result
    BY <1>1, <2>1, <2>2, SameResultOK DEF ExtractKeywords, Rendered
  <2>3. CASE /\ phase' = "done"
             /\ result' = [Artifact(Unchanged, Unchanged) EXCEPT !.score = None]
    <3>1. result' \in Results
      BY <2>3, UnchangedIsResume, ArtifactFits DEF Artifact, Results
    <3>2. /\ result'.changes = Unchanged /\ result'.diff = Unchanged
          /\ result'.latex = Unchanged /\ result'.score = None
          /\ result'.overflow = Overflows(Unchanged)
      BY <2>3 DEF Artifact
    <3>3. Overflows(result.latex)' = Overflows(Unchanged)
      BY <1>1, <3>2 DEF ExtractKeywords, Overflows, Compiles
    <3>4. ReportIsOfTheResume'
      BY <3>2, <3>3 DEF ReportIsOfTheResume
    <3>5. Scored' /\ AllSound'
      BY <2>3, <3>2, UnchangedIsResume DEF Scored, AllSound, SoundResume, Ended
    <3> QED
      BY <2>1, <3>1, <3>4, <3>5 DEF ResultOK
  <2> QED
    BY <1>1, <2>2, <2>3 DEF ExtractKeywords
<1>2. CASE GenerateDiffs
  <2>1. ControlOK' /\ HasJob' /\ (job \in Jobs \cup {None})' /\ job' = job
    BY <1>2 DEF GenerateDiffs, ControlOK, Phases, Ended, Rendered, HasJob, control
  <2>2. ASSUME NEW r \in Screened, result' = [result EXCEPT !.diff = r], phase' = "voice"
        PROVE  ResultOK'
    <3>1. job.scope \in SUBSET Statements
      BY <1>2, WordingsAssumption DEF GenerateDiffs, HasJob, Jobs
    <3>2. r \in Resumes /\ SoundResume(r)
      BY <3>1, AdmittedIsResume DEF Screened
    <3>3. result' \in Results /\ AllSound'
      BY <2>2, <3>2 DEF ResultOK, Results, AllSound, SoundResume
    <3> QED
      BY <2>2, <3>3 DEF ResultOK, ReportIsOfTheResume, Scored, Rendered
  <2>3. CASE result' = Artifact(Unchanged, Unchanged)
    BY <2>1, <2>3, UnchangedIsResume, ArtifactKeepsResultOK
  <2> QED
    BY <1>2, <2>1, <2>2, <2>3 DEF GenerateDiffs
<1>3. CASE RefineVoice
  <2>1. ControlOK' /\ HasJob' /\ (job \in Jobs \cup {None})' /\ job' = job
    BY <1>3 DEF RefineVoice, ControlOK, Phases, Ended, Rendered, HasJob, control
  <2>2. PICK r \in [DOMAIN result.diff -> Wordings] :
            /\ \A s \in DOMAIN r : r[s] = result.diff[s] \/ Valid(r[s])
            /\ result' = [result EXCEPT !.diff = r]
    BY <1>3 DEF RefineVoice
  <2>3. result.diff \in Resumes
    BY DEF ResultOK, Results
  <2>4. r \in Resumes
    BY <2>2, <2>3, ResumeType, IsResume
  <2>5. SoundResume(r)
    BY <2>2 DEF ResultOK, AllSound, SoundResume, Valid
  <2>6. result' \in Results /\ AllSound'
    BY <2>2, <2>4, <2>5 DEF ResultOK, Results, AllSound, SoundResume
  <2> QED
    BY <1>3, <2>1, <2>6
       DEF RefineVoice, ResultOK, ReportIsOfTheResume, Scored, Rendered
<1>4. CASE ApplyDiffs
  <2>1. ControlOK' /\ HasJob' /\ (job \in Jobs \cup {None})' /\ job' = job
    BY <1>4 DEF ApplyDiffs, Confirmed, Statements, Enter, ControlOK, Phases, Ended,
                Rendered, HasJob
  <2>2. result.diff \in Resumes /\ SoundResume(result.diff)
    BY DEF ResultOK, Results, AllSound
  <2>3. ResultOK'
    BY <1>4, <2>1, <2>2, ArtifactKeepsResultOK DEF ApplyDiffs
  <2> QED
    BY <2>1, <2>3
<1>5. CASE EditOnce
  <2>1. ControlOK' /\ HasJob' /\ (job \in Jobs \cup {None})' /\ job' = job
    BY <1>5 DEF EditOnce, ControlOK, Phases, Ended, Rendered, HasJob, control
  <2>2. ASSUME NEW r \in UNION {[S -> Wordings] : S \in SUBSET job.scope},
               \A s \in DOMAIN r : Valid(r[s]), result' = Artifact(r, r)
        PROVE  ResultOK'
    <3>1. job.scope \in SUBSET Statements
      BY <1>5, WordingsAssumption DEF EditOnce, HasJob, Jobs
    <3>2. r \in Resumes
      BY <3>1, <2>2 DEF Resumes
    <3>3. SoundResume(r)
      BY <2>2 DEF SoundResume, Valid
    <3> QED
      BY <2>1, <2>2, <3>2, <3>3, ArtifactKeepsResultOK
  <2>3. CASE phase' = "raised" /\ UNCHANGED result
    BY <2>1, <2>3, SameResultOK DEF Rendered
  <2> QED
    BY <1>5, <2>1, <2>2, <2>3 DEF EditOnce
<1> QED
  BY <1>1, <1>2, <1>3, <1>4, <1>5

(* One statement gets a sound wording, in the resume and in the diff.      *)
LEMMA AdoptKeepsResultOK ==
    ASSUME OptimizerIInv, phase \in Rendered, job' = job,
           NEW s \in Statements, NEW w \in Wordings, w.sound, Adopt(s, w)
    PROVE  ResultOK' /\ result'.score = Score(Edited(result.changes, s, w))
<1>1. result.changes \in Resumes /\ SoundResume(result.changes)
  BY DEF OptimizerIInv, ResultOK, Results, AllSound
<1>2. result.diff = result.changes
  BY DEF OptimizerIInv, ResultOK, ReportIsOfTheResume
<1>3. result' = Artifact(Edited(result.changes, s, w), Edited(result.changes, s, w))
  BY <1>2 DEF Adopt
<1>4. ResultOK'
  BY <1>1, <1>3, EditedIsResume, ArtifactKeepsResultOK
<1> QED
  BY <1>3, <1>4 DEF Artifact

(* The steps that look at one statement.                                   *)
LEMMA StatementKeepsIInv ==
    ASSUME OptimizerIInv, NEW s \in Statements,
           \/ PatchSkill(s) \/ PatchKeyword(s) \/ Shorten(s)
           \/ PassOver(s) \/ FitStatement(s)
    PROVE  OptimizerIInv'
<1>1. /\ phase \in Rendered \ Ended /\ phase' = phase /\ job' = job
      /\ todo' \subseteq todo
  BY DEF PatchSkill, PatchKeyword, Shorten, PassOver, FitStatement, InTurn, Looked,
         Rendered, Ended
<1>2. attempts' \in 0..MaxAttempts
  BY ScoreAssumption
     DEF PatchSkill, PatchKeyword, Shorten, PassOver, FitStatement, InTurn,
         OptimizerIInv, ControlOK
<1>3. UNCHANGED <<enforce, blocked, failed, reviews, base>>
  BY DEF PatchSkill, PatchKeyword, Shorten, PassOver, FitStatement
<1>4. ControlOK' /\ HasJob' /\ (job \in Jobs \cup {None})'
  BY <1>1, <1>2, <1>3 DEF OptimizerIInv, ControlOK, HasJob
<1>5. \/ result' = result
      \/ \E w \in Wordings : w.sound /\ Adopt(s, w)
  BY DEF PatchSkill, WithSkill, PatchKeyword, Woven, Shorten, Valid, PassOver,
         FitStatement
<1>6. ResultOK'
  BY <1>1, <1>5, AdoptKeepsResultOK, SameResultOK
<1> QED
  BY <1>4, <1>6 DEF OptimizerIInv

LEMMA ScoreIsNat ==
    ASSUME OptimizerIInv, phase \in Rendered \ Ended
    PROVE  result.score = Score(result.changes) /\ result.score \in Nat
BY ScoreAssumption DEF OptimizerIInv, ResultOK, Results, Scored

(* The steps between stages, which leave the resume alone.                 *)
LEMMA PassageKeepsIInv ==
    ASSUME OptimizerIInv,
           \/ LeaveSkills \/ LeaveKeywords \/ ShortenFails \/ LeaveShorten
           \/ LeavePrune \/ LeaveReview \/ ReviewFails \/ FitFails \/ FinishJob
    PROVE  OptimizerIInv'
<1> USE DEF LeaveSkills, LeaveKeywords, ShortenFails, LeaveShorten, LeavePrune,
            LeaveReview, ReviewFails, FitFails, FinishJob, InTurn, GiveUp, Enter
<1>1. /\ phase \in Rendered \ Ended /\ job' = job /\ result' = result
      /\ UNCHANGED <<blocked, reviews, base, attempts>>
  BY DEF Rendered, Ended, control
<1>2. phase' \in Phases /\ phase' # "idle"
  BY DEF Phases, Rendered, Ended
<1>3. todo' \subseteq Statements
  BY DEF control, Statements, OptimizerIInv, ControlOK
<1>4. result'.score \in Nat /\ Target \in Nat
  BY <1>1, ScoreIsNat, ScoreAssumption
<1>5. enforce' \in BOOLEAN /\ failed' \in BOOLEAN
  <2>1. enforce' = enforce \/ enforce' = (result'.score >= Target)
    BY DEF control
  <2>2. failed' = failed \/ failed' = TRUE
    BY DEF control
  <2>3. (result'.score >= Target) \in BOOLEAN
    BY <1>4
  <2> QED
    BY <2>1, <2>2, <2>3 DEF OptimizerIInv, ControlOK
<1>6. ControlOK' /\ HasJob' /\ (job \in Jobs \cup {None})'
  BY <1>1, <1>2, <1>3, <1>5 DEF OptimizerIInv, ControlOK, HasJob, Ended
<1>7. ResultOK'
  BY <1>1, SameResultOK
<1> QED
  BY <1>6, <1>7 DEF OptimizerIInv

LEMMA PruneKeepsIInv ==
    ASSUME OptimizerIInv, NEW s \in Statements, Prune(s)
    PROVE  OptimizerIInv' /\ result'.score = Score(Without(result.changes, s))
<1>1. result.changes \in Resumes /\ SoundResume(result.changes)
  BY DEF OptimizerIInv, ResultOK, Results, AllSound
<1>2. result.diff = result.changes
  BY DEF Prune, OptimizerIInv, ResultOK, ReportIsOfTheResume, Rendered
<1>3. result' = Artifact(Without(result.changes, s), Without(result.changes, s))
  BY <1>2 DEF Prune
<1>4. ResultOK'
  BY <1>1, <1>3, WithoutIsResume, ArtifactKeepsResultOK DEF Prune
<1>5. ControlOK' /\ HasJob' /\ (job \in Jobs \cup {None})'
  BY DEF Prune, control, OptimizerIInv, ControlOK, HasJob
<1> QED
  BY <1>3, <1>4, <1>5 DEF OptimizerIInv, Artifact

LEMMA ReviewKeepsIInv ==
    ASSUME OptimizerIInv, Review
    PROVE  /\ OptimizerIInv'
           /\ result' = result \/ result'.score >= result.score
<1>1. PICK r \in Reviewed :
          LET trial == Merged(result.changes, r)
          IN  IF r = Unchanged \/ Score(trial) < result.score
              THEN /\ UNCHANGED <<result, base>>
                   /\ Enter("strict", Statements)
              ELSE /\ result' = Artifact(trial, Merged(result.diff, r))
                   /\ base' = result.score
                   /\ IF result'.overflow
                      THEN Enter("shorten", Prose \cap DOMAIN trial)
                      ELSE Enter("review", {})
  BY DEF Review
<1>2. r \in Resumes /\ SoundResume(r)
  BY AdmittedIsResume DEF Reviewed
<1>3. result.changes \in Resumes /\ SoundResume(result.changes)
  BY DEF OptimizerIInv, ResultOK, Results, AllSound
<1>4. result.diff = result.changes
  BY DEF Review, OptimizerIInv, ResultOK, ReportIsOfTheResume, Rendered
<1>5. result.score = Score(result.changes) /\ result.score \in Nat
  BY ScoreIsNat DEF Review, Rendered, Ended
<1>6. /\ phase' \in {"strict", "shorten", "review"} /\ todo' \subseteq Statements
      /\ enforce' \in BOOLEAN /\ base' \in Nat \cup {None}
  <2>1. phase' \in {"strict", "shorten", "review"} /\ todo' \subseteq Statements
    BY <1>1 DEF Enter, Statements
  <2>2. enforce' = (result'.score >= Target)
    BY <1>1 DEF Enter
  <2>3. result'.score = result.score \/ result'.score = Score(Merged(result.changes, r))
    BY <1>1 DEF Artifact
  <2>4. (result'.score >= Target) \in BOOLEAN
    BY <1>2, <1>3, <1>5, <2>3, MergedIsResume, ScoreAssumption
  <2>5. base' = base \/ base' = result.score
    BY <1>1
  <2> QED
    BY <1>5, <2>1, <2>2, <2>4, <2>5 DEF OptimizerIInv, ControlOK
<1>7. reviews' \in 0..MaxReviews
  BY ScoreAssumption DEF Review, OptimizerIInv, ControlOK
<1>8. UNCHANGED <<job, blocked, attempts, failed>>
  BY DEF Review
<1>9. ControlOK' /\ HasJob' /\ (job \in Jobs \cup {None})'
  BY <1>6, <1>7, <1>8 DEF Review, OptimizerIInv, ControlOK, HasJob, Phases, Rendered
<1>10. CASE result' = result
  BY <1>8, <1>9, <1>10, SameResultOK DEF Review, Rendered, Ended, OptimizerIInv
<1>11. CASE /\ ~(Score(Merged(result.changes, r)) < result.score)
            /\ result' = Artifact(Merged(result.changes, r), Merged(result.diff, r))
  <2>1. Merged(result.changes, r) \in Resumes /\ SoundResume(Merged(result.changes, r))
    BY <1>2, <1>3, MergedIsResume
  <2>2. ResultOK'
    BY <1>4, <1>8, <1>11, <2>1, ArtifactKeepsResultOK
  <2>3. result'.score = Score(Merged(result.changes, r))
    BY <1>11 DEF Artifact
  <2>4. Score(Merged(result.changes, r)) \in Nat
    BY <2>1, ScoreAssumption
  <2> QED
    BY <1>5, <1>9, <1>11, <2>2, <2>3, <2>4 DEF OptimizerIInv
<1> QED
  BY <1>1, <1>10, <1>11

LEMMA NextKeepsIInv ==
    ASSUME OptimizerIInv, [OptimizerNext]_optimizerVars
    PROVE  OptimizerIInv'
<1>1. CASE UNCHANGED optimizerVars
  <2>1. UNCHANGED <<phase, job, result, todo, enforce, blocked, reviews, base,
                    attempts, failed>>
    BY <1>1 DEF optimizerVars, control
  <2> QED
    BY <2>1 DEF OptimizerIInv, ControlOK, HasJob, ResultOK, ReportIsOfTheResume,
                Overflows, Scored, AllSound
<1>2. CASE \E j \in Jobs, stage \in {"extract", "diffs", "edit"} : StartJob(j, stage)
  BY <1>2, StartKeepsIInv
<1>3. CASE Pipeline
  BY <1>3, ProposalKeepsIInv, StatementKeepsIInv, PassageKeepsIInv, PruneKeepsIInv,
     ReviewKeepsIInv
     DEF Pipeline
<1> QED
  BY <1>1, <1>2, <1>3 DEF OptimizerNext

THEOREM OptimizerInvariant == OptimizerSpec => []OptimizerIInv
<1>1. OptimizerIInv /\ [OptimizerNext]_optimizerVars => OptimizerIInv'
  BY NextKeepsIInv
<1> QED
  BY InitIInv, <1>1, PTL DEF OptimizerSpec

-----------------------------------------------------------------------------
(* The variables keep their types.                                         *)
THEOREM OptimizerTypes == OptimizerSpec => []OptimizerTypeOK
<1>1. OptimizerIInv => OptimizerTypeOK
  BY DEF OptimizerIInv, ControlOK, ResultOK, OptimizerTypeOK
<1> QED
  BY OptimizerInvariant, <1>1, PTL

(* The diff, the score and the page warning are those of the resume.       *)
THEOREM ReportIsTrue == OptimizerSpec => []ReportIsOfTheResume
<1>1. OptimizerIInv => ReportIsOfTheResume
  BY DEF OptimizerIInv, ResultOK
<1> QED
  BY OptimizerInvariant, <1>1, PTL

(* No wording with an unsupported claim is ever in the resume.             *)
THEOREM NothingUnsoundApplied == OptimizerSpec => []AppliedTextIsSound
<1>1. OptimizerIInv => AppliedTextIsSound
  BY DEF OptimizerIInv, ResultOK, AllSound, SoundResume, AppliedTextIsSound
<1> QED
  BY OptimizerInvariant, <1>1, PTL

-----------------------------------------------------------------------------
(* What a step that changes the resume does to its score: outside a repair *)
(* that began below the target, a score that meets the target still does.  *)
LEMMA StepKeepsTarget ==
    ASSUME OptimizerIInv, [OptimizerNext]_optimizerVars,
           phase \in Rendered \ Ended, MeetsTarget,
           phase \in {"prune", "strict"} => enforce
    PROVE  phase' = "raised" \/ result'.score >= Target
<1>1. result.score \in Nat /\ Target \in Nat /\ result.score >= Target
  BY ScoreIsNat, ScoreAssumption DEF MeetsTarget
<1>2. CASE UNCHANGED optimizerVars
  BY <1>1, <1>2 DEF optimizerVars
<1>3. CASE \E j \in Jobs, stage \in {"extract", "diffs", "edit"} : StartJob(j, stage)
  BY <1>3 DEF StartJob
<1>4. CASE ExtractKeywords \/ GenerateDiffs \/ RefineVoice \/ ApplyDiffs \/ EditOnce
  BY <1>4 DEF ExtractKeywords, GenerateDiffs, RefineVoice, ApplyDiffs, EditOnce,
              Rendered
<1>5. CASE \/ LeaveSkills \/ LeaveKeywords \/ ShortenFails \/ LeaveShorten
           \/ LeavePrune \/ LeaveReview \/ ReviewFails \/ FitFails \/ FinishJob
  <2>1. result' = result
    BY <1>5 DEF LeaveSkills, LeaveKeywords, ShortenFails, LeaveShorten, LeavePrune,
                LeaveReview, ReviewFails, FitFails, FinishJob, GiveUp
  <2> QED
    BY <1>1, <2>1
<1>6. CASE Review
  <2>1. OptimizerIInv'
    BY <1>6, ReviewKeepsIInv
  <2>2. phase' \in Rendered \ Ended
    BY <1>6 DEF Review, Enter, Rendered, Ended
  <2>3. result'.score \in Nat
    BY <2>1, <2>2, ScoreAssumption DEF OptimizerIInv, ResultOK, Results, Scored
  <2> QED
    BY <1>1, <1>6, <2>3, ReviewKeepsIInv
<1>7. ASSUME NEW s \in Statements, Prune(s)
      PROVE  result'.score >= Target
  <2>1. enforce /\ s \in Removable
    BY <1>7 DEF Prune
  <2> QED
    BY <1>7, <2>1, PruneKeepsIInv DEF Removable
<1>8. ASSUME NEW s \in Statements,
             \/ PatchSkill(s) \/ PatchKeyword(s) \/ Shorten(s)
             \/ PassOver(s) \/ FitStatement(s)
      PROVE  result'.score >= Target
  <2>1. \/ result' = result
        \/ \E w \in Wordings :
              /\ w.sound /\ Adopt(s, w)
              /\ \/ Score(Edited(result.changes, s, w)) >= Target
                 \/ Score(Edited(result.changes, s, w)) >= result.score
                 \/ Score(Edited(result.changes, s, w)) > result.score
    BY <1>8 DEF PatchSkill, WithSkill, PatchKeyword, Woven, Shorten, Valid, PassOver,
                FitStatement, InTurn
  <2>2. phase \in Rendered /\ job' = job
    BY <1>8 DEF PatchSkill, PatchKeyword, Shorten, PassOver, FitStatement
  <2>3. ASSUME NEW w \in Wordings, w.sound, Adopt(s, w)
        PROVE  /\ result'.score = Score(Edited(result.changes, s, w))
               /\ Score(Edited(result.changes, s, w)) \in Nat
    <3>1. Edited(result.changes, s, w) \in Resumes
      BY EditedIsResume DEF OptimizerIInv, ResultOK, Results
    <3> QED
      BY <2>2, <2>3, <3>1, AdoptKeepsResultOK, ScoreAssumption
  <2> QED
    BY <1>1, <2>1, <2>3
<1> QED
  BY <1>2, <1>3, <1>4, <1>5, <1>6, <1>7, <1>8 DEF OptimizerNext, Pipeline

(* A met target stays met, whatever is shortened or taken back.            *)
THEOREM TargetKept == OptimizerSpec => TargetIsKept
<1>1. OptimizerIInv /\ [OptimizerNext]_optimizerVars =>
        [(/\ phase \in Rendered \ Ended /\ MeetsTarget
          /\ phase \in {"prune", "strict"} => enforce)
             => phase' = "raised" \/ result'.score >= Target]_optimizerVars
  BY StepKeepsTarget
<1> QED
  BY OptimizerInvariant, <1>1, PTL DEF OptimizerSpec, TargetIsKept

-----------------------------------------------------------------------------
(* Why a resume may be longer than its page, stage by stage.               *)
Excused == Overflows(Unchanged) \/ failed

OverflowIInv ==
    /\ phase \in {"shorten", "prune"} /\ enforce => MeetsTarget
    /\ phase = "review" /\ result.overflow => MeetsTarget \/ Excused
    /\ phase = "strict" /\ result.overflow => (enforce /\ MeetsTarget) \/ Excused
    /\ OverflowIsJustified

(* Nothing left to take back: the resume is the original.                  *)
LEMMA NothingRemovable ==
    ASSUME OptimizerIInv, phase = "prune", result.overflow, ~enforce, Removable = {}
    PROVE  Overflows(Unchanged)
<1>1. DOMAIN result.changes = {}
  BY DEF Removable
<1>2. result.changes \in Resumes
  BY DEF OptimizerIInv, ResultOK, Results
<1>3. result.changes = Unchanged
  BY <1>1, <1>2, ResumeType DEF Unchanged
<1> QED
  BY <1>3 DEF OptimizerIInv, ResultOK, ReportIsOfTheResume, Rendered

LEMMA PipelineKeepsExcuses ==
    ASSUME Pipeline
    PROVE  job' = job /\ (Excused => Excused')
<1>1. job' = job
  BY DEF Pipeline, ExtractKeywords, GenerateDiffs, RefineVoice, ApplyDiffs, EditOnce,
         LeaveSkills, LeaveKeywords, ShortenFails, LeaveShorten, LeavePrune,
         LeaveReview, Review, ReviewFails, FitFails, FinishJob, PatchSkill,
         PatchKeyword, Shorten, Prune, PassOver, FitStatement, GiveUp
<1>2. failed' = failed \/ failed' = TRUE
  BY DEF Pipeline, ExtractKeywords, GenerateDiffs, RefineVoice, ApplyDiffs, EditOnce,
         LeaveSkills, LeaveKeywords, ShortenFails, LeaveShorten, LeavePrune,
         LeaveReview, Review, ReviewFails, FitFails, FinishJob, PatchSkill,
         PatchKeyword, Shorten, Prune, PassOver, FitStatement, GiveUp, control
<1>3. Overflows(Unchanged)' = Overflows(Unchanged)
  BY <1>1 DEF Overflows, Unchanged, Compiles
<1> QED
  BY <1>1, <1>2, <1>3 DEF Excused

(* A step that stays in a stage which defends the target.                  *)
LEMMA RepairKeepsOverflowIInv ==
    ASSUME OptimizerIInv, OverflowIInv, NEW s \in Statements, Pipeline,
           Shorten(s) \/ Prune(s) \/ PassOver(s) \/ FitStatement(s)
    PROVE  OverflowIInv'
<1>1. /\ phase \in {"shorten", "prune", "strict"} /\ phase' = phase
      /\ enforce' = enforce
  BY DEF Shorten, Prune, PassOver, FitStatement, InTurn, control
<1>2. enforce /\ MeetsTarget => MeetsTarget'
  BY <1>1, StepKeepsTarget DEF OptimizerNext, Rendered, Ended, MeetsTarget
<1>3. Excused => Excused'
  BY PipelineKeepsExcuses
<1>4. CASE phase \in {"shorten", "prune"}
  BY <1>1, <1>2, <1>4 DEF OverflowIInv, OverflowIsJustified
<1>5. CASE phase = "strict"
  <2>1. result.overflow
    BY <1>5 DEF Shorten, Prune, PassOver, FitStatement, InTurn
  <2> QED
    BY <1>1, <1>2, <1>3, <1>5, <2>1 DEF OverflowIInv, OverflowIsJustified
<1> QED
  BY <1>1, <1>4, <1>5

(* A passage into a stage which defends the target, or the end.            *)
LEMMA PassageKeepsOverflowIInv ==
    ASSUME OptimizerIInv, OverflowIInv, Pipeline,
           \/ LeaveSkills \/ LeaveKeywords \/ ShortenFails \/ LeaveShorten
           \/ LeavePrune \/ LeaveReview \/ ReviewFails \/ FitFails \/ FinishJob
    PROVE  OverflowIInv'
<1> USE DEF OverflowIInv, OverflowIsJustified, MeetsTarget, Enter
<1>1. Excused => Excused'
  BY PipelineKeepsExcuses
<1>2. CASE LeaveSkills
  BY <1>2 DEF LeaveSkills
<1>3. CASE LeaveKeywords
  BY <1>3 DEF LeaveKeywords
<1>4. CASE ShortenFails \/ ReviewFails \/ FitFails
  <2>1. phase' = "raised" \/ (phase' = "strict" /\ failed' = TRUE)
    BY <1>4 DEF ShortenFails, ReviewFails, FitFails, GiveUp
  <2> QED
    BY <2>1 DEF Excused
<1>5. CASE LeaveShorten
  BY <1>5 DEF LeaveShorten
<1>6. CASE LeavePrune
  <2>1. result.overflow => (enforce /\ MeetsTarget) \/ Excused
    BY <1>6, NothingRemovable DEF LeavePrune, Excused
  <2>2. result' = result /\ phase' \in {"strict", "review"}
    BY <1>6 DEF LeavePrune
  <2>3. enforce' = (result'.score >= Target)
    BY <1>6 DEF LeavePrune
  <2> QED
    BY <1>1, <2>1, <2>2, <2>3
<1>7. CASE LeaveReview
  BY <1>1, <1>7 DEF LeaveReview
<1>8. CASE FinishJob
  <2>1. result.overflow => MeetsTarget \/ Excused
    BY <1>8 DEF FinishJob
  <2> QED
    BY <1>1, <1>8, <2>1 DEF FinishJob, Excused
<1> QED
  BY <1>2, <1>3, <1>4, <1>5, <1>6, <1>7, <1>8

LEMMA NextKeepsOverflowIInv ==
    ASSUME OptimizerIInv, OverflowIInv, [OptimizerNext]_optimizerVars
    PROVE  OverflowIInv'
<1>1. CASE UNCHANGED optimizerVars
  <2>1. UNCHANGED <<phase, job, result, enforce, failed>>
    BY <1>1 DEF optimizerVars, control
  <2> QED
    BY <2>1 DEF OverflowIInv, OverflowIsJustified, MeetsTarget, Excused, Overflows
<1>2. CASE \E j \in Jobs, stage \in {"extract", "diffs", "edit"} : StartJob(j, stage)
  BY <1>2 DEF StartJob, OverflowIInv, OverflowIsJustified
<1>3. CASE Pipeline /\ ExtractKeywords
  BY <1>3 DEF ExtractKeywords, OverflowIInv, OverflowIsJustified, Artifact
<1>4. CASE Pipeline /\ GenerateDiffs
  <2>1. \/ phase' = "voice"
        \/ /\ phase' = "done" /\ result'.overflow = Overflows(Unchanged)
    BY <1>4 DEF GenerateDiffs, Artifact
  <2>2. Overflows(Unchanged)' = Overflows(Unchanged)
    BY <1>4, PipelineKeepsExcuses DEF Overflows, Unchanged, Compiles
  <2> QED
    BY <2>1, <2>2 DEF OverflowIInv, OverflowIsJustified
<1>5. CASE Pipeline /\ (RefineVoice \/ ApplyDiffs \/ EditOnce)
  BY <1>5 DEF RefineVoice, ApplyDiffs, Enter, EditOnce, OverflowIInv, OverflowIsJustified
<1>6. CASE Pipeline /\ Review
  <2>1. PICK r \in Reviewed :
          LET trial == Merged(result.changes, r)
          IN  IF r = Unchanged \/ Score(trial) < result.score
              THEN /\ UNCHANGED <<result, base>>
                   /\ Enter("strict", Statements)
              ELSE /\ result' = Artifact(trial, Merged(result.diff, r))
                   /\ base' = result.score
                   /\ IF result'.overflow
                      THEN Enter("shorten", Prose \cap DOMAIN trial)
                      ELSE Enter("review", {})
    BY <1>6 DEF Review
  <2>2. phase = "review" /\ (Excused => Excused')
    BY <1>6, PipelineKeepsExcuses DEF Review
  <2>3. CASE result' = result /\ Enter("strict", Statements)
    BY <2>2, <2>3 DEF OverflowIInv, OverflowIsJustified, MeetsTarget, Enter
  <2>4. CASE result'.overflow /\ Enter("shorten", Prose \cap DOMAIN Merged(result.changes, r))
    BY <2>4 DEF OverflowIInv, OverflowIsJustified, MeetsTarget, Enter
  <2>5. CASE ~result'.overflow /\ Enter("review", {})
    BY <2>5 DEF OverflowIInv, OverflowIsJustified, MeetsTarget, Enter
  <2> QED
    BY <2>1, <2>3, <2>4, <2>5
<1>7. ASSUME NEW s \in Statements, Pipeline, PatchSkill(s) \/ PatchKeyword(s)
      PROVE  OverflowIInv'
  BY <1>7 DEF PatchSkill, PatchKeyword, OverflowIInv, OverflowIsJustified
<1> QED
  BY <1>1, <1>2, <1>3, <1>4, <1>5, <1>6, <1>7, RepairKeepsOverflowIInv,
     PassageKeepsOverflowIInv
     DEF OptimizerNext, Pipeline

(* A resume longer than its page has a reason to be.                       *)
THEOREM OverflowJustified == OptimizerSpec => []OverflowIsJustified
<1>1. OptimizerInit => OverflowIInv
  BY DEF OptimizerInit, OverflowIInv, OverflowIsJustified
<1>2. OptimizerIInv /\ OverflowIInv /\ [OptimizerNext]_optimizerVars => OverflowIInv'
  BY NextKeepsOverflowIInv
<1>3. OverflowIInv => OverflowIsJustified
  BY DEF OverflowIInv
<1> QED
  BY OptimizerInvariant, <1>1, <1>2, <1>3, PTL DEF OptimizerSpec
=============================================================================
