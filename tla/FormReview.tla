------------------------------ MODULE FormReview ------------------------------
(* The panel of the browser extension at work on an application form        *)
(* (extension/panel.js) and the server behind it (routers/extension.py,     *)
(* api.py): scans of the page, fill plans, fills, one-off answers,          *)
(* suggestions and drafts of prose, while the user types and moves on.      *)
(*                                                                          *)
(* Three threads rescan the form: the observer of the page, the task the    *)
(* user started (one at a time: state.busy), and the queue of drafts.  A    *)
(* request is in flight until the server computes its answer; the answer    *)
(* arrives with that step.  User, web and failures share a budget of steps. *)
EXTENDS FormAnswers

CONSTANTS
    Asks,       \* [form -> [field -> question]]; a field is a number: its place
    Texts,      \* prose that a model may draft
    Grounded,   \* the texts that pass _answer_validation_errors
    Entered,    \* bound: what the user types, into a field or the panel
    EditedFacts,    \* bound: what is edited elsewhere meanwhile,
    EditedPrompts,  \* bound: in the profile and in the answers bank
    Edited,         \* bound: and to what
    MaxSteps    \* bound: steps of the user, the web and failures

Forms == DOMAIN Asks
On(form) == DOMAIN Asks[form]
Fields == UNION {On(form) : form \in Forms}
Threads == {"observer", "task", "drafts"}
Ids == 1..5
Attempts == 2

ASSUME AsksAssumption ==
    /\ "none" \notin Forms /\ Fields \subseteq Nat /\ MaxSteps \in Nat
    /\ Grounded \subseteq Texts \cap Values /\ Entered \cup Edited \subseteq Values
    /\ EditedFacts \subseteq Facts /\ EditedPrompts \subseteq Prompts
    /\ \A form \in Forms, i \in Fields : i \in On(form) => Asks[form][i] \in Asked

VARIABLES
    page,       \* the form in the browser and the values in its fields
    rows,       \* form_scans: what was seen, and the one-off answers given
    panel,      \* state.scan, state.plan, state.replaceExisting, the
                \* fingerprint; fresh: plan and scan are of one rescan (history)
    rescans,    \* [Threads -> what the thread's saveScanAndPlan waits for]
    task,       \* what state.busy stands for
    drafts,     \* runAutomaticAnswerQueue
    tried,      \* automaticAnswerStatus: the prompt a draft was tried for
    suggested,  \* answerProposals: the suggestion that the user may apply
    left        \* steps left

panelVars == <<panel, rescans, task, drafts, tried, suggested>>
vars == <<answerVars, page, rows, panelVars, left>>

Budget == left > 0 /\ left' = left - 1

-----------------------------------------------------------------------------
(* The server: scans and plans.                                             *)
NoRow == [form |-> "none"]
NothingGiven == [value |-> Unknown, source |-> "none"]

(* _fill_values_match: a plain yes or no matches what begins with it.       *)
ValuesMatch(a, b) ==
    a = b \/ \E t \in {"yes", "no"} :
                \/ a = t /\ b \in Values /\ Truth[b] = t
                \/ b = t /\ a \in Values /\ Truth[a] = t

(* Mutant: a plan that is to replace values does so for every field, and    *)
(* any other plan as well.                                                  *)
KeptIfEqual(row, i, v) == row.seen[i] # Unknown /\ ValuesMatch(row.seen[i], v)
(* What the scan saw in the field stays.                                    *)
Kept(row, i, v) ==
    row.seen[i] # Unknown /\ (row.replace => ValuesMatch(row.seen[i], v))

(* A one-off answer goes only where the plan has none.                      *)
Given(q, given) ==
    Checked(q, [value |-> IF q.input = "checkbox" /\ given.value # "yes"
                          THEN "no" ELSE given.value,
                source |-> given.source, saved |-> None])

(* _build_fill_plan_for_scan                                                *)
Unless(kept, a) == IF kept THEN Skip ELSE a
OrGiven(row, i, due) ==
    LET q == Asks[row.form][i]
    IN  IF due.value # Unknown \/ q.input = "file" \/ row.given[i] = NothingGiven
        THEN due ELSE Given(q, row.given[i])
Action(row, i, a) == OrGiven(row, i, Unless(Kept(row, i, a.value), a))
Plan(id, row) ==
    [scan |-> id,
     actions |-> [i \in On(row.form) |-> Action(row, i, Answer(Asks[row.form][i]))]]
NoPlan == [scan |-> 0, actions |-> <<>>]

(* override_fill_plan, without the answers it remembers                     *)
GivenOnce(row, i, v, source) ==
    [row EXCEPT !.given[i] = [value |-> v, source |-> source]]

-----------------------------------------------------------------------------
Idle == [stage |-> "idle", scan |-> 0]
Busy == task.stage # "idle"

(* The scans that someone still refers to.                                  *)
Held ==
    {panel.scan, panel.plan.scan, task.scan, drafts.scan}
NewId == Min(Ids \ Held)

(* automaticAnswerCandidates: items of the plan, questions of the scan.     *)
IsDraftEligible(q) ==
    ~q.flagged /\ q.input = "textarea" /\ q.intent = "narrative"
DraftsWanted(shown, scans, attempted) ==
    IF shown.scan = 0 \/ shown.plan = NoPlan THEN {}
    ELSE LET row == scans[shown.scan]
             planned == scans[shown.plan.scan]
         IN  {i \in On(row.form) \cap On(planned.form) :
                LET q == Asks[row.form][i]
                    item == Asks[planned.form][i]
                IN  /\ item.required /\ IsDraftEligible(item)
                    /\ planned.seen[i] = Unknown
                    /\ shown.plan.actions[i].value = Unknown
                    /\ ~q.flagged /\ q.input = "textarea"
                    /\ row.seen[i] = Unknown
                    /\ attempted[i] # q.prompt}

(* Mutant: the queue ends with its first draft.                             *)
EndQueue(shown, scans) == drafts' = Idle /\ UNCHANGED tried
(* The head of the loop, or the scheduling at its end: the first candidate  *)
(* of what is shown after this step, or the queue is done.                  *)
RunQueue(shown, scans) ==
    LET wanted == DraftsWanted(shown, scans, tried)
        i == Min(wanted)
    IN  IF wanted = {} THEN drafts' = Idle /\ UNCHANGED tried
        ELSE /\ drafts' = [stage |-> "generating", scan |-> shown.scan, field |-> i,
                           current |-> TRUE, attempts |-> Attempts]
             /\ tried' = [tried EXCEPT
                    ![i] = Asks[scans[shown.plan.scan].form][i].prompt]

(* scanApplicationForm and the first lines of saveScanAndPlan.  Another     *)
(* form than the one scanned before: nothing is replaced in it, and what    *)
(* the queue was doing is out of date.                                      *)
IsNewForm(shown) == panel.scan # 0 /\ rows[panel.scan].form # shown.form
Rescan(t, shown, was, attempted) ==
    LET row == [form |-> shown.form, seen |-> shown.values,
                replace |-> was.replacing /\ ~IsNewForm(shown),
                given |-> [i \in On(shown.form) |-> NothingGiven]]
    IN  /\ rescans' = [rescans EXCEPT
                ![t] = [stage |-> "waiting", row |-> row]]
        /\ panel' = [was EXCEPT !.replacing = row.replace, !.print = shown]
        /\ tried' = IF IsNewForm(shown) THEN [i \in Fields |-> None] ELSE attempted
OutOfDate(queue, shown) ==
    IF "current" \in DOMAIN queue /\ IsNewForm(shown)
    THEN [queue EXCEPT !.current = FALSE] ELSE queue

(* POST /extension/forms/scan.  A row that nobody refers to is forgotten.   *)
Stored(row) ==
    [id \in Ids |->
        IF id = NewId THEN row ELSE IF id \in Held THEN rows[id] ELSE NoRow]

(* The thread goes on after its rescan, however that ended, with what is    *)
(* shown then.  The panel never comes back to a suggestion for an earlier   *)
(* scan.                                                                    *)
GoesOn(t, shown, scans) ==
    /\ panel' = shown /\ rows' = scans
    /\ suggested' = IF shown.scan = panel.scan THEN suggested ELSE Idle
    /\ rescans' = [rescans EXCEPT ![t] = Idle]
    /\ task' = IF t = "task" THEN Idle ELSE task
    /\ UNCHANGED <<answerVars, page>>

(* The scan is saved and its plan shown: schedules the queue, unless it is  *)
(* running.                                                                 *)
Plans(t) ==
    /\ rescans[t] # Idle
    /\ UNCHANGED left
    /\ \E scans \in {Stored(rescans[t].row)}, plan \in {Plan(NewId, rescans[t].row)} :
         \E shown \in {[panel EXCEPT !.scan = NewId, !.plan = plan, !.fresh = TRUE]} :
           /\ GoesOn(t, shown, scans)
           /\ IF t = "drafts" \/ drafts = Idle THEN RunQueue(shown, scans)
              ELSE UNCHANGED <<drafts, tried>>

(* Either request may fail; after the second the panel has the new scan and *)
(* the plan of the one before.                                              *)
RescanBreaksOff(t, shown, scans) ==
    /\ GoesOn(t, shown, scans) /\ Budget
    /\ IF t = "drafts" THEN RunQueue(shown, scans) ELSE UNCHANGED <<drafts, tried>>
RescanFails(t) ==
    /\ rescans[t] # Idle
    /\ \/ RescanBreaksOff(t, [panel EXCEPT !.fresh = FALSE], rows)
       \/ RescanBreaksOff(t, [panel EXCEPT !.fresh = FALSE, !.scan = NewId],
                          Stored(rescans[t].row))

(* shouldScanApplicationForm: there is something to fill in.                *)
Recognised(form) == On(form) # {}

(* rescanAndPlan: of a page without a form, the panel keeps the empty scan  *)
(* to itself, under a number of its own here, and has no plan.              *)
RescanAndPlan(t, was) ==
    \/ /\ Recognised(page.form)
       /\ Rescan(t, page, was, tried)
       /\ drafts' = OutOfDate(drafts, page)
       /\ task' = IF t = "task" THEN [stage |-> "rescanning", scan |-> 0] ELSE task
       /\ UNCHANGED <<rows, suggested>>
    \/ /\ ~Recognised(page.form)
       /\ rows' = Stored([form |-> page.form, seen |-> page.values, replace |-> FALSE,
                          given |-> [i \in On(page.form) |-> NothingGiven]])
       /\ panel' = [was EXCEPT !.scan = NewId, !.plan = NoPlan, !.print = page,
                               !.fresh = FALSE]
       /\ task' = Idle /\ suggested' = Idle
       /\ UNCHANGED <<rescans, drafts, tried>>

(* refreshObservedApplicationStep                                           *)
Observe ==
    /\ rescans["observer"] = Idle /\ ~Busy
    /\ page # panel.print
    /\ RescanAndPlan("observer", panel)
    /\ UNCHANGED <<answerVars, page, left>>

-----------------------------------------------------------------------------
(* The user's tasks.                                                        *)
StartFill ==
    /\ ~Busy /\ panel.plan # NoPlan
    /\ Budget
    /\ task' = [stage |-> "filling", scan |-> panel.plan.scan, failed |-> {},
                actions |-> panel.plan.actions,
                todo |-> {i \in DOMAIN panel.plan.actions :
                              panel.plan.actions[i].value # Unknown}]
    /\ UNCHANGED <<answerVars, page, rows, panel, rescans, drafts, tried, suggested>>

Write(i, v) == page' = [page EXCEPT !.values[i] = v]

(* fillReviewedFields: the next field, by its name.                         *)
FillField(i) ==
    /\ task.stage = "filling" /\ task.todo # {} /\ i = Min(task.todo)
    /\ \/ /\ i \in On(page.form)
          /\ Write(i, task.actions[i].value)
          /\ task' = [task EXCEPT !.todo = @ \ {i}]
          /\ UNCHANGED left
       \/ /\ IF i \in On(page.form) THEN Budget ELSE UNCHANGED left
          /\ task' = [task EXCEPT !.todo = @ \ {i}, !.failed = @ \cup {i}]
          /\ UNCHANGED page
    /\ UNCHANGED <<answerVars, rows, panel, rescans, drafts, tried, suggested>>

CancelFill ==
    /\ task.stage = "filling" /\ task.todo # {}
    /\ Budget
    /\ task' = [task EXCEPT !.todo = {}]
    /\ UNCHANGED <<answerVars, page, rows, panel, rescans, drafts, tried, suggested>>

(* The saved answers that POST .../answers/used finds in the plan of the    *)
(* scan, among the fields that did not fail.                                *)
UsedAnswers ==
    LET now == Plan(panel.scan, rows[panel.scan]).actions
        wanted == {i \in DOMAIN task.actions \ task.failed : task.actions[i].saved # None}
    IN  {now[i].saved : i \in wanted \cap DOMAIN now} \ {None}

(* recordRememberedAnswersUsed and rescanAndPlan, after the last field: the *)
(* wish to replace values is spent.                                         *)
ReportFill ==
    /\ task.stage = "filling" /\ task.todo = {}
    /\ UseAnswers(UsedAnswers)
    /\ RescanAndPlan("task", [panel EXCEPT !.replacing = FALSE])
    /\ UNCHANGED <<page, left>>

(* The box "Replace existing answers" is changed.                           *)
ToggleReplace ==
    /\ ~Busy
    /\ Budget
    /\ RescanAndPlan("task", [panel EXCEPT !.replacing = ~@])
    /\ UNCHANGED <<answerVars, page>>

(* One-off answer: asked for, then given by POST .../plan.                  *)
Ask(i, v, remember) ==
    task' = [stage |-> "giving", scan |-> panel.scan, field |-> i, value |-> v,
             remember |-> remember]
AnswerOnce(i, v, remember) ==
    /\ ~Busy /\ panel.scan # 0 /\ panel.plan # NoPlan
    /\ i \in DOMAIN panel.plan.actions \cap On(rows[panel.scan].form)
    /\ panel.plan.actions[i].value = Unknown
    /\ Budget
    /\ Ask(i, v, remember)
    /\ UNCHANGED <<answerVars, page, rows, panel, rescans, drafts, tried, suggested>>

GiveAnswer ==
    /\ task.stage = "giving"
    /\ IF task.remember
       THEN Remember(Asks[rows[task.scan].form][task.field], task.value)
       ELSE UNCHANGED answerVars
    /\ \E id \in {task.scan},
          row \in {GivenOnce(rows[task.scan], task.field, task.value, "user_input")} :
           /\ rows' = [rows EXCEPT ![id] = row]
           /\ panel' = [panel EXCEPT !.plan = Plan(id, row)', !.fresh = FALSE]
    /\ task' = Idle
    /\ UNCHANGED <<page, rescans, drafts, tried, suggested, left>>

(* Suggestions cite a fact or a saved answer; the value itself need only be *)
(* one that the form takes.                                                 *)
HasDigest ==
    \/ \E f \in Facts : f[1] \in {"contact", "direct_fields", "application_facts",
                                 "education", "work_experience", "custom_answers"}
                       /\ profile[f] # Unknown
    \/ Saved # {}
NeverSuggested ==
    {"authorization", "current_sponsorship", "future_sponsorship", "sponsorship",
     "compensation", "record_field", "narrative"}
IsProposalEligible(row, i, action) ==
    LET q == Asks[row.form][i]
    IN  /\ q.required /\ action.value = Unknown /\ row.seen[i] = Unknown
        /\ ~NeverRemembered(q) /\ q.intent \notin NeverSuggested
Suggestions(id) ==
    {s \in On(rows[id].form) \X Values :
        /\ IsProposalEligible(rows[id], s[1], Plan(id, rows[id]).actions[s[1]])
        /\ HasDigest
        /\ Written(Asks[rows[id].form][s[1]], s[2]) # Unknown}

Propose ==
    /\ ~Busy /\ panel.scan # 0
    /\ \E i \in DOMAIN panel.plan.actions :
           IsProposalEligible(rows[panel.plan.scan], i, panel.plan.actions[i])
    /\ Budget
    /\ task' = [stage |-> "proposing", scan |-> panel.scan]
    /\ UNCHANGED <<answerVars, page, rows, panel, rescans, drafts, tried, suggested>>

(* The panel files them under the scan it shows when they arrive.           *)
Proposed ==
    /\ task.stage = "proposing"
    /\ \/ \E s \in Suggestions(task.scan) :
              suggested' = [scan |-> panel.scan, field |-> s[1], value |-> s[2]]
       \/ suggested' = Idle
    /\ task' = Idle
    /\ UNCHANGED <<answerVars, page, rows, panel, rescans, drafts, tried, left>>

ApplyProposal(remember) ==
    /\ ~Busy /\ suggested # Idle /\ suggested.scan = panel.scan
    /\ suggested.field \in On(rows[panel.scan].form)
    /\ Budget
    /\ Ask(suggested.field, suggested.value, remember)
    /\ suggested' = Idle
    /\ UNCHANGED <<answerVars, page, rows, panel, rescans, drafts, tried>>

RequestFails ==
    /\ task.stage \in {"giving", "proposing"}
    /\ Budget
    /\ task' = Idle
    /\ UNCHANGED <<answerVars, page, rows, panel, rescans, drafts, tried, suggested>>

-----------------------------------------------------------------------------
(* The queue of drafts.                                                     *)
DraftPending == drafts.stage = "generating"
(* draft_application_answer: the question of the scan, which need not be    *)
(* the one whose plan made it a candidate, is one for a draft.              *)
DraftAllowed == IsDraftEligible(Asks[rows[drafts.scan].form][drafts.field])
DraftUsable ==
    /\ drafts.current /\ panel.scan = drafts.scan
    /\ drafts.field \in On(page.form)

(* generate_application_answer: a text that is not grounded is asked for    *)
(* once more, then refused.                                                 *)
DraftAgain(text) ==
    /\ DraftPending /\ DraftAllowed /\ text \notin Grounded /\ drafts.attempts > 1
    /\ drafts' = [drafts EXCEPT !.attempts = @ - 1]
    /\ UNCHANGED <<answerVars, page, rows, panel, rescans, task, tried, suggested, left>>

(* Refused, or for a form or a field that is gone: marked as failed.        *)
DraftRefused(text) ==
    /\ DraftPending
    /\ \/ ~DraftAllowed
       \/ IF text \in Grounded THEN ~DraftUsable ELSE drafts.attempts = 1
    /\ RunQueue(panel, rows)
    /\ UNCHANGED <<answerVars, page, rows, panel, rescans, task, suggested, left>>

(* Filled or preserved: the question of the scan has been seen to.          *)
Settled ==
    [tried EXCEPT ![drafts.field] = Asks[rows[drafts.scan].form][drafts.field].prompt]

(* What the user typed meanwhile is preserved.                              *)
DraftPreserves(text) ==
    /\ DraftPending /\ DraftAllowed /\ text \in Grounded /\ DraftUsable
    /\ page.values[drafts.field] # Unknown
    /\ Rescan("drafts", page, panel, Settled)
    /\ drafts' = [stage |-> "rescanning", scan |-> 0]
    /\ UNCHANGED <<answerVars, page, rows, task, suggested, left>>

DraftAccepted(text) ==
    /\ DraftPending /\ DraftAllowed /\ text \in Grounded /\ DraftUsable
    /\ page.values[drafts.field] = Unknown
    /\ drafts' = [stage |-> "approving", scan |-> drafts.scan, field |-> drafts.field,
                  current |-> TRUE, text |-> text]
    /\ UNCHANGED <<answerVars, page, rows, panel, rescans, task, tried, suggested, left>>

(* The plan with the draft comes back; the field is filled at once, if the  *)
(* plan has the draft and the page has the field.                           *)
DraftApproved ==
    /\ drafts.stage = "approving"
    /\ UNCHANGED <<answerVars, task, suggested, left>>
    /\ \E id \in {drafts.scan}, i \in {drafts.field} :
       \E row \in {GivenOnce(rows[id], i, drafts.text, "generated")} :
       \E plan \in {Plan(id, row)}, scans \in {[rows EXCEPT ![id] = row]} :
         /\ rows' = scans
         /\ \/ /\ plan.actions[i].value = Unknown \/ i \notin On(page.form)
               /\ UNCHANGED <<page, panel, rescans>>
               /\ RunQueue(panel, scans)
            \/ /\ plan.actions[i].value # Unknown /\ i \in On(page.form)
               /\ Write(i, plan.actions[i].value)
               /\ Rescan("drafts", page', [panel EXCEPT !.plan = plan], Settled)
               /\ drafts' = [stage |-> "rescanning", scan |-> 0]

DraftFails ==
    /\ drafts.stage \in {"generating", "approving"}
    /\ Budget
    /\ RunQueue(panel, rows)
    /\ UNCHANGED <<answerVars, page, rows, panel, rescans, task, suggested>>

-----------------------------------------------------------------------------
(* The user and the web page.                                               *)
Type(i, v) ==
    /\ i \in On(page.form) /\ v # page.values[i]
    /\ Budget
    /\ Write(i, v)
    /\ UNCHANGED <<answerVars, rows, panelVars>>

Blank(form) == [i \in On(form) |-> Unknown]

(* The next step of the application, or the one before, with empty fields.  *)
MoveOn(form) ==
    /\ form # page.form
    /\ Budget
    /\ page' = [form |-> form, values |-> Blank(form)]
    /\ UNCHANGED <<answerVars, rows, panelVars>>

(* The profile is edited in the web app, the answers bank by an API client, *)
(* which need not name an intent.                                           *)
EditAnswers ==
    /\ Budget
    /\ \/ \E f \in EditedFacts, v \in Edited \cup {Unknown} : SaveProfile(f, v)
       \/ \E p \in EditedPrompts, v \in Edited, aliases \in SUBSET Phrases :
              PutAnswer(p, v, "unknown", aliases)
       \/ \E p \in EditedPrompts : DeleteAnswer(p)
    /\ UNCHANGED <<page, rows, panelVars>>

NoPanel ==
    [scan |-> 0, plan |-> NoPlan, replacing |-> FALSE, print |-> NoRow,
     fresh |-> FALSE]

ReviewInit ==
    /\ AnswersInit
    /\ \E form \in Forms : \E i \in On(form), v \in Entered \cup {Unknown} :
           page = [form |-> form, values |-> [Blank(form) EXCEPT ![i] = v]]
    /\ rows = [id \in Ids |-> NoRow]
    /\ panel = NoPanel
    /\ rescans = [t \in Threads |-> Idle]
    /\ task = Idle /\ drafts = Idle /\ suggested = Idle
    /\ tried = [i \in Fields |-> None]
    /\ left = MaxSteps

(* What the panel and the server do by themselves.                          *)
PanelStep ==
    \/ Observe \/ ReportFill \/ GiveAnswer \/ Proposed
    \/ \E t \in Threads : Plans(t)
    \/ \E i \in Fields : FillField(i)
    \/ \E text \in Texts :
           \/ DraftAgain(text) \/ DraftRefused(text)
           \/ DraftPreserves(text) \/ DraftAccepted(text)
    \/ DraftApproved

OutsideStep ==
    \/ StartFill \/ CancelFill \/ ToggleReplace \/ Propose
    \/ \E i \in Fields, v \in Entered, b \in BOOLEAN : AnswerOnce(i, v, b)
    \/ \E b \in BOOLEAN : ApplyProposal(b)
    \/ \E i \in Fields, v \in Entered \cup {Unknown} : Type(i, v)
    \/ \E form \in Forms : MoveOn(form)
    \/ EditAnswers
    \/ RequestFails \/ DraftFails
    \/ \E t \in Threads : RescanFails(t)

ReviewNext == PanelStep \/ OutsideStep

(* Every request is answered or fails, and the panel's timers go off.       *)
ReviewSpec == ReviewInit /\ [][ReviewNext]_vars /\ WF_vars(PanelStep)

-----------------------------------------------------------------------------
Actions == [value : Values \cup {Unknown}, saved : Prompts \cup {None},
            source : {"none", "profile", "saved_answer", "user_input", "generated"}]

RowTyped(row) ==
    \/ row = NoRow
    \/ /\ row.form \in Forms /\ row.replace \in BOOLEAN
       /\ DOMAIN row.seen = On(row.form) /\ DOMAIN row.given = On(row.form)

(* Types, and what is referred to is there: no scan is dropped that a plan, *)
(* a request in flight or a suggestion still needs.                         *)
FormTypeOK ==
    /\ AnswersTypeOK
    /\ page.form \in Forms /\ page.values \in [On(page.form) -> Values \cup {Unknown}]
    /\ \A id \in Ids : RowTyped(rows[id])
    /\ \A id \in Held \ {0} : rows[id] # NoRow
    /\ panel.plan # NoPlan =>
           panel.plan.actions \in [On(rows[panel.plan.scan].form) -> Actions]
    /\ left \in 0..MaxSteps

(* What the extension puts into a field: by the fill that runs, or by the   *)
(* queue with the draft just approved.                                      *)
Filled(i) ==
    \/ /\ task.stage = "filling" /\ i \in task.todo
       /\ task'.stage = "filling" /\ i \notin task'.todo \cup task'.failed
       /\ page' # page
    \/ drafts.stage = "approving" /\ drafts.field = i /\ page' # page
       /\ drafts'.stage = "rescanning"

(* Wherever the user types and whatever arrives when, drafted prose is      *)
(* grounded; and as long as the page shows the form that was scanned, a     *)
(* value that the scan saw is written over only when it was made to replace *)
(* values or the answer was given in the panel, an answer from the bank     *)
(* never lands in a question that is sensitive by its label, and prose goes *)
(* only where prose is wanted (extension/README.md: existing answers are    *)
(* preserved; sensitive ones are left to the user).  Nothing is claimed of  *)
(* a fill that goes on, by the names of the fields, after the page moved on *)
(* to another form: findField does not look at the question.                *)
FillsAreDue ==
    [][\A i \in Fields : Filled(i) =>
        LET filling == task.stage = "filling" /\ task # task'
            id == IF filling THEN task.scan ELSE drafts.scan
            row == rows[id]
            a == IF filling THEN task.actions[i]
                 ELSE [value |-> drafts.text, source |-> "generated", saved |-> None]
            asked == Asks[row.form][i]
        IN  /\ a.source = "generated" => a.value \in Grounded
            /\ page.form = row.form =>
                   /\ row.seen[i] # Unknown =>
                          row.replace \/ a.source \in {"user_input", "generated"}
                   /\ a.source = "saved_answer" => ~asked.named
                   /\ a.source = "generated" => IsDraftEligible(asked)
      ]_vars

(* A question that waits for a draft does not wait forever: it gets one, or *)
(* keeps what the user typed, or is marked as failed.  Except where what    *)
(* the panel shows is not the outcome of a rescan, one having broken off or *)
(* an answer been given in the panel: only a rescan schedules the queue.    *)
DraftsSettle == []<>(DraftsWanted(panel, rows, tried) = {} \/ ~panel.fresh)
=============================================================================
