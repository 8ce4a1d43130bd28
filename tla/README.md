# A TLA+ model of ApplyTeX

ApplyTeX (this repository) tailors a LaTeX resume to a job, fills the
employer's application form in a real browser, and submits it **only after the
user has reviewed and approved what was filled in**. This directory holds a
formal model of the parts of the program whose correctness depends on order,
interleaving and failure: TLA+ modules translated from the source, TLC
configurations that check them on small instances, and theorems that TLAPS
proves for every instance.

`PROJECT.json` is the index: for each definition of a module the source lines
it stands for, for each run what it asks, for each property a mutation of the
code that breaks it, and the list of hazards the properties were written for.

## 1. Inventory of the system

Paths are relative to the repository; `lr/` abbreviates `src/latex_resume/`.

| Component | State it keeps | Operations | What makes it correct | Status |
|---|---|---|---|---|
| **Apply-run server** (`lr/apply_runs.py`, `lr/routers/apply_runs.py`, run part of `lr/application_store.py`, tables of `lr/job_models.py`) | SQLite table `apply_runs`: status, application, approval token | enqueue, approve, resume, cancel (user); claim, report, record submitted (executor) | one active run per application; approval before submission; a submitted run has a receipt; daily cap | modelled, proved |
| **Local executor** (`scripts/executor.mjs`) | `openRuns`: browser page per run, in memory only | poll, claim, fill, pause, click Submit, confirm, record, report failure | Submit is clicked once, on the page that was reviewed, on an approved run; nothing is left hanging | modelled, proved |
| **Application workflow and receipts** (`lr/submission.py`, application part of `lr/application_store.py`, `lr/routers/extension.py`) | `applications`, `submission_bundles`, `application_tasks` | transition, advance, score, fill report, confirm submission, follow-up, merge of duplicates | the gate is never passed by; nothing regresses; receipts are complete and belong to an application | partly, proved |
| **LaTeX resume sessions** (`lr/session.py`, `lr/routers/latex.py`) | registry dict, rows of `latex_sessions`, one `asyncio.Lock` per object | upload, get/rehydrate, save, delete, expire; optimize, refine, rerender | one worker per object; live rows stay; requests end | modelled, proved |
| **Tailor sessions** (`lr/tailor_store.py`, `lr/routers/tailor.py`) | one row per session; copies in requests | create, patch, optimize, refine, approve | the history explains the resume; what is approved is what is printed | modelled, proved |
| **Resume optimizer** (`lr/optimizer.py`, `lr/change_validation.py`, `lr/reconstructor.py`) | the result a request works on | propose, validate, splice, render, score, patch, shorten, take back | only validated text; the report is of the resume; page before score | modelled, proved |
| **LLM clients and budget** (`lr/llm.py`, the LLM settings of `lr/application_store.py`, middleware of `lr/api.py`) | daily call counters | bind a budget, check, call, record | the budget is overspent by a bounded number of calls | partly, proved |
| **Local authentication** (`lr/local_auth.py`, `lr/routers/auth.py`) | users, hashed tokens with expiry | log in, log out here or everywhere, expire | a revoked or expired token never works again | modelled, proved |
| **Profiles, privacy, deletion** (`lr/routers/profiles.py`, `lr/routers/_deps.py`, `lr/data_protection.py`) | profile rows, the active profile, resume files | resolve the profile, upload, sync, delete all data | nothing erased comes back; no file without an owner | partly, proved |
| **Form resolution** (`lr/form_resolution.py`, `lr/option_matching.py`) | none | resolve a question, plan a field | order of precedence; sensitive questions are left to the user | modelled, proved |
| **Answers bank and proposals** (`lr/application_answers.py`, `lr/answer_proposals.py`, `lr/routers/extension.py`) | saved answers, facts of the profile | remember, match, use, edit; suggest; draft | what was remembered is used; drafts are grounded | modelled, proved |
| **Browser extension** (`extension/panel.js`) | panel state, queue of drafts | rescan, plan, fill, answer, suggest, draft, attach | fills follow the plan; drafts settle; what is attached was approved | partly, proved |
| **Cover letters, screening** (`lr/cover_letters.py`, `lr/artifact_files.py`, `lr/screening.py`) | `application_artifacts` and PDF files | draft, edit, approve, serve, mark uploaded | approval is of the text that is sent; the row names the file | partly, proved |
| **Job watchlist** (`lr/watchlist.py`, `lr/routers/watchlist.py`, feed part of `lr/application_store.py`) | `watchlist_entries` per profile, the shared `jobs` table | refresh (concurrent fetches, then merge and prune), follow, pause, delete, search | no posting with an application is pruned; one board's failure touches only it; nothing of a deleted entry comes back; the feed catches up with its boards | partly, safety proved |
| LaTeX parser and renderer (`lr/parser.py`, `lr/extractor.py`, `lr/renderer.py`, `lr/engine.py`) | none | parse, render | text processing | partly: the outcome of a compilation, in ResumeOptimizer |
| Job sources and matching (`lr/job_sources.py`, `lr/job_matching.py`) | none | fetch, score | HTTP and text scoring | not modelled |
| Web UI, Streamlit UI (`frontend/`, `lr/streamlit_app.py`) | views | calls of the API | no state of their own | not modelled |
| Benchmark, evaluation, tracing | files | offline measurement | not part of the product's state | not modelled |

**How they interact.** The FastAPI process runs one event loop; handlers run
alone between awaits, and every store call is its own SQLite transaction. The
executor is a separate Node process that polls the API over HTTP and drives a
persistent Chromium in which the extension's panel fills the forms. The user
reaches the same API from the browser. The executor's only persistent memory
is the server: `openRuns` dies with the process, and the open page is what the
user reviewed. Resume sessions live twice, as objects with locks and as rows;
the tailor flow borrows the classic session's object and lock. Every model call
passes the daily budget. The panel gets scans from the page and plans, drafts
and files from the server, and acts on them some awaits later.

**Where it is hard.** Executor and user race on the same run, on a snapshot
that is stale by the time it is used. Requests and answers can be lost; both
processes can be killed at any point. The employer's form accepts or not,
independently of what the script hears of it. A confirmation is up to ten
transactions. Duplicates with different histories are merged. Sessions are
evicted and rebuilt while requests hold their locks, and copies are saved whole
after an await. In the panel an observer, a task of the user and a queue of
drafts rescan one form while the user types and moves on to the next.
`PROJECT.json` lists each of these hazards at its line.

## 2. The modules

```
SubmissionGate          what is promised about the Submit button
      ^ KeepsThePromise (refinement)
ExecutorProtocol  --EXTENDS-->  ApplyRuns  <-- CoarseView (refinement) --  ApplicationTracker
      ^                             ^                                            ^
      +-- ExecutorProtocolProofs ---+                            ApplicationTrackerProofs

LLMBudget  <--EXTENDS--  ResumeSessions  <--EXTENDS--  TailorSessions
      ^   <- TailorImplementsBudget (refinement) ------      ^
      +------------------- TailorSessionsProofs -------------+

FormAnswers  <--EXTENDS--  FormReview                ResumeOptimizer  <-- ResumeOptimizerProofs
      ^                        ^                     Accounts         <-- AccountsProofs
      +-- FormReviewProofs ----+                     WatchlistFeed    <-- WatchlistFeedProofs

ApplicationDocuments  <-- ApplicationDocumentsProofs

for TLC:  MCApplyRuns, MCExecutorProtocol     ExecutorProtocol
          MCApplicationTracker                ApplicationTracker
          MCRefinements                       ExecutorProtocol, ApplicationTracker
          MCResumeFlows                       TailorSessions, ResumeOptimizer
          MCFormReview                        FormReview
          MCServerRecords                     ApplicationTracker, ApplicationDocuments, Accounts
          MCWatchlistFeed                     WatchlistFeed
```

### Submitting

**ApplyRuns** is the server. Its variables are the columns of `apply_runs`
that any code reads (`runStatus`, `runApp`, `approvalToken`, `approvedAt`,
`recent` for `created_at` within 24 hours) and, of each application, a coarse
status and whether a receipt exists. `Moves` is `APPLY_RUN_TRANSITIONS`, with
the actor column. Each handler is one action, because none awaits between its
first read and its last write: `Enqueue` (`enqueue_apply_run` with its refusals),
`Approve`, `Resume`, `Cancel`, `Claim`, `Report`, `RecordSubmitted`,
`MarkSubmitted`, `TransitionApplication`, and `MergeDuplicates`, the
`dedupe_applications` that `GET /applications/health` and `POST /applications`
run: the kept row takes the status of the highest rank, the others are gone
(`merged`), runs and receipts keep the old id. Any client may send any request at
any time. `RunAges` is the passage of a day.

**SubmissionGate** is the abstract promise: for each run the form is shown, the
user consents, the click uses the consent up; consent can be withdrawn for good
at any time before the click, for several runs at once when the executor that
shows them is killed.

**ExecutorProtocol** EXTENDS ApplyRuns with any number of executors. `pc` is
the await an executor is at, `todo` the rest of its poll snapshot (with the
statuses as polled), `window` is `openRuns` with what the page shows, `clicks`
and `accepted` are the employer's side. A step is the code from one await to
the next. `Progress` and `ClaimOrFail` say what a request can come to: applied,
refused, lost on the way, or applied with the answer lost; everything but the
first ends in the catch of the main loop (`failing`, `ReportFailure`). What the
page does (sign-in walls, CAPTCHAs, missing answers, validation errors, a
confirmation that comes late or never) is a choice of outcomes. `Restart`
empties `openRuns`; `CloseWindow` is the user closing a window.

**ApplicationTracker** opens the coarse status of ApplyRuns up: the thirteen
statuses with `ALLOWED_APPLICATION_TRANSITIONS`, `transition_path` as `NextHop`,
and the handlers that move an application, transaction by transaction. `work`
is the rest of the handler that is running; `Crash` forgets it. Scoring awaits
between reading and writing and so is two actions. `Merge` is
`dedupe_applications`. A crash in `Confirm ... Hop ... Link ... FollowUp` is the
difference between ApplyRuns' one-step `ConfirmSubmission` and the code; the
refinement `CoarseView` shows that they agree otherwise. `bundled`, the
applications with a receipt, is what ApplyRuns calls `receipted`.

**ApplicationDocuments** is what an application sends: tailored resumes and
cover letters as rows (`artifacts`) and PDF files (`disk`, one path per kind and
application, as the name is made of the company and the job), the panel's copy
of the letter, the one task the panel is at (`errand`), the reading that a focus
event starts beside it (`focus`), what was attached, and the receipt
(`build_submission_bundle`). Drafting awaits; approving, editing and serving are
single handlers; the panel acts on their answers in steps of its own.

### Tailoring

**LLMBudget** is the daily budget: a request is bound to the profile's budget
when it arrives, checks it before a call and records the call after it, with
the call awaited in between. It is a client's view, and at the same time the
specification that the two session modules are shown to implement.

**ResumeSessions** EXTENDS LLMBudget with the classic sessions: `objects` are the
`ResumeSession` objects built for each id (a rehydration while a request still
holds the old object makes a second one), `rows` the table, `registered` the
registry. A request enters with `optimize` or `refine`, waits for its object's
lock (a queue, as `asyncio.Lock` is first come first served), calls the model
within the budget, and finishes, fails or is lost with the process. Ages replace
clocks: an object's `last_accessed` and a row's are two, and registry and table
are cleaned each by its own. `Restart` empties the registry.

**TailorSessions** EXTENDS it with the guided flow: a tailor session is a row
that a request loads as its own copy and saves whole; its optimize works on the
linked classic session's object under that object's lock, its refine takes no
lock. `Patch` is every user edit. `Approve` renders the current text; when the
render times out, does not compile or finds no engine, it takes the PDF in the
last result, which is of that text or of an earlier trial of the optimization
that made it (a PDF is named by the text it shows, in which the edits of an
unfinished trial are not complete).

**ResumeOptimizer** is what one such request does: proposals and their gates
(`Valid`, `Admitted`: fabricated metrics, unsupported claims, length), voice,
the confirmation of skills, rebuild and render, skill and keyword patches,
compaction, pruning, the recruiter's review with its fallback, and the strict
fit to the page. A wording stands for a statement's text: its length, whether it
claims only what the original supports, whether LaTeX compiles it. `Score` and
`Length` of a whole resume are constants, so that the proofs hold for any scoring.
Every question to the model may fail, and what a failure does depends on the
stage.

### Filling forms

**FormAnswers** is `resolve_form_questions` in its order: custom answers, skills,
compensation, employment, contact, record, direct and general facts,
equal-opportunity facts, then the answers bank with its exact, intent and
resemblance matches (an answer is found by its prompt or by any alias that an
API client gave it; of several the one updated last), and what may never be
answered from it. A question is a record of what the patterns read out of its label. Remembering an answer may
also write a typed fact of the profile, or take an answer from the bank.

**FormReview** EXTENDS it with the panel: three threads that rescan (observer,
task, queue of drafts), rows for the scans, the plan the server computes for a
scan (kept values, replacements, one-off answers), the fill that writes field by
field, suggestions and their application, and drafts with their two attempts,
their validation and the check whether the form is still the same one. A page
on which no form is recognised leaves the panel without a plan (`RescanAndPlan`).
The user types, navigates and edits the answers meanwhile.

### Accounts and the feed

**Accounts** is tokens, profiles and their files. A request has two steps: the
middleware resolves its token, and the handler begins later; GitHub sync awaits
once more, after reading the profile. `ActsOn` is `resolve_request_profile_id` with its
three sources (token, name in the request, active profile). Deletion is one
transaction and then the files, with a crash in between.

**WatchlistFeed** is the passive job feed. `entry` is the table of followed
boards, `row` the jobs table with the two columns that decide what is shown to
whom (`captured_for_profile_id` and whether `watchlist_entry_id` names an entry
that exists), `listed` what the boards would answer. A refresh reads the
entries (`Start`), awaits each board (`FetchOk`, `FetchFails`) and does the
rest without an await: `Finish` merges (`upsert_feed_jobs`) and prunes
(`prune_feed_jobs`), or, if an entry it holds was deleted meanwhile (`broken`),
`Abort`: the `KeyError` of `update_watchlist_entry` comes before the merge.
`Follow`, `Unfollow`, `Search`, `Apply` and `DeleteProfile` are the requests
that write the same tables. It shares only the job's identity with the other
modules (an application is created for a row of `jobs`), so it is not composed
with them.

### What is left of the plan

* a second process on the database (Streamlit, the watchlist's command line)
  as an environment of ApplicationTracker;
* of the panel: the creation of Workday records, uploads as plan actions, and
  the bridge to the background page.

## 3. The runs

| Run | Instance | Asks |
|---|---|---|
| `ApplyRuns` | 3 runs, 2 applications, cap 2, any clients, merges of the two; or 3 executors that race for one run, with restarts and losses | `OneActiveRun`, `SubmittedRunIsBacked`, `TokenFollowsApproval`, `CountedRunsWithinCap`, `ClickedAtMostOnce`, `SubmitStepsAreApproved` |
| `ExecutorLive` | 1 executor, 2 runs of 2 applications, one with a provider that is not enabled | liveness: `ClaimedRunMovesOn`, `QueuedRunIsTaken` |
| `Refinements` | 1 executor, 2 runs of 2 applications of which at most one ends or is merged away, restarts and losses; or the workflow of 2 duplicate applications without a crash | the refinements `KeepsThePromise` and `CoarseView`; `ReceiptOnlyAfterAcceptance`, `ConfirmedIsComplete` |
| `ServerRecords` | 2 duplicate applications, crashes; or the letters, or the resumes of 1 application; or 2 profiles, 2 requests and 2 tokens, or 2 file names | `SubmittedWentThroughGate`, `OnlyTheUserReopens`; `OnlyApprovedIsAttached`, `WriterIsServedWhole`; `SignedOutIsOut`, `ErasedStaysErased`, `FilesHaveAnOwner` |
| `ResumeFlows` | 1 classic and tailor session, 2 requests, a budget of 1 call a day; or one pipeline on 3 statements and 6 wordings | `TailorTypeOK`, `OverspendIsBounded`, `LockIsItsWorkers`, `HistoryExplainsText`, `ApprovedPdfIsOfItsRequest`, `FreshRowsStay`, liveness `EveryRequestEnds`; `ReportIsOfTheResume`, `AppliedTextIsSound`, `OverflowIsJustified`, `TargetIsKept`, liveness `PipelineEnds` |
| `FormReview` | all edits of the answers, for 4 questions; or a panel at work on 3 forms and a page without one | `FormTypeOK`, `RememberedAnswerIsUsed`; `FillsAreDue`, liveness `DraftsSettle` |
| `WatchlistFeed` | 1 profile, 1 board, 2 postings, 2 refreshes at a time | `AppliedPostingIsKept`, `FeedHasItsEntry`, `OutageKeepsFeed`; liveness: `ListedReachesFeed`, `TakenDownLeavesFeed` |
| `ExecutorPairClick` | 2 executors, 1 run | violated: `ClickIsApproved` |
| `ExecutorGivenUp` | 1 executor, 1 run, restarts | violated: `GivenUpRunEnds` |
| `TrackerMergedStatus` | 2 duplicate applications | violated: `SubmittedStaysSubmitted` |
| `WatchlistShared` | 2 profiles, 1 board, 1 posting, 1 refresh at a time | violated: `RefreshKeepsApplied` |
| `ReceiptAttached` | as `ServerRecords` | violated: `ReceiptNamesWhatWasAttached` |

Where a row says "or", the parts share no variable, or share them and are about
different questions; an initial choice or the first step decides which part a
behaviour is about, so that the state spaces add up instead of multiplying. The
type invariants that are proved (ApplyRuns, ExecutorProtocol,
ApplicationTracker, WatchlistFeed, ResumeOptimizer, Accounts) were checked
while they were written and are not among the properties of the runs any more.

**Why the bounds are enough.**

* *Submitting.* Three runs of two applications are what it takes for a second
  run of one application to meet an older one and for the cap of two to be
  reached and passed by cancelling or ageing. Runs do not interact except
  through their application, so two runs of one application show the executor a
  failed run followed by a retry, and two runs of two applications a restart
  that loses two pages at once. With three executors one loses the page,
  one holds it and a third claims. Nothing is bounded inside the modules except
  the number of runs and of applications; `clicks` counts without a bound and
  is kept at one by the protocol.
* *Sessions.* Two requests are what it takes to wait for a lock, to work on two
  objects of one session, or to overwrite a copy. Sessions meet only in the
  budget, for which `LLMBudget` is proved. With `TTL = 0` an object or row is
  fresh, or expired at the next tick; the tailor row lives one tick longer, as
  it does in the code (two hours against one).
* *Optimizer.* Two statements of prose and one skills line, one statement of
  prose and the skills line selected; wordings that are shorter, better, too long,
  unsound, or do not compile. The original fits the longer page only, so
  both sides of `OverflowIsJustified` occur. The attempts are the code's two, and
  the rounds of the review are two.
* *Forms.* The three forms have a choice with a typed fact, prose, a question
  that is sensitive by its label and one that resembles another; two of them
  share the place of a field. `MaxSteps` bounds what the outside does (typing,
  moving on, edits, failures) at two beyond what the panel does itself, `MaxEdits`
  the edits of answers at three: save, use, and save another. Three outside
  steps on two forms were checked while the module was written.
* *Documents.* Three resume artifacts, so that an older one is uploaded while a
  newer is approved; with letters, two artifacts and one approved resume. A
  behaviour ends with its first receipt. Both parts together, with two
  artifacts, were checked once and hold.
* *Accounts.* A deletion, the request it overtakes and the token it ends need
  two of each. Behaviours about sessions have no uploads and behaviours about
  files no authentication; the product with one file name was checked once.
* *Feed.* Two refreshes are what it takes for one to work on answers that the
  other has outdated; boards meet only in the abort of a refresh and in which of
  them is pruned, and for any number of boards `FeedHasItsEntry` and
  `OutageKeepsFeed` are proved.

Symmetry (runs, applications, executors, tokens, requests) is used only in runs
without liveness, and the sets it permutes are named by no definition.
`CHECK_DEADLOCK FALSE` is said of `ServerRecords` and `ReceiptAttached` (the
bounds are used up) and `FormReview` (the panel rests and the outside's budget
is spent).

**What the violations show** (details under `findings`):

* `ExecutorPairClick`. With two executors for one profile, the one that does
  not have the page reports an approved run failed on a stale snapshot just
  after the other claimed it; the claim holder still clicks. With a single
  executor this cannot happen (`KeepsThePromise`, proved), so the promise of
  `ApplyRun`'s docstring holds in the deployment the documentation describes,
  and nothing in the code refuses the other one.
* `ExecutorGivenUp`. The executor reports `failed` for runs it never claimed
  (provider not enabled, page lost); the transition table has no such hop, so
  the report is refused and the run stays active until the user cancels it.
* `TrackerMergedStatus`. `failed`, `blocked` and `skipped` outrank `submitted`
  in a merge, so a submitted application can become one that may be enqueued.
* `WatchlistShared`. A posting is one row for all profiles, owned by the one that
  captured it last, and a prune spares what *its* profile has applied for. If
  another profile applied for the posting (or applied first, and lost the row
  to the refresh of a profile that follows the same board), the prune deletes
  it from under the application. With one profile this cannot happen
  (`AppliedPostingIsKept`, proved).
* `ReceiptAttached`. The receipt names the latest uploaded, else the latest
  approved artifact, whatever was attached: the saved resume is attached, a
  tailored one is approved afterwards, and the receipt names the tailored one.

### Smaller observations

Made while modelling, or as counterexamples of stronger forms of the
properties; no run states them, most because no document promises otherwise.

*Submitting.*
Cancelling a run takes it out of the daily count even when it was executed, so
more than `APPLYTEX_EXECUTOR_DAILY_CAP` runs can be executed in a day (README:
"Maximum executor runs per profile per day"). A confirmation of a skipped,
failed or blocked application is refused after its receipt was written. Runs and
receipts stay under the id of a merged duplicate: a claim of such a run moves it
and then answers 404, recording its submission fails with a `KeyError` before
anything is written, a run of the merged and one of the kept application can
both be active, and a submitted run's application need not say submitted any
more (the last two lines of `SubmittedRunIsBacked`). After a crash between the
advance and the link, the retried confirmation returns early and neither links
nor schedules a follow-up (hence `MayCrash <- FALSE` for `ConfirmedIsComplete`).

*Sessions and budget.* `refine` reads the session's source before it takes the
lock, so of two refinements the second starts from what the first has
replaced (`session.py:13-14` says the lock prevents it). `get` refreshes the
time of last access in memory only, so a live session can be lost at a restart.
A tailor request saves its copy whole after the await and so undoes what was
saved meanwhile; the history is kept with the text and still explains it. The
cleanup of the registry does not know of the deletion of a profile. The classic
session lives half as long as the tailor session, whose optimize then answers
404. Nobody calls the tailor store's cleanup. A budget error inside the
optimizer's `except Exception` is a model failure like others, where
`docs/AUTH.md:84-86` says 429, and the langchain reviewer calls the model
past the budget (`langchain_reviewer.py:68`). `FreshRowsStay` needs the
session to have one object: TLC shows an old object erase what a new one saved.

*Optimizer.* After a trial that does not compile, `pdf_bytes` stays the PDF of
an earlier trial, where `_record_render` (optimizer.py:2183-2190) says "Leave
pdf_bytes unset". An approval whose own render has no PDF (a timeout, a text
that does not compile) files that PDF with the later text
(routers/tailor.py:331-345): the model lets it, and `ApprovedPdfIsOfItsRequest`
says how far the two can be apart, one request's edits and never more. Keyword patches, the review and the strict fit edit
statements outside the selected scope (tests/test_optimizer.py:1652). The review
may apply edits that overflow, and when a compaction call then fails the
exception is swallowed (1102) and the pruning skipped; this is the third excuse
of `OverflowIsJustified`. Failures of the model while shortening, outside the
review, leave the pipeline as an error 500. A failed repair pass forgets the
proposals rejected first.

*Forms.* A cancelled autofill counts all planned saved answers as used. A
remembered answer is not used where a fact of the profile answers the question,
even if its value is not offered (panel.js:2641-2655 says "Future forms with
this question resolve automatically"). What the user typed since the last scan
is overwritten by a fill with the older plan
(docs/JOBRIGHT_AND_ATS_AUDIT.md:199, extension/README.md:88); so `FillsAreDue`
speaks of what the scan saw. A fill that was begun goes on when the page moves
to another form, and writes by the names of the fields (`findField`,
panel.js:6949): nothing looks at the question again, so an answer meant for one,
from the bank too, lands in a field of the same name, which may be a sensitive
one. TLC reaches this, and but for the grounding of drafts `FillsAreDue` claims
nothing of a page that shows another form than the scan's. An answer that an API
client gave the prompt of another as an alias, and that was saved or used later,
comes before the answer remembered for that prompt (form_resolution.py:776-782);
`RememberedAnswerIsUsed` names this. A rescan that fails after the switch
"replace existing" leaves the replacing plan. Between a draft's request and its
fill the form may change: the draft can land in the field of the same name of
another form. Two rescans that overtake each other leave the older scan shown.
After a rescan that broke off, or an answer given in the panel, nothing
schedules the queue of drafts; with the plan of an old form and the scan of a
new one a failing draft is retried for ever; these are the two conditions of
`DraftsSettle`. A question that only its flag marks as sensitive is answered
from the bank (tests/test_answers_bank.py:145 expects it). Using an answer
reorders the bank, and so may change which of two resembling answers is found.
`PUT /profile` saves the whole profile and loses facts remembered meanwhile.

*Documents.* Two windows (an edit in one, an attachment in the other) can send
an unapproved letter, as `/file` does not check the status; in one window it
takes an answer that was lost or overtaken (`unseen` in `OnlyApprovedIsAttached`;
TLC found both). A second approved resume overwrites the first's file, which has
the same name: the older artifact is then served with the newer PDF.
After an upload no artifact is "approved", so the next upload sends the
saved resume and letters are checked against it. A letter edited after it was
attached drops out of the receipt.

*Accounts.* `purge_expired_auth_sessions` is never called (docs/AUTH.md:54:
"purged lazily"). A resume uploaded under another name leaves the old file,
and deletion does not find it (docs/AUTH.md:62: "removes every row and on-disk
file"); the list of artifacts to delete ends at 500. A change of the password
leaves other tokens valid. A login creates the profile's row before it checks
the password. A request that awaits while its profile is erased (GitHub sync)
writes rows of it again.

*Feed.* An entry that is deleted while a refresh runs throws away
the answers of all other boards (`Abort`); a search takes the jobs it finds out
of the feed until the next refresh, and with several profiles on one board the
last one refreshed has its jobs; jobs of a board no longer followed
stay in the list (`left`), and nothing prunes them; deleting the data of one
profile deletes postings that another one has applied for.

### What the proofs found

Two places where the model was wrong and its small instances did not show it,
found because a step would not go through:

* A failed plan request leaves the old plan beside a new scan
  (`panel.js`, `RescanFails`), so the field that the queue of drafts asks for need not be
  one that the plan of *this* scan made a candidate. What keeps a draft out of a
  sensitive question then is the server's own check at the start of
  `draft_application_answer` (`lr/routers/extension.py:546-554`). The model had
  left it out; `DraftAllowed` is that check, and without it `FillsAreDue` fails.
* Answers used together get one time of update, and `Rankings` left their order
  open without asking that it be transitive. For three answers this allowed a
  cycle, in which no answer is the newest.

## 4. Fairness

`FairProtocolSpec` states weak fairness of each executor's step. The
main loop of `executor.mjs` never returns by itself, its catch continues with the
next run, and every await in it is given a time limit or is a local HTTP
request, so an executor that was started and not killed takes its next step.
The choice *which* outcome the fill loop has is not fair. A round after which
the loop goes on changes no variable (`FillRound` is a stuttering step), so
fairness demands one of the outcomes that end it, which is what the bound
`MAX_STEPS` of the loop guarantees. `UninterruptedSpec`, of the liveness run, has
neither restarts nor losses: with a restart, a run that was `running` or
`submitting` does stay there (listed as a hazard). No fairness is assumed of
the user.

`FairTailorSpec`: a freed lock wakes one of those that wait and a backend
answers or times out (`WF` of `TakeLock` and `Answered` of each request); a
pipeline makes a bounded number of calls, so a request that can end again
and again does end (`SF`, as between calls it cannot). For the optimizer alone
`WF` of its next step, and its loops are shown to end by themselves
(`PipelineEnds`). Uploads, edits, deletions, ticks and restarts are not fair.

`FormReview`: `WF` of the panel's own steps (`PanelStep`): timers, requests with
an outcome and fills go on while the page is open. The user and the web are
not fair, and end with their budget of steps.

`FairSpec` of WatchlistFeed: `refresh_loop` refreshes every profile again and
again (`SF` of a start for each profile, as "refresh now" may be running when
the loop comes by), a request to a board ends within its 30 seconds (`WF` of
each refresh's step), and no board is out for ever (`SF` of its answer). It
also assumes that from some time on entries are not deleted any more: a user who
deletes one during every refresh would abort them all. Searches,
applications, outages, pauses and the boards' changes may go on for ever.

## 5. The proofs

Every safety invariant, action property and refinement that a passing run checks
is stated by a theorem. All theorems hold for every value of the constants
under the assumptions named in the modules (`ApplyRunsAssumption`,
`ExecutorAssumption`, `TrackerAssumption`, `DocumentsAssumption`,
`WatchlistAssumption`, `AccountsAssumption`, `BudgetsAreBounded`,
`RequestsAreFinite`, `SessionsAssumption`, `TailorAssumption`,
`WordingsAssumption`, `ScoreAssumption`, `ValuesAssumption`,
`TypedFactAssumption`, `AsksAssumption`): ids are distinct from the null values,
the cap, budgets, times and scores are natural numbers, requests at a time are
finitely many, the original wording is sound, the flags are Boolean, prompts are
finitely many, and the answers, facts and drafts of forms are values that a field
can have. Seven theorems have a hypothesis of their own, and each is needed:

| Hypothesis | Theorems | Without it |
|---|---|---|
| one executor | `SoleExecutorKeepsThePromise`, `SoleExecutorClickIsApproved` | run `ExecutorPairClick` |
| the API process lives (`~MayCrash`) | `ConfirmedIsCompleteAlways`, `CoarseViewAlways` | a receipt without its link or follow-up (section 3, *Submitting*) |
| no merge of duplicates | `SubmittedStaysWithoutMerges` | run `TrackerMergedStatus` |
| one profile | `AppliedPostingIsKeptAlways`, `SoleProfileKeepsApplied` | run `WatchlistShared` |

* **ExecutorProtocolProofs, the server.** `ServerIInv` is the conjunction of
  three safety properties, the types and `ApprovalComesFirst`: every status from which a
  submission can be recorded lies behind an approval. Without it,
  `SubmittedRunIsBacked` is not inductive: a run in `needs_verification` may be
  recorded without a token. `MoveFacts` states what the transition table
  guarantees of any hop, and is all that the proofs use of it. `CapIInv` adds
  that only finitely many runs are of today; then the cap
  (`CountedRunsWithinCapAlways`) holds because only `Enqueue` adds to the count,
  below the cap, and a run that was cancelled never counts again.
* **ExecutorProtocolProofs, the executors.** `ProtocolImplementsServer`:
  whatever the executors do, the server sees its own requests, so the theorems above carry over.
  `ProtocolIInv` adds `OneSubmitter` (a click is to come only on a run that was
  not clicked, and no two executors are around the click of one run). A step of
  an executor is first reduced to its shape (`StepShape`): others keep their
  task, clicks happen only at `click`, the steps around the click are entered
  only by claiming an approved run. The invariant is then a matter of a few
  cases instead of eighteen actions. `ReceiptOnlyAfterAcceptanceAlways` rests on
  `SentIsAccepted`: a confirmation is on a page only after the employer took
  the form. With the hypothesis that there is **one executor**, which
  `ExecutorPairClick` shows to be needed, `SoleIInv` says that it works on a run
  nobody but the user moves, that a run polled as queued is still queued when it
  is claimed (so claiming it never spends an approval), and that the page of a
  run from review on was shown or is gone. Every step is then a hop of one run,
  a click or a restart, and each moves the gates as SubmissionGate allows
  (`SoleExecutorKeepsThePromise`, `SoleExecutorClickIsApproved`).
* **ApplicationTrackerProofs.** `TrackerIInv` adds to the types that the
  statuses behind the gate carry the approval's timestamp (`GateIsStamped`);
  `GateHops` is what is used of the transition table. Merging keeps it because
  the merged status and the merged timestamps come from the same set. The other
  theorems need what `transition_path` returns. It is a breadth-first search
  written as a recursive function over rounds; for the targets that handlers
  have, its rounds are computed one by one (`NearByRounds` and its uses), which
  is a finite calculation and no induction. `HandlerKnowsItsTarget` says where an
  advancing application can have got to, so that each hop goes up and only the
  user's own transition goes back (`OnlyTheUserReopensAlways`, crashes
  included). `ReceiptsAreFollowedUp` says what becomes of a receipt: its
  application is being confirmed, or is submitted with the link and the follow-up
  done or next. From it follow `ConfirmedIsCompleteAlways` and, as a receipt
  before the last hop does not show from outside (`CoarseReceipts`), that every
  step is a step of ApplyRuns or stutters (`CoarseViewAlways`).
* **ApplicationDocumentsProofs.** `DocumentsIInv` has, beside types, that rows
  are numbered from one on without gaps (`RowsOK`, which sorting by `updated_at`
  permutes), that copies and answers on their way are of rows and claim no
  approval that was not given (`CopyOK`, `ErrandOK`), that the panel's text is
  the row's unless the edit that made the difference was not seen
  (`PanelIsUpToDate`), and that approved rows and the files hold vetted texts.
  The latter are those the user approved or would have seen but for an answer
  that was lost or overtaken: `unseen` is exactly what the proof needs beyond what was
  approved.
* **TailorSessionsProofs, the budget.** `OverspendIsBounded`. A call begins only
  below the budget its request is bound to, and at that moment at most all requests are
  calling, one of them new; the end of a call moves one from `calling` to
  `usage` and leaves the sum. The rest is cardinalities of finite sets.
* **TailorSessionsProofs, the sessions.** Three inductive invariants of both
  flows together.
  `LocksIInv`: a request in flight points to an object that is still there, and
  whoever works is its holder; rehydration, second objects and the tailor
  refinement, which takes no lock, change no holder. `CopiesIInv`: in rows and
  in copies alike, the history explains the text (`Explained`), and the PDF of
  the last result is none, or is of the text or of a trial of the request that
  made it (`ApprovedPdfIsOfItsRequestAlways`). `AgesIInv`: while a session has one object,
  the object was accessed no longer ago than its row, so that cleaning the
  registry by one clock never takes a row that is fresh by the other
  (`FreshRowsStayAlways`). `TailorImplementsBudget` shows every step of both
  flows to be a step or a stutter of `BudgetSpec`, and so the bound holds of
  them.
* **ResumeOptimizerProofs.** `OptimizerIInv` is control and types together with
  `ReportIsOfTheResume` and soundness of what waits to be applied; each stage has
  one step in the proof. `OverflowIInv` says, stage by stage, by which excuse a
  result may still be longer than its page: at the end only those of
  `OverflowIsJustified` are left.
* **FormReviewProofs.** `AnswersIInv` is types, that saved answers are totally
  ordered by their last update (`OrderOK`; the server's `ORDER BY updated_at`
  picks the newest among those that match), and that what the user asked to
  remember is saved (`ToldIsSaved`). Then `RememberedAnswerIsUsed` is a matter of
  following the precedence of the resolution: among the exact matches, by prompt or
  by alias, the newest is the prompt's own or was updated after it. It is proved of the answers alone
  under all edits and, with the same lemmas, of a panel at work. `FormIInv`
  adds predicates on values, used of what is stored and of what a step is about
  to store alike: rows (`RowOK`: one-off answers that were drafted are grounded prose for a
  question that takes prose), plans (`Due`: every action is due for the scan
  it was made of), the task, the queue of drafts and the waiting rescans, which
  refer only to scans that are still there (`Stands`; a new scan gets
  an id that nobody holds, `NewIdIsNew`). `FillsAreDueAlways` reads off that
  each field a step writes was due while its form is on the page. The proof corrected the model twice (see
  section 3, *What the proofs found*).
* **AccountsProofs.** A token that ended never comes to life again
  (`EndedTokensAreDead`), a request is bound to its token's profile
  and is marked `late` once the profile is erased or the token ended under it
  (`BoundByToken`). What is served afterwards is either marked or arrived with
  another token. `ErasedStaysErased` needs that whatever could bring a profile
  back (tokens, selection, rows) goes in the one transaction.
* **WatchlistFeedProofs.** `FeedIInv` adds to types and `FeedHasItsEntry` what a
  refresh may rely on across its awaits: an entry it read is still there unless
  the refresh is marked as broken (`HeldEntryExists`), and it holds jobs only of
  boards that answered (`AnswersFit`). Hence a merge brings in nothing without
  an entry, and touches no board that failed. With one profile its prune spares
  what was applied for (`AppliedPostingIsKeptAlways`), and so does every refresh,
  step by step (`SoleProfileKeepsApplied`, the property that `WatchlistShared`
  refutes for two).

**Only model-checked:** liveness, as the prover has neither fairness nor
ENABLED: `ClaimedRunMovesOn`, `QueuedRunIsTaken`, `EveryRequestEnds`,
`PipelineEnds`, `DraftsSettle`, `ListedReachesFeed` and `TakenDownLeavesFeed`.
That they hold is known for the instances of section 3. Nor is it proved what
`transition_path` computes for any table (that needs induction over its rounds);
the theorems are about the table the code has. What the violation runs refute
has no theorem except under the hypotheses above; `GivenUpRunEnds` and
`ReceiptNamesWhatWasAttached` are refuted with one executor and one application,
and no hypothesis about how the program is deployed would save them.

## 6. What is abstracted

* Wording, screenshots, step logs, review summaries, notes: no guard of the
  modelled code reads them, with one exception (which of several duplicates is
  the richest), which is a free choice.
* The approval token is the fact that it exists and is presented: a run is
  approved at most once, so it has at most one token.
* In ApplyRuns the nine non-terminal application statuses are one (`open`), and
  `skipped` and `blocked` are one (`closed`, which a merge may prefer to `failed`
  or not, as they rank on both sides of it); `CoarseView` checks that this is a
  sound view of the real workflow.
* The order of a poll snapshot is left open, and so is the time an executor
  sleeps. A user who fills or submits by hand in the executor's window is not
  modelled.
* In ResumeSessions and TailorSessions a resume's text is whose text it started
  from and which requests edited it. A refinement's optional `latex_source` in
  the body is left out. The token budget is checked and recorded at the same
  places as the call budget.
* In ResumeOptimizer scores and lengths are constants of whole resumes, additive
  in the checked instance; a statement has one keyword phrase; the order among
  statements of prose is free; a compilation that fails and one that times out
  are one outcome; the failure of the skill plan changes nothing and is no
  stage; traces and run records are left out.
* In FormAnswers the label patterns are data of the questions; several values
  at once, uploads, duplicate labels of options, the merged option of race and
  ethnicity, and the limit of 32 aliases of an answer are left out.
* In FormReview the two requests of a rescan (scan, then plan) are one step, and
  a break between them is a case of `RescanFails`; the server computes an answer
  in the step in which it arrives; the user starts one task at a time; four
  statuses of a drafted field are one ("tried for this prompt"); one suggestion
  is kept; the observer's second reason to drop the plan, a job described too
  thinly (panel.js:1521-1527), is left out; research and the choice of providers are the outcome of a draft.
* In ApplicationDocuments a document is its text, the profile's resume does not
  change, approving acts on the saved text, readings started by the focus come
  one at a time, and a crash between writing a file and its row is left out.
  The panel's own approval of a resume cannot be reached (its preview is never
  set) and is left out.
* In Accounts one table stands for all that a profile owns; a password is right
  or not; ids that differ only in what file names cannot hold are not modelled;
  `PUT /profile` as a whole is left out.
* In WatchlistFeed a profile's preferences do not change, merged or deleted
  applications stay in `applied` (except with their profile's data), and
  following several boards at once is several steps. Jobs captured from a page
  by the extension have ids of their own and are left out.
* Several API processes on one database (the Streamlit UI opens it too) are not
  modelled: handlers of one process do not overlap except at awaits.

**Not modelled:** parsing, extraction and rendering character by character
(text processing; the pipeline sees only the outcomes that ResumeOptimizer has),
the HTTP side of the job sources and the scoring of jobs, the prompts of
`screening.py`, backends and retries of the model clients (outcomes), the web and
Streamlit UIs (views of the API), the extension's sign-in, bridge and scanning of
the DOM, benchmark, evaluation and tracing (offline).

## 7. Running

```
tlc -config ApplyRuns.cfg MCApplyRuns
tlc -config Refinements.cfg MCRefinements
tlc -config ServerRecords.cfg MCServerRecords
tlc -config ResumeFlows.cfg MCResumeFlows
tlapm TailorSessionsProofs.tla
tlapm FormReviewProofs.tla
```

and likewise for the other configurations and proof modules.
