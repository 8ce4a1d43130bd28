----------------------------- MODULE FormAnswers -----------------------------
(* What the server knows to answer a question of an application form with   *)
(* (form_resolution.py, option_matching.py, the profile_answers table): the *)
(* facts of the profile first, then the answers bank, then what is offered. *)
(*                                                                          *)
(* A question stands for its label and its control.  What the code reads    *)
(* out of the label by patterns is data of the question: its intent, the    *)
(* facts it names and the prompts it resembles.  A value is an answer or an *)
(* option; yes and no are also what a boolean fact holds.                   *)
EXTENDS Naturals, SequencesExt, FiniteSetsExt

CONSTANTS
    Asked,          \* the questions of all forms
    Facts,          \* the entries of the profile: <<group, key, record>>
    Holds,          \* [Facts -> SUBSET Values]: what an entry may be
    Profiles,       \* the profiles there may be at first
    Values,         \* answers and options
    Aliases,        \* [Values -> SUBSET Values]: _ALIASES
    Truth,          \* [Values -> {"yes", "no", "unclear"}]: what a value begins with
    Alike,          \* pairs of prompts: _custom_prompt_matches_label
    SameSkill,      \* pairs of prompts: a custom prompt and a question of one skill
    ClientIntents,  \* what an API client may say a saved answer is about
    Phrases,        \* and by which other prompts it may be found: its aliases
    CustomPrompts,  \* profile.custom_answers, in the order of the dictionary
    Track,          \* the employment track of the application's job
    Unknown,        \* no value
    None            \* no saved answer

Intents ==
    {"authorization", "current_sponsorship", "future_sponsorship", "sponsorship",
     "age", "completed_education", "compensation", "company_employment",
     "affiliate_employment", "relocation", "travel", "restrictive_agreement",
     "record_field", "narrative", "unknown"}

(* A question.  record: the kind of record it is about, or none; contact,   *)
(* direct: the keys that the label names of _is_plain_phone_question and    *)
(* its like, and of direct_fields; eeo: the key of equal_opportunity;       *)
(* flagged: the extension found it sensitive; named: its label has one of   *)
(* _SENSITIVE_PATTERNS.                                                     *)
QuestionTyped(q) ==
    /\ q.intent \in Intents
    /\ q.input \in {"text", "textarea", "select", "radio", "checkbox", "file"}
    /\ q.flagged \in BOOLEAN /\ q.named \in BOOLEAN /\ q.required \in BOOLEAN
    /\ q.offered \subseteq Values /\ q.direct \in Seq(STRING)
    /\ (q.named /\ q.record = "none") => q.intent = "unknown"
    /\ q.record # "none" => q.intent = "record_field"

Prompts == {q.prompt : q \in Asked}

ASSUME ValuesAssumption ==
    /\ ClientIntents \subseteq Intents
    /\ IsFiniteSet(Prompts) /\ CustomPrompts \in Seq(STRING)
    /\ Unknown \notin Values
    /\ None \notin Prompts \cup [value : Values, intent : Intents, aliases : SUBSET Phrases]
    /\ {"yes", "no"} \subseteq Values
    /\ \A v \in Values :
           Aliases[v] \subseteq Values /\ Truth[v] \in {"yes", "no", "unclear"}
    /\ \A f \in Facts : Holds[f] \subseteq Values
    /\ \A start \in Profiles :
           /\ start \in [Facts -> Values \cup {Unknown}]
           /\ \A f \in Facts : start[f] \in Holds[f] \cup {Unknown}
    /\ \A q \in Asked : QuestionTyped(q)

VARIABLES
    profile,    \* [Facts -> Values or Unknown]
    bank,       \* profile_answers: [Prompts -> answer or None]
    newer,      \* the pairs of saved answers, the one updated later first
    told        \* what the user last asked to remember for a prompt (history)

answerVars == <<profile, bank, newer, told>>

SavedAnswers == [value : Values, intent : Intents, aliases : SUBSET Phrases]

AnswersTypeOK ==
    /\ profile \in [Facts -> Values \cup {Unknown}]
    /\ \A f \in Facts : profile[f] \in Holds[f] \cup {Unknown}
    /\ bank \in [Prompts -> SavedAnswers \cup {None}]
    /\ newer \subseteq Prompts \X Prompts
    /\ told \in [Prompts -> Values \cup {Unknown}]

-----------------------------------------------------------------------------
(* What is offered.                                                         *)
IsChoice(q) == q.input \in {"select", "radio"} /\ q.offered # {}

(* The options that a value stands for: the label itself, else its aliases, *)
(* else, of a plain yes or no, the labels that begin with it.               *)
Candidates(v, offered) ==
    LET aliases == Aliases[v] \cap offered
        answers == {o \in offered : v \in {"yes", "no"} /\ Truth[o] = v}
    IN  IF v \in offered THEN {v} ELSE IF aliases # {} THEN aliases ELSE answers

Matched(v, offered) ==
    IF \E o \in offered : Candidates(v, offered) = {o}
    THEN CHOOSE o \in offered : Candidates(v, offered) = {o} ELSE Unknown

(* A checkbox is ticked or not whenever the value is clear about it.        *)
Written(q, v) ==
    CASE IsChoice(q) -> Matched(v, q.offered)
      [] q.input = "checkbox" /\ Truth[v] # "unclear" -> Truth[v]
      [] OTHER -> v

Skip == [value |-> Unknown, source |-> "none", saved |-> None]

Checked(q, a) ==
    IF a.value = Unknown \/ Written(q, a.value) = Unknown THEN Skip
    ELSE [a EXCEPT !.value = Written(q, a.value)]

-----------------------------------------------------------------------------
(* The profile.                                                             *)
Fact(group, key) == <<group, key, 0>>
Known(f) == IF f \in Facts THEN profile[f] ELSE Unknown

FirstKnown(answers) ==
    LET known == {i \in DOMAIN answers : answers[i] # Unknown}
    IN  IF known = {} THEN Unknown ELSE answers[Min(known)]

(* The boolean facts: where a question of the intent finds its answer, and  *)
(* where the answer goes when it is to be remembered.                       *)
TypedFact ==
    [age |-> Fact("application_facts", "is_at_least_18"),
     relocation |-> Fact("application_facts", "willing_to_relocate"),
     travel |-> Fact("application_facts", "willing_to_travel"),
     restrictive_agreement |->
         Fact("application_facts", "active_non_compete_or_non_solicit"),
     authorization |-> Fact("work_authorization", "authorized_to_work_in_us"),
     current_sponsorship |->
         Fact("work_authorization", "current_requires_sponsorship"),
     future_sponsorship |->
         Fact("work_authorization", "future_requires_sponsorship"),
     sponsorship |-> Fact("work_authorization", "requires_sponsorship")]

ASSUME TypedFactAssumption ==
    \A q \in Asked : q.intent \in DOMAIN TypedFact =>
        TypedFact[q.intent] \in Facts /\ Holds[TypedFact[q.intent]] = {"yes", "no"}

(* Sponsorship now or later, when both are known.                           *)
EitherSponsorship ==
    LET both == {Known(TypedFact["current_sponsorship"]),
                 Known(TypedFact["future_sponsorship"])}
    IN  IF Unknown \in both THEN Unknown ELSE IF "yes" \in both THEN "yes" ELSE "no"

SponsorshipAnswers ==
    <<EitherSponsorship, Known(TypedFact["sponsorship"]),
      Known(Fact("work_authorization", Track))>>

Resembles(p, prompt) == <<p, prompt>> \in Alike

CustomAnswersAmong(S) ==
    [i \in 1..Len(CustomPrompts) |->
        IF CustomPrompts[i] \in S
        THEN Known(Fact("custom_answers", CustomPrompts[i])) ELSE Unknown]
CustomAnswers(q) ==
    CustomAnswersAmong({p \in ToSet(CustomPrompts) : Resembles(p, q.prompt)})
SkillAnswers(q) ==
    CustomAnswersAmong({p \in ToSet(CustomPrompts) : <<p, q.prompt>> \in SameSkill})

(* _compensation_value: for this application before any, for the track      *)
(* before any.                                                              *)
CompensationAnswers(q) ==
    <<Known(Fact("compensation of the application", Track)),
      Known(Fact("compensation of the application", "any")),
      Known(Fact("compensation", Track)), Known(Fact("compensation", "any"))>>
    \o CustomAnswers(q)

EmploymentAnswers(q) == <<Known(Fact("company_relationship", q.intent))>>

(* Phone, location, country: only for labels that ask for nothing else.     *)
ContactAnswers(q) ==
    IF q.contact = "none" THEN <<>> ELSE <<Known(Fact("contact", q.contact))>>

(* The education or the job that the question is about; profile.education   *)
(* stands in for an education that is not listed.                           *)
RecordAnswers(q) ==
    LET listed == \E f \in Facts : f[1] = q.record /\ f[3] = q.index
    IN  IF q.record = "none" THEN <<>>
        ELSE <<Known(<<q.record, q.key, IF listed THEN q.index ELSE 0>>)>>

DirectAnswers(q) ==
    [i \in 1..Len(q.direct) |-> Known(Fact("direct_fields", q.direct[i]))]

(* A question about one skill takes no other answer than one about it.      *)
GeneralAnswers(q) ==
    IF q.skill THEN SkillAnswers(q)
    ELSE ContactAnswers(q) \o CustomAnswers(q) \o RecordAnswers(q)
         \o DirectAnswers(q)

ProfileAnswers(q) ==
    CASE q.intent = "sponsorship" -> SponsorshipAnswers
      [] q.intent = "compensation" -> CompensationAnswers(q)
      [] q.intent \in {"company_employment", "affiliate_employment"} ->
             EmploymentAnswers(q)
      [] q.intent = "completed_education" ->
             <<Known(Fact("education", "highest_completed"))>>
      [] q.intent = "restrictive_agreement" ->
             <<Known(TypedFact[q.intent])>> \o CustomAnswers(q)
      [] q.intent \in DOMAIN TypedFact \ {"sponsorship", "restrictive_agreement"} ->
             <<Known(TypedFact[q.intent])>>
      [] OTHER -> GeneralAnswers(q)

Sensitive(q) == q.flagged \/ q.named

(* Voluntary answers are given only by those who switched that on.          *)
EqualOpportunityAnswer(q) ==
    IF Known(Fact("equal_opportunity", "allow_autofill")) = "yes"
    THEN Known(Fact("equal_opportunity", q.eeo)) ELSE Unknown

Resolved(q) ==
    CASE Sensitive(q) -> EqualOpportunityAnswer(q)
      [] q.input = "file" -> Unknown
      [] OTHER -> FirstKnown(ProfileAnswers(q))

-----------------------------------------------------------------------------
(* The answers bank.                                                        *)
Saved == {p \in Prompts : bank[p] # None}
Latest(S) == CHOOSE p \in S : \A o \in S \ {p} : <<p, o>> \in newer

BankBarred(q) ==
    q.input = "file" \/ q.record # "none" \/ (q.named /\ q.intent = "unknown")

OfIntent(q) ==
    IF q.intent \in {"unknown", "narrative", "record_field"} THEN {}
    ELSE {p \in Saved : bank[p].intent = q.intent}
Keys(p) == {p} \cup bank[p].aliases
Exact(q) == {p \in Saved : q.prompt \in Keys(p)}
Resembling(q) == {p \in Saved : \E key \in Keys(p) : Resembles(key, q.prompt)}

(* Mutant: whichever answer matches in any way and was updated last.        *)
FirstMatch(q) ==
    LET any == Exact(q) \cup OfIntent(q) \cup Resembling(q)
    IN  IF any = {} THEN None ELSE Latest(any)
(* By the exact prompt or alias, then by the intent, then by the words: of  *)
(* those that match, the one updated last.                                  *)
Remembered(q) ==
    LET similar == IF OfIntent(q) # {} THEN OfIntent(q) ELSE Resembling(q)
        found == IF Exact(q) # {} THEN Exact(q) ELSE similar
    IN  IF found = {} THEN None ELSE Latest(found)

(* resolve_form_questions, for one question with an empty field.            *)
FromProfile(q, v) == Checked(q, [value |-> v, source |-> "profile", saved |-> None])
FromBank(q, p) ==
    IF p = None THEN Skip
    ELSE Checked(q, [value |-> bank[p].value, source |-> "saved_answer", saved |-> p])
Answer(q) ==
    LET resolved == Resolved(q)
    IN  IF resolved # Unknown THEN FromProfile(q, resolved)
        ELSE IF BankBarred(q) THEN Skip ELSE FromBank(q, Remembered(q))

-----------------------------------------------------------------------------
NeverRemembered(q) == Sensitive(q) \/ q.input = "file" \/ q.record # "none"

(* The answers of S were updated just now, in the order ranked: those of    *)
(* one request have the same time, and the database orders them as it likes: *)
(* any order of them, but an order.                                         *)
UpdatedLast(S, ranked) ==
    {pair \in newer : pair[1] \notin S /\ pair[2] \notin S}
        \cup (S \X (Saved \ S)) \cup ranked
Rankings(S) ==
    {ranked \in SUBSET (S \X S) :
        /\ \A a, b \in S :
               IF a = b THEN <<a, b>> \notin ranked
               ELSE <<a, b>> \in ranked <=> <<b, a>> \notin ranked
        /\ \A a, b, c \in S :
               <<a, b>> \in ranked /\ <<b, c>> \in ranked => <<a, c>> \in ranked}

(* upsert_profile_answer: one answer for a prompt, which keeps its aliases. *)
KnownAliases(p) == IF bank[p] = None THEN {} ELSE bank[p].aliases
Upsert(p, v, i, aliases) ==
    /\ bank' = [bank EXCEPT ![p] =
           [value |-> v, intent |-> i, aliases |-> KnownAliases(p) \cup aliases]]
    /\ newer' = UpdatedLast({p}, {})
    /\ told' = [told EXCEPT ![p] = v]
    /\ UNCHANGED profile

(* Mutant: what is neither yes nor no is written into a boolean fact.       *)
RememberUnclear(q, v) ==
    IF NeverRemembered(q) THEN UNCHANGED answerVars
    ELSE IF q.intent \in DOMAIN TypedFact
         THEN /\ profile' = [profile EXCEPT ![TypedFact[q.intent]] = Truth[v]]
              /\ told' = [told EXCEPT ![q.prompt] = Unknown]
              /\ UNCHANGED <<bank, newer>>
         ELSE Upsert(q.prompt, v, q.intent, {})
(* remember_answer, and the writes of _remember_overrides.                  *)
Remember(q, v) ==
    \/ NeverRemembered(q) /\ UNCHANGED answerVars
    \/ /\ ~NeverRemembered(q)
       /\ q.intent \in DOMAIN TypedFact /\ Truth[v] # "unclear"
       /\ profile' = [profile EXCEPT ![TypedFact[q.intent]] = Truth[v]]
       /\ told' = [told EXCEPT ![q.prompt] = Unknown]
       /\ UNCHANGED <<bank, newer>>
    \/ /\ ~NeverRemembered(q)
       /\ q.intent \notin DOMAIN TypedFact \/ Truth[v] = "unclear"
       /\ Upsert(q.prompt, v, q.intent, {})

(* record_profile_answer_usage: a used answer was updated now.              *)
UseAnswers(S) ==
    /\ \E ranked \in Rankings(S) : newer' = UpdatedLast(S, ranked)
    /\ UNCHANGED <<profile, bank, told>>

(* POST /profile/answers, with the intent and the aliases its client gives. *)
PutAnswer(p, v, i, aliases) == Upsert(p, v, i, aliases)

DeleteAnswer(p) ==
    /\ p \in Saved
    /\ bank' = [bank EXCEPT ![p] = None]
    /\ newer' = {pair \in newer : p \notin {pair[1], pair[2]}}
    /\ told' = [told EXCEPT ![p] = Unknown]
    /\ UNCHANGED profile

(* PUT /profile: the pages save the profile whole, so any fact may change,  *)
(* also back to what it was when the page was loaded.                       *)
SaveProfile(f, v) ==
    /\ v \in Holds[f] \cup {Unknown}
    /\ profile' = [profile EXCEPT ![f] = v]
    /\ UNCHANGED <<bank, newer, told>>

AnswersInit ==
    /\ profile \in Profiles
    /\ bank = [p \in Prompts |-> None]
    /\ newer = {}
    /\ told = [p \in Prompts |-> Unknown]

AnswersNext ==
    \/ \E q \in Asked, v \in Values : Remember(q, v)
    \/ \E S \in SUBSET Saved : UseAnswers(S)
    \/ \E p \in Prompts, v \in Values, i \in ClientIntents, aliases \in SUBSET Phrases :
           PutAnswer(p, v, i, aliases)
    \/ \E p \in Prompts : DeleteAnswer(p)
    \/ \E f \in Facts, v \in Values \cup {Unknown} : SaveProfile(f, v)

AnswersSpec == AnswersInit /\ [][AnswersNext]_answerVars

-----------------------------------------------------------------------------
(* The answer saved for p is due for q: it is q's own, or one that was      *)
(* updated later and has the prompt of q among its aliases.                 *)
IsDueFor(p, q) ==
    \/ p = q.prompt
    \/ p \in Saved /\ q.prompt \in bank[p].aliases /\ <<p, q.prompt>> \in newer

(* "Answer remembered.  Future forms with this question resolve             *)
(* automatically" (panel.js:2653): until the user deletes or replaces it,   *)
(* the answer to a prompt is what an empty field with that prompt gets,     *)
(* unless a fact of the profile answers the question, or the form does not  *)
(* offer the answer.  No answer to another prompt that was saved or used    *)
(* since comes before it, of the same intent or in like words, but one that *)
(* an API client has given this very prompt as an alias.                    *)
RememberedAnswerIsUsed ==
    \A q \in Asked :
        (told[q.prompt] # Unknown /\ ~NeverRemembered(q) /\ Resolved(q) = Unknown)
        => \E p \in Prompts :
               /\ IsDueFor(p, q)
               /\ p = q.prompt => bank[p].value = told[p]
               /\ Answer(q) = Checked(q, [value |-> bank[p].value,
                                          source |-> "saved_answer", saved |-> p])
=============================================================================
