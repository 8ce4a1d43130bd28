--------------------------- MODULE FormReviewProofs ---------------------------
(* Proofs about the answers bank and the panel at work on a form, for any   *)
(* questions, forms, profiles, answers and texts: a remembered answer is    *)
(* used, and what goes into a field is due.                                 *)
EXTENDS FormReview, FiniteSetTheorems, SequenceTheorems, WellFoundedInduction, TLAPS

-----------------------------------------------------------------------------
(* The answers.                                                             *)

(* Of two saved answers, one is the newer.                                  *)
OrderOK ==
    /\ newer \subseteq Saved \X Saved
    /\ \A a, b \in Saved : a # b => <<a, b>> \in newer \/ <<b, a>> \in newer
    /\ \A a, b \in Saved : <<a, b>> \in newer => <<b, a>> \notin newer
    /\ \A a, b, c \in Saved : <<a, b>> \in newer /\ <<b, c>> \in newer => <<a, c>> \in newer

(* What the user asked to remember is in the bank.                          *)
ToldIsSaved ==
    \A p \in Prompts : told[p] # Unknown => bank[p] # None /\ bank[p].value = told[p]

AnswersIInv == AnswersTypeOK /\ OrderOK /\ ToldIsSaved

Less == {p \in Nat \X Nat : p[1] < p[2]}

(* A set of numbers has a smallest one, and Min is it.                      *)
LEMMA MinIs ==
    ASSUME NEW S, S \subseteq Nat, S # {}
    PROVE  Min(S) \in S /\ \A s \in S : Min(S) <= s
<1>1. IsWellFoundedOn(Less, Nat)
  BY NatLessThanWellFounded, Zenon DEF OpToRel, Less
<1>2. PICK r \in S : \A s \in S : ~(<<s, r>> \in Less)
  BY <1>1, WFMin
<1>3. ASSUME NEW s \in S PROVE r <= s
  <2>1. <<s, r>>[1] = s /\ <<s, r>>[2] = r /\ s \in Nat /\ r \in Nat
    OBVIOUS
  <2>2. ~(s < r)
    <3>1. <<s, r>> \in Nat \X Nat
      BY <2>1
    <3> QED
      BY <1>2, <2>1, <3>1 DEF Less
  <2> QED
    BY <2>1, <2>2
<1> QED
  BY <1>3 DEF Min

(* Among finitely many numbers there is a largest.                          *)
LEMMA LargestExists ==
    ASSUME NEW n \in Nat, NEW S, S \subseteq 0..n, S # {}
    PROVE  \E r \in S : \A s \in S : s <= r
<1> DEFINE rest == {n - s : s \in S}
<1>1. rest \subseteq Nat /\ rest # {}
  <2>1. \A s \in S : n - s \in Nat
    OBVIOUS
  <2> QED
    BY <2>1
<1>2. Min(rest) \in rest /\ \A s \in rest : Min(rest) <= s
  <2> HIDE DEF rest
  <2> QED
    BY <1>1, MinIs
<1>3. PICK r \in S : Min(rest) = n - r
  BY <1>2
<1>4. ASSUME NEW s \in S PROVE s <= r
  <2>1. n - s \in rest /\ s \in 0..n /\ r \in 0..n
    OBVIOUS
  <2>2. n - r <= n - s
    BY <1>2, <1>3, <2>1
  <2> QED
    BY <2>1, <2>2
<1> QED
  BY <1>4

(* Of saved answers, Latest is one, newer than the others.  It is the one newer than most others:  *)
(* an answer newer than it would be newer than those, and than it.          *)
LEMMA LatestIs ==
    ASSUME OrderOK, Saved \subseteq Prompts, NEW S, S \subseteq Saved, S # {}
    PROVE  Latest(S) \in S /\ \A o \in S \ {Latest(S)} : <<Latest(S), o>> \in newer
<1> DEFINE Older(p) == {o \in S : <<p, o>> \in newer}
           counts == {Cardinality(Older(p)) : p \in S}
<1>1. IsFiniteSet(S)
  BY ValuesAssumption, FS_Subset
<1>2. Cardinality(S) \in Nat
  BY <1>1, FS_CardinalityType
<1>3. ASSUME NEW p \in S
      PROVE  /\ IsFiniteSet(Older(p)) /\ Cardinality(Older(p)) \in Nat
             /\ Cardinality(Older(p)) <= Cardinality(S)
  <2>1. Older(p) \in SUBSET S
    OBVIOUS
  <2> HIDE DEF Older
  <2> QED
    BY <1>1, <2>1, FS_Subset, FS_CardinalityType
<1>4. counts \subseteq 0..Cardinality(S) /\ counts # {}
  <2>1. \A p \in S : Cardinality(Older(p)) \in 0..Cardinality(S)
    BY <1>2, <1>3
  <2> HIDE DEF Older
  <2> QED
    BY <2>1
<1>5. PICK most \in counts : \A c \in counts : c <= most
  <2> HIDE DEF counts
  <2> QED
    BY <1>2, <1>4, LargestExists
<1>6. PICK p \in S : most = Cardinality(Older(p))
  OBVIOUS
<1>7. ASSUME NEW o \in S \ {p}, <<p, o>> \notin newer
      PROVE  FALSE
  <2>1. <<o, p>> \in newer
    BY <1>7 DEF OrderOK
  <2>2. p \notin Older(p) /\ Older(p) \cup {p} \subseteq Older(o)
    BY <2>1 DEF OrderOK
  <2>3. Cardinality(Older(o)) <= Cardinality(Older(p))
    <3>1. Cardinality(Older(o)) \in counts
      OBVIOUS
    <3> HIDE DEF counts, Older
    <3> QED
      BY <1>5, <1>6, <3>1
  <2> HIDE DEF Older
  <2>4. Cardinality(Older(p) \cup {p}) = Cardinality(Older(p)) + 1
    BY <1>3, <2>2, FS_AddElement
  <2>5. Cardinality(Older(p) \cup {p}) <= Cardinality(Older(o))
    BY <1>3, <2>2, FS_Subset
  <2> QED
    BY <1>3, <2>3, <2>4, <2>5
<1>8. \A o \in S \ {p} : <<p, o>> \in newer
  BY <1>7
<1> QED
  BY <1>8, Zenon DEF Latest

-----------------------------------------------------------------------------
(* What a question gets.                                                    *)

MaybeValues == Values \cup {Unknown}

(* Every question is typed.                                                 *)
LEMMA QuestionIs ==
    ASSUME NEW q \in Asked
    PROVE  QuestionTyped(q)
BY ValuesAssumption

(* What the profile says is a value, or nothing.                            *)
LEMMA KnownTyped ==
    AnswersTypeOK => \A f : Known(f) \in MaybeValues
BY ValuesAssumption DEF AnswersTypeOK, Known, MaybeValues

(* A sequence of one.                                                       *)
LEMMA OneKnown ==
    AnswersTypeOK => \A f : <<Known(f)>> \in Seq(MaybeValues)
<1> SUFFICES ASSUME AnswersTypeOK, NEW f PROVE <<Known(f)>> \in Seq(MaybeValues)
  OBVIOUS
<1>1. Known(f) \in MaybeValues
  BY KnownTyped
<1> QED
  BY <1>1

(* The first of the answers that is known is one of them.                   *)
LEMMA FirstKnownTyped ==
    ASSUME NEW answers \in Seq(MaybeValues)
    PROVE  FirstKnown(answers) \in MaybeValues
<1> DEFINE known == {i \in DOMAIN answers : answers[i] # Unknown}
<1>1. CASE known = {}
  BY <1>1 DEF FirstKnown, MaybeValues
<1>2. CASE known # {}
  <2>1. DOMAIN answers = 1..Len(answers) /\ Len(answers) \in Nat
    BY LenProperties
  <2>2. known \subseteq Nat
    BY <2>1
  <2>3. Min(known) \in known
    <3> HIDE DEF known
    <3> QED
      BY <1>2, <2>2, MinIs
  <2>4. FirstKnown(answers) = answers[Min(known)]
    BY <1>2, Zenon DEF FirstKnown
  <2>5. Min(known) \in 1..Len(answers)
    BY <2>1, <2>3
  <2> HIDE DEF known
  <2> QED
    BY <2>1, <2>4, <2>5, ElementOfSeq
<1> QED
  BY <1>1, <1>2

(* The custom answers are as many as the custom prompts.                    *)
LEMMA CustomTyped ==
    ASSUME AnswersTypeOK, NEW S
    PROVE  CustomAnswersAmong(S) \in Seq(MaybeValues)
<1>1. Len(CustomPrompts) \in Nat
  BY ValuesAssumption, LenProperties
<1>2. CustomAnswersAmong(S) \in [1..Len(CustomPrompts) -> MaybeValues]
  BY <1>1, KnownTyped DEF CustomAnswersAmong, MaybeValues
<1> QED
  BY <1>1, <1>2

LEMMA GeneralTyped ==
    ASSUME AnswersTypeOK, NEW q \in Asked
    PROVE  GeneralAnswers(q) \in Seq(MaybeValues)
<1>1. ContactAnswers(q) \in Seq(MaybeValues)
  <2>1. <<Known(Fact("contact", q.contact))>> \in Seq(MaybeValues) /\ <<>> \in Seq(MaybeValues)
    BY OneKnown
  <2> QED
    BY <2>1 DEF ContactAnswers
<1>2. CustomAnswers(q) \in Seq(MaybeValues) /\ SkillAnswers(q) \in Seq(MaybeValues)
  BY CustomTyped DEF CustomAnswers, SkillAnswers
<1>3. RecordAnswers(q) \in Seq(MaybeValues)
  <2> DEFINE f == <<q.record, q.key, IF \E g \in Facts : g[1] = q.record /\ g[3] = q.index
                                     THEN q.index ELSE 0>>
  <2>1. <<Known(f)>> \in Seq(MaybeValues) /\ <<>> \in Seq(MaybeValues)
    BY OneKnown
  <2>2. RecordAnswers(q) = IF q.record = "none" THEN <<>> ELSE <<Known(f)>>
    BY DEF RecordAnswers
  <2> HIDE DEF f
  <2> QED
    BY <2>1, <2>2
<1>4. DirectAnswers(q) \in Seq(MaybeValues)
  <2>1. Len(q.direct) \in Nat
    BY QuestionIs, LenProperties DEF QuestionTyped
  <2>2. DirectAnswers(q) \in [1..Len(q.direct) -> MaybeValues]
    BY <2>1, KnownTyped DEF DirectAnswers
  <2> QED
    BY <2>1, <2>2
<1> QED
  BY <1>1, <1>2, <1>3, <1>4, ConcatProperties DEF GeneralAnswers

LEMMA ProfileAnswersTyped ==
    ASSUME AnswersTypeOK, NEW q \in Asked
    PROVE  ProfileAnswers(q) \in Seq(MaybeValues)
<1>1. SponsorshipAnswers \in Seq(MaybeValues)
  <2>1. EitherSponsorship \in MaybeValues
    BY ValuesAssumption DEF EitherSponsorship, MaybeValues
  <2>2. Known(TypedFact["sponsorship"]) \in MaybeValues
        /\ Known(Fact("work_authorization", Track)) \in MaybeValues
    BY KnownTyped
  <2> QED
    BY <2>1, <2>2 DEF SponsorshipAnswers
<1>2. CustomAnswers(q) \in Seq(MaybeValues)
  BY CustomTyped DEF CustomAnswers
<1>3. CompensationAnswers(q) \in Seq(MaybeValues)
  <2>1. /\ Known(Fact("compensation of the application", Track)) \in MaybeValues
        /\ Known(Fact("compensation of the application", "any")) \in MaybeValues
        /\ Known(Fact("compensation", Track)) \in MaybeValues
        /\ Known(Fact("compensation", "any")) \in MaybeValues
    <3>1. \A f : Known(f) \in MaybeValues
      BY KnownTyped
    <3> QED
      BY <3>1, Zenon
  <2> DEFINE first == <<Known(Fact("compensation of the application", Track)),
                        Known(Fact("compensation of the application", "any")),
                        Known(Fact("compensation", Track)), Known(Fact("compensation", "any"))>>
  <2>2. first \in Seq(MaybeValues)
    <3>1. \A a, b, c, d \in MaybeValues : <<a, b, c, d>> \in Seq(MaybeValues)
      OBVIOUS
    <3> QED
      BY <2>1, <3>1, Zenon
  <2>3. CompensationAnswers(q) = first \o CustomAnswers(q)
    BY DEF CompensationAnswers
  <2> HIDE DEF first
  <2> QED
    BY <1>2, <2>2, <2>3, ConcatProperties
<1>4. EmploymentAnswers(q) \in Seq(MaybeValues)
  BY OneKnown DEF EmploymentAnswers
<1>5. <<Known(Fact("education", "highest_completed"))>> \in Seq(MaybeValues)
  BY OneKnown
<1>6. <<Known(TypedFact[q.intent])>> \in Seq(MaybeValues)
  BY OneKnown
<1>7. <<Known(TypedFact[q.intent])>> \o CustomAnswers(q) \in Seq(MaybeValues)
  BY <1>2, <1>6, ConcatProperties
<1>8. GeneralAnswers(q) \in Seq(MaybeValues)
  BY GeneralTyped
<1> QED
  BY <1>1, <1>3, <1>4, <1>5, <1>6, <1>7, <1>8, Zenon DEF ProfileAnswers

LEMMA ResolvedTyped ==
    ASSUME AnswersTypeOK, NEW q \in Asked
    PROVE  Resolved(q) \in MaybeValues
<1>1. EqualOpportunityAnswer(q) \in MaybeValues
  BY KnownTyped DEF EqualOpportunityAnswer, MaybeValues
<1>2. FirstKnown(ProfileAnswers(q)) \in MaybeValues
  BY ProfileAnswersTyped, FirstKnownTyped
<1>3. Unknown \in MaybeValues
  BY DEF MaybeValues
<1> QED
  BY <1>1, <1>2, <1>3, Zenon DEF Resolved

(* What a control takes of a value is a value, or nothing.                  *)
LEMMA WrittenTyped ==
    ASSUME NEW q \in Asked, NEW v \in Values
    PROVE  Written(q, v) \in MaybeValues
<1>1. Matched(v, q.offered) \in MaybeValues
  <2>1. q.offered \subseteq Values
    BY QuestionIs DEF QuestionTyped
  <2> QED
    BY <2>1 DEF Matched, MaybeValues
<1>2. q.input = "checkbox" /\ Truth[v] # "unclear" => Truth[v] \in MaybeValues
  BY ValuesAssumption DEF MaybeValues
<1>3. v \in MaybeValues
  BY DEF MaybeValues
<1> QED
  BY <1>1, <1>2, <1>3 DEF Written

(* What is checked keeps its source, or is skipped.                         *)
LEMMA CheckedIs ==
    ASSUME NEW q \in Asked, NEW a \in Actions
    PROVE  /\ Checked(q, a) \in Actions
           /\ \/ Checked(q, a) = Skip
              \/ /\ a.value \in Values /\ Checked(q, a).value = Written(q, a.value)
                 /\ Checked(q, a).source = a.source /\ Checked(q, a).saved = a.saved
<1>1. CASE a.value = Unknown \/ Written(q, a.value) = Unknown
  BY <1>1 DEF Checked, Skip, Actions
<1>2. CASE ~(a.value = Unknown \/ Written(q, a.value) = Unknown)
  <2>1. a.value \in Values /\ a.saved \in Prompts \cup {None}
    BY <1>2 DEF Actions
  <2>2. Written(q, a.value) \in Values \cup {Unknown}
    BY <2>1, WrittenTyped DEF MaybeValues
  <2>3. Checked(q, a) = [a EXCEPT !.value = Written(q, a.value)]
    BY <1>2 DEF Checked
  <2> QED
    BY <2>1, <2>2, <2>3 DEF Actions
<1> QED
  BY <1>1, <1>2

(* A remembered answer is a saved one.                                      *)
LEMMA RememberedIs ==
    ASSUME AnswersTypeOK, OrderOK, NEW q \in Asked
    PROVE  Remembered(q) \in Saved \cup {None}
<1>1. /\ Saved \subseteq Prompts /\ OfIntent(q) \subseteq Saved
      /\ Resembling(q) \subseteq Saved /\ Exact(q) \subseteq Saved
  BY DEF Saved, OfIntent, Resembling, Exact
<1> DEFINE similar == IF OfIntent(q) # {} THEN OfIntent(q) ELSE Resembling(q)
           found == IF Exact(q) # {} THEN Exact(q) ELSE similar
<1>2. found \subseteq Saved
  BY <1>1
<1>3. found # {} => Latest(found) \in found
  <2> HIDE DEF found
  <2> QED
    BY <1>1, <1>2, LatestIs
<1>4. Remembered(q) = IF found = {} THEN None ELSE Latest(found)
  BY DEF Remembered
<1> HIDE DEF found
<1> QED
  BY <1>2, <1>3, <1>4

(* An answer is one of the profile or of the bank, and of the bank only for *)
(* questions that it is not barred from.                                    *)
LEMMA AnswerIs ==
    ASSUME AnswersTypeOK, OrderOK, NEW q \in Asked
    PROVE  /\ Answer(q) \in Actions
           /\ Answer(q).source \in {"none", "profile", "saved_answer"}
           /\ Answer(q).source = "saved_answer" => ~q.named
           /\ Answer(q).saved \in Saved \cup {None}
<1>1. CASE Resolved(q) # Unknown
  <2> DEFINE a == [value |-> Resolved(q), source |-> "profile", saved |-> None]
  <2>1. a \in Actions
    BY ResolvedTyped DEF Actions, MaybeValues
  <2>2. Answer(q) = Checked(q, a)
    BY <1>1 DEF Answer, FromProfile
  <2>3. a.source = "profile" /\ a.saved = None
    OBVIOUS
  <2> HIDE DEF a
  <2> QED
    BY <2>1, <2>2, <2>3, CheckedIs DEF Skip
<1>2. CASE Resolved(q) = Unknown /\ (BankBarred(q) \/ Remembered(q) = None)
  BY <1>2 DEF Answer, FromBank, Skip, Actions
<1>3. CASE Resolved(q) = Unknown /\ ~BankBarred(q) /\ Remembered(q) # None
  <2> DEFINE p == Remembered(q)
             a == [value |-> bank[p].value, source |-> "saved_answer", saved |-> p]
  <2>1. p \in Saved
    BY <1>3, RememberedIs
  <2>2. p \in Prompts /\ bank[p] \in SavedAnswers
    BY <2>1 DEF Saved, AnswersTypeOK
  <2>3. a \in Actions
    BY <2>2 DEF Actions, SavedAnswers
  <2>4. Answer(q) = Checked(q, a)
    BY <1>3 DEF Answer, FromBank
  <2>5. ~q.named
    BY <1>3, QuestionIs DEF BankBarred, QuestionTyped
  <2>6. a.source = "saved_answer" /\ a.saved = p
    OBVIOUS
  <2> HIDE DEF a, p
  <2> QED
    BY <2>1, <2>3, <2>4, <2>5, <2>6, CheckedIs DEF Skip
<1> QED
  BY <1>1, <1>2, <1>3

-----------------------------------------------------------------------------
(* The answers bank keeps its invariant.                                    *)

(* What is newer than what, once the answers of S were updated.             *)
LEMMA UpdatedLastIs ==
    ASSUME OrderOK, NEW S, NEW ranked, ranked \subseteq S \X S
    PROVE  /\ \A a, b : <<a, b>> \in UpdatedLast(S, ranked) <=>
                 \/ a \notin S /\ b \notin S /\ <<a, b>> \in newer
                 \/ a \in S /\ b \in Saved \ S
                 \/ <<a, b>> \in ranked
           /\ UpdatedLast(S, ranked) \subseteq (Saved \cup S) \X (Saved \cup S)
<1>1. ASSUME NEW a, NEW b
      PROVE  <<a, b>> \in UpdatedLast(S, ranked) <=>
                 \/ a \notin S /\ b \notin S /\ <<a, b>> \in newer
                 \/ a \in S /\ b \in Saved \ S
                 \/ <<a, b>> \in ranked
  BY DEF UpdatedLast
<1>2. UpdatedLast(S, ranked) \subseteq (Saved \cup S) \X (Saved \cup S)
  BY DEF UpdatedLast, OrderOK
<1> QED
  BY <1>1, <1>2

(* An order, if those of S were ordered.                                    *)
LEMMA UpdatedLastIsOrder ==
    ASSUME OrderOK, NEW S, NEW ranked \in Rankings(S), Saved' = Saved \cup S,
           newer' = UpdatedLast(S, ranked)
    PROVE  OrderOK'
<1>1. ranked \subseteq S \X S
  BY DEF Rankings
<1>2. /\ \A a, b : <<a, b>> \in newer' <=>
             \/ a \notin S /\ b \notin S /\ <<a, b>> \in newer
             \/ a \in S /\ b \in Saved \ S
             \/ <<a, b>> \in ranked
      /\ newer' \subseteq Saved' \X Saved'
  BY <1>1, UpdatedLastIs
<1>3. /\ \A a, b : <<a, b>> \in ranked => a \in S /\ b \in S
      /\ \A a, b \in S : IF a = b THEN <<a, b>> \notin ranked
                         ELSE <<a, b>> \in ranked <=> <<b, a>> \notin ranked
      /\ \A a, b, c \in S : <<a, b>> \in ranked /\ <<b, c>> \in ranked => <<a, c>> \in ranked
  BY <1>1 DEF Rankings
<1>4. ASSUME NEW a \in Saved', NEW b \in Saved', a # b
      PROVE  <<a, b>> \in newer' \/ <<b, a>> \in newer'
  BY <1>2, <1>3, <1>4 DEF OrderOK
<1>5. ASSUME NEW a \in Saved', NEW b \in Saved', <<a, b>> \in newer'
      PROVE  <<b, a>> \notin newer'
  BY <1>2, <1>3, <1>5 DEF OrderOK
<1>6. ASSUME NEW a \in Saved', NEW b \in Saved', NEW c \in Saved',
             <<a, b>> \in newer', <<b, c>> \in newer'
      PROVE  <<a, c>> \in newer'
  BY <1>2, <1>3, <1>6 DEF OrderOK
<1> QED
  BY <1>2, <1>4, <1>5, <1>6 DEF OrderOK

(* upsert_profile_answer                                                    *)
LEMMA UpsertKeepsIInv ==
    ASSUME AnswersIInv, NEW p \in Prompts, NEW v \in Values, NEW i \in Intents,
           NEW aliases \in SUBSET Phrases, Upsert(p, v, i, aliases)
    PROVE  AnswersIInv'
<1> DEFINE saved == [value |-> v, intent |-> i, aliases |-> KnownAliases(p) \cup aliases]
<1>1. /\ bank' = [bank EXCEPT ![p] = saved]
      /\ newer' = UpdatedLast({p}, {}) /\ told' = [told EXCEPT ![p] = v]
      /\ profile' = profile
  BY DEF Upsert
<1>2. bank \in [Prompts -> SavedAnswers \cup {None}] /\ told \in [Prompts -> Values \cup {Unknown}]
  BY DEF AnswersIInv, AnswersTypeOK
<1>3. saved # None /\ saved \in SavedAnswers /\ saved.value = v
  <2>1. KnownAliases(p) \in SUBSET Phrases
    BY <1>2 DEF KnownAliases, SavedAnswers
  <2> QED
    BY <2>1, ValuesAssumption DEF SavedAnswers
<1> HIDE DEF saved
<1>4. Saved' = Saved \cup {p}
  BY <1>1, <1>2, <1>3 DEF Saved
<1>5. {} \in Rankings({p})
  BY DEF Rankings
<1>6. OrderOK'
  BY <1>1, <1>4, <1>5, UpdatedLastIsOrder DEF AnswersIInv
<1>7. newer' \subseteq Prompts \X Prompts
  BY <1>6 DEF OrderOK, Saved
<1>8. AnswersTypeOK'
  BY <1>1, <1>2, <1>3, <1>7 DEF AnswersIInv, AnswersTypeOK
<1>9. ToldIsSaved'
  BY <1>1, <1>2, <1>3 DEF AnswersIInv, ToldIsSaved
<1> QED
  BY <1>6, <1>8, <1>9 DEF AnswersIInv

(* A boolean fact takes yes or no.                                          *)
LEMMA RememberKeepsIInv ==
    ASSUME AnswersIInv, NEW q \in Asked, NEW v \in Values, Remember(q, v)
    PROVE  AnswersIInv'
<1>1. q.prompt \in Prompts /\ q.intent \in Intents
  BY QuestionIs DEF QuestionTyped, Prompts
<1>2. CASE UNCHANGED answerVars
  BY <1>2 DEF AnswersIInv, AnswersTypeOK, OrderOK, ToldIsSaved, Saved, answerVars
<1>3. CASE Upsert(q.prompt, v, q.intent, {})
  BY <1>1, <1>3, UpsertKeepsIInv
<1>4. CASE /\ q.intent \in DOMAIN TypedFact /\ Truth[v] # "unclear"
           /\ profile' = [profile EXCEPT ![TypedFact[q.intent]] = Truth[v]]
           /\ told' = [told EXCEPT ![q.prompt] = Unknown]
           /\ UNCHANGED <<bank, newer>>
  <2>1. /\ TypedFact[q.intent] \in Facts /\ Holds[TypedFact[q.intent]] = {"yes", "no"}
        /\ Truth[v] \in {"yes", "no"} /\ Truth[v] \in Values
    BY <1>4, TypedFactAssumption, ValuesAssumption
  <2> DEFINE fact == TypedFact[q.intent]
  <2>2. profile' = [profile EXCEPT ![fact] = Truth[v]]
    BY <1>4
  <2>3. fact \in Facts /\ Holds[fact] = {"yes", "no"}
    BY <2>1
  <2> HIDE DEF fact
  <2>4. /\ profile' \in [Facts -> Values \cup {Unknown}]
        /\ \A f \in Facts : profile'[f] \in Holds[f] \cup {Unknown}
    BY <2>1, <2>2, <2>3 DEF AnswersIInv, AnswersTypeOK
  <2>5. AnswersTypeOK'
    BY <1>1, <1>4, <2>4 DEF AnswersIInv, AnswersTypeOK
  <2>6. OrderOK'
    BY <1>4 DEF AnswersIInv, OrderOK, Saved
  <2>7. ToldIsSaved'
    BY <1>1, <1>4 DEF AnswersIInv, AnswersTypeOK, ToldIsSaved
  <2> QED
    BY <2>5, <2>6, <2>7 DEF AnswersIInv
<1> QED
  BY <1>2, <1>3, <1>4 DEF Remember

(* record_profile_answer_usage changes the order only.                      *)
LEMMA UseKeepsIInv ==
    ASSUME AnswersIInv, NEW S, S \subseteq Saved, UseAnswers(S)
    PROVE  AnswersIInv'
<1>1. PICK ranked \in Rankings(S) : newer' = UpdatedLast(S, ranked)
  BY DEF UseAnswers
<1>2. UNCHANGED <<profile, bank, told>>
  BY DEF UseAnswers
<1>3. Saved' = Saved \cup S
  BY <1>2 DEF Saved
<1>4. OrderOK'
  BY <1>1, <1>3, UpdatedLastIsOrder DEF AnswersIInv
<1>5. newer' \subseteq Prompts \X Prompts
  BY <1>4 DEF OrderOK, Saved
<1> QED
  BY <1>2, <1>4, <1>5 DEF AnswersIInv, AnswersTypeOK, ToldIsSaved

LEMMA DeleteKeepsIInv ==
    ASSUME AnswersIInv, NEW p \in Prompts, DeleteAnswer(p)
    PROVE  AnswersIInv'
<1>1. /\ bank' = [bank EXCEPT ![p] = None] /\ told' = [told EXCEPT ![p] = Unknown]
      /\ newer' = {pair \in newer : p \notin {pair[1], pair[2]}} /\ profile' = profile
  BY DEF DeleteAnswer
<1>2. Saved' = Saved \ {p}
  BY <1>1 DEF AnswersIInv, AnswersTypeOK, Saved
<1>3. \A a, b : <<a, b>> \in newer' <=> <<a, b>> \in newer /\ a # p /\ b # p
  BY <1>1
<1>4. newer' \subseteq Saved' \X Saved' /\ newer' \subseteq newer
  BY <1>1, <1>2 DEF AnswersIInv, OrderOK
<1>5. OrderOK'
  BY <1>2, <1>3, <1>4 DEF AnswersIInv, OrderOK
<1>6. AnswersTypeOK'
  BY <1>1, <1>4 DEF AnswersIInv, AnswersTypeOK
<1>7. ToldIsSaved'
  BY <1>1 DEF AnswersIInv, AnswersTypeOK, ToldIsSaved
<1> QED
  BY <1>5, <1>6, <1>7 DEF AnswersIInv

LEMMA SaveProfileKeepsIInv ==
    ASSUME AnswersIInv, NEW f \in Facts, NEW v \in Values \cup {Unknown}, SaveProfile(f, v)
    PROVE  AnswersIInv'
<1>1. AnswersTypeOK'
  BY DEF AnswersIInv, AnswersTypeOK, SaveProfile
<1> QED
  BY <1>1 DEF AnswersIInv, OrderOK, ToldIsSaved, Saved, SaveProfile

LEMMA AnswersStutter ==
    ASSUME AnswersIInv, UNCHANGED answerVars
    PROVE  AnswersIInv'
BY DEF AnswersIInv, AnswersTypeOK, OrderOK, ToldIsSaved, Saved, answerVars

LEMMA AnswersInitially ==
    AnswersInit => AnswersIInv
<1> SUFFICES ASSUME AnswersInit PROVE AnswersIInv
  OBVIOUS
<1>1. Saved = {}
  BY DEF AnswersInit, Saved
<1>2. profile \in [Facts -> Values \cup {Unknown}]
      /\ \A f \in Facts : profile[f] \in Holds[f] \cup {Unknown}
  BY ValuesAssumption DEF AnswersInit
<1>3. AnswersTypeOK
  BY <1>2 DEF AnswersInit, AnswersTypeOK
<1> QED
  BY <1>1, <1>3 DEF AnswersInit, AnswersIInv, OrderOK, ToldIsSaved

(* Every edit of the answers keeps their invariant.                         *)
LEMMA AnswersStep ==
    AnswersIInv /\ [AnswersNext]_answerVars => AnswersIInv'
<1> SUFFICES ASSUME AnswersIInv, [AnswersNext]_answerVars
             PROVE  AnswersIInv'
  OBVIOUS
<1>1. ASSUME NEW q \in Asked, NEW v \in Values, Remember(q, v) PROVE AnswersIInv'
  BY <1>1, RememberKeepsIInv
<1>2. ASSUME NEW S \in SUBSET Saved, UseAnswers(S) PROVE AnswersIInv'
  BY <1>2, UseKeepsIInv
<1>3. ASSUME NEW p \in Prompts, NEW v \in Values, NEW i \in ClientIntents,
             NEW aliases \in SUBSET Phrases, PutAnswer(p, v, i, aliases)
      PROVE  AnswersIInv'
  BY <1>3, UpsertKeepsIInv, ValuesAssumption DEF PutAnswer
<1>4. ASSUME NEW p \in Prompts, DeleteAnswer(p) PROVE AnswersIInv'
  BY <1>4, DeleteKeepsIInv
<1>5. ASSUME NEW f \in Facts, NEW v \in Values \cup {Unknown}, SaveProfile(f, v)
      PROVE  AnswersIInv'
  BY <1>5, SaveProfileKeepsIInv
<1>6. CASE UNCHANGED answerVars
  BY <1>6, AnswersStutter
<1> QED
  BY <1>1, <1>2, <1>3, <1>4, <1>5, <1>6 DEF AnswersNext

(* A prompt that is in the bank is found before anything alike: itself, or  *)
(* what was updated later and has it among its aliases.                     *)
LEMMA ToldIsUsed ==
    AnswersIInv => RememberedAnswerIsUsed
<1> SUFFICES ASSUME AnswersIInv, NEW q \in Asked, told[q.prompt] # Unknown,
                    ~NeverRemembered(q), Resolved(q) = Unknown
             PROVE  \E p \in Prompts :
                        /\ IsDueFor(p, q)
                        /\ p = q.prompt => bank[p].value = told[p]
                        /\ Answer(q) = Checked(q, [value |-> bank[p].value,
                                                   source |-> "saved_answer", saved |-> p])
  BY DEF RememberedAnswerIsUsed
<1>1. q.prompt \in Prompts
  BY DEF Prompts
<1>2. bank[q.prompt] # None /\ bank[q.prompt].value = told[q.prompt]
  BY <1>1 DEF AnswersIInv, ToldIsSaved
<1> DEFINE p == Latest(Exact(q))
<1>3. q.prompt \in Exact(q) /\ Exact(q) \subseteq Saved /\ Saved \subseteq Prompts
  BY <1>1, <1>2 DEF Exact, Keys, Saved
<1>4. p \in Exact(q) /\ \A o \in Exact(q) \ {p} : <<p, o>> \in newer
  BY <1>3, LatestIs DEF AnswersIInv
<1>5. Remembered(q) = p /\ p \in Prompts /\ p # None
  BY <1>3, <1>4, ValuesAssumption DEF Remembered
<1>6. IsDueFor(p, q)
  <2>1. p \in Saved /\ q.prompt \in {p} \cup bank[p].aliases
    BY <1>4, Zenon DEF Exact, Keys
  <2>2. p = q.prompt \/ <<p, q.prompt>> \in newer
    BY <1>3, <1>4
  <2> HIDE DEF p
  <2> QED
    BY <2>1, <2>2 DEF IsDueFor
<1>7. ~BankBarred(q)
  BY DEF NeverRemembered, BankBarred, Sensitive
<1> HIDE DEF p
<1>8. Answer(q) = Checked(q, [value |-> bank[p].value, source |-> "saved_answer", saved |-> p])
  BY <1>5, <1>7 DEF Answer, FromBank
<1> QED
  BY <1>2, <1>5, <1>6, <1>8

(* remember_answer, resolve_form_questions: for any questions, profiles and *)
(* answers, what the user asked to remember for a prompt is what an empty   *)
(* field with that prompt gets, whatever was saved or used since, but for a *)
(* later answer that was given the prompt as an alias.                      *)
THEOREM RememberedAnswerIsUsedAlways == AnswersSpec => []RememberedAnswerIsUsed
<1> QED
  BY AnswersInitially, AnswersStep, ToldIsUsed, PTL DEF AnswersSpec

-----------------------------------------------------------------------------
(* Rows, plans and drafts.  Each predicate is about values, so that it says *)
(* the same of what a step is about to show or to store.                    *)

GivenAnswers == [value : Values, source : {"user_input", "generated"}]

(* A one-off answer that was drafted is grounded prose for a question that  *)
(* takes prose.                                                             *)
RowOK(row) ==
    /\ row.form \in Forms
    /\ row \in [form : {row.form}, seen : [On(row.form) -> MaybeValues], replace : BOOLEAN,
                given : [On(row.form) -> GivenAnswers \cup {NothingGiven}]]
    /\ \A i \in On(row.form) :
           row.given[i].source = "generated" =>
               row.given[i].value \in Grounded /\ IsDraftEligible(Asks[row.form][i])

(* What a plan may put into a field, given what the scan saw there.         *)
DueAt(row, i, a) ==
    /\ a \in Actions
    /\ row.seen[i] # Unknown /\ a.value # Unknown =>
           row.replace \/ a.source \in {"user_input", "generated"}
    /\ a.source = "saved_answer" => ~Asks[row.form][i].named
    /\ a.source = "generated" =>
           a.value \in Grounded /\ IsDraftEligible(Asks[row.form][i])
Due(row, actions) ==
    /\ actions \in [On(row.form) -> Actions]
    /\ \A i \in On(row.form) : DueAt(row, i, actions[i])

(* The scan is stored.                                                      *)
Stands(scans, id) == id \in Ids /\ RowOK(scans[id])

PageOK(shown) ==
    /\ shown.form \in Forms
    /\ shown \in [form : {shown.form}, values : [On(shown.form) -> MaybeValues]]

RowsOK(scans) ==
    scans = [id \in Ids |-> scans[id]] /\ \A id \in Ids : scans[id] = NoRow \/ RowOK(scans[id])

PanelOK(shown, scans) ==
    /\ DOMAIN shown = {"scan", "plan", "replacing", "print", "fresh"}
    /\ shown.scan = 0 \/ Stands(scans, shown.scan)
    /\ \/ shown.plan = NoPlan
       \/ /\ Stands(scans, shown.plan.scan)
          /\ Due(scans[shown.plan.scan], shown.plan.actions)

TaskOK(doing, scans) ==
    \/ doing = Idle \/ doing = [stage |-> "rescanning", scan |-> 0]
    \/ /\ doing.stage = "filling"
       /\ DOMAIN doing = {"stage", "scan", "failed", "actions", "todo"}
       /\ Stands(scans, doing.scan) /\ Due(scans[doing.scan], doing.actions)
       /\ doing.todo \subseteq On(scans[doing.scan].form)
       /\ \A i \in doing.todo : doing.actions[i].value # Unknown
    \/ /\ doing.stage = "giving"
       /\ Stands(scans, doing.scan)
       /\ doing.field \in On(scans[doing.scan].form) /\ doing.value \in Values
    \/ doing.stage = "proposing" /\ Stands(scans, doing.scan)

(* A draft that is to be approved is one for the question of its scan.      *)
DraftsOK(queue, scans) ==
    \/ queue = Idle \/ queue = [stage |-> "rescanning", scan |-> 0]
    \/ /\ queue.stage = "generating"
       /\ DOMAIN queue = {"stage", "scan", "field", "current", "attempts"}
       /\ Stands(scans, queue.scan) /\ queue.field \in On(scans[queue.scan].form)
    \/ /\ queue.stage = "approving"
       /\ DOMAIN queue = {"stage", "scan", "field", "current", "text"}
       /\ Stands(scans, queue.scan) /\ queue.field \in On(scans[queue.scan].form)
       /\ queue.text \in Grounded
       /\ IsDraftEligible(Asks[scans[queue.scan].form][queue.field])

RescansOK(waiting) ==
    /\ waiting = [t \in Threads |-> waiting[t]]
    /\ \A t \in Threads : waiting[t] = Idle \/ RowOK(waiting[t].row)

SuggestedOK(s) == s = Idle \/ (s.scan # 0 /\ s.value \in Values)

FormIInv ==
    /\ AnswersIInv
    /\ PageOK(page) /\ RowsOK(rows) /\ RescansOK(rescans)
    /\ PanelOK(panel, rows) /\ TaskOK(task, rows) /\ DraftsOK(drafts, rows)
    /\ SuggestedOK(suggested)
    /\ panel.scan = 0 => Held = {0}
    /\ left \in 0..MaxSteps

-----------------------------------------------------------------------------
(* Rows that are stored, and rows that change.                              *)

LEMMA RowIsNoNoRow ==
    ASSUME NEW row, RowOK(row)
    PROVE  row # NoRow
<1>1. NoRow.form = "none"
  BY DEF NoRow
<1> QED
  BY <1>1, AsksAssumption DEF RowOK

(* A question of a form.                                                    *)
LEMMA AsksIs ==
    ASSUME NEW form \in Forms, NEW i \in On(form)
    PROVE  /\ Asks[form][i] \in Asked /\ i \in Fields /\ i \in Nat
           /\ Asks[form][i].prompt \in Prompts
<1>1. i \in Fields
  BY DEF Fields
<1>2. Asks[form][i] \in Asked
  BY <1>1, AsksAssumption
<1> QED
  BY <1>1, <1>2, AsksAssumption DEF Prompts

(* There are more numbers for scans than scans that someone refers to.      *)
LEMMA NewIdIsNew ==
    NewId \in Ids \ Held
<1>1. Ids \ Held # {}
  <2>1. ASSUME NEW a, NEW b, NEW c, NEW d PROVE Ids \ {a, b, c, d} # {}
    <3>1. 1 \in Ids /\ 2 \in Ids /\ 3 \in Ids /\ 4 \in Ids /\ 5 \in Ids
      BY DEF Ids
    <3> QED
      BY <3>1
  <2> QED
    BY <2>1 DEF Held
<1>2. Ids \ Held \subseteq Nat
  BY DEF Ids
<1> QED
  BY <1>1, <1>2, MinIs DEF NewId

(* Later rows stand where these do, with what was seen.                     *)
Keeps(scans, later, S) ==
    \A id \in S : Stands(scans, id) =>
        /\ Stands(later, id) /\ later[id].form = scans[id].form
        /\ later[id].seen = scans[id].seen /\ later[id].replace = scans[id].replace

(* What is due depends on what was seen only.                               *)
LEMMA KeepsDue ==
    ASSUME NEW scans, NEW later, NEW id, Keeps(scans, later, {id}), Stands(scans, id),
           NEW actions, Due(scans[id], actions)
    PROVE  Stands(later, id) /\ Due(later[id], actions) /\ later[id].form = scans[id].form
BY DEF Keeps, Due, DueAt

LEMMA KeepsPanel ==
    ASSUME NEW scans, NEW later, NEW shown, PanelOK(shown, scans),
           Keeps(scans, later, {shown.scan, shown.plan.scan})
    PROVE  PanelOK(shown, later)
<1>1. Keeps(scans, later, {shown.plan.scan})
  BY DEF Keeps
<1>2. shown.scan = 0 \/ Stands(later, shown.scan)
  BY DEF PanelOK, Keeps
<1>3. shown.plan = NoPlan
      \/ (Stands(later, shown.plan.scan) /\ Due(later[shown.plan.scan], shown.plan.actions))
  BY <1>1, KeepsDue DEF PanelOK
<1> QED
  BY <1>2, <1>3 DEF PanelOK

LEMMA KeepsTask ==
    ASSUME NEW scans, NEW later, NEW doing, TaskOK(doing, scans),
           Keeps(scans, later, {doing.scan})
    PROVE  TaskOK(doing, later)
<1>1. Stands(scans, doing.scan) =>
          Stands(later, doing.scan) /\ later[doing.scan].form = scans[doing.scan].form
  BY DEF Keeps
<1>2. ASSUME Stands(scans, doing.scan), Due(scans[doing.scan], doing.actions)
      PROVE  Due(later[doing.scan], doing.actions)
  BY <1>2, KeepsDue
<1> QED
  BY <1>1, <1>2, Zenon DEF TaskOK

LEMMA KeepsDrafts ==
    ASSUME NEW scans, NEW later, NEW queue, DraftsOK(queue, scans),
           Keeps(scans, later, {queue.scan})
    PROVE  DraftsOK(queue, later)
<1>1. Stands(scans, queue.scan) =>
          Stands(later, queue.scan) /\ later[queue.scan].form = scans[queue.scan].form
  BY DEF Keeps
<1> QED
  BY <1>1, Zenon DEF DraftsOK

(* POST /extension/forms/scan                                               *)
LEMMA StoredKeeps ==
    ASSUME RowsOK(rows), NEW row, RowOK(row)
    PROVE  /\ RowsOK(Stored(row)) /\ Stands(Stored(row), NewId) /\ Stored(row)[NewId] = row
           /\ \A S : S \subseteq Held => Keeps(rows, Stored(row), S)
<1>1. NewId \in Ids \ Held
  BY NewIdIsNew
<1> DEFINE new == NewId
           held == Held
           scans == [id \in Ids |->
                        IF id = new THEN row ELSE IF id \in held THEN rows[id] ELSE NoRow]
<1>2. Stored(row) = scans
  BY DEF Stored
<1>3. new \in Ids \ held
  BY <1>1
<1> HIDE DEF new, held
<1>4. scans[new] = row
  BY <1>3
<1>5. \A id \in Ids : scans[id] = NoRow \/ RowOK(scans[id])
  BY DEF RowsOK
<1>6. \A id \in Ids \cap held : scans[id] = rows[id]
  BY <1>3
<1>7. scans = [id \in Ids |-> scans[id]]
  OBVIOUS
<1> HIDE DEF scans
<1>8. \A S : S \subseteq held => Keeps(rows, scans, S)
  BY <1>6 DEF Keeps, Stands
<1>9. RowsOK(scans) /\ Stands(scans, new) /\ scans[new] = row
  BY <1>3, <1>4, <1>5, <1>7 DEF RowsOK, Stands
<1> QED
  BY <1>2, <1>8, <1>9 DEF new, held

(* override_fill_plan                                                       *)
LEMMA GivenOnceKeeps ==
    ASSUME NEW scans, RowsOK(scans), NEW id, Stands(scans, id),
           NEW i \in On(scans[id].form), NEW v \in Values,
           NEW source \in {"user_input", "generated"},
           source = "generated" => v \in Grounded /\ IsDraftEligible(Asks[scans[id].form][i])
    PROVE  /\ RowOK(GivenOnce(scans[id], i, v, source))
           /\ GivenOnce(scans[id], i, v, source).form = scans[id].form
           /\ RowsOK([scans EXCEPT ![id] = GivenOnce(scans[id], i, v, source)])
           /\ \A S : Keeps(scans, [scans EXCEPT ![id] = GivenOnce(scans[id], i, v, source)], S)
<1> DEFINE row == scans[id]
           later == GivenOnce(row, i, v, source)
<1>1. RowOK(row) /\ id \in Ids
  BY DEF Stands
<1>2. [value |-> v, source |-> source] \in GivenAnswers
  BY DEF GivenAnswers
<1>3. /\ later.form = row.form /\ later.seen = row.seen /\ later.replace = row.replace
      /\ later.given = [row.given EXCEPT ![i] = [value |-> v, source |-> source]]
      /\ later = [form |-> row.form, seen |-> row.seen, replace |-> row.replace,
                  given |-> [row.given EXCEPT ![i] = [value |-> v, source |-> source]]]
  BY <1>1 DEF RowOK, GivenOnce
<1>4. RowOK(later)
  <2>1. i \in On(row.form)
    OBVIOUS
  <2>2. source = "generated" => v \in Grounded /\ IsDraftEligible(Asks[row.form][i])
    OBVIOUS
  <2> HIDE DEF later, row
  <2> QED
    BY <1>1, <1>2, <1>3, <2>1, <2>2 DEF RowOK
<1> HIDE DEF later
<1>5. RowsOK([scans EXCEPT ![id] = later])
  BY <1>1, <1>4 DEF RowsOK
<1>6. \A S : Keeps(scans, [scans EXCEPT ![id] = later], S)
  BY <1>1, <1>3, <1>4 DEF Keeps, Stands, RowsOK
<1> QED
  BY <1>3, <1>4, <1>5, <1>6 DEF later

-----------------------------------------------------------------------------
(* _build_fill_plan_for_scan plans what is due.                             *)

LEMMA GivenIs ==
    ASSUME NEW row, RowOK(row), NEW i \in On(row.form), row.given[i] # NothingGiven
    PROVE  /\ Given(Asks[row.form][i], row.given[i]) \in Actions
           /\ Given(Asks[row.form][i], row.given[i]).source \in {"none", "user_input", "generated"}
           /\ Given(Asks[row.form][i], row.given[i]).source = "generated" =>
                  /\ Given(Asks[row.form][i], row.given[i]).value \in Grounded
                  /\ IsDraftEligible(Asks[row.form][i])
<1> DEFINE q == Asks[row.form][i]
           g == row.given[i]
           a == [value |-> IF q.input = "checkbox" /\ g.value # "yes" THEN "no" ELSE g.value,
                 source |-> g.source, saved |-> None]
<1>1. q \in Asked
  BY AsksIs DEF RowOK
<1>2. g \in GivenAnswers /\ (g.source = "generated" => g.value \in Grounded /\ IsDraftEligible(q))
  BY DEF RowOK
<1>3. Given(q, g) = Checked(q, a)
  BY DEF Given
<1> HIDE DEF q, g
<1>4. a \in Actions /\ a.source = g.source
  BY <1>2, ValuesAssumption DEF GivenAnswers, Actions
<1>5. ASSUME g.source = "generated"
      PROVE  a.value \in Grounded /\ Written(q, a.value) = a.value
  <2>1. q.input = "textarea"
    BY <1>2, <1>5 DEF IsDraftEligible
  <2> QED
    BY <1>2, <1>5, <2>1 DEF Written, IsChoice
<1> HIDE DEF a
<1>6. g.source \in {"user_input", "generated"}
  BY <1>2 DEF GivenAnswers
<1>7. Given(q, g) \in Actions /\ Given(q, g).source \in {"none", "user_input", "generated"}
      /\ (Given(q, g).source = "generated" => Given(q, g).value \in Grounded /\ IsDraftEligible(q))
  BY <1>1, <1>2, <1>3, <1>4, <1>5, <1>6, CheckedIs DEF Skip
<1> QED
  BY <1>7 DEF q, g

LEMMA ActionIsDue ==
    ASSUME NEW row, RowOK(row), NEW i \in On(row.form),
           NEW a \in Actions, a.source \in {"none", "profile", "saved_answer"},
           a.source = "saved_answer" => ~Asks[row.form][i].named
    PROVE  DueAt(row, i, Action(row, i, a)) /\ Action(row, i, a).saved \in {a.saved, None}
<1> DEFINE due == Unless(Kept(row, i, a.value), a)
<1>1. Skip \in Actions /\ Skip.value = Unknown /\ Skip.source = "none" /\ Skip.saved = None
  BY DEF Skip, Actions
<1>2. due = Skip \/ (due = a /\ ~Kept(row, i, a.value))
  BY DEF Unless
<1>3. ~Kept(row, i, a.value) => row.seen[i] = Unknown \/ row.replace
  BY DEF Kept
<1>4. due \in Actions /\ due.source \in {"none", "profile", "saved_answer"}
      /\ DueAt(row, i, due) /\ due.saved \in {a.saved, None}
  BY <1>1, <1>2, <1>3 DEF DueAt
<1>5. CASE Action(row, i, a) = due
  BY <1>4, <1>5
<1>6. CASE Action(row, i, a) = Given(Asks[row.form][i], row.given[i])
           /\ row.given[i] # NothingGiven
  <2>1. Given(Asks[row.form][i], row.given[i]).saved = None
    <3>1. Asks[row.form][i] \in Asked
      BY AsksIs DEF RowOK
    <3> QED
      BY <3>1 DEF Given, Checked, Skip
  <2>2. Given(Asks[row.form][i], row.given[i]).source = "none" =>
            Given(Asks[row.form][i], row.given[i]).value = Unknown
    BY <1>6 DEF Given, Checked, Skip, RowOK, GivenAnswers
  <2>3. DueAt(row, i, Action(row, i, a))
    BY <1>6, <2>2, GivenIs DEF DueAt
  <2> QED
    BY <1>6, <2>1, <2>3
<1> HIDE DEF due
<1>7. Action(row, i, a) = OrGiven(row, i, due)
  BY DEF Action, due
<1> QED
  BY <1>5, <1>6, <1>7 DEF OrGiven

LEMMA PlanIsDue ==
    AnswersIInv => \A id, row : RowOK(row) =>
        /\ Plan(id, row).scan = id /\ Due(row, Plan(id, row).actions)
        /\ \A i \in On(row.form) : Plan(id, row).actions[i].saved \in Saved \cup {None}
<1> SUFFICES ASSUME AnswersIInv, NEW id, NEW row, RowOK(row)
             PROVE  /\ Plan(id, row).scan = id /\ Due(row, Plan(id, row).actions)
                    /\ \A i \in On(row.form) : Plan(id, row).actions[i].saved \in Saved \cup {None}
  OBVIOUS
<1> DEFINE actions == [i \in On(row.form) |-> Action(row, i, Answer(Asks[row.form][i]))]
<1>1. Plan(id, row).scan = id /\ Plan(id, row).actions = actions
  BY DEF Plan
<1>2. ASSUME NEW i \in On(row.form)
      PROVE  DueAt(row, i, actions[i]) /\ actions[i].saved \in Saved \cup {None}
  <2>1. Asks[row.form][i] \in Asked
    BY AsksIs DEF RowOK
  <2> DEFINE a == Answer(Asks[row.form][i])
  <2>2. /\ a \in Actions /\ a.source \in {"none", "profile", "saved_answer"}
        /\ a.source = "saved_answer" => ~Asks[row.form][i].named
        /\ a.saved \in Saved \cup {None}
    BY <2>1, AnswerIs DEF AnswersIInv
  <2>3. actions[i] = Action(row, i, a)
    OBVIOUS
  <2> HIDE DEF a, actions
  <2>4. DueAt(row, i, Action(row, i, a)) /\ Action(row, i, a).saved \in {a.saved, None}
    BY <2>2, ActionIsDue
  <2> QED
    BY <2>2, <2>3, <2>4
<1>3. actions = [i \in On(row.form) |-> actions[i]]
  OBVIOUS
<1> HIDE DEF actions
<1>4. Due(row, actions)
  BY <1>2, <1>3 DEF Due, DueAt
<1> QED
  BY <1>1, <1>2, <1>4

LEMMA PlanIsDueNext ==
    (AnswersIInv => \A id, row : RowOK(row) =>
        /\ Plan(id, row).scan = id /\ Due(row, Plan(id, row).actions)
        /\ \A i \in On(row.form) : Plan(id, row).actions[i].saved \in Saved \cup {None})'
BY PlanIsDue, PTL

-----------------------------------------------------------------------------
(* Parts of several steps.                                                  *)

(* The queue takes up a field of the form that is shown.                    *)
LEMMA RunQueueIs ==
    ASSUME NEW shown, NEW scans, PanelOK(shown, scans), RunQueue(shown, scans)
    PROVE  /\ DraftsOK(drafts', scans) /\ drafts'.scan \in {0, shown.scan}
           /\ drafts'.stage \in {"idle", "generating"}
<1> DEFINE wanted == DraftsWanted(shown, scans, tried)
<1>1. CASE wanted = {}
  BY <1>1 DEF RunQueue, DraftsOK, Idle
<1>2. CASE wanted # {}
  <2>1. shown.scan # 0 /\ wanted \subseteq On(scans[shown.scan].form)
    BY <1>2 DEF DraftsWanted
  <2>2. Stands(scans, shown.scan)
    BY <2>1 DEF PanelOK
  <2>3. wanted \subseteq Nat
    BY <2>1, <2>2, AsksIs DEF Stands, RowOK
  <2>4. drafts' = [stage |-> "generating", scan |-> shown.scan, field |-> Min(wanted),
                   current |-> TRUE, attempts |-> Attempts]
    BY <1>2 DEF RunQueue
  <2> HIDE DEF wanted
  <2>5. Min(wanted) \in wanted
    BY <1>2, <2>3, MinIs
  <2>6. Min(wanted) \in On(scans[shown.scan].form)
    BY <2>1, <2>5
  <2> QED
    BY <2>2, <2>4, <2>6 DEF DraftsOK
<1> QED
  BY <1>1, <1>2

(* scanApplicationForm reads the page into a row.                           *)
LEMMA RescanIs ==
    ASSUME NEW t \in Threads, NEW shown, PageOK(shown), NEW was, NEW scans, PanelOK(was, scans),
           NEW attempted, RescansOK(rescans), Rescan(t, shown, was, attempted)
    PROVE  RescansOK(rescans') /\ PanelOK(panel', scans) /\ panel'.scan = was.scan
<1> DEFINE row == [form |-> shown.form, seen |-> shown.values,
                   replace |-> was.replacing /\ ~IsNewForm(shown),
                   given |-> [i \in On(shown.form) |-> NothingGiven]]
<1>1. /\ rescans' = [rescans EXCEPT ![t] = [stage |-> "waiting", row |-> row]]
      /\ panel' = [was EXCEPT !.replacing = row.replace, !.print = shown]
  BY DEF Rescan
<1>2. RowOK(row)
  <2>1. (was.replacing /\ ~IsNewForm(shown)) \in BOOLEAN
    OBVIOUS
  <2>2. /\ row.form = shown.form /\ row.seen = shown.values
        /\ row.given = [i \in On(shown.form) |-> NothingGiven]
    OBVIOUS
  <2>3. row \in [form : {row.form}, seen : [On(row.form) -> MaybeValues], replace : BOOLEAN,
                 given : [On(row.form) -> GivenAnswers \cup {NothingGiven}]]
    BY <2>1 DEF PageOK
  <2>4. row.form \in Forms
    BY <2>2 DEF PageOK
  <2>5. \A i \in On(row.form) : row.given[i].source = "none"
    BY <2>2 DEF NothingGiven
  <2> HIDE DEF row
  <2> QED
    BY <2>3, <2>4, <2>5 DEF RowOK
<1> HIDE DEF row
<1>3. RescansOK(rescans')
  BY <1>1, <1>2 DEF RescansOK
<1>4. PanelOK(panel', scans) /\ panel'.scan = was.scan
  BY <1>1 DEF PanelOK
<1> QED
  BY <1>3, <1>4

LEMMA OutOfDateIs ==
    ASSUME NEW scans, NEW queue, DraftsOK(queue, scans), NEW shown
    PROVE  DraftsOK(OutOfDate(queue, shown), scans)
<1>1. CASE OutOfDate(queue, shown) = queue
  BY <1>1
<1>2. CASE OutOfDate(queue, shown) = [queue EXCEPT !.current = FALSE] /\ "current" \in DOMAIN queue
  BY <1>2 DEF DraftsOK, Idle
<1> QED
  BY <1>1, <1>2 DEF OutOfDate

-----------------------------------------------------------------------------
(* Every step keeps the invariant.                                          *)

LEMMA LeftIs ==
    ASSUME FormIInv, Budget \/ UNCHANGED left
    PROVE  left' \in 0..MaxSteps
BY AsksAssumption DEF FormIInv, Budget

LEMMA ReviewStutter ==
    FormIInv /\ UNCHANGED vars => FormIInv'
BY AnswersStutter DEF FormIInv, vars, panelVars, Held

(* The panel with another flag is as good.                                  *)
LEMMA FreshIs ==
    ASSUME NEW shown, NEW scans, PanelOK(shown, scans)
    PROVE  \A v : /\ PanelOK([shown EXCEPT !.fresh = v], scans)
                  /\ [shown EXCEPT !.fresh = v].scan = shown.scan
                  /\ [shown EXCEPT !.fresh = v].plan = shown.plan
BY DEF PanelOK

(* The thread goes on: the panel shows what is stored.                      *)
LEMMA GoesOnKeeps ==
    ASSUME FormIInv, NEW t \in Threads, NEW shown, NEW scans, GoesOn(t, shown, scans),
           RowsOK(scans), PanelOK(shown, scans), \A S : S \subseteq Held => Keeps(rows, scans, S),
           shown.scan = 0 => panel.scan = 0 /\ shown.plan.scan = 0,
           drafts' = drafts \/ (DraftsOK(drafts', scans) /\ drafts'.scan \in {0, shown.scan}),
           Budget \/ UNCHANGED left
    PROVE  FormIInv'
<1>1. /\ panel' = shown /\ rows' = scans /\ UNCHANGED <<answerVars, page>>
      /\ rescans' = [rescans EXCEPT ![t] = Idle]
      /\ task' = Idle \/ task' = task
      /\ suggested' = Idle \/ suggested' = suggested
  BY DEF GoesOn
<1>2. Keeps(rows, scans, {task.scan}) /\ Keeps(rows, scans, {drafts.scan})
  BY DEF Held
<1>3. TaskOK(task', scans)
  <2>1. TaskOK(task, scans)
    BY <1>2, KeepsTask DEF FormIInv
  <2> QED
    BY <1>1, <2>1 DEF TaskOK
<1>4. DraftsOK(drafts', scans)
  <2>1. DraftsOK(drafts, scans)
    BY <1>2, KeepsDrafts DEF FormIInv
  <2> QED
    BY <2>1
<1>5. RescansOK(rescans')
  BY <1>1 DEF FormIInv, RescansOK
<1>6. left' \in 0..MaxSteps
  BY LeftIs
<1>7. AnswersIInv' /\ PageOK(page')
  BY <1>1, AnswersStutter DEF FormIInv
<1>8. SuggestedOK(suggested')
  BY <1>1 DEF FormIInv, SuggestedOK
<1>9. panel'.scan = 0 => Held' = {0}
  BY <1>1 DEF FormIInv, Idle, Held
<1> QED
  BY <1>1, <1>3, <1>4, <1>5, <1>6, <1>7, <1>8, <1>9 DEF FormIInv

LEMMA PlansKeeps ==
    ASSUME FormIInv, NEW t \in Threads, Plans(t)
    PROVE  FormIInv'
<1> DEFINE row == rescans[t].row
           scans == Stored(row)
           plan == Plan(NewId, row)
           shown == [panel EXCEPT !.scan = NewId, !.plan = plan, !.fresh = TRUE]
<1>1. RowOK(row)
  BY DEF Plans, FormIInv, RescansOK
<1>2. /\ RowsOK(scans) /\ Stands(scans, NewId) /\ scans[NewId] = row
      /\ \A S : S \subseteq Held => Keeps(rows, scans, S)
  BY <1>1, StoredKeeps DEF FormIInv
<1>3. /\ GoesOn(t, shown, scans) /\ UNCHANGED left
      /\ RunQueue(shown, scans) \/ UNCHANGED drafts
  BY DEF Plans
<1>4. plan.scan = NewId /\ Due(row, plan.actions)
  BY <1>1, PlanIsDue DEF FormIInv
<1>5. NewId \in Ids
  BY NewIdIsNew
<1>6. PanelOK(shown, scans) /\ shown.scan = NewId
  <2>1. Keeps(rows, scans, {panel.scan, panel.plan.scan})
    BY <1>2 DEF Held
  <2>2. PanelOK(panel, scans)
    BY <2>1, KeepsPanel DEF FormIInv
  <2>3. Stands(scans, plan.scan) /\ Due(scans[plan.scan], plan.actions)
    BY <1>2, <1>4
  <2>4. /\ DOMAIN shown = DOMAIN panel
        /\ DOMAIN panel = {"scan", "plan", "replacing", "print", "fresh"} =>
               shown.scan = NewId /\ shown.plan = plan
    <3> HIDE DEF plan
    <3> QED
      OBVIOUS
  <2> HIDE DEF shown, plan, scans
  <2> QED
    BY <1>2, <1>4, <2>2, <2>3, <2>4 DEF PanelOK
<1> HIDE DEF shown, scans, plan, row
<1>7. drafts' = drafts \/ (DraftsOK(drafts', scans) /\ drafts'.scan \in {0, shown.scan})
  BY <1>3, <1>6, RunQueueIs
<1>8. shown.scan # 0
  BY <1>5, <1>6 DEF Ids
<1> QED
  BY <1>2, <1>3, <1>6, <1>7, <1>8, GoesOnKeeps

LEMMA RescanFailsKeeps ==
    ASSUME FormIInv, NEW t \in Threads, RescanFails(t)
    PROVE  FormIInv'
<1>1. ASSUME NEW shown, NEW scans, RescanBreaksOff(t, shown, scans),
             RowsOK(scans), PanelOK(shown, scans),
             shown.scan = 0 => panel.scan = 0 /\ shown.plan.scan = 0,
             \A S : S \subseteq Held => Keeps(rows, scans, S)
      PROVE  FormIInv'
  <2>1. GoesOn(t, shown, scans) /\ Budget /\ (RunQueue(shown, scans) \/ UNCHANGED drafts)
    BY <1>1 DEF RescanBreaksOff
  <2>2. drafts' = drafts \/ (DraftsOK(drafts', scans) /\ drafts'.scan \in {0, shown.scan})
    BY <1>1, <2>1, RunQueueIs
  <2> QED
    BY <1>1, <2>1, <2>2, GoesOnKeeps
<1>2. ASSUME RescanBreaksOff(t, [panel EXCEPT !.fresh = FALSE], rows)
      PROVE  FormIInv'
  <2> DEFINE shown == [panel EXCEPT !.fresh = FALSE]
  <2>1. \E v : shown = [panel EXCEPT !.fresh = v]
    OBVIOUS
  <2>2. RescanBreaksOff(t, shown, rows)
    BY <1>2
  <2>3. \A S : S \subseteq Held => Keeps(rows, rows, S)
    BY DEF Keeps
  <2> HIDE DEF shown
  <2>4. PanelOK(shown, rows) /\ shown.scan = panel.scan /\ shown.plan = panel.plan
    BY <2>1, FreshIs DEF FormIInv
  <2>5. panel.scan = 0 => panel.plan.scan = 0
    BY DEF FormIInv, Held
  <2> QED
    BY <1>1, <2>2, <2>3, <2>4, <2>5 DEF FormIInv
<1>3. ASSUME RescanBreaksOff(t, [panel EXCEPT !.fresh = FALSE, !.scan = NewId],
                             Stored(rescans[t].row))
      PROVE  FormIInv'
  <2> DEFINE shown == [panel EXCEPT !.fresh = FALSE, !.scan = NewId]
             scans == Stored(rescans[t].row)
  <2>1. /\ DOMAIN shown = DOMAIN panel
        /\ DOMAIN panel = {"scan", "plan", "replacing", "print", "fresh"} =>
               shown.scan = NewId /\ shown.plan = panel.plan
    OBVIOUS
  <2>2. RescanBreaksOff(t, shown, scans)
    BY <1>3
  <2>3. RowOK(rescans[t].row)
    BY DEF RescanFails, FormIInv, RescansOK
  <2>4. /\ RowsOK(scans) /\ Stands(scans, NewId)
        /\ \A S : S \subseteq Held => Keeps(rows, scans, S)
    BY <2>3, StoredKeeps DEF FormIInv
  <2>5. Keeps(rows, scans, {panel.scan, panel.plan.scan})
    BY <2>4 DEF Held
  <2>6. NewId # 0
    BY NewIdIsNew DEF Ids
  <2> HIDE DEF shown, scans
  <2>7. PanelOK(panel, scans)
    BY <2>5, KeepsPanel DEF FormIInv
  <2>8. PanelOK(shown, scans) /\ shown.scan = NewId
    BY <2>1, <2>4, <2>7 DEF PanelOK
  <2> QED
    BY <1>1, <2>2, <2>4, <2>6, <2>8
<1> QED
  BY <1>2, <1>3 DEF RescanFails

(* Steps of the user's task, and of the queue, that leave the rest alone.   *)
LEMMA TaskStepKeeps ==
    ASSUME FormIInv, UNCHANGED <<answerVars, page, rows, panel, rescans, drafts>>,
           suggested' = suggested \/ SuggestedOK(suggested'),
           TaskOK(task', rows), panel.scan = 0 => task'.scan = 0, Budget \/ UNCHANGED left
    PROVE  FormIInv'
<1>1. AnswersIInv' /\ left' \in 0..MaxSteps
  BY AnswersStutter, LeftIs DEF FormIInv
<1>2. panel'.scan = 0 => Held' = {0}
  BY DEF FormIInv, Held
<1> QED
  BY <1>1, <1>2 DEF FormIInv

LEMMA DraftStepKeeps ==
    ASSUME FormIInv, UNCHANGED <<answerVars, page, rows, panel, rescans, task, suggested>>,
           DraftsOK(drafts', rows), drafts'.scan \in {0, drafts.scan, panel.scan},
           Budget \/ UNCHANGED left
    PROVE  FormIInv'
<1>1. AnswersIInv' /\ left' \in 0..MaxSteps
  BY AnswersStutter, LeftIs DEF FormIInv
<1>2. panel'.scan = 0 => Held' = {0}
  BY DEF FormIInv, Held
<1> QED
  BY <1>1, <1>2 DEF FormIInv

LEMMA IdleIs ==
    ASSUME NEW scans
    PROVE  /\ TaskOK(Idle, scans) /\ DraftsOK(Idle, scans) /\ Idle.scan = 0 /\ SuggestedOK(Idle)
           /\ LET rescanning == [stage |-> "rescanning", scan |-> 0]
              IN  /\ TaskOK(rescanning, scans) /\ DraftsOK(rescanning, scans)
                  /\ rescanning.scan = 0
BY DEF TaskOK, DraftsOK, Idle, SuggestedOK

(* The plan that is shown is due, and there is a scan.                      *)
LEMMA StartFillKeeps ==
    ASSUME FormIInv, StartFill
    PROVE  FormIInv'
<1> DEFINE plan == panel.plan
           todo == {i \in DOMAIN plan.actions : plan.actions[i].value # Unknown}
<1>1. /\ task' = [stage |-> "filling", scan |-> plan.scan, failed |-> {},
                  actions |-> plan.actions, todo |-> todo]
      /\ plan # NoPlan /\ Budget
      /\ UNCHANGED <<answerVars, page, rows, panel, rescans, drafts, suggested>>
  BY DEF StartFill
<1>2. Stands(rows, plan.scan) /\ Due(rows[plan.scan], plan.actions)
  BY <1>1 DEF FormIInv, PanelOK
<1>3. todo \subseteq On(rows[plan.scan].form) /\ \A i \in todo : plan.actions[i].value # Unknown
  BY <1>2 DEF Due
<1>4. panel.scan = 0 => plan.scan = 0
  BY DEF FormIInv, Held
<1> HIDE DEF plan, todo
<1>5. TaskOK(task', rows) /\ task'.scan = plan.scan
  BY <1>1, <1>2, <1>3 DEF TaskOK
<1> QED
  BY <1>1, <1>4, <1>5, TaskStepKeeps

(* What is written is a value.                                              *)
LEMMA WriteIs ==
    ASSUME PageOK(page), NEW i \in On(page.form), NEW v \in MaybeValues, Write(i, v)
    PROVE  PageOK(page') /\ page'.form = page.form
BY DEF PageOK, Write

(* The next field to fill.                                                  *)
LEMMA FillFieldIs ==
    ASSUME FormIInv, NEW i, FillField(i)
    PROVE  /\ task.stage = "filling" /\ i \in task.todo /\ Stands(rows, task.scan)
           /\ Due(rows[task.scan], task.actions) /\ i \in On(rows[task.scan].form)
           /\ task.actions[i].value \in Values
<1>1. task.stage = "filling" /\ task.todo # {} /\ i = Min(task.todo)
  BY DEF FillField
<1>2. /\ Stands(rows, task.scan) /\ Due(rows[task.scan], task.actions)
      /\ task.todo \subseteq On(rows[task.scan].form)
      /\ \A j \in task.todo : task.actions[j].value # Unknown
  BY <1>1 DEF FormIInv, TaskOK, Idle
<1>3. task.todo \subseteq Nat
  BY <1>2, AsksIs DEF Stands, RowOK
<1>4. i \in task.todo
  BY <1>1, <1>3, MinIs
<1>5. task.actions[i] \in Actions
  BY <1>2, <1>4 DEF Due
<1>6. task.actions[i].value \in Values
  BY <1>2, <1>4, <1>5 DEF Actions
<1> QED
  BY <1>1, <1>2, <1>4, <1>6

LEMMA FillFieldKeeps ==
    ASSUME FormIInv, NEW i, FillField(i)
    PROVE  FormIInv'
<1>1. /\ task.stage = "filling" /\ i \in task.todo /\ Stands(rows, task.scan)
      /\ task.actions[i].value \in Values
  BY FillFieldIs
<1>2. DOMAIN task = {"stage", "scan", "failed", "actions", "todo"}
      /\ Due(rows[task.scan], task.actions)
      /\ task.todo \subseteq On(rows[task.scan].form)
      /\ \A j \in task.todo : task.actions[j].value # Unknown
  BY <1>1 DEF FormIInv, TaskOK, Idle
<1>3. /\ UNCHANGED <<answerVars, rows, panel, rescans, drafts, suggested>>
      /\ Budget \/ UNCHANGED left
      /\ \/ page' = page
         \/ i \in On(page.form) /\ Write(i, task.actions[i].value)
      /\ \/ task' = [task EXCEPT !.todo = @ \ {i}]
         \/ task' = [task EXCEPT !.todo = @ \ {i}, !.failed = @ \cup {i}]
  BY DEF FillField
<1>4. TaskOK(task', rows) /\ task'.scan = task.scan
  <2>1. /\ task'.stage = "filling" /\ task'.scan = task.scan /\ task'.actions = task.actions
        /\ task'.todo = task.todo \ {i} /\ DOMAIN task' = DOMAIN task
    BY <1>1, <1>2, <1>3
  <2> QED
    BY <1>1, <1>2, <2>1 DEF TaskOK
<1>5. PageOK(page')
  BY <1>1, <1>3, WriteIs DEF FormIInv, MaybeValues
<1>6. AnswersIInv' /\ left' \in 0..MaxSteps
  BY <1>3, AnswersStutter, LeftIs DEF FormIInv
<1>7. panel'.scan = 0 => Held' = {0}
  BY <1>3, <1>4 DEF FormIInv, Held
<1> QED
  BY <1>3, <1>4, <1>5, <1>6, <1>7 DEF FormIInv

LEMMA CancelFillKeeps ==
    ASSUME FormIInv, CancelFill
    PROVE  FormIInv'
<1>1. /\ task.stage = "filling" /\ task' = [task EXCEPT !.todo = {}] /\ Budget
      /\ UNCHANGED <<answerVars, page, rows, panel, rescans, drafts, suggested>>
  BY DEF CancelFill
<1>2. /\ DOMAIN task = {"stage", "scan", "failed", "actions", "todo"}
      /\ Stands(rows, task.scan) /\ Due(rows[task.scan], task.actions)
  BY <1>1 DEF FormIInv, TaskOK, Idle
<1>3. /\ task'.stage = "filling" /\ task'.scan = task.scan /\ task'.actions = task.actions
      /\ task'.todo = {} /\ DOMAIN task' = DOMAIN task
  BY <1>1, <1>2
<1>4. TaskOK(task', rows)
  BY <1>2, <1>3 DEF TaskOK
<1>5. panel.scan = 0 => task.scan = 0
  BY DEF FormIInv, Held
<1> QED
  BY <1>1, <1>3, <1>4, <1>5, TaskStepKeeps

(* scanApplicationForm, by any thread.                                      *)
LEMMA ScanKeeps ==
    ASSUME FormIInv, NEW t \in Threads, NEW shown, NEW was, NEW attempted,
           Rescan(t, shown, was, attempted), PageOK(shown), PageOK(page'), RowsOK(rows'),
           PanelOK(was, rows'), was.scan = panel.scan,
           was.plan.scan \in {panel.plan.scan, drafts.scan},
           AnswersIInv', UNCHANGED suggested, Budget \/ UNCHANGED left,
           TaskOK(task', rows'), task'.scan \in {0, task.scan},
           DraftsOK(drafts', rows'), drafts'.scan \in {0, drafts.scan}
    PROVE  FormIInv'
<1>1. RescansOK(rescans') /\ PanelOK(panel', rows') /\ panel'.scan = panel.scan
  BY RescanIs DEF FormIInv
<1>2. panel'.plan = was.plan
  BY DEF Rescan, PanelOK
<1>3. left' \in 0..MaxSteps
  BY LeftIs
<1>4. panel'.scan = 0 => Held' = {0}
  BY <1>1, <1>2 DEF FormIInv, Held
<1> QED
  BY <1>1, <1>3, <1>4 DEF FormIInv

LEMMA OutOfDateKeeps ==
    ASSUME FormIInv, NEW shown, drafts' = OutOfDate(drafts, shown)
    PROVE  DraftsOK(drafts', rows) /\ drafts'.scan = drafts.scan
<1>1. DraftsOK(drafts', rows)
  BY OutOfDateIs DEF FormIInv
<1>2. drafts'.scan = drafts.scan
  BY DEF FormIInv, OutOfDate, DraftsOK, Idle
<1> QED
  BY <1>1, <1>2

(* A page without a form, as a row.                                         *)
LEMMA BlankRowIs ==
    ASSUME NEW shown, PageOK(shown)
    PROVE  RowOK([form |-> shown.form, seen |-> shown.values, replace |-> FALSE,
                  given |-> [i \in On(shown.form) |-> NothingGiven]])
<1> DEFINE row == [form |-> shown.form, seen |-> shown.values, replace |-> FALSE,
                   given |-> [i \in On(shown.form) |-> NothingGiven]]
<1>1. row.form = shown.form /\ row.given = [i \in On(shown.form) |-> NothingGiven]
  OBVIOUS
<1>2. row \in [form : {row.form}, seen : [On(row.form) -> MaybeValues], replace : BOOLEAN,
               given : [On(row.form) -> GivenAnswers \cup {NothingGiven}]]
  BY DEF PageOK
<1>3. row.form \in Forms
  BY <1>1 DEF PageOK
<1>4. \A i \in On(row.form) : row.given[i].source = "none"
  BY <1>1 DEF NothingGiven
<1> HIDE DEF row
<1>5. RowOK(row)
  BY <1>2, <1>3, <1>4 DEF RowOK
<1> QED
  BY <1>5 DEF row

(* rescanAndPlan, of a form and of a page without one.                      *)
LEMMA RescanAndPlanKeeps ==
    ASSUME FormIInv, NEW t \in Threads, NEW was, RescanAndPlan(t, was),
           PanelOK(was, rows), was.scan = panel.scan, was.plan = panel.plan,
           page' = page, AnswersIInv', Budget \/ UNCHANGED left
    PROVE  FormIInv'
<1>1. CASE Recognised(page.form)
  <2>1. /\ Rescan(t, page, was, tried) /\ drafts' = OutOfDate(drafts, page)
        /\ task' = [stage |-> "rescanning", scan |-> 0] \/ task' = task
        /\ UNCHANGED <<rows, suggested>>
    BY <1>1 DEF RescanAndPlan
  <2>2. DraftsOK(drafts', rows) /\ drafts'.scan = drafts.scan
    BY <2>1, OutOfDateKeeps
  <2>3. TaskOK(task', rows) /\ task'.scan \in {0, task.scan}
    BY <2>1, IdleIs DEF FormIInv
  <2> QED
    BY <2>1, <2>2, <2>3, ScanKeeps DEF FormIInv
<1>2. CASE ~Recognised(page.form)
  <2> DEFINE row == [form |-> page.form, seen |-> page.values, replace |-> FALSE,
                     given |-> [i \in On(page.form) |-> NothingGiven]]
             shown == [was EXCEPT !.scan = NewId, !.plan = NoPlan, !.print = page,
                                  !.fresh = FALSE]
  <2>1. /\ rows' = Stored(row) /\ panel' = shown /\ task' = Idle /\ suggested' = Idle
        /\ UNCHANGED <<rescans, drafts>>
    BY <1>2 DEF RescanAndPlan
  <2>2. RowOK(row)
    BY BlankRowIs DEF FormIInv
  <2> HIDE DEF row
  <2>3. /\ RowsOK(rows') /\ Stands(rows', NewId)
        /\ \A S : S \subseteq Held => Keeps(rows, rows', S)
    BY <2>1, <2>2, StoredKeeps DEF FormIInv
  <2>4. panel'.scan = NewId /\ panel'.plan = NoPlan /\ DOMAIN panel' = DOMAIN was
    BY <2>1 DEF PanelOK
  <2>5. PanelOK(panel', rows') /\ panel'.scan # 0
    <3>1. NewId \in Ids /\ 0 \notin Ids
      BY NewIdIsNew DEF Ids
    <3> QED
      BY <2>3, <2>4, <3>1 DEF PanelOK
  <2>6. Keeps(rows, rows', {drafts.scan})
    BY <2>3 DEF Held
  <2>7. DraftsOK(drafts', rows')
    BY <2>1, <2>6, KeepsDrafts DEF FormIInv
  <2>8. TaskOK(task', rows') /\ SuggestedOK(suggested')
    BY <2>1, IdleIs
  <2>9. left' \in 0..MaxSteps /\ PageOK(page') /\ RescansOK(rescans')
    BY <2>1, LeftIs DEF FormIInv
  <2> QED
    BY <2>3, <2>5, <2>7, <2>8, <2>9 DEF FormIInv
<1> QED
  BY <1>1, <1>2

LEMMA ObserveKeeps ==
    ASSUME FormIInv, Observe
    PROVE  FormIInv'
<1>1. RescanAndPlan("observer", panel) /\ UNCHANGED <<answerVars, page, left>>
  BY DEF Observe
<1>2. AnswersIInv'
  BY <1>1, AnswersStutter DEF FormIInv
<1>3. "observer" \in Threads
  BY DEF Threads
<1> QED
  BY <1>1, <1>2, <1>3, RescanAndPlanKeeps DEF FormIInv

(* The panel with another wish is as good.                                  *)
LEMMA ReplacingIs ==
    ASSUME NEW shown, NEW scans, PanelOK(shown, scans)
    PROVE  \A v : /\ PanelOK([shown EXCEPT !.replacing = v], scans)
                  /\ [shown EXCEPT !.replacing = v].scan = shown.scan
                  /\ [shown EXCEPT !.replacing = v].plan = shown.plan
BY DEF PanelOK

LEMMA ToggleReplaceKeeps ==
    ASSUME FormIInv, ToggleReplace
    PROVE  FormIInv'
<1> DEFINE was == [panel EXCEPT !.replacing = ~@]
<1>1. RescanAndPlan("task", was) /\ Budget /\ UNCHANGED <<answerVars, page>>
  BY DEF ToggleReplace
<1>2. AnswersIInv'
  BY <1>1, AnswersStutter DEF FormIInv
<1>3. "task" \in Threads
  BY DEF Threads
<1>4. PanelOK(was, rows) /\ was.scan = panel.scan /\ was.plan = panel.plan
  BY ReplacingIs DEF FormIInv
<1> HIDE DEF was
<1> QED
  BY <1>1, <1>2, <1>3, <1>4, RescanAndPlanKeeps

(* The answers that a fill used are saved ones.                             *)
LEMMA ReportFillKeeps ==
    ASSUME FormIInv, ReportFill
    PROVE  FormIInv'
<1> DEFINE was == [panel EXCEPT !.replacing = FALSE]
<1>1. /\ RescanAndPlan("task", was) /\ UseAnswers(UsedAnswers)
      /\ UNCHANGED <<page, left>> /\ task.stage = "filling"
  BY DEF ReportFill
<1>2. UsedAnswers \subseteq Saved
  <2>1. task.scan # 0
    BY <1>1 DEF FormIInv, TaskOK, Idle, Stands, Ids
  <2>2. panel.scan # 0
    BY <2>1 DEF FormIInv, Held
  <2>3. Stands(rows, panel.scan)
    BY <2>2 DEF FormIInv, PanelOK
  <2> DEFINE row == rows[panel.scan]
             now == Plan(panel.scan, row).actions
  <2>4. DOMAIN now = On(row.form) /\ \A i \in On(row.form) : now[i].saved \in Saved \cup {None}
    BY <2>3, PlanIsDue DEF FormIInv, Stands, Due
  <2> HIDE DEF now
  <2>5. \A i \in DOMAIN now : now[i].saved # None => now[i].saved \in Saved
    BY <2>4
  <2> QED
    BY <2>5 DEF UsedAnswers, now
<1>3. AnswersIInv'
  BY <1>1, <1>2, UseKeepsIInv DEF FormIInv
<1>4. "task" \in Threads
  BY DEF Threads
<1>5. PanelOK(was, rows) /\ was.scan = panel.scan /\ was.plan = panel.plan
  BY ReplacingIs DEF FormIInv
<1> HIDE DEF was
<1> QED
  BY <1>1, <1>3, <1>4, <1>5, RescanAndPlanKeeps

(* A one-off answer: asked for a field of the scan that is shown.           *)
LEMMA AskKeeps ==
    ASSUME FormIInv, NEW i, NEW v \in Values, NEW remember, Ask(i, v, remember),
           panel.scan # 0, i \in On(rows[panel.scan].form), Budget,
           UNCHANGED <<answerVars, page, rows, panel, rescans, drafts>>,
           suggested' = suggested \/ suggested' = Idle
    PROVE  FormIInv'
<1>1. Stands(rows, panel.scan)
  BY DEF FormIInv, PanelOK
<1>2. task'.stage = "giving" /\ task'.scan = panel.scan /\ task'.field = i /\ task'.value = v
  BY DEF Ask
<1>3. TaskOK(task', rows)
  BY <1>1, <1>2 DEF TaskOK
<1>4. suggested' = suggested \/ SuggestedOK(suggested')
  BY IdleIs
<1> QED
  BY <1>2, <1>3, <1>4, TaskStepKeeps

LEMMA AnswerOnceKeeps ==
    ASSUME FormIInv, NEW i, NEW v \in Entered, NEW remember, AnswerOnce(i, v, remember)
    PROVE  FormIInv'
BY AskKeeps, AsksAssumption DEF AnswerOnce

LEMMA ApplyProposalKeeps ==
    ASSUME FormIInv, NEW remember, ApplyProposal(remember)
    PROVE  FormIInv'
<1>1. /\ suggested.scan = panel.scan /\ suggested.field \in On(rows[panel.scan].form)
      /\ Ask(suggested.field, suggested.value, remember) /\ Budget /\ suggested' = Idle
      /\ UNCHANGED <<answerVars, page, rows, panel, rescans, drafts>>
  BY DEF ApplyProposal
<1>2. suggested.scan # 0 /\ suggested.value \in Values
  BY DEF ApplyProposal, FormIInv, SuggestedOK
<1> QED
  BY <1>1, <1>2, AskKeeps

(* POST .../plan: the answer is kept with the scan, and the plan anew.      *)
LEMMA GiveAnswerKeeps ==
    ASSUME FormIInv, GiveAnswer
    PROVE  FormIInv'
<1>1. PICK id \in {task.scan},
           row \in {GivenOnce(rows[task.scan], task.field, task.value, "user_input")} :
           /\ rows' = [rows EXCEPT ![id] = row]
           /\ panel' = [panel EXCEPT !.plan = Plan(id, row)', !.fresh = FALSE]
  BY DEF GiveAnswer
<1>2. /\ task.stage = "giving" /\ task' = Idle
      /\ UNCHANGED <<page, rescans, drafts, suggested, left>>
  BY DEF GiveAnswer
<1>3. /\ Stands(rows, task.scan) /\ task.field \in On(rows[task.scan].form)
      /\ task.value \in Values
  BY <1>2 DEF FormIInv, TaskOK, Idle
<1>4. AnswersIInv'
  <2>1. CASE UNCHANGED answerVars
    BY <2>1, AnswersStutter DEF FormIInv
  <2>2. CASE Remember(Asks[rows[task.scan].form][task.field], task.value)
    <3>1. Asks[rows[task.scan].form][task.field] \in Asked
      BY <1>3, AsksIs DEF Stands, RowOK
    <3> QED
      BY <1>3, <2>2, <3>1, RememberKeepsIInv DEF FormIInv
  <2> QED
    BY <2>1, <2>2 DEF GiveAnswer
<1>5. /\ RowOK(row) /\ RowsOK(rows') /\ \A S : Keeps(rows, rows', S)
      /\ id \in Ids /\ rows'[id] = row
  <2>1. RowsOK(rows) /\ id = task.scan
    BY DEF FormIInv
  <2> DEFINE given == GivenOnce(rows[id], task.field, task.value, "user_input")
  <2>2. /\ RowOK(given) /\ RowsOK([rows EXCEPT ![id] = given])
        /\ \A S : Keeps(rows, [rows EXCEPT ![id] = given], S)
    BY <1>3, <2>1, GivenOnceKeeps
  <2>4. row = given
    BY <2>1
  <2> HIDE DEF given
  <2>3. id \in Ids /\ DOMAIN rows = Ids
    BY <1>1, <1>3 DEF FormIInv, RowsOK, Stands
  <2> QED
    BY <1>1, <2>2, <2>3, <2>4
<1>6. Plan(id, row)'.scan = id /\ Due(row, Plan(id, row)'.actions)
  BY <1>4, <1>5, PlanIsDueNext
<1>7. PanelOK(panel, rows') /\ DraftsOK(drafts', rows')
  BY <1>2, <1>5, KeepsPanel, KeepsDrafts DEF FormIInv
<1>8. PanelOK(panel', rows') /\ panel'.scan = panel.scan
  <2>1. PICK plan : plan = Plan(id, row)'
    OBVIOUS
  <2>2. plan.scan = id /\ Due(rows'[id], plan.actions) /\ Stands(rows', id)
    BY <1>5, <1>6, <2>1 DEF Stands
  <2>3. panel' = [panel EXCEPT !.plan = plan, !.fresh = FALSE]
    BY <1>1, <2>1
  <2> QED
    BY <1>7, <2>2, <2>3 DEF PanelOK
<1>9. panel'.scan # 0
  BY <1>3, <1>8 DEF FormIInv, Held, Stands, Ids
<1> QED
  BY <1>2, <1>4, <1>5, <1>7, <1>8, <1>9, IdleIs DEF FormIInv

LEMMA ProposeKeeps ==
    ASSUME FormIInv, Propose
    PROVE  FormIInv'
<1>1. /\ panel.scan # 0 /\ Budget /\ task' = [stage |-> "proposing", scan |-> panel.scan]
      /\ UNCHANGED <<answerVars, page, rows, panel, rescans, drafts, suggested>>
  BY DEF Propose
<1>2. TaskOK(task', rows)
  BY <1>1 DEF FormIInv, PanelOK, TaskOK
<1> QED
  BY <1>1, <1>2, TaskStepKeeps

LEMMA ProposedKeeps ==
    ASSUME FormIInv, Proposed
    PROVE  FormIInv'
<1>1. /\ task.stage = "proposing" /\ task' = Idle
      /\ UNCHANGED <<answerVars, page, rows, panel, rescans, drafts, left>>
      /\ \/ \E s \in Suggestions(task.scan) :
                suggested' = [scan |-> panel.scan, field |-> s[1], value |-> s[2]]
         \/ suggested' = Idle
  BY DEF Proposed
<1>2. task.scan # 0
  BY <1>1 DEF FormIInv, TaskOK, Idle, Stands, Ids
<1>3. panel.scan # 0
  BY <1>2 DEF FormIInv, Held
<1>4. \A s \in Suggestions(task.scan) : s[2] \in Values
  BY DEF Suggestions
<1>5. SuggestedOK(suggested')
  BY <1>1, <1>3, <1>4 DEF SuggestedOK
<1> QED
  BY <1>1, <1>5, IdleIs, TaskStepKeeps

LEMMA RequestFailsKeeps ==
    ASSUME FormIInv, RequestFails
    PROVE  FormIInv'
BY IdleIs, TaskStepKeeps DEF RequestFails

-----------------------------------------------------------------------------
(* The drafts.                                                              *)

LEMMA RunQueueKeeps ==
    ASSUME FormIInv, RunQueue(panel, rows), Budget \/ UNCHANGED left,
           UNCHANGED <<answerVars, page, rows, panel, rescans, task, suggested>>
    PROVE  FormIInv'
<1>1. DraftsOK(drafts', rows) /\ drafts'.scan \in {0, panel.scan}
  BY RunQueueIs DEF FormIInv
<1> QED
  BY <1>1, DraftStepKeeps

LEMMA DraftAgainKeeps ==
    ASSUME FormIInv, NEW text, DraftAgain(text)
    PROVE  FormIInv'
<1>1. /\ drafts.stage = "generating" /\ drafts' = [drafts EXCEPT !.attempts = @ - 1]
      /\ UNCHANGED <<answerVars, page, rows, panel, rescans, task, suggested, left>>
  BY DEF DraftAgain, DraftPending
<1>2. /\ DOMAIN drafts = {"stage", "scan", "field", "current", "attempts"}
      /\ Stands(rows, drafts.scan) /\ drafts.field \in On(rows[drafts.scan].form)
  BY <1>1 DEF FormIInv, DraftsOK, Idle
<1>3. /\ drafts'.stage = "generating" /\ drafts'.scan = drafts.scan
      /\ drafts'.field = drafts.field /\ DOMAIN drafts' = DOMAIN drafts
  BY <1>1, <1>2
<1>4. DraftsOK(drafts', rows)
  BY <1>2, <1>3 DEF DraftsOK
<1> QED
  BY <1>1, <1>3, <1>4, DraftStepKeeps

LEMMA DraftPreservesKeeps ==
    ASSUME FormIInv, NEW text, DraftPreserves(text)
    PROVE  FormIInv'
<1>1. /\ Rescan("drafts", page, panel, Settled)
      /\ drafts' = [stage |-> "rescanning", scan |-> 0]
      /\ UNCHANGED <<answerVars, page, rows, task, suggested, left>>
  BY DEF DraftPreserves
<1>2. DraftsOK(drafts', rows) /\ drafts'.scan = 0
  BY <1>1, IdleIs
<1>3. AnswersIInv'
  BY <1>1, AnswersStutter DEF FormIInv
<1>4. "drafts" \in Threads
  BY DEF Threads
<1> QED
  BY <1>1, <1>2, <1>3, <1>4, ScanKeeps DEF FormIInv

(* Only grounded prose for a question that takes prose is to be approved.   *)
LEMMA DraftAcceptedKeeps ==
    ASSUME FormIInv, NEW text, DraftAccepted(text)
    PROVE  FormIInv'
<1>1. /\ drafts.stage = "generating" /\ text \in Grounded
      /\ IsDraftEligible(Asks[rows[drafts.scan].form][drafts.field])
      /\ drafts' = [stage |-> "approving", scan |-> drafts.scan, field |-> drafts.field,
                    current |-> TRUE, text |-> text]
      /\ UNCHANGED <<answerVars, page, rows, panel, rescans, task, suggested, left>>
  BY DEF DraftAccepted, DraftPending, DraftAllowed
<1>2. Stands(rows, drafts.scan) /\ drafts.field \in On(rows[drafts.scan].form)
  BY <1>1 DEF FormIInv, DraftsOK, Idle
<1>3. /\ drafts'.stage = "approving" /\ drafts'.scan = drafts.scan
      /\ drafts'.field = drafts.field /\ drafts'.text = text
      /\ DOMAIN drafts' = {"stage", "scan", "field", "current", "text"}
  BY <1>1
<1>4. DraftsOK(drafts', rows)
  BY <1>1, <1>2, <1>3 DEF DraftsOK
<1> QED
  BY <1>1, <1>3, <1>4, DraftStepKeeps

(* The draft is kept with its scan; what is written is what the plan says.  *)
LEMMA DraftApprovedKeeps ==
    ASSUME FormIInv, DraftApproved
    PROVE  FormIInv'
<1> DEFINE id == drafts.scan
           i == drafts.field
           row == GivenOnce(rows[id], i, drafts.text, "generated")
           plan == Plan(id, row)
           scans == [rows EXCEPT ![id] = row]
<1>1. drafts.stage = "approving" /\ UNCHANGED <<answerVars, task, suggested, left>>
  BY DEF DraftApproved
<1>2. /\ Stands(rows, id) /\ i \in On(rows[id].form) /\ drafts.text \in Grounded
      /\ IsDraftEligible(Asks[rows[id].form][i])
  BY <1>1 DEF FormIInv, DraftsOK, Idle
<1>3. /\ rows' = scans
      /\ \/ /\ plan.actions[i].value = Unknown \/ i \notin On(page.form)
            /\ UNCHANGED <<page, panel, rescans>>
            /\ RunQueue(panel, scans)
         \/ /\ plan.actions[i].value # Unknown /\ i \in On(page.form)
            /\ Write(i, plan.actions[i].value)
            /\ Rescan("drafts", page', [panel EXCEPT !.plan = plan], Settled)
            /\ drafts' = [stage |-> "rescanning", scan |-> 0]
  BY Zenon DEF DraftApproved
<1>4. drafts.text \in Values
  BY <1>2, AsksAssumption
<1>5. RowsOK(rows)
  BY DEF FormIInv
<1>6. /\ RowOK(row) /\ row.form = rows[id].form /\ RowsOK(scans)
      /\ \A S : Keeps(rows, scans, S) /\ scans[id] = row /\ id \in Ids
  <2>1. /\ RowOK(row) /\ row.form = rows[id].form /\ RowsOK(scans)
        /\ \A S : Keeps(rows, scans, S)
    <3>1. "generated" \in {"user_input", "generated"}
      OBVIOUS
    <3> HIDE DEF id, i
    <3> QED
      BY <1>2, <1>4, <1>5, <3>1, GivenOnceKeeps
  <2> HIDE DEF row
  <2> QED
    BY <1>2, <1>5, <2>1 DEF Stands, RowsOK
<1> HIDE DEF row, scans
<1>7. plan.scan = id /\ Due(row, plan.actions)
  BY <1>6, PlanIsDue DEF FormIInv
<1> HIDE DEF plan
<1>8. /\ PanelOK(panel, scans) /\ TaskOK(task, scans) /\ RowsOK(rows')
      /\ PageOK(page) /\ PanelOK(panel, rows') /\ TaskOK(task', rows')
  BY <1>3, <1>1, <1>6, KeepsPanel, KeepsTask DEF FormIInv
<1>9. AnswersIInv'
  BY <1>1, AnswersStutter DEF FormIInv
<1>10. CASE UNCHANGED <<page, panel, rescans>> /\ RunQueue(panel, scans)
  <2>1. DraftsOK(drafts', rows') /\ drafts'.scan \in {0, panel.scan}
    BY <1>3, <1>8, <1>10, RunQueueIs
  <2>2. panel'.scan = 0 => Held' = {0}
    BY <1>1, <1>10, <2>1 DEF FormIInv, Held
  <2> QED
    BY <1>1, <1>3, <1>8, <1>9, <1>10, <2>1, <2>2 DEF FormIInv
<1>11. CASE /\ i \in On(page.form)
            /\ Write(i, plan.actions[i].value)
            /\ Rescan("drafts", page', [panel EXCEPT !.plan = plan], Settled)
            /\ drafts' = [stage |-> "rescanning", scan |-> 0]
  <2>1. plan.actions[i].value \in MaybeValues
    BY <1>2, <1>6, <1>7 DEF Due, Actions, MaybeValues
  <2>2. PageOK(page')
    BY <1>8, <1>11, <2>1, WriteIs
  <2> DEFINE was == [panel EXCEPT !.plan = plan]
  <2>3. PanelOK(was, rows') /\ was.scan = panel.scan /\ was.plan = plan
    BY <1>3, <1>6, <1>7, <1>8 DEF PanelOK, Stands
  <2>4. DraftsOK(drafts', rows') /\ drafts'.scan = 0
    BY <1>11, IdleIs
  <2>5. Rescan("drafts", page', was, Settled) /\ "drafts" \in Threads
    BY <1>11 DEF Threads
  <2> HIDE DEF was
  <2> QED
    BY <1>1, <1>2, <1>7, <1>8, <1>9, <2>2, <2>3, <2>4, <2>5, ScanKeeps
<1> QED
  BY <1>3, <1>10, <1>11

-----------------------------------------------------------------------------
(* The user and the page.                                                   *)

LEMMA PageStepKeeps ==
    ASSUME FormIInv, PageOK(page'), AnswersIInv', Budget, UNCHANGED <<rows, panelVars>>
    PROVE  FormIInv'
<1>1. left' \in 0..MaxSteps
  BY LeftIs
<1> QED
  BY <1>1 DEF FormIInv, panelVars, Held

LEMMA TypeKeeps ==
    ASSUME FormIInv, NEW i, NEW v \in Entered \cup {Unknown}, Type(i, v)
    PROVE  FormIInv'
<1>1. v \in MaybeValues
  BY AsksAssumption DEF MaybeValues
<1>2. PageOK(page') /\ AnswersIInv'
  BY <1>1, WriteIs, AnswersStutter DEF Type, FormIInv
<1> QED
  BY <1>2, PageStepKeeps DEF Type

LEMMA MoveOnKeeps ==
    ASSUME FormIInv, NEW form \in Forms, MoveOn(form)
    PROVE  FormIInv'
<1>1. PageOK(page')
  BY DEF MoveOn, PageOK, Blank, MaybeValues
<1>2. AnswersIInv'
  BY AnswersStutter DEF MoveOn, FormIInv
<1> QED
  BY <1>1, <1>2, PageStepKeeps DEF MoveOn

LEMMA EditAnswersKeeps ==
    ASSUME FormIInv, EditAnswers
    PROVE  FormIInv'
<1>1. AnswersIInv'
  <2>1. ASSUME NEW f \in EditedFacts, NEW v \in Edited \cup {Unknown}, SaveProfile(f, v)
        PROVE  AnswersIInv'
    BY <2>1, SaveProfileKeepsIInv, AsksAssumption DEF FormIInv
  <2>2. ASSUME NEW p \in EditedPrompts, NEW v \in Edited, NEW aliases \in SUBSET Phrases,
               PutAnswer(p, v, "unknown", aliases)
        PROVE  AnswersIInv'
    BY <2>2, UpsertKeepsIInv, AsksAssumption DEF FormIInv, PutAnswer, Intents
  <2>3. ASSUME NEW p \in EditedPrompts, DeleteAnswer(p) PROVE AnswersIInv'
    BY <2>3, DeleteKeepsIInv, AsksAssumption DEF FormIInv
  <2> QED
    BY <2>1, <2>2, <2>3 DEF EditAnswers
<1>2. PageOK(page')
  BY DEF EditAnswers, FormIInv
<1> QED
  BY <1>1, <1>2, PageStepKeeps DEF EditAnswers

-----------------------------------------------------------------------------
(* The invariant.                                                           *)

LEMMA ReviewInitially ==
    ReviewInit => FormIInv
<1> SUFFICES ASSUME ReviewInit PROVE FormIInv
  OBVIOUS
<1>1. AnswersIInv
  BY AnswersInitially DEF ReviewInit
<1>2. PageOK(page)
  <2>1. PICK form \in Forms : \E i \in On(form), v \in Entered \cup {Unknown} :
             page = [form |-> form, values |-> [Blank(form) EXCEPT ![i] = v]]
    BY DEF ReviewInit
  <2>2. PICK i \in On(form), v \in Entered \cup {Unknown} :
             page = [form |-> form, values |-> [Blank(form) EXCEPT ![i] = v]]
    BY <2>1
  <2>3. v \in MaybeValues /\ Blank(form) \in [On(form) -> MaybeValues]
    BY AsksAssumption DEF MaybeValues, Blank
  <2> QED
    BY <2>2, <2>3 DEF PageOK
<1>3. RowsOK(rows)
  BY DEF ReviewInit, RowsOK
<1>4. RescansOK(rescans)
  BY DEF ReviewInit, RescansOK
<1>5. panel = NoPanel /\ panel.plan = NoPlan /\ panel.scan = 0
      /\ DOMAIN panel = {"scan", "plan", "replacing", "print", "fresh"}
  BY DEF ReviewInit, NoPanel
<1>6. PanelOK(panel, rows) /\ panel.plan.scan = 0
  BY <1>5 DEF PanelOK, NoPlan
<1>7. /\ TaskOK(task, rows) /\ DraftsOK(drafts, rows) /\ SuggestedOK(suggested)
      /\ task.scan = 0 /\ drafts.scan = 0
  BY IdleIs DEF ReviewInit
<1>8. left \in 0..MaxSteps
  BY AsksAssumption DEF ReviewInit
<1> QED
  BY <1>1, <1>2, <1>3, <1>4, <1>5, <1>6, <1>7, <1>8 DEF FormIInv, Held

LEMMA ReviewStep ==
    FormIInv /\ [ReviewNext]_vars => FormIInv'
<1> SUFFICES ASSUME FormIInv, [ReviewNext]_vars
             PROVE  FormIInv'
  OBVIOUS
<1>1. ASSUME PanelStep PROVE FormIInv'
  <2>1. ASSUME NEW text \in Texts, DraftAgain(text) PROVE FormIInv'
    BY <2>1, DraftAgainKeeps
  <2>2. ASSUME NEW text \in Texts, DraftRefused(text) PROVE FormIInv'
    BY <2>2, RunQueueKeeps DEF DraftRefused
  <2>3. ASSUME NEW text \in Texts, DraftPreserves(text) PROVE FormIInv'
    BY <2>3, DraftPreservesKeeps
  <2>4. ASSUME NEW text \in Texts, DraftAccepted(text) PROVE FormIInv'
    BY <2>4, DraftAcceptedKeeps
  <2>5. CASE Observe \/ ReportFill \/ GiveAnswer \/ Proposed \/ DraftApproved
    BY <2>5, ObserveKeeps, ReportFillKeeps, GiveAnswerKeeps, ProposedKeeps, DraftApprovedKeeps
  <2>6. ASSUME NEW t \in Threads, Plans(t) PROVE FormIInv'
    BY <2>6, PlansKeeps
  <2>7. ASSUME NEW i \in Fields, FillField(i) PROVE FormIInv'
    BY <2>7, FillFieldKeeps
  <2> QED
    BY <1>1, <2>1, <2>2, <2>3, <2>4, <2>5, <2>6, <2>7 DEF PanelStep
<1>2. ASSUME OutsideStep PROVE FormIInv'
  <2>1. CASE StartFill \/ CancelFill \/ ToggleReplace \/ Propose \/ EditAnswers \/ RequestFails
    BY <2>1, StartFillKeeps, CancelFillKeeps, ToggleReplaceKeeps, ProposeKeeps,
       EditAnswersKeeps, RequestFailsKeeps
  <2>2. ASSUME NEW i \in Fields, NEW v \in Entered, NEW b \in BOOLEAN, AnswerOnce(i, v, b)
        PROVE  FormIInv'
    BY <2>2, AnswerOnceKeeps
  <2>3. ASSUME NEW b \in BOOLEAN, ApplyProposal(b) PROVE FormIInv'
    BY <2>3, ApplyProposalKeeps
  <2>4. ASSUME NEW i \in Fields, NEW v \in Entered \cup {Unknown}, Type(i, v) PROVE FormIInv'
    BY <2>4, TypeKeeps
  <2>5. ASSUME NEW form \in Forms, MoveOn(form) PROVE FormIInv'
    BY <2>5, MoveOnKeeps
  <2>6. CASE DraftFails
    BY <2>6, RunQueueKeeps DEF DraftFails
  <2>7. ASSUME NEW t \in Threads, RescanFails(t) PROVE FormIInv'
    BY <2>7, RescanFailsKeeps
  <2> QED
    BY <1>2, <2>1, <2>2, <2>3, <2>4, <2>5, <2>6, <2>7 DEF OutsideStep
<1>3. CASE UNCHANGED vars
  BY <1>3, ReviewStutter
<1> QED
  BY <1>1, <1>2, <1>3 DEF ReviewNext

LEMMA FormIInvTyped ==
    FormIInv => FormTypeOK
<1> SUFFICES ASSUME FormIInv PROVE FormTypeOK
  OBVIOUS
<1>1. AnswersTypeOK /\ left \in 0..MaxSteps
  BY DEF FormIInv, AnswersIInv
<1>2. page.form \in Forms /\ page.values \in [On(page.form) -> Values \cup {Unknown}]
  BY DEF FormIInv, PageOK, MaybeValues
<1>3. \A id \in Ids : RowTyped(rows[id])
  BY DEF FormIInv, RowsOK, RowOK, RowTyped
<1>4. ASSUME NEW id \in Held \ {0} PROVE rows[id] # NoRow
  <2>1. ASSUME Stands(rows, id) PROVE rows[id] # NoRow
    BY <2>1, RowIsNoNoRow DEF Stands
  <2>2. CASE id = panel.scan
    BY <2>1, <2>2 DEF FormIInv, PanelOK
  <2>3. CASE id = panel.plan.scan
    BY <2>1, <2>3 DEF FormIInv, PanelOK, NoPlan
  <2>4. CASE id = task.scan
    BY <2>1, <2>4 DEF FormIInv, TaskOK, Idle
  <2>5. CASE id = drafts.scan
    BY <2>1, <2>5 DEF FormIInv, DraftsOK, Idle
  <2> QED
    BY <2>2, <2>3, <2>4, <2>5 DEF Held
<1>5. panel.plan # NoPlan =>
          panel.plan.actions \in [On(rows[panel.plan.scan].form) -> Actions]
  BY DEF FormIInv, PanelOK, Due
<1> QED
  BY <1>1, <1>2, <1>3, <1>4, <1>5 DEF FormTypeOK

(* extension.py, panel.js: for any forms, questions, profiles, answers and  *)
(* texts, the state is typed, and no scan is dropped that a plan or a       *)
(* request still refers to.                                                 *)
THEOREM FormTypeOKAlways == ReviewSpec => []FormTypeOK
<1>1. ReviewSpec => []FormIInv
  BY ReviewInitially, ReviewStep, PTL DEF ReviewSpec
<1> QED
  BY <1>1, FormIInvTyped, PTL

(* A remembered answer is used also while the panel is at work: what the    *)
(* extension saves has no aliases, so nothing comes before it but an answer *)
(* to which an API client gave this prompt as an alias, saved or used later *)
(* (panel.js recordRememberedAnswersUsed, override_fill_plan).              *)
THEOREM RememberedWhileReviewing == ReviewSpec => []RememberedAnswerIsUsed
<1>1. ReviewSpec => []AnswersIInv
  <2>1. FormIInv => AnswersIInv
    BY DEF FormIInv
  <2> QED
    BY <2>1, ReviewInitially, ReviewStep, PTL DEF ReviewSpec
<1> QED
  BY <1>1, ToldIsUsed, PTL

-----------------------------------------------------------------------------
(* What goes into a field.                                                  *)

(* What FillsAreDue says of one field, in one step.                         *)
FillIsDue(i) ==
    Filled(i) =>
        LET filling == task.stage = "filling" /\ task # task'
            id == IF filling THEN task.scan ELSE drafts.scan
            row == rows[id]
            a == IF filling THEN task.actions[i]
                 ELSE [value |-> drafts.text, source |-> "generated", saved |-> None]
            asked == Asks[row.form][i]
        IN  /\ a.source = "generated" => a.value \in Grounded
            /\ page.form = row.form =>
                   /\ row.seen[i] # Unknown =>
                          row.replace \/ a.source \in {"user_input", "generated"}
                   /\ a.source = "saved_answer" => ~asked.named
                   /\ a.source = "generated" => IsDraftEligible(asked)

(* The queue fills in a field, and leaves the user's task alone.            *)
LEMMA QueueFillsAlone ==
    ASSUME FormIInv, ReviewNext, drafts.stage = "approving", page' # page,
           drafts'.stage = "rescanning"
    PROVE  task' = task
<1>1. drafts.stage # "rescanning" /\ drafts' # drafts
  OBVIOUS
<1>2. CASE DraftApproved
  BY <1>2 DEF DraftApproved
<1>3. CASE PanelStep
  <2>1. CASE Observe \/ ReportFill \/ GiveAnswer \/ Proposed
    BY <2>1 DEF Observe, ReportFill, GiveAnswer, Proposed
  <2>2. ASSUME NEW t \in Threads, Plans(t) PROVE FALSE
    BY <2>2 DEF Plans, GoesOn
  <2>3. ASSUME NEW i \in Fields, FillField(i) PROVE FALSE
    BY <1>1, <2>3 DEF FillField
  <2>4. ASSUME NEW text \in Texts,
               \/ DraftAgain(text) \/ DraftRefused(text)
               \/ DraftPreserves(text) \/ DraftAccepted(text)
        PROVE  FALSE
    BY <2>4 DEF DraftAgain, DraftRefused, DraftPreserves, DraftAccepted
  <2> QED
    BY <1>2, <1>3, <2>1, <2>2, <2>3, <2>4 DEF PanelStep
<1>4. CASE OutsideStep
  <2>1. CASE StartFill \/ CancelFill \/ ToggleReplace \/ Propose \/ RequestFails \/ DraftFails
    BY <2>1 DEF StartFill, CancelFill, ToggleReplace, Propose, RequestFails, DraftFails
  <2>2. ASSUME NEW i, NEW v, NEW b, AnswerOnce(i, v, b) PROVE FALSE
    BY <2>2 DEF AnswerOnce
  <2>3. ASSUME NEW b, ApplyProposal(b) PROVE FALSE
    BY <2>3 DEF ApplyProposal
  <2>4. ASSUME NEW i, NEW v, Type(i, v) PROVE FALSE
    BY <1>1, <2>4 DEF Type, panelVars
  <2>5. ASSUME NEW form, MoveOn(form) PROVE FALSE
    BY <1>1, <2>5 DEF MoveOn, panelVars
  <2>6. CASE EditAnswers
    BY <2>6 DEF EditAnswers
  <2>7. ASSUME NEW t, RescanFails(t) PROVE FALSE
    BY <2>7 DEF RescanFails, RescanBreaksOff, GoesOn
  <2> QED
    BY <1>4, <2>1, <2>2, <2>3, <2>4, <2>5, <2>6, <2>7 DEF OutsideStep
<1> QED
  BY <1>3, <1>4 DEF ReviewNext

LEMMA FillStepIsDue ==
    FormIInv /\ [ReviewNext]_vars => [\A i \in Fields : FillIsDue(i)]_vars
<1> SUFFICES ASSUME FormIInv, [ReviewNext]_vars, ~UNCHANGED vars, NEW i \in Fields, Filled(i)
             PROVE  FillIsDue(i)
  BY DEF FillIsDue
<1>1. ASSUME task.stage = "filling", i \in task.todo, task # task'
      PROVE  FillIsDue(i)
  <2>1. /\ Stands(rows, task.scan) /\ Due(rows[task.scan], task.actions)
        /\ i \in On(rows[task.scan].form) /\ task.actions[i].value # Unknown
    BY <1>1 DEF FormIInv, TaskOK, Idle
  <2>2. DueAt(rows[task.scan], i, task.actions[i])
    BY <2>1 DEF Due
  <2> QED
    BY <1>1, <2>1, <2>2 DEF FillIsDue, DueAt
<1>2. ASSUME drafts.stage = "approving", drafts.field = i, task' = task
      PROVE  FillIsDue(i)
  <2>1. drafts.text \in Grounded /\ IsDraftEligible(Asks[rows[drafts.scan].form][i])
    BY <1>2 DEF FormIInv, DraftsOK, Idle
  <2> QED
    BY <1>2, <2>1 DEF FillIsDue
<1>3. CASE /\ task.stage = "filling" /\ i \in task.todo
           /\ task'.stage = "filling" /\ i \notin task'.todo \cup task'.failed
  BY <1>1, <1>3
<1>4. CASE /\ drafts.stage = "approving" /\ drafts.field = i /\ page' # page
           /\ drafts'.stage = "rescanning"
  BY <1>2, <1>4, QueueFillsAlone
<1> QED
  BY <1>3, <1>4 DEF Filled

(* fillReviewedFields, processAutomaticDraft: for any forms, questions,     *)
(* profiles, answers and texts, and wherever the user types, drafted prose  *)
(* is grounded; and while the page shows the form that was scanned, a value *)
(* that the scan saw is written over only when that scan was to replace     *)
(* values or the answer was given in the panel, a saved answer never lands  *)
(* in a question that is sensitive by its label, and prose goes only where  *)
(* prose is wanted.                                                         *)
THEOREM FillsAreDueAlways == ReviewSpec => FillsAreDue
<1>1. ReviewSpec => []FormIInv
  BY ReviewInitially, ReviewStep, PTL DEF ReviewSpec
<1> QED
  BY <1>1, FillStepIsDue, PTL DEF ReviewSpec, FillsAreDue, FillIsDue
=============================================================================
