---------------------------- MODULE MCFormReview ----------------------------
(* Two forms that share the name of a field, a third, and a page without a  *)
(* form; a small profile and bank.  A behaviour either edits the answers in *)
(* every way and asks what a form would get, or has the panel at work on    *)
(* the forms: the state spaces add up.  In the second kind the profile has  *)
(* a fact from the start, so that a fill has something to write.            *)
EXTENDS FormReview, TLC

CONSTANT MaxEdits   \* bound: edits in a behaviour of the first kind
VARIABLES mode, edits

Question(prompt, intent, input) ==
    [prompt |-> prompt, intent |-> intent, input |-> input, record |-> "none",
     index |-> 0, key |-> "none", flagged |-> FALSE, named |-> FALSE, required |-> TRUE,
     offered |-> {}, contact |-> "none", direct |-> <<>>, skill |-> FALSE, eeo |-> "none"]

Why == Question("why us", "narrative", "textarea")
Relocate ==
    [Question("relocate", "relocation", "select") EXCEPT !.offered = {"yes", "no"}]
Moving == Question("moving", "unknown", "text")
Gender ==
    [Question("gender", "unknown", "textarea") EXCEPT !.named = TRUE, !.eeo = "gender"]

MCAsks ==
    [first |-> <<Relocate, Why>>, second |-> (2 :> Gender), third |-> <<Moving>>,
     blank |-> <<>>]
MCAsked == {Relocate, Why, Gender, Moving}
MCValues == {"yes", "no", "prose"}
MCTexts == {"prose", "boast"}
MCGrounded == {"prose"}
MCAliases == [v \in MCValues |-> {}]
MCTruth == [v \in MCValues |-> IF v \in {"yes", "no"} THEN v ELSE "unclear"]
MCAlike == {<<"relocate", "moving">>, <<"moving", "relocate">>}
MCCustomPrompts == <<>>
MCFacts ==
    {<<"application_facts", "willing_to_relocate", 0>>,
     <<"equal_opportunity", "allow_autofill", 0>>,
     <<"equal_opportunity", "gender", 0>>}
MCEditedFacts == {<<"application_facts", "willing_to_relocate", 0>>}
MCHolds == [f \in MCFacts |-> IF f[2] = "gender" THEN {"prose"} ELSE {"yes", "no"}]
NoFacts == [f \in MCFacts |-> Unknown]
SomeFacts == [f \in MCFacts |-> IF f[1] = "application_facts" THEN "yes" ELSE Unknown]
MCProfiles == {NoFacts, SomeFacts}

FormsInit ==
    /\ ReviewInit
    /\ \/ mode = "answers" /\ edits = MaxEdits /\ profile = NoFacts /\ page.form = "second"
       \/ mode = "review" /\ edits = 0 /\ profile = SomeFacts
EditOnly ==
    /\ mode = "answers"
    /\ edits > 0 /\ edits' = edits - 1
    /\ AnswersNext
    /\ UNCHANGED <<page, rows, panelVars, left, mode>>
ReviewOnly == mode = "review" /\ ReviewNext /\ UNCHANGED <<mode, edits>>
FormsSpec ==
    /\ FormsInit /\ [][EditOnly \/ ReviewOnly]_<<vars, mode, edits>>
    /\ WF_vars(mode = "review" /\ PanelStep)
=============================================================================
