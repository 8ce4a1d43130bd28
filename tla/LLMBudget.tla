------------------------------- MODULE LLMBudget -------------------------------
(* The daily budget of one profile (llm.py, application_store.py and the   *)
(* middleware of api.py).  The middleware reads the budget when a request  *)
(* arrives; complete_json compares the day's usage with it before a call   *)
(* and records the call after it, with the call awaited in between.  So    *)
(* requests that check while others wait for their answers overspend.      *)
(*                                                                         *)
(* Calls only: the token budget is read and recorded at the same places.   *)
(* A profile without a budget is one whose budget is never reached.        *)
EXTENDS Naturals, FiniteSets

CONSTANTS
    Requests,   \* requests that call the model, each used once
    Budgets,    \* daily_call_budget, as the user may set it
    MaxBudget   \* the largest of them

ASSUME BudgetsAreBounded ==
    MaxBudget \in Nat /\ Budgets \subseteq 0..MaxBudget /\ Budgets # {}
ASSUME RequestsAreFinite == IsFiniteSet(Requests)

VARIABLES
    budget,     \* llm_settings.daily_call_budget of the stored profile
    usage,      \* llm_usage.calls of today
    bound,      \* the budget in the ProfileLLMContext of each request
    calling     \* the requests that wait for a backend's answer

budgetVars == <<budget, usage, bound, calling>>

BudgetTypeOK ==
    /\ budget \in Budgets
    /\ usage \in Nat
    /\ bound \in [Requests -> Budgets]
    /\ calling \subseteq Requests

BudgetInit ==
    /\ budget \in Budgets
    /\ usage = 0
    /\ bound = [h \in Requests |-> budget]
    /\ calling = {}

(* bind_profile_llm: the request keeps the budget it found.                *)
Bind(h) ==
    /\ bound' = [bound EXCEPT ![h] = budget]
    /\ UNCHANGED <<budget, usage, calling>>

(* check_llm_budget                                                        *)
WithinBudget(h) == usage < bound[h]

(* Mutant: a call that skips check_llm_budget.                             *)
StartCallUnchecked(h) ==
    /\ h \notin calling
    /\ calling' = calling \cup {h}
    /\ UNCHANGED <<budget, usage, bound>>

(* complete_json up to the await: the check passes and the call is out.    *)
StartCall(h) ==
    /\ h \notin calling
    /\ WithinBudget(h)
    /\ calling' = calling \cup {h}
    /\ UNCHANGED <<budget, usage, bound>>

(* The backend answers, with JSON or an error, after any retries: finally  *)
(* record_llm_call adds one call to the day's row.                         *)
EndCall(h) ==
    /\ h \in calling
    /\ calling' = calling \ {h}
    /\ usage' = usage + 1
    /\ UNCHANGED <<budget, bound>>

(* PUT /profile/llm                                                        *)
SetBudget ==
    /\ budget' \in Budgets
    /\ UNCHANGED <<usage, bound, calling>>

(* The UTC day changes: get_llm_usage_today finds no row yet.              *)
NewDay ==
    /\ usage' = 0
    /\ UNCHANGED <<budget, bound, calling>>

(* delete_profile_data drops the usage rows and the settings; the profile  *)
(* is created again by the next request for it.                            *)
ForgetBudget ==
    /\ usage' = 0
    /\ budget' \in Budgets
    /\ UNCHANGED <<bound, calling>>

(* The process dies: calls that were out are never recorded.               *)
DropCalls ==
    /\ calling' = {}
    /\ UNCHANGED <<budget, usage, bound>>

BudgetNext ==
    \/ \E h \in Requests : Bind(h) \/ StartCall(h) \/ EndCall(h)
    \/ SetBudget \/ NewDay \/ ForgetBudget \/ DropCalls

BudgetSpec == BudgetInit /\ [][BudgetNext]_budgetVars

-----------------------------------------------------------------------------
(* However requests, budget changes and days interleave, a day's calls and *)
(* those still out exceed the largest budget by less than the number of    *)
(* concurrent requests.  docs/AUTH.md promises that the model is not       *)
(* called once the budget is reached; this is what the check before and    *)
(* the record after the call make of it.                                   *)
OverspendIsBounded ==
    Requests # {} =>
        usage + Cardinality(calling) < MaxBudget + Cardinality(Requests)
=============================================================================
