---------------------------- MODULE ResumeSessions ----------------------------
(* The sessions of the classic /latex API (session.py, routers/latex.py):  *)
(* a registry of ResumeSession objects in memory, written through to the   *)
(* latex_sessions table, and requests that hold an object's lock while     *)
(* they await the model.                                                   *)
(*                                                                         *)
(* One profile; sessions of other profiles are hidden from its requests.   *)
(* A resume's text is the set of refinements that went into it.  Time is   *)
(* counted in ages: how long ago an object or a row was last accessed.     *)
EXTENDS LLMBudget, SequencesExt

CONSTANTS
    Sessions,   \* session ids, each given to one upload
    NoRequest,  \* nobody: an optimization_result or a lock's holder
    TTL         \* SESSION_TTL_SECONDS, in ticks

ASSUME SessionsAssumption == NoRequest \notin Requests /\ TTL \in Nat

VARIABLES
    opened,     \* the session ids handed out so far
    objects,    \* the ResumeSession objects built for each session
    registered, \* the sessions whose last object is in the registry
    rows,       \* the latex_sessions table
    req,        \* the requests: how far each of them is
    deleted     \* history: the sessions that the user deleted

sessionVars == <<opened, objects, registered, rows, req, deleted>>
vars == <<budgetVars, sessionVars>>

NoRow == [age |-> TTL + 2]
Ages == 0..(TTL + 1)
Contents == [text : SUBSET Requests, result : Requests \cup {NoRequest}, age : Ages]
Objects == [text : SUBSET Requests, result : Requests \cup {NoRequest},
            age : Ages, holder : Requests \cup {NoRequest}]
Idle == {[stage |-> st] : st \in {"new", "answered", "refused", "lost"}}
Busy == [stage : {"waiting", "working"},
         op : {"optimize", "refine", "tailor", "tailorRefine"},
         session : Sessions, object : Nat, base : SUBSET Requests]

TypeOK ==
    /\ BudgetTypeOK
    /\ opened \subseteq Sessions
    /\ objects \in [Sessions -> Seq(Objects)]
    /\ registered \subseteq opened
    /\ \A s \in registered : objects[s] # <<>>
    /\ rows \in [Sessions -> Contents \cup {NoRow}]
    /\ req \in [Requests -> Idle \cup Busy]
    /\ deleted \subseteq Sessions

Stage(h) == req[h].stage
InFlight(h) == Stage(h) \in {"waiting", "working"}
HasRow(s) == rows[s] # NoRow

Init ==
    /\ BudgetInit
    /\ opened = {}
    /\ objects = [s \in Sessions |-> <<>>]
    /\ registered = {}
    /\ rows = [s \in Sessions |-> NoRow]
    /\ req = [h \in Requests |-> [stage |-> "new"]]
    /\ deleted = {}

-----------------------------------------------------------------------------
(* The store: SessionStore and the table's operations in ApplicationStore. *)

(* The object of the registry, or one rehydrated from the row.             *)
Loaded(s) ==
    IF s \in registered
    THEN Last(objects[s])
    ELSE [text |-> rows[s].text, result |-> rows[s].result,
          age |-> rows[s].age, holder |-> NoRequest]

Exists(s) == s \in registered \/ HasRow(s)
Expired(x) == x.age > TTL
Available(s) == Exists(s) /\ ~Expired(Loaded(s))

(* Mutant: the row is found, but no object is built from it.               *)
GotUnbuilt(s, x) ==
    /\ objects' = [objects EXCEPT ![s] =
           IF s \in registered THEN Append(Front(@), x) ELSE @]
    /\ registered' = registered \cup {s}

(* SessionStore.get for a session that is there: registered and touched,   *)
(* in memory only.                                                         *)
Got(s, x) ==
    /\ objects' = [objects EXCEPT ![s] =
           IF s \in registered THEN Append(Front(@), x) ELSE Append(@, x)]
    /\ registered' = registered \cup {s}

(* SessionStore.delete                                                     *)
Erase(s) ==
    /\ registered' = registered \ {s}
    /\ rows' = [rows EXCEPT ![s] = NoRow]

(* SessionStore.save of an object: touched, and its row rewritten whole.   *)
SaveObject(s, i, x) ==
    /\ objects' = [objects EXCEPT ![s][i] = [x EXCEPT !.age = 0]]
    /\ rows' = [rows EXCEPT ![s] =
           [text |-> x.text, result |-> x.result, age |-> 0]]

-----------------------------------------------------------------------------
(* Requests.                                                               *)

(* POST /latex/upload                                                      *)
Upload(s) ==
    /\ s \notin opened
    /\ opened' = opened \cup {s}
    /\ objects' = [objects EXCEPT ![s] =
           <<[text |-> {}, result |-> NoRequest, age |-> 0, holder |-> NoRequest]>>]
    /\ registered' = registered \cup {s}
    /\ rows' = [rows EXCEPT ![s] = [text |-> {}, result |-> NoRequest, age |-> 0]]
    /\ UNCHANGED <<budgetVars, req, deleted>>

(* GET status and report, and rerender: the session is only touched.       *)
Look(s) ==
    /\ Available(s)
    /\ Got(s, [Loaded(s) EXCEPT !.age = 0])
    /\ UNCHANGED <<budgetVars, opened, rows, req, deleted>>

(* Any request for an expired session: get removes it and answers 404.     *)
FindExpired(s) ==
    /\ Exists(s) /\ Expired(Loaded(s))
    /\ Erase(s)
    /\ UNCHANGED <<budgetVars, opened, objects, req, deleted>>

Queued(s, i) ==
    {h \in Requests : Stage(h) = "waiting" /\ req[h].session = s /\ req[h].object = i}

(* The object when a request gets its lock.  An optimization of the tailor *)
(* flow first puts the source of the selected projects into it.            *)
Entered(x, h, op, base) ==
    [x EXCEPT !.holder = h, !.text = IF op = "tailor" THEN base ELSE @]

(* A handler up to the lock of the session: get, and if the lock is free   *)
(* and nobody waits for it, take it at once.                               *)
Enqueue(h, s, op, base) ==
    LET x == [Loaded(s) EXCEPT !.age = 0]
        i == IF s \in registered THEN Len(objects[s]) ELSE Len(objects[s]) + 1
        free == x.holder = NoRequest /\ Queued(s, i) = {}
    IN  /\ Stage(h) = "new"
        /\ Available(s)
        /\ Got(s, IF free THEN Entered(x, h, op, base) ELSE x)
        /\ req' = [req EXCEPT ![h] =
               [stage |-> IF free THEN "working" ELSE "waiting", op |-> op,
                session |-> s, object |-> i, base |-> base]]
        /\ Bind(h)

(* POST /latex/optimize, and POST refine, which reads the text it will     *)
(* work on before it has the lock.                                         *)
Begin(h, s) ==
    /\ \/ Enqueue(h, s, "optimize", {})
       \/ Enqueue(h, s, "refine", Loaded(s).text)
    /\ UNCHANGED <<opened, rows, deleted>>

(* Mutant: the request does not wait for the holder.                       *)
TakeLockAtOnce(h) ==
    /\ Stage(h) = "waiting"
    /\ objects' = [objects EXCEPT ![req[h].session][req[h].object] =
           Entered(@, h, req[h].op, req[h].base)]
    /\ req' = [req EXCEPT ![h].stage = "working"]
    /\ UNCHANGED <<budgetVars, opened, registered, rows, deleted>>

(* session.lock is released and wakes up a request that waits for it.      *)
TakeLock(h) ==
    /\ Stage(h) = "waiting"
    /\ objects[req[h].session][req[h].object].holder = NoRequest
    /\ objects' = [objects EXCEPT ![req[h].session][req[h].object] =
           Entered(@, h, req[h].op, req[h].base)]
    /\ req' = [req EXCEPT ![h].stage = "working"]
    /\ UNCHANGED <<budgetVars, opened, registered, rows, deleted>>

(* The pipeline of an optimization, or the one call of a refinement,       *)
(* awaits complete_json.                                                   *)
Call(h) ==
    /\ Stage(h) = "working"
    /\ StartCall(h)
    /\ UNCHANGED sessionVars

Answered(h) ==
    /\ EndCall(h)
    /\ UNCHANGED sessionVars

(* What a finished request writes: a refinement replaces the text, an      *)
(* optimization leaves it; both set optimization_result.                   *)
Outcome(h, x) ==
    [x EXCEPT !.text = IF req[h].op = "refine" THEN req[h].base \cup {h} ELSE @,
              !.result = h]

(* The rest of the handler: write the object, save, release the lock.      *)
Finish(h) ==
    LET s == req[h].session
        i == req[h].object
    IN  /\ Stage(h) = "working" /\ req[h].op \in {"optimize", "refine"}
        /\ h \notin calling
        /\ SaveObject(s, i, [Outcome(h, objects[s][i]) EXCEPT !.holder = NoRequest])
        /\ req' = [req EXCEPT ![h] = [stage |-> "answered"]]
        /\ UNCHANGED <<budgetVars, opened, registered, deleted>>

(* Mutant: the lock is released on the way of success only.                *)
FailHoldingLock(h) ==
    /\ Stage(h) = "working" /\ req[h].op # "tailorRefine"
    /\ h \notin calling
    /\ req' = [req EXCEPT ![h] = [stage |-> "refused"]]
    /\ UNCHANGED <<budgetVars, opened, objects, registered, rows, deleted>>

(* The pipeline raises, LLMBudgetExceeded (429) included: async with       *)
(* releases the lock, and nothing is saved.                                *)
Fail(h) ==
    LET s == req[h].session
        i == req[h].object
    IN  /\ Stage(h) = "working" /\ req[h].op # "tailorRefine"
        /\ h \notin calling
        /\ objects' = [objects EXCEPT ![s][i].holder = NoRequest]
        /\ req' = [req EXCEPT ![h] = [stage |-> "refused"]]
        /\ UNCHANGED <<budgetVars, opened, registered, rows, deleted>>

(* DELETE /latex/{session_id}: requests in flight keep the object.         *)
Delete(s) ==
    /\ Available(s)
    /\ Erase(s)
    /\ deleted' = deleted \cup {s}
    /\ UNCHANGED <<budgetVars, opened, objects, req>>

(* DELETE /profile: the rows go, the registry is not told.                 *)
DeleteProfile ==
    /\ rows' = [s \in Sessions |-> NoRow]
    /\ deleted' = opened
    /\ ForgetBudget
    /\ UNCHANGED <<opened, objects, registered, req>>

-----------------------------------------------------------------------------
(* The process and the clock.                                              *)

(* Mutant: rows go with the sessions that are not in the registry.         *)
CleanupUnregistered ==
    /\ registered' = {s \in registered : ~Expired(Last(objects[s]))}
    /\ rows' = [s \in Sessions |-> IF s \in registered' THEN rows[s] ELSE NoRow]
    /\ UNCHANGED <<budgetVars, opened, objects, req, deleted>>

(* _session_cleanup_loop: cleanup_expired on the registry and the table.   *)
Cleanup ==
    /\ registered' = {s \in registered : ~Expired(Last(objects[s]))}
    /\ rows' = [s \in Sessions |-> IF HasRow(s) /\ Expired(rows[s]) THEN NoRow ELSE rows[s]]
    /\ UNCHANGED <<budgetVars, opened, objects, req, deleted>>

Older(x) == [x EXCEPT !.age = IF @ > TTL THEN @ ELSE @ + 1]

Tick ==
    /\ objects' = [s \in Sessions |-> [i \in DOMAIN objects[s] |-> Older(objects[s][i])]]
    /\ rows' = [s \in Sessions |-> IF HasRow(s) THEN Older(rows[s]) ELSE NoRow]
    /\ UNCHANGED <<budgetVars, opened, registered, req, deleted>>

(* The API process restarts: the registry and the requests are gone.       *)
Restart ==
    /\ objects' = [s \in Sessions |-> <<>>]
    /\ registered' = {}
    /\ req' = [h \in Requests |-> IF InFlight(h) THEN [stage |-> "lost"] ELSE req[h]]
    /\ DropCalls
    /\ UNCHANGED <<opened, rows, deleted>>

Steps(h) ==
    \/ \E s \in Sessions : Begin(h, s)
    \/ TakeLock(h) \/ Call(h) \/ Answered(h) \/ Finish(h) \/ Fail(h)

Next ==
    \/ \E s \in Sessions : Upload(s) \/ Look(s) \/ FindExpired(s) \/ Delete(s)
    \/ \E h \in Requests : Steps(h)
    \/ DeleteProfile \/ Cleanup \/ Tick \/ Restart
    \/ (SetBudget \/ NewDay) /\ UNCHANGED sessionVars

Spec == Init /\ [][Next]_vars

-----------------------------------------------------------------------------
(* A request that works on an object holds that object's lock, so no two   *)
(* of them work on one object: whatever the handlers' exits, each lock is  *)
(* released by its holder and taken by one of those that wait.             *)
LockIsItsWorkers ==
    \A h \in Requests :
        Stage(h) = "working" /\ req[h].op # "tailorRefine" =>
            objects[req[h].session][req[h].object].holder = h

(* A session answered within its time to live survives a restart: what was *)
(* saved less than TTL ago leaves the table on the user's demand only,     *)
(* although registry and table keep two clocks and each is cleaned by its  *)
(* own.  (Unless requests outlive the session they work on: then get       *)
(* builds a second object, and its clock may erase what they saved.)       *)
FreshRowsStay ==
    [][\A s \in Sessions :
          /\ HasRow(s) /\ rows[s].age <= TTL
          /\ Len(objects[s]) <= 1 /\ s \notin deleted'
          => HasRow(s)']_vars
=============================================================================
