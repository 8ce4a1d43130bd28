------------------------ MODULE TailorSessionsProofs ------------------------
(* Locks, histories and approved PDFs of the two resume flows, for any      *)
(* sessions, requests, budgets and times to live.                           *)
(*                                                                          *)
(* The invariant of the locks: every request in flight points to an object  *)
(* that is still there, and one that works holds it.  Objects change under  *)
(* requests that wait or work: get touches the last one and may build       *)
(* another, a refinement of the tailor flow writes without the lock, and    *)
(* none of these changes a holder.  The invariant of the copies: in a row   *)
(* and in every request's copy of it, the history explains the text and     *)
(* the saved PDF is none, of the text, or of what one request made of it.   *)
EXTENDS TailorSessions, FiniteSetTheorems, SequenceTheorems, TLAPS

-----------------------------------------------------------------------------
(* The daily budget of LLMBudget: its overspend is bounded, for any number  *)
(* of concurrent requests and any budgets the user sets meanwhile.          *)

BudgetIInv == BudgetTypeOK /\ OverspendIsBounded

(* What is used of finiteness: calls are counted by natural numbers, there  *)
(* are no more of them than requests, and each counts for one.              *)
LEMMA CallsAreCounted ==
    ASSUME BudgetTypeOK
    PROVE  /\ Cardinality(Requests) \in Nat
           /\ Cardinality(calling) \in Nat
           /\ Cardinality(calling) <= Cardinality(Requests)
           /\ \A h \in calling : Cardinality(calling \ {h}) = Cardinality(calling) - 1
<1>1. IsFiniteSet(Requests) /\ calling \subseteq Requests
  BY RequestsAreFinite DEF BudgetTypeOK
<1>2. IsFiniteSet(calling) /\ Cardinality(calling) <= Cardinality(Requests)
  BY <1>1, FS_Subset
<1>3. ASSUME NEW h \in calling PROVE Cardinality(calling \ {h}) = Cardinality(calling) - 1
  BY <1>2, FS_RemoveElement
<1> QED
  BY <1>1, <1>2, <1>3, FS_CardinalityType

(* Nothing is used and nobody calls at first.                               *)
LEMMA BudgetInitIInv == BudgetInit => BudgetIInv
<1> SUFFICES ASSUME BudgetInit PROVE BudgetIInv
  OBVIOUS
<1>1. BudgetTypeOK
  BY DEF BudgetInit, BudgetTypeOK
<1>2. ASSUME Requests # {} PROVE Cardinality(Requests) # 0
  BY <1>2, RequestsAreFinite, FS_EmptySet
<1>3. Cardinality(calling) = 0
  BY FS_EmptySet DEF BudgetInit
<1>4. OverspendIsBounded
  BY <1>1, <1>2, <1>3, CallsAreCounted, BudgetsAreBounded DEF BudgetInit, OverspendIsBounded
<1> QED
  BY <1>1, <1>4 DEF BudgetIInv

(* A call begins below the budget of its request, and then all requests at  *)
(* most are calling.                                                        *)
LEMMA StartCallKeepsIInv ==
    ASSUME BudgetIInv, NEW h \in Requests, StartCall(h)
    PROVE  BudgetIInv'
<1>1. BudgetTypeOK'
  BY DEF BudgetIInv, BudgetTypeOK, StartCall
<1>2. usage' < MaxBudget
  <2>1. usage < bound[h] /\ usage' = usage /\ usage \in Nat
    BY DEF BudgetIInv, BudgetTypeOK, StartCall, WithinBudget
  <2>2. bound[h] \in 0..MaxBudget /\ MaxBudget \in Nat
    BY BudgetsAreBounded DEF BudgetIInv, BudgetTypeOK
  <2> QED
    BY <2>1, <2>2
<1>3. Cardinality(calling') <= Cardinality(Requests) /\ Cardinality(calling') \in Nat
  <2>1. IsFiniteSet(Requests) /\ calling' \subseteq Requests
    BY <1>1, RequestsAreFinite DEF BudgetTypeOK
  <2> QED
    BY <2>1, FS_Subset, FS_CardinalityType
<1>4. OverspendIsBounded'
  BY <1>1, <1>2, <1>3, RequestsAreFinite, FS_CardinalityType, BudgetsAreBounded
  DEF OverspendIsBounded, BudgetTypeOK
<1> QED
  BY <1>1, <1>4 DEF BudgetIInv

(* A call that ends moves from the calls that are out to those used.        *)
LEMMA EndCallKeepsIInv ==
    ASSUME BudgetIInv, NEW h \in Requests, EndCall(h)
    PROVE  BudgetIInv'
<1>1. BudgetTypeOK'
  BY DEF BudgetIInv, BudgetTypeOK, EndCall
<1>2. Cardinality(calling') = Cardinality(calling) - 1 /\ usage' = usage + 1
  BY CallsAreCounted DEF BudgetIInv, EndCall
<1>3. OverspendIsBounded'
  BY <1>2, CallsAreCounted, BudgetsAreBounded DEF BudgetIInv, BudgetTypeOK, OverspendIsBounded
<1> QED
  BY <1>1, <1>3 DEF BudgetIInv

(* The other steps change budgets, or leave fewer calls.                    *)
LEMMA OtherBudgetStepKeepsIInv ==
    ASSUME BudgetIInv,
           \/ \E h \in Requests : Bind(h)
           \/ SetBudget \/ NewDay \/ ForgetBudget \/ DropCalls
           \/ UNCHANGED budgetVars
    PROVE  BudgetIInv'
<1>1. BudgetTypeOK'
  BY DEF BudgetIInv, BudgetTypeOK, Bind, SetBudget, NewDay, ForgetBudget, DropCalls, budgetVars
<1>2. usage' \in Nat /\ usage' <= usage
  BY DEF BudgetIInv, BudgetTypeOK, Bind, SetBudget, NewDay, ForgetBudget, DropCalls, budgetVars
<1>3. calling' = calling \/ calling' = {}
  BY DEF Bind, SetBudget, NewDay, ForgetBudget, DropCalls, budgetVars
<1>4. Cardinality(calling') \in Nat /\ Cardinality(calling') <= Cardinality(calling)
  BY <1>3, CallsAreCounted, FS_EmptySet DEF BudgetIInv
<1>5. OverspendIsBounded'
  BY <1>2, <1>4, CallsAreCounted, BudgetsAreBounded DEF BudgetIInv, BudgetTypeOK, OverspendIsBounded
<1> QED
  BY <1>1, <1>5 DEF BudgetIInv

(* However requests, budget changes, days, deletions and crashes            *)
(* interleave, the calls of a day exceed the largest budget by less than    *)
(* the number of concurrent requests.                                       *)
THEOREM OverspendIsBoundedAlways == BudgetSpec => []OverspendIsBounded
<1>1. BudgetIInv /\ [BudgetNext]_budgetVars => BudgetIInv'
  BY StartCallKeepsIInv, EndCallKeepsIInv, OtherBudgetStepKeepsIInv DEF BudgetNext
<1>2. BudgetIInv => OverspendIsBounded
  BY DEF BudgetIInv
<1> QED
  BY <1>1, <1>2, BudgetInitIInv, PTL DEF BudgetSpec

-----------------------------------------------------------------------------
(* The sessions.                                                            *)

OnObject(h) == InFlight(h) /\ req[h].op # "tailorRefine"
Tailors(h) == InFlight(h) /\ req[h].op \in {"tailor", "tailorRefine"}

LocksIInv ==
    /\ TypeOK
    /\ \A s \in Sessions : objects[s] # <<>> \/ HasRow(s) => s \in opened
    /\ \A h \in Requests :
           OnObject(h) => req[h].object \in 1..Len(objects[req[h].session])
    /\ \A h \in Requests : Stage(h) = "waiting" => req[h].op # "tailorRefine"
    /\ LockIsItsWorkers

Explained(t) ==
    /\ t.source.edits = {}
    /\ t.current.edits \subseteq t.history
    /\ t.result # NoResult => Shows(t.result, t.current)

CopiesIInv ==
    /\ TailorTypeOK
    /\ \A s \in Sessions : tailor[s] # NoTailor => Explained(tailor[s])
    /\ \A h \in Requests : copies[h] # NoTailor => Explained(copies[h])
    /\ \A h \in Requests : Tailors(h) => copies[h] # NoTailor
    /\ ApprovedPdfIsOfItsRequest

TailorIInv == LocksIInv /\ CopiesIInv

-----------------------------------------------------------------------------
(* Replacing the last element of a sequence leaves its length and the rest. *)
LEMMA ReplacedLast ==
    ASSUME NEW S, NEW seq \in Seq(S), seq # <<>>, NEW x \in S
    PROVE  /\ Append(Front(seq), x) \in Seq(S)
           /\ Len(Append(Front(seq), x)) = Len(seq)
           /\ \A i \in 1..Len(seq) :
                  Append(Front(seq), x)[i] = IF i = Len(seq) THEN x ELSE seq[i]
           /\ Len(seq) \in 1..Len(seq)
           /\ Last(seq) = seq[Len(seq)] /\ Last(seq) \in S
<1>1. Len(seq) \in Nat /\ Len(seq) > 0
  OBVIOUS
<1>2. /\ Front(seq) \in Seq(S)
      /\ Len(Front(seq)) = Len(seq) - 1
      /\ \A i \in 1..(Len(seq) - 1) : Front(seq)[i] = seq[i]
  <2> DEFINE n == Len(seq) - 1
  <2>1. n \in Int /\ 1 \in Int /\ \A i \in 1..n : seq[i] \in S
    BY <1>1
  <2> HIDE DEF n
  <2>2. /\ SubSeq(seq, 1, n) \in Seq(S)
        /\ Len(SubSeq(seq, 1, n)) = IF 1 <= n THEN n - 1 + 1 ELSE 0
        /\ \A i \in 1..(n - 1 + 1) : SubSeq(seq, 1, n)[i] = seq[1 + i - 1]
    BY <2>1, SubSeqProperties, SMTT(60)
  <2>3. Len(seq) = n + 1 /\ Front(seq) = SubSeq(seq, 1, n)
    BY <1>1 DEF n, Front
  <2> QED
    BY <1>1, <2>1, <2>2, <2>3
<1>3. /\ Append(Front(seq), x) \in Seq(S)
      /\ Len(Append(Front(seq), x)) = Len(seq)
      /\ \A i \in 1..Len(seq) :
             Append(Front(seq), x)[i] = IF i = Len(seq) THEN x ELSE seq[i]
  BY <1>1, <1>2
<1> QED
  BY <1>1, <1>3 DEF Last

(* A row is a content or none.                                              *)
LEMMA RowIsContents ==
    ASSUME TypeOK, NEW s \in Sessions, HasRow(s)
    PROVE  rows[s] \in Contents
  BY DEF TypeOK, HasRow

(* The position of the object that get answers with.                        *)
Place(s) == IF s \in registered THEN Len(objects[s]) ELSE Len(objects[s]) + 1

(* What get answers with is an object of the store, or has no holder yet.   *)
LEMMA LoadedIsObject ==
    ASSUME TypeOK, NEW s \in Sessions, Exists(s)
    PROVE  /\ Loaded(s) \in Objects
           /\ s \in registered => /\ Place(s) \in 1..Len(objects[s])
                                  /\ Loaded(s) = objects[s][Place(s)]
           /\ s \notin registered => Loaded(s).holder = NoRequest
<1>1. objects[s] \in Seq(Objects)
  BY DEF TypeOK
<1>2. CASE s \in registered
  <2>1. objects[s] # <<>>
    BY <1>2 DEF TypeOK
  <2>2. Len(objects[s]) \in 1..Len(objects[s]) /\ Last(objects[s]) = objects[s][Len(objects[s])]
    BY <1>1, <2>1 DEF Last
  <2> QED
    BY <1>1, <1>2, <2>2 DEF Loaded, Place
<1>3. CASE s \notin registered
  <2>1. rows[s] \in Contents
    BY <1>3, RowIsContents DEF Exists
  <2> QED
    BY <1>3, <2>1 DEF Loaded, Contents, Objects
<1> QED
  BY <1>2, <1>3

(* get puts one object at its place and leaves the others where they are.   *)
LEMMA GotPutsOne ==
    ASSUME TypeOK, NEW s \in Sessions, Exists(s), NEW x \in Objects, Got(s, x)
    PROVE  /\ objects' \in [Sessions -> Seq(Objects)]
           /\ objects'[s] # <<>>
           /\ Place(s) \in 1..Len(objects'[s])
           /\ objects'[s][Place(s)] = x
           /\ \A r \in Sessions : \A i \in 1..Len(objects[r]) :
                  /\ i \in 1..Len(objects'[r])
                  /\ ~(r = s /\ i = Place(s)) => objects'[r][i] = objects[r][i]
           /\ \A r \in Sessions : r # s => objects'[r] = objects[r]
<1>1. objects[s] \in Seq(Objects) /\ objects \in [Sessions -> Seq(Objects)]
  BY DEF TypeOK
<1>2. \A r \in Sessions : r # s => objects'[r] = objects[r]
  BY <1>1 DEF Got
<1>3. /\ objects'[s] \in Seq(Objects) /\ Place(s) \in 1..Len(objects'[s])
      /\ objects'[s][Place(s)] = x
      /\ \A i \in 1..Len(objects[s]) :
             i \in 1..Len(objects'[s]) /\ (i # Place(s) => objects'[s][i] = objects[s][i])
  <2>1. CASE s \in registered
    <3>1. objects[s] # <<>>
      BY <2>1 DEF TypeOK
    <3>2. objects'[s] = Append(Front(objects[s]), x)
      BY <1>1, <2>1 DEF Got
    <3>3. /\ objects'[s] \in Seq(Objects)
          /\ Len(objects'[s]) = Len(objects[s])
          /\ \A i \in 1..Len(objects[s]) :
                 objects'[s][i] = IF i = Len(objects[s]) THEN x ELSE objects[s][i]
          /\ Len(objects[s]) \in 1..Len(objects[s])
      <4> DEFINE seq == objects[s]
      <4>1. /\ Append(Front(seq), x) \in Seq(Objects)
            /\ Len(Append(Front(seq), x)) = Len(seq)
            /\ \A i \in 1..Len(seq) :
                   Append(Front(seq), x)[i] = IF i = Len(seq) THEN x ELSE seq[i]
            /\ Len(seq) \in 1..Len(seq)
        BY <1>1, <3>1, ReplacedLast, SMTT(60)
      <4> QED
        BY <3>2, <4>1
    <3> QED
      BY <2>1, <3>3 DEF Place
  <2>2. CASE s \notin registered
    <3>1. objects'[s] = Append(objects[s], x)
      BY <1>1, <2>2 DEF Got
    <3> QED
      BY <1>1, <2>2, <3>1 DEF Place
  <2> QED
    BY <2>1, <2>2
<1>4. objects' \in [Sessions -> Seq(Objects)]
  <2>1. objects' = [objects EXCEPT ![s] = objects'[s]]
    BY <1>1 DEF Got
  <2> QED
    BY <1>1, <1>3, <2>1
<1> QED
  BY <1>2, <1>3, <1>4

(* The lock part of the invariant survives a step that leaves the requests  *)
(* in flight at their objects and gives no other holder to these.           *)
LEMMA LocksKept ==
    ASSUME LocksIInv, TypeOK',
           \A s \in Sessions : objects'[s] # <<>> \/ HasRow(s)' => s \in opened',
           \A h \in Requests :
               OnObject(h)' => /\ OnObject(h)
                               /\ req'[h].session = req[h].session
                               /\ req'[h].object = req[h].object
                               /\ req[h].session \in Sessions,
           \A h \in Requests :
               OnObject(h)' => req[h].object \in 1..Len(objects'[req[h].session]),
           \A h \in Requests : Stage(h)' = "waiting" => req'[h].op # "tailorRefine",
           \A h \in Requests :
               /\ Stage(h)' = "working" /\ req'[h].op # "tailorRefine"
               => objects'[req[h].session][req[h].object].holder = h
    PROVE  LocksIInv'
<1>1. \A h \in Requests :
          OnObject(h)' => req'[h].object \in 1..Len(objects'[req'[h].session])
  OBVIOUS
<1>2. LockIsItsWorkers'
  BY DEF LockIsItsWorkers, OnObject, InFlight
<1> QED
  BY <1>1, <1>2 DEF LocksIInv

(* A request in flight is one of Busy.                                      *)
LEMMA InFlightIsBusy ==
    ASSUME TypeOK, NEW h \in Requests, InFlight(h)
    PROVE  /\ req[h] \in Busy
           /\ req[h].session \in Sessions
  BY DEF TypeOK, InFlight, Stage, Idle, Busy

(* A row is looked at or restored: the holder stays.                        *)
LEMMA TouchKeepsLocks ==
    ASSUME LocksIInv, NEW s \in Sessions, Exists(s), NEW x \in Objects, Got(s, x),
           x.holder = Loaded(s).holder,
           s \in opened,
           budgetVars' = budgetVars, opened' = opened, rows' = rows, deleted' = deleted,
           \A h \in Requests : OnObject(h)' => req'[h] = req[h],
           \A h \in Requests : Stage(h)' = "waiting" => req'[h].op # "tailorRefine",
           req' \in [Requests -> Idle \cup Busy]
    PROVE  LocksIInv'
<1>1. TypeOK
  BY DEF LocksIInv
<1>2. /\ objects' \in [Sessions -> Seq(Objects)]
      /\ objects'[s] # <<>>
      /\ objects'[s][Place(s)] = x
      /\ \A r \in Sessions : \A i \in 1..Len(objects[r]) :
             /\ i \in 1..Len(objects'[r])
             /\ ~(r = s /\ i = Place(s)) => objects'[r][i] = objects[r][i]
      /\ \A r \in Sessions : r # s => objects'[r] = objects[r]
  BY <1>1, GotPutsOne
<1>3. TypeOK'
  <2>1. registered' = registered \cup {s}
    BY DEF Got
  <2>2. \A r \in registered' : objects'[r] # <<>>
    BY <1>1, <1>2, <2>1 DEF TypeOK
  <2>3. BudgetTypeOK'
    BY <1>1 DEF TypeOK, BudgetTypeOK, budgetVars
  <2> QED
    BY <1>1, <1>2, <2>1, <2>2, <2>3 DEF TypeOK
<1>4. \A r \in Sessions : \A i \in 1..Len(objects[r]) :
          /\ i \in 1..Len(objects'[r])
          /\ objects'[r][i].holder = objects[r][i].holder
  <2>1. s \notin registered => Place(s) \notin 1..Len(objects[s])
    BY <1>1 DEF Place, TypeOK
  <2> QED
    BY <1>1, <1>2, <2>1, LoadedIsObject
<1>5. \A r \in Sessions : objects'[r] # <<>> \/ HasRow(r)' => r \in opened'
  BY <1>2 DEF LocksIInv, HasRow
<1>6. ASSUME NEW h \in Requests, OnObject(h)'
      PROVE  /\ OnObject(h) /\ req'[h] = req[h] /\ req[h].session \in Sessions
             /\ req[h].object \in 1..Len(objects'[req[h].session])
             /\ objects'[req[h].session][req[h].object].holder
                    = objects[req[h].session][req[h].object].holder
  <2>1. req'[h] = req[h] /\ OnObject(h)
    BY <1>6 DEF OnObject, InFlight, Stage
  <2>2. req[h].session \in Sessions
    BY <1>1, <2>1, InFlightIsBusy DEF OnObject
  <2>3. req[h].object \in 1..Len(objects[req[h].session])
    BY <2>1 DEF LocksIInv
  <2> QED
    BY <1>4, <2>1, <2>2, <2>3
<1>7. ASSUME NEW h \in Requests, Stage(h)' = "working", req'[h].op # "tailorRefine"
      PROVE  objects'[req[h].session][req[h].object].holder = h
  <2>1. OnObject(h)'
    BY <1>7 DEF OnObject, InFlight
  <2>2. req'[h] = req[h]
    BY <2>1
  <2> QED
    BY <1>6, <1>7, <2>1, <2>2 DEF LocksIInv, LockIsItsWorkers, Stage
<1> QED
  BY <1>3, <1>5, <1>6, <1>7, LocksKept

(* Objects and requests in flight stay: rows, registry, budget and requests *)
(* that are no longer, or never were, at an object change.                  *)
LEMMA ObjectsKept ==
    ASSUME LocksIInv, TypeOK', objects' = objects, opened' = opened,
           \A s \in Sessions : HasRow(s)' => HasRow(s),
           \A h \in Requests : OnObject(h)' => req'[h] = req[h],
           \A h \in Requests : Stage(h)' = "waiting" => req'[h].op # "tailorRefine"
    PROVE  LocksIInv'
<1>1. \A s \in Sessions : objects'[s] # <<>> \/ HasRow(s)' => s \in opened'
  BY DEF LocksIInv
<1>2. ASSUME NEW h \in Requests, OnObject(h)'
      PROVE  /\ OnObject(h) /\ req'[h] = req[h] /\ req[h].session \in Sessions
             /\ req[h].object \in 1..Len(objects'[req[h].session])
  <2>1. req'[h] = req[h] /\ OnObject(h)
    BY <1>2 DEF OnObject, InFlight, Stage
  <2> QED
    BY <2>1, InFlightIsBusy DEF LocksIInv, OnObject
<1>3. ASSUME NEW h \in Requests, Stage(h)' = "working", req'[h].op # "tailorRefine"
      PROVE  objects'[req[h].session][req[h].object].holder = h
  <2>1. OnObject(h)'
    BY <1>3 DEF OnObject, InFlight
  <2>2. req'[h] = req[h]
    BY <2>1
  <2> QED
    BY <1>3, <2>2 DEF LocksIInv, LockIsItsWorkers, Stage
<1> QED
  BY <1>1, <1>2, <1>3, LocksKept

(* A session that was not opened has neither objects nor requests.          *)
LEMMA UploadKeepsLocks ==
    ASSUME LocksIInv, NEW s \in Sessions, Upload(s)
    PROVE  LocksIInv'
<1>1. TypeOK /\ objects[s] = <<>>
  BY DEF LocksIInv, Upload
<1>2. TypeOK'
  <2>1. /\ objects' \in [Sessions -> Seq(Objects)] /\ objects'[s] # <<>>
        /\ \A r \in Sessions : r # s => objects'[r] = objects[r]
    <3> DEFINE x == [text |-> {}, result |-> NoRequest, age |-> 0, holder |-> NoRequest]
    <3>1. x \in Objects
      BY SessionsAssumption DEF Objects, Ages
    <3>2. objects' = [objects EXCEPT ![s] = <<x>>]
      BY DEF Upload
    <3> HIDE DEF x
    <3>3. <<x>> \in Seq(Objects) /\ <<x>> # <<>>
      BY <3>1
    <3> QED
      BY <1>1, <3>2, <3>3 DEF TypeOK
  <2>2. rows' \in [Sessions -> Contents \cup {NoRow}]
    BY <1>1, SessionsAssumption DEF TypeOK, Upload, Contents, Ages
  <2>3. BudgetTypeOK'
    BY <1>1 DEF TypeOK, BudgetTypeOK, Upload, budgetVars
  <2>4. \A r \in registered' : objects'[r] # <<>>
    BY <1>1, <2>1 DEF TypeOK, Upload
  <2> QED
    BY <1>1, <2>1, <2>2, <2>3, <2>4 DEF TypeOK, Upload
<1>3. \A r \in Sessions : r # s => objects'[r] = objects[r]
  BY <1>1 DEF TypeOK, Upload
<1>4. \A r \in Sessions : objects'[r] # <<>> \/ HasRow(r)' => r \in opened'
  BY <1>1, <1>3 DEF LocksIInv, Upload, HasRow, TypeOK
<1>5. ASSUME NEW h \in Requests, OnObject(h)
      PROVE  /\ req[h].session \in Sessions \ {s}
             /\ req[h].object \in 1..Len(objects[req[h].session])
  BY <1>1, <1>5, InFlightIsBusy DEF LocksIInv, OnObject
<1>6. \A h \in Requests : OnObject(h)' <=> OnObject(h)
  BY DEF Upload, OnObject, InFlight, Stage
<1>7. ASSUME NEW h \in Requests, Stage(h)' = "working", req'[h].op # "tailorRefine"
      PROVE  objects'[req[h].session][req[h].object].holder = h
  <2>1. Stage(h) = "working" /\ req[h].op # "tailorRefine"
    BY <1>7 DEF Upload, Stage
  <2>2. OnObject(h)
    BY <2>1 DEF OnObject, InFlight
  <2> QED
    BY <1>3, <1>5, <2>1, <2>2 DEF LocksIInv, LockIsItsWorkers
<1>8. \A h \in Requests : Stage(h)' = "waiting" => req'[h].op # "tailorRefine"
  BY DEF LocksIInv, Upload, Stage
<1>9. req' = req
  BY DEF Upload
<1> QED
  BY <1>2, <1>3, <1>4, <1>5, <1>6, <1>7, <1>8, <1>9, LocksKept

(* Looking at a session touches its object.                                 *)
LEMMA LookKeepsLocks ==
    ASSUME LocksIInv, NEW s \in Sessions, Look(s)
    PROVE  LocksIInv'
<1> DEFINE x == [Loaded(s) EXCEPT !.age = 0]
<1>1. TypeOK /\ Exists(s) /\ Got(s, x)
  BY DEF LocksIInv, Look, Available
<1>2. x \in Objects /\ x.holder = Loaded(s).holder
  BY <1>1, LoadedIsObject, SessionsAssumption DEF Objects, Ages
<1>3. s \in opened
  BY <1>1 DEF Exists, LocksIInv, TypeOK
<1> QED
  BY <1>1, <1>2, <1>3, TouchKeepsLocks DEF Look, budgetVars, LocksIInv, TypeOK, Stage

(* The session leaves the registry and the table; requests keep its object. *)
LEMMA ErasedKeepsTypes ==
    ASSUME TypeOK, NEW s \in Sessions, Erase(s)
    PROVE  /\ registered' \subseteq opened
           /\ registered' \subseteq registered
           /\ rows' \in [Sessions -> Contents \cup {NoRow}]
           /\ \A r \in Sessions : HasRow(r)' => HasRow(r)
  BY DEF TypeOK, Erase, HasRow

(* An expired or deleted session leaves registry and table.                 *)
LEMMA FindExpiredKeepsLocks ==
    ASSUME LocksIInv, NEW s \in Sessions, FindExpired(s) \/ Delete(s)
    PROVE  LocksIInv'
<1>1. /\ TypeOK /\ Erase(s)
      /\ UNCHANGED <<budgetVars, opened, objects, req>>
      /\ deleted' \subseteq Sessions
  BY DEF LocksIInv, TypeOK, FindExpired, Delete
<1>2. TypeOK'
  <2>1. BudgetTypeOK'
    BY <1>1 DEF TypeOK, BudgetTypeOK, budgetVars
  <2> QED
    BY <1>1, <2>1, ErasedKeepsTypes DEF TypeOK
<1> QED
  BY <1>1, <1>2, ErasedKeepsTypes, ObjectsKept DEF LocksIInv, Stage

(* Steps of the budget alone.                                               *)
LEMMA BudgetStepKeepsLocks ==
    ASSUME LocksIInv, UNCHANGED sessionVars,
           \/ \E h \in Requests : StartCall(h) \/ EndCall(h)
           \/ SetBudget \/ NewDay
    PROVE  LocksIInv'
<1>1. TypeOK
  BY DEF LocksIInv
<1>2. BudgetTypeOK'
  BY <1>1 DEF TypeOK, BudgetTypeOK, StartCall, EndCall, SetBudget, NewDay
<1>3. TypeOK'
  BY <1>1, <1>2 DEF TypeOK, sessionVars
<1> QED
  BY <1>3, ObjectsKept DEF sessionVars, LocksIInv, HasRow, Stage

(* A new request waits, or finds the lock free and nobody waiting.          *)
LEMMA EnqueueKeepsLocks ==
    ASSUME LocksIInv, NEW h \in Requests, NEW s \in Sessions,
           NEW op \in {"optimize", "refine", "tailor"}, NEW base \in SUBSET Requests,
           Enqueue(h, s, op, base), UNCHANGED <<opened, rows, deleted>>
    PROVE  LocksIInv'
<1> DEFINE x == [Loaded(s) EXCEPT !.age = 0]
           free == x.holder = NoRequest /\ Queued(s, Place(s)) = {}
           y == IF free THEN Entered(x, h, op, base) ELSE x
           new == [stage |-> IF free THEN "working" ELSE "waiting", op |-> op,
                   session |-> s, object |-> Place(s), base |-> base]
<1>1. /\ TypeOK /\ Exists(s) /\ Stage(h) = "new" /\ Got(s, y)
      /\ req' = [req EXCEPT ![h] = new]
      /\ Bind(h)
  BY DEF LocksIInv, Enqueue, Available, Place
<1>2. objects[s] \in Seq(Objects) /\ Loaded(s) \in Objects
  BY <1>1, LoadedIsObject DEF TypeOK
<1>3. x \in Objects /\ x.holder = Loaded(s).holder
  BY <1>2, SessionsAssumption DEF Objects, Ages
<1>4. y \in Objects /\ (free => y.holder = h) /\ (~free => y.holder = x.holder)
  BY <1>3 DEF Objects, Entered
<1>5. new \in Busy
  <2>1. Place(s) \in Nat
    BY <1>2 DEF Place
  <2> QED
    BY <2>1 DEF Busy
<1> HIDE DEF y, new, x
<1>6. /\ objects' \in [Sessions -> Seq(Objects)]
      /\ objects'[s] # <<>>
      /\ Place(s) \in 1..Len(objects'[s])
      /\ objects'[s][Place(s)] = y
      /\ \A r \in Sessions : \A i \in 1..Len(objects[r]) :
             /\ i \in 1..Len(objects'[r])
             /\ ~(r = s /\ i = Place(s)) => objects'[r][i] = objects[r][i]
      /\ \A r \in Sessions : r # s => objects'[r] = objects[r]
  BY <1>1, <1>4, GotPutsOne
<1>7. TypeOK'
  <2>1. registered' = registered \cup {s} /\ s \in opened
    BY <1>1 DEF Got, Exists, LocksIInv, TypeOK
  <2>2. \A r \in registered' : objects'[r] # <<>>
    BY <1>1, <1>6, <2>1 DEF TypeOK
  <2>3. BudgetTypeOK'
    BY <1>1 DEF TypeOK, BudgetTypeOK, Bind
  <2>4. req' \in [Requests -> Idle \cup Busy]
    BY <1>1, <1>5 DEF TypeOK
  <2> QED
    BY <1>1, <1>6, <2>1, <2>2, <2>3, <2>4 DEF TypeOK
<1>8. \A r \in Sessions : objects'[r] # <<>> \/ HasRow(r)' => r \in opened'
  BY <1>1, <1>6 DEF LocksIInv, HasRow, Exists, TypeOK
<1>9. ASSUME NEW k \in Requests, k # h
      PROVE  req'[k] = req[k] /\ (OnObject(k)' <=> OnObject(k)) /\ Stage(k)' = Stage(k)
  BY <1>1, <1>9 DEF TypeOK, OnObject, InFlight, Stage
<1>10. req'[h] = new /\ Stage(h)' # "new"
  BY <1>1 DEF TypeOK, new, Stage
<1>11. ASSUME NEW k \in Requests, k # h, OnObject(k)
       PROVE  /\ req[k].session \in Sessions
              /\ req[k].object \in 1..Len(objects[req[k].session])
  BY <1>1, <1>11, InFlightIsBusy DEF LocksIInv, OnObject
<1>12. ASSUME NEW k \in Requests, OnObject(k)'
       PROVE  req'[k].object \in 1..Len(objects'[req'[k].session])
  <2>1. CASE k = h
    BY <1>6, <1>10, <2>1 DEF new
  <2>2. CASE k # h
    BY <1>6, <1>9, <1>11, <1>12, <2>2
  <2> QED
    BY <2>1, <2>2
<1>13. ASSUME NEW k \in Requests, Stage(k)' = "waiting" PROVE req'[k].op # "tailorRefine"
  <2>1. CASE k = h
    BY <1>10, <2>1 DEF new
  <2>2. CASE k # h
    BY <1>9, <1>13, <2>2 DEF LocksIInv
  <2> QED
    BY <2>1, <2>2
<1>14. ASSUME NEW k \in Requests, Stage(k)' = "working", req'[k].op # "tailorRefine"
       PROVE  objects'[req'[k].session][req'[k].object].holder = k
  <2>1. CASE k = h
    <3>1. free
      BY <1>10, <1>14, <2>1 DEF new, Stage
    <3> QED
      BY <1>4, <1>6, <1>10, <2>1, <3>1 DEF new
  <2>2. CASE k # h
    <3>1. Stage(k) = "working" /\ req[k].op # "tailorRefine" /\ req'[k] = req[k]
      BY <1>9, <1>14, <2>2
    <3>2. OnObject(k)
      BY <3>1 DEF OnObject, InFlight
    <3>3. objects[req[k].session][req[k].object].holder = k
      BY <3>1 DEF LocksIInv, LockIsItsWorkers
    <3>4. CASE req[k].session = s /\ req[k].object = Place(s)
      <4>1. s \in registered
        BY <1>2, <1>11, <2>2, <3>2, <3>4 DEF Place
      <4>2. x.holder = k
        BY <1>1, <1>3, <3>3, <3>4, <4>1, LoadedIsObject
      <4>3. ~free
        BY <4>2, SessionsAssumption
      <4> QED
        BY <1>4, <1>6, <3>1, <3>4, <4>2, <4>3
    <3>5. CASE ~(req[k].session = s /\ req[k].object = Place(s))
      BY <1>6, <1>11, <2>2, <3>1, <3>2, <3>3, <3>5
    <3> QED
      BY <3>4, <3>5
  <2> QED
    BY <2>1, <2>2
<1> QED
  BY <1>7, <1>8, <1>12, <1>13, <1>14 DEF LocksIInv, LockIsItsWorkers

(* A request writes the object it is at.                                    *)
LEMMA ObjectWritten ==
    ASSUME LocksIInv, NEW h \in Requests, OnObject(h), NEW y \in Objects,
           objects' = [objects EXCEPT ![req[h].session][req[h].object] = y]
    PROVE  /\ objects' \in [Sessions -> Seq(Objects)]
           /\ req[h].session \in Sessions
           /\ req[h].object \in 1..Len(objects[req[h].session])
           /\ objects[req[h].session][req[h].object] \in Objects
           /\ objects'[req[h].session][req[h].object] = y
           /\ \A r \in Sessions :
                  /\ Len(objects'[r]) = Len(objects[r])
                  /\ objects'[r] # <<>> <=> objects[r] # <<>>
                  /\ \A i \in 1..Len(objects[r]) :
                         ~(r = req[h].session /\ i = req[h].object)
                         => objects'[r][i] = objects[r][i]
<1> DEFINE s == req[h].session
           i == req[h].object
<1>1. objects \in [Sessions -> Seq(Objects)] /\ s \in Sessions /\ i \in 1..Len(objects[s])
  BY InFlightIsBusy DEF LocksIInv, TypeOK, OnObject
<1> HIDE DEF s, i
<1>2. objects' = [objects EXCEPT ![s] = [objects[s] EXCEPT ![i] = y]]
  BY DEF s, i
<1>3. objects[s] \in Seq(Objects) /\ objects[s][i] \in Objects
  BY <1>1
<1>4. /\ [objects[s] EXCEPT ![i] = y] \in Seq(Objects)
      /\ Len([objects[s] EXCEPT ![i] = y]) = Len(objects[s])
      /\ [objects[s] EXCEPT ![i] = y][i] = y
      /\ \A j \in 1..Len(objects[s]) : j # i => [objects[s] EXCEPT ![i] = y][j] = objects[s][j]
  BY <1>1, <1>3, ExceptSeq
<1>5. objects'[s] = [objects[s] EXCEPT ![i] = y] /\ \A r \in Sessions : r # s => objects'[r] = objects[r]
  BY <1>1, <1>2
<1>6. objects' \in [Sessions -> Seq(Objects)]
  BY <1>1, <1>2, <1>4
<1>7. objects'[s] # <<>> /\ objects[s] # <<>>
  BY <1>1, <1>4, <1>5
<1> QED
  BY <1>1, <1>3, <1>4, <1>5, <1>6, <1>7 DEF s, i

(* A freed lock goes to one of those that wait.                             *)
LEMMA TakeLockKeepsLocks ==
    ASSUME LocksIInv, NEW h \in Requests, TakeLock(h)
    PROVE  LocksIInv'
<1> DEFINE s == req[h].session
           i == req[h].object
<1>1. /\ TypeOK /\ OnObject(h) /\ req[h] \in Busy
      /\ objects[s][i].holder = NoRequest
  BY InFlightIsBusy DEF LocksIInv, TakeLock, OnObject, InFlight
<1>2. objects[s][i] \in Objects
  BY <1>1 DEF LocksIInv, TypeOK, Busy
<1>3. /\ Entered(objects[s][i], h, req[h].op, req[h].base) \in Objects
      /\ Entered(objects[s][i], h, req[h].op, req[h].base).holder = h
  BY <1>1, <1>2 DEF Objects, Entered, Busy
<1>4. PICK y \in Objects :
          /\ y.holder = h
          /\ objects' = [objects EXCEPT ![req[h].session][req[h].object] = y]
  BY <1>3 DEF TakeLock
<1>5. req' = [req EXCEPT ![h] = [req[h] EXCEPT !.stage = "working"]]
  BY DEF TakeLock
<1>6. /\ objects' \in [Sessions -> Seq(Objects)]
      /\ objects'[s][i] = y
      /\ \A r \in Sessions :
             /\ Len(objects'[r]) = Len(objects[r])
             /\ objects'[r] # <<>> <=> objects[r] # <<>>
             /\ \A j \in 1..Len(objects[r]) :
                    ~(r = s /\ j = i) => objects'[r][j] = objects[r][j]
  <2>1. s \in Sessions /\ i \in 1..Len(objects[s])
    BY <1>1, <1>4, ObjectWritten
  <2>2. objects'[s][i] = y
    BY <1>1, <1>4, <2>1 DEF TypeOK
  <2> QED
    BY <1>1, <1>4, <2>2, ObjectWritten
<1>7. TypeOK'
  <2>1. req' \in [Requests -> Idle \cup Busy]
    BY <1>1, <1>5 DEF TypeOK, Busy
  <2>2. BudgetTypeOK'
    BY <1>1 DEF TypeOK, BudgetTypeOK, TakeLock, budgetVars
  <2>3. \A r \in registered' : objects'[r] # <<>>
    BY <1>1, <1>6 DEF TypeOK, TakeLock
  <2> QED
    BY <1>1, <1>6, <2>1, <2>2, <2>3 DEF TypeOK, TakeLock
<1>8. \A r \in Sessions : objects'[r] # <<>> \/ HasRow(r)' => r \in opened'
  BY <1>6 DEF LocksIInv, HasRow, TakeLock
<1>9. \A k \in Requests :
          /\ req'[k].session = req[k].session /\ req'[k].object = req[k].object
          /\ req'[k].op = req[k].op
          /\ k # h => req'[k] = req[k]
  BY <1>1, <1>5 DEF TypeOK, Busy
<1>10. ASSUME NEW k \in Requests, OnObject(k)'
       PROVE  OnObject(k) /\ req[k].session \in Sessions
  <2>1. OnObject(k)
    BY <1>1, <1>9, <1>10 DEF OnObject, InFlight, Stage
  <2> QED
    BY <1>1, <2>1, InFlightIsBusy DEF OnObject
<1>11. ASSUME NEW k \in Requests, Stage(k)' = "working", req'[k].op # "tailorRefine"
       PROVE  objects'[req[k].session][req[k].object].holder = k
  <2>1. CASE k = h
    BY <1>4, <1>6, <2>1
  <2>2. CASE k # h
    <3>1. Stage(k) = "working" /\ req[k].op # "tailorRefine" /\ OnObject(k)
      BY <1>9, <1>11, <2>2 DEF Stage, OnObject, InFlight
    <3>2. objects[req[k].session][req[k].object].holder = k
      BY <3>1 DEF LocksIInv, LockIsItsWorkers
    <3>3. /\ req[k].session \in Sessions
          /\ req[k].object \in 1..Len(objects[req[k].session])
      BY <1>1, <3>1, InFlightIsBusy DEF LocksIInv, OnObject
    <3>4. ~(req[k].session = s /\ req[k].object = i)
      BY <1>1, <3>2, SessionsAssumption
    <3> QED
      BY <1>6, <3>2, <3>3, <3>4
  <2> QED
    BY <2>1, <2>2
<1>12. ASSUME NEW k \in Requests, Stage(k)' = "waiting" PROVE req'[k].op # "tailorRefine"
  <2>1. Stage(k) = "waiting"
    BY <1>1, <1>5, <1>12 DEF TypeOK, Stage, TakeLock
  <2> QED
    BY <1>9, <2>1 DEF LocksIInv
<1>13. ASSUME NEW k \in Requests, OnObject(k)'
       PROVE  req[k].object \in 1..Len(objects'[req[k].session])
  BY <1>6, <1>10, <1>13 DEF LocksIInv
<1> QED
  BY <1>7, <1>8, <1>9, <1>10, <1>11, <1>12, <1>13, LocksKept

(* A working request leaves: whatever else it writes, it frees the lock     *)
(* that it alone held.                                                      *)
LEMMA ReleaseKeepsLocks ==
    ASSUME LocksIInv, NEW h \in Requests, Stage(h) = "working",
           req[h].op # "tailorRefine", NEW y \in Objects, NEW done \in Idle,
           objects' = [objects EXCEPT ![req[h].session][req[h].object] = y],
           req' = [req EXCEPT ![h] = done], done.stage \notin {"waiting", "working"},
           rows' \in [Sessions -> Contents \cup {NoRow}],
           \A r \in Sessions : HasRow(r)' => HasRow(r) \/ r = req[h].session,
           UNCHANGED <<budgetVars, opened, registered, deleted>>
    PROVE  LocksIInv'
<1> DEFINE s == req[h].session
           i == req[h].object
<1>1. TypeOK /\ OnObject(h)
  BY DEF LocksIInv, OnObject, InFlight
<1>2. /\ objects' \in [Sessions -> Seq(Objects)]
      /\ s \in Sessions /\ i \in 1..Len(objects[s])
      /\ \A r \in Sessions :
             /\ Len(objects'[r]) = Len(objects[r])
             /\ objects'[r] # <<>> <=> objects[r] # <<>>
             /\ \A j \in 1..Len(objects[r]) :
                    ~(r = s /\ j = i) => objects'[r][j] = objects[r][j]
  BY <1>1, ObjectWritten
<1>3. TypeOK'
  <2>1. req' \in [Requests -> Idle \cup Busy]
    BY <1>1 DEF TypeOK
  <2>2. BudgetTypeOK'
    BY <1>1 DEF TypeOK, BudgetTypeOK, budgetVars
  <2>3. \A r \in registered' : objects'[r] # <<>>
    BY <1>1, <1>2 DEF TypeOK
  <2> QED
    BY <1>1, <1>2, <2>1, <2>2, <2>3 DEF TypeOK
<1>4. \A r \in Sessions : objects'[r] # <<>> \/ HasRow(r)' => r \in opened'
  <2>1. objects[s] # <<>>
    BY <1>1, <1>2 DEF TypeOK
  <2> QED
    BY <1>2, <2>1 DEF LocksIInv
<1>5. ASSUME NEW k \in Requests, Stage(k)' \in {"waiting", "working"}
      PROVE  k # h /\ req'[k] = req[k] /\ Stage(k)' = Stage(k)
  BY <1>1, <1>5 DEF TypeOK, Stage
<1>6. ASSUME NEW k \in Requests, OnObject(k)'
      PROVE  /\ OnObject(k) /\ req'[k] = req[k] /\ req[k].session \in Sessions
             /\ req[k].object \in 1..Len(objects'[req[k].session])
  <2>1. OnObject(k) /\ req'[k] = req[k]
    BY <1>5, <1>6 DEF OnObject, InFlight
  <2>2. req[k].session \in Sessions
    BY <1>1, <2>1, InFlightIsBusy DEF OnObject
  <2> QED
    BY <1>2, <2>1, <2>2 DEF LocksIInv
<1>7. ASSUME NEW k \in Requests, Stage(k)' = "working", req'[k].op # "tailorRefine"
      PROVE  objects'[req[k].session][req[k].object].holder = k
  <2>1. k # h /\ Stage(k) = "working" /\ req[k].op # "tailorRefine" /\ OnObject(k)
    BY <1>5, <1>7 DEF OnObject, InFlight
  <2>2. objects[req[k].session][req[k].object].holder = k /\ objects[s][i].holder = h
    BY <2>1 DEF LocksIInv, LockIsItsWorkers
  <2>3. /\ req[k].session \in Sessions
        /\ req[k].object \in 1..Len(objects[req[k].session])
    BY <1>1, <2>1, InFlightIsBusy DEF LocksIInv, OnObject
  <2> QED
    BY <1>2, <2>1, <2>2, <2>3
<1>8. ASSUME NEW k \in Requests, Stage(k)' = "waiting" PROVE req'[k].op # "tailorRefine"
  BY <1>5, <1>8 DEF LocksIInv
<1> QED
  BY <1>3, <1>4, <1>6, <1>7, <1>8, LocksKept

(* A classic request ends: its object and row are written, its lock freed.  *)
LEMMA FinishKeepsLocks ==
    ASSUME LocksIInv, NEW h \in Requests, Finish(h)
    PROVE  LocksIInv'
<1> DEFINE s == req[h].session
           i == req[h].object
           x == [Outcome(h, objects[s][i]) EXCEPT !.holder = NoRequest]
<1>1. TypeOK /\ OnObject(h) /\ req[h] \in Busy /\ Stage(h) = "working"
  BY InFlightIsBusy DEF LocksIInv, Finish, OnObject, InFlight
<1>2. objects[s][i] \in Objects
  BY <1>1 DEF LocksIInv, TypeOK, Busy
<1>3. x \in Objects
  BY <1>1, <1>2 DEF Objects, Outcome, Busy
<1>4. /\ objects' = [objects EXCEPT ![s][i] = [x EXCEPT !.age = 0]]
      /\ rows' = [rows EXCEPT ![s] = [text |-> x.text, result |-> x.result, age |-> 0]]
      /\ req' = [req EXCEPT ![h] = [stage |-> "answered"]]
      /\ UNCHANGED <<budgetVars, opened, registered, deleted>>
      /\ req[h].op # "tailorRefine"
  BY DEF Finish, SaveObject
<1> HIDE DEF x
<1>5. /\ [x EXCEPT !.age = 0] \in Objects
      /\ [text |-> x.text, result |-> x.result, age |-> 0] \in Contents
  BY <1>3, SessionsAssumption DEF Objects, Contents, Ages
<1>6. rows' \in [Sessions -> Contents \cup {NoRow}]
  BY <1>1, <1>4, <1>5 DEF TypeOK
<1>7. \A r \in Sessions : HasRow(r)' => HasRow(r) \/ r = s
  BY <1>1, <1>4 DEF TypeOK, HasRow
<1>8. [stage |-> "answered"] \in Idle
  BY DEF Idle
<1> QED
  BY <1>1, <1>4, <1>5, <1>6, <1>7, <1>8, ReleaseKeepsLocks

(* A request fails: its lock is freed.                                      *)
LEMMA FailKeepsLocks ==
    ASSUME LocksIInv, NEW h \in Requests, Fail(h)
    PROVE  LocksIInv'
<1> DEFINE s == req[h].session
           i == req[h].object
           y == [objects[s][i] EXCEPT !.holder = NoRequest]
<1>1. TypeOK /\ OnObject(h) /\ req[h] \in Busy /\ Stage(h) = "working"
  BY InFlightIsBusy DEF LocksIInv, Fail, OnObject, InFlight
<1>2. objects[s][i] \in Objects
  BY <1>1 DEF LocksIInv, TypeOK, Busy
<1>3. y \in Objects
  BY <1>2 DEF Objects
<1>4. /\ objects' = [objects EXCEPT ![s][i] = y]
      /\ req' = [req EXCEPT ![h] = [stage |-> "refused"]]
      /\ UNCHANGED <<budgetVars, opened, registered, rows, deleted>>
      /\ req[h].op # "tailorRefine"
  BY DEF Fail
<1> HIDE DEF y
<1>5. [stage |-> "refused"] \in Idle
  BY DEF Idle
<1> QED
  BY <1>1, <1>3, <1>4, <1>5, ReleaseKeepsLocks DEF TypeOK, HasRow

(* An optimization of the tailor flow ends likewise, without a row.         *)
LEMMA FinishTailorKeepsLocks ==
    ASSUME LocksIInv, TailorTypeOK, NEW h \in Requests, FinishTailor(h),
           copies[h] # NoTailor
    PROVE  LocksIInv'
<1> DEFINE s == req[h].session
           i == req[h].object
           text == Rewritten(copies[h].source, h)
           y == [text |-> text.edits, result |-> h, age |-> 0, holder |-> NoRequest]
<1>1. /\ TypeOK /\ Stage(h) = "working" /\ copies[h] \in TailorRecords
  BY DEF LocksIInv, FinishTailor, TailorTypeOK
<1>2. y \in Objects
  <2>1. text.edits \in SUBSET Requests
    BY <1>1 DEF Rewritten, TailorRecords, Texts
  <2> QED
    BY <2>1, SessionsAssumption DEF Objects, Ages
<1>3. /\ objects' = [objects EXCEPT ![s][i] = y]
      /\ req' = [req EXCEPT ![h] = [stage |-> "answered"]]
      /\ UNCHANGED <<budgetVars, opened, registered, rows, deleted>>
      /\ req[h].op # "tailorRefine"
  BY DEF FinishTailor
<1> HIDE DEF y
<1>4. [stage |-> "answered"] \in Idle
  BY DEF Idle
<1> QED
  BY <1>1, <1>2, <1>3, <1>4, ReleaseKeepsLocks DEF TypeOK, HasRow

(* A refinement of the tailor flow begins at no object.                     *)
LEMMA BeginTailorRefineKeepsLocks ==
    ASSUME LocksIInv, TailorTypeOK, NEW h \in Requests, NEW s \in Sessions,
           BeginTailorRefine(h, s)
    PROVE  LocksIInv'
<1> DEFINE new == [stage |-> "working", op |-> "tailorRefine", session |-> s,
                   object |-> 0, base |-> tailor[s].current.edits]
<1>1. TypeOK /\ tailor[s] \in TailorRecords
  BY DEF LocksIInv, TailorTypeOK, BeginTailorRefine, TailorFound
<1>2. new \in Busy
  BY <1>1 DEF TailorRecords, Texts, Busy
<1>3. /\ req' = [req EXCEPT ![h] = new]
      /\ Bind(h) /\ UNCHANGED <<opened, objects, registered, rows, deleted>>
  BY DEF BeginTailorRefine
<1>4. TypeOK'
  <2>1. BudgetTypeOK'
    BY <1>1, <1>3 DEF TypeOK, BudgetTypeOK, Bind
  <2> QED
    BY <1>1, <1>2, <1>3, <2>1 DEF TypeOK
<1>5. req'[h].op = "tailorRefine" /\ Stage(h)' = "working"
  BY <1>1, <1>3 DEF TypeOK, Stage
<1>6. \A k \in Requests : k # h => req'[k] = req[k]
  BY <1>1, <1>3 DEF TypeOK
<1>7. ASSUME NEW k \in Requests, OnObject(k)' PROVE req'[k] = req[k]
  BY <1>5, <1>6, <1>7 DEF OnObject
<1>8. ASSUME NEW k \in Requests, Stage(k)' = "waiting" PROVE req'[k].op # "tailorRefine"
  <2>1. k # h
    BY <1>5, <1>8
  <2> QED
    BY <1>6, <1>8, <2>1 DEF LocksIInv, Stage
<1> QED
  BY <1>3, <1>4, <1>7, <1>8, ObjectsKept DEF HasRow

(* An object that is rewritten and touched keeps its holder.                *)
LEMMA ObjectRewritten ==
    ASSUME NEW x \in Objects, NEW edits \in SUBSET Requests, NEW h \in Requests
    PROVE  /\ [x EXCEPT !.text = edits, !.result = h, !.age = 0] \in Objects
           /\ [x EXCEPT !.text = edits, !.result = h, !.age = 0].holder = x.holder
<1> DEFINE y == [x EXCEPT !.text = edits]
           z == [y EXCEPT !.result = h]
<1>1. y \in Objects /\ y.holder = x.holder
  BY DEF Objects
<1> HIDE DEF y
<1>2. z \in Objects /\ z.holder = x.holder
  BY <1>1 DEF Objects
<1> HIDE DEF z
<1>3. [z EXCEPT !.age = 0] \in Objects /\ [z EXCEPT !.age = 0].holder = x.holder
  BY <1>2, SessionsAssumption DEF Objects, Ages
<1> QED
  BY <1>3 DEF y, z

(* A refinement of the tailor flow writes its text whoever holds the lock,  *)
(* and leaves the holder alone.                                             *)
LEMMA FinishTailorRefineKeepsLocks ==
    ASSUME LocksIInv, TailorTypeOK, NEW h \in Requests, FinishTailorRefine(h),
           copies[h] # NoTailor
    PROVE  LocksIInv'
<1> DEFINE s == req[h].session
           text == Rewritten(copies[h].current, h)
           x == [Loaded(s) EXCEPT !.text = text.edits, !.result = h, !.age = 0]
<1>1. /\ TypeOK /\ InFlight(h) /\ req[h] \in Busy /\ copies[h] \in TailorRecords
      /\ s \in Sessions
  BY InFlightIsBusy DEF LocksIInv, FinishTailorRefine, TailorTypeOK, InFlight
<1>2. /\ req' = [req EXCEPT ![h] = [stage |-> "answered"]]
      /\ UNCHANGED <<budgetVars, opened, deleted>>
      /\ req[h].op = "tailorRefine"
  BY DEF FinishTailorRefine
<1>3. text.edits \in SUBSET Requests
  BY <1>1 DEF Rewritten, TailorRecords, Texts
<1>4. req' \in [Requests -> Idle \cup Busy]
  BY <1>1, <1>2 DEF TypeOK, Idle
<1>5. ASSUME NEW k \in Requests, Stage(k)' \in {"waiting", "working"}
      PROVE  req'[k] = req[k] /\ Stage(k)' = Stage(k)
  BY <1>1, <1>2, <1>5 DEF TypeOK, Stage
<1>6. \A k \in Requests : OnObject(k)' => req'[k] = req[k]
  BY <1>5 DEF OnObject, InFlight
<1>7. \A k \in Requests : Stage(k)' = "waiting" => req'[k].op # "tailorRefine"
  BY <1>5 DEF LocksIInv
<1>8. CASE Available(s) /\ Got(s, x) /\ rows' = rows
  <2>1. Exists(s) /\ Loaded(s) \in Objects
    BY <1>1, <1>8, LoadedIsObject DEF Available
  <2>2. x \in Objects /\ x.holder = Loaded(s).holder
    BY <1>3, <2>1, ObjectRewritten
  <2>3. s \in opened
    BY <1>1, <2>1 DEF LocksIInv, Exists, TypeOK
  <2> QED
    BY <1>1, <1>2, <1>4, <1>6, <1>7, <1>8, <2>1, <2>2, <2>3, TouchKeepsLocks
<1>9. CASE (Erase(s) \/ UNCHANGED <<registered, rows>>) /\ objects' = objects
  <2>1. /\ registered' \subseteq opened /\ registered' \subseteq registered
        /\ rows' \in [Sessions -> Contents \cup {NoRow}]
        /\ \A r \in Sessions : HasRow(r)' => HasRow(r)
    <3>1. CASE Erase(s)
      BY <1>1, <3>1, ErasedKeepsTypes
    <3>2. CASE UNCHANGED <<registered, rows>>
      BY <1>1, <3>2 DEF TypeOK, HasRow
    <3> QED
      BY <1>9, <3>1, <3>2
  <2>2. TypeOK'
    <3>1. BudgetTypeOK'
      BY <1>1, <1>2 DEF TypeOK, BudgetTypeOK, budgetVars
    <3> QED
      BY <1>1, <1>2, <1>4, <1>9, <2>1, <3>1 DEF TypeOK
  <2> QED
    BY <1>2, <1>6, <1>7, <1>9, <2>1, <2>2, ObjectsKept
<1> QED
  BY <1>8, <1>9 DEF FinishTailorRefine

(* Time passes: objects and rows grow older, up to just expired.            *)
LEMMA TickKeepsLocks ==
    ASSUME LocksIInv, Tick
    PROVE  LocksIInv'
<1>1. TypeOK /\ objects \in [Sessions -> Seq(Objects)]
  BY DEF LocksIInv, TypeOK
<1>2. ASSUME NEW x \in Objects PROVE Older(x) \in Objects /\ Older(x).holder = x.holder
  BY SessionsAssumption DEF Objects, Ages, Older
<1>3. ASSUME NEW x \in Contents PROVE Older(x) \in Contents
  BY SessionsAssumption DEF Contents, Ages, Older
<1>4. ASSUME NEW s \in Sessions
      PROVE  /\ objects'[s] \in Seq(Objects) /\ Len(objects'[s]) = Len(objects[s])
             /\ objects'[s] # <<>> <=> objects[s] # <<>>
             /\ \A i \in 1..Len(objects[s]) : objects'[s][i].holder = objects[s][i].holder
  <2>1. objects'[s] = [i \in DOMAIN objects[s] |-> Older(objects[s][i])]
    BY DEF Tick
  <2>2. objects[s] \in Seq(Objects) /\ DOMAIN objects[s] = 1..Len(objects[s]) /\ Len(objects[s]) \in Nat
    BY <1>1
  <2>3. \A i \in 1..Len(objects[s]) : objects'[s][i] \in Objects /\ objects'[s][i].holder = objects[s][i].holder
    BY <1>2, <2>1, <2>2
  <2>4. objects'[s] = [i \in 1..Len(objects[s]) |-> Older(objects[s][i])]
    BY <2>1, <2>2
  <2>5. objects'[s] \in Seq(Objects) /\ Len(objects'[s]) = Len(objects[s])
    <3>1. objects'[s] \in [1..Len(objects[s]) -> Objects]
      BY <2>3, <2>4
    <3>2. objects'[s] \in Seq(Objects)
      BY <2>2, <3>1, SeqDef
    <3> QED
      BY <2>2, <3>1, <3>2
  <2> QED
    BY <2>2, <2>3, <2>5
<1>5. objects' \in [Sessions -> Seq(Objects)]
  BY <1>4 DEF Tick
<1>6. /\ rows' \in [Sessions -> Contents \cup {NoRow}]
      /\ \A s \in Sessions : HasRow(s)' => HasRow(s)
  BY <1>1, <1>3, RowIsContents DEF Tick, HasRow
<1>7. TypeOK'
  <2>1. BudgetTypeOK'
    BY <1>1 DEF TypeOK, BudgetTypeOK, Tick, budgetVars
  <2>2. \A s \in registered' : objects'[s] # <<>>
    BY <1>1, <1>4 DEF TypeOK, Tick
  <2> QED
    BY <1>1, <1>5, <1>6, <2>1, <2>2 DEF TypeOK, Tick
<1>8. \A s \in Sessions : objects'[s] # <<>> \/ HasRow(s)' => s \in opened'
  BY <1>4, <1>6 DEF LocksIInv, Tick
<1>9. req' = req
  BY DEF Tick
<1>10. ASSUME NEW h \in Requests, OnObject(h)'
       PROVE  /\ OnObject(h) /\ req[h].session \in Sessions
              /\ req[h].object \in 1..Len(objects[req[h].session])
  BY <1>1, <1>9, <1>10, InFlightIsBusy DEF LocksIInv, OnObject, InFlight, Stage
<1>11. \A h \in Requests : OnObject(h)' => req[h].object \in 1..Len(objects'[req[h].session])
  BY <1>4, <1>10
<1>12. ASSUME NEW h \in Requests, Stage(h)' = "working", req'[h].op # "tailorRefine"
       PROVE  objects'[req[h].session][req[h].object].holder = h
  <2>1. OnObject(h)'
    BY <1>12 DEF OnObject, InFlight
  <2> QED
    BY <1>4, <1>9, <1>10, <1>12, <2>1 DEF LocksIInv, LockIsItsWorkers, Stage
<1>13. \A h \in Requests : Stage(h)' = "waiting" => req'[h].op # "tailorRefine"
  BY <1>9 DEF LocksIInv, Stage
<1> QED
  BY <1>7, <1>8, <1>9, <1>10, <1>11, <1>12, <1>13, LocksKept

(* Sessions leave the registry, and rows leave the table; requests keep     *)
(* their objects.                                                           *)
LEMMA ForgottenKeepsLocks ==
    ASSUME LocksIInv, Cleanup \/ DeleteProfile
    PROVE  LocksIInv'
<1>1. TypeOK
  BY DEF LocksIInv
<1>2. /\ UNCHANGED <<opened, objects, req>>
      /\ registered' \subseteq registered
      /\ \A s \in Sessions : HasRow(s)' => HasRow(s)
  BY DEF Cleanup, DeleteProfile, HasRow
<1>3. rows' \in [Sessions -> Contents \cup {NoRow}] /\ deleted' \subseteq Sessions
  BY <1>1 DEF TypeOK, Cleanup, DeleteProfile
<1>4. BudgetTypeOK'
  BY <1>1 DEF TypeOK, BudgetTypeOK, Cleanup, DeleteProfile, ForgetBudget, budgetVars
<1>5. TypeOK'
  BY <1>1, <1>2, <1>3, <1>4 DEF TypeOK
<1> QED
  BY <1>2, <1>5, ObjectsKept DEF LocksIInv, Stage

(* After a restart there are no objects, and nobody is in flight.           *)
LEMMA RestartKeepsLocks ==
    ASSUME LocksIInv, Restart
    PROVE  LocksIInv'
<1>1. TypeOK
  BY DEF LocksIInv
<1>2. \A h \in Requests : req'[h] \in Idle \cup Busy /\ ~InFlight(h)'
  <2> SUFFICES ASSUME NEW h \in Requests PROVE req'[h] \in Idle \cup Busy /\ ~InFlight(h)'
    OBVIOUS
  <2>1. CASE InFlight(h)
    <3>1. req'[h] = [stage |-> "lost"]
      BY <2>1 DEF Restart
    <3> QED
      BY <3>1 DEF Idle, InFlight, Stage
  <2>2. CASE ~InFlight(h)
    <3>1. req'[h] = req[h]
      BY <2>2 DEF Restart
    <3> QED
      BY <1>1, <2>2, <3>1 DEF TypeOK, InFlight, Stage
  <2> QED
    BY <2>1, <2>2
<1>3. req' \in [Requests -> Idle \cup Busy]
  BY <1>2 DEF Restart
<1>4. objects' \in [Sessions -> Seq(Objects)] /\ \A s \in Sessions : objects'[s] = <<>>
  BY DEF Restart
<1>5. BudgetTypeOK'
  BY <1>1 DEF TypeOK, BudgetTypeOK, Restart, DropCalls
<1>6. TypeOK'
  BY <1>1, <1>3, <1>4, <1>5 DEF TypeOK, Restart
<1> QED
  BY <1>2, <1>4, <1>6 DEF LocksIInv, LockIsItsWorkers, OnObject, InFlight, Restart, HasRow

(* Steps of the tailor sessions alone leave the classic ones as they are.   *)
LEMMA StutterKeepsLocks ==
    ASSUME LocksIInv, UNCHANGED vars
    PROVE  LocksIInv'
<1>1. TypeOK'
  BY DEF LocksIInv, TypeOK, BudgetTypeOK, vars, budgetVars, sessionVars
<1> QED
  BY <1>1, ObjectsKept DEF LocksIInv, vars, sessionVars, HasRow, Stage

(* There are no objects at first, and nobody is in flight.                  *)
LEMMA InitLocks == Init => LocksIInv
<1> SUFFICES ASSUME Init PROVE LocksIInv
  OBVIOUS
<1>1. TypeOK
  BY DEF Init, TypeOK, BudgetInit, BudgetTypeOK, Idle
<1> QED
  BY <1>1 DEF Init, LocksIInv, LockIsItsWorkers, OnObject, InFlight, Stage, HasRow

-----------------------------------------------------------------------------
(* The copies.                                                              *)

(* A save leaves all of a copy but its age.                                 *)
LEMMA SavedIsExplained ==
    ASSUME CopiesIInv, NEW s \in Sessions, NEW t \in TailorRecords, Explained(t),
           SaveTailor(s, t)
    PROVE  /\ tailor' \in [Sessions -> TailorRecords \cup {NoTailor}]
           /\ \A r \in Sessions : tailor'[r] # NoTailor => Explained(tailor'[r])
<1> DEFINE u == [t EXCEPT !.age = 0]
<1>1. u \in TailorRecords
  BY TailorAssumption DEF TailorRecords
<1>2. Explained(u)
  <2>1. u.source = t.source /\ u.current = t.current /\ u.history = t.history /\ u.result = t.result
    BY DEF TailorRecords
  <2> QED
    BY <2>1 DEF Explained
<1>3. tailor \in [Sessions -> TailorRecords \cup {NoTailor}] /\ tailor' = [tailor EXCEPT ![s] = u]
  BY DEF CopiesIInv, TailorTypeOK, SaveTailor
<1> HIDE DEF u
<1> QED
  BY <1>1, <1>2, <1>3 DEF CopiesIInv

(* A row that is found is a record with its history.                        *)
LEMMA FoundIsExplained ==
    ASSUME CopiesIInv, NEW s \in Sessions, TailorFound(s)
    PROVE  tailor[s] # NoTailor /\ tailor[s] \in TailorRecords /\ Explained(tailor[s])
  BY DEF CopiesIInv, TailorTypeOK, TailorFound

(* The user's edit begins a new text without result.                        *)
LEMMA PatchedIsExplained ==
    ASSUME NEW t \in TailorRecords, NEW d \in Drafts
    PROVE  LET text == [draft |-> d, edits |-> {}]
               u == [t EXCEPT !.source = text, !.current = text, !.result = NoResult]
           IN  u \in TailorRecords /\ Explained(u)
<1> DEFINE text == [draft |-> d, edits |-> {}]
           a == [t EXCEPT !.source = text]
           b == [a EXCEPT !.current = text]
           c == [b EXCEPT !.result = NoResult]
<1>1. text \in Texts /\ text.edits = {}
  BY DEF Texts
<1> HIDE DEF text
<1>2. a \in TailorRecords /\ a.source = text
  BY <1>1 DEF TailorRecords
<1> HIDE DEF a
<1>3. b \in TailorRecords /\ b.source = text /\ b.current = text
  BY <1>1, <1>2 DEF TailorRecords
<1> HIDE DEF b
<1>4. c \in TailorRecords /\ c.source = text /\ c.current = text /\ c.result = NoResult
  BY <1>3 DEF TailorRecords
<1> HIDE DEF c
<1>5. Explained(c)
  BY <1>1, <1>4 DEF Explained
<1> QED
  BY <1>4, <1>5 DEF a, b, c, text

(* The result of a request is in the history of its copy.                   *)
LEMMA TailoredIsExplained ==
    ASSUME NEW h \in Requests, copies[h] \in TailorRecords, Explained(copies[h]),
           NEW from \in {copies[h].source, copies[h].current},
           NEW pdf \in {Rewritten(from, h), from, NoResult}
    PROVE  Tailored(h, from, pdf) \in TailorRecords /\ Explained(Tailored(h, from, pdf))
<1> DEFINE t == copies[h]
           text == Rewritten(from, h)
           a == [t EXCEPT !.current = text]
           b == [a EXCEPT !.history = t.history \cup {h}]
           c == [b EXCEPT !.result = pdf]
<1>1. from \in Texts /\ from.edits \subseteq t.history
  BY DEF Explained, TailorRecords
<1>2. text \in Texts /\ text.edits = from.edits \cup {h}
  BY <1>1 DEF Rewritten, Texts
<1>3. t.history \cup {h} \in SUBSET Requests
  BY DEF TailorRecords
<1>4. pdf # NoResult => pdf \in Texts /\ Shows(pdf, text)
  BY <1>1, <1>2 DEF Shows
<1> HIDE DEF text
<1>5. a \in TailorRecords /\ a.source = t.source /\ a.current = text
  BY <1>2 DEF TailorRecords
<1> HIDE DEF a
<1>6. /\ b \in TailorRecords /\ b.source = t.source /\ b.current = text
      /\ b.history = t.history \cup {h}
  BY <1>3, <1>5 DEF TailorRecords
<1> HIDE DEF b
<1>7. /\ c \in TailorRecords /\ c.source = t.source /\ c.current = text
      /\ c.history = t.history \cup {h} /\ c.result = pdf
  BY <1>6, <1>4 DEF TailorRecords
<1> HIDE DEF c
<1>8. Explained(c)
  BY <1>1, <1>2, <1>7, <1>4 DEF Explained
<1>9. Tailored(h, from, pdf) = c
  BY DEF Tailored, a, b, c, text
<1> QED
  BY <1>7, <1>8, <1>9

(* The classic API neither reads nor writes the copies, and none of its     *)
(* steps begins a tailoring request.                                        *)
LEMMA ClassicTailorsNoMore ==
    ASSUME LocksIInv, ClassicStep, NEW k \in Requests, Tailors(k)'
    PROVE  Tailors(k)
<1>1. TypeOK
  BY DEF LocksIInv
<1>2. CASE req' = req
  BY <1>2 DEF Tailors, InFlight, Stage
<1>3. ASSUME NEW h \in Requests, NEW s \in Sessions, Begin(h, s) PROVE Tailors(k)
  <2>1. \E op \in {"optimize", "refine"}, st \in {"waiting", "working"} :
          \E i, base :
            req' = [req EXCEPT ![h] = [stage |-> st, op |-> op, session |-> s,
                                      object |-> i, base |-> base]]
    BY <1>3 DEF Begin, Enqueue
  <2>2. k # h
    BY <1>1, <2>1 DEF Tailors, TypeOK
  <2> QED
    BY <1>1, <2>1, <2>2 DEF Tailors, InFlight, Stage, TypeOK
<1>4. ASSUME NEW h \in Requests, TakeLock(h) PROVE Tailors(k)
  <2>1. req[h] \in Busy /\ InFlight(h)
    BY <1>1, <1>4, InFlightIsBusy DEF TakeLock, InFlight
  <2>2. req' = [req EXCEPT ![h] = [req[h] EXCEPT !.stage = "working"]]
    BY <1>4 DEF TakeLock
  <2>3. req'[k].op = req[k].op /\ (k # h => req'[k] = req[k])
    BY <1>1, <2>1, <2>2 DEF TypeOK, Busy
  <2> QED
    BY <2>1, <2>3 DEF Tailors, InFlight, Stage
<1>5. ASSUME NEW h \in Requests, Finish(h) \/ Fail(h) PROVE Tailors(k)
  <2>1. PICK st \in {"answered", "refused"} : req' = [req EXCEPT ![h] = [stage |-> st]]
    BY <1>5 DEF Finish, Fail
  <2>2. k # h
    BY <1>1, <2>1 DEF Tailors, InFlight, Stage, TypeOK
  <2> QED
    BY <1>1, <2>1, <2>2 DEF Tailors, InFlight, Stage, TypeOK
<1> QED
  BY <1>2, <1>3, <1>4, <1>5
  DEF ClassicStep, Upload, Look, FindExpired, Delete, Call, Answered, Cleanup, sessionVars

(* So the classic API keeps the invariant of the copies.                    *)
LEMMA ClassicKeepsCopies ==
    ASSUME TailorIInv, LocksIInv', ClassicStep
    PROVE  CopiesIInv'
<1>1. UNCHANGED tailorVars
  BY DEF ClassicStep
<1>2. TypeOK'
  BY DEF LocksIInv
<1>3. \A k \in Requests : Tailors(k)' => Tailors(k)
  BY ClassicTailorsNoMore DEF TailorIInv
<1> QED
  BY <1>1, <1>2, <1>3
  DEF TailorIInv, CopiesIInv, TailorTypeOK, ApprovedPdfIsOfItsRequest, tailorVars

(* Routes that write a row and neither begin nor end a request of the model. *)
LEMMA RowRoutesKeepCopies ==
    ASSUME TailorIInv, LocksIInv', NEW s \in Sessions,
           \/ \E d \in Drafts : CreateTailor(s, d) \/ Patch(s, d)
           \/ LookAtTailor(s) \/ TailorFindExpired(s) \/ Approve(s)
    PROVE  CopiesIInv'
<1>1. CopiesIInv /\ TypeOK'
  BY DEF TailorIInv, LocksIInv
<1>2. req' = req /\ copies' = copies
  BY DEF CreateTailor, Upload, Patch, LookAtTailor, TailorFindExpired, Approve, vars, sessionVars
<1>3. /\ tailor' \in [Sessions -> TailorRecords \cup {NoTailor}]
      /\ \A r \in Sessions : tailor'[r] # NoTailor => Explained(tailor'[r])
  <2>1. CASE \E d \in Drafts : CreateTailor(s, d)
    <3> PICK d \in Drafts : CreateTailor(s, d)
      BY <2>1
    <3> DEFINE text == [draft |-> d, edits |-> {}]
               t == [source |-> text, current |-> text, history |-> {},
                     result |-> NoResult, age |-> 0]
    <3>1. t \in TailorRecords /\ Explained(t)
      BY TailorAssumption DEF TailorRecords, Texts, Explained
    <3> QED
      BY <1>1, <3>1, SavedIsExplained DEF CreateTailor
  <2>2. CASE \E d \in Drafts : Patch(s, d)
    BY <1>1, <2>2, FoundIsExplained, PatchedIsExplained, SavedIsExplained DEF Patch
  <2>3. CASE LookAtTailor(s) \/ Approve(s)
    BY <1>1, <2>3, FoundIsExplained, SavedIsExplained DEF LookAtTailor, Approve
  <2>4. CASE TailorFindExpired(s)
    BY <1>1, <2>4 DEF TailorFindExpired, CopiesIInv, TailorTypeOK
  <2> QED
    BY <2>1, <2>2, <2>3, <2>4
<1>4. approved' \in [Sessions -> Artifacts \cup {NoResult}] /\ ApprovedPdfIsOfItsRequest'
  <2>1. CASE Approve(s)
    <3>1. PICK pdf \in {tailor[s].current, tailor[s].result} \ {NoResult} :
              approved' = [approved EXCEPT ![s] = [text |-> tailor[s].current, pdf |-> pdf]]
      BY <2>1 DEF Approve
    <3>2. tailor[s] \in TailorRecords /\ Explained(tailor[s])
      BY <1>1, <2>1, FoundIsExplained DEF Approve
    <3>3. Shows(pdf, tailor[s].current)
      BY <3>2 DEF Explained, Shows
    <3>4. [text |-> tailor[s].current, pdf |-> pdf] \in Artifacts
      BY <3>1, <3>2 DEF TailorRecords, Artifacts
    <3> QED
      BY <1>1, <3>1, <3>3, <3>4
      DEF CopiesIInv, TailorTypeOK, ApprovedPdfIsOfItsRequest
  <2>2. CASE approved' = approved
    BY <1>1, <2>2 DEF CopiesIInv, TailorTypeOK, ApprovedPdfIsOfItsRequest
  <2> QED
    BY <2>1, <2>2 DEF CreateTailor, Patch, LookAtTailor, TailorFindExpired
<1>5. \A k \in Requests : Tailors(k)' <=> Tailors(k)
  BY <1>2 DEF Tailors, InFlight, Stage
<1> QED
  BY <1>1, <1>2, <1>3, <1>4, <1>5 DEF CopiesIInv, TailorTypeOK

(* A tailoring request takes a copy of the row.                             *)
LEMMA BeginKeepsCopies ==
    ASSUME TailorIInv, LocksIInv', NEW h \in Requests, NEW s \in Sessions,
           BeginTailor(h, s) \/ BeginTailorRefine(h, s)
    PROVE  CopiesIInv'
<1>1. CopiesIInv /\ TypeOK' /\ TypeOK
  BY DEF TailorIInv, LocksIInv
<1>2. tailor[s] # NoTailor /\ tailor[s] \in TailorRecords /\ Explained(tailor[s])
  BY <1>1, FoundIsExplained DEF BeginTailor, BeginTailorRefine
<1>3. /\ SaveTailor(s, tailor[s])
      /\ copies' = [copies EXCEPT ![h] = tailor[s]]
      /\ approved' = approved
  BY DEF BeginTailor, BeginTailorRefine
<1>4. /\ tailor' \in [Sessions -> TailorRecords \cup {NoTailor}]
      /\ \A r \in Sessions : tailor'[r] # NoTailor => Explained(tailor'[r])
  BY <1>1, <1>2, <1>3, SavedIsExplained
<1>5. /\ copies' \in [Requests -> TailorRecords \cup {NoTailor}]
      /\ \A k \in Requests : copies'[k] # NoTailor => Explained(copies'[k])
      /\ copies'[h] # NoTailor
  BY <1>1, <1>2, <1>3 DEF CopiesIInv, TailorTypeOK
<1>6. ASSUME NEW k \in Requests, k # h PROVE req'[k] = req[k] /\ copies'[k] = copies[k]
  BY <1>1, <1>3, <1>6 DEF BeginTailor, Enqueue, BeginTailorRefine, TypeOK, CopiesIInv, TailorTypeOK
<1>7. \A k \in Requests : Tailors(k)' => copies'[k] # NoTailor
  BY <1>1, <1>5, <1>6 DEF CopiesIInv, Tailors, InFlight, Stage
<1> QED
  BY <1>1, <1>3, <1>4, <1>5, <1>7 DEF CopiesIInv, TailorTypeOK, ApprovedPdfIsOfItsRequest

(* It saves its copy with its result, or drops it.                          *)
LEMMA EndKeepsCopies ==
    ASSUME TailorIInv, LocksIInv', NEW h \in Requests,
           FinishTailor(h) \/ FinishTailorRefine(h) \/ FailTailor(h)
    PROVE  CopiesIInv'
<1>1. CopiesIInv /\ TypeOK' /\ TypeOK
  BY DEF TailorIInv, LocksIInv
<1>2. Tailors(h) /\ req[h].session \in Sessions
  <2>1. Tailors(h)
    BY DEF FinishTailor, FinishTailorRefine, FailTailor, Tailors, InFlight
  <2> QED
    BY <1>1, <2>1, InFlightIsBusy DEF Tailors
<1>3. copies[h] \in TailorRecords /\ Explained(copies[h])
  BY <1>1, <1>2 DEF CopiesIInv, TailorTypeOK
<1>4. copies' = [copies EXCEPT ![h] = NoTailor] /\ approved' = approved
  BY DEF FinishTailor, FinishTailorRefine, FailTailor
<1>5. PICK st \in {"answered", "refused"} : req' = [req EXCEPT ![h] = [stage |-> st]]
  BY DEF FinishTailor, FinishTailorRefine, FailTailor, Fail
<1>6. /\ tailor' \in [Sessions -> TailorRecords \cup {NoTailor}]
      /\ \A r \in Sessions : tailor'[r] # NoTailor => Explained(tailor'[r])
  <2>1. CASE FinishTailor(h)
    <3> DEFINE from == copies[h].source
    <3>1. PICK pdf \in {Rewritten(from, h), from, NoResult} :
              SaveTailor(req[h].session, Tailored(h, from, pdf))
      BY <2>1 DEF FinishTailor
    <3> QED
      BY <1>1, <1>2, <1>3, <3>1, TailoredIsExplained, SavedIsExplained
  <2>2. CASE FinishTailorRefine(h)
    <3> DEFINE from == copies[h].current
    <3>1. PICK pdf \in {Rewritten(from, h), NoResult} :
              SaveTailor(req[h].session, Tailored(h, from, pdf))
      BY <2>2 DEF FinishTailorRefine
    <3> QED
      BY <1>1, <1>2, <1>3, <3>1, TailoredIsExplained, SavedIsExplained
  <2>3. CASE FailTailor(h)
    BY <1>1, <2>3 DEF FailTailor, CopiesIInv, TailorTypeOK
  <2> QED
    BY <2>1, <2>2, <2>3
<1>7. ASSUME NEW k \in Requests, Tailors(k)' PROVE Tailors(k) /\ k # h
  BY <1>1, <1>5, <1>7 DEF Tailors, InFlight, Stage, TypeOK
<1>8. /\ copies' \in [Requests -> TailorRecords \cup {NoTailor}]
      /\ \A k \in Requests : copies'[k] # NoTailor => Explained(copies'[k])
      /\ \A k \in Requests : Tailors(k)' => copies'[k] # NoTailor
  BY <1>1, <1>4, <1>7 DEF CopiesIInv, TailorTypeOK
<1> QED
  BY <1>1, <1>4, <1>6, <1>8 DEF CopiesIInv, TailorTypeOK, ApprovedPdfIsOfItsRequest

(* The clock, the deletion of the profile, a restart.                       *)
LEMMA ProcessKeepsCopies ==
    ASSUME TailorIInv, LocksIInv',
           TailorTick \/ TailorDeleteProfile \/ TailorRestart \/ UNCHANGED allVars
    PROVE  CopiesIInv'
<1>1. CopiesIInv /\ TypeOK' /\ TypeOK
  BY DEF TailorIInv, LocksIInv
<1>2. CASE TailorTick
  <2> DEFINE Aged(t) == [t EXCEPT !.age = IF @ > TailorTTL THEN @ ELSE @ + 1]
  <2>1. ASSUME NEW t \in TailorRecords
        PROVE  /\ Aged(t) \in TailorRecords
               /\ Aged(t).source = t.source /\ Aged(t).current = t.current
               /\ Aged(t).history = t.history /\ Aged(t).result = t.result
    BY TailorAssumption DEF TailorRecords
  <2>2. ASSUME NEW s \in Sessions
        PROVE  /\ tailor'[s] \in TailorRecords \cup {NoTailor}
               /\ tailor'[s] # NoTailor => Explained(tailor'[s])
    <3>1. CASE tailor[s] = NoTailor
      BY <1>2, <3>1 DEF TailorTick
    <3>2. CASE tailor[s] # NoTailor
      <4>1. tailor[s] \in TailorRecords /\ Explained(tailor[s])
        BY <1>1, <3>2 DEF CopiesIInv, TailorTypeOK
      <4>2. tailor'[s] = Aged(tailor[s])
        BY <1>2, <3>2 DEF TailorTick
      <4> HIDE DEF Aged
      <4> QED
        BY <2>1, <4>1, <4>2 DEF Explained
    <3> QED
      BY <3>1, <3>2
  <2>3. tailor' \in [Sessions -> TailorRecords \cup {NoTailor}]
    BY <1>2, <2>2 DEF TailorTick
  <2>4. UNCHANGED <<copies, approved, req>>
    BY <1>2 DEF TailorTick, Tick
  <2> QED
    BY <1>1, <2>2, <2>3, <2>4
    DEF CopiesIInv, TailorTypeOK, ApprovedPdfIsOfItsRequest, Tailors, InFlight, Stage
<1>3. CASE TailorDeleteProfile
  <2>1. UNCHANGED <<copies, req>>
    BY <1>3 DEF TailorDeleteProfile, DeleteProfile
  <2> QED
    BY <1>1, <1>3, <2>1
    DEF TailorDeleteProfile, CopiesIInv, TailorTypeOK, ApprovedPdfIsOfItsRequest,
        Tailors, InFlight, Stage
<1>4. CASE TailorRestart
  <2>1. ASSUME NEW k \in Requests PROVE ~Tailors(k)'
    <3>1. req'[k] = IF InFlight(k) THEN [stage |-> "lost"] ELSE req[k]
      BY <1>4 DEF TailorRestart, Restart
    <3> QED
      BY <3>1 DEF Tailors, InFlight, Stage
  <2> QED
    BY <1>1, <1>4, <2>1
    DEF TailorRestart, CopiesIInv, TailorTypeOK, ApprovedPdfIsOfItsRequest
<1>5. CASE UNCHANGED allVars
  BY <1>1, <1>5
  DEF CopiesIInv, TailorTypeOK, ApprovedPdfIsOfItsRequest, Tailors, InFlight, Stage,
      allVars, tailorVars, vars, sessionVars
<1> QED
  BY <1>2, <1>3, <1>4, <1>5

-----------------------------------------------------------------------------
(* Every step, and stuttering, keeps the invariant of the locks.            *)
LEMMA StepKeepsLocks ==
    ASSUME TailorIInv, [TailorNext]_allVars
    PROVE  LocksIInv'
<1>1. LocksIInv /\ CopiesIInv /\ TailorTypeOK
  BY DEF TailorIInv, CopiesIInv
<1>2. CASE ClassicStep
  <2>1. ASSUME NEW s \in Sessions, Upload(s) \/ Look(s) \/ FindExpired(s) \/ Delete(s)
        PROVE  LocksIInv'
    BY <1>1, <2>1, UploadKeepsLocks, LookKeepsLocks, FindExpiredKeepsLocks
  <2>2. ASSUME NEW h \in Requests, NEW s \in Sessions, Begin(h, s) PROVE LocksIInv'
    <3>1. CASE Enqueue(h, s, "optimize", {})
      BY <1>1, <2>2, <3>1, EnqueueKeepsLocks DEF Begin
    <3>2. CASE Enqueue(h, s, "refine", Loaded(s).text)
      <4>1. Loaded(s).text \in SUBSET Requests
        BY <1>1, <3>2, LoadedIsObject DEF LocksIInv, Enqueue, Available, Objects
      <4> QED
        BY <1>1, <2>2, <3>2, <4>1, EnqueueKeepsLocks DEF Begin
    <3> QED
      BY <2>2, <3>1, <3>2 DEF Begin
  <2>3. ASSUME NEW h \in Requests, TakeLock(h) \/ Finish(h) \/ Fail(h) PROVE LocksIInv'
    BY <1>1, <2>3, TakeLockKeepsLocks, FinishKeepsLocks, FailKeepsLocks
  <2>4. ASSUME NEW h \in Requests, Call(h) \/ Answered(h) PROVE LocksIInv'
    BY <1>1, <2>4, BudgetStepKeepsLocks DEF Call, Answered
  <2>5. CASE (SetBudget \/ NewDay) /\ UNCHANGED sessionVars
    BY <1>1, <2>5, BudgetStepKeepsLocks
  <2>6. CASE Cleanup
    BY <1>1, <2>6, ForgottenKeepsLocks
  <2> QED
    BY <1>2, <2>1, <2>2, <2>3, <2>4, <2>5, <2>6 DEF ClassicStep
<1>3. CASE TailorTick \/ TailorDeleteProfile \/ TailorRestart
  BY <1>1, <1>3, TickKeepsLocks, ForgottenKeepsLocks, RestartKeepsLocks
  DEF TailorTick, TailorDeleteProfile, TailorRestart
<1>4. ASSUME NEW s \in Sessions, NEW d \in Drafts, CreateTailor(s, d) PROVE LocksIInv'
  BY <1>1, <1>4, UploadKeepsLocks DEF CreateTailor
<1>5. CASE UNCHANGED vars
  BY <1>1, <1>5, StutterKeepsLocks
<1>6. ASSUME NEW h \in Requests, NEW s \in Sessions, BeginTailor(h, s) PROVE LocksIInv'
  <2>1. tailor[s].source.edits \in SUBSET Requests
    BY <1>1, <1>6, FoundIsExplained DEF BeginTailor, Explained
  <2> QED
    BY <1>1, <1>6, <2>1, EnqueueKeepsLocks DEF BeginTailor
<1>7. ASSUME NEW h \in Requests, NEW s \in Sessions, BeginTailorRefine(h, s)
      PROVE  LocksIInv'
  BY <1>1, <1>7, BeginTailorRefineKeepsLocks
<1>8. ASSUME NEW h \in Requests, FinishTailor(h) \/ FinishTailorRefine(h) PROVE LocksIInv'
  <2>1. copies[h] # NoTailor
    BY <1>1, <1>8 DEF FinishTailor, FinishTailorRefine, CopiesIInv, Tailors, InFlight
  <2> QED
    BY <1>1, <1>8, <2>1, FinishTailorKeepsLocks, FinishTailorRefineKeepsLocks
<1>9. ASSUME NEW h \in Requests, FailTailor(h) PROVE LocksIInv'
  <2>1. CASE Fail(h)
    BY <1>1, <2>1, FailKeepsLocks
  <2>2. CASE /\ req[h].op = "tailorRefine"
             /\ req' = [req EXCEPT ![h] = [stage |-> "refused"]]
             /\ UNCHANGED <<budgetVars, opened, objects, registered, rows, deleted>>
    <3>1. TypeOK
      BY <1>1 DEF LocksIInv
    <3>2. TypeOK'
      BY <3>1, <2>2 DEF TypeOK, BudgetTypeOK, budgetVars, Idle
    <3>3. ASSUME NEW k \in Requests, Stage(k)' \in {"waiting", "working"}
          PROVE  req'[k] = req[k] /\ Stage(k)' = Stage(k)
      BY <2>2, <3>1, <3>3 DEF TypeOK, Stage
    <3> QED
      BY <1>1, <2>2, <3>2, <3>3, ObjectsKept DEF LocksIInv, OnObject, InFlight, HasRow
  <2> QED
    BY <1>9, <2>1, <2>2 DEF FailTailor
<1> QED
  BY <1>2, <1>3, <1>4, <1>5, <1>6, <1>7, <1>8, <1>9
  DEF TailorNext, Patch, LookAtTailor, TailorFindExpired, Approve, allVars

(* Every step keeps both parts of the invariant.                            *)
LEMMA StepKeepsTailor ==
    ASSUME TailorIInv, [TailorNext]_allVars
    PROVE  TailorIInv'
<1>1. LocksIInv'
  BY StepKeepsLocks
<1>2. CopiesIInv'
  BY <1>1, ClassicKeepsCopies, RowRoutesKeepCopies, BeginKeepsCopies, EndKeepsCopies,
     ProcessKeepsCopies DEF TailorNext
<1> QED
  BY <1>1, <1>2 DEF TailorIInv

(* Both hold at first.                                                      *)
LEMMA InitTailor == TailorInit => TailorIInv
<1> SUFFICES ASSUME TailorInit PROVE TailorIInv
  OBVIOUS
<1>1. LocksIInv
  BY InitLocks DEF TailorInit
<1>2. CopiesIInv
  BY <1>1 DEF TailorInit, Init, LocksIInv, CopiesIInv, TailorTypeOK,
     ApprovedPdfIsOfItsRequest, Tailors, InFlight, Stage
<1> QED
  BY <1>1, <1>2 DEF TailorIInv

(* The inductive invariant of the two resume flows, for any sessions,       *)
(* requests, drafts, budgets and times to live.                             *)
THEOREM TailorInvariant == TailorSpec => []TailorIInv
  BY InitTailor, StepKeepsTailor, PTL DEF TailorSpec

(* Objects, rows, requests, copies and approved artifacts keep their types; *)
(* the sessions of the registry have an object.                             *)
THEOREM TailorTypesCorrect == TailorSpec => []TailorTypeOK
<1>1. TailorIInv => TailorTypeOK
  BY DEF TailorIInv, CopiesIInv
<1> QED
  BY <1>1, TailorInvariant, PTL

(* Whoever works on a session's object holds its lock, so that nobody else  *)
(* works on it, in both flows and whatever ends the others' work.           *)
THEOREM LockIsItsWorkersAlways == TailorSpec => []LockIsItsWorkers
<1>1. TailorIInv => LockIsItsWorkers
  BY DEF TailorIInv, LocksIInv
<1> QED
  BY <1>1, TailorInvariant, PTL

(* Every request whose edits are in a tailor session's text is in its       *)
(* change history, although requests overwrite each other's copies.         *)
THEOREM HistoryExplainsTextAlways == TailorSpec => []HistoryExplainsText
<1>1. TailorIInv => HistoryExplainsText
  BY DEF TailorIInv, CopiesIInv, Explained, HistoryExplainsText
<1> QED
  BY <1>1, TailorInvariant, PTL

(* An approved PDF, rendered then or kept in the last result, shows the     *)
(* approved text or a trial of the request that made it.                    *)
THEOREM ApprovedPdfIsOfItsRequestAlways == TailorSpec => []ApprovedPdfIsOfItsRequest
<1>1. TailorIInv => ApprovedPdfIsOfItsRequest
  BY DEF TailorIInv, CopiesIInv
<1> QED
  BY <1>1, TailorInvariant, PTL

-----------------------------------------------------------------------------
(* Two clocks.  While a session has one object, the object was touched      *)
(* since its row was written: whoever finds the object expired finds the    *)
(* row expired as well.                                                     *)
AgesIInv ==
    \A s \in Sessions :
        Len(objects[s]) = 1 /\ HasRow(s) => objects[s][1].age <= rows[s].age

(* The ages of one session: its object is new or touched, or neither it nor *)
(* its row changed.                                                         *)
AgesKept(s) ==
    \/ objects'[s][1].age = 0
    \/ /\ Len(objects[s]) = 1 /\ objects'[s][1].age = objects[s][1].age
       /\ HasRow(s) /\ rows'[s] = rows[s]

(* It is enough to look at the sessions with one object and a row.          *)
LEMMA AgesByAges ==
    ASSUME LocksIInv', AgesIInv,
           \A s \in Sessions : Len(objects'[s]) = 1 /\ HasRow(s)' => AgesKept(s)
    PROVE  AgesIInv'
<1> SUFFICES ASSUME NEW s \in Sessions, Len(objects'[s]) = 1, HasRow(s)'
             PROVE  objects'[s][1].age <= rows'[s].age
  BY DEF AgesIInv
<1>1. rows'[s] \in Contents
  BY DEF LocksIInv, TypeOK, HasRow
<1>2. rows'[s].age >= 0
  BY <1>1, SessionsAssumption DEF Contents, Ages
<1> QED
  BY <1>2 DEF AgesKept, AgesIInv

(* get touches the object it answers with.                                  *)
LEMMA GotKeepsAges ==
    ASSUME LocksIInv, LocksIInv', AgesIInv, NEW s \in Sessions, Exists(s),
           NEW x \in Objects, x.age = 0, Got(s, x), rows' = rows
    PROVE  AgesIInv'
<1>1. /\ Place(s) \in 1..Len(objects'[s]) /\ objects'[s][Place(s)] = x
      /\ \A r \in Sessions : r # s => objects'[r] = objects[r]
  BY GotPutsOne DEF LocksIInv
<1>2. ASSUME NEW r \in Sessions, Len(objects'[r]) = 1, HasRow(r)' PROVE AgesKept(r)
  <2>1. CASE r = s
    BY <1>1, <1>2, <2>1 DEF AgesKept
  <2>2. CASE r # s
    BY <1>1, <1>2, <2>2 DEF AgesKept, HasRow
  <2> QED
    BY <2>1, <2>2
<1> QED
  BY <1>2, AgesByAges

(* A request that writes its object touches it, or leaves age and row.      *)
LEMMA WrittenKeepsAges ==
    ASSUME LocksIInv, LocksIInv', AgesIInv, NEW h \in Requests, OnObject(h),
           NEW y \in Objects,
           objects' = [objects EXCEPT ![req[h].session][req[h].object] = y],
           \/ y.age = 0
           \/ /\ y.age = objects[req[h].session][req[h].object].age
              /\ rows' = rows,
           \A r \in Sessions : r # req[h].session => rows'[r] = rows[r]
    PROVE  AgesIInv'
<1> DEFINE s == req[h].session
           i == req[h].object
<1>1. /\ s \in Sessions /\ i \in 1..Len(objects[s])
      /\ objects'[s][i] = y
      /\ \A r \in Sessions :
             /\ Len(objects'[r]) = Len(objects[r])
             /\ \A j \in 1..Len(objects[r]) :
                    ~(r = s /\ j = i) => objects'[r][j] = objects[r][j]
  BY ObjectWritten
<1>2. ASSUME NEW r \in Sessions, Len(objects'[r]) = 1, HasRow(r)' PROVE AgesKept(r)
  <2>1. CASE r = s
    <3>1. i = 1
      BY <1>1, <1>2, <2>1
    <3> QED
      BY <1>1, <1>2, <2>1, <3>1 DEF AgesKept, HasRow
  <2>2. CASE r # s
    BY <1>1, <1>2, <2>2 DEF AgesKept, HasRow
  <2> QED
    BY <2>1, <2>2
<1> QED
  BY <1>2, AgesByAges

(* Rows that leave the table disturb nothing.                               *)
LEMMA RowsLeaveKeepAges ==
    ASSUME LocksIInv', AgesIInv, objects' = objects,
           \A s \in Sessions : HasRow(s)' => rows'[s] = rows[s]
    PROVE  AgesIInv'
<1>1. \A s \in Sessions : Len(objects'[s]) = 1 /\ HasRow(s)' => AgesKept(s)
  BY DEF AgesKept, HasRow
<1> QED
  BY <1>1, AgesByAges

(* Both clocks go on together.                                              *)
LEMMA TickKeepsAges ==
    ASSUME LocksIInv, LocksIInv', AgesIInv, Tick
    PROVE  AgesIInv'
<1> SUFFICES ASSUME NEW s \in Sessions, Len(objects'[s]) = 1, HasRow(s)'
             PROVE  objects'[s][1].age <= rows'[s].age
  BY DEF AgesIInv
<1>1. objects[s] \in Seq(Objects) /\ objects'[s] \in Seq(Objects)
  BY DEF LocksIInv, TypeOK
<1>2. objects'[s] = [i \in DOMAIN objects[s] |-> Older(objects[s][i])]
  BY DEF Tick
<1>3. Len(objects[s]) = 1 /\ objects[s][1] \in Objects /\ objects'[s][1] = Older(objects[s][1])
  <2>1. DOMAIN objects'[s] = DOMAIN objects[s]
    BY <1>2
  <2>2. Len(objects[s]) = 1
    BY <1>1, <2>1
  <2> QED
    BY <1>1, <1>2, <2>2
<1>4. HasRow(s) /\ rows'[s] = Older(rows[s])
  BY DEF Tick, HasRow
<1>5. rows[s] \in Contents
  BY <1>4, RowIsContents DEF LocksIInv
<1>6. objects[s][1].age <= rows[s].age
  BY <1>3, <1>4 DEF AgesIInv
<1>7. /\ Older(objects[s][1]).age =
             IF objects[s][1].age > TTL THEN objects[s][1].age ELSE objects[s][1].age + 1
      /\ objects[s][1].age \in Nat
  BY <1>3 DEF Objects, Ages, Older
<1>8. /\ Older(rows[s]).age = IF rows[s].age > TTL THEN rows[s].age ELSE rows[s].age + 1
      /\ rows[s].age \in Nat
  BY <1>5 DEF Contents, Ages, Older
<1> QED
  BY <1>3, <1>4, <1>6, <1>7, <1>8, SessionsAssumption

(* The steps of the classic sessions, as either flow takes them.            *)
LEMMA ClassicKeepsAges ==
    ASSUME LocksIInv, LocksIInv', AgesIInv,
           \/ \E s \in Sessions : Upload(s) \/ Look(s) \/ FindExpired(s) \/ Delete(s)
           \/ \E h \in Requests : TakeLock(h) \/ Finish(h) \/ Fail(h)
           \/ Cleanup \/ DeleteProfile \/ Tick \/ Restart
    PROVE  AgesIInv'
<1>1. TypeOK
  BY DEF LocksIInv
<1>2. ASSUME NEW s \in Sessions, Upload(s) PROVE AgesIInv'
  <2>1. \A r \in Sessions : Len(objects'[r]) = 1 /\ HasRow(r)' => AgesKept(r)
    BY <1>1, <1>2 DEF Upload, AgesKept, HasRow, TypeOK
  <2> QED
    BY <2>1, AgesByAges
<1>3. ASSUME NEW s \in Sessions, Look(s) PROVE AgesIInv'
  <2> DEFINE x == [Loaded(s) EXCEPT !.age = 0]
  <2>1. Exists(s) /\ Got(s, x) /\ rows' = rows
    BY <1>3 DEF Look, Available
  <2>2. x \in Objects /\ x.age = 0
    BY <1>1, <2>1, LoadedIsObject, SessionsAssumption DEF Objects, Ages
  <2> QED
    BY <2>1, <2>2, GotKeepsAges
<1>4. ASSUME NEW s \in Sessions, FindExpired(s) \/ Delete(s) PROVE AgesIInv'
  BY <1>1, <1>4, RowsLeaveKeepAges DEF FindExpired, Delete, Erase, HasRow, TypeOK
<1>5. ASSUME NEW h \in Requests, TakeLock(h) \/ Finish(h) \/ Fail(h) PROVE AgesIInv'
  <2> DEFINE s == req[h].session
             i == req[h].object
  <2>1. OnObject(h) /\ req[h] \in Busy
    BY <1>1, <1>5, InFlightIsBusy
    DEF LocksIInv, OnObject, InFlight, TakeLock, Finish, Fail
  <2>2. objects[s][i] \in Objects
    BY <2>1 DEF LocksIInv, TypeOK, Busy
  <2>3. PICK y \in Objects :
            /\ objects' = [objects EXCEPT ![req[h].session][req[h].object] = y]
            /\ \/ y.age = 0
               \/ /\ y.age = objects[req[h].session][req[h].object].age
                  /\ rows' = rows
    <3>1. CASE TakeLock(h)
      <4> DEFINE y == Entered(objects[s][i], h, req[h].op, req[h].base)
      <4>1. y \in Objects /\ y.age = objects[s][i].age
        BY <2>1, <2>2 DEF Objects, Entered, Busy
      <4> QED
        BY <3>1, <4>1 DEF TakeLock
    <3>2. CASE Fail(h)
      <4> DEFINE y == [objects[s][i] EXCEPT !.holder = NoRequest]
      <4>1. y \in Objects /\ y.age = objects[s][i].age
        BY <2>2 DEF Objects
      <4> QED
        BY <3>2, <4>1 DEF Fail
    <3>3. CASE Finish(h)
      <4> DEFINE x == [Outcome(h, objects[s][i]) EXCEPT !.holder = NoRequest]
                 y == [x EXCEPT !.age = 0]
      <4>1. x \in Objects
        BY <2>1, <2>2 DEF Objects, Outcome, Busy
      <4>2. objects' = [objects EXCEPT ![s][i] = y]
        BY <3>3 DEF Finish, SaveObject
      <4> HIDE DEF x
      <4>3. y \in Objects /\ y.age = 0
        BY <4>1, SessionsAssumption DEF Objects, Ages
      <4> QED
        BY <4>2, <4>3
    <3> QED
      BY <1>5, <3>1, <3>2, <3>3
  <2>4. \A r \in Sessions : r # req[h].session => rows'[r] = rows[r]
    BY <1>1, <1>5 DEF TakeLock, Fail, Finish, SaveObject, TypeOK
  <2> QED
    BY <2>1, <2>3, <2>4, WrittenKeepsAges
<1>6. CASE Cleanup \/ DeleteProfile
  BY <1>6, RowsLeaveKeepAges DEF Cleanup, DeleteProfile, HasRow
<1>7. CASE Restart
  <2>1. \A s \in Sessions : Len(objects'[s]) = 0
    BY <1>7 DEF Restart
  <2> QED
    BY <2>1 DEF AgesIInv
<1> QED
  BY <1>2, <1>3, <1>4, <1>5, <1>6, <1>7, TickKeepsAges

(* A new request touches the object it will work on.                        *)
LEMMA EnqueueKeepsAges ==
    ASSUME LocksIInv, LocksIInv', AgesIInv, NEW h \in Requests, NEW s \in Sessions,
           NEW op \in {"optimize", "refine", "tailor"}, NEW base \in SUBSET Requests,
           Enqueue(h, s, op, base), rows' = rows
    PROVE  AgesIInv'
<1> DEFINE x == [Loaded(s) EXCEPT !.age = 0]
<1>1. Exists(s)
  BY DEF Enqueue, Available
<1>2. x \in Objects /\ x.age = 0
  BY <1>1, LoadedIsObject, SessionsAssumption DEF LocksIInv, Objects, Ages
<1>3. Entered(x, h, op, base) \in Objects /\ Entered(x, h, op, base).age = 0
  <2> HIDE DEF x
  <2> QED
    BY <1>2 DEF Objects, Entered
<1>4. Got(s, x) \/ Got(s, Entered(x, h, op, base))
  BY DEF Enqueue
<1> QED
  BY <1>1, <1>2, <1>3, <1>4, GotKeepsAges

(* So does the end of a tailoring request.                                  *)
LEMMA FinishTailorKeepsAges ==
    ASSUME TailorIInv, LocksIInv', AgesIInv, NEW h \in Requests,
           FinishTailor(h) \/ FinishTailorRefine(h)
    PROVE  AgesIInv'
<1>1. LocksIInv /\ TypeOK /\ copies[h] \in TailorRecords /\ Explained(copies[h])
  BY DEF TailorIInv, LocksIInv, CopiesIInv, TailorTypeOK, Tailors, InFlight,
     FinishTailor, FinishTailorRefine
<1>2. /\ Rewritten(copies[h].source, h).edits \in SUBSET Requests
      /\ Rewritten(copies[h].current, h).edits \in SUBSET Requests
  BY <1>1 DEF Rewritten, TailorRecords, Texts
<1>3. CASE FinishTailor(h)
  <2> DEFINE y == [text |-> Rewritten(copies[h].source, h).edits, result |-> h,
                   age |-> 0, holder |-> NoRequest]
  <2>1. y \in Objects /\ y.age = 0
    BY <1>2, SessionsAssumption DEF Objects, Ages
  <2>2. /\ objects' = [objects EXCEPT ![req[h].session][req[h].object] = y]
        /\ rows' = rows /\ OnObject(h)
    BY <1>3 DEF FinishTailor, OnObject, InFlight
  <2> HIDE DEF y
  <2> QED
    BY <1>1, <2>1, <2>2, WrittenKeepsAges
<1>4. CASE FinishTailorRefine(h)
  <2> DEFINE s == req[h].session
             x == [Loaded(s) EXCEPT !.text = Rewritten(copies[h].current, h).edits,
                                    !.result = h, !.age = 0]
  <2>1. s \in Sessions
    BY <1>1, <1>4, InFlightIsBusy DEF FinishTailorRefine, InFlight
  <2>2. CASE Available(s) /\ Got(s, x) /\ rows' = rows
    <3>1. Exists(s) /\ Loaded(s) \in Objects
      BY <1>1, <2>1, <2>2, LoadedIsObject DEF Available
    <3>2. x \in Objects
      BY <1>2, <3>1, ObjectRewritten
    <3>3. x.age = 0
      BY <3>1 DEF Objects
    <3> HIDE DEF x
    <3> QED
      BY <1>1, <2>1, <2>2, <3>1, <3>2, <3>3, GotKeepsAges
  <2>3. CASE (Erase(s) \/ rows' = rows) /\ objects' = objects
    BY <1>1, <2>1, <2>3, RowsLeaveKeepAges DEF Erase, HasRow, TypeOK
  <2> QED
    BY <1>4, <2>2, <2>3 DEF FinishTailorRefine
<1> QED
  BY <1>3, <1>4

(* Every step keeps the two clocks in order.                                *)
LEMMA StepKeepsAges ==
    ASSUME TailorIInv, AgesIInv, [TailorNext]_allVars
    PROVE  AgesIInv'
<1>1. LocksIInv /\ LocksIInv' /\ CopiesIInv
  BY StepKeepsLocks DEF TailorIInv
<1>2. CASE UNCHANGED <<objects, rows>>
  BY <1>2 DEF AgesIInv, HasRow
<1>3. ASSUME NEW h \in Requests, NEW s \in Sessions, Begin(h, s) PROVE AgesIInv'
  <2>1. rows' = rows /\ {} \in SUBSET Requests
    BY <1>3 DEF Begin
  <2>2. CASE Enqueue(h, s, "optimize", {})
    BY <1>1, <2>1, <2>2, EnqueueKeepsAges
  <2>3. CASE Enqueue(h, s, "refine", Loaded(s).text)
    <3>1. Loaded(s).text \in SUBSET Requests
      BY <1>1, <2>3, LoadedIsObject DEF LocksIInv, Enqueue, Available, Objects
    <3> QED
      BY <1>1, <2>1, <2>3, <3>1, EnqueueKeepsAges
  <2> QED
    BY <1>3, <2>2, <2>3 DEF Begin
<1>4. ASSUME NEW h \in Requests, NEW s \in Sessions, BeginTailor(h, s) PROVE AgesIInv'
  <2>1. tailor[s].source.edits \in SUBSET Requests
    BY <1>1, <1>4, FoundIsExplained DEF BeginTailor, Explained
  <2> QED
    BY <1>1, <1>4, <2>1, EnqueueKeepsAges DEF BeginTailor
<1>5. CASE ClassicStep
  BY <1>1, <1>2, <1>3, <1>5, ClassicKeepsAges DEF ClassicStep, Call, Answered, sessionVars
<1>6. CASE TailorTick \/ TailorDeleteProfile \/ TailorRestart
  BY <1>1, <1>6, ClassicKeepsAges DEF TailorTick, TailorDeleteProfile, TailorRestart
<1>7. ASSUME NEW s \in Sessions, NEW d \in Drafts, CreateTailor(s, d) PROVE AgesIInv'
  BY <1>1, <1>7, ClassicKeepsAges DEF CreateTailor
<1>8. ASSUME NEW h \in Requests, FailTailor(h) PROVE AgesIInv'
  BY <1>1, <1>2, <1>8, ClassicKeepsAges DEF FailTailor
<1>9. ASSUME NEW s \in Sessions,
             \/ \E d \in Drafts : Patch(s, d)
             \/ LookAtTailor(s) \/ TailorFindExpired(s) \/ Approve(s)
             \/ \E h \in Requests : BeginTailorRefine(h, s)
      PROVE  UNCHANGED <<objects, rows>>
  BY <1>9 DEF Patch, LookAtTailor, TailorFindExpired, Approve, BeginTailorRefine,
              vars, sessionVars
<1>10. CASE UNCHANGED allVars
  BY <1>2, <1>10 DEF allVars, vars, sessionVars
<1> QED
  BY <1>1, <1>2, <1>4, <1>5, <1>6, <1>7, <1>8, <1>9, <1>10, FinishTailorKeepsAges
  DEF TailorNext

(* Whoever erases a fresh row of a session with one object does it on the   *)
(* user's demand.                                                           *)
FreshRowStays(s) ==
    /\ HasRow(s) /\ rows[s].age <= TTL
    /\ Len(objects[s]) <= 1 /\ s \notin deleted'
    => HasRow(s)'

(* None or one.                                                             *)
LEMMA AtMostOne == \A n \in Nat : n <= 1 => n \in 0..1
  OBVIOUS

(* A fresh row means a fresh object, when there is only one.                *)
LEMMA FreshIsNotExpired ==
    ASSUME LocksIInv, AgesIInv, NEW s \in Sessions,
           HasRow(s), rows[s].age <= TTL, Len(objects[s]) \in 0..1
    PROVE  ~Expired(Loaded(s))
<1>1. rows[s] \in Contents /\ objects[s] \in Seq(Objects)
  BY RowIsContents DEF LocksIInv, TypeOK
<1>2. CASE s \in registered
  <2>1. objects[s] # <<>>
    BY <1>2 DEF LocksIInv, TypeOK
  <2>2. Place(s) \in 1..Len(objects[s]) /\ Loaded(s) = objects[s][Place(s)]
        /\ Loaded(s) \in Objects
    BY <1>1, <1>2, <2>1, LoadedIsObject DEF LocksIInv, Exists
  <2>3. Len(objects[s]) = 1 /\ Place(s) = 1
    BY <2>2
  <2> QED
    BY <1>1, <2>2, <2>3, SessionsAssumption DEF AgesIInv, Expired, Contents, Objects, Ages
<1>3. CASE s \notin registered
  BY <1>1, <1>3, SessionsAssumption DEF Loaded, Expired, Contents, Ages
<1> QED
  BY <1>2, <1>3

(* No step takes a fresh row away but the user's.                           *)
LEMMA StepKeepsFreshRows ==
    ASSUME TailorIInv, AgesIInv, [TailorNext]_allVars, NEW s \in Sessions
    PROVE  FreshRowStays(s)
<1> SUFFICES ASSUME HasRow(s), rows[s].age <= TTL, Len(objects[s]) <= 1, s \notin deleted'
             PROVE  HasRow(s)'
  BY DEF FreshRowStays
<1>1. LocksIInv /\ TypeOK /\ rows[s] \in Contents /\ s \in opened
  BY RowIsContents DEF TailorIInv, LocksIInv
<1>2. ~Expired(Loaded(s)) /\ ~Expired(rows[s])
  <2>1. objects[s] \in Seq(Objects)
    BY <1>1 DEF TypeOK
  <2>2. Len(objects[s]) \in Nat
    BY <2>1, LenProperties
  <2>3. Len(objects[s]) \in 0..1
    BY <2>2, AtMostOne, Zenon
  <2> QED
    BY <1>1, <2>3, FreshIsNotExpired, SessionsAssumption DEF Expired, Contents, Ages
<1>3. ASSUME NEW c \in Contents PROVE c # NoRow
  <2>1. c.age \in 0..(TTL + 1)
    BY DEF Contents, Ages
  <2> QED
    BY <2>1, SessionsAssumption DEF NoRow
<1>4. CASE rows'[s] = rows[s]
  BY <1>4 DEF HasRow
<1>5. ASSUME NEW r \in Sessions, FindExpired(r) \/ Delete(r) PROVE HasRow(s)'
  <2>1. r # s
    BY <1>2, <1>5 DEF FindExpired, Delete
  <2> QED
    BY <1>1, <1>4, <1>5, <2>1 DEF FindExpired, Delete, Erase, TypeOK
<1>6. ASSUME NEW h \in Requests, Finish(h) PROVE HasRow(s)'
  <2>1. LocksIInv'
    BY <1>1, <1>6, FinishKeepsLocks
  <2> DEFINE x == [Outcome(h, objects[req[h].session][req[h].object]) EXCEPT
                       !.holder = NoRequest]
  <2>2. rows' = [rows EXCEPT ![req[h].session] =
                    [text |-> x.text, result |-> x.result, age |-> 0]]
    BY <1>6 DEF Finish, SaveObject
  <2> HIDE DEF x
  <2>3. rows'[s].age = 0 \/ rows'[s] = rows[s]
    BY <1>1, <2>2 DEF TypeOK
  <2>4. NoRow.age = TTL + 2 /\ TTL \in Nat
    BY SessionsAssumption DEF NoRow
  <2>5. rows'[s].age = 0 => rows'[s] # NoRow
    BY <2>4
  <2> QED
    BY <1>4, <2>3, <2>5 DEF HasRow
<1>7. CASE Cleanup
  BY <1>2, <1>7 DEF Cleanup, HasRow
<1>8. CASE Tick
  <2>1. Older(rows[s]) \in Contents
    BY <1>1, SessionsAssumption DEF Contents, Ages, Older
  <2> QED
    BY <1>3, <1>8, <2>1 DEF Tick, HasRow
<1>9. CASE DeleteProfile
  BY <1>1, <1>9 DEF DeleteProfile
<1>10. ASSUME NEW r \in Sessions, Upload(r) PROVE HasRow(s)'
  BY <1>1, <1>4, <1>10 DEF Upload, TypeOK
<1>11. ASSUME NEW h \in Requests, FinishTailorRefine(h) PROVE HasRow(s)'
  <2>1. rows' = rows \/ (Erase(req[h].session) /\ Expired(Loaded(req[h].session)))
    BY <1>11 DEF FinishTailorRefine
  <2>2. CASE Erase(req[h].session) /\ Expired(Loaded(req[h].session))
    BY <1>1, <1>2, <1>4, <2>2 DEF Erase, TypeOK
  <2> QED
    BY <1>4, <2>1, <2>2
<1> QED
  BY <1>4, <1>5, <1>6, <1>7, <1>8, <1>9, <1>10, <1>11
  DEF TailorNext, ClassicStep, TailorTick, TailorDeleteProfile, TailorRestart, Restart,
      CreateTailor, Patch, LookAtTailor, TailorFindExpired, Approve, BeginTailor,
      BeginTailorRefine, FinishTailor, FailTailor, Fail, Begin, Enqueue, TakeLock, Look,
      Call, Answered, allVars, vars, sessionVars

(* What was saved less than a time to live ago stays in the table unless    *)
(* the user deletes it, whichever of the two clocks is read.                *)
THEOREM FreshRowsStayAlways == TailorSpec => FreshRowsStay
<1>1. TailorInit => AgesIInv
  <2> SUFFICES ASSUME TailorInit PROVE AgesIInv
    OBVIOUS
  <2>1. \A s \in Sessions : Len(objects[s]) = 0
    BY DEF TailorInit, Init
  <2> QED
    BY <2>1 DEF AgesIInv
<1>2. TailorIInv /\ AgesIInv /\ [TailorNext]_allVars => (TailorIInv /\ AgesIInv)'
  BY StepKeepsTailor, StepKeepsAges
<1>3. TailorIInv /\ AgesIInv /\ [TailorNext]_allVars =>
          [\A s \in Sessions : FreshRowStays(s)]_vars
  BY StepKeepsFreshRows
<1>4. FreshRowsStay <=> [][\A s \in Sessions : FreshRowStays(s)]_vars
  BY DEF FreshRowsStay, FreshRowStays
<1> QED
  BY <1>1, <1>2, <1>3, <1>4, InitTailor, PTL DEF TailorSpec

-----------------------------------------------------------------------------
(* The two flows use the budget as LLMBudget says, so what is proved there  *)
(* of any clients holds of them.                                            *)
LEMMA StepIsBudgetStep ==
    ASSUME [TailorNext]_allVars
    PROVE  [BudgetNext]_budgetVars
<1>1. CASE UNCHANGED budgetVars
  BY <1>1
<1>2. ASSUME NEW h \in Requests, Bind(h) \/ StartCall(h) \/ EndCall(h) PROVE BudgetNext
  BY <1>2 DEF BudgetNext
<1>3. CASE SetBudget \/ NewDay \/ ForgetBudget \/ DropCalls
  BY <1>3 DEF BudgetNext
<1>4. CASE ClassicStep
  BY <1>1, <1>2, <1>3, <1>4
  DEF ClassicStep, Upload, Look, FindExpired, Delete, Begin, Enqueue, TakeLock, Call,
      Answered, Finish, Fail, Cleanup
<1>5. CASE TailorTick \/ TailorDeleteProfile \/ TailorRestart
  BY <1>1, <1>3, <1>5
  DEF TailorTick, Tick, TailorDeleteProfile, DeleteProfile, TailorRestart, Restart
<1>6. ASSUME NEW s \in Sessions,
             \/ \E d \in Drafts : CreateTailor(s, d) \/ Patch(s, d)
             \/ LookAtTailor(s) \/ TailorFindExpired(s) \/ Approve(s)
      PROVE  UNCHANGED budgetVars
  BY <1>6 DEF CreateTailor, Upload, Patch, LookAtTailor, TailorFindExpired, Approve, vars
<1>7. ASSUME NEW h \in Requests, NEW s \in Sessions,
             BeginTailor(h, s) \/ BeginTailorRefine(h, s)
      PROVE  Bind(h)
  BY <1>7 DEF BeginTailor, Enqueue, BeginTailorRefine
<1>8. ASSUME NEW h \in Requests,
             FinishTailor(h) \/ FinishTailorRefine(h) \/ FailTailor(h)
      PROVE  UNCHANGED budgetVars
  BY <1>8 DEF FinishTailor, FinishTailorRefine, FailTailor, Fail
<1>9. CASE UNCHANGED allVars
  BY <1>1, <1>9 DEF allVars, vars
<1> QED
  BY <1>1, <1>2, <1>4, <1>5, <1>6, <1>7, <1>8, <1>9 DEF TailorNext

(* Requests of both flows overspend a day's budget by less than there are   *)
(* requests, and the sessions change nothing about it.                      *)
THEOREM TailorImplementsBudget == TailorSpec => BudgetSpec /\ []OverspendIsBounded
<1>1. TailorInit => BudgetInit
  BY DEF TailorInit, Init
<1>2. [TailorNext]_allVars => [BudgetNext]_budgetVars
  BY StepIsBudgetStep
<1>3. TailorSpec => BudgetSpec
  BY <1>1, <1>2, PTL DEF TailorSpec, BudgetSpec
<1> QED
  BY <1>3, OverspendIsBoundedAlways, PTL
=============================================================================
