---------------------- MODULE ApplicationDocumentsProofs ----------------------
(* Proofs about ApplicationDocuments, for any texts, any supports and any   *)
(* number of artifacts: only what the user approved is attached, and the    *)
(* artifact whose PDF was written last is served as the text in its row.    *)
EXTENDS ApplicationDocuments, SequenceTheorems, WellFoundedInduction, TLAPS

Texts == Resumes \cup Letters \cup {SavedResume, None}
Artifacts == [id : Nat \ {0}, kind : Kinds, status : Statuses, text : Texts, file : BOOLEAN]
LetterCopies == {NoLetter} \cup [id : Nat \ {0}, status : Statuses, text : Texts]
Carried == [kind : Kinds, step : {"attach", "mark"}, id : Nat, text : Texts]

Ids == 1..Len(artifacts)

(* What the user approved, or would have seen but for a lost answer.        *)
Vetted == vouched \cup unseen

(* The ids of the rows are the numbers from one on, each used once.         *)
RowsOK ==
    /\ artifacts \in Seq(Artifacts)
    /\ \A i \in Ids : artifacts[i].id \in Ids
    /\ \A i, j \in Ids : artifacts[i].id = artifacts[j].id => i = j
    /\ \A n \in Ids : \E i \in Ids : artifacts[i].id = n

(* A copy of a letter is of a row, and claims no approval that was not.     *)
CopyOK(copy) ==
    /\ copy \in LetterCopies
    /\ copy # NoLetter =>
          /\ copy.id \in Ids /\ Row(copy.id).kind = "letter"
          /\ copy.status = "approved" => copy.text \in Vetted

ErrandOK ==
    \/ errand = NoErrand
    \/ errand.kind = "draft"
    \/ /\ errand.kind = "show"
       /\ CopyOK(errand.letter)
       /\ errand.letter # NoLetter /\ errand.letter = Copy(Row(errand.letter.id))
    \/ /\ errand \in Carried
       /\ errand.text \in Vetted \cup {SavedResume, None}
       /\ errand.id # 0 => errand.id \in Ids /\ Row(errand.id).kind = errand.kind
       /\ errand.step = "mark" => errand.id # 0

FocusOK == focus.at \in {"none", "reading", "answered"} /\ CopyOK(focus.letter)

(* The panel's copy has the text of the row, unless the edit that made the  *)
(* difference is one it has not seen, or is about to see.                   *)
PanelIsUpToDate ==
    letter # NoLetter =>
        \/ Row(letter.id).text = letter.text
        \/ Row(letter.id).text \in unseen
        \/ errand.kind = "show" /\ errand.letter.id = letter.id

(* Approved rows and files hold vetted texts.                               *)
ApprovedIsVetted ==
    /\ \A n \in Ids : Row(n).status = "approved" => Row(n).text \in Vetted
    /\ disk \in [Kinds -> Texts]
    /\ \A kind \in Kinds : disk[kind] \in Vetted \cup {None}

WriterOK ==
    /\ writer \in [Kinds -> Nat]
    /\ \A kind \in Kinds : writer[kind] # 0 =>
          /\ writer[kind] \in Ids /\ Row(writer[kind]).kind = kind
          /\ Row(writer[kind]).file => disk[kind] = Row(writer[kind]).text

AttachedOK ==
    /\ attached \in [Kinds -> [id : Nat, text : Texts]]
    /\ OnlyApprovedIsAttached

DocumentsIInv ==
    /\ RowsOK /\ ApprovedIsVetted /\ WriterOK
    /\ CopyOK(letter) /\ PanelIsUpToDate
    /\ ErrandOK /\ FocusOK /\ AttachedOK

-----------------------------------------------------------------------------
(* Rows.                                                                    *)

Less == {p \in Nat \X Nat : p[1] < p[2]}

(* A set of positions has a last one.                                       *)
LEMMA LastExists ==
    ASSUME NEW n \in Nat, NEW found, found \subseteq 1..n, found # {}
    PROVE  \E i \in found : \A j \in found : j <= i
<1> DEFINE rest == {n - i : i \in found}
<1>1. IsWellFoundedOn(Less, Nat)
  BY NatLessThanWellFounded, Zenon DEF OpToRel, Less
<1>2. rest \subseteq Nat /\ rest # {}
  <2>1. \A i \in found : n - i \in Nat
    OBVIOUS
  <2> QED
    BY <2>1
<1>3. PICK r \in rest : \A s \in rest : ~(<<s, r>> \in Less)
  BY <1>1, <1>2, WFMin
<1>4. ASSUME NEW s \in rest PROVE r <= s
  <2>1. <<s, r>>[1] = s /\ <<s, r>>[2] = r /\ s \in Nat /\ r \in Nat
    BY <1>2
  <2>2. <<s, r>> \in Nat \X Nat
    BY <2>1
  <2>3. ~(s < r)
    BY <1>3, <2>1, <2>2 DEF Less
  <2> QED
    BY <2>1, <2>3
<1>5. PICK i \in found : r = n - i
  OBVIOUS
<1>6. ASSUME NEW j \in found PROVE j <= i
  <2>1. n - j \in rest /\ j \in Nat /\ i \in Nat
    <3>1. j \in 1..n /\ i \in 1..n
      OBVIOUS
    <3> QED
      BY <3>1
  <2>2. n - i <= n - j
    BY <1>4, <1>5, <2>1
  <2> QED
    BY <2>1, <2>2
<1> QED
  BY <1>6

(* The table's length is a number, and its rows are artifacts.              *)
LEMMA TableShape ==
    RowsOK => /\ Len(artifacts) \in Nat
              /\ DOMAIN artifacts = Ids
              /\ \A i \in Ids : artifacts[i] \in Artifacts /\ artifacts[i].id \in Nat
<1> SUFFICES ASSUME RowsOK
             PROVE  /\ Len(artifacts) \in Nat
                    /\ DOMAIN artifacts = Ids
                    /\ \A i \in Ids : artifacts[i] \in Artifacts /\ artifacts[i].id \in Nat
  OBVIOUS
<1>1. artifacts \in Seq(Artifacts)
  BY DEF RowsOK
<1>2. Len(artifacts) \in Nat /\ DOMAIN artifacts = Ids
  BY <1>1, LenProperties DEF Ids
<1>3. \A i \in Ids : artifacts[i] \in Artifacts
  BY <1>1, ElementOfSeq DEF Ids
<1> QED
  BY <1>2, <1>3 DEF Artifacts

(* Row finds the row of an id.                                              *)
LEMMA RowIs ==
    RowsOK => /\ \A n, i \in Ids : artifacts[i].id = n => Row(n) = artifacts[i]
              /\ \A n \in Ids : Row(n) \in Artifacts /\ Row(n).id = n
<1> SUFFICES ASSUME RowsOK
             PROVE  /\ \A n, i \in Ids : artifacts[i].id = n => Row(n) = artifacts[i]
                    /\ \A n \in Ids : Row(n) \in Artifacts /\ Row(n).id = n
  OBVIOUS
<1> DEFINE rows == {artifacts[i] : i \in DOMAIN artifacts}
<1>1. DOMAIN artifacts = Ids /\ \A i \in Ids : artifacts[i] \in Artifacts
  BY TableShape
<1>2. ASSUME NEW n \in Ids, NEW i \in Ids, artifacts[i].id = n
      PROVE  Row(n) = artifacts[i]
  <2>1. artifacts[i] \in rows
    BY <1>1
  <2>2. ASSUME NEW a \in rows, a.id = n PROVE a = artifacts[i]
    <3>1. PICK j \in Ids : a = artifacts[j]
      BY <1>1
    <3>2. j = i
      BY <1>2, <2>2, <3>1 DEF RowsOK
    <3> QED
      BY <3>1, <3>2
  <2>3. Row(n) = CHOOSE a \in rows : a.id = n
    BY DEF Row
  <2> HIDE DEF rows
  <2> QED
    BY <1>2, <2>1, <2>2, <2>3
<1>3. ASSUME NEW n \in Ids
      PROVE  Row(n) \in Artifacts /\ Row(n).id = n
  <2>1. PICK i \in Ids : artifacts[i].id = n
    BY DEF RowsOK
  <2> QED
    BY <1>1, <1>2, <2>1
<1> QED
  BY <1>2, <1>3

(* The same of the table after a step.                                      *)
LEMMA RowIsNext ==
    (RowsOK => /\ \A n, i \in Ids : artifacts[i].id = n => Row(n) = artifacts[i]
               /\ \A n \in Ids : Row(n) \in Artifacts /\ Row(n).id = n)'
BY RowIs, PTL

(* The latest artifact of a kind is a row of that kind, if it is one.       *)
LEMMA LatestIs ==
    ASSUME RowsOK, NEW kind, NEW statuses, LatestOf(kind, statuses) # NoArtifact
    PROVE  \E n \in Ids : /\ LatestOf(kind, statuses) = Row(n)
                          /\ Row(n).kind = kind /\ Row(n).status \in statuses
<1> DEFINE found == {i \in DOMAIN artifacts :
                        artifacts[i].kind = kind /\ artifacts[i].status \in statuses}
           last == CHOOSE i \in found : \A j \in found : j <= i
<1>1. DOMAIN artifacts = 1..Len(artifacts) /\ Len(artifacts) \in Nat /\ DOMAIN artifacts = Ids
  BY TableShape DEF Ids
<1>2. found # {} /\ LatestOf(kind, statuses) = artifacts[last]
  BY DEF LatestOf
<1>3. found \subseteq 1..Len(artifacts)
  BY <1>1
<1>4. last \in found
  <2> HIDE DEF found
  <2>1. \E i \in found : \A j \in found : j <= i
    BY <1>1, <1>2, <1>3, LastExists
  <2> QED
    BY <2>1
<1> HIDE DEF last
<1>5. last \in Ids /\ artifacts[last].kind = kind /\ artifacts[last].status \in statuses
  BY <1>1, <1>4
<1>6. artifacts[last] = Row(artifacts[last].id) /\ artifacts[last].id \in Ids
  BY <1>5, RowIs DEF RowsOK
<1> QED
  BY <1>2, <1>5, <1>6

(* Two tables of which the second has all rows of the first, but that of a. *)
LEMMA RowsStay ==
    ASSUME RowsOK, RowsOK', NEW a, \E k \in Ids' : artifacts'[k] = a,
           \A i \in Ids : artifacts[i].id # a.id => \E k \in Ids' : artifacts'[k] = artifacts[i]
    PROVE  /\ Row(a.id)' = a
           /\ \A n \in Ids : n # a.id => Row(n)' = Row(n)
<1>1. \A n, k \in Ids' : artifacts'[k].id = n => Row(n)' = artifacts'[k]
  BY RowIsNext
<1>2. Row(a.id)' = a
  BY <1>1 DEF RowsOK
<1>3. ASSUME NEW n \in Ids, n # a.id PROVE Row(n)' = Row(n)
  <2>1. PICK i \in Ids : artifacts[i].id = n
    BY DEF RowsOK
  <2>2. PICK k \in Ids' : artifacts'[k] = artifacts[i]
    BY <1>3, <2>1
  <2>3. Row(n) = artifacts[i]
    BY <2>1, RowIs
  <2>4. artifacts'[k].id \in Ids'
    BY DEF RowsOK
  <2> QED
    BY <1>1, <2>1, <2>2, <2>3, <2>4
<1> QED
  BY <1>2, <1>3

(* Saving an artifact under an id of its own adds a row.                    *)
LEMMA SavedAdds ==
    ASSUME RowsOK, NEW a \in Artifacts, a.id = Len(artifacts) + 1, artifacts' = Saved(a)
    PROVE  /\ RowsOK'
           /\ Ids' = Ids \cup {a.id}
           /\ Row(a.id)' = a
           /\ \A n \in Ids : n # a.id => Row(n)' = Row(n)
<1>1. /\ Len(artifacts) \in Nat /\ DOMAIN artifacts = Ids /\ Ids = 1..Len(artifacts)
      /\ artifacts \in Seq(Artifacts)
      /\ \A i \in Ids : artifacts[i] \in Artifacts /\ artifacts[i].id \in Ids
  BY TableShape DEF Ids, RowsOK
<1>2. \A i \in Ids : artifacts[i].id # a.id
  BY <1>1
<1>3. artifacts' = Append(artifacts, a)
  <2>1. \A i \in DOMAIN artifacts : artifacts[i].id # a.id
    BY <1>1, <1>2
  <2> QED
    BY <2>1, Zenon DEF Saved
<1>4. /\ artifacts' \in Seq(Artifacts)
      /\ Len(artifacts') = Len(artifacts) + 1
      /\ \A i \in Ids : artifacts'[i] = artifacts[i]
      /\ artifacts'[Len(artifacts) + 1] = a
  BY <1>1, <1>3, AppendProperties
<1>5. Ids' = Ids \cup {a.id} /\ a.id \notin Ids
  BY <1>1, <1>4 DEF Ids
<1>6. RowsOK'
  <2>1. \A i \in Ids' : artifacts'[i].id \in Ids'
    BY <1>1, <1>4, <1>5
  <2>2. \A i, j \in Ids' : artifacts'[i].id = artifacts'[j].id => i = j
    BY <1>2, <1>4, <1>5 DEF RowsOK
  <2>3. \A n \in Ids' : \E i \in Ids' : artifacts'[i].id = n
    BY <1>4, <1>5 DEF RowsOK
  <2> QED
    BY <1>4, <2>1, <2>2, <2>3 DEF RowsOK
<1> QED
  BY <1>4, <1>5, <1>6, RowsStay

(* Saving one that is there replaces its row, at the end of the table.      *)
LEMMA SavedReplaces ==
    ASSUME RowsOK, NEW a \in Artifacts, a.id \in Ids, artifacts' = Saved(a)
    PROVE  /\ RowsOK'
           /\ Ids' = Ids
           /\ Row(a.id)' = a
           /\ \A n \in Ids : n # a.id => Row(n)' = Row(n)
<1> DEFINE at == CHOOSE k \in DOMAIN artifacts : artifacts[k].id = a.id
           last == Len(artifacts)
           from(k) == IF k < at THEN k ELSE k + 1
           to(i) == IF i < at THEN i ELSE i - 1
<1>1. /\ last \in Nat /\ DOMAIN artifacts = Ids /\ Ids = 1..last
      /\ artifacts \in Seq(Artifacts)
      /\ \A i \in Ids : artifacts[i] \in Artifacts /\ artifacts[i].id \in Ids
  BY TableShape DEF Ids, RowsOK
<1>2. \E k \in DOMAIN artifacts : artifacts[k].id = a.id
  BY <1>1 DEF RowsOK
<1>3. at \in Ids /\ artifacts[at].id = a.id
  BY <1>1, <1>2
<1>4. artifacts' = [k \in Ids |-> IF k < at THEN artifacts[k]
                                  ELSE IF k < last THEN artifacts[k + 1] ELSE a]
  <2>1. artifacts' = [k \in DOMAIN artifacts |->
                        IF k < at THEN artifacts[k]
                        ELSE IF k < last THEN artifacts[k + 1] ELSE a]
    BY <1>2, Zenon DEF Saved
  <2> QED
    BY <1>1, <2>1
<1> HIDE DEF at
<1>5. \A i \in Ids : i # at => artifacts[i].id # a.id
  BY <1>3 DEF RowsOK
<1>6. last \in Ids /\ ~(last < at)
  BY <1>1, <1>3
<1>7. last \in Nat
  BY <1>1
<1> HIDE DEF last
<1>8. \A k : k \in Ids <=> k \in Nat /\ 1 <= k /\ k <= last
  BY <1>1 DEF last
<1>9. ASSUME NEW k \in Ids, k # last
       PROVE  \/ k < at /\ from(k) = k /\ k \in Ids
              \/ ~(k < at) /\ from(k) = k + 1 /\ k + 1 \in Ids /\ k < last
  <2>1. k + 1 \in Ids /\ k < last
    BY <1>8, <1>9, <1>7
  <2> QED
    BY <2>1
<1>10. ASSUME NEW i \in Ids, i # at
       PROVE  \/ i < at /\ to(i) = i /\ i # last
              \/ ~(i < at) /\ to(i) = i - 1 /\ i - 1 \in Ids /\ i - 1 # last
  <2>1. CASE i < at
    BY <1>3, <1>8, <1>7, <2>1
  <2>2. CASE ~(i < at)
    <3>1. i - 1 \in Ids /\ i - 1 # last
      BY <1>3, <1>8, <1>10, <1>7, <2>2
    <3> QED
      BY <2>2, <3>1
  <2> QED
    BY <2>1, <2>2
<1>11. /\ Len(artifacts') = last /\ Ids' = Ids
       /\ artifacts' \in Seq(Artifacts)
       /\ artifacts'[last] = a
       /\ \A k \in Ids : k # last => artifacts'[k] = artifacts[from(k)]
  <2>1. artifacts'[last] = a
    BY <1>4, <1>6, <1>7
  <2>2. ASSUME NEW k \in Ids, k # last PROVE artifacts'[k] = artifacts[from(k)]
    <3>1. artifacts'[k] = IF k < at THEN artifacts[k]
                          ELSE IF k < last THEN artifacts[k + 1] ELSE a
      BY <1>4
    <3> HIDE DEF from
    <3> QED
      BY <1>9, <2>2, <3>1
  <2>3. \A k \in 1..last : artifacts'[k] \in Artifacts
    <3>1. \A k \in Ids : k # last => from(k) \in Ids
      BY <1>9
    <3> HIDE DEF from
    <3> QED
      BY <1>1, <1>8, <2>1, <2>2, <3>1
  <2>4. artifacts' \in Seq(Artifacts) /\ Len(artifacts') = last
    <3>1. artifacts' \in [1..last -> Artifacts]
      BY <1>1, <1>4, <2>3
    <3> QED
      BY <1>1, <3>1
  <2>5. Ids' = Ids
    BY <1>1, <2>4 DEF Ids, last
  <2> QED
    BY <2>1, <2>2, <2>4, <2>5
<1>12. /\ \A k \in Ids : k # last => from(k) \in Ids /\ from(k) # at
       /\ \A k, l \in Ids : k # last /\ l # last /\ from(k) = from(l) => k = l
       /\ \A i \in Ids : i # at => \E k \in Ids : k # last /\ from(k) = i
  <2>1. ASSUME NEW k \in Ids, k # last
        PROVE  from(k) \in Ids /\ from(k) # at
    BY <1>3, <1>8, <1>9, <2>1
  <2>2. ASSUME NEW k \in Ids, NEW l \in Ids, k # last, l # last, from(k) = from(l)
        PROVE  k = l
    BY <1>3, <1>8, <1>9, <2>2
  <2>3. ASSUME NEW i \in Ids, i # at
        PROVE  \E k \in Ids : k # last /\ from(k) = i
    <3>1. to(i) \in Ids /\ to(i) # last /\ from(to(i)) = i
      BY <1>3, <1>8, <1>10, <2>3
    <3> QED
      BY <3>1
  <2> QED
    BY <2>1, <2>2, <2>3
<1> HIDE DEF from, to
<1>13. ASSUME NEW i \in Ids, i # at
       PROVE  \E k \in Ids : k # last /\ artifacts'[k] = artifacts[i]
  <2>1. \E k \in Ids : k # last /\ from(k) = i
    BY <1>12, <1>13
  <2> QED
    BY <1>11, <2>1
<1>14. RowsOK'
  <2>1. ASSUME NEW k \in Ids PROVE artifacts'[k].id \in Ids
    <3>1. CASE k = last
      BY <1>11, <3>1
    <3>2. CASE k # last
      <4>1. artifacts'[k] = artifacts[from(k)] /\ from(k) \in Ids
        BY <1>11, <1>12, <3>2
      <4> QED
        BY <1>1, <4>1
    <3> QED
      BY <3>1, <3>2
  <2>2. ASSUME NEW k \in Ids, NEW l \in Ids, artifacts'[k].id = artifacts'[l].id
        PROVE  k = l
    <3>1. CASE k # last /\ l # last
      <4>1. artifacts[from(k)].id = artifacts[from(l)].id
        BY <1>11, <2>2, <3>1
      <4>2. from(k) = from(l)
        BY <1>12, <3>1, <4>1 DEF RowsOK
      <4> QED
        BY <1>12, <3>1, <4>2
    <3>2. CASE k = last \/ l = last
      BY <1>5, <1>11, <1>12, <2>2, <3>2
    <3> QED
      BY <3>1, <3>2
  <2>3. ASSUME NEW n \in Ids PROVE \E k \in Ids : artifacts'[k].id = n
    <3>1. CASE n = a.id
      BY <1>6, <1>11, <3>1
    <3>2. CASE n # a.id
      <4>1. PICK i \in Ids : artifacts[i].id = n
        BY DEF RowsOK
      <4> QED
        BY <1>3, <1>13, <3>2, <4>1
    <3> QED
      BY <3>1, <3>2
  <2> QED
    BY <1>11, <2>1, <2>2, <2>3 DEF RowsOK
<1>15. \A i \in Ids : artifacts[i].id # a.id => \E k \in Ids' : artifacts'[k] = artifacts[i]
  BY <1>3, <1>11, <1>13
<1>16. \E k \in Ids' : artifacts'[k] = a
  BY <1>6, <1>11
<1> QED
  BY <1>11, <1>14, <1>15, <1>16, RowsStay

(* Either way the other rows are as they were.                              *)
LEMMA SavedIs ==
    ASSUME RowsOK, NEW a \in Artifacts, a.id \in 1..(Len(artifacts) + 1), artifacts' = Saved(a)
    PROVE  /\ RowsOK'
           /\ Ids' = Ids \cup {a.id}
           /\ Row(a.id)' = a
           /\ \A n \in Ids : n # a.id => Row(n)' = Row(n)
<1>1. CASE a.id = Len(artifacts) + 1
  BY <1>1, SavedAdds
<1>2. CASE a.id # Len(artifacts) + 1
  <2>1. a.id \in Ids
    BY <1>2, TableShape DEF Ids
  <2> QED
    BY <2>1, SavedReplaces
<1> QED
  BY <1>1, <1>2

-----------------------------------------------------------------------------
(* What every step leaves of the tables, the approvals and the lost edits.  *)
Grows ==
    /\ Ids \subseteq Ids'
    /\ \A n \in Ids : Row(n)'.kind = Row(n).kind
    /\ vouched \subseteq vouched' /\ unseen \subseteq unseen'

(* A copy that was sound stays so.                                          *)
LEMMA CopyStays ==
    ASSUME Grows, NEW copy, CopyOK(copy)
    PROVE  CopyOK(copy)'
BY DEF Grows, CopyOK, Vetted

(* The copy of a letter's row is sound.                                     *)
LEMMA CopyOfRow ==
    ASSUME RowsOK, ApprovedIsVetted, NEW n \in Ids, Row(n).kind = "letter"
    PROVE  /\ Copy(Row(n)) = [id |-> n, status |-> Row(n).status, text |-> Row(n).text]
           /\ CopyOK(Copy(Row(n))) /\ Copy(Row(n)) # NoLetter
<1>1. Row(n) \in Artifacts /\ Row(n).id = n
  BY RowIs
<1>2. Row(n) # NoArtifact
  BY <1>1 DEF NoArtifact, Artifacts
<1>3. Copy(Row(n)) = [id |-> n, status |-> Row(n).status, text |-> Row(n).text]
  BY <1>1, <1>2 DEF Copy
<1>4. n \in Nat \ {0} /\ Row(n).status \in Statuses /\ Row(n).text \in Texts
  BY <1>1 DEF Artifacts
<1>5. Copy(Row(n)) \in LetterCopies /\ Copy(Row(n)).id = n /\ Copy(Row(n)) # NoLetter
  BY <1>3, <1>4 DEF LetterCopies, NoLetter
<1>6. Copy(Row(n)).status = "approved" => Copy(Row(n)).text \in Vetted
  BY <1>3 DEF ApprovedIsVetted
<1> QED
  BY <1>3, <1>5, <1>6 DEF CopyOK

(* The same, said of all rows, now and after a step.                        *)
LEMMA CopiesOfRows ==
    RowsOK /\ ApprovedIsVetted =>
        \A n \in Ids : Row(n).kind = "letter" =>
            /\ Copy(Row(n)) = [id |-> n, status |-> Row(n).status, text |-> Row(n).text]
            /\ CopyOK(Copy(Row(n))) /\ Copy(Row(n)) # NoLetter
BY CopyOfRow

(* And so of the rows after a step.                                         *)
LEMMA CopyOfRowNext ==
    (RowsOK /\ ApprovedIsVetted =>
        \A n \in Ids : Row(n).kind = "letter" =>
            /\ Copy(Row(n)) = [id |-> n, status |-> Row(n).status, text |-> Row(n).text]
            /\ CopyOK(Copy(Row(n))) /\ Copy(Row(n)) # NoLetter)'
BY CopiesOfRows, PTL

(* What loadCoverLetter answers is sound.                                   *)
LEMMA CopyOfLatest ==
    RowsOK /\ ApprovedIsVetted =>
        LET copy == Copy(LatestOf("letter", Statuses))
        IN  /\ CopyOK(copy)
            /\ copy # NoLetter => copy = Copy(Row(copy.id))
<1> SUFFICES ASSUME RowsOK, ApprovedIsVetted
             PROVE  LET copy == Copy(LatestOf("letter", Statuses))
                    IN  /\ CopyOK(copy)
                        /\ copy # NoLetter => copy = Copy(Row(copy.id))
  OBVIOUS
<1>1. CASE LatestOf("letter", Statuses) = NoArtifact
  BY <1>1 DEF Copy, CopyOK, LetterCopies
<1>2. CASE LatestOf("letter", Statuses) # NoArtifact
  <2>1. PICK n \in Ids : LatestOf("letter", Statuses) = Row(n) /\ Row(n).kind = "letter"
    BY <1>2, LatestIs
  <2> QED
    BY <2>1, CopyOfRow
<1> QED
  BY <1>1, <1>2

(* The same after a step.                                                   *)
LEMMA CopyOfLatestNext ==
    (RowsOK /\ ApprovedIsVetted =>
        LET copy == Copy(LatestOf("letter", Statuses))
        IN  /\ CopyOK(copy)
            /\ copy # NoLetter => copy = Copy(Row(copy.id)))'
BY CopyOfLatest, PTL

(* What is served of a row is vetted if its text is.                        *)
LEMMA BytesAreVetted ==
    ASSUME ApprovedIsVetted, NEW n \in Ids, Row(n) \in Artifacts, Row(n).text \in Vetted
    PROVE  Bytes(Row(n)) \in Vetted \cup {None} /\ Bytes(Row(n)) \in Texts
BY DEF ApprovedIsVetted, Bytes, Artifacts

(* Saving an artifact keeps the server's part of the invariant, if what is  *)
(* saved as approved is vetted and the file goes with the text.             *)
LEMMA SaveKeepsServer ==
    ASSUME DocumentsIInv, NEW a \in Artifacts, a.id \in Ids \cup {Len(artifacts) + 1},
           artifacts' = Saved(a),
           a.id \in Ids => a.kind = Row(a.id).kind,
           vouched \subseteq vouched', unseen \subseteq unseen',
           a.status = "approved" => a.text \in Vetted',
           \/ /\ UNCHANGED <<disk, writer>>
              /\ a.id \in Ids /\ a.file => Row(a.id).file /\ a.text = Row(a.id).text
           \/ Write(a) /\ a.text \in Vetted'
    PROVE  /\ RowsOK' /\ ApprovedIsVetted' /\ WriterOK' /\ Grows
           /\ a.id \in Ids' /\ Row(a.id)' = a
           /\ \A n \in Ids : n # a.id => Row(n)' = Row(n)
<1>1. RowsOK /\ ApprovedIsVetted /\ WriterOK
  BY DEF DocumentsIInv
<1>2. /\ Len(artifacts) \in Nat /\ Ids = 1..Len(artifacts)
      /\ \A n \in Ids : Row(n) \in Artifacts
  BY <1>1, TableShape, RowIs DEF Ids
<1>3. a.id \in 1..(Len(artifacts) + 1)
  BY <1>2
<1>4. /\ RowsOK' /\ Ids' = Ids \cup {a.id}
      /\ Row(a.id)' = a
      /\ \A n \in Ids : n # a.id => Row(n)' = Row(n)
  BY <1>1, <1>3, SavedIs
<1>5. Grows
  BY <1>4 DEF Grows
<1>6. Vetted \subseteq Vetted'
  BY DEF Vetted
<1>7. a.id \in Nat \ {0} /\ a.kind \in Kinds /\ a.text \in Texts
  BY DEF Artifacts
<1>8. ASSUME NEW n \in Ids', Row(n)'.status = "approved" PROVE Row(n)'.text \in Vetted'
  BY <1>1, <1>4, <1>6, <1>8 DEF ApprovedIsVetted
<1>9. disk' \in [Kinds -> Texts] /\ \A kind \in Kinds : disk'[kind] \in Vetted' \cup {None}
  BY <1>1, <1>6, <1>7 DEF ApprovedIsVetted, Write
<1>10. WriterOK'
  <2>1. CASE /\ UNCHANGED <<disk, writer>>
             /\ a.id \in Ids /\ a.file => Row(a.id).file /\ a.text = Row(a.id).text
    <3>1. ASSUME NEW kind \in Kinds, NEW n, n = writer'[kind], n # 0
          PROVE  /\ n \in Ids' /\ Row(n)'.kind = kind
                 /\ Row(n)'.file => disk'[kind] = Row(n)'.text
      <4>1. /\ n \in Ids /\ Row(n).kind = kind
            /\ Row(n).file => disk[kind] = Row(n).text
        BY <1>1, <2>1, <3>1 DEF WriterOK
      <4>2. CASE n = a.id
        BY <1>4, <2>1, <4>1, <4>2
      <4>3. CASE n # a.id
        BY <1>4, <2>1, <4>1, <4>3
      <4> QED
        BY <4>2, <4>3
    <3> QED
      BY <1>1, <2>1, <3>1 DEF WriterOK
  <2>2. CASE Write(a)
    <3>1. /\ writer' \in [Kinds -> Nat]
          /\ \A kind \in Kinds : writer'[kind] = IF kind = a.kind THEN a.id ELSE writer[kind]
          /\ \A kind \in Kinds : disk'[kind] = IF kind = a.kind THEN a.text ELSE disk[kind]
      BY <1>1, <1>7, <2>2 DEF Write, WriterOK, ApprovedIsVetted
    <3>2. ASSUME NEW kind \in Kinds, NEW n, n = writer'[kind], n # 0
          PROVE  /\ n \in Ids' /\ Row(n)'.kind = kind
                 /\ Row(n)'.file => disk'[kind] = Row(n)'.text
      <4>1. CASE kind = a.kind
        BY <1>4, <3>1, <3>2, <4>1
      <4>2. CASE kind # a.kind
        <5>1. /\ n \in Ids /\ Row(n).kind = kind
              /\ Row(n).file => disk[kind] = Row(n).text
          BY <1>1, <3>1, <3>2, <4>2 DEF WriterOK
        <5>2. n # a.id
          BY <4>2, <5>1
        <5> QED
          BY <1>4, <3>1, <4>2, <5>1, <5>2
      <4> QED
        BY <4>1, <4>2
    <3> QED
      BY <3>1, <3>2 DEF WriterOK
  <2> QED
    BY <2>1, <2>2
<1> QED
  BY <1>4, <1>5, <1>8, <1>9, <1>10 DEF ApprovedIsVetted

(* A step that changes no row and no file keeps the server's part.          *)
LEMMA SameTables ==
    ASSUME DocumentsIInv, UNCHANGED <<server, vouched, writer>>, unseen \subseteq unseen'
    PROVE  /\ RowsOK' /\ ApprovedIsVetted' /\ WriterOK' /\ Grows
           /\ Ids' = Ids /\ \A n \in Ids : Row(n)' = Row(n)
<1>1. artifacts' = artifacts /\ disk' = disk /\ vouched' = vouched /\ writer' = writer
  BY DEF server
<1>2. Ids' = Ids /\ \A n : Row(n)' = Row(n)
  BY <1>1 DEF Ids, Row
<1>3. RowsOK'
  BY <1>1, <1>2 DEF DocumentsIInv, RowsOK
<1>4. Grows
  BY <1>1, <1>2 DEF Grows
<1>5. ApprovedIsVetted'
  BY <1>1, <1>2 DEF DocumentsIInv, ApprovedIsVetted, Vetted
<1>6. WriterOK'
  <2>1. ASSUME NEW kind \in Kinds, NEW n, n = writer'[kind], n # 0
        PROVE  /\ n \in Ids' /\ Row(n)'.kind = kind
               /\ Row(n)'.file => disk'[kind] = Row(n)'.text
    BY <1>1, <1>2, <2>1 DEF DocumentsIInv, WriterOK
  <2> QED
    BY <1>1, <2>1 DEF DocumentsIInv, WriterOK
<1> QED
  BY <1>2, <1>3, <1>4, <1>5, <1>6

(* What is in the form stays vetted.                                        *)
LEMMA AttachedStays ==
    ASSUME AttachedOK, attached' = attached, Grows
    PROVE  AttachedOK'
BY DEF AttachedOK, OnlyApprovedIsAttached, Grows

(* The copy of a reading stays sound.                                       *)
LEMMA FocusStays ==
    ASSUME FocusOK, focus' = focus, Grows
    PROVE  FocusOK'
<1>1. CopyOK(focus.letter)
  BY DEF FocusOK
<1>2. \A copy : copy = focus.letter => CopyOK(copy)'
  BY <1>1, CopyStays
<1> QED
  BY <1>2 DEF FocusOK, CopyOK, Vetted

(* So does the panel's.                                                     *)
LEMMA LetterStays ==
    ASSUME CopyOK(letter), letter' = letter, Grows
    PROVE  CopyOK(letter)'
<1>1. \A copy : copy = letter => CopyOK(copy)'
  BY CopyStays
<1> QED
  BY <1>1 DEF CopyOK, Vetted

(* A task of the panel is not disturbed while the rows that exist stay as   *)
(* they are.                                                                *)
LEMMA ErrandStays ==
    ASSUME ErrandOK, errand' = errand, Grows, \A n \in Ids : Row(n)' = Row(n)
    PROVE  ErrandOK'
<1>1. CASE errand.kind = "show" /\ errand \notin Carried /\ errand # NoErrand
  <2>1. /\ CopyOK(errand.letter) /\ errand.letter # NoLetter
        /\ errand.letter = Copy(Row(errand.letter.id))
    BY <1>1 DEF ErrandOK
  <2>2. ASSUME NEW copy, copy = errand.letter
        PROVE  CopyOK(copy)' /\ (copy = Copy(Row(copy.id)))'
    <3>1. CopyOK(copy)' /\ copy.id \in Ids
      BY <2>1, <2>2, CopyStays DEF CopyOK
    <3>2. Row(copy.id)' = Row(copy.id)
      BY <3>1
    <3> QED
      BY <2>1, <2>2, <3>1, <3>2 DEF Copy
  <2>3. CopyOK(errand.letter)'
    BY <2>2 DEF CopyOK, Vetted
  <2>4. (errand.letter = Copy(Row(errand.letter.id)))'
    BY <2>2 DEF Copy
  <2> QED
    BY <1>1, <2>1, <2>3, <2>4 DEF ErrandOK
<1>2. CASE errand \in Carried
  <2>1. /\ errand.text \in Vetted \cup {SavedResume, None}
        /\ errand.id # 0 => errand.id \in Ids /\ Row(errand.id).kind = errand.kind
        /\ errand.step = "mark" => errand.id # 0
    BY <1>2 DEF ErrandOK, Carried, Kinds, NoErrand
  <2>2. ASSUME NEW n, n = errand.id, n # 0 PROVE n \in Ids' /\ Row(n)'.kind = errand.kind
    BY <2>1, <2>2 DEF Grows
  <2>3. errand.text \in Vetted' \cup {SavedResume, None}
    BY <2>1 DEF Grows, Vetted
  <2> QED
    BY <1>2, <2>1, <2>2, <2>3 DEF ErrandOK, Row
<1>3. CASE errand = NoErrand \/ errand.kind = "draft"
  BY <1>3 DEF ErrandOK
<1> QED
  BY <1>1, <1>2, <1>3 DEF ErrandOK

(* Nor does the panel's copy get out of date.                               *)
LEMMA PanelStays ==
    ASSUME CopyOK(letter), PanelIsUpToDate, letter' = letter, Grows,
           letter # NoLetter => Row(letter.id)' = Row(letter.id),
           \/ errand' = errand
           \/ errand.kind # "show"
    PROVE  PanelIsUpToDate'
<1>1. ASSUME NEW n, n = letter.id, letter # NoLetter PROVE Row(n)' = Row(n)
  BY <1>1 DEF Row
<1> QED
  BY <1>1 DEF PanelIsUpToDate, Grows, Row

(* The row of the panel's letter is one of those that stay.                 *)
LEMMA LetterRowStays ==
    ASSUME CopyOK(letter), letter' = letter, \A n \in Ids : Row(n)' = Row(n)
    PROVE  letter # NoLetter => Row(letter.id)' = Row(letter.id)
<1>1. letter # NoLetter => letter.id \in Ids
  BY DEF CopyOK
<1>2. \A n \in Ids : n = letter.id => Row(n)' = Row(letter.id)
  OBVIOUS
<1> QED
  BY <1>1, <1>2 DEF Row

(* The requests that the panel knows nothing of: they add rows.             *)
LEMMA BackgroundKeepsIInv ==
    ASSUME DocumentsIInv, RowsOK', ApprovedIsVetted', WriterOK', Grows,
           \A n \in Ids : Row(n)' = Row(n),
           UNCHANGED <<attached, letter, errand, focus>>
    PROVE  DocumentsIInv'
<1>1. letter # NoLetter => Row(letter.id)' = Row(letter.id)
  BY LetterRowStays DEF DocumentsIInv
<1> QED
  BY <1>1, AttachedStays, FocusStays, LetterStays, ErrandStays, PanelStays DEF DocumentsIInv

-----------------------------------------------------------------------------
(* The panel's tasks.                                                       *)

(* The invariant of a step that changes only which task the panel is at.    *)
LEMMA ErrandChanges ==
    ASSUME DocumentsIInv, UNCHANGED <<server, vouched, writer>>, unseen \subseteq unseen',
           UNCHANGED <<attached, letter, focus>>, ErrandOK', errand.kind # "show"
    PROVE  DocumentsIInv'
<1>1. /\ RowsOK' /\ ApprovedIsVetted' /\ WriterOK' /\ Grows
      /\ \A n \in Ids : Row(n)' = Row(n)
  BY SameTables
<1>2. letter # NoLetter => Row(letter.id)' = Row(letter.id)
  BY <1>1, LetterRowStays DEF DocumentsIInv
<1> QED
  BY <1>1, <1>2, AttachedStays, FocusStays, LetterStays, PanelStays DEF DocumentsIInv

(* A row's file on its way to the form, of a row whose text is vetted.      *)
LEMMA CarryIsOK ==
    ASSUME ApprovedIsVetted, RowsOK, NEW n \in Ids, Row(n).text \in Vetted,
           NEW kind \in Kinds, Row(n).kind = kind,
           errand' = Carry(kind, n, Bytes(Row(n))), UNCHANGED <<server, vouched, unseen>>
    PROVE  ErrandOK'
<1>1. Row(n) \in Artifacts /\ n \in Nat
  BY RowIs, TableShape DEF Ids
<1>2. Bytes(Row(n)) \in Vetted \cup {None} /\ Bytes(Row(n)) \in Texts
  BY <1>1, BytesAreVetted
<1>3. errand' \in Carried
  BY <1>1, <1>2 DEF Carry, Carried
<1>4. Ids' = Ids /\ Vetted' = Vetted /\ \A k : k = n => Row(k)' = Row(n)
  BY DEF server, Ids, Vetted, Row
<1>5. errand'.id = n /\ errand'.kind = kind /\ errand'.step = "attach"
      /\ errand'.text = Bytes(Row(n))
  BY DEF Carry
<1>6. \A k : k = errand'.id => k \in Ids' /\ Row(k)'.kind = errand'.kind
  BY <1>4, <1>5
<1> QED
  BY <1>2, <1>3, <1>4, <1>5, <1>6 DEF ErrandOK

(* The latest approved artifact is a row of its kind with a vetted text.    *)
LEMMA LatestApproved ==
    ASSUME RowsOK, ApprovedIsVetted, NEW kind,
           LatestOf(kind, {"approved"}) # NoArtifact
    PROVE  \E n \in Ids : /\ LatestOf(kind, {"approved"}) = Row(n) /\ Row(n).id = n
                          /\ Row(n).kind = kind /\ Row(n).text \in Vetted
<1>1. PICK n \in Ids : /\ LatestOf(kind, {"approved"}) = Row(n)
                       /\ Row(n).kind = kind /\ Row(n).status \in {"approved"}
  BY LatestIs
<1> QED
  BY <1>1, RowIs DEF ApprovedIsVetted

(* An approved resume is vetted; the profile's own needs no approval.       *)
LEMMA PrepareResumeKeepsIInv ==
    ASSUME DocumentsIInv, NEW prefer, PrepareResume(prefer)
    PROVE  DocumentsIInv'
<1> DEFINE a == LatestOf("resume", {"approved"})
<1>1. RowsOK /\ ApprovedIsVetted /\ UNCHANGED <<server, attached, letter, focus>>
      /\ UNCHANGED <<vouched, unseen, writer>> /\ errand = NoErrand
  BY DEF DocumentsIInv, PrepareResume, history
<1>2. CASE prefer /\ a # NoArtifact
  <2>1. PICK n \in Ids : a = Row(n) /\ Row(n).id = n
                         /\ Row(n).kind = "resume" /\ Row(n).text \in Vetted
    BY <1>1, <1>2, LatestApproved
  <2>2. errand' = Carry("resume", n, Bytes(Row(n)))
    BY <1>2, <2>1 DEF PrepareResume, Prepared
  <2>3. ErrandOK'
    BY <1>1, <2>1, <2>2, CarryIsOK DEF Kinds
  <2> QED
    BY <1>1, <2>3, ErrandChanges DEF NoErrand
<1>3. CASE ~(prefer /\ a # NoArtifact)
  <2>1. errand' = Carry("resume", 0, SavedResume)
    BY <1>3 DEF PrepareResume, Prepared
  <2>2. ErrandOK'
    BY <2>1 DEF ErrandOK, Carry, Carried, Kinds, Texts
  <2> QED
    BY <1>1, <2>2, ErrandChanges DEF NoErrand
<1> QED
  BY <1>2, <1>3

(* A draft under way claims nothing.                                        *)
LEMMA StartDraftKeepsIInv ==
    ASSUME DocumentsIInv, StartDraft
    PROVE  DocumentsIInv'
<1>1. ErrandOK'
  BY DEF StartDraft, ErrandOK
<1> QED
  BY <1>1, ErrandChanges DEF StartDraft, NoErrand, history

(* The copy says approved, so its text is vetted, and so is the row's,      *)
(* which it has or which the user would have seen.                          *)
LEMMA FetchLetterKeepsIInv ==
    ASSUME DocumentsIInv, FetchLetter
    PROVE  DocumentsIInv'
<1>1. RowsOK /\ ApprovedIsVetted /\ UNCHANGED <<server, attached, letter, focus>>
      /\ UNCHANGED <<vouched, unseen, writer>> /\ errand = NoErrand
  BY DEF DocumentsIInv, FetchLetter, history
<1>2. letter # NoLetter
  BY DEF FetchLetter, NoLetter
<1>3. letter.id \in Ids /\ Row(letter.id).kind = "letter" /\ letter.text \in Vetted
  BY <1>2 DEF DocumentsIInv, CopyOK, FetchLetter
<1>4. Row(letter.id).text \in Vetted
  BY <1>1, <1>2, <1>3 DEF DocumentsIInv, PanelIsUpToDate, Vetted, NoErrand
<1>5. ErrandOK'
  BY <1>1, <1>3, <1>4, CarryIsOK DEF FetchLetter, Kinds
<1> QED
  BY <1>1, <1>5, ErrandChanges DEF NoErrand

(* What the panel shows is the row as it is.                                *)
LEMMA ShowLetterKeepsIInv ==
    ASSUME DocumentsIInv, ShowLetter
    PROVE  DocumentsIInv'
<1>1. /\ RowsOK' /\ ApprovedIsVetted' /\ WriterOK' /\ Grows
      /\ \A n \in Ids : Row(n)' = Row(n)
  BY SameTables DEF ShowLetter, history
<1>2. CopyOK(errand.letter) /\ errand.letter = Copy(Row(errand.letter.id))
      /\ errand.letter # NoLetter
  BY DEF DocumentsIInv, ErrandOK, ShowLetter, NoErrand, Carried, Kinds
<1>3. ASSUME NEW copy, copy = errand.letter
      PROVE  CopyOK(copy)' /\ Row(copy.id)'.text = copy.text
  <2>1. CopyOK(copy)' /\ copy.id \in Ids
    BY <1>1, <1>2, <1>3, CopyStays DEF CopyOK
  <2>2. Row(copy.id)' = Row(copy.id) /\ Row(copy.id) # NoArtifact
    <3>1. Row(copy.id) \in Artifacts
      BY <2>1, RowIs DEF DocumentsIInv
    <3> QED
      BY <1>1, <2>1, <3>1 DEF Artifacts, NoArtifact
  <2> QED
    BY <1>2, <1>3, <2>1, <2>2 DEF Copy
<1>4. CopyOK(letter)'
  BY <1>3 DEF ShowLetter, CopyOK, Vetted
<1>5. PanelIsUpToDate'
  BY <1>3 DEF ShowLetter, PanelIsUpToDate
<1>6. ErrandOK'
  BY DEF ShowLetter, ErrandOK
<1> QED
  BY <1>1, <1>4, <1>5, <1>6, AttachedStays, FocusStays DEF DocumentsIInv, ShowLetter

(* What goes into the form is what was fetched.                             *)
LEMMA AttachKeepsIInv ==
    ASSUME DocumentsIInv, Attach
    PROVE  DocumentsIInv'
<1>1. /\ RowsOK' /\ ApprovedIsVetted' /\ WriterOK' /\ Grows
      /\ \A n \in Ids : Row(n)' = Row(n)
  BY SameTables DEF Attach, history
<1>2. /\ errand \in Carried
      /\ errand.text \in Vetted \cup {SavedResume, None}
      /\ errand.id # 0 => errand.id \in Ids /\ Row(errand.id).kind = errand.kind
  BY DEF DocumentsIInv, ErrandOK, Attach, NoErrand, Carried, Kinds
<1>3. ErrandOK'
  <2>1. CASE errand.id = 0
    BY <2>1 DEF Attach, ErrandOK
  <2>2. CASE errand.id # 0
    <3>1. /\ errand' \in Carried /\ errand'.id = errand.id /\ errand'.id # 0
          /\ errand'.text = errand.text /\ errand'.kind = errand.kind
      BY <1>2, <2>2 DEF Attach, Carried
    <3>2. ASSUME NEW n, n = errand.id PROVE n \in Ids' /\ Row(n)'.kind = errand.kind
      BY <1>1, <1>2, <2>2, <3>2 DEF Grows
    <3>3. errand'.id \in Ids' /\ (Row(errand.id).kind = errand.kind)'
      BY <3>1, <3>2 DEF Row
    <3>4. errand'.text \in Vetted' \cup {SavedResume, None}
      BY <1>1, <1>2, <3>1 DEF Grows, Vetted
    <3> QED
      BY <3>1, <3>3, <3>4 DEF ErrandOK
  <2> QED
    BY <2>1, <2>2
<1>4. AttachedOK'
  <2>1. /\ errand.kind \in Kinds /\ errand.id \in Nat /\ errand.text \in Texts
    BY <1>2 DEF Carried
  <2>2. attached' \in [Kinds -> [id : Nat, text : Texts]]
    BY <2>1 DEF Attach, DocumentsIInv, AttachedOK
  <2>3. ASSUME NEW kind \in Kinds
        PROVE  attached'[kind].text \in vouched' \cup unseen' \cup {SavedResume, None}
    <3>1. attached'[kind].text = IF kind = errand.kind THEN errand.text ELSE attached[kind].text
      BY <2>1 DEF Attach, DocumentsIInv, AttachedOK
    <3>2. attached[kind].text \in vouched \cup unseen \cup {SavedResume, None}
      BY DEF DocumentsIInv, AttachedOK, OnlyApprovedIsAttached
    <3> QED
      BY <1>1, <1>2, <3>1, <3>2 DEF Grows, Vetted
  <2> QED
    BY <2>2, <2>3 DEF AttachedOK, OnlyApprovedIsAttached
<1>5. letter # NoLetter => Row(letter.id)' = Row(letter.id)
  BY <1>1, LetterRowStays DEF DocumentsIInv, Attach
<1>6. errand.kind # "show"
  BY <1>2 DEF Carried, Kinds
<1> QED
  BY <1>1, <1>3, <1>4, <1>5, <1>6, FocusStays, LetterStays, PanelStays
     DEF DocumentsIInv, Attach

(* A lost answer: what it would have shown counts as not seen.              *)
LEMMA ErrandFailsKeepsIInv ==
    ASSUME DocumentsIInv, ErrandFails
    PROVE  DocumentsIInv'
<1>1. /\ UNCHANGED <<server, vouched, writer>> /\ unseen \subseteq unseen'
      /\ UNCHANGED <<attached, letter, focus>> /\ errand' = NoErrand
  BY DEF ErrandFails
<1>2. ErrandOK'
  BY <1>1 DEF ErrandOK
<1>3. CASE errand.kind # "show"
  BY <1>1, <1>2, <1>3, ErrandChanges
<1>4. CASE errand.kind = "show"
  <2>1. /\ RowsOK' /\ ApprovedIsVetted' /\ WriterOK' /\ Grows
        /\ \A n \in Ids : Row(n)' = Row(n)
    BY <1>1, SameTables
  <2>2. /\ CopyOK(errand.letter) /\ errand.letter # NoLetter
        /\ errand.letter = Copy(Row(errand.letter.id))
        /\ errand.letter.text \in unseen'
    BY <1>4 DEF DocumentsIInv, ErrandOK, ErrandFails, NoErrand, Carried, Kinds
  <2>3. ASSUME NEW n, n = letter.id, letter # NoLetter
        PROVE  Row(n)'.text = letter.text \/ Row(n)'.text \in unseen'
    <3>1. n \in Ids
      BY <2>3 DEF DocumentsIInv, CopyOK
    <3>2. Row(n)' = Row(n) /\ Row(n) # NoArtifact
      <4>1. Row(n) \in Artifacts
        BY <3>1, RowIs DEF DocumentsIInv
      <4> QED
        BY <2>1, <3>1, <4>1 DEF Artifacts, NoArtifact
    <3>3. errand.letter.id = n => errand.letter.text = Row(n).text
      BY <2>2, <3>2 DEF Copy
    <3> QED
      BY <1>1, <2>2, <2>3, <3>2, <3>3 DEF DocumentsIInv, PanelIsUpToDate
  <2>4. PanelIsUpToDate'
    BY <1>1, <2>3 DEF PanelIsUpToDate
  <2> QED
    BY <1>1, <1>2, <2>1, <2>4, AttachedStays, FocusStays, LetterStays DEF DocumentsIInv
<1> QED
  BY <1>3, <1>4

-----------------------------------------------------------------------------
(* The panel's saves, whose answer shows the letter as it is now.           *)

(* A save of a letter whose answer is on its way to the panel.              *)
LEMMA SaveAndShow ==
    ASSUME DocumentsIInv, RowsOK', ApprovedIsVetted', WriterOK', Grows,
           NEW a \in Artifacts, a.kind = "letter", a.id \in Ids', Row(a.id)' = a,
           \A n \in Ids : n # a.id => Row(n)' = Row(n),
           errand.kind # "show", errand' = Show(a), UNCHANGED <<attached, letter, focus>>
    PROVE  DocumentsIInv'
<1>1. \A n : n = a.id => /\ Copy(Row(n))' = [id |-> n, status |-> a.status, text |-> a.text]
                         /\ CopyOK(Copy(Row(n)))' /\ Copy(Row(n))' # NoLetter
                         /\ Row(n)' = a
  BY CopyOfRowNext
<1>2. errand' = [kind |-> "show", letter |-> Copy(a)]
  BY DEF Show
<1>3. ASSUME NEW copy, copy = Copy(a)
      PROVE  CopyOK(copy)' /\ copy # NoLetter /\ copy.id = a.id /\ (copy = Copy(Row(copy.id)))'
  <2>1. Row(a.id)' = a /\ \A n : n = a.id => Copy(Row(n))' = Copy(a)
    BY <1>1 DEF Copy
  <2>2. copy = [id |-> a.id, status |-> a.status, text |-> a.text]
    BY <1>1, <1>3, <2>1
  <2>3. copy.id = a.id /\ copy # NoLetter
    BY <1>1, <1>3, <2>1, <2>2
  <2>4. CopyOK(copy)'
    BY <1>1, <1>3, <2>1 DEF CopyOK, Vetted
  <2> QED
    BY <1>3, <2>1, <2>3, <2>4 DEF Copy
<1>4. ErrandOK'
  <2>1. CopyOK(errand.letter)'
    BY <1>2, <1>3 DEF CopyOK, Vetted
  <2>2. (errand.letter = Copy(Row(errand.letter.id)))'
    BY <1>2, <1>3 DEF Copy
  <2> QED
    BY <1>2, <1>3, <2>1, <2>2 DEF ErrandOK
<1>5. PanelIsUpToDate'
  <2>1. ASSUME NEW n, n = letter.id, letter # NoLetter, n # a.id
        PROVE  Row(n)'.text = letter.text \/ Row(n)'.text \in unseen'
    <3>1. n \in Ids
      BY <2>1 DEF DocumentsIInv, CopyOK
    <3>2. Row(n)' = Row(n)
      BY <2>1, <3>1
    <3> QED
      BY <2>1, <3>2 DEF DocumentsIInv, PanelIsUpToDate, Grows
  <2>2. errand'.kind = "show" /\ errand'.letter.id = a.id
    BY <1>2, <1>3
  <2> QED
    BY <2>1, <2>2 DEF PanelIsUpToDate
<1> QED
  BY <1>4, <1>5, AttachedStays, FocusStays, LetterStays DEF DocumentsIInv

(* A draft is a new row, not approved.                                      *)
LEMMA FinishDraftKeepsIInv ==
    ASSUME DocumentsIInv, NEW text \in Letters, FinishDraft(text)
    PROVE  DocumentsIInv'
<1> SUFFICES ASSUME NEW a, a = NewArtifact("letter", "generated", text, FALSE)
             PROVE  DocumentsIInv'
  OBVIOUS
<1>1. Len(artifacts) \in Nat
  BY TableShape DEF DocumentsIInv
<1>2. /\ a \in Artifacts /\ a.id = Len(artifacts) + 1 /\ a.id \notin Ids
      /\ a.status # "approved" /\ ~a.file /\ a.kind = "letter"
  BY <1>1 DEF NewArtifact, Artifacts, Kinds, Statuses, Texts, Ids
<1>3. artifacts' = Saved(a) /\ errand' = Show(a) /\ UNCHANGED <<disk, attached, letter, focus>>
      /\ UNCHANGED <<vouched, unseen, writer>> /\ errand.kind = "draft"
  BY DEF FinishDraft, history
<1>4. /\ RowsOK' /\ ApprovedIsVetted' /\ WriterOK' /\ Grows
      /\ a.id \in Ids' /\ Row(a.id)' = a
      /\ \A n \in Ids : n # a.id => Row(n)' = Row(n)
  BY <1>2, <1>3, SaveKeepsServer
<1> QED
  BY <1>2, <1>3, <1>4, SaveAndShow

(* An edit takes the approval and the file back.                            *)
LEMMA EditLetterKeepsIInv ==
    ASSUME DocumentsIInv, NEW text \in Letters, EditLetter(text)
    PROVE  DocumentsIInv'
<1> SUFFICES ASSUME NEW a, a = Edited(Row(letter.id), text)
             PROVE  DocumentsIInv'
  OBVIOUS
<1>1. letter.id \in Ids /\ Row(letter.id).kind = "letter"
  BY DEF DocumentsIInv, CopyOK, EditLetter
<1>2. Row(letter.id) \in Artifacts /\ Row(letter.id).id = letter.id
  BY <1>1, RowIs DEF DocumentsIInv
<1>3. /\ a \in Artifacts /\ a.id = letter.id /\ a.kind = "letter"
      /\ a.status # "approved" /\ ~a.file
  BY <1>1, <1>2 DEF Edited, Artifacts, Statuses, Texts
<1>4. artifacts' = Saved(a) /\ errand' = Show(a) /\ UNCHANGED <<disk, attached, letter, focus>>
      /\ UNCHANGED <<vouched, unseen, writer>> /\ errand.kind # "show"
  BY DEF EditLetter, history, NoErrand
<1>5. /\ RowsOK' /\ ApprovedIsVetted' /\ WriterOK' /\ Grows
      /\ a.id \in Ids' /\ Row(a.id)' = a
      /\ \A n \in Ids : n # a.id => Row(n)' = Row(n)
  BY <1>1, <1>3, <1>4, SaveKeepsServer
<1> QED
  BY <1>3, <1>4, <1>5, SaveAndShow

(* The text approved is the row's: the one that the panel shows, or one     *)
(* that the user would have seen.                                           *)
LEMMA ApproveLetterKeepsIInv ==
    ASSUME DocumentsIInv, NEW rendered \in BOOLEAN, ApproveLetter(rendered)
    PROVE  DocumentsIInv'
<1> DEFINE row == Row(letter.id)
<1> SUFFICES ASSUME NEW a, a = [row EXCEPT !.status = "approved", !.file = rendered \/ row.file]
             PROVE  DocumentsIInv'
  OBVIOUS
<1>1. letter.id \in Ids /\ Row(letter.id).kind = "letter"
  BY DEF DocumentsIInv, CopyOK, ApproveLetter
<1>2. Row(letter.id) \in Artifacts /\ Row(letter.id).id = letter.id
  BY <1>1, RowIs DEF DocumentsIInv
<1>3. Row(letter.id).text = letter.text \/ Row(letter.id).text \in unseen
  BY DEF DocumentsIInv, PanelIsUpToDate, ApproveLetter, NoErrand
<1>4. Row(letter.id).file \in BOOLEAN
  BY <1>2 DEF Artifacts
<1>5. /\ a \in Artifacts /\ a.id = letter.id /\ a.kind = "letter"
      /\ a.text = Row(letter.id).text
      /\ a.file = (rendered \/ Row(letter.id).file)
  BY <1>1, <1>2, <1>4 DEF Artifacts, Statuses
<1>6. /\ artifacts' = Saved(a) /\ errand' = Show(a)
      /\ IF rendered THEN Write(a) ELSE UNCHANGED <<disk, writer>>
      /\ UNCHANGED <<attached, letter, focus, unseen>> /\ errand.kind # "show"
      /\ vouched' = vouched \cup {letter.text}
  BY DEF ApproveLetter, NoErrand
<1>7. a.text \in Vetted'
  BY <1>3, <1>5, <1>6 DEF Vetted
<1> HIDE DEF row
<1>8. \/ /\ UNCHANGED <<disk, writer>>
         /\ a.id \in Ids /\ a.file => Row(a.id).file /\ a.text = Row(a.id).text
      \/ Write(a) /\ a.text \in Vetted'
  <2>1. CASE rendered
    BY <1>6, <1>7, <2>1
  <2>2. CASE ~rendered
    BY <1>5, <1>6, <2>2
  <2> QED
    BY <2>1, <2>2
<1>9. /\ RowsOK' /\ ApprovedIsVetted' /\ WriterOK' /\ Grows
      /\ a.id \in Ids' /\ Row(a.id)' = a
      /\ \A n \in Ids : n # a.id => Row(n)' = Row(n)
  BY <1>1, <1>5, <1>6, <1>7, <1>8, SaveKeepsServer
<1> QED
  BY <1>5, <1>6, <1>9, SaveAndShow

(* The artifact that went into the form is marked; of a letter, the panel   *)
(* then reads the latest.                                                   *)
LEMMA MarkUploadedKeepsIInv ==
    ASSUME DocumentsIInv, NEW recorded \in BOOLEAN, MarkUploaded(recorded)
    PROVE  DocumentsIInv'
<1> SUFFICES ASSUME NEW a, a = [Row(errand.id) EXCEPT !.status = "uploaded"]
             PROVE  DocumentsIInv'
  OBVIOUS
<1>1. errand \in Carried /\ errand.id \in Ids /\ Row(errand.id).kind = errand.kind
  BY DEF DocumentsIInv, ErrandOK, MarkUploaded, NoErrand, Carried, Kinds
<1>2. Row(errand.id) \in Artifacts /\ Row(errand.id).id = errand.id
  BY <1>1, RowIs DEF DocumentsIInv
<1>3. /\ a \in Artifacts /\ a.id = errand.id /\ a.kind = errand.kind
      /\ a.status # "approved" /\ a.file = Row(errand.id).file
      /\ a.text = Row(errand.id).text
  BY <1>1, <1>2 DEF Artifacts, Statuses
<1>4. /\ artifacts' = IF recorded THEN Saved(a) ELSE artifacts
      /\ UNCHANGED <<disk, attached, focus>> /\ UNCHANGED <<vouched, unseen, writer>>
      /\ errand' = NoErrand
      /\ errand.kind = "resume" => letter' = letter
  BY DEF MarkUploaded, history
<1>5. /\ RowsOK' /\ ApprovedIsVetted' /\ WriterOK' /\ Grows
      /\ \A n \in Ids : n # errand.id => Row(n)' = Row(n)
  <2>1. CASE recorded
    BY <1>1, <1>3, <1>4, <2>1, SaveKeepsServer
  <2>2. CASE ~recorded
    BY <1>4, <2>2, SameTables DEF server
  <2> QED
    BY <2>1, <2>2
<1>6. ErrandOK'
  BY <1>4 DEF ErrandOK
<1>7. CopyOK(letter)' /\ PanelIsUpToDate'
  <2>1. CASE errand.kind = "resume"
    <3>1. ASSUME NEW n, n = letter.id, letter # NoLetter PROVE Row(n)' = Row(n)
      BY <1>1, <1>5, <2>1, <3>1 DEF DocumentsIInv, CopyOK
    <3>2. letter' = letter
      BY <1>4, <2>1
    <3>3. letter # NoLetter => Row(letter.id)' = Row(letter.id)
      BY <3>1, <3>2 DEF Row
    <3>4. errand.kind # "show"
      BY <2>1
    <3> QED
      BY <1>5, <3>2, <3>3, <3>4, LetterStays, PanelStays DEF DocumentsIInv
  <2>2. CASE errand.kind # "resume"
    <3>1. letter' = Copy(LatestOf("letter", Statuses)')
      BY <2>2 DEF MarkUploaded
    <3>2. letter' = Copy(LatestOf("letter", Statuses))'
      BY <3>1 DEF Copy
    <3>3. ASSUME NEW copy, copy = Copy(LatestOf("letter", Statuses))'
          PROVE  CopyOK(copy)' /\ (copy # NoLetter => Row(copy.id)'.text = copy.text)
      <4>1. CopyOK(copy)' /\ (copy # NoLetter => copy = Copy(Row(copy.id)))'
        BY <1>5, <3>3, CopyOfLatestNext DEF CopyOK, Copy, Vetted
      <4>2. ASSUME NEW n, n = copy.id, copy # NoLetter PROVE Row(n)'.text = copy.text
        <5>1. n \in Ids'
          BY <4>1, <4>2 DEF CopyOK
        <5>2. Row(n)' \in Artifacts
          BY <1>5, <5>1, RowIsNext
        <5>3. Row(n)' # NoArtifact
          BY <5>2 DEF Artifacts, NoArtifact
        <5> QED
          BY <4>1, <4>2, <5>3 DEF Copy
      <4> QED
        BY <4>1, <4>2
    <3> QED
      BY <3>2, <3>3 DEF PanelIsUpToDate, CopyOK, Vetted
  <2> QED
    BY <2>1, <2>2
<1> QED
  BY <1>4, <1>5, <1>6, <1>7, AttachedStays, FocusStays DEF DocumentsIInv

-----------------------------------------------------------------------------
(* The reading that a focus event starts.                                   *)

(* A reading begins with nothing read.                                      *)
LEMMA GainFocusKeepsIInv ==
    ASSUME DocumentsIInv, GainFocus
    PROVE  DocumentsIInv'
<1>1. /\ UNCHANGED <<server, attached, letter, errand>> /\ UNCHANGED <<vouched, unseen, writer>>
      /\ focus'.at = "reading" /\ focus'.letter = NoLetter /\ errand = NoErrand
  BY DEF GainFocus, NoFocus, history
<1>2. /\ RowsOK' /\ ApprovedIsVetted' /\ WriterOK' /\ Grows
      /\ \A n \in Ids : Row(n)' = Row(n)
  BY <1>1, SameTables
<1>3. FocusOK'
  BY <1>1 DEF FocusOK, CopyOK, LetterCopies
<1>4. ErrandOK'
  BY <1>1 DEF ErrandOK
<1>5. letter # NoLetter => Row(letter.id)' = Row(letter.id)
  BY <1>1, <1>2, LetterRowStays DEF DocumentsIInv
<1> QED
  BY <1>1, <1>2, <1>3, <1>4, <1>5, AttachedStays, LetterStays, PanelStays DEF DocumentsIInv

(* It finds the latest letter.                                              *)
LEMMA ReadLetterKeepsIInv ==
    ASSUME DocumentsIInv, ReadLetter
    PROVE  DocumentsIInv'
<1>1. /\ UNCHANGED <<server, attached, errand>> /\ UNCHANGED <<vouched, unseen, writer>>
      /\ letter' = NoLetter /\ focus'.at = "answered"
      /\ focus'.letter = Copy(LatestOf("letter", Statuses))
  BY DEF ReadLetter, history
<1>2. /\ RowsOK' /\ ApprovedIsVetted' /\ WriterOK' /\ Grows
      /\ \A n \in Ids : Row(n)' = Row(n)
  BY <1>1, SameTables
<1>3. CopyOK(focus'.letter)
  BY <1>1, CopyOfLatest DEF DocumentsIInv
<1>4. \A copy : copy = focus'.letter => CopyOK(copy)'
  BY <1>2, <1>3 DEF Grows, CopyOK, Vetted
<1>5. FocusOK'
  BY <1>1, <1>4 DEF FocusOK, CopyOK, Vetted
<1>6. CopyOK(letter)' /\ PanelIsUpToDate'
  BY <1>1 DEF CopyOK, LetterCopies, PanelIsUpToDate
<1>7. ErrandOK'
  BY <1>1, <1>2, ErrandStays DEF DocumentsIInv
<1> QED
  BY <1>1, <1>2, <1>5, <1>6, <1>7, AttachedStays DEF DocumentsIInv

(* An older reading may overtake an edit; what the edit made is then unseen. *)
LEMMA LetterReadKeepsIInv ==
    ASSUME DocumentsIInv, LetterRead
    PROVE  DocumentsIInv'
<1>1. /\ UNCHANGED <<server, attached, errand>> /\ UNCHANGED <<vouched, writer>>
      /\ focus' = NoFocus /\ letter' \in {focus.letter, NoLetter}
      /\ unseen' = IF letter' = NoLetter \/ letter' = Copy(Row(letter'.id)) THEN unseen
                   ELSE unseen \cup {Row(letter'.id).text}
  BY DEF LetterRead
<1>2. unseen \subseteq unseen'
  BY <1>1
<1>3. /\ RowsOK' /\ ApprovedIsVetted' /\ WriterOK' /\ Grows
      /\ \A n \in Ids : Row(n)' = Row(n)
  BY <1>1, <1>2, SameTables
<1>4. CopyOK(letter')
  BY <1>1 DEF DocumentsIInv, FocusOK, CopyOK, LetterCopies
<1>5. ASSUME NEW copy, copy = letter'
      PROVE  /\ CopyOK(copy)'
             /\ copy # NoLetter => Row(copy.id)'.text = copy.text \/ Row(copy.id)'.text \in unseen'
  <2>1. CopyOK(copy)' /\ (copy # NoLetter => copy.id \in Ids)
    BY <1>3, <1>4, <1>5 DEF Grows, CopyOK, Vetted
  <2>2. ASSUME copy # NoLetter
        PROVE  Row(copy.id)'.text = copy.text \/ Row(copy.id)'.text \in unseen'
    <3>1. Row(copy.id)' = Row(copy.id) /\ Row(copy.id) \in Artifacts
      BY <1>3, <2>1, <2>2, RowIs DEF DocumentsIInv
    <3>2. Row(copy.id) # NoArtifact
      BY <3>1 DEF Artifacts, NoArtifact
    <3>3. copy = Copy(Row(copy.id)) \/ Row(copy.id).text \in unseen'
      BY <1>1, <1>5, <2>2
    <3> QED
      BY <3>1, <3>2, <3>3 DEF Copy
  <2> QED
    BY <2>1, <2>2
<1>6. CopyOK(letter)' /\ PanelIsUpToDate'
  BY <1>5 DEF CopyOK, Vetted, PanelIsUpToDate
<1>7. ErrandOK' /\ FocusOK'
  <2>1. FocusOK'
    BY <1>1 DEF FocusOK, NoFocus, CopyOK, LetterCopies
  <2> QED
    BY <1>1, <1>3, <2>1, ErrandStays DEF DocumentsIInv
<1> QED
  BY <1>1, <1>3, <1>6, <1>7, AttachedStays DEF DocumentsIInv

-----------------------------------------------------------------------------
(* The studio, the API's other client, and the receipt.                     *)

(* The studio approves the text that it writes to row and file.             *)
LEMMA ApproveTailoredKeepsIInv ==
    ASSUME DocumentsIInv, NEW text \in Resumes, ApproveTailored(text)
    PROVE  DocumentsIInv'
<1> SUFFICES ASSUME NEW a, a = NewArtifact("resume", "approved", text, TRUE)
             PROVE  DocumentsIInv'
  OBVIOUS
<1>1. Len(artifacts) \in Nat
  BY TableShape DEF DocumentsIInv
<1>2. /\ a \in Artifacts /\ a.id = Len(artifacts) + 1 /\ a.id \notin Ids
      /\ a.text = text
  BY <1>1 DEF NewArtifact, Artifacts, Kinds, Statuses, Texts, Ids
<1>3. /\ artifacts' = Saved(a) /\ Write(a) /\ vouched' = vouched \cup {text}
      /\ UNCHANGED <<attached, letter, errand, focus>> /\ unseen' = unseen
  BY DEF ApproveTailored
<1>4. a.text \in Vetted'
  BY <1>2, <1>3 DEF Vetted
<1>5. /\ RowsOK' /\ ApprovedIsVetted' /\ WriterOK' /\ Grows
      /\ \A n \in Ids : n # a.id => Row(n)' = Row(n)
  BY <1>2, <1>3, <1>4, SaveKeepsServer
<1>6. \A n \in Ids : Row(n)' = Row(n)
  BY <1>2, <1>5
<1> QED
  BY <1>3, <1>5, <1>6, BackgroundKeepsIInv

(* A row of its own whose text nobody has approved, and whose file, if any, *)
(* is not written.                                                          *)
LEMMA NewRowKeepsIInv ==
    ASSUME DocumentsIInv, NEW kind \in Kinds, NEW text \in Texts,
           artifacts' = Saved(NewArtifact(kind, "generated", text, FALSE)),
           UNCHANGED <<disk, attached, letter, errand, focus, receipt, isSubmitted, history>>
    PROVE  DocumentsIInv'
<1> SUFFICES ASSUME NEW a, a = NewArtifact(kind, "generated", text, FALSE)
             PROVE  DocumentsIInv'
  OBVIOUS
<1>1. Len(artifacts) \in Nat
  BY TableShape DEF DocumentsIInv
<1>2. /\ a \in Artifacts /\ a.id = Len(artifacts) + 1 /\ a.id \notin Ids
      /\ a.status # "approved" /\ ~a.file
  BY <1>1 DEF NewArtifact, Artifacts, Statuses, Ids
<1>3. /\ UNCHANGED <<disk, attached, letter, errand, focus>>
      /\ UNCHANGED <<vouched, unseen, writer>>
  BY DEF history
<1>4. /\ RowsOK' /\ ApprovedIsVetted' /\ WriterOK' /\ Grows
      /\ \A n \in Ids : n # a.id => Row(n)' = Row(n)
  BY <1>2, <1>3, SaveKeepsServer
<1>5. \A n \in Ids : Row(n)' = Row(n)
  BY <1>2, <1>4
<1> QED
  BY <1>3, <1>4, <1>5, BackgroundKeepsIInv

(* A generated resume is such a row,                                        *)
LEMMA GenerateTailoredKeepsIInv ==
    ASSUME DocumentsIInv, NEW text \in Resumes, GenerateTailored(text)
    PROVE  DocumentsIInv'
BY NewRowKeepsIInv DEF GenerateTailored, Kinds, Texts

(* and so is a client's own letter.                                         *)
LEMMA OwnLetterKeepsIInv ==
    ASSUME DocumentsIInv, NEW text \in Letters, OwnLetter(text)
    PROVE  DocumentsIInv'
BY NewRowKeepsIInv DEF OwnLetter, Kinds, Texts

(* The receipt only reads.                                                  *)
LEMMA ConfirmSubmissionKeepsIInv ==
    ASSUME DocumentsIInv, ConfirmSubmission
    PROVE  DocumentsIInv'
<1>1. /\ UNCHANGED <<server, attached, letter, errand, focus>>
      /\ UNCHANGED <<vouched, unseen, writer>>
  BY DEF ConfirmSubmission, history
<1> QED
  BY <1>1, SameTables, BackgroundKeepsIInv

-----------------------------------------------------------------------------
(* The invariant.                                                           *)

(* At first there is nothing.                                               *)
LEMMA DocumentsInitially ==
    DocumentsInit => DocumentsIInv
<1> SUFFICES ASSUME DocumentsInit PROVE DocumentsIInv
  OBVIOUS
<1>1. artifacts = <<>> /\ Len(artifacts) = 0 /\ Ids = {}
  BY DEF DocumentsInit, Ids
<1>2. artifacts \in Seq(Artifacts)
  BY <1>1
<1>3. RowsOK
  BY <1>1, <1>2 DEF RowsOK
<1>4. ApprovedIsVetted
  BY <1>1 DEF DocumentsInit, ApprovedIsVetted, Texts
<1>5. WriterOK
  BY DEF DocumentsInit, WriterOK
<1>6. AttachedOK
  BY DEF DocumentsInit, AttachedOK, OnlyApprovedIsAttached, Nothing, Texts
<1>7. CopyOK(letter) /\ PanelIsUpToDate /\ ErrandOK /\ FocusOK
  BY DEF DocumentsInit, CopyOK, LetterCopies, PanelIsUpToDate, ErrandOK, FocusOK, NoFocus
<1> QED
  BY <1>3, <1>4, <1>5, <1>6, <1>7 DEF DocumentsIInv

(* A step of the rest of the system changes nothing here.                   *)
LEMMA DocumentsStutter ==
    ASSUME DocumentsIInv, UNCHANGED documentVars
    PROVE  DocumentsIInv'
<1>1. /\ UNCHANGED <<server, attached, letter, errand, focus>>
      /\ UNCHANGED <<vouched, unseen, writer>>
  BY DEF documentVars, history
<1> QED
  BY <1>1, SameTables, BackgroundKeepsIInv

(* Every step keeps the invariant.                                          *)
LEMMA DocumentsStep ==
    DocumentsIInv /\ [DocumentsNext]_documentVars => DocumentsIInv'
<1> SUFFICES ASSUME DocumentsIInv, [DocumentsNext]_documentVars
             PROVE  DocumentsIInv'
  OBVIOUS
<1>1. ASSUME NEW prefer \in BOOLEAN, PrepareResume(prefer) PROVE DocumentsIInv'
  BY <1>1, PrepareResumeKeepsIInv
<1>2. CASE StartDraft
  BY <1>2, StartDraftKeepsIInv
<1>3. CASE FetchLetter
  BY <1>3, FetchLetterKeepsIInv
<1>4. CASE ShowLetter
  BY <1>4, ShowLetterKeepsIInv
<1>5. CASE Attach
  BY <1>5, AttachKeepsIInv
<1>6. CASE ErrandFails
  BY <1>6, ErrandFailsKeepsIInv
<1>7. ASSUME NEW text \in Letters, FinishDraft(text) PROVE DocumentsIInv'
  BY <1>7, FinishDraftKeepsIInv
<1>8. ASSUME NEW text \in Letters, EditLetter(text) PROVE DocumentsIInv'
  BY <1>8, EditLetterKeepsIInv
<1>9. ASSUME NEW rendered \in BOOLEAN, ApproveLetter(rendered) PROVE DocumentsIInv'
  BY <1>9, ApproveLetterKeepsIInv
<1>10. ASSUME NEW recorded \in BOOLEAN, MarkUploaded(recorded) PROVE DocumentsIInv'
  BY <1>10, MarkUploadedKeepsIInv
<1>11. CASE GainFocus
  BY <1>11, GainFocusKeepsIInv
<1>12. CASE ReadLetter
  BY <1>12, ReadLetterKeepsIInv
<1>13. CASE LetterRead
  BY <1>13, LetterReadKeepsIInv
<1>14. ASSUME NEW text \in Resumes, ApproveTailored(text) PROVE DocumentsIInv'
  BY <1>14, ApproveTailoredKeepsIInv
<1>15. ASSUME NEW text \in Resumes, GenerateTailored(text) PROVE DocumentsIInv'
  BY <1>15, GenerateTailoredKeepsIInv
<1>16. ASSUME NEW text \in Letters, OwnLetter(text) PROVE DocumentsIInv'
  BY <1>16, OwnLetterKeepsIInv
<1>17. CASE ConfirmSubmission
  BY <1>17, ConfirmSubmissionKeepsIInv
<1>18. CASE UNCHANGED documentVars
  BY <1>18, DocumentsStutter
<1> QED
  BY <1>1, <1>2, <1>3, <1>4, <1>5, <1>6, <1>7, <1>8, <1>9, <1>10, <1>11, <1>12, <1>13,
     <1>14, <1>15, <1>16, <1>17, <1>18 DEF DocumentsNext, PanelDocuments

(* In every state: the rows are numbered from one on and each id once; an   *)
(* approved row has a text that the user approved (or an edit that the      *)
(* panel did not come to show); what is on its way to the form, and what is *)
(* in it, is such a text; the panel's copy has the text of the row unless   *)
(* it missed an edit; the row written last has the text of the file.        *)
THEOREM DocumentsInvariant == DocumentsSpec => []DocumentsIInv
<1> QED
  BY DocumentsInitially, DocumentsStep, PTL DEF DocumentsSpec

(* attachFileToInput: for any texts and any number of artifacts, what the   *)
(* panel puts into the employer's form is a text that the user approved,    *)
(* the profile's own resume, or an edit whose answer was lost or overtaken. *)
THEOREM OnlyApprovedIsAttachedAlways == DocumentsSpec => []OnlyApprovedIsAttached
<1>1. DocumentsIInv => OnlyApprovedIsAttached
  BY DEF DocumentsIInv, AttachedOK
<1> QED
  BY <1>1, DocumentsInvariant, PTL

(* load_pdf_b64, artifact_file_payload: of each kind, the artifact whose    *)
(* PDF was written last is served as the text that its row has.             *)
THEOREM WriterIsServedWholeAlways == DocumentsSpec => []WriterIsServedWhole
<1>1. ASSUME DocumentsIInv, NEW kind \in Kinds, writer[kind] # 0
      PROVE  Bytes(Row(writer[kind])) = Row(writer[kind]).text
  BY <1>1 DEF DocumentsIInv, WriterOK, Bytes
<1>2. DocumentsIInv => WriterIsServedWhole
  BY <1>1 DEF WriterIsServedWhole
<1> QED
  BY <1>2, DocumentsInvariant, PTL
=============================================================================
