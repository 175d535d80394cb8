--------------------------- MODULE LearningProofs ---------------------------
(***************************************************************************)
(* What TLC checks of the dataset reviews and their calibrations, of the   *)
(* experiment authority, of the runs of the pipeline and of the crawl on   *)
(* small instances, for any items and reviewers, any arms, evidence        *)
(* directories and commands, any runs and any frontier.                    *)
(***************************************************************************)
EXTENDS Calibration, Experiments, DataPipeline, Crawl,
        SequenceTheorems, TLAPS

-----------------------------------------------------------------------------
(* Dataset reviews. *)

Decided(i, slot) == \E a \in assignments[i] : a.submitted /\ a.slot = slot

\* An item whose decisions are shown has all of them; who was shown one saw it
\* then.
ItemInv(i) ==
  /\ \A a, b \in assignments[i] :
       a.reviewer = b.reviewer \/ a.slot = b.slot => a = b
  /\ \A a \in assignments[i] : a.slot \in Required(review[i].high)
  /\ \A r \in Reviewers :
       votes[i][r] # "none" <=> \E a \in assignments[i] : a.reviewer = r /\ a.submitted
  /\ review[i].status \in Shown => \A slot \in Required(review[i].high) : Decided(i, slot)
  /\ seen[i] # {} => review[i].status \in Shown
  /\ review[i].status = "absent" => assignments[i] = {}

ReviewInv == ReviewTypeOK /\ \A i \in Items : ItemInv(i)

LEMMA ReviewStarts ==
  ASSUME ReviewInit
  PROVE  ReviewInv
<1>1. ReviewTypeOK
  BY DEF ReviewInit, ReviewTypeOK, Review
<1>2. ASSUME NEW i \in Items PROVE ItemInv(i)
  BY DEF ReviewInit, ItemInv, Review, Shown, Judged
<1> QED
  BY <1>1, <1>2 DEF ReviewInv

\* The rows of an item of which everything is decided are all decisions.
LEMMA ShownIsDecided ==
  ASSUME ReviewInv, NEW i \in Items, review[i].status \in Shown, NEW a \in assignments[i]
  PROVE  a.submitted
<1>1. a.slot \in Required(review[i].high) /\ Decided(i, a.slot)
  BY DEF ReviewInv, ItemInv
<1>2. PICK b \in assignments[i] : b.submitted /\ b.slot = a.slot
  BY <1>1 DEF Decided
<1>3. a = b
  BY <1>2 DEF ReviewInv, ItemInv
<1> QED
  BY <1>2, <1>3

\* An item that is not touched, but for lapsed claims that are swept.
LEMMA ItemRests ==
  ASSUME ReviewInv, NEW i \in Items,
         review'[i] = review[i], votes'[i] = votes[i], seen'[i] = seen[i],
         assignments'[i] \in {assignments[i], Kept(assignments[i])}
  PROVE  ItemInv(i)'
<1>1. assignments'[i] \subseteq assignments[i]
  BY DEF Kept
<1>2. \A a \in assignments[i] : a.submitted => a \in assignments'[i]
  BY DEF Kept, Swept
<1> QED
  BY <1>1, <1>2 DEF ReviewInv, ItemInv, Decided

LEMMA EnqueueKeeps ==
  ASSUME ReviewInv, NEW i \in Items, NEW high \in BOOLEAN, Enqueue(i, high)
  PROVE  ReviewInv'
<1>1. ReviewTypeOK'
  BY DEF ReviewInv, ReviewTypeOK, Enqueue, Review
<1>2. ASSUME NEW j \in Items PROVE ItemInv(j)'
  <2>1. CASE j # i
    BY <2>1, ItemRests DEF Enqueue, ReviewInv, ReviewTypeOK
  <2>2. CASE j = i
    <3>1. assignments[i] = {} /\ seen[i] = {}
      BY DEF ReviewInv, ItemInv, Enqueue, Shown, Judged
    <3>2. review'[i].status = "pending"
      BY DEF ReviewInv, ReviewTypeOK, Enqueue, Review
    <3> QED
      BY <2>2, <3>1, <3>2 DEF ReviewInv, ItemInv, Enqueue, Shown, Judged
  <2> QED
    BY <2>1, <2>2
<1> QED
  BY <1>1, <1>2 DEF ReviewInv

LEMMA LapseKeeps ==
  ASSUME ReviewInv, NEW i \in Items, LapseReview(i)
  PROVE  ReviewInv'
<1>1. PICK a \in assignments[i] :
        assignments' = [assignments EXCEPT
          ![i] = (@ \ {a}) \union {[a EXCEPT !.lapsed = TRUE]}]
  BY DEF LapseReview
<1> DEFINE b == [a EXCEPT !.lapsed = TRUE]
<1>2. /\ a \in [reviewer : Reviewers, slot : {1, 2}, submitted : BOOLEAN, lapsed : BOOLEAN]
      /\ assignments[i] \subseteq
           [reviewer : Reviewers, slot : {1, 2}, submitted : BOOLEAN, lapsed : BOOLEAN]
  BY DEF ReviewInv, ReviewTypeOK
<1>3. /\ b \in [reviewer : Reviewers, slot : {1, 2}, submitted : BOOLEAN, lapsed : BOOLEAN]
      /\ b.reviewer = a.reviewer /\ b.slot = a.slot /\ b.submitted = a.submitted
  BY <1>2
<1>4. UNCHANGED <<backend, review, votes, adjudication, seen>>
  BY DEF LapseReview
<1>5. assignments'[i] = (assignments[i] \ {a}) \union {b}
  BY <1>1 DEF ReviewInv, ReviewTypeOK
<1>6. ReviewTypeOK'
  BY <1>1, <1>2, <1>3, <1>4, <1>5 DEF ReviewInv, ReviewTypeOK
<1>7. ASSUME NEW j \in Items PROVE ItemInv(j)'
  <2>1. CASE j # i
    BY <1>1, <1>4, <2>1, ItemRests DEF ReviewInv, ReviewTypeOK
  <2>2. CASE j = i
    <3> HIDE DEF b
    <3>1. ItemInv(i)
      BY DEF ReviewInv
    <3>2. \A c, d \in assignments'[i] : c.reviewer = d.reviewer \/ c.slot = d.slot => c = d
      BY <1>3, <1>5, <3>1 DEF ItemInv
    <3>3. \A c \in assignments'[i] : c.slot \in Required(review[i].high)
      BY <1>3, <1>5, <3>1 DEF ItemInv
    <3>4. \A r \in Reviewers :
            (\E c \in assignments[i] : c.reviewer = r /\ c.submitted)
              <=> \E c \in assignments'[i] : c.reviewer = r /\ c.submitted
      BY <1>3, <1>5
    <3>5. \A slot \in Required(review[i].high) : Decided(i, slot) => Decided(i, slot)'
      BY <1>3, <1>5 DEF Decided
    <3>6. review[i].status # "absent"
      BY <3>1, <1>1 DEF ItemInv
    <3> QED
      BY <1>4, <2>2, <3>1, <3>2, <3>3, <3>4, <3>5, <3>6 DEF ItemInv
  <2> QED
    BY <2>1, <2>2
<1> QED
  BY <1>6, <1>7 DEF ReviewInv

WithStatus(i, s) == [review EXCEPT ![i].status = s]

\* An update of the status of one item.
LEMMA StatusSet ==
  ASSUME ReviewTypeOK, NEW i \in Items,
         NEW s \in Shown \union {"absent", "pending", "in_review"},
         review' = WithStatus(i, s)
  PROVE  /\ review'[i].status = s /\ review'[i].high = review[i].high
         /\ review' \in [Items -> [status : Shown \union {"absent", "pending", "in_review"},
                                   high : BOOLEAN]]
         /\ \A j \in Items : j # i => review'[j] = review[j]
<1>1. review[i] \in [status : Shown \union {"absent", "pending", "in_review"}, high : BOOLEAN]
  BY DEF ReviewTypeOK
<1>2. review'[i] = [review[i] EXCEPT !.status = s]
  BY DEF ReviewTypeOK, WithStatus
<1>3. \A j \in Items : j # i => review'[j] = review[j]
  BY DEF ReviewTypeOK, WithStatus
<1>4. /\ review'[i] \in [status : Shown \union {"absent", "pending", "in_review"}, high : BOOLEAN]
      /\ review'[i].status = s /\ review'[i].high = review[i].high
  BY <1>1, <1>2
<1>5. review' \in [Items -> [status : Shown \union {"absent", "pending", "in_review"},
                            high : BOOLEAN]]
  BY <1>3, <1>4 DEF ReviewTypeOK, WithStatus
<1> QED
  BY <1>3, <1>4, <1>5

LEMMA ClaimKeeps ==
  ASSUME ReviewInv, NEW i \in Items, NEW r \in Reviewers, ClaimReview(i, r)
  PROVE  ReviewInv' /\ review[i].status \notin Shown
<1> DEFINE kept == Kept(assignments[i])
           free == Required(review[i].high) \ {a.slot : a \in kept}
<1>1. PICK slot \in free :
        assignments' = [j \in Items |->
          IF j = i THEN kept \union {Assignment(r, slot, FALSE, FALSE)}
          ELSE IF backend = "sqlite" THEN Kept(assignments[j])
          ELSE assignments[j]]
  BY DEF ClaimReview
<1> DEFINE b == Assignment(r, slot, FALSE, FALSE)
<1>2. slot \in Required(review[i].high) /\ \A a \in kept : a.slot # slot
  OBVIOUS
<1>3. /\ slot \in {1, 2} /\ b.reviewer = r /\ b.slot = slot /\ b.submitted = FALSE
      /\ b \in [reviewer : Reviewers, slot : {1, 2}, submitted : BOOLEAN, lapsed : BOOLEAN]
  BY <1>2 DEF Required, Assignment
<1>4. kept \subseteq assignments[i] /\ \A a \in assignments[i] : a.submitted => a \in kept
  BY DEF Kept, Swept
<1>5. review[i].status \notin Shown
  BY <1>2, <1>4 DEF ReviewInv, ItemInv, Decided
<1>6. /\ UNCHANGED <<backend, votes, adjudication, seen>>
      /\ \A a \in kept : a.reviewer # r
      /\ review' = [review EXCEPT ![i].status = "in_review"]
  BY DEF ClaimReview
<1>7. assignments'[i] = kept \union {b}
  BY <1>1
<1>set. /\ review'[i].status = "in_review" /\ review'[i].high = review[i].high
      /\ review' \in [Items -> [status : Shown \union {"absent", "pending", "in_review"},
                                high : BOOLEAN]]
      /\ \A j \in Items : j # i => review'[j] = review[j]
  <2>1. ReviewTypeOK /\ "in_review" \in Shown \union {"absent", "pending", "in_review"}
    BY DEF ReviewInv
  <2>2. review' = WithStatus(i, "in_review")
    BY <1>6 DEF WithStatus
  <2> QED
    BY <2>1, <2>2, StatusSet
<1> HIDE DEF b, free
<1>8. ReviewTypeOK'
  <2>1. ASSUME NEW j \in Items
        PROVE  assignments'[j] \subseteq
          [reviewer : Reviewers, slot : {1, 2}, submitted : BOOLEAN, lapsed : BOOLEAN]
    <3>1. Kept(assignments[j]) \subseteq assignments[j] /\ assignments[j] \subseteq
            [reviewer : Reviewers, slot : {1, 2}, submitted : BOOLEAN, lapsed : BOOLEAN]
      BY DEF Kept, ReviewInv, ReviewTypeOK
    <3>2. CASE j = i
      BY <1>3, <1>7, <3>1, <3>2
    <3>3. CASE j # i
      BY <1>1, <3>1, <3>3
    <3> QED
      BY <3>2, <3>3
  <2>2. assignments' \in [Items -> SUBSET
          [reviewer : Reviewers, slot : {1, 2}, submitted : BOOLEAN, lapsed : BOOLEAN]]
    BY <1>1, <2>1
  <2> QED
    BY <1>set, <1>6, <2>2 DEF ReviewInv, ReviewTypeOK
<1>9. ASSUME NEW j \in Items PROVE ItemInv(j)'
  <2>1. CASE j # i
    BY <1>set, <1>1, <1>6, <2>1, ItemRests
  <2>2. CASE j = i
    <3>1. ItemInv(i)
      BY DEF ReviewInv
    <3>2. review'[i].status = "in_review" /\ review'[i].high = review[i].high
      BY <1>set
    <3>3. \A c, d \in assignments'[i] : c.reviewer = d.reviewer \/ c.slot = d.slot => c = d
      BY <1>2, <1>3, <1>4, <1>6, <1>7, <3>1 DEF ItemInv
    <3>4. \A c \in assignments'[i] : c.slot \in Required(review[i].high)
      BY <1>2, <1>3, <1>4, <1>7, <3>1 DEF ItemInv
    <3>5. \A q \in Reviewers :
            (\E c \in assignments[i] : c.reviewer = q /\ c.submitted)
              <=> \E c \in assignments'[i] : c.reviewer = q /\ c.submitted
      BY <1>3, <1>4, <1>7
    <3>6. seen[i] = {}
      BY <1>5, <3>1 DEF ItemInv
    <3> QED
      BY <1>6, <2>2, <3>1, <3>2, <3>3, <3>4, <3>5, <3>6 DEF ItemInv, Shown, Judged
  <2> QED
    BY <2>1, <2>2
<1> QED
  BY <1>5, <1>8, <1>9 DEF ReviewInv

\* A status that shows the decisions has as many of them as the item needs.
LEMMA StatusNeedsVotes ==
  ASSUME NEW high \in BOOLEAN, NEW given \in [Reviewers -> Verdicts \union {"none"}]
  PROVE  LET status == StatusFromDecisions(high, given) IN
         /\ status \in Shown \union {"in_review"}
         /\ status \in Shown =>
              /\ \E q \in Reviewers : given[q] # "none"
              /\ high => \E p, q \in Reviewers : p # q /\ given[p] # "none" /\ given[q] # "none"
<1> DEFINE voters == {q \in Reviewers : given[q] # "none"}
           enough == voters # {} /\ (high => \E p, q \in voters : p # q)
           split == \E p, q \in voters : given[p] # given[q]
           first == CHOOSE v \in Verdicts : \E q \in voters : given[q] = v
<1>1. StatusFromDecisions(high, given) =
        IF ~enough THEN "in_review" ELSE IF split THEN "adjudication_required" ELSE Verdict(first)
  BY DEF StatusFromDecisions
<1>2. Verdict(first) \in Judged
  BY DEF Verdict, Judged
<1>3. CASE enough
  <2> HIDE DEF split, first
  <2>1. StatusFromDecisions(high, given) \in Shown
    BY <1>1, <1>2, <1>3 DEF Shown
  <2> QED
    BY <1>3, <2>1
<1>4. CASE ~enough
  <2> HIDE DEF enough, split, first
  <2> QED
    BY <1>1, <1>4 DEF Shown, Judged
<1> QED
  BY <1>3, <1>4

LEMMA DecideKeeps ==
  ASSUME ReviewInv, NEW i \in Items, NEW r \in Reviewers, NEW verdict \in Verdicts,
         Decide(i, r, verdict)
  PROVE  ReviewInv' /\ review[i].status \notin Shown
<1> DEFINE given == [votes[i] EXCEPT ![r] = verdict]
           status == StatusFromDecisions(review[i].high, given)
           row == [reviewer : Reviewers, slot : {1, 2}, submitted : BOOLEAN, lapsed : BOOLEAN]
<1>1. PICK a \in assignments[i] :
        /\ a.reviewer = r /\ ~a.submitted /\ ~a.lapsed
        /\ assignments' = [assignments EXCEPT
             ![i] = (@ \ {a}) \union {[a EXCEPT !.submitted = TRUE]}]
  BY DEF Decide
<1> DEFINE b == [a EXCEPT !.submitted = TRUE]
<1>2. a \in row /\ assignments[i] \subseteq row /\ review[i].high \in BOOLEAN
      /\ votes[i] \in [Reviewers -> Verdicts \union {"none"}]
  BY DEF ReviewInv, ReviewTypeOK
<1>3. b \in row /\ b.reviewer = r /\ b.slot = a.slot /\ b.submitted
  BY <1>1, <1>2
<1>4. /\ votes[i][r] = "none"
      /\ votes' = [votes EXCEPT ![i] = given]
      /\ review' = WithStatus(i, status)
      /\ seen' = [seen EXCEPT ![i] = Shows(i, r, status, given)]
      /\ UNCHANGED <<backend, adjudication>>
  BY DEF Decide, WithStatus
<1>5. assignments'[i] = (assignments[i] \ {a}) \union {b}
  BY <1>1 DEF ReviewInv, ReviewTypeOK
<1>6. review[i].status \notin Shown
  BY <1>1, ShownIsDecided
<1>7. given \in [Reviewers -> Verdicts \union {"none"}]
  BY <1>2
<1> HIDE DEF b
<1>8. /\ status \in Shown \union {"absent", "pending", "in_review"} /\ status # "absent"
      /\ status \in Shown =>
           /\ \E q \in Reviewers : given[q] # "none"
           /\ review[i].high =>
                \E p, q \in Reviewers : p # q /\ given[p] # "none" /\ given[q] # "none"
  <2> HIDE DEF given
  <2> QED
    BY <1>2, <1>7, StatusNeedsVotes DEF Shown, Judged
<1>9. /\ review'[i].status = status /\ review'[i].high = review[i].high
      /\ review' \in [Items -> [status : Shown \union {"absent", "pending", "in_review"},
                                high : BOOLEAN]]
      /\ \A j \in Items : j # i => review'[j] = review[j]
  <2>1. ReviewTypeOK
    BY DEF ReviewInv
  <2> HIDE DEF status
  <2> QED
    BY <1>4, <1>8, <2>1, StatusSet
<1>10. Shows(i, r, status, given) \in SUBSET Reviewers
       /\ (Shows(i, r, status, given) # {} => status \in Shown)
  <2>1. seen[i] = {}
    BY <1>6 DEF ReviewInv, ItemInv
  <2> HIDE DEF status, given
  <2> QED
    BY <2>1 DEF Shows
<1>11. /\ votes'[i] = given /\ seen'[i] = Shows(i, r, status, given)
       /\ votes' \in [Items -> [Reviewers -> Verdicts \union {"none"}]]
       /\ seen' \in [Items -> SUBSET Reviewers]
       /\ \A j \in Items : j # i => votes'[j] = votes[j] /\ seen'[j] = seen[j]
  <2> HIDE DEF status, given
  <2> QED
    BY <1>4, <1>7, <1>10 DEF ReviewInv, ReviewTypeOK
<1>12. assignments' \in [Items -> SUBSET row] /\ \A j \in Items : j # i => assignments'[j] = assignments[j]
  BY <1>1, <1>2, <1>3, <1>5 DEF ReviewInv, ReviewTypeOK
<1>13. ReviewTypeOK'
  BY <1>4, <1>9, <1>11, <1>12 DEF ReviewInv, ReviewTypeOK
<1>14. ASSUME NEW j \in Items PROVE ItemInv(j)'
  <2>1. CASE j # i
    BY <1>9, <1>11, <1>12, <2>1, ItemRests
  <2>2. CASE j = i
    <3>1. ItemInv(i)
      BY DEF ReviewInv
    <3>2. \A c, d \in assignments'[i] : c.reviewer = d.reviewer \/ c.slot = d.slot => c = d
      BY <1>1, <1>3, <1>5, <3>1 DEF ItemInv
    <3>3. \A c \in assignments'[i] : c.slot \in Required(review[i].high)
      BY <1>3, <1>5, <3>1 DEF ItemInv
    <3>4. \A q \in Reviewers :
            given[q] # "none" <=> \E c \in assignments'[i] : c.reviewer = q /\ c.submitted
      <4> TAKE q \in Reviewers
      <4>1. CASE q = r
        <5>1. given[q] = verdict /\ verdict # "none"
          BY <1>2, <4>1 DEF Verdicts
        <5> QED
          BY <1>3, <1>5, <4>1, <5>1
      <4>2. CASE q # r
        <5>1. given[q] = votes[i][q]
          BY <1>2, <4>2
        <5> QED
          BY <1>1, <1>3, <1>5, <3>1, <4>2, <5>1 DEF ItemInv
      <4> QED
        BY <4>1, <4>2
    <3>5. status \in Shown => \A slot \in Required(review[i].high) : Decided(i, slot)'
      <4> SUFFICES ASSUME status \in Shown, NEW slot \in Required(review[i].high)
                   PROVE  \E c \in assignments'[i] : c.submitted /\ c.slot = slot
        BY DEF Decided
      <4> HIDE DEF given, status
      <4>1. CASE ~review[i].high
        <5>1. PICK q \in Reviewers : given[q] # "none"
          BY <1>8
        <5>2. PICK c \in assignments'[i] : c.reviewer = q /\ c.submitted
          BY <3>4, <5>1
        <5> QED
          BY <3>3, <4>1, <5>2 DEF Required
      <4>2. CASE review[i].high
        <5>1. PICK p, q \in Reviewers : p # q /\ given[p] # "none" /\ given[q] # "none"
          BY <1>8, <4>2
        <5>2. PICK c \in assignments'[i] : c.reviewer = p /\ c.submitted
          BY <3>4, <5>1
        <5>3. PICK d \in assignments'[i] : d.reviewer = q /\ d.submitted
          BY <3>4, <5>1
        <5>4. c.slot # d.slot /\ c.slot \in {1, 2} /\ d.slot \in {1, 2} /\ slot \in {1, 2}
          BY <3>2, <3>3, <4>2, <5>1, <5>2, <5>3 DEF Required
        <5>5. c.slot = slot \/ d.slot = slot
          BY <5>4
        <5> QED
          BY <5>2, <5>3, <5>5
      <4> QED
        BY <1>2, <4>1, <4>2
    <3> HIDE DEF given, status
    <3> QED
      BY <1>8, <1>9, <1>10, <1>11, <2>2, <3>2, <3>3, <3>4, <3>5 DEF ItemInv
  <2> QED
    BY <2>1, <2>2
<1> QED
  BY <1>6, <1>13, <1>14 DEF ReviewInv

LEMMA AdjudicateKeeps ==
  ASSUME ReviewInv, NEW i \in Items, NEW r \in Adjudicators, NEW verdict \in Verdicts,
         Adjudicate(i, r, verdict)
  PROVE  ReviewInv' /\ review[i].status \notin Judged
<1>1. /\ review[i].status = "adjudication_required"
      /\ adjudication' = [adjudication EXCEPT ![i] = verdict]
      /\ review' = WithStatus(i, Verdict(verdict))
      /\ seen' = [seen EXCEPT ![i] = Shows(i, r, Verdict(verdict), votes[i])]
      /\ UNCHANGED <<backend, assignments, votes>>
  BY DEF Adjudicate, WithStatus
<1>2. Verdict(verdict) \in Shown /\ Verdict(verdict) # "absent"
  BY DEF Verdict, Shown, Judged
<1>3. /\ review'[i].status = Verdict(verdict) /\ review'[i].high = review[i].high
      /\ review' \in [Items -> [status : Shown \union {"absent", "pending", "in_review"},
                                high : BOOLEAN]]
      /\ \A j \in Items : j # i => review'[j] = review[j]
  <2>1. ReviewTypeOK
    BY DEF ReviewInv
  <2> QED
    BY <1>1, <1>2, <2>1, StatusSet
<1>4. Shows(i, r, Verdict(verdict), votes[i]) \in SUBSET Reviewers
  BY DEF Shows, ReviewInv, ReviewTypeOK
<1>5. /\ adjudication' \in [Items -> Verdicts \union {"none"}]
      /\ seen' \in [Items -> SUBSET Reviewers]
      /\ \A j \in Items : j # i => seen'[j] = seen[j]
  BY <1>1, <1>4 DEF ReviewInv, ReviewTypeOK
<1>6. ReviewTypeOK'
  BY <1>1, <1>3, <1>5 DEF ReviewInv, ReviewTypeOK
<1>7. ASSUME NEW j \in Items PROVE ItemInv(j)'
  <2>1. CASE j # i
    BY <1>1, <1>3, <1>5, <2>1, ItemRests
  <2>2. CASE j = i
    <3>1. ItemInv(i) /\ review[i].status \in Shown
      BY <1>1 DEF ReviewInv, Shown
    <3> QED
      BY <1>1, <1>2, <1>3, <2>2, <3>1 DEF ItemInv, Decided
  <2> QED
    BY <2>1, <2>2
<1>8. review[i].status \notin Judged
  BY <1>1 DEF Judged
<1> QED
  BY <1>6, <1>7, <1>8 DEF ReviewInv

LEMMA ViewKeeps ==
  ASSUME ReviewInv, NEW i \in Items, NEW r \in Reviewers, View(i, r)
  PROVE  ReviewInv'
<1>1. /\ seen' = [seen EXCEPT ![i] = Shows(i, r, review[i].status, votes[i])]
      /\ UNCHANGED <<backend, review, assignments, votes, adjudication>>
  BY DEF View
<1>2. /\ Shows(i, r, review[i].status, votes[i]) \in SUBSET Reviewers
      /\ Shows(i, r, review[i].status, votes[i]) # {} => review[i].status \in Shown
  BY DEF Shows, ReviewInv, ReviewTypeOK, ItemInv
<1>3. /\ seen' \in [Items -> SUBSET Reviewers]
      /\ seen'[i] = Shows(i, r, review[i].status, votes[i])
      /\ \A j \in Items : j # i => seen'[j] = seen[j]
  BY <1>1, <1>2 DEF ReviewInv, ReviewTypeOK
<1>4. ReviewTypeOK'
  BY <1>1, <1>3 DEF ReviewInv, ReviewTypeOK
<1>5. ASSUME NEW j \in Items PROVE ItemInv(j)'
  <2>1. CASE j # i
    BY <1>1, <1>3, <2>1, ItemRests
  <2>2. CASE j = i
    <3>1. ItemInv(i)
      BY DEF ReviewInv
    <3>2. /\ review'[i] = review[i] /\ assignments'[i] = assignments[i] /\ votes'[i] = votes[i]
          /\ seen'[i] # {} => review[i].status \in Shown
      BY <1>1, <1>2, <1>3
    <3> QED
      BY <2>2, <3>1, <3>2 DEF ItemInv, Decided
  <2> QED
    BY <2>1, <2>2
<1> QED
  BY <1>4, <1>5 DEF ReviewInv

LEMMA ReviewStep ==
  ASSUME ReviewInv, [ReviewNext]_reviewVars
  PROVE  ReviewInv'
<1>1. CASE ReviewNext
  BY <1>1, EnqueueKeeps, LapseKeeps, ClaimKeeps, DecideKeeps, AdjudicateKeeps, ViewKeeps
     DEF ReviewNext
<1>2. CASE UNCHANGED reviewVars
  BY <1>2 DEF reviewVars, ReviewInv, ReviewTypeOK, ItemInv, Decided
<1> QED
  BY <1>1, <1>2

\* A step that changes a judged item does not exist.
LEMMA JudgedRests ==
  ASSUME ReviewInv, [ReviewNext]_reviewVars, NEW i \in Items, review[i].status \in Judged
  PROVE  /\ review'[i] = review[i] /\ votes'[i] = votes[i]
         /\ adjudication'[i] = adjudication[i]
<1> USE DEF ReviewInv, ReviewTypeOK
<1>1. ASSUME NEW j \in Items, NEW high \in BOOLEAN, Enqueue(j, high)
      PROVE  i # j /\ review'[i] = review[i] /\ UNCHANGED <<votes, adjudication>>
  BY <1>1 DEF Enqueue, Judged
<1>2. ASSUME NEW j \in Items, NEW r \in Reviewers, ClaimReview(j, r)
      PROVE  review'[i] = review[i] /\ UNCHANGED <<votes, adjudication>>
  <2>1. i # j
    BY <1>2, ClaimKeeps DEF Shown
  <2> QED
    BY <1>2, <2>1 DEF ClaimReview
<1>3. ASSUME NEW j \in Items, NEW r \in Reviewers, NEW v \in Verdicts, Decide(j, r, v)
      PROVE  review'[i] = review[i] /\ votes'[i] = votes[i] /\ UNCHANGED adjudication
  <2>1. i # j
    BY <1>3, DecideKeeps DEF Shown
  <2> QED
    BY <1>3, <2>1 DEF Decide
<1>4. ASSUME NEW j \in Items, NEW r \in Adjudicators, NEW v \in Verdicts, Adjudicate(j, r, v)
      PROVE  review'[i] = review[i] /\ UNCHANGED votes /\ adjudication'[i] = adjudication[i]
  <2>1. i # j
    BY <1>4, AdjudicateKeeps
  <2> QED
    BY <1>4, <2>1 DEF Adjudicate
<1>5. ASSUME NEW j \in Items, LapseReview(j) \/ \E r \in Reviewers : View(j, r)
      PROVE  UNCHANGED <<review, votes, adjudication>>
  BY <1>5 DEF LapseReview, View
<1>6. CASE ReviewNext
  BY <1>1, <1>2, <1>3, <1>4, <1>5, <1>6 DEF ReviewNext
<1>7. CASE UNCHANGED reviewVars
  BY <1>7 DEF reviewVars
<1> QED
  BY <1>6, <1>7

\* The rows of the review tables keep their types (dataset_authority.py).
THEOREM ReviewTypes == ReviewSpec => []ReviewTypeOK
<1>1. ReviewInv => ReviewTypeOK
  BY DEF ReviewInv
<1> QED
  BY <1>1, ReviewStarts, ReviewStep, PTL DEF ReviewSpec

\* Nobody decides on an item after being shown what another decided, however
\* many items and reviewers there are (_terminal_or_visible, claim).
THEOREM BlindReviews == ReviewSpec => []ReviewsAreBlind
<1>1. ReviewInv => ReviewsAreBlind
  <2> SUFFICES ASSUME ReviewInv, NEW i \in Items, NEW a \in assignments[i], ~a.submitted
               PROVE  a.reviewer \notin seen[i]
    BY DEF ReviewsAreBlind
  <2>1. review[i].status \notin Shown
    BY ShownIsDecided
  <2> QED
    BY <2>1 DEF ReviewInv, ItemInv
<1> QED
  BY <1>1, ReviewStarts, ReviewStep, PTL DEF ReviewSpec

\* A verdict and the decisions it was reached by stay (claim, decide and
\* adjudicate of both stores).
THEOREM VerdictsStand == ReviewSpec => VerdictStands
<1>1. ReviewInv /\ [ReviewNext]_reviewVars =>
        [\A i \in Items : review[i].status \in Judged =>
           /\ review'[i] = review[i] /\ votes'[i] = votes[i]
           /\ adjudication'[i] = adjudication[i]]_reviewVars
  BY JudgedRests
<1> QED
  BY <1>1, ReviewStarts, ReviewStep, PTL DEF ReviewSpec, VerdictStands

-----------------------------------------------------------------------------
(* Experiments. *)

Admitted(d) == \A a \in Arms : armEvidence[<<d, a>>].is = "whole"

\* What a comparison may select.
EarnedSelection(x) ==
  x # 0 => \E d \in EvidenceDirs : Admitted(d) /\ x = Selected(d)

HasText(c) == analysts[c] = [pc |-> analysts[c].pc, text |-> analysts[c].text]

\* A command that admits holds a file of its own; one that compares holds what
\* was admitted; one that decides or promotes holds an earned selection.
AnalystInv(c) ==
  /\ analysts[c].pc \in {"idle", "admit", "reports", "comparison", "decide", "decided",
                          "promote", "promoted"}
  /\ Doing(c, "admit") =>
       /\ analysts[c].of \in Evidences
       /\ armEvidence[analysts[c].of].is = "torn"
       /\ \A b \in Analysts \ {c} : Doing(b, "admit") => analysts[b].of # analysts[c].of
  /\ analysts[c].pc \in {"reports", "comparison"} =>
       /\ HasText(c) /\ analysts[c].text.dir \in EvidenceDirs
       /\ \A a \in Arms \intersect analysts[c].text.arms :
            armEvidence[<<analysts[c].text.dir, a>>].is = "whole"
  /\ analysts[c].pc \in {"decide", "decided", "promote", "promoted"} =>
       HasText(c) /\ EarnedSelection(analysts[c].text.selected)

FilesInv ==
  /\ armEvidence = [e \in Evidences |-> armEvidence[e]]
  /\ analysts = [c \in Analysts |-> analysts[c]]
  /\ Exists(comparison) => EarnedSelection(comparison.text.selected)
  /\ experimentDecision.is = "whole" => EarnedSelection(experimentDecision.text.selected)
  /\ promotionDecision.is = "whole" => EarnedSelection(promotionDecision.text.selected)

ExperimentInv == FilesInv /\ \A c \in Analysts : AnalystInv(c)

LEMMA ExperimentStarts ==
  ASSUME ExperimentInit
  PROVE  ExperimentInv
BY DEF ExperimentInit, ExperimentInv, FilesInv, AnalystInv, Doing, Resting, Missing, Exists

\* Whole evidence is never written again: what was earned stays so.
EvidenceStays ==
  \A e \in Evidences : armEvidence[e].is = "whole" => armEvidence'[e] = armEvidence[e]

LEMMA EarnedStays ==
  ASSUME EvidenceStays, NEW x, EarnedSelection(x)
  PROVE  EarnedSelection(x)'
<1> SUFFICES ASSUME x # 0
             PROVE  \E d \in EvidenceDirs : Admitted(d)' /\ x = Selected(d)'
  BY DEF EarnedSelection
<1>1. PICK d \in EvidenceDirs : Admitted(d) /\ x = Selected(d)
  BY DEF EarnedSelection
<1>2. \A a \in Arms : armEvidence'[<<d, a>>] = armEvidence[<<d, a>>]
  BY <1>1 DEF EvidenceStays, Admitted, Evidences
<1>3. [a \in Arms |-> armEvidence'[<<d, a>>].text] = [a \in Arms |-> armEvidence[<<d, a>>].text]
  BY <1>2
<1>4. Selected(d)' = Selected(d)
  BY <1>3 DEF Selected
<1>5. Admitted(d)'
  BY <1>1, <1>2 DEF Admitted
<1> QED
  BY <1>1, <1>4, <1>5

\* A command that takes no step keeps what it holds, if no other takes its file.
LEMMA OthersStay ==
  ASSUME ExperimentInv, EvidenceStays, NEW b \in Analysts, analysts'[b] = analysts[b],
         Doing(b, "admit") => armEvidence'[analysts[b].of].is = "torn",
         \A c \in Analysts \ {b} :
           Doing(b, "admit") /\ analysts'[c].pc = "admit" => analysts'[c].of # analysts[b].of
  PROVE  AnalystInv(b)'
<1>1. AnalystInv(b)
  BY DEF ExperimentInv
<1>2. analysts[b].pc \in {"reports", "comparison"} =>
        \A a \in Arms \intersect analysts[b].text.arms :
          armEvidence'[<<analysts[b].text.dir, a>>].is = "whole"
  BY <1>1 DEF AnalystInv, EvidenceStays, Evidences
<1>3. analysts[b].pc \in {"decide", "decided", "promote", "promoted"} =>
        EarnedSelection(analysts[b].text.selected)'
  <2> SUFFICES ASSUME EarnedSelection(analysts[b].text.selected)
               PROVE  EarnedSelection(analysts[b].text.selected)'
    BY <1>1 DEF AnalystInv
  <2>1. PICK x : x = analysts[b].text.selected /\ x = analysts'[b].text.selected
    OBVIOUS
  <2>2. EarnedSelection(x)
    BY <2>1
  <2>3. EarnedSelection(x)'
    BY <2>2, EarnedStays
  <2> QED
    BY <2>1, <2>3 DEF EarnedSelection
<1> QED
  BY <1>1, <1>2, <1>3 DEF AnalystInv, Doing, HasText

\* The same of the three files.
LEMMA FilesStay ==
  ASSUME FilesInv, EvidenceStays
  PROVE  /\ comparison' = comparison =>
              (Exists(comparison)' => EarnedSelection(comparison.text.selected)')
         /\ experimentDecision' = experimentDecision =>
              (experimentDecision'.is = "whole" =>
                 EarnedSelection(experimentDecision.text.selected)')
         /\ promotionDecision' = promotionDecision =>
              (promotionDecision'.is = "whole" =>
                 EarnedSelection(promotionDecision.text.selected)')
<1>1. ASSUME NEW x, NEW y, x = y, EarnedSelection(x) PROVE EarnedSelection(y)'
  BY <1>1, EarnedStays
<1>2. ASSUME comparison' = comparison, Exists(comparison)'
      PROVE  EarnedSelection(comparison.text.selected)'
  <2>1. PICK x : x = comparison.text.selected /\ x = comparison'.text.selected
    BY <1>2
  <2> QED
    BY <1>2, <2>1, <1>1 DEF FilesInv, Exists, Missing, EarnedSelection
<1>3. ASSUME experimentDecision' = experimentDecision, experimentDecision'.is = "whole"
      PROVE  EarnedSelection(experimentDecision.text.selected)'
  <2>1. PICK x : x = experimentDecision.text.selected /\ x = experimentDecision'.text.selected
    BY <1>3
  <2> QED
    BY <1>3, <2>1, <1>1 DEF FilesInv, EarnedSelection
<1>4. ASSUME promotionDecision' = promotionDecision, promotionDecision'.is = "whole"
      PROVE  EarnedSelection(promotionDecision.text.selected)'
  <2>1. PICK x : x = promotionDecision.text.selected /\ x = promotionDecision'.text.selected
    BY <1>4
  <2> QED
    BY <1>4, <2>1, <1>1 DEF FilesInv, EarnedSelection
<1> QED
  BY <1>2, <1>3, <1>4

LEMMA CommandMoves ==
  ASSUME FilesInv, NEW c \in Analysts, NEW to, Goes(c, to)
  PROVE  /\ analysts'[c] = to
         /\ \A b \in Analysts \ {c} : analysts'[b] = analysts[b]
         /\ analysts' = [b \in Analysts |-> analysts'[b]]
BY DEF FilesInv, Goes

LEMMA OpenEvidenceKeeps ==
  ASSUME ExperimentInv, NEW c \in Analysts, NEW e \in Evidences, NEW score,
         OpenEvidence(c, e, score)
  PROVE  ExperimentInv'
<1>1. /\ armEvidence[e].is = "missing"
      /\ armEvidence' = [armEvidence EXCEPT ![e] = TornFile]
      /\ Goes(c, [pc |-> "admit", of |-> e, score |-> score])
      /\ UNCHANGED <<comparison, experimentDecision, promotionDecision>>
  BY DEF OpenEvidence, Exists, Missing
<1>2. FilesInv
  BY DEF ExperimentInv
<1>3. /\ armEvidence'[e].is = "torn" /\ \A f \in Evidences \ {e} : armEvidence'[f] = armEvidence[f]
      /\ armEvidence' = [f \in Evidences |-> armEvidence'[f]]
      /\ EvidenceStays
  BY <1>1, <1>2 DEF FilesInv, TornFile, EvidenceStays
<1>4. /\ analysts'[c] = [pc |-> "admit", of |-> e, score |-> score]
      /\ \A b \in Analysts \ {c} : analysts'[b] = analysts[b]
      /\ analysts' = [b \in Analysts |-> analysts'[b]]
  BY <1>1, <1>2, CommandMoves
<1>5. FilesInv'
  BY <1>1, <1>2, <1>3, <1>4, FilesStay DEF FilesInv
<1>6. ASSUME NEW b \in Analysts, b # c, Doing(b, "admit")
      PROVE  /\ analysts[b].of \in Evidences \ {e}
             /\ armEvidence'[analysts[b].of].is = "torn"
  BY <1>1, <1>3, <1>6 DEF ExperimentInv, AnalystInv
<1>7. AnalystInv(c)'
  <2>1. \A b \in Analysts \ {c} : analysts'[b].pc = "admit" => analysts'[b].of # e
    BY <1>4, <1>6 DEF Doing
  <2> QED
    BY <1>3, <1>4, <2>1 DEF AnalystInv, Doing
<1>8. ASSUME NEW b \in Analysts, b # c PROVE AnalystInv(b)'
  <2>1. ASSUME NEW d \in Analysts \ {b}, Doing(b, "admit"), analysts'[d].pc = "admit"
        PROVE  analysts'[d].of # analysts[b].of
    <3>1. CASE d = c
      BY <1>4, <1>6, <1>8, <2>1, <3>1
    <3>2. CASE d # c
      BY <1>4, <2>1, <3>2 DEF ExperimentInv, AnalystInv, Doing
    <3> QED
      BY <3>1, <3>2
  <2> QED
    BY <1>3, <1>4, <1>6, <1>8, <2>1, OthersStay
<1> QED
  BY <1>5, <1>7, <1>8 DEF ExperimentInv

LEMMA WriteEvidenceKeeps ==
  ASSUME ExperimentInv, NEW c \in Analysts, WriteEvidence(c)
  PROVE  ExperimentInv'
<1> DEFINE e == analysts[c].of
<1>1. /\ Doing(c, "admit")
      /\ armEvidence' = [armEvidence EXCEPT ![e] = File(analysts[c].score)]
      /\ Goes(c, Resting)
      /\ UNCHANGED <<comparison, experimentDecision, promotionDecision>>
  BY DEF WriteEvidence
<1>2. /\ FilesInv /\ e \in Evidences /\ armEvidence[e].is = "torn"
      /\ \A b \in Analysts \ {c} : Doing(b, "admit") => analysts[b].of # e
  BY <1>1 DEF ExperimentInv, AnalystInv
<1> HIDE DEF e
<1>3. /\ \A f \in Evidences \ {e} : armEvidence'[f] = armEvidence[f]
      /\ armEvidence' = [f \in Evidences |-> armEvidence'[f]]
      /\ EvidenceStays
  BY <1>1, <1>2 DEF FilesInv, EvidenceStays
<1>4. /\ analysts'[c] = Resting
      /\ \A b \in Analysts \ {c} : analysts'[b] = analysts[b]
      /\ analysts' = [b \in Analysts |-> analysts'[b]]
  BY <1>1, <1>2, CommandMoves
<1>5. FilesInv'
  BY <1>1, <1>2, <1>3, <1>4, FilesStay DEF FilesInv
<1>6. AnalystInv(c)'
  BY <1>4 DEF AnalystInv, Doing, Resting
<1>7. ASSUME NEW b \in Analysts, b # c PROVE AnalystInv(b)'
  <2>1. Doing(b, "admit") => armEvidence'[analysts[b].of].is = "torn"
    BY <1>2, <1>3, <1>7 DEF ExperimentInv, AnalystInv
  <2>2. ASSUME NEW d \in Analysts \ {b}, Doing(b, "admit"), analysts'[d].pc = "admit"
        PROVE  analysts'[d].of # analysts[b].of
    BY <1>4, <2>2 DEF ExperimentInv, AnalystInv, Doing, Resting
  <2> QED
    BY <1>3, <1>4, <1>7, <2>1, <2>2, OthersStay
<1> QED
  BY <1>5, <1>6, <1>7 DEF ExperimentInv

\* A step that leaves the evidence alone and admits nothing.
LEMMA CommandKeeps ==
  ASSUME ExperimentInv, UNCHANGED armEvidence, NEW c \in Analysts, NEW to, Goes(c, to),
         to.pc # "admit",
         AnalystInv(c)',
         Exists(comparison)' => EarnedSelection(comparison.text.selected)',
         experimentDecision'.is = "whole" => EarnedSelection(experimentDecision.text.selected)',
         promotionDecision'.is = "whole" => EarnedSelection(promotionDecision.text.selected)'
  PROVE  ExperimentInv'
<1>1. FilesInv /\ EvidenceStays
  BY DEF ExperimentInv, EvidenceStays
<1>2. /\ analysts'[c] = to
      /\ \A b \in Analysts \ {c} : analysts'[b] = analysts[b]
      /\ analysts' = [b \in Analysts |-> analysts'[b]]
  BY <1>1, CommandMoves
<1>3. FilesInv'
  BY <1>1, <1>2 DEF FilesInv
<1>4. ASSUME NEW b \in Analysts, b # c PROVE AnalystInv(b)'
  <2>1. Doing(b, "admit") => armEvidence'[analysts[b].of].is = "torn"
    BY DEF ExperimentInv, AnalystInv
  <2>2. ASSUME NEW d \in Analysts \ {b}, Doing(b, "admit"), analysts'[d].pc = "admit"
        PROVE  analysts'[d].of # analysts[b].of
    BY <1>2, <2>2 DEF ExperimentInv, AnalystInv, Doing
  <2> QED
    BY <1>1, <1>2, <1>4, <2>1, <2>2, OthersStay
<1> QED
  BY <1>3, <1>4 DEF ExperimentInv

\* A command that ends, or dies.
LEMMA RestKeeps ==
  ASSUME ExperimentInv, UNCHANGED armEvidence, NEW c \in Analysts, Goes(c, Resting),
         Exists(comparison)' => EarnedSelection(comparison.text.selected)',
         experimentDecision'.is = "whole" => EarnedSelection(experimentDecision.text.selected)',
         promotionDecision'.is = "whole" => EarnedSelection(promotionDecision.text.selected)'
  PROVE  ExperimentInv'
<1>1. FilesInv
  BY DEF ExperimentInv
<1>2. analysts'[c] = Resting
  BY <1>1, CommandMoves
<1>3. AnalystInv(c)' /\ Resting.pc # "admit"
  BY <1>2 DEF AnalystInv, Doing, Resting
<1> QED
  BY <1>3, CommandKeeps

LEMMA LoadEvidenceKeeps ==
  ASSUME ExperimentInv, NEW c \in Analysts, NEW d \in EvidenceDirs, LoadEvidence(c, d)
  PROVE  ExperimentInv'
<1> DEFINE to == [pc |-> "reports", text |-> Loaded(d)]
<1>1. /\ Goes(c, to) /\ UNCHANGED <<armEvidence, comparison, experimentDecision, promotionDecision>>
  BY DEF LoadEvidence
<1>2. FilesInv /\ EvidenceStays
  BY <1>1 DEF ExperimentInv, EvidenceStays
<1>3. analysts'[c] = to
  BY <1>1, <1>2, CommandMoves
<1>4. /\ to.pc = "reports" /\ to.text = Loaded(d) /\ Loaded(d).dir = d
      /\ \A a \in Arms \intersect Loaded(d).arms : armEvidence[<<d, a>>].is = "whole"
  BY DEF Loaded, EvidenceHolds
<1>5. AnalystInv(c)'
  <2>1. analysts'[c].pc = "reports" /\ analysts'[c].text = Loaded(d) /\ HasText(c)'
    BY <1>3 DEF HasText
  <2> QED
    BY <1>1, <1>4, <2>1 DEF AnalystInv, Doing
<1> HIDE DEF to
<1> QED
  BY <1>1, <1>2, <1>4, <1>5, CommandKeeps, FilesStay

LEMMA WriteArmReportsKeeps ==
  ASSUME ExperimentInv, NEW c \in Analysts, WriteArmReports(c)
  PROVE  ExperimentInv'
<1> DEFINE to == [analysts[c] EXCEPT !.pc = "comparison"]
<1>1. /\ Doing(c, "reports") /\ Goes(c, to)
      /\ UNCHANGED <<armEvidence, comparison, experimentDecision, promotionDecision>>
  BY DEF WriteArmReports
<1>2. FilesInv /\ EvidenceStays
  BY <1>1 DEF ExperimentInv, EvidenceStays
<1>3. analysts'[c] = to
  BY <1>1, <1>2, CommandMoves
<1>4. AnalystInv(c) /\ HasText(c)
  BY <1>1 DEF ExperimentInv, AnalystInv, Doing
<1>5. to = [pc |-> "comparison", text |-> analysts[c].text]
  BY <1>4 DEF HasText
<1>6. to.pc = "comparison" /\ to.text = analysts[c].text
  BY <1>5
<1>7. AnalystInv(c)'
  <2>1. HasText(c)' /\ analysts'[c].pc = "comparison" /\ analysts'[c].text = analysts[c].text
    BY <1>3, <1>5 DEF HasText
  <2> QED
    BY <1>1, <1>4, <2>1 DEF AnalystInv, Doing
<1> HIDE DEF to
<1> QED
  BY <1>1, <1>2, <1>6, <1>7, CommandKeeps, FilesStay

LEMMA WriteComparisonKeeps ==
  ASSUME ExperimentInv, NEW c \in Analysts, WriteComparison(c)
  PROVE  ExperimentInv'
<1> DEFINE t == analysts[c].text
<1>1. /\ Doing(c, "comparison") /\ Goes(c, Resting)
      /\ comparison' = File([CompareExperiment(t) EXCEPT !.reports = armReports.text])
      /\ UNCHANGED <<armEvidence, experimentDecision, promotionDecision>>
  BY DEF WriteComparison
<1>2. FilesInv /\ EvidenceStays
  BY <1>1 DEF ExperimentInv, EvidenceStays
<1>3. /\ t.dir \in EvidenceDirs
      /\ \A a \in Arms \intersect t.arms : armEvidence[<<t.dir, a>>].is = "whole"
  BY <1>1 DEF ExperimentInv, AnalystInv, Doing
<1> HIDE DEF t
<1>4. comparison'.text.selected = IF t.arms = Arms THEN Selected(t.dir) ELSE 0
  BY <1>1 DEF CompareExperiment, File
<1>5. EarnedSelection(comparison'.text.selected)
  BY <1>3, <1>4 DEF EarnedSelection, Admitted
<1>6. EarnedSelection(comparison.text.selected)'
  <2>1. PICK x : x = comparison'.text.selected
    OBVIOUS
  <2>2. EarnedSelection(x)'
    BY <1>2, <1>5, <2>1, EarnedStays
  <2> QED
    BY <2>1, <2>2 DEF EarnedSelection
<1> QED
  BY <1>1, <1>2, <1>6, RestKeeps, FilesStay

\* A command that holds an earned selection goes on with it.
LEMMA HolderInv ==
  ASSUME EvidenceStays, NEW c \in Analysts, NEW pc, NEW t,
         pc \in {"decide", "decided", "promote", "promoted"}, EarnedSelection(t.selected),
         analysts'[c] = [pc |-> pc, text |-> t]
  PROVE  AnalystInv(c)'
<1>1. analysts'[c].pc = pc /\ analysts'[c].text = t /\ HasText(c)'
  BY DEF HasText
<1>2. PICK x : x = t.selected
  OBVIOUS
<1>3. EarnedSelection(x)'
  BY <1>2, EarnedStays
<1>4. EarnedSelection(analysts[c].text.selected)'
  BY <1>1, <1>2, <1>3 DEF EarnedSelection
<1> QED
  BY <1>1, <1>4 DEF AnalystInv, Doing

LEMMA BeginDecisionKeeps ==
  ASSUME ExperimentInv, NEW c \in Analysts, DecideExperiment(c) \/ PromoteExperiment(c)
  PROVE  ExperimentInv'
<1>1. PICK pc \in {"decide", "promote"} :
        \E t : Goes(c, [pc |-> pc, text |-> t]) /\ EarnedSelection(t.selected)
  BY DEF DecideExperiment, PromoteExperiment, ExperimentInv, FilesInv
<1>2. PICK t : Goes(c, [pc |-> pc, text |-> t]) /\ EarnedSelection(t.selected)
  BY <1>1
<1>3. UNCHANGED <<armEvidence, comparison, experimentDecision, promotionDecision>>
  BY DEF DecideExperiment, PromoteExperiment
<1>4. FilesInv /\ EvidenceStays
  BY <1>3 DEF ExperimentInv, EvidenceStays
<1>5. analysts'[c] = [pc |-> pc, text |-> t]
  BY <1>2, <1>4, CommandMoves
<1>6. AnalystInv(c)'
  BY <1>2, <1>4, <1>5, HolderInv
<1>7. [pc |-> pc, text |-> t].pc # "admit"
  OBVIOUS
<1> QED
  BY <1>2, <1>3, <1>4, <1>6, <1>7, CommandKeeps, FilesStay

LEMMA OpenDecisionKeeps ==
  ASSUME ExperimentInv, NEW c \in Analysts, OpenDecision(c)
  PROVE  ExperimentInv'
<1>1. UNCHANGED <<armEvidence, comparison>>
  BY DEF OpenDecision
<1>2. FilesInv /\ EvidenceStays
  BY <1>1 DEF ExperimentInv, EvidenceStays
<1>3. /\ analysts[c].pc \in {"decide", "promote"}
      /\ \/ Goes(c, Resting)
         \/ \E pc \in {"decided", "promoted"} : Goes(c, [analysts[c] EXCEPT !.pc = pc])
  BY DEF OpenDecision, Doing
<1>4. HasText(c) /\ EarnedSelection(analysts[c].text.selected)
  BY <1>3 DEF ExperimentInv, AnalystInv
<1>5. /\ Exists(comparison)' => EarnedSelection(comparison.text.selected)'
      /\ experimentDecision'.is = "whole" => EarnedSelection(experimentDecision.text.selected)'
      /\ promotionDecision'.is = "whole" => EarnedSelection(promotionDecision.text.selected)'
  <2>1. experimentDecision' = experimentDecision \/ experimentDecision'.is = "torn"
    BY DEF OpenDecision, TornFile
  <2>2. promotionDecision' = promotionDecision \/ promotionDecision'.is = "torn"
    BY DEF OpenDecision, TornFile
  <2> QED
    BY <1>1, <1>2, <2>1, <2>2, FilesStay
<1>6. CASE Goes(c, Resting)
  BY <1>1, <1>5, <1>6, RestKeeps
<1>7. ASSUME NEW pc \in {"decided", "promoted"}, Goes(c, [analysts[c] EXCEPT !.pc = pc])
      PROVE  ExperimentInv'
  <2> DEFINE to == [analysts[c] EXCEPT !.pc = pc]
  <2>1. to = [pc |-> pc, text |-> analysts[c].text]
    BY <1>4 DEF HasText
  <2>2. to.pc # "admit"
    BY <2>1
  <2>3. analysts'[c] = to
    BY <1>2, <1>7, CommandMoves
  <2>4. AnalystInv(c)'
    BY <1>2, <1>4, <2>1, <2>3, HolderInv
  <2>5. Goes(c, to)
    BY <1>7
  <2> HIDE DEF to
  <2> QED
    BY <1>1, <1>5, <2>2, <2>4, <2>5, CommandKeeps
<1> QED
  BY <1>3, <1>6, <1>7

LEMMA WriteDecisionKeeps ==
  ASSUME ExperimentInv, NEW c \in Analysts, WriteDecisionFile(c)
  PROVE  ExperimentInv'
<1>1. UNCHANGED <<armEvidence, comparison>> /\ Goes(c, Resting)
  BY DEF WriteDecisionFile
<1>2. FilesInv /\ EvidenceStays
  BY <1>1 DEF ExperimentInv, EvidenceStays
<1>3. PICK t : t = analysts[c].text
  OBVIOUS
<1>4. EarnedSelection(t.selected)
  BY <1>3 DEF WriteDecisionFile, Doing, ExperimentInv, AnalystInv
<1>5. EarnedSelection(t.selected)'
  <2>1. PICK x : x = t.selected
    OBVIOUS
  <2> QED
    BY <1>2, <1>4, <2>1, EarnedStays DEF EarnedSelection
<1>6. experimentDecision' = experimentDecision \/ experimentDecision'.text = t
  BY <1>3 DEF WriteDecisionFile, File
<1>7. promotionDecision' = promotionDecision \/ promotionDecision'.text = t
  BY <1>3 DEF WriteDecisionFile, File
<1>8. /\ Exists(comparison)' => EarnedSelection(comparison.text.selected)'
      /\ experimentDecision'.is = "whole" => EarnedSelection(experimentDecision.text.selected)'
      /\ promotionDecision'.is = "whole" => EarnedSelection(promotionDecision.text.selected)'
  <2>1. experimentDecision'.text = t => EarnedSelection(experimentDecision.text.selected)'
    BY <1>5 DEF EarnedSelection
  <2>2. promotionDecision'.text = t => EarnedSelection(promotionDecision.text.selected)'
    BY <1>5 DEF EarnedSelection
  <2> QED
    BY <1>1, <1>2, <1>6, <1>7, <2>1, <2>2, FilesStay
<1> QED
  BY <1>1, <1>8, RestKeeps

LEMMA ExperimentStep ==
  ASSUME ExperimentInv, [ExperimentNext]_experimentVars
  PROVE  ExperimentInv'
<1>1. ASSUME NEW c \in Analysts, AnalystDies(c) PROVE ExperimentInv'
  <2>1. /\ UNCHANGED <<armEvidence, comparison, experimentDecision, promotionDecision>>
        /\ Goes(c, Resting)
    BY <1>1 DEF AnalystDies
  <2>2. FilesInv /\ EvidenceStays
    BY <2>1 DEF ExperimentInv, EvidenceStays
  <2> QED
    BY <2>1, <2>2, RestKeeps, FilesStay
<1>2. CASE BoundFileChanges \/ UNCHANGED experimentVars
  <2>1. UNCHANGED <<armEvidence, comparison, experimentDecision, promotionDecision, analysts>>
    BY <1>2 DEF BoundFileChanges, experimentVars
  <2>2. FilesInv /\ EvidenceStays
    BY <2>1 DEF ExperimentInv, EvidenceStays
  <2>3. FilesInv'
    BY <2>1, <2>2, FilesStay DEF FilesInv
  <2>4. ASSUME NEW b \in Analysts PROVE AnalystInv(b)'
    <3>1. AnalystInv(b)
      BY DEF ExperimentInv
    <3> QED
      BY <2>1, <2>2, <3>1, OthersStay DEF AnalystInv, Doing
  <2> QED
    BY <2>3, <2>4 DEF ExperimentInv
<1> QED
  BY <1>1, <1>2, OpenEvidenceKeeps, LoadEvidenceKeeps, WriteEvidenceKeeps,
     WriteArmReportsKeeps, WriteComparisonKeeps, BeginDecisionKeeps, OpenDecisionKeeps,
     WriteDecisionKeeps
     DEF ExperimentNext

\* A promotion that verifies is of what the complete evidence of a directory
\* selects, however many commands overlap or die (verify_promotion_chain and the
\* exclusive files of admit, decide and promote).
THEOREM PromotionsAreEarned == ExperimentSpec => []PromotionIsOnAdmittedEvidence
<1>1. ExperimentInv => PromotionIsOnAdmittedEvidence
  BY DEF ExperimentInv, FilesInv, PromotionIsOnAdmittedEvidence, PromotionVerifies,
         EarnedSelection, Admitted
<1> QED
  BY <1>1, ExperimentStarts, ExperimentStep, PTL DEF ExperimentSpec
-----------------------------------------------------------------------------
(* Calibrations. *)

CalibrationFields == {"stage", "bound", "governance", "prior", "priorStamp", "decision"}
DecisionFields == {"status", "stamp", "evidence"}
FinalizerFields == {"pc", "of", "todo", "pending", "checks", "evidence", "item"}

EvidenceNow(i) == Evidence(review[i].status, votes[i], adjudication[i])

\* What was read of an item that was judged then is what it is now.
Certain(i, e) == e.status \in Judged => review[i].status \in Judged /\ e = EvidenceNow(i)

\* The work directories; a passed decision is on judged items as they are.
DirectoryTypes ==
  /\ \E S : calibrations \in Seq(S)
  /\ \A n \in DOMAIN calibrations :
       /\ DOMAIN calibrations[n] = CalibrationFields
       /\ DOMAIN calibrations[n].decision = DecisionFields
       /\ calibrations[n].bound \in SUBSET Items

Upheld(c) ==
  c.decision.status = "passed" =>
    /\ \A i \in c.bound : review[i].status \in Judged
    /\ c.decision.evidence = CurrentEvidence(c.bound)

Reading == {"item", "decisions", "adjudication"}

\* What a finalize command has read: items that it leaves to read, those whose
\* evidence it has, and the one it is reading, whose status it read first.
ReadsSample(bound) ==
  /\ finalizer.todo \subseteq bound
  /\ finalizer.evidence = [j \in DOMAIN finalizer.evidence |-> finalizer.evidence[j]]
  /\ DOMAIN finalizer.evidence \subseteq bound
  /\ \A j \in DOMAIN finalizer.evidence : Certain(j, finalizer.evidence[j])
  /\ finalizer.pc = "first" => DOMAIN finalizer.evidence = {}
  /\ finalizer.pc \in Reading => bound = DOMAIN finalizer.evidence \union finalizer.todo
  /\ finalizer.pc = "decide" => bound = DOMAIN finalizer.evidence

ReadsStatus(i, e) ==
  /\ i \in finalizer.todo
  /\ finalizer.item = <<i, e>>
  /\ e = Evidence(e.status, e.votes, "none")
  /\ e.status \in Judged => review[i].status = e.status

ReadsVotes(i, e) == e.status \in Judged => e.votes = votes[i]

FinalizerTypes ==
  /\ DOMAIN finalizer = FinalizerFields
  /\ finalizer.pc \in Reading \union {"idle", "first", "decide"}
  /\ finalizer.pc # "idle" => finalizer.of \in DOMAIN calibrations

FinalizerReads ==
  /\ finalizer.pc # "idle" => ReadsSample(calibrations[finalizer.of].bound)
  /\ finalizer.pc \in {"decisions", "adjudication"} =>
       ReadsStatus(finalizer.item[1], finalizer.item[2])
  /\ finalizer.pc = "adjudication" => ReadsVotes(finalizer.item[1], finalizer.item[2])

CalibrationInv ==
  /\ ReviewInv
  /\ DirectoryTypes
  /\ \A n \in DOMAIN calibrations : Upheld(calibrations[n])
  /\ FinalizerTypes
  /\ FinalizerReads

\* The judged items are left as they are.
JudgedStay ==
  \A i \in Items : review[i].status \in Judged =>
    review'[i] = review[i] /\ votes'[i] = votes[i] /\ adjudication'[i] = adjudication[i]

LEMMA CalibrationStarts ==
  ASSUME ReviewInit, CalibrationInit
  PROVE  CalibrationInv
<1>1. ReviewInv
  BY ReviewStarts
<1>2. calibrations = << >> /\ finalizer = NoFinalizer
  BY DEF CalibrationInit
<1>3. << >> \in Seq({}) /\ DOMAIN << >> = {}
  OBVIOUS
<1> QED
  BY <1>1, <1>2, <1>3 DEF CalibrationInv, DirectoryTypes, FinalizerTypes, FinalizerReads, NoFinalizer,
       FinalizerFields, Reading

LEMMA UpheldStays ==
  ASSUME JudgedStay, NEW c, c.bound \in SUBSET Items, Upheld(c)
  PROVE  Upheld(c)'
<1> SUFFICES ASSUME c.decision.status = "passed"
             PROVE  /\ \A i \in c.bound : review'[i].status \in Judged
                    /\ c.decision.evidence = CurrentEvidence(c.bound)'
  BY DEF Upheld
<1>1. \A i \in c.bound :
        /\ review'[i] = review[i] /\ votes'[i] = votes[i] /\ adjudication'[i] = adjudication[i]
        /\ review[i].status \in Judged
  BY DEF Upheld, JudgedStay
<1>2. CurrentEvidence(c.bound)' = CurrentEvidence(c.bound)
  BY <1>1 DEF CurrentEvidence, Evidence
<1> QED
  BY <1>1, <1>2 DEF Upheld

LEMMA CertainStays ==
  ASSUME JudgedStay, NEW i \in Items, NEW e, Certain(i, e)
  PROVE  Certain(i, e)'
BY DEF Certain, JudgedStay, EvidenceNow, Evidence

\* A step of the reviewers, of the enqueueing or of the governance, which leaves
\* the finalize command and the directories it knows as they are.
LEMMA FinalizerRests ==
  ASSUME DirectoryTypes, FinalizerTypes, FinalizerReads, JudgedStay, finalizer' = finalizer,
         \A n \in DOMAIN calibrations :
           n \in DOMAIN calibrations' /\ calibrations'[n].bound = calibrations[n].bound
  PROVE  FinalizerTypes' /\ FinalizerReads'
<1>1. FinalizerTypes'
  BY DEF FinalizerTypes
<1>2. ASSUME finalizer.pc # "idle" PROVE ReadsSample(calibrations[finalizer.of].bound)'
  <2>1. /\ finalizer.of \in DOMAIN calibrations
        /\ calibrations'[finalizer.of].bound = calibrations[finalizer.of].bound
        /\ calibrations[finalizer.of].bound \in SUBSET Items
    BY <1>2 DEF FinalizerTypes, DirectoryTypes
  <2>2. ReadsSample(calibrations[finalizer.of].bound)
    BY <1>2 DEF FinalizerReads
  <2>3. \A j \in DOMAIN finalizer.evidence : Certain(j, finalizer.evidence[j])'
    BY <2>1, <2>2, CertainStays DEF ReadsSample
  <2> QED
    BY <2>1, <2>2, <2>3 DEF ReadsSample
<1>3. ASSUME finalizer.pc \in {"decisions", "adjudication"}
      PROVE  /\ ReadsStatus(finalizer.item[1], finalizer.item[2])'
             /\ finalizer.pc = "adjudication" => ReadsVotes(finalizer.item[1], finalizer.item[2])'
  <2>1. ReadsStatus(finalizer.item[1], finalizer.item[2])
    BY <1>3 DEF FinalizerReads
  <2>2. finalizer.item[1] \in Items
    BY <1>3, <2>1 DEF FinalizerTypes, FinalizerReads, DirectoryTypes, ReadsSample, ReadsStatus
  <2>3. /\ finalizer.item[2].status \in Judged =>
             /\ review'[finalizer.item[1]].status = finalizer.item[2].status
             /\ votes'[finalizer.item[1]] = votes[finalizer.item[1]]
    BY <2>1, <2>2 DEF ReadsStatus, JudgedStay
  <2> QED
    BY <1>3, <2>1, <2>3 DEF FinalizerReads, ReadsStatus, ReadsVotes
<1> QED
  BY <1>1, <1>2, <1>3 DEF FinalizerReads

LEMMA DirectoriesRest ==
  ASSUME CalibrationInv, JudgedStay, calibrations' = calibrations
  PROVE  DirectoryTypes' /\ \A n \in DOMAIN calibrations' : Upheld(calibrations[n])'
<1>1. DirectoryTypes'
  BY DEF CalibrationInv, DirectoryTypes
<1>2. ASSUME NEW n \in DOMAIN calibrations PROVE Upheld(calibrations[n])'
  <2>1. Upheld(calibrations[n]) /\ calibrations[n].bound \in SUBSET Items
    BY DEF CalibrationInv, DirectoryTypes
  <2> DEFINE c == calibrations[n]
  <2> QED
    BY <2>1 , UpheldStays
<1> QED
  BY <1>1, <1>2
-----------------------------------------------------------------------------
LEMMA SampledKeeps ==
  ASSUME ReviewInv, NEW bound \in SUBSET Items,
         review' = [i \in Items |->
           IF i \in bound /\ review[i].status = "absent" THEN Review("pending", TRUE)
           ELSE review[i]],
         UNCHANGED <<backend, assignments, votes, adjudication, seen>>
  PROVE  ReviewInv' /\ JudgedStay
<1>1. ReviewTypeOK'
  BY DEF ReviewInv, ReviewTypeOK, Review
<1>2. ASSUME NEW j \in Items PROVE ItemInv(j)'
  <2>1. CASE ~(j \in bound /\ review[j].status = "absent")
    BY <2>1, ItemRests
  <2>2. CASE j \in bound /\ review[j].status = "absent"
    <3>1. assignments[j] = {} /\ seen[j] = {}
      BY <2>2 DEF ReviewInv, ItemInv, Shown, Judged
    <3>2. review'[j].status = "pending"
      BY <2>2 DEF Review
    <3> QED
      BY <3>1, <3>2 DEF ReviewInv, ItemInv, Shown, Judged
  <2> QED
    BY <2>1, <2>2
<1>3. JudgedStay
  BY DEF JudgedStay, Judged
<1> QED
  BY <1>1, <1>2, <1>3 DEF ReviewInv

LEMMA ReviewNextStays ==
  ASSUME ReviewInv, [ReviewNext]_reviewVars
  PROVE  ReviewInv' /\ JudgedStay
BY ReviewStep, JudgedRests DEF JudgedStay

LEMMA CalibrationRests ==
  ASSUME CalibrationInv, ReviewInv', JudgedStay, calibrations' = calibrations,
         finalizer' = finalizer
  PROVE  CalibrationInv'
<1>1. FinalizerTypes' /\ FinalizerReads'
  <2>1. \A n \in DOMAIN calibrations :
          n \in DOMAIN calibrations' /\ calibrations'[n].bound = calibrations[n].bound
    OBVIOUS
  <2>2. DirectoryTypes /\ FinalizerTypes /\ FinalizerReads /\ finalizer' = finalizer
    BY DEF CalibrationInv
  <2> QED
    BY <2>1, <2>2, FinalizerRests
<1>2. DirectoryTypes' /\ \A n \in DOMAIN calibrations' : Upheld(calibrations[n])'
  BY DirectoriesRest
<1>3. (\A n \in DOMAIN calibrations : Upheld(calibrations[n]))'
  BY <1>2
<1>4. ReviewInv' /\ DirectoryTypes'
  BY <1>2
<1> QED
  BY <1>1, <1>3, <1>4 DEF CalibrationInv

LEMMA RunCalibrationKeeps ==
  ASSUME CalibrationInv, NEW stage, NEW bound \in SUBSET Items, NEW prior,
         RunCalibration(stage, bound, prior)
  PROVE  CalibrationInv'
<1>1. ReviewInv' /\ JudgedStay
  BY SampledKeeps DEF RunCalibration, CalibrationInv
<1> DEFINE stamp == IF prior = 0 THEN 0 ELSE calibrations[prior].decision.stamp
           c == [stage |-> stage, bound |-> bound, governance |-> governance, prior |-> prior,
                 priorStamp |-> stamp, decision |-> NoDecision]
<1>2. calibrations' = Append(calibrations, c) /\ finalizer' = finalizer
  BY DEF RunCalibration
<1>3. PICK S : calibrations \in Seq(S)
  BY DEF CalibrationInv, DirectoryTypes
<1>4. calibrations \in Seq(S \union {c})
  BY <1>3, SeqMonotonic
<1>5. /\ DOMAIN c = CalibrationFields /\ DOMAIN c.decision = DecisionFields
      /\ c.bound = bound /\ c.decision.status = "none"
  BY DEF CalibrationFields, DecisionFields, NoDecision
<1> HIDE DEF c
<1>6. /\ calibrations' \in Seq(S \union {c})
      /\ Len(calibrations) \in Nat
      /\ DOMAIN calibrations = 1 .. Len(calibrations)
      /\ DOMAIN calibrations' = 1 .. (Len(calibrations) + 1)
      /\ \A n \in DOMAIN calibrations : calibrations'[n] = calibrations[n]
      /\ calibrations'[Len(calibrations) + 1] = c
  BY <1>2, <1>4
<1>7. \A n \in DOMAIN calibrations' :
        (n \in DOMAIN calibrations /\ calibrations'[n] = calibrations[n]) \/ calibrations'[n] = c
  BY <1>6
<1>8. DirectoryTypes'
  BY <1>5, <1>6, <1>7 DEF CalibrationInv, DirectoryTypes
<1>9. FinalizerTypes' /\ FinalizerReads'
  <2>1. \A n \in DOMAIN calibrations :
           n \in DOMAIN calibrations' /\ calibrations'[n].bound = calibrations[n].bound
    BY <1>6
  <2> QED
    BY <1>1, <1>2, <2>1, FinalizerRests DEF CalibrationInv
<1>10. ASSUME NEW n \in DOMAIN calibrations' PROVE Upheld(calibrations[n])'
  <2>1. CASE calibrations'[n] = c
    BY <1>5, <2>1 DEF Upheld
  <2>2. CASE n \in DOMAIN calibrations /\ calibrations'[n] = calibrations[n]
    <3> DEFINE d == calibrations[n]
    <3>1. Upheld(d) /\ d.bound \in SUBSET Items
      BY <2>2 DEF CalibrationInv, DirectoryTypes
    <3>2. Upheld(d) => /\ d.decision.status = "passed" =>
                           /\ \A i \in d.bound : review'[i].status \in Judged
                           /\ d.decision.evidence = [i \in d.bound |->
                                Evidence(review'[i].status, votes'[i], adjudication'[i])]
      BY <1>1, <3>1 DEF Upheld, JudgedStay, CurrentEvidence
    <3> QED
      BY <2>2, <3>1, <3>2 DEF Upheld, CurrentEvidence
  <2> QED
    BY <1>7, <2>1, <2>2
<1> QED
  BY <1>1, <1>8, <1>9, <1>10 DEF CalibrationInv

LEMMA BeginFinalizeKeeps ==
  ASSUME CalibrationInv, NEW n \in DOMAIN calibrations, BeginFinalize(n)
  PROVE  CalibrationInv'
<1>1. /\ finalizer' = [NoFinalizer EXCEPT
           !.pc = "first", !.of = n, !.todo = calibrations[n].bound,
           !.checks = calibrations[n].governance = governance /\ PriorHolds(calibrations[n])]
      /\ UNCHANGED <<reviewVars, calibrations>>
  BY DEF BeginFinalize
<1>2. /\ DOMAIN finalizer' = FinalizerFields /\ finalizer'.pc = "first" /\ finalizer'.of = n
      /\ finalizer'.todo = calibrations[n].bound /\ finalizer'.evidence = << >>
  BY <1>1 DEF NoFinalizer, FinalizerFields
<1>3. ReviewInv' /\ JudgedStay
  BY <1>1, ReviewStep DEF CalibrationInv, JudgedStay, reviewVars
<1>4. FinalizerTypes'
  BY <1>1, <1>2 DEF FinalizerTypes
<1>5. FinalizerReads'
  <2>1. finalizer'.evidence = [j \in DOMAIN finalizer'.evidence |-> finalizer'.evidence[j]]
        /\ DOMAIN finalizer'.evidence = {}
    BY <1>2
  <2> QED
    BY <1>1, <1>2, <2>1 DEF FinalizerReads, ReadsSample, Reading
<1>6. DirectoryTypes' /\ \A m \in DOMAIN calibrations' : Upheld(calibrations[m])'
  BY <1>1, <1>3, DirectoriesRest
<1> QED
  BY <1>3, <1>4, <1>5, <1>6 DEF CalibrationInv
-----------------------------------------------------------------------------
\* A step of the finalize command, which reads.
LEMMA CommandReads ==
  ASSUME CalibrationInv, UNCHANGED <<reviewVars, calibrations>>, FinalizerTypes', FinalizerReads'
  PROVE  CalibrationInv'
<1>1. ReviewInv' /\ JudgedStay
  BY ReviewStep DEF CalibrationInv, JudgedStay, reviewVars
<1>2. calibrations' = calibrations
  OBVIOUS
<1>3. DirectoryTypes' /\ \A n \in DOMAIN calibrations' : Upheld(calibrations[n])'
  BY <1>1, <1>2, DirectoriesRest
<1> QED
  BY <1>1, <1>3 DEF CalibrationInv

LEMMA FirstReadingKeeps ==
  ASSUME CalibrationInv, FirstReading
  PROVE  CalibrationInv'
<1>1. PICK i \in finalizer.todo :
        finalizer' = [finalizer EXCEPT
          !.pending = @ \union (IF review[i].status \in Judged THEN {} ELSE {i}),
          !.pc = IF finalizer.todo \ {i} = {} THEN "item" ELSE @,
          !.todo = IF finalizer.todo \ {i} = {} THEN calibrations[finalizer.of].bound
                   ELSE finalizer.todo \ {i}]
  BY DEF FirstReading
<1>2. /\ finalizer.pc = "first" /\ UNCHANGED <<reviewVars, calibrations>>
  BY DEF FirstReading
<1>3. DOMAIN finalizer = FinalizerFields
  BY DEF CalibrationInv, FinalizerTypes
<1>4. /\ DOMAIN finalizer' = FinalizerFields
      /\ finalizer'.of = finalizer.of /\ finalizer'.evidence = finalizer.evidence
      /\ \/ finalizer'.pc = "first" /\ finalizer'.todo = finalizer.todo \ {i}
         \/ finalizer'.pc = "item" /\ finalizer'.todo = calibrations[finalizer.of].bound
  BY <1>1, <1>2, <1>3 DEF FinalizerFields
<1>5. FinalizerTypes'
  BY <1>2, <1>4 DEF CalibrationInv, FinalizerTypes, Reading
<1>6. FinalizerReads'
  <2>1. ReadsSample(calibrations[finalizer.of].bound)
    BY <1>2 DEF CalibrationInv, FinalizerReads
  <2>2. UNCHANGED <<review, votes, adjudication, calibrations>>
    BY <1>2 DEF reviewVars
  <2>3. \A j \in DOMAIN finalizer.evidence : Certain(j, finalizer.evidence[j])'
    BY <1>4, <2>1, <2>2 DEF ReadsSample, Certain, EvidenceNow
  <2>4. finalizer'.todo \subseteq calibrations[finalizer.of].bound
        /\ DOMAIN finalizer.evidence = {}
    BY <1>2, <1>4, <2>1 DEF ReadsSample
  <2>5. ReadsSample(calibrations[finalizer.of].bound)'
    BY <1>2, <1>4, <2>1, <2>2, <2>3, <2>4 DEF ReadsSample, Reading
  <2> QED
    BY <1>4, <2>5 DEF FinalizerReads
<1> QED
  BY <1>2, <1>5, <1>6, CommandReads

LEMMA ReadItemKeeps ==
  ASSUME CalibrationInv, ReadItem
  PROVE  CalibrationInv'
<1>1. PICK i \in finalizer.todo :
        finalizer' = [finalizer EXCEPT
          !.pc = "decisions", !.item = <<i, Evidence(review[i].status, << >>, "none")>>]
  BY DEF ReadItem
<1>2. /\ finalizer.pc = "item" /\ UNCHANGED <<reviewVars, calibrations>>
  BY DEF ReadItem
<1>3. DOMAIN finalizer = FinalizerFields
  BY DEF CalibrationInv, FinalizerTypes
<1>4. /\ DOMAIN finalizer' = FinalizerFields /\ finalizer'.pc = "decisions"
      /\ finalizer'.of = finalizer.of /\ finalizer'.evidence = finalizer.evidence
      /\ finalizer'.todo = finalizer.todo
      /\ finalizer'.item = <<i, Evidence(review[i].status, << >>, "none")>>
  BY <1>1, <1>2, <1>3 DEF FinalizerFields
<1>5. FinalizerTypes'
  BY <1>2, <1>4 DEF CalibrationInv, FinalizerTypes, Reading
<1>6. FinalizerReads'
  <2>1. ReadsSample(calibrations[finalizer.of].bound)
    BY <1>2 DEF CalibrationInv, FinalizerReads
  <2>2. UNCHANGED <<review, votes, adjudication, calibrations>>
    BY <1>2 DEF reviewVars
  <2>3. ReadsSample(calibrations[finalizer.of].bound)'
    BY <1>2, <1>4, <2>1, <2>2 DEF ReadsSample, Certain, EvidenceNow, Reading
  <2>4. ReadsStatus(finalizer.item[1], finalizer.item[2])'
    BY <1>4, <2>2 DEF ReadsStatus, Evidence
  <2> QED
    BY <1>4, <2>3, <2>4 DEF FinalizerReads
<1> QED
  BY <1>2, <1>5, <1>6, CommandReads

LEMMA ReadDecisionsKeeps ==
  ASSUME CalibrationInv, ReadDecisions
  PROVE  CalibrationInv'
<1> DEFINE i == finalizer.item[1]
           e == finalizer.item[2]
           f == [e EXCEPT !.votes = votes[i]]
<1>1. /\ finalizer.pc = "decisions" /\ UNCHANGED <<reviewVars, calibrations>>
      /\ finalizer' = [finalizer EXCEPT !.pc = "adjudication",
           !.item = [finalizer.item EXCEPT ![2] = f]]
  BY DEF ReadDecisions
<1>2. ReadsStatus(i, e)
  BY <1>1 DEF CalibrationInv, FinalizerReads
<1>3. finalizer.item = <<i, e>> /\ e = Evidence(e.status, e.votes, "none")
  BY <1>2 DEF ReadsStatus
<1> HIDE DEF i, e
<1>4. f = Evidence(e.status, votes[i], "none") /\ f.status = e.status /\ f.votes = votes[i]
  BY <1>3 DEF Evidence
<1> HIDE DEF f
<1>5. [finalizer.item EXCEPT ![2] = f] = <<i, f>>
  BY <1>3
<1>6. DOMAIN finalizer = FinalizerFields
  BY DEF CalibrationInv, FinalizerTypes
<1>7. /\ DOMAIN finalizer' = FinalizerFields /\ finalizer'.pc = "adjudication"
      /\ finalizer'.of = finalizer.of /\ finalizer'.evidence = finalizer.evidence
      /\ finalizer'.todo = finalizer.todo /\ finalizer'.item = <<i, f>>
  BY <1>1, <1>5, <1>6 DEF FinalizerFields
<1>8. FinalizerTypes'
  BY <1>1, <1>7 DEF CalibrationInv, FinalizerTypes, Reading
<1>9. FinalizerReads'
  <2>1. ReadsSample(calibrations[finalizer.of].bound)
    BY <1>1 DEF CalibrationInv, FinalizerReads
  <2>2. UNCHANGED <<review, votes, adjudication, calibrations>>
    BY <1>1 DEF reviewVars
  <2>3. ReadsSample(calibrations[finalizer.of].bound)'
    BY <1>1, <1>7, <2>1, <2>2 DEF ReadsSample, Certain, EvidenceNow, Reading
  <2>5. finalizer'.item[1] = i /\ finalizer'.item[2] = f
    BY <1>7
  <2>6. /\ ReadsStatus(finalizer.item[1], finalizer.item[2])'
        /\ ReadsVotes(finalizer.item[1], finalizer.item[2])'
    <3>1. /\ i \in finalizer'.todo /\ finalizer'.item = <<i, f>>
          /\ f = Evidence(f.status, f.votes, "none")
          /\ f.status \in Judged => review'[i].status = f.status /\ f.votes = votes'[i]
      BY <1>2, <1>4, <1>7, <2>2 DEF ReadsStatus
    <3> QED
      BY <2>5, <3>1 DEF ReadsStatus, ReadsVotes
  <2> QED
    BY <1>7, <2>3, <2>6 DEF FinalizerReads
<1> QED
  BY <1>1, <1>8, <1>9, CommandReads
-----------------------------------------------------------------------------
LEMMA ReadAdjudicationKeeps ==
  ASSUME CalibrationInv, ReadAdjudication
  PROVE  CalibrationInv'
<1> DEFINE i == finalizer.item[1]
           e == finalizer.item[2]
           read == [e EXCEPT !.adjudication = adjudication[i]]
           rest == finalizer.todo \ {i}
           had == finalizer.evidence
           next == [j \in DOMAIN had \union {i} |-> IF j = i THEN read ELSE had[j]]
<1>1. /\ finalizer.pc = "adjudication" /\ UNCHANGED <<reviewVars, calibrations>>
      /\ finalizer' = [finalizer EXCEPT !.evidence = next, !.todo = rest, !.item = << >>,
           !.pc = IF rest = {} THEN "decide" ELSE "item"]
  BY DEF ReadAdjudication
<1>2. ReadsStatus(i, e) /\ ReadsVotes(i, e)
  BY <1>1 DEF CalibrationInv, FinalizerReads
<1>3. /\ i \in finalizer.todo /\ e = Evidence(e.status, e.votes, "none")
      /\ e.status \in Judged => review[i].status = e.status /\ e.votes = votes[i]
  BY <1>2 DEF ReadsStatus, ReadsVotes
<1>4. UNCHANGED <<review, votes, adjudication, calibrations>>
  BY <1>1 DEF reviewVars
<1> HIDE DEF i, e
<1>5. read = Evidence(e.status, e.votes, adjudication[i]) /\ read.status = e.status
  BY <1>3 DEF Evidence
<1>6. Certain(i, read)
  BY <1>3, <1>5 DEF Certain, EvidenceNow
<1> HIDE DEF read
<1>7. ReadsSample(calibrations[finalizer.of].bound)
  BY <1>1 DEF CalibrationInv, FinalizerReads
<1>8. /\ DOMAIN next = DOMAIN had \union {i}
      /\ next = [j \in DOMAIN next |-> next[j]]
      /\ \A j \in DOMAIN next : Certain(j, next[j])
  BY <1>6, <1>7 DEF ReadsSample
<1> HIDE DEF next
<1>9. DOMAIN finalizer = FinalizerFields
  BY DEF CalibrationInv, FinalizerTypes
<1>10. /\ DOMAIN finalizer' = FinalizerFields
       /\ finalizer'.pc = IF rest = {} THEN "decide" ELSE "item"
       /\ finalizer'.of = finalizer.of /\ finalizer'.evidence = next
       /\ finalizer'.todo = rest
  BY <1>1, <1>9 DEF FinalizerFields
<1>11. FinalizerTypes'
  BY <1>1, <1>10 DEF CalibrationInv, FinalizerTypes, Reading
<1>12. FinalizerReads'
  <2> DEFINE bound == calibrations[finalizer.of].bound
  <2>1. /\ rest \subseteq bound /\ DOMAIN next \subseteq bound
        /\ bound = DOMAIN next \union rest
        /\ rest = {} => bound = DOMAIN next
    BY <1>1, <1>3, <1>7, <1>8 DEF ReadsSample, Reading
  <2>2. (\A j \in DOMAIN finalizer.evidence : Certain(j, finalizer.evidence[j]))'
    BY <1>4, <1>8, <1>10 DEF Certain, EvidenceNow
  <2> HIDE DEF rest
  <2>3. ReadsSample(calibrations[finalizer.of].bound)'
    BY <1>4, <1>8, <1>10, <2>1, <2>2 DEF ReadsSample, Reading
  <2> QED
    BY <1>10, <2>3 DEF FinalizerReads
<1> QED
  BY <1>1, <1>11, <1>12, CommandReads

LEMMA DecisionWritten ==
  ASSUME CalibrationInv, WriteDecision
  PROVE  CalibrationInv'
<1> DEFINE n == finalizer.of
           c == calibrations[n]
           had == finalizer.evidence
<1>1. PICK thresholds \in BOOLEAN :
        calibrations' = [calibrations EXCEPT ![n].decision =
          [status |-> IF thresholds /\ GatePasses(finalizer.checks, had) THEN "passed"
                      ELSE IF finalizer.pending # {} THEN "blocked" ELSE "failed",
           stamp |-> @.stamp + 1, evidence |-> had]]
  BY DEF WriteDecision
<1> DEFINE status == IF thresholds /\ GatePasses(finalizer.checks, had) THEN "passed"
                     ELSE IF finalizer.pending # {} THEN "blocked" ELSE "failed"
           stamp == c.decision.stamp + 1
           decision == [status |-> status, stamp |-> stamp, evidence |-> had]
           d == [c EXCEPT !.decision = decision]
<1>2. finalizer.pc = "decide" /\ finalizer' = NoFinalizer /\ UNCHANGED reviewVars
  BY DEF WriteDecision
<1>3. ReviewInv' /\ JudgedStay
  BY <1>2, ReviewStep DEF CalibrationInv, JudgedStay, reviewVars
<1>4. UNCHANGED <<review, votes, adjudication>>
  BY <1>2 DEF reviewVars
<1>5. /\ n \in DOMAIN calibrations /\ ReadsSample(c.bound)
      /\ c.bound = DOMAIN had /\ c.bound \in SUBSET Items
      /\ DOMAIN c = CalibrationFields /\ DOMAIN c.decision = DecisionFields
  BY <1>2 DEF CalibrationInv, FinalizerTypes, FinalizerReads, ReadsSample, DirectoryTypes
<1>6. status = "passed" =>
        (\A i \in c.bound : review[i].status \in Judged) /\ had = CurrentEvidence(c.bound)
  <2> SUFFICES ASSUME status = "passed"
               PROVE (\A i \in c.bound : review[i].status \in Judged)
                     /\ had = CurrentEvidence(c.bound)
    OBVIOUS
  <2>1. SampleReviewed(had)
    BY DEF GatePasses
  <2>2. \A i \in DOMAIN had : review[i].status \in Judged /\ had[i] = EvidenceNow(i)
    BY <1>5, <2>1 DEF SampleReviewed, ReadsSample, Certain
  <2>3. had = [i \in DOMAIN had |-> had[i]]
    BY <1>5 DEF ReadsSample
  <2>4. had = [i \in DOMAIN had |-> EvidenceNow(i)]
    BY <2>2, <2>3
  <2> QED
    BY <1>5, <2>2, <2>4 DEF CurrentEvidence, EvidenceNow
<1>7. calibrations' = [calibrations EXCEPT ![n] = d]
  BY <1>1
<1>8. decision.status = status /\ decision.evidence = had /\ DOMAIN decision = DecisionFields
  BY DEF DecisionFields
<1> HIDE DEF decision
<1>9. d.bound = c.bound /\ d.decision = decision /\ DOMAIN d = CalibrationFields
  BY <1>5 DEF CalibrationFields
<1> HIDE DEF d, status
<1>10. PICK S : calibrations \in Seq(S)
  BY DEF CalibrationInv, DirectoryTypes
<1>11. calibrations \in Seq(S \union {d})
  BY <1>10, SeqMonotonic
<1>12. /\ calibrations' \in Seq(S \union {d})
       /\ DOMAIN calibrations' = DOMAIN calibrations
       /\ \A m \in DOMAIN calibrations : calibrations'[m] = IF m = n THEN d ELSE calibrations[m]
  <2>1. n \in 1 .. Len(calibrations) /\ DOMAIN calibrations = 1 .. Len(calibrations)
    BY <1>5, <1>11
  <2>2. /\ calibrations' \in Seq(S \union {d})
        /\ Len(calibrations') = Len(calibrations)
        /\ \A m \in 1 .. Len(calibrations) :
             calibrations'[m] = IF m = n THEN d ELSE calibrations[m]
    BY <1>7, <1>11, <2>1, ExceptSeq
  <2> QED
    BY <2>1, <2>2
<1>13. DirectoryTypes'
  BY <1>5, <1>8, <1>9, <1>12 DEF CalibrationInv, DirectoryTypes
<1>14. ASSUME NEW m \in DOMAIN calibrations' PROVE Upheld(calibrations[m])'
  <2>1. CASE m = n
    <3>1. calibrations'[m] = d
      BY <1>5, <1>12, <2>1
    <3>2. status = "passed" =>
            /\ \A i \in d.bound : review'[i].status \in Judged
            /\ had = [i \in d.bound |-> Evidence(review'[i].status, votes'[i], adjudication'[i])]
      BY <1>4, <1>6, <1>9 DEF CurrentEvidence
    <3> QED
      BY <1>8, <1>9, <3>1, <3>2 DEF Upheld, CurrentEvidence
  <2>2. CASE m # n
    <3>1. calibrations'[m] = calibrations[m] /\ m \in DOMAIN calibrations
      BY <1>12, <2>2
    <3>2. Upheld(calibrations[m])
      BY <3>1 DEF CalibrationInv
    <3> QED
      BY <1>4, <3>1, <3>2 DEF Upheld, CurrentEvidence
  <2> QED
    BY <2>1, <2>2
<1>15. FinalizerTypes' /\ FinalizerReads'
  BY <1>2 DEF FinalizerTypes, FinalizerReads, NoFinalizer, FinalizerFields, Reading
<1> QED
  BY <1>3, <1>13, <1>14, <1>15 DEF CalibrationInv

LEMMA CalibrationStep ==
  ASSUME CalibrationInv, [CalibrationNext]_<<reviewVars, calibrationVars>>
  PROVE  CalibrationInv'
<1>1. CASE ReviewNext /\ UNCHANGED calibrationVars
  <2>1. ReviewInv' /\ JudgedStay
    BY <1>1, ReviewNextStays DEF CalibrationInv
  <2> QED
    BY <1>1, <2>1, CalibrationRests DEF calibrationVars
<1>2. ASSUME NEW stage, NEW bound \in SUBSET Items, NEW prior,
             RunCalibration(stage, bound, prior)
      PROVE  CalibrationInv'
  BY <1>2, RunCalibrationKeeps
<1>3. ASSUME NEW n \in DOMAIN calibrations, BeginFinalize(n)
      PROVE  CalibrationInv'
  BY <1>3, BeginFinalizeKeeps
<1>4. CASE FirstReading \/ ReadItem \/ ReadDecisions \/ ReadAdjudication \/ WriteDecision
  BY <1>4, FirstReadingKeeps, ReadItemKeeps, ReadDecisionsKeeps, ReadAdjudicationKeeps,
     DecisionWritten
<1>5. ASSUME UNCHANGED <<reviewVars, calibrations, finalizer>>
      PROVE  CalibrationInv'
  <2>1. ReviewInv' /\ JudgedStay
    BY <1>5, ReviewNextStays DEF CalibrationInv
  <2> QED
    BY <1>5, <2>1, CalibrationRests
<1>6. CASE ChangeGovernance
  BY <1>5, <1>6 DEF ChangeGovernance
<1>7. ASSUME NEW n \in DOMAIN calibrations, BuildDataset(n)
      PROVE  CalibrationInv'
  BY <1>5, <1>7 DEF BuildDataset
<1>8. ASSUME NEW d \in DOMAIN datasets, PromoteDataset(d)
      PROVE  CalibrationInv'
  BY <1>5, <1>8 DEF PromoteDataset
<1>9. CASE UNCHANGED <<reviewVars, calibrationVars>>
  BY <1>5, <1>9 DEF calibrationVars
<1> QED
  BY <1>1, <1>2, <1>3, <1>4, <1>6, <1>7, <1>8, <1>9 DEF CalibrationNext

\* The evidence of a passed decision is what the authority says of its records
\* ever after, although it was read record by record and table by table while
\* reviewers went on (finalize_calibration and _authority_evidence).
THEOREM DecisionsReplay == CalibrationSpec => []PassedStaysReplayable
<1>1. CalibrationInv => PassedStaysReplayable
  BY DEF CalibrationInv, Upheld, PassedStaysReplayable
<1> QED
  BY <1>1, CalibrationStarts, CalibrationStep, PTL DEF CalibrationSpec
-----------------------------------------------------------------------------
(* Pipeline runs. *)

PipelineOrigin == Runs \union {Nothing, "promoted"}
PipelineFiles ==
  [clean : PipelineOrigin, filtered : PipelineOrigin, training : PipelineOrigin,
   tokenizer : PipelineOrigin, shards : PipelineOrigin, shardsOf : SUBSET PipelineOrigin,
   checkpoint : [data : SUBSET PipelineOrigin, manifest : PipelineOrigin]]
LedgerRow == [run : Runs, files : PipelineFiles, trained : BOOLEAN]
Stages ==
  {"crawl", "filter", "gate", "tokenize", "shard", "train", "training", "version"}

PipelineTypeOK ==
  /\ production \in BOOLEAN
  /\ lockFile \in [owner : Runs \union {Nothing}, stale : BOOLEAN]
  /\ files \in PipelineFiles
  /\ command \in [Runs -> [pc : Stages \union {"new", "unlink", "create", "failed", "complete", "dead"},
                           reads : PipelineOrigin]]
  /\ ledger \in Seq(LedgerRow)
  /\ overtaken \in SUBSET Runs

\* What a run at a stage of the lock has made so far is what the directory holds.
MadeAt(r, stage, reads, f) ==
  /\ stage # "crawl" => f.clean = r
  /\ stage \notin {"crawl", "filter"} => f.filtered = r
  /\ stage \notin {"crawl", "filter", "gate"} => f.training \in {r, "promoted"}
  /\ stage \in {"shard", "train", "training", "version"} => f.tokenizer = f.training
  /\ stage \in {"train", "training", "version"} => f.shards = r /\ f.shardsOf = {f.training}
  /\ stage = "training" => reads = r /\ (f.checkpoint = NoTraining \/ f.checkpoint.manifest = r)
  /\ stage = "version" /\ reads # Nothing => f.checkpoint = [data |-> {r}, manifest |-> r]
MadeSoFar(r) == MadeAt(r, command[r].pc, command[r].reads, files)

\* Runs that have not trained yet have read nothing.
ReadsNothing(r) ==
  command[r].pc \in {"new", "unlink", "create"} \union (Stages \ {"training", "version"})
    => command[r].reads = Nothing

\* A checkpoint is of the shards whose manifest it names.
CheckpointOfOne == files.checkpoint # NoTraining => files.checkpoint.data = {files.checkpoint.manifest}

VersionOfOne(v) ==
  /\ v.files.clean = v.run /\ v.files.filtered = v.run /\ v.files.shards = v.run
  /\ v.files.shardsOf = {v.files.training}
  /\ v.files.training \in {v.run, "promoted"}
  /\ v.trained => v.files.checkpoint = [data |-> {v.run}, manifest |-> v.run]

\* As long as no lock was taken away: the run in the lock owns it.
PipelineInv ==
  /\ PipelineTypeOK
  /\ \A r \in Runs : ReadsNothing(r)
  /\ overtaken = {} =>
       /\ \A r \in Runs : InLock(r) => lockFile.owner = r /\ MadeSoFar(r)
       /\ CheckpointOfOne
       /\ \A n \in DOMAIN ledger : VersionOfOne(ledger[n])

LEMMA PipelineStarts ==
  ASSUME PipelineInit
  PROVE  PipelineInv
<1> USE PipelineAssumption
<1>1. PipelineTypeOK
  <2>1. files \in PipelineFiles
    BY DEF PipelineInit, PipelineFiles, PipelineOrigin, NoTraining
  <2> QED
    BY <2>1 DEF PipelineInit, PipelineTypeOK, NoLock, PipelineOrigin
<1>2. \A r \in Runs : command[r].pc = "new" /\ command[r].reads = Nothing
  BY DEF PipelineInit
<1>3. files.checkpoint = NoTraining /\ DOMAIN ledger = {}
  BY DEF PipelineInit
<1> QED
  BY <1>1, <1>2, <1>3 DEF PipelineInv, ReadsNothing, InLock, CheckpointOfOne

\* One run is in the lock, as long as no lock was taken away.
LEMMA OneInLock ==
  ASSUME PipelineInv, overtaken = {}, NEW r \in Runs, NEW q \in Runs, InLock(r), InLock(q)
  PROVE  q = r
BY DEF PipelineInv

\* A step of one run: what it has to leave for the invariant to hold.
LEMMA RunKeeps ==
  ASSUME PipelineInv, NEW r \in Runs,
         \A q \in Runs \ {r} : command'[q] = command[q],
         overtaken \subseteq overtaken', PipelineTypeOK', ReadsNothing(r)',
         overtaken' = {} =>
           /\ (files' = files /\ lockFile'.owner = lockFile.owner) \/ \A q \in Runs \ {r} : ~InLock(q)
           /\ InLock(r)' => lockFile'.owner = r /\ MadeSoFar(r)'
           /\ CheckpointOfOne'
           /\ \A n \in DOMAIN ledger' : VersionOfOne(ledger'[n])
  PROVE  PipelineInv'
<1>1. \A q \in Runs : ReadsNothing(q)'
  BY DEF PipelineInv, ReadsNothing
<1>2. ASSUME overtaken' = {}, NEW q \in Runs \ {r}, InLock(q)'
      PROVE  lockFile'.owner = q /\ MadeSoFar(q)'
  <2>1. overtaken = {} /\ InLock(q) /\ command'[q] = command[q]
    BY <1>2 DEF InLock
  <2>2. lockFile.owner = q /\ MadeSoFar(q) /\ files' = files /\ lockFile'.owner = lockFile.owner
    BY <1>2, <2>1 DEF PipelineInv
  <2> QED
    BY <2>1, <2>2 DEF MadeSoFar
<1> QED
  BY <1>1, <1>2 DEF PipelineInv

\* A stage of the run in the lock.
LEMMA StageKeeps ==
  ASSUME PipelineInv, NEW r \in Runs, InLock(r), NEW c, command' = [command EXCEPT ![r] = c],
         c \in [pc : Stages, reads : PipelineOrigin],
         files' \in PipelineFiles,
         UNCHANGED <<production, lockFile, ledger, overtaken>>,
         ReadsNothing(r)', overtaken = {} => MadeSoFar(r)' /\ CheckpointOfOne'
  PROVE  PipelineInv'
<1>1. PipelineTypeOK'
  BY DEF PipelineInv, PipelineTypeOK
<1>2. \A q \in Runs \ {r} : command'[q] = command[q]
  BY DEF PipelineInv, PipelineTypeOK
<1>3. overtaken = {} => \A q \in Runs \ {r} : ~InLock(q)
  BY OneInLock
<1>4. overtaken = {} => lockFile.owner = r /\ \A n \in DOMAIN ledger : VersionOfOne(ledger[n])
  BY DEF PipelineInv
<1> QED
  BY <1>1, <1>2, <1>3, <1>4, RunKeeps

\* A step of one run, outside the lock or out of it.
LEMMA OutsideKeeps ==
  ASSUME PipelineInv, NEW r \in Runs, NEW pc \in {"new", "unlink", "create", "failed", "complete", "dead"},
         command' = [command EXCEPT ![r].pc = pc],
         UNCHANGED <<production, files>>,
         pc \in {"unlink", "create"} => command[r].pc \in {"new", "unlink", "create"},
         pc # "new",
         lockFile' = lockFile \/ Removed(r), overtaken' = overtaken \/ Removed(r),
         ledger' \in Seq(LedgerRow),
         overtaken = {} => \A n \in DOMAIN ledger' : VersionOfOne(ledger'[n])
  PROVE  PipelineInv'
<1>1. command'[r] = [command[r] EXCEPT !.pc = pc] /\ \A q \in Runs \ {r} : command'[q] = command[q]
  BY DEF PipelineInv, PipelineTypeOK
<1>2. overtaken \subseteq overtaken'
  BY DEF Removed
<1>3. PipelineTypeOK'
  <2>1. command' \in [Runs -> [pc : Stages \union {"new", "unlink", "create", "failed", "complete", "dead"},
                              reads : PipelineOrigin]]
    BY DEF PipelineInv, PipelineTypeOK
  <2>2. Removed(r) => lockFile' \in [owner : Runs \union {Nothing}, stale : BOOLEAN]
    BY DEF Removed, NoLock
  <2>3. Removed(r) => overtaken' \in SUBSET Runs
    BY DEF PipelineInv, PipelineTypeOK, Removed
  <2>4. lockFile' \in [owner : Runs \union {Nothing}, stale : BOOLEAN] /\ overtaken' \in SUBSET Runs
    BY <2>2, <2>3 DEF PipelineInv, PipelineTypeOK
  <2> QED
    BY <2>1, <2>4 DEF PipelineInv, PipelineTypeOK
<1>4. command'[r].pc = pc /\ command'[r].reads = command[r].reads
  BY <1>1 DEF PipelineInv, PipelineTypeOK
<1>5. ReadsNothing(r)'
  BY <1>4 DEF ReadsNothing, PipelineInv, Stages
<1>6. ASSUME overtaken' = {}
      PROVE  /\ (files' = files /\ lockFile'.owner = lockFile.owner) \/ \A q \in Runs \ {r} : ~InLock(q)
             /\ InLock(r)' => lockFile'.owner = r /\ MadeSoFar(r)'
             /\ CheckpointOfOne'
             /\ \A n \in DOMAIN ledger' : VersionOfOne(ledger'[n])
  <2>1. overtaken = {}
    BY <1>2, <1>6
  <2>2. ~InLock(r)'
    BY <1>4 DEF InLock
  <2>3. CheckpointOfOne'
    BY <2>1 DEF PipelineInv, CheckpointOfOne
  <2>4. ASSUME Removed(r), NEW q \in Runs \ {r}, InLock(q)
        PROVE  FALSE
    <3>1. lockFile.owner = q /\ command[q].pc # "dead"
      BY <2>1, <2>4 DEF PipelineInv, InLock
    <3> QED
      BY <1>6, <2>4, <3>1 DEF Removed
  <2>5. lockFile' = lockFile \/ \A q \in Runs \ {r} : ~InLock(q)
    BY <2>4
  <2>6. files' = files
    OBVIOUS
  <2> QED
    BY <2>1, <2>2, <2>3, <2>5, <2>6
<1> QED
  BY <1>1, <1>2, <1>3, <1>5, <1>6, RunKeeps

\* A stage before the training.
LEMMA AdvanceKeeps ==
  ASSUME PipelineInv, NEW r \in Runs, NEW pc \in Stages \ {"training", "version"},
         NEW next \in Stages \ {"crawl", "training"}, Stage(r, pc, next),
         files' \in PipelineFiles, files'.checkpoint = files.checkpoint,
         overtaken = {} /\ MadeAt(r, pc, Nothing, files) => MadeAt(r, next, Nothing, files')
  PROVE  PipelineInv'
<1> DEFINE c == [command[r] EXCEPT !.pc = next]
<1>1. command[r].pc = pc /\ InLock(r) /\ command[r].reads = Nothing
  BY DEF Stage, CommandAt, InLock, PipelineInv, ReadsNothing, Stages
<1>2. command' = [command EXCEPT ![r] = c] /\ command'[r] = c
  BY DEF Stage, GoesTo, PipelineInv, PipelineTypeOK
<1>3. c.pc = next /\ c.reads = Nothing /\ c \in [pc : Stages, reads : PipelineOrigin]
  BY <1>1 DEF PipelineInv, PipelineTypeOK
<1> HIDE DEF c
<1>4. ReadsNothing(r)'
  BY <1>2, <1>3 DEF ReadsNothing
<1>5. overtaken = {} => MadeSoFar(r)' /\ CheckpointOfOne'
  BY <1>1, <1>2, <1>3 DEF PipelineInv, MadeSoFar, CheckpointOfOne
<1> QED
  BY <1>1, <1>2, <1>3, <1>4, <1>5, StageKeeps DEF Stage

LEMMA PipelineStep ==
  ASSUME PipelineInv, [PipelineNext]_pipelineVars
  PROVE  PipelineInv'
<1> USE PipelineAssumption
<1>1. CASE Age
  <2>1. /\ UNCHANGED <<production, files, command, ledger, overtaken>>
        /\ lockFile' = [lockFile EXCEPT !.stale = TRUE]
    BY <1>1 DEF Age
  <2>2. lockFile' \in [owner : Runs \union {Nothing}, stale : BOOLEAN] /\ lockFile'.owner = lockFile.owner
    BY <2>1 DEF PipelineInv, PipelineTypeOK
  <2> QED
    BY <2>1, <2>2 DEF PipelineInv, PipelineTypeOK, ReadsNothing, InLock, MadeSoFar, CheckpointOfOne
<1>2. ASSUME NEW r \in Runs, CheckLock(r) \/ Unlink(r)
      PROVE  PipelineInv'
  <2>1. PICK pc \in {"unlink", "create", "failed"} : command' = [command EXCEPT ![r].pc = pc]
    BY <1>2 DEF CheckLock, Unlink, GoesTo
  <2>2. command[r].pc \in {"new", "unlink"} /\ UNCHANGED <<production, files, ledger>>
    BY <1>2 DEF CheckLock, Unlink, CommandAt
  <2>3. UNCHANGED <<lockFile, overtaken>> \/ Removed(r)
    BY <1>2 DEF CheckLock, Unlink
  <2>4. ledger' \in Seq(LedgerRow) /\ (overtaken = {} => \A n \in DOMAIN ledger' : VersionOfOne(ledger'[n]))
    BY <2>2 DEF PipelineInv, PipelineTypeOK
  <2> QED
    BY <2>1, <2>2, <2>3, <2>4, OutsideKeeps
<1>3. ASSUME NEW r \in Runs, CreateLock(r)
      PROVE  PipelineInv'
  <2>1. CASE MayCreate(lockFile)
    <3>1. /\ command' = [command EXCEPT ![r].pc = "crawl"] /\ command[r].pc = "create"
          /\ lockFile' = [NoLock EXCEPT !.owner = r] /\ lockFile = NoLock
          /\ UNCHANGED <<production, files, ledger, overtaken>>
      BY <1>3, <2>1 DEF CreateLock, GoesTo, CommandAt, MayCreate
    <3>2. lockFile'.owner = r /\ lockFile' \in [owner : Runs \union {Nothing}, stale : BOOLEAN]
      BY <3>1 DEF NoLock
    <3>3. command'[r].pc = "crawl" /\ command'[r].reads = command[r].reads
      BY <3>1 DEF PipelineInv, PipelineTypeOK
    <3>4. \A q \in Runs \ {r} : command'[q] = command[q]
      BY <3>1 DEF PipelineInv, PipelineTypeOK
    <3>5. PipelineTypeOK'
      BY <3>1, <3>2 DEF PipelineInv, PipelineTypeOK, Stages
    <3>6. ReadsNothing(r)'
      BY <3>1, <3>3 DEF ReadsNothing, PipelineInv
    <3>7. overtaken = {} => \A q \in Runs : ~InLock(q)
      BY <3>1 DEF PipelineInv, NoLock
    <3>8. MadeSoFar(r)'
      BY <3>3 DEF MadeSoFar, MadeAt
    <3>9. overtaken = {} => CheckpointOfOne' /\ \A n \in DOMAIN ledger' : VersionOfOne(ledger'[n])
      BY <3>1 DEF PipelineInv, CheckpointOfOne
    <3> QED
      BY <3>1, <3>2, <3>4, <3>5, <3>6, <3>7, <3>8, <3>9, RunKeeps
  <2>2. CASE ~MayCreate(lockFile)
    <3>1. /\ command' = [command EXCEPT ![r].pc = "failed"]
          /\ UNCHANGED <<production, lockFile, files, ledger, overtaken>>
      BY <1>3, <2>2 DEF CreateLock, GoesTo
    <3>2. ledger' \in Seq(LedgerRow) /\ (overtaken = {} => \A n \in DOMAIN ledger' : VersionOfOne(ledger'[n]))
      BY <3>1 DEF PipelineInv, PipelineTypeOK
    <3> QED
      BY <3>1, <3>2, OutsideKeeps
  <2> QED
    BY <2>1, <2>2
<1>4. ASSUME NEW r \in Runs, StageFails(r) \/ Kill(r)
      PROVE  PipelineInv'
  <2>1. PICK pc \in {"failed", "dead"} : command' = [command EXCEPT ![r].pc = pc]
    BY <1>4 DEF StageFails, Kill, Leave, GoesTo
  <2>2. UNCHANGED <<production, files, ledger>>
    BY <1>4 DEF StageFails, Kill, Leave
  <2>3. UNCHANGED <<lockFile, overtaken>> \/ Removed(r)
    BY <1>4 DEF StageFails, Kill, Leave
  <2>4. ledger' \in Seq(LedgerRow) /\ (overtaken = {} => \A n \in DOMAIN ledger' : VersionOfOne(ledger'[n]))
    BY <2>2 DEF PipelineInv, PipelineTypeOK
  <2> QED
    BY <2>1, <2>2, <2>3, <2>4, OutsideKeeps
<1>5. files \in PipelineFiles
  BY DEF PipelineInv, PipelineTypeOK
<1>6. ASSUME NEW r \in Runs, CrawlStage(r)
      PROVE  PipelineInv'
  <2>1. files' \in PipelineFiles /\ files'.checkpoint = files.checkpoint /\ files'.clean = r
    BY <1>5, <1>6 DEF CrawlStage, PipelineFiles, PipelineOrigin
  <2>2. MadeAt(r, "filter", Nothing, files')
    BY <2>1 DEF MadeAt
  <2> QED
    BY <1>6, <2>1, <2>2, AdvanceKeeps DEF CrawlStage, Stages
<1>7. ASSUME NEW r \in Runs, FilterStage(r)
      PROVE  PipelineInv'
  <2>1. /\ files' \in PipelineFiles /\ files'.checkpoint = files.checkpoint
        /\ files'.clean = files.clean /\ files'.filtered = files.clean
    BY <1>5, <1>7 DEF FilterStage, PipelineFiles, PipelineOrigin
  <2>2. MadeAt(r, "filter", Nothing, files) => MadeAt(r, "gate", Nothing, files')
    BY <2>1 DEF MadeAt
  <2> QED
    BY <1>7, <2>1, <2>2, AdvanceKeeps DEF FilterStage, Stages
<1>8. ASSUME NEW r \in Runs, GateStage(r)
      PROVE  PipelineInv'
  <2>1. /\ files' \in PipelineFiles /\ files'.checkpoint = files.checkpoint
        /\ files'.clean = files.clean /\ files'.filtered = files.filtered
        /\ files'.training \in {files.filtered, "promoted"}
    BY <1>5, <1>8 DEF GateStage, PipelineFiles, PipelineOrigin
  <2>2. MadeAt(r, "gate", Nothing, files) => MadeAt(r, "tokenize", Nothing, files')
    BY <2>1 DEF MadeAt
  <2> QED
    BY <1>8, <2>1, <2>2, AdvanceKeeps DEF GateStage, Stages
<1>9. ASSUME NEW r \in Runs, TokenizerStage(r)
      PROVE  PipelineInv'
  <2>1. /\ files' \in PipelineFiles /\ files'.checkpoint = files.checkpoint
        /\ files'.clean = files.clean /\ files'.filtered = files.filtered
        /\ files'.training = files.training /\ files'.tokenizer = files.training
    BY <1>5, <1>9 DEF TokenizerStage, PipelineFiles, PipelineOrigin
  <2>2. MadeAt(r, "tokenize", Nothing, files) => MadeAt(r, "shard", Nothing, files')
    BY <2>1 DEF MadeAt
  <2> QED
    BY <1>9, <2>1, <2>2, AdvanceKeeps DEF TokenizerStage, Stages
<1>10. ASSUME NEW r \in Runs, ShardStage(r)
       PROVE  PipelineInv'
  <2>1. /\ files' \in PipelineFiles /\ files'.checkpoint = files.checkpoint
        /\ files'.clean = files.clean /\ files'.filtered = files.filtered
        /\ files'.training = files.training /\ files'.tokenizer = files.tokenizer
        /\ files'.shards = r /\ files'.shardsOf = {files.training, files.tokenizer}
    BY <1>5, <1>10 DEF ShardStage, PipelineFiles, PipelineOrigin
  <2>2. MadeAt(r, "shard", Nothing, files) => MadeAt(r, "train", Nothing, files')
    BY <2>1 DEF MadeAt
  <2> QED
    BY <1>10, <2>1, <2>2, AdvanceKeeps DEF ShardStage, Stages
<1>11. ASSUME NEW r \in Runs, SkipTraining(r)
       PROVE  PipelineInv'
  <2>1. MadeAt(r, "train", Nothing, files) => MadeAt(r, "version", Nothing, files)
    BY DEF MadeAt
  <2>2. files' = files /\ Stage(r, "train", "version")
    BY <1>11 DEF SkipTraining
  <2> QED
    BY <1>5, <2>1, <2>2, AdvanceKeeps DEF Stages
<1>12. ASSUME NEW r \in Runs, StartTraining(r)
       PROVE  PipelineInv'
  <2> DEFINE c == [command[r] EXCEPT !.pc = "training", !.reads = files.shards]
  <2>1. command[r].pc = "train" /\ InLock(r) /\ Resumes(files.checkpoint, files.shards)
    BY <1>12 DEF StartTraining, CommandAt, InLock
  <2>2. command' = [command EXCEPT ![r] = c] /\ command'[r] = c
    BY <1>12 DEF StartTraining, PipelineInv, PipelineTypeOK
  <2>3. /\ c.pc = "training" /\ c.reads = files.shards
        /\ c \in [pc : Stages, reads : PipelineOrigin]
    <3>1. files.shards \in PipelineOrigin
      BY <1>5 DEF PipelineFiles
    <3> QED
      BY <3>1 DEF PipelineInv, PipelineTypeOK, Stages
  <2> HIDE DEF c
  <2>4. ReadsNothing(r)'
    BY <2>2, <2>3 DEF ReadsNothing, Stages
  <2>5. UNCHANGED <<production, lockFile, files, ledger, overtaken>>
    BY <1>12 DEF StartTraining
  <2>6. overtaken = {} => MadeAt(r, "train", command[r].reads, files)
    BY <2>1 DEF PipelineInv, MadeSoFar
  <2>7. overtaken = {} => MadeSoFar(r)'
    BY <2>1, <2>2, <2>3, <2>5, <2>6 DEF MadeSoFar, MadeAt, Resumes
  <2>8. overtaken = {} => CheckpointOfOne'
    BY <2>5 DEF PipelineInv, CheckpointOfOne
  <2> QED
    BY <1>5, <2>1, <2>2, <2>3, <2>4, <2>5, <2>7, <2>8, StageKeeps
<1>13. ASSUME NEW r \in Runs, NEW next \in {"training", "version"}, SaveCheckpoint(r, next)
       PROVE  PipelineInv'
  <2> DEFINE c == [command[r] EXCEPT !.pc = next]
             saved == [data |-> files.checkpoint.data \union {command[r].reads}, manifest |-> files.shards]
  <2>1. command[r].pc = "training" /\ InLock(r)
    BY <1>13 DEF SaveCheckpoint, Stage, CommandAt, InLock
  <2>2. command' = [command EXCEPT ![r] = c] /\ command'[r] = c
    BY <1>13 DEF SaveCheckpoint, Stage, GoesTo, PipelineInv, PipelineTypeOK
  <2>3. /\ c.pc = next /\ c.reads = command[r].reads /\ command[r].reads \in PipelineOrigin
        /\ c \in [pc : Stages, reads : PipelineOrigin]
    BY DEF PipelineInv, PipelineTypeOK, Stages
  <2>4. UNCHANGED <<production, lockFile, ledger, overtaken>>
    BY <1>13 DEF SaveCheckpoint, Stage
  <2>5. files' = [files EXCEPT !.checkpoint = saved]
    BY <1>13 DEF SaveCheckpoint
  <2>6. /\ saved \in [data : SUBSET PipelineOrigin, manifest : PipelineOrigin]
        /\ saved.data = files.checkpoint.data \union {command[r].reads}
        /\ saved.manifest = files.shards
    BY <1>5, <2>3 DEF PipelineFiles
  <2>7. overtaken = {} => MadeAt(r, "training", command[r].reads, files) /\ CheckpointOfOne
    BY <2>1 DEF PipelineInv, MadeSoFar
  <2>8. overtaken = {} => saved = [data |-> {r}, manifest |-> r]
    <3> SUFFICES ASSUME overtaken = {}
                 PROVE  saved = [data |-> {r}, manifest |-> r]
      OBVIOUS
    <3>1. command[r].reads = r /\ files.shards = r
      BY <2>7 DEF MadeAt
    <3>2. files.checkpoint.data \union {r} = {r}
      BY <2>7 DEF MadeAt, CheckpointOfOne, NoTraining
    <3> QED
      BY <3>1, <3>2
  <2> HIDE DEF c, saved
  <2>9. /\ files' \in PipelineFiles /\ files'.checkpoint = saved
        /\ files'.clean = files.clean /\ files'.filtered = files.filtered
        /\ files'.training = files.training /\ files'.tokenizer = files.tokenizer
        /\ files'.shards = files.shards /\ files'.shardsOf = files.shardsOf
    BY <1>5, <2>5, <2>6 DEF PipelineFiles
  <2>10. ReadsNothing(r)'
    BY <2>2, <2>3 DEF ReadsNothing, Stages
  <2>11. overtaken = {} => MadeAt(r, next, command[r].reads, files')
    BY <2>7, <2>8, <2>9 DEF MadeAt
  <2>12. overtaken = {} => MadeSoFar(r)' /\ CheckpointOfOne'
    BY <2>2, <2>3, <2>8, <2>9, <2>11 DEF MadeSoFar, CheckpointOfOne
  <2> QED
    BY <2>1, <2>2, <2>3, <2>4, <2>9, <2>10, <2>12, StageKeeps
<1>14. ASSUME NEW r \in Runs, Publish(r)
       PROVE  PipelineInv'
  <2> DEFINE v == [run |-> r, files |-> files, trained |-> command[r].reads # Nothing]
  <2>1. /\ command[r].pc = "version" /\ command' = [command EXCEPT ![r].pc = "complete"]
        /\ UNCHANGED <<production, files>> /\ Removed(r) /\ ledger' = Append(ledger, v)
    BY <1>14 DEF Publish, Leave, CommandAt, GoesTo
  <2>2. v \in LedgerRow
    BY <1>5 DEF LedgerRow
  <2>3. ledger' \in Seq(LedgerRow)
    BY <2>1, <2>2 DEF PipelineInv, PipelineTypeOK
  <2>4. overtaken = {} => MadeAt(r, "version", command[r].reads, files)
    BY <2>1 DEF PipelineInv, MadeSoFar, InLock
  <2>5. overtaken = {} => VersionOfOne(v)
    BY <2>4 DEF VersionOfOne, MadeAt
  <2> HIDE DEF v
  <2>6. \A n \in DOMAIN ledger' : ledger'[n] = v \/ (n \in DOMAIN ledger /\ ledger'[n] = ledger[n])
    BY <2>1, <2>2 DEF PipelineInv, PipelineTypeOK
  <2>7. overtaken = {} => \A n \in DOMAIN ledger' : VersionOfOne(ledger'[n])
    BY <2>5, <2>6 DEF PipelineInv
  <2> QED
    BY <2>1, <2>3, <2>7, OutsideKeeps
<1>15. CASE UNCHANGED pipelineVars
  BY <1>15 DEF pipelineVars, PipelineInv, PipelineTypeOK, ReadsNothing, InLock, MadeSoFar, CheckpointOfOne
<1> QED
  BY <1>1, <1>2, <1>3, <1>4, <1>6, <1>7, <1>8, <1>9, <1>10, <1>11, <1>12, <1>13, <1>14, <1>15
     DEF PipelineNext

\* A published version is of one run, whatever runs failed or died in the
\* directory before, unless a lock was taken away (PipelineRunLock,
\* load_checkpoint).
THEOREM VersionsAreOfOneRun == PipelineSpec => []VersionIsOfOneRun
<1>1. PipelineInv => VersionIsOfOneRun
  BY DEF PipelineInv, VersionIsOfOneRun, VersionOfOne
<1> QED
  BY <1>1, PipelineStarts, PipelineStep, PTL DEF PipelineSpec
-----------------------------------------------------------------------------
(* The crawl. *)

CrawlRow ==
  [status : {"unknown", "queued", "in_progress", "done", "failed"}, attempts : Nat, depth : Nat]
HoldsUrl ==
  [pc : {"fetching", "written", "recorded", "linked", "reporting"}, url : Urls, attempts : Nat]

CrawlTypeOK ==
  /\ frontier \in {"sqlite", "postgres"}
  /\ urls \in [Urls -> CrawlRow]
  /\ crawler = [c \in Crawlers |-> crawler[c]]
  /\ \A c \in Crawlers : crawler[c].pc \notin {"off", "idle"} => crawler[c] \in HoldsUrl

\* A crawler that holds a row counts the attempts it was claimed with: the one
\* it makes among them, or those before it (claim of the two frontiers).
HoldsIts(c) ==
  crawler[c].pc \notin {"off", "idle"} =>
    LET row == urls[crawler[c].url] IN
    /\ row.status \notin {"unknown", "queued"}
    /\ row.attempts = crawler[c].attempts + IF frontier = "postgres" THEN 0 ELSE 1

HeldOnce ==
  \A c, d \in Crawlers :
    crawler[c].pc \notin {"off", "idle"} /\ crawler[d].pc \notin {"off", "idle"} /\ c # d
      => crawler[c].url # crawler[d].url

\* A row that may be claimed has an attempt left.
AttemptLeft(row) ==
  /\ row.attempts <= IF RetryLimit = 0 THEN 1 ELSE RetryLimit
  /\ row.status = "queued" => row.attempts = 0 \/ row.attempts < RetryLimit

CrawlInv ==
  /\ CrawlTypeOK
  /\ \A c \in Crawlers : HoldsIts(c)
  /\ HeldOnce
  /\ \A u \in Urls : AttemptLeft(urls[u])

LEMMA CrawlStarts ==
  ASSUME CrawlInit
  PROVE  CrawlInv
<1> USE CrawlAssumption
<1>1. RetryLimit \in Nat /\ NoUrl \in CrawlRow
  BY DEF NoUrl, CrawlRow
<1>2. CrawlTypeOK
  BY <1>1 DEF CrawlInit, CrawlTypeOK, Off
<1>3. \A c \in Crawlers : crawler[c].pc = "off"
  BY DEF CrawlInit, Off
<1>4. NoUrl.attempts = 0 /\ NoUrl.status = "unknown" /\ \A u \in Urls : urls[u] = NoUrl
  BY DEF CrawlInit, NoUrl
<1>5. AttemptLeft(NoUrl)
  BY <1>1, <1>4 DEF AttemptLeft
<1> QED
  BY <1>2, <1>3, <1>4, <1>5 DEF CrawlInv, HoldsIts, HeldOnce

\* Some rows are queued for the first time, while no crawler claims one.
LEMMA QueueKeeps ==
  ASSUME CrawlInv, NEW some, NEW depth \in Nat, urls' = Queue(some, depth), UNCHANGED frontier,
         crawler' = [c \in Crawlers |-> crawler'[c]],
         \A c \in Crawlers : \/ crawler'[c].pc \in {"off", "idle"}
                             \/ /\ crawler'[c] \in HoldsUrl
                                /\ crawler[c].pc \notin {"off", "idle"}
                                /\ crawler'[c].url = crawler[c].url
                                /\ crawler'[c].attempts = crawler[c].attempts
  PROVE  CrawlInv'
<1> USE CrawlAssumption
<1>1. [NoUrl EXCEPT !.status = "queued", !.depth = depth] \in CrawlRow
      /\ [NoUrl EXCEPT !.status = "queued", !.depth = depth].attempts = 0
  BY DEF NoUrl, CrawlRow
<1>2. \A u \in Urls : urls'[u] \in CrawlRow
  BY <1>1 DEF Queue, CrawlInv, CrawlTypeOK
<1>3. \A u \in Urls : urls'[u] = urls[u] \/ (urls[u].status = "unknown" /\ urls'[u].attempts = 0)
  BY <1>1 DEF Queue
<1>4. CrawlTypeOK'
  BY <1>2 DEF Queue, CrawlInv, CrawlTypeOK
<1>5. \A c \in Crawlers : crawler[c].pc \notin {"off", "idle"} => crawler[c].url \in Urls
  BY DEF CrawlInv, CrawlTypeOK, HoldsUrl
<1>6. \A c \in Crawlers : HoldsIts(c)'
  BY <1>3, <1>5 DEF CrawlInv, HoldsIts
<1>7. HeldOnce'
  BY DEF CrawlInv, HeldOnce
<1>8. RetryLimit \in Nat
  OBVIOUS
<1>9. \A u \in Urls : AttemptLeft(urls'[u])
  BY <1>3, <1>8 DEF CrawlInv, AttemptLeft
<1> QED
  BY <1>4, <1>6, <1>7, <1>9 DEF CrawlInv

\* A step of the crawlers that leaves the rows.
LEMMA RowsRest ==
  ASSUME CrawlInv, UNCHANGED <<urls, frontier>>,
         crawler' = [c \in Crawlers |-> crawler'[c]],
         \A c \in Crawlers : \/ crawler'[c].pc \in {"off", "idle"}
                             \/ /\ crawler'[c] \in HoldsUrl
                                /\ crawler[c].pc \notin {"off", "idle"}
                                /\ crawler'[c].url = crawler[c].url
                                /\ crawler'[c].attempts = crawler[c].attempts
  PROVE  CrawlInv'
<1>1. CrawlTypeOK'
  BY DEF CrawlInv, CrawlTypeOK
<1>2. \A c \in Crawlers : HoldsIts(c)'
  BY DEF CrawlInv, HoldsIts
<1>3. HeldOnce'
  BY DEF CrawlInv, HeldOnce
<1> QED
  BY <1>1, <1>2, <1>3 DEF CrawlInv

\* A crawler's call that changes the row of its URL alone: the crawler that
\* held it goes on or leaves it, another that held none takes it.
CallLeaves(c, u, row, f) ==
  /\ UNCHANGED frontier
  /\ urls' = [urls EXCEPT ![u] = row] /\ crawler' = [crawler EXCEPT ![c] = f]
  /\ row \in CrawlRow /\ AttemptLeft(row)
  /\ \A d \in Crawlers \ {c} : crawler[d].pc \notin {"off", "idle"} => crawler[d].url # u
  /\ \/ f.pc \in {"off", "idle"}
     \/ /\ f \in HoldsUrl /\ f.url = u
        /\ row.status \notin {"unknown", "queued"}
        /\ row.attempts = f.attempts + IF frontier = "postgres" THEN 0 ELSE 1

LEMMA CallKeeps ==
  ASSUME CrawlInv, NEW c \in Crawlers, NEW u \in Urls, NEW row, NEW f, CallLeaves(c, u, row, f)
  PROVE  CrawlInv'
<1>1. /\ urls'[u] = row /\ \A v \in Urls \ {u} : urls'[v] = urls[v]
      /\ crawler'[c] = f /\ \A d \in Crawlers \ {c} : crawler'[d] = crawler[d]
      /\ crawler' = [d \in Crawlers |-> crawler'[d]] /\ urls' \in [Urls -> CrawlRow]
  BY DEF CrawlInv, CrawlTypeOK, CallLeaves
<1>2. CrawlTypeOK'
  BY <1>1 DEF CrawlInv, CrawlTypeOK, CallLeaves
<1>3. \A d \in Crawlers : crawler[d].pc \notin {"off", "idle"} => crawler[d].url \in Urls
  BY DEF CrawlInv, CrawlTypeOK, HoldsUrl
<1>4. \A d \in Crawlers : HoldsIts(d)'
  BY <1>1, <1>3 DEF CrawlInv, HoldsIts, CallLeaves
<1>5. HeldOnce'
  BY <1>1 DEF CrawlInv, HeldOnce, CallLeaves
<1>6. \A v \in Urls : AttemptLeft(urls'[v])
  BY <1>1 DEF CrawlInv, CallLeaves
<1> QED
  BY <1>2, <1>4, <1>5, <1>6 DEF CrawlInv

LEMMA CrawlerHolds ==
  ASSUME CrawlInv, NEW c \in Crawlers, crawler[c].pc \notin {"off", "idle"}
  PROVE  /\ crawler[c] \in HoldsUrl /\ crawler[c].url \in Urls /\ crawler[c].attempts \in Nat
         /\ \A d \in Crawlers \ {c} : crawler[d].pc \notin {"off", "idle"} => crawler[d].url # crawler[c].url
BY DEF CrawlInv, CrawlTypeOK, HeldOnce, HoldsUrl

\* A crawler goes on with its row, or leaves it, and no row changes.
LEMMA CrawlerGoesOn ==
  ASSUME CrawlInv, UNCHANGED <<urls, frontier>>, NEW c \in Crawlers,
         NEW f, crawler' = [crawler EXCEPT ![c] = f],
         f.pc \in {"off", "idle"} \/
           (crawler[c].pc \notin {"off", "idle"} /\
            \E pc \in {"written", "recorded", "linked"} : f = [crawler[c] EXCEPT !.pc = pc])
  PROVE  CrawlInv'
<1>1. /\ crawler'[c] = f /\ \A d \in Crawlers \ {c} : crawler'[d] = crawler[d]
      /\ crawler' = [d \in Crawlers |-> crawler'[d]]
  BY DEF CrawlInv, CrawlTypeOK
<1>2. \A d \in Crawlers : crawler[d].pc \notin {"off", "idle"} => crawler[d] \in HoldsUrl
  BY CrawlerHolds
<1>3. f.pc \in {"off", "idle"} \/
        (f \in HoldsUrl /\ f.url = crawler[c].url /\ f.attempts = crawler[c].attempts)
  BY <1>2 DEF HoldsUrl
<1> QED
  BY <1>1, <1>2, <1>3, RowsRest

LEMMA MarkFailedKeeps ==
  ASSUME CrawlInv, NEW c \in Crawlers, crawler[c].pc \notin {"off", "idle"},
         NEW limit \in {0, RetryLimit}, MarkFailed(c, limit)
  PROVE  CrawlInv'
<1> USE CrawlAssumption
<1> DEFINE u == crawler[c].url
           row == [urls[u] EXCEPT !.status = AfterFailure(crawler[c].attempts, limit)]
           f == [pc |-> "idle"]
<1>1. RetryLimit \in Nat
  OBVIOUS
<1>2. u \in Urls /\ crawler[c].attempts \in Nat /\ urls[u] \in CrawlRow
  BY CrawlerHolds DEF CrawlInv, CrawlTypeOK
<1>3. AfterFailure(crawler[c].attempts, limit) \in {"failed", "queued"}
  BY DEF AfterFailure
<1>4. row \in CrawlRow /\ row.attempts = urls[u].attempts
      /\ row.status = AfterFailure(crawler[c].attempts, limit)
  BY <1>2, <1>3 DEF CrawlRow
<1>5. /\ urls[u].attempts \in Nat
      /\ urls[u].attempts = crawler[c].attempts \/ urls[u].attempts = crawler[c].attempts + 1
  BY <1>2 DEF CrawlInv, HoldsIts, CrawlRow
<1>6. row.status = "queued" => urls[u].attempts < RetryLimit
  BY <1>1, <1>2, <1>4, <1>5 DEF AfterFailure
<1>7. AttemptLeft(row)
  BY <1>2, <1>4, <1>6 DEF CrawlInv, AttemptLeft
<1>8. /\ urls' = [urls EXCEPT ![u] = row] /\ crawler' = [crawler EXCEPT ![c] = f]
      /\ UNCHANGED frontier
  BY <1>2 DEF MarkFailed, CrawlInv, CrawlTypeOK
<1>9. f.pc \in {"off", "idle"}
  OBVIOUS
<1>10. \A d \in Crawlers \ {c} : crawler[d].pc \notin {"off", "idle"} => crawler[d].url # u
  BY CrawlerHolds
<1>11. \/ f.pc \in {"off", "idle"}
       \/ /\ f \in HoldsUrl /\ f.url = u
          /\ row.status \notin {"unknown", "queued"}
          /\ row.attempts = f.attempts + IF frontier = "postgres" THEN 0 ELSE 1
  BY <1>9
<1>12. row \in CrawlRow
  BY <1>4
<1> HIDE DEF f, row, u
<1>13. CallLeaves(c, u, row, f)
  BY <1>2, <1>7, <1>8, <1>10, <1>11, <1>12 DEF CallLeaves
<1> QED
  BY <1>2, <1>13, CallKeeps

LEMMA MarkDoneKeeps ==
  ASSUME CrawlInv, NEW c \in Crawlers, crawler[c].pc \notin {"off", "idle"},
         NEW pc \in {"idle", "reporting"}, MarkDone(c, pc)
  PROVE  CrawlInv'
<1> DEFINE u == crawler[c].url
           row == [urls[u] EXCEPT !.status = "done"]
           f == [crawler[c] EXCEPT !.pc = pc]
<1>1. u \in Urls /\ crawler[c].attempts \in Nat /\ urls[u] \in CrawlRow /\ crawler[c] \in HoldsUrl
  BY CrawlerHolds DEF CrawlInv, CrawlTypeOK
<1>2. row \in CrawlRow /\ row.attempts = urls[u].attempts /\ row.status = "done"
  BY <1>1 DEF CrawlRow
<1>3. AttemptLeft(row)
  BY <1>1, <1>2 DEF CrawlInv, AttemptLeft
<1>4. f.pc = pc /\ f.url = u /\ f.attempts = crawler[c].attempts
  BY <1>1 DEF HoldsUrl
<1>5. f.pc = "idle" \/ f \in HoldsUrl
  BY <1>1 DEF HoldsUrl
<1>6. urls[u].attempts = crawler[c].attempts + IF frontier = "postgres" THEN 0 ELSE 1
  BY DEF CrawlInv, HoldsIts
<1>7. /\ urls' = [urls EXCEPT ![u] = row] /\ crawler' = [crawler EXCEPT ![c] = f]
      /\ UNCHANGED frontier
  BY <1>1 DEF MarkDone, CrawlInv, CrawlTypeOK
<1>8. \A d \in Crawlers \ {c} : crawler[d].pc \notin {"off", "idle"} => crawler[d].url # u
  BY CrawlerHolds
<1>9. row.attempts = f.attempts + IF frontier = "postgres" THEN 0 ELSE 1
  BY <1>2, <1>4, <1>6
<1>10. row.status \notin {"unknown", "queued"}
  BY <1>2
<1>11. f.pc \in {"off", "idle"} \/ f \in HoldsUrl
  BY <1>5
<1> HIDE DEF f, row, u
<1>12. CallLeaves(c, u, row, f)
  BY <1>1, <1>2, <1>3, <1>4, <1>7, <1>8, <1>9, <1>10, <1>11 DEF CallLeaves
<1> QED
  BY <1>1, <1>2, <1>12, CallKeeps

LEMMA CrawlStep ==
  ASSUME CrawlInv, [CrawlNext]_crawlVars
  PROVE  CrawlInv'
<1> USE CrawlAssumption
<1>1. ASSUME NEW p \in Processes, StartEngine(p) \/ EndRun(p) \/ RunFails(p)
      PROVE  CrawlInv'
  <2>1. /\ UNCHANGED <<urls, frontier>>
        /\ crawler' = crawler \/ crawler' = [c \in Crawlers |-> IF c \in Of(p) THEN Off ELSE crawler[c]]
    BY <1>1 DEF StartEngine, EndRun, RunFails
  <2>2. \A c \in Crawlers : crawler'[c] = crawler[c] \/ crawler'[c].pc = "off"
    BY <2>1 DEF Off
  <2>3. crawler' = [c \in Crawlers |-> crawler'[c]]
    BY <2>1 DEF CrawlInv, CrawlTypeOK
  <2> QED
    BY <2>1, <2>2, <2>3, RowsRest, CrawlerHolds
<1>2. ASSUME NEW p \in Processes, StartRun(p)
      PROVE  CrawlInv'
  <2>1. /\ urls' = Queue(Seeds, 0) /\ UNCHANGED frontier
        /\ crawler' = [c \in Crawlers |-> IF c \in Of(p) THEN [pc |-> "idle"] ELSE crawler[c]]
    BY <1>2 DEF StartRun, SeedUrls
  <2>2. \A c \in Crawlers : crawler'[c] = crawler[c] \/ crawler'[c].pc = "idle"
    BY <2>1
  <2>3. crawler' = [c \in Crawlers |-> crawler'[c]]
    BY <2>1 DEF CrawlInv, CrawlTypeOK
  <2> QED
    BY <2>1, <2>2, <2>3, QueueKeeps, CrawlerHolds
<1>3. ASSUME NEW c \in Crawlers, NEW u \in Urls, ClaimUrl(c, u)
      PROVE  CrawlInv'
  <2> DEFINE row == [urls[u] EXCEPT !.status = "in_progress", !.attempts = @ + 1]
             counted == urls[u].attempts + IF frontier = "postgres" THEN 1 ELSE 0
             f == [pc |-> "fetching", url |-> u, attempts |-> counted]
  <2>1. urls[u] \in CrawlRow /\ urls[u].status = "queued" /\ urls[u].attempts \in Nat /\ RetryLimit \in Nat
    BY <1>3 DEF ClaimUrl, CrawlInv, CrawlTypeOK, CrawlRow
  <2>2. row \in CrawlRow /\ row.attempts = urls[u].attempts + 1 /\ row.status = "in_progress"
    <3>1. urls[u].attempts + 1 \in Nat
      BY <2>1
    <3>2. row = [urls[u] EXCEPT !.status = "in_progress", !.attempts = urls[u].attempts + 1]
      BY <2>1 DEF CrawlRow
    <3> QED
      BY <2>1, <3>1, <3>2 DEF CrawlRow
  <2>3. AttemptLeft(row)
    BY <2>1, <2>2 DEF CrawlInv, AttemptLeft
  <2>4. f \in HoldsUrl /\ f.url = u /\ f.attempts = counted
    BY <2>1 DEF HoldsUrl
  <2>5. row.attempts = f.attempts + IF frontier = "postgres" THEN 0 ELSE 1
    BY <2>1, <2>2, <2>4
  <2>6. \A d \in Crawlers \ {c} : crawler[d].pc \notin {"off", "idle"} => crawler[d].url # u
    BY <2>1 DEF CrawlInv, HoldsIts
  <2>7. urls' = [urls EXCEPT ![u] = row] /\ crawler' = [crawler EXCEPT ![c] = f] /\ UNCHANGED frontier
    BY <1>3 DEF ClaimUrl, CrawlInv, CrawlTypeOK
  <2>8. row.status \notin {"unknown", "queued"}
    BY <2>2
  <2>9. \/ f.pc \in {"off", "idle"}
        \/ /\ f \in HoldsUrl /\ f.url = u
           /\ row.status \notin {"unknown", "queued"}
           /\ row.attempts = f.attempts + IF frontier = "postgres" THEN 0 ELSE 1
    BY <2>4, <2>5, <2>8
  <2>10. row \in CrawlRow
    BY <2>2
  <2> HIDE DEF f, row, counted
  <2>11. CallLeaves(c, u, row, f)
    BY <2>3, <2>6, <2>7, <2>9, <2>10 DEF CallLeaves
  <2> QED
    BY <2>11, CallKeeps
<1>4. ASSUME NEW c \in Crawlers, Return(c) \/ Reported(c)
      PROVE  CrawlInv'
  <2>1. PICK f \in {Off, [pc |-> "idle"]} : crawler' = [crawler EXCEPT ![c] = f]
    BY <1>4 DEF Return, Reported
  <2>2. f.pc \in {"off", "idle"} /\ UNCHANGED <<urls, frontier>>
    BY <1>4 DEF Return, Reported, Off
  <2> QED
    BY <2>1, <2>2, CrawlerGoesOn
<1>5. ASSUME NEW c \in Crawlers, Disallowed(c) \/ Fails(c)
      PROVE  CrawlInv'
  BY <1>5, MarkFailedKeeps DEF Disallowed, Fails, Holds
<1>6. ASSUME NEW c \in Crawlers, Unsupported(c) \/ FinishUrl(c)
      PROVE  CrawlInv'
  BY <1>6, MarkDoneKeeps DEF Unsupported, FinishUrl, Holds
<1>7. ASSUME NEW c \in Crawlers, WritePage(c) \/ RecordFetch(c)
      PROVE  CrawlInv'
  <2>1. /\ UNCHANGED <<urls, frontier>> /\ crawler[c].pc \notin {"off", "idle"}
        /\ \E pc \in {"written", "recorded"} :
             crawler' = [crawler EXCEPT ![c] = [crawler[c] EXCEPT !.pc = pc]]
    BY <1>7 DEF WritePage, RecordFetch, Holds, Reaches, CrawlInv, CrawlTypeOK
  <2> QED
    BY <2>1, CrawlerGoesOn
<1>8. ASSUME NEW c \in Crawlers, EnqueueDiscovered(c)
      PROVE  CrawlInv'
  <2> DEFINE f == [crawler[c] EXCEPT !.pc = "linked"]
             parent == urls[crawler[c].url]
  <2>1. /\ crawler' = [crawler EXCEPT ![c] = f] /\ UNCHANGED frontier
        /\ crawler[c].pc \notin {"off", "idle"}
    BY <1>8 DEF EnqueueDiscovered, Holds, Reaches, CrawlInv, CrawlTypeOK
  <2>2. crawler[c] \in HoldsUrl /\ crawler[c].url \in Urls
    BY <2>1, CrawlerHolds
  <2>3. parent \in CrawlRow /\ parent.depth + 1 \in Nat
    BY <2>2 DEF CrawlInv, CrawlTypeOK, CrawlRow
  <2>4. f \in HoldsUrl /\ f.url = crawler[c].url /\ f.attempts = crawler[c].attempts
    BY <2>2 DEF HoldsUrl
  <2>5. urls' = urls \/ urls' = Queue(Links[crawler[c].url], parent.depth + 1)
    BY <1>8 DEF EnqueueDiscovered
  <2>6. /\ crawler'[c] = f /\ \A d \in Crawlers \ {c} : crawler'[d] = crawler[d]
        /\ crawler' = [d \in Crawlers |-> crawler'[d]]
    BY <2>1 DEF CrawlInv, CrawlTypeOK
  <2> HIDE DEF f, parent
  <2>7. \A d \in Crawlers : \/ crawler'[d].pc \in {"off", "idle"}
                            \/ /\ crawler'[d] \in HoldsUrl
                               /\ crawler[d].pc \notin {"off", "idle"}
                               /\ crawler'[d].url = crawler[d].url
                               /\ crawler'[d].attempts = crawler[d].attempts
    BY <2>1, <2>4, <2>6, CrawlerHolds
  <2> QED
    BY <2>1, <2>3, <2>5, <2>6, <2>7, QueueKeeps, RowsRest
<1>9. CASE UNCHANGED crawlVars
  BY <1>9 DEF crawlVars, CrawlInv, CrawlTypeOK, HoldsIts, HeldOnce
<1> QED
  BY <1>1, <1>2, <1>3, <1>4, <1>5, <1>6, <1>7, <1>8, <1>9 DEF CrawlNext

\* No row is fetched more often than the retries allow, in all the runs of all
\* the processes that share the frontier (mark_failed, claim).
THEOREM RetriesEnd == CrawlSpec => []FetchesWithinLimit
<1>1. CrawlInv => FetchesWithinLimit
  BY DEF CrawlInv, AttemptLeft, FetchesWithinLimit
<1> QED
  BY <1>1, CrawlStarts, CrawlStep, PTL DEF CrawlSpec
=============================================================================
