---------------------------- MODULE DatasetReview ----------------------------
(***************************************************************************)
(* The review of dataset records (learning/dataset_authority.py), as the   *)
(* gateway's /v1/data/reviews endpoints and the command line use it: items *)
(* are enqueued, claimed under a lease, decided by one reviewer or by two, *)
(* and adjudicated when the two disagree.                                  *)
(*                                                                         *)
(* Each operation is one transaction of its store, SQLite or Postgres; one *)
(* that raises rolls back and changes nothing.  The version of an item,    *)
(* which every update of its row increments, is left out.                  *)
(***************************************************************************)
EXTENDS Naturals

CONSTANTS Items, Reviewers,
  Adjudicators,    \* who may adjudicate; reviewers may be among them
  Stores           \* subset of {"sqlite", "postgres"}

ASSUME ReviewAssumption == Stores \subseteq {"sqlite", "postgres"}

VARIABLES
  backend,         \* the backend of this deployment
  review,          \* the status and the value of each item
  assignments,     \* rows of dataset_review_assignments, by item
  votes,           \* dataset_review_decisions: the decision of each reviewer
  adjudication,    \* dataset_review_adjudications
  seen             \* history: who was shown another reviewer's decision

reviewVars == <<backend, review, assignments, votes, adjudication, seen>>

Verdicts == {"approve", "reject"}
Judged == {"approved", "rejected"}
\* Statuses in which everybody is shown the decisions.
Shown == Judged \union {"adjudication_required"}

Review(status, high) == [status |-> status, high |-> high]
Assignment(r, slot, submitted, lapsed) ==
  [reviewer |-> r, slot |-> slot, submitted |-> submitted, lapsed |-> lapsed]
Required(high) == IF high THEN {1, 2} ELSE {1}

ReviewInit ==
  /\ backend \in Stores
  /\ review = [i \in Items |-> Review("absent", FALSE)]
  /\ assignments = [i \in Items |-> {}]
  /\ votes = [i \in Items |-> [r \in Reviewers |-> "none"]]
  /\ adjudication = [i \in Items |-> "none"]
  /\ seen = [i \in Items |-> {}]

Verdict(decision) == IF decision = "approve" THEN "approved" ELSE "rejected"

\* _status_from_decisions
StatusFromDecisions(high, given) ==
  LET voters == {r \in Reviewers : given[r] # "none"}
      enough == voters # {} /\ (high => \E r, q \in voters : r # q)
      first == CHOOSE v \in Verdicts : \E r \in voters : given[r] = v
  IN  IF ~enough THEN "in_review"
      ELSE IF \E r, q \in voters : given[r] # given[q] THEN "adjudication_required"
      ELSE Verdict(first)

\* Who has seen a decision of another once r is answered with a view of the
\* item, whose status and decisions are these.
Shows(i, r, status, given) ==
  IF /\ r \in Reviewers /\ status \in Shown
     /\ \E q \in Reviewers \ {r} : given[q] # "none"
  THEN seen[i] \union {r} ELSE seen[i]

\* A record that was enqueued before keeps its row, and with it its value.
Enqueue(i, high) ==
  /\ review[i].status = "absent"
  /\ review' = [review EXCEPT ![i] = Review("pending", high)]
  /\ UNCHANGED <<backend, assignments, votes, adjudication, seen>>

\* Time passes the expires_at of a row.
LapseReview(i) ==
  /\ \E a \in assignments[i] :
       /\ ~a.lapsed
       /\ assignments' = [assignments EXCEPT
            ![i] = (@ \ {a}) \union {[a EXCEPT !.lapsed = TRUE]}]
  /\ UNCHANGED <<backend, review, votes, adjudication, seen>>

\* Mutant: without status='claimed'.
SweptAny(a) == a.lapsed
\* What a claim deletes: SQLite sweeps every item.
Swept(a) == ~a.submitted /\ a.lapsed
Kept(rows) == {a \in rows : ~Swept(a)}

ClaimReview(i, r) ==
  LET kept == Kept(assignments[i])
      free == Required(review[i].high) \ {a.slot : a \in kept}
  IN  /\ review[i].status # "absent"
      /\ backend = "sqlite" => review[i].status \notin Judged
      /\ \A a \in kept : a.reviewer # r
      /\ free # {}
      /\ \E slot \in free :
           /\ \A other \in free : slot <= other
           /\ assignments' = [j \in Items |->
                IF j = i THEN kept \union {Assignment(r, slot, FALSE, FALSE)}
                ELSE IF backend = "sqlite" THEN Kept(assignments[j])
                ELSE assignments[j]]
      /\ review' = [review EXCEPT ![i].status = "in_review"]
      /\ UNCHANGED <<backend, votes, adjudication, seen>>

Decide(i, r, verdict) ==
  LET given == [votes[i] EXCEPT ![r] = verdict]
      status == StatusFromDecisions(review[i].high, given)
  IN  /\ votes[i][r] = "none"
      /\ \E a \in assignments[i] :
           /\ a.reviewer = r /\ ~a.submitted /\ ~a.lapsed
           /\ assignments' = [assignments EXCEPT
                ![i] = (@ \ {a}) \union {[a EXCEPT !.submitted = TRUE]}]
      /\ votes' = [votes EXCEPT ![i] = given]
      /\ review' = [review EXCEPT ![i].status = status]
      /\ seen' = [seen EXCEPT ![i] = Shows(i, r, status, given)]
      /\ UNCHANGED <<backend, adjudication>>

Adjudicate(i, r, verdict) ==
  /\ review[i].status = "adjudication_required"
  /\ r \in Reviewers => votes[i][r] = "none"
  /\ adjudication[i] = "none"
  /\ adjudication' = [adjudication EXCEPT ![i] = verdict]
  /\ review' = [review EXCEPT ![i].status = Verdict(verdict)]
  /\ seen' = [seen EXCEPT ![i] = Shows(i, r, Verdict(verdict), votes[i])]
  /\ UNCHANGED <<backend, assignments, votes>>

\* list_items and get_item, for the one who asks.
View(i, r) ==
  /\ r \notin seen[i]
  /\ seen' = [seen EXCEPT ![i] = Shows(i, r, review[i].status, votes[i])]
  /\ UNCHANGED <<backend, review, assignments, votes, adjudication>>

ReviewNext ==
  \E i \in Items :
    \/ \E high \in BOOLEAN : Enqueue(i, high)
    \/ LapseReview(i)
    \/ \E r \in Reviewers :
         \/ ClaimReview(i, r)
         \/ View(i, r)
         \/ \E v \in Verdicts : Decide(i, r, v)
    \/ \E r \in Adjudicators, v \in Verdicts : Adjudicate(i, r, v)

ReviewSpec == ReviewInit /\ [][ReviewNext]_reviewVars
------------------------------------------------------------------------------
ReviewTypeOK ==
  /\ backend \in Stores
  /\ review \in [Items -> [status : Shown \union {"absent", "pending", "in_review"},
                           high : BOOLEAN]]
  /\ assignments \in
       [Items -> SUBSET [reviewer : Reviewers, slot : {1, 2},
                         submitted : BOOLEAN, lapsed : BOOLEAN]]
  /\ votes \in [Items -> [Reviewers -> Verdicts \union {"none"}]]
  /\ adjudication \in [Items -> Verdicts \union {"none"}]
  /\ seen \in [Items -> SUBSET Reviewers]

(* Reviews are independent: nobody holds an open claim of an item who was    *)
(* shown a decision of another reviewer of it, whatever leases lapse and     *)
(* whoever looks, claims and decides in between (_terminal_or_visible of     *)
(* dataset_authority.py and the slots that claim hands out).                 *)
ReviewsAreBlind ==
  \A i \in Items : \A a \in assignments[i] : ~a.submitted => a.reviewer \notin seen[i]

(* An approved or rejected item stays so, with the decisions that made it    *)
(* so, though Postgres's claim does not look at the status of an item.       *)
VerdictStands ==
  [][\A i \in Items : review[i].status \in Judged =>
       /\ review'[i] = review[i] /\ votes'[i] = votes[i]
       /\ adjudication'[i] = adjudication[i]]_reviewVars
==============================================================================
