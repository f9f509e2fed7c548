------------------------- MODULE TeamIntegrationProofs -------------------------
(***************************************************************************)
(* Theorems about TeamIntegration for every team, task graph, file scope    *)
(* and number of requests, whether requests overlap or not.                *)
(*                                                                         *)
(* The argument follows the candidates: a set A that holds every candidate  *)
(* the branch, the index, the plans and the requests mention goes on        *)
(* holding them as long as it holds the accepted ones.  With A = Candidate  *)
(* this is type correctness, with A = Vetted it is ReviewedOnly, and with   *)
(* A = Filed it says that what a plan was found ready for stays true.       *)
(*                                                                         *)
(* The second half is about requests that do not overlap: SerialInv tells   *)
(* what is on the branch from the step of the one request at work, and      *)
(* gives the atomicity of an integration.  Last, the recursive depth of a   *)
(* task is shown to exist and to grow along dependencies.                  *)
(***************************************************************************)
EXTENDS TeamIntegration, FiniteSetTheorems, SequenceTheorems, WellFoundedInduction, TLAPS

(* The candidates a member other than the author has approved.             *)
Vetted == {c \in Candidate : \E m \in review[c].approvers : m # Author[c]}

CommitOf(A) == [by : Request \cup {NoRequest}, patches : SUBSET A]
BranchOf(A) == Seq(CommitOf(A))
ListOf(A) == Seq(A)
PlanOf(A) == [status : PlanStatus, base : BranchOf(A), cands : ListOf(A)]
RequestOf(A) == [step : Step, plan : Request \cup {NoRequest}, todo : ListOf(A),
                 ends : {"none", "failed", "rolled-back"}]

(* Nothing outside A is on its way to the branch.                          *)
Within(A) ==
    /\ head \in BranchOf(A)
    /\ index \subseteq A
    /\ plan \in [Request -> PlanOf(A)]
    /\ req \in [Request -> RequestOf(A)]

Records ==
    /\ cand \in [Candidate -> [status : CandidateStatus, base : Seq(Commit), files : SUBSET File]]
    /\ review \in [Candidate -> [approvers : SUBSET Member, blocking : BOOLEAN]]

Accepted == {c \in Candidate : cand[c].status = "approved"}

(* A request past its start works on a plan that was prepared, and has a    *)
(* patch in hand while it applies and commits.                             *)
Prepared(p) == plan[p].status # "none" => plan[p].cands # <<>>
HasPlan(r) == req[r].step \notin {"new", "preparing", "done"} =>
                  req[r].plan \in Request /\ plan[req[r].plan].cands # <<>>
HasPatch(r) == req[r].step \in {"preparing", "applying", "committing"} => req[r].todo # <<>>
InHand == \A r \in Request : Prepared(r) /\ HasPlan(r) /\ HasPatch(r)

(* The inductive invariant.                                                *)
IInv == Records /\ InHand /\ Within(Candidate) /\ Within(Vetted) /\ Accepted \subseteq Vetted

-----------------------------------------------------------------------------
USE CandidateAssumption, AuthorAssumption, TaskAssumption, RequestAssumption

(* Ordered returns sequences of the candidates it is given, none if empty.  *)
LEMMA OrderedType ==
    ASSUME NEW A \in SUBSET Candidate, NEW S \in SUBSET A, S # {}, NEW s \in Ordered(S)
    PROVE  s \in ListOf(A) /\ s # <<>>
<1>1. IsFiniteSet(S) /\ Cardinality(S) \in Nat
  BY FS_Subset, FS_CardinalityType
<1>2. Cardinality(S) # 0
  BY <1>1, FS_EmptySet
<1>3. s \in [1..Cardinality(S) -> S]
  BY DEF Ordered
<1> QED
  BY <1>1, <1>2, <1>3 DEF ListOf

(* Adding a commit of vetted patches keeps a branch of vetted patches.      *)
LEMMA AppendType ==
    ASSUME NEW A, NEW h \in BranchOf(A), NEW b \in Request \cup {NoRequest},
           NEW P \in SUBSET A
    PROVE  Append(h, [by |-> b, patches |-> P]) \in BranchOf(A)
<1>1. [by |-> b, patches |-> P] \in CommitOf(A)
  BY DEF CommitOf
<1> QED
  BY <1>1 DEF BranchOf

(* The patch in hand, and those left after it.                             *)
LEMMA HeadTailType ==
    ASSUME NEW A, NEW s \in ListOf(A), s # <<>>
    PROVE  Head(s) \in A /\ Tail(s) \in ListOf(A)
BY HeadTailProperties DEF ListOf

(* A list that is not the last patch alone has a tail.                     *)
LEMMA LongTail ==
    ASSUME NEW A, NEW s \in ListOf(A), s # <<>>, Len(s) # 1
    PROVE  Tail(s) # <<>>
<1>1. s \in Seq(A)
  BY DEF ListOf
<1>2. Len(s) \in Nat \ {0} /\ Len(Tail(s)) = Len(s) - 1
  BY <1>1, HeadTailProperties, EmptySeq
<1>3. Len(Tail(s)) # 0
  BY <1>2
<1> QED
  BY <1>3, EmptySeq

(* Within is monotone in its set, in the next state as in this one.         *)
LEMMA WithinMonotone ==
    ASSUME NEW A, NEW B, A \subseteq B
    PROVE  /\ Within(A) => Within(B)
           /\ Within(A)' => Within(B)'
<1>1. CommitOf(A) \subseteq CommitOf(B)
  BY DEF CommitOf
<1>2. ListOf(A) \subseteq ListOf(B) /\ BranchOf(A) \subseteq BranchOf(B)
  BY <1>1 DEF ListOf, BranchOf
<1>3. PlanOf(A) \subseteq PlanOf(B) /\ RequestOf(A) \subseteq RequestOf(B)
  BY <1>2 DEF PlanOf, RequestOf
<1>4. Within(A) => Within(B)
  BY <1>2, <1>3 DEF Within
<1>5. Within(A)' => Within(B)'
  BY <1>2, <1>3 DEF Within
<1> QED
  BY <1>4, <1>5

(* A set that holds the accepted candidates and all that is on its way to   *)
(* the branch still holds the latter after any step.                       *)
LEMMA WithinStep ==
    ASSUME NEW A \in SUBSET Candidate, Within(A), InHand, Accepted \subseteq A, [Next]_vars
    PROVE  Within(A)'
<1> USE DEF Within, PlanOf, RequestOf
<1>0. /\ {"preparing", "checking", "applying", "committing", "validating", "undoing", "undone",
          "done"} \subseteq Step
      /\ {"preparing", "ready", "executing", "succeeded", "failed", "rolled-back", "none"}
            \subseteq PlanStatus
  BY DEF Step, PlanStatus
<1>1. \A r \in Request : /\ req[r].step \in Step /\ req[r].todo \in ListOf(A)
                         /\ plan[r].base \in BranchOf(A) /\ plan[r].cands \in ListOf(A)
  OBVIOUS
<1>2. ASSUME NEW c \in Candidate,
             \/ OpenWorkspace(c) \/ StartSubmit(c) \/ Submit(c) \/ Accept(c) \/ Reject(c)
             \/ \E m \in Member : Review(c, m)
      PROVE  Within(A)'
  BY <1>2, ZenonT(30) DEF OpenWorkspace, StartSubmit, Submit, Accept, Reject, Review
<1>3. ASSUME NEW r \in Request, StartPrepare(r)
      PROVE  Within(A)'
  <2>1. PICK S \in SUBSET Accepted : S # {} /\ \E order \in Ordered(S) :
              req' = [req EXCEPT ![r] = [@ EXCEPT !.step = "preparing", !.todo = order]]
    BY <1>3, ZenonT(30) DEF StartPrepare, Accepted
  <2>2. PICK order \in Ordered(S) :
              req' = [req EXCEPT ![r] = [@ EXCEPT !.step = "preparing", !.todo = order]]
    BY <2>1, ZenonT(30)
  <2>3. order \in ListOf(A)
    BY <2>1, OrderedType
  <2>4. req' \in [Request -> RequestOf(A)]
    BY <1>0, <2>2, <2>3, ZenonT(30)
  <2> QED
    BY <1>3, <2>4 DEF StartPrepare
<1>4. ASSUME NEW r \in Request, Prepare(r)
      PROVE  Within(A)'
  <2> DEFINE s == IF Blocking({req[r].todo[i] : i \in DOMAIN req[r].todo})
                  THEN "preparing" ELSE "ready"
  <2>1. s \in PlanStatus
    BY DEF PlanStatus
  <2>2. plan' = [plan EXCEPT ![r] = [status |-> s, base |-> head, cands |-> req[r].todo]]
    BY <1>4 DEF Prepare
  <2> HIDE DEF s
  <2>3. plan' \in [Request -> PlanOf(A)]
    BY <1>1, <2>1, <2>2
  <2>4. req' = [req EXCEPT ![r] = [@ EXCEPT !.step = "done", !.todo = <<>>]]
    BY <1>4 DEF Prepare
  <2>5. <<>> \in ListOf(A)
    BY DEF ListOf
  <2>6. req' \in [Request -> RequestOf(A)]
    BY <1>0, <2>4, <2>5, ZenonT(30)
  <2> QED
    BY <1>4, <2>3, <2>6 DEF Prepare
<1>5. ASSUME NEW r \in Request, NEW p \in Request, StartExecute(r, p)
      PROVE  Within(A)'
  <2>1. req' \in [Request -> RequestOf(A)]
    BY <1>0, <1>5 DEF StartExecute
  <2> QED
    BY <1>5, <2>1 DEF StartExecute
<1>6. ASSUME NEW r \in Request, NEW p \in Request, StartRollback(r, p)
      PROVE  Within(A)'
  <2>1. req' \in [Request -> RequestOf(A)]
    BY <1>0, <1>6, ZenonT(30) DEF StartRollback
  <2> QED
    BY <1>6, <2>1 DEF StartRollback
<1>7. ASSUME NEW r \in Request, Check(r)
      PROVE  Within(A)'
  <2>1. req[r].plan \in Request
    BY <1>7 DEF Check, InHand, HasPlan
  <2>2. PICK x \in ListOf(A) : x = plan[req[r].plan].cands
    BY <1>1, <2>1
  <2>3. \/ req' = [req EXCEPT ![r] = [@ EXCEPT !.step = "applying", !.todo = x]]
        \/ req' = [req EXCEPT ![r].step = "done"]
    BY <1>7, <2>2 DEF Check
  <2>4. req' \in [Request -> RequestOf(A)]
    <3>1. CASE req' = [req EXCEPT ![r] = [@ EXCEPT !.step = "applying", !.todo = x]]
      BY <1>0, <2>2, <3>1, ZenonT(30)
    <3>2. CASE req' = [req EXCEPT ![r].step = "done"]
      BY <1>0, <3>2, ZenonT(30)
    <3> QED
      BY <2>3, <3>1, <3>2
  <2>5. PICK p \in Request : p = req[r].plan
    BY <2>1
  <2>6. PICK s \in PlanStatus : plan' = [plan EXCEPT ![p].status = s]
    BY <1>0, <1>7, <2>5 DEF Check
  <2>7. plan' \in [Request -> PlanOf(A)]
    BY <2>5, <2>6
  <2> QED
    BY <1>7, <2>4, <2>7 DEF Check
<1>8. ASSUME NEW r \in Request, GiveUp(r)
      PROVE  req' \in [Request -> RequestOf(A)]
  <2>1. <<>> \in ListOf(A)
    BY DEF ListOf
  <2> QED
    BY <1>0, <1>8, <2>1, ZenonT(30) DEF GiveUp
<1>9. ASSUME NEW r \in Request, Apply(r)
      PROVE  Within(A)'
  <2>1. req[r].todo # <<>>
    BY <1>9 DEF Apply, InHand, HasPatch
  <2>2. Head(req[r].todo) \in A
    BY <1>1, <2>1, HeadTailType
  <2>3. index' \subseteq A
    BY <1>9, <2>2 DEF Apply
  <2>4. req' \in [Request -> RequestOf(A)]
    <3>1. CASE req' = [req EXCEPT ![r].step = "committing"]
      BY <1>0, <3>1, ZenonT(30)
    <3>2. CASE GiveUp(r)
      BY <1>8, <3>2
    <3> QED
      BY <1>9, <3>1, <3>2 DEF Apply
  <2> QED
    BY <1>9, <2>3, <2>4 DEF Apply
<1>10. ASSUME NEW r \in Request, CommitPatch(r)
       PROVE  Within(A)'
  <2>1. req[r].todo # <<>>
    BY <1>10 DEF CommitPatch, InHand, HasPatch
  <2>2. PICK x \in ListOf(A) : x = Tail(req[r].todo)
    BY <1>1, <2>1, HeadTailType
  <2>3. Append(head, [by |-> r, patches |-> index]) \in BranchOf(A)
    BY AppendType
  <2>4. head' \in BranchOf(A) /\ index' \subseteq A
    BY <1>10, <2>3 DEF CommitPatch
  <2>5. PICK s \in Step : s = IF Len(req[r].todo) = 1 THEN "validating" ELSE "applying"
    BY <1>0
  <2>6. GiveUp(r) \/ req' = [req EXCEPT ![r] = [@ EXCEPT !.step = s, !.todo = x]]
    BY <1>10, <2>2, <2>5 DEF CommitPatch
  <2>7. req' \in [Request -> RequestOf(A)]
    <3>1. CASE req' = [req EXCEPT ![r] = [@ EXCEPT !.step = s, !.todo = x]]
      <4>1. x \in ListOf(A) /\ s \in Step
        BY <2>2, <2>5
      <4> QED
        BY <3>1, <4>1, ZenonT(30)
    <3>2. CASE GiveUp(r)
      BY <1>8, <3>2
    <3> QED
      BY <2>6, <3>1, <3>2
  <2> QED
    BY <1>10, <2>4, <2>7 DEF CommitPatch
<1>11. ASSUME NEW r \in Request, Validate(r)
       PROVE  Within(A)'
  <2>1. req[r].plan \in Request
    BY <1>11 DEF Validate, InHand, HasPlan
  <2>2. plan' \in [Request -> PlanOf(A)]
    <3>1. CASE plan' = [plan EXCEPT ![req[r].plan].status = "succeeded"]
      BY <1>0, <2>1, <3>1
    <3>2. CASE UNCHANGED plan
      BY <3>2
    <3> QED
      BY <1>11, <3>1, <3>2 DEF Validate
  <2>3. req' \in [Request -> RequestOf(A)]
    <3>1. CASE req' = [req EXCEPT ![r].step = "done"]
      BY <1>0, <3>1, ZenonT(30)
    <3> QED
      BY <1>8, <1>11, <3>1 DEF Validate
  <2> QED
    BY <1>11, <2>2, <2>3 DEF Validate
<1>12. ASSUME NEW r \in Request, Reset(r)
       PROVE  Within(A)'
  <2>1. req[r].plan \in Request
    BY <1>12 DEF Reset, InHand, HasPlan
  <2>2. req' \in [Request -> RequestOf(A)]
    BY <1>0, <1>12 DEF Reset
  <2> QED
    BY <1>1, <1>12, <2>1, <2>2 DEF Reset
<1>13. ASSUME NEW r \in Request, Close(r)
       PROVE  Within(A)'
  <2>1. req[r].plan \in Request
    BY <1>13 DEF Close, InHand, HasPlan
  <2>2. req[r].ends \in PlanStatus
    BY <1>0
  <2>3. plan' \in [Request -> PlanOf(A)]
    BY <1>13, <2>1, <2>2 DEF Close
  <2>4. req' \in [Request -> RequestOf(A)]
    BY <1>0, <1>13 DEF Close
  <2> QED
    BY <1>13, <2>3, <2>4 DEF Close
<1>14. CASE Push
  BY <1>14, AppendType DEF Push
<1>15. CASE UNCHANGED vars
  BY <1>15 DEF vars
<1> QED
  BY <1>2, <1>3, <1>4, <1>5, <1>6, <1>7, <1>9, <1>10, <1>11, <1>12, <1>13, <1>14, <1>15
     DEF Next

(* No step takes an approval back.                                         *)
LEMMA VettedGrows ==
    ASSUME Records, [Next]_vars
    PROVE  Vetted \subseteq Vetted'
<1>1. ASSUME NEW c \in Candidate, NEW m \in Member, Review(c, m)
      PROVE  Vetted \subseteq Vetted'
  <2>1. \A d \in Candidate : review[d].approvers \subseteq review'[d].approvers
    BY <1>1 DEF Review, Records
  <2> QED
    BY <2>1 DEF Vetted
<1>2. CASE UNCHANGED review
  BY <1>2 DEF Vetted
<1>3. (\E c \in Candidate, m \in Member : Review(c, m)) \/ UNCHANGED review
  BY ZenonT(30) DEF Next, vars, OpenWorkspace, StartSubmit, Submit, Accept, Reject,
     StartPrepare, Prepare, StartExecute, StartRollback, Check, Apply, CommitPatch,
     Validate, Reset, Close, Push
<1> QED
  BY <1>1, <1>2, <1>3

(* A candidate is accepted only while an approval stands, and approvals     *)
(* are never taken back, so that what is accepted stays vetted.            *)
LEMMA AcceptedVetted ==
    ASSUME Records, Accepted \subseteq Vetted, [Next]_vars
    PROVE  (Accepted \subseteq Vetted)'
<1>1. \A c \in Candidate : cand'[c].status = "approved" => cand[c].status = "approved" \/ Accept(c)
  <2> SUFFICES ASSUME NEW c \in Candidate, cand'[c].status = "approved"
               PROVE  cand[c].status = "approved" \/ Accept(c)
    OBVIOUS
  <2>1. cand[c] \in [status : CandidateStatus, base : Seq(Commit), files : SUBSET File]
    BY DEF Records
  <2>2. ASSUME NEW d \in Candidate, Submit(d)
        PROVE  cand[c].status = "approved"
    <3>1. PICK files \in SUBSET File : cand' = [cand EXCEPT ![d] = [@ EXCEPT
                !.status = IF files = {} THEN "open" ELSE "submitted", !.files = files]]
      BY <2>2, ChangesAssumption, ZenonT(30) DEF Submit
    <3>2. PICK s : s # "approved" /\ s = IF files = {} THEN "open" ELSE "submitted"
      OBVIOUS
    <3>3. cand' = [cand EXCEPT ![d] = [@ EXCEPT !.status = s, !.files = files]]
      BY <3>1, <3>2
    <3>4. cand'[c] = IF c = d THEN [cand[c] EXCEPT !.status = s, !.files = files] ELSE cand[c]
      BY <3>3 DEF Records
    <3>5. [cand[c] EXCEPT !.status = s, !.files = files].status = s
      BY <2>1
    <3> QED
      BY <3>2, <3>4, <3>5
  <2>3. ASSUME NEW d \in Candidate, OpenWorkspace(d)
        PROVE  cand[c].status = "approved"
    <3>1. cand'[c] = IF c = d THEN [cand[c] EXCEPT !.status = "open", !.base = head] ELSE cand[c]
      BY <2>3 DEF OpenWorkspace, Records
    <3>2. [cand[c] EXCEPT !.status = "open", !.base = head].status = "open"
      BY <2>1
    <3> QED
      BY <3>1, <3>2
  <2>4. ASSUME NEW d \in Candidate,
               StartSubmit(d) \/ Reject(d) \/ \E m \in Member : Review(d, m)
        PROVE  cand[c].status = "approved"
    <3>1. PICK s : s # "approved" /\ cand' = [cand EXCEPT ![d].status = s]
      BY <2>4 DEF StartSubmit, Reject, Review
    <3> QED
      BY <3>1 DEF Records
  <2>5. ASSUME NEW d \in Candidate, Accept(d)
        PROVE  cand[c].status = "approved" \/ Accept(c)
    BY <2>5 DEF Records, Accept
  <2>6. ASSUME NEW r \in Request, Validate(r)
        PROVE  cand[c].status = "approved"
    <3>1. \/ cand'[c] = cand[c]
          \/ cand'[c] = [cand[c] EXCEPT !.status = "integrated"]
      BY <2>6 DEF Validate
    <3>2. [cand[c] EXCEPT !.status = "integrated"].status = "integrated"
      BY <2>1
    <3> QED
      BY <3>1, <3>2
  <2>7. CASE UNCHANGED cand
    BY <2>7
  <2> QED
    BY <2>2, <2>3, <2>4, <2>5, <2>6, <2>7, ZenonT(30) DEF Next, vars, StartPrepare,
       Prepare, StartExecute, StartRollback, Check, Apply, CommitPatch, Reset, Close,
       Push
<1>2. \A c \in Candidate : Accept(c) => c \in Vetted
  BY DEF Accept, IndependentlyApproved, Vetted
<1>3. Accepted' \subseteq Vetted
  BY <1>1, <1>2 DEF Accepted
<1> QED
  BY <1>3, VettedGrows

(* The records of candidates and reviews keep their types.                 *)
LEMMA RecordsStep ==
    ASSUME Records, Within(Candidate), [Next]_vars
    PROVE  Records'
<1>1. /\ {"open", "submitting", "submitted", "under-review", "approved", "rejected",
          "integrated"} \subseteq CandidateStatus
      /\ head \in Seq(Commit)
  BY DEF CandidateStatus, Within, BranchOf, CommitOf, Commit
<1> DEFINE B == Seq(Commit)
           C == [status : CandidateStatus, base : B, files : SUBSET File]
<1>2. cand \in [Candidate -> C] /\ head \in B
  BY <1>1 DEF Records
<1> HIDE DEF B
<1>3. ASSUME NEW c \in Candidate, OpenWorkspace(c) \/ StartSubmit(c) \/ Accept(c) \/ Reject(c)
      PROVE  cand' \in [Candidate -> C]
  <2>1. CASE OpenWorkspace(c)
    BY <1>1, <1>2, <2>1 DEF OpenWorkspace
  <2>2. CASE StartSubmit(c) \/ Accept(c) \/ Reject(c)
    <3>1. PICK s \in CandidateStatus : cand' = [cand EXCEPT ![c].status = s]
      BY <1>1, <2>2 DEF StartSubmit, Accept, Reject
    <3> QED
      BY <1>2, <3>1
  <2> QED
    BY <1>3, <2>1, <2>2
<1>4. ASSUME NEW c \in Candidate, Submit(c)
      PROVE  cand' \in [Candidate -> C]
  <2>1. PICK files \in SUBSET File : cand' = [cand EXCEPT ![c] = [@ EXCEPT
              !.status = IF files = {} THEN "open" ELSE "submitted", !.files = files]]
    BY <1>4, ChangesAssumption, ZenonT(30) DEF Submit
  <2>2. PICK s \in CandidateStatus : s = IF files = {} THEN "open" ELSE "submitted"
    BY <1>1
  <2>3. cand' = [cand EXCEPT ![c] = [@ EXCEPT !.status = s, !.files = files]]
    BY <2>1, <2>2
  <2> QED
    BY <1>2, <2>3, ZenonT(30)
<1>5. ASSUME NEW c \in Candidate, NEW m \in Member, Review(c, m)
      PROVE  cand' \in [Candidate -> C]
  BY <1>1, <1>2, <1>5 DEF Review
<1>6. ASSUME NEW c \in Candidate, NEW m \in Member, Review(c, m)
      PROVE  review' \in [Candidate -> [approvers : SUBSET Member, blocking : BOOLEAN]]
  <2>1. PICK a \in BOOLEAN, b \in BOOLEAN : review' = [review EXCEPT ![c] =
              [approvers |-> IF a THEN @.approvers \cup {m} ELSE @.approvers,
               blocking |-> @.blocking \/ b]]
    BY <1>6 DEF Review
  <2>2. review[c].approvers \in SUBSET Member
    BY DEF Records
  <2>3. PICK s \in SUBSET Member :
              s = IF a THEN review[c].approvers \cup {m} ELSE review[c].approvers
    BY <2>2
  <2>4. PICK k \in BOOLEAN : k = (review[c].blocking \/ b)
    OBVIOUS
  <2>5. review' = [review EXCEPT ![c] = [approvers |-> s, blocking |-> k]]
    BY <2>1, <2>3, <2>4
  <2> QED
    BY <2>5 DEF Records
<1>7. ASSUME NEW r \in Request, Validate(r)
      PROVE  cand' \in [Candidate -> C]
  <2>1. CASE UNCHANGED cand
    BY <1>2, <2>1
  <2>2. CASE ~UNCHANGED cand
    <3>1. cand' = [c \in Candidate |->
                     IF \E i \in DOMAIN plan[req[r].plan].cands : plan[req[r].plan].cands[i] = c
                     THEN [cand[c] EXCEPT !.status = "integrated"] ELSE cand[c]]
      BY <1>7, <2>2 DEF Validate
    <3>2. \A c \in Candidate : [cand[c] EXCEPT !.status = "integrated"] \in C
      BY <1>1, <1>2
    <3> HIDE DEF C
    <3> QED
      BY <1>2, <3>1, <3>2
  <2> QED
    BY <2>1, <2>2
<1>8. cand' \in [Candidate -> C]
  BY <1>2, <1>3, <1>4, <1>5, <1>7, ZenonT(30) DEF Next, vars, StartPrepare, Prepare,
     StartExecute, StartRollback, Check, Apply, CommitPatch, Reset, Close, Push
<1>9. UNCHANGED review \/ \E c \in Candidate, m \in Member : Review(c, m)
  BY ZenonT(30) DEF Next, vars, OpenWorkspace, StartSubmit, Submit, Accept, Reject,
     StartPrepare, Prepare, StartExecute, StartRollback, Check, Apply, CommitPatch,
     Validate, Reset, Close, Push
<1>10. review' \in [Candidate -> [approvers : SUBSET Member, blocking : BOOLEAN]]
  BY <1>6, <1>9 DEF Records
<1> QED
  BY <1>8, <1>10 DEF Records, B

(* Plans keep their candidates, and a status means that there are some.     *)
LEMMA PlanStep ==
    ASSUME InHand, Within(Candidate), [Next]_vars
    PROVE  \A p \in Request : Prepared(p)' /\ (plan[p].cands # <<>> => plan'[p].cands # <<>>)
<1> SUFFICES ASSUME NEW p \in Request
             PROVE  Prepared(p)' /\ (plan[p].cands # <<>> => plan'[p].cands # <<>>)
  OBVIOUS
<1> DEFINE Kept ==
              /\ plan'[p].status # "none" => plan'[p].cands # <<>>
              /\ plan[p].cands # <<>> => plan'[p].cands # <<>>
<1>1. /\ plan[p].status # "none" => plan[p].cands # <<>>
      /\ plan \in [Request -> PlanOf(Candidate)]
  BY DEF InHand, Prepared, Within
<1>2. ASSUME NEW r \in Request, Prepare(r)
      PROVE  Kept
  <2>1. req[r].todo # <<>>
    BY <1>2 DEF Prepare, InHand, HasPatch
  <2>2. p # r => plan'[p] = plan[p]
    BY <1>1, <1>2 DEF Prepare
  <2>3. p = r => plan'[p].cands = req[r].todo
    BY <1>1, <1>2 DEF Prepare
  <2> QED
    BY <1>1, <2>1, <2>2, <2>3
<1>3. ASSUME NEW r \in Request, Check(r) \/ Validate(r) \/ Close(r)
      PROVE  Kept
  <2>1. req[r].plan \in Request /\ plan[req[r].plan].cands # <<>>
    BY <1>3 DEF Check, Validate, Close, InHand, HasPlan
  <2>2. UNCHANGED plan \/ \E s : plan' = [plan EXCEPT ![req[r].plan].status = s]
    BY <1>3 DEF Check, Validate, Close
  <2>3. UNCHANGED plan => Kept
    BY <1>1
  <2>4. ASSUME NEW s, plan' = [plan EXCEPT ![req[r].plan].status = s]
        PROVE  Kept
    <3>1. p # req[r].plan => plan'[p] = plan[p]
      BY <1>1, <2>4
    <3>2. p = req[r].plan => plan'[p].cands = plan[p].cands
      BY <1>1, <2>4 DEF PlanOf
    <3> QED
      BY <1>1, <2>1, <3>1, <3>2
  <2> QED
    BY <2>2, <2>3, <2>4
<1>4. UNCHANGED plan => Kept
  BY <1>1
<1>5. Kept
  BY <1>2, <1>3, <1>4, ZenonT(30) DEF Next, vars, OpenWorkspace, StartSubmit, Submit,
     Accept, Reject, Review, StartPrepare, StartExecute, StartRollback, Apply,
     CommitPatch, Reset, Push
<1> QED
  BY <1>5 DEF Prepared

(* A request keeps its plan until it is done, and leaves the loop over the  *)
(* patches with the last one.                                              *)
LEMMA InHandStep ==
    ASSUME InHand, Within(Candidate), [Next]_vars
    PROVE  InHand'
<1> DEFINE Holds(q, p) == p \in Request /\ plan[p].cands # <<>>
<1>1. \A p \in Request : Prepared(p)' /\ (plan[p].cands # <<>> => plan'[p].cands # <<>>)
  BY PlanStep
<1>2. \A q \in Request :
         /\ req[q] \in RequestOf(Candidate)
         /\ req[q].todo \in ListOf(Candidate)
  BY DEF Within, RequestOf
<1>3. ASSUME NEW q \in Request, req'[q] = req[q]
      PROVE  HasPlan(q)' /\ HasPatch(q)'
  BY <1>1, <1>3 DEF InHand, HasPlan, HasPatch
<1>4. ASSUME NEW r \in Request, NEW q \in Request, q # r,
             \/ StartPrepare(r) \/ Prepare(r) \/ Check(r) \/ Apply(r) \/ CommitPatch(r)
             \/ Validate(r) \/ Reset(r) \/ Close(r)
             \/ \E p \in Request : StartExecute(r, p) \/ StartRollback(r, p)
      PROVE  req'[q] = req[q]
  BY <1>4, ZenonT(30) DEF StartPrepare, Prepare, Check, Apply, CommitPatch, Validate,
     Reset, Close, GiveUp, StartExecute, StartRollback, Within
<1>5. ASSUME NEW r \in Request, req'[r].step \in {"new", "done"}
      PROVE  HasPlan(r)' /\ HasPatch(r)'
  BY <1>5 DEF HasPlan, HasPatch
<1>6. ASSUME NEW r \in Request, req[r].step \notin {"new", "preparing", "done"},
             req'[r].plan = req[r].plan, req'[r].todo # <<>> \/ req'[r].step \notin
                                             {"preparing", "applying", "committing"}
      PROVE  HasPlan(r)' /\ HasPatch(r)'
  BY <1>1, <1>6 DEF InHand, HasPlan, HasPatch
<1>7. ASSUME NEW r \in Request, StartPrepare(r)
      PROVE  HasPlan(r)' /\ HasPatch(r)'
  <2>1. PICK S \in SUBSET Candidate : S # {} /\ \E order \in Ordered(S) :
              req' = [req EXCEPT ![r] = [@ EXCEPT !.step = "preparing", !.todo = order]]
    BY <1>7, ZenonT(30) DEF StartPrepare
  <2>2. PICK order \in Ordered(S) :
              req' = [req EXCEPT ![r] = [@ EXCEPT !.step = "preparing", !.todo = order]]
    BY <2>1, ZenonT(30)
  <2>3. order # <<>>
    BY <2>1, OrderedType
  <2>4. req'[r].step = "preparing" /\ req'[r].todo = order
    BY <1>2, <2>2 DEF Within, RequestOf
  <2> QED
    BY <2>3, <2>4 DEF HasPlan, HasPatch
<1>8. ASSUME NEW r \in Request, NEW p \in Request, StartExecute(r, p) \/ StartRollback(r, p)
      PROVE  HasPlan(r)' /\ HasPatch(r)'
  <2>1. plan[p].cands # <<>>
    BY <1>8 DEF StartExecute, StartRollback, InHand, Prepared
  <2>2. req'[r].step \in {"checking", "undoing"} /\ req'[r].plan = p
    <3>1. CASE StartExecute(r, p)
      BY <1>2, <3>1 DEF StartExecute, Within, RequestOf
    <3>2. CASE StartRollback(r, p)
      BY <1>2, <3>2 DEF StartRollback, Within, RequestOf
    <3> QED
      BY <1>8, <3>1, <3>2
  <2> QED
    BY <1>1, <2>1, <2>2 DEF HasPlan, HasPatch
<1>9. ASSUME NEW r \in Request, GiveUp(r)
      PROVE  req'[r].step = "undoing" /\ req'[r].plan = req[r].plan
  BY <1>2, <1>9 DEF GiveUp, Within, RequestOf
<1>10. ASSUME NEW r \in Request, Check(r)
       PROVE  HasPlan(r)' /\ HasPatch(r)'
  <2>1. plan[req[r].plan].cands # <<>> /\ req[r].step = "checking"
    BY <1>10 DEF Check, InHand, HasPlan
  <2>2. CASE req' = [req EXCEPT ![r].step = "done"]
    <3>1. req'[r].step = "done"
      BY <1>2, <2>2 DEF Within, RequestOf
    <3> QED
      BY <1>5, <3>1
  <2>3. CASE req' = [req EXCEPT ![r] = [@ EXCEPT !.step = "applying",
                                                 !.todo = plan[req[r].plan].cands]]
    <3>1. req'[r].plan = req[r].plan /\ req'[r].todo = plan[req[r].plan].cands
      BY <1>2, <2>3 DEF Within, RequestOf
    <3> QED
      BY <1>6, <2>1, <3>1
  <2> QED
    BY <1>10, <2>2, <2>3 DEF Check
<1>11. ASSUME NEW r \in Request, Apply(r)
       PROVE  HasPlan(r)' /\ HasPatch(r)'
  <2>1. req[r].todo # <<>> /\ req[r].step = "applying"
    BY <1>11 DEF Apply, InHand, HasPatch
  <2>2. CASE req' = [req EXCEPT ![r].step = "committing"]
    <3>1. req'[r].plan = req[r].plan /\ req'[r].todo = req[r].todo
      BY <1>2, <2>2 DEF Within, RequestOf
    <3> QED
      BY <1>6, <2>1, <3>1
  <2>3. CASE GiveUp(r)
    BY <1>6, <1>9, <2>1, <2>3
  <2> QED
    BY <1>11, <2>2, <2>3 DEF Apply
<1>12. ASSUME NEW r \in Request, CommitPatch(r)
       PROVE  HasPlan(r)' /\ HasPatch(r)'
  <2>1. req[r].todo # <<>> /\ req[r].step = "committing"
    BY <1>12 DEF CommitPatch, InHand, HasPatch
  <2>2. CASE GiveUp(r)
    BY <1>6, <1>9, <2>1, <2>2
  <2>3. CASE ~GiveUp(r)
    <3>1. req' = [req EXCEPT ![r] = [@ EXCEPT
                     !.step = IF Len(req[r].todo) = 1 THEN "validating" ELSE "applying",
                     !.todo = Tail(req[r].todo)]]
      BY <1>12, <2>3 DEF CommitPatch
    <3>2. /\ req'[r].plan = req[r].plan /\ req'[r].todo = Tail(req[r].todo)
          /\ req'[r].step = IF Len(req[r].todo) = 1 THEN "validating" ELSE "applying"
      BY <1>2, <3>1 DEF Within, RequestOf
    <3>3. Len(req[r].todo) # 1 => Tail(req[r].todo) # <<>>
      BY <1>2, <2>1, LongTail
    <3> QED
      BY <1>6, <2>1, <3>2, <3>3
  <2> QED
    BY <2>2, <2>3
<1>13. ASSUME NEW r \in Request, Validate(r) \/ Prepare(r) \/ Close(r)
       PROVE  HasPlan(r)' /\ HasPatch(r)'
  <2>1. CASE GiveUp(r) /\ Validate(r)
    <3>1. req[r].step = "validating"
      BY <2>1 DEF Validate
    <3> QED
      BY <1>6, <1>9, <2>1, <3>1
  <2>2. CASE ~(GiveUp(r) /\ Validate(r))
    <3>1. \/ req' = [req EXCEPT ![r].step = "done"]
          \/ req' = [req EXCEPT ![r] = [@ EXCEPT !.step = "done", !.todo = <<>>]]
      BY <1>13, <2>2 DEF Validate, Prepare, Close
    <3>2. req'[r].step = "done"
      <4>1. CASE req' = [req EXCEPT ![r].step = "done"]
        BY <1>2, <4>1 DEF Within, RequestOf
      <4>2. CASE req' = [req EXCEPT ![r] = [@ EXCEPT !.step = "done", !.todo = <<>>]]
        BY <1>2, <4>2 DEF Within, RequestOf
      <4> QED
        BY <3>1, <4>1, <4>2
    <3> QED
      BY <1>5, <3>2
  <2> QED
    BY <2>1, <2>2
<1>14. ASSUME NEW r \in Request, Reset(r)
       PROVE  HasPlan(r)' /\ HasPatch(r)'
  <2>1. req[r].step = "undoing"
    BY <1>14 DEF Reset
  <2>2. req'[r].step = "undone" /\ req'[r].plan = req[r].plan
    BY <1>2, <1>14 DEF Reset, Within, RequestOf
  <2> QED
    BY <1>6, <2>1, <2>2
<1>15. ASSUME NEW q \in Request
       PROVE  HasPlan(q)' /\ HasPatch(q)'
  <2>1. CASE UNCHANGED req
    BY <1>3, <2>1
  <2>2. ASSUME NEW r \in Request,
               \/ StartPrepare(r) \/ Prepare(r) \/ Check(r) \/ Apply(r) \/ CommitPatch(r)
               \/ Validate(r) \/ Reset(r) \/ Close(r)
               \/ \E p \in Request : StartExecute(r, p) \/ StartRollback(r, p)
        PROVE  HasPlan(q)' /\ HasPatch(q)'
    BY <1>3, <1>4, <1>7, <1>8, <1>10, <1>11, <1>12, <1>13, <1>14, <2>2
  <2> QED
    BY <2>1, <2>2, ZenonT(30) DEF Next, vars, OpenWorkspace, StartSubmit, Submit,
       Accept, Reject, Review, Push
<1> QED
  BY <1>1, <1>15 DEF InHand

-----------------------------------------------------------------------------

(* The invariant holds before the first call, and every step keeps it.      *)
LEMMA InitEstablishes == Init => IInv
<1> SUFFICES ASSUME Init PROVE IInv
  OBVIOUS
<1>1. ASSUME NEW A
      PROVE  Within(A)
  <2>1. <<>> \in BranchOf(A) /\ <<>> \in ListOf(A)
    BY DEF BranchOf, ListOf
  <2> QED
    BY <2>1 DEF Init, Within, PlanOf, RequestOf, NoPlan, NewRequest, PlanStatus, Step
<1>2. <<>> \in Seq(Commit)
  OBVIOUS
<1>3. Records
  BY <1>2 DEF Init, Records, CandidateStatus
<1>4. InHand
  BY DEF Init, InHand, Prepared, HasPlan, HasPatch, NoPlan, NewRequest
<1>5. Accepted \subseteq Vetted
  BY DEF Init, Accepted
<1> QED
  BY <1>1, <1>3, <1>4, <1>5 DEF IInv

LEMMA NextPreserves == IInv /\ [Next]_vars => IInv'
<1> SUFFICES ASSUME IInv, [Next]_vars PROVE IInv'
  OBVIOUS
<1> USE DEF IInv
<1>1. Within(Candidate)'
  <2>1. Candidate \in SUBSET Candidate /\ Accepted \subseteq Candidate
    BY DEF Accepted
  <2> QED
    BY <2>1, WithinStep
<1>2. Within(Vetted)'
  <2>1. PICK A \in SUBSET Candidate : A = Vetted
    BY DEF Vetted
  <2>2. Within(A) /\ Accepted \subseteq A
    BY <2>1
  <2>3. Within(A)'
    BY <2>2, WithinStep
  <2>4. PICK B \in SUBSET Candidate : B = Vetted'
    BY DEF Vetted
  <2>5. A \subseteq B
    BY <2>1, <2>4, VettedGrows
  <2>6. Within(B)'
    BY <2>3, <2>5, WithinMonotone
  <2> QED
    BY <2>4, <2>6 DEF Within
<1>3. Records'
  BY RecordsStep
<1>4. InHand'
  BY InHandStep
<1>5. (Accepted \subseteq Vetted)'
  BY AcceptedVetted
<1> QED
  BY <1>1, <1>2, <1>3, <1>4, <1>5

(* The inductive invariant holds throughout.                               *)
THEOREM Inductive == Spec => []IInv
BY InitEstablishes, NextPreserves, PTL DEF Spec

(* Every record stays in its range: TypeOK, the statuses and steps of       *)
(* ChangeCandidate, IntegrationPlan and the calls in progress.             *)
THEOREM TypeCorrect == Spec => []TypeOK
<1>1. IInv => TypeOK
  BY DEF IInv, TypeOK, Records, Within, BranchOf, ListOf, PlanOf, RequestOf, CommitOf,
     Commit
<1> QED
  BY <1>1, Inductive, PTL

(* Whatever overlaps, what is in the working tree or on the branch was      *)
(* approved by another member than its author (ReviewService, and the       *)
(* accept route that asks hasIndependentApproval).                         *)
THEOREM OnlyReviewedWork == Spec => []ReviewedOnly
<1>1. IInv => ReviewedOnly
  <2> SUFFICES ASSUME IInv, NEW c \in Patches \cup index
               PROVE  \E m \in review[c].approvers : m # Author[c]
    BY DEF ReviewedOnly
  <2>1. \A i \in DOMAIN head : head[i].patches \subseteq Vetted
    <3>1. head \in Seq(CommitOf(Vetted))
      BY DEF IInv, Within, BranchOf
    <3>2. \A i \in DOMAIN head : head[i] \in CommitOf(Vetted)
      BY <3>1, ElementOfSeq
    <3> QED
      BY <3>2 DEF CommitOf
  <2>2. c \in Vetted
    BY <2>1 DEF IInv, Within, Patches
  <2> QED
    BY <2>2 DEF Vetted
<1> QED
  BY <1>1, Inductive, PTL

-----------------------------------------------------------------------------
(* Requests that do not overlap.  The candidates that were submitted keep   *)
(* their base and their files, so what a plan was found ready for stays     *)
(* true of it; what a request committed is told from the plan and the       *)
(* patches it still has to apply.                                          *)

Filed == {c \in Candidate : Submitted(c)}

(* One request at a time.                                                  *)
Solo == \A r, s \in Request : Active(r) /\ Active(s) => r = s

(* What the step of a request says of its plan and of its outcome.          *)
Stage(r) ==
    /\ req[r].step \in {"new", "preparing"} => plan[r].status = "none"
    /\ req[r].step \notin {"new", "preparing", "done"} => plan[req[r].plan].status # "none"
    /\ req[r].step \notin {"undoing", "undone", "done"} => req[r].ends = "none"
    /\ req[r].step \in {"undoing", "undone"} => req[r].ends # "none"
Stages == \A r \in Request : Stage(r)

(* No commit of r on the branch, and none that a reset would bring back.    *)
Absent(h, r) == \A i \in DOMAIN h : h[i].by # r
Untraced(r) ==
    /\ req[r].step # "done" \/ req[r].ends = "failed" =>
           \A p \in Request : Absent(plan[p].base, r)
    /\ \/ req[r].step \in {"new", "preparing", "checking"}
       \/ req[r].step \in {"undone", "done"} /\ req[r].ends = "failed"
       => Absent(head, r)
Traces == \A r \in Request : Untraced(r)

(* The tree is dirty only between an apply and its commit or reset.         *)
Clean == (\A r \in Request : req[r].step \notin {"committing", "undoing"}) => index = {}

(* A request that integrates has the commits of the patches it has applied  *)
(* on top of its plan's base, and the others still to do.                  *)
Exact(r, base, cands, todo, h) ==
    LET n == Len(cands) - Len(todo) IN
    /\ n \in 0..Len(cands) /\ Len(h) = Len(base) + n
    /\ \A i \in 1..Len(base) : h[i] = base[i]
    /\ \A i \in 1..n : h[Len(base) + i] = [by |-> r, patches |-> {cands[i]}]
    /\ \A i \in 1..Len(todo) : todo[i] = cands[n + i]
OnTop(r, p) == Exact(r, plan[p].base, plan[p].cands, req[r].todo, head)
Integrating(r) == req[r].step \in {"applying", "committing", "validating"}
Progress ==
    \A r \in Request :
        /\ Integrating(r) => OnTop(r, req[r].plan)
        /\ req[r].step = "committing" => index = {Head(req[r].todo)}
        /\ req[r].step = "validating" => req[r].todo = <<>>

(* A plan that was found ready, and the plan being integrated, still is.    *)
Vouched ==
    /\ \A p \in Request : plan[p].status = "ready" => Ready(p)
    /\ \A r \in Request : req[r].step \in {"checking", "applying", "committing", "validating"} =>
           Ready(req[r].plan)

SerialInv == Within(Filed) /\ Solo /\ Stages /\ Traces /\ Clean /\ Progress /\ Vouched

-----------------------------------------------------------------------------
(* What a request's step does to its record and to its plan, field by       *)
(* field; the other requests and plans are left alone.                     *)
Becomes(r, s, p, t, e) ==
    /\ req'[r].step = s /\ req'[r].plan = p /\ req'[r].todo = t /\ req'[r].ends = e
    /\ \A q \in Request \ {r} : req'[q] = req[q]

Turns(p, s, b, c) ==
    /\ plan'[p].status = s /\ plan'[p].base = b /\ plan'[p].cands = c
    /\ \A q \in Request \ {p} : plan'[q] = plan[q]

LEMMA BecomesWith ==
    ASSUME Within(Candidate), NEW r \in Request, NEW s, NEW p, NEW t, NEW e,
           req' = [req EXCEPT ![r] = [step |-> s, plan |-> p, todo |-> t, ends |-> e]]
    PROVE  Becomes(r, s, p, t, e)
BY DEF Becomes, Within

LEMMA RequestFields ==
    ASSUME Within(Candidate), NEW r \in Request
    PROVE  req[r] = [step |-> req[r].step, plan |-> req[r].plan, todo |-> req[r].todo,
                     ends |-> req[r].ends]
BY DEF Within, RequestOf

LEMMA TurnsStatus ==
    ASSUME Within(Candidate), NEW p \in Request, NEW s, plan' = [plan EXCEPT ![p].status = s]
    PROVE  Turns(p, s, plan[p].base, plan[p].cands)
BY DEF Turns, Within, PlanOf

(* The record a request gives up with.                                     *)
LEMMA GivesUp ==
    ASSUME Within(Candidate), NEW r \in Request, GiveUp(r)
    PROVE  Becomes(r, "undoing", req[r].plan, <<>>, "failed")
BY DEF GiveUp, Becomes, Within, RequestOf

LEMMA Moves ==
    ASSUME Within(Candidate), InHand, NEW r \in Request
    PROVE  /\ StartPrepare(r) =>
                 \E t \in ListOf(Candidate) : Becomes(r, "preparing", req[r].plan, t, req[r].ends)
           /\ Prepare(r) =>
                 /\ Becomes(r, "done", req[r].plan, <<>>, req[r].ends)
                 /\ \E s \in {"preparing", "ready"} : Turns(r, s, head, req[r].todo)
           /\ \A p \in Request :
                 /\ StartExecute(r, p) => Becomes(r, "checking", p, req[r].todo, req[r].ends)
                 /\ StartRollback(r, p) => Becomes(r, "undoing", p, req[r].todo, "rolled-back")
           /\ Reset(r) => Becomes(r, "undone", req[r].plan, req[r].todo, req[r].ends)
<1>1. ASSUME StartPrepare(r)
      PROVE  \E t \in ListOf(Candidate) : Becomes(r, "preparing", req[r].plan, t, req[r].ends)
  <2>1. PICK S \in SUBSET Candidate : S # {} /\ \E order \in Ordered(S) :
              req' = [req EXCEPT ![r] = [@ EXCEPT !.step = "preparing", !.todo = order]]
    BY <1>1, ZenonT(30) DEF StartPrepare
  <2>2. PICK order \in Ordered(S) :
              req' = [req EXCEPT ![r] = [@ EXCEPT !.step = "preparing", !.todo = order]]
    BY <2>1, ZenonT(30)
  <2>3. order \in ListOf(Candidate)
    BY <2>1, OrderedType
  <2>4. Becomes(r, "preparing", req[r].plan, order, req[r].ends)
    BY <2>2 DEF Becomes, Within, RequestOf
  <2> QED
    BY <2>3, <2>4
<1>2. ASSUME Prepare(r)
      PROVE  Becomes(r, "done", req[r].plan, <<>>, req[r].ends)
  BY <1>2 DEF Prepare, Becomes, Within, RequestOf
<1>3. ASSUME Prepare(r)
      PROVE  \E s \in {"preparing", "ready"} : Turns(r, s, head, req[r].todo)
  <2> DEFINE s == IF Blocking({req[r].todo[i] : i \in DOMAIN req[r].todo})
                  THEN "preparing" ELSE "ready"
  <2>1. s \in {"preparing", "ready"}
    OBVIOUS
  <2>2. plan' = [plan EXCEPT ![r] = [status |-> s, base |-> head, cands |-> req[r].todo]]
    BY <1>3 DEF Prepare
  <2> HIDE DEF s
  <2>3. Turns(r, s, head, req[r].todo)
    BY <2>2 DEF Turns, Within
  <2> QED
    BY <2>1, <2>3
<1>4. ASSUME NEW p \in Request, StartExecute(r, p)
      PROVE  Becomes(r, "checking", p, req[r].todo, req[r].ends)
  BY <1>4 DEF StartExecute, Becomes, Within, RequestOf
<1>5. ASSUME NEW p \in Request, StartRollback(r, p)
      PROVE  Becomes(r, "undoing", p, req[r].todo, "rolled-back")
  BY <1>5 DEF StartRollback, Becomes, Within, RequestOf
<1>6. ASSUME Reset(r)
      PROVE  Becomes(r, "undone", req[r].plan, req[r].todo, req[r].ends)
  BY <1>6 DEF Reset, Becomes, Within, RequestOf
<1> QED
  BY <1>1, <1>2, <1>3, <1>4, <1>5, <1>6

LEMMA IntegrationMoves ==
    ASSUME Within(Candidate), InHand, NEW r \in Request, NEW p \in Request, p = req[r].plan
    PROVE  /\ Check(r) =>
                 \/ /\ head = plan[p].base
                    /\ Turns(p, "executing", plan[p].base, plan[p].cands)
                    /\ Becomes(r, "applying", p, plan[p].cands, req[r].ends)
                 \/ /\ Turns(p, "failed", plan[p].base, plan[p].cands)
                    /\ Becomes(r, "done", p, req[r].todo, req[r].ends)
           /\ Apply(r) =>
                 \/ Becomes(r, "committing", p, req[r].todo, req[r].ends)
                 \/ Becomes(r, "undoing", p, <<>>, "failed") /\ UNCHANGED index
           /\ CommitPatch(r) =>
                 \/ /\ head' = Append(head, [by |-> r, patches |-> index])
                    /\ index' = {}
                    /\ Becomes(r, IF Len(req[r].todo) = 1 THEN "validating" ELSE "applying",
                               p, Tail(req[r].todo), req[r].ends)
                 \/ Becomes(r, "undoing", p, <<>>, "failed") /\ UNCHANGED <<head, index>>
           /\ Validate(r) =>
                 \/ /\ Turns(p, "succeeded", plan[p].base, plan[p].cands)
                    /\ Becomes(r, "done", p, req[r].todo, req[r].ends)
                 \/ Becomes(r, "undoing", p, <<>>, "failed") /\ UNCHANGED <<cand, plan>>
           /\ Close(r) =>
                 /\ Turns(p, req[r].ends, plan[p].base, plan[p].cands)
                 /\ Becomes(r, "done", p, req[r].todo, req[r].ends)
<1>1. GiveUp(r) => Becomes(r, "undoing", p, <<>>, "failed")
  BY GivesUp
<1>2. \A s : plan' = [plan EXCEPT ![req[r].plan].status = s] =>
                 Turns(p, s, plan[p].base, plan[p].cands)
  BY TurnsStatus
<1>3. req' = [req EXCEPT ![r].step = "done"] => Becomes(r, "done", p, req[r].todo, req[r].ends)
  BY DEF Becomes, Within, RequestOf
<1>4. req' = [req EXCEPT ![r].step = "committing"] =>
          Becomes(r, "committing", p, req[r].todo, req[r].ends)
  BY DEF Becomes, Within, RequestOf
<1>5. \A x : req' = [req EXCEPT ![r] = [@ EXCEPT !.step = "applying", !.todo = x]] =>
          Becomes(r, "applying", p, x, req[r].ends)
  BY DEF Becomes, Within, RequestOf
<1>6. \A s, x : req' = [req EXCEPT ![r] = [@ EXCEPT !.step = s, !.todo = x]] =>
          Becomes(r, s, p, x, req[r].ends)
  BY DEF Becomes, Within, RequestOf
<1>7. ASSUME Check(r)
      PROVE  \/ /\ head = plan[p].base
                /\ Turns(p, "executing", plan[p].base, plan[p].cands)
                /\ Becomes(r, "applying", p, plan[p].cands, req[r].ends)
             \/ /\ Turns(p, "failed", plan[p].base, plan[p].cands)
                /\ Becomes(r, "done", p, req[r].todo, req[r].ends)
  <2>1. CASE /\ head = plan[req[r].plan].base
             /\ plan' = [plan EXCEPT ![req[r].plan].status = "executing"]
             /\ req' = [req EXCEPT ![r] = [@ EXCEPT !.step = "applying",
                                                    !.todo = plan[req[r].plan].cands]]
    BY <1>2, <1>5, <2>1, Zenon
  <2>2. CASE /\ plan' = [plan EXCEPT ![req[r].plan].status = "failed"]
             /\ req' = [req EXCEPT ![r].step = "done"]
    BY <1>2, <1>3, <2>2, Zenon
  <2> QED
    BY <1>7, <2>1, <2>2, Zenon DEF Check
<1>8. ASSUME Apply(r)
      PROVE  \/ Becomes(r, "committing", p, req[r].todo, req[r].ends)
             \/ Becomes(r, "undoing", p, <<>>, "failed") /\ UNCHANGED index
  BY <1>1, <1>4, <1>8, Zenon DEF Apply
<1>9. ASSUME CommitPatch(r)
      PROVE  \/ /\ head' = Append(head, [by |-> r, patches |-> index])
                /\ index' = {}
                /\ Becomes(r, IF Len(req[r].todo) = 1 THEN "validating" ELSE "applying",
                           p, Tail(req[r].todo), req[r].ends)
             \/ Becomes(r, "undoing", p, <<>>, "failed") /\ UNCHANGED <<head, index>>
  BY <1>1, <1>6, <1>9, Zenon DEF CommitPatch
<1>10. ASSUME Validate(r)
       PROVE  \/ /\ Turns(p, "succeeded", plan[p].base, plan[p].cands)
                 /\ Becomes(r, "done", p, req[r].todo, req[r].ends)
              \/ Becomes(r, "undoing", p, <<>>, "failed") /\ UNCHANGED <<cand, plan>>
  BY <1>1, <1>2, <1>3, <1>10, Zenon DEF Validate
<1>11. ASSUME Close(r)
       PROVE  /\ Turns(p, req[r].ends, plan[p].base, plan[p].cands)
              /\ Becomes(r, "done", p, req[r].todo, req[r].ends)
  BY <1>2, <1>3, <1>11, Zenon DEF Close
<1> QED
  BY <1>7, <1>8, <1>9, <1>10, <1>11, Zenon

-----------------------------------------------------------------------------
(* A step of a request, in a run without overlaps.                          *)
RequestStep(r) ==
    \/ StartPrepare(r) \/ Prepare(r) \/ Check(r) \/ Apply(r) \/ CommitPatch(r)
    \/ Validate(r) \/ Reset(r) \/ Close(r)
    \/ \E p \in Request : StartExecute(r, p) \/ StartRollback(r, p)

LEMMA WhoSteps ==
    ASSUME [Next]_vars
    PROVE  \/ \E r \in Request : RequestStep(r)
           \/ Push
           \/ UNCHANGED <<head, index, plan, req>>
BY ZenonT(30) DEF Next, RequestStep, vars, OpenWorkspace, StartSubmit, Submit, Accept,
   Reject, Review

(* The plan a request works on.                                             *)
LEMMA PlanInHand ==
    ASSUME InHand, NEW r \in Request,
           Check(r) \/ Apply(r) \/ CommitPatch(r) \/ Validate(r) \/ Reset(r) \/ Close(r)
    PROVE  req[r].plan \in Request /\ plan[req[r].plan].cands # <<>>
BY Zenon DEF Check, Apply, CommitPatch, Validate, Reset, Close, InHand, HasPlan

LEMMA Alone ==
    ASSUME ~Concurrent, Solo, Within(Candidate), InHand, NEW r \in Request, RequestStep(r)
    PROVE  /\ \A q \in Request \ {r} : ~Active(q) /\ req'[q] = req[q]
           /\ \E s, p, t, e : Becomes(r, s, p, t, e)
<1>1. MayStart(r) \/ Active(r)
  BY Zenon DEF RequestStep, StartPrepare, StartExecute, StartRollback, Prepare, Check, Apply,
     CommitPatch, Validate, Reset, Close, Active
<1>2. \A q \in Request \ {r} : ~Active(q)
  BY <1>1 DEF MayStart, Solo
<1>3. \E s, p, t, e : Becomes(r, s, p, t, e)
  <2>1. CASE Check(r) \/ Apply(r) \/ CommitPatch(r) \/ Validate(r) \/ Close(r)
    <3>1. PICK p \in Request : p = req[r].plan
      BY <2>1, PlanInHand
    <3> QED
      BY <2>1, <3>1, IntegrationMoves, Zenon
  <2>2. CASE ~(Check(r) \/ Apply(r) \/ CommitPatch(r) \/ Validate(r) \/ Close(r))
    BY <2>2, Moves, Zenon DEF RequestStep
  <2> QED
    BY <2>1, <2>2
<1>4. \A q \in Request \ {r} : req'[q] = req[q]
  BY <1>3, Zenon DEF Becomes
<1> QED
  BY <1>2, <1>3, <1>4

LEMMA NotPreparing ==
    ASSUME ~Concurrent, Solo, Within(Candidate), InHand, NEW r \in Request, RequestStep(r),
           ~Prepare(r)
    PROVE  \A q \in Request : ~Prepare(q)
<1>1. \A q \in Request \ {r} : ~Active(q)
  BY Alone
<1>2. \A q \in Request : Prepare(q) => Active(q)
  BY DEF Prepare, Active
<1> QED
  BY <1>1, <1>2

LEMMA SoloStep ==
    ASSUME ~Concurrent, Solo, Within(Candidate), InHand, [Next]_vars
    PROVE  Solo'
<1>1. ASSUME NEW r \in Request, RequestStep(r)
      PROVE  Solo'
  <2>1. \A q \in Request \ {r} : ~Active(q) /\ req'[q] = req[q]
    BY <1>1, Alone
  <2> QED
    BY <2>1 DEF Solo, Active
<1>2. CASE UNCHANGED req
  BY <1>2 DEF Solo, Active
<1> QED
  BY <1>1, <1>2, WhoSteps, Zenon DEF Push

(* A prepared plan keeps its base and its candidates, and only Prepare      *)
(* makes one.                                                              *)
LEMMA PlansKept ==
    ASSUME Stages, Within(Candidate), InHand, [Next]_vars
    PROVE  /\ \A p \in Request : plan[p].status # "none" =>
                 /\ plan'[p].status # "none"
                 /\ plan'[p].base = plan[p].base /\ plan'[p].cands = plan[p].cands
           /\ \A p \in Request : plan[p].status = "none" => Prepare(p) \/ plan'[p] = plan[p]
<1> DEFINE Kept ==
              /\ \A p \in Request : plan[p].status # "none" =>
                    /\ plan'[p].status # "none"
                    /\ plan'[p].base = plan[p].base /\ plan'[p].cands = plan[p].cands
              /\ \A p \in Request : plan[p].status = "none" => Prepare(p) \/ plan'[p] = plan[p]
<1>1. ASSUME NEW r \in Request, Prepare(r)
      PROVE  Kept
  <2>1. plan[r].status = "none"
    BY <1>1 DEF Prepare, Stages, Stage
  <2>2. \A q \in Request \ {r} : plan'[q] = plan[q]
    BY <1>1, Moves DEF Turns
  <2> QED
    BY <1>1, <2>1, <2>2
<1>2. ASSUME NEW p \in Request, NEW s, plan[p].status # "none", s # "none",
             Turns(p, s, plan[p].base, plan[p].cands)
      PROVE  Kept
  BY <1>2 DEF Turns
<1>3. ASSUME NEW r \in Request, Check(r) \/ Validate(r) \/ Close(r)
      PROVE  Kept \/ UNCHANGED plan
  <2>1. PICK p \in Request : p = req[r].plan
    BY <1>3, PlanInHand
  <2>2. plan[p].status # "none" /\ (Close(r) => req[r].ends # "none")
    BY <1>3, <2>1 DEF Check, Validate, Close, Stages, Stage
  <2>3. UNCHANGED plan \/ \E s : s # "none" /\ Turns(p, s, plan[p].base, plan[p].cands)
    <3>1. CASE Check(r)
      <4>1. \/ Turns(p, "executing", plan[p].base, plan[p].cands)
            \/ Turns(p, "failed", plan[p].base, plan[p].cands)
        BY <2>1, <3>1, IntegrationMoves, Zenon
      <4> QED
        BY <4>1
    <3>2. CASE Validate(r)
      <4>1. UNCHANGED plan \/ Turns(p, "succeeded", plan[p].base, plan[p].cands)
        BY <2>1, <3>2, IntegrationMoves, Zenon
      <4> QED
        BY <4>1
    <3>3. CASE Close(r)
      BY <2>1, <2>2, <3>3, IntegrationMoves, Zenon
    <3> QED
      BY <1>3, <3>1, <3>2, <3>3
  <2> QED
    BY <1>2, <2>2, <2>3
<1>4. CASE UNCHANGED plan
  BY <1>4
<1>5. \/ \E r \in Request : Prepare(r) \/ Check(r) \/ Validate(r) \/ Close(r)
      \/ UNCHANGED plan
  BY WhoSteps, Zenon DEF RequestStep, StartPrepare, StartExecute, StartRollback, Apply,
     CommitPatch, Reset, Push
<1>6. Kept
  BY <1>1, <1>3, <1>4, <1>5, Zenon
<1> QED
  BY <1>6

LEMMA StagesStep ==
    ASSUME ~Concurrent, Solo, Stages, Within(Candidate), InHand, [Next]_vars
    PROVE  Stages'
<1>1. \A p \in Request : plan[p].status # "none" => plan'[p].status # "none"
  BY PlansKept
<1>2. \A p \in Request : plan[p].status = "none" => Prepare(p) \/ plan'[p].status = "none"
  BY PlansKept
<1>3. ASSUME NEW r \in Request, RequestStep(r), NEW q \in Request \ {r}
      PROVE  Stage(q)'
  <2>1. ~Active(q) /\ req'[q] = req[q]
    BY <1>3, Alone
  <2>2. ~Prepare(q)
    BY <2>1 DEF Prepare, Active
  <2>3. Stage(q)
    BY DEF Stages
  <2> QED
    BY <1>1, <1>2, <2>1, <2>2, <2>3 DEF Stage, Active
<1>4. ASSUME NEW r \in Request, RequestStep(r)
      PROVE  Stage(r)'
  <2>0. Stage(r) /\ req[r].ends \in {"none", "failed", "rolled-back"}
    BY DEF Stages, Within, RequestOf
  <2>1. CASE StartPrepare(r)
    <3>1. req'[r].step = "preparing" /\ req'[r].ends = req[r].ends /\ req[r].step = "new"
      BY <2>1, Moves DEF Becomes, StartPrepare, MayStart
    <3>2. plan'[r].status = "none"
      BY <1>2, <2>0, <3>1 DEF Prepare, Stage
    <3> QED
      BY <2>0, <3>1, <3>2 DEF Stage
  <2>2. CASE Prepare(r)
    <3>1. req'[r].step = "done" /\ req'[r].ends = req[r].ends /\ req[r].step = "preparing"
      BY <2>2, Moves DEF Becomes, Prepare
    <3> QED
      BY <2>0, <3>1 DEF Stage
  <2>3. ASSUME NEW p \in Request, StartExecute(r, p)
        PROVE  Stage(r)'
    <3>1. /\ req'[r].step = "checking" /\ req'[r].plan = p /\ req'[r].ends = req[r].ends
          /\ req[r].step = "new" /\ plan[p].status # "none"
      BY <2>3, Moves DEF Becomes, StartExecute, MayStart
    <3> QED
      BY <1>1, <2>0, <3>1 DEF Stage
  <2>4. ASSUME NEW p \in Request, StartRollback(r, p)
        PROVE  Stage(r)'
    <3>1. /\ req'[r].step = "undoing" /\ req'[r].plan = p /\ req'[r].ends = "rolled-back"
          /\ plan[p].status # "none"
      BY <2>4, Moves DEF Becomes, StartRollback
    <3> QED
      BY <1>1, <3>1 DEF Stage
  <2>5. CASE Check(r) \/ Apply(r) \/ CommitPatch(r) \/ Validate(r) \/ Reset(r) \/ Close(r)
    <3>1. PICK p \in Request : p = req[r].plan
      BY <2>5, PlanInHand
    <3>2. req[r].step \in {"checking", "applying", "committing", "validating", "undoing", "undone"}
      BY <2>5 DEF Check, Apply, CommitPatch, Validate, Reset, Close
    <3>3. plan'[p].status # "none"
      BY <1>1, <2>0, <3>1, <3>2 DEF Stage
    <3>4. \/ Becomes(r, "undoing", p, <<>>, "failed")
          \/ \E s, t : /\ s \in {"applying", "committing", "validating", "undone", "done"}
                       /\ s = "undone" => req[r].step = "undoing"
                       /\ s # "undone" /\ req[r].step \in {"undoing", "undone"} => s = "done"
                       /\ Becomes(r, s, p, t, req[r].ends)
      <4>1. CASE Check(r)
        <5>1. \/ Becomes(r, "applying", p, plan[p].cands, req[r].ends)
              \/ Becomes(r, "done", p, req[r].todo, req[r].ends)
          BY <3>1, <4>1, IntegrationMoves, Zenon
        <5>2. req[r].step = "checking"
          BY <4>1 DEF Check
        <5> QED
          BY <5>1, <5>2
      <4>2. CASE Apply(r)
        <5>1. \/ Becomes(r, "committing", p, req[r].todo, req[r].ends)
              \/ Becomes(r, "undoing", p, <<>>, "failed")
          BY <3>1, <4>2, IntegrationMoves, Zenon
        <5>2. req[r].step = "applying"
          BY <4>2 DEF Apply
        <5> QED
          BY <5>1, <5>2
      <4>3. CASE CommitPatch(r)
        <5>1. \/ Becomes(r, "undoing", p, <<>>, "failed")
              \/ Becomes(r, IF Len(req[r].todo) = 1 THEN "validating" ELSE "applying",
                         p, Tail(req[r].todo), req[r].ends)
          BY <3>1, <4>3, IntegrationMoves, Zenon
        <5>2. req[r].step = "committing"
          BY <4>3 DEF CommitPatch
        <5> QED
          BY <5>1, <5>2
      <4>4. CASE Validate(r)
        <5>1. \/ Becomes(r, "done", p, req[r].todo, req[r].ends)
              \/ Becomes(r, "undoing", p, <<>>, "failed")
          BY <3>1, <4>4, IntegrationMoves, Zenon
        <5>2. req[r].step = "validating"
          BY <4>4 DEF Validate
        <5> QED
          BY <5>1, <5>2
      <4>5. CASE Reset(r)
        <5>1. Becomes(r, "undone", p, req[r].todo, req[r].ends)
          BY <3>1, <4>5, Moves, Zenon
        <5>2. req[r].step = "undoing"
          BY <4>5 DEF Reset
        <5> QED
          BY <5>1, <5>2
      <4>6. CASE Close(r)
        <5>1. Becomes(r, "done", p, req[r].todo, req[r].ends)
          BY <3>1, <4>6, IntegrationMoves, Zenon
        <5>2. req[r].step = "undone"
          BY <4>6 DEF Close
        <5> QED
          BY <5>1, <5>2
      <4> QED
        BY <2>5, <4>1, <4>2, <4>3, <4>4, <4>5, <4>6
    <3>5. CASE Becomes(r, "undoing", p, <<>>, "failed")
      BY <3>3, <3>5 DEF Stage, Becomes
    <3>6. ASSUME NEW s \in {"applying", "committing", "validating", "undone", "done"}, NEW t,
                 s = "undone" => req[r].step = "undoing",
                 s # "undone" /\ req[r].step \in {"undoing", "undone"} => s = "done",
                 Becomes(r, s, p, t, req[r].ends)
          PROVE  Stage(r)'
      <4>1. req'[r].step = s /\ req'[r].plan = p /\ req'[r].ends = req[r].ends
        BY <3>6 DEF Becomes
      <4> QED
        BY <2>0, <3>2, <3>3, <3>6, <4>1 DEF Stage
    <3> QED
      BY <3>4, <3>5, <3>6
  <2> QED
    BY <1>4, <2>1, <2>2, <2>3, <2>4, <2>5, Zenon DEF RequestStep
<1>5. CASE UNCHANGED <<plan, req>>
  BY <1>5 DEF Stages, Stage
<1> QED
  BY <1>3, <1>4, <1>5, WhoSteps, Zenon DEF Stages, Push

(* No request comes by a commit of its own before it executes, nor keeps    *)
(* one after the reset that ends a failure.                                *)
LEMMA TracesStep ==
    ASSUME ~Concurrent, Solo, Stages, Traces, Within(Candidate), InHand, [Next]_vars
    PROVE  Traces'
<1>0. /\ head \in Seq(Commit)
      /\ \A p \in Request : plan[p].base \in Seq(Commit)
  BY DEF Within, BranchOf, CommitOf, Commit, PlanOf
<1> DEFINE Bases(q) == \A p \in Request : Absent(plan[p].base, q)
           Bases2(q) == \A p \in Request : Absent(plan'[p].base, q)
<1>1. ASSUME NEW q \in Request, Bases(q), Absent(head, q) \/ \A p \in Request : ~Prepare(p)
      PROVE  Bases2(q)
  <2> SUFFICES ASSUME NEW p \in Request PROVE Absent(plan'[p].base, q)
    OBVIOUS
  <2>1. CASE Prepare(p)
    <3>1. plan'[p].base = head
      BY <2>1, Moves DEF Turns
    <3> QED
      BY <1>1, <2>1, <3>1
  <2>2. CASE ~Prepare(p)
    <3>1. plan'[p].base = plan[p].base
      BY <2>2, PlansKept
    <3> QED
      BY <1>1, <3>1
  <2> QED
    BY <2>1, <2>2
<1>2. ASSUME NEW b, NEW P, NEW q, b # q, Absent(head, q)
      PROVE  Absent(Append(head, [by |-> b, patches |-> P]), q)
  <2>1. /\ Len(Append(head, [by |-> b, patches |-> P])) = Len(head) + 1
        /\ \A i \in 1..Len(head) : Append(head, [by |-> b, patches |-> P])[i] = head[i]
        /\ Append(head, [by |-> b, patches |-> P])[Len(head) + 1] = [by |-> b, patches |-> P]
        /\ DOMAIN Append(head, [by |-> b, patches |-> P]) = 1..(Len(head) + 1)
        /\ DOMAIN head = 1..Len(head) /\ Len(head) \in Nat
    BY <1>0, AppendProperties
  <2> QED
    BY <1>2, <2>1 DEF Absent
<1>3. ASSUME NEW r \in Request, RequestStep(r), NEW q \in Request \ {r}
      PROVE  Untraced(q)'
  <2>1. ~Active(q) /\ req'[q] = req[q] /\ Untraced(q)
    BY <1>3, Alone DEF Traces
  <2>2. CASE ~(req[q].step # "done" \/ req[q].ends = "failed")
    BY <2>1, <2>2 DEF Untraced
  <2>3. CASE req[q].step # "done" \/ req[q].ends = "failed"
    <3>1. Bases(q) /\ Absent(head, q)
      BY <2>1, <2>3 DEF Untraced, Active
    <3>2. Bases2(q)
      BY <1>1, <3>1
    <3>3. Absent(head', q)
      <4>1. CASE CommitPatch(r)
        <5>1. UNCHANGED head \/ head' = Append(head, [by |-> r, patches |-> index])
          BY <4>1 DEF CommitPatch
        <5>2. Absent(Append(head, [by |-> r, patches |-> index]), q)
          BY <1>2, <3>1
        <5> QED
          BY <3>1, <5>1, <5>2 DEF Absent
      <4>2. CASE Reset(r)
        <5>1. req[r].plan \in Request /\ head' = plan[req[r].plan].base
          BY <4>2, PlanInHand DEF Reset
        <5> QED
          BY <3>1, <5>1
      <4>3. CASE UNCHANGED head
        BY <3>1, <4>3
      <4> QED
        BY <1>3, <4>1, <4>2, <4>3, Zenon DEF RequestStep, StartPrepare, Prepare, StartExecute,
           StartRollback, Check, Apply, Validate, Close
    <3> QED
      BY <2>1, <3>2, <3>3 DEF Untraced
  <2> QED
    BY <2>2, <2>3
<1>4. ASSUME NEW r \in Request, RequestStep(r)
      PROVE  Untraced(r)'
  <2>0. Untraced(r) /\ Stage(r)
    BY DEF Traces, Stages
  <2>1. ASSUME NEW p, NEW t, Becomes(r, "undoing", p, t, "failed") \/ Becomes(r, "undoing", p, t, "rolled-back"),
               ~Prepare(r), req[r].step # "done"
        PROVE  Untraced(r)'
    <3>1. Bases(r)
      BY <2>0, <2>1 DEF Untraced
    <3>2. Bases2(r)
      <4>1. \A q \in Request : ~Prepare(q)
        BY <1>4, <2>1, NotPreparing
      <4> QED
        BY <1>1, <3>1, <4>1
    <3>3. req'[r].step = "undoing"
      BY <2>1 DEF Becomes
    <3> QED
      BY <3>2, <3>3 DEF Untraced
  <2>2. CASE Prepare(r)
    <3>1. req'[r].step = "done" /\ req'[r].ends = "none"
      BY <2>0, <2>2, Moves DEF Becomes, Prepare, Stage
    <3> QED
      BY <3>1 DEF Untraced
  <2>3. ASSUME ~Prepare(r), Bases(r)
        PROVE  Bases2(r)
    <3>1. \A q \in Request : ~Prepare(q)
      BY <1>4, <2>3, NotPreparing
    <3> QED
      BY <1>1, <2>3, <3>1
  <2>4. CASE StartPrepare(r) \/ \E p \in Request : StartExecute(r, p)
    <3>1. req[r].step = "new" /\ UNCHANGED head /\ ~Prepare(r)
      BY <2>4 DEF StartPrepare, StartExecute, MayStart, Prepare
    <3>2. req'[r].step \in {"preparing", "checking"}
      BY <2>4, Moves DEF Becomes
    <3> QED
      BY <2>0, <2>3, <3>1, <3>2 DEF Untraced
  <2>5. ASSUME NEW p \in Request, StartRollback(r, p)
        PROVE  Untraced(r)'
    <3>1. Becomes(r, "undoing", p, req[r].todo, "rolled-back")
      BY <2>5, Moves, Zenon
    <3>2. ~Prepare(r) /\ req[r].step # "done"
      BY <2>5 DEF StartRollback, MayStart, Prepare
    <3> QED
      BY <2>1, <3>1, <3>2
  <2>6. CASE Check(r) \/ Apply(r) \/ CommitPatch(r) \/ Validate(r)
    <3>1. PICK p \in Request : p = req[r].plan
      BY <2>6, PlanInHand
    <3>2. /\ req[r].step \in {"checking", "applying", "committing", "validating"}
          /\ ~Prepare(r) /\ req[r].ends = "none"
      BY <2>0, <2>6 DEF Check, Apply, CommitPatch, Validate, Prepare, Stage
    <3>3. Bases2(r)
      BY <2>0, <2>3, <3>2 DEF Untraced
    <3>4. \/ Becomes(r, "undoing", p, <<>>, "failed")
          \/ \E s, t : s \in {"applying", "committing", "validating", "done"} /\ Becomes(r, s, p, t, "none")
      <4>1. CASE Check(r)
        <5>1. \/ Becomes(r, "applying", p, plan[p].cands, "none")
              \/ Becomes(r, "done", p, req[r].todo, "none")
          BY <3>1, <3>2, <4>1, IntegrationMoves, Zenon
        <5> QED
          BY <5>1
      <4>2. CASE Apply(r)
        <5>1. \/ Becomes(r, "committing", p, req[r].todo, "none")
              \/ Becomes(r, "undoing", p, <<>>, "failed")
          BY <3>1, <3>2, <4>2, IntegrationMoves, Zenon
        <5> QED
          BY <5>1
      <4>3. CASE CommitPatch(r)
        <5>1. \/ Becomes(r, "undoing", p, <<>>, "failed")
              \/ Becomes(r, IF Len(req[r].todo) = 1 THEN "validating" ELSE "applying",
                         p, Tail(req[r].todo), "none")
          BY <3>1, <3>2, <4>3, IntegrationMoves, Zenon
        <5> QED
          BY <5>1
      <4>4. CASE Validate(r)
        <5>1. \/ Becomes(r, "done", p, req[r].todo, "none")
              \/ Becomes(r, "undoing", p, <<>>, "failed")
          BY <3>1, <3>2, <4>4, IntegrationMoves, Zenon
        <5> QED
          BY <5>1
      <4> QED
        BY <2>6, <4>1, <4>2, <4>3, <4>4
    <3>5. \/ req'[r].step = "undoing"
          \/ req'[r].step \in {"applying", "committing", "validating", "done"} /\ req'[r].ends = "none"
      BY <3>4 DEF Becomes
    <3> QED
      BY <3>3, <3>5 DEF Untraced
  <2>7. CASE Reset(r)
    <3>1. PICK p \in Request : p = req[r].plan
      BY <2>7, PlanInHand
    <3>2. Bases(r) /\ ~Prepare(r) /\ head' = plan[p].base
      BY <2>0, <2>7, <3>1 DEF Reset, Prepare, Untraced
    <3>3. Bases2(r) /\ Absent(head', r)
      BY <2>3, <3>2
    <3> QED
      BY <3>3 DEF Untraced
  <2>8. CASE Close(r)
    <3>1. PICK p \in Request : p = req[r].plan
      BY <2>8, PlanInHand
    <3>2. Becomes(r, "done", p, req[r].todo, req[r].ends)
      BY <2>8, <3>1, IntegrationMoves, Zenon
    <3>3. req'[r].step = "done" /\ req'[r].ends = req[r].ends /\ req[r].step = "undone" /\ UNCHANGED head
      BY <2>8, <3>2 DEF Becomes, Close
    <3>4. Bases2(r)
      BY <2>0, <2>3, <3>3 DEF Untraced, Prepare
    <3> QED
      BY <2>0, <3>3, <3>4 DEF Untraced
  <2> QED
    BY <1>4, <2>2, <2>4, <2>5, <2>6, <2>7, <2>8, Zenon DEF RequestStep
<1>5. CASE Push
  <2>1. head' = Append(head, [by |-> NoRequest, patches |-> {}]) /\ UNCHANGED <<plan, req>>
    BY <1>5 DEF Push
  <2>2. \A q \in Request : Absent(head, q) => Absent(head', q)
    BY <1>2, <2>1
  <2> QED
    BY <2>1, <2>2 DEF Traces, Untraced
<1>6. CASE UNCHANGED <<head, plan, req>>
  BY <1>6 DEF Traces, Untraced
<1> QED
  BY <1>3, <1>4, <1>5, <1>6, WhoSteps, Zenon DEF Traces

LEMMA CleanStep ==
    ASSUME ~Concurrent, Solo, Clean, Within(Candidate), InHand, [Next]_vars
    PROVE  Clean'
<1>1. ASSUME NEW r \in Request, RequestStep(r)
      PROVE  Clean'
  <2>1. \A q \in Request \ {r} : ~Active(q) /\ req'[q] = req[q]
    BY <1>1, Alone
  <2>2. req[r].step \notin {"committing", "undoing"} => index = {}
    BY <2>1 DEF Clean, Active
  <2>3. CASE index' = {}
    BY <2>3 DEF Clean
  <2>4. CASE req'[r].step \in {"committing", "undoing"}
    BY <2>4 DEF Clean
  <2>5. CASE UNCHANGED index /\ req[r].step \notin {"committing", "undoing"}
    BY <2>2, <2>3, <2>5
  <2>6. CASE Apply(r) \/ CommitPatch(r)
    <3>1. PICK p \in Request : p = req[r].plan
      BY <2>6, PlanInHand
    <3>2. CASE Apply(r)
      <4>1. Becomes(r, "committing", p, req[r].todo, req[r].ends) \/ Becomes(r, "undoing", p, <<>>, "failed")
        BY <3>1, <3>2, IntegrationMoves, Zenon
      <4> QED
        BY <2>4, <4>1 DEF Becomes
    <3>3. CASE CommitPatch(r)
      <4>1. index' = {} \/ Becomes(r, "undoing", p, <<>>, "failed")
        BY <3>1, <3>3, IntegrationMoves, Zenon
      <4> QED
        BY <2>3, <2>4, <4>1 DEF Becomes
    <3> QED
      BY <2>6, <3>2, <3>3
  <2>7. CASE Reset(r)
    BY <2>3, <2>7 DEF Reset
  <2>8. CASE Prepare(r) \/ Check(r) \/ Validate(r) \/ Close(r) \/ StartPrepare(r)
    BY <2>5, <2>8 DEF Prepare, Check, Validate, Close, StartPrepare, MayStart
  <2>9. ASSUME NEW p \in Request, StartExecute(r, p) \/ StartRollback(r, p)
        PROVE  Clean'
    BY <2>5, <2>9 DEF StartExecute, StartRollback, MayStart
  <2> QED
    BY <1>1, <2>6, <2>7, <2>8, <2>9, Zenon DEF RequestStep
<1>2. CASE UNCHANGED <<index, req>>
  BY <1>2 DEF Clean
<1> QED
  BY <1>1, <1>2, WhoSteps, Zenon DEF Push

(* One more patch on top of the base, and one fewer to do.                  *)
LEMMA ExactStart ==
    ASSUME NEW r, NEW S, NEW T, NEW b \in Seq(S), NEW c \in Seq(T)
    PROVE  Exact(r, b, c, c, b)
BY DEF Exact

LEMMA ExactCommit ==
    ASSUME NEW r, NEW S, NEW T, NEW b \in Seq(S), NEW c \in Seq(T), NEW t \in Seq(T), t # <<>>,
           NEW h \in Seq(S), Exact(r, b, c, t, h)
    PROVE  Exact(r, b, c, Tail(t), Append(h, [by |-> r, patches |-> {Head(t)}]))
<1>0. PICK n \in Nat : n = Len(c) - Len(t)
  <2>1. Len(c) - Len(t) \in 0..Len(c) /\ Len(c) \in Nat /\ Len(t) \in Nat
    BY DEF Exact
  <2>2. Len(c) - Len(t) \in Nat
    BY <2>1
  <2> QED
    BY <2>2, Zenon
<1> DEFINE e == [by |-> r, patches |-> {Head(t)}]
           h2 == Append(h, e)
           t2 == Tail(t)
<1>1. /\ Len(t) \in Nat \ {0} /\ Len(c) \in Nat /\ Len(b) \in Nat /\ Len(h) \in Nat
      /\ Len(t2) = Len(t) - 1 /\ Head(t) = t[1]
      /\ \A i \in 1..Len(t2) : t2[i] = t[i + 1]
  <2>1. Len(t2) = Len(t) - 1 /\ \A i \in 1..Len(t2) : t2[i] = t[i + 1]
    BY HeadTailProperties
  <2>2. Len(t) \in Nat \ {0}
    BY EmptySeq
  <2> QED
    BY <2>1, <2>2
<1>2. /\ Len(h2) = Len(h) + 1 /\ h2[Len(h) + 1] = e
      /\ \A i \in 1..Len(h) : h2[i] = h[i]
  OBVIOUS
<1>3. /\ n \in 0..Len(c) /\ Len(h) = Len(b) + n
      /\ \A i \in 1..Len(b) : h[i] = b[i]
      /\ \A i \in 1..n : h[Len(b) + i] = [by |-> r, patches |-> {c[i]}]
      /\ \A i \in 1..Len(t) : t[i] = c[n + i]
  BY <1>0 DEF Exact
<1>4. e = [by |-> r, patches |-> {c[n + 1]}]
  <2>1. t[1] = c[n + 1]
    BY <1>1, <1>3
  <2> QED
    BY <1>1, <2>1
<1> HIDE DEF e, h2, t2
<1>5. Len(c) - Len(t2) = n + 1 /\ n + 1 \in 0..Len(c) /\ Len(h2) = Len(b) + (n + 1)
  BY <1>0, <1>1, <1>2, <1>3
<1>6. \A i \in 1..Len(b) : h2[i] = b[i]
  BY <1>1, <1>2, <1>3
<1>7. \A i \in 1..(n + 1) : h2[Len(b) + i] = [by |-> r, patches |-> {c[i]}]
  <2> SUFFICES ASSUME NEW i \in 1..(n + 1)
               PROVE  h2[Len(b) + i] = [by |-> r, patches |-> {c[i]}]
    OBVIOUS
  <2>1. CASE i = n + 1
    BY <1>1, <1>2, <1>3, <1>4, <2>1
  <2>2. CASE i # n + 1
    <3>1. i \in 1..n /\ Len(b) + i \in 1..Len(h)
      BY <1>1, <1>3, <2>2
    <3> QED
      BY <1>2, <1>3, <3>1
  <2> QED
    BY <2>1, <2>2
<1>8. \A i \in 1..Len(t2) : t2[i] = c[(n + 1) + i]
  BY <1>1, <1>3
<1>9. Exact(r, b, c, t2, h2)
  BY <1>5, <1>6, <1>7, <1>8 DEF Exact
<1> QED
  BY <1>9 DEF e, h2, t2

(* At the end the branch is the base followed by one commit per patch.      *)
LEMMA ExactEnd ==
    ASSUME NEW r \in Request, NEW b \in Seq(Commit), NEW c \in Seq(Candidate),
           NEW h \in Seq(Commit), Exact(r, b, c, <<>>, h)
    PROVE  h = b \o [i \in DOMAIN c |-> [by |-> r, patches |-> {c[i]}]]
<1> DEFINE tail == [i \in DOMAIN c |-> [by |-> r, patches |-> {c[i]}]]
<1>1. \A i \in DOMAIN c : [by |-> r, patches |-> {c[i]}] \in Commit
  BY DEF Commit
<1>2. tail \in Seq(Commit) /\ Len(tail) = Len(c)
  <2>1. PICK n \in Nat : n = Len(c) /\ DOMAIN c = 1..n
    OBVIOUS
  <2>2. tail \in [1..n -> Commit]
    BY <1>1, <2>1
  <2> HIDE DEF tail
  <2>3. tail \in Seq(Commit) /\ Len(tail) = n
    BY <2>2
  <2> QED
    BY <2>1, <2>3
<1>3. \A i \in 1..Len(c) : tail[i] = [by |-> r, patches |-> {c[i]}]
  <2>1. DOMAIN c = 1..Len(c)
    OBVIOUS
  <2> QED
    BY <2>1
<1> HIDE DEF tail
<1>4. /\ Len(h) = Len(b) + Len(c)
      /\ \A i \in 1..Len(b) : h[i] = b[i]
      /\ \A i \in 1..Len(c) : h[Len(b) + i] = [by |-> r, patches |-> {c[i]}]
  BY EmptySeq DEF Exact
<1>5. /\ b \o tail \in Seq(Commit) /\ Len(b \o tail) = Len(b) + Len(c)
      /\ \A i \in 1..(Len(b) + Len(c)) :
            (b \o tail)[i] = IF i <= Len(b) THEN b[i] ELSE tail[i - Len(b)]
  <2>1. PICK x \in Seq(Commit) : x = tail
    BY <1>2
  <2>2. /\ b \o x \in Seq(Commit) /\ Len(b \o x) = Len(b) + Len(x)
        /\ \A i \in 1..(Len(b) + Len(x)) :
              (b \o x)[i] = IF i <= Len(b) THEN b[i] ELSE x[i - Len(b)]
    OBVIOUS
  <2> QED
    BY <1>2, <2>1, <2>2
<1>6. \A i \in 1..Len(h) : h[i] = (b \o tail)[i]
  <2> SUFFICES ASSUME NEW i \in 1..Len(h) PROVE h[i] = (b \o tail)[i]
    OBVIOUS
  <2>1. CASE i <= Len(b)
    BY <1>4, <1>5, <2>1
  <2>2. CASE ~(i <= Len(b))
    <3>1. i - Len(b) \in 1..Len(c) /\ i = Len(b) + (i - Len(b))
      BY <1>4, <2>2
    <3> QED
      BY <1>3, <1>4, <1>5, <2>2, <3>1
  <2> QED
    BY <2>1, <2>2
<1>7. h = b \o tail
  BY <1>4, <1>5, <1>6, SeqEqual
<1> QED
  BY <1>7 DEF tail

LEMMA ProgressStep ==
    ASSUME ~Concurrent, Solo, Stages, Clean, Progress, Within(Candidate), InHand, [Next]_vars
    PROVE  Progress'
<1> DEFINE Placed(q) ==
              /\ Integrating(q) => OnTop(q, req[q].plan)
              /\ req[q].step = "committing" => index = {Head(req[q].todo)}
              /\ req[q].step = "validating" => req[q].todo = <<>>
           Placed2(q) ==
              /\ Integrating(q)' => OnTop(q, req[q].plan)'
              /\ req'[q].step = "committing" => index' = {Head(req'[q].todo)}
              /\ req'[q].step = "validating" => req'[q].todo = <<>>
<1>0. head \in Seq(Commit)
  BY DEF Within, BranchOf, CommitOf, Commit
<1>1. ASSUME NEW q \in Request, req'[q].step \notin {"applying", "committing", "validating"}
      PROVE  Placed2(q)
  BY <1>1 DEF Integrating
<1>2. ASSUME NEW r \in Request, RequestStep(r), NEW q \in Request \ {r}
      PROVE  Placed2(q)
  <2>1. ~Active(q) /\ req'[q] = req[q]
    BY <1>2, Alone
  <2> QED
    BY <1>1, <2>1 DEF Active
<1>3. ASSUME NEW r \in Request, NEW p, NEW s, NEW t, NEW e, Becomes(r, s, p, t, e),
             s \notin {"applying", "committing", "validating"}
      PROVE  Placed2(r)
  BY <1>1, <1>3 DEF Becomes
<1>4. ASSUME NEW r \in Request, NEW p \in Request, NEW s, NEW t, NEW e, Becomes(r, s, p, t, e),
             Exact(r, plan'[p].base, plan'[p].cands, t, head'),
             s = "committing" => index' = {Head(t)}, s = "validating" => t = <<>>
      PROVE  Placed2(r)
  <2>1. req'[r].step = s /\ req'[r].plan = p /\ req'[r].todo = t
    BY <1>4 DEF Becomes
  <2>2. OnTop(r, req[r].plan)'
    BY <1>4, <2>1, Zenon DEF OnTop
  <2> QED
    BY <1>4, <2>1, <2>2
<1>5. ASSUME NEW r \in Request, Check(r) \/ Apply(r) \/ CommitPatch(r) \/ Validate(r)
      PROVE  Placed2(r)
  <2>1. PICK p \in Request : p = req[r].plan
    BY <1>5, PlanInHand
  <2>2. /\ req[r].step \in {"checking", "applying", "committing", "validating"}
        /\ plan[p].status # "none"
    BY <1>5, <2>1 DEF Check, Apply, CommitPatch, Validate, Stages, Stage
  <2>3. PICK b \in Seq(Commit), c \in Seq(Candidate), t \in Seq(Candidate) :
           /\ b = plan[p].base /\ c = plan[p].cands /\ t = req[r].todo
           /\ plan'[p].base = b /\ plan'[p].cands = c
    <3>1. /\ plan[p].base \in Seq(Commit) /\ plan[p].cands \in Seq(Candidate)
          /\ req[r].todo \in Seq(Candidate)
      BY DEF Within, PlanOf, RequestOf, BranchOf, ListOf, CommitOf, Commit
    <3>2. plan'[p].base = plan[p].base /\ plan'[p].cands = plan[p].cands
      BY <2>2, PlansKept
    <3> QED
      BY <3>1, <3>2
  <2>4. Placed(r)
    BY DEF Progress
  <2>5. Becomes(r, "undoing", p, <<>>, "failed") => Placed2(r)
    BY <1>3
  <2>6. CASE Check(r)
    <3>1. \/ head = b /\ Becomes(r, "applying", p, c, req[r].ends)
          \/ Becomes(r, "done", p, t, req[r].ends)
      BY <2>1, <2>3, <2>6, IntegrationMoves, Zenon
    <3>2. UNCHANGED head
      BY <2>6 DEF Check
    <3>3. Exact(r, b, c, c, b)
      BY ExactStart
    <3>4. CASE head = b /\ Becomes(r, "applying", p, c, req[r].ends)
      <4>1. Exact(r, plan'[p].base, plan'[p].cands, c, head')
        BY <2>3, <3>2, <3>3, <3>4, Zenon
      <4> QED
        BY <1>4, <3>4, <4>1
    <3> QED
      BY <1>3, <3>1, <3>4
  <2>7. CASE Apply(r)
    <3>1. \/ Becomes(r, "committing", p, t, req[r].ends)
          \/ Becomes(r, "undoing", p, <<>>, "failed")
      BY <2>1, <2>3, <2>7, IntegrationMoves, Zenon
    <3>2. CASE Becomes(r, "committing", p, t, req[r].ends)
      <4>1. index = {}
        <5>1. \A q \in Request \ {r} : ~Active(q)
          BY <2>7, Alone DEF RequestStep
        <5>2. req[r].step = "applying"
          BY <2>7 DEF Apply
        <5> QED
          BY <5>1, <5>2 DEF Clean, Active
      <4>2. req'[r].step = "committing"
        BY <3>2 DEF Becomes
      <4>3. ~GiveUp(r)
        BY <4>2, GivesUp DEF Becomes
      <4>4. index' = {Head(t)} /\ UNCHANGED head
        BY <2>3, <2>7, <4>1, <4>3 DEF Apply
      <4>5. Exact(r, b, c, t, head)
        BY <2>1, <2>3, <2>4, <2>7 DEF Apply, Integrating, OnTop
      <4>6. Exact(r, plan'[p].base, plan'[p].cands, t, head')
        BY <2>3, <4>4, <4>5, Zenon
      <4> QED
        BY <1>4, <3>2, <4>4, <4>6
    <3> QED
      BY <2>5, <3>1, <3>2
  <2>8. CASE CommitPatch(r)
    <3> DEFINE s == IF Len(t) = 1 THEN "validating" ELSE "applying"
    <3>1. \/ /\ head' = Append(head, [by |-> r, patches |-> index])
             /\ Becomes(r, s, p, Tail(t), req[r].ends)
          \/ Becomes(r, "undoing", p, <<>>, "failed")
      BY <2>1, <2>3, <2>8, IntegrationMoves, Zenon
    <3>2. req[r].step = "committing" /\ t # <<>>
      BY <2>3, <2>8 DEF CommitPatch, InHand, HasPatch
    <3>3. index = {Head(t)} /\ Exact(r, b, c, t, head)
      BY <2>1, <2>3, <2>4, <3>2 DEF Integrating, OnTop
    <3>4. CASE /\ head' = Append(head, [by |-> r, patches |-> index])
               /\ Becomes(r, s, p, Tail(t), req[r].ends)
      <4>1. Exact(r, b, c, Tail(t), Append(head, [by |-> r, patches |-> {Head(t)}]))
        BY <1>0, <3>2, <3>3, ExactCommit
      <4>2. Exact(r, plan'[p].base, plan'[p].cands, Tail(t), head')
        BY <2>3, <3>3, <3>4, <4>1, Zenon
      <4>3. s # "committing" /\ (s = "validating" => Tail(t) = <<>>)
        <5>1. Len(t) = 1 => Tail(t) = <<>>
          <6>1. Len(Tail(t)) = Len(t) - 1 /\ Tail(t) \in Seq(Candidate)
            BY <3>2, HeadTailProperties
          <6>2. PICK u \in Seq(Candidate) : u = Tail(t)
            BY <6>1
          <6>3. Len(u) = 0 => u = <<>>
            OBVIOUS
          <6>4. Len(t) = 1 => Len(u) = 0
            BY <6>1, <6>2
          <6> QED
            BY <6>2, <6>3, <6>4
        <5> QED
          BY <5>1
      <4> HIDE DEF s
      <4> QED
        BY <1>4, <3>4, <4>2, <4>3
    <3> QED
      BY <2>5, <3>1, <3>4
  <2>9. CASE Validate(r)
    <3>1. \/ Becomes(r, "done", p, t, req[r].ends)
          \/ Becomes(r, "undoing", p, <<>>, "failed")
      BY <2>1, <2>3, <2>9, IntegrationMoves, Zenon
    <3>2. Becomes(r, "done", p, t, req[r].ends) => Placed2(r)
      BY <1>3
    <3> QED
      BY <2>5, <3>1, <3>2, Zenon
  <2> QED
    BY <1>5, <2>6, <2>7, <2>8, <2>9
<1>6. ASSUME NEW r \in Request, StartPrepare(r) \/ Prepare(r) \/ Reset(r) \/ Close(r)
      PROVE  Placed2(r)
  <2>1. \E s \in {"preparing", "done", "undone"} : \E p, t, e : Becomes(r, s, p, t, e)
    <3>1. CASE Close(r)
      <4>1. PICK p \in Request : p = req[r].plan
        BY <3>1, PlanInHand
      <4>2. Becomes(r, "done", p, req[r].todo, req[r].ends)
        BY <3>1, <4>1, IntegrationMoves, Zenon
      <4> QED
        BY <4>2
    <3>2. CASE StartPrepare(r)
      <4>1. \E t \in ListOf(Candidate) : Becomes(r, "preparing", req[r].plan, t, req[r].ends)
        BY <3>2, Moves, Zenon
      <4> QED
        BY <4>1
    <3>3. CASE Prepare(r)
      <4>1. Becomes(r, "done", req[r].plan, <<>>, req[r].ends)
        BY <3>3, Moves, Zenon
      <4> QED
        BY <4>1
    <3>4. CASE Reset(r)
      <4>1. Becomes(r, "undone", req[r].plan, req[r].todo, req[r].ends)
        BY <3>4, Moves, Zenon
      <4> QED
        BY <4>1
    <3> QED
      BY <1>6, <3>1, <3>2, <3>3, <3>4
  <2>2. PICK s \in {"preparing", "done", "undone"} : \E p, t, e : Becomes(r, s, p, t, e)
    BY <2>1
  <2>3. req'[r].step = s
    BY <2>2 DEF Becomes
  <2> QED
    BY <1>1, <2>3
<1>7. ASSUME NEW r \in Request, NEW p \in Request, StartExecute(r, p) \/ StartRollback(r, p)
      PROVE  Placed2(r)
  <2>1. \/ Becomes(r, "checking", p, req[r].todo, req[r].ends)
        \/ Becomes(r, "undoing", p, req[r].todo, "rolled-back")
    BY <1>7, Moves, Zenon
  <2> QED
    BY <1>3, <2>1
<1>8. CASE \E r \in Request : RequestStep(r)
  <2>1. PICK r \in Request : RequestStep(r)
    BY <1>8
  <2>2. Placed2(r)
    BY <1>5, <1>6, <1>7, <2>1, Zenon DEF RequestStep
  <2>3. \A q \in Request : Placed2(q)
    BY <1>2, <2>1, <2>2
  <2> QED
    BY <2>3, Zenon DEF Progress
<1>9. CASE Push
  <2>1. \A q \in Request : ~Active(q) /\ req'[q] = req[q]
    BY <1>9 DEF Push
  <2>2. \A q \in Request : Placed2(q)
    BY <1>1, <2>1 DEF Active
  <2> QED
    BY <2>2, Zenon DEF Progress
<1>10. CASE UNCHANGED <<head, index, plan, req>>
  BY <1>10 DEF Progress, Integrating, OnTop
<1> QED
  BY <1>8, <1>9, <1>10, WhoSteps

(* A candidate that was submitted stays so, with its base and its files:    *)
(* ChangeCandidateService.submitCandidate is called once for a worktree.   *)
LEMMA FiledKept ==
    ASSUME Records, [Next]_vars, NEW c \in Filed
    PROVE  /\ c \in Filed'
           /\ cand'[c].base = cand[c].base /\ cand'[c].files = cand[c].files
<1> DEFINE Kept == /\ cand'[c].status \notin {"none", "open", "submitting"}
                   /\ cand'[c].base = cand[c].base /\ cand'[c].files = cand[c].files
<1>1. /\ c \in Candidate /\ cand[c].status \notin {"none", "open", "submitting"}
      /\ cand[c] \in [status : CandidateStatus, base : Seq(Commit), files : SUBSET File]
      /\ cand = [d \in Candidate |-> cand[d]]
  BY DEF Filed, Submitted, Records
<1>2. ASSUME NEW d \in Candidate, OpenWorkspace(d) \/ StartSubmit(d) \/ Submit(d)
      PROVE  Kept
  <2>1. d # c
    BY <1>1, <1>2 DEF OpenWorkspace, StartSubmit, Submit
  <2>2. \E x : cand' = [cand EXCEPT ![d] = x]
    <3>1. CASE OpenWorkspace(d)
      BY <3>1 DEF OpenWorkspace
    <3>2. CASE StartSubmit(d)
      BY <3>2 DEF StartSubmit
    <3>3. CASE Submit(d)
      BY <3>3 DEF Submit
    <3> QED
      BY <1>2, <3>1, <3>2, <3>3
  <2>3. cand'[c] = cand[c]
    BY <1>1, <2>1, <2>2
  <2> QED
    BY <1>1, <2>3
<1>3. ASSUME NEW d \in Candidate, NEW s \in {"under-review", "approved", "rejected"},
             cand' = [cand EXCEPT ![d].status = s]
      PROVE  Kept
  BY <1>1, <1>3
<1>4. ASSUME NEW r \in Request, Validate(r)
      PROVE  Kept
  <2>1. cand'[c] = cand[c] \/ cand'[c] = [cand[c] EXCEPT !.status = "integrated"]
    BY <1>1, <1>4 DEF Validate
  <2> QED
    BY <1>1, <2>1
<1>5. ASSUME UNCHANGED cand
      PROVE  Kept
  <2>1. cand[c].status \notin {"none", "open", "submitting"}
    BY <1>1
  <2> QED
    BY <1>5, <2>1
<1>6. Kept
  <2>1. ASSUME NEW d \in Candidate, Accept(d) \/ Reject(d) \/ \E m \in Member : Review(d, m)
        PROVE  Kept
    BY <1>3, <2>1 DEF Accept, Reject, Review
  <2>2. \/ \E d \in Candidate :
              \/ OpenWorkspace(d) \/ StartSubmit(d) \/ Submit(d)
              \/ Accept(d) \/ Reject(d) \/ \E m \in Member : Review(d, m)
        \/ \E r \in Request : Validate(r)
        \/ UNCHANGED cand
    BY ZenonT(30) DEF Next, vars, StartPrepare, Prepare, StartExecute, StartRollback, Check,
       Apply, CommitPatch, Reset, Close, Push
  <2> HIDE DEF Kept
  <2> QED
    BY <1>2, <1>4, <1>5, <2>1, <2>2, Zenon
<1> QED
  BY <1>1, <1>6 DEF Filed, Submitted

LEMMA FiledStep ==
    ASSUME Records, InHand, Within(Filed), [Next]_vars
    PROVE  Within(Filed)'
<1>1. PICK A \in SUBSET Candidate : A = Filed
  BY DEF Filed
<1>2. Within(A) /\ Accepted \subseteq A
  BY <1>1 DEF Accepted, Filed, Submitted
<1>3. Within(A)'
  BY <1>2, WithinStep
<1>4. PICK B \in SUBSET Candidate : B = Filed'
  BY DEF Filed
<1>5. A \subseteq B
  BY <1>1, <1>4, FiledKept
<1>6. Within(B)'
  BY <1>3, <1>5, WithinMonotone
<1> QED
  BY <1>4, <1>6 DEF Within

(* What a plan was found to be, it stays.                                   *)
LEMMA ReadyKept ==
    ASSUME Records, Stages, InHand, Within(Candidate), Within(Filed), [Next]_vars,
           NEW p \in Request, plan[p].status # "none"
    PROVE  Ready(p)' <=> Ready(p)
<1>1. plan'[p].base = plan[p].base /\ plan'[p].cands = plan[p].cands
  BY PlansKept
<1>2. plan[p].cands \in Seq(Filed)
  BY DEF Within, PlanOf, ListOf
<1>3. PICK P \in SUBSET Filed : P = PatchesOf(p)
  <2>1. \A i \in DOMAIN plan[p].cands : plan[p].cands[i] \in Filed
    BY <1>2, ElementOfSeq
  <2>2. PatchesOf(p) \in SUBSET Filed
    BY <2>1 DEF PatchesOf
  <2> QED
    BY <2>2, Zenon
<1>4. P = PatchesOf(p)'
  BY <1>1, <1>3 DEF PatchesOf
<1>5. \A c \in P : cand'[c].base = cand[c].base /\ cand'[c].files = cand[c].files
  BY FiledKept
<1>6. Ready(p) <=> /\ \A c \in P : cand[c].base = plan[p].base /\ ~OutOfBounds(c)
                   /\ ~Overlap(P)
  BY <1>3 DEF Ready
<1>7. Ready(p)' <=> /\ \A c \in P : cand'[c].base = plan[p].base /\ ~OutOfBounds(c)'
                    /\ ~Overlap(P)'
  BY <1>1, <1>4 DEF Ready
<1>8. \A c \in P : OutOfBounds(c)' <=> OutOfBounds(c)
  BY <1>5 DEF OutOfBounds
<1>9. Overlap(P)' <=> Overlap(P)
  BY <1>5 DEF Overlap
<1> QED
  BY <1>5, <1>6, <1>7, <1>8, <1>9

(* A plan's status is changed by the request that prepares it, by one that  *)
(* finds it integrated, or to one of the other outcomes.                   *)
LEMMA StatusMoves ==
    ASSUME Within(Candidate), InHand, [Next]_vars, NEW p \in Request
    PROVE  \/ plan'[p] = plan[p]
           \/ Prepare(p)
           \/ /\ plan'[p].status = "succeeded"
              /\ \E r \in Request : Validate(r) /\ p = req[r].plan
           \/ plan'[p].status \in {"executing", "failed", "rolled-back", "none"}
<1> DEFINE Moved == \/ plan'[p] = plan[p]
                    \/ Prepare(p)
                    \/ /\ plan'[p].status = "succeeded"
                       /\ \E r \in Request : Validate(r) /\ p = req[r].plan
                    \/ plan'[p].status \in {"executing", "failed", "rolled-back", "none"}
<1>1. ASSUME NEW r \in Request, Prepare(r)
      PROVE  Moved
  <2>1. \A q \in Request \ {r} : plan'[q] = plan[q]
    BY <1>1, Moves DEF Turns
  <2> QED
    BY <1>1, <2>1
<1>2. ASSUME NEW r \in Request, Check(r) \/ Validate(r) \/ Close(r)
      PROVE  Moved
  <2>1. PICK q \in Request : q = req[r].plan
    BY <1>2, PlanInHand
  <2>2. CASE q # p
    <3>1. UNCHANGED plan \/ \E s : Turns(q, s, plan[q].base, plan[q].cands)
      BY <1>2, <2>1, IntegrationMoves, Zenon
    <3> QED
      BY <2>2, <3>1 DEF Turns
  <2>3. CASE q = p
    <3>1. Check(r) => \/ Turns(q, "executing", plan[q].base, plan[q].cands)
                      \/ Turns(q, "failed", plan[q].base, plan[q].cands)
      BY <2>1, IntegrationMoves, Zenon
    <3>2. Close(r) => Turns(q, req[r].ends, plan[q].base, plan[q].cands)
      BY <2>1, IntegrationMoves, Zenon
    <3>3. req[r].ends \in {"none", "failed", "rolled-back"}
      BY DEF Within, RequestOf
    <3>5. Validate(r) => Turns(q, "succeeded", plan[q].base, plan[q].cands) \/ UNCHANGED plan
      BY <2>1, IntegrationMoves, Zenon
    <3>6. Validate(r) => plan'[p].status = "succeeded" \/ plan'[p] = plan[p]
      BY <2>3, <3>5 DEF Turns
    <3>4. Check(r) \/ Close(r) => plan'[p].status \in {"executing", "failed", "rolled-back", "none"}
      BY <2>3, <3>1, <3>2, <3>3 DEF Turns
    <3> QED
      BY <1>2, <2>1, <2>3, <3>4, <3>6
  <2> QED
    BY <2>2, <2>3
<1>3. Moved
  <2>1. UNCHANGED plan => Moved
    OBVIOUS
  <2> HIDE DEF Moved
  <2> QED
    BY <1>1, <1>2, <2>1, WhoSteps, Zenon DEF RequestStep, StartPrepare, StartExecute,
       StartRollback, Apply, CommitPatch, Reset, Push
<1> QED
  BY <1>3

LEMMA VouchedStep ==
    ASSUME ~Concurrent, Solo, Stages, Vouched, Records, Within(Candidate), Within(Filed), InHand,
           [Next]_vars
    PROVE  Vouched'
<1>0. \A p \in Request : plan[p].status # "none" /\ Ready(p) => Ready(p)'
  BY ReadyKept
<1> DEFINE Held(q) == req[q].step \in {"checking", "applying", "committing", "validating"}
           Held2(q) == req'[q].step \in {"checking", "applying", "committing", "validating"}
<1>1. ASSUME NEW p \in Request, plan'[p].status = "ready"
      PROVE  Ready(p)'
  <2>1. CASE Prepare(p)
    <3>1. ~Blocking({req[p].todo[i] : i \in DOMAIN req[p].todo})
      <4>1. plan'[p].status = IF Blocking({req[p].todo[i] : i \in DOMAIN req[p].todo})
                              THEN "preparing" ELSE "ready"
        BY <2>1 DEF Prepare, Within
      <4> QED
        BY <1>1, <4>1
    <3>2. plan'[p].base = head /\ plan'[p].cands = req[p].todo /\ UNCHANGED cand
      BY <2>1, Moves DEF Turns, Prepare
    <3>3. PICK P : P = {req[p].todo[i] : i \in DOMAIN req[p].todo}
      OBVIOUS
    <3>4. P = PatchesOf(p)'
      BY <3>2, <3>3 DEF PatchesOf
    <3>5. ~Blocking(P)
      BY <3>1, <3>3, Zenon
    <3>6. /\ \A c \in P : cand[c].base = head /\ ~OutOfBounds(c)
          /\ ~Overlap(P)
      BY <3>5 DEF Blocking
    <3>7. /\ \A c \in P : OutOfBounds(c)' <=> OutOfBounds(c)
          /\ Overlap(P)' <=> Overlap(P)
      BY <3>2 DEF OutOfBounds, Overlap
    <3> QED
      BY <3>2, <3>4, <3>6, <3>7 DEF Ready
  <2>2. CASE ~Prepare(p)
    <3>1. plan[p].status = "ready"
      BY <1>1, <2>2, StatusMoves
    <3> QED
      BY <1>0, <3>1 DEF Vouched
  <2> QED
    BY <2>1, <2>2
<1>2. ASSUME NEW q \in Request, Held(q), req'[q] = req[q]
      PROVE  Ready(req[q].plan)'
  <2>1. PICK p \in Request : p = req[q].plan
    BY <1>2 DEF InHand, HasPlan
  <2>2. Ready(p) /\ plan[p].status # "none"
    BY <1>2, <2>1 DEF Vouched, Stages, Stage
  <2>3. Ready(p)'
    BY <1>0, <2>2
  <2> QED
    BY <1>2, <2>1, <2>3, Zenon
<1>3. ASSUME NEW r \in Request, RequestStep(r), NEW q \in Request, Held2(q)
      PROVE  Ready(req[q].plan)'
  <2>1. CASE q # r
    <3>1. ~Active(q) /\ req'[q] = req[q]
      BY <1>3, <2>1, Alone
    <3> QED
      BY <1>3, <3>1 DEF Active
  <2>2. CASE \E p \in Request : q = r /\ StartExecute(r, p)
    <3>1. PICK p \in Request : q = r /\ StartExecute(r, p)
      BY <2>2
    <3>2. Becomes(r, "checking", p, req[r].todo, req[r].ends)
      BY <3>1, Moves, Zenon
    <3>3. req'[q].plan = p
      BY <3>1, <3>2 DEF Becomes
    <3>4. Ready(p) /\ plan[p].status # "none"
      BY <3>1 DEF StartExecute, Vouched
    <3>5. Ready(p)'
      BY <1>0, <3>4
    <3> QED
      BY <3>3, <3>5, Zenon
  <2>3. CASE q = r /\ (Check(r) \/ Apply(r) \/ CommitPatch(r) \/ Validate(r))
    <3>1. PICK p \in Request : p = req[r].plan
      BY <2>3, PlanInHand
    <3>2. Held(r)
      BY <2>3 DEF Check, Apply, CommitPatch, Validate
    <3>3. Ready(p) /\ plan[p].status # "none"
      BY <3>1, <3>2 DEF Vouched, Stages, Stage
    <3>4. Ready(p)'
      BY <1>0, <3>3
    <3>5. \E s, t, e : Becomes(r, s, p, t, e)
      BY <2>3, <3>1, IntegrationMoves, Zenon
    <3>6. req'[q].plan = p
      BY <2>3, <3>5 DEF Becomes
    <3> QED
      BY <3>4, <3>6, Zenon
  <2>4. CASE \E p \in Request : q = r /\ StartRollback(r, p)
    <3>1. PICK p \in Request : q = r /\ StartRollback(r, p)
      BY <2>4
    <3>2. Becomes(r, "undoing", p, req[r].todo, "rolled-back")
      BY <3>1, Moves, Zenon
    <3> QED
      BY <1>3, <3>1, <3>2 DEF Becomes
  <2>5. CASE q = r /\ (StartPrepare(r) \/ Prepare(r) \/ Reset(r) \/ Close(r))
    <3>1. CASE Close(r)
      <4>1. PICK p \in Request : p = req[r].plan
        BY <3>1, PlanInHand
      <4>2. Becomes(r, "done", p, req[r].todo, req[r].ends)
        BY <3>1, <4>1, IntegrationMoves, Zenon
      <4> QED
        BY <1>3, <2>5, <4>2 DEF Becomes
    <3>2. CASE StartPrepare(r)
      <4>1. PICK t : Becomes(r, "preparing", req[r].plan, t, req[r].ends)
        BY <3>2, Moves, Zenon
      <4> QED
        BY <1>3, <2>5, <4>1 DEF Becomes
    <3>3. CASE Prepare(r)
      <4>1. Becomes(r, "done", req[r].plan, <<>>, req[r].ends)
        BY <3>3, Moves, Zenon
      <4> QED
        BY <1>3, <2>5, <4>1 DEF Becomes
    <3>4. CASE Reset(r)
      <4>1. Becomes(r, "undone", req[r].plan, req[r].todo, req[r].ends)
        BY <3>4, Moves, Zenon
      <4> QED
        BY <1>3, <2>5, <4>1 DEF Becomes
    <3> QED
      BY <2>5, <3>1, <3>2, <3>3, <3>4
  <2> QED
    BY <1>3, <2>1, <2>2, <2>3, <2>4, <2>5, Zenon DEF RequestStep
<1>4. ASSUME NEW q \in Request, Held2(q)
      PROVE  Ready(req[q].plan)'
  <2>1. CASE UNCHANGED req
    BY <1>2, <1>4, <2>1
  <2>2. CASE \E r \in Request : RequestStep(r)
    BY <1>3, <1>4, <2>2
  <2> QED
    BY <2>1, <2>2, WhoSteps, Zenon DEF Push
<1> QED
  BY <1>1, <1>4 DEF Vouched

-----------------------------------------------------------------------------

LEMMA SerialInductive ==
    ASSUME ~Concurrent
    PROVE  /\ Init => SerialInv
           /\ IInv /\ SerialInv /\ [Next]_vars => SerialInv'
<1>1. ASSUME Init
      PROVE  SerialInv
  <2>1. Within(Filed)
    <3>1. <<>> \in BranchOf(Filed) /\ <<>> \in ListOf(Filed)
      BY DEF BranchOf, ListOf
    <3> QED
      BY <1>1, <3>1 DEF Init, Within, PlanOf, RequestOf, NoPlan, NewRequest, PlanStatus, Step
  <2>2. Solo /\ Stages /\ Clean /\ Vouched
    BY <1>1 DEF Init, Solo, Active, Stages, Stage, Clean, Vouched, NoPlan, NewRequest
  <2>3. Traces
    BY <1>1 DEF Init, Traces, Untraced, Absent, NoPlan, NewRequest
  <2>4. Progress
    BY <1>1 DEF Init, Progress, Integrating, NewRequest
  <2> QED
    BY <2>1, <2>2, <2>3, <2>4 DEF SerialInv
<1>2. ASSUME IInv, SerialInv, [Next]_vars
      PROVE  SerialInv'
  <2>1. /\ Records /\ InHand /\ Within(Candidate) /\ Within(Filed)
        /\ Solo /\ Stages /\ Traces /\ Clean /\ Progress /\ Vouched
    BY <1>2 DEF IInv, SerialInv
  <2>2. Solo' /\ Stages'
    BY <1>2, <2>1, SoloStep, StagesStep
  <2>3. Traces' /\ Clean'
    BY <1>2, <2>1, TracesStep, CleanStep
  <2>4. Progress' /\ Vouched'
    BY <1>2, <2>1, ProgressStep, VouchedStep
  <2>5. Within(Filed)'
    BY <1>2, <2>1, FiledStep
  <2> QED
    BY <2>2, <2>3, <2>4, <2>5 DEF SerialInv
<1> QED
  BY <1>1, <1>2

LEMMA SerialRuns ==
    ASSUME ~Concurrent
    PROVE  Spec => []SerialInv
BY Inductive, SerialInductive, PTL DEF Spec

(* Where requests do not overlap, an integration that failed has taken      *)
(* every commit it made off the branch, and no plan is based on one:        *)
(* IntegrationEngine.execute resets to the base before it answers.         *)
THEOREM NothingLeftBehind ==
    ASSUME ~Concurrent
    PROVE  Spec => []FailureLeavesNothing
<1>1. SerialInv => FailureLeavesNothing
  BY DEF SerialInv, Traces, Untraced, Absent, FailureLeavesNothing
<1> QED
  BY <1>1, SerialRuns, PTL

(* A plan recorded as succeeded has all its patches on the branch.          *)
THEOREM SucceededIsThere ==
    ASSUME ~Concurrent
    PROVE  Spec => SuccessIsReal
<1>1. ASSUME IInv, SerialInv, [Next]_vars, NEW p \in Request,
             plan[p].status # "succeeded", plan'[p].status = "succeeded",
             NEW i \in DOMAIN plan[p].cands
      PROVE  plan[p].cands[i] \in Patches'
  <2>1. InHand /\ Within(Candidate) /\ Progress
    BY <1>1 DEF IInv, SerialInv
  <2>2. ~Prepare(p)
    <3>1. Prepare(p) => \E s \in {"preparing", "ready"} : plan'[p].status = s
      BY <2>1, Moves DEF Turns
    <3> QED
      BY <1>1, <3>1
  <2>3. PICK r \in Request : Validate(r) /\ p = req[r].plan
    BY <1>1, <2>1, <2>2, StatusMoves
  <2>4. OnTop(r, p) /\ req[r].todo = <<>> /\ UNCHANGED head
    BY <2>1, <2>3 DEF Validate, Progress, Integrating
  <2>5. PICK b \in Seq(Commit), c \in Seq(Candidate) :
           b = plan[p].base /\ c = plan[p].cands /\ head \in Seq(Commit)
    BY <2>1 DEF Within, PlanOf, BranchOf, ListOf, CommitOf, Commit
  <2>6. Exact(r, b, c, <<>>, head)
    BY <2>4, <2>5 DEF OnTop
  <2>7. PICK n \in Nat, k \in Nat : n = Len(c) /\ k = Len(b)
    OBVIOUS
  <2>8. /\ Len(head) = k + n
        /\ \A j \in 1..n : head[k + j] = [by |-> r, patches |-> {c[j]}]
    BY <2>6, <2>7, EmptySeq DEF Exact
  <2>9. i \in 1..n
    BY <2>5, <2>7
  <2>10. DOMAIN head = 1..(k + n)
    BY <2>5, <2>8
  <2>11. k + i \in DOMAIN head
    BY <2>9, <2>10
  <2>12. head[k + i].patches = {c[i]}
    <3>1. head[k + i] = [by |-> r, patches |-> {c[i]}]
      BY <2>8, <2>9
    <3> QED
      BY <3>1
  <2> QED
    BY <2>4, <2>5, <2>11, <2>12 DEF Patches
<1>2. IInv /\ SerialInv /\ [Next]_vars =>
         [\A p \in Request : plan[p].status # "succeeded" /\ plan'[p].status = "succeeded" =>
             \A i \in DOMAIN plan[p].cands : plan[p].cands[i] \in Patches']_vars
  BY <1>1
<1> QED
  BY <1>2, Inductive, SerialRuns, PTL DEF Spec, SuccessIsReal

-----------------------------------------------------------------------------
(* Refinement: between the check of HEAD and the outcome the branch is seen *)
(* at the base of the plan, so that its commits become visible at once.     *)
LEMMA VisibleIs ==
    ASSUME Solo
    PROVE  /\ \A r \in Request : Executing(r) => Visible = plan[req[r].plan].base
           /\ (\A r \in Request : ~Executing(r)) => Visible = head
<1>1. ASSUME NEW r \in Request, Executing(r)
      PROVE  Visible = plan[req[r].plan].base
  <2>1. \A q \in Request : Executing(q) => Active(q)
    BY DEF Executing, Active
  <2>2. \A q \in Request : Executing(q) => q = r
    BY <1>1, <2>1 DEF Solo
  <2>3. (CHOOSE q \in Request : Executing(q)) = r
    BY <1>1, <2>2
  <2> QED
    BY <1>1, <2>3 DEF Visible
<1>2. (\A r \in Request : ~Executing(r)) => Visible = head
  BY DEF Visible
<1> QED
  BY <1>1, <1>2

LEMMA VisibleNext ==
    ASSUME Solo'
    PROVE  /\ \A r \in Request : Executing(r)' => Visible' = plan'[req'[r].plan].base
           /\ (\A r \in Request : ~Executing(r)') => Visible' = head'
<1>1. ASSUME NEW r \in Request, Executing(r)'
      PROVE  Visible' = plan'[req'[r].plan].base
  <2>1. \A q \in Request : Executing(q)' => Active(q)'
    BY DEF Executing, Active
  <2>2. \A q \in Request : Executing(q)' => q = r
    BY <1>1, <2>1 DEF Solo
  <2>3. (CHOOSE q \in Request : Executing(q)') = r
    BY <1>1, <2>2
  <2> QED
    BY <1>1, <2>3 DEF Visible
<1>2. (\A r \in Request : ~Executing(r)') => Visible' = head'
  BY DEF Visible
<1> QED
  BY <1>1, <1>2

(* The proposals are those made so far, and the one being made.             *)
Proposal(r) == [base |-> plan[r].base, cands |-> plan[r].cands, ready |-> Ready(r)]
Made == {r \in Request : plan[r].status # "none"}

LEMMA ProposalKept ==
    ASSUME Records, Stages, InHand, Within(Candidate), Within(Filed), [Next]_vars
    PROVE  \A p \in Made : p \in Made' /\ Proposal(p)' = Proposal(p)
<1> SUFFICES ASSUME NEW p \in Made
             PROVE  p \in Made' /\ Proposal(p)' = Proposal(p)
  OBVIOUS
<1>1. plan'[p].base = plan[p].base /\ plan'[p].cands = plan[p].cands /\ p \in Made'
  BY PlansKept DEF Made
<1>2. Ready(p)' = Ready(p)
  <2>1. Ready(p)' <=> Ready(p)
    BY ReadyKept DEF Made
  <2>2. Ready(p) \in BOOLEAN /\ Ready(p)' \in BOOLEAN
    BY DEF Ready
  <2> QED
    BY <2>1, <2>2
<1> QED
  BY <1>1, <1>2 DEF Proposal

LEMMA ProposedIs == Proposed = {Proposal(r) : r \in Made}
BY DEF Proposed, Proposal, Made

LEMMA ProposedNext == Proposed' = {Proposal(r)' : r \in Made'}
BY DEF Proposed, Proposal, Made

LEMMA ProposedKept ==
    ASSUME Records, Stages, InHand, Within(Candidate), Within(Filed), [Next]_vars
    PROVE  /\ (\A r \in Request : ~Prepare(r)) => Proposed' = Proposed
           /\ \A r \in Request : Prepare(r) =>
                 Proposed' = Proposed \cup {[base |-> head, cands |-> req[r].todo,
                                             ready |-> Ready(r)']}
<1>1. \A p \in Made : p \in Made' /\ Proposal(p)' = Proposal(p)
  BY ProposalKept
<1>2. \A p \in Request : p \notin Made /\ ~Prepare(p) => p \notin Made'
  BY PlansKept DEF Made
<1>3. ASSUME \A r \in Request : ~Prepare(r)
      PROVE  Proposed' = Proposed
  <2>1. Made' = Made
    BY <1>1, <1>2, <1>3 DEF Made
  <2> QED
    BY <1>1, <2>1, ProposedIs, ProposedNext
<1>4. ASSUME NEW r \in Request, Prepare(r)
      PROVE  Proposed' = Proposed \cup {[base |-> head, cands |-> req[r].todo,
                                         ready |-> Ready(r)']}
  <2>1. \A s \in {"preparing", "ready"} : s # "none"
    OBVIOUS
  <2>2. /\ plan'[r].base = head /\ plan'[r].cands = req[r].todo /\ plan'[r].status # "none"
        /\ \A q \in Request \ {r} : plan'[q] = plan[q]
    BY <1>4, <2>1, Moves DEF Turns
  <2>3. Made' = Made \cup {r} /\ r \notin Made
    BY <1>4, <2>2 DEF Made, Stages, Stage, Prepare
  <2>4. Proposal(r)' = [base |-> head, cands |-> req[r].todo, ready |-> Ready(r)']
    BY <2>2 DEF Proposal
  <2> QED
    BY <1>1, <2>3, <2>4, ProposedIs, ProposedNext
<1> QED
  BY <1>3, <1>4

LEMMA AtomicStep ==
    ASSUME ~Concurrent, IInv, SerialInv, [Next]_vars
    PROVE  [Atomic!Next]_<<Visible, Proposed>>
<1>0. /\ Records /\ InHand /\ Within(Candidate) /\ Within(Filed)
      /\ Solo /\ Stages /\ Clean /\ Progress /\ Vouched /\ Solo'
  BY SoloStep DEF IInv, SerialInv
<1>1. ASSUME Visible' = Visible, \A q \in Request : ~Prepare(q)
      PROVE  [Atomic!Next]_<<Visible, Proposed>>
  BY <1>0, <1>1, ProposedKept
<1>2. CASE Push
  <2>1. /\ \A q \in Request : ~Active(q) /\ ~Active(q)' /\ ~Prepare(q)
        /\ head' = Append(head, [by |-> NoRequest, patches |-> {}])
    BY <1>2 DEF Push, Active, Prepare
  <2>2. \A q \in Request : ~Executing(q) /\ ~Executing(q)'
    BY <2>1 DEF Executing, Active
  <2>3. Visible = head /\ Visible' = head'
    BY <1>0, <2>2, VisibleIs, VisibleNext
  <2>4. UNCHANGED Proposed
    BY <1>0, <2>1, ProposedKept
  <2>5. Atomic!Push
    BY <2>1, <2>3, <2>4 DEF Atomic!Push
  <2> QED
    BY <2>5 DEF Atomic!Next
<1>3. CASE UNCHANGED <<head, index, plan, req>>
  <2>1. Visible' = Visible
    BY <1>3 DEF Visible, Executing
  <2>2. CASE \A q \in Request : ~Prepare(q)
    BY <1>1, <2>1, <2>2
  <2>3. ASSUME NEW q \in Request, Prepare(q)
        PROVE  FALSE
    <3>1. req'[q].step = "done" /\ req[q].step = "preparing"
      BY <1>0, <2>3, Moves DEF Becomes, Prepare
    <3> QED
      BY <1>3, <3>1
  <2> QED
    BY <2>2, <2>3
<1>4. ASSUME NEW r \in Request, RequestStep(r)
      PROVE  [Atomic!Next]_<<Visible, Proposed>>
  <2>1. \A q \in Request \ {r} : ~Executing(q) /\ ~Executing(q)'
    <3>1. \A q \in Request \ {r} : ~Active(q) /\ req'[q] = req[q]
      BY <1>0, <1>4, Alone
    <3> QED
      BY <3>1 DEF Active, Executing
  <2>2. /\ Executing(r) => Visible = plan[req[r].plan].base
        /\ ~Executing(r) => Visible = head
        /\ Executing(r)' => Visible' = plan'[req'[r].plan].base
        /\ ~Executing(r)' => Visible' = head'
    BY <1>0, <2>1, VisibleIs, VisibleNext, Zenon
  <2>3. ASSUME ~Prepare(r)
        PROVE  \A q \in Request : ~Prepare(q)
    BY <1>0, <1>4, <2>3, NotPreparing
  <2>4. CASE Prepare(r)
    <3>1. req'[r].step = "done" /\ req[r].step = "preparing" /\ UNCHANGED head
      BY <1>0, <2>4, Moves DEF Becomes, Prepare
    <3>2. Visible = head /\ Visible' = Visible
      BY <2>2, <3>1 DEF Executing
    <3>3. PICK x : /\ x = [base |-> head, cands |-> req[r].todo, ready |-> Ready(r)']
                   /\ Proposed' = Proposed \cup {x}
      BY <1>0, <2>4, ProposedKept
    <3>4. CASE x \in Proposed
      BY <3>2, <3>3, <3>4
    <3>5. CASE x \notin Proposed
      <4>1. Atomic!Propose
        <5>1. x \in Proposed' \ Proposed /\ x.base = Visible
          BY <3>2, <3>3, <3>5
        <5> QED
          BY <3>2, <3>3, <5>1 DEF Atomic!Propose
      <4> QED
        BY <4>1 DEF Atomic!Next
    <3> QED
      BY <3>4, <3>5
  <2>5. CASE StartPrepare(r) \/ \E p \in Request : StartExecute(r, p)
    <3>1. req[r].step = "new" /\ UNCHANGED head /\ ~Prepare(r)
      BY <2>5 DEF StartPrepare, StartExecute, MayStart, Prepare
    <3>2. req'[r].step \in {"preparing", "checking"}
      BY <1>0, <2>5, Moves DEF Becomes
    <3>3. Visible' = Visible
      BY <2>2, <3>1, <3>2 DEF Executing
    <3> QED
      BY <1>1, <2>3, <3>1, <3>3
  <2>6. ASSUME NEW p \in Request, StartRollback(r, p)
        PROVE  [Atomic!Next]_<<Visible, Proposed>>
    <3>1. req[r].step = "new" /\ UNCHANGED head /\ ~Prepare(r)
      BY <2>6 DEF StartRollback, MayStart, Prepare
    <3>2. Becomes(r, "undoing", p, req[r].todo, "rolled-back")
      BY <1>0, <2>6, Moves, Zenon
    <3>3. Visible' = Visible
      BY <2>2, <3>1, <3>2 DEF Executing, Becomes
    <3> QED
      BY <1>1, <2>3, <3>1, <3>3
  <2>7. ASSUME NEW p \in Request, p = req[r].plan,
               Check(r) \/ Apply(r) \/ CommitPatch(r) \/ Validate(r) \/ Reset(r) \/ Close(r)
        PROVE  [Atomic!Next]_<<Visible, Proposed>>
    <3>1. /\ plan[p].status # "none" /\ ~Prepare(r)
          /\ req[r].step \in {"checking", "applying", "committing", "validating", "undoing", "undone"}
      BY <1>0, <2>7 DEF Check, Apply, CommitPatch, Validate, Reset, Close, Stages, Stage, Prepare
    <3>2. plan'[p].base = plan[p].base /\ plan'[p].cands = plan[p].cands
      BY <1>0, <3>1, PlansKept
    <3>3. /\ Executing(r) => Visible = plan[p].base
          /\ ~Executing(r) => Visible = head
          /\ Executing(r)' /\ req'[r].plan = p => Visible' = plan[p].base
          /\ ~Executing(r)' => Visible' = head'
      BY <2>2, <2>7, <3>2
    <3>4. Visible' = Visible => [Atomic!Next]_<<Visible, Proposed>>
      BY <1>1, <2>3, <3>1
    <3>5. Becomes(r, "undoing", p, <<>>, "failed") => Visible' = plan[p].base
      BY <3>3 DEF Becomes, Executing
    <3>6. CASE Check(r)
      <4>1. \/ head = plan[p].base /\ Becomes(r, "applying", p, plan[p].cands, req[r].ends)
            \/ Becomes(r, "done", p, req[r].todo, req[r].ends)
        BY <1>0, <2>7, <3>6, IntegrationMoves, Zenon
      <4>2. UNCHANGED head /\ Visible = head
        BY <3>3, <3>6 DEF Check, Executing
      <4>3. Visible' = Visible
        BY <3>3, <4>1, <4>2 DEF Becomes, Executing
      <4> QED
        BY <3>4, <4>3
    <3>7. CASE Apply(r) \/ CommitPatch(r)
      <4>1. Visible = plan[p].base
        BY <3>3, <3>7 DEF Apply, CommitPatch, Executing
      <4>2. \/ Becomes(r, "undoing", p, <<>>, "failed")
            \/ \E s \in {"applying", "committing", "validating"} : \E t, e : Becomes(r, s, p, t, e)
        <5>1. CASE Apply(r)
          <6>1. \/ Becomes(r, "committing", p, req[r].todo, req[r].ends)
                \/ Becomes(r, "undoing", p, <<>>, "failed")
            BY <1>0, <2>7, <5>1, IntegrationMoves, Zenon
          <6> QED
            BY <6>1
        <5>2. CASE CommitPatch(r)
          <6>1. \/ Becomes(r, "undoing", p, <<>>, "failed")
                \/ Becomes(r, IF Len(req[r].todo) = 1 THEN "validating" ELSE "applying",
                           p, Tail(req[r].todo), req[r].ends)
            BY <1>0, <2>7, <5>2, IntegrationMoves, Zenon
          <6> QED
            BY <6>1
        <5> QED
          BY <3>7, <5>1, <5>2
      <4>3. ASSUME NEW s \in {"applying", "committing", "validating"}, NEW t, NEW e,
                   Becomes(r, s, p, t, e)
            PROVE  Visible' = plan[p].base
        <5>1. req'[r].step = s /\ req'[r].plan = p
          BY <4>3 DEF Becomes
        <5> QED
          BY <3>3, <5>1 DEF Executing
      <4> QED
        BY <3>4, <3>5, <4>1, <4>2, <4>3
    <3>8. CASE Validate(r)
      <4>1. Visible = plan[p].base /\ UNCHANGED head
        BY <3>3, <3>8 DEF Validate, Executing
      <4>2. \/ Becomes(r, "done", p, req[r].todo, req[r].ends)
            \/ Becomes(r, "undoing", p, <<>>, "failed")
        BY <1>0, <2>7, <3>8, IntegrationMoves, Zenon
      <4>3. CASE Becomes(r, "done", p, req[r].todo, req[r].ends)
        <5>1. Visible' = head
          BY <3>3, <4>1, <4>3 DEF Becomes, Executing
        <5>2. PICK b \in Seq(Commit), c \in Seq(Candidate) :
                 b = plan[p].base /\ c = plan[p].cands /\ head \in Seq(Commit)
          BY <1>0 DEF Within, PlanOf, BranchOf, ListOf, CommitOf, Commit
        <5>3. Exact(r, b, c, <<>>, head) /\ c # <<>>
          BY <1>0, <2>7, <3>8, <5>2 DEF Validate, Progress, Integrating, OnTop, InHand, HasPlan
        <5>4. head = b \o [i \in DOMAIN c |-> [by |-> r, patches |-> {c[i]}]]
          BY <5>2, <5>3, ExactEnd
        <5>5. head # b
          <6>1. PICK n \in Nat \ {0}, k \in Nat : n = Len(c) /\ k = Len(b)
            BY <5>3, EmptySeq
          <6>2. Len(head) = k + n
            BY <5>3, <6>1, EmptySeq DEF Exact
          <6> QED
            BY <6>1, <6>2
        <5>6. Ready(p) /\ p \in Made
          BY <1>0, <2>7, <3>1, <3>8 DEF Vouched, Validate, Made
        <5>7. PICK x \in Proposed : x = Proposal(p)
          BY <5>6, ProposedIs
        <5>8. x.base = b /\ x.cands = c /\ x.ready
          BY <5>2, <5>6, <5>7 DEF Proposal
        <5>9. UNCHANGED Proposed
          BY <1>0, <2>3, <3>1, ProposedKept
        <5>10. Atomic!Integrate
          BY <4>1, <5>1, <5>2, <5>4, <5>5, <5>8, <5>9 DEF Atomic!Integrate
        <5> QED
          BY <5>10 DEF Atomic!Next
      <4> QED
        BY <3>4, <3>5, <4>1, <4>2, <4>3
    <3>9. CASE Reset(r)
      <4>1. Becomes(r, "undone", p, req[r].todo, req[r].ends) /\ head' = plan[p].base
        BY <1>0, <2>7, <3>9, Moves DEF Reset
      <4>2. Visible' = plan[p].base
        BY <3>3, <4>1 DEF Becomes, Executing
      <4>3. p \in Made /\ UNCHANGED Proposed
        BY <1>0, <2>3, <3>1, ProposedKept DEF Made
      <4>4. PICK x \in Proposed : x = Proposal(p)
        BY <4>3, ProposedIs
      <4>5. CASE Visible' # Visible
        <5>1. Atomic!Rollback
          BY <4>2, <4>3, <4>4, <4>5 DEF Atomic!Rollback, Proposal
        <5> QED
          BY <5>1 DEF Atomic!Next
      <4> QED
        BY <3>4, <4>5
    <3>10. CASE Close(r)
      <4>1. Becomes(r, "done", p, req[r].todo, req[r].ends) /\ UNCHANGED head /\ Visible = head
        BY <1>0, <2>7, <3>3, <3>10, IntegrationMoves DEF Close, Executing
      <4>2. Visible' = head
        BY <3>3, <4>1 DEF Becomes, Executing
      <4> QED
        BY <3>4, <4>1, <4>2
    <3> QED
      BY <2>7, <3>6, <3>7, <3>8, <3>9, <3>10
  <2>8. CASE Check(r) \/ Apply(r) \/ CommitPatch(r) \/ Validate(r) \/ Reset(r) \/ Close(r)
    <3>1. PICK p \in Request : p = req[r].plan
      BY <1>0, <2>8, PlanInHand
    <3> QED
      BY <2>7, <2>8, <3>1
  <2> QED
    BY <1>4, <2>4, <2>5, <2>6, <2>8, Zenon DEF RequestStep
<1> QED
  BY <1>2, <1>3, <1>4, WhoSteps, Zenon

(* Integrations that do not overlap are atomic: whatever git refuses and    *)
(* whenever validation fails, users of the branch see a plan's base or all  *)
(* of its patches (TeamIntegrationService and IntegrationEngine implement   *)
(* AtomicIntegration).                                                     *)
THEOREM IntegrationIsAtomic ==
    ASSUME ~Concurrent
    PROVE  Spec => ImplementsAtomic
<1>1. Init => Atomic!Init
  <2>1. Init => \A r \in Request : ~Executing(r) /\ plan[r].status = "none"
    BY DEF Init, Executing, NewRequest, NoPlan
  <2>2. Init => Visible = <<>> /\ Proposed = {}
    BY <2>1 DEF Init, Visible, Proposed
  <2> QED
    BY <2>2 DEF Atomic!Init
<1>2. IInv /\ SerialInv /\ [Next]_vars => [Atomic!Next]_<<Visible, Proposed>>
  BY AtomicStep
<1> QED
  BY <1>1, <1>2, Inductive, SerialRuns, PTL DEF Spec, ImplementsAtomic, Atomic!Spec

-----------------------------------------------------------------------------
(* The depth of a task.  Induction is by the least counterexample: a        *)
(* nonempty set of naturals has a least element.                           *)
LEMMA LeastNat ==
    ASSUME NEW T \in SUBSET Nat, T # {}
    PROVE  \E n \in T : \A m \in T : n <= m
<1>1. PICK n \in T : \A m \in T : ~(<<m, n>> \in OpToRel(<, Nat))
  BY NatLessThanWellFounded, WFMin
<1>2. \A m \in T : ~(m < n)
  BY <1>1 DEF OpToRel
<1>3. \A m \in T : n <= m
  BY <1>2
<1> QED
  BY <1>3

LEMMA BoundedMax ==
    ASSUME NEW S \in SUBSET Nat, S # {}, NEW b \in Nat, \A x \in S : x <= b
    PROVE  Max(S) \in S /\ \A x \in S : x <= Max(S)
<1> DEFINE Above == {m \in Nat : \A x \in S : x <= m}
<1>1. Above \in SUBSET Nat /\ Above # {}
  OBVIOUS
<1>2. PICK n \in Above : \A m \in Above : n <= m
  BY <1>1, LeastNat
<1>3. n \in S
  <2>1. ASSUME n \notin S
        PROVE  n - 1 \in Above
    <3>1. \A x \in S : x < n
      BY <1>2, <2>1
    <3>2. PICK x \in S : x \in Nat /\ x < n
      BY <3>1
    <3>3. n > 0
      BY <1>2, <3>2
    <3> QED
      BY <1>2, <3>1, <3>3
  <2>2. ~(n <= n - 1)
    BY <1>2
  <2> QED
    BY <1>2, <2>1, <2>2
<1>4. \E x \in S : \A y \in S : x >= y
  BY <1>2, <1>3
<1>5. Max(S) \in S /\ \A y \in S : Max(S) >= y
  BY <1>4 DEF Max
<1> QED
  BY <1>5

DepthStep(g, t) == IF Needs[t] = {} THEN 0 ELSE 1 + Max({g[d] : d \in Needs[t]})

(* One level up: depths within 0..n give a depth within 0..n + 1.           *)
LEMMA DepthStepType ==
    ASSUME NEW g, NEW t \in Task, NEW n \in Nat, \A d \in Needs[t] : g[d] \in 0..n
    PROVE  /\ DepthStep(g, t) \in 0..(n + 1)
           /\ \A d \in Needs[t] : g[d] < DepthStep(g, t)
<1>1. CASE Needs[t] = {}
  BY <1>1 DEF DepthStep
<1>2. CASE Needs[t] # {}
  <2>1. PICK S : S = {g[d] : d \in Needs[t]}
    OBVIOUS
  <2>2. S \in SUBSET Nat /\ S # {} /\ \A x \in S : x <= n
    BY <1>2, <2>1
  <2>3. Max(S) \in S /\ \A x \in S : x <= Max(S)
    BY <2>2, BoundedMax
  <2>4. DepthStep(g, t) = 1 + Max(S)
    BY <1>2, <2>1 DEF DepthStep
  <2>5. PICK m \in 0..n : m = Max(S)
    <3>1. Max(S) \in Nat /\ Max(S) <= n
      BY <2>2, <2>3
    <3>2. Max(S) \in 0..n
      BY <3>1
    <3> QED
      BY <3>2, Zenon
  <2>6. \A d \in Needs[t] : g[d] <= m
    BY <2>1, <2>3, <2>5
  <2>7. DepthStep(g, t) = 1 + m
    BY <2>4, <2>5
  <2> QED
    BY <2>6, <2>7
<1> QED
  BY <1>1, <1>2

LEMMA DepthStepLocal ==
    ASSUME NEW g, NEW h, NEW t \in Task, \A d \in Needs[t] : g[d] = h[d]
    PROVE  DepthStep(g, t) = DepthStep(h, t)
<1>1. {g[d] : d \in Needs[t]} = {h[d] : d \in Needs[t]}
  OBVIOUS
<1> QED
  BY <1>1 DEF DepthStep

(* Tasks numbered as they were made.                                        *)
Numbered(made, N) ==
    /\ made \in [Task -> 1..N]
    /\ \A t \in Task : \A d \in Needs[t] : made[d] < made[t]
UpTo(made, n) == {t \in Task : made[t] <= n}
IsDepth(g, made, n) ==
    /\ g \in [UpTo(made, n) -> 0..n]
    /\ \A t \in UpTo(made, n) : g[t] = DepthStep(g, t)

LEMMA DepthUpTo ==
    ASSUME NEW N \in Nat, NEW made, Numbered(made, N)
    PROVE  \A n \in Nat : \E g : IsDepth(g, made, n)
<1>0. /\ \A t \in Task : made[t] \in Nat /\ made[t] >= 1
      /\ \A t \in Task : \A d \in Needs[t] : d \in Task /\ made[d] < made[t]
  BY DEF Numbered
<1>1. \E g : IsDepth(g, made, 0)
  <2>1. UpTo(made, 0) = {}
    BY <1>0 DEF UpTo
  <2>2. IsDepth([t \in {} |-> 0], made, 0)
    BY <2>1 DEF IsDepth
  <2> QED
    BY <2>2
<1>2. ASSUME NEW n \in Nat, NEW h, IsDepth(h, made, n)
      PROVE  \E g : IsDepth(g, made, n + 1)
  <2> DEFINE g == [t \in UpTo(made, n + 1) |->
                      IF t \in UpTo(made, n) THEN h[t] ELSE DepthStep(h, t)]
  <2>1. \A t \in UpTo(made, n + 1) : t \in Task /\ \A d \in Needs[t] : d \in UpTo(made, n)
    BY <1>0 DEF UpTo
  <2>2. UpTo(made, n) \subseteq UpTo(made, n + 1)
    BY <1>0 DEF UpTo
  <2>3. \A d \in UpTo(made, n) : g[d] = h[d] /\ h[d] \in 0..n
    BY <1>2, <2>2 DEF IsDepth
  <2>4. \A t \in UpTo(made, n + 1) : DepthStep(h, t) \in 0..(n + 1)
    BY <2>1, <2>3, DepthStepType
  <2>5. g \in [UpTo(made, n + 1) -> 0..(n + 1)]
    <3>1. \A x \in 0..n : x \in 0..(n + 1)
      OBVIOUS
    <3>2. PICK U : U = 0..(n + 1)
      OBVIOUS
    <3>3. \A t \in UpTo(made, n + 1) :
             (IF t \in UpTo(made, n) THEN h[t] ELSE DepthStep(h, t)) \in U
      BY <2>3, <2>4, <3>1, <3>2
    <3>4. g \in [UpTo(made, n + 1) -> U]
      BY <3>3
    <3> QED
      BY <3>2, <3>4
  <2>6. \A t \in UpTo(made, n + 1) : g[t] = DepthStep(h, t)
    BY <1>2 DEF IsDepth
  <2> HIDE DEF g
  <2>7. \A t \in UpTo(made, n + 1) : DepthStep(g, t) = DepthStep(h, t)
    BY <2>1, <2>3, DepthStepLocal
  <2>8. IsDepth(g, made, n + 1)
    BY <2>5, <2>6, <2>7 DEF IsDepth
  <2> QED
    BY <2>8
<1> DEFINE Missing == {n \in Nat : ~\E g : IsDepth(g, made, n)}
<1>3. CASE Missing = {}
  BY <1>3
<1>4. CASE Missing # {}
  <2>1. PICK n \in Missing : \A m \in Missing : n <= m
    BY <1>4, LeastNat
  <2>2. n \in Nat /\ n # 0
    BY <1>1
  <2>3. n - 1 \in Nat /\ n - 1 \notin Missing
    BY <2>1, <2>2
  <2>4. \E g : IsDepth(g, made, n - 1)
    BY <2>3
  <2>5. \E g : IsDepth(g, made, (n - 1) + 1)
    BY <1>2, <2>3, <2>4
  <2>6. (n - 1) + 1 = n
    BY <2>2
  <2> QED
    BY <2>5, <2>6
<1> QED
  BY <1>3, <1>4

LEMMA TasksNumbered == \E N \in Nat : \E made : Numbered(made, N)
<1>1. Cardinality(Task) \in Nat
  BY CreationOrderAssumption, FS_CardinalityType
<1> QED
  BY <1>1, CreationOrderAssumption DEF Numbered

(* The recursive definition has a solution, so depth satisfies it.          *)
LEMMA DepthUnfolds == depth = [t \in Task |-> DepthStep(depth, t)]
<1>0. PICK N \in Nat : \E made : Numbered(made, N)
  BY TasksNumbered
<1>1. PICK made : Numbered(made, N)
  BY <1>0
<1>2. PICK g : IsDepth(g, made, N)
  BY <1>1, DepthUpTo
<1>3. UpTo(made, N) = Task
  BY <1>1 DEF Numbered, UpTo
<1>4. g = [t \in Task |-> DepthStep(g, t)]
  BY <1>2, <1>3 DEF IsDepth
<1> DEFINE P(h) == h = [t \in Task |-> IF Needs[t] = {} THEN 0
                                       ELSE 1 + Max({h[d] : d \in Needs[t]})]
<1>5. P(g)
  BY <1>4 DEF DepthStep
<1>6. depth = CHOOSE h : P(h)
  BY DEF depth
<1> HIDE DEF P
<1>7. P(depth)
  BY <1>5, <1>6
<1> QED
  BY <1>7 DEF P, DepthStep

(* A task is deeper than every task it depends on.                          *)
LEMMA DepthGrows ==
    ASSUME NEW t \in Task
    PROVE  depth[t] \in Nat /\ \A d \in Needs[t] : depth[d] < depth[t]
<1>0. PICK N \in Nat : \E made : Numbered(made, N)
  BY TasksNumbered
<1>1. PICK made : Numbered(made, N)
  BY <1>0
<1>2. /\ \A x \in Task : made[x] \in Nat /\ made[x] >= 1
      /\ \A x \in Task : \A d \in Needs[x] : d \in Task /\ made[d] < made[x]
  BY <1>1 DEF Numbered
<1>3. \A x \in Task : depth[x] = DepthStep(depth, x)
  BY DepthUnfolds
<1>4. ASSUME NEW x \in Task, \A d \in Needs[x] : depth[d] \in 0..made[d]
      PROVE  /\ depth[x] \in 0..made[x]
             /\ \A d \in Needs[x] : depth[d] < depth[x]
  <2>1. PICK n \in Nat : made[x] = n + 1
    <3>1. made[x] - 1 \in Nat /\ made[x] = (made[x] - 1) + 1
      BY <1>2
    <3> QED
      BY <3>1, Zenon
  <2>2. \A d \in Needs[x] : depth[d] \in 0..n
    BY <1>2, <1>4, <2>1
  <2>3. /\ DepthStep(depth, x) \in 0..(n + 1)
        /\ \A d \in Needs[x] : depth[d] < DepthStep(depth, x)
    BY <2>2, DepthStepType
  <2> QED
    BY <1>3, <2>1, <2>3
<1> DEFINE Bad == {n \in Nat : \E x \in Task : made[x] = n /\ depth[x] \notin 0..made[x]}
<1>5. Bad = {}
  <2> SUFFICES ASSUME Bad # {} PROVE FALSE
    OBVIOUS
  <2>1. PICK n \in Bad : \A m \in Bad : n <= m
    BY LeastNat
  <2>2. PICK x \in Task : made[x] = n /\ depth[x] \notin 0..made[x]
    OBVIOUS
  <2>3. \A d \in Needs[x] : depth[d] \in 0..made[d]
    <3> SUFFICES ASSUME NEW d \in Needs[x], depth[d] \notin 0..made[d] PROVE FALSE
      OBVIOUS
    <3>1. d \in Task /\ made[d] \in Nat /\ made[d] < made[x]
      BY <1>2
    <3>2. made[d] \in Bad
      BY <3>1
    <3>3. n <= made[d]
      BY <2>1, <3>2
    <3> QED
      BY <2>2, <3>1, <3>3
  <2> QED
    BY <1>4, <2>2, <2>3
<1>6. \A x \in Task : depth[x] \in 0..made[x]
  <2> SUFFICES ASSUME NEW x \in Task, depth[x] \notin 0..made[x] PROVE FALSE
    OBVIOUS
  <2>1. made[x] \in Bad
    BY <1>2
  <2> QED
    BY <1>5, <2>1
<1>7. depth[t] \in Nat
  BY <1>2, <1>6
<1>8. \A d \in Needs[t] : depth[d] < depth[t]
  BY <1>2, <1>4, <1>6
<1> QED
  BY <1>7, <1>8

-----------------------------------------------------------------------------
(* The order a plan is prepared with, and keeps.                            *)
Levelled(s) == \A i, j \in DOMAIN s : i < j => depth[TaskOf[s[i]]] <= depth[TaskOf[s[j]]]
Layered == \A r \in Request :
              /\ Levelled(plan[r].cands)
              /\ req[r].step = "preparing" => Levelled(req[r].todo)

(* Overlapping or not, only Prepare changes what a plan holds, and only      *)
(* StartPrepare makes a request prepare.                                   *)
LEMMA CandsKept ==
    ASSUME Within(Candidate), InHand, [Next]_vars, NEW p \in Request, ~Prepare(p)
    PROVE  plan'[p].cands = plan[p].cands
<1>1. ASSUME NEW r \in Request, Prepare(r)
      PROVE  plan'[p].cands = plan[p].cands
  <2>1. \A q \in Request \ {r} : plan'[q] = plan[q]
    BY <1>1, Moves DEF Turns
  <2>2. p # r
    BY <1>1
  <2> QED
    BY <2>1, <2>2
<1>2. ASSUME NEW r \in Request, Check(r) \/ Validate(r) \/ Close(r)
      PROVE  plan'[p].cands = plan[p].cands
  <2>1. PICK q \in Request : q = req[r].plan
    BY <1>2, PlanInHand
  <2>2. UNCHANGED plan \/ \E s : Turns(q, s, plan[q].base, plan[q].cands)
    BY <1>2, <2>1, IntegrationMoves, Zenon
  <2> QED
    BY <2>2 DEF Turns
<1>3. \/ \E r \in Request : Prepare(r) \/ Check(r) \/ Validate(r) \/ Close(r)
      \/ UNCHANGED plan
  BY WhoSteps, Zenon DEF RequestStep, StartPrepare, StartExecute, StartRollback, Apply,
     CommitPatch, Reset, Push
<1> QED
  BY <1>1, <1>2, <1>3, Zenon

LEMMA PreparingStarts ==
    ASSUME Within(Candidate), InHand, [Next]_vars, NEW r \in Request,
           req'[r].step = "preparing"
    PROVE  req'[r] = req[r] \/ StartPrepare(r)
<1>1. ASSUME NEW q \in Request, RequestStep(q)
      PROVE  req'[r] = req[r] \/ StartPrepare(r)
  <2>1. CASE Check(q) \/ Apply(q) \/ CommitPatch(q) \/ Validate(q) \/ Close(q)
    <3>1. PICK p \in Request : p = req[q].plan
      BY <2>1, PlanInHand
    <3>2. \E s, t, e : s # "preparing" /\ Becomes(q, s, p, t, e)
      <4>1. PICK l \in {"applying", "validating"} :
               l = IF Len(req[q].todo) = 1 THEN "validating" ELSE "applying"
        OBVIOUS
      <4>2. \E s \in {"applying", "done", "committing", "undoing", l} : \E t, e :
               Becomes(q, s, p, t, e)
        <5>1. \/ Becomes(q, "applying", p, plan[p].cands, req[q].ends)
              \/ Becomes(q, "done", p, req[q].todo, req[q].ends)
              \/ Becomes(q, "committing", p, req[q].todo, req[q].ends)
              \/ Becomes(q, "undoing", p, <<>>, "failed")
              \/ Becomes(q, l, p, Tail(req[q].todo), req[q].ends)
          BY <2>1, <3>1, <4>1, IntegrationMoves, Zenon
        <5> QED
          BY <5>1
      <4>3. \A s \in {"applying", "done", "committing", "undoing", l} : s # "preparing"
        OBVIOUS
      <4> QED
        BY <4>2, <4>3, Zenon
    <3> QED
      BY <3>2 DEF Becomes
  <2>2. ASSUME NEW p \in Request, StartExecute(q, p) \/ StartRollback(q, p)
        PROVE  req'[r] = req[r]
    <3>1. \/ Becomes(q, "checking", p, req[q].todo, req[q].ends)
          \/ Becomes(q, "undoing", p, req[q].todo, "rolled-back")
      BY <2>2, Moves, Zenon
    <3> QED
      BY <3>1 DEF Becomes
  <2>3. CASE Prepare(q) \/ Reset(q)
    <3>1. \/ Becomes(q, "done", req[q].plan, <<>>, req[q].ends)
          \/ Becomes(q, "undone", req[q].plan, req[q].todo, req[q].ends)
      BY <2>3, Moves, Zenon
    <3> QED
      BY <3>1 DEF Becomes
  <2>4. CASE StartPrepare(q)
    <3>1. PICK t : Becomes(q, "preparing", req[q].plan, t, req[q].ends)
      BY <2>4, Moves, Zenon
    <3>2. q # r => req'[r] = req[r]
      BY <3>1 DEF Becomes
    <3> QED
      BY <2>4, <3>2
  <2> QED
    BY <1>1, <2>1, <2>2, <2>3, <2>4, Zenon DEF RequestStep
<1> QED
  BY <1>1, WhoSteps, Zenon DEF Push

LEMMA LayeredStep ==
    ASSUME InHand, Within(Candidate), Layered, [Next]_vars
    PROVE  Layered'
<1>1. ASSUME NEW p \in Request
      PROVE  Levelled(plan'[p].cands)
  <2>1. CASE Prepare(p)
    <3>1. plan'[p].cands = req[p].todo /\ req[p].step = "preparing"
      BY <2>1, Moves DEF Turns, Prepare
    <3> QED
      BY <3>1 DEF Layered
  <2>2. CASE ~Prepare(p)
    <3>1. plan'[p].cands = plan[p].cands
      BY <2>2, CandsKept
    <3> QED
      BY <3>1 DEF Layered
  <2> QED
    BY <2>1, <2>2
<1>2. ASSUME NEW r \in Request, req'[r].step = "preparing"
      PROVE  Levelled(req'[r].todo)
  <2>1. CASE req'[r] = req[r]
    BY <1>2, <2>1 DEF Layered
  <2>2. CASE StartPrepare(r)
    <3>1. PICK S \in SUBSET Candidate : \E order \in Ordered(S) :
                req' = [req EXCEPT ![r] = [@ EXCEPT !.step = "preparing", !.todo = order]]
      BY <2>2, ZenonT(30) DEF StartPrepare
    <3>2. PICK order \in Ordered(S) :
                req' = [req EXCEPT ![r] = [@ EXCEPT !.step = "preparing", !.todo = order]]
      BY <3>1, ZenonT(30)
    <3>3. req'[r].todo = order
      BY <3>2 DEF Within, RequestOf
    <3>4. Levelled(order)
      BY <3>2 DEF Ordered, Levelled
    <3> QED
      BY <3>3, <3>4
  <2> QED
    BY <1>2, <2>1, <2>2, PreparingStarts
<1> QED
  BY <1>1, <1>2 DEF Layered

(* A plan never applies a patch before one its task depends on:             *)
(* integration-engine.ts:orderCandidatesByTaskDependencies.                *)
THEOREM DependenciesComeFirst == Spec => []DependenciesFirst
<1>1. Init => Layered
  BY DEF Init, Layered, Levelled, NoPlan, NewRequest
<1>2. IInv /\ Layered /\ [Next]_vars => Layered'
  BY LayeredStep DEF IInv
<1>3. IInv /\ Layered => DependenciesFirst
  <2> SUFFICES ASSUME IInv, Layered, NEW r \in Request,
                      NEW i \in DOMAIN plan[r].cands, NEW j \in DOMAIN plan[r].cands, i < j,
                      TaskOf[plan[r].cands[j]] \in Needs[TaskOf[plan[r].cands[i]]]
               PROVE  FALSE
    BY DEF DependenciesFirst
  <2>1. plan[r].cands \in Seq(Candidate)
    BY DEF IInv, Within, PlanOf, ListOf
  <2>2. PICK t \in Task, d \in Task : t = TaskOf[plan[r].cands[i]] /\ d = TaskOf[plan[r].cands[j]]
    <3>1. plan[r].cands[i] \in Candidate /\ plan[r].cands[j] \in Candidate
      BY <2>1, ElementOfSeq
    <3> QED
      BY <3>1
  <2>3. depth[t] <= depth[d]
    BY <2>2 DEF Layered, Levelled
  <2>4. depth[d] < depth[t] /\ depth[t] \in Nat /\ depth[d] \in Nat
    BY <2>2, DepthGrows
  <2> QED
    BY <2>3, <2>4
<1> QED
  BY <1>1, <1>2, <1>3, Inductive, PTL DEF Spec

=============================================================================
