---------------------------- MODULE TeamIntegration ----------------------------
(***************************************************************************)
(* How the work of a team of agents reaches the canonical repository:       *)
(* candidates are submitted from worktrees (ChangeCandidateService),        *)
(* reviewed (ReviewService), accepted, and applied by integration plans     *)
(* (TeamIntegrationService), the one writer of the repository.             *)
(*                                                                         *)
(* A service call is synchronous up to its first git command; each git      *)
(* command is an await, so calls interleave there.  A request is one call   *)
(* of prepareIntegration, executeIntegration or rollbackIntegration, and    *)
(* has one step for each stretch between two awaits.                       *)
(*                                                                         *)
(* A SHA is the sequence of commits that leads to it; a commit carries the  *)
(* request that made it, so that the same patch committed twice gives two   *)
(* SHAs, and the patches it adds.                                          *)
(***************************************************************************)
EXTENDS Integers, Sequences, FiniteSets, FiniteSetsExt

CONSTANTS
    Candidate,      \* change candidates
    Member,         \* team members
    Task,           \* collaborative tasks
    Author,         \* candidate -> the member that submits it
    TaskOf,         \* candidate -> its task
    Needs,          \* task -> the tasks it depends on
    File,           \* files a candidate may change
    Changes,        \* the sets of files a candidate may turn out to change
    Protected,      \* files no candidate may change
    Scope,          \* task -> the files it may change; none named means any
    MaxCandidates,  \* the team's budget of candidates per task
    Request,        \* integration requests, each used once
    NoRequest,
    Concurrent,     \* whether integration requests and pushes may overlap
    MaxPushes       \* bound on the commits from outside

ASSUME CandidateAssumption == IsFiniteSet(Candidate)
ASSUME AuthorAssumption == Author \in [Candidate -> Member]
ASSUME TaskAssumption ==
    TaskOf \in [Candidate -> Task] /\ Needs \in [Task -> SUBSET Task]
(* CollaborativeTaskService.createTask takes as dependencies only tasks that *)
(* exist, and nothing changes them later: a task was made after those it    *)
(* needs.                                                                  *)
ASSUME CreationOrderAssumption ==
    /\ IsFiniteSet(Task)
    /\ \E made \in [Task -> 1..Cardinality(Task)] :
          \A t \in Task : \A d \in Needs[t] : made[d] < made[t]
ASSUME ChangesAssumption == Changes \subseteq SUBSET File
ASSUME FileAssumption == Protected \subseteq File /\ Scope \in [Task -> SUBSET File]
ASSUME RequestAssumption == NoRequest \notin Request
ASSUME BoundAssumption ==
    MaxCandidates \in Nat /\ MaxPushes \in Nat /\ Concurrent \in BOOLEAN

VARIABLES
    head,       \* the canonical branch
    index,      \* patches applied to its working tree and not committed
    cand,       \* the candidates' records, and the worktrees they come from
    review,     \* the reviews of each candidate
    plan,       \* the integration plans, by the request that prepared them
    req         \* the requests in progress

vars == <<head, index, cand, review, plan, req>>

Commit == [by : Request \cup {NoRequest}, patches : SUBSET Candidate]
Patches == UNION {head[i].patches : i \in DOMAIN head}

CandidateStatus == {"none", "open", "submitting", "submitted", "under-review", "approved",
                    "rejected", "integrated"}
PlanStatus == {"none", "preparing", "ready", "executing", "succeeded", "failed", "rolled-back"}
NoPlan == [status |-> "none", base |-> <<>>, cands |-> <<>>]
Step == {"new", "preparing", "checking", "applying", "committing", "validating", "undoing",
         "undone", "done"}
NewRequest == [step |-> "new", plan |-> NoRequest, todo |-> <<>>, ends |-> "none"]

TypeOK ==
    /\ head \in Seq(Commit)
    /\ index \subseteq Candidate
    /\ cand \in [Candidate -> [status : CandidateStatus, base : Seq(Commit), files : SUBSET File]]
    /\ review \in [Candidate -> [approvers : SUBSET Member, blocking : BOOLEAN]]
    /\ plan \in [Request -> [status : PlanStatus, base : Seq(Commit), cands : Seq(Candidate)]]
    /\ req \in [Request -> [step : Step, plan : Request \cup {NoRequest}, todo : Seq(Candidate),
                            ends : {"none", "failed", "rolled-back"}]]

Init ==
    /\ head = <<>>
    /\ index = {}
    /\ cand = [c \in Candidate |-> [status |-> "none", base |-> <<>>, files |-> {}]]
    /\ review = [c \in Candidate |-> [approvers |-> {}, blocking |-> FALSE]]
    /\ plan = [r \in Request |-> NoPlan]
    /\ req = [r \in Request |-> NewRequest]

-----------------------------------------------------------------------------
(* Candidates.  The worktree fixes the base; the budget is read before the  *)
(* git commands of submitCandidate and the record written after them.      *)

Submitted(c) == cand[c].status \notin {"none", "open", "submitting"}
OfTask(t) == {c \in Candidate : TaskOf[c] = t /\ Submitted(c)}

OpenWorkspace(c) ==
    /\ cand[c].status = "none"
    /\ cand' = [cand EXCEPT ![c] = [@ EXCEPT !.status = "open", !.base = head]]
    /\ UNCHANGED <<head, index, review, plan, req>>

StartSubmit(c) ==
    /\ cand[c].status = "open"
    /\ Cardinality(OfTask(TaskOf[c])) < MaxCandidates
    /\ cand' = [cand EXCEPT ![c].status = "submitting"]
    /\ UNCHANGED <<head, index, review, plan, req>>

(* Without a changed file nothing is submitted.                            *)
Submit(c) ==
    /\ cand[c].status = "submitting"
    /\ \E files \in Changes :
          cand' = [cand EXCEPT ![c] = [@ EXCEPT
                      !.status = IF files = {} THEN "open" ELSE "submitted",
                      !.files = files]]
    /\ UNCHANGED <<head, index, review, plan, req>>

(* A review sends the candidate back under review whatever its status was.  *)
Review(c, m) ==
    /\ Submitted(c)
    /\ m # Author[c]
    /\ \E approves, blocks \in BOOLEAN :
          review' = [review EXCEPT ![c] =
                        [approvers |-> IF approves THEN @.approvers \cup {m} ELSE @.approvers,
                         blocking |-> @.blocking \/ blocks]]
    /\ cand' = [cand EXCEPT ![c].status = "under-review"]
    /\ UNCHANGED <<head, index, plan, req>>

IndependentlyApproved(c) ==
    ~review[c].blocking /\ \E m \in review[c].approvers : m # Author[c]

MutAccept(c) ==
    /\ Submitted(c)
    /\ cand' = [cand EXCEPT ![c].status = "approved"]
    /\ UNCHANGED <<head, index, review, plan, req>>

Accept(c) ==
    /\ Submitted(c)
    /\ IndependentlyApproved(c)
    /\ cand' = [cand EXCEPT ![c].status = "approved"]
    /\ UNCHANGED <<head, index, review, plan, req>>

Reject(c) ==
    /\ Submitted(c)
    /\ cand' = [cand EXCEPT ![c].status = "rejected"]
    /\ UNCHANGED <<head, index, review, plan, req>>

-----------------------------------------------------------------------------
(* prepareIntegration: the candidates are read and ordered, HEAD is asked   *)
(* for, and the plan is written.                                           *)

Active(r) == req[r].step \notin {"new", "done"}
MayStart(r) ==
    /\ req[r].step = "new"
    /\ Concurrent \/ \A s \in Request : ~Active(s)

depth[t \in Task] == IF Needs[t] = {} THEN 0 ELSE 1 + Max({depth[d] : d \in Needs[t]})

MutOrdered(S) ==
    {s \in [1..Cardinality(S) -> S] : \A i, j \in DOMAIN s : i # j => s[i] # s[j]}

Ordered(S) ==
    {s \in [1..Cardinality(S) -> S] :
        /\ \A i, j \in DOMAIN s : i # j => s[i] # s[j]
        /\ \A i, j \in DOMAIN s : i < j => depth[TaskOf[s[i]]] <= depth[TaskOf[s[j]]]}

StartPrepare(r) ==
    /\ MayStart(r)
    /\ \E S \in SUBSET {c \in Candidate : cand[c].status = "approved"} : S # {} /\
          \E order \in Ordered(S) :
              req' = [req EXCEPT ![r] = [@ EXCEPT !.step = "preparing", !.todo = order]]
    /\ UNCHANGED <<head, index, cand, review, plan>>

OutOfBounds(c) ==
    \/ cand[c].files \cap Protected # {}
    \/ Scope[TaskOf[c]] # {} /\ ~(cand[c].files \subseteq Scope[TaskOf[c]])
Overlap(S) == \E c, d \in S : c # d /\ cand[c].files \cap cand[d].files # {}

Blocking(S) == (\E c \in S : cand[c].base # head \/ OutOfBounds(c)) \/ Overlap(S)

Prepare(r) ==
    /\ req[r].step = "preparing"
    /\ plan' = [plan EXCEPT ![r] =
                   [status |-> IF Blocking({req[r].todo[i] : i \in DOMAIN req[r].todo})
                               THEN "preparing" ELSE "ready",
                    base |-> head, cands |-> req[r].todo]]
    /\ req' = [req EXCEPT ![r] = [@ EXCEPT !.step = "done", !.todo = <<>>]]
    /\ UNCHANGED <<head, index, cand, review>>

-----------------------------------------------------------------------------
(* executeIntegration: HEAD is asked for and compared (git may fail, which  *)
(* counts as a drift), then every patch is applied and committed, the       *)
(* tasks' commands are run, and the outcome is recorded, after a reset if   *)
(* anything failed.                                                        *)

StartExecute(r, p) ==
    /\ MayStart(r)
    /\ plan[p].status = "ready"
    /\ req' = [req EXCEPT ![r] = [@ EXCEPT !.step = "checking", !.plan = p]]
    /\ UNCHANGED <<head, index, cand, review, plan>>

MutCheck(r) ==
    /\ req[r].step = "checking"
    /\ plan' = [plan EXCEPT ![req[r].plan].status = "executing"]
    /\ req' = [req EXCEPT ![r] = [@ EXCEPT !.step = "applying",
                                                !.todo = plan[req[r].plan].cands]]
    /\ UNCHANGED <<head, index, cand, review>>

Check(r) ==
    /\ req[r].step = "checking"
    /\ \/ /\ head = plan[req[r].plan].base
          /\ plan' = [plan EXCEPT ![req[r].plan].status = "executing"]
          /\ req' = [req EXCEPT ![r] = [@ EXCEPT !.step = "applying",
                                                !.todo = plan[req[r].plan].cands]]
       \/ /\ plan' = [plan EXCEPT ![req[r].plan].status = "failed"]
          /\ req' = [req EXCEPT ![r].step = "done"]
    /\ UNCHANGED <<head, index, cand, review>>

GiveUp(r) ==
    req' = [req EXCEPT ![r] = [@ EXCEPT !.step = "undoing", !.todo = <<>>, !.ends = "failed"]]

MutApply(r) ==
    /\ req[r].step = "applying"
    /\ \/ /\ Head(req[r].todo) \notin Patches \cup index
          /\ index' = index \cup {Head(req[r].todo)}
          /\ req' = [req EXCEPT ![r].step = "committing"]
       \/ /\ req' = [req EXCEPT ![r] = [@ EXCEPT
                        !.step = IF Len(req[r].todo) = 1 THEN "validating" ELSE "applying",
                        !.todo = Tail(req[r].todo)]]
          /\ UNCHANGED index
    /\ UNCHANGED <<head, cand, review, plan>>

(* git applies a patch that is not in the tree yet, and may always refuse.  *)
Apply(r) ==
    /\ req[r].step = "applying"
    /\ \/ /\ Head(req[r].todo) \notin Patches \cup index
          /\ index' = index \cup {Head(req[r].todo)}
          /\ req' = [req EXCEPT ![r].step = "committing"]
       \/ GiveUp(r) /\ UNCHANGED index
    /\ UNCHANGED <<head, cand, review, plan>>

(* git commits all that is in the index.                                   *)
CommitPatch(r) ==
    /\ req[r].step = "committing"
    /\ \/ /\ index # {}
          /\ head' = Append(head, [by |-> r, patches |-> index])
          /\ index' = {}
          /\ req' = [req EXCEPT ![r] = [@ EXCEPT
                        !.step = IF Len(req[r].todo) = 1 THEN "validating" ELSE "applying",
                        !.todo = Tail(req[r].todo)]]
       \/ GiveUp(r) /\ UNCHANGED <<head, index>>
    /\ UNCHANGED <<cand, review, plan>>

Validate(r) ==
    /\ req[r].step = "validating"
    /\ \/ /\ cand' = [c \in Candidate |->
                         IF \E i \in DOMAIN plan[req[r].plan].cands : plan[req[r].plan].cands[i] = c
                         THEN [cand[c] EXCEPT !.status = "integrated"] ELSE cand[c]]
          /\ plan' = [plan EXCEPT ![req[r].plan].status = "succeeded"]
          /\ req' = [req EXCEPT ![r].step = "done"]
       \/ GiveUp(r) /\ UNCHANGED <<cand, plan>>
    /\ UNCHANGED <<head, index, review>>

(* rollbackIntegration takes a plan in any status.                         *)
StartRollback(r, p) ==
    /\ MayStart(r)
    /\ plan[p].status # "none"
    /\ req' = [req EXCEPT ![r] = [@ EXCEPT !.step = "undoing", !.plan = p, !.ends = "rolled-back"]]
    /\ UNCHANGED <<head, index, cand, review, plan>>

MutReset(r) ==
    /\ req[r].step = "undoing"
    /\ index' = {}
    /\ req' = [req EXCEPT ![r].step = "undone"]
    /\ UNCHANGED <<head, cand, review, plan>>

Reset(r) ==
    /\ req[r].step = "undoing"
    /\ head' = plan[req[r].plan].base
    /\ index' = {}
    /\ req' = [req EXCEPT ![r].step = "undone"]
    /\ UNCHANGED <<cand, review, plan>>

MutClose(r) ==
    /\ req[r].step = "undone"
    /\ plan' = [plan EXCEPT ![req[r].plan].status = req[r].step]
    /\ req' = [req EXCEPT ![r].step = "done"]
    /\ UNCHANGED <<head, index, cand, review>>

Close(r) ==
    /\ req[r].step = "undone"
    /\ plan' = [plan EXCEPT ![req[r].plan].status = req[r].ends]
    /\ req' = [req EXCEPT ![r].step = "done"]
    /\ UNCHANGED <<head, index, cand, review>>

(* A commit that comes from outside: the operator's own, or a pull.         *)
Push ==
    /\ Concurrent \/ \A r \in Request : ~Active(r)
    /\ Cardinality({i \in DOMAIN head : head[i].by = NoRequest}) < MaxPushes
    /\ head' = Append(head, [by |-> NoRequest, patches |-> {}])
    /\ UNCHANGED <<index, cand, review, plan, req>>

-----------------------------------------------------------------------------

Next ==
    \/ \E c \in Candidate :
          \/ OpenWorkspace(c) \/ StartSubmit(c) \/ Submit(c) \/ Accept(c) \/ Reject(c)
          \/ \E m \in Member : Review(c, m)
    \/ \E r \in Request :
          \/ StartPrepare(r) \/ Prepare(r) \/ Check(r) \/ Apply(r) \/ CommitPatch(r)
          \/ Validate(r) \/ Reset(r) \/ Close(r)
          \/ \E p \in Request : StartExecute(r, p) \/ StartRollback(r, p)
    \/ Push

Spec == Init /\ [][Next]_vars

-----------------------------------------------------------------------------
(* Properties.                                                             *)

(* Nothing is applied or committed to the canonical repository that no      *)
(* member but its author has approved, however reviews, decisions, plans    *)
(* and rollbacks interleave.                                               *)
ReviewedOnly ==
    \A c \in Patches \cup index : \E m \in review[c].approvers : m # Author[c]

(* A plan applies the work a task depends on before the work of the task.   *)
DependenciesFirst ==
    \A r \in Request : \A i, j \in DOMAIN plan[r].cands :
        i < j => TaskOf[plan[r].cands[j]] \notin Needs[TaskOf[plan[r].cands[i]]]

(* When a plan is recorded as succeeded, every one of its patches is on the *)
(* canonical branch.                                                       *)
SuccessIsReal ==
    [][\A p \in Request : plan[p].status # "succeeded" /\ plan'[p].status = "succeeded" =>
          \A i \in DOMAIN plan[p].cands : plan[p].cands[i] \in Patches']_vars

(* A plan that failed has left no commit behind.                           *)
FailureLeavesNothing ==
    \A r \in Request : req[r].step = "done" /\ req[r].ends = "failed" =>
        \A i \in DOMAIN head : head[i].by # r

(* Requests that are not overlapped implement an atomic integration: a plan *)
(* moves the branch from its base to all of its patches in one step, or     *)
(* not at all.                                                             *)
Executing(r) == req[r].step \in {"applying", "committing", "validating"} \/
                (req[r].step = "undoing" /\ req[r].ends = "failed")
Visible == IF \E r \in Request : Executing(r)
           THEN plan[req[CHOOSE r \in Request : Executing(r)].plan].base
           ELSE head
PatchesOf(r) == {plan[r].cands[i] : i \in DOMAIN plan[r].cands}
Ready(r) ==
    /\ \A c \in PatchesOf(r) : cand[c].base = plan[r].base /\ ~OutOfBounds(c)
    /\ ~Overlap(PatchesOf(r))
Proposed == {[base |-> plan[r].base, cands |-> plan[r].cands, ready |-> Ready(r)] :
             r \in {r \in Request : plan[r].status # "none"}}

Atomic == INSTANCE AtomicIntegration WITH canon <- Visible, proposed <- Proposed
ImplementsAtomic == Atomic!Spec
=============================================================================
