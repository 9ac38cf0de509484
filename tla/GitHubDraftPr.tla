---------------------------- MODULE GitHubDraftPr ----------------------------
(***************************************************************************)
(* An approved draft pull request: the plan a worker shows for approval,   *)
(* its re-creation from the approved payload, the installation token, and  *)
(* the requests that create the branch, commit the files and open the pull *)
(* request.  Every request is a step of its own, may fail, and may take    *)
(* effect while its answer is lost; a lease that expires starts a second   *)
(* attempt beside the first; other people push, merge and open pull        *)
(* requests meanwhile.                                                     *)
(***************************************************************************)
EXTENDS Integers, Sequences, FiniteSets, SequencesExt

CONSTANTS
  Workers,
  Proposals,      \* plan inputs: [title, baseBranch, headBranch, changes, labels, reviewers]
  TokenAnswers,   \* what GitHub answers to a token request: [permissions, ttl]
  Redacted,       \* what redaction leaves of a text
  MaxAttempts, MaxFaults, MaxOutside

VARIABLES
  client,    \* "rest" or "fake"
  run,       \* [proposal, binding, approval, allowed]
  repo,      \* GitHub's repository: [base, head, commits, prs, deleted]
  worker,    \* per worker: [pc, plan, base, parent, commit, pr]
  counts     \* [attempts, faults, outside]

vars == <<client, run, repo, worker, counts>>

-----------------------------------------------------------------------------
(* Plans.  What may throw gives a set: of its result, or empty.            *)

Throw == {}
Bound(install, repository) == [installationId |-> install, repositoryId |-> repository]

(* A path is a list of its parts.                                          *)
normalizeGitHubFilePath(path) == path # <<>> /\ \A k \in 1..Len(path) : path[k] \notin {"", ".", ".."}

(* A change has content, or is a deletion.                                 *)
normalizeCommitChange(change) ==
  /\ normalizeGitHubFilePath(change.path)
  /\ change.deletion <=> change.content = ""

normalizeCommitChanges(changes) ==
  /\ changes # <<>>
  /\ \A k \in 1..Len(changes) : normalizeCommitChange(changes[k])
  /\ \A j, k \in 1..Len(changes) : changes[j].path = changes[k].path => j = k

normalizeGitHubBranchName(name) == name # ""
normalizeRequiredText(text) == text # ""

(* The same label or reviewer is asked for once.                           *)
normalizeStringList(values) == ToSet(values)

createGitHubBranchWorkflowPlan(input) ==
  IF /\ normalizeGitHubBranchName(input.baseBranch) /\ normalizeGitHubBranchName(input.headBranch)
     /\ input.baseBranch # input.headBranch
    THEN {[baseBranch |-> input.baseBranch, headBranch |-> input.headBranch]} ELSE Throw

createGitHubCommitWorkflowPlan(input) ==
  IF normalizeRequiredText(input.title) /\ normalizeCommitChanges(input.changes)
    THEN {[message |-> input.title, changes |-> input.changes]} ELSE Throw

createGitHubPullRequestProposal(input) ==
  IF normalizeRequiredText(input.title) /\ input.baseBranch # input.headBranch
    THEN {[title |-> input.title, baseBranch |-> input.baseBranch, headBranch |-> input.headBranch,
           draft |-> TRUE, labels |-> normalizeStringList(input.labels),
           reviewers |-> normalizeStringList(input.reviewers)]} ELSE Throw

(* The repository's id may be unknown (0).                                 *)
createGitHubInstallationTokenRequest(binding) ==
  [installationId |-> binding.installationId,
   repositoryIds |-> {binding.repositoryId} \ {0},
   permissions |-> [contents |-> "write", metadata |-> "read", pull_requests |-> "write"]]

createGitHubDraftPullRequestWorkflowPlan(input, binding) ==
  { [binding |-> binding, tokenRequest |-> createGitHubInstallationTokenRequest(binding),
     branch |-> branch, commit |-> commit, pullRequest |-> proposal] :
      branch \in createGitHubBranchWorkflowPlan(input),
      commit \in createGitHubCommitWorkflowPlan(input),
      proposal \in createGitHubPullRequestProposal(input) }

createGitHubDraftPullRequestWorkflowApprovalPayload(plan) ==
  [binding |-> plan.binding, branch |-> plan.branch, commit |-> plan.commit,
   pullRequest |-> plan.pullRequest]

createGitHubDraftPullRequestWorkflowPlanFromApprovalPayload(payload) ==
  createGitHubDraftPullRequestWorkflowPlan(
    [title |-> payload.pullRequest.title, baseBranch |-> payload.branch.baseBranch,
     headBranch |-> payload.branch.headBranch, changes |-> payload.commit.changes,
     labels |-> SetToSeq(payload.pullRequest.labels),
     reviewers |-> SetToSeq(payload.pullRequest.reviewers)],
    payload.binding)

(* The approval keeps the hash of the payload and a copy of it from which  *)
(* whatever looks like a secret is removed.                                *)
hashPayload(payload) == payload
approvalPayloadMetadata(payload) ==
  [payload EXCEPT !.commit.changes = [k \in 1..Len(@) |-> [@[k] EXCEPT !.content = Redacted[@]]]]
createApprovalRequest(payload) ==
  [status |-> "pending", payloadHash |-> hashPayload(payload),
   payloadMetadata |-> approvalPayloadMetadata(payload)]

(* The parts of a plan agree with each other.                              *)
validatePlannedGitHubDraftPullRequestPlan(plan) ==
  /\ plan.branch.headBranch = plan.pullRequest.headBranch
  /\ plan.tokenRequest.installationId = plan.binding.installationId
  /\ plan.binding.repositoryId # 0 => plan.binding.repositoryId \in plan.tokenRequest.repositoryIds

(* Execution without a comparison of the hashes.                           *)
validateApprovedGitHubDraftPullRequestPlan_NoHash(plan, approval) == approval.status = "approved"

validateApprovedGitHubDraftPullRequestPlan(plan, approval) ==
  /\ validatePlannedGitHubDraftPullRequestPlan(plan)
  /\ approval.status = "approved"
  /\ hashPayload(createGitHubDraftPullRequestWorkflowApprovalPayload(plan)) = approval.payloadHash

approvedGitHubDraftPullRequestPlanFromApproval(approval) ==
  createGitHubDraftPullRequestWorkflowPlanFromApprovalPayload(approval.payloadMetadata)

permissionAccessRank(access) == CASE access = "write" -> 2 [] access = "read" -> 1 [] OTHER -> 0
permissionAccessCovers(actual, required) ==
  permissionAccessRank(actual) >= permissionAccessRank(required)

(* Every permission asked for, and more than a minute left (seconds).      *)
validateGitHubInstallationTokenLease(token, request) ==
  /\ token.installationId = request.installationId
  /\ request.repositoryIds \subseteq token.repositoryIds
  /\ \A name \in DOMAIN request.permissions :
       permissionAccessCovers(token.permissions[name], request.permissions[name])
  /\ token.ttl > 60

-----------------------------------------------------------------------------
(* The run up to its approval *)

(* The real client plans with the installation the repository is bound to  *)
(* now, the fake one with the configured installation.                     *)
createGitHubDraftPullRequestPlanProviderFromStore ==
  UNION { createGitHubDraftPullRequestWorkflowPlan(run.proposal, b) : b \in run.binding }
createDefaultGitHubDraftPullRequestPlanProvider ==
  createGitHubDraftPullRequestWorkflowPlan(run.proposal, Bound(1, 0))
approvalPlanProvider ==
  IF client = "rest" THEN createGitHubDraftPullRequestPlanProviderFromStore
  ELSE createDefaultGitHubDraftPullRequestPlanProvider

AskApproval ==
  /\ run.approval.status = "none" /\ run.allowed
  /\ \E plan \in approvalPlanProvider :
       /\ validatePlannedGitHubDraftPullRequestPlan(plan)
       /\ run' = [run EXCEPT !.approval =
                    createApprovalRequest(createGitHubDraftPullRequestWorkflowApprovalPayload(plan))]
  /\ UNCHANGED <<client, repo, worker, counts>>

Approve ==
  /\ run.approval.status = "pending"
  /\ run' = [run EXCEPT !.approval.status = "approved"]
  /\ UNCHANGED <<client, repo, worker, counts>>

-----------------------------------------------------------------------------
(* One attempt: the plan is made again from the approval, and policy is    *)
(* asked again; a throw ends the attempt.                                  *)

Idle == [pc |-> "idle", plan |-> {}, base |-> 0, parent |-> 0, commit |-> 0, pr |-> 0]
Goto(w, pc) == worker' = [worker EXCEPT ![w].pc = pc]
Plan(w) == CHOOSE plan \in worker[w].plan : TRUE

Start(w) ==
  /\ worker[w].pc \in {"idle", "failed", "done"}
  /\ run.approval.status = "approved"
  /\ counts.attempts < MaxAttempts
  /\ counts' = [counts EXCEPT !.attempts = @ + 1]
  /\ LET plan == approvedGitHubDraftPullRequestPlanFromApproval(run.approval)
         ok   == run.allowed /\ \E p \in plan :
                   validateApprovedGitHubDraftPullRequestPlan(p, run.approval)
     IN  worker' = [worker EXCEPT ![w] = [Idle EXCEPT !.pc = IF ok THEN "token" ELSE "failed",
                                                      !.plan = IF ok THEN plan ELSE {}]]
  /\ UNCHANGED <<client, run, repo>>

(* A request: it takes effect and is answered, or fails, before or after   *)
(* it took effect.                                                         *)
tryRequestJson(w, effect, answered) ==
  \/ effect /\ answered /\ UNCHANGED counts
  \/ /\ counts.faults < MaxFaults
     /\ counts' = [counts EXCEPT !.faults = @ + 1]
     /\ effect \/ UNCHANGED repo
     /\ Goto(w, "failed")

(* A request that only reads.                                              *)
requestJson(w, answered) == tryRequestJson(w, UNCHANGED repo, answered)

getInstallationToken(w) ==
  /\ worker[w].pc = "token"
  /\ IF client = "fake" THEN Goto(w, "base") /\ UNCHANGED <<repo, counts>>
     ELSE \E answer \in TokenAnswers :
            LET request == Plan(w).tokenRequest
                token   == [installationId |-> request.installationId, repositoryIds |-> request.repositoryIds,
                            permissions |-> answer.permissions, ttl |-> answer.ttl]
            IN  requestJson(w, Goto(w, IF validateGitHubInstallationTokenLease(token, request)
                                       THEN "base" ELSE "failed"))
  /\ UNCHANGED <<client, run>>

(* createBranch: the base is read, the branch made from it.  A branch that *)
(* is there already is taken when it still points at the base.             *)
createBranch_read(w) ==
  /\ worker[w].pc = "base"
  /\ requestJson(w, worker' = [worker EXCEPT ![w].pc = "ref", ![w].base = repo.base])
createBranch_post(w) ==
  /\ worker[w].pc = "ref"
  /\ IF repo.head # 0 THEN requestJson(w, Goto(w, "existing"))
     ELSE tryRequestJson(w, repo' = [repo EXCEPT !.head = worker[w].base], Goto(w, "head"))

(* The branch is taken wherever it points.                                 *)
createBranch_existing_Any(w) ==
  /\ worker[w].pc = "existing"
  /\ requestJson(w, worker' = [worker EXCEPT ![w].pc = IF repo.head # 0 THEN "head" ELSE "failed",
                                             ![w].base = repo.head])
createBranch_existing(w) ==
  /\ worker[w].pc = "existing"
  /\ requestJson(w, Goto(w, IF repo.head = worker[w].base THEN "head" ELSE "failed"))

(* commitFiles: the head must be where createBranch left it; the tree and  *)
(* the commit are made, and the branch moves to it only from its parent.   *)
commitFiles_read(w) ==
  /\ worker[w].pc = "head"
  /\ requestJson(w, IF repo.head = worker[w].base
                      THEN worker' = [worker EXCEPT ![w].pc = "commit", ![w].parent = repo.head]
                      ELSE Goto(w, "failed"))
commitFiles_post(w) ==
  /\ worker[w].pc = "commit"
  /\ tryRequestJson(w,
       repo' = [repo EXCEPT !.commits = Append(@,
                 [by |-> "bek", parent |-> worker[w].parent, changes |-> Plan(w).commit.changes])],
       worker' = [worker EXCEPT ![w].pc = "patch", ![w].commit = Len(repo.commits) + 1])
commitFiles_patch(w) ==
  /\ worker[w].pc = "patch"
  /\ IF repo.head # worker[w].parent THEN requestJson(w, Goto(w, "failed"))
     ELSE tryRequestJson(w, repo' = [repo EXCEPT !.head = worker[w].commit], Goto(w, "pulls"))

(* createDraftPullRequest: GitHub has at most one open pull request for a  *)
(* pair of branches, and Bek goes on with it when it is there.             *)
OpenPrs == {k \in 1..Len(repo.prs) : repo.prs[k].open}
createDraftPullRequest_post(w) ==
  /\ worker[w].pc = "pulls"
  /\ CASE repo.head = 0 -> requestJson(w, Goto(w, "failed"))
       [] OpenPrs # {}  -> requestJson(w, Goto(w, "find"))
       [] OTHER -> tryRequestJson(w,
            repo' = [repo EXCEPT !.prs = Append(@, [by |-> "bek", open |-> TRUE, labels |-> {}, reviewers |-> {}])],
            worker' = [worker EXCEPT ![w].pc = "label", ![w].pr = Len(repo.prs) + 1])
findOpenPullRequestForBranchPair(w) ==
  /\ worker[w].pc = "find"
  /\ requestJson(w, IF OpenPrs = {} THEN Goto(w, "failed")
                    ELSE worker' = [worker EXCEPT ![w].pc = "label", ![w].pr = CHOOSE k \in OpenPrs : TRUE])
createDraftPullRequest_label(w) ==
  /\ worker[w].pc = "label"
  /\ LET labels == Plan(w).pullRequest.labels
     IN  IF labels = {} THEN Goto(w, "review") /\ UNCHANGED <<repo, counts>>
         ELSE tryRequestJson(w, repo' = [repo EXCEPT !.prs[worker[w].pr].labels = @ \cup labels],
                             Goto(w, "review"))
createDraftPullRequest_review(w) ==
  /\ worker[w].pc = "review"
  /\ LET reviewers == Plan(w).pullRequest.reviewers
     IN  IF reviewers = {} THEN Goto(w, "get") /\ UNCHANGED <<repo, counts>>
         ELSE tryRequestJson(w, repo' = [repo EXCEPT !.prs[worker[w].pr].reviewers = @ \cup reviewers],
                             Goto(w, "get"))
getPullRequest(w) == worker[w].pc = "get" /\ requestJson(w, Goto(w, "done"))

RestStep(w) ==
  /\ client = "rest"
  /\ \/ createBranch_read(w) \/ createBranch_post(w) \/ createBranch_existing(w)
     \/ commitFiles_read(w) \/ commitFiles_post(w) \/ commitFiles_patch(w)
     \/ createDraftPullRequest_post(w) \/ findOpenPullRequestForBranchPair(w)
     \/ createDraftPullRequest_label(w) \/ createDraftPullRequest_review(w) \/ getPullRequest(w)
  /\ UNCHANGED <<client, run>>

-----------------------------------------------------------------------------
(* The fake client does each of the three at once and fails where the real *)
(* one would reuse.                                                        *)

Fake_createBranch(w) ==
  /\ worker[w].pc = "base"
  /\ IF repo.head # 0 THEN Goto(w, "failed") /\ UNCHANGED repo
     ELSE /\ repo' = [repo EXCEPT !.head = repo.base]
          /\ worker' = [worker EXCEPT ![w].pc = "head", ![w].base = repo.base]
Fake_commitFiles(w) ==
  /\ worker[w].pc = "head"
  /\ IF repo.head # worker[w].base THEN Goto(w, "failed") /\ UNCHANGED repo
     ELSE /\ repo' = [repo EXCEPT !.head = Len(repo.commits) + 1, !.commits = Append(@,
                       [by |-> "bek", parent |-> repo.head, changes |-> Plan(w).commit.changes])]
          /\ Goto(w, "pulls")
Fake_createDraftPullRequest(w) ==
  /\ worker[w].pc = "pulls"
  /\ IF repo.prs # <<>> THEN Goto(w, "failed") /\ UNCHANGED repo
     ELSE /\ repo' = [repo EXCEPT !.prs = Append(@,
                       [by |-> "bek", open |-> TRUE, labels |-> Plan(w).pullRequest.labels,
                        reviewers |-> Plan(w).pullRequest.reviewers])]
          /\ Goto(w, "done")
FakeStep(w) ==
  /\ client = "fake"
  /\ Fake_createBranch(w) \/ Fake_commitFiles(w) \/ Fake_createDraftPullRequest(w)
  /\ UNCHANGED <<client, run, counts>>

-----------------------------------------------------------------------------
(* Everybody else: a push to the base branch, a merge that deletes the     *)
(* branch, a pull request opened by hand for Bek's branch; the repository  *)
(* moves to another installation, an admin denies the grant.               *)

Outside ==
  /\ counts.outside < MaxOutside
  /\ counts' = [counts EXCEPT !.outside = @ + 1]
  /\ UNCHANGED <<client, worker>>
Elsewhere ==
  /\ client = "rest" /\ Outside
  /\ \/ /\ repo' = [repo EXCEPT !.base = Len(repo.commits) + 1, !.commits =
                      Append(@, [by |-> "other", parent |-> repo.base, changes |-> <<>>])]
        /\ UNCHANGED run
     \/ /\ OpenPrs # {} /\ repo.head # 0
        /\ repo' = [repo EXCEPT !.base = repo.head, !.head = 0, !.deleted = @ + 1,
                                !.prs = [k \in 1..Len(@) |-> [@[k] EXCEPT !.open = FALSE]]]
        /\ UNCHANGED run
     \/ /\ OpenPrs = {} /\ repo.head # 0 /\ repo.commits[repo.head].by = "bek"
        /\ repo' = [repo EXCEPT !.prs =
                      Append(@, [by |-> "other", open |-> TRUE, labels |-> {}, reviewers |-> {}])]
        /\ UNCHANGED run
     \/ /\ \E b \in {{}, {Bound(2, 1)}} : run' = [run EXCEPT !.binding = b]
        /\ UNCHANGED repo
     \/ run' = [run EXCEPT !.allowed = FALSE] /\ UNCHANGED repo

Init ==
  /\ client \in {"rest", "fake"}
  /\ \E p \in Proposals :
       run = [proposal |-> p, binding |-> {Bound(1, 1)}, allowed |-> TRUE,
              approval |-> [status |-> "none", payloadHash |-> {}, payloadMetadata |-> {}]]
  /\ repo = [base |-> 1, head |-> 0, prs |-> <<>>, deleted |-> 0,
             commits |-> <<[by |-> "other", parent |-> 0, changes |-> <<>>]>>]
  /\ worker = [w \in Workers |-> Idle]
  /\ counts = [attempts |-> 0, faults |-> 0, outside |-> 0]

Next ==
  \/ AskApproval \/ Approve \/ Elsewhere
  \/ \E w \in Workers : Start(w) \/ getInstallationToken(w) \/ RestStep(w) \/ FakeStep(w)

Spec == Init /\ [][Next]_vars

-----------------------------------------------------------------------------
(* Commits of the branch and, since it was first merged, of the base.      *)
Published ==
  LET reached[c \in 0..Len(repo.commits)] ==
        IF c = 0 THEN {} ELSE {c} \cup reached[repo.commits[c].parent]
  IN  reached[repo.head] \cup reached[repo.base]

(* Whatever Bek commits is what was planned and approved, to the letter,   *)
(* and not what is left of it after the approval's copy was redacted.      *)
CommitsAsApproved ==
  \A c \in 1..Len(repo.commits) :
    repo.commits[c].by = "bek" =>
      /\ run.approval.status = "approved"
      /\ repo.commits[c].changes = run.proposal.changes
      /\ repo.commits[c].changes = run.approval.payloadHash.commit.changes

(* However many attempts run, one after another or side by side, and       *)
(* whichever answers are lost, the branch receives one commit of Bek's and *)
(* Bek opens one pull request, until somebody merges it and deletes the    *)
(* branch.                                                                 *)
OneCommitOnePullRequest ==
  /\ Cardinality({c \in Published : repo.commits[c].by = "bek"}) <= 1 + repo.deleted
  /\ Cardinality({k \in 1..Len(repo.prs) : repo.prs[k].by = "bek"}) <= 1 + repo.deleted
=============================================================================
