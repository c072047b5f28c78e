# TLA+ models of the HAL agent operator

The operator turns a GitHub issue into a pull request: an `IssueResolution`
resource is triaged by a Kubernetes Job (Job 1), waits for a human's approval,
and is then worked on by up to `spec.maxFixAttempts` fix Jobs (Job 2), the
first successful one of which opens the pull request. This directory models
that in TLA+, checks it with TLC on small instances, and proves part of it with
TLAPS for every value of the constants. File and line references are to `src/`.

## 1. Inventory

| Component | State it keeps | Operations | Talks to |
|---|---|---|---|
| Reconciler `internal/controller/issueresolution_controller.go` | none of its own; one pass at a time per resource | `Reconcile`, `reconcileTriage`, `reconcilePendingValidation`, `reconcileFix`, `handleFixFailure` | API server (create Jobs, patch status), informer caches (reads) |
| API types `api/v1alpha1/issueresolution_types.go` | `spec` (snapshot, `approved`, `maxFixAttempts`), `status` (`phase`, `triage`, `execution`, `conditions`) | – | – |
| Triage worker `cmd/triage/main.go`, `github.go` | the pod's verdict; the issue's comments and labels; the termination message | prefilter, model call, comment, label sync, message | Gemini, GitHub, termination log |
| Prefilter `cmd/triage/scan.go` | – | `scanSuspicious`, `sanitizeForModel`, `redactBase64Blocks`, `looksBase64Block` | – |
| Fix worker `cmd/fix/main.go` | working tree, remote branch, pull request, termination message | clone, branch, test, locate, edit, verify, push, open PR, message | Gemini, git, GitHub, termination log |
| Edit parsers `cmd/fix/main.go` | the edits parsed, the content so far | `parseEdits`, `parseMarkerEdits`, `validateEdits`, `applyEdits` | – |
| Gemini client `internal/gemini` | – | one request; `TruncateRunes` | Gemini |
| Manager `cmd/main.go` | informer caches; optional leader lease | start, stop; two at once in a rolling update | API server |
| Kubernetes (external) | resources, Jobs, Pods, caches | Job controller, TTL controller, deadlines, garbage collection | – |
| GitHub Action, humans (external) | – | create the resource, set `spec.approved`, edit `spec` | API server |

The parts meet in four places: the `status` (written by the reconciler only),
the `spec` (written by humans only), the Jobs (created by the reconciler, ended
by the cluster, deleted by the TTL controller) and the termination messages
(written by a pod, read by the reconciler from a cache of Pods).

**What is hard here.** The reconciler creates a Job and patches the status in
two calls and can stop in between. It reads from caches that may be older than
its own last write, and patches without a resourceVersion. Finished Jobs, which
are its only memory of a result, vanish after an hour. `job.Status.Failed`
counts pods, not Jobs. Resources and Jobs are found by name, and a resource may
be deleted and created again under it. With leader election off, two managers
may be at it at once. Workers make several requests to GitHub, any of which can
fail, or take effect and look failed; a Job then starts over. `PROJECT.json`
lists these as hazards at their lines.

**What makes it correct.** Nothing is launched that no human approved or that
triage did not clear. An issue gets the attempts it was granted and one pull
request. What the status says (phase, verdict, conditions, PR) is true. Every
issue settles. What the workers publish is what they report, what they push
they have verified, and it loses nothing that was pushed before. The text a model
sees is the issue without its closed comments and its encoded spans, and what is
written to a file is what the model's edits say.

## 2. Modules

| Module | What it is |
|---|---|
| `Reconcile` | The pure part of a pass: the new status as a function of the status read, the spec and the Job found. Also the JSON merge patch. No variables. |
| `Operator` | The state machine: resource, Jobs, caches, the pass under way, what the attempts left on GitHub, and the human. |
| `MCOperator` | The verdicts used for TLC. |
| `WorkQueue`, `MCWorkQueue` | `Operator` with the work queue: a next pass is owed only when Reconcile's result or an error has asked for it. |
| `IssueLifecycle` | The abstract specification: phases, approval, attempts, launches. `Operator` implements it (`FollowsLifecycle`, `LifecycleGoesOn`). |
| `TriageWorker`, `MCTriageWorker` | Job 1 from the inside: its pods one after the other, the GitHub issue, and what the controller reads. |
| `FixWorker` | Job 2 from the inside: the steps and early returns of `run`, the repository, the pull request. |
| `FixContract` | What `Operator` assumes of a fix Job; `FixWorker` implements it (`KeepsContract`). |
| `TwoManagers`, `MCTwoManagers` | Two managers at once: a second instance of `Operator` over the same API server, with a pass and caches of its own. |
| `Recreation`, `MCRecreation` | `Operator` over several lives of a resource: deletion, creation under the same name, owners, garbage collection. |
| `Redaction` | `sanitizeForModel` symbol by symbol, and what it is to compute without a scan. |
| `EditScript` | From the model's answer to the new file: parsing, validation and application of the edits, and what they are to mean. |
| `MCText` | Runs the two. |
| `Reconcile_proofs`, `Operator_proofs`, `Attempts_proofs`, `Lifecycle_proofs`, `TwoManagers_proofs`, `TriageWorker_proofs`, `FixWorker_proofs`, `Text_proofs` | The theorems of section 5. |

### `Operator`, state and actions

`cr` is the stored resource; `triageJob`, `fixJob[k]` the stored Jobs `<name>-triage`
and `<name>-fix-<k>` (a state, and `failedPods` for `job.Status.Failed`);
`verdict` and `report[k]` the termination message of their successful pod.
`seenCR`, `seenTriageJob`, `seenFixJob` are the informer caches. `pc`, `orig` and
`new` are the pass: the API call it does next, the copy it read (`orig` in
`Reconcile`), the status it computes (`ir.Status`). `remote[k]` is what attempt k
left on GitHub. Six history variables record what properties need.

A pass is cut at its API calls, because that is where it can stop and where
others move: `BeginPass` (Get of the resource and dispatch), `GetTriageJob`,
`CreateTriageJob`, `GetFixJob`, `CreateFixJob`, `PatchStatus`. `ReturnError` is the
error return of any call; `Crash` the death of the process, after which the
caches are listed anew. The work between two calls is one operator of
`Reconcile`, named after the branch it is.

The environment: `TriagePodSucceeds/Fails`, `FixPodSucceeds/Fails`,
`FixJobGetsNoPod`, `TriageJobExpires`, `FixJobExpires`, `SetApproved`,
`SetMaxFixAttempts`, and `SyncCR`, `SyncJobs` for the watches. Which faults a
behaviour may contain is the constant `Faults`, so that each run can say under
which faults its properties hold; the module's header lists the kinds.

Abstractions: messages, summaries, URLs, reasons and times are left out; a pull
request is named by its attempt; `status.execution.branch` is a function of the
attempt and written with `jobName`. `observedGeneration` is written and never read. The
default branch for an unknown phase cannot be reached past the CRD's enum, and a
nil `maxFixAttempts` past the CRD's default. A cache that lags jumps to the
newest version when it syncs; it may have stayed at any older one until then.

### `TriageWorker` and `FixWorker`

Each step of `run` is an action, and `PodFails` may happen instead of any of them,
with or without the effect of the request that was under way. The data is
reduced to what decides: a verdict's three flags for triage, whether tests fail,
pass, or the file does not parse for the fix. `Relaunch` runs a second Job of the
same name: for triage after an outage, for the fix after a resource was deleted
and created again.

`FixWorker` has the humans too: others push to the base branch (`BaseMoves`) and
merge the attempt's branch into it (`Merge`). Of the history of a revision it keeps which
Jobs' commits are in it. It assumes of go-git that a push without `RefSpecs` sends
every local branch and without `Force` is refused unless each is new or a
fast-forward (`PushAccepted`). So a base that has moved since the clone refuses
it, and so does a branch of the name that is already there, unless it was merged
before the clone: such a branch is moved on. Of GitHub it assumes that a request
either takes effect or not. Force pushes and the deletion of a merged branch are left out.

`Operator` keeps of all this only the most each attempt has left (`remote`); a
fix Job over a left-over branch may fail or succeed there, and `FixContract` says which.

### `TwoManagers` and `Recreation`

`TwoManagers` adds the pass and the caches of a second manager
(`INSTANCE Operator WITH pc <- pc2, ...`). Whoever acts, the other one's pass
stays where it is and its caches follow or lag as `Faults` says. A manager that has
not started, or has stopped, is one that takes no step, so the moment of the
update needs no model. A finished Job is deleted only when neither manager is behind.

`Recreation` adds what the reconciler does not look at: whether the resource
`exists`, which `life` of the name it is, which life each Job's
`ownerReference` names and which one the pass has read. The pass is that of
`Operator`; a Get that finds nothing returns, a patch that finds nothing fails, and
one that finds another life changes it, for a merge patch carries no UID.
`CollectTriageJob` and `CollectFixJob` are the garbage collector, some time after
the owner is gone.

### `Redaction` and `EditScript`

A text is a sequence of symbols: the classes of byte that `looksBase64Block`
counts, whitespace, and one symbol for each token of the regular expressions.
Each action is one round of a loop of the code, with its indexes (`pos` for `i`,
`end` and `j` as in the code); `WithoutComments`, `WithoutDataURIs` and
`WithoutBlocks` say by intervals what the three passes are for. The symbol `data:` stands
for `data:<type>;base64,`. It may stand without a payload, or be cut from its
payload by a comment. Left out are the texts in which its letters would continue base64
before it (`Texts`). Placeholders are symbols too, which is exact:
they stand between brackets and hold no 40 letters in a row.

In `EditScript` the model means some edits and answers in JSON or in marked
blocks, whole, cut off anywhere, or without one of the markers `Old` and `New`.
An answer without an `End` marker, whose `New` text runs on into the next block,
is left out.

## 3. Runs

All are small enough to be searched completely (the largest, `managers` and
`text`, have about 1.3 million states each). Two attempts (`AttemptCap = 2`)
are enough for a retry, for exhaustion and for confusing two attempts; two
interruptions allow a crash during the recovery from one. One resource is enough
because passes of different resources share nothing. Approval can be given and
withdrawn without bound. `MCTriageResults` has one verdict for each branch of
`reconcileTriage`.

| Run | Faults | Question and answer |
|---|---|---|
| `faults` | all but `lag`, 2 interruptions | The status stays truthful: an acceptable verdict behind every phase past the barrier, `Executing` only for a launched attempt, conditions as the phase says, `PROpen` only with a real PR of that attempt; a recorded Job is not created again; the resource follows its lifecycle. Holds. |
| `lag` | `lag`, `crash`, `error`, 1 interruption | Stale caches do not get past the gate or the verdict, do not run two attempts at once, do not relaunch what succeeded, do not retry a success, do not open two PRs; `PROpen` is stored only with a real PR and the conditions are those of the phase, although a patch mixes two passes. Holds. |
| `fair` | `crash`, `error`, `edit`, `lostReport`, 2 interruptions; `WorkQueue` | Every issue settles, a reported pull request reaches the status, a lasting approval gets its Job, although no watch event brings a pass. Holds. |
| `triage` | failing pods, two Jobs | The labels of the issue never contradict each other, all come from one of the verdicts in its comments, and what the controller reads is what the issue shows. Holds. |
| `fix` | failing pods, two Jobs on a branch name that may be taken, a base that moves, merges | Only verified work is pushed, nothing that was pushed is lost, a report is the Job's own, and `FixContract` is kept. Holds. |
| `managers` | none, two managers | Two managers at once do not get past the gate or the verdict, do not run two attempts at once, do not retry a success, do not open two PRs. Holds. |
| `text` | answers cut off or malformed | The redaction gives what its definition says, whatever the chunks; the edits applied are the edits meant, and done one by one they are done as if at once. Holds. |
| `triagepod` | none | Violated: the first failed *pod* of the triage Job makes the issue `Failed`. |
| `jobname` | `crash` | Violated: `jobName` is not the running Job's after a crash between Create and Patch. |
| `nopod` | `noPod` | Violated: a fix Job failing without a pod is never noticed. |
| `recreated` | deletion and re-creation | Violated: a re-created resource takes the verdict of its predecessor's triage Job. |
| `unclosed` | – | Violated: a comment that begins the text and that nobody closes is left in it. |

The five violations are disagreements between the code and a sentence of its
docs or comments; `PROJECT.json` quotes them under "findings".

Bounds of `text`: `base64MinLen` is 3 and not 40, with `1 / base64UpperRatio` kept
at 4, so that texts of 5 symbols have spans that are too short, just long enough
and chunked, next to comments, closed or not, and to URIs, with a payload or cut from it; files of 4 characters, edits of 2 and
scripts of 2 make room for Old texts that are missing, unique, repeated, adjacent, or
brought about by the edit before. `recreated` has two lives. `managers` has no
further fault: with `lag` for both managers the state space goes past ten million states;
what is proved of two managers (section 5) includes lagging caches, crashes and errors.

Deadlock is checked where the operator runs (its passes never stop). `triage`,
`fix`, `text` and `unclosed` switch it off, for a worker's Job and an algorithm end,
and so does `recreated`, where the last life of a resource may end in its deletion.

### What does not hold, and is not claimed

- With `lag`, that `Executing` is launched and that the lifecycle is followed: a merge
  patch computed from an old copy can leave `Executing` with an attempt that was never
  launched, and a stopped phase can be left. The conditions can be another phase's if
  `maxFixAttempts` was edited in between (or with `outage` or `podLoss`). With `podLoss`
  as well, a `parseError` can stand next to `PendingValidation`.
- With `lostReport`, `podLoss` or a crash during an outage, one pull request per
  issue: an unreadable result counts as a failure, and the next attempt opens another.
- With `outage` or `noPod`, that every issue settles.
- With `outage`, that a triage Job which succeeded is launched once: when its TTL
  ends before a pass has seen the result, the next pass creates it again. A fix
  Job created just before a crash is launched again in the same way.
- That an attempt stays within `maxFixAttempts` as it is now: one granted before
  the cap was lowered is still launched (`reconcileFix` does not look at the cap).
- With two managers, what the status says of itself: one manager's patch may put
  `Executing` on an attempt that was not launched, leave the conditions of another
  phase, or set `PROpen` with another attempt's fields.
- Of a re-created resource, that it starts afresh: its patch may come from a pass over
  its predecessor, its verdict from the predecessor's Job, and a branch that is
  still there refuses the push of its first attempt.
- Of a triage label, that the resource is in the phase it names: the model's JSON may set
  `parseError` beside an in-scope verdict, and a message with a long summary may be cut;
  the issue then carries `agent:pending-validation` and the resource is `Failed`. Every
  triage comment asks for `agent go`, whatever the verdict (`github.go:92`).
- Of a branch the worker pushed, that it is left alone: once merged, it is moved on by
  the next Job of its name.
- Of redaction, that prose stays: letters and spaces that touch a blob belong to its
  span, and so does a run of 40 or more lowercase letters and spaces with one slash in it
  (and/or), although `scan.go:210` says that prose passes through untouched.
- Of redaction, that no half of a comment or of a data URI is left: `reHTMLComment`
  (`scan.go:62`) needs the closing `-->` (run `unclosed`), and a data URI that a comment
  has cut from its payload is no match for `reRedactDataURI` (`scan.go:63`) after the comment
  is gone, so that header and payload stay, the payload redacted only if it is a block itself.
- Of edits, that an Old text which overlaps itself is unique (`strings.Count`
  finds one "aa" in "aaa"), and that an answer cut off between two blocks is refused:
  the blocks before the cut are applied, and then tested.

### Fairness

`QueueSpec` (run `fair`) assumes weak fairness of a pass that has been asked for and
of the calls of one that has begun, of the watches that fill the caches, and of the end of
each Job's pods. A pass is asked for by the result of the one before (`Requeue`: every
return but those in a final phase, and the one for a recorded Job that is gone, has a
`RequeueAfter`), by an error, and by the start of a manager. Watch events may begin
passes too, but none is owed. So the run shows that the requeues of the code are enough.
`FairSpec` of `Operator` (run `nopod`) takes the next pass for granted.

A fix Job has a deadline of 600 s. A triage pod bounds its two phases by 120 s and 60 s; that it
starts is an assumption, for `buildTriageJob` sets no deadline, and an issue whose triage pod
cannot start stays in Triage. Nothing is assumed of approvals, edits, faults,
or the deletion of finished Jobs. `ApprovalIsActedOn` concerns approvals that are
not withdrawn.

## 4. Abstract specifications

`IssueLifecycle` is the state machine of `docs/operator-architecture.md` section
4, with retries. The mapping takes the empty phase for `Triage`, attempt 0 for 1,
`everApproved` for the approval and `launched` for the runs paid for; creating a
Job is `Launch` and the later patch `Track`, so that a crash in between is a
stutter and not a second launch. Its fair form has every stage but approval end.

`FixContract` is what the environment actions of `Operator` say about one fix
Job. The operator sees nothing of GitHub before the Job ends, so the mapping
shows the branch and the pull request only then, and whether what they hold
is part of the base branch (`merged`): over what an earlier Job left, a Job can
push only if that was merged.

## 5. Theorems

All hold for every `AttemptCap` in Nat \ {0}, every set of verdicts and every
`MaxInterruptions`; the set `Faults` is arbitrary unless an assumption is named.

**`Operator_proofs`** (every fault, `lag` included)

- `TypeCorrect`: `Spec => []TypeOK`. `TypeOK` is not inductive alone: that
  `failedPods` stays at most 2 needs `BackoffLeft`, that an active triage Job has not
  used up its BackoffLimit. Lemmas of `Reconcile_proofs` show that every operator that
  computes a status computes a well-typed one.
- `HumanGateHolds`. What must be carried is that an
  approval seen by any copy of the resource (stored, cached, read) was given, that a
  successful verdict in a Job or on its way to the status was reported, and that
  any status past the barrier, stored, cached, read or being computed, implies
  both: `GateInv`. Because every copy is covered, the argument does not
  care how old the copies are, which is why the gate survives stale caches.
- `AttemptsGrantedHolds`. `BudgetInv` says that no
  copy of the status is at an attempt above `granted`, and no copy of the spec
  grants more than `granted`, the largest cap there has been.

**`Attempts_proofs`** (`lag` included, without `outage`)

- `OneFixJobAtATimeHolds`, `SucceededNotRelaunchedHolds`, from `OrderInv`. Here
  too the argument is about all copies of the status at once (`Copies`). Each copy
  has the attempts before its own behind it: launched and ended (`EarlierEnded`).
  The only step that makes a copy with a new attempt is a retry, which has seen a
  result; a cached result may be old but is final (`ResultsFinal`). All other
  copies take their attempt and their phase from copies there were (`CopiesFollow`),
  possibly from two different ones, since a merge patch mixes them. That no
  deleted Job is created again needs `GoneIsPast` and `TriageIsPast`: by the time the TTL
  deletes a Job, no copy is left that would look for it. This is where an
  outage would break the proof, and the code.
- `AtMostOnePRHolds`, `RetryOnlyAfterFailureHolds`, without `lostReport` and
  `podLoss` as well (`ReportsReadable`): `PRInv` adds that no attempt behind another one
  has left a pull request, and that a complete Job has its report.

- `VerdictBehindPhaseWithStaleCaches`, without `podLoss`, from `VerdictInv`: triage's verdict
  is final (`VerdictFinal`), what each copy says of it agrees with the copy's phase
  (`CopiesAgree`), and once a copy of an accepted issue has `inScope`, the stored one
  has it for good (`InScopeStays`). So a patch that mixes the phase of one pass with
  the verdict of another mixes verdicts that are the same.

**`Lifecycle_proofs`** (first every fault but `lag`, outages included; then with `lag`)

- Without `lag`: `FollowsLifecycleHolds`, that `Operator` implements `IssueLifecycle`, and
  `RecordedJobNotRecreatedHolds`, `VerdictBehindPhaseHolds`,
  `ExecutingIsLaunchedHolds`, `ConditionsMatchPhaseHolds`, `PROpenIsRealHolds`, all from
  `LifeInv`. Nothing but the pass writes `status`, so what it read is what is stored,
  and its patch stores what it computed (`PatchStores`). The invariant
  therefore follows the status through the pass (`Sound`), and records from the moment it
  is computed that the patch will be one step of the lifecycle, or none (`Goes`).
  `RecordedJobNotRecreated` needs that a retry leaves `jobName` behind the attempt.
- With `lag`, without `outage` and `podLoss`: `PROpenIsRealWithStaleCaches`, and, without
  `edit`, `ConditionsMatchPhaseWithStaleCaches`, from `LagInv`. A status is at a stage
  (`Level`): triage, the barrier, or one of the attempts. The stored status is at
  the stage of the one that was read or at the next (`Follows`), and what a status says
  the caches have seen (`Earned`); what they have seen they go on seeing
  (`TriageStaysSeen`, `FixStaysSeen`). So two passes that decide on the same Job
  decide alike, and what the patch of one leaves on the status the other has stored is
  again such a status (`Fits`).

**`TwoManagers_proofs`** (both caches lag, each manager crashes and errs)

- `HumanGateWithTwoManagers`, `AttemptsGrantedWithTwoManagers`, with every fault;
  `OneFixJobAtATimeWithTwoManagers`, without `outage`; `AtMostOnePRWithTwoManagers` and
  `RetryOnlyAfterFailureWithTwoManagers`, where in addition every report can be read;
  `VerdictBehindPhaseWithTwoManagers`, without `outage` and `podLoss`.
- Each manager has its own `GateInv`, `BudgetInv`, `OrderInv`, `PRInv` and `VerdictInv`; they
  share what these say of the server (`SharedGate`, `SharedOrder`, ...). A step of one
  manager keeps its own invariant by the lemma about `Operator`. The other one's it
  keeps because that one looks on (`LooksOn`): its pass stays where it is, its only new
  copy is the stored one, and what every step does to the server (`AttemptsGrow`,
  `PRsStay`, `VerdictStays`) takes nothing back that its copies rely on.
- What no manager can have alone is that a deleted Job is past. A patch of one mixes its
  copies with those of the other, so `BothPast` speaks of the copies of both
  (`AllCopies`): all are at a later attempt, or in all of them the issue has
  stopped. It would not do for one to be at a later attempt and the other to have stopped.

**`FixWorker_proofs`, `TriageWorker_proofs`** (every `MaxJobs`, every `MaxMoves`, every set of verdicts)

- `PushedIsVerifiedHolds`, `ReportIsOwnHolds`, `NothingLostHolds`, `WorkerTypeCorrect`,
  and `KeepsContractHolds`, that `FixWorker` implements `FixContract`. The
  invariant says what must have happened by each step of `run`: the tests that have
  failed and passed, whose commit is on the branch, whose pull request is reported. That
  nothing is lost needs that the base branch keeps its history (`HistoryKept`): what the
  clone contained when the push was accepted, the base still contains.
- `LabelsAgreeHolds`, `ReadIsPublishedHolds`, `LabelsTellOneCommentHolds`, `TriageTypeCorrect`. The
  invariant says which labels and which comment each step leaves, for the pod that does it and
  for the pod that finds it.

**`Text_proofs`** (texts, files, edits and answers of any length; every `MinLen`,
`UpperInverse`, `Char` and bound)

- `NothingLeftWholeHolds`, from `RedactionInvariant`: each pass has its input, its position in it
  (`SpanInv`), and an output without a data URI that has its payload (`DataInv`) and without a
  comment that is opened and closed (`PairInv`). What needs the proof is that no later pass brings
  together two halves that the pass for them has left: what follows a copied `data:` is
  not base64 in its input, and still is not in its output.
- `SanitizedAsDefinedHolds`, from `SanitizeInvariant`: the output of a pass so far is the
  concatenation of the parts that the definition by intervals gives to the positions
  before `pos` (`SoFar`), `pos` is never inside an interval (`Outside`), and the placeholders in the
  output, with those of the input still to be copied, are as many as were counted
  (`CountInv`). The loop of `redactBase64Blocks` finds a span's end step by step; that it is the end
  of an interval of the definition is `SpanInv` and `EndInv`.
- `ChunkingChangesNothingHolds`, from `SanitizeInvariant` too. Taking the whitespace out of the
  spans maps each span to an interval of the joined text, one to one, since every
  symbol that stays has its own place there (`PlacesAre`); what looks like Base64 is
  counted without the whitespace, so a span is a block exactly when its image is
  (`BlocksJoined`); and each block gives one placeholder (`BlobsCounted`).
- `NoHalfEditHolds`, from `EditInvariant`: the edits read are a prefix of those meant, and
  what has not been read is, symbol by symbol, the rest of the answer, cut off or without
  one symbol (`ReadInv`). `Layout` says where each block of an answer stands,
  `WholeMarkers`, `CutMarkers` and `GappedMarkers` what the parser finds there.
- `EditsAsOneHolds`, from `AppliedInvariant`: at each step the file is the first one with the
  first k edits in their places (`AppliedParts`). That the next edit lands where the first file
  has its text, and not in what another edit has put in, needs that `strings.Count` counts every
  occurrence of a text that cannot overlap itself (`CountsThem`), so that what it finds
  once is in one place only (`UniqueIsOnce`).
- `FlattenSeq` and `SelectInSeq` are used through what is proved of them first (`FlattenAppend`,
  `FlatStep`, `IndexAt`). Where an induction is needed, its claim is a set
  (`SetInduction`), for the library's theorem takes an operator.

The theorems are about `RedactionSpec` and `EditSpec`, which the run `text` runs
side by side.

The proofs have one lemma for each group of actions, one step per action. The
invariants were checked with TLC before they were proved.

**Only model-checked**: liveness (`LifecycleGoesOn`, `ReportIsRecorded`, `ApprovalIsActedOn`), which with
ENABLED is out of the prover's reach. Every invariant and every other action property
that a passing run checks is a theorem. The modules have no RECURSIVE operators.

## 6. Not modelled

Wording and rendering of comments, messages, prompts and the pull request; Secrets, RBAC,
network policies, Pod security; flags, TLS, probes and metrics of the manager; the
generated API code; what the model answers beyond the outcomes it may have; the
tables of phrases and expressions of `scanSuspicious`, which are data, beyond that a hit
skips the model; `parseLocatePath` and the walk over the Go files; the HTTP client of
`internal/gemini`, a library; overlap of two triage pods (the worker ends
within three minutes, before the cluster replaces an unreachable one).

## 7. Plan

Done: every module of section 2, the runs of section 3, the theorems of section 5.

Left, in this order:

1. The matching of `scanSuspicious` (normalisation, then phrases and expressions) over
   the classes of symbols of `Redaction`.
2. Answers without an `End` marker in `EditScript`.
