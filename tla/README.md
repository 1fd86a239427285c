# A verification of the WeInfer pod's control-plane scripts

The repository rents GPU pods by the hour and runs an inference gateway on them. The part that can
do harm when it is wrong is not the serving code, which is external, but the scripts that create,
watch, admit work to and destroy what costs money. This project models those scripts in TLA+, checks
the models with TLC on small instances, and proves theorems about them with TLAPS for every value of
the constants.

`tlc -config gpu_safety.cfg MCGpuWatchdog` runs one check, `tlapm GpuWatchdogProofs.tla` the proofs
of one module.

## 1. The system: an inventory

Paths are relative to `src/`; `ci/` stands for `controlplane/ci/`.

| Component | State it keeps | Operations | What is hard |
|---|---|---|---|
| GPU-dollar watchdog, `ci/gpu_watchdog.sh` | ledger file, stand-down file, clean-read count, exit code | poll, list, reconcile missing ids, survey, closeout (verified delete, sweep) | stale reads, lost deletes, late listings, restarts, torn writes |
| Campaign watchdog, `ci/gpu_watchdog_campaign.sh` | the same, and the outage's start and the last accrued total; a local process instead of a pod | the same, `mark_outage`, `stop_control_plane` | blindness, a process that survives TERM |
| Deploy tail, `ci/deploy_controlplane.sh`, and its resume, `ci/deploy_cleanup_resume.sh` | ids seen before the create, the created id, the persisted cleanup state | create, discover an ambiguous create, delete and verify, persist, resume | a create whose answer is lost, an EXIT trap that is killed |
| Older deploy tail, `ci/retention_pair_deploy_v0_9.sh` | the same | the same, earlier version | the same |
| One-shot armer, `ci/arm_stacked_n24_admit_launchd.py` | staged plist, write-once receipt, lock | bootstrap, prove running twice, publish the receipt, boot out | two processes racing over one receipt, deadlines |
| Admission coordinator, `ci/stacked_n24_admit.py` | one-shot lock, sealed receipts, children, samples | gate on the receipt, admit in sequence, sample, join, verify conservation | children that exit between two polls, order of samples |
| Public batch canary, `ci/public_batch_canary.py` | customer key, job ids, results, pointer to the last complete run; keys, jobs, ledger and balance at the gateway | organization, key, grant, 300 posts with idempotency keys, replay, poll, audit | a POST that committed and lost its answer, or arrives after its sender gave it up; a rerun over what a dead one left |
| Retention pair evidence, `ci/public_batch_profile_collect.py`, `ci/retention_pair_receipt.py`, `ci/retention_pair_compare.py` | profile candidates with their chains of boot samples, receipts, verdict | collect one record per job, seal, bind to the session, compare two arms | records read while the accounting goes on, chains that count a sample twice, arms that overlap |
| Window ladder, `ci/retention_pair_window.sh` | durable lock, result and pointer files | early, due or late trigger of one window | a crash between lock and result, window 3 before window 2 ends |
| Runtime image, `Dockerfile`, `runtime/*.py`, `runtime/apply_vllm_h100_backport.sh` | patched sources, markers, compiled operators, manifest | install, patch, narrow, compile, copy, verify | a build that stops half way, a base that drifted, a graph that is not the one in memory |
| Deploy gate and pod boot, `entrypoint.sh`, `runtime/wait_for_engine.py`, `ci/verify_*_contract.py` | attestation files, engine and worker | gate on contract and label, verify, start, wait for either | TERM racing a foreground command, a restart on the same disk, an image that is not the contract's |
| Control-plane entrypoint, `controlplane/entrypoint.sh` | store and gateway | start, wait for either, stop | TERM racing a child's exit |
| PGDATA shim, evidence collectors, substrate preflight, fakes and regressions | none that outlives a call | | |

How they interact. The deploy tail creates the control-plane pod; the gateway on it creates worker
pods; a watchdog reads the provider, not the gateway, and may delete both. The armer starts the
coordinator through launchd and authorises it with a file; the coordinator starts canaries as
children, and each canary talks to the gateway over HTTP. The window ladder starts an operator,
external, who deploys two arms, runs a canary on each, perhaps more than once, and calls the
collector, the receipt and the comparison over what they left. The worker pods the gateway creates
run the image the Dockerfile builds; the deploy's gate and the pod's own verification stand between
the two. All of them share the provider's account, and nothing else: files and provider calls are
the only channels, and neither has transactions.

What makes each correct:
- watchdogs: the meter never books less than was spent and never runs back; the control plane dies
  before the workers; the watch ends, and only with everything gone; its exit code tells why.
- deploy tail: a pod that was created is deleted, or named in a persisted state from which the
  resume deletes it; an empty account is confirmed, not assumed.
- armer and coordinator: nothing is admitted without a published receipt; at most once per identity;
  a failed arming leaves neither a job nor an authority.
- canary: each row is charged once, whatever was retried; what passes is exact; an honest gateway is
  not accused of what it did not do.
- retention pair: a candidate states a charge that was booked and final, and no boot sample twice; a
  verdict is of two arms that ran one after the other, under their policies, in one session (of
  which the code ensures less than it says: section 4).
- window ladder: never two operators at once, nor one after another that failed or spent (again
  section 4).
- image and boot: what registers runs the patched, fully verified image the contract names; one
  process dying takes the container down.

Everything that is hard to test in this code is listed, line by line, under `hazards` in
`PROJECT.json`, with the properties that cover it or the reason why none does.

## 2. The modules

| Module | Models | Lines of TLA+ stand for |
|---|---|---|
| `Provider` | the provider as the scripts and their fakes take it (external) | pods, listings, lookups, deletes, clock |
| `SpendLedger` | the Python bodies of `survey()` and `reconcile_missing()` | one ledger entry, its update and its cost |
| `WatchdogCore` | list, reconcile, survey, verified delete, closeout, restart | the steps both watchdogs share |
| `GpuWatchdog` | `gpu_watchdog.sh` | the poll, its deadline, fairness |
| `CampaignWatchdog` | `gpu_watchdog_campaign.sh` | the poll, the outage budget, the local process |
| `CloseoutContract` | nothing: the abstract promise of a watchdog | |
| `DeployTail` | `deploy_controlplane.sh` from `POST /pods` to the end of the EXIT trap, and `deploy_cleanup_resume.sh` | one launch, its trap, its state file and the resumes from it |
| `ArmAndAdmit` | `arm_stacked_n24_admit_launchd.py`, `stacked_n24_admit.py` and their canaries as the coordinator sees them | armers of one series, their coordinators, launchd and the write-once files between them |
| `BatchGateway` | the gateway's public API as the canary and its regression's server take it (external) | key, grant, jobs, bills, usage, and six ways to break a promise |
| `BatchCanary` | `public_batch_canary.py` | invocations under one run id, request by request |
| `RetentionPair` | `public_batch_profile_collect.py`, `retention_pair_receipt.py`, `retention_pair_compare.py` | from the records of two arms to a verdict |
| `WindowLadder` | `retention_pair_window.sh` | triggers of windows 2 and 3 |
| `RuntimeImage` | the Dockerfile's chain of `runtime/` scripts, to `verify_runtime.py --static` | from a checkout to a published image |
| `PodBoot` | `verify_serving_profile_contract.py`, `verify_oci_image_contract.py`, `entrypoint.sh`, `verify_runtime.py`, `wait_for_engine.py` | from a published image to a registered worker |
| `MCGpuWatchdog`, `MCCampaignWatchdog`, `MCDeployTail`, `MCArmAndAdmit`, `MCBatchCanary`, `MCRetention`, `MCPodBoot` | instances for TLC | |
| `SumTheorems` | lemmas: what a sum over a finite set is, bounds and preserves | |
| `WatchdogProofs` | lemmas over `WatchdogCore`: types, meter, closeout, total, bill, contract | |
| `GpuWatchdogProofs`, `CampaignWatchdogProofs`, `DeployTailProofs`, `ArmAdmitProofs` | the theorems about the module of the same name | |
| `CanaryProofs` | the theorems about `BatchCanary` over `BatchGateway` | |
| `RetentionProofs` | the theorems about `WindowLadder`, `RetentionPair` and the pods they run on, `RuntimeImage` and `PodBoot` | |

`GpuWatchdog` and `CampaignWatchdog` extend `WatchdogCore`, which extends `Provider` and
`SpendLedger`; `DeployTail` extends `Provider`, with the launch's pod in the place of the control
plane and no workers. `ArmAndAdmit` stands alone: what it shares with the others is only the account
its canaries' demand makes the gateway spend from. `BatchCanary` extends `BatchGateway`, and
`PodBoot` extends `RuntimeImage`: the client and its server, the boot and what it boots.
`MCRetention` puts `RetentionPair` and `WindowLadder` side by side. They meet only in the exit code
of an operator who is not in the repository, so a behaviour follows one or the other.

### The watchdogs

**State.** `pc` is the script's next step and `phase` the function it is in: `watch` (the main
loop), `stop` (`closeout` before the control plane is verified down) and `sweep` (after it).
`listing` is the JSON in the variable `pods`, `missing` the ids `reconcile_missing` has still to
look up, `doomed` the ids `survey` printed that the sweep has still to delete, `target` and
`attempt` the arguments of `delete_verified`. `ledger` is the state file, which alone survives
`Crash` and `Arm`; `torn` says that it holds no readable JSON.

**Steps.** Each provider call and each rewrite of the ledger is an action, and the provider, the
gateway, the clock and the operator act between any two. Survey and decision are one action, because
the shell holds both between two calls: the rewritten ledger, the total and what is done about it.
An action may take any time; only `sleep "$INTERVAL"` is measured.

**Failure.** A read may fail at any call. A DELETE may be lost, or may only stop a pod, and an
`EXITED` pod still costs. The watchdog may die at any step. With `TornWrites` a ledger write may
fail half way, leaving a truncated file: `json.dump(state, open(state_file, "w"))` opens the file
for writing first.

**Data.** Pods are model values. A rate or a creation time that does not parse is a choice at each
survey (`Unreadable`), because the code's answer to it does not depend on what was there instead. A
pod of another prefix, or from before the epoch, is in `Foreign`; the two are not told apart.
Dollars are rate times clock.

### The launch and its resume

**State.** `step` is the next provider call of whichever script runs; `ended` means that none does.
`podId`, `emptyReads`, `reads` and `tries` are the launch's `POD_ID`, `EMPTY_READS`, `ATTEMPTS` and
the attempt of `delete_pod_verified`; `sweeps` and `clean` the resume's `ATTEMPTS` and `CLEAN`;
`leftover` is the unresolved-launch file, naming the pod by id or, when none is known, by name.
`outcome` is what the launch said last. A script that ends forgets its variables (`Ends`); the file
and the provider remain.

**Steps.** One action per provider call and outcome. The pod's name is unique, so that "found by
name" is "is `Control`". The sleeps between the discovery's reads and between the confirming reads
are timed, since that is what a late listing is measured against; the others are steps of any
length. A create may commit and lose its answer, or fail; one that commits after its caller gave up
is a pod that is not listed until then.

**Failure.** Any listing, lookup or DELETE may fail or be lost. With `Garbled` a listing may be a
2xx answer that is no list of pods: the discovery's parser prints nothing, the resume's fails and
ends the script. `Kill` is a SIGKILL or the loss of the machine, at any step of either script: no
trap runs. A killed launch leaves nothing that names its pod, and nothing in the scripts can; that
is why `NoOrphan` excepts it.

### The arming and the admission

**State.** An armer is an invocation of the arming script for one series, that is one label and one
artifact root, in a run directory of its own or one it shares. `armer[a]` is its next step or how it
ended, `tries` the proofs of running it has attempted. `plist[d]` and `receipt[d]` are the
write-once files of a run directory, by whose they are; `job` is what launchd has under the label;
`lock` is `one-shot.lock`. An armer bootstraps at most once, so that a coordinator is named by its
armer: `coord[a]`. `procs` is the length of the coordinator's `processes`, `child[i]` the canary of
batch `i`, `accepted` the batches whose log has the acceptance marker, `sampled` the complement of
`unsampled`.

**Steps.** One action per launchctl call, per write-once file and per step of the coordinator after
which another process can act. What lies between the start of a canary and its entry in `processes`
is a step, because a signal there forgets it (`strays`), and so is each kill of `terminate`. The
link of the receipt and what the armer does after it (`Publish`, `Return`) are two, because a
failure there is no refusal. Nothing is timed: a gate, a proof loop or an admission limit may be
over at any step, so that what is shown does not rest on one being longer than another; the armer's
check that its proof budget fits the gate is left out.

**Data.** A receipt, a plist and a sample are whose they are. Whether a batch's result, its sample
and the sums over all of them are as they should be is a choice (`Sample`, `Finish`); so is whether
a pre-spend receipt is.

**Failure.** An armer may be interrupted or killed at any step, a coordinator signalled or killed.
Outside the `try` block an interrupted armer just ends. A coordinator before its lock dies of a
signal; after it, it terminates its canaries, and a second signal in the middle of that ends it
(`"killed"`). A launchctl call may fail: a `print` that fails passes for a free label, a `bootstrap`
refuses, a `bootout` leaves the armer `"stuck"`, which it says. `ReadsBack` says whether a receipt
can fail to be read back.

### The canary

**State.** `pc` is the next request or write of the present invocation, `run` which of the
invocations under one `BATCH_RUN_ID` it is; `row`, `rowTries` and `ids` are the submit pool's
futures, attempts and accepted job ids; `pending` and `overdue` the poll loop's; `keyFile`,
`idsFile`, `result` and `pointer` the files, which alone survive a `Crash`. The gateway's state is
in `BatchGateway`.

**Steps.** One action per attempt of a request, of the main thread (`Get`, `Post`) or of a row of a
pool, whose attempts interleave; a pool is left when every row has ended, as `as_completed` over the
futures leaves it. Between any two, a job may complete or fail, and a post that was given up may
arrive.

**Failure.** An attempt may be delivered and lose its answer, be lost, arrive later, perhaps after
its sender's invocation has ended, or be refused with a status that is not tried again. `MaxFaults`
bounds all of them together. A gateway may break one promise (`Twists`): run a repeated key as a new
job, answer a new key with another's job, bill a job too much, take money no job accounts for, leave
a job out of the usage ledger, or answer what the frozen workload excludes.

**Data.** Prices, hold and tokens are the code's figures and roundings. A row's prompt and answer
are not modelled. A completion longer than the row's bound, `Drifted`, stands for everything that
the code holds against a job's answer but its price: drifted prompt tokens, another price list, a
reconciliation that is not `billed`, an empty text. The code's answer to all of them is the same
refusal (`Sound`).

### The retention pair

**State.** `acct` is the gateway's accounting of a pod, in the order it fills in; `policy`,
`launched` and `started` what an arm was deployed with, at which epoch, and when its batch began;
`attempts` which pods served a job; `got` the records in the collector's hands, `observed` the
start that the batch's result states, `sealed` the candidates, `receipts` and `verdict` the files of
those names.

**Steps.** One action per record read, since the accounting moves between two; one per seal, receipt
and verdict. A refusal changes nothing, and everything may be called again. Each invocation of a
canary states when it began itself, and on a complete batch the canary may be run again at any time:
the start a collector finds is any moment since the batch began (`Stated`). The operator may choose
any prior, name any session that is no later than the control plane of the arm, receipt any snapshot
for either arm, begin B while A's pod is up, and deploy any policy; one thing he does is taken for
granted, that the deploy log he gives with a receipt is that of the run. In particular the two arms
may be taken for each other, if they were deployed with each other's policy.

**The ladder.** `step[t]` is invocation `t` of the window script, `op[t]` the operator it has
started, which outlives a kill of the script, or the code it has ended with; `logs[t]` is what the
arms' deploy logs show: a created pod, a clean refusal, or something else; `lock` and `result` are
what is durable. An operator deploys arm B only after arm A, and may end at any time with any code:
0, 42, 43, or 1 for every other. He is not in the repository, so one thing is assumed of him, that
he ends with 0 only if he has deployed both arms. Whether the clock is before, at or long past a
window's target is a choice.

### The image and the boot

**State.** `bytes[f]` says whether a source is what upstream published, what the patch makes of it,
or neither; `graph` is the `build.ninja` on disk; `lib` and `aot` are what is compiled and what is
installed. An image is what a build that has passed its static verification leaves. For the pod,
`order` is what the deploy was given and `env` what the pod was created with; `attested` and
`compiled` are on the container's disk and survive a restart; `term` is a TERM that bash holds until
the foreground command ends.

**Steps.** One action per script of the Dockerfile, and one per file or operator where a script goes
through several; one per command of `entrypoint.sh`. The engine, the worker, the clock and the
provider act between any two.

**Failure.** A checkout's contract, the verifier's pin and the build argument may contradict each
other. One source of the base may have drifted. A build may stop at any step, and the next starts
from the base or on what is left. A pod may be created with another environment than the one
rendered; the engine may compile as it starts, whatever the image, and the engine or the worker may
die; the container may be killed and started again.

**Data.** What a profile's contract fixes and the pod's environment carries (model, revisions,
context, arguments) is one *term*, of which each version of the contract has its own. Two figures of
the contract are in no term, since nothing compares them on the pod: the rate, which only the gate
holds against the catalog, and the readiness time, a number of its own in `entrypoint.sh`. That an
engine compiles nothing after it has answered is assumed, as in the code, whose last scan comes
then. `wait -n` is taken to end also for a child that was dead before it was called, which bash
promises only for a child it has not yet reported.

### The provider

Not in the repository. What the scripts take for granted, with the fakes: the exact lookup is
authoritative; a 404 on a pod that existed means it is gone; a listing may omit a terminated pod
early and a new pod late, the latter for at most `HideMax`. That bound is what every count of clean
or empty reads rests on: with none, no number of reads would do. How large it may be is a result:

| What relies on it | Holds up to | Fails at |
|---|---|---|
| a watchdog's three clean reads (`ExitMeansGone`) | `2 * Interval` (proved) | one unit more |
| the launch's six empty reads (`NoOrphan`) | `5 * DiscoverSleep` = 25 s (proved) | one unit more |
| the resume's three confirming reads (`ResolvedMeansGone`) | `6 * DiscoverSleep + 2 * ResumeSleep` = 36 s (proved up to the launch's 25 s) | one unit more |

The figures not marked as proved, and those that fail, were found by TLC on the same instances with
a larger `HideMax`. The run `deploy_tail` has the launch's bound, so that the reappearance of a live
pod in a confirming read (a branch of `ConfirmRead`), which takes a later listing, does not happen
in it.

## 3. The runs

| Run | Shows | Distinct states |
|---|---|---|
| `gpu_safety` | meter, order of the closeout, exit, refinement of `CloseoutContract` | 1.6 million |
| `gpu_live` | the closeout ends, and the exit code tells why | 41 thousand |
| `gpu_torn` | finding: after a torn ledger write it does not end | 2 thousand |
| `campaign_safety` | the same meter, order and contract over a pod or a process; the exit code; the cost of blindness | 2.3 million |
| `campaign_blind` | finding: blindness buys a little | small |
| `deploy_tail` | a failed launch leaves nothing unnamed; launch and resume end | 80 thousand |
| `deploy_garbled` | finding: six unparsable listings pass for six empty ones | small |
| `arm_admit` | authority, refusal, one series, order, completion, termination | 480 thousand |
| `arm_unread` | finding: a receipt that cannot be read back is taken for none | small |
| `batch_canary` | what is charged, what passes, what is refused, and that an invocation ends | 1.3 million |
| `retention_pair` | what a candidate, a verdict and a window are worth | 3.2 million |
| `pod_boot` | what registers, and that a container ends | 960 thousand |

The watchdogs' properties:
- `NeverUnderBooked`: what the ledger holds a known worker to have cost is at least its bill, at
  every moment, not only after a survey.
- `MeterNeverRunsBack`: no step takes back what is booked. A terminal mark that comes first from a
  404 and then from a listing, or the reverse, must not move.
- `ControlPlaneDiesFirst`: no worker is deleted while the control plane, which would replace it, is
  not verified dead.
- `ExitMeansGone`: at exit no worker is alive, one the listing has never shown included.
- `ExitCodeIsHonest`: 2 only for a reached deadline or ceiling, 0 only for a stand-down. Its runs
  have a deadline far enough away for a closeout to end before it.
- `ImplementsContract`: every step is one of `CloseoutContract` or a stutter, so that a closed watch
  is closed for good, over a gateway that is down and capacity that is gone.
- `ClosesOut`: once the deadline has passed or a stand-down is requested, the watch ends with
  everything gone.
- `BlindExposureBounded`: what an unreadable provider can cost. The code charges an outage from the
  head of its first failing poll, at the rate of one pod; the property states the bound which that
  gives for `MaxLive` pods from the last good survey.

The launch's:
- `NoOrphan`: when the scripts have ended and the launch neither succeeded nor was killed, a pod
  that is alive is named by the state file.
- `ResolvedMeansGone`: the state file is removed only when the pod is gone.
- `LaunchEnds`: the launch ends, whatever the provider answers, never answers or loses.
- `LeftoverIsCleared`: what it leaves over is cleared at last, if the operator resumes and outages
  end.

The admission's:
- `DemandIsAuthorised`: when any canary was ever started, the coordinator that holds the lock has
  the receipt of the armer that started it, and that armer has not refused.
- `RefusedArmsNothing`: a refused armer has left no receipt, no coordinator past the gate, and a job
  only if it said so.
- `OneSeries`: who is past the lock holds it, from however many run directories the series is armed
  again.
- `AuthorityIsKept`: no step of an armer boots out an authorised coordinator, its own or another's.
- `AdmittedInOrder`: a canary is started only when every one before it was accepted.
- `CompleteMeansAll`: `"complete"` is written only when every canary has succeeded and was sampled.
- `NoStrayCanary`: a coordinator that ends by itself leaves no canary running, but one it was
  signalled in the middle of starting.
- `ArmingEnds`, `SeriesEnds`: an armer and a coordinator end, also when the other is gone.

The canary's:
- `ChargedOnce`: with a gateway that keeps its promises a row has one job and the organization one
  grant, over all retries, late deliveries, crashes and invocations.
- `PassedMeansExact`: an invocation gets past its final balance only when every row's job has
  completed at its price, nothing else is held or charged, and the usage it has walked is every job
  that was charged. This is with a gateway that may have broken any one promise.
- `RefusalIsHonest`: a gateway that keeps its promises is failed for the transport, the deadline, a
  job that failed, or a job that ended before its holds were compared; never for an alias, a price,
  a replay or a sum.
- `RunEnds`: an invocation ends, even if no job ever does.

The retention pair's:
- `CandidateIsSound`: a sealed candidate states a charge the provider has booked, of a pod whose
  accounting is settled and which alone has served every job; and its chain counts no boot sample
  twice.
- `VerdictIsEarned`: a verdict is of two different batches that ran under the registered policies,
  each served by one pod alone and not the same one; the second one's result is of an invocation
  that began when the first one's pod was gone; and neither control plane is older than the session
  the receipts name. It does not say that the batches did not overlap, nor that the first is A's:
  the code does not ensure it (section 4).
- `OneOperator`: there are two operators only if one of them was window 2's, has ended, and its end,
  a 42 or a 43, is recorded; so none runs beside another or after a success. It does not say that
  the first one spent nothing: the code does not ensure it either (section 4).

The pod's:
- `RegisteredIsSound`: an H100 pod is created only for an image with the terms that are sold; a pod
  registers once at most, and then its image has the patched sources and the operators compiled from
  them, both verifications have passed on it, its engine has answered, and what it serves is what
  was sold, with nothing compiled on the pod. The engine of the model may compile although JIT is
  disabled: only the second scan keeps such a pod from registering.
- `ContainerEnds`: a started container comes to have a worker or ends, and it ends once either
  process has.

Each property is checked to be able to fail: `mutants` in `PROJECT.json` names, for each, a
plausible bug of the code under which TLC finds it violated. The variants are in the modules, before
the definitions they replace, under comments that begin with "A variant".

**Bounds, watchdogs.** In `gpu_safety`, two workers are enough for every pair of steps that differ
in the worker: one hidden and one listed, one deleted and one being created, one in `doomed` behind
another. `MaxLive` lets the gateway replace a deleted worker. `MaxTime` leaves room for one interval
and one hidden pod on each side of the deadline; the clock stops there, and a sleep then ends at
once, so that the script goes on without it. A create needs room before the horizon for the new pod
to become listed, else the end of time would hide it for ever. One crash at any step is the case of
a restart; a second adds nothing, since a crash forgets everything the first one did. `Ceiling` is
such that workers reach it before the deadline in some behaviours and in others do not. What is
particular to the campaign's watchdog is its clocks, so `campaign_safety` has one worker and a
longer horizon, in which an outage can spend the ceiling before the wall and a stand-down can end
before it; of the properties it shares with `gpu_safety`, which are about several workers, the
theorems are for any number. `ExitMeansGone` is not listed with it, since `ImplementsContract`
implies it; it, the types and `MeterNeverRunsBack` hold in this instance too, by theorems.

**Bounds, launch.** One foreign pod makes "others remain" possible. `MaxReads` 7 and `MaxSweeps` 2
stand for 30 and 60: an interrupted count, a whole one and an exhausted one all fit, and nothing in
the scripts compares a bound with anything but its counter. (The safety properties were also checked
with 30 and 60: 1.3 million states.) A unit of the clock is one `sleep` of either kind (5 s and 3 s
in the code); `HideMax` is 5 in `deploy_tail`, the longest delay the launch can bear. `Garbled`
names the scripts whose listings may not parse: there the resume only, since a launch that meets
them leaves an orphan (`deploy_garbled`). One kill, of the launch or of a resume.

**Bounds, admission.** Two armers in one run directory or in two: every race is between two, over
the plist, the label, the receipt or the lock. Two batches have an order of admission and one of
completion; two proof attempts are a failed one and a last one. One fault at any step; the theorems
are for any number.

**Bounds, canary.** Two rows are enough for an alias, an order of completion and an interrupted
pool; `PageSize` 1 makes the usage walk as many pages as there are jobs, where 200 for 300 makes
two; `MaxTries` 2, for 4, are a retry and the last one, and nothing compares the bound with anything
but its counter. Two invocations: what a third finds, the second found. Two faults are a lost answer
and a fault of the retry that follows it. One completion length: the price of another differs only
in a figure.

**Bounds, retention.** Two jobs have two records between which the accounting moves; two pods serve
one arm each, or share one; two seals are a candidate and its successor, or the two arms in either
role. The charge's floor is 1 of 2, below which it may lie, at which and over which. Two epochs are
a session that is a control plane's own or an earlier one. `MCRetention` does not multiply these: it
explores candidates over arms that have one policy, so that no verdict is reached, and verdicts over
batches that one pod has served at a charge of at most the floor, since what a candidate states is
the subject of the former; the theorems know no such division. Three triggers of two windows are two
races for one lock and a window 3 besides.

**Bounds, boot.** Two versions of the contract make every contradiction; two builds are one that
stops and one that goes on from it; two boots are a start and a restart. One drifted source: the
checks are of one file at a time.

**Fairness, watchdogs.** Everything the script does waits for nothing but the clock: its next step,
with whatever outcome, is weakly fair, and so are the clock and the listing of a new pod.
`ClosesOut` further needs the provider's outages to end. Within the sweep, and only there, a listing
asked for again and again is at last answered (strong fairness), so is the n-th exact lookup from
the end, and a survey succeeds; a DELETE of the same pod lands at last; the control plane's death is
at last read. The script retries all of these without end, which is the scheduling that makes strong
fairness reachable; that outages end is an assumption on the provider. Nothing is assumed of the
reads of the watch, because the deadline needs none, nor of the gateway, the operator or preemption.

**Fairness, launch.** The scripts' next step and the clock are weakly fair; so is starting a resume,
which is an assumption on the operator whom the state file's message addresses. Each retried call of
the resume is strongly fair in its good outcome (the listing is answered, the lookup reads the pod
gone, the DELETE lands, the n-th confirming read is clean). `LaunchEnds` needs none of the strong
ones: every loop of the trap is bounded.

**Fairness, admission.** An armer's next step, a coordinator's and a canary's are weakly fair: the
proof loop, the gate's wait, the admission limit and a canary's poll budget are all bounded by the
code, and the wait for the canaries is on nothing else. That anybody arms is not assumed.

**Fairness, canary and boot.** The client's next step, with whatever outcome, and the passing of the
poll deadline are weakly fair: every request has bounded retries with a timeout each, and the wait
has a deadline. The gateway need never finish a job. `entrypoint.sh`'s next step and the readiness
timeout are weakly fair. Neither the engine, the worker, the provider nor the builder is. The ladder
and the retention pair have safety properties only: whether anybody triggers a window or collects is
outside the code.

## 4. Findings

- `campaign_blind`. The header of `gpu_watchdog_campaign.sh` says that "last known accrued cost plus
  max-rate x outage duration may never reach the dollar ceiling" and that "blindness never extends
  buy authority". The outage starts at the head of the first failing poll (line 385), while the last
  known accrued cost is that of the last good survey: the interval between them is not counted by
  either. One worker and one outage are enough for the bill to reach the ceiling at a poll that goes
  on. `BlindExposureBounded` states what does hold.
- `deploy_garbled`. The comment in `on_exit` says that "only successful EMPTY reads count toward
  'nothing was created'". A 2xx answer that is no list of pods counts too: the parser fails behind
  `2>/dev/null`, `FOUND` is empty and `EMPTY_READS` grows. Six of them, for a pod whose create lost
  its answer, end the search; the zero-live read then sees the pod, and the launch exits without
  deleting it and without a state to resume from.
- `gpu_torn`. The comment at the deadline says that "even with every survey failing, the watch ends
  (and kills)". `closeout` itself needs a survey to succeed, to learn what to delete and to count a
  clean read. In the trace the deadline is reached, no stand-down is requested (`StandDowns`), and
  the control plane is deleted; then the sweep's first survey fails half way in its write, so that
  the state file is truncated and no later survey succeeds. The sweep loops for ever, and would
  delete nothing that is up.
- `arm_unread`. A test says that "a published receipt is never followed by recovery bootout". The
  handler decides whether it has published by reading the receipt back, and an `OSError` there
  counts as "not published": the coordinator it has authorised is booted out, perhaps in the middle
  of its admission, and the receipt stays.

Three more disagreements with what the code says of itself have no run of their own. Each is stated
as an invariant, which `retention_pair` shows violated when it is added to its configuration.

- `ArmsAreSequential` (`RetentionPair`). `retention_pair_compare.py` says that it reports no ratio
  unless the arms are "sequential on distinct pods" (6-7), and refuses when "Arm B began before Arm
  A was durably terminated" (136). What it compares is `timestamps_micros.started` of B's result,
  which `public_batch_canary.py` sets in each invocation (349, 647), and the collector takes the
  latest. Arm B may begin while A's pod is up; its canary, run again when that is gone, replays
  every submission and states a later start. `VerdictIsEarned` states what does hold.
- `FailureIsTerminal` (`WindowLadder`). "operator failure is terminal for the ladder", says
  `retention_pair_window.sh:228` of an exit code that is neither 0 nor 42. It records the code as it
  is, and window 3 lets a 43 of window 2 pass (182), which `missed_without_spend` writes too.
- `CreatedIsTerminal` (`WindowLadder`). The script makes a raw exit 1 the "capacity/no-spend exit
  42" only if "no created-pod or unresolved-cleanup marker exists" (62-66), and its regression says
  that "any created pod keeps raw exit 1 terminal". It looks at each arm's log by itself (74): after
  arm A was deployed, a clean refusal of arm B is enough. `OneOperator` states what does hold.

Five things that are no disagreement but worth knowing. The campaign watchdog starts with no accrued
cost when it is armed again, although its ledger knows better: blind from then on, it has the whole
ceiling once more. The deadline of `gpu_watchdog.sh` is the ceiling over the rate of *one* pod. And
a worker that comes and goes between two surveys is never booked. The coordinator may end between
the armer's second proof and the link of the receipt, which is then published for nothing. And a
signal between `Popen` and `processes.append`, or a second one during `terminate`, leaves a canary
running.

## 5. The proofs

Every safety invariant and every action property that a passing run checks is also a theorem, for
every value of the constants.

Assumptions: those named in the modules (`ProviderAssumption` and so on): disjoint, finite sets of
pods, natural numbers, a positive maximum rate that no worker's rate exceeds, a discovery of at
least six attempts, finitely many rows and triggers, positive prices. Nothing is assumed of the
sizes: any number of workers and foreign pods, rows, batches, jobs and triggers, any ceiling,
interval, sleep, horizon, number of attempts, sweeps, boots, crashes, faults and kills, torn writes
or not. Three hypotheses stand in theorems instead. The bound on the listing delay is one of
`ExitCorrect`, `CampaignExitCorrect`, `ContractImplemented`, `CampaignContractImplemented`,
`LaunchLeavesNoOrphan` and `ResolvedIsTrue`; the last two also need a launch that can parse its
listings; and three, `DemandHasAuthority`, `RefusalIsTrue` and `AuthorityKept`, need a linked
receipt that can be read back. Section 2 gives the delays, and section 4 what happens without the
other two.

**Sums.** The total of a ledger, the bill of a set of workers and the charges of a gateway are sums
over finite sets, written with the community modules' folds, which are recursive functions. Induction
on finite sets takes an operator as a parameter, which the provers cannot use. `SumTheorems` does
without it: if a claim about subsets of a finite set failed, the subsets for which it fails would
have a minimal one (`MinimalSet`), from which one element less gives a smaller (`NoDescent`). In
this way a sum has one value, whatever the fold chooses first (`SumsAgree`, `SumExists`, `SumStep`),
and then `SumMono`, `SumSubset`, `SumStrict`, `SumRestrict` and `SumBump` say how it grows.

**The watchdogs.** Both names where the theorem is there for both; the lemmas on `WatchdogCore`'s
actions serve both.
- `TypeCorrect`, `CampaignTypeCorrect`. The type invariant is not inductive: `cleanReads` stays at
  most three only because after the third clean read the script sleeps and exits (`CountOK`). The
  campaign's accrued total is a natural number because it is a sum of costs that are.
- `MeterCorrect`, `CampaignMeterCorrect`: `Spec => []NeverUnderBooked`. The argument is about stale
  reads. An entry is right if its creation time is no later and its rate no lower than the pod's,
  and if it is closed only when the pod has ended, at a time not before that. What a survey writes
  comes from a listing of some earlier moment, so the invariant (`MeterInv`) also says what a
  listing in hand may still claim: a pod it shows has existed, one it shows terminated is dead
  *now*, for death is final; and an id being looked up is one the ledger knows, so that a 404 means
  gone and not "not yet". `MeterSuffices` gets the inequality of costs from it.
- `MeterMonotone`, `CampaignMeterMonotone`: `Spec => MeterNeverRunsBack`, from the same invariant. A
  closed entry keeps its time because the code takes the minimum, and no later sighting can be
  earlier than the first.
- `BarrierCorrect`, `CampaignBarrierCorrect`: `Spec => []ControlPlaneDiesFirst`. `BarrierInv`: the
  sweep runs behind a dead control plane, its victims are workers, and before the sweep there are
  none. The control plane is never "absent", so a 404 on it means dead. A poll runs in the watch
  only (`PollsInWatch`).
- `ExitCorrect`, `CampaignExitCorrect`: `HideMax <= 2 * Interval` implies `Spec => []ExitMeansGone`.
  The invariant (`ExitInv`) says that a hidden pod is young and that, since no worker is created in
  the sweep, each of the first two clean reads makes every worker an interval older (`Aged`). By the
  third even the youngest has to be listed, so that a listing which shows nothing alive means there
  is nothing.
- `ContractImplemented`, `CampaignContractImplemented`: under the same bound every step is one of
  `CloseoutContract` or a stutter. A worker is created only under a running control plane, a crash
  in the closeout is `Abandon`, a local process that ends by itself is `GatewayDown`, and the exit
  is `Close` because of `ExitInv` and `BarrierInv`.
- `ExitCodeCorrect`, `CampaignExitCodeCorrect`: `Spec => []ExitCodeIsHonest`. The label is decided
  in the watch and the code only at the exit; in between the ledger is rewritten many times. What
  made it a breach still holds then (`BreachInv`): time does not run back, a stand-down file is not
  taken away, and the total only grows (`TotalGrows`), entry by entry, from `MeterNeverRunsBack`.
- `CampaignExposureCorrect`: `Spec => []BlindExposureBounded`. `ExposureInv` says that at any time
  since the last good survey the bill of the workers that survey knew, and of those born since, is
  at most its total and what `MaxLive` pods burn from then on; it rests on `SpendInv`, the same from
  the beginning of time, for a watchdog that has just been armed and knows no total. No worker but a
  live one makes the bill grow, and there are never more than `MaxLive` of them (`AliveInv`); what
  the survey books for the others is no less than their bill, by `MeterInv`. `OutageInv` keeps the
  order of the moments, and what `mark_outage` has just compared with the ceiling gives the rest.

**The launch.**
- `LaunchTypeCorrect`: `Spec => []TypeOK`. What the loops' guards leave to their bodies
  (`CountingOK`) keeps the counters within their bounds.
- `LaunchLeavesNoOrphan`: `HideMax <= 5 * DiscoverSleep` and no garbled listing imply `Spec =>
  []NoOrphan`. The argument is about age. A read of the discovery comes a sleep after the one
  before, so that the pod is at least r sleeps old at the read after the r-th (`SearchOK`), and six
  empty reads in a row are six reads. A listing that does not show a live pod was read while the pod
  was young (`UnseenIsYoung`, from `YoungOK`). So the sixth read cannot be empty over a live pod;
  and once the discovery has given up for lack of answers the pod is old enough for the resume to
  see it wherever it looks.
- `ResolvedIsTrue`: from the same invariant, `Spec => ResolvedMeansGone`; only a resume whose
  confirming reads are over removes the file (`OnlySettledClears`). The resume's reads bear a longer
  delay (section 2); with one, the invariant about the launch no longer holds.

**The admission**, for any number of armers, run directories, batches, proof attempts and faults:
- `ArmingTypeCorrect`: `Spec => []TypeOK`.
- `DemandHasAuthority`, `RefusalIsTrue`, `SeriesIsOne`, `AuthorityKept`: the four claims about
  authority, from one invariant, `Custody`. Each write-once object names an armer for good, and the
  label names one from its bootstrap to its end: an armer in its `try` block holds the label
  (`LabelOK`), so that its bootout can only hit its own job; whoever has bootstrapped owns the plist
  of its directory, so that a receipt found there is its own (`ReceiptOK`); past the gate is behind
  a receipt, past the lock behind the lock (`GateOK`). All this holds whether receipts can be read
  back or not, and gives `SeriesIsOne`. The other three also say that no armer refuses behind its
  own receipt (`StandingOK`), which it may do after a read that fails: they have the hypothesis that
  a linked receipt can be read back.
- `AdmissionInOrder`, `CompletionIsTrue`, `NoCanaryIsLeft`, without that hypothesis, from
  `SeriesInv`: what the coordinator's step says about which batches are accepted, and that a live
  canary is a process, is just being started, or was forgotten by a signal (`OwnedOK`).

**The canary**, for any number of rows, attempts, faults and invocations:
- `CanaryTypeCorrect`: `Spec => []TypeOK`, the bounds of the retries included.
- `ChargeIsOne`: `Spec => []ChargedOnce`. Whatever arrives late carries a key of the run (`LateOK`),
  and a gateway that keeps its promises has one job for a key (`KnownOK`).
- `RefusalCorrect`: `Spec => []RefusalIsHonest`. An answer may be older than the state, but nothing
  the gateway has said is ever taken back (`Grows`), so that what an invocation holds is true of it
  still (`RowsOK`, `AuditOK`); the one comparison that time can spoil, of the holds, is excused by
  the job that has ended (`WaitOK`). That the usage walk finds every job, page by page, is counted
  by rank.
- `PassCorrect`: `Spec => PassedMeansExact`. The final balance is compared with a sum over the
  invocation's own jobs. By `BooksOK` what the gateway took is the sum of the bills of all completed
  jobs, none of them below its price, and one more if it skims. The two sums are equal, so there is
  no other job (`SumStrict`), no skimming, and no bill above its price.

**The retention campaign**, for any number of triggers and kills, jobs, pods, snapshots and
sessions:
- `LadderTypeCorrect`, and `OperatorIsOne`: `LadderSpec => []OneOperator`. Of the invocations of a
  window one gets past the lock (`LockInv`); a window's result is that one's, which has nothing left
  to decide (`ResultInv`); so an operator for window 3 stands behind a result of window 2 that reads
  42 or 43 (`GoInv`), which is the end of window 2's operator if there was one.
- `PairTypeCorrect`: `PairSpec => []PairTypeOK`, with the bounds on seals and sessions: what is being
  collected can still be sealed (`BoundInv`).
- `CandidateCorrect`: `PairSpec => []CandidateIsSound`. A record in the collector's hands may be out
  of date, and the invariant says in which way (`RecordInv`, `Grows`): what it shows settled is
  settled, ended when it says and no cheaper now. Equal records of one attempt each are then one pod
  that served everything; a prior that does not have the run has no sample of it.
- `VerdictCorrect`: `PairSpec => []VerdictIsEarned`. The comparison never looks at which arm a
  snapshot is of. Two candidates of one batch have one pod, so that two pods are two batches; a
  receipt beside a snapshot has the policy of its run and a session that its control plane is not
  older than (`ReceiptInv`); and the start a candidate states is no earlier than the batch's own
  (`RecordInv`, `SealInv`).

**The image and the boot**, for any number of contract versions, builds and boots:
- `BootTypeCorrect`, and `RegistrationCorrect`: `Spec => []RegisteredIsSound`, from `PodInv`. Where
  the build stands says what is patched, narrowed, compiled and copied by then, whatever an earlier
  build left (`LineInv`), so that an image is of a build that was whole (`ImagesInv`); the gate
  compares the image with the contract that was sold (`GateInv`). On the pod, where the script
  stands says which attestations are on the disk, and an attestation that the environment has the
  image's terms (`BootInv`). They are exclusive files, so that the second boot on a disk does not
  get past the first one's: a worker registers in the boot that wrote both, once (`HandshakeInv`).
  An engine compiles only while the script waits for it, so that what the second scan has not found
  there is not there later.

Only model-checked, because liveness and ENABLED are out of the prover's reach: `ClosesOut`,
`LaunchEnds`, `LeftoverIsCleared`, `ArmingEnds`, `SeriesEnds`, `RunEnds` and `ContainerEnds`.

## 6. The plan

In this order, the most important behaviour first:

1. Done: `Provider`, `SpendLedger`, `WatchdogCore`, `GpuWatchdog`, `CampaignWatchdog`,
   `CloseoutContract`, their runs and theorems.
2. Done: `DeployTail`, the launch from its create to the end of its trap, and the resume.
3. Done: `ArmAndAdmit`, the armer and the coordinator over one receipt, one lock and launchd, its
   run and theorems.
4. Done: `BatchGateway` and `BatchCanary`, their run and theorems.
5. Done: `WindowLadder` and `RetentionPair`, their run and theorems.
6. Done: `RuntimeImage` and `PodBoot`, their run and theorems.
7. Done: theorems for every safety property of the runs, with the theory of finite sums they need,
   and the contract for both watchdogs.
8. Left: `ResolvedMeansGone` up to the resume's own bound; the control-plane entrypoint, two
   children, TERM and `wait -n`, in the shape of `PodBoot`.

## 7. Not modelled

The arming checks of both watchdogs' environments abort before there is any state. Telemetry and
billing observation only write files that nothing reads back. Evidence collectors and the substrate
preflight read documents once and keep nothing. The trust roots, the rendered environment and the
network volume of the deploy come before its create and refuse without any state of the launch. The
older deploy tail, `ci/retention_pair_deploy_v0_9.sh`, is `DeployTail` line for line but for the
body of its create. The realistic canary, `ci/realistic_agent_batch_canary.py`, is `BatchCanary`
over other rows. The control plane's entrypoint is left for later. The PGDATA shim is a function of
its arguments. The fakes and regressions are the reference for `Provider` and `BatchGateway`, not a
part of the system.

Abstracted: the catalog check of the canary is one of `Funded`'s refusals; token counts and phase
times of a profile are the same for one frozen workload; GPU queries and backend resolution of
`verify_runtime.py` are a refusal at any time; the bytes of a patch are known by their hash, as the
scripts know them.
