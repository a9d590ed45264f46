# A formal model of paxcli

paxcli runs coding agents on a git repository and accepts their work only on
evidence. `paxcli start` searches for an optimisation: rounds of parallel
experiments, each in a git worktree of its own, measured against a baseline.
`paxcli "<request>"` carries out one task and offers its patch. Both write an
append-only event log, from which an interrupted or killed run is resumed.

This directory holds TLA+ modules translated from the TypeScript under
`src/src/`, TLC configurations that check them on small instances, and proofs
checked by TLAPS. Paths below are relative to `src/src/` unless they start with
`docs/`.

## Inventory

| Component | State | Operations | What is hard | What makes it correct |
|---|---|---|---|---|
| Event store (`tree/store.ts`) | `events.jsonl`; in memory the counter `seq` and the chain of pending writes | create, open, append, readAll, replay | a kill inside a write, a write that fails, appends of parallel experiments, reopening | numbers without gap or duplicate, no acknowledged event lost, order kept |
| Engine lock (`tree/store.ts`) | `engine.lock`: pid and time | acquire, release | check and write are separate; dead owners; reused pids | at most one owner; a dead owner's lock is taken over |
| Start and resume (`engine/run-loop.ts`, `cli/index.ts`) | the two above | open, acquire, replay, append, release | the store is opened before the lock is held | a finished run stays finished; one writer |
| Optimize engine (`engine/run-loop.ts`, `frontier/select.ts`, `proof/verify.ts`) | round, budget and node counters; per experiment a node, a worktree, a receipt | start or resume, measure the baseline, rounds, agent calls, checks, accept or reject, reproduce, end | experiments interleave; kills, interrupts and errors at every await; state rebuilt by replay | only evidence accepts, decisions are final, limits hold over resumes, branches and receipts agree with the log, every engine ends |
| Worktree backend (`worktree/local.ts`) | directories, branches | provision, commit, destroy, sweep, gc | sweep removes every worktree of the repository, those of other runs too | nothing that was accepted is removed |
| Task engine (`engine/task-loop.ts`, `cli/task-ui.ts`) | attempts, spend, worktree, result ref, patch | attempt, screen, checks, repair, finish, cleanup | SIGINT between the last check and the terminal event; kept worktrees | only a screened, checked result is offered |
| Snapshot and application (`snapshot/build.ts`, `apply/patch.ts`) | snapshot ref, user's working tree | build, check, merge, apply | the user edits meanwhile | all or nothing, no edit of the user lost |
| Control plane (`control-plane/`) | repositories, runs, approvals, activities; the client's run id | connect, disconnect, create, update, request and decide approval; begin, status, finish, fail | status calls are not awaited and may arrive after finish or after an approval was requested | a decision is taken once and stands; a finished run stays finished |
| Proof ledger (`ledger/`) | `PROOF.md` | parse, append, verify | truncation before the text is there, read-modify-write by two processes, blocks the user has broken | a ledger that verifies is complete; nothing twice |
| Commands on one repository (`cli/helpers.ts`, `cli/index.ts`, `cli/commands/`) | throwaway worktrees, winner branches | measure HEAD, run reproduce, apply, pr, gc | gc sweeps beneath the others; a kill or an error between two git commands | nothing is left behind; what was recorded can be checked out |
| Benchmark harness, statistics (`bench/`, `ci/`) | server process group, port, samples | measure, wait, stop, compare | shell and application end separately or are deaf to a signal; free-port race; noise on both sides | the server is stopped, in time; the threshold is the noise; a win that is undone is seen |
| Agent hosts (`hosts/`) | child process, partial JSONL line, last result | detect, choose, spawn, feed, result | chunks that split lines, output after the end, timeouts, cancellation | outcome and cost follow from the lines the agent wrote |
| Pins, detectors, gates, withheld checks (`proof/`, `gates/`) | pinned hashes; branch, index and directory of a worktree | capture, verify, run | the agent may commit and stage; each check looks at another pair of the three | no edit of a protected file is accepted; what is flagged reaches the receipt |
| Dashboard of a run (`dashboard/server.ts`) | offset of a connection, the page | replay, push, refresh | reads of a file that is written, pushes and answers that overlap | everything sent once; the page catches up |
| Output, reports, prompts, redaction, discovery, configuration | none of their own | parsing, formatting | - | - |

Interactions: the engine owns the lock and is the only caller of append; the
command line opens the store read-only for status, reports and the choice of the
run to resume; the dashboard's process opens it on every request; experiments of one engine share its store, counters and abort
signal through closures; the fleet client is told of every status line without
being awaited; what a task accepts reaches the user's tree through `apply/`.

## Modules

| Module | Models | Composes |
|---|---|---|
| `DurableLog` | what a log promises: entries commit once, in order, and an acknowledged entry is committed | - |
| `EventLog` | `EventStore`: file, counter, write chain, sessions, kills, failing writes | refines `DurableLog` |
| `EventLogProofs` | theorems about `EventLog` | - |
| `EngineLock` | `EngineLock`: acquire step by step, over a process table with pid reuse | - |
| `ResumeRun` | how engines open, lock, replay, append, end, over a process table | `EventLog`, `EngineLock` |
| `ResumeRunProofs` | theorems about `EngineLock` and `ResumeRun` | - |
| `LiveView` | the dashboard of a run: replays, answers, pushes, the page | `EventLog` |
| `LiveViewProofs` | theorems about `LiveView` | uses `EventLogProofs` |
| `RunLoop` | `runOptimize` and `runOneExperiment` | - (appends are atomic here) |
| `RunLoopProofs` | theorems about `RunLoop` | - |
| `AgentStream` | choice of a host, `streamJsonlAgent`, the adapters' events, `buildAgentRunResult` | - |
| `Screening` | pins, detectors, `screenCandidate`, gates, withheld checks over commit, index and directory | - |
| `BenchHarness` | `BenchmarkHarness.measure` with its server's process group | - |
| `BenchStats` | the decisions of `bench/stats.ts` and `ci/baseline.ts`, in exact arithmetic | - |
| `Experiment` | baseline and one experiment with all it is judged by | the four above |
| `ExperimentProofs` | theorems about `Experiment` | - |
| `Ledger` | `PROOF.md`: `appendLedgerEntry`, `verifyLedger`, the user's editor | - |
| `Repository` | commands side by side: measurements, reproduce, apply, pr, task records, gc | `Ledger` |
| `RepositoryProofs` | theorems about `Ledger` and `Repository` | - |
| `TaskRun` | `runTask`, `runTaskFlow`, `applyTaskResult`, with a user who edits and processes that sweep | - |
| `TaskRunProofs` | theorems about `TaskRun` | - |
| `ControlPlane` | `MemoryControlPlane`: what any holder of the token may do to repositories, runs, activities, approvals | - |
| `FleetClient` | `FleetClient` as `runOptimizeWithUi` uses it, over a network that loses and delays | `ControlPlane`, whose specification it implements |
| `FleetClientProofs` | theorems about `ControlPlane` and `FleetClient` | - |

Definitions that end in a bug's name and are commented "Mutant of" are broken
variants of the definition below them. No specification uses them; each is there
to show which property notices that bug.

### EventLog

`file` is the list of lines; a line is an envelope or `Bad` (refused by
`JSON.parse`). `openTail` says that the last line has no newline. An append
takes its number at once (`AppendEvent`) and its line reaches the file in two
steps (`WriteStart`, `WriteFinish`), so a kill or a reader can fall between;
bytes that follow an unterminated line share its line. `Open` is the code's
readAll: the last unparsable line is dropped, any other raises, numbers must be
1, 2, 3... `CutWrites` allows a kill in the middle of a write, `IoErrors` a
failing one.

### EngineLock

A process is its pid; processes start, die and free their pid for others.
`CheckExists`, `ReadLock`, `Probe`, `CompareStart`, `Truncate`, `Stamp` are the
awaits of acquire, and any number of engines may be between them at once, as in
the code. Two history variables say what came of that: `raced` holds the engines
that looked for the lock file while another was inside acquire, or met one that
had (`CheckExists`), `shared` remembers that two engines have owned the run at
once (`Stamp`). With them the properties tell the race of `tree/store.ts:278-286`
from everything else: `MutualExclusion` says that an owner that did not race is the
only one, whoever else is racing, and `OwnerKeepsFile` that its file stays.

### ResumeRun

One store and one lock, in the order of `runOptimize`: open, acquire, replay
(give up if finished), append, release. Its actions are those of `EngineLock`
with the engine's stage and the log beside them; `StartOther` and `Pass` are the
other programs and the clock, so that the pid in a lock file may be taken over.
`FinishIsFinal` and `LogReadable` are stated for a run that two engines have never
owned at once: two owners append what they like, whatever the order of `runOptimize`.

### LiveView

`Engine` is any step of `EventLog`; `size` counts the units of text its writes
add. `Refresh` is a request for `/api/run`: it replays what the file holds, or
ends the process when the log does not read back; `Answer` brings one replay to
the page, in any order. `PushRead` and `PushSend` are the two sides of the await
in `push`.

### Experiment, AgentStream, Screening, BenchHarness, BenchStats

`phase` says where `runOptimize` (baseline) and `runOneExperiment` are; each
phase has the steps of one of the four modules, and the next phase sees only what
the code hands on. `Hold` is the process a command leaves behind: samples, gates,
withheld checks and the agent run in a shell with pipes, a timeout kills the shell,
and execa settles only when the pipes are closed, so that the engine may be `held`
at any such command for good. `AgentStream`: a line is two bytes, the second its newline, so
that a chunk can end inside a line, at its end, or be several lines; `Receive`
takes any prefix of what has been written, `Exit`, `Timeout` and `Abort` may come
before the rest is read. Splitting a chunk and hearing its lines are recursive
functions, as is a total; sorting is stated by what stands at each place. `Screening`: `head`, `index` and `tree` are chosen
freely in `Screen`, since the agent may run git; pins compare pin and commit, then
take the paths of `git status`; detectors see the directory against the commit.
`BenchHarness`: leader and application of the process group end, bind and handle
SIGTERM independently; `Terminate` and `ForceKill` are the two halves of
`stopProcess`. `BenchStats` has no state: medians are doubled and percentages
multiplied out, so that comparisons are exact.

### Ledger and Repository

The file is its statistics, its entries, and the blocks that do not parse. An
append is three steps (`ReadLedger`, `TruncateLedger`, `WriteLedger`), `TearLedger`
leaves a prefix. `unseen` is a history variable: entries that were recorded and
that a later append did not find. `Repository` runs the commands over it;
`pc[c]` is the await of command `c`, and a worktree or branch is named after the
command that made it, as the random ids of the code are.

### RunLoop

`summary` and `node` are what a replay yields and survive a kill, as do
`receipt`, `worktrees` and `branches`. `pc`, `engine`, `aborted`, `step` are the
memory of an engine and its experiments. Every await of `runOneExperiment` is a
step: provision, node_created, running, agent call(s), cost_recorded, evaluating,
screen, benchmark, constraints and gates and withheld checks, threshold,
commit and accept, receipt, destroy; an error inside the try block is `Throw`
(status failed), one outside it (provisioning, writing the receipt) rejects
`Promise.all`. The reproduction of the winner makes two worktrees, one after the
other (`ProvisionFresh`, `ProvisionFreshWinner`), measures, removes both, one after
the other, and records what came of it; an error anywhere is swallowed by
`runOptimize`, and when the second worktree cannot be made the first stays: `leaks`
counts these. Removing a worktree swallows its own errors (`removeWorktreeWithRetry`),
so no `Destroy` throws here, in `TaskRun` or in `Repository`; at worst a directory stays
until the next sweep, which is not modelled. `Interrupt` is SIGINT, `Crash` a kill at
any point; `StartEngine` after either is a resume.

### TaskRun

The user's working directory is a function from regions to contents; a region is
what one hunk may touch, its neighbours are the hunk's context. That is enough to
tell apart the three outcomes of an application: `git apply` wants region and
context as the snapshot saw them (`Fits`), `git merge-tree` conflicts only in the
region itself (`Conflicts`), and the merged delta is applied under the same
condition against the snapshot that was merged. `Edit` may fall between any two
steps, and the user may come to write what the agent wrote.

`RunTask` follows `runTask`: each await, each append of `finish`, the catch clause
(`Throw`) and its own swallowed failure (`Swallow`), the finally block
(`Cleanup`). `Sweep` is another paxcli process. A task is never resumed, so a
killed engine stays dead and what it left is judged as it is.

### ControlPlane and FleetClient

The store's handlers are synchronous, so each is one action; `runs` is a function
whose domain grows with createRun and shrinks with disconnectRepository. The feed
is a set of numbered activities (the number is the order of the pushes).
`StoreNext` is every call with every argument.

A client is a script: `point` names the request it awaits, and `Resume` says what
follows its answer, which is null (`ok = FALSE`) after a timeout or an error.
`Serve` lets a request reach the store; if its client still awaits it, the client
goes on in the same step, since nobody sees it in between. A request whose client
has given up stays in `net` and may be served at any later time, as may the two
requests of a status line, which nobody awaits. `clean` is a history variable: the
clients for which `OutcomeIsLast` promises something.

## Runs

| Run | Shows |
|---|---|
| `MCEventLog` | with cut and failing writes, over kills and reopenings: order is kept, a successful replay misses at most one acknowledged event, what was returned once is returned again |
| `MCLiveView` | without cut or failing writes, and with a dashboard that reads between the bytes: every replay reads back, the store implements `DurableLog`, pushes send everything once, the page catches up |
| `MCResumeRun` | engines anywhere inside acquire at once, over deaths and reuse of pids: only those that raced for the lock can own the run together, nothing follows run_finished in a run that was never shared, a dead owner's lock is taken over |
| `MCResumeRunStale` | (violation) a store opened before the lock is held appends numbers already taken, although no two engines ever own the run at once |
| `MCRunLoop` | two parallel experiments, throwing steps, reproduction in two worktrees of which the second may fail, interrupts and a kill anywhere: evidence, finality, limits, branches, receipts |
| `MCRunLoopEnds` | bound on the spend over interrupts and resumes; every engine ends, whatever rejects |
| `MCExperiment` | one experiment with all its checks: what is accepted has its evidence, the outcome of a call does not depend on chunks, no server is left, a win is guarded by the regression check, the bootstrap's medians are medians, and a decision comes unless a process left behind holds the engine |
| `MCExperimentScreen` | (violation) a protected file staged under another name passes screening |
| `MCTaskRun` | a task with one repair, with edits, interrupts, kills, failing steps and sweeps anywhere: only checked work is offered, application is whole and overwrites no edit, what is accepted can be recovered, log and outcome agree, every flow ends and releases what it held |
| `MCTaskRunInterrupt` | (violation) a SIGINT during the checks does not stop the application |
| `MCFleetClient` | an engine reports while other users connect, disconnect, patch, request and decide, and requests get lost or late: references and decisions stay sound, the outcome is the last word, the dashboard blocks nobody |
| `MCRepository` | three commands at once, killed anywhere, with gc beneath them and a user who edits the ledger: nothing is left behind, a ledger that verifies is complete but for what an append did not find, recorded commits stay on a branch |

The type invariants of `EventLog`, `EngineLock`, `ResumeRun`, `RunLoop`, `TaskRun`
and `ControlPlane` are proved rather than run, as are `NoSilentLoss`,
`OwnerKeepsFile`, `OverIsDated` and `EntriesOnce`.

### Bounds

In `MCEventLog` two writers and three sessions are enough for every order of
open, append, kill and reopen, with a torn line before, between and behind whole
ones. `MCLiveView` has one writer over two sessions and
four appends (with a crash between writes, but none within one, since the
promise of `DurableLog` is for that case; with both faults a log that does not
read back ends the dashboard, and the page owes nothing more), and two pushes and two answers under way, which can overtake each other. In
`MCResumeRun` two pids and three starts let a dead owner's pid be taken by an
engine and by another program, and put two engines inside acquire at once; the
clock reaches past the slack. A race for a lock that is stale needs the dead owner's
pid to be in use again. In `RunLoop` two
parallel experiments race, two rounds (the second reached with nodes left, or
after a resume) show stale comparisons, one kill and one reproduction that is cut
short, together with unbounded interrupts, give the resumes, and reach the bounds of
`FinishIsClean`; three score values separate "worse than the
baseline", "better" and "better still"; one flaw of each class of check stands
for the others of its class. `MCRunLoop` lets calls cost nothing (the budget is
the question of `MCRunLoopEnds`). In `TaskRun` three regions give a hunk context
and a region out of reach; two edits let the user spoil a hunk before the check
and again between merge and application; one repair shows the first and the last
attempt; a budget of one attempt stops a repair. In `FleetClient` three calls of
other users are a request for approval and two decisions, or a disconnection, a
connection and a new run of the same id; one status line is enough to be late;
a cap of two activities is reached by one client. `FleetClientProofs` covers more
clients, lines and calls. In `MCExperiment` two lines let a result be cut in two
and be followed by another; two gates, a failure before and at the last; three
samples of 0, 3 and 4 are a median of zero, ties, noise within and beyond the
limit of 30 %, and gains below and above the minimum of 10 %. The interval is
computed from five samples on in the code; its scan does not depend on that, and
three samples have every pattern of ties and picks. In `MCRepository` three
commands are two that overlap and gc beneath them, or three appends of which the
first is lost and found missing; one run with two winners moves the winner
branch. Commands are interchangeable, which symmetry uses (no liveness is checked
there).

Deadlock checking is off: a store that is closed, a lock owner that is done and a
run that is finished really stop, and bounds on appends, starts and kills stop
the rest.

### Fairness

`FairSpec` of `ResumeRun`: an engine that lives goes on through acquire; it awaits
nobody. `FairViewSpec`: the page's ten-second timer asks again and what is asked
is answered in the end; nothing is assumed of the engines or of file watching.
`FairSpec` of `Experiment`: an engine that is not held goes on; agent, samples and
checks run under timeouts, and `waitReady` has a deadline, so that the environment
need do nothing. But such a timeout kills a shell, and the await settles only when
nobody holds the shell's pipes any more (`bench/harness.ts:154` and its comment at
`210-212`, `gates/engine.ts:38`, `proof/withheld.ts:42`, `hosts/stream.ts:40`): `Hold`
may happen at each of them, and `EvaluationEnds` says that the evaluation is decided or
held there, and nowhere else.
`FairSpec` of `RunLoop`: the engine and each experiment go on. Agent calls,
benchmark samples, gates and withheld checks all run under a timeout
(`perAgentTimeoutMs`, `sampleTimeoutMs`, `timeoutMs`), and here these awaits are taken
to settle: `EngineEnds` does not hold for an engine whose command has left such a
process behind. No fairness is assumed of starting or resuming an engine, of interrupts
or kills. `FairSpec` of `TaskRun`: the engine goes on, for the same reason and with the
same exception (agents, checks and the installation have timeouts); the user's answer
is not assumed, so that a flow that asks ends, for `FlowEnds`, at its question, and
what follows the answer is shown for the flows that do not ask.
`FairSpec` of `FleetClient`: the two-second timer of a request fires and the engine
comes to its end; the service need not answer, and nothing need arrive.

## Proofs

The proof modules prove for every number of writers, pids, appends, sessions,
starts, rounds, parallel experiments, nodes, kills, lines, gates, samples, regions,
repairs, edits, repositories, clients, calls, commands and winners, and for every
budget:

| Theorem | States | Assumes |
|---|---|---|
| `TypeCorrect` | `Spec => []TypeOK` | the bounds are naturals |
| `FileOrder` | the envelopes in the file are in the order of their numbers | nothing more: any fault |
| `Recoverable` | the log reads back at every instant | `NoFaults` |
| `AckedNeverLost` | a replay returns every acknowledged event | `NoFaults` |
| `StoreIsDurable` | the store implements `DurableLog` | `NoFaults` |
| `OneLost` | a replay that succeeds misses at most one acknowledged event | nothing more: any fault |
| `AckedForever` | an acknowledged event that was returned once is returned again | the same |
| `ViewLeavesLog` | a store with a dashboard beside it is a store, so that | - |
| `ViewReadable`, `ViewDurable` | the same holds at every read of a dashboard | `NoFaults` |
| `SentInOrder` | overlapping pushes send everything once, in order | - |
| `LockTypeCorrect` | `LockSpec => []LockTypeOK` | - |
| `LockExcludes`, `OwnerFileKept` | an owner that did not race is the only one, and its file stays its own | - |
| `EnginesUseLock` | `ResumeRun` implements `EngineLock`, so that | - |
| `OwnersExclude` | the same, whatever the stores that are open | - |
| `RunTypeCorrect` | `Spec => []TypeOK` of `ResumeRun` | - |
| `FinishStands` | no event follows run_finished, unless two engines have owned the run at once | - |
| `LoopTypeCorrect` | `Spec => []TypeOK` of `RunLoop` | `LoopAssumption` |
| `SoundAccepted` | what is accepted passed every check and beats the baseline | the same: anything may throw, be killed or escape its round |
| `RoundsImprove` | a later round beats the earlier ones, over resumes | the same |
| `AcceptedBranches`, `ReceiptsAgree` | accepted nodes have branches; receipts tell the log | the same |
| `NodesLimited`, `SpendLimited` | `maxNodes`; the budget but for a round and what kills hid | the same |
| `VerdictsFinal` | verdict and score of a decided node stand | the same |
| `CleanFinish` | what a finished run leaves behind is bounded by its kills and by the reproductions cut short | and `~Escapes` |
| `EvidenceSound` | an accepted experiment has the evidence its grade claims | - |
| `ServersAllStopped` | no server survives its measurement, but a deaf one whose shell is gone | - |
| `OutcomeFromOutput` | what comes of an agent's call does not depend on chunks | - |
| `WinsAreGuarded` | a win that is undone fails the regression check | `HarnessAssumption`, `StatsAssumption` |
| `MediansAgree` | the bootstrap's medians are medians | `HarnessAssumption` |
| `TaskTypeCorrect` | `Spec => []TypeOK` of `TaskRun` | `TaskAssumption` |
| `CheckedOffered`, `AcceptedRecoverable` | what is accepted or offered passed every check and has its patch | the same |
| `EditsSurvive`, `WholeApplied` | no edit is overwritten; all of the result or nothing is applied | the same |
| `SpendBounded`, `CleanEnd`, `OutcomeLogged` | budget, what is left behind, log against outcome | the same |
| `StoreTypeCorrect`, `OverDated`, `ReferencesIntact`, `DecisionsStand` | the dashboard's store under any calls | - |
| `ClientsUseStore` | `FleetClient` implements `ControlPlane`, so that | `ClientAssumption` |
| `ClientReferencesIntact`, `ClientDecisionsStand` | the same holds under late and lost requests | the same |
| `OutcomeComesLast` | nothing a client sent before overtakes its outcome | the same |
| `CommandsCleanUp` | a command that came to its end leaves neither worktree nor branch | - |
| `RecordedStayReachable` | a recorded commit stays on a branch until another winner of its run is applied | `LedgerAssumption` |
| `RecordedOnce`, `VerifiedIsComplete` | the ledger holds nothing twice; one that verifies is complete | - |

The argument for the store: what a session has on its chain carries the numbers
that follow those of the file, one after the other, up to its counter; that is
inductive together with "only one session is up" and "the counter of the session
is the number of complete lines plus the length of its chain". FileOrder needs
only the weaker "every number on the chain exceeds those of the file", which cut
and failed writes keep. What such writes can lose follows from the line that is
open: it holds no acknowledged event, so the write that joins it spoils at most
its own. That one is lost when it is acknowledged, on a last line that its
newline has closed (`LossInv`); whatever is written next comes behind it, and a
line in the middle that does not parse makes the replay raise instead of
dropping it.

For the dashboard of a run: its steps leave the store alone, which hands every
theorem of the store on; what a connection was sent is as long as its offset, and
a push whose read comes back late finds the offset beyond it and sends nothing
(`SentInv`).

For the lock: an engine that is past its checks and did not race has found no living
owner, and whoever begins to look while it is inside has raced; so nobody can become
an owner before it writes but one that `raced`, and an owner with a rival means that
both have (`SoleOwner`). For the engines that put store and lock together, as long as
the run is not `shared`: a write in progress is the head of a
chain (`OpenInv`), a chain belongs to the owner (`ChainInv`), and a finish is
the last of its chain and in the file only as the line being written
(`FinalInv`), so that whoever runs later has replayed it.

For the optimize engine: an experiment's phase fixes what its node in the log
may be (`PhaseInv`) and what the checks before that phase have excluded
(`EvidenceInv`); the engine goes on only when no experiment runs, after one
escaped its round to its sweep alone (`PcInv`). `LaterRoundsBetter` compares
nodes of different rounds, although an experiment compares itself with the
round's target only: `TargetInv` says that the target is as good as all that
earlier rounds accepted, also when it was rebuilt from the log. `NodeLimit`
counts the nodes that are in the log or about to be (`LimitInv`). The spend is
what the log holds, and the calls that are paid but not yet recorded, at most
one for each experiment (`SpendInv`); the calls a round has made bound what it
spent since the budget was looked at. What a kill leaves is what was in use at that
moment: the worktrees of a round, or the two of a reproduction (`AtWorkAtOnce`), so
that worktrees and branches that nobody is at work on are at most `Width` for each
kill and one for each reproduction cut short, and undecided nodes at most `Parallel`
for each kill (`LeftInv`).

For one experiment: each check leaves evidence that no later phase writes
(`SoundInv`); an application has a shell while the harness still has a step for
it (`ServerInv`); and after every chunk the carry is the line that has begun to
arrive, and the adapter remembers the last result among the whole lines
(`AgentInv`). That rests on a closed form of what splitting a chunk and hearing
its lines yield (`FedUpTo`, `Recall`), shown equal to the recursive functions.

For the statistics: the ranks of n values are n different numbers up to n, so
each place of the order has its value, and only one value can stand there
(`RankTaken`, `StandsOnce`); the scan stops at the rank whose value stands at
the wanted place of the resample (`ScanStands`). Undoing a win loses what the
win gained, as a share of the smaller median, hence more (`SmallerUnit`). That
fails only for a winner with median zero, whose share is of one, against a
baseline with median one half: at least half of its values are zero, so by the
inequality of Cauchy and Schwarz its noise exceeds any such gain
(`SquaresBound`, `HalfIsNoise`) and it was no win.

For the task: each check leaves to the next what it has excluded, and nothing
changes the candidate between the last check and the commit (`CheckedInv`); a
merge that is going to be applied had no conflict, so what its delta replaces is
what the snapshot saw (`MergeInv`), and `git apply` looks at that again; lock
and branch are held exactly from their acquisition to the finally block
(`HeldInv`); the catch clause is the only way to write the decision twice
(`LogInv`).

For the control plane: `StoreInv` is inductive as it stands; a client whose calls
were all answered has nothing under way but the request it awaits (`Current`),
so that when it publishes, its run exists and nothing is left to overwrite it
(`CleanClient`).

For the commands on a repository: a worktree or branch of a command that was not
cut short is one its program counter will still remove (`LeftInv`, which no
other command can disturb, since names differ); what is recorded has been
applied, and the winner branch of a run is where the last apply put it
(`ReachInv`); a command that is about to write has read a sound file without its
key (`OnceInv`); and the statistics of a header are those of the entries it was
rendered with, so that a part of them that has the same statistics is all of
them (`PartIsAll`, `CompleteInv`).

Only model-checked are the liveness properties `StaleLockTaken`, `FlowEnds`,
`EngineEnds`, `DashboardNeverBlocks`, `PageCatchesUp` and `EvaluationEnds`, which
are out of the prover's reach. The library's induction theorems take an operator as
a parameter, which the provers cannot instantiate; where a proof needs an
induction (chunks, lines, sums) it is over a set of numbers, outside of which there
is no least one (`NaturalInduction` in `ExperimentProofs`).

The proofs corrected `FinishIsClean`: it said that a finished run
leaves no worktree, which `MCRunLoop`, with one kill, confirms. With two, the
second can fall between run_finished and the sweep, and the worktrees of the
first stay: a finished run is not resumed, so that only `paxcli gc` or the sweep
of another run removes them.

## Divergences between code and documentation

Checked by the violation runs: stale numbering (the store is opened before the
lock is taken); the application of a task that was interrupted; a protected file
that the agent moved in the index (`git mv`) is named by its new name only in the
status line pins read (`proof/pins.ts:87`), so that screening finds the candidate
clean although the file is gone. Found while modelling and not given a run:

- an append behind a torn tail joins its line, resolves, and is dropped by every
  later replay (`tree/store.ts:84`), though `store.ts:91-94` says that corruption
  raises "instead of silently losing accepted work"; `AtMostOneLost` bounds the loss;
- `Promise.all` (`run-loop.ts:207`) rejects on the first experiment that throws: the
  engine sweeps and releases the lock while others still run and append
  (`RunLoop` with `Escapes = TRUE`), though `store.ts:17` says the engine holds a lock;
- detectors and `changedFiles` compare the directory with HEAD: what the agent has
  committed itself is seen by pins alone (`worktree/local.ts:126`, `132`). A rejected
  pattern may be accepted that way (`AcceptedIsSound` says so);
- a ledger whose writing was cut loses entries to the next append, which finds a
  shorter file, and verifies again (`ledger/file.ts:142`), though its header says
  "Entries are append-only"; two appends that overlap lose one entry;
- `recordTaskInLedger` (`cli/task-ui.ts:248`) uses neither the configured path nor
  the switch that `recordOptimizationInLedger` reads;
- `reproduceWinner` leaves its first worktree when the second cannot be made
  (`run-loop.ts:332`): the engine reports it, finishes the run and sweeps the
  worktree, but branch `rb-*` stays, with no kill at all (`leaks`, which
  `FinishIsClean` adds to what kills leave); in `paxcli run reproduce` the worktree
  stays too;
- applying a second winner of a run moves the winner branch (`worktree/local.ts:193`);
  after `gc --branches` the first one's recorded commit is on no branch;
- SIGKILL is not sent when the shell has left an exit code (`bench/harness.ts:233`):
  an application that ignores SIGTERM and was started in the background survives,
  though `harness.ts:212` says the tree is killed;
- another process that takes the free port answers for the application
  (`bench/harness.ts:257`);
- for a metric that is maximised, an undone win is a smaller percentage than the
  win was, and may pass `ci verify` (`ci/baseline.ts:76`); `WinsGuarded` is about
  minimised ones. Its values are naturals: a winner with median zero is compared as
  a share of one (`bench/stats.ts:88`), which for a baseline far below one (fractions
  of a millisecond) makes the loss a smaller percentage too;
- a constraint on a secondary metric whose baseline is zero is never applied
  (`run-loop.ts:534`);
- a log that does not read back ends the dashboard's process
  (`dashboard/server.ts:61`);
- the budget is compared once before a round (`run-loop.ts:154`), not before each
  spawn as `cli/index.ts:581` says: with split roles a round of two experiments
  overshoots by four calls, not by two (`SpendBound` states what holds);
- a status line nobody awaits (`cli/optimize-ui.ts:80`) that is served after finish
  shows a finished run as running for good, and one served while an approval is
  pending takes the run out of waiting-approval; `OutcomeIsLast` is about the
  clients that had none under way;
- a client that timed out on createRun leaves a queued run nobody will update;
- acquire checks and writes in two steps, so two engines that start together
  both own the run, against `store.ts:17` "the engine process holds a lock"
  (`SingleWriter` of `ResumeRun`, the plain statement, fails; `MutualExclusion`
  says that this race is the only way);
- a timeout does not end the await of a command that left a process behind which
  holds its pipes (`Hold` of `Experiment`): `harness.ts:210-212` says so of the server,
  and samples, gates, withheld checks and the agent run the same way;
- a failed append does not return its number, so every later replay raises
  (`IoErrors = TRUE` violates `AlwaysReadable`);
- a kill between a decision and its receipt leaves the node without one for ever
  (docs/proof-layer.md:38 says every experiment writes one);
- a winner whose reproduction held before an interrupt keeps the grade when the
  resume's does not hold (`run-loop.ts:272`); a winner of an earlier session does
  not get its receipt refreshed (`run-loop.ts:275`);
- a resume snapshots HEAD anew, so that experiments branch from a commit other
  than the one the baseline was measured on (`run-loop.ts:237`);
- sweep of one run removes the worktrees of another (`worktree/local.ts:159`).

## Plan

Built in this order, the behaviour that other parts rest on first: the event
store and what it promises; the engine lock; their composition in starts and
resumes; the optimize engine; the task engine with the snapshot and the
application of its patch; the control plane and its client; then one experiment in
detail (agent stream, screening, harness, statistics), the dashboard of a run, the
ledger and the commands that share a repository. Each safety property that a
passing run checks has its theorem.

What remains, in order:

1. that an experiment of `RunLoop` is what `Experiment` yields;
2. secondary metrics in `Experiment`, the exclusions of a snapshot, the event
   stream and the settings of the fleet dashboard;
3. process handling on Windows, where killing a tree is another command.

## Not modelled

Texts: prompts, hypotheses, insights, reasons, steering, the journal, redaction,
reports; repository settings and event stream of the fleet dashboard; token and
idle shutdown of either dashboard; argument parsing and configuration; discovery
of commands and opportunities; which patterns detectors look for (what they are
applied to is modelled); what only a reader sees of a comparison (interval ends,
effect size, p95); constraints on secondary metrics in `Experiment` (an outcome
in `RunLoop`); the mock host and the trace of an agent; Windows process handling;
schema migration of old logs; the parse-time refusals of old receipts.
`AgentStream` takes the shell to exec the agent's command, so that killing it
kills the agent; `BenchHarness` has no kill of the engine, which would leave the
detached server running. None of these keeps state that a property above is about,
except the last two, which are the operating system's.
