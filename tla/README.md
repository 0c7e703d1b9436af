# A TLA+ model of eddie

eddie runs checks (HTTP, TLS, probe, S3) on a fixed interval, keeps a small state per
spec, runs a script and sends mails when a spec starts failing or recovers, and shows
everything on a status page. These modules model it from the first line of `main` to the
exit: what it is started with, what it checks and concludes, whom it tells, and what
becomes of all that when a part fails or the process ends. TLC checks them on small
instances, and TLAPS proves their safety properties for every instance.

## 1. The system

| Part | Code | State | Operations |
|---|---|---|---|
| Threshold automaton | `monitor/runner.go:136-142, 232-297` | `SpecState`: status, two counters, two stamps | `applyCycleResult`, `resetStaleConsecutiveState`, `thresholdOrDefault`, `shouldRunSpecInCycle` |
| Runner | `monitor/runner.go:31-230, 494-549` | cycle number, one goroutine per spec of the cycle, ticker | `Run`, `runCycle`, `markCycleStarted`, `handleCycleResult`, `triggerFailureActions`, `triggerRecoveryActions` |
| Store | `state/store.go` | map from spec ID to `SpecState` under a mutex | `Get`, `Set` |
| Mail | `monitor/runner.go:551-581`, `mail/service.go:95-225`, `main.go:228-253` | one connection and one watcher goroutine per recipient, a shared deadline | `sendEmailToRecipients`, `mergedMailRecipients`, `Send` |
| Process | `cmd/eddie/main.go`, `http/server.go:83-169` | context of the signal, server goroutine, `serverErrCh` | start-up, `select`, `Shutdown`, exit |
| Status page | `main.go:115-145`, `http/server.go:185-330` | one handler per request; a 2 s ticker per stream | snapshot, `/`, `/events` |
| Scripts | `monitor/runner.go:583-604` | one goroutine per script, its shell with a timeout of 60 s, what the shell leaves running | `runScript` |
| Checks | `monitor/runner.go:374-492`, `probe.go`, `tls.go`, `s3.go` | none between checks; a deadline within one | `validateSpec` and one function per type |
| Spec files | `spec/spec.go` | the specs and names seen so far, while parsing | `Parse`, validation, duplicates |
| Configuration | `config/configuration.go` | the settings so far, while loading | `Load`: defaults, environment, flags |
| Logging | `logging/logging.go` | the pending lines of the colouring writer | `Write`, `colorizeSlogTextLine`, `shouldColorizeOutput` |

How they interact: `main` starts `Run` in a goroutine and the HTTP server in another, and
waits for a signal or the server's error. `Run` starts one goroutine per active spec and
waits for all of them (`wg.Wait`) before the next cycle; they share the store with the
status page's handlers. A goroutine whose result is a transition starts a script without
waiting and sends the mails itself, so the mails are part of the cycle. The signal's
context reaches `Run`, the start delays and the checks, but neither the mails nor the
scripts nor the handlers.

What is hard: every `Get` and `Set` is atomic and no pair of them is; slow checks and
mails keep ticks waiting; cancellation meets ticks, delays and checks; counters are
forgotten when time passes; the mail server may stall at any command; shutdown waits for
clients and for nobody else, so it cuts off mails and scripts; a service may answer, stall
or redirect at any point of a check; settings come from three sources that are validated
by different functions, or not at all; the log's target may fail in the middle of a line.
`PROJECT.json` lists each such hazard at its line, with the properties that
would catch it, or what keeps a property from doing so.

What makes each part correct:

- automaton: its counters say what the history of results says, overflow included;
- runner and store: no lost update, one check of a spec at a time, every flip earned by
  its threshold, one notice per flip, every cycle ends, a signal ends `Run`;
- mail: nil means accepted, one mail per address, one bad recipient does not starve the
  others, the phase ends, no goroutine is left behind;
- spec files: accepted specs are valid and have distinct identities, nothing is lost;
- checks: the verdict follows from the file and the answers, within the timeout;
- configuration: the documented source wins, refusals have a reason, and a password that
  is asked for is never silently dropped;
- process: a signal ends it, its exit status tells the truth, and what it cuts off is at
  most the notice of the one check each spec was at;
- log: no line lost, repeated or overtaken, and none garbled by the colours;
- status page: rows are as recent as the page claims, a stream never goes back.

## 2. The modules

| Module | What it is |
|---|---|
| `CycleState` | the state of one spec and the pure functions on it |
| `CycleHistory`, `MCCycleHistory` | the automaton fed with results, against windows of the history |
| `Alerting` | abstract: what the monitor promises to those it alerts |
| `Runner`, `MCRunner` | detailed: the loop, its goroutines, the store, the clock |
| `MailRecipients` | `mergedMailRecipients` |
| `MailDelivery`, `MCMailDelivery` | the mails of one notice, down to each SMTP command |
| `StatusPage`, `MCStatusPage` | the status page's handlers composed with `Runner` |
| `Service` | abstract process: `main`, the server, its clients, the signal |
| `Eddie`, `MCEddie` | detailed process: `Service`'s `main` and server, `Runner`, and the scripts |
| `ConfigLoad` | `config.Load`: defaults, environment, command line |
| `SpecFiles`, `MCSpecFiles` | reading and validating spec files: what the runner is given |
| `Startup`, `MCStartup` | from the first line of `main` to serving or giving up: `ConfigLoad`, the mail service, `SpecFiles`, the notice of a parse failure, the server's options |
| `ProbeSpec` | the probe section of a spec and its validation |
| `ProbeCheck`, `MCProbeCheck` | a probe from its validation to its verdict |
| `CheckVerdicts` | how an HTTP answer, a TLS peer and an S3 listing are judged |
| `Checks`, `MCChecks` | one check of any type, with its redirects, deadline and failures |
| `LineColors` | splitting and colouring one line of the log, and when |
| `ColorWriter`, `MCColorWriter` | the writer with its queue, on a target that fails |
| `CycleHistoryProofs`, `RunnerProofs`, `CompositionProofs` (page and process), `StartupProofs`, `ChecksProofs`, `MailDeliveryProofs`, `ColorWriterProofs` | theorems |
| `SequenceFolds` | lemmas on folds, and induction over sequences |

`CycleState` is used by `CycleHistory`, `Runner` and (for the arithmetic of durations)
`CheckVerdicts`; `StatusPage` and `Eddie` extend `Runner`; `Runner` instantiates
`Alerting`, and `Eddie` instantiates `Service`, with a refinement mapping; `Startup`
extends `SpecFiles` and `ConfigLoad`; `Checks` extends `ProbeCheck` and `CheckVerdicts`;
`ProbeSpec` is used by `SpecFiles`, `ConfigLoad` (trimmed values) and `ProbeCheck`.

### Runner

A goroutine is a record whose `pc` says where it is and whose other fields are its locals:

| `pc` | code | left by |
|---|---|---|
| `sleep` | `sleepWithContext`, only with a delay | `Wake` (timer), `Abandon` (context) |
| `ready` | before `time.Now()` of line 97 | `MarkLoad`: the stamp and `markCycleStarted`'s `Get` |
| `mark` | between its `Get` and `Set` | `MarkStore` |
| `check`, `doomed` | in `validateSpec`; `doomed` if the context was cancelled before it began | `FinishCheck`: it returns, and `handleCycleResult` takes the time and does its `Get` |
| `handle` | between that `Get` and the `Set` | `HandleStore`: the whole computation and the `Set` |
| `notify` | before `trigger...Actions` | `Notify`: the script is started, the mails begin |
| `mail` | in `sendEmailToRecipients` | `FinishMail` |

`rpc` is where `Run` is; `waiting` is `wg.Wait`. A stamp and the `Get` after it are one
step: nothing else writes the entry of that spec meanwhile, which `NoLostUpdate` and
`OneEach` show. A check is a step of either result. A check that began under the
cancelled context cannot succeed; one that was running when it was cancelled can still do
either. `failures`, `successes` and `told` are history variables: nothing in the model
reads them.

Time is a counter. With `Prompt = FALSE` it passes at any moment, so goroutines,
checks and mails are as slow as they like. With `Prompt = TRUE` steps that wait for
nothing are taken before time passes and checks and mails end by their deadlines, which is
what the one property about real time needs. The ticker keeps one pending tick and drops
the rest, as `time.Ticker` does.

### MailDelivery

One goroutine walks the recipients; for each it dials, works through the commands of
`Conversation` (which depend on the TLS mode) and unwinds its deferred calls. The server
may accept or refuse each command or say nothing; `verdict` is the server's own view of a
message and can change after `Send` has given up. `CommandOk` may not pass the final dot
before the server has accepted. The deadline of 30 seconds can pass whenever the
goroutine waits for the network. The same loop runs for a parse failure at start-up, with
the unmerged global receivers (so `OneMailEach` is not claimed there).

### Service and Eddie

`Service` has `main`'s own steps, the server goroutine, the one-slot `serverErrCh`, and
each client's connection (`away`, `page`, `stream`, `idle`). What `Shutdown` does to
connections is net/http's, modelled as `main` uses it: idle ones are closed, busy ones
are waited for. Of the monitor it knows whether it was started and has returned.

`Eddie` replaces that by `Runner` itself and adds the scripts. `ProcessStep` takes a step
of `Service` that leaves the monitor alone; `StartMonitor` is the `go runner.Run(ctx)` that
comes before the server is built; `Running` guards every step of the monitor, so an exit
stops it wherever it is. `CheckStep` is one step of a check's goroutine and starts the
script of a transition in the same step as `Notify`, as `triggerFailureActions` does.
`runScript` has no bound: `exec.CommandContext` kills the shell when its 60 seconds are
over, but `CombinedOutput`, without a `WaitDelay`, returns only when nothing holds the
output open any more, and a child of the shell may do so for ever. So `shells` are the
scripts whose shell runs, each until it ends or is killed (`ShellEnds`), and `lingering`
counts the goroutines that outlive their shell, which may return (`OutputCloses`) or not;
nobody waits for either. `ImplementsService` is
the refinement: `Monitor` maps the state of `Run` to what `Service` knows of it.

### ConfigLoad and Startup

`Load` in three actions: the environment as a whole, one flag after the other, and the two
checks at the end. A setting goes by its flag's name; a text that is no number, duration
or boolean where one is asked for is `Unparsable`. What follows from the code as it is:
flags after the first word that is none are never seen; a variable that does not parse is
fatal even when a flag overrules it; an empty variable is as good as none, but an empty
flag is a value; with neither `XDG_CONFIG_HOME` nor `HOME`, or with a relative path in the
first, nothing starts, not even with a spec path of one's own (`os.UserConfigDir` as on
Unix). `Startup` runs through `main`: `mail.New` is `MailNew`, `notifySpecParseFailure`
sends to one receiver after the other under one deadline, and `NewServer` applies the
server's options with the monitor already running. The conversations of these sends are
`MailDelivery`'s; here `told` says of each whether it succeeded, failed, or came after the
deadline (`sendExpired`), when `Send` returns before it dials. It uses one directory of spec
files and one launch, chosen at the start.

### StatusPage

A snapshot takes its time, then reads the store once per spec. One viewer stands for any
number, since requests share nothing. `base` remembers what the store held when
generated_at was taken.

### SpecFiles

`Parse` as a machine: the files of the expression in their order, document by document,
then one round of `validateSpecNames`'s loop per spec. `Reject` is every `return nil, err`.
Finding the files, YAML itself and the wording of errors are left out; `Identity` (the key
of the duplicate check) and `ID` (the key of the store) are two definitions because the
code computes them in two places.

### ProbeCheck and Checks

`ProbeCheck` is `validateProbeSpec` of `monitor/probe.go`, one action per request, extract
and assertion. Identifiers are names with or without blanks around them, because
validation trims them and the evaluation's maps do not. Texts carry what the transforms
change: capitals, quotes, blanks outside the quotes. `answers` is a history variable, from
which the properties say what a file means without the code's maps.

`Checks` is `validateSpec` for every type. An HTTP check gets answers one at a time, follows
redirects under one deadline and reads the last body under it too; TLS and S3 get one.
At any time before the deadline the connection may break or the context be cancelled, and
the service may say nothing until the deadline. The verdicts (`CheckVerdicts`) translate
the functions in the order of their tests; the properties say what the file asks for, in
any order. crypto/tls and the S3 service are external: a handshake is refused below the
minimum version or for an untrusted chain, and a listing has at most `PageLimit` keys, of
which the code reads one page. The days of validity are multiplied with the wrap-around of a
duration (beyond some 106,000 days on the real scale).

### LineColors and ColorWriter

A line is a sequence of symbols, words counting as one. `Rendered` is slog's own text
handler with its quoting (external); `ColorizeSlogTextLine` splits the text again and colours
it. `ColorWriter` is `Write` call by call: the target takes a line whole, or a beginning of
it and fails. Without colours slog writes to the target itself and forgets what fails,
which is why two of the properties are about coloured output only.

## 3. What the runs show

| Run | Instance | Question and answer |
|---|---|---|
| `mixed` | an active spec with mail and a failure threshold of 2, one of every other cycle with defaulted thresholds, and an inactive one; a delayed start, 4 cycles, 4 ticks, any speed | state, notices, stamps and the refinement of `Alerting` hold; owed notices go out, cycles end, a signal ends `Run` |
| `history` | durations of 4 bits, 6 results, thresholds -1..3, intervals -1, 1, 3, 4 | counters and status are what the windows of the history say |
| `mail` | three addresses among five configured values, STARTTLS | the mail properties hold |
| `page` | three specs, 2 cycles, one viewer | rows as recent as generated_at, streams only go forward |
| `eddie` | one spec with both scripts and mail, failure threshold 2, interval 3 with checks and mails of one tick, shells of up to 3 whose goroutines may never return, 6 cycles, one client | status 0 is clean; an exit cuts off at most one notice per spec; shells of scripts overlap, within a bound; a run of results as long as the threshold flips the status; a signal and a failed server end the process; notices go out unless it ends; `Service` is implemented |
| `startup` | up to two arguments out of 15 with each of 15 environments, and four more of where the configuration directory is, on a directory that parses and one that does not; one complete configuration on no file, every file of up to two documents out of 17, and each with a second file of up to two documents out of five | the documented source wins; refusals are earned; accepted files suit the runner and nothing is lost; of a parse failure everyone has a turn, and only the deadline leaves anyone out; no page is open by mistake |
| `checks` | 96 HTTP expectations, redirects followed or not, up to 3 of 7 answers; 92 TLS sections with 61 peers; 120 S3 sections with 6 buckets; every probe of `MCProbeCheck` | every verdict is earned, no check outlives its timeout, every check ends; `all_equal` ignores order |
| `log` | three calls with every value of up to three symbols out of letter, blank, quote and backslash, and awkward ones; cuts of 0 and 4 symbols; six outputs | nothing lost; the queue is as long as the failures; every line reads as it was logged |
| `sparse` (violation) | every third cycle, failure threshold 2 | see below |
| `mail_all` (violation) | three recipients, implicit TLS | see below |
| `graceful` (violation) | one client | see below |
| `probe_padded` (violation) | two requests, extracts and assertions under every way to name them | see below |

The bounds are chosen so that each case that matters fits: two cycles and a slow goroutine
suffice for overlap; three let a spec with a failure threshold of 2 fail and recover; four
ticks let counters be forgotten between two checks. Otherwise ticks are few because only
their order relative to stamps, timers and deadlines counts. In `eddie` six cycles are two
failures and two recoveries, so shells of both transitions can overlap and four of them
would if they were not killed, and a cycle and one more check fit in its interval. The panic of `time.NewTicker` at an interval that is
not positive is a branch of `EndCycle` that no run takes; the theorems hold for any
interval. Six results hold two full runs of the largest threshold. Durations of four bits
have an interval whose double does not fit and a gap that saturates; in `checks` durations
have six bits and a day is 4, so 7 days fit and 8 wrap around. Redirects are cut at three
answers for net/http's ten and a page of S3 at three keys for a thousand: one more and one
fewer both occur. Two documents in a file and two files are enough for an empty, invalid or
repeated one to come before or after a good one; two arguments for a repeated flag, one
that overrules another, and one behind a word that is no flag. `MaxCycles` and `MaxTime`
(Runner, Eddie), `MaxResults` and `Gaps` (CycleHistory) are the only bounds on counters,
and the proofs hold for any value of the first two. `CHECK_DEADLOCK FALSE` is set because
`Run` returns, a notice is over, a check has a verdict, the last line is written and a
process exits or just serves.

One type invariant is checked for `Runner` (`TypeOK`) and proved with it; those of the
other modules are conjuncts of the proved invariants (`IInv` of `StartupProofs`,
`HistoryTypeOK` of `CycleHistoryProofs`, `Types` of `ColorWriterProofs`, `Scalars`, `Sets`
and `Tables` of `MailDeliveryProofs`).

### Where the code and its documentation differ

1. `sparse`: counters are forgotten after two cycle intervals without a completed check
   (`runner.go:238`), so a spec with `every_cycles` of three or more and a threshold of two
   or more never flips, while README.md:401 promises the transition after
   `cycles.failure` consecutive failures and its example combines 60 and 2.
2. `mail_all`: the recipients share one deadline (`runner.go:552`); README.md:406 promises
   the mail to all of them. The notice of a parse failure does the same (`main.go:245`),
   against README.md:414: `ParseFailureIsTold` states what remains of that promise.
3. `graceful`: an `/events` stream does not end with the signal (`server.go:272`), so
   `Shutdown` runs into its timeout, and eddie exits with status 1.
4. `probe_padded`: validation compares the identifiers of a probe without the blanks
   around them (`spec.go:502`), the evaluation with them (`probe.go:43`), so a reference
   that validation, as `spec_test.go:196` has it, found good is unknown to every check.

Some things the model shows on which no document says anything: a header the answer lacks
reads as the empty text, so two missing headers are equal and an expected empty header is
met by none at all; the text `nan` is a number that equals nothing, not even itself; an S3
check with `eq` can pass on a bucket that has more objects than one page; an interval of
zero is accepted and ends the process with a panic after its first cycle; a port and an
address are judged only after the monitor is running.

### Fairness

`Runner`: goroutines are scheduled (weak fairness per spec), time passes, a check returns
(its timeout or the cancelled context makes it), and a mail phase ends - which
`MailDelivery`'s `PhaseEnds` shows from the connection's deadline, with nothing assumed of
the server. `SelectDone` has strong fairness: Go's `select` chooses uniformly among the
ready cases, and a cancelled context is ready at every one. `MailDelivery`: goroutines and
the deadline, not the server. `Eddie`: `main`, the timeout of `Shutdown`, the handlers of
pages and the goroutines of checks; not clients, scripts (neither the shell nor the
goroutine need ever end) or the clock. `Checks`: timers and
goroutines (each context has a deadline and net/http, crypto/tls and the SDK honour it), no
service has to answer. The other modules claim no liveness.

## 4. What is proved

Every invariant of the passing runs, and every action property but those of liveness, is
also a theorem, for any specs, thresholds, recipients, files, answers and records and for
runs of any length. The assumptions on the constants are named where the constants are
declared, and each is what the code sees to:

- `RunnerAssumption` (the types of the configuration; every_cycles is not negative, the
  cycle interval is any integer), `DurationAssumption` (the range of a duration is even and
  positive), `HistoryAssumption` (intervals are durations, gaps are not negative);
- `EddieAssumption` and `MailAssumption` (types);
- `SpecFilesAssumption` (a directory is a sequence of files, a file one of documents; a
  malformed or empty document is not a spec), `DefaultsAssumption` (the defaults parse) and
  `LaunchesAssumption` (types of environment and arguments);
- `ProbeCheckAssumption` and `ChecksAssumption` (types of the parsed specs and of answers;
  a text that reads as an integer has that value);
- `ColorWriterAssumption` (records are sequences of attributes, and keys, which eddie's own
  code names, hold no blank, quote or equals sign).

`RunnerProofs`, safety. The inductive invariant `IInv` is `TypeOK`, `Idle` (only a waiting
`runCycle` has goroutines), `OneEach` (one per spec), `NoLostUpdate`, `CountersHonest`,
`ToldMatchesStatus`, `StampsOrdered` and `WorkerOK` (a goroutine's locals fit the clock and
the entry it wrote). The safety properties alone are not inductive: that `MarkStore` and
`HandleStore` write back a current copy needs that no other goroutine of the spec exists,
which needs that a cycle only starts with none, which is `Idle`. One lemma per step shows
that it keeps `IInv`; the frames shared by the steps that touch neither store nor
history are `QuietBecome`, `QuietReturn` and `QuietLoop`. From `Invariance` follow
`TypeCorrect`, `ChecksAreSerial`, `UpdatesAreNotLost`, `CountersAreHonest`,
`NoticesMatch`, `StampsAreOrdered`, `TransitionsAreJustified` (an action property) and
`Refinement`: `HandleStore` is an `Observe`, `Fail` or `Recover` of `Alerting`, `Notify`
its `Notify`, everything else a stutter.

`RunnerProofs`, time. `ThresholdsForceTransitions` says when the first divergence of section
3 cannot happen: under `Timely(L)`. Then steps that wait for nothing are taken before time
passes, the interval is positive and its double is a duration, every cycle lasts at most L,
L is no longer than the interval, and a spec with a threshold above one runs in every cycle
and has room for one more check in the interval. The `eddie` run satisfies it with L = 2;
the `sparse` run has a spec outside it and violates the property. `TimedInv` follows the
clock: where `Run` is relative to the ticker (`LoopTimed`), how late each phase of a
goroutine can be (`OnTime`), that the last check of a spec ended in this cycle or the one
before (`EntryTimed`), and so that the counters are the runs of results themselves
(`RunsKept`).

`CompositionProofs`, the status page. Entries of the store only grow newer, which extends
`IInv` to the composed system: `RowsAreFresh` and `StreamsOnlyGoForward`.

`CompositionProofs`, the process. `ExitInv` adds to `ExitZeroIsClean` that `main` is in
`Shutdown` only after a signal and that `serverErrCh` holds `ErrServerClosed` in no select:
without these the step of the select could report status 0 unasked. `EddieStepRunner` and
`EddieStepService` take every step of the process to a step of either part or a stutter.
So `EddieRunsRunner` carries the safety theorems of `RunnerProofs` over to the process (and
`EddieForcesTransitions` the one about time), `EddieImplementsService` the exit status
(`EddieExitsZeroOnlyClean`), and `ExitLosesOneCycle` combines them: an exit finds the status
and the notices as `ToldMatchesStatus` says. Its last part, that a server that cannot be
built cuts off only the first cycle, needs `Prompt` (no time passes while it is built) and
`BuildInv`: until then the ticker cannot have fired.

`CompositionProofs`, the scripts. Nobody waits for a script, so `ShellsAreBounded` counts
their shells (the goroutines and what a shell leaves behind cannot be counted, as nothing
ends them): `ScriptInv` says of every moment t up to now that the shells of a spec begun
since t, and the one its goroutine may yet start, each took a cycle of their own. One cycle may
have been running at t, the tick kept for a late cycle may begin another, and each further
one needs a tick after t, an interval from the last. It assumes a positive interval and
`Prompt`: a goroutine that need not wait starts its script without delay, and the kill of a
shell whose time is over takes none (it is SIGKILL, to the shell alone). That kept tick is
easily forgotten: a bound without it holds as long as cycles are on time, and no longer.

`CycleHistoryProofs`. `StaleMeansLongGap`: for every width of a duration, the counters are
forgotten exactly when the interval is positive, twice it is representable, and the gap is
longer than that. The guard `maxGap <= 0` is therefore enough against the overflow.
`StatusMatches` and `CountersMatch` relate the automaton to its whole history. Their
invariant `HistoryInv` joins the types, `StatusMatchesHistory` and `RunsCounted`: the counter
of a status is the length of the run of results that could end it, and shorter than its
threshold. `NewWindow` and `NextRun` say what one more result does to the windows of a
history, which no step looks at again as a whole.

`StartupProofs`, files. The invariant of `Parse` is that of its loops: the specs before `next`
are valid, their identities are in `seen` and pairwise different (`LoopInv`), and what has
been read is the documents so far without the empty ones (`ReadInv`). `AcceptedSpecsSuitRunner`
discharges what `Runner` takes for granted: one entry of the store per spec, and
`RunnerAssumption`'s interval in cycles. `EveryDocumentIsKept` is that no accepted spec is
missing, doubled or out of order.

`StartupProofs`, `main`. `LoadInv` relates the settings to the variables and to the flags read
so far, `MainInv` each place of `main` to what went before it, and `Told` each mail of a
parse failure to the receiver whose turn it was and to the deadline. `StartupInvariance` gives
`PrecedenceAlwaysHolds`, `RefusalsAreEarned` (both of settings and of spec files),
`ParseFailuresAreTold`, `NoOpenPageByMistake` and `StartupSuitsRunner`.

`ChecksProofs`. `VerdictsAreEarned` follows the verdict of each type through its check:
`ServiceInv` knows of HTTP which answers are redirects that were followed, `ProbeInv` of a
probe that the maps hold what the file means of each request and extract passed so far.
`NoCheckOutlastsTimeout` is a bound on the time used in the same invariant. The code
compares the values of `all_equal` with the first only; that this is every pair
(`AllEqualNeedsNoOrder`) needs that equality is symmetric and that two values equal to a
third are equal, which holds although nan is not equal to itself.

`MailDeliveryProofs`. `MailInv` follows the loop: what is behind `current` is dialed for and
released, what is ahead has no result, and a conversation at `QUIT` has been told that the
message is accepted. `ConversationEnds` is all that is used of the three conversations, so
the theorems do not depend on how the connection is secured. `NilMeansServerAccepted`,
`OneWatcherWaits` and `FailuresDoNotStarve` follow, for any recipients. `MergedOnceEach` is an
induction over the receivers, and with it `NobodyIsMailedTwice`.

`ColorWriterProofs`, the queue. `QueueInv` joins the types, the order of the chunks
(`InTurn`) and `QueueIsRest`: what is queued is exactly the lines that have not left whole.
`NothingLost` alone says nothing of a call that is under way, and `BacklogIsFailures` needs
that nil leaves the queue empty (`Complete`). `NothingIsEverLost`, `NilIsComplete` and
`BacklogBounded` follow, for any records and any way in which the target fails.

`ColorWriterProofs`, the colours. `LineReadsAsRecord`: splitting the text of a record and
colouring the parts gives what colouring its attributes would. It is an induction over the
symbols of a value (inside quotes the scanner stays inside, as every quote and backslash of
a value is escaped: `RunEscape`) and over the attributes (`ScannedAppend`). `LinesAlwaysRead`
carries it to the target, where a line counts when it arrived whole.

`SequenceFolds`. Several parts of the model are folds over sequences (merging receivers,
splitting lists, dropping empty documents, scanning a line). This module proves the
equations of `FoldLeft` and `FlattenSeq` for a longer sequence from the definitions of the
community modules, and induction over sequences with a set in the place of the property
(`SeqIsInductive`), for other modules to instantiate with the operator they fold.

Only model-checked: liveness (`NoticesGoOut`, `CyclesEnd`, `StopsAfterCancel`, `PhaseEnds`,
`NoticesGoOutUnlessExit`, `ProcessEnds`, `ChecksFinish`), which like ENABLED is out of the
prover's reach; the four violations, which are counterexamples; and that `Timely` and the
bound on shells are as weak as they can be.

## 5. Not modelled, and the plan

Not modelled: how requests are built (arguments, headers, host, TLS options, payloads) and
the syntax of timestamps and paths; the comparison of a request's credentials, the answer
of `/healthz` and the layout of pages; the wording of logs and mails; the level under which
records are dropped; globs and YAML; the SDK's credentials and the hour in an S3 prefix;
what a script writes, and what the processes it leaves behind do beyond holding its output;
build and release files. They are pure formatting, external, or without state of their own.

Further work, in this order:

1. What makes `Timely` sharp: for each of its bounds a run outside it that violates
   `ThresholdForcesTransition`, as `sparse` does for every_cycles.
2. The requests of HTTP and probe checks, as far as headers and hosts decide what answers.
3. The lower bound of `ShellsAreBounded`: an instance in which that many shells run.
