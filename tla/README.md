# A verification of psh (pipery)

`psh` runs commands and writes one JSON line per command to a log file and, if asked, to a syslog
collector. This directory holds TLA+ models of it, TLC configurations that check them on small
instances, and TLAPS proofs of what holds for every size. Line numbers below are those of
`src/internal/pipery/` unless another path is given; `PROJECT.json` maps every definition to its lines.

## The system

| Part | State it keeps | Operations | Talks to |
|---|---|---|---|
| `App.Run` and the run loops (`app.go`, `session.go`, `cmd/pipery/main.go`) | the loop's last exit code | read a line, run it, decide whether to go on, print the summary, exit | session, logger (deferred `Close`) |
| session (`session.go`) | working directory, environment, command and failure counters | five builtins, external commands | logger (`Log`), the file system |
| external command (`runExternal`, `copyInput`) | pipes, three capture buffers, the copier's result | start, wait, join the copier, log | the child, what the child leaves behind, psh's own stdin and stdout |
| capture buffer (`capped_buffer.go`) | bytes kept, bytes seen, a flag | `Write` | called by the copy goroutines |
| async logger (`logger.go`) | a bounded channel, a drop counter, a worker goroutine, a `sync.Once` | `Log`, `Close`, the worker's loop | sinks |
| redaction (`logger.go`) | the rules | mask an entry | run inside `Log` |
| file sink, syslog sink (`sinks.go`) | a file; a lazily opened connection | `Write`, `Close` | called by the worker only |
| replay (`replay.go`) | traces, a replay log | load, compare, re-run, choose a path | a fresh logger, one session per entry |
| configuration (`config.go`) | none | defaults, then YAML, environment and flags | viper |
| GitHub secrets (`github_secrets.go`) | names collected | two paginated requests | redaction rules |
| completion, resource snapshots | none | read only | terminal, operating system |

What is hard: two goroutines share the logger's channel and a timer races the end of the flush; in one
external command up to five goroutines and two processes share pipes, any of which can fail or stay
open; the syslog sink retries what may already have been sent; the loops, counters, log and exit code
must agree on every path, of which the builtins alone have ten; and a replay trusts that the log is
complete, ordered, and chained from one entry to the next.

## Modules

`LogDelivery` is the promise the rest of psh relies on: an offered entry is accepted or lost at once,
lost only behind a full queue's worth of entries, settled by every sink in order, and a successful
flush leaves none. **`AsyncLogger`** is the code that keeps it: `Log` is the select with its default
case (logger.go:119-123), `BeginClose` and `CloseReturnsWith` the two halves of the first `Close`
around its blocking select, `FlushDone` and `FlushTimeout` the two cases (both enabled when the worker
is done and the timer has fired), `CloseAgain` a call that finds the `Once` spent, and `Receive`,
`WriteSink`, `RangeEnds` and `CloseSink` the worker, one sink at a time. `Exit` and `Killed` end the
process at `os.Exit` and at any point. `settled` records for each sink what became of each entry,
`DeliversLog` states the refinement.

**`ExternalCommand`** is `runExternal` after its setup: psh's goroutine (`Start`, `Wait`, `Log`),
`copyInput` split where another actor can intervene (a read, each write into the pipe, the capture, the
close), one os/exec goroutine per output stream split the same way, the child, a background process
that inherits all its pipes or only the output ones, and whoever writes psh's stdin. The child either drains its stdin to EOF or
not (`drains`), so both orders of "who waits for whom" occur. Bytes are counted; `ReadsStdin`,
`WritesOutput`, `Forks`, `ChildExits`, `OutReads` and `OutEnds` are external and follow the documented
behaviour of pipes and of os/exec as `runExternal` uses them.

**`CappedBuffer`** is `cappedBuffer.Write` with its four paths. **`Redaction`** is what `Log` does to an entry
before it queues it: which variables are secret, the one pass that replaces their values in the captured
texts, the raw command line and the arguments, and the fields it passes over (`before_env`, `command`, the
directories, the other variables), which are queued as they came. `[MASKED]` is one character there.
**`CapturedText`** composes the two: a capture filled write by write, then redacted with the environment,
rules, command line, program and directory of any entry. `TextsIn` is every text of an entry beside its field.
`IsLeftOf` says when one text is another with some secrets masked: what the first characters can stand for, from
left to right.

**`Builtins`** is pwd, cd, export, unset and exit as functions of a parsed line and the session's state,
in a module without variables so that a model of replay can use the same functions. **`Session`** is a
run: the loop that reads lines, the session and its counters, the log entries it makes, and the
result. A line is any builtin of `Commands`, an external command with any result, a blank or the end;
`NextLine` is what each loop does after a line, `last` marking the last `-c` or a last line without a
newline. The file system may change between any two commands.

**`Psh`** composes Session and AsyncLogger (both by `INSTANCE`) into a process, from its first line to its
end. `RunLine` is a line with the `Log` call of the command it ran, while the worker writes the
file beside it; the deferred `Close` begins when the loop is over, finished or aborted; main exits after
it, and a signal ends everything at any point. The session's n-th entry is the logger's entry n, so what
the log file holds is a selection of the session's `log`.

**`Config`** is `parseArgs`: defaults, YAML, variables and flags as functions of what somebody wrote, with the
silent conversions of viper, the strict ones of the flag package, and every error. **`GithubSecrets`** reads
two lists page by page from a server on which secrets come and go. **`Startup`** composes them as
`App.Run` does, up to the choice of a mode: parse, build the sinks, ask GitHub, build the rules, start the
session; or the shorter way of a replay.

**`SyslogSink`** is `syslogSink.Write` over TCP with its dial, deadline, send, redial and resend, and
`Close`. Its mutex is not modelled: the worker is the only caller (AsyncLogger).

**`JsonlFile`** is a log file as `fileSink` leaves it and `loadReplayTrace` finds it: appended lines, a
write cut short and what is appended after it, the rules of loading. **`Replay`** is `runReplay` in
several processes that replay the same logs at once: `Load` with the comparability check, `ChoosePath`
and `OpenLog` apart, `RunEntry` for one recorded entry in a session of its own (through `Builtins`, as
in Session) started the way its mode says (`Again`: a recording of mode "direct" is an argument vector,
everything else a line to be read again), `Worker` and the two ends of `Close`, `ReadBack` with the comparison it prints. The recordings
are logs of sessions, so their entries chain. The logger inside it is LogDelivery's law: full means lost.

Where modules are not composed, one abstracts what another details: AsyncLogger's sink writes or fails,
and SyslogSink says when; Session's external command is its exit code, and ExternalCommand says which;
ExternalCommand counts the bytes offered to a capture, and CapturedText says what is kept of them. What
AsyncLogger and Replay assume of their constants (room for an entry, a sink) is what Startup shows
of every run that begins (`LoggerCanWork`).

The definitions that end in words like `OffByOne`, `TooEarly` or `Leaking`, each just before the one it
resembles, are plausible mistakes. No specification uses them. Put in place of the real definition they
make the property that guards against them fail, which shows that the property can.

## Runs

| Run | Asks | Bounds |
|---|---|---|
| `async_logger` | order, no gaps, exact drop count, bounded loss, flush means settled, sinks closed last, refinement of `LogDelivery`; `Close` returns though the sinks may block for ever; every accepted entry reaches every sink if none does | queue 2, 2 sinks, 5 entries, the second unencodable |
| `external_command` | captures are quiet when read, output complete, stdin not invented, exit code the child's; every started command is logged when psh's stdin ends | one output stream, at most 3 bytes in and 2 out, pipes and chunks of 2 |
| `captured_text` | the prefix, the truncated flag; secret variables masked after the command, secrets left only in the fields redaction passes over, and nothing but secrets replaced | limits -1, 0, 1, 3, 5; 6 bytes in chunks up to 3; 5 environments, 3 rule sets, 3 command lines, 2 programs |
| `session` | entries chain, summary agrees with log, nothing runs after an end, exit code, bad paths | 3 lines, every mode, 11 builtin lines, 3 child codes, 2 file systems |
| `syslog_sink` | sent once and in order, one connection at most | 4 messages |
| `psh` | what the log file holds and what stderr admits when the process is gone, flushed or killed | 3 lines, queue 1, 3 modes |
| `startup` | precedence of the sources, what a run may rely on, the rules have their names, discovery ends | 8 settings, one at a time over all its sources; every mix of modes and files; lists up to 4 names, pages of 2, 2 changes |
| `replay` | a comparison of whole logs is true, commands are replayed as recorded, earlier logs untouched | 2 replays (symmetric), 6 recordings of up to two commands, one that loading refuses, queue 1, one earlier log, 2 file systems |
| `captured_text_before_env`, `syslog_sink_partial`, `replay_fresh_log`, `replay_early_end` | what the README, a comment or the usage text says and the code does not do, see below | the same or smaller |

Why the bounds are enough. With five entries, two places and one in the worker's hands, the queue fills,
drains and fills again before `Close`. Two sinks are the most psh ever has. Three bytes of stdin through
a pipe of two give a chunk that does not fit, an EOF with bytes still in the pipe, and a reader that
leaves in the middle of a chunk; the output streams are symmetric and independent, so one is enough. Three
lines give a failure before, at and after any other event. Four messages give a failure, a recovery and
a second failure. Two recorded commands and a queue of one are enough for a replay to lose an entry, to
stop early and to run a command whose state depends on the one before; `MaxAttempts` is 2, so that with
an earlier log there the second replay finds no name left. In `psh` three lines and a queue of one give an
entry in the file, one in the worker's hands, one queued and one dropped. A setting depends on nothing but
what is said about it, so `startup` takes them one at a time, and two of them only where they meet (modes,
files). Four names on pages of two are two full pages, where psh must stop by the total, and two changes shift a
page under the reader and back. In `captured_text` the values of an environment contain, overlap and repeat
one another, and five bytes kept of six hold two of them; one of the two programs is such a value, and the
directory contains one. `session` is started with a `HOME` and `psh` without. `CHECK_DEADLOCK FALSE` is set in every run because every behaviour of psh ends: the
process exits, the command is logged, the sink is closed or the bound is reached. That nothing stops
short of the end is what the liveness properties ask.

Fairness. `TimedSpec` assumes only that a `Close` whose timer has fired returns. The premise of
`AcceptedIsSettled`, and of nothing else, is that the worker is not blocked for ever: file writes return,
syslog dials and sends have deadlines of two seconds. `Running` in ExternalCommand assumes that psh's goroutines run, that its
terminal takes output and that child and background process read and end; `FairSpec` adds that whoever
feeds psh's stdin closes it in the end. `DiscoveryEnds` needs only that a request is answered: the client's
timeout of ten seconds (app.go:74) turns any other into a failure, which also ends the reading. Nobody is assumed to fork, to write output or to fail.

### What the code does not do

- Secrets are not masked in the environment a command began with. `redactLogEntry` (logger.go:133) never
  touches `before_env`, which every entry carries (session.go:325, 376, 453, and each builtin), so a secret
  variable that the session had before a command is in clear in the log, while the README says that secret
  variables are masked automatically. A replay starts commands with this environment (replay.go:214), so it
  would need the values from elsewhere if they were masked. What redaction does achieve is
  `SecretsOnlyInCopiedFields`: `env` is masked, and a long enough value is left in no argument, command line
  or captured text. It can be left in `command`, in the directories and in variables whose names are not
  secret, and a value of fewer than four characters anywhere.
- A syslog connection whose second send failed is kept, with part of a message on it (sinks.go:116).
- A replay given a log file that exists, or racing another one for a name, appends to it and compares
  entries it did not write (replay.go:188, sinks.go:24).
- A replay whose log ends early is reported as "outputs match across all compared runs" when what it has
  matches: the line that says so is thrown away (replay.go:317, 360).

Met on the way and not made into runs:

- A command that has finished is not logged while psh's stdin stays open without data: `runExternal` waits
  for a copier that is in a read (session.go:357). Its comment means it to wait, and the wait has no other
  end: `psh -- true` stays under a parent that keeps a pipe open. `CommandIsLogged` therefore assumes, in
  `FairSpec`, that psh's stdin ends.
- `exit 256` is recorded as a failure and leaves psh with process status 0, because the system keeps
  eight bits of it (`cmd/pipery/main.go:29-32`).
- When psh's own stdout fails, the command is logged with code 1 and the reason is dropped (session.go:348).
- Plain `cd` follows the `HOME` psh was started with, not the session's (session.go:542), and without one it
  stays where it is and reports success; `~` is then a name like any other (session.go:880-890).
- A command that stops reading in the middle of a chunk has read bytes that its entry's stdin leaves out
  (session.go:782).
- A session with an empty environment writes a log that loading refuses (replay.go:116), and so does
  `psh -- ""`, whose entry has an empty command (replay.go:106); a shell set to the empty text does the same
  to every line, which the model leaves out.
- A blank last `-c` sets the exit code to 0 (app.go:157) while the other loops ignore blanks, which
  `ExitCodeOfLastCommand` leaves open by excepting that mode.
- A number, duration or truth value that does not read as one is refused on the command line, and is zero
  or false without a word in YAML or a variable; a duration without a unit counts nanoseconds there
  (config.go:224-229). YAML's `true` is the number 1 and any of its numbers but 0 is true, while of texts only
  `1` is; and a list in a variable is split at blanks, in a flag at commas only (config.go:301, 318). `Cast`,
  `FlagValue` and `FlagTakes` model this.
- The README says the default log is `./psh.jsonl`; it is `pipery.jsonl` (config.go:164).
- A secret deleted at GitHub while psh reads moves the later pages forward, and a name may be missed
  (github_secrets.go:105); `RulesNameTheSecrets` promises every name only without a deletion.
- Redaction looks for the values of the environment the command left, so not for one it has just unset
  (logger.go:117), and where two values overlap in a text the first is masked and the rest of the second stays
  (logger.go:183). `SecretsOnlyInCopiedFields` is about whole values.
- The rules of a replay's log leave out the names GitHub tells (replay.go:191), and its count of dropped entries
  goes to `io.Discard`.
- A replay's log says mode "replay" also of what was a direct command, so a replay of a replay's log runs it
  as a line (replay.go:237). `ReplayedAsRecorded` excepts that mode, and one recording of the run has it.

## Proofs

`AsyncLoggerProofs` proves, for every queue size, number of sinks, number of entries and set of
unencodable entries, every invariant of the `async_logger` run and the refinement. The inductive invariant
`IInv` adds to the type invariant what ties the worker's position to the histories: while `run` is at a
sink, the sinks before it have settled one entry more than it and the ones after it, and the entry it
holds is the accepted entry at that place; the channel's content is exactly the accepted entries after
it; the sinks already closed are those before the cursor of `closeSinks`; and drops plus acceptances
are the calls so far. Without the middle two, order is not inductive: a stale `current` or a gap between
queue and worker would break it one step later. One lemma per action (or pair of like actions) preserves
it; the properties and the step-by-step refinement follow from it.

`CapturedTextProofs` proves, for every limit, alphabet and chunking, the type invariant and the two
properties of the buffer that the `captured_text` run checks. What to store depends on the length of the buffer and what was lost on the length of the
stream, so the three facts and the byte count are inductive only together. The entry made of the buffer
disturbs none of it (`StillACappedBuffer`). The rest is about redaction, for any rules, environment and
command line. `Replacing` is a recursive function, so it is first shown to have a value (`Iterated`) whose
every step skips, copies or masks one character (`ReplacingRuns`). `ReplaceScrubs`: each character of the
result that is no mask comes from a place in the text where no secret begins, and neighbours come from neighbours
(`Traced`, preserved by each step), so a secret that were left would begin where none begins. `ScrubbedOutsideCopies` adds the masked variables
(`RedactEnvMasks`) and that every other text of a queued entry is in a field redaction passes over
(`TextsAreCopiedOrPaired`).
`ReplaceAccounts`: what the first characters of the result can stand for includes what was looked at and
covered to get them, and at the end that is the whole text. Normalising rules twice changes nothing
because upper case is its own upper case.

`SessionProofs` is about any commands, exit codes, file systems, modes and number of lines. That the summary
matches the log is not inductive: the counters and the entries are written apart, so the invariant says
that the counters are the log's *until a command is counted and not logged, which aborts the run* (a
failing `StdinPipe`), and that a loop other than `-c`'s remembers the last command's code while it runs.
One lemma covers every line that leaves an entry, another every step that leaves the log alone, and
`BuiltinFacts` says what those two need of a builtin (a code, a demand to stop exactly from exit, a new
state only on success).

`ExternalCommandProofs` is about any output streams and any sizes of pipes, chunks, input and output. Its
invariant is an account of bytes: what a process wrote is in the pipe, in the goroutine's hands, or shown and
captured; what was read from psh's stdin is about to be written, in the child's pipe or consumed, and
the captured bytes are among the last two. The other half says who has ended by the time psh's goroutine
reaches each step; together they give what an entry says.

`SyslogSinkProofs` is about any number of messages. `SentOnceInOrder` is inductive once a send is known to go to
the latest connection (`CarryPlaces`: a new frame comes after all that are there), and the bound on
connections once dials are counted by attempts.

`StartupProofs` proves `RulesNameTheSecrets` for any command line, files and variables, lists of any
length, any page size and any additions and deletions while psh reads. While nothing is deleted, every
name that was listed at the start is collected or still ahead of the reader, since an addition moves names
forward and never behind it; and when psh stops because it has as many names as the total, a cardinality
argument (`AsManyAreAll`) says that these are all. Its second invariant, `Settled`, keeps what was parsed as
what `ParseArgs` makes of the input until a mode is reached, together with the sinks and the early
returns passed on the way; from it follow `LoggerCanWork` and `PrecedenceHolds`, for any number of arguments.

`ReplayProofs` is about any number of replays at once, any recordings, queue and number of candidates for
a path. `EarlierLogsKept`: the file of a replay that names its own was not there, because the numbers it
chooses from are free (`LeastFree`), and only a replay with such a file has entries to write.
`TypeOK` needs to know that every file is lines of entries and what a replay has by each step (`Shape`).
`ReplayedAsRecorded` needs that the recording never changes and that each of its entries says what its command
does from the state it began in, while the file system is as it was (`Recording`). `ReportIsTrue` is the hardest:
its invariant follows every line of a file back to its author (`Authored`), and keeps the lines a replay
wrote, in its file or in its logger, in the order of what it ran (`Tracked`). Then as many own lines as commands can only be all
of them, each at its place (`Rising`, `WholeLog`), and what the comparison compares is what ran.

`PshProofs` composes. A process that forgets its session is a run of AsyncLogger, and one that forgets its
logger is a run of Session, so both invariants hold in it; what the two share is that the session's
n-th entry is the logger's entry n, and that while nothing is dropped the i-th accepted entry is entry i.
From these follow both properties of the `psh` run, for any queue and any number of lines.

Assumptions are the named ones on the constants: a queue of at least one (parseArgs refuses others),
at least one sink (buildSinks refuses none), exit codes a child can have, commands that are builtins,
recordings that a session can have left (`RecordingsAssumption`: only a program started directly has a mode
of its own, and only such a program can have words that read as a builtin), an upper case that is its own upper case
(`UpperCaseAssumption`), and the types of the bounds. TLC evaluates each of them.

Every invariant and safety action property that a run checks is a theorem. Induction over data is done without the
library's induction theorems: a recursive function has a value because one can be built step by step,
and a fact about all its steps holds because there is no least step where it fails (`LeastOf`,
`CountingUp`), which `WellFoundedInduction` gives for sets of numbers.

Only model-checked: all liveness (`CloseReturns`, `AcceptedIsSettled`, `CommandIsLogged`, `DiscoveryEnds`),
which TLAPS does not reach, and the four violations.

## Not modelled

Formatting, wording and layout; the JSON encoding beyond "some entry may be refused"; quoting and
trimming of a command line; what YAML and viper do before a value is read; URLs, headers and status texts of
the requests. Resource snapshots, the schema and the container image decide nothing. Completion reads the
session and the file system and changes neither.
Replay leaves out timings and the chart, the redaction of its entries, the stderr of a command (it
follows its exit code), and lines longer than the 8 MiB its scanner takes (replay.go:35).
A `^C` at the prompt is answered without touching any modelled state. What the network does with bytes
the kernel has accepted, and Windows, are left out.

## Plan

1. Done: `LogDelivery`, `AsyncLogger`, `CappedBuffer` with their proofs; `ExternalCommand`, `Builtins`,
   `Session`, `SyslogSink`, `JsonlFile`, `Replay`; `Redaction` and `CapturedText`; `Psh`; `Config`,
   `GithubSecrets` and `Startup`.
2. Done: proofs of everything the runs check except what "Only model-checked" lists.
3. An abstract specification of replay (replaying an undisturbed log reproduces its sequence of states)
   that Replay implements; redacted entries, and lines longer than the scanner takes.
4. Completion, as a pure function, if at all.
