# Verification of web-agent-research

`web-agent-research` answers one research goal: an agent loop asks a language
model, runs the `search` and `fetch` calls it asks for, and returns a
Synthesis.  This directory holds TLA+ models of its core, the TLC runs that
check them and the theorems TLAPS proves about them.  Paths below are relative
to the repository; Rust paths are under `src/`.

## The system

One process runs one Session. `run.rs` validates the request, opens the event
sink and the Session log, and calls the agent loop; the loop calls the gateway
client and the tool registry; the registry calls the searcher and the fetcher,
over a tape if the run is recorded or replayed; the searcher fans a call out
over engines, each leg governed by the governor and cached; what the legs return
is merged into hits. Parallel processes on one machine meet only in files:
`engines.json` and the search cache under the cache root, and the Session logs
in the data directory.

| Component | State | Operations | What is hard | What makes it correct |
|---|---|---|---|---|
| Engine governor (`web/search/governor`) | a view of each engine in memory; `engines.json`; a semaphore per engine | `ensure_loaded`, `refresh`, `suspended_remaining`, `over_budget`, `acquire`, `pace`, `record_success`, `record_failure` | legs and processes interleave; read, sleep, write; lost writes; two clocks of different precision | a suspension another process recorded is kept, bounded and honoured; the shared clocks only advance; starts are paced; the budget is bounded |
| Search fan-out (`web/search/fanout`) | a task and an atomic state per leg; the joining loop | spawn, gate, start, retry, settle, join, cancel, abort | cancellation against start; two deadlines; panics; siblings settling in any order | a cancelled leg sends nothing, a sent one is awaited; the answer is kept; a bot wall is reported as one; the call returns |
| Engines and page parsers (`ddg.rs`, `yahoo.rs`, `startpage.rs`, `brave.rs`, `bing.rs`, `cratesio.rs`, `markup.rs`, `decode.rs`, `dispatch.rs`) | per leg: page, form, cookies, rows so far | request, continue, follow a redirect, judge a page, keep rows | pagination that repeats, hops, a wall under any status, an error after rows came | an answer is what its pages said; a wall or unknown markup is never an empty answer |
| Result merge (`dedup.rs`, `coverage.rs`, `fanout/report.rs`) | none | group, fuse ranks, report | repeats within a leg, ties | agreement of legs decides, whatever their order; every outcome is reported |
| Search cache (`web/search/cache.rs`, `web/cache_dir.rs`) | one file per entry, temp files | look up, store, evict | unlocked processes, each working from what it read earlier; kills; a clock that steps back | no torn entry is served; the size is bounded; the oldest goes first; no litter |
| Fetcher (`web/fetch/{fetcher,obscura,error,tool,evidence}.rs`) | per call: where it waits, hops | static request, redirects, handover to the browser | three nested timeouts | a cut call waited for something without a timeout of its own |
| Egress policy (`web/fetch/egress.rs`) | none | judge a URL, a redirect, an address | four places to ask it | no private address is reached |
| crates.io API gate (`web/crates_io.rs`, `fetch/cratesio.rs`) | the next free instant | wait, send; route a Query; rewrite a page | callers that are cut, legs and fetches at once | one request per gap |
| Page extraction (`fetch/{extract,clean,interstitial}.rs`) | none | choose main content or page, clean | a thread whose answers, code or tables lie outside the main content | the choice loses nothing |
| Gateway retry (`llm/client.rs`) | attempt, timeouts, time left | attempt, cut, classify, back off | timeouts and backoffs against the run deadline | ends by the deadline; the error class is right |
| Gateway streams (`llm/stream.rs`, `llm/stream/`) | line and event buffers, partial reply | frame, assemble, fail, start over | a stream cut anywhere, interleaved calls, no indices, no ids | the reply one body would have given; fragments of one attempt |
| Gateway wire formats (`llm/{request,response,reply,anthropic}.rs`) | none | map messages, parse a body | two formats for one history | calls are answered once and in order; thinking is echoed |
| Context assembly (`agent_loop/context.rs`) | none | fit history into a budget | boundary arithmetic | the newest Turn stays; pairing stays |
| Agent loop (`agent_loop/{runner,dispatch,types,result}.rs`) | Turn, budget, repairs, evidence flags | start a Turn, ask, dispatch calls, settle | the budget grows while the run is judged against it; three clocks; many exits | ends by the deadline; the reserve is kept from tools; the note to the model is true |
| Tool registry (`agent_loop/registry.rs`) | the pages of a run, by key | search, fetch, parts | aliases of one page, redirects, cuts | one delivery per page and run |
| Tape (`agent_loop/tape.rs`) | `pages.jsonl`, the fixture | record, replay, replay through | failures and successes of one URL, redirects | a replay reads what was recorded |
| Answer and verification (`answer.rs`, `verify.rs`, `synthesis.rs`) | none | parse, retain, verify | several links and a quote in one point | only fetched pages are cited, each graded by itself |
| Session run (`research/run.rs`) | the result | validate, race with ctrl-c, map errors to exits | a late interrupt; a log that fails mid-run | one exit, one `session.finished` |
| Session log (`research/session.rs`, `data_dir.rs`) | a file, the rows written | open, append, finish, prune | another process pruning; a failed write | the log agrees with the stream and the exit; only default logs are pruned, and whole |
| Events and progress (`research/events*`, `trace.rs`) | sink state, view state, the last traced request | emit, render, trace | order of Events, retries that discard fragments, deltas | fragments of one attempt only, `session.finished` last, a trace that can be read back |
| Search tool, configuration, prompt, DTOs, profiles, command line | none | parse, format | | |

The hazards, each at its line and with the properties about it, are listed in
`PROJECT.json`.

## Modules

Operators whose names start with `Mut` are plausible bugs of the definition
below them; replacing the one by the other makes a property fail, which shows
that the property speaks about that code. The `MC` modules give the constants
their values.

### Search

`Governor` models a cache root with any number of processes, each with any
number of legs. A leg is a program counter through `settle` and
`EnginePermit::pace`; each action ends where the code awaits or drops a lock,
so `pace` is six actions (`Refresh`, `CheckSuspended`, `CheckBudget`,
`ReadLast`, the sleep, `Reserve`). `sync` is `Merged` (read the file, convert,
`MergeView` every engine) followed by `Publish` (adopt the mutated views, write
them back), in one step, because it runs under `engines.lock`. Times are
counted in units of which `Res` make a persisted millisecond, and `ToDisk`
truncates as `mono_to_wall` does; the wall and monotonic bases of a process are
taken to be aligned to a millisecond. `None` is -1, since Rust orders
`Option::None` first. `Abort` is the fan-out dropping a leg at an await,
`Restart` a process killed at any point. Three histories are added for the
properties: `starts` (the last starts of a process at an engine), `since` (when
the file got the suspension it holds), and `refreshed` in a leg (when it last read
the file). Left out: the suspension's
reason string, the hermetic governor of the tests, engine ids this build does
not know, and running without the lock when the lock file cannot be created.

`Fanout` models one `search_multi_with_bases` call: `leg` is each task,
`state` its QUEUED/STARTED/CANCELLED atomic, `aborted` the abort handles used,
`main` the joining loop, `slot` what `by_leg` holds, `wall` the reason of each
engine's suspension as the governor would report it. `cancel_queued` walks the
legs one at a time (`Cancel`), as the compare-and-exchange of each races with
`Start`. An aborted task is dropped at its next await and not before, so a leg
may still pass `acquire` and `pace` after its abort; then `Start` refuses it.
The pacing gap and network waits take any time, a refusal for the run's budget
may come at any gate, a cache hit at any lookup. The pages of one engine
request are one wait. `Elsewhere` is another process suspending or clearing an
engine. The rows and the status lines are in `Engines`. Assumed: the default
configuration, in which a challenge suspends and a timeout does not.

`Engines` models the same call from the side of its pages: `leg` is what one
engine request has come to (page, hops, cookies, rows so far), `served` the
pages it got, in order, as a history. `Answered` lets the engine serve any page
of the instance; `search_engine` judges it by that engine's rules
(`map_ddg_response` and its siblings), keeps its rows and either ends the leg
or goes on: DuckDuckGo by the continuation form of the page (`ddg_page`), Yahoo
by offset (`yahoo_page`) and through the cookie hops of `Redirected`, Startpage
by the form of its home page (`Home`). A page is its status, whether it shows a
wall, whether it has the results marker, its blocks and its forms; a URL is a
page and a spelling of it. Assumed of the pages: the parsers of Brave and crates.io
look for no wall marker, so their pages have none, and links come in the forms the
parsers tell apart. `Continue` is the governor's answer to a DuckDuckGo
continuation. Yahoo may answer a search without its cookie or send it for one.
`Finish` is the end of `search_multi_with_bases`: it merges, and the call returns its
hits and reports, or, when nothing was merged and no leg answered (`AllFailed`), it
fails with what its legs failed by (`all_failed_message`) and without any report, as
`events/tools.rs:98` says. Whether such a failure is a bot wall is the `Verdict` of
`Fanout`. The detail of a failure stands for its text, which of a timeout names the
Query. The gap and the budget are in `Governor`, retry
and deadlines in `Fanout`, the cache in `SearchCache`, the API gate in `Fetch`.

`Merge` holds `merge_scored`, `rrf_score`, `factor`, `compare_scored`,
`engine_reports` and `all_failed_message` as operators; a sort is `Sorted`, since
`SortSeq` of the library is opaque to the prover, and what a filter keeps of a list are the elements
at a set of positions, in order (`At`, `Where`, `FirstBy`); `Routing` the rules by which crates.io joins a
call (`route`). Scores are exact fractions, where the code adds floats;
published dates are left out.

`SearchCache` models the directory of search entries and the legs of all
processes that use it. A leg is a program counter through `lookup`, the request
(`live`), `store`, `write_atomic` and `enforce_cap`; each file operation is an
action, and so is each walk over the directory: `Measure` (pass 1) and `Date`
(pass 2), while evictions come one at a time. An entry is its time, its length
and whether it parses. A temp file is torn from `Create` to `Fill`, and its name
is the key's stem, the process id and `TEMP_COUNTER`. `Kill` is a process
killed at any point and replaced by one with any free id, the same one
included. A miss is always possible (`SEARCH_CACHE=off`, no cache root, a read
error), and so is the failure of any write, rename or removal. Histories:
`orphans`, and `covering`, `alone`, `settled`, which say what crossed a pass.
Left out: keys with one hash, the spelling of a Query (a hit gets the caller's),
and files that are none of ours.

### Fetch

`Fetch` models the fetch calls of a process, each under the agent loop's tool
timeout, and the crates.io legs that share the API gate. `Start` is
`normalize_url` with the first egress check; a static request may be
redirected (`Redirect`, with the policy's check and cap), be refused by the
resolver, fail, time out or be answered; the answer serves a page, fails or
hands over to the browser, which is a lookup (`Spawn`, with the last egress
check) and a child with its own timeout. A crate page asks the index, waits for
its instant at the gate and asks the API, whose failure costs only detail. `Cut`
is the loop dropping the call. `waited` counts the time in waits that have no
timeout of their own, `reached` what the static client connected to.

What a static answer comes to is a constant set `Bodies`, so that the timing can
be reasoned about alone; `MCFetch` fills it with `StaticOutcome` of every
response of the instance, which `Markdown` computes: status, size and type
checks, the choice between main content and whole page (`KeepExtracted`), the
shells that go to the browser, and the cleanup line by line (fences, tables,
noise). A page is blocks beside and blocks in its main content; code shows in what
is served if it lies in a fence, be it a larger block's. `KeepExtracted` looks for a block of
the whole page line by line, where `extract.rs:116` looks for its text, which also
matches from the end of one line or up to the middle of another; the model keeps the whole page
there. The converter
from HTML and what `clean_inline` rewrites within a line are outside.

### Model calls

`Gateway` models one `chat_observed` call in time: the request on the wire, the
body of an error status and the backoff are its waits.

`Reply` says what a gateway means in one body and the reply either wire format
makes of it; `ModelCall` states what a call promises its caller: the fragments
shown belong to the attempt in flight and begin what was said in it, a new
attempt starts over, and a call that returns a reply returns all that was said
in its last attempt. `Stream` is the code under that promise: the script of
events either gateway format sends for a message, tool calls interleaved by
index or without indices and ids, lines cut into chunks at any byte, `sse.rs`
putting them together, the two assemblers (`OpenaiFeed`, `AnthropicFeed`),
errors and garbage inside a stream, bodies that stop anywhere, attempts that
start over. `Conversation` composes `Stream` with the Turns: a reply joins the
history with the results of its calls (`ToolTurn`, `TextTurn`), `Dropped` is
`truncate_history`, `assemble` and `Wire` make the next request in the
gateway's format, and `trace_model` records it. The arguments of a call are a text, of which
`Objects` are those that are a JSON object: `tool_input` makes any other an empty
object for the Messages API, such as those of a streamed call that `max_tokens` cut,
whose raw text `stream/anthropic.rs` keeps; a Chat Completions request sends the text
as it is. Each of its model calls implements
`ModelCall` (`KeepsItsPromise`, by `INSTANCE ModelCall` with the identity on
`said`, `shown` and `outcome`).

What the gateways are assumed to do is `GatewayAssumption`: ids in a reply that are
not empty are distinct, and never of the form the client makes up; a gateway
that leaves out indices neither repeats nor leaves out ids; an OpenAI message has
its reasoning in the order of the client's three fields; a reply of the Messages API has
output, and no signature on a text or a call. A text is a sequence of fragments, in
which the newline the client puts between thoughts and the `{}` it puts for no
arguments do not occur. What a list keeps of another are the elements at a set of
places, in order (`Selected`). Turns after `StreamedTurns` come in one body. Left out: cache breakpoints, effort and
output limits, rows of tool results in the trace, and the time of a call, which is
in `Gateway`.

### The run

`AgentLoop` extends `Gateway` with the Turns around it. Only waits take time:
those of `Gateway`, and a running tool. Each has a timer, `Tick` cannot pass
it, and code between two waits takes none; a reply may come in the instant its
timer fires. The model's reply is a choice (answer, unusable text, tool calls),
and so is each tool's result. `won`, `lost` are `had_success` and `failure`;
`told` is the number of turns left in the last note to the model. Histories:
`replied` (when the last reply came) and `good` (the last Turn with a success).
The checks `run_session` makes before the loop are the assumptions on the
constants; the refusals themselves (exit 2) and a failing Session log (exit 6)
are in `Session`. What the messages say is in `Conversation`, what the pages say
in `Evidence`. Left out: `failures_used`, and calls past the per-turn cap, which
only get a message.

`Evidence` models the fetches of several runs that share a tape. `fetched`
names the page of each key, `store` the pages, `evidence` the results; a call
finds its page known (`FetchKnown`), replays it, or goes live and records it
(`Replayed`, `Live`), is stored once under the URL asked for and the one it was
redirected to (`Store`), and delivers the part asked for (`Deliver`). The web
may serve another page each time and redirect elsewhere. `PageParts` cuts a page
at line ends. A run may end at any call; its tape stays. The reply a run ends
with is parsed, stripped of what was not fetched and verified (`Answer`:
`ParseAnswer`, `RetainFetched`, `VerifySynthesis`). A line is its kind, links,
quote and facts; themes and points are known by the line they start at, and
citations are a set of URLs. How text is recognised as such, the order of citations,
and the searches of the tape are left out.

`Session` models the processes of one machine, each running one Session:
`run.rs` around the loop, the Events and rows the loop emits, the two outputs
they go to, and the retention of the data directory. Code that runs without
waiting queues its rows in `todo`; `Emit` numbers the first Event and writes it
to the stream, `Log` appends it to the log, so another process, a failing disk
or a kill can come between any two writes. A kill needs no action: there is no
fairness, and a Session may stop at any step. Rows are a kind, a Turn, a number,
an attempt and what they say of the result. `Stored` has one kind
`call.started` for `search.started` and `fetch.started`, and the same for
`finished`. `streamOn` is `ndjson.is_some()`, `logOn` is the sink's `path`,
`failure` its `failure`; `faulty` says which outputs may fail, at any row.
`recent` is the directory by modification time, `scan` and `total` what
`prune_sessions` read of it before it removes anything; a log that was removed
is created again by its Session's next row, as `append_row` does. When the loop
ends, and with which error, is not repeated from `AgentLoop`: any exit may
follow where the code can take it. Exits 3 and 8, and 4, 5 and 9, are classes,
told apart by whether the Turn they end on is complete. Left out: a row is
written whole or not at all, modification times are distinct, the progress
view, the contents of trace rows (`Conversation` has those of the model), two
Sessions with one `--session-id`, and a `--session-out` inside the data
directory.

## Runs

| Run | Instance | Shows |
|---|---|---|
| `governor_shared` | 2 processes, 1 leg each, 1 engine with pagination and one permit, 2 units per millisecond, writes may be lost, the file may start with a far-future suspension, clock up to 3 | `SuspensionBounded`, `SuspensionKept`, `ClockNeverRewinds`, `DispatchHonoursSuspension` |
| `governor_concurrency` | 1 process, 3 legs, 2 permits, request cap 2, gap 2 to 3 | `BudgetBound` and `GapWindow`: how far racing legs pass the cap and the gap, and no farther |
| `fanout_call` | 2 Queries, a web engine and the vertical, 2 permits, cache hits, recency | `CancelledUnsent`, `NoneLeftQueued`, `CancelKeepsAnswer`, `BlockedMeansWalled` |
| `fanout_live` | 2 Queries, 1 engine with one permit, other processes at work | `CallEnds`: the call returns and every task ends |
| `search_rows` | 5 calls of 1 to 3 legs over all six engines, 4 to 6 pages per engine, up to 3 pages and 4 hops a leg | `AnswerIsThePages`, `WallsAreReported`, `CookiePaidOnce`, `AgreementDecides` |
| `cache_shared` | 2 legs in 1 or 2 processes, 2 keys of different lifetimes, lengths at and above the cap, entries found readable, corrupt or absent, 2 stores, 1 kill, clock 0 to 2 in either direction | `PublishedWhole`, `CapKept`, `EvictsOldest` |
| `fetch_calls` | 2 fetch calls and 1 leg, static timeout 1, browser 2, tool call 4, gap 1, 2 redirects, clock up to 5; every page of up to 2 blocks beside and 2 in the main content | `CutOnlyAfterWaiting`, `GateRate`, `PublicOnlyReached`, `NothingLost` |
| `conversation` | 4 Turns, 2 of them streamed, 2 attempts, either format, 5 and 4 messages with text, thinking, interleaved calls, a call cut by `max_tokens`, refusals and none; room for two or three Turns | `KeepsItsPromise`, `CallsAnswered`, `TurnEchoed`, `TranscriptGrows`, `TraceRetells` |
| `loop_run` | run of 8 units with a reserve of 2, attempts of 3 units, delays 0 or 2, 2 to 4 Turns, 1 repair, 2 calls a Turn | `EndsByDeadline`, `NoteHonoured`, `RunEnds` |
| `run_evidence` | 3 runs in any of 4 modes, 4 fetches among them, 4 URLs of 3 pages with a redirect that moves, 2 parts, 8 replies | `CitedPageKeptOnce`, `QuoteIsOnItsPage`, `PartsAreThePage`, `RecordedIsReplayed` |
| `session_run` | 1 Session of up to 2 Turns, 2 attempts, 1 fragment and 1 call each; an explicit log that may fail beside a stream with fragments, or a default log with traces where both may fail | `OneStory`, `TurnsRecorded`, `ClosedByTheExit`, `ExplicitLogKept`, `FragmentsAttributed` |
| `session_shared` | a Session of 1 Turn with a default or explicit log, one of none, and an old log, on a directory with room for 4 rows | `LogsOnlyGrow` |

Why the bounds are enough. Two processes are needed to lose an update, and the
merge is pairwise: a third one adds no new pair. In `governor_shared` a leg may
send once; a second request in the same process meets the cap, and
`governor_concurrency` has the runs of several requests. Three legs and two
permits give a leg that overtakes a sibling and one that queues. The clock is
long enough for a suspension of 1 and of 2 (the clamp of 3) to expire. Two legs per
engine give a leg on the wire and one queued behind it when a deadline strikes, and two
engines one whose legs differ by Query.
In `search_rows` three rows are the cap of a leg, so a leg is full, one short of
full and empty; DuckDuckGo has the page after a repeat, Yahoo a short page, a
full one and the last one, and four hops pay for the cookie and run out; the legs of a call
all fail, by the same and by different errors, or some of them answer; the calls
pair each engine with one that votes against it, repeat a Query, and share one
between a web engine and the vertical. Scores are compared over every hit of a call.
In `cache_shared` two stores let two writers share a key, let one be killed and
its id and number used again, and let a rename cross a pass; an entry longer
than the cap makes a pass evict twice.
In `fetch_calls` the timeouts keep the order of the defaults (10, 30 and 45
seconds); a clock of 5 passes the tool timeout of a call that starts late; two
blocks on a side make the main content shorter, longer, richer or poorer than
the share and the line minimum ask, and one of them is code that itself holds a fence; three callers make the gate hand out
an instant ahead of one that was cut.
In `conversation` an interleaving needs two calls with two fragments each; two attempts
put a cut on either side of a fragment; a call without the end of its arguments joins the
history and is echoed in later requests; four Turns are dropped from once and
again. The size of a result is 1 or 4, so a Turn fits exactly, or is
alone too big.
In `run_evidence` three runs record, replay and replay through what both
recorded; a page is exactly one part, or two with a cut at a line end;
four calls ask for a page by its URL, by an alias, by its redirect and again.
In `loop_run` two attempts and a backoff fill the run, a tool can start before
and after the cutoff, the budget grows twice, and the repairs can run out on and
before the final Turn.
In `session_run` the second Turn is needed for rows of an earlier Turn and for
truncation, the second attempt for a fragment on either side of a retry; every
row is a chance for either output to fail, so more Turns add only repetition.
In `session_shared` one log is a header, one a short Session and one longer
than the cap, so the old log, a live one and a finished one can each be the
oldest, and two prunings overlap.

`governor_*` and `cache_shared` check for deadlock; calls, conversations, runs
and Sessions end, so the others do not. Symmetry is used over processes or
legs in the `governor` runs, over legs, processes and process ids in
`cache_shared`, over calls in `fetch_calls`, and in none that checks liveness.

## Fairness

`Fanout` assumes weak fairness of the joining loop, of time, and of what a
task does without waiting for anybody (tokio polls woken tasks and fires
timers). No engine has to answer and no permit has to come. `AgentLoop` assumes the same of the
Session's own code, its timers and time; neither gateway nor tools have to
answer. So `CallEnds` and `RunEnds` rest on the deadlines alone. The other
modules state no fairness: what they say must hold of a process that stops
anywhere.

## Proofs

For all values of the constants that meet the named assumptions. Two modules
hold the theorems of more than one component: `WebProofs` those of `SearchCache`, `Fetch`
and `Markdown`, `AgentLoopProofs` those of `AgentLoop` and `Evidence`. `StreamProofs` has the
lemmas about `Reply` and `Stream` that `TalkProofs`, on `Conversation`, rests on; each other module
`XProofs` is about `X`.

An induction is over a set of numbers, by its least element outside
(`NatLessThanWellFounded`), as the induction schemes of the library take an operator.

* **Governor.** `TypeCorrect`. `SuspensionStaysBounded`: no view ever holds a
  suspension beyond `now + MaxSuspension`; inductive with the types, since the
  cap only moves forward and every way into a view is clamped. `BudgetHolds`:
  at most `RequestCap + Concurrency - 1` requests per engine and process.
  It is not inductive alone: `BudgetInv` adds that permits are not exceeded and
  that the legs between the check and the reservation are counted in advance.
  Each action changes the set of permit holders by at most one element.
  The action properties rest on one fact about `sync` (`MergedProperties`,
  `StepSyncs`): what is published of an engine is the merge of file and view, mutated
  in at most one of three ways. `ClocksOnlyAdvance` is that fact and the rounding of
  `ToDisk`. `SuspensionsAreKept` and `DispatchesHonourSuspensions` add `ClockInv`:
  no recorded time lies ahead, and a suspension is not younger than its place in the
  file. The latter is an invariant of legs, `HonourInv`: from its refresh to its start,
  while the suspension it met still runs and is still there, either its process
  knows of a later success or the leg has yet to look at the view that holds
  the suspension. `GapsAreKept` via `StartsInv`: for each start, those made within a gap
  of it and those that sleep towards such a start hold a permit each.
  `SuspensionsAreKept` supposes `MaxSuspension >= Res`: suspensions are configured in
  whole seconds (`governor/config.rs:191`) and the file counts milliseconds.
* **Fanout.** `TypeCorrect`. `CancelledNeverSends` via `SendInv`: a leg with a
  request on the wire is STARTED, and a running call aborts only CANCELLED legs.
  `WaitsOnlyForTheWire` via `QueueInv`: while `cancel_queued` is under way
  every leg it has not reached is in `todo`. `AnswerIsKept` via `AnswerInv`: the
  loop's success flag is that of a joined leg, and only a success cancels.
  `BlockedIsWalled` via `WallInv`: an engine some leg found walled stays walled
  unless another of its legs answered or failed with a status, which the verdict
  would show; and an engine suspended for another reason lets no leg reach a
  wall. With this every safety property of `fanout_call` is proved.
* **Fetch.** `TypeCorrect`. `TimeoutsFit` via `TimeInv`: a call past its
  static request began its last wait within the static timeout and its untimed
  waits of its start, and no timer is overdue. `OnlyPublic` via `HostInv`: under the policy no
  request is addressed to a private literal. `GateSpaced` via `GateInv`: every
  instant given is at least a gap before the next free one.
  `NothingIsLost` supposes that each answer in `Bodies` is the `StaticOutcome` of a
  response whose page is well formed: only code opens a fence, and no code begins
  with an empty line (`MCFetch` assumes it of its pages, so TLC checks it). Its lemmas
  are about `Markdown`, for pages of any number of blocks of any length, each by
  induction over the lines: the cleanup passes every fence and every line inside one
  (`FencesStay`), and every row (`BarsStay`); the conversion of blocks
  closes each fence it opens, so a block's region is one of the collected
  (`ConvertedSound`); and a region found among the lines of the main content, as
  `keep_extracted` finds it, lies in one fence of it (`FoundIsFenced`). `PageComplete` puts
  them together, for either choice of `main_content_markdown`.
* **AgentLoop.** `TypeCorrect`; `RunsInTime` (`TimeInv`: each timer that is
  armed lies before the deadline); `ReserveIsLeft` (`ReserveInv`: a tool's cut
  lies before the cutoff, or is immediate); `TurnsAreBounded` (`BudgetInv`,
  with the lemma that the turn budget grows with the searches);
  `RepairsAreCounted`; `NotesAreHonoured` (`NoteInv`: what was told is what
  remains, unless the reserve has begun).
* **Session.** `TypeCorrect`; its `TypeOK` leaves out `total`, a sum a
  recursive function computes, and no theorem needs its value. `LogsGrow` via
  `DirInv`: the directory, and what any pruning Session once read of it, names
  default logs only, so an eviction from a stale listing cannot hit an explicit
  log. `ExplicitKept` via `KeepInv`: unless the log has failed, the header is
  queued or written before the loop, and a Session that means to exit 0 has its
  Synthesis in the log or in the queue until `Finish` has looked at `failure`.
  What the rows say is one invariant, `RowsInv`, whose parts lean on each other:
  what may be queued where (`QueueOf`), fragments and retries of this attempt or
  earlier ones (`FragmentsOf`, `AttributedOf`), the exit's row last (`ClosedOf`),
  one row for each Turn that was left, written or queued (`TurnsOf`), and how the
  two outputs relate to `seq` and to each other when both, one or none is still on,
  and between the two writes of one Event (`StoryOf`, `SetsOf`, `NumbersOf`).
  `FragmentsAreAttributed`, `OutputsAreClosed`, `TurnsAreRecorded` and `OneStoryIsTold`
  follow from it.
* **SearchCache.** `EntriesPublishedWhole` and `OnlyKillsLitter` via `TempInv`:
  each live writer's temp name holds the id of its process and a number below
  that process's counter, so no two of them share a name although ids are used
  again, and what a writer finds under its name is what it wrote. `CapIsKept` and
  `OldestGoFirst` via `CapInv`: a pass never counts less than the entries it has
  still to visit, a covering pass has still to visit every entry there is, and a
  pass nothing has crossed knows the directory as it is. The bytes of a directory are
  the cardinality of a set of (key, unit) pairs, so that no sum has to be unfolded.
* **Engines.** `CookieIsPaidOnce` via `CookieInv`: a leg without its cookie has
  paid nothing, or waits at the beacon with the first half paid, and every hop is a
  payment or a detour.
  `WallsAreAlwaysReported` via `WallInv`: a leg that met a wall is over, with the
  challenge, and a leg without rows goes on or answers only after a results
  page. Then the report of an engine is computed for any number of its legs, and so is
  the failure of the call: legs that all failed have no rows, so nothing is merged and the
  call fails, a leg that answered makes it succeed, and the message of a failure names
  each engine once with every detail of its legs (`FailuresAreTold`).
  `AnswersAreThePages` via `AnswerInv`: a leg that goes on has read pages without
  fault only, and holds every link they show, each once, in order, and fewer than
  `MaxRows`. "Each once, in order" (`Firsts`) determines the list, and is closed under
  appending what is new on one more page, which is all that pagination has to show.
  What a list of pages shows together is a `FlattenSeq`, about which an
  induction over the set of its prefixes proves the one equation that is needed.
* **Model calls.** `PromiseKept`: `Conversation` implements `ModelCall`, each step a
  step or a stutter of it. It rests on `CallInv` (`CallCorrect`), which says of an attempt
  in flight that what the parser has taken are the events of the message so far,
  in an order its style allows (`Fed`), that the assembler holds what those events
  add up to, and that the caller was shown just that. Sums over events in any allowed order are
  the heart of `StreamProofs`: a call's fragments are a prefix of its arguments
  however those of other calls came between (`CallIndex` finds the call again, by index,
  by id or as the last one), the text and each kind of thought a prefix of the message's, and
  once every event has come, finishing gives what `parse_reply` and `parse_response` give
  of one body. A body that is cut, an error inside it or garbage leaves a prefix.
  `CallsPaired` via `TalkInv` (`TalkCorrect`) and `PairInv`: `TalkInv` says that the
  history holds whole entries, a Turn's calls with distinct ids and a result for each in order,
  and that the request is made of it; every run of answers in the messages of a
  request is then that of one entry. The proof is by induction over the entries, for both
  formats. `TurnsEchoed` via `EchoInv`: for every number of dropped Turns, the messages
  that ask are those of the Turns kept, each with the blocks said in its Turn, the
  arguments of its calls as `tool_input` makes them.
  `TranscriptGrown`: `truncate_history` drops the least number of Turns that fits, and more history
  does not fit sooner. `TraceTold` via `TraceInv`: what the rows since the last full one
  add up to is the request retained.
* **Evidence.** `RecordingsAreReplayed` via `TapeInv`: the choice a replay makes
  among the rows of a URL is a page if one of them is. `CitationsAreKeptOnce`
  via `MemoryInv`, whose part `Sound` says that a key names the stored page whose source
  it is, and that exactly the delivered pages have a first result, each one.
  `QuotesAreOnTheirPages`: the best support of a citation is one of the points', and its quote
  was found on that page. `PartsAreWhole` is by induction over the cuts of a page.

The proofs found three properties wrong that the small instances did not refute, and
one that needs a hypothesis.
`DispatchHonoursSuspension` held only with one leg in each process; it now says which
suspension it means, by `since` and `refreshed`. `NothingLost` asked every fence of a page to open a block,
which code that holds a fence refutes, as it is a line of the larger block around
it. `AnswerIsThePages` counted what a page shows beyond `MaxRows` rows, where Yahoo cuts each
page before it drops repeats; it now says what each page shows up to that cut (`Shown`).
`NothingLost` needs that code does not begin with an empty line. Were there code outside the
main content that begins and ends with one, `keep_extracted` would find it between two
code blocks of the main content, from the closing fence of the first to the opening fence
of the second, although it lies in none. `NothingLost` also read a row in an answer
as cleaned, where `clean_markdown` leaves it as it is (`Read`).

Model-checked only:

* `CallEnds` and `RunEnds`: liveness, which TLAPS 1.4.5 does not reach;
* `AgreementDecides`: a sum of fractions over a set of votes, by a fold, and a sort
  (`Sorted`) of the hits by it. The theorems of the library about either take an
  operator as a parameter, which no installed prover instantiates.

## Where code and documents differ

Met while modelling, none of them a run of its own:

* **Suspensions.** `docs/harness.md:176` says that a suspended engine gets no
  requests: a leg in its pacing sleep does not look again (`permit.rs:90`).
  `permit.rs:93` says that consecutive starts are at least a gap apart, which
  two processes, or two permits, that read the same last request do not keep;
  `GapWindow` is what holds. A continuation page that a suspension refuses ends in
  a recorded success, which clears that suspension although the last page came
  before it (`mod.rs`: "a 200 proves the wall came down"). The merge keeps a
  suspension recorded at the very time of a success, which the comment in
  `persist.rs` says is dropped. A suspension recorded after a success in the
  same millisecond is lost to truncation.
* **Exit 7.** `harness.md:176` says that every engine walled means exit 7: a
  Query past the per-call cap reports the cap instead (`leg.rs:141`).
* **The reserve.** `harness.md:301` says that the reserve produces a Synthesis
  from what was fetched: a model call begun before the reserve may use it up
  (`runner.rs:157`). `harness.md:302` says that a hung gateway exits 9 by the
  deadline: it exits 3 if it sends an error status and then hangs in the body.
  `harness.md:14` says that tool calls on the final Turn exit 5 or 9: they
  exit 4 if they spend the last repair. A final Turn whose `turn.started` names
  the budget may exit as the deadline's.
* **The log.** `harness.md:93` says that a failed write of `--session-out`
  makes the Session exit 6: it exits 0 if that row is the last one,
  `session.finished`, written after the failure was looked at (`run.rs:233`).
  `harness.md:95` says that the Session just written is never evicted, which is
  so of its own pruning and not of another Session's. A log that was pruned
  while its Session ran starts again without its header.
* **Engines.** The comments of `yahoo.rs:58`, `bing.rs:72` and `brave.rs` say
  that a page without rows and without a marker is an empty answer;
  `rows_or_drift` makes it "unrecognized markup". Only DuckDuckGo's
  continuations are paced: Yahoo's and Startpage's second request are not. An
  error on a later page discards the rows of the earlier ones, while a refusal
  by the governor keeps them. Yahoo's spent hops count as a transport failure,
  so they are retried once and never suspend. DuckDuckGo's check of `s` stops
  only a cycle of one. Startpage marks a URL seen before it looks at the title.
  DuckDuckGo keeps links to its own ads (`y.js`).
* **Fetch.** `egress.rs:220` speaks of 10 redirects, the policy follows 9. The
  comments of `fetcher.rs:61` and `types.rs:182` have a static timeout hand over
  to the browser, which it never does; `fetcher.rs:123` names 15 and 60
  seconds, the constants are 10 and 30. `extract.rs:95` says that every fenced block of
  the whole page is still present in the main content: the text of one is
  (`markdown.contains`), not always as one block (see Proofs).
* **Tape and answer.** A replay may serve, under a URL that only a redirect
  recorded, the page another URL was redirected from later (`tape.rs:382`).
  `synthesis.rs` says that `points` is never empty, and it is for a theme
  without text. `answer.rs:303` says that the redirect variants of a fetched page count as
  fetched: a link to the URL that redirected does not.
* **Context and streams.** `context.rs` truncates "until the assembled
  transcript fits" without counting the note it adds. An OpenAI stream that is
  cut after its `finish_reason` loses the usage; `arguments: ""` stays empty in
  one body and becomes `{}` in a stream; `anthropic.rs:70` says that arguments which are
  no JSON object come only from an OpenAI-shaped history, but a streamed call that
  `max_tokens` cut keeps its raw text (`stream/anthropic.rs:268`), the runner only
  warns of the cut (`runner.rs:164`), and the next request to the Messages API echoes
  `{}`, which is not what the model said; `reasoning_details` of two blocks are
  joined without the newline one body puts (`openai.rs:9` says otherwise).

## Not modelled

* **Search tool and searcher** (`tool.rs`, `search/mod.rs`): validation of an
  input and text around the fan-out, without state.
* **Configuration, prompt, DTOs, header profiles** (`llm/config.rs`,
  `prompt.rs`, `dto.rs`, `profile.rs`): text read or written once. What the
  configuration decides is a constant of the modules, its consistency checks are
  assumptions.
* **Command line** (`main.rs`, `lib.rs`): argument parsing.
* Of the partly modelled components: reading a Session log back, among it the
  half line of a process killed while it appends (the models write rows whole);
  the progress view, a third output of the Events; the tape's searches; the
  recognition of headings, links and claims in text; the HTML converter and
  rewriting within a line; cache breakpoints and output limits of a request.

## Plan

Done: the parts with interleavings and clocks (`Governor`, `Fanout`, `Gateway`
with `AgentLoop`, `Session`, `SearchCache`, `Fetch`), then the data between
them (`Markdown`, `Evidence` with `Answer`, `Stream` with `Conversation`,
`Engines` with `Merge` and `Routing`), and `ModelCall` with its refinement.

Still worth modelling: an abstract register of suspensions that `Governor`
implements, and the governor as `Fanout` sees it shown to be an abstraction of
it; `Session` composed with `AgentLoop` in the place of its free exits; the
progress view as a third output of a Session; a torn last row and `read_session`.

Still worth proving: `AgreementDecides`, from what a sort by a strict order returns.
