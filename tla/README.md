# TLA+ models and proofs for pandabot-core

`pandabot-core` is the library the Panda Discord bots share: a tool-use loop over two LLM
APIs, a task scheduler on SQLite, confirmations of destructive actions, a GitHub client
through which several bots hand stories to each other, and helpers. This directory models
the parts whose behaviour depends on order, overlap, failure or arithmetic.

    tlc -workers 2 -config Scheduler.cfg MCScheduler.tla     # model checking
    tlapm SchedulerProofs.tla                                # proofs
    tlapm BotChannelsProofs.tla                              # a few minutes each

## 1. The system

| Component | Source | State | Operations | Used by / uses |
|---|---|---|---|---|
| Task table, recurrence rules | `scheduler.py` | table `scheduled_tasks` | `add_task`, `get_due_tasks`, `mark_done`, `reschedule`, `cancel_task`, `schedule_next_recurring` | runtime, bots |
| `manage_schedule`, polling loop, fire handler | `scheduler_runtime.py` | one loop task, one asyncio task per firing | create, cancel, list; poll; fire | table, bot callbacks `post_static`, `run_prompt` |
| Tool-use loop | `llm/loop.py` | local to a conversation | `run_claude_loop` | provider, tool registry, `on_confirm`, `on_text_delta` |
| Providers | `llm/provider.py` | active profile: cached and in a file | `complete`, `complete_stream`, `_to_openai_messages`, profile switch | the APIs, the loop |
| Confirmations | `discord_comms.py` 235-353 | `_pending`: channel to batch, in memory | `save`, `consume`, `peek`, `force_consume`, `clear`; the view's callbacks | the loop's `on_confirm`, users |
| Channel messaging | `discord_comms.py` 55-228 | none | `split_message`, `send_with_retry`, `build_history`, `keep_typing`, `announce_startup` | Discord |
| Webhook server, model switch, help | `discord_comms.py` 360-501 | none of its own | commands | profiles |
| Cross-channel sends | `channels.py` | channel map | `send_to_bot`, `send_to_bot_threadsafe` | two threads, messaging |
| Goals and story runs | `goals.py` | tables `goals`, `goal_story_runs` | `create_goal`, `set_goal_state`, `complete_goal`, `upsert_story_run`, `set_story_status`, `record_dispatch`, `record_qa_verdict`, reads | several bot processes, one file |
| GitHub client | `pm/github.py` | on GitHub: issues and labels | label setters, `update_issue`, `create_issue`, reads | several bot processes |
| Code QA cache | `code_qa.py` | clones on disk | `query_codebase`: clone or pull, list, read | git, threads of the tool loop |
| Usage, telemetry, config, identity, registry, test doubles | `llm/usage.py`, `telemetry.py`, `config.py`, `identity.py`, `tool_registry.py`, `testing.py` | files appended, tables filled at import | | |

What makes it hard, and what correctness means there:

* **Scheduler.** A poll hands out every row that is due and not done; a row becomes done
  only after its payload, in another asyncio task, with awaits in between. So a row can be
  handed out again while it fires, a stop can fall between inserting the next occurrence
  and marking the row done, and an exception of either is swallowed. Correct means: no
  recurring series dies, no row is dropped unfired, occurrences lie ahead and on their grid,
  a row that is due is eventually handled, and a row is not fired without need.
* **Conversations.** Each runs in a thread; a round may preview several destructive calls;
  users answer by word or by buttons whose callbacks await an edit first. Correct means:
  a batch is what one round showed, is run at most once and never after it was cancelled
  or replaced; and what is sent to an API always answers every tool call.
* **Labels.** A setter reads all labels and writes all labels, from several processes.
  Correct means: an issue that was given one status label keeps exactly one.
* **Goals.** Calls look a row up and then write it, with no transaction around, from
  several processes. Correct means: a caller sees no difference from calls that happen
  one at a time, and an id that was handed out stays good.
* **Cross-channel sends.** A worker thread waits 30 seconds for a coroutine of the event
  loop, which repeats sends whose error says nothing about whether they were carried out.
  Correct means: what is reported as delivered is there whole and in order, an answer
  other than a timeout is final, and the call returns even if the loop is blocked.
* **Profiles.** A cached choice is looked up, stored and persisted by threads without a
  lock. Correct means: a switch holds, survives a restart, and a conversation is booked
  under the profile it ran with.
* **Code QA.** Calls share clones that they clone and pull, and the `FETCH_HEAD` of each,
  without a lock. Correct means: an answer
  rests on what was pushed before the question, and on the files that were listed.

The complete list of hazards, each at its line with the properties that cover it, is
`hazards` in `PROJECT.json`.

## 2. Modules

    WeeklyRule <- MonthlyRule <- SeriesClock <- MCSeriesClock, SeriesClockProofs
    WeeklyRule <- Scheduler <- MCScheduler, SchedulerProofs
    Providers <- ToolLoop <-+
            Confirmations <-+- Conversations <- MCConversations, ConversationsProofs
    Consent  (abstract)       Conversations --INSTANCE--> Consent
    IssueLabels <- MCIssueLabels, IssueLabelsProofs
    GoalRecords <- StoryBoard  (abstract)
    GoalRecords <- Goals <- MCGoals, GoalsProofs           Goals --INSTANCE--> StoryBoard
    Messages <- BotChannels <- MCBotChannels, BotChannelsProofs
    ModelProfiles <- MCModelProfiles, ModelProfilesProofs
    CodeQaCache <- MCCodeQaCache, CodeQaProofs

### WeeklyRule, MonthlyRule, SeriesClock: `schedule_next_recurring`'s dates

`WeeklyNext(fired, now)` is the weekly branch in ticks: timedeltas are added, the lag is
truncated to whole days, divided and truncated again (`int((now - next).days / 7) + 1`).
`MonthlyNext` is the monthly branch on *stamps* that list month, day and tick, because the
code replaces calendar fields; `MonthlyStep` carries a December into the next year, as the code
does, field by field (`MonthInYear`, `Year`, `Month`), and has its `ValueError` branch, which
takes the first day of the month after the one it tried, with a carry of its own. `Months` is the
number of months in a year, `MonthDays` gives month lengths, repeated; `MonthlyNext` is a
recursive function. `SeriesClock` iterates either rule: `Fire` picks a
late moment of handling and computes the next `fire_at`.

### Scheduler: table, tool, polling loop, firings, process

| Variable | In the code |
|---|---|
| `tasks` | the table; row *i* has id *i*, as nothing deletes rows |
| `loopPc`, `wake`, `due` | where `run_polling_loop` is; its sleep; the rows it fetched |
| `ready` | asyncio tasks created and not started |
| `firing` | per firing the await of `fire_one_shot_or_recurring` it is at, the row's snapshot, whether it had its `CancelledError` |
| `proc`, `stops`, `faults` | the process; stops and raised table accesses so far |
| `cancelled`, `lost`, `series`, `fires` | history |

One action per atomic step between two awaits: `Create`, `Cancel`, `Reschedule` (every
early return of the handlers is in `Accepts`; `MCRequests` has a request for each);
`InitDb`, `InitDbRaises`, `LoopCheck`, `PollQuery`, `PollError`, `Dispatch`, `LoopWake`;
`Start`, `PayloadReturns`, `PayloadRaises`, `NoticeEnds`, `ScheduleNext`, `MarkDone`, `MarkDoneRaises`; `Close`,
`CancelLoop`, `CancelReady`, `CancelFiring`, `Exit`, `Crash`, `Restart`; `Tick`. Database
calls run in an executor, one statement or transaction each, hence one step.
`run_polling_loop` begins with `init_db`, outside every `try`: if that raises, the loop's task ends
(`loopPc` is `"failed"`) while the process stays up and its tools go on. Nothing in
this code starts the loop again before the process ends, so nothing that is due is fired.

Abstractions: a row keeps the columns the code reads; texts are dropped. A rule is
`weekly`, `monthly`, `monthly_not_int` (accepted by create, raises later), `other` or
`none`. A monthly successor is *any* moment up to `MonthSpan` after now: `SeriesClock`
says which. Time has no change of UTC offset: the code adds weeks to a datetime of fixed
offset, so when the zone's offset changes, the local time of day of a weekly task moves
by that much; no document says otherwise.

### Providers, ToolLoop, Confirmations, Conversations, Consent

`ToolLoop` is `run_claude_loop` as a program counter per conversation: `Complete`, or
`OpenStream` / `StreamText` / `StreamCall` / `StreamEnd` for the chunks of
`complete_stream`; `AskBetter` and `Upgrade` for the second answer that replaces the first;
`AssistantTurn`; `Execute` per tool call; `EndRound`; `EndTurn`, `Limit`, `AskRaises`.
`execute_tool` is any callable and may raise, as may reading a call's input and `on_confirm`:
`ToolRaises` and `ConfirmRaises` end the conversation in the midst of a round, and the previews
of that round are gone with its local variables.
`Providers` has the stop reasons that each provider makes of its API's (`AnthropicStop`,
`OpenAIStop`) and `ToOpenAI`, the
translation of the turns. A turn is its role, whether it has text, and the ids of the calls and
results in it; `history` and the texts are left out. The model's answers are the constant
`Answers`, any end with any text and calls.

`Confirmations` is `ConfirmationManager` with the view's callbacks split at their awaits:
`ClickConfirm` ... `Confirm` (the edit is done, the view stops, `execute` runs whatever is
pending), `ConfirmFails`, `ClickCancel` ... `Cancelled`, `TimeOut`. The callbacks given to
the view are a bot's; as the manager's docstrings intend, execute is `force_consume` and
on_cancel is `clear`. Serial numbers of batches and `ran`, `cleared` are history. Pending
batches are kept in memory: a restart is a new initial state.

`Conversations` composes them: `FinishRound` is the end of a round with `on_confirm` calling
`save`. Reply execution itself changes nothing in these components.

`Consent` is what users may rely on, without serials, turns, views and awaits: `Show` one more
action, `Close` a round, which puts all it showed in place of what waited in the channel
(`save`'s docstring: the whole batch, replacing whatever was pending), `Run` or `Drop` what
waits. A conversation may `Leave` in the midst of a round; nothing that round showed ever waits.
`Agreed` is the refinement: a round is over when it showed something and its tools do not run any
more, a conversation has ended when the function has returned or raised, and what waits is the
set of actions of the pending batch. Which click or word causes a `Run` is left open, as in the code: a Confirm of an old view runs what waits when its edit is done.

### IssueLabels

Per issue the set of labels on GitHub; per bot the call under way with the labels its GET
returned. `Request` (with whatever label a setter `Takes`: only `set_status_label` refuses an empty
one, and none checks the label's group), `Get`, `Patch`, `Fails` (an error; a PATCH may have been
carried out), `UpdateIssue` (any list of labels, written outright). A label is its group and a
value. Issues begin with any labels, as `create_issue` takes any.

`settled` is history: the issues that a caller last gave exactly one status label at a moment
when no other setter was between its GET and its PATCH of that issue. An issue leaves it when a
caller writes another list or uses a setter for a label of the wrong kind. Without such a moment
the claim of github.py:318 cannot be kept: an issue that never had a status label loses its first
one to an art PATCH that read the labels before.

### GoalRecords, StoryBoard, Goals

`GoalRecords` has the rows of the two tables and the calls. Columns no call writes apart
are one column (`brief`); time stamps are left out. `StoryBoard` is what callers may rely
on: `Ask`, then the call either `Takes` effect in one step, on its own row and columns, or
`Refuses`. `Goals` is the code, one SQL statement a step: `LookGoal` / `LookStoryRun` are
the SELECTs, `UpdateGoal`, `InsertGoal`, `UpdateStoryRun`, `InsertStoryRun` and
`UpdateGoalState` the statement that follows with its commit, `InsertClashes` the UNIQUE
constraint, `Locked` an `OperationalError`, `Leaves` the end of an exception or of the
caller's life. `seq` is `sqlite_sequence`. `complete_goal`, `set_story_status`, `record_dispatch` and
`record_qa_verdict` are calls with certain columns, members of `Requests`. `Board` is the
refinement: goals and runs are the tables, `asked` the request of each call.

### Messages, BotChannels

`Messages` has `split_message` (`SplitMessage`, a fold over lines that have a length and
may be blank) and `build_history` (`BuildHistory`: window, merge, drop leading assistant
turns), with both ways to tell the bot's own messages. `BotChannels` composes them with
`send_with_retry` and `channels.py`: `Execute` hands the coroutine over, `Answer` and
`TimeOut` end the thread's wait; `Begin`, `PostSucceeds`, `PostErrs` (an error, the message
posted or not), `PostRefused` are the coroutine, chunk by chunk and attempt by attempt.
`Chat` is anyone else who posts in the channels. The timer is not a clock: it may run out
whenever no result is there. `BotPairs` is `BOT_CHANNELS` after splitting at `,` and `:`.

### ModelProfiles

`cache` is `_active_profile_cache`, `file` is `active_model.txt`. `CheckCache`, `ReadFile`,
`StoreCache` are the three accesses of `get_active_profile_name`, which `run_claude_loop`
and the commands make once or twice, `MakeRaises` the failure of `_make_provider` after a look-up;
`Switch`, `OpenFile`, `WriteFile`, `PersistFails` are
`set_active_profile`. `Crash` starts a new process, whose environment may define other
profiles. `raced`, `torn`, `chosen`, `lastSwitch` are history.

### CodeQaCache

`copy` is what the cache directory of each repository holds: nothing, a clone under way, a
`.git` without all files (`torn`), or a whole copy of some commit; `fetchHead` is the commit that
the copy's `FETCH_HEAD` names. Each call goes through its repositories in the order it was given
(`order`; `todo` is what is left of it): `Update`, then `CloneStarts` / `CloneFetches` /
`CloneEnds` or `PullFetches` / `PullWrites` / `PullEnds`. It lists them, lets the model `Pick`
files and `Read`s them; an error of either, such as a file removed between `isfile` and
`getsize`, ends the whole call (`Return`). Names the bot does not know are skipped, so an order
without any known name goes straight to the model.

Git is external and modelled from its behaviour: a clone refuses a directory that is not empty,
removes what it made when it fails and leaves it when it is killed; a pull may or may not repair a
torn copy. A pull receives a commit, writes it to `FETCH_HEAD`, and merges what is written there,
which is another pull's commit if that one wrote in between; a commit the copy already contains
changes nothing (`Merged`). When two pulls append to the file instead, both commits are merged and
the newer one wins, which is the case without a loss. The checkout of a merge is one step: a read
in the midst of it counts as before or after.

## 3. Runs

| Run | Question | Bounds |
|---|---|---|
| `series_clock` | Is the next occurrence the first one ahead, however late both of two firings are? | weeks of 3 days of 2 ticks, years of 2 months, which have 31, 28, 30 and 29 days in turn, lag up to 100 days |
| `scheduler` | Do series survive, end for good when cancelled, do rows get fired, and is every due row eventually done, over overlaps, cancels, reschedules, a fault and a stop? | 1 created row and its successors, every request shape, 2 overlapping firings, 1 fault (also of `init_db`), 1 stop, 1 reschedule; fair; 596,000 states |
| `prompt_firings` | With firings that end before the next poll: refires, forks, grid, no burst after an outage of more than a week? | week of 2 ticks, 3 ticks, 1 created row and its successors, 1 reschedule, 1 fault, 1 stop |
| `conversations` | Batches and tool calls under two conversations and users who type and click; is every step one that `Consent` allows? | 2 conversations in 1 channel, 2 rounds, 2 saved batches, 1 view with 2 clicks, a raise at any call; 1.6 million states |
| `issue_labels` | One status label under overlapping setters? | 2 bots, 1 issue, 2 status, 1 art, 1 design, 1 other label and the empty one, any set at the start, any label to any setter |
| `goals` | Are two-statement calls as good as atomic ones? | 3 callers, 2 epics, 2 stories, 7 requests, no bound on calls |
| `deliveries` | What is posted, how often, in which order; what is answered; what a reader's history has | 1 thread with 2 calls (the first may go on during the second), 3 chunks of which 1 is blank, a line beyond each limit, 2 attempts, 1 other message, window of 4 |
| `profiles` | Does a switch hold, and survive? | 3 profiles, 2 conversations and the event loop, 1 file error, 1 crash; 539,000 states |
| `code_qa` | What does an answer rest on? | 2 repositories in either order, 2 callers, 1 push each, 1 pick, 1 kill or crash; 10 million states |
| `one_shot_refires`, `cancel_is_undone` | What the documents say of one-shot tasks and of cancel (violated) | as `scheduler` without faults and stops |
| `labels_clobbered` | "leaving every other label intact" (violated) | as `issue_labels` |

Why these are enough: two firings of one row, two clicks on one view, two conversations
in one channel, two writers of one issue, two callers of one clone, a switch and one
look-up are the smallest overlaps, and every property speaks of pairs at most; `goals` has a
third caller whose write falls between the two of a race. One stop and one fault can fall
between any two steps. Two attempts make a first, a last and an ambiguous one; the limits
of texts are small, with lines that are below, at and beyond them. A longer time adds
polls that repeat. The theorems remove the bounds altogether, for every invariant and
every action property of the runs; the two liveness properties rest on the runs alone.

### Disagreements between code and documents

With a run that shows them, listed as `findings`: a one-shot task whose payload outlasts
the poll interval fires again (`one_shot_refires`); a series cancelled while it fires goes
on (`cancel_is_undone`), whereas one cancelled at rest ends for good (`OverForGood`); a
label setter with a stale read puts another group's label back (`labels_clobbered`).

Known, without a run of their own; the models contain each of them:

* `weekly:W` ignores W: the branch adds weeks to `fire_at` (scheduler.py:193), the tool
  says it "fires once a week on weekday W" (scheduler_runtime.py:108). `WeeklyNext` has no W.
* `monthly:31` fires on the first of the month after one without a day 31 (scheduler.py:187),
  and tries day 31 again from there: January 31, March 1, May 1, July 1, August 31, October 1,
  December 1, January 31. The tool says "fires on day-of-month D each month"
  (scheduler_runtime.py:109). This is `MonthlyStep`'s `ValueError` branch; `MonthlyIsFirstOnDay`
  says which days are possible, and promises every month only for D up to 28.
* A `monthly:D` task whose `fire_at` lies before day D of its month fires then and next on D of the
  *following* month: the first step goes to the next month whatever the day (scheduler.py:182), so
  the D of that month is skipped. The property says "in a later month than the firing".
* If `init_db` raises (scheduler_runtime.py:266), the bot stays up without a polling loop; nothing
  in the docstrings says so. `DueRowsAreHandled` has this as its one exception.
* Text that precedes the first tool call of a streamed answer reaches `on_text_delta`
  (provider.py:443), of which loop.py:76 says that tool rounds never invoke it and
  provider.py:385-387 that only a plain text turn does. It is `StreamText` before `StreamCall`; no
  property depends on the order of chunks, and whom a chunk is shown to is not modelled.
* Two callers that register an epic at once: one gets an `IntegrityError` (goals.py:169)
  where goals.py:151 promises the existing id. It is `InsertClashes`, a refusal of the board.
* A line longer than the limit is a chunk longer than the limit (discord_comms.py:96,
  against line 86). `CutIsFaithful` says exactly that: longer only if it is one line.
* A look-up that began before the first switch of a process undoes it (provider.py:615,
  against line 632). `WarmSwitchHolds` excludes it by `raced`.
* A clone that was killed passes for a clone ever after (code_qa.py:41), and its missing
  files are silently left out of answers. `AnswersAreFresh` excludes it by `spoilt`.
* A pull during another call's clone, or two pulls that share `FETCH_HEAD`, may leave a copy at a
  commit older than the question (code_qa.py:51, against "up to date" in line 32): `spoilt` as well.

Several properties exclude, by a history variable, the very case of the hazard they are listed
under; what they show is that nothing *else* breaks the claim:

| Property | Excludes | Because the code does it |
|---|---|---|
| `SeriesAlive` | series in `lost` | the next row could not be computed or written, and the fired one is marked done (scheduler_runtime.py:330) |
| `RefiresPaidFor`, `OneOccurrenceAhead` | firings that outlast a poll (`PromptSpec`) | the row is handed out again (scheduler_runtime.py:274) |
| `DueRowsAreHandled` | processes whose loop failed | `init_db` raised (scheduler_runtime.py:266) |
| `OneStatusLabel` | issues not in `settled` | their labels were written by someone else, or while a setter held older ones (github.py:330) |
| `WarmSwitchHolds` | `raced` | the first look-up of a process stores what it read (provider.py:615) |
| `RestartKeepsChoice` | `torn` | the file is emptied before it is written (provider.py:641) |
| `MixesOnlyAcrossSwitch` | `crossed` | two look-ups, one switch between them (loop.py:84) |
| `AnswersAreFresh` | `spoilt` | a clone or merge was killed or crashed, a pull came to a clone under way, or merged less than it had fetched (code_qa.py:41, 51) |
| `ReadsWhatWasListed` | `crossed` | another call pulls what this one has listed (code_qa.py:129) |
| `AnswerIsFinal` | timeouts | the coroutine goes on after the thread gave up (channels.py:141) |

`PromptSpec` of `prompt_firings` is an assumption on the deployment (everything a poll
dispatched has ended when the clock moves on). It is stated because without it
`RefiresPaidFor` and `OneOccurrenceAhead` are false, which is what `one_shot_refires` shows.
`OneOccurrenceAhead` speaks of rows that nobody rescheduled: a row rescheduled while it
fires waits together with its successor until `mark_done`, which drops the new date.

Fairness of `scheduler` (`FairSpec`): time passes; the event loop runs the polling loop and
each firing when they can step (asyncio's ready queue is first in, first out, and every
await of the payload ends: it is bounded by the API's timeouts); a closing bot cancels its
loop and exits; a stopped process is started again by its supervisor. Nothing is assumed of
users, of faults, of stops or of which branch an await takes. Faults and stops are bounded,
so it says: when they cease, due rows are handled, unless the last of them left a process without
its loop. (A process whose loop failed may be stopped and started once more whatever `MaxStops`
is, as somebody who restarts the bot does; nobody is assumed to.)

Fairness of `deliveries`: a thread that waits is woken by the result or by its timer
(`future.result(timeout=30)`). Nothing is assumed of the event loop, which the waiting tool
itself may block, nor of Discord; that is why the answer may be a timeout. The run has
`CHECK_DEADLOCK FALSE` because everything comes to rest when `MaxCalls` calls have ended.

`SeriesClock` has `CHECK_DEADLOCK FALSE` because it stops after `MaxFirings`. The clock
of the scheduler stops at `MaxTime`; its loop goes on polling there (`LoopWake`).

## 4. Proofs

What recursive functions, folds and concatenations compute is proved too, for sequences of
any length. The induction theorems of the library have operators for parameters and cannot be
used; but "the least number that is not in a set" exists because `<` is well founded on `Nat`
(`LeastNatural`, from `WFMin`), so induction is proved for *sets* of numbers (`Induction`), and
every statement about all sequences becomes a set of lengths at which it holds.

`SeriesClockProofs`, for any lengths of day and week, any months of 28 to 31 days each, any
number of firings and any lag: `SeriesAreTyped`, `NextIsAlwaysAhead`, `WeeklySeriesSkipNoWeek`,
`MonthlySeriesKeepPace`. A stamp is read back as its month, day and tick (`PartsOfStamp`) and
stamps are ordered like them (`StampOrder`), so a step of the monthly rule leads to a later
stamp (`MonthlyStepIs`). Month and year are counted on correctly across the turn of the year for
any number of months (`MonthAfter`, `StepCountsMonths`). Hence `MonthlyNext` has a value everywhere (`NextExists`: by
induction on how far before now a stamp is), it is after now, and it is the *first* of the
dates the steps visit that is (`MonthlyFirst`). For the weekly rule `WeeklyNextIs` says that the
next time is whole weeks after the fired one and that one week less would not be after now.

`SchedulerProofs`, for any `Firers`, `Requests` and bounds:

* `WeeklyNextIsAhead`, from `DayTicks` and `WeekDays` being positive only: writing the lag as
  `q` weeks and a rest, `q + 1` weeks exceed it.
* `TypeCorrect`. `TypeOK` is not inductive: a step that updates row `IdOf(f)` needs the row
  to exist. `HoldsRows` adds that what the loop fetched, the ready queue and the live
  firings name rows of the table; rows are never deleted. Both are proved together.
* `SuccessorsAreAhead`: only `InsertNext` appends a row to an existing series, and
  its time is `NextFireAtsAhead`, which rests on `WeeklyNextIsAhead`.
* `DoneRowsWereFired`. Strengthened by `LiveWasCounted`: the row of a live firing has
  `fires > 0`. The table's history is summed up once, in `StepKeepsRows` (what a step may do to an old
  row, and what a new row looks like) and `StepKeepsFirings` (how a firing may have got to
  `mark`); the invariants are proved from these two and not action by action.
* `RecurringSeriesLiveOn`. The invariant `SeriesInv`: rows of a series share kind and rule;
  every series that must live has a youngest row; a row that is done, or whose firing is
  at `mark`, is *followed* by a younger row of its series. So the youngest row is never
  done, which is `SeriesAlive`. This is the reason for the order of the finally block:
  the next row is inserted before the fired one is marked done.
* `OverSeriesStayOver`. What the loop fetches is not done (`PolledAreNotDone`); what is in
  the ready queue or starts was fetched before (`StepKeepsQueues`, `StepKeepsFirings`); and
  only a firing of the series appends to it. So nothing takes up a series at rest.

* `WeeklySeriesKeepTheirDay`. On the grid is not inductive: `InsertNext` computes the next
  time from the *copy* a poll took. `GridInv` adds `HeldOnTime` (as long as a row was not
  rescheduled, every copy in the loop, the queue or a firing has the time of the table, and
  that time has come) and `SeriesHeaded` (the row a series is named after is its own).
* `RefiringsArePaidFor` and `SeriesDoNotFork`, of `PromptSpec`. `Calm` says where the loop
  may be while something is in flight; `Once`, that a row is then in one hand at a time;
  `PaidFor`, that each further firing of a row is covered by a stop or a fault that came
  before it (`Paid`: a close pays for what it cuts off, not for what it lets start);
  `OneSource`, that without stops and faults a series has one row it can go on from.

`ConversationsProofs`, for any conversations, channels, views, answers of the model and
bounds: `ConversationsTyped`, `EveryCallIsAnswered`, `BatchesAreRounds`, `BatchesRunOnce`,
`CancelledNeverRun`, `EveryToolMessageFollows`, `ConversationsKeepConsent`. `Counted` ties the
answers asked for to the rounds (two a round, with an upgrade), which keeps them within
`MaxRounds`. `Dialogue` is the shape of the turns while
tools run: the last turn makes the reply's calls, and the results so far answer the first of
them. `SealedInv` is that every batch, waiting or run, is *exactly* the previews of a
round that is over, and a round that is over shows nothing more. `SerialInv` is that a
batch is in one place: it waits in one channel, or was run, or was cleared, and the one that
waits is younger than all that were run there. Clicks, words and timeouts in any order then
only move a batch out of the place where it waits. `EveryToolMessageFollows` is about what
`_to_openai_messages` makes of the turns: a message with results comes from a user turn, the
turn before it is the reply whose calls it answers (`Dialogue`), and the messages of the two
turns are next to each other in the concatenation.
`ConversationsKeepConsent` is the refinement, for any bounds. Most steps of a conversation are
stutters, because before its tools run a round has shown nothing (`OnlyItsRound`, from `Shown`);
a preview is new because its place in the reply is beyond all results so far (`ExecuteMaps`);
the end of a round closes it with exactly what it showed (`FinishMaps`). The queue's part needs
that a batch that waits is not empty (`Asked`), so that taking nothing is a stutter and taking
something is a `Run`. A raise maps to `Leave` (`EndMaps`): the round is over and its batch is not
among those that wait.

`CodeQaProofs`, for any callers, repositories, orders, pushes, kills and crashes: `CodeQaTyped`,
`AnswersRestOnPushed`, `ReadsAreListed`. `CopyInv`: a copy that is not in `spoilt` is never torn,
and it is begun exactly while one call, and only one, clones it. `Fresh`: such a copy is whole
and recent enough from the moment a call updated it, so pulls of others only make it more recent
(`Merged` never goes back). What a pull itself needs is that it merged no less than it had
fetched, which is what `spoilt` asks of it. `AsListed`: what a call listed is what is there,
unless another call changed it (`crossed`). `Answer`: what was read has both.

`BotChannelsProofs`, for any threads, channels, requests, attempts, limits and other messages:
`SendsAreTyped`, `FewCopiesInOrder`, `AnswersAreFinal`, `DeliveredWhole`, `CutsAreFaithful`,
`HistoriesAreFaithful`. `UpTo` is the
invariant of a channel for one coroutine: chunks ascend, none is beyond the one it is at,
*that* one was posted at most as often as it was tried, earlier ones at most `Retries` times
and at least once. An attempt is counted whether the message was posted or not, hence the
bound. That a posted chunk comes last is `OwnPost`, that the chunk after it is new is
`NextIsNew`. An answer is final because what a thread is told is what its coroutine
*returned*, and one that returned posts nothing (`WhoPosts`).
The other three say what `split_message` and `build_history` compute. Both are folds, and a
fold over a sequence is a function of how many elements it has seen (`FoldOfFirst`; `CutFolds`,
`SpokenFolds`, `TextFolds`, `MergeFolds` for the four of the model). So each is proved by an invariant of
its loop: what was cut so far *is* the text so far, in chunks that are short (`AddLineKeeps`);
what was merged so far *is* the messages so far, in turns that alternate (`MergeKeeps`). That
the first turn may be dropped without a gap is `FirstTurn` and `FirstUserIs`. `DeliveredWhole`
joins the two parts: every line with text is in a chunk that is not blank (`ChunksCover`), and
every such chunk was posted.

`IssueLabelsProofs`, for any bots, issues, labels, arguments and lists written: `CallsAreTyped`,
`OneStatusLabelStays`, `FreshWrites`. `OneStatusLabel` is not inductive, since a setter writes what it
read some time ago. `SettledReads` adds that whatever a call about to write has read of an
issue in `settled` has one status label too (an issue enters `settled` only when nobody else
holds labels of it), `StatusGiven` that the status setter was not given the empty one. Then a stale art or design write puts back an *old* status label, but
exactly one (`OthersKeepStatus`), and the status setter writes one whatever it read
(`StatusSetterWritesOne`). `FreshWrites` proves that a write with a fresh read is local.

`GoalsProofs`, for any callers, epics, stories and requests: `GoalsTyped`, `IdsHold` and
`GoalsImplementBoard`. The invariant `IInv` adds to `TypeOK` that ids are unique and at most
`seq` (`GoodIds`), and that the id a call found is 0 or *is* the id of its row: rows are
never deleted, an UPDATE keeps ids and an INSERT needs an absent row, so what a SELECT found
stays true, while *not* finding may become false. That asymmetry is the refinement: an
UPDATE by a found id hits the row of the call's key and nothing else (`UpdatePuts`), an
INSERT is accepted only if not finding is still true (`InsertPuts`) and is otherwise a
refusal. Each step maps to a step of the board or to a stutter (`StepMaps`).

`ModelProfilesProofs`, for any names, threads and numbers of faults and crashes:
`ProfilesTyped`, `SwitchesHold`, `RestartsKeepChoice`, `MixesNeedASwitch`. `SwitchesHold`
rests on `IInv`: after a switch without a race no thread is cold (between a look at the
empty cache and its store), so nothing but a switch writes the cache. The other two need
`Inv`, that every live look-up which no switch crossed agrees with the cache or with what the
file and the environment say, and that a choice not torn is in the file.

Assumed in all of these are only the types of the constants, that limits and periods are
positive, that months have 28 to 31 days, and what the module's ASSUME says in words; TLC
evaluates the assumptions on every run.

Only model-checked: `DueRowsAreHandled` and `CallsReturn`, as leads-to under fairness is out of
the prover's reach, and the violations the runs show.

## 5. Not modelled

Webhook server, help command, `keep_typing`, `announce_startup`: Discord I/O without state.
Usage and telemetry append records no code path depends on. Config, identity and the
registry are fixed after start. Test doubles are not part of the system.

In the modelled parts: texts of replies, logging, prices, the channel a task posts to,
time stamps; `complete_simple`, which asks once and keeps nothing, and the set-up of SDK
clients; `create_issue`, comments and sub-issues, one request each, whose retry is the
caller's; `search_pattern`, which only reads.

## 6. What could be added

* Abstract specifications that more components implement, as `StoryBoard` is for `Goals` and
  `Consent` for `Conversations`: `Reminders` (a set of pending occurrences, each fired at least
  once) for `Scheduler`.
* `search_pattern` and the file filter of `code_qa.py`, if their rules become a matter of
  properties.
