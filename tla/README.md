# Broker-agent in TLA+

A verification project for the conversation agent in `src/app`: a FastAPI
service that collects the WhatsApp fragments of a buyer into turns, runs a
tool-calling model loop on each turn, checks what it says, and hands the lead to
a broker. The modules model the code (line numbers are those of the source), TLC
checks them on small instances, and TLAPS proves every invariant the runs check,
and two refinements, for every instance.

## 1. Inventory

| component | state it keeps | operations | modules |
|---|---|---|---|
| inbound, debounce, lock (`agent.py` 52-155, 434-451) | `SEEN`, and per conversation `current`, `seq`, `timer`, `lock`; the user rows | `on_inbound`, `_ensure_timer`, `_debounce`, `run_turn` | `Debounce`, `Mailbox`, `DebounceRefinement`, `Agent` |
| the turn (`agent.py` 162-431, `dispatch.py`) | locals of `_run`; `messages`, `tool_calls` | start, model step, tool batch, guard and repair, evaluator, handoff | `Turn`, `Agent` |
| escalation (`escalation.py`, `tools.py` 611-675) | `status`, `clarification_count`, `escalations` | escalate, count, evaluate | `Turn` |
| brief writer (`brief.py`) | `escalations.brief` | `fill_brief` | `Turn` |
| broker's views (`main.py` 108-330) | none: they read | GET inbox, GET conversation | `Inbox` |
| profile and visits (`tools.py` 420-608) | `buyers`, `site_visits` | `update_buyer_profile`, `book_site_visit` | `Records`, `Turn` |
| property search (`tools.py` 113-359, `agent.py` 187-220) | none; its results stay in `tool_calls` | `search_properties`, `shown_properties` | `Search`, `Inventory` |
| model failover (`llm.py`) | `_down_until` | `llm_call`, `_candidates` | `Failover` |
| grounding guard (`guard.py`) | `guard_rejections` | `detect`, `offending_spans`, repair | `Guard`, `Phrases`, `Turn` |
| display (`format.py`) | none | amounts, ranges, hours | `Display`, `Phrases` |
| process model (`config.py` 85-133) | none | `worker_count`, `assert_single_worker` | `Workers`, `Phrases` |
| triggers (`triggers.py`) | none | `match` | `Turn`, as a free choice |
| seed data (`seed.py`), localities (`enums.py`) | the properties | | `Inventory` |
| prompt, tool schemas, demo page and script | none | | not modelled |

How they interact: `post_message` calls `on_inbound` and waits for `Batch.event`;
a `_debounce` task takes the conversation's lock and runs the turn; the turn calls
the model through `llm`, the tools through `dispatch`, the guard, the evaluator and
the brief writer, and commits several times; the broker's views read in threads
beside the loop.

What is hard in it: everything else runs on one asyncio loop, so code between two
`await`s is atomic with respect to other turns, but not with respect to a crash or
to a view that reads between two commits. Fragments arrive while a turn of the
same conversation runs; fired timers wait for the lock; resends arrive at any
moment; process state dies in a restart and rows stay; four authorities can
escalate one conversation; a lead is committed before its brief's model call is
awaited; the model may answer with anything or not at all after a tool call has
taken effect; callers share circuit breakers; a booking is retried while the clock
runs; the ladder of a search relaxes two criteria in a fixed order; and the guard
compares text with text. `PROJECT.json` lists these as hazards, each at its line,
with the properties that would catch it going wrong.

What makes each part correct:

* debounce: no fragment is stranded, lost, reordered or taken twice; one turn at
  a time; one reply per turn; nothing outstays its window or its cap; every POST is answered;
* turn: it ends; the buyer reads only grounded text; nobody is left without an
  answer; a stuck conversation is handed off at its limit; a booked visit too;
* escalation and brief: one lead per conversation; a lead gets a brief and its
  buyer a handoff line, and then the agent is silent;
* views: no lead and no waiting message is left out, however turns move meanwhile;
* records: budgets never inverted, nothing known forgotten, one key one visit, and
  a retry works until the slot is over;
* search: a card is what its label says, the ladder relaxes in order, as far as it
  goes and no further;
* failover: a worse model serves only when every better one was down; a call ends;
* display and guard: what is displayed reads back as what was meant; what passes
  the guard stands in the sources, whole.

## 2. Modules

| module | models | extends / instances |
|---|---|---|
| `Mailbox` | what the debounce promises, without clocks, timers, tasks or a lock | |
| `Debounce` | one conversation's inbound path, with restarts | |
| `DebounceRefinement` | the mapping under which `Debounce` implements `Mailbox` | `Debounce`, `Mailbox` |
| `Turn` | `_run` and all it calls, several conversations over one database | |
| `Agent` | debounce and turn composed: one conversation as it is | `Debounce`, `Turn` |
| `Inbox` | the broker's two views, read while turns commit | `Turn` |
| `Records` | profiles and visits under any calls while the clock runs | |
| `Inventory`, `Search` | the seeded homes; a search rung by rung, and what later turns remember | |
| `Failover` | the chain of models with concurrent callers | |
| `Display`, `Guard`, `Workers` | pure operators: displays, span detection and matching, worker count | |
| `Phrases` | what these three promise, over every bounded input | the three |
| `MC...` | instances for TLC: symmetry sets, inventories, inputs | the module named |
| `DebounceProofs` | theorems on the debounce, and that it implements the mailbox | `DebounceRefinement`, TLAPS |
| `TurnProofs` | theorems on the turns | `Turn`, TLAPS |
| `AgentProofs` | that debounce and turn together are each of them, and what only both can promise | `Agent`, instances of the two modules above |
| `InboxProofs` | theorems on the views beside the turns | `Inbox`, `TurnProofs` |
| `FailoverProofs`, `RecordsProofs`, `SearchProofs`, `PhrasesProofs` | theorems on failover, records, the search, and displays, guard and worker count | the module named, TLAPS |

An operator named `X_Something` after a definition `X`, with the comment "Mutant", is a
plausible mistake in `X`; no action uses it. `PROJECT.json` says which property it breaks.

**Debounce.** An action is the code from one `await` to the next.
`InboundDuplicate` and `InboundAccept` are `on_inbound` up to `event.wait()`, and
`Return` is the rest of it. A `_debounce` task first runs as soon as the loop
gets to it, so a new task is due at once: `SleepOn` is one more round of its
loop, `Fire` its exit, the reset of `state.timer` and `run_turn` up to the lock,
or through it when it is free. `Grant` hands the released lock to the longest
waiter (asyncio's lock is fair). `Drain` is the body of `run_turn` before
`_run` awaits. `FinishTurn` is its `finally`. A text is the request that carries
it; `batches` keeps every `Batch` object, because coroutines hold on to the one
they joined, and its last element is `state.current`; `Batch.event` is set
exactly when `result` is not `"none"`. The user row is written when the turn
starts (`agent.py` 355, 359), before its first await, so it is part of `Drain`.
The clock ticks only when no task is due and no released lock is wanted: the
loop is taken to keep up. `DEBOUNCE_MS` and `DEBOUNCE_MAX_MS` are any natural numbers;
zero, which the tests and the source's README use, makes every fragment due at once.

**Turn.** A turn waits in `model`, `repair` and `brief`, the three model calls. Between
them an action is the code up to the next commit: the user row (`trigger`), a
tool's effect (`logging`), its `tool_calls` row (`dispatch`), the count
(`evaluate`), the brief (`handoff`). `LoopFree` keeps other turns out in between, but a
crash, or a broker's SELECT, may fall there. A tool call is represented by what it
leaves for somebody else to read: a lead and a status, profile fields, a visit, the
sections in its logged args. `visits` and `lost` name turns by the place of the buyer's row in
the conversation: the turn that confirmed the last visit, and those a crash cut short; so an
excuse counts for the very turn it happened in. A text is the question it ends with, up to
rephrasing, and whether all its figures are grounded. `Faults` says what the model
may do beyond well-formed answers: an answer without a choice,
`escalate_to_broker` or `update_buyer_profile` with the id of another conversation or its buyer,
and sections that cannot be put in a set. Every conversation has a buyer of its own.

**Agent.** The variables of both modules over one loop. `Starts` is a drain of the
debounce together with the start of the turn, `EndTurn` the `finally` of `run_turn` when the
turn has come out of `_run`; nothing else of the debounce runs while a turn is
between two awaits. That a turn ends, which `Debounce` assumes, is here a consequence
of the step cap and of the timeouts.

**Inbox.** The views are plain `def` functions, which the server runs in threads. One
action per SELECT whose moment matters; `began` keeps what was committed when the
request came, so that properties can relate the answer to it.

**Records.** A tool call is one commit or none, so one action; arguments range over
right, wrong, repeated and foreign ones. `confirmed` is a history of the answers
given: what a retry must agree with.

**Search.** A search is synchronous; its actions are the rungs of the ladder, so that
`AsLabelled` and `BudgetFirst` can speak of each. Ranking is the code's tuple
(`Key`), compared lexicographically. The two loops of `shown_properties` are the
recursive functions `Seen` (rows, newest first) and `Adding` (the cards of a row). `Verdict` looks
at the arguments in the order of the code: an error for the model to read (`refused`), an exception
(`thrown`) or a search. Three things raise: `price_display` of an amount that is not positive;
`Misfit`, a value of a type no branch foresees (localities that are no list, a month that is no string);
and the end of `LastMonth`, December 9999, which is only looked for once a home meets all other criteria
(`Overflows`). Prices are in rupees, months count from year 0.

**Failover.** A call fixes its candidates when it starts; its attempts
interleave with other calls. The clock moves at any time. An attempt is served,
fails over (429, 5xx, timeout, no connection) or raises.

**Display, Guard, Workers.** An amount's text is its unit and its hundredths (the string is
one to one with that). The guard works on texts of symbols; of its six patterns
the two that read an amount are kept. A figure is a longest run of digits, commas and dots; a sign may stand
before it with one space between (`SignsBefore`), a unit behind any number of spaces (`UnitsBehind`), and
the second pattern wants the word to end there (`WordsBehind`). A unit word is one symbol, letters
behind it are others. `Merged` is the loop over the
sorted matches, `Nth` their order. `Workers` sets the code's
reading of the command line against the launcher's, which is external.

## 3. Runs

| run | instance | states | shows |
|---|---|---|---|
| `DebounceSafety` | 4 requests, 2 ids, windows 2 and 3, arrivals until tick 4 | 269 000 | `NoLostWakeup`, `OneVoice`, `HandledOnce`, `Prompt` |
| `DebounceRestart` | 3 requests, 1 id, windows 0 and 1, 1 restart at any moment | 291 000 | `UniqueRows`, `Answered`, `RefusedIsHeld`, `MailboxSpec` (the mailbox with its fairness) |
| `Agent` | 2 requests, 1 id, windows 1 and 2, 2 steps, 1 restart | 87 000 | `ReplyIsStored`, `DebounceSpec`, `Answered`, `TurnEnds`, `LeadHandedOver` |
| `TurnPair` | 2 conversations, 3 rows, every fault, 1 crash | 4.9 million | `TypeOK`, `OneLead`, `GroundedOnly` |
| `Inbox` | 1 conversation, 5 rows, 1 crash, 1 request of the broker | 2.2 million | `NobodyForgotten`, `NoneTwice`, `PageAgrees`; of `Turn`: `SilentAfterHandoff`, `CountBelowLimit`, `NobodyIgnored`, `LeadComplete`, `HandoffHonoured`, `BookedOrHeld` |
| `Records` | 2 buyers, 2 keys, 3 amounts, window and clock of 2 | 52 000 | `BudgetOrder`, `KeepsItsWord`, `RetryUntilSlot`, `NeverForgets` |
| `Search` | the 25 seeded homes, the real limits, every opening search, 2 later ones | 28 000 | `AsLabelled`, `BudgetFirst`, `NothingWithheld`, `SoundIsSteered`, `NewestShown` |
| `Failover` | 3 models, 2 callers with 2 calls each, breaker of 2 ticks | 228 000 | `PreferenceKept`, `UnavailableMeansDown`, `CallEnds` |
| `Phrases` | amounts around every boundary, 24 hours, texts of 5 symbols against replies of 4, command lines of 4 | 34 000 | `ReadsBack`, `GuardSound`, `SingleWorker` |
| `TurnCrashOnOutput`, `TurnBriefBlocked`, `TurnMisaddressed` | violations | | `NoCrash`, `LeadComplete`, `SilentAfterHandoff` |

**Bounds.** Every bound is a constant named in its module. Four requests are one
for a running turn, one for a task in the lock's queue, one in the buffer and one
resend; three suffice for a resend around a restart, two once the turn itself is modelled. The
windows are one tick apart so that the cap cuts the sliding deadline short, and
`LastArrival` lets a fragment come after a window is over. `DebounceRestart` is launched as the tests and
a demo do it, with a window of 0: nothing sleeps, and a burst is what comes while a turn runs; that timers
which do sleep end in an answer, restarts included, is `Answered` in `Agent`. `MaxTalk` stops new turns: five
rows are the three turns a limit of two repeated questions needs; batches of one in
a turn of two steps mix a failed and a successful call; two
conversations are what a misaddressed escalation needs. `StepCap` is 1 or 2 instead
of 8: a turn that reaches its cap and one that does not both occur. In `Agent` an answer with tool
calls is an answer with an empty batch: what the calls leave is the matter of `Inbox` and
`TurnPair`, the step they cost is kept. One request of
the broker is enough, for requests share nothing. `Inbox` has no faults because the
violations below are what they do to its properties. A breaker of two ticks opens
and closes within one call. The openings of `Search` cross every kind of minimum,
maximum (one is a seeded price, one lies 300 rupees beside one, two have no text, one is prose), up to two
localities in any order or none that is a list, BHK and month (prose, a misfit and the last one among them); the inventory is the real one because the boundaries are in it. The
sources of `Phrases` are every text of up to five of seven symbols (the sign, a space, a digit, a dot, two
units and a letter), against every reply of up to four: a sign, a figure, a unit and what the word goes on with.

**Fairness.** The loop runs every ready callback (weak fairness of the task steps, of
`Return` and of the clock). In `Debounce` a turn ends (weak fairness of `FinishTurn`); in
`Agent` and `Turn` this is replaced by what justifies it: a model call returns or times
out (`llm.py` 57) and the loop runs what is ready (weak fairness of a conversation's steps), and
`DebounceSpec` shows that the assumption follows. In `Failover` an attempt ends because
the client has a timeout. Nothing makes a buyer write, a process restart, or a
caller call.

**Deadlock** is checked everywhere: `Quiet`, `Done` and the stutter of `Phrases` are the only places to stop.

## 4. What the code does otherwise

Three runs expect a violation; each is an entry of `findings` with the line it contradicts.

* `TurnCrashOnOutput`: sections the model sends as a list of lists fail in the
  tool but are logged, and `escalation.py` 117 puts them in a set outside any
  `try`. That turn and every later one of the conversation that reaches the
  evaluator end with status `error`.
* `TurnBriefBlocked`: `brief.py` 153 reads the answer after the `try`; an answer
  without a choice leaves the lead without brief and without handoff line.
* `TurnMisaddressed`: the turn takes any successful `escalate_to_broker` for its
  own; with another id its buyer gets the handoff line and the agent goes on.

Ten properties are stated in the modules but do not hold of the code, so no run
checks them (`HandledOnce` is checked without restarts, where it holds); each is
refuted by adding it to the configuration named here.

* `WindowHonoured` (`DebounceSafety.cfg`): a timer that outlives its batch, and a task
  that waited for the lock, both end the next window early. `Prompt` and
  `NoLostWakeup` hold all the same.
* `HandledOnce` (`DebounceRestart.cfg`): only the first fragment's id is stored; after a
  restart a resend of a coalesced one starts a second turn.
* `BookedHandsOff` (`Inbox.cfg`): the model fails after the booking, the evaluator is
  skipped, and later turns look only at their own calls. `BookedOrHeld` says that
  the model or the process going down in the very turn that booked are the only ways.
* `AfterTheLine` (`Inbox.cfg`): `main.py` 258 takes the newest assistant row for the
  handoff line; while a brief is written, or after the process died on it, it is an older
  reply. `NobodyForgotten` shows that nothing is missing from the page for that.
* `NeverEmpty` (`Search.cfg`): `tools.py` 269 documents a result that is never empty; with a
  possession month no home meets, or no neighbour and no budget to widen, it is.
* `GapsRead` (`Search.cfg`): a home within 499 rupees of the budget is described as "₹0 lakh" under
  or over it: `format.py` 56-60 rounds to a hundredth of a lakh and refuses only what is not positive.
* `ErrorsSteer` (`Search.cfg`): `tools.py` 13 says that errors never raise. They do for a month that is no string
  (304), for December 9999 (113-117), for localities that are no list (290), and for an amount that is not positive,
  which the message that would refuse or explain it cannot put in words. `SoundIsSteered` says that nothing else raises.
* `OwnedStaysSilent` (`TurnMisaddressed.cfg`): the conversation a misaddressed escalation names may have a turn waiting
  for the model. It read its status before (`agent.py` 347) and still speaks to a buyer a human owns (353-354). When
  every call names its own conversation this cannot happen (`SilentAfterHandoff`, `Addressed`).
* `AnyPrice` (`Phrases.cfg`): behind "lakhs" the pattern of `guard.py` 39 finds no unit, so the sign and the figure are
  compared and any such unit passes. `WholeAmounts`, a part of `GuardSound`, is about words that end with their unit.
* `AssertedIsAlone` (`Phrases.cfg`): of two worker flags the check reads the first (`config.py` 95), the launcher the
  last. `SingleWorker` is about one flag at most.

## 5. Proofs

Every theorem holds for any value of the constants; the assumptions are the named ones of
each module (times, windows, limits and bounds are natural numbers, zero included; model
values that must differ do). No proof takes a bound of a run as given. The assumptions that
say something about the program:

* homes differ in their id, the primary key of `properties` (`InventoryAssumption`, `db.py` 34),
  and a search returns no more cards than later turns are told of (`LimitsAssumption`: 5 and 8);
* the amounts that are displayed are positive, or `price_display` raises (`AmountsAssumption`, `format.py` 58);
  the arguments of a search may be anything (`QueriesAssumption`);
* the rupee sign and the space differ and are no part of a figure or a word, commas and dots are no part of a
  word, and no unit is a digit (`SymbolsAssumption`);
* a token is the flag, the flag with a value, or a word, and a count is not negative
  (`LaunchAssumption`).

`DebounceProofs` proves `Inv` invariant (`Invariance`) and from it the type,
`NoLostWakeup`, `OneTimer`, `UniqueRows` and `Prompt`, which are not inductive alone.
`NoLostWakeup` needs `Watched` and `TasksAgree`: what is buffered has a timer or a queued
task, a registered timer sleeps, everybody in the queue is blocked and there once,
and only the holder is in a turn. `UniqueRows` needs `BufferedIdIsNew`: the id under
which the buffer will be saved has no row yet. `Prompt` needs
`WindowsInOrder`, so that a timer left over from an older batch computes a deadline not
later than that of the open one, `TimerInTime` and `InTime`: such a timer only fires earlier, and a task
in the queue is what is left when one has fired.
`RefusedIsHeld` needs `Held` across restarts: an id in `seen` belongs to an accepted request whose text is in the
buffer or in a row (`SeenIsHeld`), and so does the id of a row (`RowIdIsHeld`). None of this asks for a window
greater than zero.

The same module proves `OneVoice` from `Voices`, inductive relative to `Inv`.
`OneVoice` compares a request's place in its batch with what it returned, but the
code decides with a token: an accepted request is a text of its batch (`Heard`);
inside a batch the last text, and no other, has `lastToken` (`TokensInOrder`); a
drained batch has it as its winner (`WinnerIsLast`); and what was returned is what
the batch, which no later step changes, says (`StatusesAgree`). Tokens start again
from 0 after a restart, so they are unique inside a batch only; the argument needs
no more, because no batch survives a restart as the buffer.

`HandledOnce` is proved as long as no restart happens (`EveryIdOnce`), which is as far as it
holds. `seen` is extended before the buffer is, so while the process lives each accepted id is in
it and belongs to one request (`AcceptedOnce`); what a row or a batch is made of was accepted
(`RowsAccepted`). A restart empties `seen`, and the rows keep only one id of their batch.

Last it proves that the debounce implements the mailbox
(`ImplementsMailbox`): initial states map to initial states and every step is a step of
`Mailbox` or leaves it as it is. A refused resend is `Refuse`, an accepted fragment
`Accept`, a drain that finds something `Begin`, the end of a turn `End`; timers, ticks,
tasks that queue and drains that find nothing are stutters. Beside `Inv` and `Voices` it
needs `TurnAgrees`: everybody whose text is buffered or in the running turn still waits on
that batch. Without it `End` could owe the reply to a request that has returned.

`TurnProofs` proves `Inv` of `Turn` invariant and with it `TypeOK`, `OneLead` and
`GroundedOnly` under every fault, and `HandoffHonoured` and `SilentAfterHandoff` when no call
is misaddressed, which is the assumption `TurnMisaddressed` shows to be necessary.
`GroundedOnly` needs that a text kept for the buyer across the evaluator and the brief has
passed the guard; `SilentAfterHandoff` needs `Addressed`: who counts on an escalation has its
lead, and behind a handoff line no turn is in flight. `SilentAfterHandoff` and `OneLead` are
proved together, for a conversation with a lead is not `active`.

From the same invariant follow `LeadComplete`, `NobodyIgnored`, `BookedOrHeld` and
`CountBelowLimit` without faults, with `CarriedThrough`: for a lead, a visit and a repeated
question it says where in the turn that began them their ends still lie. The excuses are of one turn each: for a
visit the row behind its buyer's row is the holding line, or that very turn is in `lost`; an earlier hold or crash
excuses nothing. `CountBelowLimit` allows one question more for every crash, because the
count is committed before the escalation.

`AgentProofs` proves of the composition that every step is a step of the debounce and one of the
turns, or leaves either as it is (`AgentRefines`, the safety part of `DebounceSpec`). `StepKinds`
sorts the steps into what goes on around a turn, its beginning, its own steps, its end and a
restart; the two modules are instances, so their invariants carry over with the
theorems (`AgentInvariance`). `ReplyIsStored` needs both at once, and `RepliesInv`: while a
turn is under way the newest row of the conversation is the buyer's, and when it is out of `_run`
the agent's row is behind it (`TurnAnswers`); the rows of the debounce are the buyer's rows of the
talk one for one, and the one being answered is the newest (`DrainedIsNewest`); a row whose batch
has its reply is followed by it (`RowsAnswered`). Later turns only append, so it stays so.

`InboxProofs` proves `NobodyForgotten`, `NoneTwice` and `PageAgrees` of the views. They add
variables and write nothing, so the turns with them are still the turns (`ViewsOnlyRead`) and
`Inv` of `Turn` holds. `ReaderInv` says what an answer read so far is worth however many turns commit
before it is complete: rows and leads are only appended (`Continues`), so a line that was
found stays where it was, a message that has its answer keeps it, and a lead in the first SELECT is in every
later one. `PageAgrees` rests on the order of the three SELECTs against that of the commits
(`PageGoesOn`), and needs that no call is misaddressed.

`FailoverProofs` proves `PreferenceKept`, `UnavailableMeansDown` and `AlwaysTries`. The
invariant is about `Passed`: whatever a call has behind it, or left out, was down when it
began or has failed since; breakers only move later, so it stays true
whatever other callers do.

`RecordsProofs` proves `BudgetOrder`, `KeepsItsWord`, `RetryUntilSlot` and the action
property `NeverForgets`. `KeepsItsWord` needs `KeysUnique` and `Confirmed`;
`RetryUntilSlot` needs `Stands`: a confirmed slot was within the window, and the
clock only brings it nearer.

`SearchProofs` proves `AsLabelled`, `BudgetFirst`, `NothingWithheld` and `SoundIsSteered` for any
inventory, neighbours and limits with `MinResults <= MaxResults` and a relaxation of at
least 100 percent. The argument rests on `FewMeansAll`: keys are ordered (`BelowOrders`),
so when fewer than n homes have a rank below n, a home left out of least rank would have
all homes before it among them, hence a rank below n. So a rung that leaves room has
shown everything its criteria match, and `OnLadder` says so rung by rung.

`NewestShown` needs `LogFits` and `NearFits`: the cards of one search are no more than later turns
are told of and none is there twice, since ranks differ when homes do (`RanksDiffer`) and the near cards leave
out the exact ones. Then the newest row that has cards is added to an empty list as it is
(`AddingToNone`), and what older rows add comes behind it (`AddingKeeps`). What the two loops compute is shown by
looking at the least number of rounds after which it would be wrong; that the recursive functions
satisfy their defining equation is proved first, in the same way (`AddingUnfolds`, `SeenUnfolds`).

`PhrasesProofs` proves what `Phrases` states for amounts of any size, texts and
command lines of any length. A behaviour is one input, so there is no invariant to find; the work is in the operators.

* `ReadsBack`: the change from lakh to crore is at 9 999 500 rupees (`PriceIs`), where the readings in
  lakh end below those in crore, hence order and `OneText`; the rest is rounding.
* `GuardSound`: sorted matches have a place each (`NthIs`). The loop keeps spans that are apart, hold
  every match taken and nothing else (`MergedTo`, `ExtendKeeps`): this is `MergesAll`. The two matches of an amount
  with sign and unit share its figure, so they lie in one span (`OneSpan`), and a span occurs
  as a whole: its symbols stand in the sources, shifted by one distance (`SpanStands`). Where the text has a
  sign, a unit or the spaces before them, the figure of the sources ends too (`SignShifts`, `UnitShifts`), hence
  `WholeAmounts`; on the other side it may go on, hence `EndsOfFigures`.
* `SingleWorker`: the first token that names a count is one the launcher reads
  (`FirstNamedIsRead`): it is not the value of a flag, for that flag would have come first.

Every inductive invariant was model-checked before it was proved, by adding it to a configuration: `Inv`, `Voices`,
`Held`, `TurnAgrees`, `RowsAccepted` and `AcceptedOnce` of the debounce to `DebounceRestart` (the last two without
restarts), `Inv` of `Turn` to `TurnPair` and `Inbox`, `CarriedThrough` and `ReaderInv` to `Inbox`, `RepliesInv`
to `Agent`, `LogFits` and `NearFits` to `Search`, `Inv` of `Failover`, `Records` and `Search` to theirs.

Only model-checked: every liveness property (`Answered`, `TurnEnds`,
`LeadHandedOver`, `CallEnds`) and the fairness of `MailboxSpec` and `DebounceSpec`, which are
out of the prover's reach, as is `ENABLED`. Every invariant that a passing run checks is a
theorem, and so are the action properties `NeverForgets` and `RefusedIsHeld` and the steps of both refinements.

## 6. Not modelled

* Text: four of the guard's six patterns (percentages, areas, months, RERA ids, which are merged and looked up by
  the same code), its short units Cr and L, the trigger patterns, the wording of
  cards, notes, errors and briefs, the Hinglish test of the handoff line, the word overlap that makes two questions
  one; they are choices of the environment.
* Prompt and tool schemas (`prompt.py`, `schemas.py`): text for the model, which is
  free in every module whatever it is told.
* Database failures: which statement of SQLite may fail when is nothing the code
  says. Constraints are properties (`UniqueRows`, `KeysUnique`); isolation between two
  SELECTs is what `Inbox` is about.
* The audit rows of the guard, latencies and model names, which nothing acts on.
* The unknown-conversation branch of `_run` (`main.py` 115-120 answers 404 first), and the 404
  and 422 answers, which touch no state.
* Areas, months, weekdays and statuses in `format.py`: look-ups with nothing to relate.
* `assert_ist` and the reading of environment variables: one comparison each.
* The command-line reset of the seed (offline and sequential), demo page and script
  (clients).

## 7. Plan

Done: `Debounce` with `Mailbox`, `Turn`, `Failover`, then `Agent`, `Records`, `Search`, `Inbox`,
`Display`, `Guard`, `Workers`, and the proofs of section 5.

Left, in order of weight:

1. The hazards without a property: what a restart forgets of a batch, and a `save_message` that fails
   while the buffer is already swapped. Each is a way in which the code keeps less than a reader would
   expect; a theorem can say how much it does keep.
2. `WindowHonoured` fails for timers that outlive their batch; how early they can end a window is
   a bound that could be proved beside `Prompt`.
3. `NobodyForgotten`, `NoneTwice` and `PageAgrees` on top of `Agent` instead of `Turn`, which `AgentRefines`
   makes a corollary of what is proved.
