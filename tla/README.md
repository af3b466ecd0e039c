# TradeMind AI: TLA+ models and proofs

TradeMind AI is a trading desk: a FastAPI backend (`app/`) that downloads candles, analyses
them, detects setups, backtests strategies, mails alerts and places orders; a React terminal
(`terminal/`) that streams prices into charts, derives a decision per chart and keeps a record
of its decisions; a Replay Studio (`studio/`) that steps through history; and a demonstration
server (`demo-server/`) that stands in for the backend. This directory holds TLA+
specifications of the parts where the order of events, or a boundary of a rule, decides whether
the program is correct, TLC configurations that check them on small instances, and TLAPS proofs
of what must hold on instances of every size.

Contents: [1 the system](#1-the-system), [2 the models](#2-the-models),
[3 the checks](#3-the-checks), [4 fairness](#4-fairness), [5 the proofs](#5-the-proofs),
[6 disagreements](#6-where-code-comments-and-documents-disagree),
[7 what is left out](#7-what-is-left-out), [8 what is next](#8-what-is-next),
[9 running it](#9-running-it).

`PROJECT.json` maps every definition that models code to the lines it models, lists the hazards
found in the code, and gives for every checked property an altered definition under which TLC
finds that property violated. Those altered definitions are the operators called `...Mutant` in
the modules; no specification uses them.

## 1 The system

Requests enter through `app/api/v1/endpoints`, run in a service (`app/services`) on one asyncio
loop, and each holds a database session that commits when the request ends. Services call
engines, which are synchronous, and repositories, which talk to PostgreSQL. In the browser
everything runs on one thread, between two awaits, timers, callbacks or renders. Concurrency
therefore comes from five places: coroutines that interleave at `await`, transactions that
interleave in the database, the background `alert_loop`, the browser's timers, requests and
late callbacks, and several chart panes that run the same hooks over shared stores.

| component | state | operations | what is hard | what makes it correct |
|---|---|---|---|---|
| Signal alerts `services/signal_alerts.py`, `email_notify.py` | tracked alerts with status and `events_sent`, a lock, a JSON file | `scan_once` from the loop and from `POST /alerts/scan` | interleaving at every mail; death between mail and save; lost mails; failing markets | no mail repeated within a process life, stop and targets exclude each other, a resumable file |
| Orders `brokers/execution`, `brokers/angel/client.py` | kill switch, day and counter, paper book, broker session and login lock | `place_order`, `status`, kill switch, login, repeated POST | check and count on either side of an await; unreadable answers; midnight; restart | bounded overshoot of the cap, one order per request, every request answered |
| Backtesting engine `engines/backtesting` | pending orders, open positions, capital, trades, window | one pass over the candles; walk-forward windows | several writers of the quantity and of the stop; boundaries of windows and of expiry | entries in the plan's window, the stop never loosens, trades explain capital whatever is taken at a target |
| Live stream `useLiveStream.ts`, `transports.ts`, `connection.ts` | active pane, transports, probes, timers, socket, status | effects and cleanups, interval and socket callbacks | callbacks of stopped transports, timers that pile up | one transport, stopped ones wind down, the status settles |
| Chart pane `ChartPane.tsx`, `TerminalChart.tsx`, `liveCandle.ts`, `useEnsureMarketData.ts` | query cache, price of the last tick, painted series, backfills under way | fetches, ticks, quotes, downloads, backfills, repaints | three sources in any order, also for a symbol no longer shown; cancelled effects | consecutive bars of one symbol, the tip follows the price, an empty chart is filled |
| Candle store `services/market_data.py`, `analysis.py`, `pipeline/`, repositories | tables `candles` and `analysis_results`, one transaction per request | incremental download with validation and upsert; run, insert, prune | late answers, a stale start, forming bars, transactions that do not see each other | history is final but for late answers, the table catches up |
| Drawings `DrawingOverlay.tsx`, `DrawingToolbar.tsx`, `store/drawings.ts` | drawings per symbol, tool, shared anchor, gesture refs per overlay | presses, clicks, keys, menus, switches | two panes over one store; a key or switch in the middle of a press | an id drawn once, deleted for good, a lock that holds, no stray anchor |
| Decision tracking: journal, misses, validation log, paper trades, personality snapshots, plans | six lists in the browser | one effect per pane and change, which opens, prices, settles and cuts | every pane of a chart runs the effect on the same data; outcomes derived anew from each price | first touch ends a trade, history stays, reports agree |
| Decision engine `decision.ts`, `intraday*.ts`, `expiry*.ts`, `lateSession*.ts`, `predictiveSignal.ts`, `executionTradeCard.ts` | the latest answers of ten queries | derive a decision, a plan and a card from them | answers in any order; thresholds of four profiles; holidays | stricter profiles decide less, evidence never hurts, the trade shown pays two for one on the side the setup names |
| Replay Studio `services/replay_studio.py`, `studio/src` | sessions in memory; page state; a play interval | steps, jumps, events, inspector, playback, reviews | overlapping requests, late answers, lost sessions | neither chart nor inspector is ahead of the bar reached, what can be reviewed was seen, playback ends |
| Desk `pages/TerminalPage.tsx`, `store/workspace.ts`, `store/prefs.ts`, panels | URL, panes, panels, watchlists, recents | every click, reload, redirects | URL and active pane change separately; copies of lists; symbols the server lost | a choice moves the chart in view or none, lists agree, a lost symbol is left |
| Demo server `demo-server/server.mjs`, `data.mjs` | analysis cache, loads under way, one replay session, backtests | requests, loads, comparison, replay | loads shared, expired, invalidated, failing, unanswered | nobody waits forever, candles never go back, levels still hold |
| Trade setups, strategies, backtest service | rows appended per run | detection, `execute`, `start` | new ids in every run | see section 7 |
| Analyzers, indicator plugins, validation toolkit, catalogue, adapters, providers, API layer, pages, launchers | none over time, or declarations | | | see section 7 |

How they interact: the terminal's panes and its stream post downloads, whose upserts analysis
runs read; the scanner runs setup detection, which reads analysis rows and draws new setup ids;
the decision of a chart is derived from analyses, setups and candles and passed, by one effect
in every pane, to the six stores; replay loads candles, rows and setups once into a session.
Orders are independent of all of them. The models cut these connections where one side only
reads: the scanner's model contains detection as "new rows may appear", the chart's contains the
backend's downloads as "rows up to now appear", the decision's contains the queries as "an answer
arrives", the journal's contains the decision as data of a chart.

## 2 The models

A step reaches from one `await` (or callback, event, render, loop turn) to the next, because
nothing else can run in between. Modules called `MC...` only give values to constants. A
component's proofs are in `...Proofs`; `TerminalProofs` holds those of the live stream, the desk and
the demo server, `TradingProofs` those of the backtest and the decision desk, `ServerProofs` those
of the orders and the candle store, `BarsProofs` those of the live chart and the Replay Studio. The
modules that share a proof module prefix their common names (`DeskInit`, `ServerInit`,
`DecisionInit`). **FiniteSums** holds the facts about sums, minima and maxima over finite sets that
several of them need.

**SignalAlerts** over **AlertBook.** `RequestScan` queues a caller on the lock; `StartScan` or `SkipScan` (alerts
disabled) follows when it holds it. Per market, `ScanMarket` or `MarketFails` may add rows,
`SignalNew` announces a listed setup that is not tracked, `StartLifecycle`, `Emit`,
`SendReturns` and `CloseAlert` evaluate the open alerts, `NextMarket` goes on; `Save` or
`SaveFails` ends the scan. `status` and `sent` are the store's memory, `disk` what `_load` would
read, so `Crash` copies `disk` back. `_evaluate_lifecycle` suspends at every mail; it is the
relation `Due` from the last event sent to the next one due, and the status is assigned only
after the mail returns, as in the code. `AlertBook` is the abstract promise: a page of events per
alert in the order of a trade, one mail under way, a copy that survives a death. `KeepsTheBook`
maps `sent`, `disk.sent`, `delivered` and the mail of whichever scanner is sending to it.

**OrderExecution.** `RefuseOrder`, `PaperOrder` and `LiveOrder` are the outcomes of the risk
gate; the first two end the request in one step (there is no await). A live request queues on
the login lock (`TakeLock`), logs in (`LoginSucceeds`, `LoginFails`) and posts; each kind of
answer is an action: `PostConfirmed`, `PostUnauthorised`, which sets `retry` for the second
attempt of `_secure_post`, and `PostFails`, in which the exchange may or may not have taken the
order. `placed` is the exchange's own count, which the program never sees. `Status`,
`SetKillSwitch`, `Midnight` and `Restart` fall between any two steps.

**BacktestEngine.** `phase` and `todo` are the position inside the loop body: positions managed,
orders dropped and collected, orders filled, the close-out, the next window. `remaining`,
`exited` and `booked` are kept apart because the code keeps them apart. Sizing returns any member
of `Sizes`; slippage and fee are constants. `share`, what a run takes at a first target, is drawn
from `Shares` at its start. `Earned` is what a trade of the list brought in: its `pnl`, and for a
position closed after the last candle, whose `pnl` is its last exit alone, its partial exits too.

**LiveStream.** Transports are numbered in the order they are connected. `ShowSymbol` and
`ActivatePane` run the cleanups and then the effects of the panes concerned, which React does in
one commit; everything else is a callback that may belong to a stopped transport. `probes`,
`timers`, `pulling` and `socket` are what is under way per transport. A pull is two requests:
`PullTick` asks for the tick, and `TickRefused` goes on to the quote without a look at `stopped`,
as `transports.ts:163` does; `PullPriced` and `PullEmpty` end either.

**ChartBoard.** Candles are functions from open times to bars. Every action ends in `Commit`,
which is React's render: the series is repainted from cache, quote and clock, and the backfill
effect `Ensure` runs when what it depends on has changed. `Merge` is `mergeLiveFormingCandle`,
`Snap` the bar a stamp belongs to, on the exchange's own grid for symbols with a session. The
exchange's prices are a constant tape, so the true bar of every window is known. A candle query
is answered with the `Limit` rows stamped last (`Latest`), so the oldest leave the cache. `painted`
is the symbol whose bars the series holds: a repaint that finds `SameShape` (as many bars, the same
tip) replaces the tip only, so after a switch it may be another than the one shown.

**CandleStore.** The exchange opens bars and closes the session; a request is a download
(`StartDownload` reads the start, `Answer` is the await, `Write` validates and upserts) or an
analysis run (`StartAnalysis` reads the candles, `Save` inserts and prunes, `Commit`); `RollBack`
ends either at any await. `changed` holds the rows a transaction has touched and not committed:
another transaction does not see them, is locked by them, and gets them back on failure. A
stored candle is missing, forming or final; an analysis row is which of the two it was computed
from. `regressed` and `crossed` are history variables (the bars an older answer has overwritten;
two runs were saving together): the properties except those bars only, and name when even they
catch up.

**ChartDrawings** over **DrawingShelf.** Each action is one handler of the overlay, the toolbar
or the page's keys. Coordinates are `Spots`; which drawing a hit test finds is left open. The
pointer `press` remembers whether the press has made a drawing. `DrawingShelf` is the abstract
promise: every symbol has a shelf; a drawing is put on one shelf with a new id, may be moved,
and once discarded is gone; nothing happens while the shelf is sealed. `ChartDrawings` implements
it with the mapping `shelf <- drawings`, `place <- spot`, `drawn <- next`, `sealed <- Sealed`
(locked, with no stroke cut off in the middle).

**TradeJournal** and **TradeReports.** `Effect(p)` is the effect of `useDecision` in pane `p`: it
passes price and decision of the pane's chart to the stores, in the order of the code. `owed`
are the panes that have yet to run it on the last change (`NewData`, `SwitchChart`,
`ChangeSettings`), so panes of the same chart run it one after another on the same data. The six
stores never read each other, so a behaviour follows the stores in `kept`. A trade has a side of
its own: the intraday profiles sell a setup whose direction is spelt "bullish" (`worded`), and such
a trade has its stop and its target on the wrong sides. `TradeReports` are
the reports over the lists, as operators: performance snapshot, daily report, calibration,
breakdowns. A report reads the rows of a list that it counts as the set of their positions, and a
breakdown is a function from the labels that occur, where the code fills a `Map`.

**MarketTape, InstitutionalGates, IntradayGates, SessionTape, ExpiryCalendar, TradePlan** are the
pure part of the decision engine (personality and early patterns; the institutional gates; the
intraday and scalping profiles; expiry and late sessions; the calendar of index expiries; plan
and execution card), and **DecisionDesk** is the hook that derives them anew after every answer,
profile change and overlay switch. Where the code tests one condition after another, so does the model
(a chain of IF): the arms of a CASE that overlap leave the choice open. The two directions of the market are one definition read on
reflected prices. Prices are integers, scores hundredths. `Gain` measures a level against the side
it is for, so that a stop or a target on the wrong side counts as a loss and not as a distance.

**ReplayStudio.** `Serve` answers one request of the bag `calls` in any order, `Receive` is the
arrival of an answer and starts the handler's next request; `NotFound`, `Lost` and `Restart` are
the failures; `Tick` is the play interval, which does not wait for the step before. A frame is
its session and last bar. `reached` and `chosen` are history variables: the highest bar of each
session, and the frame on which the selected setup was chosen.

**Desk** over **Listing** (lists without duplicates). A click is one step with the effects React runs before the next event: navigation, the
copy of the URL's symbol into the pane active at that moment, the copy of the open book into the
flat watchlist, seeding. `UniverseAnswer`, `HomeRedirect` and `RedirectMissing` are the effects
that wait for the server. `Init` covers a new browser and one with stores of an older version.

**DemoAnalysis** and **DemoServer.** `Ask` is a request up to its first wait, answered from the
cache, joined to the load under way, or starting one; `LoadEnds` ends a load with the provider's
candles or synthetic ones and lets all who waited go on; `Compared` ends a comparison. Swings,
breaks of structure, blocks, gaps, sweeps and the setup are computed from integer candles as the
code does.

## 3 The checks

Twelve runs, all of which must pass. Sizes are distinct states with two TLC workers.

| run | instance | shows |
|---|---|---|
| `alerts_scans` | loop and endpoint; two markets, one buy setup with three targets; four prices; one death; 279k | `MailBound`: a mail repeats only across a death. `DiskAtRest`: the file never holds an alert between its event and its status. `KeepsTheBook`: the scanner implements `AlertBook`, so no alert reports both its stop and a target. `ScanAnswered`: a caller queued on the lock is answered although mails are lost and markets and saves fail |
| `orders` | three requests, legal and oversized quantity, cap 2, one midnight, one restart, five environments; 163k | `Overshoot`: counter plus admitted requests stay below the cap plus the number of concurrent requests. `OneOrderPerRequest`. `OrdersAnswered`: no failed login strands the requests queued behind it |
| `backtest_walk` | three plans, every sequence of six candles out of four, two adjacent windows, two sizes (one is zero), trailing stop, holding limit, a quarter, half (the default) or all taken at the first target; 778k | `CapitalExplained`: the trade list explains the capital, `Earned` by `Earned`. `PlanTradedOnce`. `StopNeverLoosens` |
| `live_feeds` | two panes, a polled and a WebSocket symbol, two transports in all, one outage, two timers; 22k | `OneStream`; `StoppedStaysQuiet`: a stopped transport starts nothing but the quote after a refused tick; `CalmSettles`: once servers and user are calm, status and retries settle |
| `chart_pane` | one pane, a symbol that always trades and one with a session, from before an open into the session, whose opens coincide in it, answers of two rows, two events; 230k | `NoHole`: the bars on screen are consecutive bars of the shown symbol or, under a tip and a number both share, of the symbol before. `TipSettles`, `EmptyChartFills` |
| `candle_store` | two requests, four bars of which the second spikes, window 1; 488k | `HistoryFinal`: a stored bar with a later one is final, unless this bar was overwritten by a late answer or refused. `CatchesUp`: so is the table in the end, and of the overwritten bars all but those behind the newest two |
| `drawings` | two panes, two symbols, two spots, one id, one menu, one cut-off press; symmetric | `KeepsTheShelf` (refinement), `NoStrayAnchor` |
| `journal` | two panes, two charts, a buy, a sell and a bullish setup that is sold, four prices, lists of two, two days; 648k | `ExitIsFirstTouch`, `WonMeansEntered`, `BooksBalance`, `HistoryKept`, `MissStands` |
| `decisions` | charts of a stock on either server, three indices around a holiday; eight tapes; all profiles; 58k | `ScalpingIsStricter`, `ZonesOnlyHelp`, `TwoToOne`, `AgreementHelps`, `ExpiresOnce` |
| `studio` | two sessions of two bars, a setup on one, four clicks, two handlers at a time, one fault; 897k | `FramesNotAhead`: chart and inspector are not ahead. `ReviewedWasSeen`: a setup ahead of the chart that can be reviewed was chosen on a frame at or past its bar, and no review is of a bar never reached. `PlayEnds` |
| `desk` | four clicks of any kind, layouts of one and two panes, three symbols of which the server has lost one; 283k | `OneChartMoves`: a choice moves the chart in view, or none when the URL names the symbol already; `ListsAgree`, `GoneIsLeft` |
| `demo_serve` | two clients, a known and an unknown symbol, 32 candles, kept for 2 instants, horizon 4; 154k | `BreaksWereKnown`, `PlansHold`, `AnswersMoveForward`, `Answered` |

**Why the bounds are enough.** *alerts*: the setup has every level the code compares with, and
the prices fall on different sides of each; the second market has no setup and is there to fail
and to leave the first untouched; two callers produce every queue of the lock. *orders*: three
requests give a login owner, a waiter and one that passes the gate meanwhile; one midnight and
one restart reset the counter as any number would. *backtest*: the four candles touch each level
alone and together; six of them cover detection, expiry, entry, exit, close-out and the boundary
of two windows; half of a position is closed at once, a quarter leaves one to the end of the data. *live*: the stopped transport and its successor are the pair all late-callback
hazards are about. *chart*: the run starts before an open with rows of the day before, so the
night, a missing row and a row stamped at the answer or at the close occur; the opens of the
session are opens of both symbols, so that switches find a common tip, and its last bar is a short
one. *candles*: an anchor, a bar that may be far from it, one that is not far from its neighbour
but stands behind the newest two when overwritten, and a last one; two requests suffice for a late
answer and for saving together. *drawings*: two panes of one symbol share every drawing, and one id is enough to
be dragged, deleted and drawn again. *journal*: lists of two already cut, two panes already run
an effect twice. *decisions*: the setups, zones and tapes are chosen on both sides of the floors
of the profiles. *studio*: two bars with the setup on the second give a frame before it and one
at it; four clicks step forward, choose, step back or open the other session, and save. *desk*:
four clicks reach a click on a pane, a choice, a removal and a reload in every order, and the
choice of the URL's own symbol while another pane is in view. *demo*: the candles turn twice, so both directions have setups, blocks and breaks.
For most safety properties the question of size is settled by the proofs.

The bounds are constants and appear only in guards: `MaxCrashes`; `MaxDays`, `MaxRestarts`,
`MaxPlaced`; `NBars`; `MaxConnects`, `MaxProbes`, `MaxTimers`, `MaxOutages`; `Horizon`,
`MaxEvents`; `MaxIds`, `MaxMenus`, `MaxCancels`; `Cap`, `PlanCap`; `MaxClicks`, `MaxCalls`,
`MaxFaults`; `MaxMoves`, `MaxRuns`. The proofs hold for any value of each.

**Symmetry** is used over panes, symbols and spots in `drawings` and over panes in `journal`;
neither run has a liveness property.

**Deadlock** is checked in `orders`, `drawings`, `decisions` and `demo_serve`, which never stop
for good.
Elsewhere the system may stop: a backtest ends, the exchange closes, clicks run out.

**Sensitivity.** For every property there is an altered definition of the modelled code: a
dropped `stopped` check, the record after the mail instead of before it, a repaint that compares
only the number of bars, a jump whose inspector is asked for too early, a closed trade that is
priced again, an invalidation that forgets the load under way, and so on. Each produces a
counterexample in the property's own run.

## 4 Fairness

* *SignalAlerts*: weak fairness of each scanner's next step. A running scan is a coroutine the
  loop keeps scheduling, and its awaits return or raise (HTTP and SMTP carry timeouts). Nothing
  assumes that the loop wakes, that a mail arrives or that the process does not die.
* *OrderExecution*: weak fairness of each request's progress: an HTTP call ends within its 20 s
  timeout; how it ends is not assumed. The lock's queue is first in, first out.
* *LiveStream*: weak fairness of intervals and of the ends of requests and sockets; strong
  fairness of a tick that carries a price (a feed that answers has one again and again) and of
  reconnect timers, which only the model's bounds can hold up. The user and the outages get
  none: the property is about calm periods.
* *ChartBoard*: weak fairness of the clock, of the start and end of candle fetches, of the end of
  a backfill and of the quote. Ticks and the stream's downloads may stop for good. The conditions
  are on parts of the actions (`WF_fetching`, `WF_filling`, ...) because each action also renders.
* *CandleStore*: the session ends after its last bar; the terminal's intervals download again and
  again, and full answers arrive and are written again and again (strong fairness, since any
  attempt may fail and all requests may be busy); some request that only waits for the database
  goes on (weak). No single request is assumed to succeed.
* *ReplayStudio*: while requests are under way, one of them is served, answered or refused for want of
  its session, and the interval keeps firing (weak). Which one goes first is not assumed, and one may
  be lost.
* *Desk*: the universe's answers arrive and the two redirecting effects run (weak); the user is
  free to do nothing.
* *DemoServer*: time goes on, a load ends and a comparison ends (weak): each fetch has an
  `AbortSignal.timeout`, so it ends even when the provider keeps silent.
* BacktestEngine, ChartDrawings, TradeJournal and DecisionDesk have no liveness property.

## 5 The proofs

Eight modules hold the theorems. `tlapm` proves every leaf; the only assumptions are the
`ASSUME`s on the constants, which TLC evaluates in every run: sets that are what they are said to
be, distinguished values that are not members of them, bounds that are numbers, and some that say
something of the data: the stop of a backtest plan does not lie inside its entry zone or beyond it
(`ZonesAssumption`; `trade_setup/zones.py:60,74` constructs it so), and a setup of the journal has
its stop on one side of its entry and its targets, in order, on the other, for its own direction
(`SetupsAssumption`; the side it is traded on may be the other one);
on the decision desk a setup has positive prices, one of the four words for a direction, and its
stop and targets on the sides that direction asks for (its module's `SetupsAssumption`), and a trend's confidences are percentages
(`AnswersAssumption`; `market_structure/analyzer.py:371-381` keeps them below 85); a candle of the demo server is positive and closes between
its low and its high (`CandlesAssumption`; `data.mjs:248-251` draws the synthetic ones so).

Each module proves type correctness for every instance, and then:

* **SignalAlertsProofs** `MailsPerLife` (`MailBound`), `NeverBoth`, `FileAtRest` (`DiskAtRest`),
  `BookIsKept` (`KeepsTheBook`). Types are proved together with `InMarket` (a scanner at work has a market left),
  because `Head(todo)` is typed only there. `MailBound` alone is not inductive: a delivery raises
  the count while `sent` stays. `MailInv` adds that an event under way is recorded (`Recorded`),
  that no mail of this life has delivered it (`FirstInLife`), that two scanners never mail the
  same event (`DistinctSends`: test and append of `_emit` are one step) and that untracked setups
  have no events (`NothingUntracked`); it does not use the lock. `NeverBoth` does: `StoryInv` adds
  that a scanner inside a scan holds the lock (`Exclusive`), and that an alert's events are those
  its status stands for, or will stand for when the mail under way returns (`OneStory`).
  `FileAtRest` is part of the same invariant: what is written is at rest when no mail is under way.
  The refinement adds `InTurn`: the targets above the last one an evaluation sent are still to come.
  With it the event that is due may follow on its page (`EmitFollows`), every step that sends is
  `Tell` (`TellStep`), and the lock is why no other mail is under way when it does.
* **ServerProofs**, the orders: `CapOvershoot` (`Overshoot`), `OneOrder` (`OneOrderPerRequest`),
  `PaperCap`. `CapInv` adds that nobody is admitted under a cap below one, and counts admitted
  requests with the library's cardinality theorems; `OnceInv`: an unsettled request has no order
  at the exchange; `PaperInv`: in paper mode no request waits, counter and book agree for their
  day, and no later day has orders.
* **TradingProofs**, the backtest: `EntryInWindow`, `StopsTighten` (`StopNeverLoosens`),
  `TradedAtMostOnce` (`PlanTradedOnce`), `TradesExplainCapital` (`CapitalExplained`). Types need `InWindow` and `Entered` (an open position has an entry).
  `OrdersInWindow`: pending orders are of plans detected in this test window and not expired.
  `StopsTighten` needs `EntryBeyondStop`, which limit and stop orders establish at the fill and
  market orders do not; the theorem says so in its hypothesis, and section 6 what happens
  otherwise. `OnceInv`: a plan is an
  order, then a position, then a trade, and windows that do not overlap do not share one.
  `TradesExplainCapital` is about a sum over the list of trades. The library defines it by a fold
  over a CHOOSEn function; **FiniteSums** shows that such a function exists (a least
  counterexample stands in for induction), that any two agree, and so what adding one element
  does to the sum (`SumIs`), and from that `SumAgree`, `SumSplit` and `SumOfCounts`: a set counted
  label by label is counted once. `Accounted` then says that the capital is explained by the trades listed and by what the open
  positions have booked so far, for any share taken at a target.
* **TradingProofs**, the decisions: `ScalpingNarrows` (`ScalpingIsStricter`), `ZonesHelp`
  (`ZonesOnlyHelp`), `TradesPayTwoToOne` (`TwoToOne`),
  `AgreementNeverHurts` (`AgreementHelps`). `AnswersOK` says that everything that has arrived is an
  answer of the chart's server. `FactorsGrow`: a model with floors no higher, or inputs with more
  zones, keeps every factor of confluence; `LevelGrows`: more factors keep the level of entry or
  lift it. `ScalpingNarrows` and the intraday half of `ZonesHelp` are its two instances. That the scores compared are integers for any
  candles needs the sums again (`TellsType`, `ScoreInt`, `ParticipationInt`). The institutional half
  follows the review of a trade: with more zones the reading loses nothing (`ReadingGrows`), every
  check that passed passes (`ChecksKept`), and the composite, the percentage whose logarithm is
  nearest to a weighted sum, falls with no factor, because the logarithms fall strictly (`LogFalls`,
  `PercentGrows`, `CompositeGrows`); so the score and with it the review stand (`ScoreGrows`,
  `TakesStill`). `FractionsNeverTrade` proves a remark of section 6 for every input. `TradesPayTwoToOne`
  follows the card: a trade has a setup, and the target is its own or lies twice the risk away whether
  the plan is taken or refused (`PlanPays`). Stop and target are measured for the side the setup
  names; that the side traded is another one is said apart, for a bullish setup sold. `AgreementNeverHurts` rests on `PointsMove`: turning trend and
  structure to one side takes no point from it and gives none to the other. `EveryExpiryOnce`
  (`ExpiresOnce`) argues on the holiday list of the code: the day before a holiday on a Tuesday or
  Thursday is open (`EveOpen`), so an expiry moves by one day and stays in its week, and the
  expiry a day shows is that day on one day of the week only (`WeeklyOfWeek`); the monthly ones
  are the last Tuesdays that are no holiday (`LastTuesdayIs`). Each is the day due or the last open
  one before it (`WeeklyRegular`, `MonthlyRegular`), save March 2026's, which the property names.
* **TerminalProofs**, the live stream: `OnlyOneStream` (`OneStream`), `StoppedIsQuiet`
  (`StoppedStaysQuiet`, with the quote after a refused tick as its one exception). `IInv` adds `StoppedIsLeft` (a stopped transport was connected and its
  socket is neither opening nor open); the action property follows from it, action by action.
* **TerminalProofs**, the desk: `ChoiceMovesOneChart` (`OneChartMoves`) from `ChartsOK`, which types
  the panes and says that the active pane is one of the layout: a choice that changes the URL shows
  in it (`ChoiceShows`), any other leaves the panes (`ChoiceGoes`); `ListsStayEqual` (`ListsAgree`),
  which is inductive as it stands once removal and insertion are known to keep lists duplicate-free.
* **TerminalProofs**, the demo server: `AnswersNeverGoBack` (`AnswersMoveForward`) from `DemoInv`: a
  load is the one in flight for its symbol and began no earlier than what was last served (`OneLoad`),
  and what is kept is what was served last (`KeptIsServed`). `BreaksAreNeverAhead` (`BreaksWereKnown`) follows `SessionOK` and what `BreaksAre`
  and `EventsAre` say of the analysis: an event is the index of a candle up to the bar shown.
  `KeptPlansHold` (`PlansHold`) is about the analysis of any candles: a block or a gap that is left
  has held at every later close (`BlockHolds`, `GapHolds`: an unfilled half bounds the close), so
  levels at a positive distance beyond it are in order and unmet (`LevelsHold`); a clear trend means
  that the last two swings of both kinds rise or fall, which are the very swings the labels compare
  (`NewestTwo`, `TrendLabels`).
* **ServerProofs**, the candle store: `HistoryIsFinal` (`HistoryFinal`), `OneParamsKept`. `IInv` adds that a
  download started at the first bar or one before a stored one (`StartBehindStored`), that an
  answer has no hole after its start and only its last bar may be forming (`AnswerWhole`), and that
  a run saving alone has marked all rows of other parameters (`SavingAlone`). `Write` is then a
  case split on whether a bar was stored before, accepted now, or refused for its price, bar by
  bar: an answer that overwrites one excuses no other.
* **ChartDrawingsProofs** `ShelfIsKept` (`KeepsTheShelf`), `ClickIsSpent` (`NoStrayAnchor`). The
  refinement is proved with one lemma per handler: under `TypeOK` each is a step of the shelf or
  leaves it alone. No stronger invariant is needed, because every store operation of the code
  maps over the drawings that are there. `MadeInv` ties the mark of a finished stroke to what the
  click that follows it finds.
* **BarsProofs**, the Replay Studio: `NoFutureReveal` (`FramesNotAhead`), `ReviewsLookBack` (`ReviewedWasSeen`).
  `StudioInv` is an invariant of the bag of requests: a call carries an answer only if its
  session has reached that bar (`CallsSound`), at most one handler is opening a session and it
  has a fresh one (`OneOpening`), what is on screen, stored or selected lies behind what was
  reached (`Reach`, `FramesNotAhead`, `StoredReached`, `SelectedReached`). Reached bars only grow, so answers stay sound
  however late they arrive; `CallsThen` and `CallsStarted` are the two lemmas every handler cites.
  `SelectedSeen`, inductive on top of it, relates the choice to the frame it was made on.
* **BarsProofs**, the live chart: `BarsAreConsecutive` (`NoHole`). `BoardInv` says the same of the
  server's rows, the cache and the series: their stamps, put back on the exchange's grid, are
  consecutive opens (`Grid`), and those of the server start with the first one (`FromStart`).
  Downloads keep that (`BroughtRows`, `UpsertedRows`); the rows stamped last are a run again
  (`LatestRows`), because a later bar has a later stamp (`LaterStamp`); and merging a price keeps it
  (`MergeGrid`), because two opens are a bar apart (`BarsApart`) and a price further off than one
  bar is not painted. `LeftInShape` follows a switch: the bars the symbol before left are still a run
  of its own opens, and the tip that replaces theirs opens with it, as long as the shapes agree. The
  bars are consecutive but for a short one (`Short`) that ends a session, which `liveCandle.ts:178`
  places between two opens when it is stamped after the close (`Misplaced`). Nothing is assumed of how
  the opens of two symbols lie to each other. `TimeframeAssumption` holds for every timeframe of the
  selector: a bar takes a day or is no longer than a night; with weekly bars of a stock, whose open
  is that of the day (`liveCandle.ts:76`), days could be painted as neighbours.
* **TradeJournalProofs** `EndsAtFirstTouch` (`ExitIsFirstTouch`), `WinsAfterEntry`
  (`WonMeansEntered`), `SettledStays` (`HistoryKept`), `LogIsFrozen` (`MissStands`). `JournalInv`
  strengthens the properties record by record: `FirstTouch` (an open trade has seen nothing
  beyond its levels, wherever they lie: no price leaves one open that sells a bullish setup), `SoundPlan` (an open plan has met nothing that ends one, a winner has
  entered), `SoundMiss`, and two facts about lists: `OnePlanEach` (a setup is tracked once per
  chart, without which moving a changed plan to the front could drop a settled one) and `InOrder`
  (event numbers fall down the list). The lemmas about `OnTop`, `Cut`, `Without` and `Map` say
  which members a list keeps. `BooksAlwaysBalance` (`BooksBalance`) is about the reports over any
  lists that satisfy `JournalInv`, which says for it that a closed trade has its exit price, a
  recorded miss its excursion, and which ends a plan may have. Each breakdown accounts for the rows
  it is made of (`TableCounts`, `PartsCount`: every row has one label, so `SumOfCounts` applies),
  every gain is in the total (`GainsWhole`), and the deepest fall of the results, which the code
  finds by walking from peak to peak, is the worst run of trades (`FallIsRun`, `LeastOf`:
  the lowest walk ends a run, and every run ends a walk).

The invariants were checked with TLC on their run's instance before they were proved.

**Only model-checked.** All liveness (`ScanAnswered`, `OrdersAnswered`, `CalmSettles`,
`TipSettles`, `EmptyChartFills`, `CatchesUp`, `PlayEnds`, `GoneIsLeft`, `Answered`): the prover has
neither `ENABLED` nor fairness. Every other property
of the runs is a theorem, under the hypotheses named above.

Some choices in the models exist for the provers: functions take one argument, lists remove an element by `RemoveAt` at the
one place an id has (the prover cannot expand `SelectSeq`), and no module with theorems uses a
`RECURSIVE` operator.

## 6 Where code, comments and documents disagree

Met while modelling; each can be read off the cited lines. Where a checked property meets one, the
property states it, as the exception in which less holds, so that its run reaches it and its
theorem covers it (marked P); the others are single steps or figures outside the models.

*Backtest and backend.* A market order filled beyond its own stop loosens the stop at break-even
(`trade_manager.py:22`, `execution.py:32`). After a partial exit the engine compares what is left
with the quantity just sold and subtracts it twice (`trade_manager.py:43`, `engine.py:113`,
against `docs/strategy-backtest/overview.md:86`), so the default of half closes all; and the `pnl`
of a position closed at the end of the data leaves out what its partial exits earned
(`engine.py:205`; P: `CapitalExplained`). The request schema accepts
`walk_forward_step_bars` 0, for which the window loop (`engine.py:72`) does not end. The last
equity point precedes the close-out (`engine.py:190`). The service trades the plans of earlier
runs too (`services/backtest.py:130`). Every detection run draws new setup ids, so `NEW_SIGNAL` is
mailed again for the same setup (`docs/email-alerts.md:3`). An order whose answer was lost is not
counted towards the daily cap (`docs/angel-trading.md:13`). A row computed from a forming bar is
never replaced by that of the final bar (`docs/fair-value-gaps/overview.md:120`). After a lasting
jump of more than 50% the validator refuses all later bars in every download
(`validator.py:87`, `market_data.py:182`). Two analysis runs with different parameters that save
together both survive the prune (`repositories/analysis_result.py:93`). A late download answer
overwrites newer candles, and a bar behind the newest two is not asked for again (P: `HistoryFinal`,
`CatchesUp`).

*Live chart.* A repaint of the tip only leaves the history of the old symbol when two cached
symbols have as many bars and the same tip time (`TerminalChart.tsx:482`; P: `NoHole`). A stopped
polling transport still asks for the quote after a refused tick (`transports.ts:163`; P:
`StoppedStaysQuiet`). Live ticks move the
bars of a running bar replay (`replayGuard.ts:2`), and `useDecision` runs in replay although the
pane says "AI paused — no future data". `marketPrice.ts:54` promises never to prefer a candle's
close over a newer quote, but a forming candle's future close time is cut to "now". The price of
another pane's symbol can be merged into a forming candle until the next repaint.

*Decisions.* `intradayDecision.ts:422` takes a setup to be bullish when its direction is "buy",
while the API and the demo server send "bullish" (`engines/trade_setup/types.py:24`,
`data.mjs:671`): intraday and scalping never buy on a setup, and may issue a bullish setup as
SELL with the stop below the entry. Trend confidences are read as percent although the API sends
fractions (`format.ts:11`), so institutional always waits there; the demo server's ratio is
always 2.0, below `MIN_RR` 2.2, so it waits there too and a 2.0 is never shown as its trade. Scalping
projects targets although `scalpGeometry.ts:3` says "Never invent TP just to pass RR" (P: the sale
and the projection, `TwoToOne`; the trade such a sale opens, `ExitIsFirstTouch`).
`expiryCalendar.ts:4` promises the previous weekday for a holiday; for the last Tuesday of March
2026 the monthly expiry moves a week (`:70`; P: `ExpiresOnce`).

*Records.* `personalityLearning.ts:155` promises one open snapshot per chart, which the cash close
duplicates; the follow-through rate of `:96` divides by fewer snapshots than it counts and can
exceed the 100 of `marketPersonality.ts:46`. A flip to WAIT cancels a plan that has already met
its stop. `completeTrade` rewrites every entry with the same id (`aiJournal.ts:138`). A new wait
record replaces a resolved miss of its side and day (`missedOpportunity.ts:242`). Lists cut at
500 may drop a trade that is still open.

*Replay, desk, drawings, demo server.* A setup can be reviewed after stepping back behind its bar
or opening another session (`ValidationPanel.tsx:56`, against `docs/validation/overview.md:19`; P:
`ReviewedWasSeen`), and the event list holds all future events from the start, against
`docs/replay-studio/overview.md:21`, which therefore is claimed of chart and inspector only
(`FramesNotAhead`). Choosing the symbol the URL already names moves no chart, although the pane in
view may show another (`useSelectSymbol.ts:24`, `TerminalPage.tsx:89`; P: `OneChartMoves`). `marketPrice.ts:53`
"Guarantees header and chart agree", but the header's name comes from the URL and its price from
the active pane. In focus mode the floating button opens an analysis strip that nothing renders.
Removing the last row of the watchlist seeds it again. The toolbar, the keys and a symbol switch
leave the shared anchor of a half-made drawing (`drawings.ts:90`). The demo server answers a
comparison from the load its invalidation should have replaced (`data.mjs:851`; what is proved of its
answers is that they never go back, not that they are fresh), never emits an
upward change of character, and stores every backtest as completed and empty.

## 7 What is left out

*In modelled components.* SignalAlerts: wording and recipients; rounding at the exact edge of
the bands. OrderExecution: cancel, quote and order-book calls (no endpoint reaches them).
BacktestEngine: percentages, ticks, the sizing formula, metrics. LiveStream: the latency lab.
ChartBoard: volume, the bar replay, overlays, markers, several timeframes at once. CandleStore:
explicit ranges, malformed rows, several plugins per run, the 3-minute aggregation; PostgreSQL's
read-committed visibility and row locks are modelled from how the code uses them and marked
external. ChartDrawings: geometry and painting. TradeJournal: texts, holding times. Decision
engine: texts, the life-cycle label of a plan, the triggers a WAIT names. ReplayStudio: the
content of a frame beyond its bar, the dashboard. Desk: overlays, chart types, widths, and the
store actions no component calls. DemoServer: quotes, indicator series, overlays, inspector,
dashboard, CORS, routing.

*Components.* `PROJECT.json` lists those not modelled with the reason. Setup detection, strategies
and the analyzers are thresholds over floating-point series that keep nothing between runs; the
backtest service is a loop around the engine; adapters and providers are HTTP and field mapping;
pages, schemas, declarations and launchers have no protocol.

*Earlier runs and properties* that said less than others were removed: separate runs for repeated
signals, lost orders and the far jump are now the prose of section 6; the runs of
one component were merged; `KillAdmitsNone`, `ClosedIsFinal`, `DailyCap`, `IncrementalIsBatch`,
`QuantityConserved` and the type invariants left the runs. `EntryWindow`, `PaperBookCounted` and
`OneParams` (whose two parameter sets the run no longer has) remain as proved theorems.

## 8 What is next

1. Abstract specifications proved step by step: an order ledger (a request adds at most one
   order, a day at most cap plus callers), an alert's life cycle up to deaths, a single stream.

## 9 Running it

In this directory:

    tlc -workers 2 -config MCCandleStore_store.cfg MCCandleStore
    tlapm ServerProofs.tla

The runs and their configurations, the theorems and the hazards are listed in `PROJECT.json`.
