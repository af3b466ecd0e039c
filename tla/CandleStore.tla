------------------------------ MODULE CandleStore ------------------------------
(***************************************************************************)
(* The candles of one symbol and timeframe and the analysis of them:       *)
(* incremental downloads (app/services/market_data.py, app/pipeline) and   *)
(* analysis runs (app/services/analysis.py) that share two tables of the   *)
(* database.                                                               *)
(*                                                                         *)
(* Requests run concurrently and each is one transaction.  A download      *)
(* reads the latest stored open time, asks the exchange from one bar       *)
(* before it, validates the answer and upserts.  An analysis run reads the *)
(* newest candles, computes a row per candle, inserts the rows that are    *)
(* not there yet and deletes those of other parameters.                    *)
(*                                                                         *)
(* The last bar of the exchange is forming until the next one opens.  A    *)
(* candle is represented by whether it shows its bar forming or final, an  *)
(* analysis row by which of the two it was computed from.                  *)
(***************************************************************************)
EXTENDS Integers, FiniteSets

CONSTANTS
    Workers,      \* requests that can be under way at a time
    NBars,        \* bound: bars the exchange opens
    Close,        \* close of each bar
    Params, NoParams,  \* parameters (or versions) of the plugin
    Window        \* candle_limit

Bars == 1..NBars
Missing == 0
Forming == 1
Final == 2
States == {Missing, Forming, Final}
NoCandles == [b \in Bars |-> Missing]

ASSUME BarsAssumption == NBars \in Nat \ {0}
ASSUME CloseAssumption == Close \in [Bars -> Nat \ {0}]
ASSUME WindowAssumption == Window \in Nat \ {0}
ASSUME ParamsAssumption == NoParams \notin Params

VARIABLES
    last, closed,    \* the exchange: its last bar; the session has ended
    candle,          \* table candles: what is stored of each bar
    row,             \* table analysis_results, per parameters: what was analysed
    stage,           \* per request: idle, asking, writing, computing or saving
    since,           \* start of a download
    batch,           \* candles a request has fetched or read
    params,          \* parameters of an analysis run
    changed,         \* rows an analysis run has inserted or deleted and not committed
    regressed,       \* history: bars whose candle an upsert has replaced by an older state
    crossed          \* history: two analysis runs have been saving together

market == <<last, closed>>
work == <<stage, since, batch, params, changed>>
storeVars == <<market, candle, row, work, regressed, crossed>>

StoreInit ==
    /\ last = 1 /\ closed = FALSE
    /\ candle = NoCandles
    /\ row = [p \in Params |-> NoCandles]
    /\ stage = [w \in Workers |-> "idle"]
    /\ since = [w \in Workers |-> 1]
    /\ batch = [w \in Workers |-> NoCandles]
    /\ params = [w \in Workers |-> NoParams]
    /\ changed = [w \in Workers |-> {}]
    /\ regressed = {} /\ crossed = FALSE

Stored == {b \in Bars : candle[b] # Missing}
Fetched(w) == {b \in Bars : batch[w][b] # Missing}

\* The request ends, and with it the session and what it held.
Finish(w) ==
    /\ stage' = [stage EXCEPT ![w] = "idle"]
    /\ since' = [since EXCEPT ![w] = 1]
    /\ batch' = [batch EXCEPT ![w] = NoCandles]
    /\ params' = [params EXCEPT ![w] = NoParams]
    /\ changed' = [changed EXCEPT ![w] = {}]

-----------------------------------------------------------------------------
(* The exchange.                                                           *)

OpenBar ==
    /\ last < NBars
    /\ last' = last + 1
    /\ UNCHANGED <<closed, candle, row, work, regressed, crossed>>

CloseSession ==
    /\ last = NBars
    /\ ~closed
    /\ closed' = TRUE
    /\ UNCHANGED <<last, candle, row, work, regressed, crossed>>

Shown(b) ==
    IF b > last THEN Missing ELSE IF b = last /\ ~closed THEN Forming ELSE Final

-----------------------------------------------------------------------------
(* download_candles.                                                       *)

IsLatest(b) == b \in Stored /\ \A c \in Stored : c <= b

\* Mutant: the download starts after the latest stored bar.
StartsMutant(s) ==
    \/ Stored = {} /\ s = 1
    \/ \E b \in Stored : IsLatest(b) /\ s = b + 1

\* Without candles from the default lookback (before bar 1), else from one bar
\* before the latest.
Starts(s) ==
    \/ Stored = {} /\ s = 1
    \/ \E b \in Stored : IsLatest(b) /\ s = IF b = 1 THEN 1 ELSE b - 1

StartDownload(w) ==
    /\ stage[w] = "idle"
    /\ \E s \in 1..NBars + 1 : Starts(s) /\ since' = [since EXCEPT ![w] = s]
    /\ stage' = [stage EXCEPT ![w] = "asking"]
    /\ UNCHANGED <<market, candle, row, batch, params, changed, regressed, crossed>>

\* The adapter's answer, which may lag behind the exchange: bars since[w] to b.
Answer(w, b) ==
    /\ stage[w] = "asking"
    /\ b <= last
    /\ batch' = [batch EXCEPT ![w] = [c \in Bars |-> IF c \in since[w]..b THEN Shown(c)
                                                    ELSE Missing]]
    /\ stage' = [stage EXCEPT ![w] = "writing"]
    /\ UNCHANGED <<market, candle, row, since, params, changed, regressed, crossed>>

\* A change of the close by more than max_price_change_pct.
Far(b, c) ==
    \/ 100 * (Close[c] - Close[b]) > 50 * Close[b]
    \/ 100 * (Close[b] - Close[c]) > 50 * Close[b]

Before(A, b, c) == b \in A /\ b < c /\ \A d \in A : d < c => d <= b

\* validate_batch keeps of B exactly the bars that are not far from the last bar
\* kept before them.
ValidBatch(A, B) ==
    \A c \in B : c \in A <=> \A b \in A : Before(A, b, c) => ~Far(b, c)

\* Mutant: the conflict leaves the stored candle alone.
UpsertMutant(w, A) ==
    [b \in Bars |-> IF b \in A /\ candle[b] = Missing THEN batch[w][b] ELSE candle[b]]

Upsert(w, A) == [b \in Bars |-> IF b \in A THEN batch[w][b] ELSE candle[b]]

Write(w) ==
    /\ stage[w] = "writing"
    /\ \E A \in SUBSET Fetched(w) :
          /\ ValidBatch(A, Fetched(w))
          /\ candle' = Upsert(w, A)
          /\ regressed' = regressed \cup {b \in A : batch[w][b] < candle[b]}
    /\ Finish(w)
    /\ UNCHANGED <<market, row, crossed>>

-----------------------------------------------------------------------------
(* execute of the analysis service.                                        *)

\* get_candles_for_analysis: the newest Window candles.
Newest(b) == Cardinality({c \in Stored : c > b}) < Window

StartAnalysis(w, p) ==
    /\ stage[w] = "idle"
    /\ Stored # {}
    /\ batch' = [batch EXCEPT ![w] = [b \in Bars |-> IF Newest(b) THEN candle[b] ELSE Missing]]
    /\ params' = [params EXCEPT ![w] = p]
    /\ stage' = [stage EXCEPT ![w] = "computing"]
    /\ UNCHANGED <<market, candle, row, since, changed, regressed, crossed>>

Saving == {w \in Workers : stage[w] = "saving"}

\* Rows of other parameters that are committed.
StaleRows(p) ==
    {k \in Params \X Bars : k[1] # p /\ row[k[1]][k[2]] # Missing}

OwnRows(w) == {params[w]} \X Fetched(w)

\* Another run has inserted or deleted, and not committed, a row this one is to insert
\* or delete: PostgreSQL makes it wait.
Locked(w) ==
    \E v \in Saving \ {w} : changed[v] \cap (OwnRows(w) \cup StaleRows(params[w])) # {}

\* bulk_insert_results (ON CONFLICT DO NOTHING) with prune_stale_plugin_runs, before
\* the commit.
Save(w) ==
    /\ stage[w] = "computing"
    /\ ~Locked(w)
    /\ changed' = [changed EXCEPT ![w] =
          StaleRows(params[w]) \cup {k \in OwnRows(w) : row[k[1]][k[2]] = Missing}]
    /\ crossed' = (crossed \/ Saving # {})
    /\ stage' = [stage EXCEPT ![w] = "saving"]
    /\ UNCHANGED <<market, candle, row, since, batch, params, regressed>>

RowsAfter(w, p, b) ==
    IF <<p, b>> \notin changed[w] THEN row[p][b]
    ELSE IF p = params[w] THEN batch[w][b] ELSE Missing

Commit(w) ==
    /\ stage[w] = "saving"
    /\ row' = [p \in Params |-> [b \in Bars |-> RowsAfter(w, p, b)]]
    /\ Finish(w)
    /\ UNCHANGED <<market, candle, regressed, crossed>>

\* A timeout of the adapter, a plugin error, a full disk: the session rolls back.
RollBack(w) ==
    /\ stage[w] # "idle"
    /\ Finish(w)
    /\ UNCHANGED <<market, candle, row, regressed, crossed>>

-----------------------------------------------------------------------------
StoreNext ==
    \/ OpenBar
    \/ CloseSession
    \/ \E w \in Workers :
          \/ StartDownload(w)
          \/ \E b \in 0..NBars : Answer(w, b)
          \/ Write(w)
          \/ \E p \in Params : StartAnalysis(w, p)
          \/ Save(w)
          \/ Commit(w)
          \/ RollBack(w)

StoreSpec == StoreInit /\ [][StoreNext]_storeVars

\* The terminal's intervals download again and again, the exchange answers in full
\* again and again, and full answers are written again and again (strong fairness:
\* any attempt may fail, and the requests may all be busy); of the requests that only
\* wait for the database one goes on; a session that has come to its last bar
\* ends.
Fairness ==
    /\ WF_storeVars(CloseSession)
    /\ SF_storeVars(\E w \in Workers : StartDownload(w))
    /\ SF_storeVars(\E w \in Workers : Answer(w, last))
    /\ SF_storeVars(\E w \in Workers : Write(w) /\ last \in Fetched(w))
    /\ WF_storeVars(\E w \in Workers : Write(w) \/ Save(w) \/ Commit(w))

FairStoreSpec == StoreSpec /\ Fairness

-----------------------------------------------------------------------------
(* Properties.                                                             *)

StoreTypeOK ==
    /\ last \in Bars /\ closed \in BOOLEAN
    /\ candle \in [Bars -> States]
    /\ row \in [Params -> [Bars -> States]]
    /\ stage \in [Workers -> {"idle", "asking", "writing", "computing", "saving"}]
    /\ since \in [Workers -> Bars]
    /\ batch \in [Workers -> [Bars -> States]]
    /\ params \in [Workers -> Params \cup {NoParams}]
    /\ changed \in [Workers -> SUBSET ((Params \cup {NoParams}) \X Bars)]
    /\ regressed \subseteq Bars /\ crossed \in BOOLEAN

\* A candle with a later one stored is closed for good: it is left out or left forming
\* in the history only if a late answer overwrote this very candle, or if its close is
\* far from an earlier one, so that the validator refused it.
HistoryFinal ==
    \A b \in Bars \ regressed :
        (\E c \in Stored : b < c) =>
            candle[b] = Final \/ \E d \in 1..b - 1 : Far(d, b)

\* Unless two runs were saving together, the table holds rows of one set of
\* parameters only ("Keep only the current plugin version+params").
OneParams ==
    ~crossed => \A p, q \in Params : p = q \/ row[p] = NoCandles \/ row[q] = NoCandles

\* However downloads fail, lag, overlap and write over each other, the table ends with what
\* the exchange shows, be it a bar the validator refuses, whose close is far from an
\* earlier one.  The newest two bars are asked for by every download, so that they catch
\* up even when a late answer overwrote them; a bar further back that one overwrote is
\* not asked for again.
CatchesUp ==
    <>[](\A b \in Bars :
            \/ candle[b] = Shown(b)
            \/ \E d \in 1..b - 1 : Far(d, b)
            \/ b \in regressed /\ \E c \in Stored : b + 1 < c)

=============================================================================
