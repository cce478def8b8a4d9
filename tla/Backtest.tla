------------------------------- MODULE Backtest -------------------------------
(***************************************************************************)
(* The test of a strategy on a series of prices: the frame is prepared     *)
(* (direction, indicators, columns), marked with the strategy's signals    *)
(* and walked through row by row by a trade.                               *)
(*                                                                         *)
(* src/ holds the parts (src/strategy, src/technicals) and neither a       *)
(* concrete strategy nor the loop over the rows.  A strategy is here a     *)
(* rule that answers to the direction of a row, and the loop the one Trade *)
(* is made for: it opens one at a BUY, shows it every later row until the  *)
(* next one is opened, and closes by force what is open at the end.        *)
(***************************************************************************)
EXTENDS Technicals

CONSTANTS
    Bars,           \* the rows there may be, with natural numbers as prices
    Length,         \* of the series that is tested
    Plans,          \* the lists of indicators a strategy may have
    ProfitFactor,   \* TPSLParms, rationals
    LossFactor

ASSUME BacktestAssumption ==
    /\ Bars \subseteq {b \in [open : Nat, high : Nat, low : Nat, close : Nat] :
                           /\ b.low <= b.open /\ b.open <= b.high
                           /\ b.low <= b.close /\ b.close <= b.high}
    /\ Length \in Nat
    /\ Plans \subseteq Seq([name : {"BollingerBands", "ATR", "KeltnerChannels", "RSI", "MACD",
                                    "EMA", "MA", "BIAS", "Engulfing"},
                            n : Nat \ {0}])

VARIABLES
    bars,       \* the rows of the price table, oldest first
    plan,       \* IStrategy.indicators
    rule,       \* the strategy: does it buy a rise or a fall
    shifted,    \* is_shift_signal
    frame,      \* the frame prepared from the rows
    row,        \* how many rows the loop has seen
    trade       \* the last trade that was opened, <<>> before the first

vars == <<bars, plan, rule, shifted, frame, row, trade>>

BUY == 1
SELL == -1
NONE == 0

-----------------------------------------------------------------------------
(* The frame *)

Apply(ind, df) ==
    CASE ind.name = "EMA" -> EMA(df, ind.n)
      [] ind.name = "MA" -> MA(df, ind.n)
      [] ind.name = "ATR" -> ATR(df, ind.n)
      [] ind.name = "RSI" -> RSI(df, ind.n)
      [] ind.name = "BIAS" -> BIAS(df, ind.n)
      [] ind.name = "BollingerBands" -> BollingerBands(df, ind.n)
      [] ind.name = "KeltnerChannels" -> KeltnerChannels(df, ind.n, ind.n)
      [] ind.name = "MACD" -> MACD(df, ind.n, ind.n - 1, ind.n)
      [] ind.name = "Engulfing" -> Engulfing(df, Rational(11, 10))

(* IndicatorInfo.display_name                                              *)
DisplayNames(ind) ==
    CASE ind.name = "BollingerBands" -> {Name("BB_MA"), Name("BB_VAR")}
      [] ind.name = "KeltnerChannels" -> {Name("KeUp"), Name("KeLo")}
      [] ind.name = "MACD" -> {Name("MACD"), Name("MACD_SIGNAL"), Name("HIST")}
      [] ind.name = "Engulfing" -> {Name("ENGULFING")}
      [] OTHER -> {<<ind.name, ind.n>>}

DefaultColumns == {Name(c) : c \in {"open", "high", "low", "close", "direction"}}

Source(series) ==
    [c \in DefaultColumns \ {Name("direction")} |-> Column(series, c[1])]

(* Unlike the direction of CandleProps, an unchanged price has none.       *)
add_direction(df) ==
    Assign(df, Name("direction"),
           Combine(LAMBDA c, o : Cell(IF Less(o, c) THEN 1 ELSE IF Less(c, o) THEN -1 ELSE 0),
                   Close(df), Open(df)))

(* All indicators in their order, each on the frame the others left.       *)
Prepared(series, indicators) ==
    LET ana[i \in 0 .. Len(indicators)] ==
            IF i = 0 THEN add_direction(Source(series)) ELSE Apply(indicators[i], ana[i - 1])
    IN  ana

(* Of them only the columns that are named, and no signal yet.             *)
pre_process_data(series, indicators) ==
    LET ana == Prepared(series, indicators)[Len(indicators)]
        kept == DefaultColumns
                  \union UNION {DisplayNames(indicators[i]) : i \in DOMAIN indicators}
    IN  Assign([c \in kept |-> ana[c]], Name("SIGNAL"),
               [t \in DOMAIN series |-> Cell(NONE)])

_apply_signal(direction) ==
    IF direction = Cell(NONE) THEN direction ELSE Times(Cell(rule), direction)

(* Mutant of excute_trade_mark: the flag is not looked at.                 *)
MutantExcute(df, shift) ==
    Assign(df, Name("SIGNAL"), [t \in DOMAIN Open(df) |-> _apply_signal(df[Name("direction")][t])])

(* A shifted signal is that of the row before.  The fillna that replaces   *)
(* the first row's missing signal replaces what is missing in any column.  *)
excute_trade_mark(df, shift) ==
    LET marked == Assign(df, Name("SIGNAL"),
                         [t \in DOMAIN Open(df) |-> _apply_signal(df[Name("direction")][t])])
        late == [marked EXCEPT ![Name("SIGNAL")] = Shift(@, 1)]
    IN  IF ~ shift
        THEN marked
        ELSE [c \in DOMAIN late |->
                 [t \in DOMAIN late[c] |-> Fill(late[c][t], Cell(NONE))]]

Marked == excute_trade_mark(frame, shifted)

SignalAt(t) == Marked[Name("SIGNAL")][t]

-----------------------------------------------------------------------------
(* The trade *)

(* Mutant of Factor: the change instead of the price after it.             *)
MutantFactor(signal, price, factor) ==
    IF signal # Cell(NONE) THEN Times(price, factor) ELSE Cell(0)

Factor(signal, price, factor) ==
    IF signal # Cell(NONE) THEN Times(price, Plus(Cell(1), factor)) ELSE Cell(0)

apply_take_profit(signal, price) == Factor(signal, price, ProfitFactor)
apply_stop_loss(signal, price) == Factor(signal, price, LossFactor)

NewTrade(t) ==
    LET price == Cell(bars[t].open)
        signal == SignalAt(t)
    IN  [running |-> TRUE, start_index |-> t, start_price |-> price,
         TP |-> apply_take_profit(signal, price), SL |-> apply_stop_loss(signal, price),
         close_index |-> 0, close_price |-> NaN,
         total_return |-> NaN, total_return_rate |-> NaN]

(* A trade that is closed by force keeps the state of a running one.       *)
close_trade(tr, t, price, is_force_closed) ==
    LET gain == Minus(price, tr.start_price)
    IN  [tr EXCEPT !.running = tr.running /\ is_force_closed,
                   !.close_index = t,
                   !.close_price = price,
                   !.total_return = gain,
                   !.total_return_rate =
                       IF tr.start_price = Cell(0) THEN Cell(0) ELSE Over(gain, tr.start_price)]

(* Mutant of update: a closed trade is updated as well.                    *)
MutantUpdate(tr, t) ==
    LET high == Cell(bars[t].high)
        low == Cell(bars[t].low)
        selling == SignalAt(t) = Cell(SELL)
    IN  CASE selling /\ AtMost(tr.TP, high) -> close_trade(tr, t, high, FALSE)
          [] selling /\ ~ AtMost(tr.TP, high) /\ AtMost(low, tr.SL) ->
                close_trade(tr, t, low, FALSE)
          [] OTHER -> tr

update(tr, t) ==
    LET high == Cell(bars[t].high)
        low == Cell(bars[t].low)
        selling == tr.running /\ SignalAt(t) = Cell(SELL)
    IN  CASE selling /\ AtMost(tr.TP, high) -> close_trade(tr, t, high, FALSE)
          [] selling /\ ~ AtMost(tr.TP, high) /\ AtMost(low, tr.SL) ->
                close_trade(tr, t, low, FALSE)
          [] OTHER -> tr

(* The row of the report: a number that is zero is reported as missing.    *)
to_dataframe(tr) ==
    LET OrNone(x) == IF x = Cell(0) THEN NaN ELSE x
    IN  [status |-> IF tr.running THEN "open" ELSE "close",
         start_index |-> tr.start_index, close_index |-> tr.close_index,
         total_return |-> OrNone(tr.total_return),
         total_return_rate |-> OrNone(tr.total_return_rate)]

Running == trade # <<>> /\ trade[1].running

-----------------------------------------------------------------------------
Init ==
    /\ bars = <<>>
    /\ plan \in Plans
    /\ rule \in {1, -1}
    /\ shifted \in BOOLEAN
    /\ frame = pre_process_data(<<>>, plan)
    /\ row = 0
    /\ trade = <<>>

(* The price table grows by a day.                                         *)
NewBar ==
    /\ Len(bars) < Length
    /\ \E b \in Bars : bars' = Append(bars, b)
    /\ frame' = pre_process_data(bars', plan)
    /\ UNCHANGED <<plan, rule, shifted, row, trade>>

Walk(tr) ==
    /\ Len(bars) = Length /\ row < Length
    /\ row' = row + 1
    /\ trade' = tr
    /\ UNCHANGED <<bars, plan, rule, shifted, frame>>

OpenTrade ==
    /\ ~ Running
    /\ row < Len(bars) /\ SignalAt(row + 1) = Cell(BUY)
    /\ Walk(<<NewTrade(row + 1)>>)

UpdateTrade ==
    /\ trade # <<>>
    /\ row < Len(bars) /\ (Running \/ SignalAt(row + 1) # Cell(BUY))
    /\ Walk(<<update(trade[1], row + 1)>>)

Idle ==
    /\ trade = <<>>
    /\ row < Len(bars) /\ SignalAt(row + 1) # Cell(BUY)
    /\ Walk(trade)

ForceClose ==
    /\ Running /\ row = Length /\ trade[1].close_index = 0
    /\ trade' = <<close_trade(trade[1], row, Cell(bars[row].close), TRUE)>>
    /\ UNCHANGED <<bars, plan, rule, shifted, frame, row>>

Next == NewBar \/ OpenTrade \/ UpdateTrade \/ Idle \/ ForceClose

Spec == Init /\ [][Next]_vars

-----------------------------------------------------------------------------
(* Properties.  The frame of a prefix is that of an earlier state, so that *)
(* what is said of its last row is said of every row.                      *)

Today == Len(bars)
Growing == bars # <<>> /\ row = 0

(* The frame if the last row had been b.                                   *)
Otherwise(b) == pre_process_data([bars EXCEPT ![Today] = b], plan)

(* A new day never changes what the frame says of an earlier one: no       *)
(* column, shift, window or fill reads a later row (strategy/base.py,      *)
(* indicator.py).                                                          *)
NoLookAhead ==
    [][\A c \in DOMAIN Marked : \A t \in DOMAIN bars : Marked'[c][t] = Marked[c][t]]_bars

(* With shifted signals ("the next day acts on the signal of the day       *)
(* before", excute_trade_mark) no price of a row decides whether a trade   *)
(* is opened at that row's own opening price.                              *)
EntryIsBlind ==
    Growing /\ shifted =>
        \A b \in Bars :
            excute_trade_mark(Otherwise(b), TRUE)[Name("SIGNAL")][Today] = SignalAt(Today)

(* An indicator shows its own numbers, whatever other indicators have left *)
(* in the frame before it: the averages they share by name agree.          *)
ColumnsAreTheirOwn ==
    Growing =>
        \A i \in DOMAIN plan :
            LET own == Apply(plan[i], Source(bars))
            IN  \A c \in DisplayNames(plan[i]) : frame[c][Today] = own[c][Today]

(* The row of the first value of a column, when there are enough prices.   *)
FirstValue(ind, c) ==
    CASE ind.name = "RSI" -> ind.n + 1
      [] c \in {Name("MACD_SIGNAL"), Name("HIST")} -> 2 * ind.n - 1
      [] c = Name("ENGULFING") -> 1
      [] OTHER -> ind.n

Moved == \E t \in 2 .. Today : bars[t].close # bars[t - 1].close

(* A column begins with the first row that has its whole period behind it, *)
(* neither earlier nor later, and has no hole then; only the RSI of a      *)
(* price that never moved divides zero by zero.                            *)
WarmUpIsExact ==
    Growing =>
        \A i \in DOMAIN plan : \A c \in DisplayNames(plan[i]) :
            frame[c][Today] # NaN <=>
                /\ Today >= FirstValue(plan[i], c)
                /\ plan[i].name = "RSI" => Moved

(* The bottom and the top of a body lie in order on the candle, and a      *)
(* rounded body is as long as they are apart, up to half a hundredth.  The *)
(* patterns, which compare the rounded body and the unrounded ends with    *)
(* their limits, name no row that the exact body would not, no candle      *)
(* without a range, and no row as two of the three small bodies            *)
(* (apply_candle_props, pattern.py).                                       *)
CandlesAreSound ==
    Growing =>
        LET p == CandleProps(bars[Today])
            length == Minus(p.body_top_perc, p.body_bottom_perc)
            exact == [p EXCEPT !.body_perc = length]
            flat == bars[Today].high = bars[Today].low
        IN  /\ AtMost(Cell(0), p.body_bottom_perc)
            /\ AtMost(p.body_bottom_perc, p.body_top_perc)
            /\ AtMost(p.body_top_perc, Cell(100))
            /\ ~ flat => AtMost(Distance(length, p.body_perc), Rational(1, 200))
            /\ apply_marubozu(p) => ~ flat /\ apply_marubozu(exact)
            /\ apply_hanging_man(p) => ~ flat /\ apply_hanging_man(exact)
            /\ apply_shooting_star(p) => ~ flat /\ apply_shooting_star(exact)
            /\ apply_spinning_top(p) => ~ flat /\ apply_spinning_top(exact)
            /\ ~ (apply_hanging_man(p) /\ apply_shooting_star(p))
            /\ ~ (apply_spinning_top(p) /\ (apply_hanging_man(p) \/ apply_shooting_star(p)))

(* The pattern of pattern.py and the indicator of indicator.py, which      *)
(* compute directions and sizes each for itself, name the same rows.       *)
EngulfingAgrees ==
    Growing =>
        LET props(t) == CandleProps(bars[t])
            directions == Shift([t \in DOMAIN bars |-> Cell(props(t).direction)], 1)
            sizes == Shift([t \in DOMAIN bars |-> props(t).body_size], 1)
        IN  Engulfing(Source(bars), Rational(11, 10))[Name("ENGULFING")][Today] = Cell(1)
            <=> apply_engulfing(props(Today), directions[Today], sizes[Today])

(* A trade that is reported as closed has reached a limit: it returned the *)
(* profit factor or more, or lost the loss factor or more, never on the    *)
(* row it was opened on, and the report has the number.                    *)
TradesSettleAtALimit ==
    trade # <<>> =>
        LET report == to_dataframe(trade[1])
        IN  report.status = "close" =>
                /\ report.close_index > report.start_index
                /\ \/ AtMost(ProfitFactor, report.total_return_rate)
                   \/ AtMost(report.total_return_rate, LossFactor)

(* A closed trade is never touched again; the next one starts later.       *)
ClosedIsFinal ==
    [][trade # <<>> /\ trade[1].close_index # 0 =>
          trade' = trade \/ trade'[1].start_index > trade[1].close_index]_vars

=============================================================================
