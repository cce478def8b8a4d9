---------------------------- MODULE BacktestProofs ----------------------------
(***************************************************************************)
(* Theorems about Backtest for every series of prices, strategy, list of   *)
(* indicators and limits.                                                  *)
(***************************************************************************)
EXTENDS Backtest, TechnicalsProofs

-----------------------------------------------------------------------------
(***************************************************************************)
(* The trade                                                               *)
(***************************************************************************)
TradeFields == {"running", "start_index", "start_price", "TP", "SL", "close_index",
                "close_price", "total_return", "total_return_rate"}

\* A trade of which n rows were seen.
TradeOf(tr, n) ==
    /\ DOMAIN tr = TradeFields /\ tr = [f \in TradeFields |-> tr[f]]
    /\ tr.running \in BOOLEAN /\ tr.start_index \in 1 .. n /\ tr.close_index \in 0 .. n
    /\ ~ tr.running => tr.close_index # 0

\* Nothing is closed at a row that was not seen, and what is closed and still
\* running was closed by force, when no row was left.
TradeInv ==
    /\ row \in Nat
    /\ trade # <<>> =>
          /\ trade = <<trade[1]>> /\ TradeOf(trade[1], row)
          /\ trade[1].close_index # 0 /\ trade[1].running => row = Length

LEMMA TradeInit == Init => TradeInv
  BY DEF Init, TradeInv

LEMMA NewTradeIsOpen ==
    ASSUME NEW t \in Nat \ {0}
    PROVE  /\ TradeOf(NewTrade(t), t)
           /\ NewTrade(t).running /\ NewTrade(t).close_index = 0 /\ NewTrade(t).start_index = t
  BY DEF NewTrade, TradeOf, TradeFields

\* The two ways to close a trade.
ByForce(tr, t, price) == close_trade(tr, t, price, TRUE)
ByLimit(tr, t, price) == close_trade(tr, t, price, FALSE)

LEMMA ForcedTrade ==
    ASSUME NEW n \in Nat, NEW tr, TradeOf(tr, n), NEW t \in 1 .. n, NEW price,
           NEW new, new = ByForce(tr, t, price)
    PROVE  TradeOf(new, n)
<1>1. DOMAIN new = TradeFields /\ new = [f \in TradeFields |-> new[f]]
  BY DEF ByForce, close_trade, TradeOf, TradeFields
<1>2. new.start_index = tr.start_index /\ new.close_index = t
  BY DEF ByForce, close_trade, TradeOf, TradeFields
<1>3. new.running \in BOOLEAN
  BY DEF ByForce, close_trade, TradeOf, TradeFields
<1> QED
  BY <1>1, <1>2, <1>3 DEF TradeOf

LEMMA ClosedTrade ==
    ASSUME NEW n \in Nat, NEW tr, TradeOf(tr, n), NEW t \in 1 .. n, NEW price,
           NEW new, new = ByLimit(tr, t, price)
    PROVE  TradeOf(new, n) /\ ~ new.running
<1>1. DOMAIN new = TradeFields /\ new = [f \in TradeFields |-> new[f]]
  BY DEF ByLimit, close_trade, TradeOf, TradeFields
<1>2. new.start_index = tr.start_index /\ new.close_index = t
  BY DEF ByLimit, close_trade, TradeOf, TradeFields
<1>3. new.running \in BOOLEAN /\ ~ new.running
  BY DEF ByLimit, close_trade, TradeOf, TradeFields
<1> QED
  BY <1>1, <1>2, <1>3 DEF TradeOf

\* A row closes a running trade, at this row, or leaves the trade alone.
LEMMA UpdateCloses ==
    ASSUME NEW n \in Nat, NEW tr, TradeOf(tr, n), NEW t \in 1 .. n,
           NEW new, new = update(tr, t)
    PROVE  \/ new = tr
           \/ tr.running /\ TradeOf(new, n) /\ ~ new.running
<1>1. new = tr \/ tr.running
  BY DEF update
<1>2. CASE new = ByLimit(tr, t, Cell(bars[t].high))
  BY <1>1, <1>2, ClosedTrade
<1>3. CASE new = ByLimit(tr, t, Cell(bars[t].low))
  BY <1>1, <1>3, ClosedTrade
<1>4. CASE new = tr
  BY <1>4
<1> QED
  BY <1>2, <1>3, <1>4 DEF update, ByLimit

LEMMA MoreRows ==
    ASSUME NEW n \in Nat, NEW tr, TradeOf(tr, n)
    PROVE  TradeOf(tr, n + 1)
  BY DEF TradeOf

LEMMA TradeStep == TradeInv /\ [Next]_vars => TradeInv'
<1> SUFFICES ASSUME TradeInv, [Next]_vars PROVE TradeInv'
  OBVIOUS
<1>1. CASE UNCHANGED <<row, trade>>
  BY <1>1 DEF TradeInv
<1>2. CASE OpenTrade
  <2>1. PICK t \in Nat \ {0} : t = row + 1
    BY DEF TradeInv
  <2>2. row' = t /\ trade' = <<NewTrade(t)>>
    BY <1>2, <2>1 DEF OpenTrade, Walk
  <2> QED
    BY <2>1, <2>2, NewTradeIsOpen DEF TradeInv
<1>3. CASE UpdateTrade
  <2>1. PICK tr : tr = trade[1] /\ TradeOf(tr, row) /\ trade = <<tr>>
    BY <1>3 DEF UpdateTrade, TradeInv
  <2>2. row \in Nat /\ row < Length /\ row' = row + 1 /\ trade' = <<update(tr, row + 1)>>
    BY <1>3, <2>1, BacktestAssumption DEF UpdateTrade, Walk, TradeInv
  <2>3. TradeOf(tr, row + 1) /\ row + 1 \in 1 .. row + 1
    BY <2>1, <2>2, MoreRows
  <2>4. PICK new : new = update(tr, row + 1)
    OBVIOUS
  <2>5. new = tr \/ (TradeOf(new, row + 1) /\ ~ new.running)
    BY <2>2, <2>3, <2>4, UpdateCloses
  <2> QED
    BY <1>3, <2>1, <2>2, <2>3, <2>4, <2>5 DEF TradeInv
<1>4. CASE Idle
  BY <1>4 DEF Idle, Walk, TradeInv
<1>5. CASE ForceClose
  <2>1. PICK tr : tr = trade[1] /\ TradeOf(tr, row) /\ row \in Nat
    BY <1>5 DEF ForceClose, Running, TradeInv
  <2>2. PICK new : new = ByForce(tr, row, Cell(bars[row].close))
    OBVIOUS
  <2>3. trade' = <<new>> /\ row' = row /\ row = Length
    BY <1>5, <2>1, <2>2 DEF ForceClose, ByForce
  <2>4. TradeOf(new, row)
    BY <2>1, <2>2, ForcedTrade DEF TradeOf
  <2> QED
    BY <2>1, <2>3, <2>4 DEF TradeInv
<1> QED
  BY <1>1, <1>2, <1>3, <1>4, <1>5 DEF Next, NewBar, vars

\* A closed trade is final, however it was closed: no later row and no later
\* call touches it, and the next one starts at a row after it.
THEOREM ClosedIsFinalHolds == Spec => ClosedIsFinal
<1> DEFINE Final == trade # <<>> /\ trade[1].close_index # 0 =>
                        trade' = trade \/ trade'[1].start_index > trade[1].close_index
<1>1. TradeInv /\ [Next]_vars => [Final]_vars
  <2> SUFFICES ASSUME TradeInv, Next, trade # <<>>, trade[1].close_index # 0
               PROVE  trade' = trade \/ trade'[1].start_index > trade[1].close_index
    OBVIOUS
  <2>1. PICK tr : tr = trade[1] /\ TradeOf(tr, row) /\ trade = <<tr>> /\ row \in Nat
    BY DEF TradeInv
  <2>2. CASE OpenTrade
    <3>1. trade' = <<NewTrade(row + 1)>>
      BY <2>2 DEF OpenTrade, Walk
    <3>2. NewTrade(row + 1).start_index = row + 1
      BY <2>1, NewTradeIsOpen
    <3> QED
      BY <2>1, <3>1, <3>2 DEF TradeOf
  <2>3. CASE UpdateTrade
    <3>1. row < Length /\ trade' = <<update(tr, row + 1)>>
      BY <2>1, <2>3 DEF UpdateTrade, Walk
    <3>2. ~ tr.running
      BY <2>1, <3>1, BacktestAssumption DEF TradeInv, TradeOf
    <3>3. TradeOf(tr, row + 1) /\ row + 1 \in 1 .. row + 1
      BY <2>1, MoreRows
    <3>4. update(tr, row + 1) = tr
      BY <2>1, <3>2, <3>3, UpdateCloses
    <3> QED
      BY <2>1, <3>1, <3>4
  <2>4. CASE NewBar \/ Idle \/ ForceClose
    BY <2>4 DEF NewBar, Idle, Walk, ForceClose
  <2> QED
    BY <2>2, <2>3, <2>4 DEF Next
<1> HIDE DEF Final
<1>2. Spec => [][Final]_vars
  BY <1>1, TradeInit, TradeStep, PTL DEF Spec
<1> QED
  BY <1>2 DEF ClosedIsFinal, Final

-----------------------------------------------------------------------------
(***************************************************************************)
(* The rows and their candles                                              *)
(***************************************************************************)
LEMMA BarsAreBars == ASSUME NEW b \in Bars PROVE BarOf(b)
  BY BacktestAssumption DEF BarOf

\* The frame is always prepared from the rows.
FrameInv ==
    /\ bars \in Seq(Bars) /\ plan \in Plans
    /\ frame = pre_process_data(bars, plan)

LEMMA FrameInit == Init => FrameInv
  BY DEF Init, FrameInv

LEMMA FrameStep == FrameInv /\ [Next]_vars => FrameInv'
<1> SUFFICES ASSUME FrameInv, [Next]_vars PROVE FrameInv'
  OBVIOUS
<1>1. CASE NewBar
  <2>1. PICK b \in Bars : bars' = Append(bars, b)
    BY <1>1 DEF NewBar
  <2> QED
    BY <1>1, <2>1 DEF NewBar, FrameInv
<1>2. CASE UNCHANGED <<bars, plan, frame>>
  BY <1>2 DEF FrameInv
<1> QED
  BY <1>1, <1>2 DEF Next, OpenTrade, UpdateTrade, Idle, ForceClose, Walk, vars

LEMMA TodaysBar ==
    ASSUME FrameInv, Growing
    PROVE  /\ Today \in Nat \ {0} /\ DOMAIN bars = 1 .. Today
           /\ \A t \in 1 .. Today : BarOf(bars[t])
<1>1. bars \in Seq(Bars) /\ bars # <<>>
  BY DEF FrameInv, Growing
<1>2. Today \in Nat \ {0} /\ DOMAIN bars = 1 .. Today
  BY <1>1 DEF Today
<1>3. \A t \in 1 .. Today : bars[t] \in Bars
  BY <1>1, <1>2
<1> QED
  BY <1>2, <1>3, BarsAreBars

LEMMA FrameHolds == Spec => []FrameInv
  BY FrameInit, FrameStep, PTL DEF Spec

\* Whatever prices a row has, the rounded body of its candle is half a hundredth
\* or less from the distance of the unrounded ends; rounding turns no candle into
\* a pattern, no candle without a range is one, and none is two of the three with
\* a small body: apply_candle_props and the patterns of pattern.py.
THEOREM CandlesAreSoundHolds == Spec => []CandlesAreSound
<1>1. FrameInv => CandlesAreSound
  <2> SUFFICES ASSUME FrameInv, Growing PROVE Sound(bars[Today])
    BY DEF CandlesAreSound, Sound
  <2> QED
    BY TodaysBar, CandleIsSound
<1> QED
  BY <1>1, FrameHolds, PTL

LEMMA SourceColumns ==
    ASSUME NEW series
    PROVE  /\ DOMAIN Source(series) = {Name("open"), Name("high"), Name("low"), Name("close")}
           /\ Open(Source(series)) = [t \in DOMAIN series |-> Cell(series[t].open)]
           /\ High(Source(series)) = [t \in DOMAIN series |-> Cell(series[t].high)]
           /\ Low(Source(series)) = [t \in DOMAIN series |-> Cell(series[t].low)]
           /\ Close(Source(series)) = [t \in DOMAIN series |-> Cell(series[t].close)]
<1>1. /\ Name("open")[1] = "open" /\ Name("high")[1] = "high" /\ Name("low")[1] = "low"
      /\ Name("close")[1] = "close"
  BY DEF Name
<1>2. DefaultColumns \ {Name("direction")} = {Name("open"), Name("high"), Name("low"), Name("close")}
  BY DEF DefaultColumns, Name
<1> QED
  BY <1>1, <1>2 DEF Source, Open, High, Low, Close, Column

\* The pattern of pattern.py and the indicator of indicator.py name the same rows
\* as engulfing: the direction and the size each computes for itself agree.
THEOREM EngulfingAgreesHolds == Spec => []EngulfingAgrees
<1>1. ASSUME FrameInv, Growing
      PROVE  LET props(t) == CandleProps(bars[t])
                 directions == Shift([t \in DOMAIN bars |-> Cell(props(t).direction)], 1)
                 sizes == Shift([t \in DOMAIN bars |-> props(t).body_size], 1)
             IN  Engulfing(Source(bars), Rational(11, 10))[Name("ENGULFING")][Today] = Cell(1)
                 <=> apply_engulfing(props(Today), directions[Today], sizes[Today])
  <2> DEFINE n == Today
             D(t) == IF bars[t].close >= bars[t].open THEN Cell(1) ELSE Cell(-1)
             S(t) == Cell(Body(bars[t]))
             df == Source(bars)
             diff == Combine(Minus, Close(df), Open(df))
             size == Combine(Distance, Close(df), Open(df))
             direction == [t \in DOMAIN diff |-> IF Less(diff[t], Cell(0)) THEN Cell(-1) ELSE Cell(1)]
             directions == Shift([t \in DOMAIN bars |-> Cell(CandleProps(bars[t]).direction)], 1)
             sizes == Shift([t \in DOMAIN bars |-> CandleProps(bars[t]).body_size], 1)
  <2>1. n \in Nat \ {0} /\ DOMAIN bars = 1 .. n /\ \A t \in 1 .. n : BarOf(bars[t])
    BY <1>1, TodaysBar
  <2>2. diff = [t \in 1 .. n |-> Cell(bars[t].close - bars[t].open)]
    <3>1. diff = [t \in 1 .. n |-> Minus(Cell(bars[t].close), Cell(bars[t].open))]
      BY <2>1, SourceColumns DEF Combine
    <3>2. \A t \in 1 .. n : Minus(Cell(bars[t].close), Cell(bars[t].open)) =
                                Cell(bars[t].close - bars[t].open)
      <4>1. \A t \in 1 .. n : bars[t].close \in Int /\ bars[t].open \in Int
        BY <2>1 DEF BarOf
      <4> QED
        BY <4>1, WholeDifference
    <3> QED
      BY <3>1, <3>2
  <2>3. size = [t \in 1 .. n |-> S(t)]
    <3>1. size = [t \in 1 .. n |-> Distance(Cell(bars[t].close), Cell(bars[t].open))]
      BY <2>1, SourceColumns DEF Combine
    <3> QED
      BY <2>1, <3>1, WholeDistance
  <2>4. direction = [t \in 1 .. n |-> D(t)]
    <3>1. ASSUME NEW t \in 1 .. n
          PROVE  (IF Less(diff[t], Cell(0)) THEN Cell(-1) ELSE Cell(1)) = D(t)
      <4>1. PICK c \in Int, o \in Int : c = bars[t].close /\ o = bars[t].open
        BY <2>1 DEF BarOf
      <4>2. PICK x \in Int : x = c - o
        OBVIOUS
      <4>3. Less(Cell(x), Cell(0)) <=> x < 0
        BY WholeComparison
      <4>4. diff[t] = Cell(x)
        BY <2>2, <4>1, <4>2
      <4> QED
        BY <4>1, <4>2, <4>3, <4>4
    <3>2. DOMAIN diff = 1 .. n
      BY <2>2
    <3> HIDE DEF diff, D
    <3> QED
      BY <3>1, <3>2
  <2>5. \A t \in 1 .. n : /\ Cell(CandleProps(bars[t]).direction) = D(t)
                          /\ CandleProps(bars[t]).body_size = S(t)
    BY <2>1, CandleOf
  <2>6. directions = Shift(direction, 1) /\ sizes = Shift(size, 1)
    BY <2>1, <2>3, <2>4, <2>5
  <2>7. Engulfing(df, Rational(11, 10))[Name("ENGULFING")][n] =
           IF /\ Shift(direction, 1)[n] \notin {direction[n], NaN}
              /\ Less(Times(Shift(size, 1)[n], Rational(11, 10)), size[n])
           THEN Cell(1) ELSE Cell(0)
    <3> DEFINE found == [t \in DOMAIN diff |->
                            IF /\ Shift(direction, 1)[t] \notin {direction[t], NaN}
                               /\ Less(Times(Shift(size, 1)[t], Rational(11, 10)), size[t])
                            THEN Cell(1) ELSE Cell(0)]
    <3>1. Engulfing(df, Rational(11, 10)) = Assign(df, Name("ENGULFING"), found)
      BY DEF Engulfing
    <3>2. n \in DOMAIN diff
      BY <2>1, <2>2
    <3> HIDE DEF diff, direction, size, df
    <3>3. found[n] = IF /\ Shift(direction, 1)[n] \notin {direction[n], NaN}
                        /\ Less(Times(Shift(size, 1)[n], Rational(11, 10)), size[n])
                     THEN Cell(1) ELSE Cell(0)
      BY <3>2
    <3> HIDE DEF found
    <3>4. Assign(df, Name("ENGULFING"), found)[Name("ENGULFING")] = found
      BY DEF Assign
    <3>5. Engulfing(df, Rational(11, 10))[Name("ENGULFING")][n] = found[n]
      BY <3>1, <3>4
    <3> QED
      BY <3>3, <3>5
  <2> DEFINE p == Shift(direction, 1)[n]
             q == Shift(size, 1)[n]
  <2>8. apply_engulfing(CandleProps(bars[n]), directions[n], sizes[n]) <=>
           direction[n] # p /\ Less(Times(q, Rational(11, 10)), size[n])
    <3>1. Cell(CandleProps(bars[n]).direction) = direction[n] /\ CandleProps(bars[n]).body_size = size[n]
      BY <2>1, <2>3, <2>4, <2>5
    <3> HIDE DEF direction, size, directions, sizes
    <3> QED
      BY <2>6, <3>1 DEF apply_engulfing
  <2>9. p = NaN => ~ Less(Times(q, Rational(11, 10)), size[n])
    <3>1. n - 1 \in 1 .. n => p = D(n - 1)
      BY <2>1, <2>4 DEF Shift
    <3>2. D(n - 1) # NaN
      BY CellIs
    <3>3. p = NaN => q = NaN
      BY <2>1, <2>3, <3>1, <3>2 DEF Shift
    <3>4. ~ Less(Times(NaN, Rational(11, 10)), size[n])
      BY DEF Times, Less, Missing
    <3> QED
      BY <3>3, <3>4
  <2>10. Cell(1) # Cell(0)
    BY DEF Cell
  <2> HIDE DEF directions, sizes, p, q, direction, size, diff, df
  <2>11. Engulfing(df, Rational(11, 10))[Name("ENGULFING")][n] =
           IF p \notin {direction[n], NaN} /\ Less(Times(q, Rational(11, 10)), size[n])
           THEN Cell(1) ELSE Cell(0)
    BY <2>7 DEF p, q
  <2>12. Engulfing(df, Rational(11, 10))[Name("ENGULFING")][n] = Cell(1) <=>
            apply_engulfing(CandleProps(bars[n]), directions[n], sizes[n])
    BY <2>8, <2>9, <2>10, <2>11
  <2> QED
    BY <2>12 DEF directions, sizes, df
<1>2. FrameInv => EngulfingAgrees
  BY <1>1 DEF EngulfingAgrees
<1> QED
  BY <1>2, FrameHolds, PTL

-----------------------------------------------------------------------------
(***************************************************************************)
(* A trade settles at a limit                                              *)
(***************************************************************************)

\* Rows have prices, and the limits are above and below the price of entry.
PricesArePositive == \A b \in Bars : b.open > 0
LimitsAreApart ==
    /\ IsFraction(ProfitFactor) /\ Less(Cell(0), ProfitFactor)
    /\ IsFraction(LossFactor) /\ Less(LossFactor, Cell(0))

LEMMA LimitOf ==
    ASSUME NEW o \in Int, NEW n \in Int, NEW d \in Nat \ {0}
    PROVE  Times(Cell(o), Plus(Cell(1), Rational(n, d))) = Rational(o * (d + n), d)
<1>1. Plus(Rational(1, 1), Rational(n, d)) = Rational(1 * d + n * 1, 1 * d)
  BY SumOf
<1>2. 1 * d + n * 1 = d + n /\ 1 * d = d /\ d + n \in Int
  OBVIOUS
<1>3. Times(Rational(o, 1), Rational(d + n, d)) = Rational(o * (d + n), 1 * d)
  BY <1>2, ProductOf
<1> QED
  BY <1>1, <1>2, <1>3, CellIs

LEMMA RateOf ==
    ASSUME NEW o \in Nat \ {0}, NEW h \in Int
    PROVE  Over(Minus(Cell(h), Cell(o)), Cell(o)) = Rational(h - o, o)
<1>1. PICK x \in Int : x = h - o
  OBVIOUS
<1>2. Over(Rational(x, 1), Rational(o, 1)) = Rational(x * 1, 1 * o)
  BY QuotientOf
<1>3. x * 1 = x /\ 1 * o = o
  OBVIOUS
<1> QED
  BY <1>1, <1>2, <1>3, CellIs, WholeDifference

\* A price at a limit has returned the factor the limit was set by.
LEMMA LimitIsReached ==
    ASSUME NEW o \in Nat \ {0}, NEW h \in Int, NEW f, IsFraction(f),
           NEW limit, limit = Times(Cell(o), Plus(Cell(1), f)),
           NEW rate, rate = Over(Minus(Cell(h), Cell(o)), Cell(o))
    PROVE  /\ AtMost(limit, Cell(h)) <=> AtMost(f, rate)
           /\ AtMost(Cell(h), limit) <=> AtMost(rate, f)
<1>1. PICK n \in Int, d \in Nat \ {0} : f = Rational(n, d)
  BY DEF IsFraction
<1>2. PICK x \in Int, y \in Int : x = h - o /\ y = o * (d + n)
  OBVIOUS
<1>3. limit = Rational(y, d) /\ rate = Rational(x, o) /\ Cell(h) = Rational(h, 1)
  <2>1. Times(Cell(o), Plus(Cell(1), Rational(n, d))) = Rational(o * (d + n), d)
    BY LimitOf
  <2>2. rate = Rational(h - o, o)
    BY RateOf
  <2> QED
    BY <1>1, <1>2, <2>1, <2>2, CellIs
<1>4. /\ AtMost(limit, Cell(h)) <=> y * 1 <= h * d
      /\ AtMost(Cell(h), limit) <=> h * d <= y * 1
  BY <1>2, <1>3, Comparison
<1>5. /\ AtMost(f, rate) <=> n * o <= x * d
      /\ AtMost(rate, f) <=> x * d <= n * o
  BY <1>1, <1>2, <1>3, Comparison
<1>6. h * d - y = x * d - n * o
  BY <1>2
<1>7. PICK a, b, c, e : a = h * d /\ b = y * 1 /\ c = x * d /\ e = n * o
  OBVIOUS
<1>8. a \in Int /\ b \in Int /\ c \in Int /\ e \in Int /\ a - b = c - e
  BY <1>2, <1>6, <1>7
<1> QED
  BY <1>4, <1>5, <1>7, <1>8

LEMMA RateIsNotZero ==
    ASSUME NEW f, IsFraction(f), NEW o \in Nat \ {0}, NEW h \in Int,
           NEW rate, rate = Over(Minus(Cell(h), Cell(o)), Cell(o)),
           \/ Less(Cell(0), f) /\ AtMost(f, rate)
           \/ Less(f, Cell(0)) /\ AtMost(rate, f)
    PROVE  rate # Cell(0)
<1>1. PICK n \in Int, d \in Nat \ {0} : f = Rational(n, d)
  BY DEF IsFraction
<1>2. Cell(0) = Rational(0, 1)
  BY CellIs
<1>3. /\ Less(Cell(0), f) <=> 0 * d < n * 1
      /\ Less(f, Cell(0)) <=> n * 1 < 0 * d
      /\ AtMost(f, Cell(0)) <=> n * 1 <= 0 * d
      /\ AtMost(Cell(0), f) <=> 0 * d <= n * 1
  BY <1>1, <1>2, Comparison
<1> QED
  BY <1>3

\* A trade that was opened at the price o.
LimitsFrom(tr, o) ==
    /\ tr.start_price = Cell(o)
    /\ tr.TP = Times(Cell(o), Plus(Cell(1), ProfitFactor))
    /\ tr.SL = Times(Cell(o), Plus(Cell(1), LossFactor))

Settled(tr) ==
    /\ tr.close_index > tr.start_index
    /\ tr.total_return_rate # Cell(0)
    /\ AtMost(ProfitFactor, tr.total_return_rate) \/ AtMost(tr.total_return_rate, LossFactor)

SettleInv ==
    trade # <<>> =>
        /\ \E o \in Nat \ {0} : LimitsFrom(trade[1], o)
        /\ ~ trade[1].running => Settled(trade[1])

LEMMA NewLimits ==
    ASSUME PricesArePositive, NEW t, bars[t] \in Bars, SignalAt(t) = Cell(BUY)
    PROVE  \E o \in Nat \ {0} : LimitsFrom(NewTrade(t), o)
<1>1. PICK o \in Nat \ {0} : o = bars[t].open
  BY BarsAreBars DEF PricesArePositive, BarOf
<1>2. Cell(BUY) # Cell(NONE)
  BY DEF Cell, BUY, NONE
<1>3. LimitsFrom(NewTrade(t), o)
  BY <1>1, <1>2 DEF LimitsFrom, NewTrade, apply_take_profit, apply_stop_loss, Factor
<1> QED
  BY <1>3

\* What a limit closes has settled.
LEMMA LimitSettles ==
    ASSUME LimitsAreApart, NEW n \in Nat, NEW tr, TradeOf(tr, n), NEW t \in Nat, n < t,
           NEW o \in Nat \ {0}, LimitsFrom(tr, o), NEW h \in Int,
           AtMost(tr.TP, Cell(h)) \/ AtMost(Cell(h), tr.SL),
           NEW new, new = ByLimit(tr, t, Cell(h))
    PROVE  LimitsFrom(new, o) /\ Settled(new)
<1>1. /\ new.start_price = tr.start_price /\ new.TP = tr.TP /\ new.SL = tr.SL
      /\ new.start_index = tr.start_index /\ new.close_index = t
  BY DEF ByLimit, close_trade, TradeOf, TradeFields
<1>2. Cell(o) # Cell(0)
  BY DEF Cell
<1>3. PICK rate : rate = Over(Minus(Cell(h), Cell(o)), Cell(o))
  OBVIOUS
<1>4. new.total_return_rate = rate
  BY <1>2, <1>3 DEF ByLimit, close_trade, TradeOf, TradeFields, LimitsFrom
<1>5. AtMost(ProfitFactor, rate) \/ AtMost(rate, LossFactor)
  BY <1>3, LimitIsReached DEF LimitsFrom, LimitsAreApart
<1>6. rate # Cell(0)
  BY <1>3, <1>5, RateIsNotZero DEF LimitsAreApart
<1> QED
  BY <1>1, <1>4, <1>5, <1>6 DEF LimitsFrom, Settled, TradeOf

LEMMA UpdateSettles ==
    ASSUME LimitsAreApart, NEW n \in Nat, NEW tr, TradeOf(tr, n), NEW t \in Nat, n < t,
           BarOf(bars[t]), NEW o \in Nat \ {0}, LimitsFrom(tr, o),
           ~ tr.running => Settled(tr), NEW new, new = update(tr, t)
    PROVE  LimitsFrom(new, o) /\ (~ new.running => Settled(new))
<1>1. PICK h \in Int, l \in Int : h = bars[t].high /\ l = bars[t].low
  BY DEF BarOf
<1>2. CASE AtMost(tr.TP, Cell(h)) /\ new = ByLimit(tr, t, Cell(h))
  BY <1>2, LimitSettles
<1>3. CASE AtMost(Cell(l), tr.SL) /\ new = ByLimit(tr, t, Cell(l))
  BY <1>3, LimitSettles
<1>4. CASE new = tr
  BY <1>4
<1> QED
  BY <1>1, <1>2, <1>3, <1>4 DEF update, ByLimit

LEMMA SettleStep ==
    ASSUME PricesArePositive, LimitsAreApart
    PROVE  FrameInv /\ TradeInv /\ SettleInv /\ [Next]_vars => SettleInv'
<1> SUFFICES ASSUME FrameInv, TradeInv, SettleInv, [Next]_vars PROVE SettleInv'
  OBVIOUS
<1>1. CASE UNCHANGED trade
  BY <1>1 DEF SettleInv
<1>2. ASSUME NEW tr, Walk(tr)
      PROVE  /\ trade' = tr /\ row \in Nat /\ row + 1 \in DOMAIN bars
             /\ bars[row + 1] \in Bars /\ BarOf(bars[row + 1])
  <2>1. trade' = tr /\ Len(bars) = Length /\ row < Length
    BY <1>2 DEF Walk
  <2>2. row \in Nat /\ bars \in Seq(Bars)
    BY DEF FrameInv, TradeInv
  <2>3. row + 1 \in DOMAIN bars /\ bars[row + 1] \in Bars
    BY <2>1, <2>2
  <2> QED
    BY <2>1, <2>2, <2>3, BarsAreBars
<1>3. CASE OpenTrade
  <2>1. PICK t : t = row + 1
    OBVIOUS
  <2>2. trade' = <<NewTrade(t)>> /\ bars[t] \in Bars /\ SignalAt(t) = Cell(BUY) /\ t \in Nat \ {0}
    BY <1>2, <1>3, <2>1 DEF OpenTrade
  <2>3. PICK o \in Nat \ {0} : LimitsFrom(NewTrade(t), o)
    BY <2>2, NewLimits
  <2>4. NewTrade(t).running
    BY <2>2, NewTradeIsOpen
  <2> QED
    BY <2>2, <2>3, <2>4 DEF SettleInv
<1>4. CASE UpdateTrade
  <2>1. PICK tr : tr = trade[1] /\ trade # <<>>
    BY <1>4 DEF UpdateTrade
  <2>2. PICK o \in Nat \ {0} : LimitsFrom(tr, o)
    BY <2>1 DEF SettleInv
  <2>3. PICK t : t = row + 1
    OBVIOUS
  <2>4. /\ trade' = <<update(tr, t)>> /\ BarOf(bars[t])
        /\ t \in Nat /\ row \in Nat /\ row < t
    BY <1>2, <1>4, <2>1, <2>3 DEF UpdateTrade
  <2>5. TradeOf(tr, row) /\ (~ tr.running => Settled(tr))
    BY <2>1 DEF TradeInv, SettleInv
  <2>6. PICK new : new = update(tr, t)
    OBVIOUS
  <2>7. LimitsFrom(new, o) /\ (~ new.running => Settled(new))
    BY <2>2, <2>4, <2>5, <2>6, UpdateSettles
  <2> QED
    BY <2>4, <2>6, <2>7 DEF SettleInv
<1>5. CASE ForceClose
  <2>1. PICK tr : tr = trade[1] /\ trade # <<>> /\ tr.running /\ TradeOf(tr, row)
    BY <1>5 DEF ForceClose, Running, TradeInv
  <2>2. PICK o \in Nat \ {0} : LimitsFrom(tr, o)
    BY <2>1 DEF SettleInv
  <2>3. PICK new : new = ByForce(tr, row, Cell(bars[row].close))
    OBVIOUS
  <2>4. trade' = <<new>>
    BY <1>5, <2>1, <2>3 DEF ForceClose, ByForce
  <2>5. new.running /\ LimitsFrom(new, o)
    BY <2>1, <2>2, <2>3 DEF ByForce, close_trade, TradeOf, TradeFields, LimitsFrom
  <2> QED
    BY <2>4, <2>5 DEF SettleInv
<1> QED
  BY <1>1, <1>3, <1>4, <1>5 DEF Next, NewBar, Idle, Walk, vars

\* A trade that is reported as closed has returned its profit factor or more, or
\* lost its loss factor or more, after the row it was opened on (Trade.update and
\* close_trade).  TPSLParms takes any two numbers: the limits have to be on either
\* side of the price, and a price of zero is reported as a missing return.
THEOREM TradesSettleAtALimitHolds ==
    ASSUME PricesArePositive, LimitsAreApart
    PROVE  Spec => []TradesSettleAtALimit
<1>1. Init => SettleInv
  BY DEF Init, SettleInv
<1>2. SettleInv => TradesSettleAtALimit
  BY DEF SettleInv, TradesSettleAtALimit, to_dataframe, Settled
<1>3. Spec => []TradeInv
  BY TradeInit, TradeStep, PTL DEF Spec
<1>4. FrameInv /\ TradeInv /\ SettleInv /\ [Next]_vars => SettleInv'
  BY SettleStep
<1> QED
  BY <1>1, <1>2, <1>3, <1>4, FrameHolds, PTL DEF Spec

-----------------------------------------------------------------------------
(***************************************************************************)
(* The frame does not look ahead                                           *)
(***************************************************************************)
\* What a strategy may list.
Indicators == [name : {"BollingerBands", "ATR", "KeltnerChannels", "RSI", "MACD",
                       "EMA", "MA", "BIAS", "Engulfing"},
               n : Nat \ {0}]

LEMMA AlikeApply ==
    ASSUME NEW k \in Nat, NEW l \in Nat, NEW m \in Nat, m <= k, m <= l, NEW df, NEW eg,
           Alike(df, eg, k, l, m), NEW ind \in Indicators
    PROVE  Alike(Apply(ind, df), Apply(ind, eg), k, l, m)
<1>1. PICK n \in Nat : n = ind.n
  BY DEF Indicators
<1>2. CASE ind.name = "EMA"
  BY <1>1, <1>2, AlikeEMA DEF Apply
<1>3. CASE ind.name = "MA"
  BY <1>1, <1>3, AlikeMA DEF Apply
<1>4. CASE ind.name = "ATR"
  BY <1>1, <1>4, AlikeATR DEF Apply
<1>5. CASE ind.name = "RSI"
  BY <1>1, <1>5, AlikeRSI DEF Apply
<1>6. CASE ind.name = "BIAS"
  BY <1>1, <1>6, AlikeBIAS DEF Apply
<1>7. CASE ind.name = "BollingerBands"
  BY <1>1, <1>7, AlikeBollinger DEF Apply
<1>8. CASE ind.name = "KeltnerChannels"
  BY <1>1, <1>8, AlikeKeltner DEF Apply
<1>9. CASE ind.name = "MACD"
  BY <1>1, <1>9, AlikeMACD DEF Apply
<1>10. CASE ind.name = "Engulfing"
  BY <1>1, <1>10, AlikeEngulfing DEF Apply
<1> QED
  BY <1>2, <1>3, <1>4, <1>5, <1>6, <1>7, <1>8, <1>9, <1>10 DEF Indicators

\* An indicator leaves all columns in the frame and adds those it names.
LEMMA AppliedColumns ==
    ASSUME NEW df, NEW ind \in Indicators
    PROVE  DOMAIN df \cup DisplayNames(ind) \subseteq DOMAIN Apply(ind, df)
<1>1. PICK n : n = ind.n
  OBVIOUS
<1>2. CASE ind.name = "EMA"
  BY <1>2 DEF Apply, DisplayNames, EMA, Assign
<1>3. CASE ind.name = "MA"
  BY <1>3 DEF Apply, DisplayNames, MA, Assign
<1>4. CASE ind.name = "ATR"
  BY <1>4 DEF Apply, DisplayNames, ATR, Assign
<1>5. CASE ind.name = "RSI"
  BY <1>5 DEF Apply, DisplayNames, RSI, Assign
<1>6. CASE ind.name = "BIAS"
  BY <1>6 DEF Apply, DisplayNames, BIAS, EMA, Assign
<1>7. CASE ind.name = "BollingerBands"
  BY <1>7 DEF Apply, DisplayNames, BollingerBands, Assign
<1>8. CASE ind.name = "KeltnerChannels"
  BY <1>8 DEF Apply, DisplayNames, KeltnerChannels, ATR, EMA, Assign
<1>9. CASE ind.name = "MACD"
  BY <1>9 DEF Apply, DisplayNames, MACD, Assign
<1>10. CASE ind.name = "Engulfing"
  BY <1>10 DEF Apply, DisplayNames, Engulfing, Assign
<1> QED
  BY <1>2, <1>3, <1>4, <1>5, <1>6, <1>7, <1>8, <1>9, <1>10 DEF Indicators

LEMMA PlansAreIndicators ==
    ASSUME NEW p \in Plans
    PROVE  /\ p \in Seq(Indicators) /\ Len(p) \in Nat /\ DOMAIN p = 1 .. Len(p)
           /\ \A i \in 1 .. Len(p) : p[i] \in Indicators
<1>1. p \in Seq(Indicators)
  BY BacktestAssumption DEF Indicators
<1> QED
  BY <1>1

\* The recursion over the indicators: there is such a function.
PreparedBy(series, inds, n, f) ==
    \A i \in 0 .. n : f[i] = IF i = 0 THEN add_direction(Source(series))
                             ELSE Apply(inds[i], f[i - 1])

LEMMA PreparedStep ==
    ASSUME NEW series, NEW p \in Plans
    PROVE  PreparedBy(series, p, Len(p), Prepared(series, p))
<1> DEFINE T == {n \in Nat : \E f : PreparedBy(series, p, n, f)}
           k == Len(p)
<1>0. k \in Nat
  BY PlansAreIndicators
<1>1. 0 \in T
  <2>1. PreparedBy(series, p, 0, [i \in 0 .. 0 |-> add_direction(Source(series))])
    BY DEF PreparedBy
  <2> QED
    BY <2>1
<1>2. ASSUME NEW n \in Nat, n \in T PROVE n + 1 \in T
  <2>1. PICK f : PreparedBy(series, p, n, f)
    BY <1>2
  <2> DEFINE g == [i \in 0 .. n + 1 |-> IF i = n + 1 THEN Apply(p[n + 1], f[n]) ELSE f[i]]
  <2>2. PreparedBy(series, p, n + 1, g)
    BY <2>1 DEF PreparedBy
  <2> QED
    BY <2>2
<1> HIDE DEF T, k
<1>3. k \in T
  BY <1>0, <1>1, <1>2, AllNumbers
<1>4. PICK f : PreparedBy(series, p, k, f)
  BY <1>3 DEF T
<1> DEFINE g == [i \in 0 .. k |-> f[i]]
<1>5. g = [i \in 0 .. k |-> IF i = 0 THEN add_direction(Source(series)) ELSE Apply(p[i], g[i - 1])]
  BY <1>0, <1>4 DEF PreparedBy
<1> HIDE DEF g
<1>6. Prepared(series, p) =
         [i \in 0 .. k |-> IF i = 0 THEN add_direction(Source(series))
                           ELSE Apply(p[i], Prepared(series, p)[i - 1])]
  BY <1>5 DEF Prepared, k
<1> QED
  BY <1>6 DEF PreparedBy, k

LEMMA PreparedColumns ==
    ASSUME NEW series, NEW p \in Plans, NEW i \in 0 .. Len(p)
    PROVE  /\ DefaultColumns \subseteq DOMAIN Prepared(series, p)[i]
           /\ \A j \in 1 .. i : DisplayNames(p[j]) \subseteq DOMAIN Prepared(series, p)[i]
<1> DEFINE Q(n) == /\ DefaultColumns \subseteq DOMAIN Prepared(series, p)[n]
                   /\ \A j \in 1 .. n : DisplayNames(p[j]) \subseteq DOMAIN Prepared(series, p)[n]
           T == {n \in Nat : n <= Len(p) => Q(n)}
<1>1. PreparedBy(series, p, Len(p), Prepared(series, p)) /\ Len(p) \in Nat
  BY PreparedStep, PlansAreIndicators
<1>2. 0 \in T
  <2>1. Prepared(series, p)[0] = add_direction(Source(series))
    BY <1>1 DEF PreparedBy
  <2>2. DefaultColumns \subseteq DOMAIN add_direction(Source(series))
    BY SourceColumns DEF add_direction, Assign, DefaultColumns, Name
  <2> QED
    BY <2>1, <2>2
<1>3. ASSUME NEW n \in Nat, n \in T PROVE n + 1 \in T
  <2> SUFFICES ASSUME n + 1 <= Len(p) PROVE Q(n + 1)
    OBVIOUS
  <2>1. Q(n)
    BY <1>1, <1>3
  <2>2. Prepared(series, p)[n + 1] = Apply(p[n + 1], Prepared(series, p)[n])
    BY <1>1 DEF PreparedBy
  <2>3. p[n + 1] \in Indicators
    BY PlansAreIndicators
  <2>4. DOMAIN Prepared(series, p)[n] \cup DisplayNames(p[n + 1]) \subseteq DOMAIN Prepared(series, p)[n + 1]
    BY <2>2, <2>3, AppliedColumns
  <2>5. \A j \in 1 .. n + 1 : j \in 1 .. n \/ j = n + 1
    OBVIOUS
  <2> QED
    BY <2>1, <2>4, <2>5
<1> HIDE DEF T, Q
<1>4. i \in T
  BY <1>1, <1>2, <1>3, AllNumbers
<1>5. Q(i)
  BY <1>1, <1>4 DEF T
<1> QED
  BY <1>5 DEF Q

\* Two series that agree on their first m rows.
Agree(x, y, k, l, m) == DOMAIN x = 1 .. k /\ DOMAIN y = 1 .. l /\ \A t \in 1 .. m : x[t] = y[t]

LEMMA AlikeSource ==
    ASSUME NEW k \in Nat, NEW l \in Nat, NEW m \in Nat, m <= k, m <= l, NEW x, NEW y,
           Agree(x, y, k, l, m)
    PROVE  Alike(add_direction(Source(x)), add_direction(Source(y)), k, l, m)
<1>1. ASSUME NEW f PROVE Twin(Column(x, f), Column(y, f), k, l, m)
  BY DEF Agree, Twin, Col, Column
<1>2. Alike(Source(x), Source(y), k, l, m)
  <2>1. DOMAIN Source(x) = DOMAIN Source(y) /\ Prices \subseteq DOMAIN Source(x)
    BY SourceColumns DEF Prices
  <2>2. \A c \in DOMAIN Source(x) : Twin(Source(x)[c], Source(y)[c], k, l, m)
    BY <1>1 DEF Source
  <2> QED
    BY <2>1, <2>2 DEF Alike
<1>3. Twin(Close(Source(x)), Close(Source(y)), k, l, m) /\ Twin(Open(Source(x)), Open(Source(y)), k, l, m)
  BY <1>2, AlikePrices
<1> DEFINE Way(c, o) == Cell(IF Less(o, c) THEN 1 ELSE IF Less(c, o) THEN -1 ELSE 0)
           Ways(df) == [t \in DOMAIN Close(df) |-> Way(Close(df)[t], Open(df)[t])]
<1>4. \A df : add_direction(df) = Assign(df, Name("direction"), Ways(df))
  BY DEF add_direction, Combine
<1> HIDE DEF Way
<1>5. Twin(Ways(Source(x)), Ways(Source(y)), k, l, m)
  <2>1. DOMAIN Close(Source(x)) = 1 .. k /\ DOMAIN Close(Source(y)) = 1 .. l
    BY <1>3, ColumnLength DEF Twin
  <2>2. Col(Ways(Source(x)), k) /\ Col(Ways(Source(y)), l)
    BY <2>1 DEF Col
  <2>3. \A t \in 1 .. m : Ways(Source(x))[t] = Ways(Source(y))[t]
    BY <1>3, <2>1 DEF Twin
  <2> QED
    BY <2>2, <2>3 DEF Twin
<1> HIDE DEF Ways
<1> QED
  BY <1>2, <1>4, <1>5, AssignAlike

LEMMA AlikePrepared ==
    ASSUME NEW k \in Nat, NEW l \in Nat, NEW m \in Nat, m <= k, m <= l, NEW x, NEW y,
           Agree(x, y, k, l, m), NEW p \in Plans, NEW i \in 0 .. Len(p)
    PROVE  Alike(Prepared(x, p)[i], Prepared(y, p)[i], k, l, m)
<1> DEFINE T == {n \in Nat : n <= Len(p) => Alike(Prepared(x, p)[n], Prepared(y, p)[n], k, l, m)}
<1>1. /\ PreparedBy(x, p, Len(p), Prepared(x, p)) /\ PreparedBy(y, p, Len(p), Prepared(y, p))
      /\ Len(p) \in Nat
  BY PreparedStep, PlansAreIndicators
<1>2. 0 \in T
  BY <1>1, AlikeSource DEF PreparedBy
<1>3. ASSUME NEW n \in Nat, n \in T PROVE n + 1 \in T
  <2> SUFFICES ASSUME n + 1 <= Len(p)
               PROVE  Alike(Prepared(x, p)[n + 1], Prepared(y, p)[n + 1], k, l, m)
    OBVIOUS
  <2>1. Alike(Prepared(x, p)[n], Prepared(y, p)[n], k, l, m)
    BY <1>1, <1>3
  <2>2. /\ Prepared(x, p)[n + 1] = Apply(p[n + 1], Prepared(x, p)[n])
        /\ Prepared(y, p)[n + 1] = Apply(p[n + 1], Prepared(y, p)[n])
    BY <1>1 DEF PreparedBy
  <2>3. p[n + 1] \in Indicators
    BY PlansAreIndicators
  <2> QED
    BY <2>1, <2>2, <2>3, AlikeApply
<1> HIDE DEF T
<1>4. i \in T
  BY <1>1, <1>2, <1>3, AllNumbers
<1> QED
  BY <1>1, <1>4 DEF T

LEMMA AlikeProcessed ==
    ASSUME NEW k \in Nat, NEW l \in Nat, NEW m \in Nat, m <= k, m <= l, NEW x, NEW y,
           Agree(x, y, k, l, m), NEW p \in Plans
    PROVE  /\ Alike(pre_process_data(x, p), pre_process_data(y, p), k, l, m)
           /\ DefaultColumns \cup {Name("SIGNAL")} \subseteq DOMAIN pre_process_data(x, p)
<1> DEFINE n == Len(p)
           kept == DefaultColumns \union UNION {DisplayNames(p[i]) : i \in DOMAIN p}
           Ana(s) == Prepared(s, p)[n]
           Kept(s) == [c \in kept |-> Ana(s)[c]]
           None(s) == [t \in DOMAIN s |-> Cell(NONE)]
<1>1. \A s : pre_process_data(s, p) = Assign(Kept(s), Name("SIGNAL"), None(s))
  BY DEF pre_process_data
<1>2. n \in Nat /\ DOMAIN p = 1 .. n
  BY PlansAreIndicators
<1>3. Alike(Ana(x), Ana(y), k, l, m)
  BY <1>2, AlikePrepared
<1>4. kept \subseteq DOMAIN Ana(x)
  <2>1. /\ DefaultColumns \subseteq DOMAIN Prepared(x, p)[n]
        /\ \A j \in 1 .. n : DisplayNames(p[j]) \subseteq DOMAIN Prepared(x, p)[n]
    BY <1>2, PreparedColumns
  <2> QED
    BY <1>2, <2>1
<1>5. Prices \subseteq kept /\ DefaultColumns \subseteq kept
  BY DEF Prices, DefaultColumns
<1> HIDE DEF kept, Ana
<1>6. Alike(Kept(x), Kept(y), k, l, m)
  BY <1>3, <1>4, <1>5 DEF Alike
<1>7. Twin(None(x), None(y), k, l, m)
  BY DEF Agree, Twin, Col
<1>8. DOMAIN Assign(Kept(x), Name("SIGNAL"), None(x)) = kept \cup {Name("SIGNAL")}
  BY DEF Assign
<1> HIDE DEF Kept, None
<1> QED
  BY <1>1, <1>5, <1>6, <1>7, <1>8, AssignAlike

\* The frame with the signals of a rule.
SignalBy(r, direction) == IF direction = Cell(NONE) THEN direction ELSE Times(Cell(r), direction)
Signals(r, df) == [t \in DOMAIN Open(df) |-> SignalBy(r, df[Name("direction")][t])]
MarkedBy(r, df, shift) ==
    LET late == Assign(df, Name("SIGNAL"), Shift(Signals(r, df), 1))
    IN  IF ~ shift THEN Assign(df, Name("SIGNAL"), Signals(r, df))
        ELSE [c \in DOMAIN late |-> [t \in DOMAIN late[c] |-> Fill(late[c][t], Cell(NONE))]]

LEMMA MarksAre ==
    ASSUME NEW df, NEW shift
    PROVE  excute_trade_mark(df, shift) = MarkedBy(rule, df, shift)
<1> DEFINE answers == [t \in DOMAIN Open(df) |-> _apply_signal(df[Name("direction")][t])]
           marked == Assign(df, Name("SIGNAL"), answers)
           late == [marked EXCEPT ![Name("SIGNAL")] = Shift(marked[Name("SIGNAL")], 1)]
           after == Assign(df, Name("SIGNAL"), Shift(answers, 1))
<1>1. answers = Signals(rule, df)
  BY DEF Signals, SignalBy, _apply_signal
<1> HIDE DEF answers
<1>2. late = after
  BY DEF Assign
<1>3. excute_trade_mark(df, shift) =
        IF ~ shift THEN marked
        ELSE [c \in DOMAIN late |-> [t \in DOMAIN late[c] |-> Fill(late[c][t], Cell(NONE))]]
  BY DEF excute_trade_mark, answers
<1> HIDE DEF late, marked
<1>4. excute_trade_mark(df, shift) =
        IF ~ shift THEN marked
        ELSE [c \in DOMAIN after |-> [t \in DOMAIN after[c] |-> Fill(after[c][t], Cell(NONE))]]
  BY <1>2, <1>3
<1> QED
  BY <1>1, <1>4 DEF MarkedBy, marked

LEMMA SignalsOfTwins ==
    ASSUME NEW k \in Nat, NEW l \in Nat, NEW m \in Nat, m <= k, m <= l, NEW df, NEW eg,
           Alike(df, eg, k, l, m), Name("direction") \in DOMAIN df, NEW r
    PROVE  Twin(Signals(r, df), Signals(r, eg), k, l, m)
<1>1. Twin(df[Name("direction")], eg[Name("direction")], k, l, m)
  BY DEF Alike
<1>2. DOMAIN Open(df) = 1 .. k /\ DOMAIN Open(eg) = 1 .. l
  BY AlikePrices, ColumnLength DEF Twin
<1>3. Col(Signals(r, df), k) /\ Col(Signals(r, eg), l)
  BY <1>2 DEF Signals, Col
<1>4. \A t \in 1 .. m : Signals(r, df)[t] = Signals(r, eg)[t]
  BY <1>1, <1>2 DEF Signals, Twin
<1> QED
  BY <1>3, <1>4 DEF Twin

\* The signals of two frames that agree on their first m rows agree there,
\* shifted they agree on one row more.
LEMMA AlikeMarked ==
    ASSUME NEW k \in Nat, NEW l \in Nat, NEW m \in Nat, m <= k, m <= l, NEW df, NEW eg,
           Alike(df, eg, k, l, m), Name("direction") \in DOMAIN df, NEW r, NEW shift
    PROVE  Alike(MarkedBy(r, df, shift), MarkedBy(r, eg, shift), k, l, m)
<1> DEFINE late(f) == Assign(f, Name("SIGNAL"), Shift(Signals(r, f), 1))
           Filled(f) == [c \in DOMAIN f |-> [t \in DOMAIN f[c] |-> Fill(f[c][t], Cell(NONE))]]
<1>1. Twin(Signals(r, df), Signals(r, eg), k, l, m)
  BY SignalsOfTwins
<1>2. Alike(Assign(df, Name("SIGNAL"), Signals(r, df)), Assign(eg, Name("SIGNAL"), Signals(r, eg)),
            k, l, m)
  BY <1>1, AssignAlike
<1>3. Twin(Shift(Signals(r, df), 1), Shift(Signals(r, eg), 1), k, l, m)
  BY <1>1, ShiftedTwins
<1>4. Alike(late(df), late(eg), k, l, m)
  BY <1>3, AssignAlike
<1> HIDE DEF late
<1>5. ASSUME NEW f, NEW g, Alike(f, g, k, l, m) PROVE Alike(Filled(f), Filled(g), k, l, m)
  <2>1. /\ DOMAIN Filled(f) = DOMAIN f /\ DOMAIN Filled(g) = DOMAIN f
        /\ Prices \subseteq DOMAIN f
    BY <1>5 DEF Alike
  <2>2. ASSUME NEW c \in DOMAIN f PROVE Twin(Filled(f)[c], Filled(g)[c], k, l, m)
    <3>1. Twin(f[c], g[c], k, l, m) /\ c \in DOMAIN g
      BY <1>5, <2>2 DEF Alike
    <3>2. DOMAIN f[c] = 1 .. k /\ DOMAIN g[c] = 1 .. l
      BY <3>1, ColumnLength DEF Twin
    <3>3. /\ Filled(f)[c] = [t \in 1 .. k |-> Fill(f[c][t], Cell(NONE))]
          /\ Filled(g)[c] = [t \in 1 .. l |-> Fill(g[c][t], Cell(NONE))]
      BY <3>1, <3>2
    <3> HIDE DEF Filled
    <3>4. Col(Filled(f)[c], k) /\ Col(Filled(g)[c], l)
      BY <3>3 DEF Col
    <3>5. \A t \in 1 .. m : Filled(f)[c][t] = Filled(g)[c][t]
      BY <3>1, <3>3 DEF Twin
    <3> QED
      BY <3>4, <3>5 DEF Twin
  <2> HIDE DEF Filled
  <2> QED
    BY <2>1, <2>2 DEF Alike
<1>6. Alike(Filled(late(df)), Filled(late(eg)), k, l, m)
  BY <1>4, <1>5
<1>7. /\ MarkedBy(r, df, shift) = IF ~ shift THEN Assign(df, Name("SIGNAL"), Signals(r, df))
                                  ELSE Filled(late(df))
      /\ MarkedBy(r, eg, shift) = IF ~ shift THEN Assign(eg, Name("SIGNAL"), Signals(r, eg))
                                  ELSE Filled(late(eg))
  BY DEF MarkedBy, late
<1> HIDE DEF Filled
<1> QED
  BY <1>2, <1>6, <1>7

\* Shifted, they agree on one row more.
LateBy(r, df) == MarkedBy(r, df, TRUE)

LEMMA LateMarked ==
    ASSUME NEW k \in Nat, NEW m \in Nat, k = m + 1, NEW df, NEW eg,
           Alike(df, eg, k, k, m), Name("direction") \in DOMAIN df, NEW r
    PROVE  LateBy(r, df)[Name("SIGNAL")][k] = LateBy(r, eg)[Name("SIGNAL")][k]
<1> DEFINE late(f) == Shift(Signals(r, f), 1)
           shown(f) == [i \in DOMAIN late(f) |-> Fill(late(f)[i], Cell(NONE))]
<1>1. Twin(Signals(r, df), Signals(r, eg), k, k, m)
  BY SignalsOfTwins
<1>2. /\ Twin(late(df), late(eg), k, k, m) /\ late(df)[k] = late(eg)[k]
  BY <1>1, ShiftedTwins
<1> HIDE DEF late
<1>3. DOMAIN late(df) = 1 .. k /\ DOMAIN late(eg) = 1 .. k
  BY <1>2, ColumnLength DEF Twin
<1>4. /\ LateBy(r, df)[Name("SIGNAL")] = shown(df)
      /\ LateBy(r, eg)[Name("SIGNAL")] = shown(eg)
  BY DEF LateBy, MarkedBy, Assign, late
<1>5. shown(df)[k] = shown(eg)[k]
  BY <1>2, <1>3
<1> HIDE DEF shown
<1> QED
  BY <1>4, <1>5

\* The frame the loop walks through.
LEMMA MarkedIs == Marked = MarkedBy(rule, frame, shifted)
  BY MarksAre DEF Marked

\* Two series that agree on their first m rows are marked alike there, and on
\* one row more when the signals are shifted.
LEMMA RowsOfTwins ==
    ASSUME NEW k \in Nat, NEW l \in Nat, NEW m \in Nat, m <= k, m <= l, NEW x, NEW y,
           Agree(x, y, k, l, m), NEW p \in Plans, NEW r, NEW shift
    PROVE  Alike(MarkedBy(r, pre_process_data(x, p), shift),
                 MarkedBy(r, pre_process_data(y, p), shift), k, l, m)
<1>1. /\ Alike(pre_process_data(x, p), pre_process_data(y, p), k, l, m)
      /\ DefaultColumns \subseteq DOMAIN pre_process_data(x, p)
  BY AlikeProcessed
<1>2. Name("direction") \in DefaultColumns
  BY DEF DefaultColumns
<1> QED
  BY <1>1, <1>2, AlikeMarked

LEMMA BlindRow ==
    ASSUME NEW k \in Nat, NEW m \in Nat, k = m + 1, NEW x, NEW y, Agree(x, y, k, k, m),
           NEW p \in Plans, NEW r
    PROVE  LateBy(r, pre_process_data(x, p))[Name("SIGNAL")][k] =
           LateBy(r, pre_process_data(y, p))[Name("SIGNAL")][k]
<1>1. /\ Alike(pre_process_data(x, p), pre_process_data(y, p), k, k, m)
      /\ DefaultColumns \subseteq DOMAIN pre_process_data(x, p)
  BY AlikeProcessed
<1>2. Name("direction") \in DefaultColumns
  BY DEF DefaultColumns
<1> QED
  BY <1>1, <1>2, LateMarked

\* A day that is appended to the series changes nothing in an earlier row: no
\* column, window, shift or fill of the frame and its signals (pre_process_data,
\* excute_trade_mark, indicator.py) reads a later row.
THEOREM NoLookAheadHolds == Spec => NoLookAhead
<1> DEFINE Kept == \A c \in DOMAIN Marked : \A t \in DOMAIN bars : Marked'[c][t] = Marked[c][t]
<1>3. (Marked = MarkedBy(rule, frame, shifted))'
  BY MarkedIs, PTL
<1>1. ASSUME FrameInv, FrameInv', [Next]_vars PROVE [Kept]_bars
  <2> SUFFICES ASSUME bars' # bars PROVE Kept
    OBVIOUS
  <2>1. NewBar
    BY <1>1 DEF Next, OpenTrade, UpdateTrade, Idle, ForceClose, Walk, vars
  <2>2. PICK b \in Bars : bars' = Append(bars, b)
    BY <2>1 DEF NewBar
  <2>3. PICK k \in Nat : k = Len(bars)
    BY <1>1 DEF FrameInv
  <2>4. Agree(bars, bars', k, k + 1, k)
    BY <1>1, <2>2, <2>3 DEF FrameInv, Agree
  <2>5. Marked = MarkedBy(rule, frame, shifted)
    BY MarkedIs
  <2>6. Marked' = MarkedBy(rule', frame', shifted')
    BY <1>3
  <2>7. /\ frame = pre_process_data(bars, plan) /\ plan \in Plans
        /\ frame' = pre_process_data(bars', plan')
    BY <1>1 DEF FrameInv
  <2>8. plan' = plan /\ rule' = rule /\ shifted' = shifted
    BY <2>1 DEF NewBar
  <2>9. PICK x, y, p, r, s : x = bars /\ y = bars' /\ p = plan /\ r = rule /\ s = shifted
    OBVIOUS
  <2>10. Alike(MarkedBy(r, pre_process_data(x, p), s), MarkedBy(r, pre_process_data(y, p), s),
               k, k + 1, k)
    <3>1. Agree(x, y, k, k + 1, k) /\ p \in Plans /\ k + 1 \in Nat /\ k <= k /\ k <= k + 1
      BY <2>4, <2>7, <2>9
    <3> QED
      BY <3>1, RowsOfTwins
  <2>11. Marked = MarkedBy(r, pre_process_data(x, p), s)
    BY <2>5, <2>7, <2>9
  <2>12. Marked' = MarkedBy(r, pre_process_data(y, p), s)
    BY <2>6, <2>7, <2>8, <2>9
  <2>13. Alike(Marked, Marked', k, k + 1, k)
    BY <2>10, <2>11, <2>12
  <2>14. DOMAIN bars = 1 .. k
    BY <1>1, <2>3 DEF FrameInv
  <2> QED
    BY <2>13, <2>14 DEF Alike, Twin
<1>2. FrameInv /\ [Next]_vars => FrameInv'
  BY FrameStep
<1> QED
  BY <1>1, <1>2, FrameHolds, PTL DEF Spec, NoLookAhead

\* With shifted signals, the signal of a row does not depend on its prices, among
\* them the opening price a trade is entered at (excute_trade_mark).
THEOREM EntryIsBlindHolds == Spec => []EntryIsBlind
<1>1. FrameInv => EntryIsBlind
  <2> SUFFICES ASSUME FrameInv, Growing, shifted, NEW b \in Bars
               PROVE  excute_trade_mark(Otherwise(b), TRUE)[Name("SIGNAL")][Today] = SignalAt(Today)
    BY DEF EntryIsBlind
  <2>0. PICK k \in Nat, m \in Nat : k = Today /\ k = m + 1
    <3>1. Today \in Nat /\ Today - 1 \in Nat /\ Today = (Today - 1) + 1
      BY TodaysBar
    <3> QED
      BY <3>1
  <2>1. PICK x, y, p : /\ k = Today /\ k = m + 1 /\ x = bars /\ p = plan
                       /\ y = [bars EXCEPT ![Today] = b]
    BY <2>0
  <2>2. Agree(x, y, k, k, m)
    <3>1. DOMAIN bars = 1 .. k /\ DOMAIN y = 1 .. k
      BY <2>1, TodaysBar
    <3>2. ASSUME NEW t \in 1 .. m PROVE bars[t] = y[t]
      <4>1. t \in 1 .. k /\ t # Today
        BY <2>1
      <4> QED
        BY <2>1, <3>1, <4>1
    <3> QED
      BY <2>1, <3>1, <3>2 DEF Agree
  <2>3. p \in Plans /\ frame = pre_process_data(x, p)
    BY <2>1 DEF FrameInv
  <2>4. PICK r : r = rule
    OBVIOUS
  <2>5. LateBy(r, pre_process_data(x, p))[Name("SIGNAL")][k] =
        LateBy(r, pre_process_data(y, p))[Name("SIGNAL")][k]
    <3>1. k = m + 1
      BY <2>1
    <3> QED
      BY <2>2, <2>3, <3>1, BlindRow
  <2>6. Marked = LateBy(r, pre_process_data(x, p))
    BY <2>3, <2>4, MarkedIs DEF MarkedBy, LateBy
  <2>7. excute_trade_mark(Otherwise(b), TRUE) = LateBy(r, pre_process_data(y, p))
    BY <2>1, <2>4, MarksAre DEF Otherwise, LateBy
  <2> QED
    BY <2>1, <2>5, <2>6, <2>7 DEF SignalAt
<1> QED
  BY <1>1, FrameHolds, PTL

-----------------------------------------------------------------------------
(***************************************************************************)
(* An indicator shows its own numbers                                      *)
(***************************************************************************)
\* The columns an indicator writes.
Written(ind) ==
    DisplayNames(ind)
      \cup (IF ind.name \in {"KeltnerChannels", "BIAS"} THEN {<<"EMA", ind.n>>} ELSE {})
      \cup (IF ind.name = "KeltnerChannels" THEN {<<"ATR", ind.n>>} ELSE {})

LEMMA Untouched ==
    ASSUME NEW df, NEW ind \in Indicators, NEW c \in DOMAIN df, c \notin Written(ind)
    PROVE  Apply(ind, df)[c] = df[c]
<1>1. ind.name \in {"BollingerBands", "ATR", "KeltnerChannels", "RSI", "MACD", "EMA", "MA",
                    "BIAS", "Engulfing"}
  BY DEF Indicators
<1>2. CASE ind.name \in {"EMA", "MA", "ATR", "RSI"}
  BY <1>2 DEF Apply, Written, DisplayNames, EMA, MA, ATR, RSI, Assign
<1>3. CASE ind.name = "BIAS"
  BY <1>3 DEF Apply, Written, DisplayNames, BIAS, EMA, Assign
<1>4. CASE ind.name = "BollingerBands"
  BY <1>4 DEF Apply, Written, DisplayNames, BollingerBands, Assign
<1>5. CASE ind.name = "KeltnerChannels"
  BY <1>5 DEF Apply, Written, DisplayNames, KeltnerChannels, ATR, EMA, Assign
<1>6. CASE ind.name = "MACD"
  BY <1>6 DEF Apply, Written, DisplayNames, MACD, Assign
<1>7. CASE ind.name = "Engulfing"
  BY <1>7 DEF Apply, Written, DisplayNames, Engulfing, Assign
<1> QED
  BY <1>1, <1>2, <1>3, <1>4, <1>5, <1>6, <1>7

LEMMA PricesAreNotWritten ==
    ASSUME NEW ind \in Indicators
    PROVE  Prices \cap Written(ind) = {}
  BY DEF Prices, Written, DisplayNames, Indicators, Name

\* A written column is the one its indicator, or the one it is named for, has
\* on the source alone.
LEMMA WrittenIsOwn ==
    ASSUME NEW df, NEW s, Shared(df, s), Bare(s), NEW ind \in Indicators,
           NEW c \in Written(ind)
    PROVE  /\ c \in DisplayNames(ind) => Apply(ind, df)[c] = Apply(ind, s)[c]
           /\ c = <<"EMA", ind.n>> => Apply(ind, df)[c] = ExponentialMean(Close(s), ind.n)
           /\ c = <<"ATR", ind.n>> =>
                 Apply(ind, df)[c] = Apply([name |-> "ATR", n |-> ind.n], s)[c]
<1>1. ind.name \in {"BollingerBands", "ATR", "KeltnerChannels", "RSI", "MACD", "EMA", "MA",
                    "BIAS", "Engulfing"} /\ ind.n \in Nat \ {0}
  BY DEF Indicators
<1>0. PICK n \in Nat \ {0} : n = ind.n
  BY <1>1
<1>2. /\ Open(df) = Open(s) /\ High(df) = High(s) /\ Low(df) = Low(s) /\ Close(df) = Close(s)
  BY DEF Shared
<1>3. CASE ind.name = "EMA"
  BY <1>2, <1>3 DEF Apply, Written, DisplayNames, EMA, Assign
<1>4. CASE ind.name = "MA"
  BY <1>2, <1>4 DEF Apply, Written, DisplayNames, MA, Assign
<1>5. CASE ind.name = "ATR"
  BY <1>2, <1>5 DEF Apply, Written, DisplayNames, ATR, Assign
<1>6. CASE ind.name = "RSI"
  BY <1>2, <1>6 DEF Apply, Written, DisplayNames, RSI, Assign
<1>7. CASE ind.name = "BIAS"
  <2>1. c \in {<<"BIAS", n>>, <<"EMA", n>>} /\ c # <<"ATR", n>>
    BY <1>0, <1>7, NamesDiffer DEF Written, DisplayNames
  <2>2. Apply(ind, df) = BIAS(df, n) /\ Apply(ind, s) = BIAS(s, n)
    BY <1>0, <1>7 DEF Apply
  <2>3. BIAS(df, n)[c] = BIAS(s, n)[c]
    BY <2>1, BiasIsOwn
  <2>4. c = <<"EMA", n>> => BIAS(df, n)[c] = ExponentialMean(Close(s), n)
    BY <2>1, BiasIsOwn
  <2> QED
    BY <1>0, <2>1, <2>2, <2>3, <2>4
<1>8. CASE ind.name = "BollingerBands"
  BY <1>2, <1>8 DEF Apply, Written, DisplayNames, BollingerBands, Assign, Name
<1>9. CASE ind.name = "KeltnerChannels"
  <2>1. c \in {Name("KeUp"), Name("KeLo"), <<"EMA", n>>, <<"ATR", n>>}
    BY <1>0, <1>9 DEF Written, DisplayNames
  <2>2. /\ Apply(ind, df) = KeltnerChannels(df, n, n)
        /\ Apply(ind, s) = KeltnerChannels(s, n, n)
        /\ Apply([name |-> "ATR", n |-> n], s) = ATR(s, n)
    BY <1>0, <1>9 DEF Apply
  <2>3. SamePrices(df, s) /\ Prices \subseteq DOMAIN df /\ Prices \subseteq DOMAIN s
    BY <1>2 DEF SamePrices, Shared, Bare
  <2>4. KeltnerChannels(df, n, n)[c] = KeltnerChannels(s, n, n)[c]
    BY <2>1, <2>3, KeltnerIsOwn
  <2>5. c = <<"EMA", n>> => KeltnerChannels(df, n, n)[c] = ExponentialMean(Close(s), n)
    BY <2>3, KeltnerAverage
  <2>6. c = <<"ATR", n>> => KeltnerChannels(df, n, n)[c] = ATR(s, n)[c]
    BY <2>3, KeltnerRange
  <2> QED
    BY <1>0, <2>2, <2>4, <2>5, <2>6
<1>10. CASE ind.name = "MACD"
  BY <1>2, <1>10 DEF Apply, Written, DisplayNames, MACD, Assign, Name
<1>11. CASE ind.name = "Engulfing"
  BY <1>2, <1>11 DEF Apply, Written, DisplayNames, Engulfing, Assign, Name
<1> QED
  BY <1>1, <1>3, <1>4, <1>5, <1>6, <1>7, <1>8, <1>9, <1>10, <1>11

LEMMA AverageIsOwn ==
    ASSUME NEW df, NEW s, Shared(df, s), Bare(s), NEW ind \in Indicators,
           NEW c \in Written(ind), c = <<"EMA", ind.n>>
    PROVE  Apply(ind, df)[c] = ExponentialMean(Close(s), ind.n)
  BY WrittenIsOwn

LEMMA WrittenColumns ==
    ASSUME NEW df, NEW ind \in Indicators
    PROVE  DOMAIN Apply(ind, df) = DOMAIN df \cup Written(ind)
<1>1. CASE ind.name \in {"EMA", "MA", "ATR", "RSI"}
  BY <1>1 DEF Apply, Written, DisplayNames, EMA, MA, ATR, RSI, Assign
<1>2. CASE ind.name = "BIAS"
  BY <1>2 DEF Apply, Written, DisplayNames, BIAS, EMA, Assign
<1>3. CASE ind.name = "BollingerBands"
  BY <1>3 DEF Apply, Written, DisplayNames, BollingerBands, Assign
<1>4. CASE ind.name = "KeltnerChannels"
  BY <1>4 DEF Apply, Written, DisplayNames, KeltnerChannels, ATR, EMA, Assign
<1>5. CASE ind.name = "MACD"
  BY <1>5 DEF Apply, Written, DisplayNames, MACD, Assign
<1>6. CASE ind.name = "Engulfing"
  BY <1>6 DEF Apply, Written, DisplayNames, Engulfing, Assign
<1> QED
  BY <1>1, <1>2, <1>3, <1>4, <1>5, <1>6 DEF Indicators

\* The indicators whose columns are named for their period.
Numbered == {"EMA", "MA", "ATR", "RSI", "BIAS"}

LEMMA NumberedColumn ==
    ASSUME NEW ind \in Indicators, NEW c \in DisplayNames(ind)
    PROVE  /\ ind.name \in Numbered => c = <<ind.name, ind.n>>
           /\ ind.name \notin Numbered => \E x : c = <<x, 0>>
  BY DEF DisplayNames, Indicators, Numbered, Name

LEMMA SharedStep ==
    ASSUME NEW df, NEW s, Shared(df, s), Bare(s), NEW ind \in Indicators
    PROVE  Shared(Apply(ind, df), s)
<1> DEFINE ana == Apply(ind, df)
<1>1. DOMAIN ana = DOMAIN df \cup Written(ind)
  BY WrittenColumns
<1>2. Prices \subseteq DOMAIN df
  BY DEF Shared
<1>3. \A c \in Prices : ana[c] = df[c]
  BY <1>2, Untouched, PricesAreNotWritten
<1>4. ASSUME NEW n \in Nat \ {0}, <<"EMA", n>> \in DOMAIN ana
      PROVE  ana[<<"EMA", n>>] = ExponentialMean(Close(s), n)
  <2>1. PICK c : c = <<"EMA", n>>
    OBVIOUS
  <2>2. CASE c \in Written(ind)
    <3>1. n = ind.n
      <4>1. CASE c \in DisplayNames(ind)
        <5>1. c = <<ind.name, ind.n>> \/ \E x : c = <<x, 0>>
          BY <4>1, NumberedColumn
        <5> QED
          BY <2>1, <5>1, NamesDiffer
      <4>2. CASE c \notin DisplayNames(ind)
        <5>1. c = <<"EMA", ind.n>> \/ c = <<"ATR", ind.n>>
          BY <2>2, <4>2 DEF Written
        <5> QED
          BY <2>1, <5>1, NamesDiffer
      <4> QED
        BY <4>1, <4>2
    <3> QED
      <4>1. c = <<"EMA", ind.n>>
        BY <2>1, <3>1
      <4>2. Apply(ind, df)[c] = ExponentialMean(Close(s), ind.n)
        BY <2>2, <4>1, AverageIsOwn
      <4> QED
        BY <2>1, <3>1, <4>2
  <2>3. CASE c \notin Written(ind)
    <3>1. c \in DOMAIN df
      BY <1>1, <1>4, <2>1, <2>3
    <3>2. ana[c] = df[c]
      BY <2>3, <3>1, Untouched
    <3> QED
      BY <2>1, <3>1, <3>2 DEF Shared
  <2> QED
    BY <2>2, <2>3
<1>5. /\ Open(ana) = Open(df) /\ High(ana) = High(df)
      /\ Low(ana) = Low(df) /\ Close(ana) = Close(df)
  BY <1>3 DEF Prices, Open, High, Low, Close
<1> HIDE DEF ana
<1> QED
  BY <1>1, <1>2, <1>4, <1>5 DEF Shared, ana

\* Two indicators that write one column agree on it, unless they write the
\* same column without a period for different periods.
Agreeing(ind, other) ==
    ind.name = other.name /\ ind.name \in {"BollingerBands", "KeltnerChannels", "MACD"} =>
        ind.n = other.n

LEMMA WritersAgree ==
    ASSUME NEW df, NEW s, Shared(df, s), Bare(s),
           NEW ind \in Indicators, NEW other \in Indicators, Agreeing(ind, other),
           NEW c \in Written(ind), c \in DisplayNames(other)
    PROVE  Apply(ind, df)[c] = Apply(other, s)[c]
<1>1. ind.n \in Nat \ {0} /\ other.n \in Nat \ {0}
  BY DEF Indicators
<1>0. /\ c \in DisplayNames(ind) => Apply(ind, df)[c] = Apply(ind, s)[c]
      /\ c = <<"EMA", ind.n>> => Apply(ind, df)[c] = ExponentialMean(Close(s), ind.n)
      /\ c = <<"ATR", ind.n>> =>
            Apply(ind, df)[c] = Apply([name |-> "ATR", n |-> ind.n], s)[c]
  BY WrittenIsOwn
<1>2. CASE other.name \in Numbered
  <2>1. c = <<other.name, other.n>>
    BY <1>2, NumberedColumn
  <2>2. CASE c \in DisplayNames(ind)
    <3>1. c = <<ind.name, ind.n>>
      <4>1. c = <<ind.name, ind.n>> \/ \E x : c = <<x, 0>>
        BY <2>2, NumberedColumn
      <4> QED
        BY <1>1, <2>1, <4>1, NamesDiffer
    <3>2. ind.name = other.name /\ ind.n = other.n
      BY <2>1, <3>1, NamesDiffer
    <3>3. ind = other
      BY <3>2 DEF Indicators
    <3> QED
      BY <1>0, <2>2, <3>3
  <2>3. CASE c = <<"EMA", ind.n>>
    <3>1. other.name = "EMA" /\ other.n = ind.n
      BY <2>1, <2>3, NamesDiffer
    <3>2. Apply(other, s)[c] = ExponentialMean(Close(s), ind.n)
      BY <2>3, <3>1 DEF Apply, EMA, Assign
    <3> QED
      BY <1>0, <2>3, <3>2
  <2>4. CASE c = <<"ATR", ind.n>>
    <3>1. other.name = "ATR" /\ other.n = ind.n
      BY <2>1, <2>4, NamesDiffer
    <3>2. other = [name |-> "ATR", n |-> ind.n]
      BY <3>1 DEF Indicators
    <3> QED
      BY <1>0, <2>4, <3>2
  <2> QED
    BY <2>2, <2>3, <2>4 DEF Written
<1>3. CASE other.name \notin Numbered
  <2>1. PICK x : c = <<x, 0>>
    BY <1>3, NumberedColumn
  <2>2. c \in DisplayNames(ind)
    <3>1. c # <<"EMA", ind.n>> /\ c # <<"ATR", ind.n>>
      BY <1>1, <2>1, NamesDiffer
    <3> QED
      BY <3>1 DEF Written
  <2>3. ind.name \notin Numbered
    BY <1>1, <2>1, <2>2, NumberedColumn, NamesDiffer
  <2>4. ind.name = other.name
    BY <1>3, <2>2, <2>3, NamesDiffer DEF DisplayNames, Indicators, Numbered, Name
  <2>5. Apply(ind, df)[c] = Apply(ind, s)[c]
    BY <1>0, <2>2
  <2>6. CASE ind.name = "Engulfing"
    BY <2>4, <2>5, <2>6 DEF Apply
  <2>7. CASE ind.name # "Engulfing"
    <3>1. ind.n = other.n
      BY <2>3, <2>4, <2>7 DEF Agreeing, Indicators, Numbered
    <3>2. ind = other
      BY <2>4, <3>1 DEF Indicators
    <3> QED
      BY <2>5, <3>2
  <2> QED
    BY <2>6, <2>7
<1> QED
  BY <1>2, <1>3

LEMMA SourceIsBare ==
    ASSUME NEW series
    PROVE  Bare(Source(series)) /\ Shared(add_direction(Source(series)), Source(series))
<1> DEFINE s == Source(series)
<1>1. DOMAIN s = Prices
  BY SourceColumns DEF Prices
<1>2. \A n \in Nat \ {0} : <<"EMA", n>> \notin Prices \cup {Name("direction")}
  BY NamesDiffer DEF Prices, Name
<1>3. PICK ways : add_direction(s) = Assign(s, Name("direction"), ways)
  BY DEF add_direction
<1>4. Name("direction") \notin Prices
  BY NamesDiffer DEF Prices, Name
<1> HIDE DEF s
<1>5. \A c \in Prices : add_direction(s)[c] = s[c]
  BY <1>1, <1>3, <1>4 DEF Assign
<1>6. DOMAIN add_direction(s) = Prices \cup {Name("direction")}
  BY <1>1, <1>3 DEF Assign
<1>7. Shared(add_direction(s), s)
  BY <1>2, <1>5, <1>6 DEF Shared, Prices, Open, High, Low, Close
<1> QED
  BY <1>1, <1>2, <1>7 DEF Bare, s

\* No strategy has one of these indicators twice for different periods: their
\* columns carry no period in their names, and the later would replace the other.
OnePeriod == \A p \in Plans : \A i, j \in DOMAIN p : Agreeing(p[i], p[j])

LEMMA PreparedAreOwn ==
    ASSUME OnePeriod, NEW series, NEW p \in Plans, NEW i \in 1 .. Len(p),
           NEW c \in DisplayNames(p[i])
    PROVE  Prepared(series, p)[Len(p)][c] = Apply(p[i], Source(series))[c]
<1> DEFINE s == Source(series)
           Own(n) == \A j \in 1 .. n : \A b \in DisplayNames(p[j]) :
                         Prepared(series, p)[n][b] = Apply(p[j], s)[b]
           Q(n) == Shared(Prepared(series, p)[n], s) /\ Own(n)
           T == {n \in Nat : n <= Len(p) => Q(n)}
<1>1. /\ PreparedBy(series, p, Len(p), Prepared(series, p)) /\ Len(p) \in Nat
      /\ DOMAIN p = 1 .. Len(p) /\ \A j \in 1 .. Len(p) : p[j] \in Indicators
  BY PreparedStep, PlansAreIndicators
<1>2. Bare(s)
  BY SourceIsBare
<1>3. 0 \in T
  BY <1>1, SourceIsBare DEF PreparedBy
<1>4. ASSUME NEW n \in Nat, n \in T PROVE n + 1 \in T
  <2> SUFFICES ASSUME n + 1 <= Len(p) PROVE Q(n + 1)
    OBVIOUS
  <2>1. Q(n)
    BY <1>1, <1>4
  <2>2. PICK df, ind : df = Prepared(series, p)[n] /\ ind = p[n + 1]
    OBVIOUS
  <2>3. Prepared(series, p)[n + 1] = Apply(ind, df)
    BY <1>1, <2>2 DEF PreparedBy
  <2>4. ind \in Indicators /\ n + 1 \in 1 .. Len(p)
    BY <1>1, <2>2
  <2>5. Shared(df, s)
    BY <2>1, <2>2
  <2>6. Shared(Apply(ind, df), s)
    BY <1>2, <2>4, <2>5, SharedStep
  <2>7. ASSUME NEW j \in 1 .. n + 1, NEW b \in DisplayNames(p[j])
        PROVE  Apply(ind, df)[b] = Apply(p[j], s)[b]
    <3>1. PICK other : other = p[j]
      OBVIOUS
    <3>2. other \in Indicators /\ Agreeing(ind, other)
      BY <1>1, <2>2, <2>4, <3>1 DEF OnePeriod
    <3>3. CASE b \in Written(ind)
      BY <1>2, <2>4, <2>5, <3>1, <3>2, <3>3, WritersAgree
    <3>4. CASE b \notin Written(ind)
      <4>1. j # n + 1
        BY <2>2, <3>4 DEF Written
      <4>2. j \in 1 .. n
        BY <4>1
      <4>3. df[b] = Apply(p[j], s)[b]
        BY <2>1, <2>2, <4>2
      <4>4. b \in DOMAIN df
        <5>1. n \in 0 .. Len(p)
          BY <1>1
        <5> QED
          BY <2>2, <4>2, <5>1, PreparedColumns
      <4> QED
        BY <2>4, <3>4, <4>3, <4>4, Untouched
    <3> QED
      BY <3>3, <3>4
  <2> QED
    BY <2>3, <2>6, <2>7
<1> HIDE DEF T
<1>5. Len(p) \in T
  BY <1>1, <1>3, <1>4, AllNumbers
<1>6. Q(Len(p))
  BY <1>1, <1>5 DEF T
<1> QED
  BY <1>6

LEMMA SignalIsNoIndicator ==
    ASSUME NEW ind \in Indicators, NEW c \in DisplayNames(ind)
    PROVE  c # Name("SIGNAL")
<1>1. ind.n \in Nat \ {0}
  BY DEF Indicators
<1>2. CASE ind.name \in Numbered
  BY <1>1, <1>2, NumberedColumn, NamesDiffer DEF Name
<1>3. CASE ind.name \notin Numbered
  BY <1>3, NamesDiffer DEF DisplayNames, Indicators, Numbered, Name
<1> QED
  BY <1>2, <1>3

\* The frame shows what each indicator computes by itself.
LEMMA FrameIsOwn ==
    ASSUME OnePeriod, NEW series, NEW p \in Plans, NEW i \in 1 .. Len(p),
           NEW c \in DisplayNames(p[i])
    PROVE  pre_process_data(series, p)[c] = Apply(p[i], Source(series))[c]
<1>1. p[i] \in Indicators /\ DOMAIN p = 1 .. Len(p)
  BY PlansAreIndicators
<1>2. c # Name("SIGNAL")
  BY <1>1, SignalIsNoIndicator
<1>3. pre_process_data(series, p)[c] = Prepared(series, p)[Len(p)][c]
  <2> DEFINE kept == DefaultColumns \union UNION {DisplayNames(p[j]) : j \in DOMAIN p}
             Kept == [b \in kept |-> Prepared(series, p)[Len(p)][b]]
  <2>1. pre_process_data(series, p) =
           Assign(Kept, Name("SIGNAL"), [t \in DOMAIN series |-> Cell(NONE)])
    BY DEF pre_process_data
  <2>2. c \in kept
    BY <1>1
  <2> HIDE DEF kept
  <2> QED
    BY <1>2, <2>1, <2>2 DEF Assign
<1>4. Prepared(series, p)[Len(p)][c] = Apply(p[i], Source(series))[c]
  BY PreparedAreOwn
<1> QED
  BY <1>3, <1>4

\* Every indicator of a strategy shows the numbers it would show alone, whatever
\* the indicators before it left in the frame under the names it shares with them
\* (BIAS and KeltnerChannels of indicator.py).
THEOREM ColumnsAreTheirOwnHolds ==
    ASSUME OnePeriod
    PROVE  Spec => []ColumnsAreTheirOwn
<1>1. FrameInv => ColumnsAreTheirOwn
  <2> SUFFICES ASSUME FrameInv, NEW i \in DOMAIN plan, NEW c \in DisplayNames(plan[i])
               PROVE  frame[c][Today] = Apply(plan[i], Source(bars))[c][Today]
    BY DEF ColumnsAreTheirOwn
  <2>1. PICK p, x : p = plan /\ x = bars /\ p \in Plans /\ frame = pre_process_data(x, p)
    BY DEF FrameInv
  <2>2. i \in 1 .. Len(p) /\ c \in DisplayNames(p[i])
    BY <2>1, PlansAreIndicators
  <2>3. pre_process_data(x, p)[c] = Apply(p[i], Source(x))[c]
    BY <2>1, <2>2, FrameIsOwn
  <2> QED
    BY <2>1, <2>3
<1> QED
  BY <1>1, FrameHolds, PTL

-----------------------------------------------------------------------------
(***************************************************************************)
(* The columns begin with their first full period                          *)
(***************************************************************************)
\* Prices are positive (BIAS divides by their mean); of one row there is neither a
\* variance, nor a faster mean, nor a smoothing.
ClosesArePositive == \A b \in Bars : b.close > 0
LongEnough(ind) == ind.name \in {"BollingerBands", "MACD", "RSI"} => ind.n > 1
PeriodsAreLong == \A p \in Plans : \A i \in DOMAIN p : LongEnough(p[i])

LEMMA BeginsThere ==
    ASSUME NEW k \in Nat, NEW c, NEW f \in Nat, Begins(c, k, f), NEW t \in 1 .. k
    PROVE  c[t] # NaN <=> t >= f
<1>1. CASE t < f
  BY <1>1 DEF Begins
<1>2. CASE ~ t < f
  <2>1. c[t] # NaN
    BY <1>2, NumberIsThere DEF Begins
  <2> QED
    BY <1>2, <2>1
<1> QED
  BY <1>1, <1>2

\* The prices of a series are numbers.
LEMMA SourceIsPriced ==
    ASSUME NEW series \in Seq(Bars), NEW k, k = Len(series)
    PROVE  /\ Priced(Source(series), k)
           /\ Close(Source(series)) = [t \in 1 .. k |-> Cell(series[t].close)]
<1>1. k \in Nat /\ DOMAIN series = 1 .. k /\ \A t \in 1 .. k : series[t] \in Bars
  OBVIOUS
<1>2. ASSUME NEW p \in [1 .. k -> Nat] PROVE Begins([t \in 1 .. k |-> Cell(p[t])], k, 1)
  <2>1. \A t \in 1 .. k : IsFraction(Cell(p[t]))
    BY WholeIsNumber
  <2> QED
    BY <2>1 DEF Begins, Col
<1>3. \A t \in 1 .. k : /\ series[t].open \in Nat /\ series[t].high \in Nat
                        /\ series[t].low \in Nat /\ series[t].close \in Nat
  BY <1>1, BarsAreBars DEF BarOf
<1>4. PICK o, h, l, c :
         /\ o = [t \in 1 .. k |-> series[t].open] /\ h = [t \in 1 .. k |-> series[t].high]
         /\ l = [t \in 1 .. k |-> series[t].low] /\ c = [t \in 1 .. k |-> series[t].close]
  OBVIOUS
<1>5. o \in [1 .. k -> Nat] /\ h \in [1 .. k -> Nat] /\ l \in [1 .. k -> Nat] /\ c \in [1 .. k -> Nat]
  BY <1>3, <1>4
<1>6. /\ Open(Source(series)) = [t \in 1 .. k |-> Cell(o[t])]
      /\ High(Source(series)) = [t \in 1 .. k |-> Cell(h[t])]
      /\ Low(Source(series)) = [t \in 1 .. k |-> Cell(l[t])]
      /\ Close(Source(series)) = [t \in 1 .. k |-> Cell(c[t])]
      /\ Close(Source(series)) = [t \in 1 .. k |-> Cell(series[t].close)]
  BY <1>1, <1>4, SourceColumns
<1> QED
  BY <1>2, <1>5, <1>6 DEF Priced

\* Each indicator by itself, on the prices.
LEMMA OwnBegins ==
    ASSUME ClosesArePositive, NEW series \in Seq(Bars), NEW ind \in Indicators, LongEnough(ind),
           NEW c \in DisplayNames(ind), NEW t \in 1 .. Len(series)
    PROVE  Apply(ind, Source(series))[c][t] # NaN
              <=> /\ t >= FirstValue(ind, c)
                  /\ (ind.name = "RSI" => \E i \in 2 .. t : series[i].close # series[i - 1].close)
<1>1. PICK k \in Nat, n \in Nat \ {0} : k = Len(series) /\ n = ind.n
  BY DEF Indicators
<1>2. PICK s : s = Source(series)
  OBVIOUS
<1>3. /\ Priced(s, k) /\ Bare(s) /\ t \in 1 .. k
      /\ Close(s) = [j \in 1 .. k |-> Cell(series[j].close)]
  BY <1>1, <1>2, SourceIsPriced, SourceIsBare
<1>4. \A j \in 1 .. k : series[j].close \in Nat /\ series[j].close > 0
  <2>1. \A j \in 1 .. k : series[j] \in Bars
    BY <1>1
  <2> QED
    BY <2>1, BarsAreBars DEF BarOf, ClosesArePositive
<1> DEFINE Own == Apply(ind, s)[c]
<1>5. ASSUME NEW f \in Nat, Begins(Own, k, f), f = FirstValue(ind, c), ind.name # "RSI"
      PROVE  Own[t] # NaN <=> /\ t >= FirstValue(ind, c)
                              /\ (ind.name = "RSI" => \E i \in 2 .. t : series[i].close # series[i - 1].close)
  BY <1>3, <1>5, BeginsThere
<1> HIDE DEF Own
<1> SUFFICES Own[t] # NaN <=> /\ t >= FirstValue(ind, c)
                              /\ (ind.name = "RSI" => \E i \in 2 .. t : series[i].close # series[i - 1].close)
  BY <1>2 DEF Own
<1>6. /\ Name("BB_MA") # Name("MACD_SIGNAL") /\ Name("BB_MA") # Name("HIST")
      /\ Name("BB_VAR") # Name("MACD_SIGNAL") /\ Name("BB_VAR") # Name("HIST")
      /\ Name("KeUp") # Name("MACD_SIGNAL") /\ Name("KeUp") # Name("HIST")
      /\ Name("KeLo") # Name("MACD_SIGNAL") /\ Name("KeLo") # Name("HIST")
      /\ Name("MACD") # Name("MACD_SIGNAL") /\ Name("MACD") # Name("HIST")
      /\ Name("BB_MA") # Name("ENGULFING") /\ Name("BB_VAR") # Name("ENGULFING")
      /\ Name("KeUp") # Name("ENGULFING") /\ Name("KeLo") # Name("ENGULFING")
      /\ Name("MACD") # Name("ENGULFING") /\ Name("ENGULFING") # Name("MACD_SIGNAL")
      /\ Name("ENGULFING") # Name("HIST") /\ Name("HIST") # Name("MACD_SIGNAL")
      /\ Name("MACD_SIGNAL") # Name("ENGULFING")
  BY NamesDiffer DEF Name
<1>7. ASSUME ind.name \in Numbered
      PROVE  /\ c = <<ind.name, n>>
             /\ ind.name # "RSI" => FirstValue(ind, c) = n
             /\ ind.name = "RSI" => FirstValue(ind, c) = n + 1
  <2>1. c = <<ind.name, n>>
    BY <1>1, <1>7, NumberedColumn
  <2>2. c # Name("MACD_SIGNAL") /\ c # Name("HIST") /\ c # Name("ENGULFING")
    BY <1>7, <2>1, NamesDiffer DEF Name, Numbered
  <2> QED
    BY <1>1, <2>1, <2>2 DEF FirstValue
<1>8. CASE ind.name = "EMA"
  <2>1. Begins(ExponentialMean(Close(s), n), k, 1 + n - 1)
    BY <1>3, ExponentialBegins DEF Priced
  <2>2. 1 + n - 1 = n
    OBVIOUS
  <2>3. Own = ExponentialMean(Close(s), n)
    BY <1>1, <1>7, <1>8 DEF Own, Apply, EMA, Assign, Numbered
  <2> QED
    BY <1>5, <1>7, <1>8, <2>1, <2>2, <2>3 DEF Numbered
<1>9. CASE ind.name = "MA"
  <2>1. Begins(RollingMean(Close(s), n), k, n)
    BY <1>3, RollingBegins DEF Priced
  <2>2. Own = RollingMean(Close(s), n)
    BY <1>1, <1>7, <1>9 DEF Own, Apply, MA, Assign, Numbered
  <2> QED
    BY <1>5, <1>7, <1>9, <2>1, <2>2 DEF Numbered
<1>10. CASE ind.name = "ATR"
  <2>1. Begins(ATR(s, n)[<<"ATR", n>>], k, n)
    BY <1>3, RangeBegins
  <2>2. Own = ATR(s, n)[<<"ATR", n>>]
    BY <1>1, <1>7, <1>10 DEF Own, Apply, Numbered
  <2> QED
    BY <1>5, <1>7, <1>10, <2>1, <2>2 DEF Numbered
<1>11. CASE ind.name = "BIAS"
  <2>1. \A j \in 1 .. k : Positive(Close(s)[j])
    BY <1>3, <1>4, WholeIsNumber
  <2>2. Begins(BIAS(s, n)[<<"BIAS", n>>], k, n)
    BY <1>3, <2>1, BiasBegins
  <2>3. Own = BIAS(s, n)[<<"BIAS", n>>]
    BY <1>1, <1>7, <1>11 DEF Own, Apply, Numbered
  <2> QED
    BY <1>5, <1>7, <1>11, <2>2, <2>3 DEF Numbered
<1>12. CASE ind.name = "RSI"
  <2>1. n > 1
    BY <1>1, <1>12 DEF LongEnough
  <2>2. PICK p : p = [j \in 1 .. k |-> series[j].close]
    OBVIOUS
  <2>3. Col(Close(s), k) /\ \A j \in 1 .. k : p[j] \in Int /\ Close(s)[j] = Cell(p[j])
    BY <1>3, <1>4, <2>2 DEF Col
  <2>4. RSI(s, n)[<<"RSI", n>>][t] # NaN <=> t >= n + 1 /\ \E i \in 2 .. t : p[i] # p[i - 1]
    <3>1. k \in Nat /\ n \in Nat /\ t \in 1 .. k
      BY <1>3
    <3> QED
      BY <2>1, <2>3, <3>1, StrengthBegins
  <2>5. Own = RSI(s, n)[<<"RSI", n>>]
    BY <1>1, <1>7, <1>12 DEF Own, Apply, Numbered
  <2>6. \A i \in 2 .. t : p[i] = series[i].close /\ p[i - 1] = series[i - 1].close
    BY <1>3, <2>2
  <2> QED
    BY <1>7, <1>12, <2>4, <2>5, <2>6 DEF Numbered
<1>13. CASE ind.name = "BollingerBands"
  <2>1. n > 1 /\ c \in {Name("BB_MA"), Name("BB_VAR")}
    BY <1>1, <1>13 DEF LongEnough, DisplayNames
  <2>2. Begins(Own, k, n)
    BY <1>1, <1>3, <1>13, <2>1, BandsBegin DEF Own, Apply
  <2>3. FirstValue(ind, c) = n
    BY <1>1, <1>6, <1>13, <2>1 DEF FirstValue
  <2> QED
    BY <1>5, <1>13, <2>2, <2>3
<1>14. CASE ind.name = "KeltnerChannels"
  <2>1. c \in {Name("KeUp"), Name("KeLo")}
    BY <1>14 DEF DisplayNames
  <2>2. Begins(Own, k, n)
    BY <1>1, <1>3, <1>14, <2>1, ChannelsBegin DEF Own, Apply, Bare
  <2>3. FirstValue(ind, c) = n
    BY <1>1, <1>6, <1>14, <2>1 DEF FirstValue
  <2> QED
    BY <1>5, <1>14, <2>2, <2>3
<1>15. CASE ind.name = "MACD"
  <2>1. n > 1 /\ c \in {Name("MACD"), Name("MACD_SIGNAL"), Name("HIST")}
    BY <1>1, <1>15 DEF LongEnough, DisplayNames
  <2>2. Own = MACD(s, n, n - 1, n)[c]
    BY <1>1, <1>15 DEF Own, Apply
  <2>3. CASE c = Name("MACD")
    <3>1. Begins(Own, k, n)
      BY <1>3, <2>1, <2>2, <2>3, OscillatorBegins
    <3>2. FirstValue(ind, c) = n
      BY <1>1, <1>6, <1>15, <2>3 DEF FirstValue
    <3> QED
      BY <1>5, <1>15, <3>1, <3>2
  <2>4. CASE c \in {Name("MACD_SIGNAL"), Name("HIST")}
    <3>1. PICK late \in Nat : late = 2 * n - 1
      OBVIOUS
    <3>2. Begins(Own, k, late)
      BY <1>3, <2>1, <2>2, <2>4, <3>1, OscillatorBegins
    <3>3. FirstValue(ind, c) = late
      <4>1. FirstValue(ind, c) = 2 * ind.n - 1
        BY <1>6, <1>15, <2>4 DEF FirstValue
      <4> QED
        BY <1>1, <3>1, <4>1
    <3> QED
      BY <1>5, <1>15, <3>2, <3>3
  <2> QED
    BY <2>1, <2>3, <2>4
<1>16. CASE ind.name = "Engulfing"
  <2>1. c = Name("ENGULFING")
    BY <1>16 DEF DisplayNames
  <2>2. Begins(Own, k, 1)
    BY <1>3, <1>16, <2>1, EngulfingBegins DEF Own, Apply
  <2>3. FirstValue(ind, c) = 1
    BY <1>6, <1>16, <2>1 DEF FirstValue
  <2> QED
    BY <1>5, <1>16, <2>2, <2>3
<1> QED
  BY <1>8, <1>9, <1>10, <1>11, <1>12, <1>13, <1>14, <1>15, <1>16 DEF Indicators

\* Every column an indicator shows begins with the first row that has its whole
\* period behind it, and has no hole from there on: what min_periods and window
\* leave out in indicator.py is the warm-up and nothing else.  Only the RSI of a
\* price that never moved stays without a number.
THEOREM WarmUpIsExactHolds ==
    ASSUME OnePeriod, ClosesArePositive, PeriodsAreLong
    PROVE  Spec => []WarmUpIsExact
<1>1. FrameInv => WarmUpIsExact
  <2> SUFFICES ASSUME FrameInv, Growing, NEW i \in DOMAIN plan, NEW c \in DisplayNames(plan[i])
               PROVE  frame[c][Today] # NaN <=>
                         /\ Today >= FirstValue(plan[i], c)
                         /\ (plan[i].name = "RSI" => Moved)
    BY DEF WarmUpIsExact
  <2>1. PICK p, x, k : p = plan /\ x = bars /\ k = Today
    OBVIOUS
  <2>2. p \in Plans /\ x \in Seq(Bars) /\ frame = pre_process_data(x, p)
    BY <2>1 DEF FrameInv
  <2>3. k = Len(x) /\ k \in 1 .. Len(x)
    BY <2>1, <2>2 DEF Growing, Today
  <2>4. p[i] \in Indicators /\ i \in 1 .. Len(p) /\ c \in DisplayNames(p[i])
    BY <2>1, <2>2, PlansAreIndicators
  <2>5. LongEnough(p[i])
    BY <2>1, <2>2 DEF PeriodsAreLong
  <2>6. frame[c][k] = Apply(p[i], Source(x))[c][k]
    BY <2>2, <2>4, FrameIsOwn
  <2>7. Apply(p[i], Source(x))[c][k] # NaN
           <=> /\ k >= FirstValue(p[i], c)
               /\ (p[i].name = "RSI" => \E j \in 2 .. k : x[j].close # x[j - 1].close)
    BY <2>2, <2>3, <2>4, <2>5, OwnBegins
  <2> QED
    BY <2>1, <2>6, <2>7 DEF Moved
<1> QED
  BY <1>1, FrameHolds, PTL

=============================================================================
