------------------------------ MODULE Technicals ------------------------------
(***************************************************************************)
(* The formulas of src/technicals: properties of one candle, candlestick   *)
(* patterns and indicators, as operators on a data frame.                  *)
(*                                                                         *)
(* A frame is the sequence of its bars, oldest first.  A column is a       *)
(* sequence of cells, one for each bar.  A cell is NaN or a rational       *)
(* <<numerator, denominator>> in lowest terms, <<1, 0>> being infinity:    *)
(* exact numbers stand for floats.  What pandas does with missing values,  *)
(* zero divisors, positions and .round(2) is kept.                         *)
(***************************************************************************)
EXTENDS Integers, Sequences, FiniteSets

-----------------------------------------------------------------------------
(* Cells *)

NaN == <<>>

(* The greatest common divisor of a and b is gcd[b][a].                    *)
gcd[b \in Nat] == [a \in Nat |-> IF b = 0 THEN a ELSE gcd[a % b][b]]

Magnitude(n) == IF n < 0 THEN -n ELSE n

(* The quotient n / d: 0 / 0 is NaN, n / 0 is infinite.                    *)
Rational(n, d) ==
    IF n = 0 /\ d = 0
    THEN NaN
    ELSE LET s == IF d < 0 THEN -1 ELSE 1
             g == gcd[Magnitude(d)][Magnitude(n)]
         IN  <<s * (n \div g), s * (d \div g)>>

Cell(n) == <<n, 1>>

Missing(a, b) == NaN \in {a, b}

Plus(a, b) ==
    IF Missing(a, b) THEN NaN ELSE Rational(a[1] * b[2] + b[1] * a[2], a[2] * b[2])
Times(a, b) == IF Missing(a, b) THEN NaN ELSE Rational(a[1] * b[1], a[2] * b[2])
Over(a, b) == IF Missing(a, b) THEN NaN ELSE Rational(a[1] * b[2], a[2] * b[1])
Minus(a, b) == Plus(a, Times(Cell(-1), b))

Fill(x, default) == IF x = NaN THEN default ELSE x

(* Of the two integers around n / d the nearer one, of equally near ones   *)
(* the even one.                                                           *)
HalfEven(n, d) ==
    LET down == n \div d
        up == \/ 2 * (n % d) > d
              \/ 2 * (n % d) = d /\ down % 2 = 1
    IN  IF up THEN down + 1 ELSE down

(* Series.round(2), which leaves NaN and infinity alone.  Where a number   *)
(* is exactly between two hundredths the float of the code may lie on      *)
(* either side of it.                                                      *)
Rounded(x) ==
    IF x = NaN \/ x[2] = 0 THEN x ELSE Rational(HalfEven(100 * x[1], x[2]), 100)

(* Comparisons with NaN are false.                                         *)
Less(a, b) == ~ Missing(a, b) /\ a[1] * b[2] < b[1] * a[2]
AtMost(a, b) == ~ Missing(a, b) /\ a[1] * b[2] <= b[1] * a[2]

Greatest(a, b) == IF Less(a, b) THEN b ELSE a
Least(a, b) == IF Less(b, a) THEN b ELSE a
Distance(a, b) == Greatest(Minus(a, b), Minus(b, a))

-----------------------------------------------------------------------------
(* Columns *)

Column(bars, field) == [t \in DOMAIN bars |-> Cell(bars[t][field])]

Combine(Op(_, _), c, d) == [t \in DOMAIN c |-> Op(c[t], d[t])]

(* Mutant of Shift: rows move up.                                          *)
MutantShift(c, k) == [t \in DOMAIN c |-> IF t + k \in DOMAIN c THEN c[t + k] ELSE NaN]

(* Series.shift(k)                                                         *)
Shift(c, k) == [t \in DOMAIN c |-> IF t - k \in DOMAIN c THEN c[t - k] ELSE NaN]

(* The sums over all bars so far, each of which shrinks with every step.   *)
Decayed(decay, c) ==
    LET sum[t \in 0 .. Len(c)] ==
            IF t = 0 THEN Cell(0) ELSE Plus(Times(decay, sum[t - 1]), c[t])
    IN  sum

Total(cells) == Decayed(Cell(1), cells)[Len(cells)]

(* Series.rolling(window = n).mean() and .var(), which are NaN in front of *)
(* the n-th value and wherever the window holds a NaN.                     *)
RollingMean(c, n) ==
    [t \in DOMAIN c |->
        IF t < n THEN NaN ELSE Over(Total(SubSeq(c, t - n + 1, t)), Cell(n))]

RollingVariance(c, n) ==
    LET mean == RollingMean(c, n)
        Square(x) == Times(x, x)
    IN  [t \in DOMAIN c |->
            IF t < n
            THEN NaN
            ELSE Over(Total([i \in 1 .. n |-> Square(Minus(c[t - n + i], mean[t]))]),
                      Cell(n - 1))]

(* How many values the column has up to bar t.                             *)
Seen(c, t) == Cardinality({i \in 1 .. t : c[i] # NaN})

(* Mutant of ExponentialMean: without min_periods.                         *)
MutantExponentialMean(c, n) ==
    LET decay == Rational(n - 1, n + 1)
        sum == Decayed(decay, [t \in DOMAIN c |-> Fill(c[t], Cell(0))])
        weights == Decayed(decay, [t \in DOMAIN c |-> Cell(1)])
    IN  [t \in DOMAIN c |-> Over(sum[t], weights[t])]

(* ewm(span = n, min_periods = n).mean(): the mean of all values so far,   *)
(* with weights that shrink by 1 - 2 / (n + 1) with each step back.        *)
ExponentialMean(c, n) ==
    LET decay == Rational(n - 1, n + 1)
        sum == Decayed(decay, [t \in DOMAIN c |-> Fill(c[t], Cell(0))])
        weights == Decayed(decay, [t \in DOMAIN c |-> IF c[t] = NaN THEN Cell(0) ELSE Cell(1)])
    IN  [t \in DOMAIN c |-> IF Seen(c, t) < n THEN NaN ELSE Over(sum[t], weights[t])]

(* The smoothing of Wilder: it starts with the first value.                *)
Smoothed(c, n) ==
    LET mean[t \in 0 .. Len(c)] ==
            IF t = 0 THEN NaN
            ELSE IF mean[t - 1] = NaN THEN c[t]
            ELSE Over(Plus(Times(Cell(n - 1), mean[t - 1]), c[t]), Cell(n))
    IN  mean

(* ewm(alpha = 1 / n, min_periods = n, adjust = False).mean()              *)
WilderMean(c, n) ==
    [t \in DOMAIN c |-> IF Seen(c, t) < n THEN NaN ELSE Smoothed(c, n)[t]]

-----------------------------------------------------------------------------
(* One candle and the patterns *)

Percent(part, whole) == Times(Fill(Over(part, whole), Cell(0)), Cell(100))

(* Mutant of CandleProps: what is missing is 0 for the top as well.        *)
MutantCandleProps(bar) ==
    LET lower == IF bar.close < bar.open THEN bar.close ELSE bar.open
        upper == IF bar.close < bar.open THEN bar.open ELSE bar.close
        range == bar.high - bar.low
        safe == IF range = 0 THEN NaN ELSE Cell(range)
        top == Minus(Cell(100), Times(Over(Cell(bar.high - upper), safe), Cell(100)))
    IN  [direction |-> IF bar.close >= bar.open THEN 1 ELSE -1,
         body_size |-> Cell(upper - lower),
         body_perc |-> Rounded(Percent(Cell(upper - lower), safe)),
         body_bottom_perc |-> Percent(Cell(lower - bar.low), safe),
         body_top_perc |-> Fill(top, Cell(0))]

(* A candle without a range has the percentages 0 (body), 0 (bottom) and   *)
(* 100 (top).  Of the three only the body's is rounded.                    *)
CandleProps(bar) ==
    LET lower == IF bar.close < bar.open THEN bar.close ELSE bar.open
        upper == IF bar.close < bar.open THEN bar.open ELSE bar.close
        range == bar.high - bar.low
        safe == IF range = 0 THEN NaN ELSE Cell(range)
    IN  [direction |-> IF bar.close >= bar.open THEN 1 ELSE -1,
         body_size |-> Cell(upper - lower),
         body_perc |-> Rounded(Percent(Cell(upper - lower), safe)),
         body_bottom_perc |-> Percent(Cell(lower - bar.low), safe),
         body_top_perc |-> Minus(Cell(100), Percent(Cell(bar.high - upper), safe))]

apply_marubozu(row) == Less(Cell(98), row.body_perc)

apply_hanging_man(row) ==
    Less(Cell(75), row.body_bottom_perc) /\ Less(row.body_perc, Cell(15))

apply_shooting_star(row) ==
    Less(row.body_top_perc, Cell(25)) /\ Less(row.body_perc, Cell(15))

apply_spinning_top(row) ==
    /\ Less(row.body_top_perc, Cell(60))
    /\ Less(Cell(40), row.body_bottom_perc)
    /\ Less(row.body_perc, Cell(15))

(* Of two candles; the first row of a frame has nothing to compare with,   *)
(* and the comparison of sizes with NaN is false.                          *)
apply_engulfing(row, direction_prev, body_size_prev) ==
    /\ Cell(row.direction) # direction_prev
    /\ Less(Times(body_size_prev, Rational(11, 10)), row.body_size)

-----------------------------------------------------------------------------
(* Indicators.  A data frame maps names to columns; a name is a pair of    *)
(* which the second component is the period, where the code's name has it. *)

Name(name) == <<name, 0>>

(* The assignment of a column, which replaces one of the same name.        *)
Assign(df, name, c) == [x \in DOMAIN df \union {name} |-> IF x = name THEN c ELSE df[x]]

Open(df) == df[Name("open")]
High(df) == df[Name("high")]
Low(df) == df[Name("low")]
Close(df) == df[Name("close")]

EMA(df, n) == Assign(df, <<"EMA", n>>, ExponentialMean(Close(df), n))

MA(df, n) == Assign(df, <<"MA", n>>, RollingMean(Close(df), n))

(* The average of the true ranges.  The maximum skips what is missing, so  *)
(* that the first bar's is its own range.                                  *)
ATR(df, n) ==
    LET prev == Shift(Close(df), 1)
        true(t) ==
            LET own == Minus(High(df)[t], Low(df)[t])
            IN  IF prev[t] = NaN
                THEN own
                ELSE Greatest(own, Greatest(Distance(High(df)[t], prev[t]),
                                            Distance(prev[t], Low(df)[t])))
    IN  Assign(df, <<"ATR", n>>, RollingMean([t \in DOMAIN prev |-> true(t)], n))

(* Keeps the columns of its average and its range in the frame.            *)
KeltnerChannels(df, n_ema, n_atr) ==
    LET ana == ATR(EMA(df, n_ema), n_atr)
        Twice(c) == Combine(Plus, c, c)
    IN  Assign(Assign(ana, Name("KeUp"), Combine(Plus, Twice(ana[<<"ATR", n_atr>>]), ana[<<"EMA", n_ema>>])),
               Name("KeLo"), Combine(Minus, ana[<<"EMA", n_ema>>], Twice(ana[<<"ATR", n_atr>>])))

(* The bands are a multiple of a square root away from BB_MA: BB_VAR is    *)
(* the variance they are computed from.  The names carry no period.        *)
BollingerBands(df, n) ==
    LET typical == [t \in DOMAIN Close(df) |->
                       Over(Plus(Close(df)[t], Plus(High(df)[t], Low(df)[t])), Cell(3))]
    IN  Assign(Assign(df, Name("BB_MA"), RollingMean(typical, n)),
               Name("BB_VAR"), RollingVariance(typical, n))

(* A fall-free stretch divides by zero: 100, or NaN if nothing rose either.*)
RSI(df, n) ==
    LET gains == Combine(Minus, Close(df), Shift(Close(df), 1))
        clipped(Op(_, _)) == [t \in DOMAIN gains |->
                                 IF gains[t] = NaN THEN NaN ELSE Op(gains[t], Cell(0))]
        win == WilderMean(clipped(Greatest), n)
        loss == WilderMean(Combine(Minus, [t \in DOMAIN gains |-> Cell(0)], clipped(Least)), n)
        strength(rs) == Rounded(Minus(Cell(100), Over(Cell(100), Plus(Cell(1), rs))))
    IN  Assign(df, <<"RSI", n>>, [t \in DOMAIN gains |-> strength(Over(win[t], loss[t]))])

MACD(df, n_slow, n_fast, n_signal) ==
    LET macd == Combine(Minus, ExponentialMean(Close(df), n_fast), ExponentialMean(Close(df), n_slow))
        signal == ExponentialMean(macd, n_signal)
    IN  Assign(Assign(Assign(df, Name("MACD"), macd), Name("MACD_SIGNAL"), signal),
               Name("HIST"), Combine(Minus, macd, signal))

(* Mutant of BIAS: takes any average over the period.                      *)
MutantBIAS(df, n) ==
    LET ana == IF <<"EMA", n>> \in DOMAIN df THEN df ELSE EMA(df, n)
        ema == IF <<"MA", n>> \in DOMAIN df THEN df[<<"MA", n>>] ELSE ana[<<"EMA", n>>]
    IN  Assign(ana, <<"BIAS", n>>,
               Combine(LAMBDA c, e : Times(Over(Minus(c, e), e), Cell(100)), Close(df), ema))

(* Takes the average that is already in the frame under its name, if any.  *)
BIAS(df, n) ==
    LET ana == IF <<"EMA", n>> \in DOMAIN df THEN df ELSE EMA(df, n)
        ema == ana[<<"EMA", n>>]
    IN  Assign(ana, <<"BIAS", n>>,
               Combine(LAMBDA c, e : Times(Over(Minus(c, e), e), Cell(100)), Close(df), ema))

(* Mutant of Engulfing: a candle that did not move counts as a fall.       *)
MutantEngulfing(df, factor) ==
    LET diff == Combine(Minus, Close(df), Open(df))
        size == Combine(Distance, Close(df), Open(df))
        direction == [t \in DOMAIN diff |-> IF Less(Cell(0), diff[t]) THEN Cell(1) ELSE Cell(-1)]
        engulfs(t) == /\ Shift(direction, 1)[t] \notin {direction[t], NaN}
                      /\ Less(Times(Shift(size, 1)[t], factor), size[t])
    IN  Assign(df, Name("ENGULFING"),
               [t \in DOMAIN diff |-> IF engulfs(t) THEN Cell(1) ELSE Cell(0)])

(* Computed from the prices, whatever the frame's direction column says.   *)
Engulfing(df, factor) ==
    LET diff == Combine(Minus, Close(df), Open(df))
        size == Combine(Distance, Close(df), Open(df))
        direction == [t \in DOMAIN diff |-> IF Less(diff[t], Cell(0)) THEN Cell(-1) ELSE Cell(1)]
        opposite(t) == Shift(direction, 1)[t] \notin {direction[t], NaN}
        larger(t) == Less(Times(Shift(size, 1)[t], factor), size[t])
    IN  Assign(df, Name("ENGULFING"),
               [t \in DOMAIN diff |-> IF opposite(t) /\ larger(t) THEN Cell(1) ELSE Cell(0)])

=============================================================================
