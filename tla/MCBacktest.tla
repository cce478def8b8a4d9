------------------------------ MODULE MCBacktest ------------------------------
(* An instance of Backtest: two strategies, whose indicators share columns *)
(* and come in orders that matter.                                         *)
EXTENDS Backtest

Half == <<1, 2>>
MinusHalf == <<-1, 2>>

Bar(o, h, l, c) == [open |-> o, high |-> h, low |-> l, close |-> c]

(* Without a range; rising and falling without shadows; unchanged with     *)
(* shadows; a hanging man; a shooting star; a spinning top; a small rise.  *)
PlainBars ==
    {Bar(4, 4, 4, 4), Bar(2, 8, 2, 8), Bar(10, 10, 1, 1), Bar(4, 6, 2, 4),
     Bar(9, 10, 1, 10), Bar(2, 10, 1, 1), Bar(5, 10, 1, 6), Bar(3, 4, 2, 4)}

(* A body of 98.00499 percent, which is rounded to the limit 98; one of    *)
(* 14.99503 percent at the top, which is rounded to the limit 15; one in   *)
(* the middle between 3.12 and 3.13 percent.                               *)
LimitBars == {Bar(1, 402, 1, 394), Bar(857, 1008, 1, 1008), Bar(2, 33, 1, 1)}

MCBars == PlainBars \union LimitBars

Indicator(name, n) == [name |-> name, n |-> n]

MCPlans ==
    {<<Indicator("KeltnerChannels", 2), Indicator("BIAS", 2), Indicator("RSI", 2),
       Indicator("BollingerBands", 2)>>,
     <<Indicator("MA", 2), Indicator("BIAS", 2), Indicator("EMA", 2), Indicator("ATR", 3),
       Indicator("MACD", 2), Indicator("Engulfing", 2)>>}

=============================================================================
