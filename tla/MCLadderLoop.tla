----------------------------- MODULE MCLadderLoop -----------------------------
(* LadderLoop with four candles, from where an entry fills up to the final  *)
(* target: highs and lows on both sides of the stage 2 lock.                *)
EXTENDS LadderLoop

MCCandles ==
  {[h |-> 11, l |-> 9, c |-> 10], [h |-> 14, l |-> 10, c |-> 14],
   [h |-> 18, l |-> 16, c |-> 17], [h |-> 22, l |-> 19, c |-> 22]}

(* The tick is a point above or below the close. *)
MCQuotes == {-1, 1}
=============================================================================
