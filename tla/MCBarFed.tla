------------------------------ MODULE MCBarFed ------------------------------
(***************************************************************************)
(* The bars TLC feeds the accumulators: with and without displacement, up  *)
(* and down, one after a gap and one that opens a session.                 *)
(***************************************************************************)
EXTENDS BarFed

Candle(wait, o, h, l, c, disp, v) ==
  [fresh |-> FALSE, wait |-> wait, o |-> o, h |-> h, l |-> l, c |-> c,
   disp |-> disp, v |-> v]

MCShapes ==
  {Candle(1, 1, 2, 1, 2, TRUE, 0), Candle(1, 1, 1, 0, 0, FALSE, 2),
   Candle(1, 3, 4, 3, 4, TRUE, 1), Candle(3, 3, 3, 0, 0, TRUE, 1),
   [Candle(1, 2, 3, 2, 3, FALSE, 2) EXCEPT !.fresh = TRUE]}
=============================================================================
