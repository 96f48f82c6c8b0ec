--------------------------- MODULE EngineContract ---------------------------
(***************************************************************************)
(* What the live loop relies on of any strategy engine (orb/engine.py and  *)
(* its siblings): the position the engine believes in, and the signal of   *)
(* its last call.  The loop forwards signals to the broker and pushes the  *)
(* stop to the server, so the contract is                                  *)
(*   - one position at a time, opened by an ENTRY and left by an EXIT;     *)
(*   - a PARTIAL exit or a REJECT leaves the position alone;               *)
(*   - while it is held, its stop only tightens.                           *)
(***************************************************************************)
EXTENDS Integers

CONSTANT Stops   \* the stop prices

VARIABLES
  cpos,  \* the believed position, or NoTrade
  csig   \* kind of the last signal

cvars == <<cpos, csig>>

NoTrade == [dir |-> "none", stop |-> 0]
Trades == [dir : {"LONG", "SHORT"}, stop : Stops]

NoLooser(p, q) ==
  /\ q.dir = p.dir
  /\ IF p.dir = "LONG" THEN q.stop >= p.stop ELSE q.stop <= p.stop

CInit == cpos = NoTrade /\ csig = "none"

Enter ==
  /\ cpos = NoTrade
  /\ cpos' \in Trades
  /\ csig' = "ENTRY"

Hold ==
  /\ cpos # NoTrade
  /\ cpos' \in Trades /\ NoLooser(cpos, cpos')
  /\ csig' = "none"

PartialExit ==
  /\ cpos # NoTrade
  /\ csig' = "PARTIAL"
  /\ UNCHANGED cpos

Leave ==
  /\ cpos # NoTrade
  /\ cpos' = NoTrade
  /\ csig' = "EXIT"

Wait ==
  /\ cpos = NoTrade
  /\ csig' \in {"none", "REJECT"}
  /\ UNCHANGED cpos

CNext == Enter \/ Hold \/ PartialExit \/ Leave \/ Wait

CSpec == CInit /\ [][CNext]_cvars
=============================================================================
