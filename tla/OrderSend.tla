------------------------------ MODULE OrderSend ------------------------------
(***************************************************************************)
(* orb/broker/mt5.py _open and _send, with orb/broker/retcodes.py: one     *)
(* market entry, from the signal to the result or the error.               *)
(*                                                                         *)
(* order_send answers with a retcode or not at all.  A timeout, a lost     *)
(* connection and no answer are ambiguous: the request may have been       *)
(* executed, may be executed later, or may be lost.  With the retry policy *)
(* the loop re-reads the positions before it resends an ambiguous entry.   *)
(* The same loop sends limits, closes and stop changes, without that       *)
(* guard.  Prices and volumes are left out: what counts is how often the   *)
(* server executes.                                                        *)
(***************************************************************************)
EXTENDS Integers, Sequences

CONSTANTS
  MaxRetries,   \* RetryPolicy.max_retries
  LadderLen,    \* volumes _open tries: the wanted one and the smaller ones
  OldPositions, \* positions the adapter has already
  MaxLate,      \* bound: requests executed after their ambiguous answer
  MaxFailedReads \* bound: failed reads of the positions

ASSUME SendAssumption ==
  /\ MaxRetries \in Nat /\ LadderLen \in Nat \ {0}
  /\ MaxLate \in Nat /\ MaxFailedReads \in Nat /\ OldPositions \in Nat

VARIABLES
  guard,    \* entry_guard: this is a market entry
  policy,   \* self.retry is not None
  stage,
  step,     \* the rung of the volume ladder
  attempt, rotated,
  before,   \* the snapshot: old positions and executions listed in it
  rc,       \* the last answer
  done,     \* requests the server executed
  flight,   \* ambiguous requests still under way
  late, failedReads,
  sends,    \* requests sent (history)
  misread,  \* an error other than "no money" went down the ladder (history)
  result    \* "none" while the call runs

callVars == <<guard, policy, stage, step, attempt, rotated, before, rc, done,
              flight, late, failedReads, sends, misread, result>>

-----------------------------------------------------------------------------
(* retcodes.py *)
NoAnswer == 0       \* order_send returned None
Unknown == 1        \* a retcode that is not in the table

Done == 10009
Success == {10008, Done}
SuccessPartial == {10010}
RetryFreshPrice == {10004, 10015, 10020}
RetryBackoff == {10006, 10011, 10021, 10024, 10028}
Ambiguous == {10012, 10031, NoAnswer}
DeferLadder == {10019}
RotateFilling == {10030}
Abort == {10013, 10014, 10017, 10018, 10022, 10029, 10033, 10034, Unknown}
AbortAlert == {10016, 10026, 10027}

Retcodes == Success \cup SuccessPartial \cup RetryFreshPrice \cup RetryBackoff
            \cup Ambiguous \cup DeferLadder \cup RotateFilling \cup Abort \cup AbortAlert

MutClassify(code) ==
  CASE code \in Success -> "SUCCESS"
    [] code \in SuccessPartial -> "SUCCESS_PARTIAL"
    [] code \in RetryFreshPrice -> "RETRY_FRESH_PRICE"
    [] code \in RetryBackoff \cup Ambiguous -> "RETRY_BACKOFF"
    [] code \in DeferLadder -> "DEFER_LADDER"
    [] code \in RotateFilling -> "ROTATE_FILLING"
    [] OTHER -> "ABORT"

classify(code) ==
  CASE code \in Success -> "SUCCESS"
    [] code \in SuccessPartial -> "SUCCESS_PARTIAL"
    [] code \in RetryFreshPrice -> "RETRY_FRESH_PRICE"
    [] code \in RetryBackoff -> "RETRY_BACKOFF"
    [] code \in Ambiguous -> "AMBIGUOUS"
    [] code \in DeferLadder -> "DEFER_LADDER"
    [] code \in RotateFilling -> "ROTATE_FILLING"
    [] code \in AbortAlert -> "ABORT_ALERT"
    [] OTHER -> "ABORT"

PolicyAction == {"SUCCESS", "SUCCESS_PARTIAL", "RETRY_FRESH_PRICE", "RETRY_BACKOFF",
                 "AMBIGUOUS", "DEFER_LADDER", "ROTATE_FILLING", "ABORT_ALERT", "ABORT"}

-----------------------------------------------------------------------------
NoSnapshot == [old |-> 0, done |-> 0]

CallInit ==
  /\ guard \in BOOLEAN /\ policy \in BOOLEAN
  /\ stage = "snapshot" /\ step = 1 /\ attempt = 0 /\ rotated = FALSE
  /\ before = NoSnapshot /\ rc = NoAnswer
  /\ done = 0 /\ flight = 0 /\ late = 0 /\ failedReads = 0 /\ sends = 0
  /\ misread = FALSE /\ result = "none"

ReadFails == failedReads < MaxFailedReads /\ failedReads' = failedReads + 1

(* _send starts: the tickets there are.  (Only the guard looks at them.) *)
Snapshot ==
  /\ stage = "snapshot"
  /\ \/ before' = [old |-> OldPositions, done |-> done] /\ UNCHANGED failedReads
     \/ before' = NoSnapshot /\ ReadFails
  /\ attempt' = 0 /\ rotated' = FALSE
  /\ stage' = "send"
  /\ UNCHANGED <<guard, policy, step, rc, done, flight, late, sends, misread,
                 result>>

(* order_send: the answer, and what the server does with the request. *)
Executes(code) == code \in Success \cup SuccessPartial

Send ==
  /\ stage = "send"
  /\ rc' \in Retcodes
  /\ \/ /\ done' = IF Executes(rc') THEN done + 1 ELSE done
        /\ UNCHANGED <<flight, late>>
     \/ /\ rc' \in Ambiguous /\ done' = done + 1
        /\ UNCHANGED <<flight, late>>
     \/ /\ rc' \in Ambiguous /\ late < MaxLate
        /\ flight' = flight + 1 /\ late' = late + 1
        /\ UNCHANGED done
  /\ sends' = sends + 1
  /\ stage' = "judge"
  /\ UNCHANGED <<guard, policy, step, attempt, rotated, before, failedReads, misread,
                 result>>

(* The server gets to an ambiguous request only now. *)
Arrive ==
  /\ flight > 0
  /\ flight' = flight - 1 /\ done' = done + 1
  /\ UNCHANGED <<guard, policy, stage, step, attempt, rotated, before, rc, late,
                 failedReads, sends, misread, result>>

-----------------------------------------------------------------------------
Request == <<guard, policy, before, rc, done, flight, late, failedReads, sends>>

Return(r) ==
  /\ stage' = "done" /\ result' = r
  /\ UNCHANGED <<step, attempt, rotated, misread>>

(* _open goes on to the next volume when the text of the error holds the    *)
(* digits 10019.  Any answer is quoted with its comment and the whole       *)
(* request, so a price or a stop may hold them as well as the retcode;      *)
(* where there was no answer, neither is quoted.                            *)
Mentions(digits) == rc # NoAnswer /\ (classify(rc) = "DEFER_LADDER" \/ digits)

Raise ==
  \E digits \in BOOLEAN :
    IF guard /\ Mentions(digits) /\ step < LadderLen
    THEN /\ step' = step + 1 /\ stage' = "snapshot"
         /\ misread' = (misread \/ classify(rc) # "DEFER_LADDER")
         /\ UNCHANGED <<attempt, rotated, result>>
    ELSE Return("error")

(* Without a policy, anything but DONE is an error. *)
JudgeOnce ==
  /\ stage = "judge" /\ ~policy
  /\ IF rc = Done THEN Return("ok") ELSE Raise
  /\ UNCHANGED Request

MutPermanent ==
  \/ classify(rc) \in {"DEFER_LADDER", "ABORT", "ABORT_ALERT"}
  \/ classify(rc) = "ROTATE_FILLING" /\ rotated
  \/ attempt > MaxRetries

Permanent ==
  \/ classify(rc) \in {"DEFER_LADDER", "ABORT", "ABORT_ALERT"}
  \/ classify(rc) = "ROTATE_FILLING" /\ rotated
  \/ attempt >= MaxRetries

Retry ==
  /\ attempt' = attempt + 1 /\ stage' = "send"
  /\ rotated' = (rotated \/ classify(rc) = "ROTATE_FILLING")
  /\ UNCHANGED <<step, misread, result>>

RaiseOrRetry == IF Permanent THEN Raise ELSE Retry

Judge ==
  /\ stage = "judge" /\ policy
  /\ CASE classify(rc) \in {"SUCCESS", "SUCCESS_PARTIAL"} -> Return("ok")
       [] classify(rc) = "AMBIGUOUS" /\ guard ->
            stage' = "query" /\ UNCHANGED <<step, attempt, rotated, misread, result>>
       [] OTHER -> RaiseOrRetry
  /\ UNCHANGED Request

(* _recovered_entry: is there a ticket the snapshot does not have? *)
MutNewTicket == FALSE

NewTicket == done > before.done \/ OldPositions > before.old

MutQuery ==
  /\ stage = "query" /\ NewTicket /\ Return("recovered")
  /\ UNCHANGED Request

Query ==
  /\ stage = "query"
  /\ \/ /\ IF NewTicket THEN Return("recovered") ELSE RaiseOrRetry
        /\ UNCHANGED failedReads
     \/ RaiseOrRetry /\ ReadFails
  /\ UNCHANGED <<guard, policy, before, rc, done, flight, late, sends>>

Finished == stage = "done" /\ flight = 0 /\ UNCHANGED callVars

Call == Snapshot \/ Send \/ JudgeOnce \/ Judge \/ Query

CallNext == Call \/ Arrive \/ Finished

CallSpec == CallInit /\ [][CallNext]_callVars

(* The call runs on: order_send and the reads return, sleeps end. *)
FairCallSpec == CallSpec /\ WF_callVars(Call)

-----------------------------------------------------------------------------
CallTypeOK ==
  /\ guard \in BOOLEAN /\ policy \in BOOLEAN /\ rotated \in BOOLEAN /\ misread \in BOOLEAN
  /\ stage \in {"snapshot", "send", "judge", "query", "done"}
  /\ step \in 1 .. LadderLen /\ attempt \in 0 .. MaxRetries
  /\ before \in [old : Nat, done : Nat]
  /\ rc \in Retcodes
  /\ done \in Nat /\ flight \in Nat /\ sends \in Nat
  /\ late \in 0 .. MaxLate /\ failedReads \in 0 .. MaxFailedReads
  /\ result \in {"none", "ok", "recovered", "error"}

(* No request was executed after its answer, and no read failed, so far. *)
Prompt == late = 0 /\ failedReads = 0

(* mt5.py: "never risk a double".  An entry is executed at most once, over  *)
(* all resends and all rungs of the volume ladder, as long as the server is *)
(* done with a request by the time the positions are read again.  Without   *)
(* the policy only as long as no other error was taken for a "no money": an *)
(* order at 10019.5 that is executed and answered 10012 is sent once more,  *)
(* at the next volume.                                                      *)
NeverDouble == Prompt /\ guard /\ (policy \/ ~misread) => done <= 1

(* With the policy, what the caller of an entry is told is what happened:   *)
(* a result means exactly one execution and an error means none, although   *)
(* the answers in between said nothing of the kind.                         *)
ResultIsTruth ==
  Prompt /\ guard /\ policy =>
    /\ result \in {"ok", "recovered"} => done = 1
    /\ result = "error" => done = 0

(* The retry budget holds per rung of the ladder, whatever is answered.     *)
BoundedSends == sends <= LadderLen * (MaxRetries + 1)

(* Every order call comes back.                                             *)
CallReturns == <>(stage = "done")
=============================================================================
