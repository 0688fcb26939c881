------------------------------ MODULE MCRings ------------------------------
(* Instances of the driver's rings and of the clock that stamps their      *)
(* completions, for TLC.  The three share no state, so a behaviour uses    *)
(* one of them: their states add up and do not multiply.  The clock runs   *)
(* twice, with records and one call, and with two calls at once.           *)
EXTENDS TxRing, RxRing, PtpClock
LOCAL INSTANCE Bitwise

VARIABLE used   \* the one that runs

\* A period with nanoseconds beyond a second and an odd number of seconds.
MCPeriods == {<<2, 3>>}

BitOr(a, b) == a | b

RingsInit == used \in {"tx", "rx", "stamps", "calls"} /\ Init /\ RxInit /\ PtpInit

\* The callers are alike: let the first one call first.
InTurn == calls' = 1 => call'[2].pc = "idle"

RingsNext ==
  /\ UNCHANGED used
  /\ \/ used = "tx" /\ Next /\ UNCHANGED <<rxVars, ptpVars>>
     \/ used = "rx" /\ RxNext /\ UNCHANGED <<vars, ptpVars>>
     \/ used = "stamps" /\ PtpNext /\ InTurn /\ calls' <= 1 /\ UNCHANGED <<vars, rxVars>>
     \/ used = "calls" /\ PtpNext /\ InTurn /\ stamped' = <<>> /\ UNCHANGED <<vars, rxVars, perout>>
     \/ used = "calls" /\ phc >= MaxTime /\ UNCHANGED <<vars, rxVars, ptpVars>>   \* the clock's bound

\* In its initial state, with its ring closed, a module has no fair action that
\* is enabled, so the fairness of the one that does not run asks for nothing.
RingsSpec == /\ RingsInit
             /\ [][RingsNext]_<<used, vars, rxVars, ptpVars>> /\ Fairness /\ RxFairness
=============================================================================
