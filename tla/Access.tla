------------------------------- MODULE Access --------------------------------
(***************************************************************************)
(* What a request passes before the work it asks for: the sessions of its  *)
(* user; its idempotency key and the limit of its uploads.  The two share  *)
(* no state and are checked in one run: a behaviour is one of one part,    *)
(* the sessions stay as they are in one of the requests, and the variables *)
(* of the requests are off in one of the sessions.                         *)
(***************************************************************************)
EXTENDS Sessions

CONSTANTS
    Attempts, Others, Limit, Window, Payloads, Forms, Delay, MaxTime, MaxFaults   \* see Requests

VARIABLES
    part,       \* "sessions" or "requests"
    now, attempt, lock, record, bucket, admitted, uncounted, stray, faults

Req == INSTANCE Requests WITH request <- attempt

ASSUME RequestsAssumption == Req!RequestsAssumption

ReqOff == /\ now = "off" /\ attempt = "off" /\ lock = "off" /\ record = "off"
          /\ bucket = "off" /\ admitted = "off" /\ uncounted = "off" /\ stray = "off"
          /\ faults = "off"

req == <<now, attempt, lock, record, bucket, admitted, uncounted, stray, faults>>

AccessInit ==
    /\ Init
    /\ \/ part = "sessions" /\ ReqOff
       \/ part = "requests" /\ Req!Init

AccessNext ==
    \/ part = "sessions" /\ Next /\ UNCHANGED <<part, req>>
    \/ part = "requests" /\ Req!Next /\ UNCHANGED <<part, vars>>

AccessSpec == AccessInit /\ [][AccessNext]_<<part, vars, req>>

(***************************************************************************)
(* The properties of the sessions are those of their module.  Requests:    *)
(* attempts with one key run one at a time but for those whose lock was    *)
(* lost or never taken, and these have a cause; an answer is replayed to   *)
(* the same question only; no window passes more uploads than its limit,   *)
(* but for those whose count failed (idempotency.ts, rateLimit.ts).        *)
(***************************************************************************)
RequestsKept ==
    part = "requests" =>
        Req!TypeOK /\ Req!OneInside /\ Req!ReplaysMatch /\ Req!WindowRespected
          /\ Req!UncountedFew

(* Requests: what has left the window is not held against the tenant       *)
(* (rateLimit.ts).                                                         *)
RefusedOnlyWhenBusy ==
    [][part = "requests" => Req!RefusedOnlyWhenBusy]_<<part, vars, req>>
=============================================================================
