---------------------------- MODULE NapiExceptions ----------------------------
(***************************************************************************)
(* Exceptions and the last status in packages/wasmkernel/src/              *)
(* napi_runtime.js, on top of what NapiAsync says of who calls whom.       *)
(*                                                                         *)
(* There is one exceptionPending, with its lastException, and one          *)
(* _lastStatus for all guest functions in progress.  A callback gives the  *)
(* exception that is pending when it returns to its JavaScript caller, a   *)
(* completion and a finalizer report it as uncaught, and the others leave  *)
(* it.  Exceptions are objects here: undefined or null, once thrown, are   *)
(* not reported.                                                           *)
(***************************************************************************)
EXTENDS NapiAsync, NapiMethods

VARIABLES
  pending,      \* exceptionPending: who raised lastException, or None
  lastStatus,   \* _lastStatus
  results,      \* per frame, the status of the method of a dispatch
  misreported   \* history: reported as uncaught, but of another function

excVars == <<pending, lastStatus, results, misreported>>
allVars == <<vars, excVars>>

\* The statuses other than these two are told apart by nobody.
Status(s) == IF s \in {"napi_ok", "napi_pending_exception"} THEN s ELSE "failed"
Statuses == {"napi_ok", "napi_pending_exception", "failed"}
NoStatus == "none"  \* of a method that has not returned
Failures == Statuses \ {"napi_ok"}

-----------------------------------------------------------------------------
(* Exceptions.                                                             *)

None == [raiser |-> "", at |-> 0]
\* One that the guest function at depth d raised, or did not catch; at is 0
\* once that function returned.
Of(d) == [raiser |-> stack[d].kind, at |-> d]

StaysPending == UNCHANGED pending  \* a bug: the flag is not reset
Taken == pending' = None

-----------------------------------------------------------------------------
(* Statuses.                                                               *)

ResultAt(i) == IF i \in DOMAIN results THEN results[i] ELSE NoStatus
NoResult ==
  /\ results' = [i \in DOMAIN stack' |-> ResultAt(i)]
  /\ UNCHANGED lastStatus

\* The method of the dispatch at depth d has returned s.
Answers(d, s) ==
  /\ lastStatus' = s
  /\ results' = [i \in DOMAIN stack' |-> IF i = d THEN s ELSE ResultAt(i)]

Nothing == UNCHANGED <<pending, misreported>> /\ NoResult

-----------------------------------------------------------------------------
(* The methods with an action of their own in NapiAsync.                   *)

\* A finalized function is not found any more.
ReleaseStatus(t) == IF tsfn[t].finalized THEN "failed" ELSE "napi_ok"
Simple ==
  /\ QueueWork \/ CancelWork \/ PostFinalizer \/ RegisterFinalizer
     \/ CancelFinalizer \/ CreatePromise \/ SettleDeferred
  /\ Answers(Depth, "napi_ok")
  /\ UNCHANGED <<pending, misreported>>

OfTsfn ==
  /\ \/ CallTsfn /\ Answers(Depth, IF Accepts(Top.arg) THEN "napi_ok" ELSE "failed")
     \/ AcquireTsfn /\ Answers(Depth, IF Accepts(Top.arg) THEN "napi_ok" ELSE "failed")
     \/ ReleaseTsfn /\ Answers(Depth, ReleaseStatus(Top.arg))
  /\ UNCHANGED <<pending, misreported>>

WithoutEnv == NoEnv /\ Answers(Depth, "failed") /\ UNCHANGED <<pending, misreported>>

-----------------------------------------------------------------------------
(* All others: the table, and those that look at the exception.            *)

Outcomes == {[o EXCEPT !.status = Status(@)] :
               o \in UNION {OutcomesOf(row) : row \in Table}}

ByTable ==
  /\ OtherCall
  /\ \E o \in Outcomes :
       /\ Answers(Depth, o.status)
       /\ pending' = IF o.raised THEN Of(Depth - 1) ELSE pending
  /\ UNCHANGED misreported

\* napi_get_and_clear_last_exception.
GetAndClear ==
  OtherCall /\ Taken /\ Answers(Depth, "napi_ok") /\ UNCHANGED misreported

\* napi_open_handle_scope, which alone refuses while an exception is pending.
OpenHandleScope ==
  /\ OtherCall /\ UNCHANGED <<pending, misreported>>
  /\ Answers(Depth, IF pending = None THEN "napi_ok" ELSE "napi_pending_exception")

-----------------------------------------------------------------------------
(* Guest functions return.                                                 *)

Taking == {"callback", "complete", "finalizer"}
Catching(i) == i \in 1 .. Depth /\ stack[i].kind = "dispatch"
               /\ stack[i].op = "call_function"

\* To JavaScript: the host's, or that of a thread-safe function.
CallbackReturns ==
  /\ InGuest({"callback"}) /\ ~Catching(Depth - 1)
  /\ Return /\ Taken /\ NoResult
  /\ UNCHANGED misreported

\* To the guest, by way of a JavaScript function if the exception is caught.
CalledReturns ==
  /\ InGuest({"callback"}) /\ Catching(Depth - 1)
  /\ Return
  /\ \/ Taken /\ Answers(Depth - 1, "napi_ok")
     \/ /\ pending # None
        /\ pending' = Of(Depth - 2)
        /\ Answers(Depth - 1, "napi_pending_exception")
  /\ UNCHANGED misreported

\* What is pending is reported, whoever raised it.
ReportingReturns ==
  /\ InGuest({"complete", "finalizer"})
  /\ Return /\ Taken /\ NoResult
  /\ misreported' = (misreported \/ pending \notin {None, Of(Depth)})

\* Work, the other functions of a thread-safe function, slices of workers.
LeavingReturns ==
  /\ InGuest(GuestKinds \ Taking)
  /\ Return
  /\ pending' = IF pending.at = Depth THEN [pending EXCEPT !.at = 0] ELSE pending
  /\ NoResult /\ UNCHANGED misreported

-----------------------------------------------------------------------------
ExcInit == Init /\ pending = None /\ lastStatus = "napi_ok" /\ results = <<>>
           /\ misreported = FALSE

Others == \/ DrainNext \/ EndDrain
          \/ CallFunction
          \/ RunWork \/ AfterAsync \/ DeliverTsfn \/ FinalizeTsfn \/ NextTsfn
          \/ EndSteps \/ GuestMoves \/ Microtask \/ Pump \/ HostCalls
          \/ \E f \in Objects : Collect(f)

ExcNext == \/ Simple \/ OfTsfn \/ WithoutEnv
           \/ ByTable \/ GetAndClear \/ OpenHandleScope
           \/ CallbackReturns \/ CalledReturns \/ ReportingReturns \/ LeavingReturns
           \/ Others /\ Nothing

ExcSpec == ExcInit /\ [][ExcNext]_allVars

-----------------------------------------------------------------------------
(* Properties.                                                             *)

\* An exception that a callback, a completion or a finalizer raised does not
\* survive the function, however the calls nest: it is not there any more
\* when an unrelated one returns.
GoneWithItsFunction ==
  pending.raiser \in Taking =>
    /\ pending.at \in 1 .. Depth
    /\ stack[pending.at].kind = pending.raiser

\* While a call that failed is still on its way back to the guest, no other
\* function runs: napi_get_last_error_info will tell of this call, and if it
\* returns napi_pending_exception the exception is there.  The drains after
\* the method find nothing then, because every earlier call drained.
FailureIsTold ==
  \A i \in 1 .. Depth : results[i] \in Failures =>
    /\ i = Depth /\ lastStatus = results[i]
    /\ results[i] = "napi_pending_exception" => pending # None

\* What is reported as uncaught after a completion was raised by it
\* (napi_runtime.js:2432).
UncaughtIsOwn == ~misreported
=============================================================================
