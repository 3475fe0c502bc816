---------------------------- MODULE MCLifecycle ----------------------------
(***************************************************************************)
(* TLC instance of LifecycleHistory.  r0 and t0 are the ids a stream       *)
(* establishes, r1 a second run's.                                         *)
(***************************************************************************)
EXTENDS LifecycleHistory, TLC

CONSTANTS r0, r1, t0

Run(type, r, t, stamp) == [type |-> type, runId |-> r, threadId |-> t, timestamp |-> stamp]
Plain(type, stamp) == [type |-> type, timestamp |-> stamp]
Noted(type, stamp) == [type |-> type, timestamp |-> stamp, noted |-> TRUE]

SomeInputs ==
  {[type |-> "MALFORMED"], [type |-> "UNTYPED"],
   Plain("UNKNOWN", "number"), Plain("UNKNOWN", "other"),
   Run("RUN_STARTED", r0, t0, None), Run("RUN_STARTED", r1, t0, None),
   Run("RUN_STARTED", r1, None, "number"),
   Run("RUN_FINISHED", r0, t0, None), Run("RUN_FINISHED", r1, None, None),
   Plain("RUN_ERROR", None), Plain("EVENT", None), Noted("RAW", "other"),
   Noted("CUSTOM", "number")}

=============================================================================
