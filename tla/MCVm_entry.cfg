\* The entry points of spec 4.D called at their shapes through RustVm.
CONSTANTS
  Names = {"instantiate", "execute", "migrate", "query", "receive", "reply", "authenticate", "cron_execute", "unknown"}
  WriteTags = {"t1", "t2"}
  MaxCalls = 3
SPECIFICATION Spec
INVARIANT OnlyUnknownNamesRejected
\* The calls stop at MaxCalls; that bound is the only place a run ends.
CHECK_DEADLOCK FALSE
