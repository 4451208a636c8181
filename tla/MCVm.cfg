\* RustVm dispatch over the names of the spec's entry-point matrix plus an
\* unknown one, two write tags, three calls.
CONSTANTS
  Names = {"instantiate", "execute", "migrate", "query", "receive", "reply", "authenticate", "cron_execute", "unknown"}
  WriteTags = {"t1", "t2"}
  MaxCalls = 3
SPECIFICATION Spec
INVARIANT TypeOK
\* The calls stop at MaxCalls; that bound is the only place a run ends.
CHECK_DEADLOCK FALSE
