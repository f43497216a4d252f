SPECIFICATION Spec
CONSTANTS
    Capacity = 2
    MaxAdds = 3
    Flags <- MCFlags
    Sinks <- MCSinks
    NoSink = "none"
\* A destroyed log takes no further step.
CHECK_DEADLOCK FALSE
INVARIANTS TypeOK NothingLost PauseFlushes IntoItsSink
PROPERTIES PauseReturns Delivered
