---------------------------- MODULE MCEventLoop ----------------------------
EXTENDS EventLoop

CONSTANTS w1, w2, s1, s2

Settings(intervals, values, modes) == [interval : intervals, value : values, flags : modes]

Base == [sources |-> {"stop"}, opts |-> Level, draining |-> FALSE, direct |-> {},
         clockId |-> "Realtime",
         timerFlags |-> TimerFdNew, jobFlags |-> EventFdNew, settings |-> {}]

\* Two workers share a level-triggered timer.
Timer == [Base EXCEPT !.sources = {"timer", "stop"},
                      !.settings = Settings({0}, {1}, {"TimerCancelOnSet"})]

\* Jobs are taken one by one; level() overrules edge().
Pool == [Base EXCEPT !.sources = {"jobs", "stop"}, !.opts = Edge \cup Level,
                     !.jobFlags = {"CLOEXEC", "NONBLOCK", "SEMAPHORE"}]

\* The workers drain an edge-triggered counter.
Drain == [Base EXCEPT !.sources = {"jobs", "stop"}, !.opts = Edge, !.draining = TRUE]

\* A server with one-shot registrations.
Server == [Base EXCEPT !.sources = {"listener", "stop"}, !.opts = Edge \cup OneShot,
                       !.draining = TRUE]

\* examples/timerfd.rs: a blocking timer, read in a loop.
Example == [Base EXCEPT !.sources = {}, !.direct = {w1}, !.draining = TRUE,
                        !.timerFlags = {"CLOEXEC"},
                        !.settings = Settings({0, 1, 3}, {0, 1, 2}, SetTimeFlags)]

\* The same with a clock that is never set.
Monotonic == [Example EXCEPT !.clockId = "Monotonic",
                             !.settings = Settings({0, 2}, {1, 3}, {"Abstime", "TimerCancelOnSet"})]

AllPrograms == {Timer, Pool, Drain, Server, Example, Monotonic}
=============================================================================
