---------------------------- MODULE MCQueueLoop ----------------------------
EXTENDS QueueLoop

CONSTANTS p1, p2, c1, c2, s1, v1, v2, v3, e1, e2

\* Two consumers share a level-triggered epoll and pop once per event.
Level == [producers |-> {p1, p2}, consumers |-> {c1, c2}, closers |-> {},
          epollOf |-> [c \in {c1, c2} |-> e1], trigger |-> "level", draining |-> FALSE]

\* Each has an edge-triggered epoll of its own and drains.
Edge == [producers |-> {p1, p2}, consumers |-> {c1, c2}, closers |-> {},
         epollOf |-> [c \in {c1, c2} |-> IF c = c1 THEN e1 ELSE e2],
         trigger |-> "edge", draining |-> TRUE]

\* One consumer drains until the queue is closed.
Closing == [producers |-> {p1}, consumers |-> {c1}, closers |-> {s1},
            epollOf |-> [c \in {c1} |-> e1], trigger |-> "level", draining |-> TRUE]

AllSetups == {Level, Edge, Closing}
=============================================================================
