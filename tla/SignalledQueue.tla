--------------------------- MODULE SignalledQueue ---------------------------
(***************************************************************************)
(* What src/queue.rs promises to a program that waits for the queue with   *)
(* an epoll: a bounded FIFO queue and a signal that may be raised for no   *)
(* reason but is never off while the queue holds an item.                  *)
(***************************************************************************)
EXTENDS Naturals, Sequences

CONSTANTS Clients, Items, Capacity

VARIABLES
  items,    \* the queue
  closed,   \* no further push succeeds
  signal,   \* "off", "on", or "owed": to be raised or found not needed
  takers    \* clients that took an item and may still lower the signal for it

vars == <<items, closed, signal, takers>>

Init ==
  /\ items = <<>>
  /\ closed = FALSE
  /\ signal = "off"
  /\ takers = {}

Push(v) ==
  /\ ~closed
  /\ Len(items) < Capacity
  /\ items' = Append(items, v)
  /\ signal' = IF signal = "off" THEN "owed" ELSE signal
  /\ UNCHANGED <<closed, takers>>

Pop(c) ==
  /\ c \notin takers
  /\ items # <<>>
  /\ items' = Tail(items)
  /\ takers' = takers \cup {c}
  /\ UNCHANGED <<closed, signal>>

\* A taker may lower the signal once, and then owes a fresh decision about it.
Release(c) ==
  /\ c \in takers
  /\ takers' = takers \ {c}
  /\ signal' \in {signal, "owed"}
  /\ UNCHANGED <<items, closed>>

Raise ==
  /\ signal' = "on"
  /\ UNCHANGED <<items, closed, takers>>

\* An owed signal is dropped only if there is nothing to announce.
Settle ==
  /\ signal = "owed"
  /\ items = <<>>
  /\ signal' = "off"
  /\ UNCHANGED <<items, closed, takers>>

Close ==
  /\ closed' = TRUE
  /\ UNCHANGED <<items, signal, takers>>

Next ==
  \/ \E v \in Items : Push(v)
  \/ \E c \in Clients : Pop(c) \/ Release(c)
  \/ Raise \/ Settle \/ Close

Spec == Init /\ [][Next]_vars

\* The signal does not stay owed while an item lies in the queue, unless
\* clients keep popping without waiting for it.
Prompt ==
  \/ []<>(signal # "owed" \/ items = <<>>)
  \/ []<><<\E c \in Clients : Pop(c)>>_vars

LiveSpec == Spec /\ Prompt
=============================================================================
