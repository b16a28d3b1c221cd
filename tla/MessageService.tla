--------------------------- MODULE MessageService ---------------------------
(***************************************************************************)
(* What the channel stack promises each customer, however the debounce     *)
(* timers, the locks and the semaphore interleave: the messages it accepts *)
(* are handled one batch at a time, each at most once, in the order they   *)
(* were written; a batch is a run of consecutive messages.  The newest     *)
(* accepted messages may be lost (the buffer is in memory and bounded), or *)
(* discarded when they say nothing; an older one is never lost before a    *)
(* newer one.  A customer's messages are numbered in the order they were   *)
(* written.                                                                *)
(***************************************************************************)
EXTENDS Naturals, Sequences

CONSTANTS
    Users,      \* the customers
    MaxMsgs,    \* bound: messages a customer writes
    Blank       \* which of each customer's messages say nothing

VARIABLES
    inbox,      \* accepted and not yet handled
    busy,       \* a batch of the customer's is being handled
    handled,    \* all that was ever handed to a turn, in that order
    written     \* how many messages were accepted so far

ServiceInit ==
    /\ inbox = [u \in Users |-> {}]
    /\ busy = [u \in Users |-> FALSE]
    /\ handled = [u \in Users |-> <<>>]
    /\ written = [u \in Users |-> 0]

\* One message comes in; to make room, the newest of other customers may go.
Accept(u) ==
    /\ written[u] < MaxMsgs
    /\ written' = [written EXCEPT ![u] = @ + 1]
    /\ \E last \in [Users -> 0..MaxMsgs] :
          inbox' = [v \in Users |-> IF v = u THEN inbox[v] \cup {written[u] + 1}
                                    ELSE {m \in inbox[v] : m <= last[v]}]
    /\ UNCHANGED <<busy, handled>>

\* The messages from the m-th to the n-th.
Run(m, n) == [i \in 1..(n - m + 1) |-> m + i - 1]

\* A turn begins with the oldest messages, up to the n-th.
Begin(u, m, n) ==
    /\ ~busy[u]
    /\ m <= n /\ m..n \subseteq inbox[u]
    /\ \A i \in inbox[u] : m <= i
    /\ busy' = [busy EXCEPT ![u] = TRUE]
    /\ handled' = [handled EXCEPT ![u] = @ \o Run(m, n)]
    /\ inbox' = [inbox EXCEPT ![u] = @ \ (m..n)]
    /\ UNCHANGED written

End(u) ==
    /\ busy[u]
    /\ busy' = [busy EXCEPT ![u] = FALSE]
    /\ UNCHANGED <<inbox, handled, written>>

\* The newest messages, from the m-th on, are discarded: they are all blank.
Discard(u, m) ==
    /\ {i \in inbox[u] : m <= i} \subseteq Blank[u]
    /\ inbox' = [inbox EXCEPT ![u] = {i \in @ : i < m}]
    /\ UNCHANGED <<busy, handled, written>>

\* The process restarts: what it had in memory is gone.
Restart ==
    /\ inbox' = [u \in Users |-> {}]
    /\ busy' = [u \in Users |-> FALSE]
    /\ UNCHANGED <<handled, written>>

ServiceNext ==
    \/ Restart
    \/ \E u \in Users : Accept(u) \/ End(u)
    \/ \E u \in Users : \E m, n \in 1..MaxMsgs : Begin(u, m, n) \/ Discard(u, m)

ServiceSpec == ServiceInit /\ [][ServiceNext]_<<inbox, busy, handled, written>>
=============================================================================
