---------------------------- MODULE WindowCounts ----------------------------
(***************************************************************************)
(* What the streaming job promises of its feature rows (the module comment *)
(* of streaming/job.py): one count per key and event-time window, of every *)
(* order that came in time, published once, windows in order, and final.   *)
(* An order is given up only behind a newer window.  Once something has    *)
(* failed, all that is left is that no count exceeds what was published.   *)
(***************************************************************************)
EXTENDS Integers, FiniteSets

CONSTANTS
    Keys,
    Windows     \* Numbered in the order of time.

VARIABLES
    published,  \* The orders of each cell.
    taken,      \* Those that came in time.
    dropped,    \* Those that did not.
    refused,    \* Those that were found invalid.
    counts,     \* The count of each cell; 0: none yet.
    failed      \* Something has failed.

Cells == Keys \X Windows

countVars == <<published, taken, dropped, refused, counts, failed>>

CountsInit ==
    /\ published = [x \in Cells |-> {}]
    /\ taken = published
    /\ dropped = published
    /\ refused = published
    /\ counts = [x \in Cells |-> 0]
    /\ failed = FALSE

Publish ==
    /\ \A x \in Cells : published[x] \subseteq published'[x]
    /\ UNCHANGED <<taken, dropped, refused, counts, failed>>

Unread(x) == published[x] \ (taken[x] \cup dropped[x] \cup refused[x])

\* No order enters a window once it, or a newer one of any key, is counted.
Take(x, o) ==
    /\ \A y \in Cells : counts[y] # 0 => y[2] < x[2]
    /\ taken' = [taken EXCEPT ![x] = @ \cup {o}]
    /\ UNCHANGED <<published, dropped, refused, counts, failed>>

Drop(x, o) ==
    /\ \E y \in Cells : y[2] > x[2] /\ taken[y] \cup dropped[y] # {}
    /\ dropped' = [dropped EXCEPT ![x] = @ \cup {o}]
    /\ UNCHANGED <<published, taken, refused, counts, failed>>

Refuse(x, o) ==
    /\ refused' = [refused EXCEPT ![x] = @ \cup {o}]
    /\ UNCHANGED <<published, taken, dropped, counts, failed>>

Count(x) ==
    /\ taken[x] # {}
    /\ counts[x] = 0
    /\ \A y \in Cells : y[2] < x[2] /\ taken[y] # {} => counts[y] # 0
    /\ counts' = [counts EXCEPT ![x] = Cardinality(taken[x])]
    /\ UNCHANGED <<published, taken, dropped, refused, failed>>

Disturbed ==
    /\ failed'
    /\ \A x \in Cells : /\ published[x] \subseteq published'[x]
                        /\ counts'[x] <= Cardinality(published'[x])

CountsNext ==
    \/ Disturbed \/ Publish
    \/ \E x \in Cells :
          \/ Count(x)
          \/ \E o \in Unread(x) : Take(x, o) \/ Drop(x, o) \/ Refuse(x, o)

CountsSpec == CountsInit /\ [][CountsNext]_countVars

=============================================================================
