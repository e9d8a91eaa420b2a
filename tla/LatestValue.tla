----------------------------- MODULE LatestValue -----------------------------
(***************************************************************************)
(* What the channel queue and the cursor settings of a file promise: a     *)
(* request waits until it is taken or a later one replaces it; requests    *)
(* are taken in the order they came; the last one is taken in the end.     *)
(* Requests are numbered as they come.                                     *)
(***************************************************************************)
EXTENDS Naturals

CONSTANT MaxRequests

VARIABLES last,      \* the last request made, or 0
          pending,   \* the request that waits, or 0
          taken      \* the last request taken, or 0

vars == <<last, pending, taken>>

Init == last = 0 /\ pending = 0 /\ taken = 0

Put(n) ==
    /\ n > last
    /\ last' = n /\ pending' = n
    /\ UNCHANGED taken

Take ==
    /\ pending # 0
    /\ taken' = pending
    /\ pending' = 0
    /\ UNCHANGED last

\* The file is closed and its request dropped.
Drop == pending # 0 /\ pending' = 0 /\ UNCHANGED <<last, taken>>

Next == (\E n \in 1..MaxRequests : Put(n)) \/ Take \/ Drop

Spec == Init /\ [][Next]_vars /\ WF_vars(Take)
=============================================================================
