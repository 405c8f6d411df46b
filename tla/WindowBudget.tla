---------------------------- MODULE WindowBudget ----------------------------
(***************************************************************************)
(* What a fixed-window rate limiter promises, said of the calls it lets    *)
(* through and of nothing else: each method has a budget of Limit calls    *)
(* per window, which no call overruns while that window lasts; a call is   *)
(* refused only when the budget of its own method and window is used up;   *)
(* and a call is never charged to a window that has not begun.  Calls that *)
(* arrive after their window is over (stragglers) and calls waved through  *)
(* while the counter is out of reach are outside the budget, but count as  *)
(* let through.                                                            *)
(***************************************************************************)
EXTENDS Naturals

CONSTANTS Thread, Method, Limit, Window, Windows

VARIABLES now,        \* the clock
          granted,    \* calls the counter let through, by method and window
          waved,      \* calls let through without the counter's answer
          refused     \* per thread: the method and window it was just refused for, or << >>

vars == <<now, granted, waved, refused>>

Nothing == [m \in Method |-> [w \in Windows |-> 0]]

Init == /\ now = 0
        /\ granted = Nothing /\ waved = Nothing
        /\ refused = [t \in Thread |-> << >>]

Present == now \div Window

Tick == now' = now + 1 /\ UNCHANGED <<granted, waved, refused>>

Grant(m, w) == /\ w = Present => granted[m][w] < Limit
               /\ w <= Present
               /\ granted' = [granted EXCEPT ![m][w] = @ + 1]
               /\ UNCHANGED <<now, waved, refused>>

Wave(m, w) == /\ w <= Present
              /\ waved' = [waved EXCEPT ![m][w] = @ + 1]
              /\ UNCHANGED <<now, granted, refused>>

Refuse(t, m, w) == /\ refused[t] = << >>
                   /\ granted[m][w] + waved[m][w] >= Limit
                   /\ refused' = [refused EXCEPT ![t] = <<m, w>>]
                   /\ UNCHANGED <<now, granted, waved>>

Reply(t) == /\ refused[t] # << >>
            /\ refused' = [refused EXCEPT ![t] = << >>]
            /\ UNCHANGED <<now, granted, waved>>

Next == \/ Tick
        \/ \E m \in Method, w \in Windows : Grant(m, w) \/ Wave(m, w)
        \/ \E t \in Thread : Reply(t) \/ \E m \in Method, w \in Windows : Refuse(t, m, w)

Spec == Init /\ [][Next]_vars

=============================================================================
