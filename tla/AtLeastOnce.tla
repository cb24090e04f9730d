---------------------------- MODULE AtLeastOnce ----------------------------
(* What a durable intake promises, whatever carries it: an item it has      *)
(* taken is owed until it is served; while nothing goes wrong it is served  *)
(* once and never lost; each trouble (a crash, a failed call, a lost answer,*)
(* an expired key) may lose items or have one served once more.             *)
EXTENDS Naturals

CONSTANT Items

VARIABLES
    owed,     \* items taken and neither served nor lost
    lost,     \* items that were owed and are not kept any more
    times,    \* times[i]: how often i has been served
    trouble   \* the troubles so far

vars == <<owed, lost, times, trouble>>

Init ==
    /\ owed = {} /\ lost = {}
    /\ times = [i \in Items |-> 0]
    /\ trouble = 0

Take(S) ==
    /\ \A i \in S : times[i] = 0 /\ i \notin lost
    /\ owed' = owed \union S
    /\ UNCHANGED <<lost, times, trouble>>

Serve(i) ==
    /\ i \in owed
    /\ owed' = owed \ {i}
    /\ times' = [times EXCEPT ![i] = 1]
    /\ UNCHANGED <<lost, trouble>>

ServeAgain(i) ==
    /\ times[i] > 0 \/ i \in lost
    /\ times[i] <= trouble
    /\ times' = [times EXCEPT ![i] = @ + 1]
    /\ UNCHANGED <<owed, lost, trouble>>

Lose(L) ==
    /\ L \subseteq owed
    /\ owed' = owed \ L
    /\ lost' = lost \union L

Neglect(i) == trouble > 0 /\ Lose({i}) /\ UNCHANGED <<times, trouble>>

Trouble ==
    /\ trouble' = trouble + 1
    /\ \E L \in SUBSET owed : Lose(L)
    /\ UNCHANGED times

Next ==
    \/ \E S \in SUBSET Items : Take(S)
    \/ \E i \in Items : Serve(i) \/ ServeAgain(i) \/ Neglect(i)
    \/ Trouble

Spec == Init /\ [][Next]_vars
=============================================================================
