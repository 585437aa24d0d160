--------------------------------- MODULE KVStore ---------------------------------
(***************************************************************************)
(* What a caller of the key-value store may count on: a call asks for one  *)
(* value, it takes effect at one moment or not at all, and nothing else    *)
(* ever changes what is stored, power cuts included -- as long as the      *)
(* store is sound.                                                         *)
(***************************************************************************)
EXTENDS Naturals

CONSTANTS Key, Value, NoValue

VARIABLES
    kv,     \* the value stored for each key
    ask,    \* the call that has not taken effect yet
    sound

vars == <<kv, ask, sound>>

Nothing == [key |-> NoValue, val |-> NoValue]

Init ==
    /\ kv = [k \in Key |-> NoValue]
    /\ ask = Nothing
    /\ sound = TRUE

Ask(k, v) ==
    /\ ask = Nothing
    /\ ask' = [key |-> k, val |-> v]
    /\ UNCHANGED <<kv, sound>>

TakesEffect ==
    /\ ask # Nothing
    /\ kv' = [kv EXCEPT ![ask.key] = ask.val]
    /\ ask' = Nothing
    /\ UNCHANGED sound

\* The store is full, or the power failed.
Fails ==
    /\ ask' = Nothing
    /\ UNCHANGED <<kv, sound>>

Breaks == sound' = FALSE

Next ==
    \/ ~sound \/ Breaks
    \/ Fails \/ TakesEffect
    \/ \E k \in Key, v \in Value \cup {NoValue} : Ask(k, v)

Spec == Init /\ [][Next]_vars
=============================================================================
