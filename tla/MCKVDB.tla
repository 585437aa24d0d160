--------------------------------- MODULE MCKVDB ---------------------------------
(* TLC instance of the key-value store: a key with a short and a long      *)
(* value, a key with a short one; a sector takes two KVs, or a long one.    *)
EXTENDS KVDB

MCKvLen   == [v \in Value |-> IF v = "long" THEN 3 ELSE 2]
MCValueOf == [k \in Key |-> IF k = "k1" THEN Value ELSE {"short"}]
=============================================================================
