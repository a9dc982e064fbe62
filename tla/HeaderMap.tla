----------------------------- MODULE HeaderMap -----------------------------
(***************************************************************************)
(* What the header functions of proxy_parse.h promise: a map from keys to  *)
(* values.  Setting a key gives it the new value and leaves every other    *)
(* key alone, removing it leaves no value, so does a set that fails for    *)
(* want of memory, no other call changes anything, and destroying the      *)
(* object empties the map.                                                 *)
(***************************************************************************)
CONSTANTS Keys, Values, NoKey, NoValue

VARIABLES
  map,   \* the value of every key, or NoValue
  last   \* the last call

Call(op, k, v) == [op |-> op, key |-> k, value |-> v]
Empty == [k \in Keys |-> NoValue]

Init == map = Empty /\ last = Call("other", NoKey, NoValue)

Set == \E k \in Keys, v \in Values :
         last' = Call("set", k, v) /\ map' = [map EXCEPT ![k] = v]

Remove == \E k \in Keys :
            last' = Call("remove", k, NoValue) /\ map' = [map EXCEPT ![k] = NoValue]

SetFails == \E k \in Keys :
              last' = Call("setFails", k, NoValue) /\ map' = [map EXCEPT ![k] = NoValue]

Other == last' = Call("other", NoKey, NoValue) /\ map' = map

Destroy == last' = Call("destroy", NoKey, NoValue) /\ map' = Empty

Next == Set \/ SetFails \/ Remove \/ Other \/ Destroy

Spec == Init /\ [][Next]_<<map, last>>
=============================================================================
