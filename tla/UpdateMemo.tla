------------------------------ MODULE UpdateMemo ------------------------------
(***************************************************************************)
(* The memo of map updates.  Map.put and Map.set of the same map, key and  *)
(* value recur, so a table per thread remembers results: one entry a slot, *)
(* overwritten when another update meets it.  The entry has the ids of the *)
(* map, the key and the value but not which of the two operations it was:  *)
(* that is told by the slot alone, and a hit for set of what was stored by *)
(* put would miss its error.                                               *)
(*                                                                         *)
(* Words have Modulus values (2^64 in the code), ids are words, and a slot *)
(* is the leading part of a word: SlotSize words have it (2^48).           *)
(***************************************************************************)
EXTENDS Integers

CONSTANTS
  Keys, Vals,    \* their ids
  Missing,       \* for a key that a map does not have
  Modulus, SlotSize,
  Mix,           \* the odd constant of the hash
  MapId(_)       \* the id of a map

\* A map, as the values of its keys.
Maps == [Keys -> Vals \cup {Missing}]

ASSUME MemoAssumption ==
  /\ Modulus \in Nat /\ SlotSize \in Nat \ {0} /\ Mix \in Nat
  /\ SlotSize <= Mix /\ Mix <= Modulus - SlotSize
  /\ Keys \subseteq Nat /\ Vals \subseteq Nat
  /\ \A m \in Maps : MapId(m) \in Nat
  /\ Missing \notin Vals
  /\ Keys # {} /\ Vals # {}

VARIABLES
  map,        \* the map at hand
  memo,       \* the entries, by slot
  asked,      \* the last update
  answer      \* its result

memoVars == <<map, memo, asked, answer>>

Updates == [map : Maps, key : Keys, val : Vals, must_exist : BOOLEAN]

Hash(u) == (MapId(u.map) * Mix + u.key * 2) * Mix + u.val * 2

\* Mutant: the operation does not take part in the hash.
SlotOfIds(u) == ((Hash(u) * Mix) % Modulus) \div SlotSize

update_slot(u) ==
  (((Hash(u) + (IF u.must_exist THEN 1 ELSE 0)) * Mix) % Modulus) \div SlotSize

\* What the update gives without the memo: a map, or an error that leaves it.
Result(u) ==
  IF u.must_exist /\ u.map[u.key] = Missing THEN <<"QNT507", u.map>>
  ELSE <<"ok", [u.map EXCEPT ![u.key] = u.val]>>

IsFor(e, u) == e.map = u.map /\ e.key = u.key /\ e.val = u.val

IsHit(u) == update_slot(u) \in DOMAIN memo /\ IsFor(memo[update_slot(u)], u)

MemoInit ==
  /\ memo = [s \in {} |-> s]
  /\ asked = [map |-> [k \in Keys |-> Missing], key |-> CHOOSE k \in Keys : TRUE,
              val |-> CHOOSE v \in Vals : TRUE, must_exist |-> FALSE]
  /\ answer = Result(asked)
  /\ map = asked.map

Answered(u, result) ==
  /\ u.map = map
  /\ asked' = u
  /\ answer' = result
  /\ map' = result[2]

Hit(u) ==
  /\ IsHit(u)
  /\ Answered(u, <<"ok", memo[update_slot(u)].res>>)
  /\ UNCHANGED memo

\* An error is not remembered.
Fail(u) ==
  /\ ~IsHit(u)
  /\ Result(u)[1] # "ok"
  /\ Answered(u, Result(u))
  /\ UNCHANGED memo

Store(u) ==
  /\ ~IsHit(u)
  /\ Result(u)[1] = "ok"
  /\ Answered(u, Result(u))
  /\ memo' = [s \in DOMAIN memo \cup {update_slot(u)} |->
                IF s # update_slot(u) THEN memo[s]
                ELSE [map |-> u.map, key |-> u.key, val |-> u.val, res |-> Result(u)[2]]]

\* A map comes from elsewhere: a variable of another state.
Load(m) == map' = m /\ UNCHANGED <<memo, asked, answer>>

MemoNext ==
  \/ \E u \in Updates : Hit(u) \/ Fail(u) \/ Store(u)
  \/ \E m \in Maps : Load(m)

MemoSpec == MemoInit /\ [][MemoNext]_memoVars

-----------------------------------------------------------------------------
(***************************************************************************)
(* A remembered update is answered as it would be without the memo.        *)
(***************************************************************************)
MemoIsTransparent == answer = Result(asked)

\* Every entry is the result of an update that belongs in its slot.
EntriesAreResults ==
  \A s \in DOMAIN memo :
    \E u \in Updates :
      update_slot(u) = s /\ IsFor(memo[s], u) /\ Result(u) = <<"ok", memo[s].res>>

MemoInv ==
  /\ map \in Maps
  /\ EntriesAreResults
  /\ MemoIsTransparent

=============================================================================
