------------------------------- MODULE Redis -------------------------------
(***************************************************************************)
(* The Redis commands RedisService forwards, as operators on tables of     *)
(* hashes.  A table maps the variable part of a key ("client:{token}",     *)
(* "id:{id}", "logined:{id}") to a hash; a hash maps each field name to a  *)
(* value or to NoValue.  Redis keeps no empty hash: a key exists exactly   *)
(* when one of its fields has a value, so HDEL of the last field removes   *)
(* the key and HSET on a missing key creates it.                           *)
(***************************************************************************)
CONSTANT NoValue    \* an absent field, std::nullopt for the caller

Hash(Fields, Values) == [Fields -> Values \cup {NoValue}]

NoKey(Fields) == [f \in Fields |-> NoValue]

Exists(h) == \E f \in DOMAIN h : h[f] # NoValue

HashGet(h, f) == h[f]

HashSet(table, k, f, v) == [table EXCEPT ![k] = [@ EXCEPT ![f] = v]]

HashDel(table, k, f) == [table EXCEPT ![k] = [@ EXCEPT ![f] = NoValue]]

Del(table, k) == [table EXCEPT ![k] = NoKey(DOMAIN table[k])]

Keys(table) == {k \in DOMAIN table : Exists(table[k])}

\* The keys RedisService::Scan may return.  The cursor of scan() is passed by
\* value and the next one, its result, is dropped: the loop ends after the
\* first page, which is some of the keys of the pattern, since the page
\* counts the entries of the whole database.
Scan(table) == SUBSET Keys(table)

\* Del of every key of a list.
DelAll(table, ks) ==
    [k \in DOMAIN table |-> IF k \in ks THEN NoKey(DOMAIN table[k]) ELSE table[k]]
=============================================================================
