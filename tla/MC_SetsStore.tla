---------------------------- MODULE MC_SetsStore ----------------------------
(* Small instances of SetsStore for TLC. *)
EXTENDS SetsStore

\* SREM argument lists without repeated members.
MCSRemArgs == {<<1>>, <<1, 2>>}

\* SREM argument lists that name a member twice (SREM k a a).
MCSRemArgsDup == {<<1, 1>>}

\* STORE key lists: one key, and two keys in both orders.
MCStoreArgs == {<<1>>, <<1, 2>>, <<2, 1>>}

\* The clock steps back by one, or forward by one, between two readings.
MCClockBack == {-1, 1}

\* INT32_MAX.
MCMaxCount == 2147483647
=============================================================================
