---------------------------- MODULE MC_SetsLocked ----------------------------
(* Small instances of SetsLocked for TLC. *)
EXTENDS SetsLocked

\* SADD to either key, SREM of member 1, and SMOVE of member 1 both ways.
MCCmds ==
    {[op |-> "sadd", k |-> 1, n |-> 1, arg |-> {1}],
     [op |-> "sadd", k |-> 2, n |-> 2, arg |-> {1}],
     [op |-> "srem", k |-> 1, n |-> 1, arg |-> <<1>>],
     [op |-> "smove", k |-> 1, n |-> 2, arg |-> 1],
     [op |-> "smove", k |-> 2, n |-> 1, arg |-> 1]}

\* SADD to either key, SMOVE into key 1, RENAME of key 1 to key 2 and to
\* itself.
MCCmdsRename ==
    {[op |-> "sadd", k |-> 1, n |-> 1, arg |-> {1}],
     [op |-> "sadd", k |-> 2, n |-> 2, arg |-> {1}],
     [op |-> "smove", k |-> 2, n |-> 1, arg |-> 1],
     [op |-> "rename", k |-> 1, n |-> 2, arg |-> 1],
     [op |-> "rename", k |-> 1, n |-> 1, arg |-> 1]}

MCSRemArgs == {<<1>>}

MCStoreArgs == {<<1>>}

\* INT32_MAX.
MCMaxCount == 2147483647
=============================================================================
