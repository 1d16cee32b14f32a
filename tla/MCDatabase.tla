----------------------------- MODULE MCDatabase -----------------------------
(* Small instances of Database for TLC. *)
EXTENDS Database, TLC

CONSTANTS d1, d2, s1, s2, r1, r2, a1, h1

\* d1 is defined in config.toml, d2 is not.
TomlDefinitions == d1 :> s1 @@ d2 :> None

\* Of an earlier life of the server: a definition of d2.
EarlierRows == {d1 :> None @@ d2 :> s2}

Send(kind, stmt, mode, n) == [kind |-> kind, stmt |-> stmt, mode |-> mode, n |-> n]

\* Every class of statement, of them what a read-only key may run and what it may not, an insert
\* of two rows.
ClientSends ==
    {Send("query", stmt, "readonly", 1) : stmt \in {"cte", "withinsert", "create"}}
    \cup {Send("query", "create", "readwrite", 1), Send("rows", "select", "readwrite", 1),
          Send("write", "insert", "writeonly", 2)}

Symmetric == Permutations(Clients)
=============================================================================
