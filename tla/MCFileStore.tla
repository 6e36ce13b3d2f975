---------------------------- MODULE MCFileStore -----------------------------
(* FileStore with tables that are sets of routes, and updates that add a route
   that is not there: of two that are lost or done twice, one shows. *)
EXTENDS FileStore

CONSTANT Routes

MCTables == SUBSET Routes

\* Values of the kind of a table that are no table.
MCRefused == {"refused"}
MCMissing == {"missing"}

MCAdd(r) == [t \in MCTables |-> IF r \in t THEN MCRefused ELSE t \cup {r}]

MCUpdates == {MCAdd(r) : r \in Routes}
=============================================================================
