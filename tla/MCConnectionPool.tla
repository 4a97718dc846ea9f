-------------------------- MODULE MCConnectionPool --------------------------
(* Values of the constants of ConnectionPool for TLC.                      *)
EXTENDS ConnectionPool, TLC

\* A main server with a backup file, and one that is read from as well.
MysqlMode   == <<"addWrite", "addBackup">>
ReadsToo    == <<"addRead", "addRead", "addWrite", "addBackup">>

PlayerSymmetry == Permutations(Players)
=============================================================================
