---------------------------- MODULE MCSnapshots ----------------------------
(* Instance of Snapshots: what two snapshots hold only matters as far as   *)
(* they are equal.                                                         *)
EXTENDS Snapshots, TLC
CONSTANTS one, two

ValuesAlike == Permutations(Values)

\* Two maps, snapshots of several parts, and a base that the server forgets;
Wide == [values |-> {one, two}, keep |-> 1, parts |-> 2, ticks |-> 3, maps |-> 2, snaps |-> 3, inputs |-> 2]
\* and an unchanging world, for long enough that the storage is purged.
Long == [values |-> {one}, keep |-> 4, parts |-> 1, ticks |-> 6, maps |-> 1, snaps |-> 2, inputs |-> 2]
\* Values permute: {one} alone stands for {two} alone.
WideAndLong == {Wide, Long, [Long EXCEPT !.values = {two}]}
=============================================================================
