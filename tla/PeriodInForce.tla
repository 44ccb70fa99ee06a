---------------------------- MODULE PeriodInForce ----------------------------
(***************************************************************************)
(* What loading a period promises: the listens in force and the reference  *)
(* labels are replaced together, by what the bucket holds of one slice of  *)
(* the measured size, and never otherwise.                                 *)
(***************************************************************************)
EXTENDS Naturals

CONSTANTS Slices, Members, Counted, Unique, Missing

VARIABLES objects, listens, labels

Whole(slice) == [k \in 1 .. Members |-> slice]

Init == objects = Whole(Missing) /\ listens = Missing /\ labels = Missing

Load ==
  /\ \E slice \in Counted \cap Unique : objects = Whole(slice)
  /\ listens' = objects /\ labels' = objects
  /\ UNCHANGED objects

Upload ==
  /\ \E k \in 1 .. Members, slice \in Slices : objects' = [objects EXCEPT ![k] = slice]
  /\ UNCHANGED <<listens, labels>>

Next == Load \/ Upload

Spec == Init /\ [][Next]_<<objects, listens, labels>>
=============================================================================
