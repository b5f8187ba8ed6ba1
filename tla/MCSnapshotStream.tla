-------------------------- MODULE MCSnapshotStream --------------------------
(* An instance of SnapshotStream: a component of six fields, of which the  *)
(* first changes and the last, which has a threshold, and one of a         *)
(* single field that is always sent, registered in either order.           *)
EXTENDS SnapshotStream

Field(max, threshold) == [max |-> max, threshold |-> threshold]
Fixed == Field(0, 0)

Wide == [id |-> 1, fields |-> <<Field(1, 0), Fixed, Fixed, Fixed, Fixed, Field(1, 1)>>]
Narrow == [id |-> 2, fields |-> <<Field(1, 0)>>]

Roomy == [create |-> 2, update |-> 2, destroy |-> 2, components |-> 2, fields |-> 6,
          section |-> 3, total |-> 2]
OneEach == [Roomy EXCEPT !.create = 1, !.update = 1, !.destroy = 1, !.section = 1]
OneInAll == [Roomy EXCEPT !.total = 1]

MCSetups == {[schema |-> <<Wide, Narrow>>, limits |-> l] : l \in {Roomy, OneEach, OneInAll}}
              \cup {[schema |-> <<Narrow, Wide>>, limits |-> Roomy]}

MCForms == (1 :> {{1}, {1, 2}}) @@ (2 :> {{2}})

(* The codec of the field with the threshold takes 0 and 1: 2 is out of    *)
(* its range.                                                              *)
MCValues == (1 :> <<{0, 1}, {0}, {0}, {0}, {0}, 0 .. 2>>) @@ (2 :> <<{0, 1}>>)
=============================================================================
