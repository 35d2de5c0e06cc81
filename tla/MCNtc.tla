------------------------------- MODULE MCNtc -------------------------------
(* Model of NtcReader for TLC.  Frames alone, with a queue that fills and   *)
(* one that is read in two pieces; the messages of adapters; and the        *)
(* changes of an administrator and a reader that ends.                      *)
EXTENDS NtcReader

MCSetups == {[slots |-> 1, frames |-> 3, ads |-> 0, admin |-> 0, exits |-> 0],
             [slots |-> 3, frames |-> 3, ads |-> 0, admin |-> 0, exits |-> 0],
             [slots |-> 1, frames |-> 1, ads |-> 2, admin |-> 0, exits |-> 0],
             [slots |-> 1, frames |-> 0, ads |-> 3, admin |-> 1, exits |-> 0],
             [slots |-> 1, frames |-> 1, ads |-> 0, admin |-> 1, exits |-> 1]}
=============================================================================
