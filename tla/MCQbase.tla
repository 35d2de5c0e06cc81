------------------------------ MODULE MCQbase -------------------------------
(* Model of QbaseTable for TLC: the filters accept rows never updated, the  *)
(* second one, which is STRICT, stops at any other row.                     *)
EXTENDS QbaseTable, TLC

MCFilters == {[flags |-> {"EQ"}, value |-> 0, strict |-> FALSE],
              [flags |-> {"EQ", "L"}, value |-> 0, strict |-> TRUE]}

Add1 == [how |-> "add", value |-> 1]
Sub1 == [how |-> "sub", value |-> 1]

(* Two clients with filters on pages of two rows; one client on pages of a  *)
(* single row, so many that they have to be replaced, with an insert that   *)
(* fails and a crash.                                                       *)
Shared == [clients |-> Clients, pagerows |-> 2, filters |-> 1, rows |-> 3,
           fails |-> 0, updates |-> 2, crashes |-> 0, rules |-> {Add1}]
Paging == {[clients |-> {c}, pagerows |-> 1, filters |-> 0, rows |-> 4,
            fails |-> 1, updates |-> 1, crashes |-> 1, rules |-> {Sub1}] : c \in Clients}

(* Every update rule, on a page of two rows *)
Ruling == {[clients |-> {c}, pagerows |-> 2, filters |-> 1, rows |-> 2,
            fails |-> 0, updates |-> 3, crashes |-> 0,
            rules |-> {Sub1, [how |-> "set", value |-> 1], [how |-> "mul", value |-> 3],
                       [how |-> "div", value |-> 2]}] : c \in Clients}

MCSetups == {Shared} \cup Paging \cup Ruling

(* Five pages of one row: the third page of the list is replaced in place   *)
Evicting == {[p EXCEPT !.rows = 5, !.fails = 0, !.crashes = 0] : p \in Paging}

Symmetry == Permutations(Clients)
=============================================================================
