---------------------------- MODULE MCQxcBilling ----------------------------
(* Model of QxcBilling for TLC: two accounts with a card each, the second   *)
(* of which may be negative and has a monthly tax.  The second tariff makes *)
(* packets dearer, and those of one host dearer still.  One setup has more  *)
(* packets than two logs hold, one the administrator and a crash, one the   *)
(* days and a crash, one the two hosts, one runs of the consistency tool    *)
(* on a table with a row of another card, one of an unknown one and one     *)
(* that is right, one failures that are printed only, in either thread, and *)
(* one waits of the end-of-day thread that end by themselves.               *)
EXTENDS QxcBilling

MCOwner == <<1, 2>>
MCTax == <<1, 2>>
MCDayTax == <<0, 1>>

(* Two rows that match a host: the later one counts *)
Detail(t, h, p) == [tax |-> t, hosts |-> h, price |-> p]
MCTariffs == << [taxes |-> <<1, 1>>, details |-> << >>],
                [taxes |-> <<2, 1>>, details |-> <<Detail(2, {"h1", "h2"}, 2), Detail(2, {"h2"}, 3)>>] >>

Bounds(p, a, c, d, h) == [pkts |-> p, admin |-> a, crashes |-> c, days |-> d, hosts |-> h,
                            tools |-> 0, table |-> <<>>, fails |-> 0, wakes |-> 0]
TRow(c, r, p) == [card |-> c, right |-> r, price |-> p]
MCTools == [Bounds(1, 0, 0, 1, {"h1"}) EXCEPT !.tools = 2,
                !.table = <<TRow(1, 2, 2), TRow(1, 0, 1), TRow(2, 2, 1), TRow(2, 1, 3)>>]
MCFails == [Bounds(1, 0, 0, 2, {"h1"}) EXCEPT !.fails = 2]
MCWakes == [Bounds(0, 0, 1, 3, {"h1"}) EXCEPT !.wakes = 1]

MCSetups == {Bounds(5, 0, 0, 1, {"h1"}), Bounds(2, 1, 1, 1, {"h1"}), Bounds(1, 0, 1, 3, {"h1"}),
             Bounds(2, 1, 0, 1, {"h1", "h2"}), MCTools, MCFails, MCWakes}
=============================================================================
