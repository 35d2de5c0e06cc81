----------------------------- MODULE MCQxcRules -----------------------------
(* Model of QxcRules for TLC: two cards share a mac, as behind a router,    *)
(* and two exemptions overlap in host 1.                                    *)
EXTENDS QxcRules, TLC

MCCards == {[mac |-> 1, ip |-> 1], [mac |-> 2, ip |-> 1], [mac |-> 2, ip |-> 2]}

MCExempts == {[hosts |-> {1}, active |-> 1], [hosts |-> {1, 2}, active |-> 2]}
=============================================================================
