------------------------------ MODULE MCQxMail ------------------------------
(* Model of QxMail for TLC: one mailbox and one external address. *)
EXTENDS QxMail, TLC

MCDomain == [x \in Ext |-> x]

(* The session variables of a thread between two connections are dead: the  *)
(* handler sets them before it reads them (auth is kept: see AuthAtStart).  *)
Live(f) == [t \in Pool |-> IF kind[t] = NULL THEN NULL ELSE f[t]]
View == <<connVars, Live(sstate), Live(pstate), Live(mbox), Live(login), auth, msg, msgs, del,
          boxVars, spoolVars, msgVars, blocked, gone, trusted, crashed>>

Symmetry == Permutations(Pool) \cup Permutations(Spoolers) \cup Permutations(Msgs)
=============================================================================
