----------------------------- MODULE QxcBilling -----------------------------
(***************************************************************************)
(* The billing as a whole: the filter nfm-qxc (rules and log), the logger  *)
(* process qxl_main.c that feeds it with rules and bills its log in an     *)
(* endless cycle, the thread qxl_eod.c that takes the daily part of the    *)
(* monthly taxes when the day changes, the tool qxl_consistency.c that     *)
(* moves rows of a table of the day to the card they are from, and the     *)
(* tables of Qbase they all work on.                                       *)
(*                                                                         *)
(* How a packet is matched and how the log is stored and swapped in detail *)
(* is the subject of QxcRules and QxcLog; here the rules in use are a set  *)
(* of cards and the log is a sequence.  A packet has the price the tariff  *)
(* names for its account and its host, whatever its size and direction.    *)
(*                                                                         *)
(* The logger exits when Qbase fails it over the table of the day.  Of any *)
(* other failure it prints a line and goes on, in both of its threads: a   *)
(* loop that reads a table ends early, an account that cannot be found is  *)
(* still updated, where the connection stands, and one that cannot be      *)
(* updated is not, nor is a payment that cannot be inserted there.  Time   *)
(* and day of the last change of tables are shared by the threads without  *)
(* a lock; copying the day (struct tm) is one step here.                   *)
(***************************************************************************)
EXTENDS Integers, Sequences, FiniteSets, FiniteSetsExt

CONSTANTS Threads,     \* io-net threads
          NumNics,     \* rows of the table NICs: cards are 1 .. NumNics
          NumAccounts, \* rows of the table accounts: accounts are 1 .. NumAccounts
          Owner,       \* the account of a card
          Tax,         \* the tax of an account
          DayTax,      \* the daily part of the monthly tax of an account
          NegAllowed,  \* accounts that may be negative
          Hosts,       \* hosts the packets come from or go to
          Tariffs,     \* contents of the tables taxes and tax_details, one after another
          LogLimit,    \* slots of the log
          NcLimit,     \* nodes of the filter's tree of cards
          Setups       \* bounds on packets, changes by the administrator, crashes, days, runs
                       \* of the tool, failures that are printed and spurious wake-ups, and the
                       \* rows the tool finds in the table of the day

Nics == 1 .. NumNics
Accounts == 1 .. NumAccounts

(* A row of the table of the day: the card it was billed to, and the one    *)
(* its addresses belong to, 0 if there is none.                             *)
TableRow == [card : Nics, right : 0 .. NumNics, price : Nat]

Details == [tax : Nat, hosts : SUBSET Hosts, price : Nat]

ASSUME BillingAssumption ==
    /\ NumNics \in Nat /\ NumAccounts \in Nat \ {0} /\ Owner \in [Nics -> Accounts] /\ NegAllowed \subseteq Accounts
    /\ Tax \in [Accounts -> Nat \ {0}] /\ DayTax \in [Accounts -> Nat]
    /\ LogLimit \in Nat \ {0} /\ NcLimit \in Nat
    /\ Len(Tariffs) \in Nat \ {0} /\ DOMAIN Tariffs = 1 .. Len(Tariffs)
    /\ \A i \in DOMAIN Tariffs : Tariffs[i].taxes \in Seq(Nat) /\ Tariffs[i].details \in Seq(Details)
    /\ \A s \in Setups : {s.pkts, s.admin, s.crashes, s.tools, s.fails, s.wakes} \subseteq Nat
                         /\ s.days \in Nat \ {0}
                         /\ s.hosts \in (SUBSET Hosts) \ {{}} /\ s.table \in Seq(TableRow)

VARIABLES
    setup,          \* the bounds of this behaviour
    sum,            \* accounts: the balance
    paid,           \* (history) what was paid into each account
    active,         \* NICs: cards whose ACTIVE field is 1
    tariff,         \* taxes, tax_details: index of the contents
    rules,          \* filter: cards in use
    law,            \* (history) taxes the rules in use were loaded with
    shadow,         \* filter: cards added for the next period
    nc_count,       \* filter: number of additions
    log,            \* filter: the active log
    pkt,            \* packet threads: the matched packet; its card is 0 if there is none
    swaps,          \* (history) swaps of the rules since the logger was started, 2 for any more
    pc,             \* logger: place in its cycle
    row,            \* logger: next row of accounts or NICs to read
    shdw_accounts,  \* logger: accounts of the next period
    crnt_NICs, shdw_NICs, crnt_taxes, shdw_taxes,
    captured_log,   \* logger: the log it is working off, the slots it has not billed yet
    captured_law,   \* (history) taxes of the rules it was filled under
    tlog,           \* tables of the days: money billed per card
    unbilled,       \* packets billed to nobody: the session has no NIC
    today,          \* the day of the clock
    log_t_tm,       \* logger: day of the table it writes, 0 before the first
    log_t_time,     \* logger: time of the change to it, 0 before the first
    eod,            \* end-of-day thread: its state
    todo,           \* end-of-day thread: accounts still to be taxed
    eod_day,        \* end-of-day thread: the day it takes the tax for
    pay_date,       \* end-of-day thread: the date its payments get
    payments,       \* payments: taxes taken, by account and day
    T_updacc,       \* logger: the row its connection for updates of accounts is at
    TU_updacc,      \* end-of-day thread: likewise
    untaken,        \* (history) what was booked against an account and not taken from it
    unbooked,       \* (history) what was taken from an account and not booked against it
    skipped,        \* (history) accounts a failure has kept out of the payments of a day
    opened,         \* (history) days whose table the logger has opened
    spurious,       \* (history) rounds of the end-of-day thread nobody asked for, by day
    changes,        \* (history) days a running logger has changed to
    late,           \* (history) a day began before the end-of-day thread was through with the last
    table,          \* the rows of the table of the day that were there before
    tool, tool_row, \* consistency tool: its state and the row it is at
    corrected,      \* (history) what the tool took from each account
    halfway,        \* (history) the tool was stopped between the updates for one row
    pkts, admin, crashes, tools, fails

bookVars == <<T_updacc, TU_updacc, untaken, unbooked>>
dbVars == <<sum, paid, active, tariff, tlog, payments, bookVars>>
filterVars == <<rules, law, shadow, nc_count, log>>
listVars == <<crnt_NICs, shdw_NICs, crnt_taxes, shdw_taxes>>
loggerVars == <<pc, row, shdw_accounts, listVars, captured_log, captured_law, unbilled, swaps>>
dayVars == <<log_t_tm, log_t_time, changes, opened>>
eodVars == <<eod, todo, eod_day, pay_date, skipped, spurious>>
clockVars == <<today, late>>
toolVars == <<table, tool, tool_row, corrected, halfway, tools>>
boundVars == <<setup, pkts, admin, crashes, fails>>
vars == <<toolVars, dbVars, filterVars, pkt, loggerVars, dayVars, eodVars, clockVars, boundVars>>

NoTaxes == [taxes |-> <<>>, details |-> <<>>]
NoPkt == [card |-> 0, host |-> CHOOSE h \in Hosts : TRUE, stale |-> FALSE]

(* What the rows of a card come to, and the cards of an account *)
InTable(n) == MapThenSumSet(LAMBDA k : table[k].price, {k \in DOMAIN table : table[k].card = n})
Used(a) == MapThenSumSet(LAMBDA n : tlog[n], {n \in Nics : Owner[n] = a})

Init ==
    /\ setup \in Setups
    /\ table = setup.table /\ tlog = [n \in Nics |-> InTable(n)]
    /\ sum = [a \in Accounts |-> 0] /\ paid = [a \in Accounts |-> Used(a)] /\ active = Nics /\ tariff = 1
    /\ payments = [a \in Accounts |-> [d \in 0 .. setup.days |-> 0]]
    /\ T_updacc = 1 /\ TU_updacc = 1
    /\ untaken = [a \in Accounts |-> 0] /\ unbooked = [a \in Accounts |-> 0]
    /\ rules = {} /\ law = NoTaxes /\ shadow = {} /\ nc_count = 0 /\ log = <<>>
    /\ pkt = [t \in Threads |-> NoPkt]
    /\ pc = "taxes" /\ row = 1
    /\ shdw_accounts = {} /\ crnt_NICs = {} /\ shdw_NICs = {}
    /\ crnt_taxes = NoTaxes /\ shdw_taxes = NoTaxes
    /\ captured_log = <<>> /\ captured_law = NoTaxes
    /\ unbilled = 0 /\ swaps = 2
    /\ today = 1 /\ log_t_tm = 0 /\ log_t_time = 0 /\ changes = {} /\ opened = {} /\ late = FALSE
    /\ eod = "start" /\ todo = {} /\ eod_day = 0 /\ pay_date = 0
    /\ skipped = {} /\ spurious = [d \in 0 .. setup.days |-> 0]
    /\ pkts = 0 /\ admin = 0 /\ crashes = 0 /\ tools = 0 /\ fails = 0
    /\ tool = "off" /\ tool_row = 1 /\ corrected = [a \in Accounts |-> 0] /\ halfway = FALSE

----------------------------------------------------------------------------
(* The pieces of the actions with the slips the properties should catch     *)

(* An account whose cards may be used *)
MayBeActive_slip(a) == TRUE
MayBeActive(a) == sum[a] >= 0 \/ a \in NegAllowed

(* The logger's lists after QXC_SWAP_GET_LOG *)
CrntAfterSwap_slip == crnt_NICs
CrntAfterSwap == shdw_NICs

ShdwAfterSwap_slip == shdw_NICs
ShdwAfterSwap == crnt_NICs

(* A row of a list of taxes that was read: the row of tax_details a tax and *)
(* a host fall under is the last one that matches, for every row is linked  *)
(* at the head of the list of its tax; without one it is the default.       *)
PriceOf(list, a, h) ==
    LET d == list.details
        m == {k \in DOMAIN d : d[k].tax = Tax[a] /\ h \in d[k].hosts}
    IN IF m = {} THEN list.taxes[Tax[a]] ELSE d[Max(m)].price

(* The packets of the session that starts with the first one left to bill   *)
First == captured_log[Min(DOMAIN captured_log)]
SameSession(p) == p.card = First.card /\ p.host = First.host
Session == {k \in DOMAIN captured_log : SameSession(captured_log[k])}
OtherSessions == Restrict(captured_log, DOMAIN captured_log \ Session)
Payer == Owner[First.card]
SessionPrice == Cardinality(Session) * PriceOf(shdw_taxes, Payer, First.host)
Price_slip == Cardinality(DOMAIN captured_log) * PriceOf(shdw_taxes, Payer, First.host)
Price == SessionPrice

(* The log takes no more packets than it has slots *)
LogRoom == Len(log) < LogLimit

(* The rule is only counted if there is a node for it *)
AddNic(n) ==
    IF nc_count = NcLimit THEN UNCHANGED <<shadow, nc_count>>
    ELSE shadow' = shadow \cup {n} /\ nc_count' = nc_count + 1

(* Only a change from one day to the next is the end of a day *)
EndOfDay_slip == TRUE
EndOfDay == log_t_time # 0

(* A call of Qbase that is not looked at but for a line that is printed     *)
Calls(ok) == IF ok THEN UNCHANGED fails ELSE fails < setup.fails /\ fails' = fails + 1

(* Qbase_seek and Qbase_updcur: an account that was not found leaves the    *)
(* connection where it is, and the account there is updated.                *)
Found(cursor, a, found) == IF found THEN a ELSE cursor

Take(hit, a, price, done) ==
    /\ sum' = IF done THEN [sum EXCEPT ![hit] = @ - price] ELSE sum
    /\ untaken' = IF done /\ hit = a THEN untaken ELSE [untaken EXCEPT ![a] = @ + price]
    /\ unbooked' = IF done /\ hit # a THEN [unbooked EXCEPT ![hit] = @ + price] ELSE unbooked

----------------------------------------------------------------------------
(* qxc_rx_up, qxc_rx_down: match the card of a taxed packet ...             *)
Match(t, n, h) ==
    /\ pkt[t].card = 0 /\ pkts < setup.pkts
    /\ n \in rules
    /\ pkts' = pkts + 1
    /\ pkt' = [pkt EXCEPT ![t] = [card |-> n, host |-> h, stale |-> swaps < 2]]
    /\ UNCHANGED <<dbVars, filterVars, loggerVars, dayVars, eodVars, clockVars, setup, admin, crashes, fails>>

(* ... and log it, or drop it if the log is full                            *)
Store(t) ==
    /\ pkt[t].card # 0
    /\ log' = IF LogRoom THEN Append(log, pkt[t]) ELSE log
    /\ pkt' = [pkt EXCEPT ![t] = NoPkt]
    /\ UNCHANGED <<toolVars, dbVars, rules, law, shadow, nc_count, loggerVars, dayVars, eodVars, clockVars, boundVars>>

(* The logger: read the taxes, as many as Qbase gives, ...                  *)
LoadTaxes(n) ==
    /\ pc = "taxes"
    /\ Calls(n = Len(Tariffs[tariff].taxes))
    /\ shdw_taxes' = [taxes |-> SubSeq(Tariffs[tariff].taxes, 1, n), details |-> <<>>]
    /\ pc' = "details"
    /\ UNCHANGED <<dbVars, filterVars, pkt, row, shdw_accounts, crnt_NICs, shdw_NICs, crnt_taxes,
                   captured_log, captured_law, unbilled, swaps, dayVars, eodVars, clockVars,
                   setup, pkts, admin, crashes>>

(* ... their details ...                                                    *)
LoadDetails(n) ==
    /\ pc = "details"
    /\ Calls(n = Len(Tariffs[tariff].details))
    /\ shdw_taxes' = [shdw_taxes EXCEPT !.details = SubSeq(Tariffs[tariff].details, 1, n)]
    /\ shdw_accounts' = {} /\ row' = 1
    /\ pc' = "accounts"
    /\ UNCHANGED <<dbVars, filterVars, pkt, crnt_NICs, shdw_NICs, crnt_taxes,
                   captured_log, captured_law, unbilled, swaps, dayVars, eodVars, clockVars,
                   setup, pkts, admin, crashes>>

(* ... row by row the accounts that may be used and have a tax ...          *)
LoadAccount ==
    /\ pc = "accounts" /\ row <= NumAccounts
    /\ row' = row + 1
    /\ shdw_accounts' = IF MayBeActive(row) /\ Tax[row] \in DOMAIN shdw_taxes.taxes
                           THEN shdw_accounts \cup {row} ELSE shdw_accounts
    /\ UNCHANGED <<dbVars, filterVars, pkt, pc, listVars, captured_log, captured_law,
                   unbilled, swaps, dayVars, eodVars, clockVars, boundVars>>

(* ... to the end, or to where Qbase fails ...                              *)
AccountsEnd ==
    /\ pc = "accounts" /\ Calls(row > NumAccounts)
    /\ shdw_NICs' = {} /\ row' = 1
    /\ pc' = "nics"
    /\ UNCHANGED <<dbVars, filterVars, pkt, shdw_accounts, crnt_NICs, crnt_taxes, shdw_taxes,
                   captured_log, captured_law, unbilled, swaps, dayVars, eodVars, clockVars,
                   setup, pkts, admin, crashes>>

(* ... row by row the active cards of those accounts, each of them pushed   *)
(* to the filter, whose answer nobody looks at ...                          *)
LoadNic ==
    /\ pc = "nics" /\ row <= NumNics
    /\ row' = row + 1
    /\ IF row \in active /\ Owner[row] \in shdw_accounts
          THEN shdw_NICs' = shdw_NICs \cup {row} /\ AddNic(row)
          ELSE UNCHANGED <<shdw_NICs, shadow, nc_count>>
    /\ UNCHANGED <<dbVars, rules, law, log, pkt, pc, shdw_accounts, crnt_NICs, crnt_taxes, shdw_taxes,
                   captured_log, captured_law, unbilled, swaps, dayVars, eodVars, clockVars, boundVars>>

(* ... to the end, or to where Qbase fails ...                              *)
NicsEnd ==
    /\ pc = "nics" /\ row <= NumNics /\ Calls(FALSE)
    /\ row' = NumNics + 1
    /\ UNCHANGED <<dbVars, filterVars, pkt, pc, shdw_accounts, listVars, captured_log, captured_law,
                   unbilled, swaps, dayVars, eodVars, clockVars, setup, pkts, admin, crashes>>

(* ... and swap: first the log ...                                          *)
SwapLog ==
    /\ pc = "nics" /\ row > NumNics
    /\ captured_log' = log /\ captured_law' = law
    /\ log' = <<>>
    /\ pc' = "swap"
    /\ UNCHANGED <<dbVars, rules, law, shadow, nc_count, pkt, row, shdw_accounts, listVars,
                   unbilled, swaps, dayVars, eodVars, clockVars, boundVars>>

(* ... then the rules, and with the answer the logger's own lists.          *)
Outdated == [k \in DOMAIN log |-> [log[k] EXCEPT !.stale = TRUE]]
OutdatedPkts == [t \in Threads |-> IF pkt[t].card = 0 THEN NoPkt ELSE [pkt[t] EXCEPT !.stale = TRUE]]
SwapRules ==
    /\ pc = "swap"
    /\ rules' = shadow /\ law' = shdw_taxes /\ shadow' = {} /\ nc_count' = 0
    /\ pkt' = OutdatedPkts /\ log' = Outdated
    /\ swaps' = IF swaps < 2 THEN swaps + 1 ELSE 2
    /\ crnt_NICs' = CrntAfterSwap /\ crnt_taxes' = shdw_taxes
    /\ shdw_NICs' = ShdwAfterSwap /\ shdw_taxes' = crnt_taxes
    /\ pc' = "table"
    /\ UNCHANGED <<dbVars, row, shdw_accounts, captured_log, captured_law, unbilled, dayVars, eodVars,
                   clockVars, boundVars>>

(* The table of the day: when the day has changed the logger selects or     *)
(* creates the next one ...                                                 *)
Table ==
    /\ pc = "table"
    /\ IF today = log_t_tm
          THEN pc' = "bill" /\ UNCHANGED <<log_t_tm, changes, opened>>
          ELSE /\ log_t_tm' = today
               /\ opened' = opened \cup {today}
               /\ changes' = IF log_t_tm = 0 THEN changes ELSE changes \cup {today}
               /\ pc' = IF EndOfDay THEN "signal" ELSE "time"
    /\ UNCHANGED <<dbVars, filterVars, pkt, row, shdw_accounts, listVars, captured_log, captured_law,
                   unbilled, swaps, log_t_time, eodVars, clockVars, boundVars>>

(* ... signals the end-of-day thread, for which it waits for the mutex the  *)
(* thread keeps while it works; the signal is lost if nobody waits; ...     *)
EODMutexFree == eod \notin {"date", "tax", "pay"}
Signal ==
    /\ pc = "signal" /\ EODMutexFree
    /\ eod' = IF eod = "wait" THEN "woken" ELSE eod
    /\ pc' = "time"
    /\ UNCHANGED <<dbVars, filterVars, pkt, row, shdw_accounts, listVars, captured_log, captured_law,
                   unbilled, swaps, dayVars, todo, eod_day, pay_date, skipped, spurious, clockVars, boundVars>>

(* ... and, without the mutex, sets the time of the change.                 *)
SetTime ==
    /\ pc = "time"
    /\ log_t_time' = log_t_tm
    /\ pc' = "bill"
    /\ UNCHANGED <<dbVars, filterVars, pkt, row, shdw_accounts, listVars, captured_log, captured_law,
                   unbilled, swaps, log_t_tm, changes, opened, eodVars, clockVars, boundVars>>

(* The next session of the log: its row in the table of the day ...         *)
Bill ==
    /\ pc = "bill" /\ DOMAIN captured_log # {}
    /\ IF First.card \in shdw_NICs
          THEN /\ tlog' = [tlog EXCEPT ![First.card] = @ + SessionPrice]
               /\ pc' = "charge"
               /\ UNCHANGED <<captured_log, unbilled>>
          ELSE /\ unbilled' = unbilled + Cardinality(Session)
               /\ captured_log' = OtherSessions
               /\ UNCHANGED <<tlog, pc>>
    /\ UNCHANGED <<sum, paid, active, tariff, payments, bookVars, filterVars, pkt, row, shdw_accounts, listVars,
                   captured_law, swaps, dayVars, eodVars, clockVars, boundVars>>

(* ... and its price taken from the account, if it can be                   *)
Charge(found, done) ==
    /\ pc = "charge"
    /\ Calls(found /\ done)
    /\ T_updacc' = Found(T_updacc, Payer, found)
    /\ Take(T_updacc', Payer, Price, done)
    /\ captured_log' = OtherSessions
    /\ pc' = "bill"
    /\ UNCHANGED <<paid, active, tariff, tlog, payments, TU_updacc, filterVars, pkt, row, shdw_accounts, listVars,
                   captured_law, unbilled, swaps, dayVars, eodVars, clockVars, setup, pkts, admin, crashes>>

BillEnd ==
    /\ pc = "bill" /\ DOMAIN captured_log = {}
    /\ pc' = "taxes"
    /\ UNCHANGED <<dbVars, filterVars, pkt, row, shdw_accounts, listVars, captured_log, captured_law,
                   unbilled, swaps, dayVars, eodVars, clockVars, boundVars>>

(* The end-of-day thread connects to its tables and waits ...               *)
EodStart ==
    /\ eod = "start" /\ eod' = "wait"
    /\ UNCHANGED <<dbVars, filterVars, pkt, loggerVars, dayVars, todo, eod_day, pay_date, skipped, spurious,
                   clockVars, boundVars>>

(* ... for the signal, without a condition to look at: a wait may also end  *)
(* by itself, ...                                                           *)
EodSpurious ==
    /\ eod = "wait" /\ SumFunction(spurious) < setup.wakes
    /\ eod' = "stirred"
    /\ UNCHANGED <<dbVars, filterVars, pkt, loggerVars, dayVars, todo, eod_day, pay_date, skipped, spurious,
                   clockVars, boundVars>>

(* ... goes on with the mutex and notes the day the payments are for ...    *)
EodWake ==
    /\ eod \in {"woken", "stirred"} /\ eod' = "date"
    /\ eod_day' = log_t_tm
    /\ spurious' = IF eod = "stirred" THEN [spurious EXCEPT ![log_t_tm] = @ + 1] ELSE spurious
    /\ UNCHANGED <<dbVars, filterVars, pkt, loggerVars, dayVars, todo, pay_date, skipped, clockVars, boundVars>>

(* ... and their date, ...                                                  *)
EodDate ==
    /\ eod = "date" /\ eod' = "tax"
    /\ pay_date' = log_t_time
    /\ todo' = {a \in Accounts : DayTax[a] # 0}
    /\ UNCHANGED <<dbVars, filterVars, pkt, loggerVars, dayVars, eod_day, skipped, spurious, clockVars, boundVars>>

(* ... takes the tax from the next account, tax by tax, ...                 *)
NextTax == Min({Tax[a] : a \in todo})
OfTax(t) == {a \in todo : Tax[a] = t}
Taxed == Min(OfTax(NextTax))
EodTax(found, done) ==
    /\ eod = "tax" /\ todo # {} /\ eod' = "pay"
    /\ Calls(found /\ done)
    /\ TU_updacc' = Found(TU_updacc, Taxed, found)
    /\ Take(TU_updacc', Taxed, DayTax[Taxed], done)
    /\ UNCHANGED <<paid, active, tariff, tlog, payments, T_updacc, filterVars, pkt, loggerVars, dayVars, todo, eod_day,
                   pay_date, skipped, spurious, clockVars, setup, pkts, admin, crashes>>

(* ... records the payment ...                                              *)
EodPay(ok) ==
    /\ eod = "pay" /\ eod' = "tax"
    /\ Calls(ok)
    /\ IF ok
          THEN payments' = [payments EXCEPT ![Taxed][eod_day] = @ + DayTax[Taxed]] /\ UNCHANGED <<unbooked, skipped>>
          ELSE /\ unbooked' = [unbooked EXCEPT ![Taxed] = @ + DayTax[Taxed]]
               /\ skipped' = skipped \cup {Taxed}
               /\ UNCHANGED payments
    /\ todo' = todo \ {Taxed}
    /\ UNCHANGED <<sum, paid, active, tariff, tlog, T_updacc, TU_updacc, untaken, filterVars, pkt, loggerVars, dayVars,
                   eod_day, pay_date, spurious, clockVars, setup, pkts, admin, crashes>>

(* ... to the end, or to where Qbase fails to give the next account of a    *)
(* tax, or the next tax, ...                                                *)
EodSkip ==
    /\ eod = "tax" /\ todo # {} /\ Calls(FALSE)
    /\ \E rest \in {{}, todo \ OfTax(NextTax)} : todo' = rest /\ skipped' = skipped \cup (todo \ rest)
    /\ UNCHANGED <<dbVars, filterVars, pkt, loggerVars, dayVars, eod, eod_day, pay_date, spurious, clockVars,
                   setup, pkts, admin, crashes>>

(* ... and waits again.                                                     *)
EodEnd ==
    /\ eod = "tax" /\ todo = {} /\ eod' = "wait" /\ eod_day' = 0 /\ pay_date' = 0
    /\ UNCHANGED <<dbVars, filterVars, pkt, loggerVars, dayVars, todo, skipped, spurious, clockVars, boundVars>>

(* The consistency tool is started while everything else runs; it leaves    *)
(* rows alone whose card has their addresses, and those nobody has ...      *)
ToolStart ==
    /\ tool = "off" /\ tools < setup.tools
    /\ tool' = "check" /\ tool_row' = 1 /\ tools' = tools + 1
    /\ UNCHANGED <<table, corrected, halfway, sum, tlog>>

Row == table[tool_row]
ToolSkip ==
    /\ tool = "check" /\ tool_row <= Len(table)
    /\ Row.right \in {0, Row.card}
    /\ tool_row' = tool_row + 1
    /\ UNCHANGED <<table, tool, corrected, halfway, tools, sum, tlog>>

(* ... takes the price of any other from the account of the right card ...  *)
ToolSub ==
    /\ tool = "check" /\ tool_row <= Len(table)
    /\ Row.right \notin {0, Row.card}
    /\ sum' = [sum EXCEPT ![Owner[Row.right]] = @ - Row.price]
    /\ corrected' = [corrected EXCEPT ![Owner[Row.right]] = @ + Row.price]
    /\ tool' = "add"
    /\ UNCHANGED <<table, tool_row, halfway, tools, tlog>>

(* ... gives it back to that of the card the row was billed to ...          *)
ToolAdd ==
    /\ tool = "add" /\ tool' = "log"
    /\ sum' = [sum EXCEPT ![Owner[Row.card]] = @ + Row.price]
    /\ UNCHANGED <<table, tool_row, corrected, halfway, tools, tlog>>

(* ... and puts the row right.                                              *)
ToolLog ==
    /\ tool = "log" /\ tool' = "check"
    /\ tlog' = [tlog EXCEPT ![Row.card] = @ - Row.price, ![Row.right] = @ + Row.price]
    /\ table' = [table EXCEPT ![tool_row].card = Row.right]
    /\ tool_row' = tool_row + 1
    /\ UNCHANGED <<corrected, halfway, tools, sum>>

(* It ends with the table, or at any failure of Qbase *)
ToolEnd ==
    /\ tool # "off" /\ tool' = "off"
    /\ halfway' = (halfway \/ tool \in {"add", "log"})
    /\ UNCHANGED <<table, tool_row, corrected, tools, sum, tlog>>

Tool ==
    /\ ToolStart \/ ToolSkip \/ ToolSub \/ ToolAdd \/ ToolLog \/ ToolEnd
    /\ UNCHANGED <<paid, active, tariff, payments, bookVars, filterVars, pkt, loggerVars, dayVars, eodVars,
                   clockVars, boundVars>>

(* The administrator books a payment, (de)activates a card or changes taxes *)
Pay(a) ==
    /\ admin < setup.admin /\ admin' = admin + 1
    /\ sum' = [sum EXCEPT ![a] = @ + 1] /\ paid' = [paid EXCEPT ![a] = @ + 1]
    /\ UNCHANGED <<active, tariff, tlog, payments, bookVars, filterVars, pkt, loggerVars, dayVars, eodVars,
                   clockVars, setup, pkts, crashes, fails>>

Switch(n) ==
    /\ admin < setup.admin /\ admin' = admin + 1
    /\ active' = IF n \in active THEN active \ {n} ELSE active \cup {n}
    /\ UNCHANGED <<sum, paid, tariff, tlog, payments, bookVars, filterVars, pkt, loggerVars, dayVars, eodVars,
                   clockVars, setup, pkts, crashes, fails>>

NewTariff ==
    /\ admin < setup.admin /\ admin' = admin + 1
    /\ tariff < Len(Tariffs) /\ tariff' = tariff + 1
    /\ UNCHANGED <<sum, paid, active, tlog, payments, bookVars, filterVars, pkt, loggerVars, dayVars, eodVars,
                   clockVars, setup, pkts, crashes, fails>>

(* The day changes                                                          *)
Midnight ==
    /\ today < setup.days /\ today' = today + 1
    /\ late' = (late \/ eod # "wait" \/ pc = "signal")
    /\ UNCHANGED <<dbVars, filterVars, pkt, loggerVars, dayVars, eodVars, boundVars>>

(* The logger exits (over the table of the day, or because it is stopped)   *)
(* and is started again, with both of its threads and their connections;    *)
(* the filter keeps running.                                                *)
Restart ==
    /\ crashes < setup.crashes /\ crashes' = crashes + 1
    /\ pc # "swap"
    /\ pc' = "taxes" /\ row' = 1
    /\ shdw_accounts' = {} /\ crnt_NICs' = {} /\ shdw_NICs' = {}
    /\ crnt_taxes' = NoTaxes /\ shdw_taxes' = NoTaxes
    /\ captured_log' = <<>> /\ captured_law' = NoTaxes
    /\ swaps' = 0
    /\ pkt' = OutdatedPkts /\ log' = Outdated
    /\ log_t_tm' = 0 /\ log_t_time' = 0
    /\ eod' = "start" /\ todo' = {} /\ eod_day' = 0 /\ pay_date' = 0
    /\ T_updacc' = 1 /\ TU_updacc' = 1
    /\ UNCHANGED <<sum, paid, active, tariff, tlog, payments, untaken, unbooked, rules, law, shadow, nc_count, unbilled,
                   changes, opened, skipped, spurious, clockVars, setup, pkts, admin, fails>>

Cycle ==
    /\ \/ \E n \in 0 .. Len(Tariffs[tariff].taxes) : LoadTaxes(n)
       \/ \E n \in 0 .. Len(Tariffs[tariff].details) : LoadDetails(n)
       \/ LoadAccount \/ AccountsEnd \/ LoadNic \/ NicsEnd \/ SwapLog \/ SwapRules
       \/ Table \/ Signal \/ SetTime \/ Bill \/ BillEnd
       \/ \E found, done \in BOOLEAN : Charge(found, done)
    /\ UNCHANGED toolVars

EndOfDayThread ==
    /\ \/ EodStart \/ EodWake \/ EodDate \/ EodSkip \/ EodEnd
       \/ \E found, done \in BOOLEAN : EodTax(found, done)
       \/ \E ok \in BOOLEAN : EodPay(ok)
    /\ UNCHANGED toolVars

Others ==
    /\ \/ Restart \/ Midnight \/ NewTariff \/ EodSpurious
       \/ \E t \in Threads, n \in Nics, h \in setup.hosts : Match(t, n, h)
       \/ \E a \in Accounts : Pay(a)
       \/ \E n \in Nics : Switch(n)
    /\ UNCHANGED toolVars

Next == Cycle \/ EndOfDayThread \/ (\E t \in Threads : Store(t)) \/ Others \/ Tool

Spec == Init /\ [][Next]_vars

(* Both threads of the logger go on, and a thread inside the filter is      *)
(* scheduled.                                                               *)
FairSpec == Spec /\ WF_vars(Cycle) /\ WF_vars(EndOfDayThread) /\ \A t \in Threads : WF_vars(Store(t))

----------------------------------------------------------------------------
TaxLists == [taxes : Seq(Nat), details : Seq(Details)]
Logged == [card : Nics, host : Hosts, stale : BOOLEAN]
TypeOK ==
    /\ setup \in Setups
    /\ sum \in [Accounts -> Int] /\ paid \in [Accounts -> Nat] /\ active \subseteq Nics /\ tlog \in [Nics -> Nat]
    /\ tariff \in DOMAIN Tariffs /\ {law, crnt_taxes, shdw_taxes, captured_law} \subseteq TaxLists
    /\ payments \in [Accounts -> [0 .. setup.days -> Nat]]
    /\ {T_updacc, TU_updacc} \subseteq Accounts /\ untaken \in [Accounts -> Nat] /\ unbooked \in [Accounts -> Nat]
    /\ rules \subseteq Nics /\ shadow \subseteq Nics /\ nc_count \in 0 .. NcLimit
    /\ log \in Seq(Logged) /\ Len(log) <= LogLimit
    /\ pkt \in [Threads -> Logged \cup {NoPkt}]
    /\ pc \in {"taxes", "details", "accounts", "nics", "swap", "table", "signal", "time", "bill", "charge"}
    /\ row \in Nat \ {0}
    /\ shdw_accounts \subseteq Accounts
    /\ crnt_NICs \subseteq Nics /\ shdw_NICs \subseteq Nics
    /\ DOMAIN captured_log \subseteq 1 .. LogLimit /\ captured_log \in [DOMAIN captured_log -> Logged]
    /\ unbilled \in Nat /\ swaps \in 0 .. 2
    /\ {log_t_tm, log_t_time, eod_day, pay_date} \subseteq 0 .. setup.days /\ today \in 1 .. setup.days
    /\ changes \subseteq opened /\ opened \subseteq 1 .. setup.days /\ late \in BOOLEAN
    /\ eod \in {"start", "wait", "woken", "stirred", "date", "tax", "pay"}
    /\ todo \subseteq Accounts /\ skipped \subseteq Accounts /\ spurious \in [0 .. setup.days -> Nat]
    /\ table \in Seq(TableRow) /\ tool \in {"off", "check", "add", "log"}
    /\ tool_row \in 1 .. (Len(table) + 1) /\ halfway \in BOOLEAN

(* The dearest price the tariffs have named so far, and what the end-of-day *)
(* thread has booked for an account or is about to; of a round a crash met  *)
(* the payment may be missing.                                              *)
Named(t) == {t.taxes[k] : k \in DOMAIN t.taxes}
            \cup {t.details[k].price : k \in {j \in DOMAIN t.details : t.details[j].hosts \cap setup.hosts # {}}}
MaxPrice == Max((UNION {Named(Tariffs[i]) : i \in 1 .. tariff}) \cup {0})
InFlight(a) == IF eod = "pay" /\ Taxed = a THEN DayTax[a] ELSE 0
TaxPaid(a) == SumFunction(payments[a])

(* What the tool has moved to or from an account and not yet in the table   *)
BeingMoved(a) ==
    (IF tool = "log" /\ Owner[Row.card] = a THEN Row.price ELSE 0)
    - (IF tool \in {"add", "log"} /\ Owner[Row.right] = a THEN Row.price ELSE 0)

(* An account that may not be negative runs up a debt of at most two logs:  *)
(* the one that fills while its cards are read, and the one after.  Only    *)
(* the taxes come on top, which are taken from whoever has a tax, what the  *)
(* consistency tool takes, and what was taken from it for another account   *)
(* that could not be found, or without a payment.                           *)
DebtIsBounded ==
    \A a \in Accounts \ NegAllowed :
        sum[a] + unbooked[a] + TaxPaid(a) + InFlight(a) + crashes * DayTax[a] + corrected[a]
            >= 0 - (2 * LogLimit * MaxPrice)

(* "At this moment all crnt_* lists contain tarification information that   *)
(* is currently actual for rules that nfm-qxc.so follows": when the logger  *)
(* asks for the log it has the account of every card the filter lets pass.  *)
(* Nothing but a restart of the logger breaks that, and two swaps mend it:  *)
(* the first period has the rules of before, the second the cards that were *)
(* pushed to the filter before the restart.                                 *)
CrntSettles ==
    ((swaps = 2 \/ crashes = 0) /\ pc = "nics" /\ row > NumNics) => rules \subseteq crnt_NICs

(* Every packet matched with the rules of the period being billed finds its *)
(* card, and the taxes these rules were loaded with, although the logger    *)
(* has read newer ones by then: only a packet that was delayed beyond a   *)
(* swap of the rules, or met a restart of the logger, can be left over.     *)
PeriodIsBillable ==
    pc \in {"table", "signal", "time", "bill", "charge"} =>
        \A k \in DOMAIN captured_log :
            ~captured_log[k].stale => captured_log[k].card \in shdw_NICs /\ captured_law = shdw_taxes

(* The books balance: what an account has left is what was paid in less     *)
(* what the tables of the days say its cards have used and the taxes among  *)
(* the payments; only the row just written may still have to be charged,    *)
(* the tax just taken still to be recorded, and the row the consistency     *)
(* tool is at still to be put right.  A logger or a tool that stops in      *)
(* between never does it.  Besides, an update that failed is missing, one   *)
(* of an account that was not found was taken from another, and the tax of  *)
(* a failed payment was taken without one; without failures there is        *)
(* nothing of either.  Every variable has its type.                         *)
Balance(a) ==
    paid[a] - Used(a) - TaxPaid(a) - InFlight(a) + BeingMoved(a) + untaken[a]
    + (IF pc = "charge" /\ Payer = a THEN SessionPrice ELSE 0)
BooksBalance == TypeOK /\ \A a \in Accounts :
    /\ crashes = 0 /\ ~halfway => sum[a] + unbooked[a] = Balance(a)
    /\ fails = 0 => untaken[a] = 0 /\ unbooked[a] = 0

(* "This function is executed each time the End Of Day (EOD) happens": an   *)
(* account pays the tax of a day at most once, also if the logger is        *)
(* restarted, and once more for every time the wait ended by itself that    *)
(* day; and at least once for every day the logger changed to while it ran, *)
(* but for failures.  That takes a thread that is through with a day, and   *)
(* waits, before the next one begins.  Its payments are dated that day, or, *)
(* as the date is set after the signal, the last one a table was opened for *)
(* (none, if the logger has just started); a round before the first table   *)
(* is of no day, but may be dated.                                          *)
Before(d) == Max({o \in opened \cup {0} : o < d} \cup {0})
DayIsTaxedOnce ==
    /\ ~late =>
          \A a \in Accounts, d \in 0 .. setup.days :
             /\ payments[a][d] <= DayTax[a] * ((IF d \in changes THEN 1 ELSE 0) + spurious[d])
             /\ crashes = 0 /\ eod = "wait" /\ pc # "signal" /\ d \in changes /\ a \notin skipped =>
                   payments[a][d] >= DayTax[a]
    /\ fails = 0 => skipped = {}
    /\ eod \in {"tax", "pay"} =>
          eod_day = 0 \/ pay_date \in {eod_day, Before(eod_day)} \cup (IF crashes = 0 THEN {} ELSE {0})

(* The cards of an account that is out of money and may not be are taken    *)
(* out of use, unless somebody pays.                                        *)
BrokeIsCutOff ==
    \A a \in Accounts \ NegAllowed :
        sum[a] < 0 ~> (sum[a] >= 0 \/ \A n \in rules : Owner[n] # a)
=============================================================================
