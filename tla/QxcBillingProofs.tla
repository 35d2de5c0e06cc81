-------------------------- MODULE QxcBillingProofs --------------------------
(***************************************************************************)
(* Theorems about the billing of QxcBilling for any cards, accounts,       *)
(* tariffs, days and bounds.  The inductive invariant is the conjunction   *)
(* of the types with what places in the cycle say about the variables      *)
(* (Types), the lists of the logger against the rules of the filter        *)
(* (ListsFollow), the packets of a period against both (PeriodFollows),    *)
(* the rounds of the end-of-day thread against the days and the failures   *)
(* (DayFollows), the equation of the books (BooksFollow) and what an       *)
(* account may still be charged for (DebtFollows).                         *)
(***************************************************************************)
EXTENDS QxcBilling, SumLemmas

----------------------------------------------------------------------------
(* The steps with what they may read or fail at *)
ReadTaxes == \E n \in 0 .. Len(Tariffs[tariff].taxes) : LoadTaxes(n)
ReadDetails == \E n \in 0 .. Len(Tariffs[tariff].details) : LoadDetails(n)
Charging == \E found, done \in BOOLEAN : Charge(found, done)
Taxing == \E found, done \in BOOLEAN : EodTax(found, done)
Paying == \E ok \in BOOLEAN : EodPay(ok)

(* The type invariant in the parts a step can disturb *)
DbTypes ==
    /\ setup \in Setups
    /\ sum \in [Accounts -> Int] /\ paid \in [Accounts -> Nat] /\ active \subseteq Nics
    /\ tariff \in DOMAIN Tariffs
    /\ payments \in [Accounts -> [0 .. setup.days -> Nat]]
    /\ T_updacc \in Accounts /\ TU_updacc \in Accounts
    /\ untaken \in [Accounts -> Nat] /\ unbooked \in [Accounts -> Nat]
    /\ pkts \in Nat /\ admin \in Nat /\ crashes \in Nat /\ tools \in Nat /\ fails \in Nat

FilterTypes ==
    /\ rules \subseteq Nics /\ shadow \subseteq Nics /\ nc_count \in 0 .. NcLimit
    /\ law \in TaxLists
    /\ log \in Seq(Logged) /\ Len(log) <= LogLimit
    /\ pkt \in [Threads -> Logged \cup {NoPkt}]

(* While the logger bills a log *)
Billing == pc \in {"table", "signal", "time", "bill", "charge"}

(* Who is on a list has a tax on the list of taxes that goes with it *)
Taxable(nics, list) == \A n \in nics : Tax[Owner[n]] \in DOMAIN list.taxes
ListsTaxed ==
    /\ Taxable(crnt_NICs, crnt_taxes)
    /\ Billing \/ pc \in {"nics", "swap"} => Taxable(shdw_NICs, shdw_taxes)
    /\ pc \in {"accounts", "nics"} => \A a \in shdw_accounts : Tax[a] \in DOMAIN shdw_taxes.taxes

LoggerTypes ==
    /\ {crnt_taxes, shdw_taxes, captured_law} \subseteq TaxLists
    /\ pc \in {"taxes", "details", "accounts", "nics", "swap", "table", "signal", "time", "bill", "charge"}
    /\ row \in Nat \ {0}
    /\ shdw_accounts \subseteq Accounts
    /\ crnt_NICs \subseteq Nics /\ shdw_NICs \subseteq Nics /\ ListsTaxed
    /\ DOMAIN captured_log \subseteq 1 .. LogLimit /\ captured_log \in [DOMAIN captured_log -> Logged]
    /\ unbilled \in Nat /\ swaps \in 0 .. 2
    /\ pc = "charge" => DOMAIN captured_log # {} /\ First.card \in shdw_NICs

Days == 0 .. setup.days
DayTypes ==
    /\ log_t_tm \in Days /\ log_t_time \in Days /\ eod_day \in Days /\ pay_date \in Days /\ today \in 1 .. setup.days
    /\ changes \subseteq opened /\ opened \subseteq 1 .. setup.days /\ late \in BOOLEAN
    /\ eod \in {"start", "wait", "woken", "stirred", "date", "tax", "pay"}
    /\ todo \subseteq Accounts /\ skipped \subseteq Accounts
    /\ spurious \in [Days -> Nat]
    /\ eod = "pay" => todo # {}

(* The rows of the table of the day are in what it says of their cards *)
RowsAreIn == \A n \in Nics : InTable(n) <= tlog[n]

ToolTypes ==
    /\ tlog \in [Nics -> Nat] /\ RowsAreIn
    /\ table \in Seq(TableRow) /\ tool \in {"off", "check", "add", "log"}
    /\ tool_row \in 1 .. (Len(table) + 1) /\ halfway \in BOOLEAN
    /\ corrected \in [Accounts -> Nat]
    /\ tool \in {"add", "log"} => tool_row <= Len(table) /\ Row.right \notin {0, Row.card}

Types == DbTypes /\ FilterTypes /\ LoggerTypes /\ DayTypes /\ ToolTypes

(* The parts come to the type invariant of the model *)
LEMMA TypesAreOK == Types => TypeOK
BY DEF Types, DbTypes, FilterTypes, LoggerTypes, DayTypes, Days, ToolTypes, TypeOK

----------------------------------------------------------------------------
(* The largest of some rows of a table is one of them *)
LEMMA LastRow ==
    ASSUME NEW n \in Nat, NEW m, m \subseteq 1 .. n, m # {}
    PROVE  Max(m) \in m
<1>1. IsFiniteSet(1 .. n)
    BY FS_Interval
<1>2. m \in SUBSET (1 .. n) /\ m \in SUBSET Int
    OBVIOUS
<1>3. IsFiniteSet(m)
    BY <1>1, <1>2, FS_Subset
<1>. QED  BY <1>2, <1>3, MaxIn

(* A list of taxes has a price for every account whose tax is on it *)
LEMMA PriceIsNat ==
    ASSUME NEW list \in TaxLists, NEW a \in Accounts, NEW h, Tax[a] \in DOMAIN list.taxes
    PROVE  PriceOf(list, a, h) \in Nat
<1>. DEFINE d == list.details
            m == {k \in DOMAIN d : d[k].tax = Tax[a] /\ h \in d[k].hosts}
<1>1. d \in Seq(Details) /\ list.taxes[Tax[a]] \in Nat
    BY DEF TaxLists
<1>2. ASSUME m # {} PROVE d[Max(m)].price \in Nat
    <2>1. Len(d) \in Nat /\ m \subseteq 1 .. Len(d) /\ \A k \in 1 .. Len(d) : d[k] \in Details
        BY <1>1
    <2>2. Max(m) \in m
        <3>. HIDE DEF m
        <3>. QED  BY <1>2, <2>1, LastRow
    <2>3. d[Max(m)] \in Details
        BY <2>1, <2>2
    <2>. QED  BY <2>3 DEF Details
<1>3. PriceOf(list, a, h) = IF m = {} THEN list.taxes[Tax[a]] ELSE d[Max(m)].price
    BY DEF PriceOf
<1>. QED  BY <1>1, <1>2, <1>3

(* The session the logger is at has a packet and a payer, and a price if its *)
(* card is listed                                                            *)
SessionTypes ==
    /\ First \in Logged /\ First.card \in Nics /\ Payer \in Accounts
    /\ First.card \in shdw_NICs /\ Billing => SessionPrice \in Nat
    /\ Cardinality(Session) \in Nat

(* While there are packets to bill, the first of them has a card, its       *)
(* owner pays, and if the card is listed the session has a price.           *)
LEMMA SessionIsTyped == LoggerTypes /\ DOMAIN captured_log # {} => SessionTypes
<1>. SUFFICES ASSUME LoggerTypes, DOMAIN captured_log # {} PROVE SessionTypes
    OBVIOUS
<1>. DEFINE D == DOMAIN captured_log
<1>1. D \subseteq 1 .. LogLimit /\ LogLimit \in Nat /\ \A k \in D : captured_log[k] \in Logged
    BY BillingAssumption DEF LoggerTypes
<1>2. Min(D) \in D
    <2>1. D \in SUBSET Nat /\ D # {}
        BY <1>1
    <2>. HIDE DEF D
    <2>. QED  BY <2>1, MinIn
<1>3. First \in Logged /\ First.card \in Nics
    <2>1. First \in Logged
        BY <1>1, <1>2 DEF First
    <2>. QED  BY <2>1 DEF Logged
<1>4. Payer \in Accounts
    BY <1>3, BillingAssumption DEF Payer
<1>5. Cardinality(Session) \in Nat
    <2>1. IsFiniteSet(1 .. LogLimit) /\ Session \in SUBSET (1 .. LogLimit)
        BY <1>1, FS_Interval DEF Session
    <2>2. IsFiniteSet(Session)
        BY <2>1, FS_Subset
    <2>. QED  BY <2>2, FS_CardinalityType
<1>6. ASSUME First.card \in shdw_NICs, Billing PROVE PriceOf(shdw_taxes, Payer, First.host) \in Nat
    <2>1. Tax[Payer] \in DOMAIN shdw_taxes.taxes /\ shdw_taxes \in TaxLists
        BY <1>6 DEF LoggerTypes, ListsTaxed, Taxable, Payer
    <2>. QED  BY <1>4, <2>1, PriceIsNat
<1>7. First.card \in shdw_NICs /\ Billing => SessionPrice \in Nat
    <2>. HIDE DEF D
    <2>. QED  BY <1>5, <1>6 DEF SessionPrice
<1>. QED  BY <1>3, <1>4, <1>5, <1>7 DEF SessionTypes

----------------------------------------------------------------------------
(* The rows of the table of the day, and what they come to by card *)
Prices(t) == [k \in DOMAIN t |-> t[k].price]
RowsOf(t, n) == {k \in DOMAIN t : t[k].card = n}

(* What InTable adds up is the sum of the prices of the rows of a card *)
LEMMA InTableIs ==
    ASSUME NEW t, NEW S, IsFiniteSet(S), S \subseteq DOMAIN t
    PROVE  MapThenSumSet(LAMBDA k : t[k].price, S) = SumFunctionOnSet(Prices(t), S)
<1>. DEFINE P(g) == g = [s \in SUBSET S |-> IF s = {} THEN 0
                                           ELSE t[Chosen(s)].price + g[s \ {Chosen(s)}]]
            g1 == CHOOSE g : P(g)
<1>1. MapThenSumSet(LAMBDA k : t[k].price, S) = g1[S]
    BY DEF MapThenSumSet, MapThenFoldSet, Chosen
<1>2. ASSUME NEW g PROVE P(g) <=> Sums(Prices(t), S, g)
    <2>. DEFINE L(s) == IF s = {} THEN 0 ELSE t[Chosen(s)].price + g[s \ {Chosen(s)}]
                R(s) == IF s = {} THEN 0 ELSE Prices(t)[Chosen(s)] + g[s \ {Chosen(s)}]
    <2>1. ASSUME NEW s \in SUBSET S PROVE L(s) = R(s)
        <3>1. CASE s = {}
            BY <3>1
        <3>2. CASE s # {}
            <4>1. Chosen(s) \in DOMAIN t
                BY <3>2, ChosenIn
            <4>2. Prices(t)[Chosen(s)] = t[Chosen(s)].price
                BY <4>1 DEF Prices
            <4>. QED  BY <4>2
        <3>. QED  BY <3>1, <3>2
    <2>2. (g = [s \in SUBSET S |-> L(s)]) <=> (g = [s \in SUBSET S |-> R(s)])
        <3>. HIDE DEF L, R
        <3>. QED  BY <2>1
    <2>. QED  BY <2>2 DEF Sums
<1>3. PICK g2 : Sums(Prices(t), S, g2) /\ SumFunctionOnSet(Prices(t), S) = g2[S]
    BY SumIs
<1>4. P(g1)
    <2>1. P(g2)
        BY <1>2, <1>3
    <2>. HIDE DEF P
    <2>. QED  BY <2>1
<1>5. Sums(Prices(t), S, g1)
    <2>. HIDE DEF g1, P
    <2>. QED  BY <1>2, <1>4
<1>6. g1[S] = g2[S]
    <2>. HIDE DEF g1, P
    <2>. QED  BY <1>3, <1>5, SumsAgree
<1>. QED  BY <1>1, <1>3, <1>6

(* The rows of a table are finitely many, with prices *)
LEMMA RowsAreTyped ==
    ASSUME NEW t \in Seq(TableRow), NEW n
    PROVE  /\ IsFiniteSet(RowsOf(t, n)) /\ RowsOf(t, n) \subseteq DOMAIN t
           /\ \A k \in DOMAIN t : Prices(t)[k] \in Nat
           /\ MapThenSumSet(LAMBDA k : t[k].price, RowsOf(t, n)) = SumFunctionOnSet(Prices(t), RowsOf(t, n))
           /\ SumFunctionOnSet(Prices(t), RowsOf(t, n)) \in Nat
<1>1. DOMAIN t = 1 .. Len(t) /\ Len(t) \in Nat /\ \A k \in DOMAIN t : t[k] \in TableRow
    OBVIOUS
<1>2. RowsOf(t, n) \in SUBSET DOMAIN t /\ IsFiniteSet(DOMAIN t)
    BY <1>1, FS_Interval DEF RowsOf
<1>3. IsFiniteSet(RowsOf(t, n))
    BY <1>2, FS_Subset
<1>4. \A k \in DOMAIN t : Prices(t)[k] \in Nat
    BY <1>1 DEF Prices, TableRow
<1>5. MapThenSumSet(LAMBDA k : t[k].price, RowsOf(t, n)) = SumFunctionOnSet(Prices(t), RowsOf(t, n))
    BY <1>2, <1>3, InTableIs
<1>6. SumFunctionOnSet(Prices(t), RowsOf(t, n)) \in Nat
    BY <1>2, <1>3, <1>4, SumNat
<1>. QED  BY <1>2, <1>3, <1>4, <1>5, <1>6

(* What a card has among the rows, and what is left when one of them goes *)
LEMMA InTableIsSum ==
    table \in Seq(TableRow) =>
        \A n : /\ InTable(n) = SumFunctionOnSet(Prices(table), RowsOf(table, n))
               /\ InTable(n) \in Nat
<1>. SUFFICES ASSUME table \in Seq(TableRow), NEW n
              PROVE  /\ InTable(n) = SumFunctionOnSet(Prices(table), RowsOf(table, n))
                     /\ InTable(n) \in Nat
    OBVIOUS
<1>1. InTable(n) = MapThenSumSet(LAMBDA k : table[k].price, RowsOf(table, n))
    BY DEF InTable, RowsOf
<1>. QED  BY <1>1, RowsAreTyped

(* The tool puts a row right: its price goes from one card to the other    *)
PutRight(t, r, c) == [t EXCEPT ![r].card = c]

MovedTo(u, t, r, c) ==
    /\ u \in Seq(TableRow) /\ Len(u) = Len(t)
    /\ \A n : SumFunctionOnSet(Prices(u), RowsOf(u, n)) =
              SumFunctionOnSet(Prices(t), RowsOf(t, n))
              + (IF n = c THEN t[r].price ELSE IF n = t[r].card THEN 0 - t[r].price ELSE 0)

(* A row goes into the rows of a card, or out of them *)
HasMore(f, B, A, r) == SumFunctionOnSet(f, B) = SumFunctionOnSet(f, A) + f[r]

(* The sum over rows of the day without one of them is less by its price.   *)
LEMMA RowGoes ==
    ASSUME NEW f, NEW A, NEW B, NEW r, IsFiniteSet(B), \A k \in B : f[k] \in Int,
           r \in B, A = B \ {r}
    PROVE  HasMore(f, B, A, r)
<1>1. SumFunctionOnSet(f, B) = f[r] + SumFunctionOnSet(f, B \ {r})
    BY SumTakeOut
<1>2. SumFunctionOnSet(f, A) \in Int /\ f[r] \in Int
    <2>1. IsFiniteSet(A) /\ \A k \in A : f[k] \in Int
        BY FS_Subset
    <2>. QED  BY <2>1, SumInt
<1>. QED  BY <1>1, <1>2 DEF HasMore

(* What a row put right changes of the sums *)
LEMMA RowMoves ==
    ASSUME NEW t, NEW r, NEW c
    PROVE  t \in Seq(TableRow) /\ r \in 1 .. Len(t) /\ c \in Nics /\ c # t[r].card
               => MovedTo(PutRight(t, r, c), t, r, c)
<1>. DEFINE u == PutRight(t, r, c)
<1>0. SUFFICES ASSUME t \in Seq(TableRow) /\ r \in 1 .. Len(t) /\ c \in Nics /\ c # t[r].card
               PROVE  MovedTo(u, t, r, c)
    OBVIOUS
<1>1. DOMAIN t = 1 .. Len(t) /\ Len(t) \in Nat /\ r \in DOMAIN t /\ \A k \in DOMAIN t : t[k] \in TableRow
    BY <1>0
<1>2. /\ DOMAIN u = DOMAIN t /\ \A k \in DOMAIN t : k # r => u[k] = t[k]
      /\ u[r] = [t[r] EXCEPT !.card = c] /\ u = [k \in DOMAIN t |-> u[k]]
    BY <1>1 DEF PutRight
<1>. HIDE DEF u
<1>3. u[r] \in TableRow /\ u[r].card = c /\ u[r].price = t[r].price /\ t[r].price \in Nat
    BY <1>0, <1>1, <1>2 DEF TableRow
<1>4. u \in Seq(TableRow) /\ Len(u) = Len(t)
    <2>1. u \in [1 .. Len(t) -> TableRow]
        BY <1>1, <1>2, <1>3
    <2>. QED  BY <2>1, <1>1
<1>5. Prices(u) = Prices(t)
    BY <1>1, <1>2, <1>3 DEF Prices
<1>6. Prices(t)[r] = t[r].price
    BY <1>1 DEF Prices
<1>7. ASSUME NEW n
      PROVE  SumFunctionOnSet(Prices(t), RowsOf(u, n)) =
             SumFunctionOnSet(Prices(t), RowsOf(t, n))
             + (IF n = c THEN t[r].price ELSE IF n = t[r].card THEN 0 - t[r].price ELSE 0)
    <2>1. /\ IsFiniteSet(RowsOf(t, n)) /\ RowsOf(t, n) \subseteq DOMAIN t /\ \A k \in DOMAIN t : Prices(t)[k] \in Nat
          /\ SumFunctionOnSet(Prices(t), RowsOf(t, n)) \in Nat
        BY <1>0, RowsAreTyped
    <2>2. /\ IsFiniteSet(RowsOf(u, n)) /\ RowsOf(u, n) \subseteq DOMAIN t
          /\ SumFunctionOnSet(Prices(t), RowsOf(u, n)) \in Nat
        BY <1>2, <1>4, <1>5, RowsAreTyped
    <2>3. CASE n = c
        <3>1. r \in RowsOf(u, n) /\ RowsOf(t, n) = RowsOf(u, n) \ {r}
            BY <2>3, <1>0, <1>1, <1>2, <1>3 DEF RowsOf
        <3>2. \A k \in RowsOf(u, n) : Prices(t)[k] \in Int
            BY <2>1, <2>2
        <3>3. HasMore(Prices(t), RowsOf(u, n), RowsOf(t, n), r)
            BY <2>2, <3>1, <3>2, RowGoes
        <3>. QED  BY <2>1, <2>2, <2>3, <3>3, <1>6 DEF HasMore
    <2>4. CASE n = t[r].card
        <3>1. r \in RowsOf(t, n) /\ RowsOf(u, n) = RowsOf(t, n) \ {r}
            BY <2>4, <1>0, <1>1, <1>2, <1>3 DEF RowsOf
        <3>2. \A k \in RowsOf(t, n) : Prices(t)[k] \in Int
            BY <2>1
        <3>3. HasMore(Prices(t), RowsOf(t, n), RowsOf(u, n), r)
            BY <2>1, <3>1, <3>2, RowGoes
        <3>. QED  BY <2>1, <2>2, <2>4, <3>3, <1>0, <1>3, <1>6 DEF HasMore
    <2>5. CASE n # c /\ n # t[r].card
        <3>1. RowsOf(t, n) = RowsOf(u, n)
            BY <2>5, <1>1, <1>2, <1>3 DEF RowsOf
        <3>. QED  BY <2>1, <2>5, <3>1
    <2>. QED  BY <2>3, <2>4, <2>5
<1>. QED  BY <1>4, <1>5, <1>7 DEF MovedTo

(* What an account has used is the sum over its cards *)
Cards(a) == {n \in Nics : Owner[n] = a}

(* Used is the sum of what was billed to the cards of the account, which    *)
(* are finitely many.                                                       *)
LEMMA UsedIsSum ==
    \A a : Used(a) = SumFunctionOnSet(tlog, Cards(a)) /\ IsFiniteSet(Cards(a)) /\ Cards(a) \subseteq Nics
<1>. TAKE a
<1>1. Used(a) = SumFunctionOnSet(tlog, Cards(a))
    BY DEF Used, Cards, MapThenSumSet, SumFunctionOnSet, FoldFunctionOnSet
<1>2. Cards(a) \in SUBSET (1 .. NumNics) /\ IsFiniteSet(1 .. NumNics)
    BY BillingAssumption, FS_Interval DEF Cards, Nics
<1>3. IsFiniteSet(Cards(a))
    BY <1>2, FS_Subset
<1>. QED  BY <1>1, <1>2, <1>3 DEF Nics

(* What an account has used is a natural number.                            *)
LEMMA UsedIsNat == tlog \in [Nics -> Nat] => \A a : Used(a) \in Nat
<1>. SUFFICES ASSUME tlog \in [Nics -> Nat], NEW a PROVE Used(a) \in Nat
    OBVIOUS
<1>1. IsFiniteSet(Cards(a)) /\ \A n \in Cards(a) : tlog[n] \in Nat
    BY UsedIsSum
<1>2. SumFunctionOnSet(tlog, Cards(a)) \in Nat
    BY <1>1, SumNat
<1>. QED  BY <1>2, UsedIsSum

----------------------------------------------------------------------------
(* The lists of the logger follow the rules of the filter: the cards it has *)
(* added are among those it has pushed, and after the second swap the cards *)
(* in use are among those it keeps for the period that runs.                *)
ListsFollow ==
    /\ crashes = 0 => swaps = 2
    /\ swaps >= 1 => shadow \subseteq (IF pc \in {"nics", "swap"} THEN shdw_NICs ELSE {})
    /\ swaps = 2 => rules \subseteq crnt_NICs

(* A packet that is not stale was matched with the rules in use, and from   *)
(* the second swap on these were loaded with the taxes the logger keeps     *)
(* for them; between the two swaps it has the log and not yet the lists.    *)
PeriodFollows ==
    /\ swaps >= 1 => law = crnt_taxes
    /\ \A k \in DOMAIN log : ~log[k].stale => swaps = 2 /\ log[k].card \in rules
    /\ \A t \in Threads : pkt[t].card # 0 /\ ~pkt[t].stale => swaps = 2 /\ pkt[t].card \in rules
    /\ pc = "swap" =>
          \A k \in DOMAIN captured_log : ~captured_log[k].stale =>
              swaps = 2 /\ captured_log[k].card \in rules /\ captured_law = law
    /\ PeriodIsBillable

(* The clock, and the days whose tables were opened: the logger is at the   *)
(* last of them, and dates it until the next one, but for what it has still *)
(* to do after the signal.                                                  *)
DatedAs(d) == {d, Before(d)} \cup (IF crashes = 0 THEN {} ELSE {0})
DatesFollow ==
    /\ log_t_tm <= today /\ \A o \in opened : o <= today
    /\ log_t_tm # 0 => log_t_tm \in opened /\ \A o \in opened : o <= log_t_tm
    /\ log_t_tm = 0 /\ crashes = 0 => opened = {}
    /\ IF pc \in {"signal", "time"} THEN log_t_tm # 0 /\ log_t_time \in DatedAs(log_t_tm)
       ELSE log_t_time = log_t_tm
    /\ eod_day <= log_t_tm /\ (eod = "woken" => log_t_tm # 0)
    /\ eod = "date" /\ eod_day # 0 => log_t_time \in DatedAs(eod_day) /\ (pc = "time" => log_t_tm = eod_day)
    /\ eod \in {"tax", "pay"} /\ eod_day # 0 => pay_date \in DatedAs(eod_day)

(* A thread that is through with a day, and waits, before the next begins *)
ClockFollows ==
    /\ log_t_tm \notin {0, today} => eod \notin {"start", "woken"} /\ pc # "signal"
    /\ pc = "signal" => eod \notin {"start", "woken"} /\ today \in changes
    /\ eod = "woken" => today \in changes

(* Payments of rounds that are counted and still to come *)
ToCome(a, d) ==
    (IF pc = "signal" /\ log_t_tm = d THEN DayTax[a] ELSE 0)
    + (IF \/ eod = "woken" /\ log_t_tm = d
          \/ eod = "date" /\ eod_day = d
          \/ eod \in {"tax", "pay"} /\ eod_day = d /\ a \in todo
       THEN DayTax[a] ELSE 0)
Rounds(d) == (IF d \in changes THEN 1 ELSE 0) + spurious[d]
RoundsFollow ==
    \A a \in Accounts, d \in Days : payments[a][d] + ToCome(a, d) <= DayTax[a] * Rounds(d)

(* The day the logger changed to last is still to be paid for *)
Owed(a) ==
    \/ pc = "signal" \/ eod \in {"woken", "stirred"}
    \/ eod = "date" /\ eod_day = today
    \/ eod \in {"tax", "pay"} /\ eod_day = today /\ a \in todo
DuesFollow ==
    crashes = 0 => \A a \in Accounts \ skipped, d \in changes :
        payments[a][d] >= DayTax[a] \/ (d = today /\ log_t_tm = today /\ Owed(a))

DayFollows ==
    /\ DatesFollow
    /\ ~late => ClockFollows /\ RoundsFollow /\ DuesFollow
    /\ fails = 0 => skipped = {}

(* The equation of the books for an account *)
BooksFollow ==
    /\ crashes = 0 /\ ~halfway => \A a \in Accounts : sum[a] + unbooked[a] = Balance(a)
    /\ fails = 0 => \A a \in Accounts : untaken[a] = 0 /\ unbooked[a] = 0

(* What is matched, logged and billed has a host of this behaviour, and the *)
(* taxes the logger knows were named by tariffs in force.                   *)
AllPrices(n) == (UNION {Named(Tariffs[i]) : i \in 1 .. n}) \cup {0}
Priced(list) == Named(list) \subseteq AllPrices(tariff)
PricesFollow ==
    /\ \A t \in Threads : pkt[t].card # 0 => pkt[t].host \in setup.hosts
    /\ \A k \in DOMAIN log : log[k].host \in setup.hosts
    /\ \A k \in DOMAIN captured_log : captured_log[k].host \in setup.hosts
    /\ Priced(crnt_taxes) /\ Priced(shdw_taxes)

(* An account is listed for a period if it could be used when the cards     *)
(* were read.  From then on it is charged for the log being billed and for  *)
(* the next one, at most: the cards of the period that runs, crnt_NICs      *)
(* until the logger swaps its lists, have one log against them, those of    *)
(* the period being billed two, less the packets still to be billed.        *)
Forgone(a) == crashes * DayTax[a]
Settled(a) == sum[a] + unbooked[a] + TaxPaid(a) + InFlight(a) + Forgone(a) + corrected[a]

Billed == IF Billing THEN LogLimit - Cardinality(DOMAIN captured_log) ELSE LogLimit
Listed(a, list) == \E n \in list : Owner[n] = a
Covers(s, k, m) == s + k * m >= 0
Owes(a, k) == Covers(Settled(a), k, MaxPrice)

DebtOf(a) ==
    /\ Owes(a, 2 * LogLimit)
    /\ Listed(a, crnt_NICs) => Owes(a, Billed)
    /\ Listed(a, shdw_NICs) /\ Billing => Owes(a, LogLimit + Billed)
    /\ Listed(a, shdw_NICs) /\ pc \in {"nics", "swap"} => Settled(a) >= 0
    /\ a \in shdw_accounts /\ pc \in {"accounts", "nics"} => Settled(a) >= 0

DebtFollows == PricesFollow /\ \A a \in Accounts \ NegAllowed : DebtOf(a)

IInv == Types /\ ListsFollow /\ PeriodFollows /\ DayFollows /\ BooksFollow /\ DebtFollows

----------------------------------------------------------------------------
(* The bounds of a behaviour never change *)
LEMMA SetupStays == Next => setup' = setup
<1>. USE DEF boundVars
<1>1. Cycle => setup' = setup
    BY DEF Cycle, ReadTaxes, LoadTaxes, ReadDetails, LoadDetails, LoadAccount, AccountsEnd, LoadNic, NicsEnd,
        SwapLog, SwapRules, Table, Signal, SetTime, Bill, Charging, Charge, BillEnd
<1>2. EndOfDayThread => setup' = setup
    BY DEF EndOfDayThread, EodStart, EodWake, EodDate, Taxing, EodTax, Paying, EodPay, EodSkip, EodEnd
<1>3. (\E t \in Threads : Store(t)) => setup' = setup
    BY DEF Store
<1>4. Others => setup' = setup
    BY DEF Others, Restart, Midnight, NewTariff, EodSpurious, Match, Pay, Switch
<1>5. Tool => setup' = setup
    BY DEF Tool
<1>. QED  BY <1>1, <1>2, <1>3, <1>4, <1>5 DEF Next

----------------------------------------------------------------------------
(* The types hold initially *)
LEMMA InitTypes == Init => Types
<1>. SUFFICES ASSUME Init PROVE Types
    OBVIOUS
<1>0. /\ setup \in Setups /\ setup.days \in Nat \ {0} /\ setup.table \in Seq(TableRow)
      /\ table = setup.table
    BY BillingAssumption DEF Init
<1>1. \A n : InTable(n) \in Nat
    BY <1>0, InTableIsSum
<1>2. tlog \in [Nics -> Nat] /\ RowsAreIn
    <2>1. tlog = [n \in Nics |-> InTable(n)]
        BY DEF Init
    <2>2. \A n \in Nics : tlog[n] = InTable(n)
        BY <2>1
    <2>. QED  BY <1>1, <2>1, <2>2 DEF RowsAreIn
<1>3. \A a : Used(a) \in Nat
    BY <1>2, UsedIsNat
<1>4. DbTypes
    <2>1. paid = [a \in Accounts |-> Used(a)] /\ tariff = 1 /\ setup \in Setups /\ active = Nics
        BY DEF Init
    <2>2. paid \in [Accounts -> Nat] /\ tariff \in DOMAIN Tariffs
        BY <2>1, <1>3, BillingAssumption
    <2>3. sum \in [Accounts -> Int] /\ payments \in [Accounts -> [Days -> Nat]]
          /\ untaken \in [Accounts -> Nat] /\ unbooked \in [Accounts -> Nat]
          /\ pkts \in Nat /\ admin \in Nat /\ crashes \in Nat /\ tools \in Nat /\ fails \in Nat
        BY DEF Init, Days
    <2>4. T_updacc = 1 /\ TU_updacc = 1 /\ 1 \in Accounts
        BY BillingAssumption DEF Init, Accounts
    <2>. QED  BY <2>1, <2>2, <2>3, <2>4 DEF DbTypes, Days
<1>9. NoTaxes \in TaxLists
    <2>1. << >> \in Seq(Nat) /\ << >> \in Seq(Details)
        OBVIOUS
    <2>. QED  BY <2>1 DEF NoTaxes, TaxLists
<1>5. FilterTypes
    BY <1>9, BillingAssumption DEF Init, FilterTypes
<1>6. LoggerTypes
    <2>1. DOMAIN captured_log = {} /\ captured_log \in [DOMAIN captured_log -> Logged]
        BY DEF Init
    <2>2. ListsTaxed
        BY DEF Init, ListsTaxed, Taxable, Billing
    <2>. QED  BY <2>1, <2>2, <1>9 DEF Init, LoggerTypes
<1>7. DayTypes
    <2>1. /\ today = 1 /\ log_t_tm = 0 /\ log_t_time = 0 /\ changes = {} /\ opened = {} /\ late = FALSE
          /\ eod = "start" /\ todo = {} /\ eod_day = 0 /\ pay_date = 0 /\ skipped = {}
          /\ spurious = [d \in 0 .. setup.days |-> 0]
        BY DEF Init
    <2>2. 1 \in 1 .. setup.days /\ 0 \in 0 .. setup.days
        BY <1>0
    <2>. QED  BY <2>1, <2>2 DEF DayTypes, Days
<1>8. ToolTypes
    <2>1. tool_row = 1 /\ tool = "off" /\ halfway = FALSE /\ corrected = [a \in Accounts |-> 0]
        BY DEF Init
    <2>2. table \in Seq(TableRow) /\ 1 \in 1 .. (Len(table) + 1)
        BY <1>0
    <2>3. corrected \in [Accounts -> Nat] /\ tool_row \in 1 .. (Len(table) + 1)
        BY <2>1, <2>2
    <2>. QED  BY <1>2, <2>1, <2>2, <2>3 DEF ToolTypes
<1>. QED  BY <1>4, <1>5, <1>6, <1>7, <1>8 DEF Types

(* The account that is taxed next is one of those still to be taxed.        *)
LEMMA TaxedIn == DayTypes /\ todo # {} => Taxed \in todo /\ Taxed \in OfTax(NextTax)
<1>. SUFFICES ASSUME DayTypes, todo # {} PROVE Taxed \in todo /\ Taxed \in OfTax(NextTax)
    OBVIOUS
<1>1. todo \subseteq Accounts /\ \A a \in todo : Tax[a] \in Nat /\ a \in Nat
    BY BillingAssumption DEF DayTypes, Accounts
<1>2. NextTax \in {Tax[a] : a \in todo}
    <2>. DEFINE T == {Tax[a] : a \in todo}
    <2>1. T \in SUBSET Nat /\ T # {}
        BY <1>1
    <2>. HIDE DEF T
    <2>2. Min(T) \in T
        BY <2>1, MinIn
    <2>. QED  BY <2>2 DEF T, NextTax
<1>3. OfTax(NextTax) \in SUBSET Nat /\ OfTax(NextTax) # {}
    BY <1>1, <1>2 DEF OfTax
<1>4. Taxed \in OfTax(NextTax)
    BY <1>3, MinIn DEF Taxed
<1>. QED  BY <1>4 DEF OfTax

(* What an update takes, or fails to take, leaves the types of accounts.    *)
LEMMA TakeTyped ==
    ASSUME NEW hit \in Accounts, NEW a \in Accounts, NEW price \in Nat, NEW done,
           DbTypes, Take(hit, a, price, done)
    PROVE  sum' \in [Accounts -> Int] /\ untaken' \in [Accounts -> Nat] /\ unbooked' \in [Accounts -> Nat]
<1>1. sum \in [Accounts -> Int] /\ untaken \in [Accounts -> Nat] /\ unbooked \in [Accounts -> Nat]
    BY DEF DbTypes
<1>2. sum' \in [Accounts -> Int]
    BY <1>1 DEF Take
<1>3. untaken' \in [Accounts -> Nat]
    BY <1>1 DEF Take
<1>4. unbooked' \in [Accounts -> Nat]
    BY <1>1 DEF Take
<1>. QED  BY <1>2, <1>3, <1>4

(* A failure that is printed is counted.                                    *)
LEMMA CallsCounted == ASSUME DbTypes, NEW ok, Calls(ok) PROVE fails' \in Nat /\ fails <= fails'
BY BillingAssumption DEF DbTypes, Calls

(* What the steps leave the types of the tables with *)
LEMMA DbTypesKept == Types /\ Next => DbTypes'
<1>. SUFFICES ASSUME Types, Next PROVE DbTypes'
    OBVIOUS
<1>. USE DEF DbTypes
<1>0. DbTypes /\ LoggerTypes /\ DayTypes /\ ToolTypes
    BY DEF Types
<1>1. CASE Cycle
    <2>1. CASE Charging
        <3>1. PICK found, done \in BOOLEAN : Charge(found, done)
            BY <2>1 DEF Charging
        <3>2. Payer \in Accounts /\ Price \in Nat
            BY <1>0, <3>1, SessionIsTyped DEF LoggerTypes, Charge, SessionTypes, Price, Billing
        <3>3. T_updacc' \in Accounts
            BY <1>0, <3>1, <3>2 DEF Charge, Found
        <3>4. sum' \in [Accounts -> Int] /\ untaken' \in [Accounts -> Nat] /\ unbooked' \in [Accounts -> Nat]
            BY <1>0, <3>1, <3>2, <3>3, TakeTyped DEF Charge
        <3>5. fails' \in Nat
            BY <1>0, <3>1, CallsCounted DEF Charge
        <3>. QED  BY <1>0, <1>1, <3>1, <3>3, <3>4, <3>5 DEF Charge, Cycle, toolVars
    <2>2. CASE ReadTaxes \/ ReadDetails \/ LoadAccount \/ AccountsEnd \/ LoadNic \/ NicsEnd \/ SwapLog \/ SwapRules
        <3>1. fails' \in Nat
            BY <1>0, <2>2, CallsCounted DEF ReadTaxes, LoadTaxes, ReadDetails, LoadDetails, LoadAccount,
                AccountsEnd,
                LoadNic, NicsEnd, SwapLog, SwapRules, boundVars
        <3>. QED  BY <1>0, <1>1, <2>2, <3>1 DEF Cycle, ReadTaxes, LoadTaxes, ReadDetails, LoadDetails,
            LoadAccount,
                AccountsEnd, LoadNic, NicsEnd, SwapLog, SwapRules, dbVars, bookVars, toolVars, boundVars
    <2>3. CASE Table \/ Signal \/ SetTime \/ Bill \/ BillEnd
        BY <1>0, <1>1, <2>3 DEF Cycle, Table, Signal, SetTime, Bill, BillEnd, dbVars, bookVars, toolVars,
            boundVars
    <2>. QED  BY <1>1, <2>1, <2>2, <2>3 DEF Cycle, ReadTaxes, ReadDetails, Charging
<1>2. CASE EndOfDayThread
    <2>1. CASE Taxing
        <3>1. PICK found, done \in BOOLEAN : EodTax(found, done)
            BY <2>1 DEF Taxing
        <3>2. Taxed \in Accounts /\ DayTax[Taxed] \in Nat
            BY <1>0, <3>1, TaxedIn, BillingAssumption DEF EodTax, DayTypes
        <3>3. TU_updacc' \in Accounts
            BY <1>0, <3>1, <3>2 DEF EodTax, Found
        <3>4. sum' \in [Accounts -> Int] /\ untaken' \in [Accounts -> Nat] /\ unbooked' \in [Accounts -> Nat]
            BY <1>0, <3>1, <3>2, <3>3, TakeTyped DEF EodTax
        <3>5. fails' \in Nat
            BY <1>0, <3>1, CallsCounted DEF EodTax
        <3>. QED  BY <1>0, <1>2, <3>1, <3>3, <3>4, <3>5 DEF EndOfDayThread, EodTax, toolVars
    <2>2. CASE Paying
        <3>1. PICK ok \in BOOLEAN : EodPay(ok)
            BY <2>2 DEF Paying
        <3>2. Taxed \in Accounts /\ DayTax[Taxed] \in Nat /\ eod_day \in Days /\ setup' = setup
            BY <1>0, <3>1, TaxedIn, BillingAssumption DEF EodPay, DayTypes, Days
        <3>3. payments' \in [Accounts -> [Days -> Nat]]
            <4>1. payments \in [Accounts -> [Days -> Nat]]
                BY <1>0 DEF Days
            <4>2. payments[Taxed] \in [Days -> Nat]
                BY <3>2, <4>1
            <4>3. [payments[Taxed] EXCEPT ![eod_day] = @ + DayTax[Taxed]] \in [Days -> Nat]
                BY <3>2, <4>2
            <4>4. payments' \in {payments, [payments EXCEPT ![Taxed] = [payments[Taxed] EXCEPT ![eod_day] = @ + DayTax[Taxed]]]}
                BY <3>1 DEF EodPay
            <4>. QED  BY <3>2, <4>1, <4>3, <4>4
        <3>4. unbooked' \in [Accounts -> Nat]
            <4>1. unbooked' \in {unbooked, [unbooked EXCEPT ![Taxed] = @ + DayTax[Taxed]]}
                BY <3>1 DEF EodPay
            <4>2. unbooked \in [Accounts -> Nat]
                BY <1>0
            <4>. HIDE DEF DbTypes
            <4>. QED  BY <3>2, <4>1, <4>2
        <3>5. fails' \in Nat
            BY <1>0, <3>1, CallsCounted DEF EodPay
        <3>. QED  BY <1>0, <1>2, <3>1, <3>2, <3>3, <3>4, <3>5 DEF EndOfDayThread, EodPay, toolVars, Days
    <2>3. CASE EodStart \/ EodWake \/ EodDate \/ EodSkip \/ EodEnd
        <3>1. fails' \in Nat
            BY <1>0, <2>3, CallsCounted DEF EodStart, EodWake, EodDate, EodSkip, EodEnd, boundVars
        <3>. QED  BY <1>0, <1>2, <2>3, <3>1 DEF EndOfDayThread, EodStart, EodWake, EodDate, EodSkip, EodEnd,
            dbVars,
                bookVars, toolVars, boundVars
    <2>. QED  BY <1>2, <2>1, <2>2, <2>3 DEF EndOfDayThread, Taxing, Paying
<1>3. ASSUME NEW t \in Threads, Store(t) PROVE DbTypes'
    BY <1>0, <1>3 DEF Store, dbVars, bookVars, toolVars, boundVars
<1>4. CASE Others
    <2>1. tools' = tools
        BY <1>4 DEF Others, toolVars
    <2>2. CASE Restart \/ Midnight \/ EodSpurious
        <3>1. 1 \in Accounts
            BY BillingAssumption DEF Accounts
        <3>2. /\ UNCHANGED <<setup, sum, paid, active, tariff, payments, untaken, unbooked, pkts, admin, fails>>
              /\ T_updacc' \in {T_updacc, 1} /\ TU_updacc' \in {TU_updacc, 1} /\ crashes' \in {crashes, crashes + 1}
            BY <2>2 DEF Restart, Midnight, EodSpurious, dbVars, bookVars, boundVars
        <3>3. T_updacc' \in Accounts /\ TU_updacc' \in Accounts /\ crashes' \in Nat
            <4>1. T_updacc \in Accounts /\ TU_updacc \in Accounts /\ crashes \in Nat
                BY <1>0
            <4>. HIDE DEF DbTypes
            <4>2. T_updacc' \in Accounts /\ TU_updacc' \in Accounts
                BY <3>1, <3>2, <4>1
            <4>3. crashes' \in Nat
                BY <3>2, <4>1
            <4>. QED  BY <4>2, <4>3
        <3>. QED  BY <1>0, <2>1, <3>2, <3>3
    <2>3. CASE NewTariff
        <3>1. tariff' \in DOMAIN Tariffs
            <4>1. tariff \in 1 .. Len(Tariffs) /\ Len(Tariffs) \in Nat /\ DOMAIN Tariffs = 1 .. Len(Tariffs)
                BY <1>0, BillingAssumption
            <4>2. tariff < Len(Tariffs) /\ tariff' = tariff + 1
                BY <2>3 DEF NewTariff
            <4>. QED  BY <4>1, <4>2
        <3>2. UNCHANGED <<setup, sum, paid, active, payments, bookVars, pkts, crashes, fails>> /\ admin' = admin + 1
            BY <2>3 DEF NewTariff
        <3>. QED  BY <1>0, <2>1, <3>1, <3>2 DEF bookVars
    <2>4. ASSUME NEW t \in Threads, NEW n \in Nics, NEW h \in setup.hosts, Match(t, n, h) PROVE DbTypes'
        BY <1>0, <2>1, <2>4 DEF Match, dbVars, bookVars
    <2>5. ASSUME NEW a \in Accounts, Pay(a) PROVE DbTypes'
        <3>1. /\ sum' = [sum EXCEPT ![a] = @ + 1] /\ paid' = [paid EXCEPT ![a] = @ + 1] /\ admin' = admin + 1
              /\ UNCHANGED <<setup, active, tariff, payments, bookVars, pkts, crashes, fails>>
            BY <2>5 DEF Pay
        <3>2. sum' \in [Accounts -> Int] /\ paid' \in [Accounts -> Nat]
            BY <1>0, <3>1
        <3>3. admin' \in Nat
            BY <1>0, <3>1
        <3>. QED  BY <1>0, <2>1, <3>1, <3>2, <3>3 DEF bookVars
    <2>6. ASSUME NEW n \in Nics, Switch(n) PROVE DbTypes'
        <3>1. /\ active' \in {active \ {n}, active \cup {n}} /\ admin' = admin + 1
              /\ UNCHANGED <<setup, sum, paid, tariff, payments, bookVars, pkts, crashes, fails>>
            BY <2>6 DEF Switch
        <3>. QED  BY <1>0, <2>1, <3>1 DEF bookVars
    <2>. QED  BY <1>4, <2>2, <2>3, <2>4, <2>5, <2>6 DEF Others
<1>5. CASE Tool
    <2>0. /\ UNCHANGED <<setup, paid, active, tariff, payments, bookVars, pkts, admin, crashes, fails>>
          /\ ToolStart \/ ToolSkip \/ ToolSub \/ ToolAdd \/ ToolLog \/ ToolEnd
        BY <1>5 DEF Tool, boundVars
    <2>1. sum' \in [Accounts -> Int]
        <3>1. CASE UNCHANGED sum
            BY <1>0, <3>1
        <3>2. CASE ToolSub \/ ToolAdd
            <4>1. Row \in TableRow /\ (ToolSub => Row.right # 0)
                BY <1>0, <3>2 DEF ToolTypes, ToolSub, ToolAdd, Row
            <4>2. Row.card \in Nics /\ Row.price \in Nat /\ (Row.right # 0 => Row.right \in Nics)
                BY <4>1, BillingAssumption DEF TableRow, Nics
            <4>3. Owner[Row.card] \in Accounts /\ (Row.right # 0 => Owner[Row.right] \in Accounts)
                BY <4>2, BillingAssumption
            <4>4. CASE ToolSub
                <5>1. sum' = [sum EXCEPT ![Owner[Row.right]] = @ - Row.price] /\ Owner[Row.right] \in Accounts
                    BY <4>1, <4>3, <4>4 DEF ToolSub
                <5>. QED  BY <1>0, <4>2, <5>1
            <4>5. CASE ToolAdd
                BY <1>0, <4>1, <4>2, <4>3, <4>5 DEF ToolAdd
            <4>. QED  BY <3>2, <4>4, <4>5
        <3>. QED  BY <2>0, <3>1, <3>2 DEF ToolStart, ToolSkip, ToolLog, ToolEnd
    <2>2. tools' \in Nat
        BY <1>0, <2>0 DEF ToolStart, ToolSkip, ToolSub, ToolAdd, ToolLog, ToolEnd
    <2>. QED  BY <1>0, <2>0, <2>1, <2>2 DEF bookVars
<1>. QED  BY <1>1, <1>2, <1>3, <1>4, <1>5 DEF Next

(* What the steps leave the types of the filter with *)
LEMMA OutdatedTyped ==
    FilterTypes => /\ Outdated \in Seq(Logged) /\ Len(Outdated) = Len(log) /\ DOMAIN Outdated = DOMAIN log
                   /\ \A k \in DOMAIN log : Outdated[k].stale /\ Outdated[k].card = log[k].card
                   /\ OutdatedPkts \in [Threads -> Logged \cup {NoPkt}]
                   /\ \A t \in Threads : OutdatedPkts[t].card # 0 => OutdatedPkts[t].stale
<1>. SUFFICES ASSUME FilterTypes
              PROVE  /\ Outdated \in Seq(Logged) /\ Len(Outdated) = Len(log) /\ DOMAIN Outdated = DOMAIN log
                     /\ \A k \in DOMAIN log : Outdated[k].stale /\ Outdated[k].card = log[k].card
                     /\ OutdatedPkts \in [Threads -> Logged \cup {NoPkt}]
                     /\ \A t \in Threads : OutdatedPkts[t].card # 0 => OutdatedPkts[t].stale
    OBVIOUS
<1>0. ASSUME NEW p \in Logged
      PROVE  /\ [p EXCEPT !.stale = TRUE] \in Logged
             /\ [p EXCEPT !.stale = TRUE].stale /\ [p EXCEPT !.stale = TRUE].card = p.card
    BY DEF Logged
<1>1. DOMAIN log = 1 .. Len(log) /\ Len(log) \in Nat /\ \A k \in DOMAIN log : log[k] \in Logged
    BY DEF FilterTypes
<1>2. Outdated \in [1 .. Len(log) -> Logged] /\ DOMAIN Outdated = DOMAIN log
    BY <1>0, <1>1 DEF Outdated
<1>3. Outdated \in Seq(Logged) /\ Len(Outdated) = Len(log)
    BY <1>1, <1>2
<1>4. \A k \in DOMAIN log : Outdated[k].stale /\ Outdated[k].card = log[k].card
    BY <1>0, <1>1 DEF Outdated
<1>5. ASSUME NEW t \in Threads
      PROVE  /\ OutdatedPkts[t] \in Logged \cup {NoPkt}
             /\ OutdatedPkts[t].card # 0 => OutdatedPkts[t].stale
    <2>1. OutdatedPkts[t] = IF pkt[t].card = 0 THEN NoPkt ELSE [pkt[t] EXCEPT !.stale = TRUE]
        BY DEF OutdatedPkts
    <2>2. pkt[t] \in Logged \cup {NoPkt} /\ NoPkt.card = 0
        BY DEF FilterTypes, NoPkt
    <2>3. CASE pkt[t].card = 0
        BY <2>1, <2>2, <2>3
    <2>4. CASE pkt[t].card # 0
        <3>1. pkt[t] \in Logged
            BY <2>2, <2>4
        <3>. QED  BY <2>1, <2>4, <3>1, <1>0
    <2>. QED  BY <2>3, <2>4
<1>6. OutdatedPkts \in [Threads -> Logged \cup {NoPkt}]
    BY <1>5 DEF OutdatedPkts
<1>. QED  BY <1>2, <1>3, <1>4, <1>5, <1>6

(* The rules, the log and the packets in the filter keep their types.       *)
LEMMA FilterTypesKept == Types /\ Next => FilterTypes'
<1>. SUFFICES ASSUME Types, Next PROVE FilterTypes'
    OBVIOUS
<1>. USE DEF FilterTypes
<1>0. DbTypes /\ FilterTypes /\ LoggerTypes
    BY DEF Types
<1>1. CASE UNCHANGED <<filterVars, pkt>>
    BY <1>0, <1>1 DEF filterVars
<1>2. CASE Cycle
    <2>1. CASE LoadNic
        <3>1. nc_count' \in 0 .. NcLimit /\ shadow' \subseteq Nics
            <4>1. CASE UNCHANGED <<shadow, nc_count>>
                BY <1>0, <4>1
            <4>2. CASE AddNic(row) /\ nc_count # NcLimit
                <5>1. row \in Nics
                    BY <1>0, <2>1, BillingAssumption DEF LoadNic, LoggerTypes, Nics
                <5>2. NcLimit \in Nat
                    BY BillingAssumption
                <5>. QED  BY <1>0, <4>2, <5>1, <5>2 DEF AddNic
            <4>. QED  BY <2>1, <4>1, <4>2 DEF LoadNic, AddNic
        <3>. QED  BY <1>0, <2>1, <3>1 DEF LoadNic
    <2>2. CASE SwapLog
        <3>1. log' \in Seq(Logged) /\ Len(log') <= LogLimit
            BY <2>2, BillingAssumption DEF SwapLog
        <3>. QED  BY <1>0, <2>2, <3>1 DEF SwapLog
    <2>3. CASE SwapRules
        <3>1. log' \in Seq(Logged) /\ Len(log') <= LogLimit /\ pkt' \in [Threads -> Logged \cup {NoPkt}]
            BY <1>0, <2>3, OutdatedTyped DEF SwapRules
        <3>2. nc_count' \in 0 .. NcLimit /\ law' \in TaxLists
            BY <1>0, <2>3, BillingAssumption DEF SwapRules, LoggerTypes
        <3>. QED  BY <1>0, <2>3, <3>1, <3>2 DEF SwapRules
    <2>4. CASE ReadTaxes \/ ReadDetails \/ LoadAccount \/ AccountsEnd \/ NicsEnd \/ Table \/ Signal \/ SetTime
               \/ Bill \/ Charging \/ BillEnd
        BY <1>1, <2>4 DEF ReadTaxes, LoadTaxes, ReadDetails, LoadDetails, LoadAccount, AccountsEnd, NicsEnd,
            Table, Signal, SetTime, Bill, Charging, Charge, BillEnd
    <2>. QED  BY <1>2, <2>1, <2>2, <2>3, <2>4 DEF Cycle, ReadTaxes, ReadDetails, Charging
<1>3. CASE EndOfDayThread
    BY <1>1, <1>3 DEF EndOfDayThread, EodStart, EodWake, EodDate, Taxing, EodTax, Paying, EodPay, EodSkip,
        EodEnd
<1>4. ASSUME NEW t \in Threads, Store(t) PROVE FilterTypes'
    <2>1. pkt[t] \in Logged
        BY <1>0, <1>4 DEF Store, NoPkt
    <2>2. log' \in Seq(Logged) /\ Len(log') <= LogLimit
        <3>1. log' = log \/ (log' = Append(log, pkt[t]) /\ Len(log) < LogLimit)
            BY <1>4 DEF Store, LogRoom
        <3>2. LogLimit \in Nat
            BY BillingAssumption
        <3>. QED  BY <1>0, <2>1, <3>1, <3>2
    <2>3. pkt' \in [Threads -> Logged \cup {NoPkt}]
        BY <1>0, <1>4 DEF Store
    <2>. QED  BY <1>0, <1>4, <2>2, <2>3 DEF Store
<1>5. CASE Others
    <2>1. CASE Restart
        <3>1. log' \in Seq(Logged) /\ Len(log') <= LogLimit /\ pkt' \in [Threads -> Logged \cup {NoPkt}]
            BY <1>0, <2>1, OutdatedTyped DEF Restart
        <3>. QED  BY <1>0, <2>1, <3>1 DEF Restart
    <2>2. CASE Midnight \/ NewTariff \/ EodSpurious
        BY <1>1, <2>2 DEF Midnight, NewTariff, EodSpurious
    <2>3. ASSUME NEW t \in Threads, NEW n \in Nics, NEW h \in setup.hosts, Match(t, n, h) PROVE FilterTypes'
        <3>1. h \in Hosts /\ (swaps < 2) \in BOOLEAN
            <4>1. setup.hosts \subseteq Hosts
                <5>1. setup \in Setups
                    BY <1>0 DEF DbTypes
                <5>. QED  BY <5>1, BillingAssumption
            <4>. QED  BY <4>1
        <3>2. [card |-> n, host |-> h, stale |-> swaps < 2] \in Logged
            BY <3>1 DEF Logged
        <3>3. pkt' = [pkt EXCEPT ![t] = [card |-> n, host |-> h, stale |-> swaps < 2]] /\ UNCHANGED filterVars
            BY <2>3 DEF Match
        <3>4. pkt' \in [Threads -> Logged \cup {NoPkt}]
            BY <1>0, <3>2, <3>3
        <3>. QED  BY <1>0, <3>3, <3>4 DEF filterVars
    <2>4. ASSUME NEW a \in Accounts, Pay(a) PROVE FilterTypes'
        BY <1>1, <2>4 DEF Pay
    <2>5. ASSUME NEW n \in Nics, Switch(n) PROVE FilterTypes'
        BY <1>1, <2>5 DEF Switch
    <2>. QED  BY <1>5, <2>1, <2>2, <2>3, <2>4, <2>5 DEF Others
<1>6. CASE Tool
    BY <1>1, <1>6 DEF Tool
<1>. QED  BY <1>2, <1>3, <1>4, <1>5, <1>6 DEF Next

(* As many rows of a table of taxes as were read are a list of taxes. *)
LEMMA ListsRead ==
    ASSUME NEW i \in DOMAIN Tariffs
    PROVE  /\ \A n \in 0 .. Len(Tariffs[i].taxes) : SubSeq(Tariffs[i].taxes, 1, n) \in Seq(Nat)
           /\ \A n \in 0 .. Len(Tariffs[i].details) : SubSeq(Tariffs[i].details, 1, n) \in Seq(Details)
<1>1. Tariffs[i].taxes \in Seq(Nat) /\ Tariffs[i].details \in Seq(Details)
    BY BillingAssumption
<1>2. ASSUME NEW S, NEW s \in Seq(S), NEW n \in 0 .. Len(s) PROVE SubSeq(s, 1, n) \in Seq(S)
    OBVIOUS
<1>. QED  BY <1>1, <1>2

(* What the steps leave the types of the logger with *)
LEMMA LoggerTypesKept == Types /\ Next => LoggerTypes'
<1>. SUFFICES ASSUME Types, Next PROVE LoggerTypes'
    OBVIOUS
<1>. USE DEF LoggerTypes
<1>0. DbTypes /\ FilterTypes /\ LoggerTypes
    BY DEF Types
<1>1. CASE UNCHANGED loggerVars
    <2>1. First' = First
        BY <1>1 DEF First, loggerVars
    <2>2. ListsTaxed'
        BY <1>0, <1>1 DEF ListsTaxed, Taxable, Billing, loggerVars, listVars
    <2>. QED  BY <1>0, <1>1, <2>1, <2>2 DEF loggerVars, listVars
<1>2. CASE Cycle
    <2>1. CASE ReadTaxes \/ ReadDetails \/ LoadAccount \/ AccountsEnd
        <3>1. CASE ReadTaxes
            <4>1. PICK n \in 0 .. Len(Tariffs[tariff].taxes) : LoadTaxes(n)
                BY <3>1 DEF ReadTaxes
            <4>2. shdw_taxes' \in TaxLists
                <5>1. SubSeq(Tariffs[tariff].taxes, 1, n) \in Seq(Nat) /\ << >> \in Seq(Details)
                    BY <1>0, ListsRead DEF DbTypes
                <5>. QED  BY <4>1, <5>1 DEF LoadTaxes, TaxLists
            <4>3. ListsTaxed'
                BY <1>0, <4>1 DEF LoadTaxes, ListsTaxed, Taxable, Billing
            <4>. QED  BY <1>0, <4>1, <4>2, <4>3 DEF LoadTaxes
        <3>2. CASE ReadDetails
            <4>1. PICK n \in 0 .. Len(Tariffs[tariff].details) : LoadDetails(n)
                BY <3>2 DEF ReadDetails
            <4>2. shdw_taxes' \in TaxLists
                <5>1. SubSeq(Tariffs[tariff].details, 1, n) \in Seq(Details) /\ shdw_taxes \in TaxLists
                    BY <1>0, ListsRead DEF DbTypes
                <5>. QED  BY <4>1, <5>1 DEF LoadDetails, TaxLists
            <4>3. ListsTaxed'
                BY <1>0, <4>1 DEF LoadDetails, ListsTaxed, Taxable, Billing
            <4>. QED  BY <1>0, <4>1, <4>2, <4>3 DEF LoadDetails
        <3>3. CASE LoadAccount
            <4>1. row \in Accounts /\ row + 1 \in Nat \ {0}
                BY <1>0, <3>3, BillingAssumption DEF LoadAccount, Accounts
            <4>2. \A a \in shdw_accounts' : a \in shdw_accounts \/ (a = row /\ Tax[a] \in DOMAIN shdw_taxes.taxes)
                BY <3>3 DEF LoadAccount
            <4>3. ListsTaxed'
                BY <1>0, <3>3, <4>2 DEF LoadAccount, ListsTaxed, Taxable, Billing, listVars
            <4>. QED  BY <1>0, <3>3, <4>1, <4>2, <4>3 DEF LoadAccount, listVars
        <3>4. CASE AccountsEnd
            <4>1. ListsTaxed'
                BY <1>0, <3>4 DEF AccountsEnd, ListsTaxed, Taxable, Billing
            <4>. QED  BY <1>0, <3>4, <4>1 DEF AccountsEnd
        <3>. QED  BY <2>1, <3>1, <3>2, <3>3, <3>4
    <2>2. CASE LoadNic \/ NicsEnd
        <3>1. CASE LoadNic
            <4>1. row \in Nics /\ row + 1 \in Nat \ {0}
                BY <1>0, <3>1, BillingAssumption DEF LoadNic, Nics
            <4>2. \A n \in shdw_NICs' : n \in shdw_NICs \/ (n = row /\ Owner[n] \in shdw_accounts)
                BY <3>1 DEF LoadNic
            <4>3. ListsTaxed'
                BY <1>0, <3>1, <4>2 DEF LoadNic, ListsTaxed, Taxable, Billing
            <4>. QED  BY <1>0, <3>1, <4>1, <4>2, <4>3 DEF LoadNic
        <3>2. CASE NicsEnd
            <4>1. NumNics + 1 \in Nat \ {0}
                BY BillingAssumption
            <4>2. ListsTaxed'
                BY <1>0, <3>2 DEF NicsEnd, ListsTaxed, Taxable, Billing, listVars
            <4>. QED  BY <1>0, <3>2, <4>1, <4>2 DEF NicsEnd, listVars
        <3>. QED  BY <2>2, <3>1, <3>2
    <2>3. CASE SwapLog
        <3>1. DOMAIN log \subseteq 1 .. LogLimit /\ log \in [DOMAIN log -> Logged]
            BY <1>0, BillingAssumption DEF FilterTypes
        <3>2. captured_log' = log /\ captured_law' = law /\ law \in TaxLists
            BY <1>0, <2>3 DEF SwapLog, FilterTypes
        <3>3. ListsTaxed'
            BY <1>0, <2>3 DEF SwapLog, ListsTaxed, Taxable, Billing, listVars
        <3>. QED  BY <1>0, <2>3, <3>1, <3>2, <3>3 DEF SwapLog, listVars
    <2>4. CASE SwapRules
        <3>1. swaps' \in 0 .. 2
            BY <1>0, <2>4 DEF SwapRules
        <3>2. ListsTaxed'
            BY <1>0, <2>4 DEF SwapRules, CrntAfterSwap, ShdwAfterSwap, ListsTaxed, Taxable, Billing
        <3>. QED  BY <1>0, <2>4, <3>1, <3>2 DEF SwapRules, CrntAfterSwap, ShdwAfterSwap
    <2>5. CASE Table \/ Signal \/ SetTime \/ BillEnd
        <3>1. ListsTaxed'
            BY <1>0, <2>5 DEF Table, Signal, SetTime, BillEnd, ListsTaxed, Taxable, Billing, listVars
        <3>. QED  BY <1>0, <2>5, <3>1 DEF Table, Signal, SetTime, BillEnd, listVars
    <2>6. CASE Bill \/ Charging
        <3>1. SessionTypes /\ Cardinality(Session) \in Nat
            BY <1>0, <2>6, SessionIsTyped DEF Bill, Charging, Charge, SessionTypes
        <3>2. DOMAIN OtherSessions \subseteq DOMAIN captured_log
              /\ OtherSessions \in [DOMAIN OtherSessions -> Logged]
            BY <1>0 DEF OtherSessions, Restrict
        <3>3. /\ unbilled' \in {unbilled, unbilled + Cardinality(Session)}
              /\ captured_log' \in {captured_log, OtherSessions} /\ pc' \in {"bill", "charge"}
              /\ pc \in {"bill", "charge"}
              /\ UNCHANGED <<row, shdw_accounts, listVars, captured_law, swaps>>
            BY <2>6 DEF Bill, Charging, Charge
        <3>4. unbilled' \in Nat
            BY <1>0, <3>1, <3>3
        <3>5. DOMAIN captured_log' \subseteq 1 .. LogLimit /\ captured_log' \in [DOMAIN captured_log' -> Logged]
            BY <1>0, <3>2, <3>3
        <3>6. ListsTaxed'
            BY <1>0, <3>3 DEF ListsTaxed, Taxable, Billing, listVars
        <3>7. pc' = "charge" => DOMAIN captured_log' # {} /\ First'.card \in shdw_NICs'
            <4>1. pc' = "charge" => captured_log' = captured_log /\ DOMAIN captured_log # {} /\ First.card \in shdw_NICs
                BY <2>6 DEF Bill, Charging, Charge
            <4>2. captured_log' = captured_log => First' = First
                BY DEF First
            <4>. QED  BY <3>3, <4>1, <4>2 DEF listVars
        <3>. QED  BY <1>0, <3>3, <3>4, <3>5, <3>6, <3>7 DEF listVars
    <2>. QED  BY <1>2, <2>1, <2>2, <2>3, <2>4, <2>5, <2>6 DEF Cycle, ReadTaxes, ReadDetails, Charging
<1>3. CASE EndOfDayThread
    BY <1>1, <1>3 DEF EndOfDayThread, EodStart, EodWake, EodDate, Taxing, EodTax, Paying, EodPay, EodSkip,
        EodEnd
<1>4. ASSUME NEW t \in Threads, Store(t) PROVE LoggerTypes'
    BY <1>1, <1>4 DEF Store
<1>5. CASE Others
    <2>1. CASE Restart
        <3>1. DOMAIN captured_log' = {} /\ captured_log' \in [DOMAIN captured_log' -> Logged]
            BY <2>1 DEF Restart
        <3>2. NoTaxes \in TaxLists
            <4>1. << >> \in Seq(Nat) /\ << >> \in Seq(Details)
                OBVIOUS
            <4>. QED  BY <4>1 DEF NoTaxes, TaxLists
        <3>3. ListsTaxed'
            BY <2>1 DEF Restart, ListsTaxed, Taxable, Billing
        <3>. QED  BY <1>0, <2>1, <3>1, <3>2, <3>3 DEF Restart
    <2>2. CASE Midnight \/ NewTariff \/ EodSpurious
        BY <1>1, <2>2 DEF Midnight, NewTariff, EodSpurious
    <2>3. ASSUME NEW t \in Threads, NEW n \in Nics, NEW h \in setup.hosts, Match(t, n, h) PROVE LoggerTypes'
        BY <1>1, <2>3 DEF Match
    <2>4. ASSUME NEW a \in Accounts, Pay(a) PROVE LoggerTypes'
        BY <1>1, <2>4 DEF Pay
    <2>5. ASSUME NEW n \in Nics, Switch(n) PROVE LoggerTypes'
        BY <1>1, <2>5 DEF Switch
    <2>. QED  BY <1>5, <2>1, <2>2, <2>3, <2>4, <2>5 DEF Others
<1>6. CASE Tool
    BY <1>1, <1>6 DEF Tool
<1>. QED  BY <1>2, <1>3, <1>4, <1>5, <1>6 DEF Next

(* A step that leaves the table alone leaves what it says of the cards *)
LEMMA InTableStays ==
    table \in Seq(TableRow) /\ UNCHANGED table => \A n : InTable(n)' = InTable(n)
<1>1. (table \in Seq(TableRow) =>
            \A n : /\ InTable(n) = SumFunctionOnSet(Prices(table), RowsOf(table, n))
                   /\ InTable(n) \in Nat)'
    BY InTableIsSum, PTL
<1>. QED  BY <1>1, InTableIsSum

(* The rows of a card cover what they covered while neither table           *)
(* changes.                                                                 *)
LEMMA RowsStay ==
    table \in Seq(TableRow) /\ RowsAreIn /\ UNCHANGED <<table, tlog>> => RowsAreIn'
BY InTableStays DEF RowsAreIn

(* What the steps leave the types of the days with *)
LEMMA DayTypesKept == Types /\ Next => DayTypes'
<1>. SUFFICES ASSUME Types, Next PROVE DayTypes'
    OBVIOUS
<1>. USE DEF DayTypes
<1>0. DbTypes /\ LoggerTypes /\ DayTypes /\ setup.days \in Nat \ {0}
    BY BillingAssumption DEF Types, DbTypes
<1>00. setup' = setup /\ Days' = Days
    BY SetupStays DEF Days
<1>1. CASE UNCHANGED <<dayVars, eodVars, clockVars>>
    BY <1>0, <1>00, <1>1 DEF dayVars, eodVars, clockVars
<1>2. CASE Cycle
    <2>1. CASE Table
        <3>1. UNCHANGED <<log_t_time, eodVars, clockVars>> /\ log_t_tm' \in {log_t_tm, today}
              /\ \/ UNCHANGED <<changes, opened>>
                 \/ opened' = opened \cup {today} /\ changes' \subseteq changes \cup {today}
            BY <2>1 DEF Table
        <3>2. today \in Days
            BY <1>0 DEF Days
        <3>. QED  BY <1>0, <1>00, <3>1, <3>2 DEF eodVars, clockVars
    <2>2. CASE Signal \/ SetTime
        <3>1. UNCHANGED <<todo, eod_day, pay_date, skipped, spurious, clockVars, log_t_tm, changes, opened>>
              /\ log_t_time' \in {log_t_time, log_t_tm} /\ (eod' = eod \/ eod' = "woken")
            BY <2>2 DEF Signal, SetTime, dayVars, eodVars
        <3>. QED  BY <1>0, <1>00, <3>1 DEF clockVars
    <2>3. CASE ReadTaxes \/ ReadDetails \/ LoadAccount \/ AccountsEnd \/ LoadNic \/ NicsEnd \/ SwapLog \/ SwapRules
        BY <1>1, <2>3 DEF ReadTaxes, LoadTaxes, ReadDetails, LoadDetails, LoadAccount, AccountsEnd, LoadNic,
            NicsEnd,
            SwapLog, SwapRules
    <2>4. CASE Bill \/ Charging \/ BillEnd
        BY <1>1, <2>4 DEF Bill, Charging, Charge, BillEnd
    <2>. QED  BY <1>2, <2>1, <2>2, <2>3, <2>4 DEF Cycle, ReadTaxes, ReadDetails, Charging
<1>3. CASE EndOfDayThread
    <2>0. ASSUME UNCHANGED <<dayVars, clockVars>> PROVE UNCHANGED <<log_t_tm, log_t_time, changes, opened, today, late>>
        BY <2>0 DEF dayVars, clockVars
    <2>1. CASE EodStart \/ EodEnd
        <3>1. /\ UNCHANGED <<todo, skipped, spurious>> /\ eod' = "wait" /\ UNCHANGED <<dayVars, clockVars>>
              /\ (UNCHANGED <<eod_day, pay_date>> \/ (eod_day' = 0 /\ pay_date' = 0))
            BY <2>1 DEF EodStart, EodEnd
        <3>2. 0 \in Days
            BY <1>0 DEF Days
        <3>. QED  BY <1>0, <1>00, <2>0, <3>1, <3>2
    <2>2. CASE EodWake
        <3>1. /\ UNCHANGED <<todo, skipped, pay_date>> /\ eod' = "date" /\ eod_day' = log_t_tm
              /\ UNCHANGED <<dayVars, clockVars>>
              /\ (spurious' = spurious \/ spurious' = [spurious EXCEPT ![log_t_tm] = @ + 1])
            BY <2>2 DEF EodWake
        <3>2. spurious' \in [Days -> Nat]
            BY <1>0, <3>1
        <3>. QED  BY <1>0, <1>00, <2>0, <3>1, <3>2
    <2>3. CASE EodDate
        <3>1. /\ UNCHANGED <<eod_day, skipped, spurious, dayVars, clockVars>> /\ eod' = "tax" /\ pay_date' = log_t_time
              /\ todo' \subseteq Accounts
            BY <2>3 DEF EodDate
        <3>. QED  BY <1>0, <1>00, <2>0, <3>1
    <2>4. CASE Taxing
        <3>1. /\ UNCHANGED <<todo, eod_day, pay_date, skipped, spurious, dayVars, clockVars>> /\ eod' = "pay" /\ todo # {}
            BY <2>4 DEF Taxing, EodTax
        <3>. QED  BY <1>0, <1>00, <2>0, <3>1
    <2>5. CASE Paying \/ EodSkip
        <3>1. /\ UNCHANGED <<eod_day, pay_date, spurious, dayVars, clockVars>> /\ (eod' = eod \/ eod' = "tax")
              /\ todo' \subseteq todo /\ eod \in {"pay", "tax"} /\ (eod' = "pay" => todo' # {})
            BY <2>5 DEF Paying, EodPay, EodSkip
        <3>2. skipped' \subseteq skipped \cup todo
            <4>1. CASE EodSkip
                BY <4>1 DEF EodSkip
            <4>2. CASE Paying
                <5>1. PICK ok \in BOOLEAN : EodPay(ok)
                    BY <4>2 DEF Paying
                <5>2. Taxed \in todo
                    BY <1>0, <5>1, TaxedIn DEF EodPay
                <5>. QED  BY <5>1, <5>2 DEF EodPay
            <4>. QED  BY <2>5, <4>1, <4>2
        <3>. QED  BY <1>0, <1>00, <2>0, <3>1, <3>2
    <2>. QED  BY <1>3, <2>1, <2>2, <2>3, <2>4, <2>5 DEF EndOfDayThread, Taxing, Paying
<1>4. ASSUME NEW t \in Threads, Store(t) PROVE DayTypes'
    BY <1>1, <1>4 DEF Store
<1>5. CASE Others
    <2>1. CASE Restart
        <3>1. /\ log_t_tm' = 0 /\ log_t_time' = 0 /\ eod' = "start" /\ todo' = {} /\ eod_day' = 0 /\ pay_date' = 0
              /\ UNCHANGED <<changes, opened, skipped, spurious, clockVars>>
            BY <2>1 DEF Restart
        <3>2. 0 \in Days
            BY <1>0 DEF Days
        <3>. QED  BY <1>0, <1>00, <3>1, <3>2 DEF clockVars
    <2>2. CASE Midnight
        <3>1. UNCHANGED <<dayVars, eodVars>> /\ today < setup.days /\ today' = today + 1
              /\ late' = (late \/ eod # "wait" \/ pc = "signal")
            BY <2>2 DEF Midnight
        <3>2. today' \in 1 .. setup.days
            BY <1>0, <3>1
        <3>. QED  BY <1>0, <1>00, <3>1, <3>2 DEF dayVars, eodVars
    <2>3. CASE EodSpurious
        <3>1. UNCHANGED <<dayVars, todo, eod_day, pay_date, skipped, spurious, clockVars>> /\ eod' = "stirred"
            BY <2>3 DEF EodSpurious
        <3>. QED  BY <1>0, <1>00, <3>1 DEF dayVars, clockVars
    <2>4. CASE NewTariff
        BY <1>1, <2>4 DEF NewTariff
    <2>5. ASSUME NEW t \in Threads, NEW n \in Nics, NEW h \in setup.hosts, Match(t, n, h) PROVE DayTypes'
        BY <1>1, <2>5 DEF Match
    <2>6. ASSUME NEW a \in Accounts, Pay(a) PROVE DayTypes'
        BY <1>1, <2>6 DEF Pay
    <2>7. ASSUME NEW n \in Nics, Switch(n) PROVE DayTypes'
        BY <1>1, <2>7 DEF Switch
    <2>. QED  BY <1>5, <2>1, <2>2, <2>3, <2>4, <2>5, <2>6, <2>7 DEF Others
<1>6. CASE Tool
    BY <1>1, <1>6 DEF Tool
<1>. QED  BY <1>2, <1>3, <1>4, <1>5, <1>6 DEF Next

(* What the steps leave the types of the table and its tool with *)
LEMMA ToolTypesKept == Types /\ Next => ToolTypes'
<1>. SUFFICES ASSUME Types, Next PROVE ToolTypes'
    OBVIOUS
<1>0. DbTypes /\ LoggerTypes /\ ToolTypes
    BY DEF Types
<1>1. CASE UNCHANGED <<toolVars, tlog>>
    <2>1. RowsAreIn'
        BY <1>0, <1>1, RowsStay DEF ToolTypes, toolVars
    <2>. QED  BY <1>0, <1>1, <2>1 DEF ToolTypes, toolVars, Row
<1>2. CASE Cycle
    <2>1. CASE Bill
        <3>1. SessionTypes /\ UNCHANGED toolVars
            BY <1>0, <1>2, <2>1, SessionIsTyped DEF Bill, Cycle
        <3>2. tlog' = tlog \/ (SessionPrice \in Nat /\ tlog' = [tlog EXCEPT ![First.card] = @ + SessionPrice])
            BY <2>1, <3>1 DEF Bill, SessionTypes, Billing
        <3>3. tlog \in [Nics -> Nat] /\ RowsAreIn /\ table \in Seq(TableRow)
            BY <1>0 DEF ToolTypes
        <3>4. tlog' \in [Nics -> Nat]
            BY <3>1, <3>2, <3>3 DEF SessionTypes
        <3>5. \A n \in Nics : tlog'[n] >= tlog[n]
            BY <3>1, <3>2, <3>3 DEF SessionTypes
        <3>6. \A n \in Nics : InTable(n)' = InTable(n) /\ InTable(n) \in Nat /\ InTable(n) <= tlog[n]
            BY <3>1, <3>3, InTableIsSum, InTableStays DEF toolVars, RowsAreIn
        <3>7. RowsAreIn'
            BY <3>3, <3>4, <3>5, <3>6 DEF RowsAreIn
        <3>8. UNCHANGED <<table, tool, tool_row, halfway, corrected>>
            BY <3>1 DEF toolVars
        <3>. QED  BY <1>0, <3>4, <3>7, <3>8 DEF ToolTypes, Row
    <2>2. CASE ReadTaxes \/ ReadDetails \/ LoadAccount \/ AccountsEnd \/ LoadNic \/ NicsEnd \/ SwapLog \/ SwapRules
        BY <1>1, <1>2, <2>2 DEF Cycle, ReadTaxes, LoadTaxes, ReadDetails, LoadDetails, LoadAccount,
            AccountsEnd, LoadNic, NicsEnd, SwapLog, SwapRules, dbVars
    <2>3. CASE Table \/ Signal \/ SetTime \/ Charging \/ BillEnd
        BY <1>1, <1>2, <2>3 DEF Cycle, Table, Signal, SetTime, Charging, Charge, BillEnd, dbVars
    <2>. QED  BY <1>2, <2>1, <2>2, <2>3 DEF Cycle, ReadTaxes, ReadDetails, Charging
<1>3. CASE EndOfDayThread
    BY <1>1, <1>3 DEF EndOfDayThread, EodStart, EodWake, EodDate, Taxing, EodTax, Paying, EodPay, EodSkip,
        EodEnd, dbVars
<1>4. ASSUME NEW t \in Threads, Store(t) PROVE ToolTypes'
    BY <1>1, <1>4 DEF Store, dbVars
<1>5. CASE Others
    <2>1. CASE Restart \/ Midnight \/ NewTariff \/ EodSpurious
        BY <1>1, <1>5, <2>1 DEF Others, Restart, Midnight, NewTariff, EodSpurious, dbVars
    <2>2. ASSUME NEW t \in Threads, NEW n \in Nics, NEW h \in setup.hosts, Match(t, n, h) PROVE ToolTypes'
        BY <1>1, <1>5, <2>2 DEF Others, Match, dbVars
    <2>3. ASSUME NEW a \in Accounts, Pay(a) PROVE ToolTypes'
        BY <1>1, <1>5, <2>3 DEF Others, Pay
    <2>4. ASSUME NEW n \in Nics, Switch(n) PROVE ToolTypes'
        BY <1>1, <1>5, <2>4 DEF Others, Switch
    <2>. QED  BY <1>5, <2>1, <2>2, <2>3, <2>4 DEF Others
<1>6. CASE Tool
    <2>0. /\ tlog \in [Nics -> Nat] /\ RowsAreIn /\ halfway \in BOOLEAN
          /\ table \in Seq(TableRow) /\ tool \in {"off", "check", "add", "log"}
          /\ tool_row \in 1 .. (Len(table) + 1) /\ Len(table) \in Nat
          /\ corrected \in [Accounts -> Nat]
          /\ tool \in {"add", "log"} => tool_row <= Len(table) /\ Row.right \notin {0, Row.card}
        BY <1>0 DEF ToolTypes
    <2>1. CASE ToolStart
        <3>1. 1 \in 1 .. (Len(table) + 1)
            BY <2>0
        <3>2. UNCHANGED <<table, corrected, halfway, tlog>> /\ tool' = "check" /\ tool_row' = 1
            BY <2>1 DEF ToolStart
        <3>. QED  BY <2>0, <3>1, <3>2, RowsStay DEF ToolTypes
    <2>2. CASE ToolSkip
        <3>1. UNCHANGED <<table, tool, corrected, halfway, tlog>> /\ tool = "check" /\ tool_row' = tool_row + 1
              /\ tool_row <= Len(table)
            BY <2>2 DEF ToolSkip
        <3>. QED  BY <2>0, <3>1, RowsStay DEF ToolTypes
    <2>3. CASE ToolSub
        <3>1. UNCHANGED <<table, tool_row, halfway, tlog>> /\ tool' = "add" /\ tool_row <= Len(table)
              /\ Row.right \notin {0, Row.card}
            BY <2>3 DEF ToolSub
        <3>2. Row \in TableRow
            BY <2>0, <3>1 DEF Row
        <3>3. Row.price \in Nat /\ Row.right \in Nics
            BY <3>1, <3>2, BillingAssumption DEF TableRow, Nics
        <3>4. corrected' \in [Accounts -> Nat]
            BY <2>0, <2>3, <3>3, BillingAssumption DEF ToolSub
        <3>. QED  BY <2>0, <3>1, <3>4, RowsStay DEF ToolTypes, Row
    <2>4. CASE ToolAdd
        <3>1. UNCHANGED <<table, tool_row, corrected, halfway, tlog>> /\ tool = "add" /\ tool' = "log"
            BY <2>4 DEF ToolAdd
        <3>. QED  BY <2>0, <3>1, RowsStay DEF ToolTypes, Row
    <2>5. CASE ToolLog
        <3>. DEFINE c == Row.card
                    r == Row.right
                    p == Row.price
        <3>1. /\ tool = "log" /\ tool' = "check" /\ UNCHANGED <<corrected, halfway>>
              /\ tlog' = [tlog EXCEPT ![c] = @ - p, ![r] = @ + p]
              /\ table' = [table EXCEPT ![tool_row].card = r] /\ tool_row' = tool_row + 1
            BY <2>5 DEF ToolLog
        <3>2. Row \in TableRow /\ tool_row \in 1 .. Len(table) /\ r \notin {0, c} /\ Row = table[tool_row]
            BY <2>0, <3>1 DEF Row
        <3>3. c \in Nics /\ p \in Nat /\ r \in Nics /\ r # c
            BY <3>2, BillingAssumption DEF TableRow, Nics
        <3>4. /\ table' \in Seq(TableRow) /\ Len(table') = Len(table)
              /\ \A n : SumFunctionOnSet(Prices(table'), RowsOf(table', n)) =
                        SumFunctionOnSet(Prices(table), RowsOf(table, n))
                        + (IF n = r THEN p ELSE IF n = c THEN 0 - p ELSE 0)
            <4>. HIDE DEF r
            <4>1. r # table[tool_row].card /\ p = table[tool_row].price /\ c = table[tool_row].card
                BY <3>2, <3>3
            <4>. HIDE DEF c, p
            <4>2. table' = [table EXCEPT ![tool_row].card = r]
                BY <3>1
            <4>3. /\ table' \in Seq(TableRow) /\ Len(table') = Len(table)
                  /\ \A n : SumFunctionOnSet(Prices(table'), RowsOf(table', n)) =
                            SumFunctionOnSet(Prices(table), RowsOf(table, n))
                            + (IF n = r THEN table[tool_row].price
                               ELSE IF n = table[tool_row].card THEN 0 - table[tool_row].price ELSE 0)
                <5>1. MovedTo(PutRight(table, tool_row, r), table, tool_row, r)
                    BY <2>0, <3>2, <3>3, <4>1, RowMoves
                <5>2. table' = PutRight(table, tool_row, r)
                    BY <4>2 DEF PutRight
                <5>3. MovedTo(table', table, tool_row, r)
                    BY <5>1, <5>2
                <5>. QED  BY <5>3 DEF MovedTo
            <4>. QED  BY <4>1, <4>3
        <3>5. \A n : InTable(n)' = InTable(n) + (IF n = r THEN p ELSE IF n = c THEN 0 - p ELSE 0)
                     /\ InTable(n) \in Nat /\ InTable(n)' \in Nat
            <4>0. (table \in Seq(TableRow) =>
                        \A n : /\ InTable(n) = SumFunctionOnSet(Prices(table), RowsOf(table, n))
                               /\ InTable(n) \in Nat)'
                BY InTableIsSum, PTL
            <4>1. \A n : InTable(n)' = SumFunctionOnSet(Prices(table'), RowsOf(table', n)) /\ InTable(n)' \in Nat
                BY <3>4, <4>0
            <4>2. \A n : InTable(n) = SumFunctionOnSet(Prices(table), RowsOf(table, n)) /\ InTable(n) \in Nat
                BY <2>0, InTableIsSum
            <4>. QED  BY <3>4, <4>1, <4>2
        <3>. HIDE DEF c, r, p
        <3>6. /\ DOMAIN tlog' = Nics
              /\ \A n \in Nics : tlog'[n] = tlog[n] + (IF n = r THEN p ELSE IF n = c THEN 0 - p ELSE 0)
            BY <2>0, <3>1, <3>3
        <3>7. \A n \in Nics : tlog'[n] \in Nat /\ InTable(n)' <= tlog'[n]
            <4>. TAKE n \in Nics
            <4>1. InTable(n) <= tlog[n] /\ tlog[n] \in Nat
                BY <2>0 DEF RowsAreIn
            <4>. QED  BY <4>1, <3>3, <3>5, <3>6
        <3>8. tlog' \in [Nics -> Nat] /\ RowsAreIn'
            BY <2>0, <3>1, <3>6, <3>7 DEF RowsAreIn
        <3>9. tool_row' \in 1 .. (Len(table') + 1)
            BY <2>0, <3>1, <3>2, <3>4
        <3>. QED  BY <2>0, <3>1, <3>4, <3>8, <3>9 DEF ToolTypes
    <2>6. CASE ToolEnd
        <3>1. UNCHANGED <<table, tool_row, corrected, tlog>> /\ tool' = "off" /\ halfway' \in BOOLEAN
            BY <2>0, <2>6 DEF ToolEnd
        <3>. QED  BY <2>0, <3>1, RowsStay DEF ToolTypes
    <2>. QED  BY <1>6, <2>1, <2>2, <2>3, <2>4, <2>5, <2>6 DEF Tool
<1>. QED  BY <1>2, <1>3, <1>4, <1>5, <1>6 DEF Next

(* The types hold after every step *)
LEMMA TypesKept == Types /\ [Next]_vars => Types'
<1>1. ASSUME Types, Next PROVE Types'
    BY <1>1, DbTypesKept, FilterTypesKept, LoggerTypesKept, DayTypesKept, ToolTypesKept DEF Types
<1>2. ASSUME Types, UNCHANGED vars PROVE Types'
    <2>. USE <1>2 DEF Types, vars
    <2>1. DbTypes'
        BY DEF DbTypes, dbVars, bookVars, boundVars, toolVars
    <2>2. FilterTypes'
        BY DEF FilterTypes, filterVars
    <2>3. LoggerTypes'
        <3>1. First' = First
            BY DEF First, loggerVars
        <3>2. ListsTaxed'
            BY DEF LoggerTypes, ListsTaxed, Taxable, Billing, loggerVars, listVars
        <3>. QED  BY <3>1, <3>2 DEF LoggerTypes, loggerVars, listVars
    <2>4. DayTypes'
        BY DEF DayTypes, Days, dayVars, eodVars, clockVars, boundVars
    <2>5. ToolTypes'
        <3>1. RowsAreIn'
            BY RowsStay DEF ToolTypes, toolVars, dbVars
        <3>. QED  BY <3>1 DEF ToolTypes, toolVars, dbVars, Row
    <2>. QED  BY <2>1, <2>2, <2>3, <2>4, <2>5
<1>. QED  BY <1>1, <1>2

----------------------------------------------------------------------------
(* A restart of the logger is what makes the count of swaps start again     *)
LEMMA InitFollows == Init => ListsFollow /\ PeriodFollows /\ DayFollows
<1>. SUFFICES ASSUME Init PROVE ListsFollow /\ PeriodFollows /\ DayFollows
    OBVIOUS
<1>1. ListsFollow
    BY DEF Init, ListsFollow
<1>2. PeriodFollows
    BY DEF Init, PeriodFollows, PeriodIsBillable, NoPkt
<1>3. DayFollows
    <2>0. setup.days \in Nat \ {0} /\ DayTax \in [Accounts -> Nat]
        BY BillingAssumption DEF Init
    <2>1. /\ today = 1 /\ log_t_tm = 0 /\ log_t_time = 0 /\ changes = {} /\ opened = {} /\ eod_day = 0
          /\ eod = "start" /\ pc = "taxes" /\ skipped = {}
        BY DEF Init
    <2>2. \A a \in Accounts, d \in Days : payments[a][d] = 0 /\ spurious[d] = 0
        BY DEF Init, Days
    <2>3. DatesFollow
        BY <2>0, <2>1 DEF DatesFollow
    <2>4. ClockFollows /\ DuesFollow
        BY <2>1 DEF ClockFollows, DuesFollow
    <2>5. RoundsFollow
        <3>1. \A a \in Accounts, d \in Days : ToCome(a, d) = 0 /\ Rounds(d) = 0 /\ DayTax[a] \in Nat
            BY <2>0, <2>1, <2>2 DEF ToCome, Rounds
        <3>. QED  BY <2>2, <3>1 DEF RoundsFollow
    <2>. QED  BY <2>1, <2>3, <2>4, <2>5 DEF DayFollows
<1>. QED  BY <1>1, <1>2, <1>3

(* Which lists a step leaves the logger and the filter with *)
LEMMA ListsKept == Types /\ ListsFollow /\ [Next]_vars => ListsFollow'
<1>. SUFFICES ASSUME Types, ListsFollow, [Next]_vars PROVE ListsFollow'
    OBVIOUS
<1>. USE DEF ListsFollow
<1>0. DbTypes /\ FilterTypes /\ LoggerTypes /\ swaps \in 0 .. 2 /\ crashes \in Nat
    BY DEF Types, DbTypes, LoggerTypes
<1>1. CASE UNCHANGED <<rules, shadow, crnt_NICs, shdw_NICs, pc, swaps, crashes>>
    BY <1>1
<1>2. CASE Cycle
    <2>1. CASE ReadTaxes \/ ReadDetails \/ LoadAccount
        <3>1. UNCHANGED <<rules, shadow, crnt_NICs, shdw_NICs, swaps, crashes>>
              /\ pc \notin {"nics", "swap"} /\ pc' \notin {"nics", "swap"}
            BY <2>1 DEF ReadTaxes, LoadTaxes, ReadDetails, LoadDetails, LoadAccount, filterVars, listVars,
                boundVars
        <3>. QED  BY <3>1
    <2>2. CASE AccountsEnd \/ NicsEnd
        <3>1. /\ UNCHANGED <<rules, shadow, crnt_NICs, swaps, crashes>> /\ pc' = "nics"
              /\ \/ pc = "accounts" /\ shdw_NICs' = {}
                 \/ pc = "nics" /\ shdw_NICs' = shdw_NICs
            BY <2>2 DEF AccountsEnd, NicsEnd, filterVars, listVars
        <3>. QED  BY <3>1
    <2>3. CASE LoadNic
        <3>1. /\ UNCHANGED <<rules, crnt_NICs, swaps, crashes, pc>> /\ pc = "nics"
              /\ \/ UNCHANGED <<shdw_NICs, shadow>>
                 \/ shdw_NICs' = shdw_NICs \cup {row} /\ shadow' \subseteq shadow \cup {row}
            BY <2>3 DEF LoadNic, AddNic, boundVars
        <3>. QED  BY <3>1
    <2>4. CASE SwapLog
        BY <2>4 DEF SwapLog, listVars, boundVars
    <2>5. CASE SwapRules
        <3>1. /\ pc = "swap" /\ rules' = shadow /\ shadow' = {} /\ crnt_NICs' = shdw_NICs /\ crashes' = crashes
              /\ swaps' = IF swaps < 2 THEN swaps + 1 ELSE 2
            BY <2>5 DEF SwapRules, CrntAfterSwap, boundVars
        <3>. QED  BY <1>0, <3>1
    <2>6. CASE Table \/ Signal \/ SetTime \/ Bill \/ Charging \/ BillEnd
        <3>1. UNCHANGED <<rules, shadow, crnt_NICs, shdw_NICs, swaps, crashes>> /\ pc \notin {"nics", "swap"}
            BY <2>6 DEF Table, Signal, SetTime, Bill, Charging, Charge, BillEnd, filterVars, listVars, boundVars
        <3>. QED  BY <3>1
    <2>. QED  BY <1>2, <2>1, <2>2, <2>3, <2>4, <2>5, <2>6 DEF Cycle, ReadTaxes, ReadDetails, Charging
<1>3. CASE EndOfDayThread
    BY <1>1, <1>3 DEF EndOfDayThread, EodStart, EodWake, EodDate, Taxing, EodTax, Paying, EodPay, EodSkip,
        EodEnd,
                      filterVars, loggerVars, listVars, boundVars
<1>4. ASSUME NEW t \in Threads, Store(t) PROVE ListsFollow'
    BY <1>1, <1>4 DEF Store, loggerVars, listVars, boundVars
<1>5. CASE Others
    <2>1. CASE Restart
        <3>1. swaps' = 0 /\ crashes' = crashes + 1
            BY <2>1 DEF Restart
        <3>. QED  BY <1>0, <3>1
    <2>2. CASE Midnight \/ NewTariff \/ EodSpurious
        BY <1>1, <2>2 DEF Midnight, NewTariff, EodSpurious, filterVars, loggerVars, listVars, boundVars
    <2>3. ASSUME NEW t \in Threads, NEW n \in Nics, NEW h \in setup.hosts, Match(t, n, h) PROVE ListsFollow'
        BY <1>1, <2>3 DEF Match, filterVars, loggerVars, listVars
    <2>4. ASSUME NEW a \in Accounts, Pay(a) PROVE ListsFollow'
        BY <1>1, <2>4 DEF Pay, filterVars, loggerVars, listVars
    <2>5. ASSUME NEW n \in Nics, Switch(n) PROVE ListsFollow'
        BY <1>1, <2>5 DEF Switch, filterVars, loggerVars, listVars
    <2>. QED  BY <1>5, <2>1, <2>2, <2>3, <2>4, <2>5 DEF Others
<1>6. CASE Tool
    BY <1>1, <1>6 DEF Tool, filterVars, loggerVars, listVars, boundVars
<1>7. CASE UNCHANGED vars
    BY <1>1, <1>7 DEF vars, filterVars, loggerVars, listVars, boundVars
<1>. QED  BY <1>2, <1>3, <1>4, <1>5, <1>6, <1>7 DEF Next

(* Which packets a step leaves in the threads, the log and the logger's log *)
LEMMA PeriodKept == Types /\ ListsFollow /\ PeriodFollows /\ [Next]_vars => PeriodFollows'
<1>. SUFFICES ASSUME Types, ListsFollow, PeriodFollows, [Next]_vars PROVE PeriodFollows'
    OBVIOUS
<1>. USE DEF PeriodFollows, PeriodIsBillable
<1>0. FilterTypes /\ LoggerTypes /\ swaps \in 0 .. 2
    BY DEF Types, LoggerTypes
<1>1. CASE UNCHANGED <<rules, law, log, pkt, shdw_NICs, crnt_taxes, shdw_taxes, captured_log, captured_law, pc, swaps>>
    BY <1>1
<1>2. CASE Cycle
    <2>1. CASE ReadTaxes \/ ReadDetails \/ LoadAccount
        <3>1. /\ UNCHANGED <<rules, law, log, pkt, crnt_taxes, swaps>>
              /\ pc' \notin {"swap", "table", "signal", "time", "bill", "charge"}
            BY <2>1 DEF ReadTaxes, LoadTaxes, ReadDetails, LoadDetails, LoadAccount, filterVars, listVars
        <3>. QED  BY <3>1
    <2>3. CASE AccountsEnd \/ LoadNic \/ NicsEnd
        <3>1. UNCHANGED <<rules, law, log, pkt, crnt_taxes, swaps>> /\ pc' = "nics"
            BY <2>3 DEF AccountsEnd, LoadNic, NicsEnd, filterVars, listVars
        <3>. QED  BY <3>1
    <2>4. CASE SwapLog
        <3>1. /\ UNCHANGED <<rules, law, pkt, crnt_taxes, swaps>> /\ pc' = "swap" /\ log' = <<>>
              /\ captured_log' = log /\ captured_law' = law
            BY <2>4 DEF SwapLog, listVars
        <3>. QED  BY <3>1
    <2>5. CASE SwapRules
        <3>1. /\ pc = "swap" /\ pc' = "table" /\ UNCHANGED <<captured_log, captured_law>>
              /\ law' = shdw_taxes /\ crnt_taxes' = shdw_taxes /\ shdw_taxes' = crnt_taxes
              /\ shdw_NICs' = crnt_NICs /\ log' = Outdated /\ pkt' = OutdatedPkts
            BY <2>5 DEF SwapRules, ShdwAfterSwap
        <3>2. (\A k \in DOMAIN log' : log'[k].stale) /\ (\A t \in Threads : pkt'[t].card # 0 => pkt'[t].stale)
            BY <1>0, <3>1, OutdatedTyped
        <3>3. \A k \in DOMAIN captured_log : ~captured_log[k].stale =>
                  swaps = 2 /\ captured_log[k].card \in rules /\ captured_law = law
            BY <3>1
        <3>4. swaps = 2 => rules \subseteq crnt_NICs /\ law = crnt_taxes
            BY DEF ListsFollow
        <3>. QED  BY <3>1, <3>2, <3>3, <3>4
    <2>6. CASE Bill \/ Charging
        <3>1. /\ UNCHANGED <<rules, law, log, pkt, shdw_NICs, crnt_taxes, shdw_taxes, captured_law, swaps>>
              /\ pc \in {"bill", "charge"} /\ pc' \in {"bill", "charge"}
              /\ captured_log' \in {captured_log, OtherSessions}
            BY <2>6 DEF Bill, Charging, Charge, filterVars, listVars
        <3>2. DOMAIN OtherSessions \subseteq DOMAIN captured_log
              /\ \A k \in DOMAIN OtherSessions : OtherSessions[k] = captured_log[k]
            BY DEF OtherSessions, Restrict
        <3>3. \A k \in DOMAIN captured_log' : k \in DOMAIN captured_log /\ captured_log'[k] = captured_log[k]
            BY <3>1, <3>2
        <3>. QED  BY <3>1, <3>3
    <2>7. CASE Table \/ Signal \/ SetTime \/ BillEnd
        <3>1. /\ UNCHANGED <<rules, law, log, pkt, shdw_NICs, crnt_taxes, shdw_taxes, captured_log, captured_law, swaps>>
              /\ pc \in {"table", "signal", "time", "bill"} /\ pc' # "swap"
            BY <2>7 DEF Table, Signal, SetTime, BillEnd, filterVars, listVars
        <3>. QED  BY <3>1
    <2>. QED  BY <1>2, <2>1, <2>3, <2>4, <2>5, <2>6, <2>7 DEF Cycle, ReadTaxes, ReadDetails, Charging
<1>3. CASE EndOfDayThread
    BY <1>1, <1>3 DEF EndOfDayThread, EodStart, EodWake, EodDate, Taxing, EodTax, Paying, EodPay, EodSkip,
        EodEnd,
                      filterVars, loggerVars, listVars
<1>4. ASSUME NEW t \in Threads, Store(t) PROVE PeriodFollows'
    <2>1. /\ UNCHANGED <<rules, law, shdw_NICs, crnt_taxes, shdw_taxes, captured_log, captured_law, pc, swaps>>
          /\ pkt[t].card # 0 /\ (log' = log \/ log' = Append(log, pkt[t]))
          /\ pkt' = [pkt EXCEPT ![t] = NoPkt]
        BY <1>4 DEF Store, loggerVars, listVars
    <2>2. \A s \in Threads : pkt'[s] = IF s = t THEN NoPkt ELSE pkt[s]
        BY <1>0, <2>1 DEF FilterTypes
    <2>3. \A k \in DOMAIN log' : ~log'[k].stale => swaps = 2 /\ log'[k].card \in rules
        <3>1. log \in Seq(Logged) /\ pkt[t] \in Logged
            BY <1>0, <2>1 DEF FilterTypes, NoPkt
        <3>2. \A k \in DOMAIN log' : log'[k] = pkt[t] \/ (k \in DOMAIN log /\ log'[k] = log[k])
            BY <2>1, <3>1
        <3>. QED  BY <2>1, <3>2
    <2>. QED  BY <2>1, <2>2, <2>3 DEF NoPkt
<1>5. CASE Others
    <2>1. CASE Restart
        <3>1. swaps' = 0 /\ pc' = "taxes" /\ log' = Outdated /\ pkt' = OutdatedPkts
            BY <2>1 DEF Restart
        <3>2. (\A k \in DOMAIN log' : log'[k].stale) /\ (\A t \in Threads : pkt'[t].card # 0 => pkt'[t].stale)
            BY <1>0, <3>1, OutdatedTyped
        <3>. QED  BY <3>1, <3>2
    <2>2. CASE Midnight \/ NewTariff \/ EodSpurious
        BY <1>1, <2>2 DEF Midnight, NewTariff, EodSpurious, filterVars, loggerVars, listVars
    <2>3. ASSUME NEW t \in Threads, NEW n \in Nics, NEW h \in setup.hosts, Match(t, n, h) PROVE PeriodFollows'
        <3>1. /\ UNCHANGED <<rules, law, log, shdw_NICs, crnt_taxes, shdw_taxes, captured_log, captured_law, pc, swaps>>
              /\ n \in rules /\ pkt' = [pkt EXCEPT ![t] = [card |-> n, host |-> h, stale |-> swaps < 2]]
            BY <2>3 DEF Match, filterVars, loggerVars, listVars
        <3>2. \A s \in Threads : pkt'[s] = IF s = t THEN [card |-> n, host |-> h, stale |-> swaps < 2] ELSE pkt[s]
            BY <1>0, <3>1 DEF FilterTypes
        <3>3. \A s \in Threads : pkt'[s].card # 0 /\ ~pkt'[s].stale => swaps = 2 /\ pkt'[s].card \in rules
            <4>. TAKE s \in Threads
            <4>1. CASE s # t
                BY <3>1, <3>2, <4>1
            <4>2. CASE s = t
                <5>. DEFINE new == [card |-> n, host |-> h, stale |-> swaps < 2]
                <5>1. new.card = n /\ new.stale = (swaps < 2)
                    OBVIOUS
                <5>2. pkt'[s] = new
                    BY <3>2, <4>2
                <5>. HIDE DEF new
                <5>3. ~pkt'[s].stale => swaps = 2
                    <6>1. pkt'[s].stale = (swaps < 2)
                        BY <5>1, <5>2, Zenon
                    <6>2. ~(swaps < 2) => swaps = 2
                        BY <1>0
                    <6>. QED  BY <6>1, <6>2, Zenon
                <5>. QED  BY <3>1, <5>1, <5>2, <5>3
            <4>. QED  BY <4>1, <4>2
        <3>. QED  BY <3>1, <3>3
    <2>4. ASSUME NEW a \in Accounts, Pay(a) PROVE PeriodFollows'
        BY <1>1, <2>4 DEF Pay, filterVars, loggerVars, listVars
    <2>5. ASSUME NEW n \in Nics, Switch(n) PROVE PeriodFollows'
        BY <1>1, <2>5 DEF Switch, filterVars, loggerVars, listVars
    <2>. QED  BY <1>5, <2>1, <2>2, <2>3, <2>4, <2>5 DEF Others
<1>6. CASE Tool
    BY <1>1, <1>6 DEF Tool, filterVars, loggerVars, listVars
<1>7. CASE UNCHANGED vars
    BY <1>1, <1>7 DEF vars, filterVars, loggerVars, listVars
<1>. QED  BY <1>2, <1>3, <1>4, <1>5, <1>6, <1>7 DEF Next

(* What a step does to the days *)
DayUntouched == UNCHANGED <<payments, log_t_tm, log_t_time, changes, opened, today, late>>
EodUntouched == UNCHANGED <<eod, todo, eod_day, pay_date, skipped, spurious>>
PlaceUntouched == (pc' = "signal" <=> pc = "signal") /\ (pc' = "time" <=> pc = "time")

Elsewhere == DayUntouched /\ EodUntouched /\ PlaceUntouched /\ crashes' = crashes
NewTable ==
    /\ EodUntouched /\ UNCHANGED <<payments, log_t_time, today, late, crashes>>
    /\ pc = "table" /\ today # log_t_tm
    /\ log_t_tm' = today /\ opened' = opened \cup {today}
    /\ changes' = IF log_t_tm = 0 THEN changes ELSE changes \cup {today}
    /\ pc' = IF log_t_time # 0 THEN "signal" ELSE "time"
Signalled ==
    /\ DayUntouched /\ UNCHANGED <<todo, eod_day, pay_date, skipped, spurious, crashes>>
    /\ pc = "signal" /\ pc' = "time" /\ eod \in {"start", "wait", "woken", "stirred"}
    /\ eod' = IF eod = "wait" THEN "woken" ELSE eod
TimeIsSet ==
    /\ EodUntouched /\ UNCHANGED <<payments, log_t_tm, changes, opened, today, late, crashes>>
    /\ pc = "time" /\ pc' = "bill" /\ log_t_time' = log_t_tm
Waits ==
    /\ DayUntouched /\ PlaceUntouched /\ UNCHANGED <<todo, skipped, spurious, crashes>>
    /\ eod' = "wait"
    /\ \/ eod = "start" /\ UNCHANGED <<eod_day, pay_date>>
       \/ eod = "tax" /\ todo = {} /\ eod_day' = 0 /\ pay_date' = 0
Stirs ==
    /\ DayUntouched /\ PlaceUntouched /\ UNCHANGED <<todo, eod_day, pay_date, skipped, spurious, crashes>>
    /\ eod = "wait" /\ eod' = "stirred"
Wakes ==
    /\ DayUntouched /\ PlaceUntouched /\ UNCHANGED <<todo, pay_date, skipped, crashes>>
    /\ eod \in {"woken", "stirred"} /\ eod' = "date" /\ eod_day' = log_t_tm
    /\ spurious' = IF eod = "stirred" THEN [spurious EXCEPT ![log_t_tm] = @ + 1] ELSE spurious
Dates ==
    /\ DayUntouched /\ PlaceUntouched /\ UNCHANGED <<eod_day, skipped, spurious, crashes>>
    /\ eod = "date" /\ eod' = "tax" /\ pay_date' = log_t_time /\ todo' = {a \in Accounts : DayTax[a] # 0}
Taxes ==
    /\ DayUntouched /\ PlaceUntouched /\ UNCHANGED <<todo, eod_day, pay_date, skipped, spurious, crashes>>
    /\ eod = "tax" /\ eod' = "pay"
Pays ==
    /\ PlaceUntouched
    /\ UNCHANGED <<log_t_tm, log_t_time, changes, opened, today, late, eod_day, pay_date, skipped, spurious, crashes>>
    /\ eod = "pay" /\ eod' = "tax" /\ Taxed \in todo /\ todo' = todo \ {Taxed}
    /\ payments' = [payments EXCEPT ![Taxed] = [payments[Taxed] EXCEPT ![eod_day] = @ + DayTax[Taxed]]]
Skips ==
    /\ DayUntouched /\ PlaceUntouched /\ UNCHANGED <<eod_day, pay_date, spurious, crashes>>
    /\ eod \in {"tax", "pay"} /\ eod' = "tax" /\ todo' \subseteq todo /\ skipped' = skipped \cup (todo \ todo')
    /\ fails' # 0
DayBegins ==
    /\ EodUntouched /\ PlaceUntouched /\ UNCHANGED <<payments, log_t_tm, log_t_time, changes, opened, crashes>>
    /\ today' = today + 1 /\ late' = (late \/ eod # "wait" \/ pc = "signal")
Restarts ==
    /\ UNCHANGED <<payments, changes, opened, today, late, skipped, spurious>> /\ crashes' = crashes + 1
    /\ pc' = "taxes" /\ log_t_tm' = 0 /\ log_t_time' = 0
    /\ eod' = "start" /\ todo' = {} /\ eod_day' = 0 /\ pay_date' = 0

DayStep ==
    \/ Elsewhere \/ NewTable \/ Signalled \/ TimeIsSet \/ Waits \/ Stirs \/ Wakes \/ Dates \/ Taxes \/ Pays
    \/ Skips \/ DayBegins \/ Restarts
FailsGrow == fails' \in Nat /\ fails <= fails'

(* Every step is one of these for the days, and no failure is forgotten.    *)
LEMMA DaySteps == Types /\ [Next]_vars => DayStep /\ FailsGrow
<1>. SUFFICES ASSUME Types, [Next]_vars PROVE DayStep /\ FailsGrow
    OBVIOUS
<1>0. DbTypes /\ DayTypes /\ fails \in Nat
    BY DEF Types, DbTypes
<1>1. ASSUME UNCHANGED <<dayVars, eodVars, clockVars, payments, crashes>>, PlaceUntouched PROVE Elsewhere
    BY <1>1 DEF Elsewhere, DayUntouched, EodUntouched, dayVars, eodVars, clockVars
<1>2. UNCHANGED fails => FailsGrow
    BY <1>0 DEF FailsGrow
<1>3. \A ok : Calls(ok) => FailsGrow
    BY <1>0, CallsCounted DEF FailsGrow
<1>4. CASE Cycle
    <2>1. CASE ReadTaxes \/ ReadDetails \/ LoadAccount \/ AccountsEnd \/ LoadNic \/ NicsEnd \/ SwapLog \/ SwapRules
        <3>1. UNCHANGED <<dayVars, eodVars, clockVars, payments, crashes>> /\ PlaceUntouched
            BY <2>1 DEF ReadTaxes, LoadTaxes, ReadDetails, LoadDetails, LoadAccount, AccountsEnd, LoadNic,
                NicsEnd,
                SwapLog, SwapRules, PlaceUntouched, dbVars, boundVars
        <3>2. FailsGrow
            BY <1>2, <1>3, <2>1 DEF ReadTaxes, LoadTaxes, ReadDetails, LoadDetails, LoadAccount, AccountsEnd,
                LoadNic,
                NicsEnd, SwapLog, SwapRules, boundVars
        <3>. QED  BY <1>1, <3>1, <3>2 DEF DayStep
    <2>2. CASE Bill \/ Charging \/ BillEnd
        <3>1. UNCHANGED <<dayVars, eodVars, clockVars, payments, crashes>> /\ PlaceUntouched
            BY <2>2 DEF Bill, Charging, Charge, BillEnd, PlaceUntouched, dbVars, boundVars
        <3>2. FailsGrow
            BY <1>2, <1>3, <2>2 DEF Bill, Charging, Charge, BillEnd, boundVars
        <3>. QED  BY <1>1, <3>1, <3>2 DEF DayStep
    <2>3. CASE Table
        <3>1. FailsGrow
            BY <1>2, <2>3 DEF Table, boundVars
        <3>2. CASE today = log_t_tm
            <4>1. UNCHANGED <<dayVars, eodVars, clockVars, payments, crashes>> /\ PlaceUntouched
                BY <2>3, <3>2 DEF Table, PlaceUntouched, dayVars, dbVars, boundVars
            <4>. QED  BY <1>1, <3>1, <4>1 DEF DayStep
        <3>3. CASE today # log_t_tm
            <4>1. NewTable
                BY <2>3, <3>3 DEF Table, NewTable, EndOfDay, EodUntouched, eodVars, clockVars, dbVars, boundVars
            <4>. QED  BY <3>1, <4>1 DEF DayStep
        <3>. QED  BY <3>2, <3>3
    <2>4. CASE Signal
        <3>1. Signalled
            BY <1>0, <2>4 DEF Signal, EODMutexFree, Signalled, DayUntouched, DayTypes, dayVars, clockVars,
                dbVars, boundVars
        <3>2. FailsGrow
            BY <1>2, <2>4 DEF Signal, boundVars
        <3>. QED  BY <3>1, <3>2 DEF DayStep
    <2>5. CASE SetTime
        <3>1. TimeIsSet
            BY <2>5 DEF SetTime, TimeIsSet, EodUntouched, eodVars, clockVars, dbVars, boundVars
        <3>2. FailsGrow
            BY <1>2, <2>5 DEF SetTime, boundVars
        <3>. QED  BY <3>1, <3>2 DEF DayStep
    <2>. QED  BY <1>4, <2>1, <2>2, <2>3, <2>4, <2>5 DEF Cycle, ReadTaxes, ReadDetails, Charging
<1>5. CASE EndOfDayThread
    <2>0. UNCHANGED <<dayVars, clockVars, crashes, pc>>
        BY <1>5 DEF EndOfDayThread, EodStart, EodWake, EodDate, EodTax, EodPay, EodSkip, EodEnd, boundVars,
            loggerVars
    <2>1. /\ UNCHANGED <<log_t_tm, log_t_time, changes, opened, today, late, crashes>> /\ PlaceUntouched
          /\ (payments' = payments => DayUntouched)
        BY <2>0 DEF dayVars, clockVars, DayUntouched, PlaceUntouched
    <2>2. CASE EodStart \/ EodEnd
        <3>1. FailsGrow /\ payments' = payments
            BY <1>2, <2>2 DEF EodStart, EodEnd, boundVars, dbVars
        <3>2. Waits
            BY <2>1, <2>2, <3>1 DEF EodStart, EodEnd, Waits
        <3>. QED  BY <3>1, <3>2 DEF DayStep
    <2>3. CASE EodWake
        <3>1. FailsGrow /\ payments' = payments
            BY <1>2, <2>3 DEF EodWake, boundVars, dbVars
        <3>2. Wakes
            BY <2>1, <2>3, <3>1 DEF EodWake, Wakes
        <3>. QED  BY <3>1, <3>2 DEF DayStep
    <2>4. CASE EodDate
        <3>1. FailsGrow /\ payments' = payments
            BY <1>2, <2>4 DEF EodDate, boundVars, dbVars
        <3>2. Dates
            BY <2>1, <2>4, <3>1 DEF EodDate, Dates
        <3>. QED  BY <3>1, <3>2 DEF DayStep
    <2>5. CASE Taxing
        <3>1. FailsGrow /\ payments' = payments
            BY <1>3, <2>5 DEF Taxing, EodTax
        <3>2. Taxes
            BY <2>1, <2>5, <3>1 DEF Taxing, EodTax, Taxes
        <3>. QED  BY <3>1, <3>2 DEF DayStep
    <2>6. CASE Paying
        <3>1. PICK ok \in BOOLEAN : EodPay(ok)
            BY <2>6 DEF Paying
        <3>2. FailsGrow
            BY <1>3, <3>1 DEF EodPay
        <3>3. Taxed \in todo
            BY <1>0, <3>1, TaxedIn DEF EodPay, DayTypes
        <3>4. CASE ok
            <4>1. Pays
                BY <2>1, <3>1, <3>3, <3>4 DEF EodPay, Pays
            <4>. QED  BY <3>2, <4>1 DEF DayStep
        <3>5. CASE ~ok
            <4>1. payments' = payments /\ todo' = todo \ {Taxed} /\ skipped' = skipped \cup (todo \ todo')
                BY <3>1, <3>3, <3>5 DEF EodPay
            <4>2. fails' # 0
                BY <1>0, <3>1, <3>5 DEF EodPay, Calls
            <4>3. Skips
                BY <2>1, <3>1, <3>5, <4>1, <4>2 DEF EodPay, Skips
            <4>. QED  BY <3>2, <4>3 DEF DayStep
        <3>. QED  BY <3>4, <3>5
    <2>7. CASE EodSkip
        <3>1. FailsGrow /\ payments' = payments
            BY <1>3, <2>7 DEF EodSkip, dbVars
        <3>2. fails' # 0
            BY <1>0, <2>7 DEF EodSkip, Calls
        <3>3. todo' \subseteq todo /\ skipped' = skipped \cup (todo \ todo')
            BY <2>7 DEF EodSkip
        <3>4. Skips
            BY <2>1, <2>7, <3>1, <3>2, <3>3 DEF EodSkip, Skips
        <3>. QED  BY <3>1, <3>4 DEF DayStep
    <2>. QED  BY <1>5, <2>2, <2>3, <2>4, <2>5, <2>6, <2>7 DEF EndOfDayThread, Taxing, Paying
<1>6. ASSUME NEW t \in Threads, Store(t) PROVE DayStep /\ FailsGrow
    BY <1>1, <1>2, <1>6 DEF Store, loggerVars, boundVars, dbVars, PlaceUntouched, DayStep
<1>7. CASE Others
    <2>1. CASE Restart
        <3>1. Restarts
            BY <2>1 DEF Restart, Restarts, clockVars
        <3>. QED  BY <1>2, <2>1, <3>1 DEF Restart, DayStep
    <2>2. CASE Midnight
        <3>1. DayBegins
            BY <2>2 DEF Midnight, DayBegins, EodUntouched, PlaceUntouched, dayVars, eodVars, loggerVars,
                boundVars, dbVars
        <3>. QED  BY <1>2, <2>2, <3>1 DEF Midnight, DayStep, boundVars
    <2>3. CASE EodSpurious
        <3>1. Stirs
            BY <2>3 DEF EodSpurious, Stirs, DayUntouched, PlaceUntouched, dayVars, clockVars, loggerVars,
                boundVars, dbVars
        <3>. QED  BY <1>2, <2>3, <3>1 DEF EodSpurious, DayStep, boundVars
    <2>4. CASE NewTariff
        BY <1>1, <1>2, <2>4 DEF NewTariff, loggerVars, PlaceUntouched, DayStep
    <2>5. ASSUME NEW t \in Threads, NEW n \in Nics, NEW h \in setup.hosts, Match(t, n, h) PROVE DayStep /\ FailsGrow
        BY <1>1, <1>2, <2>5 DEF Match, loggerVars, dbVars, PlaceUntouched, DayStep
    <2>6. ASSUME NEW a \in Accounts, Pay(a) PROVE DayStep /\ FailsGrow
        BY <1>1, <1>2, <2>6 DEF Pay, loggerVars, PlaceUntouched, DayStep
    <2>7. ASSUME NEW n \in Nics, Switch(n) PROVE DayStep /\ FailsGrow
        BY <1>1, <1>2, <2>7 DEF Switch, loggerVars, PlaceUntouched, DayStep
    <2>. QED  BY <1>7, <2>1, <2>2, <2>3, <2>4, <2>5, <2>6, <2>7 DEF Others
<1>8. CASE Tool
    BY <1>1, <1>2, <1>8 DEF Tool, loggerVars, boundVars, PlaceUntouched, DayStep
<1>9. CASE UNCHANGED vars
    BY <1>1, <1>2, <1>9 DEF vars, loggerVars, boundVars, dbVars, PlaceUntouched, DayStep
<1>. QED  BY <1>4, <1>5, <1>6, <1>7, <1>8, <1>9 DEF Next

(* The days of a behaviour, and the day of the clock is one of them *)
DaysAreTyped ==
    /\ today \in Nat \ {0} /\ log_t_tm \in Nat /\ log_t_time \in Nat /\ eod_day \in Nat /\ crashes \in Nat
    /\ opened \subseteq Nat \ {0} /\ IsFiniteSet(opened) /\ changes \subseteq opened
    /\ Days \subseteq Nat /\ opened \subseteq Days /\ log_t_tm \in Days /\ eod_day \in Days /\ today \in Days
    /\ setup.days \in Nat

(* The days are numbers, and finitely many tables were opened.              *)
LEMMA DaysAre == Types => DaysAreTyped
<1>. SUFFICES ASSUME Types PROVE DaysAreTyped
    OBVIOUS
<1>1. setup.days \in Nat \ {0}
    BY BillingAssumption DEF Types, DbTypes
<1>2. IsFiniteSet(1 .. setup.days) /\ opened \in SUBSET (1 .. setup.days)
    <2>1. IsFiniteSet(1 .. setup.days)
        BY <1>1, FS_Interval
    <2>. QED  BY <2>1 DEF Types, DayTypes
<1>3. IsFiniteSet(opened)
    BY <1>2, FS_Subset
<1>. QED  BY <1>1, <1>2, <1>3 DEF Types, DbTypes, DayTypes, DaysAreTyped, Days

(* The last day before d whose table was opened, of the tables S *)
LastBefore(S, d) == Max({o \in S \cup {0} : o < d} \cup {0})

(* The last table before d is the one of m, if none is between them.        *)
LEMMA LastIs ==
    ASSUME NEW S, S \subseteq Nat, IsFiniteSet(S), NEW d \in Nat, NEW m \in Nat, m \in S \cup {0}, m < d,
           \A o \in S : o < d => o <= m
    PROVE  LastBefore(S, d) = m
<1>. DEFINE T == {o \in S \cup {0} : o < d} \cup {0}
<1>1. T \in SUBSET Int /\ T # {} /\ m \in T /\ \A o \in T : o <= m
    <2>1. \A o \in T : o \in Nat /\ o <= m
        OBVIOUS
    <2>2. m \in T
        OBVIOUS
    <2>. HIDE DEF T
    <2>. QED  BY <2>1, <2>2
<1>2. IsFiniteSet(T)
    <2>1. IsFiniteSet(S \cup {0})
        BY FS_AddElement
    <2>2. T \in SUBSET (S \cup {0})
        OBVIOUS
    <2>. QED  BY <2>1, <2>2, FS_Subset
<1>3. Max(T) \in T /\ \A y \in T : Max(T) >= y
    <2>. HIDE DEF T
    <2>. QED  BY <1>1, <1>2, MaxIn
<1>4. Max(T) = m
    <2>. HIDE DEF T
    <2>1. Max(T) \in Int /\ m \in Int /\ Max(T) <= m /\ Max(T) >= m
        BY <1>1, <1>3
    <2>. QED  BY <2>1
<1>. QED  BY <1>4 DEF LastBefore

(* A table opened later does not change what was before a day.              *)
LEMMA LastStays ==
    ASSUME NEW S, NEW d \in Nat, NEW x \in Nat, d <= x
    PROVE  LastBefore(S \cup {x}, d) = LastBefore(S, d)
<1>1. {o \in (S \cup {x}) \cup {0} : o < d} = {o \in S \cup {0} : o < d}
    OBVIOUS
<1>. QED  BY <1>1 DEF LastBefore

(* The dates of tables and payments *)
DatedIn(S, d, c) == {d, LastBefore(S, d)} \cup (IF c = 0 THEN {} ELSE {0})

(* Where a step leaves the clock, the tables and the dates *)
LEMMA DatesKept == Types /\ DatesFollow /\ DayStep => DatesFollow'
<1>. SUFFICES ASSUME Types, DatesFollow, DayStep PROVE DatesFollow'
    OBVIOUS
<1>0. DaysAreTyped
    BY DaysAre
<1>. USE DEF DaysAreTyped
<1>1. \A d : DatedAs(d) = DatedIn(opened, d, crashes)
    BY DEF DatedAs, DatedIn, Before, LastBefore
<1>2. /\ DatedAs(log_t_tm)' = DatedIn(opened', log_t_tm', crashes')
      /\ DatedAs(eod_day)' = DatedIn(opened', eod_day', crashes')
    BY DEF DatedAs, DatedIn, Before, LastBefore
<1>. HIDE DEF DaysAreTyped
<1>3. CASE Elsewhere \/ Signalled \/ Waits \/ Stirs \/ Taxes \/ Pays \/ Skips
    <2>1. /\ UNCHANGED <<log_t_tm, log_t_time, opened, today, crashes>>
          /\ pc' \in {"signal", "time"} <=> pc \in {"signal", "time"}
          /\ pc' = "time" => pc = "time" \/ Signalled
          /\ eod_day' \in {eod_day, 0} /\ (eod' = "woken" => eod = "woken" \/ pc = "signal")
          /\ eod' = "date" => eod = "date" /\ ~Signalled /\ eod_day' = eod_day
          /\ eod' \in {"tax", "pay"} => eod \in {"tax", "pay"} /\ eod_day' = eod_day /\ pay_date' = pay_date
        BY <1>3 DEF Elsewhere, Signalled, Waits, Stirs, Taxes, Pays, Skips, DayUntouched, EodUntouched,
            PlaceUntouched
    <2>2. eod_day' <= log_t_tm'
        BY <1>0, <2>1 DEF DatesFollow, DaysAreTyped
    <2>. HIDE DEF DatedIn
    <2>. QED  BY <1>1, <1>2, <2>1, <2>2 DEF DatesFollow
<1>4. CASE NewTable
    <2>. USE DEF NewTable, EodUntouched
    <2>1. log_t_time = log_t_tm /\ log_t_tm < today /\ log_t_tm \in Nat /\ today \in Nat /\ eod_day \in Nat
          /\ eod_day <= log_t_tm
        BY <1>0, <1>4 DEF DatesFollow, DaysAreTyped
    <2>2. (log_t_tm <= today /\ \A o \in opened : o <= today)' /\ log_t_tm' # 0
        BY <1>0, <1>4, <2>1 DEF DatesFollow, DaysAreTyped
    <2>3. (log_t_tm # 0 => log_t_tm \in opened /\ \A o \in opened : o <= log_t_tm)'
        BY <1>0, <1>4, <2>1 DEF DatesFollow, DaysAreTyped
    <2>4. log_t_time' \in DatedIn(opened', log_t_tm', crashes')
        <3>1. CASE log_t_tm = 0 /\ crashes # 0
            BY <1>4, <2>1, <3>1 DEF DatedIn
        <3>2. CASE log_t_tm # 0 \/ crashes = 0
            <4>1. log_t_tm \in opened' \cup {0} /\ \A o \in opened' : o < today => o <= log_t_tm
                BY <1>0, <1>4, <2>1, <3>2 DEF DatesFollow, DaysAreTyped
            <4>2. opened' \subseteq Nat /\ IsFiniteSet(opened')
                BY <1>0, <1>4, FS_AddElement DEF DaysAreTyped
            <4>3. LastBefore(opened', today) = log_t_tm
                BY <2>1, <4>1, <4>2, LastIs
            <4>. QED  BY <1>4, <2>1, <4>3 DEF DatedIn
        <3>. QED  BY <3>1, <3>2
    <2>5. DatedIn(opened', eod_day', crashes') = DatedIn(opened, eod_day, crashes)
        <3>1. LastBefore(opened', eod_day) = LastBefore(opened, eod_day)
            BY <1>4, <2>1, LastStays
        <3>. QED  BY <1>4, <3>1 DEF DatedIn
    <2>6. eod' = "date" /\ eod_day' # 0 => pc' = "signal"
        BY <1>4, <2>1
    <2>7. (IF pc \in {"signal", "time"} THEN log_t_tm # 0 /\ log_t_time \in DatedAs(log_t_tm)
           ELSE log_t_time = log_t_tm)'
        BY <1>2, <1>4, <2>2, <2>4
    <2>8. (eod_day <= log_t_tm /\ (eod = "woken" => log_t_tm # 0))'
        BY <1>4, <2>1, <2>2
    <2>9. (eod = "date" /\ eod_day # 0 => log_t_time \in DatedAs(eod_day) /\ (pc = "time" => log_t_tm = eod_day))'
        BY <1>1, <1>2, <1>4, <2>5, <2>6 DEF DatesFollow
    <2>10. (eod \in {"tax", "pay"} /\ eod_day # 0 => pay_date \in DatedAs(eod_day))'
        BY <1>1, <1>2, <1>4, <2>5 DEF DatesFollow
    <2>. QED  BY <2>2, <2>3, <2>7, <2>8, <2>9, <2>10 DEF DatesFollow
<1>5. CASE TimeIsSet
    <2>1. /\ UNCHANGED <<log_t_tm, opened, today, crashes, eod, eod_day, pay_date>> /\ log_t_time' = log_t_tm
          /\ pc = "time" /\ pc' = "bill" /\ log_t_tm \in DatedIn(opened, log_t_tm, crashes)
        BY <1>5 DEF TimeIsSet, EodUntouched, DatedIn
    <2>. HIDE DEF DatedIn
    <2>. QED  BY <1>1, <1>2, <2>1 DEF DatesFollow
<1>6. CASE Wakes
    <2>1. /\ UNCHANGED <<log_t_tm, log_t_time, opened, today, crashes>> /\ eod' = "date" /\ eod_day' = log_t_tm
          /\ (pc' \in {"signal", "time"} <=> pc \in {"signal", "time"})
          /\ log_t_tm \in DatedIn(opened, log_t_tm, crashes)
        BY <1>6 DEF Wakes, DayUntouched, PlaceUntouched, DatedIn
    <2>2. eod_day' <= log_t_tm'
        BY <1>0, <2>1 DEF DaysAreTyped
    <2>. HIDE DEF DatedIn
    <2>. QED  BY <1>1, <1>2, <2>1, <2>2 DEF DatesFollow
<1>7. CASE Dates
    <2>1. /\ UNCHANGED <<log_t_tm, log_t_time, opened, today, crashes, eod_day>> /\ eod = "date" /\ eod' = "tax"
          /\ pay_date' = log_t_time /\ (pc' \in {"signal", "time"} <=> pc \in {"signal", "time"})
        BY <1>7 DEF Dates, DayUntouched, PlaceUntouched
    <2>. HIDE DEF DatedIn
    <2>. QED  BY <1>1, <1>2, <2>1 DEF DatesFollow
<1>8. CASE DayBegins
    <2>1. /\ UNCHANGED <<log_t_tm, log_t_time, opened, crashes, eod, eod_day, pay_date>> /\ today' = today + 1
          /\ (pc' = "time" <=> pc = "time") /\ (pc' = "signal" <=> pc = "signal")
        BY <1>8 DEF DayBegins, EodUntouched, PlaceUntouched
    <2>2. (log_t_tm <= today /\ \A o \in opened : o <= today)'
        BY <1>0, <2>1 DEF DatesFollow, DaysAreTyped
    <2>. HIDE DEF DatedIn
    <2>. QED  BY <1>1, <1>2, <2>1, <2>2 DEF DatesFollow
<1>9. CASE Restarts
    <2>1. /\ UNCHANGED <<opened, today>> /\ crashes' # 0 /\ pc' = "taxes" /\ log_t_tm' = 0 /\ log_t_time' = 0
          /\ eod' = "start" /\ eod_day' = 0
        BY <1>0, <1>9 DEF Restarts, DaysAreTyped
    <2>2. (log_t_tm <= today /\ \A o \in opened : o <= today)'
        BY <1>0, <2>1 DEF DatesFollow, DaysAreTyped
    <2>. QED  BY <2>1, <2>2 DEF DatesFollow
<1>. QED  BY <1>3, <1>4, <1>5, <1>6, <1>7, <1>8, <1>9 DEF DayStep

(* While the thread is through with a day before the next begins, the       *)
(* logger finds it waiting.                                                 *)
LEMMA ClockKept ==
    Types /\ DatesFollow /\ DayStep /\ ~late' /\ (~late => ClockFollows) => ~late /\ ClockFollows /\ ClockFollows'
<1>. SUFFICES ASSUME Types, DatesFollow, DayStep, ~late', ~late => ClockFollows
              PROVE  ~late /\ ClockFollows /\ ClockFollows'
    OBVIOUS
<1>1. ~late
    BY DEF DayStep, Elsewhere, NewTable, Signalled, TimeIsSet, Waits, Stirs, Wakes, Dates, Taxes, Pays, Skips,
        DayBegins,
        Restarts, DayUntouched
<1>2. ClockFollows
    BY <1>1
<1>. USE <1>2 DEF ClockFollows
<1>3. CASE Elsewhere
    BY <1>3 DEF Elsewhere, DayUntouched, EodUntouched, PlaceUntouched
<1>4. CASE NewTable
    BY <1>4 DEF NewTable, EodUntouched, DatesFollow
<1>5. CASE Signalled \/ TimeIsSet
    BY <1>5 DEF Signalled, TimeIsSet, DayUntouched, EodUntouched
<1>6. CASE Waits \/ Stirs \/ Wakes \/ Dates \/ Taxes \/ Pays \/ Skips
    <2>1. UNCHANGED <<log_t_tm, today, changes>> /\ PlaceUntouched /\ eod' \notin {"start", "woken"}
        BY <1>6 DEF Waits, Stirs, Wakes, Dates, Taxes, Pays, Skips, DayUntouched
    <2>. QED  BY <1>1, <2>1 DEF PlaceUntouched
<1>7. CASE DayBegins
    BY <1>7 DEF DayBegins, EodUntouched, PlaceUntouched
<1>8. CASE Restarts
    BY <1>8 DEF Restarts
<1>9. ClockFollows'
    BY <1>3, <1>4, <1>5, <1>6, <1>7, <1>8 DEF DayStep
<1>. QED  BY <1>1, <1>2, <1>9

(* What a round more comes to *)
LEMMA OneMore == \A x, r \in Nat : x * (r + 1) = x * r + x /\ x * r \in Nat /\ x * r <= x * r + x
OBVIOUS

(* What is booked against rounds, and the numbers it is made of *)
RoundTypes ==
    \A a \in Accounts, d \in Days :
        /\ payments[a][d] \in Nat /\ DayTax[a] \in Nat /\ Rounds(d) \in Nat
        /\ ToCome(a, d) \in {0, DayTax[a], DayTax[a] + DayTax[a]}

(* Payments, rounds and what is to come are numbers.                        *)
LEMMA RoundsAreTyped == Types => RoundTypes
<1>. SUFFICES ASSUME Types, NEW a \in Accounts, NEW d \in Days
              PROVE  /\ payments[a][d] \in Nat /\ DayTax[a] \in Nat /\ Rounds(d) \in Nat
                     /\ ToCome(a, d) \in {0, DayTax[a], DayTax[a] + DayTax[a]}
    BY DEF RoundTypes
<1>1. payments[a] \in [Days -> Nat] /\ spurious[d] \in Nat
    BY DEF Types, DbTypes, DayTypes, Days
<1>2. DayTax[a] \in Nat
    BY BillingAssumption
<1>3. Rounds(d) \in Nat
    BY <1>1 DEF Rounds
<1>4. ToCome(a, d) \in {0, DayTax[a], DayTax[a] + DayTax[a]}
    BY <1>2 DEF ToCome
<1>. QED  BY <1>1, <1>2, <1>3, <1>4

(* A step that adds to payments and to what is to come no more than it adds *)
(* to the rounds leaves the payments within the rounds.                     *)
LEMMA RoundAdds ==
    ASSUME Types, RoundsFollow, NEW a \in Accounts, NEW d \in Days,
           payments'[a][d] \in Int, ToCome(a, d)' \in Int,
           NEW round \in {0, 1},
           payments'[a][d] + ToCome(a, d)' <= payments[a][d] + ToCome(a, d) + (IF round = 1 THEN DayTax[a] ELSE 0),
           Rounds(d)' = Rounds(d) + round
    PROVE  payments'[a][d] + ToCome(a, d)' <= DayTax[a] * Rounds(d)'
<1>1. payments[a][d] \in Nat /\ DayTax[a] \in Nat /\ Rounds(d) \in Nat /\ ToCome(a, d) \in Nat
    BY RoundsAreTyped DEF RoundTypes
<1>2. payments[a][d] + ToCome(a, d) <= DayTax[a] * Rounds(d)
    BY DEF RoundsFollow
<1>3. DayTax[a] * Rounds(d)' = DayTax[a] * Rounds(d) + (IF round = 1 THEN DayTax[a] ELSE 0)
    <2>1. CASE round = 0
        BY <1>1, <2>1
    <2>2. CASE round = 1
        BY <1>1, <2>2, OneMore
    <2>. QED  BY <2>1, <2>2
<1>4. DayTax[a] * Rounds(d) \in Nat
    BY <1>1, OneMore
<1>. QED  BY <1>1, <1>2, <1>3, <1>4

(* What was paid and is to come stays within the rounds                     *)
LEMMA RoundsKept ==
    Types /\ Types' /\ Days' = Days /\ DatesFollow /\ ClockFollows /\ RoundsFollow /\ DayStep => RoundsFollow'
<1>. SUFFICES ASSUME Types, Types', Days' = Days, DatesFollow, ClockFollows, RoundsFollow, DayStep PROVE RoundsFollow'
    OBVIOUS
<1>. SUFFICES ASSUME NEW a \in Accounts, NEW d \in Days
              PROVE  payments'[a][d] + ToCome(a, d)' <= DayTax[a] * Rounds(d)'
    BY DEF RoundsFollow
<1>0. DaysAreTyped /\ DayTax[a] \in Nat
    BY DaysAre, BillingAssumption
<1>1. payments[a][d] \in Nat /\ ToCome(a, d) \in Nat /\ Rounds(d) \in Nat
    BY <1>0, RoundsAreTyped DEF RoundTypes
<1>2. payments'[a][d] \in Nat /\ ToCome(a, d)' \in Nat
    <2>1. RoundTypes'
        BY RoundsAreTyped, PTL
    <2>. QED  BY <1>0, <2>1 DEF RoundTypes
<1>. DEFINE Goal == payments'[a][d] + ToCome(a, d)' <= DayTax[a] * Rounds(d)'
<1>3. ASSUME NEW round \in {0, 1}, Rounds(d)' = Rounds(d) + round,
             payments'[a][d] + ToCome(a, d)' <= payments[a][d] + ToCome(a, d) + (IF round = 1 THEN DayTax[a] ELSE 0)
      PROVE  Goal
    BY <1>2, <1>3, RoundAdds
<1>4. ASSUME UNCHANGED <<payments, changes, spurious>>, ToCome(a, d)' <= ToCome(a, d) PROVE Goal
    <2>1. Rounds(d)' = Rounds(d) + 0
        BY <1>1, <1>4 DEF Rounds
    <2>2. payments'[a][d] + ToCome(a, d)' <= payments[a][d] + ToCome(a, d) + (IF 0 = 1 THEN DayTax[a] ELSE 0)
        BY <1>1, <1>2, <1>4
    <2>. QED  BY <1>3, <2>1, <2>2
<1>5. CASE Elsewhere \/ TimeIsSet \/ Taxes \/ DayBegins
    <2>1. /\ UNCHANGED <<payments, changes, spurious, log_t_tm, eod_day, todo>> /\ (pc' = "signal" <=> pc = "signal")
          /\ eod' = eod \/ (eod = "tax" /\ eod' = "pay")
        BY <1>5 DEF Elsewhere, TimeIsSet, Taxes, DayBegins, DayUntouched, EodUntouched, PlaceUntouched
    <2>2. ToCome(a, d)' = ToCome(a, d)
        BY <2>1 DEF ToCome
    <2>. QED  BY <1>1, <1>4, <2>1, <2>2
<1>6. CASE Waits \/ Stirs \/ Skips
    <2>1. /\ UNCHANGED <<payments, changes, spurious, log_t_tm>> /\ (pc' = "signal" <=> pc = "signal")
          /\ \/ eod' \in {"wait", "stirred"}
             \/ eod \in {"tax", "pay"} /\ eod' = "tax" /\ eod_day' = eod_day /\ todo' \subseteq todo
        BY <1>6 DEF Waits, Stirs, Skips, DayUntouched, PlaceUntouched
    <2>2. ToCome(a, d)' <= ToCome(a, d)
        BY <1>0, <2>1 DEF ToCome
    <2>. QED  BY <1>4, <2>1, <2>2
<1>7. CASE Dates
    <2>1. /\ UNCHANGED <<payments, changes, spurious, log_t_tm, eod_day>> /\ (pc' = "signal" <=> pc = "signal")
          /\ eod = "date" /\ eod' = "tax"
        BY <1>7 DEF Dates, DayUntouched, PlaceUntouched
    <2>2. ToCome(a, d)' <= ToCome(a, d)
        BY <1>0, <2>1 DEF ToCome
    <2>. QED  BY <1>4, <2>1, <2>2
<1>8. CASE Restarts
    <2>1. UNCHANGED <<payments, changes, spurious>> /\ pc' = "taxes" /\ eod' = "start"
        BY <1>8 DEF Restarts
    <2>2. ToCome(a, d)' <= ToCome(a, d)
        BY <1>0, <1>1, <2>1 DEF ToCome
    <2>. QED  BY <1>4, <2>1, <2>2
<1>9. CASE Signalled
    <2>1. /\ UNCHANGED <<payments, changes, spurious, log_t_tm, eod_day>> /\ pc = "signal" /\ pc' = "time"
          /\ eod \in {"start", "wait", "woken", "stirred"} /\ eod' = IF eod = "wait" THEN "woken" ELSE eod
        BY <1>9 DEF Signalled, DayUntouched
    <2>2. ToCome(a, d)' <= ToCome(a, d)
        BY <1>0, <2>1 DEF ToCome
    <2>. QED  BY <1>4, <2>1, <2>2
<1>10. CASE Wakes
    <2>1. /\ UNCHANGED <<payments, changes, log_t_tm>> /\ (pc' = "signal" <=> pc = "signal")
          /\ eod \in {"woken", "stirred"} /\ eod' = "date" /\ eod_day' = log_t_tm
          /\ spurious' = IF eod = "stirred" THEN [spurious EXCEPT ![log_t_tm] = @ + 1] ELSE spurious
        BY <1>10 DEF Wakes, DayUntouched, PlaceUntouched
    <2>2. CASE eod = "woken" \/ d # log_t_tm
        <3>1. spurious'[d] = spurious[d]
            BY <2>1, <2>2 DEF Types, DayTypes
        <3>2. Rounds(d)' = Rounds(d) + 0
            BY <1>1, <2>1, <3>1 DEF Rounds
        <3>3. ToCome(a, d)' <= ToCome(a, d)
            BY <1>0, <2>1, <2>2 DEF ToCome
        <3>4. payments'[a][d] + ToCome(a, d)' <= payments[a][d] + ToCome(a, d) + (IF 0 = 1 THEN DayTax[a] ELSE 0)
            BY <1>1, <1>2, <2>1, <3>3
        <3>. QED  BY <1>3, <3>2, <3>4
    <2>3. CASE eod = "stirred" /\ d = log_t_tm
        <3>1. spurious'[d] = spurious[d] + 1 /\ spurious[d] \in Nat
            BY <2>1, <2>3 DEF Types, DayTypes
        <3>2. Rounds(d)' = Rounds(d) + 1
            BY <1>1, <2>1, <3>1 DEF Rounds
        <3>3. ToCome(a, d)' <= ToCome(a, d) + DayTax[a]
            BY <1>0, <2>1, <2>3 DEF ToCome
        <3>4. payments'[a][d] + ToCome(a, d)' <= payments[a][d] + ToCome(a, d) + (IF 1 = 1 THEN DayTax[a] ELSE 0)
            BY <1>0, <1>1, <1>2, <2>1, <3>3
        <3>. QED  BY <1>3, <3>2, <3>4
    <2>. QED  BY <2>1, <2>2, <2>3
<1>11. CASE NewTable
    <2>1. /\ UNCHANGED <<payments, spurious, eod, eod_day, todo>> /\ pc = "table" /\ today # log_t_tm
          /\ log_t_tm' = today /\ changes' = IF log_t_tm = 0 THEN changes ELSE changes \cup {today}
          /\ pc' = IF log_t_tm # 0 THEN "signal" ELSE "time"
        BY <1>11 DEF NewTable, EodUntouched, DatesFollow
    <2>2. eod # "woken"
        BY <2>1 DEF ClockFollows, DatesFollow
    <2>3. CASE log_t_tm = 0 \/ d # today
        <3>1. Rounds(d)' = Rounds(d) + 0
            BY <1>1, <2>1, <2>3 DEF Rounds
        <3>2. ToCome(a, d)' <= ToCome(a, d)
            BY <1>0, <2>1, <2>2, <2>3 DEF ToCome
        <3>3. payments'[a][d] + ToCome(a, d)' <= payments[a][d] + ToCome(a, d) + (IF 0 = 1 THEN DayTax[a] ELSE 0)
            BY <1>1, <1>2, <2>1, <3>2
        <3>. QED  BY <1>3, <3>1, <3>3
    <2>4. CASE log_t_tm # 0 /\ d = today
        <3>1. today \notin changes
            BY <1>0, <2>1, <2>4 DEF DatesFollow, DaysAreTyped
        <3>2. spurious[d] \in Nat
            BY DEF Types, DayTypes
        <3>3. Rounds(d)' = Rounds(d) + 1
            BY <2>1, <2>4, <3>1, <3>2 DEF Rounds
        <3>4. ToCome(a, d)' <= ToCome(a, d) + DayTax[a]
            BY <1>0, <2>1, <2>2, <2>4 DEF ToCome
        <3>5. payments'[a][d] + ToCome(a, d)' <= payments[a][d] + ToCome(a, d) + (IF 1 = 1 THEN DayTax[a] ELSE 0)
            BY <1>0, <1>1, <1>2, <2>1, <3>4
        <3>. QED  BY <1>3, <3>3, <3>5
    <2>. QED  BY <2>3, <2>4
<1>12. CASE Pays
    <2>. DEFINE x == Taxed
    <2>1. /\ UNCHANGED <<changes, spurious, log_t_tm, eod_day>> /\ (pc' = "signal" <=> pc = "signal")
          /\ eod = "pay" /\ eod' = "tax" /\ x \in todo /\ todo' = todo \ {x} /\ x \in Accounts
          /\ payments' = [payments EXCEPT ![x] = [payments[x] EXCEPT ![eod_day] = @ + DayTax[x]]]
        BY <1>12 DEF Pays, PlaceUntouched, Types, DayTypes
    <2>2. payments \in [Accounts -> [Days -> Nat]] /\ eod_day \in Days
        BY <1>0 DEF Types, DbTypes, Days, DaysAreTyped
    <2>. HIDE DEF x
    <2>3. Rounds(d)' = Rounds(d) + 0
        BY <1>1, <2>1 DEF Rounds
    <2>4. CASE a = x /\ d = eod_day
        <3>1. payments'[a][d] = payments[a][d] + DayTax[a]
            BY <2>1, <2>2, <2>4
        <3>2. ToCome(a, d)' + DayTax[a] <= ToCome(a, d)
            BY <1>0, <2>1, <2>4 DEF ToCome
        <3>3. payments'[a][d] + ToCome(a, d)' <= payments[a][d] + ToCome(a, d) + (IF 0 = 1 THEN DayTax[a] ELSE 0)
            BY <1>0, <1>1, <1>2, <3>1, <3>2
        <3>. QED  BY <1>3, <2>3, <3>3
    <2>5. CASE ~(a = x /\ d = eod_day)
        <3>1. payments'[a][d] = payments[a][d]
            BY <2>1, <2>2, <2>5
        <3>2. ToCome(a, d)' <= ToCome(a, d)
            BY <1>0, <2>1, <2>5 DEF ToCome
        <3>3. payments'[a][d] + ToCome(a, d)' <= payments[a][d] + ToCome(a, d) + (IF 0 = 1 THEN DayTax[a] ELSE 0)
            BY <1>1, <1>2, <3>1, <3>2
        <3>. QED  BY <1>3, <2>3, <3>3
    <2>. QED  BY <2>4, <2>5
<1>. QED  BY <1>5, <1>6, <1>7, <1>8, <1>9, <1>10, <1>11, <1>12 DEF DayStep

(* A day that was changed to is paid for, or still to be paid for           *)
DueOf(a, d) == payments[a][d] >= DayTax[a] \/ (d = today /\ log_t_tm = today /\ Owed(a))

(* Every day changed to is paid for, or is about to be.                     *)
LEMMA DuesKept ==
    Types /\ Types' /\ Days' = Days /\ ~late' /\ DatesFollow /\ ClockFollows /\ DuesFollow /\ DayStep => DuesFollow'
<1>. SUFFICES ASSUME Types, Types', Days' = Days, ~late', DatesFollow, ClockFollows, DuesFollow, DayStep PROVE DuesFollow'
    OBVIOUS
<1>. SUFFICES ASSUME crashes' = 0, NEW a \in Accounts \ skipped', NEW d \in changes' PROVE DueOf(a, d)'
    BY DEF DuesFollow, DueOf
<1>0. DaysAreTyped /\ DayTax[a] \in Nat /\ crashes \in Nat
    BY DaysAre, BillingAssumption DEF DaysAreTyped
<1>1. d \in Days /\ payments'[a][d] \in Nat
    <2>1. d \in Days
        <3>1. (Types => DaysAreTyped)'
            BY DaysAre, PTL
        <3>. QED  BY <3>1 DEF DaysAreTyped
    <2>2. payments' \in [Accounts -> [Days' -> Nat]]
        BY DEF Types, DbTypes, Days
    <2>. QED  BY <2>1, <2>2
<1>2. payments \in [Accounts -> [Days -> Nat]] /\ payments[a][d] \in Nat
    <2>1. payments \in [Accounts -> [Days -> Nat]]
        BY DEF Types, DbTypes, Days
    <2>. QED  BY <1>1, <2>1
<1>3. ASSUME crashes = 0, a \notin skipped, d \in changes PROVE DueOf(a, d)
    BY <1>3 DEF DuesFollow, DueOf
<1>. USE DEF DueOf
<1>4. CASE Elsewhere \/ TimeIsSet \/ Stirs \/ Taxes \/ Signalled \/ Waits
    <2>1. UNCHANGED <<payments, changes, skipped, log_t_tm, today, crashes>>
        BY <1>4 DEF Elsewhere, TimeIsSet, Stirs, Taxes, Signalled, Waits, DayUntouched, EodUntouched
    <2>2. DueOf(a, d)
        BY <1>3, <2>1
    <2>3. CASE Elsewhere \/ TimeIsSet \/ Stirs \/ Taxes
        <3>1. /\ pc = "signal" => pc' = "signal"
              /\ UNCHANGED <<eod_day, todo>> /\ (eod' = eod \/ eod' = "stirred" \/ (eod = "tax" /\ eod' = "pay"))
              /\ eod' = "stirred" => eod \in {"wait", "stirred"}
            BY <2>3 DEF Elsewhere, TimeIsSet, Stirs, Taxes, DayUntouched, EodUntouched, PlaceUntouched
        <3>2. Owed(a) => Owed(a)'
            BY <2>1, <3>1 DEF Owed
        <3>. QED  BY <2>1, <2>2, <3>2
    <2>4. CASE Signalled
        <3>1. eod' \in {"woken", "stirred"}
            BY <2>4 DEF Signalled, ClockFollows
        <3>. QED  BY <2>1, <2>2, <3>1 DEF Owed
    <2>5. CASE Waits
        <3>1. (eod = "start" \/ (eod = "tax" /\ todo = {})) /\ (pc' = "signal" <=> pc = "signal")
            BY <2>5 DEF Waits, PlaceUntouched
        <3>2. Owed(a) => Owed(a)'
            BY <2>1, <3>1 DEF Owed
        <3>. QED  BY <2>1, <2>2, <3>2
    <2>. QED  BY <1>4, <2>3, <2>4, <2>5
<1>5. CASE Wakes
    <2>1. /\ UNCHANGED <<payments, changes, skipped, log_t_tm, today, crashes>> /\ eod' = "date" /\ eod_day' = log_t_tm
        BY <1>5 DEF Wakes, DayUntouched
    <2>2. DueOf(a, d)
        BY <1>3, <2>1
    <2>. QED  BY <2>1, <2>2 DEF Owed
<1>6. CASE Dates
    <2>1. /\ UNCHANGED <<payments, changes, skipped, log_t_tm, today, crashes, eod_day>> /\ eod = "date" /\ eod' = "tax"
          /\ todo' = {b \in Accounts : DayTax[b] # 0} /\ (pc' = "signal" <=> pc = "signal")
        BY <1>6 DEF Dates, DayUntouched, PlaceUntouched
    <2>2. DueOf(a, d)
        BY <1>3, <2>1
    <2>3. DayTax[a] = 0 => payments'[a][d] >= DayTax[a]
        BY <1>0, <1>1
    <2>4. DayTax[a] # 0 /\ Owed(a) => Owed(a)'
        BY <2>1 DEF Owed
    <2>. QED  BY <2>1, <2>2, <2>3, <2>4
<1>7. CASE Pays
    <2>. DEFINE x == Taxed
    <2>1. /\ UNCHANGED <<changes, skipped, log_t_tm, today, crashes, eod_day>> /\ (pc' = "signal" <=> pc = "signal")
          /\ eod = "pay" /\ eod' = "tax" /\ x \in todo /\ todo' = todo \ {x} /\ x \in Accounts
          /\ payments' = [payments EXCEPT ![x] = [payments[x] EXCEPT ![eod_day] = @ + DayTax[x]]]
        BY <1>7 DEF Pays, PlaceUntouched, Types, DayTypes
    <2>2. DueOf(a, d)
        BY <1>3, <2>1
    <2>3. eod_day \in Days
        BY <1>0 DEF DaysAreTyped
    <2>. HIDE DEF x
    <2>4. CASE a = x /\ d = eod_day
        <3>1. payments'[a][d] = payments[a][d] + DayTax[a]
            BY <1>1, <1>2, <2>1, <2>3, <2>4
        <3>2. payments'[a][d] >= DayTax[a]
            BY <1>0, <1>2, <3>1
        <3>. QED  BY <3>2
    <2>5. CASE ~(a = x /\ d = eod_day)
        <3>1. payments'[a][d] = payments[a][d]
            BY <1>1, <1>2, <2>1, <2>3, <2>5
        <3>2. d = today /\ Owed(a) => Owed(a)'
            BY <2>1, <2>5 DEF Owed
        <3>. QED  BY <2>1, <2>2, <3>1, <3>2
    <2>. QED  BY <2>4, <2>5
<1>8. CASE Skips
    <2>1. /\ UNCHANGED <<payments, changes, log_t_tm, today, crashes, eod_day>> /\ (pc' = "signal" <=> pc = "signal")
          /\ eod \in {"tax", "pay"} /\ eod' = "tax" /\ skipped' = skipped \cup (todo \ todo')
        BY <1>8 DEF Skips, DayUntouched, PlaceUntouched
    <2>2. DueOf(a, d) /\ (a \in todo => a \in todo')
        BY <1>3, <2>1
    <2>3. Owed(a) => Owed(a)'
        BY <2>1, <2>2 DEF Owed
    <2>. QED  BY <2>1, <2>2, <2>3
<1>9. CASE DayBegins
    <2>1. /\ UNCHANGED <<payments, changes, skipped, log_t_tm, crashes>> /\ eod = "wait" /\ pc # "signal"
        BY <1>9 DEF DayBegins, EodUntouched
    <2>2. DueOf(a, d) /\ ~Owed(a)
        BY <1>3, <2>1 DEF Owed
    <2>. QED  BY <2>1, <2>2
<1>10. CASE NewTable
    <2>1. /\ UNCHANGED <<payments, skipped, today, crashes>> /\ today # log_t_tm /\ log_t_tm' = today
          /\ changes' = IF log_t_tm = 0 THEN changes ELSE changes \cup {today}
          /\ pc' = IF log_t_tm # 0 THEN "signal" ELSE "time"
        BY <1>10 DEF NewTable, EodUntouched, DatesFollow
    <2>2. CASE d \in changes
        <3>1. DueOf(a, d)
            BY <1>3, <2>1, <2>2
        <3>. QED  BY <2>1, <3>1
    <2>3. CASE d \notin changes
        <3>1. d = today /\ log_t_tm # 0
            BY <2>1, <2>3
        <3>. QED  BY <2>1, <3>1 DEF Owed
    <2>. QED  BY <2>2, <2>3
<1>11. CASE Restarts
    <2>1. FALSE
        BY <1>0, <1>11 DEF Restarts
    <2>. QED  BY <2>1
<1>. QED  BY <1>4, <1>5, <1>6, <1>7, <1>8, <1>9, <1>10, <1>11 DEF DayStep

(* Where a step leaves the end of the day, and what was paid for it *)
LEMMA DayKept == Types /\ DayFollows /\ [Next]_vars => DayFollows'
<1>. SUFFICES ASSUME Types, DayFollows, [Next]_vars PROVE DayFollows'
    OBVIOUS
<1>1. Types' /\ DayStep /\ FailsGrow
    BY TypesKept, DaySteps
<1>2. Days' = Days
    BY SetupStays DEF Days, vars, boundVars
<1>3. DatesFollow'
    BY <1>1, DatesKept DEF DayFollows
<1>4. ASSUME ~late' PROVE (ClockFollows /\ RoundsFollow /\ DuesFollow)'
    <2>1. ~late /\ ClockFollows /\ ClockFollows'
        BY <1>1, <1>4, ClockKept DEF DayFollows
    <2>2. RoundsFollow'
        BY <1>1, <1>2, <2>1, RoundsKept DEF DayFollows
    <2>3. DuesFollow'
        BY <1>1, <1>2, <1>4, <2>1, DuesKept DEF DayFollows
    <2>. QED  BY <2>1, <2>2, <2>3
<1>5. (fails = 0 => skipped = {})'
    <2>1. fails' = 0 => fails = 0
        BY <1>1 DEF FailsGrow, Types, DbTypes
    <2>2. fails' = 0 => skipped' = skipped
        BY <1>1 DEF DayStep, Elsewhere, NewTable, Signalled, TimeIsSet, Waits, Stirs, Wakes, Dates, Taxes,
            Pays, Skips,
            DayBegins, Restarts, EodUntouched
    <2>. QED  BY <2>1, <2>2 DEF DayFollows
<1>. QED  BY <1>3, <1>4, <1>5 DEF DayFollows

----------------------------------------------------------------------------
----------------------------------------------------------------------------
(* The row just written that the logger has still to charge an account for *)
ToCharge(a) == IF pc = "charge" /\ Payer = a THEN SessionPrice ELSE 0

(* What an account has, as if no failure had met it *)
Net(a) == sum[a] + unbooked[a] - untaken[a]

(* What an account has paid is the sum of its days *)
TaxesAdd == \A a \in Accounts : TaxPaid(a) = SumFunctionOnSet(payments[a], Days) /\ TaxPaid(a) \in Nat

(* The payments of an account add up to a natural number.                   *)
LEMMA TaxPaidIs == Types => TaxesAdd
<1>. SUFFICES ASSUME Types, NEW a \in Accounts
              PROVE  TaxPaid(a) = SumFunctionOnSet(payments[a], Days) /\ TaxPaid(a) \in Nat
    BY DEF TaxesAdd
<1>1. payments[a] \in [Days -> Nat]
    BY DEF Types, DbTypes, Days
<1>2. IsFiniteSet(Days)
    <2>1. 0 \in Int /\ setup.days \in Int
        BY DaysAre DEF DaysAreTyped
    <2>. QED  BY <2>1, FS_Interval DEF Days
<1>. DEFINE p == payments[a]
<1>3. DOMAIN p = Days /\ \A d \in Days : p[d] \in Nat
    BY <1>1
<1>4. TaxPaid(a) = SumFunctionOnSet(p, Days)
    <2>1. TaxPaid(a) = SumFunction(p)
        BY DEF TaxPaid
    <2>. HIDE DEF p
    <2>2. SumFunction(p) = SumFunctionOnSet(p, DOMAIN p)
        BY DEF SumFunction, SumFunctionOnSet, FoldFunction
    <2>. QED  BY <1>3, <2>1, <2>2
<1>5. SumFunctionOnSet(p, Days) \in Nat
    <2>. HIDE DEF p
    <2>. QED  BY <1>2, <1>3, SumNat
<1>. QED  BY <1>4, <1>5

(* Every term of the equation is a number *)
AmountsAre ==
    \A a \in Accounts :
        /\ sum[a] \in Int /\ untaken[a] \in Nat /\ unbooked[a] \in Nat /\ Net(a) \in Int
        /\ paid[a] \in Nat /\ Used(a) \in Nat /\ TaxPaid(a) \in Nat
        /\ InFlight(a) \in Nat /\ BeingMoved(a) \in Int /\ ToCharge(a) \in Nat

(* The types make every term of the equation a number.                      *)
LEMMA TypesAreAmounts == Types => AmountsAre
<1>. SUFFICES ASSUME Types, NEW a \in Accounts
              PROVE  /\ sum[a] \in Int /\ untaken[a] \in Nat /\ unbooked[a] \in Nat /\ Net(a) \in Int
                     /\ paid[a] \in Nat /\ Used(a) \in Nat /\ TaxPaid(a) \in Nat
                     /\ InFlight(a) \in Nat /\ BeingMoved(a) \in Int /\ ToCharge(a) \in Nat
    BY DEF AmountsAre
<1>1. /\ sum[a] \in Int /\ untaken[a] \in Nat /\ unbooked[a] \in Nat
      /\ paid[a] \in Nat /\ TaxPaid(a) \in Nat
    BY TaxPaidIs DEF TaxesAdd, Types, DbTypes
<1>2. Net(a) \in Int
    BY <1>1 DEF Net
<1>3. Used(a) \in Nat
    BY UsedIsNat DEF Types, ToolTypes
<1>4. InFlight(a) \in Nat
    BY BillingAssumption DEF InFlight
<1>5. BeingMoved(a) \in Int
    <2>1. CASE tool \in {"add", "log"}
        <3>1. Row \in TableRow
            BY <2>1 DEF Types, ToolTypes, Row
        <3>2. Row.price \in Nat
            BY <3>1 DEF TableRow
        <3>. QED  BY <3>2 DEF BeingMoved
    <2>2. CASE tool \notin {"add", "log"}
        BY <2>2 DEF BeingMoved
    <2>. QED  BY <2>1, <2>2
<1>6. ToCharge(a) \in Nat
    <2>1. CASE pc = "charge"
        <3>1. SessionTypes /\ First.card \in shdw_NICs
            BY <2>1, SessionIsTyped DEF Types, LoggerTypes
        <3>. QED  BY <2>1, <3>1 DEF ToCharge, SessionTypes, Billing
    <2>2. CASE pc # "charge"
        BY <2>2 DEF ToCharge
    <2>. QED  BY <2>1, <2>2
<1>. QED  BY <1>1, <1>2, <1>3, <1>4, <1>5, <1>6

(* When a term of the equation stays as it is *)
LEMMA UsedStays == UNCHANGED tlog => \A a : Used(a)' = Used(a)
<1>1. (\A a : Used(a) = SumFunctionOnSet(tlog, Cards(a)) /\ IsFiniteSet(Cards(a)) /\ Cards(a) \subseteq Nics)'
    BY UsedIsSum, PTL
<1>. QED  BY <1>1, UsedIsSum DEF Cards

(* What was paid as tax stays while the table of payments does.             *)
LEMMA TaxPaidStays == UNCHANGED payments => \A a : TaxPaid(a)' = TaxPaid(a)
BY DEF TaxPaid

(* A tax taken and not recorded stays while the end-of-day thread is not    *)
(* between the two.                                                         *)
LEMMA InFlightStays ==
    UNCHANGED <<eod, todo>> \/ (eod # "pay" /\ eod' # "pay") => \A a : InFlight(a)' = InFlight(a)
BY DEF InFlight, Taxed, OfTax, NextTax

(* The price the tool is moving stays while the tool is not between its     *)
(* updates.                                                                 *)
LEMMA BeingMovedStays ==
    UNCHANGED <<tool, table, tool_row>> \/ (tool \notin {"add", "log"} /\ tool' \notin {"add", "log"})
        => \A a : BeingMoved(a)' = BeingMoved(a)
BY DEF BeingMoved, Row

(* The session left to bill depends on the log and its tariff alone *)
LEMMA SessionStays ==
    UNCHANGED <<captured_log, shdw_taxes>> => First' = First /\ Payer' = Payer /\ SessionPrice' = SessionPrice
<1>. SUFFICES ASSUME UNCHANGED <<captured_log, shdw_taxes>>
              PROVE  First' = First /\ Payer' = Payer /\ SessionPrice' = SessionPrice
    OBVIOUS
<1>1. First' = First
    BY DEF First
<1>2. Payer' = Payer
    BY <1>1 DEF Payer
<1>3. Session' = Session
    BY <1>1 DEF Session, SameSession
<1>4. SessionPrice' = SessionPrice
    BY <1>1, <1>2, <1>3 DEF SessionPrice
<1>. QED  BY <1>1, <1>2, <1>4

(* The price still to be charged stays while the logger is not between      *)
(* row and account.                                                         *)
LEMMA ToChargeStays ==
    UNCHANGED <<pc, captured_log, shdw_taxes>> \/ (pc # "charge" /\ pc' # "charge")
        => \A a : ToCharge(a)' = ToCharge(a)
BY SessionStays DEF ToCharge

(* What a price added at one card, or moved from one to another, changes of a sum *)
SumGrows(f, g, S, x) == SumFunctionOnSet(g, S) = SumFunctionOnSet(f, S) + x

Added(f, n, p) == [f EXCEPT ![n] = @ + p]
Moved(f, c, r, p) == [f EXCEPT ![c] = @ - p, ![r] = @ + p]

(* A price added at one card is added to every sum over cards with it.      *)
LEMMA SumAdds ==
    ASSUME NEW N, NEW f \in [N -> Int], NEW n \in N, NEW p \in Int, NEW S \in SUBSET N, IsFiniteSet(S)
    PROVE  SumGrows(f, Added(f, n, p), S, IF n \in S THEN p ELSE 0)
<1>. DEFINE g == Added(f, n, p)
<1>1. \A m \in N : g[m] = (IF m = n THEN f[n] + p ELSE f[m]) /\ f[m] \in Int /\ g[m] \in Int
    BY DEF Added
<1>2. SumFunctionOnSet(f, S) \in Int
    BY <1>1, SumInt
<1>. HIDE DEF g
<1>3. CASE n \in S
    <2>1. SumFunctionOnSet(g, S) = SumFunctionOnSet(f, S) + (g[n] - f[n])
        BY <1>1, <1>3, SumChange
    <2>2. g[n] - f[n] = p
        BY <1>1
    <2>. QED  BY <1>3, <2>1, <2>2 DEF SumGrows, g
<1>4. CASE n \notin S
    <2>1. \A m \in S : g[m] = f[m]
        BY <1>1, <1>4
    <2>2. SumFunctionOnSet(g, S) = SumFunctionOnSet(f, S)
        BY <2>1, SumSame
    <2>. QED  BY <1>2, <1>4, <2>2 DEF SumGrows, g
<1>. QED  BY <1>3, <1>4

(* A price moved from one card to another moves between the sums over       *)
(* them.                                                                    *)
LEMMA SumMoves ==
    ASSUME NEW N, NEW f \in [N -> Int], NEW c \in N, NEW r \in N, c # r, NEW p \in Int,
           NEW S \in SUBSET N, IsFiniteSet(S)
    PROVE  SumGrows(f, Moved(f, c, r, p), S, (IF r \in S THEN p ELSE 0) - (IF c \in S THEN p ELSE 0))
<1>. DEFINE h == Added(f, c, 0 - p)
<1>1. h \in [N -> Int] /\ Moved(f, c, r, p) = Added(h, r, p) /\ 0 - p \in Int
    <2>1. 0 - p \in Int /\ f[c] + (0 - p) = f[c] - p /\ f[c] - p \in Int
        OBVIOUS
    <2>2. h = [f EXCEPT ![c] = f[c] - p]
        BY <2>1 DEF Added
    <2>. HIDE DEF h
    <2>3. h \in [N -> Int] /\ h[r] = f[r]
        BY <2>1, <2>2
    <2>4. Moved(f, c, r, p) = [h EXCEPT ![r] = f[r] + p]
        BY <2>2 DEF Moved
    <2>. QED  BY <2>1, <2>3, <2>4 DEF Added
<1>2. SumGrows(f, h, S, IF c \in S THEN 0 - p ELSE 0)
    BY <1>1, SumAdds
<1>. HIDE DEF h
<1>3. SumGrows(h, Added(h, r, p), S, IF r \in S THEN p ELSE 0)
    BY <1>1, SumAdds
<1>4. SumFunctionOnSet(f, S) \in Int
    <2>1. \A m \in S : f[m] \in Int
        OBVIOUS
    <2>. QED  BY <2>1, SumInt
<1>. QED  BY <1>1, <1>2, <1>3, <1>4 DEF SumGrows

(* A session in the table of the day is used by its payer *)
LEMMA BillIsUsed ==
    ASSUME tlog \in [Nics -> Nat], NEW n \in Nics, NEW p \in Nat, tlog' = Added(tlog, n, p)
    PROVE  \A a \in Accounts : Used(a)' = Used(a) + (IF Owner[n] = a THEN p ELSE 0)
<1>1. (\A a : Used(a) = SumFunctionOnSet(tlog, Cards(a)) /\ IsFiniteSet(Cards(a)) /\ Cards(a) \subseteq Nics)'
    BY UsedIsSum, PTL
<1>. TAKE a \in Accounts
<1>2. /\ Used(a) = SumFunctionOnSet(tlog, Cards(a)) /\ Used(a)' = SumFunctionOnSet(tlog', Cards(a))
      /\ IsFiniteSet(Cards(a)) /\ Cards(a) \in SUBSET Nics
    BY <1>1, UsedIsSum DEF Cards
<1>3. tlog \in [Nics -> Int] /\ p \in Int
    OBVIOUS
<1>4. SumGrows(tlog, Added(tlog, n, p), Cards(a), IF n \in Cards(a) THEN p ELSE 0)
    BY <1>2, <1>3, SumAdds
<1>5. n \in Cards(a) <=> Owner[n] = a
    BY DEF Cards
<1>. QED  BY <1>2, <1>4, <1>5 DEF SumGrows

(* A row put right moves its price from the user of one card to that of the other *)
LEMMA RowIsMoved ==
    ASSUME tlog \in [Nics -> Nat], NEW c \in Nics, NEW r \in Nics, c # r, NEW p \in Nat,
           tlog' = Moved(tlog, c, r, p)
    PROVE  \A a \in Accounts :
               Used(a)' = Used(a) + ((IF Owner[r] = a THEN p ELSE 0) - (IF Owner[c] = a THEN p ELSE 0))
<1>1. (\A a : Used(a) = SumFunctionOnSet(tlog, Cards(a)) /\ IsFiniteSet(Cards(a)) /\ Cards(a) \subseteq Nics)'
    BY UsedIsSum, PTL
<1>. TAKE a \in Accounts
<1>2. /\ Used(a) = SumFunctionOnSet(tlog, Cards(a)) /\ Used(a)' = SumFunctionOnSet(tlog', Cards(a))
      /\ IsFiniteSet(Cards(a)) /\ Cards(a) \in SUBSET Nics
    BY <1>1, UsedIsSum DEF Cards
<1>3. tlog \in [Nics -> Int] /\ p \in Int
    OBVIOUS
<1>4. SumGrows(tlog, Moved(tlog, c, r, p), Cards(a),
               (IF r \in Cards(a) THEN p ELSE 0) - (IF c \in Cards(a) THEN p ELSE 0))
    BY <1>2, <1>3, SumMoves
<1>5. (r \in Cards(a) <=> Owner[r] = a) /\ (c \in Cards(a) <=> Owner[c] = a)
    BY DEF Cards
<1>. QED  BY <1>2, <1>4, <1>5 DEF SumGrows

(* An update takes its price from the account it is for, and what failures  *)
(* make of it is noted: the account has less by the price, or is said to.   *)
LEMMA TakeShifts ==
    ASSUME NEW hit \in Accounts, NEW a \in Accounts, NEW price \in Nat, NEW done \in BOOLEAN,
           DbTypes, Take(hit, a, price, done)
    PROVE  \A b \in Accounts :
               /\ Net(b)' = Net(b) - (IF b = a THEN price ELSE 0)
               /\ sum'[b] + unbooked'[b] >= sum[b] + unbooked[b] - (IF b = a THEN price ELSE 0)
               /\ done /\ hit = a => untaken'[b] = untaken[b] /\ unbooked'[b] = unbooked[b]
<1>. TAKE b \in Accounts
<1>1. /\ sum \in [Accounts -> Int] /\ untaken \in [Accounts -> Nat] /\ unbooked \in [Accounts -> Nat]
      /\ sum[b] \in Int /\ untaken[b] \in Nat /\ unbooked[b] \in Nat
    BY DEF DbTypes
<1>2. sum'[b] = IF done /\ hit = b THEN sum[b] - price ELSE sum[b]
    BY <1>1 DEF Take
<1>3. untaken'[b] = IF ~(done /\ hit = a) /\ a = b THEN untaken[b] + price ELSE untaken[b]
    BY <1>1 DEF Take
<1>4. unbooked'[b] = IF done /\ hit # a /\ hit = b THEN unbooked[b] + price ELSE unbooked[b]
    BY <1>1 DEF Take
<1>5. Net(b)' = Net(b) - (IF b = a THEN price ELSE 0)
    BY <1>1, <1>2, <1>3, <1>4 DEF Net
<1>6. sum'[b] + unbooked'[b] >= sum[b] + unbooked[b] - (IF b = a THEN price ELSE 0)
    BY <1>1, <1>2, <1>4
<1>7. done /\ hit = a => untaken'[b] = untaken[b] /\ unbooked'[b] = unbooked[b]
    BY <1>3, <1>4
<1>. QED  BY <1>5, <1>6, <1>7

(* The end-of-day thread takes a tax from an account, and records it as paid *)
Due(a) == IF Taxed = a THEN DayTax[a] ELSE 0

(* EodTax takes the tax from what the account has and holds it.             *)
TaxTaken(a) ==
    /\ InFlight(a) = 0 /\ InFlight(a)' = Due(a) /\ Due(a) \in Nat /\ TaxPaid(a)' = TaxPaid(a)
    /\ Net(a)' = Net(a) - Due(a)
    /\ sum'[a] + unbooked'[a] >= sum[a] + unbooked[a] - Due(a)
    /\ fails' = fails => untaken'[a] = untaken[a] /\ unbooked'[a] = unbooked[a]

(* The tax of an account leaves what it has, or what another has for it.    *)
LEMMA TaxIsTaken == Types /\ Taxing => \A a \in Accounts : TaxTaken(a)
<1>. SUFFICES ASSUME Types, Taxing, NEW a \in Accounts PROVE TaxTaken(a)
    OBVIOUS
<1>1. PICK found, done \in BOOLEAN : EodTax(found, done)
    BY DEF Taxing
<1>2. DbTypes /\ DayTypes
    BY DEF Types
<1>3. /\ eod = "tax" /\ todo # {} /\ eod' = "pay" /\ UNCHANGED <<payments, todo>>
      /\ TU_updacc' = Found(TU_updacc, Taxed, found) /\ Take(TU_updacc', Taxed, DayTax[Taxed], done)
      /\ Calls(found /\ done)
    BY <1>1 DEF EodTax
<1>4. Taxed \in Accounts /\ DayTax[Taxed] \in Nat
    BY <1>2, <1>3, TaxedIn, BillingAssumption DEF DayTypes
<1>5. TU_updacc' \in Accounts
    BY <1>2, <1>3, <1>4 DEF Found, DbTypes
<1>6. Taxed' = Taxed
    BY <1>3 DEF Taxed, OfTax, NextTax
<1>7. InFlight(a) = 0 /\ InFlight(a)' = Due(a)
    BY <1>3, <1>6 DEF InFlight, Due
<1>8. Due(a) \in Nat
    BY BillingAssumption DEF Due
<1>9. TaxPaid(a)' = TaxPaid(a)
    BY <1>3, TaxPaidStays
<1>10. /\ Net(a)' = Net(a) - (IF a = Taxed THEN DayTax[Taxed] ELSE 0)
       /\ sum'[a] + unbooked'[a] >= sum[a] + unbooked[a] - (IF a = Taxed THEN DayTax[Taxed] ELSE 0)
       /\ done /\ TU_updacc' = Taxed => untaken'[a] = untaken[a] /\ unbooked'[a] = unbooked[a]
    BY <1>2, <1>3, <1>4, <1>5, TakeShifts
<1>11. Due(a) = IF a = Taxed THEN DayTax[Taxed] ELSE 0
    BY DEF Due
<1>12. fails' = fails => done /\ TU_updacc' = Taxed
    BY <1>2, <1>3 DEF Calls, Found, DbTypes
<1>. QED  BY <1>7, <1>8, <1>9, <1>10, <1>11, <1>12 DEF TaxTaken

(* EodPay records the tax it holds, or says that it was taken without.      *)
TaxRecorded(a) ==
    /\ InFlight(a) = Due(a) /\ InFlight(a)' = 0 /\ Due(a) \in Nat /\ sum'[a] = sum[a] /\ untaken'[a] = untaken[a]
    /\ \/ TaxPaid(a)' = TaxPaid(a) + Due(a) /\ unbooked'[a] = unbooked[a]
       \/ TaxPaid(a)' = TaxPaid(a) /\ unbooked'[a] = unbooked[a] + Due(a) /\ fails' # fails

(* The tax in flight becomes a payment, or one that is missing.             *)
LEMMA TaxIsPaid == Types /\ Next /\ Paying => \A a \in Accounts : TaxRecorded(a)
<1>. SUFFICES ASSUME Types, Next, Paying, NEW a \in Accounts PROVE TaxRecorded(a)
    OBVIOUS
<1>0. TaxesAdd'
    <2>1. (Types => TaxesAdd)'
        BY TaxPaidIs, PTL
    <2>. QED  BY <2>1, TypesKept
<1>. DEFINE x == Taxed
            f == payments[x]
<1>1. PICK ok \in BOOLEAN : EodPay(ok)
    BY DEF Paying
<1>2. DbTypes /\ DayTypes /\ DaysAreTyped
    BY DaysAre DEF Types
<1>3. /\ eod = "pay" /\ eod' = "tax" /\ UNCHANGED <<sum, untaken>> /\ Calls(ok)
      /\ ok => UNCHANGED unbooked /\ payments' = [payments EXCEPT ![x] = Added(f, eod_day, DayTax[x])]
      /\ ~ok => UNCHANGED payments /\ unbooked' = [unbooked EXCEPT ![x] = @ + DayTax[x]]
    BY <1>1 DEF EodPay, Added
<1>4. x \in Accounts /\ eod_day \in Days /\ DayTax[x] \in Int
    BY <1>2, <1>3, TaxedIn, BillingAssumption DEF DayTypes
<1>5. InFlight(a)' = 0 /\ InFlight(a) = Due(a) /\ Due(a) \in Nat
    BY <1>3, BillingAssumption DEF InFlight, Due
<1>6. payments \in [Accounts -> [Days -> Nat]] /\ unbooked \in [Accounts -> Nat]
    BY <1>2 DEF DbTypes, Days
<1>7. CASE ~ok
    <2>1. fails' # fails
        BY <1>2, <1>3, <1>7 DEF Calls, DbTypes
    <2>2. unbooked'[a] = unbooked[a] + Due(a)
        <3>1. DayTax[x] \in Nat /\ unbooked[a] \in Nat
            BY <1>4, <1>6, BillingAssumption
        <3>. HIDE DEF x
        <3>2. unbooked'[a] = IF x = a THEN unbooked[a] + DayTax[x] ELSE unbooked[a]
            BY <1>3, <1>6, <1>7
        <3>3. Due(a) = IF x = a THEN DayTax[x] ELSE 0
            BY DEF Due, x
        <3>. QED  BY <3>1, <3>2, <3>3
    <2>3. TaxPaid(a)' = TaxPaid(a)
        BY <1>3, <1>7, TaxPaidStays
    <2>. QED  BY <1>3, <1>5, <2>1, <2>2, <2>3 DEF TaxRecorded
<1>8. CASE ok
    <2>1. /\ TaxPaid(a) = SumFunctionOnSet(payments[a], Days) /\ TaxPaid(a) \in Nat
          /\ f \in [Days -> Int] /\ IsFiniteSet(Days)
          /\ TaxPaid(a)' = SumFunctionOnSet(payments'[a], Days)
        <3>1. 0 \in Int /\ setup.days \in Int
            BY <1>2 DEF DaysAreTyped
        <3>2. IsFiniteSet(Days)
            BY <3>1, FS_Interval DEF Days
        <3>3. f \in [Days -> Int]
            BY <1>4, <1>6
        <3>4. setup' = setup
            BY SetupStays
        <3>. QED  BY <1>0, <3>2, <3>3, <3>4, TaxPaidIs DEF Days, TaxesAdd
    <2>2. CASE a = x
        <3>1. payments'[a] = Added(f, eod_day, DayTax[x]) /\ Due(a) = DayTax[x]
            BY <1>3, <1>6, <1>8, <2>2 DEF Due
        <3>. HIDE DEF Days, f, x
        <3>2. SumGrows(f, Added(f, eod_day, DayTax[x]), Days, IF eod_day \in Days THEN DayTax[x] ELSE 0)
            BY <1>4, <2>1, SumAdds
        <3>3. TaxPaid(a)' = TaxPaid(a) + Due(a)
            BY <1>4, <2>1, <2>2, <3>1, <3>2 DEF SumGrows, f
        <3>. QED  BY <1>3, <1>5, <1>8, <3>3 DEF TaxRecorded
    <2>3. CASE a # x
        <3>1. payments'[a] = payments[a] /\ Due(a) = 0
            BY <1>3, <1>6, <1>8, <2>3 DEF Due
        <3>2. TaxPaid(a)' = TaxPaid(a) + Due(a)
            BY <2>1, <3>1
        <3>. QED  BY <1>3, <1>5, <1>8, <3>2 DEF TaxRecorded
    <2>. QED  BY <2>2, <2>3
<1>. QED  BY <1>7, <1>8

----------------------------------------------------------------------------
(* The session is charged to the account that pays for it, as far as Qbase  *)
(* lets it be.                                                              *)
Charged(a) ==
    /\ Net(a)' = Net(a) - ToCharge(a) /\ ToCharge(a)' = 0
    /\ sum'[a] + unbooked'[a] >= sum[a] + unbooked[a] - ToCharge(a)
    /\ fails' = fails => untaken'[a] = untaken[a] /\ unbooked'[a] = unbooked[a]

(* A session charged is charged to its payer, or booked as a failure.       *)
LEMMA SessionIsCharged == Types /\ Charging => \A a \in Accounts : Charged(a)
<1>. SUFFICES ASSUME Types, Charging, NEW a \in Accounts PROVE Charged(a)
    OBVIOUS
<1>1. PICK found, done \in BOOLEAN : Charge(found, done)
    BY DEF Charging
<1>2. DbTypes /\ LoggerTypes
    BY DEF Types
<1>3. /\ pc = "charge" /\ pc' = "bill" /\ Calls(found /\ done)
      /\ T_updacc' = Found(T_updacc, Payer, found) /\ Take(T_updacc', Payer, SessionPrice, done)
    BY <1>1 DEF Charge, Price
<1>4. Payer \in Accounts /\ SessionPrice \in Nat
    BY <1>2, <1>3, SessionIsTyped DEF LoggerTypes, SessionTypes, Billing
<1>5. T_updacc' \in Accounts
    BY <1>2, <1>3, <1>4 DEF Found, DbTypes
<1>6. /\ Net(a)' = Net(a) - (IF a = Payer THEN SessionPrice ELSE 0)
      /\ sum'[a] + unbooked'[a] >= sum[a] + unbooked[a] - (IF a = Payer THEN SessionPrice ELSE 0)
      /\ done /\ T_updacc' = Payer => untaken'[a] = untaken[a] /\ unbooked'[a] = unbooked[a]
    BY <1>2, <1>3, <1>4, <1>5, TakeShifts
<1>7. ToCharge(a) = (IF a = Payer THEN SessionPrice ELSE 0) /\ ToCharge(a)' = 0
    BY <1>3 DEF ToCharge
<1>8. fails' = fails => done /\ T_updacc' = Payer
    BY <1>2, <1>3 DEF Calls, Found, DbTypes
<1>. QED  BY <1>6, <1>7, <1>8 DEF Charged

(* A step that changes no term of the equation *)
TermsStay ==
    \A a \in Accounts :
        /\ Net(a)' = Net(a) /\ paid'[a] = paid[a] /\ Used(a)' = Used(a) /\ TaxPaid(a)' = TaxPaid(a)
        /\ InFlight(a)' = InFlight(a) /\ BeingMoved(a)' = BeingMoved(a) /\ ToCharge(a)' = ToCharge(a)

(* The books of an account, with the terms in the order the proofs add them *)
BalancedIs(a) == Net(a) = (paid[a] - Used(a) - TaxPaid(a) - InFlight(a)) + BeingMoved(a) + ToCharge(a)
Clean(a) == untaken[a] = 0 /\ unbooked[a] = 0

(* The equation of the books is the one of what an account has net of       *)
(* failures.                                                                *)
LEMMA BalancedAre ==
    Types => (BooksFollow <=> /\ crashes = 0 /\ ~halfway => \A a \in Accounts : BalancedIs(a)
                              /\ fails = 0 => \A a \in Accounts : Clean(a))
<1>. SUFFICES ASSUME Types PROVE \A a \in Accounts : BalancedIs(a) <=> sum[a] + unbooked[a] = Balance(a)
    BY DEF BooksFollow, Clean
<1>. TAKE a \in Accounts
<1>1. /\ sum[a] \in Int /\ untaken[a] \in Nat /\ unbooked[a] \in Nat
      /\ paid[a] \in Nat /\ Used(a) \in Nat /\ TaxPaid(a) \in Nat
      /\ InFlight(a) \in Nat /\ BeingMoved(a) \in Int /\ ToCharge(a) \in Nat
    BY TypesAreAmounts DEF AmountsAre
<1>2. Balance(a) = paid[a] - Used(a) - TaxPaid(a) - InFlight(a) + BeingMoved(a) + untaken[a] + ToCharge(a)
    BY DEF Balance, ToCharge
<1>. QED  BY <1>1, <1>2 DEF BalancedIs, Net

(* Nothing was billed before the logger starts but what the table says *)
LEMMA InitBooks == Init /\ Types => BooksFollow
<1>. SUFFICES ASSUME Init, Types, NEW a \in Accounts PROVE BalancedIs(a) /\ Clean(a)
    BY BalancedAre
<1>1. AmountsAre
    BY TypesAreAmounts
<1>2. /\ sum[a] = 0 /\ untaken[a] = 0 /\ unbooked[a] = 0 /\ paid[a] = Used(a)
      /\ InFlight(a) = 0 /\ BeingMoved(a) = 0 /\ ToCharge(a) = 0
    BY DEF Init, InFlight, BeingMoved, ToCharge
<1>3. TaxPaid(a) = 0
    <2>1. payments[a] = [d \in Days |-> 0]
        BY DEF Init, Days
    <2>2. TaxPaid(a) = SumFunctionOnSet(payments[a], Days) /\ \A d \in Days : payments[a][d] \in {0}
        BY <2>1, TaxPaidIs DEF TaxesAdd
    <2>3. IsFiniteSet(Days)
        <3>1. 0 \in Int /\ setup.days \in Int
            BY DaysAre DEF DaysAreTyped
        <3>. QED  BY <3>1, FS_Interval DEF Days
    <2>4. 0 \in {0} /\ \A i, j \in {0} : i + j \in {0}
        OBVIOUS
    <2>5. SumFunctionOnSet(payments[a], Days) \in {0}
        <3>. HIDE DEF Days
        <3>. QED  BY <2>2, <2>3, <2>4, SumType
    <2>. QED  BY <2>2, <2>5
<1>4. Net(a) = 0
    BY <1>2 DEF Net
<1>. QED  BY <1>1, <1>2, <1>3, <1>4 DEF AmountsAre, BalancedIs, Clean

(* Only a failure leaves something untaken, or not booked.                  *)
LEMMA CleanStays == Types /\ [Next]_vars /\ fails' = fails => \A a \in Accounts : Clean(a) => Clean(a)'
<1>. SUFFICES ASSUME Types, [Next]_vars, fails' = fails, NEW a \in Accounts, Clean(a) PROVE Clean(a)'
    OBVIOUS
<1>1. ASSUME UNCHANGED <<untaken, unbooked>> PROVE Clean(a)'
    BY <1>1 DEF Clean
<1>2. CASE Cycle
    <2>1. CASE Charging
        BY <2>1, SessionIsCharged DEF Charged, Clean
    <2>2. CASE ~Charging
        <3>1. UNCHANGED <<untaken, unbooked>>
            BY <1>2, <2>2 DEF Cycle, LoadTaxes, LoadDetails, LoadAccount, AccountsEnd, LoadNic, NicsEnd,
                SwapLog, SwapRules, Table, Signal, SetTime, Bill, Charging, BillEnd, dbVars, bookVars
        <3>. QED  BY <1>1, <3>1
    <2>. QED  BY <2>1, <2>2
<1>3. CASE EndOfDayThread
    <2>1. CASE Taxing
        BY <2>1, TaxIsTaken DEF TaxTaken, Clean
    <2>2. CASE Paying
        <3>1. Next
            BY <1>3 DEF Next
        <3>. QED  BY <2>2, <3>1, TaxIsPaid DEF TaxRecorded, Clean
    <2>3. CASE ~Taxing /\ ~Paying
        <3>1. UNCHANGED <<untaken, unbooked>>
            BY <1>3, <2>3 DEF EndOfDayThread, EodStart, EodWake, EodDate, EodSkip, EodEnd, Taxing, Paying,
                dbVars, bookVars
        <3>. QED  BY <1>1, <3>1
    <2>. QED  BY <2>1, <2>2, <2>3
<1>4. CASE Others \/ Tool \/ (\E t \in Threads : Store(t)) \/ UNCHANGED vars
    <2>1. UNCHANGED <<untaken, unbooked>>
        BY <1>4 DEF Others, Restart, Midnight, NewTariff, EodSpurious, Match, Pay, Switch, Tool, Store, vars,
            dbVars, bookVars
    <2>. QED  BY <1>1, <2>1
<1>. QED  BY <1>2, <1>3, <1>4 DEF Next

(* The books after every step: what one side loses the other has lost, too *)
LEMMA BooksKept == Types /\ BooksFollow /\ [Next]_vars => BooksFollow'
<1>. SUFFICES ASSUME Types, BooksFollow, [Next]_vars PROVE BooksFollow'
    OBVIOUS
<1>a. Types' /\ DayStep /\ FailsGrow
    BY TypesKept, DaySteps
<1>b. AmountsAre /\ AmountsAre'
    <2>1. (Types => AmountsAre)'
        BY TypesAreAmounts, PTL
    <2>. QED  BY <1>a, <2>1, TypesAreAmounts
<1>c. /\ crashes = 0 /\ ~halfway => \A a \in Accounts : BalancedIs(a)
      /\ fails = 0 => \A a \in Accounts : Clean(a)
    BY BalancedAre
<1>d. fails' = 0 => \A a \in Accounts : Clean(a)'
    <2>1. fails' = 0 => fails = 0
        BY <1>a DEF FailsGrow, Types, DbTypes
    <2>. QED  BY <1>c, <2>1, CleanStays
<1>. DEFINE Goal == \A a \in Accounts : BalancedIs(a)'
            Balanced == \A a \in Accounts : BalancedIs(a)
<1>. SUFFICES ASSUME crashes' = 0, ~halfway' PROVE Goal
    <2>1. (Types => (BooksFollow <=> /\ crashes = 0 /\ ~halfway => \A a \in Accounts : BalancedIs(a)
                                     /\ fails = 0 => \A a \in Accounts : Clean(a)))'
        BY BalancedAre, PTL
    <2>. QED  BY <1>a, <1>d, <2>1
<1>f. crashes = 0
    BY <1>a DEF DayStep, Elsewhere, NewTable, Signalled, TimeIsSet, Waits, Stirs, Wakes, Dates, Taxes, Pays,
        Skips, DayBegins, Restarts, Types, DbTypes
<1>g. ~halfway => Balanced
    BY <1>c, <1>f
<1>0. DbTypes /\ LoggerTypes /\ DayTypes /\ ToolTypes
    BY DEF Types
<1>h. UNCHANGED <<sum, untaken, unbooked>> => \A a : Net(a)' = Net(a)
    BY DEF Net
<1>. HIDE DEF AmountsAre
<1>1. ASSUME TermsStay, ~halfway PROVE Goal
    BY <1>1, <1>g DEF TermsStay, BalancedIs
<1>2. CASE Cycle
    <2>0. UNCHANGED <<paid, payments, todo, toolVars>> /\ ~halfway
        BY <1>2 DEF Cycle, ReadTaxes, LoadTaxes, ReadDetails, LoadDetails, LoadAccount, AccountsEnd, LoadNic,
            NicsEnd,
            SwapLog, SwapRules, Table, Signal, SetTime, Bill, Charging, Charge, BillEnd, dbVars, bookVars, eodVars, toolVars
    <2>1. \A a : TaxPaid(a)' = TaxPaid(a) /\ BeingMoved(a)' = BeingMoved(a)
        BY <2>0, TaxPaidStays, BeingMovedStays DEF toolVars
    <2>2. CASE Bill
        <3>1. /\ UNCHANGED <<sum, untaken, unbooked, eod>> /\ pc = "bill" /\ SessionTypes
            BY <1>0, <2>2, SessionIsTyped DEF Bill, bookVars, eodVars
        <3>2. \A a : InFlight(a)' = InFlight(a)
            BY <2>0, <3>1, InFlightStays
        <3>3. CASE First.card \in shdw_NICs
            <4>1. /\ tlog' = Added(tlog, First.card, SessionPrice) /\ pc' = "charge"
                  /\ UNCHANGED <<captured_log, shdw_taxes>>
                BY <2>2, <3>3 DEF Bill, Added, listVars
            <4>2. \A a \in Accounts : Used(a)' = Used(a) + (IF Payer = a THEN SessionPrice ELSE 0)
                <5>1. First.card \in Nics /\ SessionPrice \in Nat /\ tlog \in [Nics -> Nat]
                    BY <1>0, <3>1, <3>3 DEF SessionTypes, ToolTypes, Billing
                <5>. QED  BY <4>1, <5>1, BillIsUsed DEF Payer
            <4>3. \A a : ToCharge(a)' = (IF Payer = a THEN SessionPrice ELSE 0) /\ ToCharge(a) = 0
                BY <3>1, <4>1, SessionStays DEF ToCharge
            <4>4. Balanced
                BY <1>g, <2>0
            <4>. QED  BY <1>b, <1>h, <2>0, <2>1, <3>1, <3>2, <4>2, <4>3, <4>4 DEF AmountsAre, SessionTypes,
                BalancedIs
        <3>4. CASE First.card \notin shdw_NICs
            <4>1. UNCHANGED <<tlog, pc>>
                BY <2>2, <3>4 DEF Bill
            <4>2. \A a : Used(a)' = Used(a) /\ ToCharge(a)' = ToCharge(a)
                BY <3>1, <4>1, UsedStays, ToChargeStays
            <4>3. TermsStay
                BY <1>h, <2>0, <2>1, <3>1, <3>2, <4>2 DEF TermsStay
            <4>. QED  BY <1>1, <2>0, <4>3
        <3>. QED  BY <3>3, <3>4
    <2>3. CASE Charging
        <3>1. UNCHANGED <<tlog, eod>>
            BY <2>3 DEF Charging, Charge, eodVars
        <3>2. \A a : InFlight(a)' = InFlight(a) /\ Used(a)' = Used(a)
            BY <2>0, <3>1, InFlightStays, UsedStays
        <3>3. \A a \in Accounts : Net(a)' = Net(a) - ToCharge(a) /\ ToCharge(a)' = 0
            BY <2>3, SessionIsCharged DEF Charged
        <3>4. Balanced
            BY <1>g, <2>0
        <3>. QED  BY <1>b, <2>0, <2>1, <3>2, <3>3, <3>4 DEF AmountsAre, BalancedIs
    <2>4. CASE Signal
        <3>1. /\ UNCHANGED <<sum, untaken, unbooked, tlog>> /\ pc = "signal" /\ pc' = "time"
              /\ eod # "pay" /\ eod' # "pay"
            BY <2>4 DEF Signal, dbVars, bookVars, EODMutexFree
        <3>2. \A a : InFlight(a)' = InFlight(a) /\ Used(a)' = Used(a) /\ ToCharge(a)' = ToCharge(a)
            BY <3>1, InFlightStays, UsedStays, ToChargeStays
        <3>3. TermsStay
            BY <1>h, <2>0, <2>1, <3>1, <3>2 DEF TermsStay
        <3>. QED  BY <1>1, <2>0, <3>3
    <2>5. CASE ReadTaxes \/ ReadDetails \/ LoadAccount \/ AccountsEnd \/ LoadNic \/ NicsEnd \/ SwapLog \/ SwapRules \/ Table
              \/ SetTime \/ BillEnd
        <3>1. UNCHANGED <<sum, untaken, unbooked, tlog, eod>> /\ pc # "charge" /\ pc' # "charge"
            BY <2>5 DEF ReadTaxes, LoadTaxes, ReadDetails, LoadDetails, LoadAccount, AccountsEnd, LoadNic,
                NicsEnd, SwapLog, SwapRules, Table,
                SetTime, BillEnd, dbVars, bookVars, eodVars
        <3>2. \A a : InFlight(a)' = InFlight(a) /\ Used(a)' = Used(a) /\ ToCharge(a)' = ToCharge(a)
            BY <2>0, <3>1, InFlightStays, UsedStays, ToChargeStays
        <3>3. TermsStay
            BY <1>h, <2>0, <2>1, <3>1, <3>2 DEF TermsStay
        <3>. QED  BY <1>1, <2>0, <3>3
    <2>. QED  BY <1>2, <2>2, <2>3, <2>4, <2>5 DEF Cycle, ReadTaxes, ReadDetails, Charging
<1>3. CASE EndOfDayThread
    <2>0. UNCHANGED <<paid, tlog, pc, captured_log, shdw_taxes, toolVars>> /\ ~halfway
        BY <1>3 DEF EndOfDayThread, EodStart, EodWake, EodDate, Taxing, EodTax, Paying, EodPay, EodSkip,
            EodEnd, dbVars, bookVars, loggerVars, listVars, toolVars
    <2>1. \A a : Used(a)' = Used(a) /\ BeingMoved(a)' = BeingMoved(a) /\ ToCharge(a)' = ToCharge(a)
        BY <2>0, UsedStays, BeingMovedStays, ToChargeStays DEF toolVars
    <2>2. CASE EodStart \/ EodWake \/ EodDate \/ EodSkip \/ EodEnd
        <3>1. UNCHANGED <<sum, untaken, unbooked, payments>> /\ eod # "pay" /\ eod' # "pay"
            BY <2>2 DEF EodStart, EodWake, EodDate, EodSkip, EodEnd, dbVars, bookVars
        <3>2. \A a : InFlight(a)' = InFlight(a) /\ TaxPaid(a)' = TaxPaid(a)
            BY <3>1, InFlightStays, TaxPaidStays
        <3>3. TermsStay
            BY <1>h, <2>0, <2>1, <3>1, <3>2 DEF TermsStay
        <3>. QED  BY <1>1, <2>0, <3>3
    <2>3. CASE Taxing
        <3>1. Balanced
            BY <1>g, <2>0
        <3>2. \A a \in Accounts : TaxTaken(a)
            BY <2>3, TaxIsTaken
        <3>. QED  BY <1>b, <2>0, <2>1, <3>1, <3>2 DEF AmountsAre, TaxTaken, BalancedIs
    <2>4. CASE Paying
        <3>1. Balanced
            BY <1>g, <2>0
        <3>2. Next
            BY <1>3 DEF Next
        <3>3. \A a \in Accounts : TaxRecorded(a)
            BY <2>4, <3>2, TaxIsPaid
        <3>4. \A a \in Accounts : Net(a)' + TaxPaid(a)' = Net(a) + TaxPaid(a) + Due(a)
            BY <1>b, <3>3 DEF TaxRecorded, Net, AmountsAre
        <3>5. \A a \in Accounts : InFlight(a) = Due(a) /\ InFlight(a)' = 0 /\ Due(a) \in Nat
            BY <3>3 DEF TaxRecorded
        <3>. QED  BY <1>b, <2>0, <2>1, <3>1, <3>4, <3>5 DEF AmountsAre, BalancedIs
    <2>. QED  BY <1>3, <2>2, <2>3, <2>4 DEF EndOfDayThread, Taxing, Paying
<1>4. CASE UNCHANGED <<sum, untaken, unbooked, paid, tlog, payments, eod, todo, pc, captured_log, shdw_taxes,
                       tool, table, tool_row, halfway>>
    <2>1. \A a : /\ Used(a)' = Used(a) /\ TaxPaid(a)' = TaxPaid(a) /\ InFlight(a)' = InFlight(a)
                 /\ BeingMoved(a)' = BeingMoved(a) /\ ToCharge(a)' = ToCharge(a)
        BY <1>4, UsedStays, TaxPaidStays, InFlightStays, BeingMovedStays, ToChargeStays
    <2>2. TermsStay /\ ~halfway
        BY <1>h, <1>4, <2>1 DEF TermsStay
    <2>. QED  BY <1>1, <2>2
<1>5. ASSUME NEW t \in Threads, Store(t) PROVE Goal
    BY <1>4, <1>5 DEF Store, dbVars, bookVars, eodVars, loggerVars, listVars, toolVars
<1>6. CASE Others
    <2>1. CASE Restart
        BY <1>f, <2>1 DEF Restart
    <2>2. CASE Midnight \/ NewTariff
        BY <1>4, <1>6, <2>2 DEF Others, Midnight, NewTariff, dbVars, bookVars, eodVars, loggerVars, listVars,
            toolVars
    <2>6. CASE EodSpurious
        <3>1. /\ UNCHANGED <<sum, untaken, unbooked, paid, tlog, payments, pc, captured_log, shdw_taxes, toolVars>>
              /\ eod # "pay" /\ eod' # "pay" /\ ~halfway
            BY <1>6, <2>6 DEF Others, EodSpurious, dbVars, bookVars, loggerVars, listVars, toolVars
        <3>2. \A a : /\ Used(a)' = Used(a) /\ TaxPaid(a)' = TaxPaid(a) /\ InFlight(a)' = InFlight(a)
                     /\ BeingMoved(a)' = BeingMoved(a) /\ ToCharge(a)' = ToCharge(a)
            BY <3>1, UsedStays, TaxPaidStays, InFlightStays, BeingMovedStays, ToChargeStays DEF toolVars
        <3>3. TermsStay
            BY <1>h, <3>1, <3>2 DEF TermsStay
        <3>. QED  BY <1>1, <3>1, <3>3
    <2>3. ASSUME NEW t \in Threads, NEW n \in Nics, NEW h \in setup.hosts, Match(t, n, h) PROVE Goal
        BY <1>4, <1>6, <2>3 DEF Others, Match, dbVars, bookVars, eodVars, loggerVars, listVars, toolVars
    <2>4. ASSUME NEW n \in Nics, Switch(n) PROVE Goal
        BY <1>4, <1>6, <2>4 DEF Others, Switch, bookVars, eodVars, loggerVars, listVars, toolVars
    <2>5. ASSUME NEW b \in Accounts, Pay(b) PROVE Goal
        <3>1. /\ UNCHANGED <<untaken, unbooked, tlog, payments, eod, todo, pc, captured_log, shdw_taxes, toolVars>> /\ ~halfway
              /\ sum' = [sum EXCEPT ![b] = @ + 1] /\ paid' = [paid EXCEPT ![b] = @ + 1]
            BY <1>6, <2>5 DEF Others, Pay, bookVars, eodVars, loggerVars, listVars, toolVars
        <3>2. \A a : /\ Used(a)' = Used(a) /\ TaxPaid(a)' = TaxPaid(a) /\ InFlight(a)' = InFlight(a)
                     /\ BeingMoved(a)' = BeingMoved(a) /\ ToCharge(a)' = ToCharge(a)
            BY <3>1, UsedStays, TaxPaidStays, InFlightStays, BeingMovedStays, ToChargeStays DEF toolVars
        <3>3. \A a \in Accounts : \/ sum'[a] = sum[a] + 1 /\ paid'[a] = paid[a] + 1
                                  \/ sum'[a] = sum[a] /\ paid'[a] = paid[a]
            BY <1>0, <3>1 DEF DbTypes
        <3>4. \A a \in Accounts : Net(a)' - paid'[a] = Net(a) - paid[a]
            <4>1. \A a \in Accounts : untaken'[a] = untaken[a] /\ unbooked'[a] = unbooked[a]
                BY <3>1
            <4>. QED  BY <1>b, <3>3, <4>1 DEF Net, AmountsAre
        <3>5. Balanced
            BY <1>g, <3>1
        <3>. QED  BY <1>b, <3>2, <3>4, <3>5 DEF AmountsAre, BalancedIs
    <2>. QED  BY <1>6, <2>1, <2>2, <2>3, <2>4, <2>5, <2>6 DEF Others
<1>7. CASE Tool
    <2>0. UNCHANGED <<paid, untaken, unbooked, payments, eod, todo, pc, captured_log, shdw_taxes>>
        BY <1>7 DEF Tool, bookVars, eodVars, loggerVars, listVars
    <2>1. \A a : TaxPaid(a)' = TaxPaid(a) /\ InFlight(a)' = InFlight(a) /\ ToCharge(a)' = ToCharge(a)
        BY <2>0, TaxPaidStays, InFlightStays, ToChargeStays
    <2>2. CASE ToolStart \/ ToolSkip
        <3>1. UNCHANGED <<sum, tlog, halfway>> /\ tool \notin {"add", "log"} /\ tool' \notin {"add", "log"}
            BY <2>2 DEF ToolStart, ToolSkip
        <3>2. \A a : Used(a)' = Used(a) /\ BeingMoved(a)' = BeingMoved(a)
            BY <3>1, UsedStays, BeingMovedStays
        <3>3. TermsStay
            BY <1>h, <2>0, <2>1, <3>1, <3>2 DEF TermsStay
        <3>. QED  BY <1>1, <3>1, <3>3
    <2>3. CASE ToolEnd
        <3>1. UNCHANGED <<sum, tlog>> /\ tool \notin {"add", "log"} /\ tool' \notin {"add", "log"} /\ ~halfway
            BY <2>3 DEF ToolEnd
        <3>2. \A a : Used(a)' = Used(a) /\ BeingMoved(a)' = BeingMoved(a)
            BY <3>1, UsedStays, BeingMovedStays
        <3>3. TermsStay
            BY <1>h, <2>0, <2>1, <3>1, <3>2 DEF TermsStay
        <3>. QED  BY <1>1, <3>1, <3>3
    <2>. DEFINE p == Row.price
                r == Row.right
                c == Row.card
                Got(a) == IF Owner[c] = a THEN p ELSE 0
                Gave(a) == IF Owner[r] = a THEN p ELSE 0
    <2>4. CASE ToolSub \/ ToolAdd \/ ToolLog
        <3>1. tool_row <= Len(table) /\ Row.right \notin {0, Row.card} /\ ~halfway
            BY <1>0, <2>4 DEF ToolSub, ToolAdd, ToolLog, ToolTypes
        <3>2. Row \in TableRow
            BY <1>0, <3>1 DEF ToolTypes, Row
        <3>3. p \in Nat /\ r \in Nics /\ c \in Nics /\ r # c /\ Owner[r] \in Accounts /\ Owner[c] \in Accounts
            BY <3>1, <3>2, BillingAssumption DEF TableRow, Nics
        <3>4. \A a : Got(a) \in Nat /\ Gave(a) \in Nat
            BY <3>3
        <3>5. Balanced
            BY <1>g, <3>1
        <3>6. CASE ToolSub
            <4>1. /\ tool = "check" /\ tool' = "add" /\ UNCHANGED <<table, tool_row, tlog>>
                  /\ sum' = [sum EXCEPT ![Owner[r]] = @ - p]
                BY <3>6 DEF ToolSub
            <4>2. \A a : Used(a)' = Used(a)
                BY <4>1, UsedStays
            <4>3. Row' = Row
                BY <4>1 DEF Row
            <4>4. \A a : BeingMoved(a) = 0 /\ BeingMoved(a)' = 0 - Gave(a)
                BY <3>4, <4>1, <4>3 DEF BeingMoved
            <4>5. \A a \in Accounts : sum'[a] = sum[a] - Gave(a)
                <5>. DEFINE o == Owner[r]
                <5>1. sum \in [Accounts -> Int] /\ sum' = [sum EXCEPT ![o] = sum[o] - p] /\ o \in Accounts /\ p \in Int
                    BY <1>0, <3>3, <4>1 DEF DbTypes
                <5>. HIDE DEF o, p
                <5>2. \A a \in Accounts : sum'[a] = (IF o = a THEN sum[a] - p ELSE sum[a]) /\ sum[a] \in Int
                    BY <5>1
                <5>3. \A a : Gave(a) = IF o = a THEN p ELSE 0
                    BY DEF o, p
                <5>. HIDE DEF Gave
                <5>. QED  BY <5>1, <5>2, <5>3
            <4>. HIDE DEF Got, Gave
            <4>6. \A a \in Accounts : Net(a)' = Net(a) - Gave(a)
                BY <1>b, <2>0, <3>4, <4>5 DEF Net, AmountsAre
            <4>. QED  BY <1>b, <2>0, <2>1, <3>4, <3>5, <4>2, <4>4, <4>6 DEF AmountsAre, BalancedIs
        <3>7. CASE ToolAdd
            <4>1. /\ tool = "add" /\ tool' = "log" /\ UNCHANGED <<table, tool_row, tlog>>
                  /\ sum' = [sum EXCEPT ![Owner[c]] = @ + p]
                BY <3>7 DEF ToolAdd
            <4>2. \A a : Used(a)' = Used(a)
                BY <4>1, UsedStays
            <4>3. Row' = Row
                BY <4>1 DEF Row
            <4>4. \A a : BeingMoved(a) = 0 - Gave(a) /\ BeingMoved(a)' = Got(a) - Gave(a)
                BY <3>4, <4>1, <4>3 DEF BeingMoved
            <4>5. \A a \in Accounts : sum'[a] = sum[a] + Got(a)
                <5>. DEFINE o == Owner[c]
                <5>1. sum \in [Accounts -> Int] /\ sum' = [sum EXCEPT ![o] = sum[o] + p] /\ o \in Accounts /\ p \in Int
                    BY <1>0, <3>3, <4>1 DEF DbTypes
                <5>. HIDE DEF o, p
                <5>2. \A a \in Accounts : sum'[a] = (IF o = a THEN sum[a] + p ELSE sum[a]) /\ sum[a] \in Int
                    BY <5>1
                <5>3. \A a : Got(a) = IF o = a THEN p ELSE 0
                    BY DEF o, p
                <5>. HIDE DEF Got
                <5>. QED  BY <5>1, <5>2, <5>3
            <4>. HIDE DEF Got, Gave
            <4>6. \A a \in Accounts : Net(a)' = Net(a) + Got(a)
                BY <1>b, <2>0, <3>4, <4>5 DEF Net, AmountsAre
            <4>. QED  BY <1>b, <2>0, <2>1, <3>4, <3>5, <4>2, <4>4, <4>6 DEF AmountsAre, BalancedIs
        <3>8. CASE ToolLog
            <4>1. /\ tool = "log" /\ tool' = "check" /\ UNCHANGED sum
                  /\ tlog' = Moved(tlog, c, r, p)
                BY <3>8 DEF ToolLog, Moved
            <4>2. \A a \in Accounts : Used(a)' = Used(a) + (Gave(a) - Got(a))
                <5>. HIDE DEF p, c, r
                <5>1. tlog \in [Nics -> Nat]
                    BY <1>0 DEF ToolTypes
                <5>. QED  BY <3>3, <4>1, <5>1, RowIsMoved
            <4>4. \A a : BeingMoved(a) = Got(a) - Gave(a) /\ BeingMoved(a)' = 0
                BY <3>4, <4>1 DEF BeingMoved
            <4>. HIDE DEF Got, Gave
            <4>. QED  BY <1>b, <1>h, <2>0, <2>1, <3>4, <3>5, <4>1, <4>2, <4>4 DEF AmountsAre, BalancedIs
        <3>. QED  BY <2>4, <3>6, <3>7, <3>8
    <2>. QED  BY <1>7, <2>2, <2>3, <2>4 DEF Tool
<1>8. CASE UNCHANGED vars
    BY <1>4, <1>8 DEF vars, dbVars, bookVars, eodVars, loggerVars, listVars, toolVars
<1>. QED  BY <1>2, <1>3, <1>5, <1>6, <1>7, <1>8 DEF Next

----------------------------------------------------------------------------
(* Prices: what a list of taxes names for hosts H, and what the first n     *)
(* tariffs name.                                                            *)
NamedBy(t, H) ==
    {t.taxes[k] : k \in DOMAIN t.taxes}
    \cup {t.details[k].price : k \in {j \in DOMAIN t.details : t.details[j].hosts \cap H # {}}}
AllBy(n, H) == (UNION {NamedBy(Tariffs[i], H) : i \in 1 .. n}) \cup {0}

(* The image of a finite set is finite.                                     *)
LEMMA ImageFinite ==
    ASSUME NEW S, IsFiniteSet(S), NEW f
    PROVE  IsFiniteSet({f[k] : k \in S})
<1>. DEFINE T == {f[k] : k \in S}
            g == [k \in S |-> f[k]]
<1>1. g \in Surjection(S, T)
    <2>1. g \in [S -> T] /\ \A x \in T : \E k \in S : g[k] = x
        OBVIOUS
    <2>. QED  BY <2>1 DEF Surjection
<1>. HIDE DEF g, T
<1>2. IsFiniteSet(T)
    BY <1>1, FS_Surjection
<1>. QED  BY <1>2 DEF T

(* A list of taxes names finitely many prices.                              *)
LEMMA NamedFinite ==
    ASSUME NEW t, NEW H, t.taxes \in Seq(Nat), t.details \in Seq(Details)
    PROVE  IsFiniteSet(NamedBy(t, H)) /\ NamedBy(t, H) \subseteq Nat
<1>. DEFINE D == {j \in DOMAIN t.details : t.details[j].hosts \cap H # {}}
            f == Prices(t.details)
            A == {t.taxes[k] : k \in DOMAIN t.taxes}
            B == {f[k] : k \in D}
<1>1. /\ DOMAIN t.taxes = 1 .. Len(t.taxes) /\ Len(t.taxes) \in Nat
      /\ DOMAIN t.details = 1 .. Len(t.details) /\ Len(t.details) \in Nat
    OBVIOUS
<1>2. IsFiniteSet(DOMAIN t.taxes) /\ IsFiniteSet(DOMAIN t.details)
    BY <1>1, FS_Interval
<1>3. IsFiniteSet(A)
    BY <1>2, ImageFinite
<1>4. IsFiniteSet(B)
    <2>1. IsFiniteSet(D)
        <3>1. D \in SUBSET DOMAIN t.details
            OBVIOUS
        <3>. HIDE DEF D
        <3>. QED  BY <1>2, <3>1, FS_Subset
    <2>. HIDE DEF D, f
    <2>. QED  BY <2>1, ImageFinite
<1>5. \A k \in D : f[k] = t.details[k].price /\ f[k] \in Nat
    <2>1. \A k \in DOMAIN t.details : t.details[k] \in Details
        BY <1>1
    <2>. QED  BY <2>1 DEF Prices, Details
<1>6. NamedBy(t, H) = A \cup B
    BY <1>5 DEF NamedBy
<1>7. A \subseteq Nat /\ B \subseteq Nat
    <2>1. A \subseteq Nat
        BY <1>1
    <2>2. B \subseteq Nat
        <3>. HIDE DEF D, f
        <3>. QED  BY <1>5
    <2>. QED  BY <2>1, <2>2
<1>8. IsFiniteSet(A \cup B)
    <2>. HIDE DEF A, B
    <2>. QED  BY <1>3, <1>4, FS_Union
<1>. QED  BY <1>6, <1>7, <1>8

(* The dearest price is one of the prices, and no price exceeds it.         *)
LEMMA DearestIs ==
    ASSUME NEW n \in DOMAIN Tariffs, NEW H
    PROVE  /\ AllBy(n, H) \subseteq Nat /\ Max(AllBy(n, H)) \in AllBy(n, H)
           /\ \A p \in AllBy(n, H) : p <= Max(AllBy(n, H))
<1>. DEFINE I == 1 .. n
            f == [i \in I |-> NamedBy(Tariffs[i], H)]
            U == {f[i] : i \in I}
            V == UNION U
            S == V \cup {0}
<1>1. n \in Nat \ {0} /\ I \subseteq DOMAIN Tariffs
    BY BillingAssumption
<1>2. IsFiniteSet(I)
    <2>1. 1 \in Int /\ n \in Int
        BY <1>1
    <2>. QED  BY <2>1, FS_Interval
<1>3. \A i \in I : IsFiniteSet(f[i]) /\ f[i] \subseteq Nat
    <2>1. \A i \in I : IsFiniteSet(NamedBy(Tariffs[i], H)) /\ NamedBy(Tariffs[i], H) \subseteq Nat
        BY <1>1, NamedFinite, BillingAssumption
    <2>. QED  BY <2>1
<1>4. AllBy(n, H) = S
    <2>1. \A i \in I : f[i] = NamedBy(Tariffs[i], H)
        OBVIOUS
    <2>. DEFINE W == {NamedBy(Tariffs[i], H) : i \in 1 .. n}
    <2>2. U = W
        <3>. HIDE DEF f
        <3>. QED  BY <2>1
    <2>3. AllBy(n, H) = (UNION W) \cup {0}
        BY DEF AllBy
    <2>. HIDE DEF f, U, W
    <2>4. S = (UNION U) \cup {0}
        OBVIOUS
    <2>. HIDE DEF V, S
    <2>5. AllBy(n, H) = (UNION U) \cup {0}
        BY <2>2, <2>3
    <2>. QED  BY <2>4, <2>5
<1>. HIDE DEF f, I
<1>5. IsFiniteSet(U) /\ \A T \in U : IsFiniteSet(T) /\ T \subseteq Nat
    BY <1>2, <1>3, ImageFinite
<1>. HIDE DEF U
<1>6. IsFiniteSet(V) /\ V \subseteq Nat
    BY <1>5, FS_UNION
<1>. HIDE DEF V
<1>7. IsFiniteSet(S) /\ S \in SUBSET Int /\ S # {} /\ S \subseteq Nat
    <2>1. IsFiniteSet(S)
        BY <1>6, FS_AddElement
    <2>. QED  BY <1>6, <2>1
<1>. HIDE DEF S
<1>8. Max(S) \in S /\ \A p \in S : Max(S) >= p
    BY <1>7, MaxIn
<1>9. \A p \in S : p <= Max(S)
    BY <1>7, <1>8
<1>. QED  BY <1>4, <1>7, <1>8, <1>9

(* MaxPrice is the dearest price of the tariffs known so far.               *)
MaxIsPrice ==
    /\ AllPrices(tariff) \subseteq Nat /\ MaxPrice \in Nat /\ MaxPrice \in AllPrices(tariff)
    /\ \A p \in AllPrices(tariff) : p <= MaxPrice

(* No tariff in force names a price above MaxPrice.                         *)
LEMMA MaxPriceIs == Types => MaxIsPrice
<1>1. Types => tariff \in DOMAIN Tariffs
    BY DEF Types, DbTypes
<1>2. MaxPrice = Max(AllBy(tariff, setup.hosts)) /\ AllPrices(tariff) = AllBy(tariff, setup.hosts)
    BY DEF MaxPrice, AllPrices, AllBy, Named, NamedBy
<1>. QED  BY <1>1, <1>2, DearestIs DEF MaxIsPrice

(* The price a list has for an account and a host is one it names.          *)
LEMMA PriceIsNamed ==
    ASSUME NEW list \in TaxLists, NEW a \in Accounts, NEW h \in setup.hosts, Tax[a] \in DOMAIN list.taxes
    PROVE  PriceOf(list, a, h) \in Named(list)
<1>. DEFINE d == list.details
            m == {k \in DOMAIN d : d[k].tax = Tax[a] /\ h \in d[k].hosts}
<1>1. d \in Seq(Details)
    BY DEF TaxLists
<1>2. ASSUME m # {} PROVE d[Max(m)].price \in Named(list)
    <2>1. Len(d) \in Nat /\ m \subseteq 1 .. Len(d)
        BY <1>1
    <2>2. Max(m) \in m
        <3>. HIDE DEF m
        <3>. QED  BY <1>2, <2>1, LastRow
    <2>3. Max(m) \in DOMAIN d /\ d[Max(m)].hosts \cap setup.hosts # {}
        BY <2>2
    <2>. HIDE DEF m
    <2>. QED  BY <2>3 DEF Named
<1>3. list.taxes[Tax[a]] \in Named(list)
    BY DEF Named
<1>4. PriceOf(list, a, h) = IF m = {} THEN list.taxes[Tax[a]] ELSE d[Max(m)].price
    BY DEF PriceOf
<1>. QED  BY <1>2, <1>3, <1>4

(* As much of the tariff as was read names no price the tariff does not.    *)
LEMMA ReadIsNamed ==
    ASSUME NEW i \in DOMAIN Tariffs, NEW H, NEW list \in TaxLists
    PROVE  /\ \A n \in 0 .. Len(Tariffs[i].taxes) :
                  NamedBy([taxes |-> SubSeq(Tariffs[i].taxes, 1, n), details |-> <<>>], H) \subseteq NamedBy(Tariffs[i], H)
           /\ \A n \in 0 .. Len(Tariffs[i].details) :
                  NamedBy([list EXCEPT !.details = SubSeq(Tariffs[i].details, 1, n)], H)
                      \subseteq NamedBy(list, H) \cup NamedBy(Tariffs[i], H)
<1>. DEFINE s == Tariffs[i].taxes
            d == Tariffs[i].details
<1>1. s \in Seq(Nat) /\ d \in Seq(Details)
    BY BillingAssumption
<1>2. ASSUME NEW S, NEW q \in Seq(S), NEW n \in 0 .. Len(q)
      PROVE  \A k \in DOMAIN SubSeq(q, 1, n) : k \in DOMAIN q /\ SubSeq(q, 1, n)[k] = q[k]
    OBVIOUS
<1>3. ASSUME NEW n \in 0 .. Len(s)
      PROVE  NamedBy([taxes |-> SubSeq(s, 1, n), details |-> <<>>], H) \subseteq NamedBy(Tariffs[i], H)
    <2>1. \A k \in DOMAIN SubSeq(s, 1, n) : k \in DOMAIN s /\ SubSeq(s, 1, n)[k] = s[k]
        BY <1>1, <1>2, <1>3
    <2>. QED  BY <2>1 DEF NamedBy
<1>4. ASSUME NEW n \in 0 .. Len(d)
      PROVE  NamedBy([list EXCEPT !.details = SubSeq(d, 1, n)], H) \subseteq NamedBy(list, H) \cup NamedBy(Tariffs[i], H)
    <2>1. \A k \in DOMAIN SubSeq(d, 1, n) : k \in DOMAIN d /\ SubSeq(d, 1, n)[k] = d[k]
        BY <1>1, <1>2, <1>4
    <2>. DEFINE l == [list EXCEPT !.details = SubSeq(d, 1, n)]
    <2>2. l.taxes = list.taxes /\ l.details = SubSeq(d, 1, n)
        BY DEF TaxLists
    <2>. HIDE DEF l
    <2>3. NamedBy(l, H) \subseteq NamedBy(list, H) \cup NamedBy(Tariffs[i], H)
        BY <2>1, <2>2 DEF NamedBy
    <2>. QED  BY <2>3 DEF l
<1>. QED  BY <1>3, <1>4

(* A tariff in force names no price that is not among all, and more tariffs *)
(* name no less.                                                            *)
LEMMA AllGrow ==
    ASSUME NEW n \in Nat, NEW m \in Nat, n <= m, NEW H
    PROVE  AllBy(n, H) \subseteq AllBy(m, H) /\ (n # 0 => NamedBy(Tariffs[n], H) \subseteq AllBy(n, H))
<1>1. 1 .. n \subseteq 1 .. m /\ (n # 0 => n \in 1 .. n)
    OBVIOUS
<1>. QED  BY <1>1 DEF AllBy

----------------------------------------------------------------------------
(* What a step leaves the hosts of the packets and the tariffs with *)
LEMMA OutdatedHosts ==
    FilterTypes => /\ \A k \in DOMAIN log : Outdated[k].host = log[k].host
                   /\ \A t \in Threads : pkt[t].card # 0 => OutdatedPkts[t].host = pkt[t].host
                   /\ \A t \in Threads : pkt[t].card = 0 => OutdatedPkts[t].card = 0
<1>. SUFFICES ASSUME FilterTypes
              PROVE  /\ \A k \in DOMAIN log : Outdated[k].host = log[k].host
                     /\ \A t \in Threads : pkt[t].card # 0 => OutdatedPkts[t].host = pkt[t].host
                     /\ \A t \in Threads : pkt[t].card = 0 => OutdatedPkts[t].card = 0
    OBVIOUS
<1>0. ASSUME NEW p \in Logged PROVE [p EXCEPT !.stale = TRUE].host = p.host
    BY DEF Logged
<1>1. DOMAIN log = 1 .. Len(log) /\ Len(log) \in Nat /\ \A k \in DOMAIN log : log[k] \in Logged
    BY DEF FilterTypes
<1>2. \A k \in DOMAIN log : Outdated[k].host = log[k].host
    BY <1>0, <1>1 DEF Outdated
<1>3. ASSUME NEW t \in Threads, pkt[t].card # 0 PROVE OutdatedPkts[t].host = pkt[t].host
    <2>1. pkt[t] \in Logged
        BY <1>3 DEF FilterTypes, NoPkt
    <2>2. OutdatedPkts[t] = [pkt[t] EXCEPT !.stale = TRUE]
        BY <1>3 DEF OutdatedPkts
    <2>. QED  BY <1>0, <2>1, <2>2
<1>4. ASSUME NEW t \in Threads, pkt[t].card = 0 PROVE OutdatedPkts[t].card = 0
    BY <1>4 DEF OutdatedPkts, NoPkt
<1>. QED  BY <1>2, <1>3, <1>4

(* What is matched, logged and billed has a host of this behaviour *)
HostsFollow ==
    /\ \A t \in Threads : pkt[t].card # 0 => pkt[t].host \in setup.hosts
    /\ \A k \in DOMAIN log : log[k].host \in setup.hosts
    /\ \A k \in DOMAIN captured_log : captured_log[k].host \in setup.hosts

(* Packets keep their hosts from the match to the bill.                     *)
LEMMA HostsKept == Types /\ HostsFollow /\ [Next]_vars => HostsFollow'
<1>. SUFFICES ASSUME Types, HostsFollow, [Next]_vars PROVE HostsFollow'
    OBVIOUS
<1>. USE DEF HostsFollow
<1>0. FilterTypes /\ LoggerTypes /\ setup' = setup
    BY SetupStays DEF Types, vars, boundVars
<1>1. CASE UNCHANGED <<log, pkt, captured_log>>
    BY <1>0, <1>1
<1>2. CASE Cycle
    <2>1. CASE SwapLog
        <3>1. UNCHANGED pkt /\ log' = <<>> /\ captured_log' = log
            BY <2>1 DEF SwapLog
        <3>. QED  BY <1>0, <3>1
    <2>2. CASE SwapRules
        <3>1. UNCHANGED captured_log /\ log' = Outdated /\ pkt' = OutdatedPkts
            BY <2>2 DEF SwapRules
        <3>2. DOMAIN log' = DOMAIN log
            BY <1>0, <3>1, OutdatedTyped
        <3>. QED  BY <1>0, <3>1, <3>2, OutdatedHosts
    <2>3. CASE Bill \/ Charging
        <3>1. UNCHANGED <<log, pkt>> /\ (captured_log' = captured_log \/ captured_log' = OtherSessions)
            BY <2>3 DEF Bill, Charging, Charge, filterVars
        <3>2. DOMAIN OtherSessions \subseteq DOMAIN captured_log
              /\ \A k \in DOMAIN OtherSessions : OtherSessions[k] = captured_log[k]
            BY DEF OtherSessions, Restrict
        <3>3. \A k \in DOMAIN captured_log' : k \in DOMAIN captured_log /\ captured_log'[k] = captured_log[k]
            BY <3>1, <3>2
        <3>. QED  BY <1>0, <3>1, <3>3
    <2>4. CASE ReadTaxes \/ ReadDetails \/ LoadAccount \/ AccountsEnd \/ LoadNic \/ NicsEnd \/ Table \/ Signal
              \/ SetTime \/ BillEnd
        BY <1>1, <2>4 DEF ReadTaxes, LoadTaxes, ReadDetails, LoadDetails, LoadAccount, AccountsEnd, LoadNic,
            NicsEnd,
            Table, Signal, SetTime, BillEnd, filterVars
    <2>. QED  BY <1>2, <2>1, <2>2, <2>3, <2>4 DEF Cycle, ReadTaxes, ReadDetails, Charging
<1>3. CASE EndOfDayThread
    BY <1>1, <1>3 DEF EndOfDayThread, EodStart, EodWake, EodDate, EodTax, EodPay, EodSkip, EodEnd, filterVars,
        loggerVars
<1>4. ASSUME NEW t \in Threads, Store(t) PROVE HostsFollow'
    <2>1. /\ UNCHANGED captured_log /\ pkt[t].card # 0 /\ (log' = log \/ log' = Append(log, pkt[t]))
          /\ pkt' = [pkt EXCEPT ![t] = NoPkt]
        BY <1>4 DEF Store, loggerVars
    <2>2. \A s \in Threads : pkt'[s] = IF s = t THEN NoPkt ELSE pkt[s]
        BY <1>0, <2>1 DEF FilterTypes
    <2>3. \A k \in DOMAIN log' : log'[k].host \in setup.hosts
        <3>1. log \in Seq(Logged) /\ pkt[t] \in Logged
            BY <1>0, <2>1 DEF FilterTypes, NoPkt
        <3>2. \A k \in DOMAIN log' : log'[k] = pkt[t] \/ (k \in DOMAIN log /\ log'[k] = log[k])
            BY <2>1, <3>1
        <3>. QED  BY <2>1, <3>2
    <2>. QED  BY <1>0, <2>1, <2>2, <2>3 DEF NoPkt
<1>5. CASE Others
    <2>1. CASE Restart
        <3>1. captured_log' = <<>> /\ log' = Outdated /\ pkt' = OutdatedPkts
            BY <2>1 DEF Restart
        <3>2. DOMAIN log' = DOMAIN log
            BY <1>0, <3>1, OutdatedTyped
        <3>. QED  BY <1>0, <3>1, <3>2, OutdatedHosts
    <2>2. ASSUME NEW t \in Threads, NEW n \in Nics, NEW h \in setup.hosts, Match(t, n, h) PROVE HostsFollow'
        <3>1. /\ UNCHANGED <<log, captured_log>>
              /\ pkt' = [pkt EXCEPT ![t] = [card |-> n, host |-> h, stale |-> swaps < 2]]
            BY <2>2 DEF Match, filterVars, loggerVars
        <3>2. \A s \in Threads : pkt'[s].host = (IF s = t THEN h ELSE pkt[s].host)
                                 /\ (s # t => pkt'[s].card = pkt[s].card)
            BY <1>0, <3>1 DEF FilterTypes
        <3>. QED  BY <1>0, <3>1, <3>2
    <2>3. CASE NewTariff \/ Midnight \/ EodSpurious
        BY <1>1, <2>3 DEF NewTariff, Midnight, EodSpurious, filterVars, loggerVars
    <2>4. ASSUME NEW a \in Accounts, Pay(a) PROVE HostsFollow'
        BY <1>1, <2>4 DEF Pay, filterVars, loggerVars
    <2>5. ASSUME NEW n \in Nics, Switch(n) PROVE HostsFollow'
        BY <1>1, <2>5 DEF Switch, filterVars, loggerVars
    <2>. QED  BY <1>5, <2>1, <2>2, <2>3, <2>4, <2>5 DEF Others
<1>6. CASE Tool
    BY <1>1, <1>6 DEF Tool, filterVars, loggerVars
<1>7. CASE UNCHANGED vars
    BY <1>1, <1>7 DEF vars, filterVars, loggerVars
<1>. QED  BY <1>2, <1>3, <1>4, <1>5, <1>6, <1>7 DEF Next

(* The logger's lists name no price that no tariff in force has named *)
PricedBy(list) == NamedBy(list, setup.hosts) \subseteq AllBy(tariff, setup.hosts)

(* The prices of the invariant are those of the lemmas above.               *)
LEMMA PricedIs == /\ Priced(crnt_taxes) <=> PricedBy(crnt_taxes)
                  /\ Priced(shdw_taxes) <=> PricedBy(shdw_taxes)
BY DEF Priced, PricedBy, AllPrices, AllBy, Named, NamedBy

(* Tariffs only follow one another, and so the prices named so far grow.     *)
LEMMA TariffsGrow ==
    Types /\ [Next]_vars => /\ setup' = setup /\ tariff \in Nat /\ tariff # 0
                            /\ AllBy(tariff, setup.hosts) \subseteq AllBy(tariff', setup.hosts)
<1>. SUFFICES ASSUME Types, [Next]_vars
              PROVE  /\ setup' = setup /\ tariff \in Nat /\ tariff # 0
                     /\ AllBy(tariff, setup.hosts) \subseteq AllBy(tariff', setup.hosts)
    OBVIOUS
<1>1. setup' = setup
    BY SetupStays DEF vars, boundVars
<1>2. tariff \in Nat /\ tariff # 0
    <2>1. \A i \in DOMAIN Tariffs : i \in Nat /\ i # 0
        BY BillingAssumption
    <2>. QED  BY <2>1 DEF Types, DbTypes
<1>3. tariff' = tariff \/ tariff' = tariff + 1
    <2>1. Cycle => tariff' = tariff
        BY DEF Cycle, LoadTaxes, LoadDetails, LoadAccount, AccountsEnd, LoadNic, NicsEnd, SwapLog, SwapRules,
            Table,
            Signal, SetTime, Bill, Charge, BillEnd, dbVars
    <2>2. EndOfDayThread => tariff' = tariff
        BY DEF EndOfDayThread, EodStart, EodWake, EodDate, EodTax, EodPay, EodSkip, EodEnd, dbVars
    <2>3. Others => tariff' = tariff \/ tariff' = tariff + 1
        BY DEF Others, Restart, Midnight, NewTariff, EodSpurious, Match, Pay, Switch, dbVars
    <2>. QED  BY <2>1, <2>2, <2>3 DEF Next, Store, Tool, vars, dbVars
<1>4. tariff' \in Nat /\ tariff <= tariff'
    BY <1>2, <1>3
<1>. QED  BY <1>1, <1>2, <1>4, AllGrow

(* Packets have hosts, and the logger's lists prices, that are known.       *)
LEMMA PricesKept == Types /\ PricesFollow /\ [Next]_vars => PricesFollow'
<1>. SUFFICES ASSUME Types, PricesFollow, [Next]_vars PROVE PricesFollow'
    OBVIOUS
<1>1. HostsFollow /\ HostsFollow'
    BY HostsKept DEF PricesFollow, HostsFollow
<1>2. PricedBy(crnt_taxes) /\ PricedBy(shdw_taxes)
    BY PricedIs DEF PricesFollow
<1>. DEFINE H == setup.hosts
<1>3. LoggerTypes /\ setup' = setup /\ tariff \in DOMAIN Tariffs /\ tariff \in Nat /\ tariff # 0
    BY TariffsGrow DEF Types, DbTypes
<1>4. AllBy(tariff, H) \subseteq AllBy(tariff', H)
    BY TariffsGrow
<1>5. NamedBy(Tariffs[tariff], H) \subseteq AllBy(tariff, H)
    BY <1>3, AllGrow
<1>6. ASSUME NEW list, NamedBy(list, H) \subseteq AllBy(tariff, H) PROVE NamedBy(list, H) \subseteq AllBy(tariff', H)
    BY <1>4, <1>6
<1>7. PricedBy(crnt_taxes)' /\ PricedBy(shdw_taxes)' <=>
          NamedBy(crnt_taxes', H) \subseteq AllBy(tariff', H) /\ NamedBy(shdw_taxes', H) \subseteq AllBy(tariff', H)
    BY <1>3 DEF PricedBy, NamedBy, AllBy
<1>8. NamedBy(crnt_taxes', H) \subseteq AllBy(tariff, H) /\ NamedBy(shdw_taxes', H) \subseteq AllBy(tariff, H)
    <2>0. NamedBy(crnt_taxes, H) \subseteq AllBy(tariff, H) /\ NamedBy(shdw_taxes, H) \subseteq AllBy(tariff, H)
        BY <1>2 DEF PricedBy
    <2>1. CASE UNCHANGED <<crnt_taxes, shdw_taxes>>
        BY <2>0, <2>1
    <2>2. CASE Cycle
        <3>1. CASE ReadTaxes
            <4>1. PICK n \in 0 .. Len(Tariffs[tariff].taxes) : LoadTaxes(n)
                BY <3>1 DEF ReadTaxes
            <4>2. /\ crnt_taxes' = crnt_taxes
                  /\ shdw_taxes' = [taxes |-> SubSeq(Tariffs[tariff].taxes, 1, n), details |-> <<>>]
                BY <4>1 DEF LoadTaxes
            <4>3. NamedBy(shdw_taxes', H) \subseteq NamedBy(Tariffs[tariff], H)
                BY <1>3, <4>2, ReadIsNamed DEF LoggerTypes
            <4>. QED  BY <1>5, <2>0, <4>2, <4>3
        <3>2. CASE ReadDetails
            <4>1. PICK n \in 0 .. Len(Tariffs[tariff].details) : LoadDetails(n)
                BY <3>2 DEF ReadDetails
            <4>2. /\ crnt_taxes' = crnt_taxes
                  /\ shdw_taxes' = [shdw_taxes EXCEPT !.details = SubSeq(Tariffs[tariff].details, 1, n)]
                BY <4>1 DEF LoadDetails
            <4>3. NamedBy(shdw_taxes', H) \subseteq NamedBy(shdw_taxes, H) \cup NamedBy(Tariffs[tariff], H)
                BY <1>3, <4>2, ReadIsNamed DEF LoggerTypes
            <4>. QED  BY <1>5, <2>0, <4>2, <4>3
        <3>3. CASE SwapRules
            BY <2>0, <3>3 DEF SwapRules
        <3>4. CASE LoadAccount \/ AccountsEnd \/ LoadNic \/ NicsEnd \/ SwapLog \/ Table \/ Signal \/ SetTime \/ Bill
                  \/ Charging \/ BillEnd
            BY <2>1, <3>4 DEF LoadAccount, AccountsEnd, LoadNic, NicsEnd, SwapLog, Table, Signal, SetTime,
                Bill, Charging,
                Charge, BillEnd, listVars
        <3>. QED  BY <2>2, <3>1, <3>2, <3>3, <3>4 DEF Cycle, ReadTaxes, ReadDetails, Charging
    <2>3. CASE Restart
        <3>1. crnt_taxes' = NoTaxes /\ shdw_taxes' = NoTaxes /\ NamedBy(NoTaxes, H) = {}
            BY <2>3 DEF Restart, NoTaxes, NamedBy
        <3>. QED  BY <3>1
    <2>4. CASE EndOfDayThread
        BY <2>1, <2>4 DEF EndOfDayThread, EodStart, EodWake, EodDate, EodTax, EodPay, EodSkip, EodEnd,
            loggerVars, listVars
    <2>5. CASE Others /\ ~Restart
        BY <2>1, <2>5 DEF Others, Midnight, NewTariff, EodSpurious, Match, Pay, Switch, loggerVars, listVars
    <2>6. CASE (\E t \in Threads : Store(t)) \/ Tool \/ UNCHANGED vars
        BY <2>1, <2>6 DEF Store, Tool, vars, loggerVars, listVars
    <2>. QED  BY <2>2, <2>3, <2>4, <2>5, <2>6 DEF Next
<1>9. Priced(crnt_taxes)' /\ Priced(shdw_taxes)'
    <2>1. ((Priced(crnt_taxes) <=> PricedBy(crnt_taxes)) /\ (Priced(shdw_taxes) <=> PricedBy(shdw_taxes)))'
        BY PricedIs, PTL
    <2>. QED  BY <1>6, <1>7, <1>8, <2>1
<1>. QED  BY <1>1, <1>9 DEF PricesFollow, HostsFollow

----------------------------------------------------------------------------
----------------------------------------------------------------------------
(* Products of a bound and a price *)
LEMMA Products ==
    /\ \A i, m \in Nat : i * m \in Nat
    /\ \A i, j, m \in Nat : i <= j => i * m <= j * m
    /\ \A i, m, n \in Nat : m <= n => i * m <= i * n
    /\ \A i, j, m \in Nat : (i + j) * m = i * m + j * m
<1>1. \A i, m \in Nat : i * m \in Nat
    OBVIOUS
<1>2. \A i, j, m \in Nat : (i + j) * m = i * m + j * m
    OBVIOUS
<1>3. ASSUME NEW i \in Nat, NEW j \in Nat, NEW m \in Nat, i <= j PROVE i * m <= j * m
    <2>. DEFINE d == j - i
    <2>1. d \in Nat /\ j = i + d
        BY <1>3
    <2>. HIDE DEF d
    <2>2. j * m = i * m + d * m
        BY <1>2, <2>1
    <2>3. i * m \in Nat /\ d * m \in Nat
        BY <1>1, <2>1
    <2>. QED  BY <2>2, <2>3
<1>4. \A i, m \in Nat : i * m = m * i
    OBVIOUS
<1>5. ASSUME NEW i \in Nat, NEW m \in Nat, NEW n \in Nat, m <= n PROVE i * m <= i * n
    BY <1>3, <1>4, <1>5
<1>. QED  BY <1>1, <1>2, <1>3, <1>5

(* A debt that is covered stays so with a smaller debt, more packets or dearer ones *)
LEMMA CoversMore ==
    ASSUME NEW s \in Int, NEW r \in Int, NEW i \in Nat, NEW j \in Nat, NEW m \in Nat, NEW n \in Nat,
           s <= r, i <= j, m <= n
    PROVE  Covers(s, i, m) => Covers(r, j, n)
<1>1. i * m <= j * m /\ j * m <= j * n /\ i * m \in Nat /\ j * m \in Nat /\ j * n \in Nat
    BY Products
<1>. QED  BY <1>1 DEF Covers

(* The packets of a session are covered if their number is added *)
LEMMA CoversSession ==
    ASSUME NEW s \in Int, NEW i \in Nat, NEW k \in Nat, NEW p \in Nat, NEW m \in Nat, p <= m
    PROVE  Covers(s, i, m) => Covers(s - k * p, i + k, m)
<1>1. /\ (i + k) * m = i * m + k * m /\ k * p <= k * m
      /\ i * m \in Nat /\ k * m \in Nat /\ k * p \in Nat
    BY Products
<1>. QED  BY <1>1 DEF Covers

(* A balance covers no packets just if it is not negative.                  *)
LEMMA CoversNone == \A s \in Int, m \in Nat : (s >= 0 <=> Covers(s, 0, m))
BY DEF Covers

(* What an account has settled is a number *)
SettledAre ==
    \A a \in Accounts :
        /\ sum[a] \in Int /\ unbooked[a] \in Nat /\ TaxPaid(a) \in Nat /\ InFlight(a) \in Nat
        /\ Forgone(a) \in Nat /\ corrected[a] \in Nat /\ Settled(a) \in Int /\ sum[a] <= Settled(a)

(* What an account has settled is a number that its balance does not        *)
(* exceed.                                                                  *)
LEMMA SettledTypes == Types => SettledAre
<1>. SUFFICES ASSUME Types, NEW a \in Accounts
              PROVE  /\ sum[a] \in Int /\ unbooked[a] \in Nat /\ TaxPaid(a) \in Nat /\ InFlight(a) \in Nat
                     /\ Forgone(a) \in Nat /\ corrected[a] \in Nat /\ Settled(a) \in Int /\ sum[a] <= Settled(a)
    BY DEF SettledAre
<1>1. sum[a] \in Int /\ unbooked[a] \in Nat /\ TaxPaid(a) \in Nat /\ InFlight(a) \in Nat
    BY TypesAreAmounts DEF AmountsAre
<1>2. DayTax[a] \in Nat /\ crashes \in Nat /\ corrected[a] \in Nat
    BY BillingAssumption DEF Types, DbTypes, ToolTypes
<1>3. Forgone(a) \in Nat
    BY <1>2, Products DEF Forgone
<1>. QED  BY <1>1, <1>2, <1>3 DEF Settled

(* What a step may take from what an account has settled *)
Less(a) == IF Charging THEN ToCharge(a) ELSE 0

(* Only a session that is charged makes what an account has settled less.   *)
LEMMA SettledGrows == Types /\ [Next]_vars => \A a \in Accounts : Settled(a)' >= Settled(a) - Less(a)
<1>. SUFFICES ASSUME Types, [Next]_vars, NEW a \in Accounts
              PROVE  Settled(a)' >= Settled(a) - Less(a)
    OBVIOUS
<1>a. SettledAre
    BY SettledTypes
<1>b. SettledAre'
    <2>1. (Types => SettledAre)'
        BY SettledTypes, PTL
    <2>. QED  BY <2>1, TypesKept
<1>c. /\ sum \in [Accounts -> Int] /\ corrected \in [Accounts -> Nat] /\ crashes \in Nat /\ DayTax[a] \in Nat
    BY BillingAssumption DEF Types, DbTypes, ToolTypes
<1>d. Less(a) \in Nat
    BY TypesAreAmounts DEF AmountsAre, Less
<1>e. ASSUME UNCHANGED <<sum, unbooked, payments, crashes, corrected>>,
             UNCHANGED <<eod, todo>> \/ (eod # "pay" /\ eod' # "pay")
      PROVE  Settled(a)' >= Settled(a) - Less(a)
    <2>1. TaxPaid(a)' = TaxPaid(a) /\ InFlight(a)' = InFlight(a)
        BY <1>e, TaxPaidStays, InFlightStays
    <2>2. Settled(a)' = Settled(a)
        BY <1>e, <2>1 DEF Settled, Forgone
    <2>. QED  BY <1>a, <1>b, <1>d, <2>2 DEF SettledAre
<1>2. CASE Cycle
    <2>1. CASE Charging
        <3>1. UNCHANGED <<payments, crashes, corrected, eod, todo>>
            BY <1>2, <2>1 DEF Cycle, Charging, Charge, eodVars, toolVars, boundVars
        <3>2. TaxPaid(a)' = TaxPaid(a) /\ InFlight(a)' = InFlight(a)
            BY <3>1, TaxPaidStays, InFlightStays
        <3>3. sum'[a] + unbooked'[a] >= sum[a] + unbooked[a] - Less(a)
            BY <2>1, SessionIsCharged DEF Charged, Less
        <3>4. Forgone(a)' = Forgone(a) /\ corrected'[a] = corrected[a]
            BY <3>1 DEF Forgone
        <3>. QED  BY <1>a, <1>b, <1>d, <3>2, <3>3, <3>4 DEF Settled, SettledAre
    <2>2. CASE Signal
        BY <1>e, <1>2, <2>2 DEF Cycle, Signal, EODMutexFree, dbVars, bookVars, toolVars, boundVars
    <2>3. CASE ReadTaxes \/ ReadDetails \/ LoadAccount \/ AccountsEnd \/ LoadNic \/ NicsEnd \/ SwapLog \/ SwapRules
               \/ Table \/ SetTime \/ Bill \/ BillEnd
        <3>1. UNCHANGED <<sum, unbooked, payments, crashes, eod, todo>>
            BY <2>3 DEF ReadTaxes, LoadTaxes, ReadDetails, LoadDetails, LoadAccount, AccountsEnd, LoadNic,
                NicsEnd,
                SwapLog, SwapRules, Table, SetTime, Bill, BillEnd, dbVars, bookVars, eodVars, boundVars
        <3>2. UNCHANGED corrected
            BY <1>2 DEF Cycle, toolVars
        <3>. QED  BY <1>e, <3>1, <3>2
    <2>. QED  BY <1>2, <2>1, <2>2, <2>3 DEF Cycle, ReadTaxes, ReadDetails, Charging
<1>3. CASE EndOfDayThread
    <2>0. Forgone(a)' = Forgone(a) /\ corrected'[a] = corrected[a]
        BY <1>3 DEF EndOfDayThread, EodStart, EodWake, EodDate, EodTax, EodPay, EodSkip, EodEnd, toolVars,
            boundVars,
            Forgone
    <2>1. CASE Taxing
        <3>1. TaxTaken(a)
            BY <2>1, TaxIsTaken
        <3>. QED  BY <1>a, <1>b, <1>d, <2>0, <3>1 DEF TaxTaken, Settled, SettledAre
    <2>2. CASE Paying
        <3>0. Next
            BY <1>3 DEF Next
        <3>1. TaxRecorded(a)
            BY <2>2, <3>0, TaxIsPaid
        <3>. QED  BY <1>a, <1>b, <1>d, <2>0, <3>1 DEF TaxRecorded, Settled, SettledAre
    <2>3. CASE EodStart \/ EodWake \/ EodDate \/ EodSkip \/ EodEnd
        <3>1. UNCHANGED <<sum, unbooked, payments, crashes>> /\ eod # "pay" /\ eod' # "pay"
            BY <2>3 DEF EodStart, EodWake, EodDate, EodSkip, EodEnd, dbVars, bookVars, boundVars
        <3>2. UNCHANGED corrected
            BY <1>3 DEF EndOfDayThread, toolVars
        <3>. QED  BY <1>e, <3>1, <3>2
    <2>. QED  BY <1>3, <2>1, <2>2, <2>3 DEF EndOfDayThread, Taxing, Paying
<1>4. ASSUME NEW t \in Threads, Store(t) PROVE Settled(a)' >= Settled(a) - Less(a)
    BY <1>e, <1>4 DEF Store, dbVars, bookVars, eodVars, toolVars, boundVars
<1>5. CASE Others
    <2>0. UNCHANGED corrected
        BY <1>5 DEF Others, toolVars
    <2>1. CASE Restart
        <3>1. UNCHANGED <<sum, unbooked, payments>> /\ crashes' = crashes + 1 /\ eod' = "start"
            BY <2>1 DEF Restart
        <3>2. TaxPaid(a)' = TaxPaid(a) /\ InFlight(a)' = 0
            BY <3>1, TaxPaidStays DEF InFlight
        <3>3. Forgone(a)' = Forgone(a) + DayTax[a]
            <4>1. Forgone(a)' = (crashes + 1) * DayTax[a]
                BY <3>1 DEF Forgone
            <4>2. (crashes + 1) * DayTax[a] = crashes * DayTax[a] + 1 * DayTax[a] /\ 1 * DayTax[a] = DayTax[a]
                BY <1>c, Products
            <4>. QED  BY <4>1, <4>2 DEF Forgone
        <3>4. InFlight(a) <= DayTax[a]
            BY <1>c DEF InFlight
        <3>. QED  BY <1>a, <1>b, <1>c, <1>d, <2>0, <3>1, <3>2, <3>3, <3>4 DEF Settled, SettledAre
    <2>2. CASE EodSpurious
        <3>1. UNCHANGED <<sum, unbooked, payments, crashes>> /\ eod # "pay" /\ eod' # "pay"
            BY <2>2 DEF EodSpurious, dbVars, bookVars, boundVars
        <3>. QED  BY <1>e, <2>0, <3>1
    <2>3. CASE Midnight \/ NewTariff \/ (\E n \in Nics : Switch(n))
               \/ (\E t \in Threads, n \in Nics, h \in setup.hosts : Match(t, n, h))
        <3>1. UNCHANGED <<sum, unbooked, payments, eod, todo>> /\ crashes' = crashes
            BY <2>3 DEF Midnight, NewTariff, Switch, Match, dbVars, bookVars, eodVars, boundVars
        <3>. QED  BY <1>e, <2>0, <3>1
    <2>5. ASSUME NEW b \in Accounts, Pay(b) PROVE Settled(a)' >= Settled(a) - Less(a)
        <3>1. UNCHANGED <<unbooked, payments, eod, todo, crashes>> /\ sum' = [sum EXCEPT ![b] = @ + 1]
            BY <2>5 DEF Pay, bookVars, eodVars
        <3>2. TaxPaid(a)' = TaxPaid(a) /\ InFlight(a)' = InFlight(a) /\ Forgone(a)' = Forgone(a)
            BY <3>1, TaxPaidStays, InFlightStays DEF Forgone
        <3>3. sum'[a] = sum[a] + 1 \/ sum'[a] = sum[a]
            BY <1>c, <3>1
        <3>. QED  BY <1>a, <1>b, <1>d, <2>0, <3>1, <3>2, <3>3 DEF Settled, SettledAre
    <2>. QED  BY <1>5, <2>1, <2>2, <2>3, <2>5 DEF Others
<1>6. CASE Tool
    <2>0. UNCHANGED <<unbooked, payments, eod, todo, crashes>>
        BY <1>6 DEF Tool, bookVars, eodVars, boundVars
    <2>1. TaxPaid(a)' = TaxPaid(a) /\ InFlight(a)' = InFlight(a) /\ Forgone(a)' = Forgone(a)
        BY <2>0, TaxPaidStays, InFlightStays DEF Forgone
    <2>2. CASE ToolStart \/ ToolSkip \/ ToolLog \/ ToolEnd
        BY <1>e, <2>0, <2>2 DEF ToolStart, ToolSkip, ToolLog, ToolEnd
    <2>3. CASE ToolSub \/ ToolAdd
        <3>1. /\ tool_row <= Len(table) /\ Row.right \notin {0, Row.card}
              /\ table \in Seq(TableRow) /\ tool_row \in 1 .. (Len(table) + 1)
            BY <2>3 DEF ToolSub, ToolAdd, Types, ToolTypes
        <3>2. Row \in TableRow
            BY <3>1 DEF Row
        <3>. DEFINE p == Row.price
                    r == Owner[Row.right]
                    c == Owner[Row.card]
        <3>3. p \in Nat /\ r \in Accounts /\ c \in Accounts
            <4>1. Row.price \in Nat /\ Row.right \in Nics /\ Row.card \in Nics
                BY <3>1, <3>2, BillingAssumption DEF TableRow, Nics
            <4>. QED  BY <4>1, BillingAssumption
        <3>4. \/ sum' = [sum EXCEPT ![r] = @ - p] /\ corrected' = [corrected EXCEPT ![r] = @ + p]
              \/ sum' = [sum EXCEPT ![c] = @ + p] /\ corrected' = corrected
            BY <2>3 DEF ToolSub, ToolAdd
        <3>. HIDE DEF p, r, c
        <3>5. sum'[a] + corrected'[a] >= sum[a] + corrected[a]
            <4>1. CASE sum' = [sum EXCEPT ![r] = @ - p] /\ corrected' = [corrected EXCEPT ![r] = @ + p]
                <5>1. \/ sum'[a] = sum[a] - p /\ corrected'[a] = corrected[a] + p
                      \/ sum'[a] = sum[a] /\ corrected'[a] = corrected[a]
                    BY <1>c, <4>1
                <5>. QED  BY <1>a, <3>3, <5>1 DEF SettledAre
            <4>2. CASE sum' = [sum EXCEPT ![c] = @ + p] /\ corrected' = corrected
                <5>1. (sum'[a] = sum[a] + p \/ sum'[a] = sum[a]) /\ corrected'[a] = corrected[a]
                    BY <1>c, <4>2
                <5>. QED  BY <1>a, <3>3, <5>1 DEF SettledAre
            <4>. QED  BY <3>4, <4>1, <4>2
        <3>. QED  BY <1>a, <1>b, <1>d, <2>0, <2>1, <3>5 DEF Settled, SettledAre
    <2>. QED  BY <1>6, <2>2, <2>3 DEF Tool
<1>7. CASE UNCHANGED vars
    BY <1>e, <1>7 DEF vars, dbVars, bookVars, eodVars, toolVars, boundVars
<1>. QED  BY <1>2, <1>3, <1>4, <1>5, <1>6, <1>7 DEF Next

----------------------------------------------------------------------------
(* The packets left to bill, and what a session takes of them *)
LEMMA LeftAre ==
    LoggerTypes => /\ LogLimit \in Nat /\ Cardinality(DOMAIN captured_log) \in 0 .. LogLimit
                   /\ Cardinality(Session) \in 0 .. Cardinality(DOMAIN captured_log)
                   /\ Cardinality(DOMAIN OtherSessions) = Cardinality(DOMAIN captured_log) - Cardinality(Session)
<1>. SUFFICES ASSUME LoggerTypes
              PROVE  /\ LogLimit \in Nat /\ Cardinality(DOMAIN captured_log) \in 0 .. LogLimit
                     /\ Cardinality(Session) \in 0 .. Cardinality(DOMAIN captured_log)
                     /\ Cardinality(DOMAIN OtherSessions) = Cardinality(DOMAIN captured_log) - Cardinality(Session)
    OBVIOUS
<1>. DEFINE D == DOMAIN captured_log
<1>1. LogLimit \in Nat /\ D \in SUBSET (1 .. LogLimit)
    BY BillingAssumption DEF LoggerTypes
<1>2. Session \in SUBSET D /\ DOMAIN OtherSessions = D \ Session
    BY DEF Session, OtherSessions, Restrict
<1>. HIDE DEF D
<1>3. IsFiniteSet(1 .. LogLimit) /\ Cardinality(1 .. LogLimit) = LogLimit
    <2>1. 1 \in Int /\ LogLimit \in Int
        BY <1>1
    <2>2. Cardinality(1 .. LogLimit) = IF 1 > LogLimit THEN 0 ELSE LogLimit - 1 + 1
        BY <2>1, FS_Interval
    <2>. QED  BY <1>1, <2>1, <2>2, FS_Interval
<1>4. IsFiniteSet(D) /\ Cardinality(D) <= LogLimit
    BY <1>1, <1>3, FS_Subset
<1>5. IsFiniteSet(Session) /\ Cardinality(Session) <= Cardinality(D)
    BY <1>2, <1>4, FS_Subset
<1>6. Cardinality(D) \in Nat /\ Cardinality(Session) \in Nat
    BY <1>4, <1>5, FS_CardinalityType
<1>7. Cardinality(D \ Session) = Cardinality(D) - Cardinality(Session)
    <2>1. D \cap Session = Session
        BY <1>2
    <2>. QED  BY <1>4, <2>1, FS_Difference
<1>. QED  BY <1>1, <1>2, <1>4, <1>5, <1>6, <1>7 DEF D

BilledIsNat == Billed \in 0 .. LogLimit /\ LogLimit \in Nat

(* The packets billed of the log at hand are at most the slots of the       *)
(* log.                                                                     *)
LEMMA BilledAre == LoggerTypes => BilledIsNat
BY LeftAre DEF Billed, BilledIsNat

----------------------------------------------------------------------------
(* Nobody owes anything when the logger starts *)
LEMMA InitDebt == Init /\ Types => DebtFollows
<1>. SUFFICES ASSUME Init, Types PROVE DebtFollows
    OBVIOUS
<1>1. PricesFollow
    <2>1. Named(NoTaxes) = {}
        BY DEF Named, NoTaxes
    <2>. QED  BY <2>1 DEF Init, PricesFollow, Priced, NoPkt
<1>2. ASSUME NEW a \in Accounts PROVE DebtOf(a)
    <2>1. Settled(a) \in Int /\ Settled(a) >= 0
        <3>1. SettledAre
            BY SettledTypes
        <3>2. sum[a] = 0
            BY DEF Init
        <3>. QED  BY <3>1, <3>2 DEF SettledAre
    <2>2. 2 * LogLimit \in Nat /\ MaxPrice \in Nat
        BY MaxPriceIs, BillingAssumption DEF MaxIsPrice
    <2>3. Owes(a, 2 * LogLimit)
        <3>1. Covers(Settled(a), 0, MaxPrice)
            BY <2>1, <2>2, CoversNone
        <3>. QED  BY <2>1, <2>2, <3>1, CoversMore DEF Owes
    <2>4. crnt_NICs = {} /\ shdw_NICs = {} /\ pc = "taxes"
        BY DEF Init
    <2>. QED  BY <2>3, <2>4 DEF DebtOf, Listed, Billing
<1>. QED  BY <1>1, <1>2 DEF DebtFollows

(* How far every account that may not be negative can be in debt *)
LEMMA DebtKept == Types /\ DebtFollows /\ [Next]_vars => DebtFollows'
<1>. SUFFICES ASSUME Types, DebtFollows, [Next]_vars, NEW a \in Accounts \ NegAllowed PROVE DebtOf(a)'
    BY PricesKept DEF DebtFollows
<1>. DEFINE s == Settled(a)
            r == Settled(a)'
            m == MaxPrice
            n == MaxPrice'
            c == Listed(a, crnt_NICs)
            cc == Listed(a, crnt_NICs')
            d == Listed(a, shdw_NICs)
            dd == Listed(a, shdw_NICs')
            Left == Cardinality(DOMAIN captured_log)
            k == Cardinality(Session)
<1>0. LoggerTypes /\ DbTypes /\ FilterTypes /\ PricesFollow /\ DebtOf(a) /\ Types'
    BY TypesKept DEF Types, DebtFollows
<1>1. s \in Int /\ r \in Int /\ sum[a] <= s
    <2>1. (Types => SettledAre)'
        BY SettledTypes, PTL
    <2>. QED  BY <1>0, <2>1, SettledTypes DEF SettledAre
<1>2. m \in Nat /\ n \in Nat /\ m <= n
    <2>1. (Types => MaxIsPrice)'
        BY MaxPriceIs, PTL
    <2>2. MaxIsPrice /\ MaxIsPrice'
        BY <1>0, <2>1, MaxPriceIs
    <2>3. AllPrices(tariff) = AllBy(tariff, setup.hosts) /\ AllPrices(tariff)' = AllBy(tariff', setup'.hosts)
        BY DEF AllPrices, AllBy, Named, NamedBy
    <2>4. AllBy(tariff, setup.hosts) \subseteq AllBy(tariff', setup'.hosts)
        BY TariffsGrow
    <2>. QED  BY <2>2, <2>3, <2>4 DEF MaxIsPrice
<1>3. /\ Covers(s, 2 * LogLimit, m)
      /\ c => Covers(s, Billed, m)
      /\ d /\ Billing => Covers(s, LogLimit + Billed, m)
      /\ d /\ pc \in {"nics", "swap"} => s >= 0
      /\ a \in shdw_accounts /\ pc \in {"accounts", "nics"} => s >= 0
    BY <1>0 DEF DebtOf, Owes
<1>4. SUFFICES /\ Covers(r, 2 * LogLimit, n)
               /\ cc => Covers(r, Billed', n)
               /\ dd /\ Billing' => Covers(r, LogLimit + Billed', n)
               /\ dd /\ pc' \in {"nics", "swap"} => r >= 0
               /\ a \in shdw_accounts' /\ pc' \in {"accounts", "nics"} => r >= 0
    BY DEF DebtOf, Owes, Listed
<1>. DEFINE Goal == /\ Covers(r, 2 * LogLimit, n)
                    /\ cc => Covers(r, Billed', n)
                    /\ dd /\ Billing' => Covers(r, LogLimit + Billed', n)
                    /\ dd /\ pc' \in {"nics", "swap"} => r >= 0
                    /\ a \in shdw_accounts' /\ pc' \in {"accounts", "nics"} => r >= 0
<1>5. /\ Billed \in Nat /\ Billed' \in Nat /\ Billed' <= LogLimit /\ Billed <= LogLimit
      /\ LogLimit \in Nat /\ 2 * LogLimit \in Nat
    <2>1. (LoggerTypes => BilledIsNat)'
        BY BilledAre, PTL
    <2>2. BilledIsNat /\ BilledIsNat'
        BY <1>0, <2>1, BilledAre DEF Types
    <2>. QED  BY <2>2, BillingAssumption DEF BilledIsNat
<1>5a. \A i, j, l \in Nat : l + i \in Nat /\ l <= l + i /\ (i <= j => l + i <= l + j)
    OBVIOUS
<1>6. ~(Charging /\ Payer = a) => s <= r
    <2>1. r >= s - Less(a)
        BY SettledGrows
    <2>2. ~(Charging /\ Payer = a) => Less(a) = 0
        BY DEF Less, ToCharge
    <2>. HIDE DEF s, r
    <2>. QED  BY <1>1, <2>1, <2>2
<1>7. s <= r => \A i, j \in Nat : i <= j /\ Covers(s, i, m) => Covers(r, j, n)
    <2>. HIDE DEF s, r, m, n
    <2>. QED  BY <1>1, <1>2, CoversMore
<1>8. r >= 0 => \A i \in Nat : Covers(r, i, n)
    <2>. HIDE DEF r, n
    <2>1. r >= 0 => Covers(r, 0, n)
        BY <1>1, <1>2, CoversNone
    <2>. QED  BY <1>1, <1>2, <2>1, CoversMore
<1>. HIDE DEF s, r, m, n
<1>9. CASE s <= r
    <2>1. Covers(r, 2 * LogLimit, n)
        BY <1>3, <1>5, <1>7, <1>9
    <2>2. CASE UNCHANGED <<crnt_NICs, shdw_NICs, shdw_accounts, captured_log, pc>>
        <3>1. Billed' = Billed /\ (Billing' <=> Billing) /\ (cc <=> c) /\ (dd <=> d)
            BY <2>2 DEF Billed, Billing
        <3>. HIDE DEF c, d, cc, dd
        <3>. QED  BY <1>1, <1>3, <1>5, <1>7, <1>9, <2>1, <2>2, <3>1
    <2>3. CASE Cycle
        <3>1. CASE ReadTaxes \/ ReadDetails
            <4>1. UNCHANGED crnt_NICs /\ pc \in {"taxes", "details"} /\ pc' \in {"details", "accounts"}
                  /\ (pc' = "accounts" => shdw_accounts' = {})
                BY <3>1 DEF ReadTaxes, LoadTaxes, ReadDetails, LoadDetails
            <4>2. Billed' = Billed /\ ~Billing' /\ (cc <=> c)
                BY <4>1 DEF Billed, Billing
            <4>. HIDE DEF c, d, cc, dd
            <4>. QED  BY <1>3, <1>5, <1>7, <1>9, <2>1, <4>1, <4>2
        <3>2. CASE LoadAccount
            <4>1. /\ UNCHANGED <<crnt_NICs, pc>> /\ pc = "accounts"
                  /\ a \in shdw_accounts' => a \in shdw_accounts \/ MayBeActive(a)
                BY <3>2 DEF LoadAccount, listVars
            <4>2. Billed' = Billed /\ ~Billing' /\ (cc <=> c)
                BY <4>1 DEF Billed, Billing
            <4>3. a \in shdw_accounts' => r >= 0
                <5>1. sum[a] \in Int
                    BY <1>0 DEF DbTypes
                <5>2. MayBeActive(a) => sum[a] >= 0
                    BY DEF MayBeActive
                <5>. QED  BY <1>1, <1>3, <1>9, <4>1, <5>1, <5>2
            <4>. HIDE DEF c, d, cc, dd
            <4>. QED  BY <1>3, <1>5, <1>7, <1>9, <2>1, <4>1, <4>2, <4>3
        <3>2a. CASE AccountsEnd
            <4>1. UNCHANGED <<crnt_NICs, shdw_accounts>> /\ shdw_NICs' = {} /\ pc = "accounts" /\ pc' = "nics"
                BY <3>2a DEF AccountsEnd
            <4>2. Billed' = Billed /\ ~Billing' /\ (cc <=> c) /\ ~dd
                BY <4>1 DEF Billed, Billing, Listed
            <4>. HIDE DEF c, d, cc, dd
            <4>. QED  BY <1>1, <1>3, <1>5, <1>7, <1>9, <2>1, <4>1, <4>2
        <3>3. CASE LoadNic \/ NicsEnd
            <4>1. /\ UNCHANGED <<crnt_NICs, shdw_accounts, pc>> /\ pc = "nics"
                  /\ \/ shdw_NICs' = shdw_NICs
                     \/ shdw_NICs' = shdw_NICs \cup {row} /\ Owner[row] \in shdw_accounts
                BY <3>3 DEF LoadNic, NicsEnd, listVars
            <4>2. Billed' = Billed /\ ~Billing' /\ (cc <=> c)
                BY <4>1 DEF Billed, Billing
            <4>3. dd => d \/ a \in shdw_accounts
                BY <4>1 DEF Listed
            <4>. HIDE DEF c, d, cc, dd
            <4>. QED  BY <1>1, <1>3, <1>5, <1>7, <1>9, <2>1, <4>1, <4>2, <4>3
        <3>4. CASE SwapLog
            <4>1. UNCHANGED <<crnt_NICs, shdw_NICs>> /\ pc = "nics" /\ pc' = "swap"
                BY <3>4 DEF SwapLog, listVars
            <4>2. Billed' = Billed /\ ~Billing' /\ (cc <=> c) /\ (dd <=> d)
                BY <4>1 DEF Billed, Billing
            <4>. HIDE DEF c, d, cc, dd
            <4>. QED  BY <1>1, <1>3, <1>5, <1>7, <1>9, <2>1, <4>1, <4>2
        <3>5. CASE SwapRules
            <4>1. crnt_NICs' = shdw_NICs /\ shdw_NICs' = crnt_NICs /\ pc = "swap" /\ pc' = "table"
                BY <3>5 DEF SwapRules, CrntAfterSwap, ShdwAfterSwap
            <4>2. Billed = LogLimit /\ (cc <=> d) /\ (dd <=> c)
                BY <4>1 DEF Billed, Billing
            <4>3. LogLimit <= LogLimit + Billed' /\ LogLimit + Billed' \in Nat
                BY <1>5, <1>5a
            <4>4. d => r >= 0
                BY <1>1, <1>3, <1>9, <4>1
            <4>. HIDE DEF c, d, cc, dd
            <4>. QED  BY <1>3, <1>5, <1>7, <1>8, <1>9, <2>1, <4>1, <4>2, <4>3, <4>4
        <3>6. CASE Table \/ Signal \/ SetTime
            <4>1. /\ UNCHANGED <<crnt_NICs, shdw_NICs, captured_log>> /\ pc \in {"table", "signal", "time"}
                  /\ pc' \in {"signal", "time", "bill"}
                BY <3>6 DEF Table, Signal, SetTime, listVars
            <4>2. Billed' = Billed /\ Billing /\ (cc <=> c) /\ (dd <=> d)
                BY <4>1 DEF Billed, Billing
            <4>3. LogLimit + Billed \in Nat
                BY <1>5
            <4>. HIDE DEF c, d, cc, dd
            <4>. QED  BY <1>3, <1>5, <1>7, <1>9, <2>1, <4>1, <4>2, <4>3
        <3>7. CASE Bill \/ Charging
            <4>1. /\ UNCHANGED <<crnt_NICs, shdw_NICs>> /\ pc \in {"bill", "charge"} /\ pc' \in {"bill", "charge"}
                  /\ (captured_log' = captured_log \/ captured_log' = OtherSessions)
                BY <3>7 DEF Bill, Charging, Charge, listVars
            <4>2. Billing /\ Billing' /\ (cc <=> c) /\ (dd <=> d)
                BY <4>1 DEF Billing
            <4>3. Billed <= Billed'
                <5>1. Billed = LogLimit - Left /\ Billed' = LogLimit - Cardinality(DOMAIN captured_log')
                    BY <4>2 DEF Billed
                <5>2. Cardinality(DOMAIN captured_log') = Left \/ Cardinality(DOMAIN captured_log') = Left - k
                    BY <1>0, <4>1, LeftAre
                <5>3. Left \in Nat /\ k \in Nat
                    BY <1>0, LeftAre
                <5>. HIDE DEF Left, k
                <5>. QED  BY <1>5, <5>1, <5>2, <5>3
            <4>4. LogLimit + Billed \in Nat /\ LogLimit + Billed' \in Nat /\ LogLimit + Billed <= LogLimit + Billed'
                BY <1>5, <1>5a, <4>3
            <4>. HIDE DEF c, d, cc, dd
            <4>. QED  BY <1>3, <1>5, <1>7, <1>9, <2>1, <4>1, <4>2, <4>3, <4>4
        <3>8. CASE BillEnd
            <4>1. UNCHANGED crnt_NICs /\ pc = "bill" /\ pc' = "taxes"
                BY <3>8 DEF BillEnd, listVars
            <4>2. Billed' = LogLimit /\ ~Billing' /\ (cc <=> c)
                BY <4>1 DEF Billed, Billing
            <4>. HIDE DEF c, d, cc, dd
            <4>. QED  BY <1>3, <1>5, <1>7, <1>9, <2>1, <4>1, <4>2
        <3>. QED  BY <2>3, <3>1, <3>2, <3>2a, <3>3, <3>4, <3>5, <3>6, <3>7, <3>8 DEF Cycle, ReadTaxes,
            ReadDetails, Charging
    <2>4. CASE EndOfDayThread
        BY <2>2, <2>4 DEF EndOfDayThread, EodStart, EodWake, EodDate, Taxing, EodTax, Paying, EodPay, EodSkip,
            EodEnd, loggerVars, listVars
    <2>5. ASSUME NEW t \in Threads, Store(t) PROVE Goal
        BY <2>2, <2>5 DEF Store, loggerVars, listVars
    <2>6. CASE Others
        <3>1. CASE Restart
            <4>1. crnt_NICs' = {} /\ shdw_NICs' = {} /\ pc' = "taxes"
                BY <3>1 DEF Restart
            <4>2. ~cc /\ ~dd
                BY <4>1 DEF Listed
            <4>. QED  BY <2>1, <4>1, <4>2
        <3>2. CASE Midnight \/ NewTariff \/ EodSpurious
            BY <2>2, <3>2 DEF Midnight, NewTariff, EodSpurious, loggerVars, listVars
        <3>3. ASSUME NEW t \in Threads, NEW i \in Nics, NEW h \in setup.hosts, Match(t, i, h) PROVE Goal
            BY <2>2, <3>3 DEF Match, loggerVars, listVars
        <3>4. ASSUME NEW b \in Accounts, Pay(b) PROVE Goal
            BY <2>2, <3>4 DEF Pay, loggerVars, listVars
        <3>5. ASSUME NEW i \in Nics, Switch(i) PROVE Goal
            BY <2>2, <3>5 DEF Switch, loggerVars, listVars
        <3>. QED  BY <2>6, <3>1, <3>2, <3>3, <3>4, <3>5 DEF Others
    <2>7. CASE Tool
        BY <2>2, <2>7 DEF Tool, loggerVars, listVars
    <2>8. CASE UNCHANGED vars
        BY <2>2, <2>8 DEF vars, loggerVars, listVars
    <2>. QED  BY <2>3, <2>4, <2>5, <2>6, <2>7, <2>8 DEF Next
<1>10. CASE Charging /\ Payer = a
    <2>. DEFINE p == PriceOf(shdw_taxes, Payer, First.host)
    <2>1. /\ UNCHANGED <<crnt_NICs, shdw_NICs>> /\ pc = "charge" /\ pc' = "bill" /\ captured_log' = OtherSessions
        BY <1>10 DEF Charging, Charge, listVars
    <2>2. SessionTypes /\ Billing /\ Billing' /\ d /\ (cc <=> c) /\ (dd <=> d) /\ First.card \in shdw_NICs
        <3>1. SessionTypes
            BY <1>0, <2>1, SessionIsTyped DEF LoggerTypes
        <3>2. First.card \in shdw_NICs /\ Owner[First.card] = a
            BY <1>0, <1>10, <2>1 DEF LoggerTypes, Payer
        <3>3. d
            BY <3>2 DEF Listed
        <3>. QED  BY <2>1, <3>1, <3>2, <3>3 DEF Billing
    <2>3. k \in Nat /\ Billed' = Billed + k /\ Billed + k <= LogLimit
        <3>1. Billed = LogLimit - Left /\ Billed' = LogLimit - Cardinality(DOMAIN captured_log')
            BY <2>2 DEF Billed
        <3>2. Cardinality(DOMAIN captured_log') = Left - k /\ Left \in 0 .. LogLimit /\ k \in 0 .. Left
            BY <1>0, <2>1, LeftAre
        <3>. HIDE DEF Left, k
        <3>. QED  BY <1>5, <3>1, <3>2
    <2>4. p \in Nat /\ p <= m
        <3>1. AllPrices(tariff) \subseteq Nat /\ \A q \in AllPrices(tariff) : q <= m
            BY MaxPriceIs DEF MaxIsPrice, m
        <3>2. shdw_taxes \in TaxLists /\ Tax[Payer] \in DOMAIN shdw_taxes.taxes /\ Payer \in Accounts
            BY <1>0, <2>2 DEF LoggerTypes, ListsTaxed, Taxable, Payer, SessionTypes
        <3>3. First.host \in setup.hosts
            <4>1. Min(DOMAIN captured_log) \in DOMAIN captured_log
                <5>1. DOMAIN captured_log \in SUBSET Nat /\ DOMAIN captured_log # {}
                    BY <1>0, <2>1 DEF LoggerTypes
                <5>. QED  BY <5>1, MinIn
            <4>. QED  BY <1>0, <4>1 DEF PricesFollow, First
        <3>4. p \in Named(shdw_taxes)
            BY <3>2, <3>3, PriceIsNamed
        <3>5. p \in AllPrices(tariff)
            BY <1>0, <3>4 DEF PricesFollow, Priced
        <3>. HIDE DEF p, m
        <3>. QED  BY <3>1, <3>5
    <2>5. r >= s - k * p
        <3>1. Settled(a)' >= Settled(a) - Less(a)
            BY SettledGrows
        <3>2. Less(a) = k * p
            BY <1>10, <2>1 DEF Less, ToCharge, SessionPrice
        <3>. QED  BY <3>1, <3>2 DEF s, r
    <2>. HIDE DEF p, k
    <2>6. k * p \in Nat /\ s - k * p \in Int /\ s - k * p <= r
        BY <1>1, <2>3, <2>4, <2>5, Products
    <2>7. \A i \in Nat : Covers(s, i, m) => Covers(r, i + k, n)
        <3>. SUFFICES ASSUME NEW i \in Nat, Covers(s, i, m) PROVE Covers(r, i + k, n)
            OBVIOUS
        <3>1. Covers(s - k * p, i + k, m)
            BY <1>1, <1>2, <2>3, <2>4, CoversSession
        <3>2. i + k \in Nat /\ i + k <= i + k
            BY <2>3
        <3>. DEFINE q == s - k * p
        <3>3. q \in Int /\ q <= r /\ Covers(q, i + k, m)
            BY <2>6, <3>1
        <3>. HIDE DEF q
        <3>. QED  BY <1>1, <1>2, <3>2, <3>3, CoversMore
    <2>8. LogLimit + Billed \in Nat /\ (LogLimit + Billed) + k = LogLimit + Billed' /\ LogLimit + Billed' \in Nat
          /\ LogLimit + Billed' <= 2 * LogLimit
        BY <1>5, <2>3
    <2>9. Covers(r, LogLimit + Billed', n)
        BY <1>3, <2>2, <2>7, <2>8
    <2>10. Covers(r, 2 * LogLimit, n)
        <3>1. r <= r /\ n <= n
            BY <1>1, <1>2
        <3>. QED  BY <1>1, <1>2, <1>5, <2>8, <2>9, <3>1, CoversMore
    <2>11. cc => Covers(r, Billed', n)
        BY <1>3, <1>5, <2>2, <2>3, <2>7
    <2>. QED  BY <2>1, <2>9, <2>10, <2>11
<1>. QED  BY <1>6, <1>9, <1>10

----------------------------------------------------------------------------
(* The inductive invariant holds in every state *)
LEMMA BillingInvariant == Spec => []IInv
<1>1. Init => IInv
    BY InitTypes, InitFollows, InitBooks, InitDebt DEF IInv
<1>2. IInv /\ [Next]_vars => IInv'
    <2>. SUFFICES ASSUME IInv, [Next]_vars PROVE IInv'
        OBVIOUS
    <2>1. Types /\ ListsFollow /\ PeriodFollows /\ DayFollows /\ BooksFollow /\ DebtFollows
        BY DEF IInv
    <2>2. Types' /\ ListsFollow' /\ PeriodFollows' /\ DayFollows' /\ BooksFollow' /\ DebtFollows'
        BY <2>1, TypesKept, ListsKept, PeriodKept, DayKept, BooksKept, DebtKept
    <2>. QED  BY <2>2 DEF IInv
<1>. QED  BY <1>1, <1>2, PTL DEF Spec

(* qxl_main.c: when the logger asks the filter for the log, its list crnt_* *)
(* has the account of every card the filter lets pass, unless it was        *)
(* restarted and has not swapped twice since.                               *)
THEOREM BillingCrntSettles == Spec => []CrntSettles
<1>1. IInv => CrntSettles
    BY DEF IInv, ListsFollow, CrntSettles
<1>. QED  BY <1>1, BillingInvariant, PTL

(* qxl_main.c: every packet of the period it bills has its card and the     *)
(* tariff its rules were loaded with in the lists swapped out, unless the   *)
(* packet was delayed beyond a swap or met a restart.                       *)
THEOREM BillingPeriodIsBillable == Spec => []PeriodIsBillable
<1>1. IInv => PeriodIsBillable
    BY DEF IInv, PeriodFollows
<1>. QED  BY <1>1, BillingInvariant, PTL

(* qxl_eod.c: an account pays the tax of a day once, and once more for      *)
(* every time the wait of the thread ended by itself that day; at least     *)
(* once for every day a logger that keeps running has changed to, but for   *)
(* failures; and the payments have the date of that day or of the last      *)
(* table before it.  All that provided the thread was through with each day *)
(* before the next began, but the dates, which need no such thing.          *)
THEOREM BillingDayIsTaxedOnce == Spec => []DayIsTaxedOnce
<1>1. ASSUME IInv PROVE DayIsTaxedOnce
    <2>1. Types /\ DatesFollow /\ (~late => RoundsFollow /\ DuesFollow) /\ (fails = 0 => skipped = {})
        BY <1>1 DEF IInv, DayFollows
    <2>2. ASSUME ~late, NEW a \in Accounts, NEW d \in 0 .. setup.days
          PROVE  /\ payments[a][d] <= DayTax[a] * ((IF d \in changes THEN 1 ELSE 0) + spurious[d])
                 /\ crashes = 0 /\ eod = "wait" /\ pc # "signal" /\ d \in changes /\ a \notin skipped =>
                        payments[a][d] >= DayTax[a]
        <3>. DEFINE bound == DayTax[a] * Rounds(d)
        <3>1. payments[a][d] + ToCome(a, d) <= bound
            BY <2>1, <2>2 DEF RoundsFollow, Days
        <3>2. payments[a][d] \in Nat /\ ToCome(a, d) \in Nat /\ bound \in Nat
            <4>1. payments[a][d] \in Nat
                BY <2>1 DEF Types, DbTypes
            <4>2. DayTax[a] \in Nat
                BY BillingAssumption
            <4>3. ToCome(a, d) \in Nat
                BY <4>2 DEF ToCome
            <4>4. spurious[d] \in Nat
                BY <2>1 DEF Types, DayTypes, Days
            <4>5. Rounds(d) \in Nat
                BY <4>4 DEF Rounds
            <4>. QED  BY <4>1, <4>2, <4>3, <4>5, Products
        <3>3. payments[a][d] <= bound
            <4>. HIDE DEF bound
            <4>. QED  BY <3>1, <3>2
        <3>4. ASSUME crashes = 0, eod = "wait", pc # "signal", d \in changes, a \notin skipped
              PROVE  payments[a][d] >= DayTax[a]
            <4>1. ~Owed(a)
                BY <3>4 DEF Owed
            <4>. QED  BY <2>1, <2>2, <3>4, <4>1 DEF DuesFollow
        <3>. QED  BY <3>3, <3>4 DEF Rounds
    <2>3. eod \in {"tax", "pay"} =>
              eod_day = 0 \/ pay_date \in {eod_day, Before(eod_day)} \cup (IF crashes = 0 THEN {} ELSE {0})
        BY <2>1 DEF DatesFollow, DatedAs
    <2>. QED  BY <2>1, <2>2, <2>3 DEF DayIsTaxedOnce
<1>. QED  BY <1>1, BillingInvariant, PTL

(* qxl_main.c, qxl_eod.c, qxl_consistency.c: what an account has left is    *)
(* what was paid in less what the tables of the days and the payments say,  *)
(* but for the one row, tax or correction on its way, and for updates that  *)
(* failed, as long as neither the logger nor the tool is stopped in         *)
(* between; without a failure there are none of those; and every variable   *)
(* has its type.                                                            *)
THEOREM BillingBooksBalance == Spec => []BooksBalance
<1>1. ASSUME IInv PROVE BooksBalance
    <2>1. TypeOK
        BY <1>1, TypesAreOK DEF IInv
    <2>. QED  BY <1>1, <2>1 DEF IInv, BooksFollow, BooksBalance
<1>. QED  BY <1>1, BillingInvariant, PTL

(* qxl_main.c: an account that may not be negative owes at most the price   *)
(* of two logs, the one that fills while its cards are read and the one     *)
(* after, besides taxes, what the consistency tool takes from it and what   *)
(* failures take from it for others.                                        *)
THEOREM BillingDebtIsBounded == Spec => []DebtIsBounded
<1>1. ASSUME IInv PROVE DebtIsBounded
    <2>. SUFFICES ASSUME NEW a \in Accounts \ NegAllowed
                  PROVE  sum[a] + unbooked[a] + TaxPaid(a) + InFlight(a) + crashes * DayTax[a] + corrected[a]
                         >= 0 - (2 * LogLimit * MaxPrice)
        BY DEF DebtIsBounded
    <2>. DEFINE m == (2 * LogLimit) * MaxPrice
    <2>1. Settled(a) + m >= 0
        BY <1>1 DEF IInv, DebtFollows, DebtOf, Owes, Covers
    <2>2. Settled(a) \in Int /\ m \in Int
        <3>1. MaxPrice \in Nat
            BY <1>1, MaxPriceIs DEF IInv, MaxIsPrice
        <3>. QED  BY <1>1, <3>1, SettledTypes, BillingAssumption DEF IInv, SettledAre
    <2>3. Settled(a) >= 0 - m
        <3>. HIDE DEF m
        <3>. QED  BY <2>1, <2>2
    <2>. QED  BY <2>3 DEF Settled, Forgone
<1>. QED  BY <1>1, BillingInvariant, PTL
=============================================================================
