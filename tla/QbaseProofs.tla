------------------------------ MODULE QbaseProofs -----------------------------
(***************************************************************************)
(* Proofs about QbaseTable for any number of clients, any filters and any  *)
(* sizes: pages of any number of rows, any number of pages in memory; and  *)
(* about QbaseCatalog for any number of connections, tables and crashes.   *)
(***************************************************************************)
EXTENDS QbaseTable, QbaseCatalog, FiniteSetTheorems, WellFoundedInduction, TLAPS

(* The types of the variables, lists of pages apart.                        *)
PageRec == [Index : PageNums, LastRow : 0 .. PageRows, NeedSync : BOOLEAN, Data : [Slots -> Row]]

WalkRec(ops, rules) ==
    [op : ops, c : Clients, PIndex : Nat, RIndex : Slots, TIndex : Int, rule : rules]

ReqType ==
    \/ req = NoReq
    \/ req \in [op : {"flush", "release"}]
    \/ req.op \in {"read", "delete"} /\ req \in WalkRec({"read", "delete"}, {"none"})
    \/ req.op \in {"update", "updcur"} /\ req \in WalkRec({"update", "updcur"}, setup.rules)

Types ==
    /\ setup \in Setups
    /\ Index \in 0 .. MaxRows /\ HFile \in 0 .. MaxRows /\ open \in BOOLEAN
    /\ DFile \in [PageNums -> [Slots -> Row]]
    /\ ocb \in [Clients -> [Record : 0 .. MaxRows, Filters : Seq(Filters)]]
    /\ rows \in Seq(Row) /\ flushed \in Seq(Row) /\ dropped \in BOOLEAN
    /\ fails \in Nat /\ updates \in Nat
    /\ ReqType /\ (Modifying => updates > 0)

(* A list of pages in memory: sorted, without duplicates, only the last one *)
(* partly filled.                                                           *)
ListOK(ps) ==
    /\ ps \in Seq(PageRec) /\ Len(ps) > 0
    /\ \A i, j \in 1 .. Len(ps) : i < j => ps[i].Index < ps[j].Index /\ ps[i].LastRow = PageRows

(* The list is counted, and its last page ends where Index does, unless an  *)
(* insert has failed: then Index is ahead.                                  *)
InMemory ==
    /\ open =>
         /\ ListOK(Pages) /\ Len(Pages) = PLocks /\ PLocks <= LockPages
         /\ LastPage.Index * PageRows + LastPage.LastRow <= Index
         /\ fails = 0 => LastPage.Index * PageRows + LastPage.LastRow = Index
    /\ ~open => Pages = <<>> /\ PLocks = 0 /\ req = NoReq

(* What is not marked to be written is in the file.                         *)
OnDisk(ps, f) ==
    \A i \in 1 .. Len(ps) : ~ps[i].NeedSync =>
        \A s \in Slots : s < ps[i].LastRow => ps[i].Data[s] = f[ps[i].Index][s]

(* A reader's cursor is where the walk is, as long as there is something    *)
(* to read.                                                                 *)
CursorFollows ==
    (Reading /\ (Reachable(req.PIndex) \/ (fails = 0 /\ ocb[req.c].Record < Index))) =>
        ocb[req.c].Record = (req.PIndex * PageRows) + req.RIndex

(* While pages are flushed the header in the file is right.                 *)
HeadWritten == req.op \in {"flush", "release"} => HFile = Index

(* A row, in the list or else in the file, by page and slot                 *)
At(ps, f, n, s) ==
    IF \E k \in DOMAIN ps : ps[k].Index = n
      THEN ps[CHOOSE k \in DOMAIN ps : ps[k].Index = n].Data[s]
      ELSE f[n][s]

Size == IF open THEN Index ELSE HFile

Whole ==
    (fails = 0 /\ ~dropped) =>
        /\ Len(rows) = Size
        /\ \A i \in 1 .. Size : At(Pages, DFile, Page(i - 1), Slot(i - 1)) = rows[i]

(* Rows that the one update there may be has not come to                    *)
Untouched(i) == updates = 0 \/ (Modifying /\ req.PIndex * PageRows < i)

Survives ==
    (fails = 0 /\ ~dropped /\ updates <= 1) =>
        /\ Len(flushed) <= HFile /\ Len(flushed) <= Len(rows)
        /\ \A i \in 1 .. Len(flushed) :
              /\ FileRow(i) \in {flushed[i], rows[i]}
              /\ Untouched(i) => rows[i] = flushed[i]

IInv ==
    /\ Types
    /\ InMemory
    /\ OnDisk(Pages, DFile)
    /\ CursorFollows
    /\ HeadWritten
    /\ Whole
    /\ Survives
----------------------------------------------------------------------------
(* The sizes of a table are positive, and stay.                             *)
LEMMA Sizes ==
    ASSUME setup \in Setups
    PROVE  /\ PageRows \in Nat /\ PageRows > 0 /\ MaxRows \in Nat
           /\ Slots \subseteq Nat /\ 0 \in Slots /\ \A s \in Nat : s \in Slots <=> s < PageRows
           /\ setup.clients \subseteq Clients
           /\ \A u \in setup.rules :
                 /\ u.how \in {"set", "add", "sub", "mul", "div"}
                 /\ u.value \in 0 .. (Width - 1)
                 /\ u.how = "div" => u.value # 0
  BY TableAssumption DEF PageRows, MaxRows, Slots

(* While the table is in use its sizes, and with them the places of rows,   *)
(* stay.                                                                    *)
LEMMA SizesStay ==
    ASSUME setup' = setup
    PROVE  /\ PageRows' = PageRows /\ MaxRows' = MaxRows /\ Slots' = Slots /\ PageNums' = PageNums
           /\ Row' = Row /\ PageRec' = PageRec
           /\ \A n : Page(n)' = Page(n) /\ Slot(n)' = Slot(n)
  BY DEF PageRows, MaxRows, Slots, PageNums, Row, PageRec, Page, Slot

(* The position of a row as page and slot: Page and Slot invert             *)
(* page * PageRows + slot.                                                  *)
LEMMA Positions ==
    ASSUME setup \in Setups
    PROVE  /\ \A n \in Nat : Page(n) \in Nat /\ Slot(n) \in Slots /\ n = (Page(n) * PageRows) + Slot(n)
           /\ \A a, b \in Nat : a < b => (a * PageRows) + PageRows <= b * PageRows
           /\ \A a, b \in Nat, s, r \in Slots :
                 (a * PageRows) + s = (b * PageRows) + r => a = b /\ s = r
           /\ \A a \in Nat : a * PageRows <= MaxRows => a \in PageNums
           /\ PageNums \subseteq Nat
           /\ \A a \in Nat : a * PageRows \in Nat
<1> DEFINE P == PageRows
<1>1. P \in Nat /\ P > 0 /\ MaxRows \in Nat /\ Slots = 0 .. (P - 1) BY Sizes DEF Slots
<1> HIDE DEF P
<1>2. \A n \in Nat : n \div P \in Nat /\ n % P \in 0 .. (P - 1) /\ n = ((n \div P) * P) + (n % P)
  BY <1>1
<1>3. \A a, b \in Nat : a < b => (a * P) + P <= b * P
  <2> SUFFICES ASSUME NEW a \in Nat, NEW b \in Nat, a < b PROVE (a * P) + P <= b * P
    OBVIOUS
  <2>1. (a + 1) * P <= b * P BY <1>1
  <2>2. (a + 1) * P = (a * P) + P BY <1>1
  <2> QED BY <2>1, <2>2
<1>4. \A a \in Nat : a * P \in Nat BY <1>1
<1>5. \A a, b \in Nat, s, r \in 0 .. (P - 1) : (a * P) + s = (b * P) + r => a = b /\ s = r
  <2> SUFFICES ASSUME NEW a \in Nat, NEW b \in Nat, NEW s \in 0 .. (P - 1), NEW r \in 0 .. (P - 1),
                      (a * P) + s = (b * P) + r
               PROVE  a = b /\ s = r
    OBVIOUS
  <2>1. ~(a < b) /\ ~(b < a) BY <1>1, <1>3, <1>4
  <2>2. a = b BY <2>1
  <2> QED BY <1>1, <1>4, <2>2
<1>6. \A a \in Nat : a * P <= MaxRows => a <= MaxRows \div P
  <2> SUFFICES ASSUME NEW a \in Nat, a * P <= MaxRows, MaxRows \div P < a PROVE FALSE
    BY <1>1
  <2>1. ((MaxRows \div P) * P) + P <= a * P BY <1>1, <1>2, <1>3
  <2> QED BY <1>1, <1>2, <1>4, <2>1
<1>7. PageNums = 0 .. (MaxRows \div P) BY DEF PageNums, P
<1> QED BY <1>1, <1>2, <1>3, <1>4, <1>5, <1>6, <1>7 DEF P, Page, Slot

(* Two rows in the same place of the data file are in the same page and     *)
(* slot.                                                                    *)
LEMMA SamePlace ==
    ASSUME setup \in Setups, NEW a \in Nat, NEW b \in Nat, NEW s \in Slots, NEW r \in Slots,
           (a * PageRows) + s = (b * PageRows) + r
    PROVE  a = b /\ s = r
  BY Positions

(* The least element of a set of numbers                                    *)
LEMMA LeastIs == ASSUME NEW S, S \subseteq Nat, S # {} PROVE Least(S) \in S /\ \A y \in S : Least(S) <= y
<1> DEFINE R == OpToRel(<, Nat)
<1>1. \A y, x \in Nat : y < x => <<y, x>> \in R BY Zenon DEF OpToRel
<1>2. IsWellFoundedOn(R, Nat) BY NatLessThanWellFounded
<1>3. \E x \in S : \A y \in S : x <= y
  <2> HIDE DEF R
  <2>1. PICK x \in S : \A y \in S : ~(<<y, x>> \in R) BY <1>2, WFMin
  <2>2. \A y \in S : ~(y < x) BY <1>1, <2>1
  <2> QED BY <2>2
<1>4. /\ (CHOOSE x \in S : \A y \in S : x <= y) \in S
      /\ \A y \in S : (CHOOSE x \in S : \A z \in S : x <= z) <= y
  BY <1>3
<1> QED BY <1>4 DEF Least

(* The pages of a well-formed list                                          *)
LEMMA ListIs ==
    ASSUME setup \in Setups, NEW ps, ListOK(ps)
    PROVE  /\ DOMAIN ps = 1 .. Len(ps) /\ Len(ps) \in Nat /\ Len(ps) > 0
           /\ \A i \in 1 .. Len(ps) :
                 /\ ps[i] \in PageRec /\ ps[i].Index \in PageNums /\ ps[i].Index \in Nat
                 /\ ps[i].LastRow \in Nat /\ ps[i].LastRow <= PageRows
                 /\ i < Len(ps) => ps[i].LastRow = PageRows
           /\ \A i, j \in 1 .. Len(ps) : ps[i].Index = ps[j].Index => i = j
<1>1. Len(ps) \in Nat /\ Len(ps) > 0 /\ DOMAIN ps = 1 .. Len(ps) BY DEF ListOK
<1>2. \A i \in 1 .. Len(ps) : ps[i] \in PageRec BY DEF ListOK
<1>3. ASSUME NEW i \in 1 .. Len(ps)
      PROVE  ps[i].Index \in PageNums /\ ps[i].LastRow \in 0 .. PageRows
  BY <1>2 DEF PageRec
<1>4. PageNums \subseteq Nat /\ PageRows \in Nat BY Positions, Sizes
<1>5. \A i \in 1 .. Len(ps) : ps[i].Index \in Nat /\ ps[i].LastRow \in Nat /\ ps[i].LastRow <= PageRows
  <2> TAKE i \in 1 .. Len(ps)
  <2>1. ps[i].Index \in PageNums /\ ps[i].LastRow \in 0 .. PageRows BY <1>3
  <2>2. ps[i].Index \in Nat BY <1>4, <2>1
  <2>3. ps[i].LastRow \in Nat /\ ps[i].LastRow <= PageRows BY ONLY <1>4, <2>1
  <2> QED BY <2>2, <2>3
<1>6. ASSUME NEW i \in 1 .. Len(ps), NEW j \in 1 .. Len(ps), ps[i].Index = ps[j].Index PROVE i = j
  <2>1. \A k, l \in 1 .. Len(ps) : k < l => ps[k].Index < ps[l].Index BY DEF ListOK
  <2>2. ps[i].Index \in Nat BY <1>5
  <2>3. ~(i < j) /\ ~(j < i) BY <1>6, <2>1, <2>2
  <2> QED BY <2>3
<1>7. \A i \in 1 .. Len(ps) : i < Len(ps) => ps[i].LastRow = PageRows BY <1>1 DEF ListOK
<1> QED BY <1>1, <1>2, <1>3, <1>5, <1>6, <1>7

(* A list with one page replaced                                            *)
LEMMA Replaced ==
    ASSUME NEW S, NEW ps \in Seq(S), NEW n \in 1 .. Len(ps), NEW x \in S
    PROVE  /\ [ps EXCEPT ![n] = x] \in Seq(S) /\ Len([ps EXCEPT ![n] = x]) = Len(ps)
           /\ [ps EXCEPT ![n] = x][n] = x
           /\ \A j \in 1 .. Len(ps) : j # n => [ps EXCEPT ![n] = x][j] = ps[j]
  OBVIOUS

(* A row is found in the one page of the list that has its number, or else  *)
(* in the file.                                                             *)
LEMMA AtIs ==
    ASSUME NEW ps, ListOK(ps), setup \in Setups, NEW f, NEW n, NEW s
    PROVE  /\ \A k \in 1 .. Len(ps) : ps[k].Index = n => At(ps, f, n, s) = ps[k].Data[s]
           /\ (\A k \in 1 .. Len(ps) : ps[k].Index # n) => At(ps, f, n, s) = f[n][s]
  BY ListIs DEF At

----------------------------------------------------------------------------
(* What LockTablePage gives: page n is in a list that is well-formed, ends  *)
(* with the same last page, agrees with the file where it need not be       *)
(* written, and shows every row as before unless a page was dropped.        *)
File == [PageNums -> [Slots -> Row]]

SameRows(ps, f) ==
    \A m \in PageNums, s \in Slots : At(ps, f, m, s) = At(Pages, DFile, m, s)

FromMemory(f) ==
    \A m \in PageNums, s \in Slots : f[m][s] \in {DFile[m][s], At(Pages, DFile, m, s)}

LockedOK(l, n) ==
    /\ ListOK(l.pages) /\ Len(l.pages) = l.locks /\ l.locks <= LockPages
    /\ l.pages[Len(l.pages)] = LastPage
    /\ l.at \in 1 .. Len(l.pages) /\ l.pages[l.at].Index = n
    /\ l.file \in File
    /\ OnDisk(l.pages, l.file)
    /\ FromMemory(l.file)
    /\ l.drops \in BOOLEAN
    /\ ~l.drops => SameRows(l.pages, l.file)

(* Pages come and go unnoticed as long as the ones that go are in the file, *)
(* and the file changes only by writing pages of the list.                  *)
InBoth(qs, f, n) ==
    \A k \in 1 .. Len(qs) :
       \/ \E j \in 1 .. Len(Pages) : qs[k] = Pages[j]
       \/ qs[k] = ReadPage(f, n) /\ \A j \in 1 .. Len(Pages) : Pages[j].Index # n

Left(qs, f) ==
    \A j \in 1 .. Len(Pages) :
       \/ \E k \in 1 .. Len(qs) : qs[k] = Pages[j]
       \/ \A s \in Slots : f[Pages[j].Index][s] = Pages[j].Data[s]

WrittenFrom(f) ==
    \A m \in PageNums :
       \/ f[m] = DFile[m]
       \/ \E j \in 1 .. Len(Pages) : Pages[j].Index = m /\ f[m] = Pages[j].Data

(* LockTablePage may bring, drop and save pages: if each page of the new    *)
(* list and of the file comes from the old ones, clean pages are on disk    *)
(* and no row changes.                                                      *)
LEMMA Unnoticed ==
    ASSUME setup \in Setups, ListOK(Pages), OnDisk(Pages, DFile),
           NEW qs, ListOK(qs), NEW f \in File, NEW n \in PageNums,
           InBoth(qs, f, n), WrittenFrom(f)
    PROVE  OnDisk(qs, f) /\ FromMemory(f) /\ (Left(qs, f) => SameRows(qs, f))
<1>1. \A j \in 1 .. Len(Pages) : Pages[j].Index \in PageNums BY ListIs
<1>3. \A i, j \in 1 .. Len(Pages) : Pages[i].Index = Pages[j].Index => i = j BY ListIs
<1>4. OnDisk(qs, f)
  <2> SUFFICES ASSUME NEW k \in 1 .. Len(qs), ~qs[k].NeedSync, NEW s \in Slots, s < qs[k].LastRow
               PROVE  qs[k].Data[s] = f[qs[k].Index][s]
    BY DEF OnDisk
  <2>1. CASE qs[k] = ReadPage(f, n) BY <2>1 DEF ReadPage
  <2>2. ASSUME NEW j \in 1 .. Len(Pages), qs[k] = Pages[j] PROVE qs[k].Data[s] = f[qs[k].Index][s]
    <3>1. Pages[j].Data[s] = DFile[Pages[j].Index][s] BY <2>2 DEF OnDisk
    <3> QED BY <1>1, <1>3, <2>2, <3>1 DEF WrittenFrom
  <2> QED BY <2>1, <2>2 DEF InBoth
<1>5. FromMemory(f)
  <2> SUFFICES ASSUME NEW m \in PageNums, NEW s \in Slots
               PROVE  f[m][s] \in {DFile[m][s], At(Pages, DFile, m, s)}
    BY DEF FromMemory
  <2>1. CASE f[m] = DFile[m] BY <2>1
  <2>2. ASSUME NEW j \in 1 .. Len(Pages), Pages[j].Index = m, f[m] = Pages[j].Data
        PROVE  f[m][s] = At(Pages, DFile, m, s)
    BY <2>2, AtIs
  <2> QED BY <2>1, <2>2 DEF WrittenFrom
<1>6. ASSUME Left(qs, f), NEW m \in PageNums, NEW s \in Slots
      PROVE  At(qs, f, m, s) = At(Pages, DFile, m, s)
  <2>1. ASSUME NEW j \in 1 .. Len(Pages), Pages[j].Index = m
        PROVE  At(qs, f, m, s) = At(Pages, DFile, m, s)
    <3>1. At(Pages, DFile, m, s) = Pages[j].Data[s] BY <2>1, AtIs
    <3>2. ASSUME NEW k \in 1 .. Len(qs), qs[k] = Pages[j] PROVE At(qs, f, m, s) = Pages[j].Data[s]
      BY <2>1, <3>2, AtIs
    <3>3. ASSUME \A k \in 1 .. Len(qs) : qs[k] # Pages[j] PROVE At(qs, f, m, s) = Pages[j].Data[s]
      <4>1. f[m][s] = Pages[j].Data[s] BY <1>6, <2>1, <3>3 DEF Left
      <4>2. \A k \in 1 .. Len(qs) : qs[k].Index # m
        BY <1>3, <2>1, <3>3 DEF InBoth, ReadPage
      <4> QED BY <4>1, <4>2, AtIs
    <3> QED BY <3>1, <3>2, <3>3
  <2>2. ASSUME \A j \in 1 .. Len(Pages) : Pages[j].Index # m
        PROVE  At(qs, f, m, s) = At(Pages, DFile, m, s)
    <3>1. At(Pages, DFile, m, s) = DFile[m][s] /\ f[m] = DFile[m] BY <2>2, AtIs DEF WrittenFrom
    <3>2. ASSUME NEW k \in 1 .. Len(qs), qs[k].Index = m PROVE At(qs, f, m, s) = f[m][s]
      <4>1. qs[k] = ReadPage(f, n) BY <2>2, <3>2 DEF InBoth
      <4> QED BY <3>2, <4>1, AtIs DEF ReadPage
    <3>3. (\A k \in 1 .. Len(qs) : qs[k].Index # m) => At(qs, f, m, s) = f[m][s] BY AtIs
    <3> QED BY <3>1, <3>2, <3>3
  <2> QED BY <2>1, <2>2
<1> QED BY <1>4, <1>5, <1>6 DEF SameRows

\* What insert_page leaves of the list ps in q: the new page x at i, the pages before it in
\* their places, the page it was called for and those after it one place on.
LinkedIs(R, q, ps, i, x) ==
    /\ q \in Seq(R) /\ Len(q) = Len(ps) + 1
    /\ \A j \in 1 .. (i - 1) : q[j] = ps[j]
    /\ q[i] = x
    /\ \A j \in (i + 1) .. (Len(ps) + 1) : q[j] = ps[j - 1]

\* InsertAt of the list library does that: insert_page links the page before another one.
LEMMA Linked ==
    ASSUME NEW R, NEW ps \in Seq(R), NEW i \in 1 .. Len(ps), NEW x \in R
    PROVE  LinkedIs(R, InsertAt(ps, i, x), ps, i, x)
<1> DEFINE M == Len(ps)
           a == SubSeq(ps, 1, i - 1)
           b == SubSeq(ps, i, M)
           c == a \o <<x>>
           q == c \o b
<1>1. M \in Nat /\ i \in 1 .. M /\ i - 1 \in 0 .. M OBVIOUS
<1>2. a \in Seq(R) /\ Len(a) = i - 1 /\ \A j \in 1 .. (i - 1) : a[j] = ps[j] BY <1>1
<1>3. b \in Seq(R) /\ Len(b) = (M - i) + 1 /\ \A j \in 1 .. ((M - i) + 1) : b[j] = ps[(i + j) - 1]
  BY <1>1
<1> HIDE DEF a, b, M
<1>4. c \in Seq(R) /\ Len(c) = i /\ c[i] = x /\ \A j \in 1 .. (i - 1) : c[j] = a[j] BY <1>1, <1>2
<1> HIDE DEF c
<1>5. q \in Seq(R) /\ Len(q) = M + 1 BY <1>1, <1>3, <1>4
<1>6. \A j \in 1 .. i : q[j] = c[j] BY <1>1, <1>3, <1>4
<1>7. \A j \in (i + 1) .. (M + 1) : q[j] = b[j - i] BY <1>1, <1>3, <1>4
<1>8. InsertAt(ps, i, x) = q BY DEF InsertAt, q, c, b, a, M
<1> HIDE DEF q
<1>9. \A j \in 1 .. (i - 1) : q[j] = ps[j] BY <1>1, <1>2, <1>4, <1>6
<1>10. q[i] = x BY <1>1, <1>4, <1>6
<1>11. ASSUME NEW j \in (i + 1) .. (M + 1) PROVE q[j] = ps[j - 1]
  <2>1. q[j] = b[j - i] BY <1>7
  <2>2. j - i \in 1 .. ((M - i) + 1) /\ (i + (j - i)) - 1 = j - 1 BY <1>1
  <2>3. b[j - i] = ps[(i + (j - i)) - 1] BY <1>3, <2>2
  <2> QED BY <2>1, <2>2, <2>3
<1> QED BY <1>5, <1>8, <1>9, <1>10, <1>11 DEF M, LinkedIs

\* What lock_table_page answers, whichever of its four ways it takes to the page asked for.
LEMMA Locked ==
    ASSUME setup \in Setups, DFile \in File, ListOK(Pages), OnDisk(Pages, DFile),
           Len(Pages) = PLocks, PLocks <= LockPages,
           NEW n \in Nat, Reachable(n)
    PROVE  LockedOK(LockTablePage(n), n)
<1> USE TableAssumption
<1> DEFINE N == Len(Pages)
           S == {j \in DOMAIN Pages : Pages[j].Index >= n}
<1>1. N \in Nat /\ N > 0 /\ DOMAIN Pages = 1 .. N /\ PLocks = N BY ListIs
<1>2. /\ \A j \in 1 .. N : Pages[j] \in PageRec /\ Pages[j].Index \in PageNums /\ Pages[j].Index \in Nat
      /\ \A j, k \in 1 .. N : j < k => Pages[j].Index < Pages[k].Index
      /\ \A j \in 1 .. N : j < N => Pages[j].LastRow = PageRows
  BY ListIs DEF ListOK
<1>3. n \in PageNums
  <2>1. PICK j \in 1 .. N : Pages[j].Index >= n BY <1>1 DEF Reachable
  <2>2. MaxRows \div PageRows \in Int BY Sizes
  <2> QED BY <1>2, <2>1, <2>2 DEF PageNums
<1> DEFINE First(j) == Pages[j].Index >= n /\ \A k \in 1 .. (j - 1) : Pages[k].Index < n
           i == CHOOSE j \in DOMAIN Pages : First(j)
<1>4. i \in 1 .. N /\ Pages[i].Index >= n /\ \A k \in 1 .. (i - 1) : Pages[k].Index < n
  <2>1. S # {} /\ S \subseteq Nat BY <1>1 DEF Reachable
  <2>2. Least(S) \in S /\ \A y \in S : Least(S) <= y BY <2>1, LeastIs
  <2>3. \A k \in 1 .. (Least(S) - 1) : k \in DOMAIN Pages /\ ~(k \in S)
    <3> HIDE DEF S
    <3>1. Least(S) \in 1 .. N BY <1>1, <2>2 DEF S
    <3> QED BY <1>1, <2>2, <3>1
  <2>4. \A k \in 1 .. (Least(S) - 1) : Pages[k].Index < n
    BY <1>1, <1>2, <2>3
  <2>5. First(Least(S)) /\ Least(S) \in DOMAIN Pages BY <2>2, <2>4
  <2> HIDE DEF First
  <2>6. i \in DOMAIN Pages /\ First(i) BY <2>5
  <2> QED BY <1>1, <2>6 DEF First
<1> HIDE DEF i
<1>5. \A k \in 1 .. N : k < i => Pages[k].Index < n
  <2>1. \A k \in 1 .. N : k < i => k \in 1 .. (i - 1) BY <1>1, <1>4
  <2> QED BY <1>4, <2>1
<1>6. \A k \in 1 .. N : k > i => Pages[k].Index > n
  <2>1. n \in Nat /\ \A k \in 1 .. N : k > i => Pages[i].Index < Pages[k].Index BY <1>1, <1>2, <1>4
  <2> QED BY <1>2, <1>4, <2>1
<1> DEFINE l == LockTablePage(n)
           lock(k) ==
             CASE Pages[k].Index = n ->
                    [pages |-> Pages, locks |-> PLocks, file |-> DFile, at |-> k, drops |-> FALSE]
               [] Pages[k].Index > n /\ PLocks < LockPages ->
                    [pages |-> InsertAt(Pages, k, ReadPage(DFile, n)), locks |-> PLocks + 1,
                     file |-> DFile, at |-> k, drops |-> FALSE]
               [] Pages[k].Index > n /\ PLocks >= LockPages /\ k = Len(Pages) ->
                    [pages |-> Recycled(RecycledFile, n, k), locks |-> PLocks,
                     file |-> RecycledFile, at |-> k - 1, drops |-> FALSE]
               [] Pages[k].Index > n /\ PLocks >= LockPages /\ k < Len(Pages) ->
                    [pages |-> [Pages EXCEPT ![k] = ReadPage(DFile, n)], locks |-> PLocks,
                     file |-> DFile, at |-> k, drops |-> Pages[k].NeedSync]
<1>l. l = lock(i) BY DEF LockTablePage, i
<1>r. ASSUME NEW f \in File
      PROVE  ReadPage(f, n) \in PageRec /\ ReadPage(f, n).Index = n /\ ReadPage(f, n).LastRow = PageRows
  BY <1>3, Sizes DEF ReadPage, PageRec, File
<1> HIDE DEF l
<1>7. CASE Pages[i].Index = n
  <2>1. l = [pages |-> Pages, locks |-> PLocks, file |-> DFile, at |-> i, drops |-> FALSE]
    BY <1>7, <1>l
  <2>2. FromMemory(DFile) /\ SameRows(Pages, DFile) BY DEF FromMemory, SameRows
  <2> HIDE DEF lock
  <2>3. LockedOK(l, n) BY <1>1, <1>4, <1>7, <2>1, <2>2 DEF LockedOK, LastPage
  <2> QED BY <2>3 DEF l
<1>8. CASE Pages[i].Index > n /\ PLocks < LockPages
  <2> DEFINE r == ReadPage(DFile, n)
             q == InsertAt(Pages, i, r)
  <2>1. l = [pages |-> q, locks |-> PLocks + 1, file |-> DFile, at |-> i, drops |-> FALSE]
    BY <1>2, <1>4, <1>8, <1>l
  <2>2. r \in PageRec /\ r.Index = n /\ r.LastRow = PageRows BY <1>r
  <2> HIDE DEF lock, r
  <2>3. /\ q \in Seq(PageRec) /\ Len(q) = N + 1
        /\ \A j \in 1 .. (i - 1) : q[j] = Pages[j]
        /\ q[i] = r
        /\ \A j \in (i + 1) .. (N + 1) : q[j] = Pages[j - 1]
    <3>1. Pages \in Seq(PageRec) BY DEF ListOK
    <3>2. i \in 1 .. Len(Pages) /\ r \in PageRec BY <1>4, <2>2
    <3> HIDE DEF r
    <3>3. LinkedIs(PageRec, InsertAt(Pages, i, r), Pages, i, r) BY <3>1, <3>2, Linked
    <3> QED BY <3>3 DEF LinkedIs
  <2>4. i < N + 1 /\ q[N + 1] = Pages[N] BY <1>1, <1>4, <2>3
  <2> HIDE DEF q
  <2>5. \A k \in 1 .. (N + 1) :
           \/ k < i /\ k \in 1 .. N /\ q[k] = Pages[k]
           \/ k = i /\ q[k] = r
           \/ k > i /\ k - 1 \in 1 .. N /\ k - 1 >= i /\ q[k] = Pages[k - 1]
    BY <1>1, <1>4, <2>3
  <2>6. ListOK(q)
    <3> SUFFICES ASSUME NEW j \in 1 .. (N + 1), NEW k \in 1 .. (N + 1), j < k
                 PROVE  q[j].Index < q[k].Index /\ q[j].LastRow = PageRows
      BY <1>1, <2>3 DEF ListOK
    <3>1. CASE k < i
      <4>1. q[j] = Pages[j] /\ q[k] = Pages[k] /\ j \in 1 .. N /\ k \in 1 .. N /\ j < N
        BY <1>1, <1>4, <2>3, <3>1
      <4> QED BY <1>2, <4>1
    <3>2. CASE k = i
      <4>1. q[j] = Pages[j] /\ q[k] = r /\ j \in 1 .. N /\ j < N /\ j < i
        BY <1>1, <1>4, <2>3, <3>2
      <4>2. Pages[j].Index < n BY <1>5, <4>1
      <4> QED BY <1>2, <2>2, <4>1, <4>2
    <3>3. CASE k > i /\ j < i
      <4>1. q[j] = Pages[j] /\ q[k] = Pages[k - 1] /\ j \in 1 .. N /\ j < N /\ k - 1 \in 1 .. N /\ j < k - 1
        BY <1>1, <1>4, <2>3, <3>3
      <4> QED BY <1>2, <4>1
    <3>4. CASE k > i /\ j = i
      <4>1. q[j] = r /\ q[k] = Pages[k - 1] /\ k - 1 \in 1 .. N /\ (k - 1 = i \/ k - 1 > i)
        BY <1>1, <1>4, <2>3, <3>4
      <4>2. Pages[k - 1].Index > n BY <1>6, <1>8, <4>1
      <4> QED BY <2>2, <4>1, <4>2
    <3>5. CASE j > i
      <4>1. /\ q[j] = Pages[j - 1] /\ q[k] = Pages[k - 1]
            /\ j - 1 \in 1 .. N /\ k - 1 \in 1 .. N /\ j - 1 < k - 1 /\ j - 1 < N
        BY <1>1, <1>4, <2>3, <3>5
      <4> QED BY <1>2, <4>1
    <3> QED BY <1>1, <1>4, <3>1, <3>2, <3>3, <3>4, <3>5
  <2>7. InBoth(q, DFile, n)
    <3>1. ASSUME NEW j \in 1 .. N PROVE Pages[j].Index # n
      <4>1. CASE j < i
        <5>1. Pages[j].Index < n /\ Pages[j].Index \in Nat BY <1>2, <1>5, <4>1
        <5> QED BY <5>1
      <4>2. CASE j = i BY <1>2, <1>8, <4>2
      <4>3. CASE j > i
        <5>1. Pages[j].Index > n /\ Pages[j].Index \in Nat BY <1>2, <1>6, <4>3
        <5> QED BY <5>1
      <4> QED BY <1>1, <1>4, <4>1, <4>2, <4>3
    <3> QED BY <1>1, <2>3, <2>5, <3>1 DEF InBoth, r
  <2>8. Left(q, DFile)
    <3>1. ASSUME NEW j \in 1 .. N PROVE \E k \in 1 .. (N + 1) : q[k] = Pages[j]
      <4>1. CASE j < i BY <1>1, <1>4, <2>3, <4>1
      <4>2. CASE j >= i
        <5>1. j + 1 \in (i + 1) .. (N + 1) /\ j + 1 \in 1 .. (N + 1) BY <1>1, <1>4, <4>2
        <5>2. q[j + 1] = Pages[(j + 1) - 1] BY <2>3, <5>1
        <5> QED BY <1>1, <5>1, <5>2
      <4> QED BY <1>1, <1>4, <4>1, <4>2
    <3> QED BY <1>1, <2>3, <3>1 DEF Left
  <2>9. WrittenFrom(DFile) BY DEF WrittenFrom
  <2>10. OnDisk(q, DFile) /\ FromMemory(DFile) /\ SameRows(q, DFile)
    BY <1>3, <2>6, <2>7, <2>8, <2>9, Unnoticed
  <2>11. q[Len(q)] = LastPage BY <1>1, <2>3, <2>4 DEF LastPage
  <2>12. i \in 1 .. Len(q) /\ q[i].Index = n BY <1>1, <1>4, <2>2, <2>3
  <2>13. Len(q) = PLocks + 1 /\ PLocks + 1 <= LockPages BY <1>1, <1>8, <2>3
  <2>14. LockedOK(l, n) BY <2>1, <2>6, <2>10, <2>11, <2>12, <2>13 DEF LockedOK
  <2> QED BY <2>14 DEF l
<1>9. CASE Pages[i].Index > n /\ PLocks >= LockPages /\ i = N
  <2>1. l = [pages |-> Recycled(RecycledFile, n, i), locks |-> PLocks,
             file |-> RecycledFile, at |-> i - 1, drops |-> FALSE]
    BY <1>1, <1>2, <1>4, <1>9, <1>l
  <2> DEFINE f == RecycledFile
             r == ReadPage(f, n)
             q == Recycled(f, n, i)
  <2>2. f \in File /\ WrittenFrom(f)
    <3>1. Pages[1] \in PageRec /\ 1 \in 1 .. N BY <1>1, <1>2
    <3> QED BY <1>1, <3>1 DEF RecycledFile, Synced, File, PageRec, WrittenFrom
  <2>3. r \in PageRec /\ r.Index = n /\ r.LastRow = PageRows BY <1>r, <2>2
  <2> HIDE DEF lock, r, f
  <2>4. N \in Nat /\ N >= 3 BY <1>1, <1>9
  <2>5. /\ q \in Seq(PageRec) /\ Len(q) = N
        /\ \A j \in 1 .. (N - 2) : q[j] = Pages[j + 1]
        /\ q[N - 1] = r
        /\ q[N] = Pages[N]
    <3>1. Pages \in Seq(PageRec) /\ Pages[N] \in PageRec BY <1>1, <1>2 DEF ListOK
    <3>2. q = SubSeq(Pages, 2, N - 1) \o <<r, Pages[N]>> BY <1>9 DEF Recycled, r
    <3>3. /\ SubSeq(Pages, 2, N - 1) \in Seq(PageRec) /\ Len(SubSeq(Pages, 2, N - 1)) = N - 2
          /\ \A j \in 1 .. (N - 2) : SubSeq(Pages, 2, N - 1)[j] = Pages[j + 1]
      BY <2>4, <3>1
    <3> DEFINE b == SubSeq(Pages, 2, N - 1)
    <3> HIDE DEF b
    <3>4. b \in Seq(PageRec) /\ Len(b) = N - 2 /\ (\A j \in 1 .. (N - 2) : b[j] = Pages[j + 1]) /\ q = b \o <<r, Pages[N]>>
      BY <3>2, <3>3 DEF b
    <3> DEFINE e == <<r, Pages[N]>>
    <3>5. e \in Seq(PageRec) /\ Len(e) = 2 /\ e[1] = r /\ e[2] = Pages[N] BY <2>3, <3>1
    <3> HIDE DEF q, e
    <3>6. q = b \o e BY <3>4 DEF e
    <3>7. q \in Seq(PageRec) /\ Len(q) = N BY <2>4, <3>4, <3>5, <3>6
    <3>8. \A j \in 1 .. N : q[j] = IF j <= N - 2 THEN b[j] ELSE e[j - (N - 2)]
      <4>1. Len(b) = N - 2 /\ Len(b) + Len(e) = N BY <2>4, <3>4, <3>5
      <4>2. b \in Seq(PageRec) /\ e \in Seq(PageRec) BY <3>4, <3>5
      <4>3. \A j \in 1 .. (Len(b) + Len(e)) :
               (b \o e)[j] = IF j <= Len(b) THEN b[j] ELSE e[j - Len(b)]
        BY <4>2
      <4> QED BY <3>6, <4>1, <4>3
    <3>9. q[N - 1] = e[1]
      <4>1. N - 1 \in 1 .. N /\ ~(N - 1 <= N - 2) /\ (N - 1) - (N - 2) = 1 BY <2>4
      <4> QED BY <3>8, <4>1
    <3>10. q[N] = e[2]
      <4>1. N \in 1 .. N /\ ~(N <= N - 2) /\ N - (N - 2) = 2 BY <2>4
      <4> QED BY <3>8, <4>1
    <3>11. \A j \in 1 .. (N - 2) : q[j] = Pages[j + 1] BY <2>4, <3>4, <3>8
    <3> QED BY <3>5, <3>7, <3>9, <3>10, <3>11
  <2> HIDE DEF q
  <2>6. \A k \in 1 .. N :
           \/ k <= N - 2 /\ k + 1 \in 1 .. N /\ q[k] = Pages[k + 1]
           \/ k = N - 1 /\ q[k] = r
           \/ k = N /\ q[k] = Pages[N]
    <3>1. \A k \in 1 .. N : \/ k <= N - 2 /\ k \in 1 .. (N - 2) /\ k + 1 \in 1 .. N
                            \/ k = N - 1
                            \/ k = N
      BY <2>4
    <3> QED BY <2>5, <3>1
  <2>7. ListOK(q)
    <3> SUFFICES ASSUME NEW j \in 1 .. N, NEW k \in 1 .. N, j < k
                 PROVE  q[j].Index < q[k].Index /\ q[j].LastRow = PageRows
      BY <2>4, <2>5 DEF ListOK
    <3>1. CASE k <= N - 2
      <4>1. /\ j \in 1 .. (N - 2) /\ k \in 1 .. (N - 2) /\ j + 1 < k + 1
            /\ j + 1 \in 1 .. N /\ k + 1 \in 1 .. N /\ j + 1 < N
        BY <2>4, <3>1
      <4>2. q[j] = Pages[j + 1] /\ q[k] = Pages[k + 1] BY <2>5, <4>1
      <4> QED BY <1>2, <4>1, <4>2
    <3>2. CASE k = N - 1
      <4>1. j \in 1 .. (N - 2) /\ j + 1 \in 1 .. N /\ j + 1 < N BY <2>4, <3>2
      <4>2. q[j] = Pages[j + 1] /\ q[k] = r BY <2>5, <3>2, <4>1
      <4>3. Pages[j + 1].Index < n BY <1>5, <1>9, <4>1
      <4> QED BY <1>2, <2>3, <4>1, <4>2, <4>3
    <3>3. CASE k = N /\ j <= N - 2
      <4>1. q[j] = Pages[j + 1] /\ q[k] = Pages[N] /\ j + 1 \in 1 .. N /\ j + 1 < N /\ N \in 1 .. N
        <5>1. j \in 1 .. (N - 2) /\ j + 1 \in 1 .. N /\ j + 1 < N /\ N \in 1 .. N BY <2>4, <3>3
        <5>2. q[j] = Pages[j + 1] BY <2>5, <5>1
        <5> QED BY <2>5, <3>3, <5>1, <5>2
      <4> QED BY <1>2, <4>1
    <3>4. CASE k = N /\ j = N - 1 BY <1>9, <2>3, <2>5, <3>4
    <3> QED BY <2>4, <3>1, <3>2, <3>3, <3>4
  <2>8. InBoth(q, f, n)
    <3>1. \A j \in 1 .. N : Pages[j].Index # n BY <1>1, <1>2, <1>4, <1>5, <1>6, <1>9
    <3> QED BY <1>1, <2>5, <2>6, <3>1 DEF InBoth, r
  <2>9. Left(q, f)
    <3>1. \A s \in Slots : f[Pages[1].Index][s] = Pages[1].Data[s]
      <4>1. /\ 1 \in 1 .. N /\ 1 < N /\ Pages[1] \in PageRec /\ Pages[1].Index \in PageNums
            /\ Pages[1].LastRow = PageRows
        BY <1>2, <2>4
      <4>2. CASE Pages[1].NeedSync BY <4>1, <4>2 DEF f, RecycledFile, Synced, File
      <4>3. CASE ~Pages[1].NeedSync
        <5>1. \A s \in Slots : s < Pages[1].LastRow BY <4>1, Sizes
        <5> QED BY <4>1, <4>3, <5>1 DEF f, RecycledFile, Synced, OnDisk
      <4> QED BY <4>2, <4>3
    <3>2. ASSUME NEW j \in 1 .. N, j # 1 PROVE \E k \in 1 .. N : q[k] = Pages[j]
      <4>1. CASE j = N BY <2>4, <2>5, <4>1
      <4>2. CASE j < N
        <5>1. j - 1 \in 1 .. (N - 2) /\ j - 1 \in 1 .. N BY <2>4, <3>2, <4>2
        <5>2. q[j - 1] = Pages[(j - 1) + 1] BY <2>5, <5>1
        <5> QED BY <5>1, <5>2
      <4> QED BY <2>4, <4>1, <4>2
    <3> QED BY <2>5, <3>1, <3>2 DEF Left
  <2>10. OnDisk(q, f) /\ FromMemory(f) /\ SameRows(q, f)
    BY <1>3, <2>2, <2>7, <2>8, <2>9, Unnoticed
  <2>11. q[Len(q)] = LastPage BY <2>5 DEF LastPage
  <2>12. i - 1 \in 1 .. Len(q) /\ q[i - 1].Index = n BY <1>9, <2>3, <2>4, <2>5
  <2>13. l = [pages |-> q, locks |-> PLocks, file |-> f, at |-> i - 1, drops |-> FALSE]
    BY <2>1 DEF q, f
  <2>14. LockedOK(l, n) BY <1>1, <2>2, <2>5, <2>7, <2>10, <2>11, <2>12, <2>13 DEF LockedOK
  <2> QED BY <2>14 DEF l
<1>10. CASE Pages[i].Index > n /\ PLocks >= LockPages /\ i < N
  <2> DEFINE r == ReadPage(DFile, n)
             q == [Pages EXCEPT ![i] = r]
  <2>1. l = [pages |-> q, locks |-> PLocks, file |-> DFile, at |-> i, drops |-> Pages[i].NeedSync]
    BY <1>1, <1>2, <1>4, <1>10, <1>l
  <2>2. r \in PageRec /\ r.Index = n /\ r.LastRow = PageRows BY <1>r
  <2> HIDE DEF lock, r
  <2>3. /\ q \in Seq(PageRec) /\ Len(q) = N
        /\ \A j \in 1 .. N : q[j] = IF j = i THEN r ELSE Pages[j]
    <3>1. Pages \in Seq(PageRec) BY DEF ListOK
    <3> QED BY <1>1, <1>4, <2>2, <3>1
  <2> HIDE DEF q
  <2>4. ListOK(q)
    <3> SUFFICES ASSUME NEW j \in 1 .. N, NEW k \in 1 .. N, j < k
                 PROVE  q[j].Index < q[k].Index /\ q[j].LastRow = PageRows
      BY <1>1, <2>3 DEF ListOK
    <3>1. j < N BY <1>1
    <3>2. CASE j = i
      <4>1. q[j] = r /\ q[k] = Pages[k] /\ Pages[k].Index > n BY <1>1, <1>4, <1>6, <2>3, <3>2
      <4> QED BY <1>2, <2>2, <4>1
    <3>3. CASE k = i
      <4>1. q[k] = r /\ q[j] = Pages[j] /\ Pages[j].Index < n BY <1>1, <1>4, <1>5, <2>3, <3>3
      <4> QED BY <1>2, <2>2, <3>1, <4>1
    <3>4. CASE j # i /\ k # i
      <4>1. q[j] = Pages[j] /\ q[k] = Pages[k] BY <2>3, <3>4
      <4> QED BY <1>2, <3>1, <4>1
    <3> QED BY <3>2, <3>3, <3>4
  <2>5. InBoth(q, DFile, n)
    <3>1. \A j \in 1 .. N : Pages[j].Index # n BY <1>1, <1>2, <1>4, <1>5, <1>6, <1>10
    <3> QED BY <1>1, <2>3, <3>1 DEF InBoth, r
  <2>6. ~Pages[i].NeedSync => Left(q, DFile)
    <3>1. ~Pages[i].NeedSync => \A s \in Slots : DFile[Pages[i].Index][s] = Pages[i].Data[s]
      <4>1. \A s \in Slots : s < Pages[i].LastRow BY <1>2, <1>4, <1>10, Sizes
      <4> QED BY <1>4, <4>1 DEF OnDisk
    <3> QED BY <1>1, <2>3, <3>1 DEF Left
  <2>7. WrittenFrom(DFile) BY DEF WrittenFrom
  <2>8. OnDisk(q, DFile) /\ FromMemory(DFile) /\ (~Pages[i].NeedSync => SameRows(q, DFile))
    BY <1>3, <2>4, <2>5, <2>6, <2>7, Unnoticed
  <2>9. q[Len(q)] = LastPage BY <1>1, <1>10, <2>3 DEF LastPage
  <2>10. i \in 1 .. Len(q) /\ q[i].Index = n BY <1>4, <2>2, <2>3
  <2>11. Pages[i].NeedSync \in BOOLEAN BY <1>2, <1>4 DEF PageRec
  <2>12. LockedOK(l, n) BY <1>1, <2>1, <2>3, <2>4, <2>8, <2>9, <2>10, <2>11 DEF LockedOK
  <2> QED BY <2>12 DEF l
<1> HIDE DEF lock
<1> QED BY <1>1, <1>2, <1>4, <1>7, <1>8, <1>9, <1>10 DEF l

----------------------------------------------------------------------------
(* The parts of the invariant in the next state, written with the primes on *)
(* the variables: the sizes stay.                                           *)
RowsAre(ps, f, rs, n) ==
    Len(rs) = n /\ \A i \in 1 .. n : At(ps, f, Page(i - 1), Slot(i - 1)) = rs[i]

(* What the parts of the invariant say of the next state: the sizes in      *)
(* them do not change.                                                      *)
LEMMA Primed ==
    ASSUME setup' = setup
    PROVE  /\ ListOK(Pages)' <=> ListOK(Pages')
           /\ OnDisk(Pages, DFile)' <=> OnDisk(Pages', DFile')
           /\ Whole' <=> ((fails' = 0 /\ ~dropped') =>
                             RowsAre(Pages', DFile', rows', IF open' THEN Index' ELSE HFile'))
           /\ \A i : FileRow(i)' = DFile'[Page(i - 1)][Slot(i - 1)]
<1>1. ListOK(Pages)' <=> ListOK(Pages') BY SizesStay DEF ListOK
<1>2. OnDisk(Pages, DFile)' <=> OnDisk(Pages', DFile') BY SizesStay DEF OnDisk
<1>3. Whole' <=> ((fails' = 0 /\ ~dropped') =>
                     RowsAre(Pages', DFile', rows', IF open' THEN Index' ELSE HFile'))
  BY SizesStay DEF Whole, RowsAre, At, Size
<1>4. \A i : FileRow(i)' = DFile'[Page(i - 1)][Slot(i - 1)] BY SizesStay DEF FileRow
<1> QED BY <1>1, <1>2, <1>3, <1>4

(* The list of an open table, and where its last page ends                  *)
LEMMA Opened ==
    ASSUME IInv, open
    PROVE  /\ ListOK(Pages) /\ Len(Pages) = PLocks /\ PLocks <= LockPages
           /\ OnDisk(Pages, DFile) /\ DFile \in File
           /\ LastPage = Pages[PLocks] /\ PLocks \in 1 .. Len(Pages) /\ PLocks \in Nat
           /\ LastPage \in PageRec /\ LastPage.Index \in PageNums /\ LastPage.Index \in Nat
           /\ LastPage.LastRow \in Nat /\ LastPage.LastRow <= PageRows
           /\ (LastPage.Index * PageRows) + LastPage.LastRow <= Index
           /\ fails = 0 => (LastPage.Index * PageRows) + LastPage.LastRow = Index
           /\ \A n \in Nat : Reachable(n) <=> n <= LastPage.Index
<1>1. setup \in Setups /\ ListOK(Pages) /\ Len(Pages) = PLocks /\ PLocks <= LockPages
      /\ OnDisk(Pages, DFile) /\ DFile \in File
  BY DEF IInv, Types, InMemory, File
<1>2. PLocks \in 1 .. Len(Pages) /\ PLocks \in Nat /\ LastPage = Pages[PLocks]
  BY <1>1, ListIs DEF LastPage
<1>3. /\ LastPage \in PageRec /\ LastPage.Index \in PageNums /\ LastPage.Index \in Nat
      /\ LastPage.LastRow \in Nat /\ LastPage.LastRow <= PageRows
  BY <1>1, <1>2, ListIs
<1>4. /\ (LastPage.Index * PageRows) + LastPage.LastRow <= Index
      /\ fails = 0 => (LastPage.Index * PageRows) + LastPage.LastRow = Index
  BY DEF IInv, InMemory
<1>5. ASSUME NEW n \in Nat PROVE Reachable(n) <=> n <= LastPage.Index
  <2>1. \A i \in 1 .. Len(Pages) : Pages[i].Index \in Nat /\ Pages[i].Index <= LastPage.Index
    BY <1>1, <1>2, ListIs DEF ListOK
  <2>2. DOMAIN Pages = 1 .. Len(Pages) BY <1>1, ListIs
  <2> QED BY <1>2, <1>3, <2>1, <2>2 DEF Reachable
<1> QED BY <1>1, <1>2, <1>3, <1>4, <1>5

(* A row of the table is on a page of the files, and before the end of the  *)
(* last page if it is there.                                                *)
LEMMA RowPlaces ==
    ASSUME IInv, NEW i \in 1 .. Size
    PROVE  /\ Page(i - 1) \in PageNums /\ Page(i - 1) \in Nat /\ Slot(i - 1) \in Slots /\ Slot(i - 1) \in Nat
           /\ i = ((Page(i - 1) * PageRows) + Slot(i - 1)) + 1
<1>1. setup \in Setups /\ Size \in Nat /\ Size <= MaxRows /\ MaxRows \in Nat
  BY Sizes DEF IInv, Types, Size
<1>2. i - 1 \in Nat /\ i - 1 <= MaxRows BY <1>1
<1>3. /\ Page(i - 1) \in Nat /\ Slot(i - 1) \in Slots /\ i - 1 = (Page(i - 1) * PageRows) + Slot(i - 1)
      /\ Page(i - 1) * PageRows \in Nat
  BY <1>1, <1>2, Positions
<1>4. Slot(i - 1) \in Nat BY <1>1, <1>3, Sizes
<1>5. Page(i - 1) * PageRows <= MaxRows BY <1>1, <1>2, <1>3, <1>4
<1> QED BY <1>1, <1>2, <1>3, <1>4, <1>5, Positions

(* Whatever pages are written, a row that was flushed is in the file as it  *)
(* was or as it is now.                                                     *)
LEMMA FileKeeps ==
    ASSUME IInv, open, fails = 0, ~dropped, updates <= 1, NEW f, FromMemory(f)
    PROVE  \A i \in 1 .. Len(flushed) :
              i \in 1 .. Size /\ f[Page(i - 1)][Slot(i - 1)] \in {flushed[i], rows[i]}
<1> SUFFICES ASSUME NEW i \in 1 .. Len(flushed)
             PROVE  i \in 1 .. Size /\ f[Page(i - 1)][Slot(i - 1)] \in {flushed[i], rows[i]}
  OBVIOUS
<1>1. /\ Len(flushed) <= Len(rows) /\ Len(rows) = Size
      /\ FileRow(i) \in {flushed[i], rows[i]}
  BY DEF IInv, Whole, Survives
<1>2. Len(flushed) \in Nat /\ Len(rows) \in Nat BY DEF IInv, Types
<1>3. i \in 1 .. Size BY <1>1, <1>2
<1>4. At(Pages, DFile, Page(i - 1), Slot(i - 1)) = rows[i] BY <1>3 DEF IInv, Whole
<1>5. Page(i - 1) \in PageNums /\ Slot(i - 1) \in Slots BY <1>3, RowPlaces
<1>6. f[Page(i - 1)][Slot(i - 1)] \in {FileRow(i), rows[i]} BY <1>4, <1>5 DEF FromMemory, FileRow
<1> QED BY <1>1, <1>3, <1>6

(* A table that has been created                                            *)
LEMMA InitIInv == ASSUME Init PROVE IInv
<1> USE DEF Init
<1>1. /\ PageRows \in Nat /\ PageRows > 0 /\ MaxRows \in Nat /\ 0 \in Slots /\ Slots \subseteq Nat
  BY Sizes
<1>2. 0 \in PageNums
  <2>1. 0 * PageRows <= MaxRows BY <1>1
  <2> QED BY <2>1, Positions
<1>3. Junk \in Row
  <2>1. 0 \in 0 .. (Width - 1) /\ 0 \in 0 .. MaxRows BY <1>1, TableAssumption
  <2> QED BY <2>1 DEF Junk, Row
<1>4. EmptyPage(0) \in PageRec /\ EmptyPage(0).Index = 0 /\ EmptyPage(0).LastRow = 0
  BY <1>1, <1>2, <1>3 DEF EmptyPage, PageRec
<1>5. /\ Pages \in Seq(PageRec) /\ Len(Pages) = 1 /\ Pages[1] = EmptyPage(0) /\ LastPage = EmptyPage(0)
  BY <1>4 DEF LastPage
<1>6. Types
  <2>1. ocb \in [Clients -> [Record : 0 .. MaxRows, Filters : Seq(Filters)]] BY <1>1 DEF Fresh
  <2>2. DFile \in [PageNums -> [Slots -> Row]] BY <1>3
  <2>3. ~Modifying BY DEF Modifying, NoReq
  <2>4. setup \in Setups /\ ReqType BY DEF ReqType
  <2>5. rows \in Seq(Row) /\ flushed \in Seq(Row) OBVIOUS
  <2>6. Index \in 0 .. MaxRows /\ HFile \in 0 .. MaxRows BY <1>1
  <2>7. fails \in Nat /\ updates \in Nat /\ open \in BOOLEAN /\ dropped \in BOOLEAN OBVIOUS
  <2> QED BY <2>1, <2>2, <2>3, <2>4, <2>5, <2>6, <2>7 DEF Types
<1>7. InMemory
  <2>1. ListOK(Pages) BY <1>5 DEF ListOK
  <2>2. 1 <= LockPages BY TableAssumption
  <2> QED BY <1>1, <1>4, <1>5, <2>1, <2>2 DEF InMemory
<1>8. OnDisk(Pages, DFile)
  <2>1. \A s \in Slots : ~(s < 0) BY <1>1
  <2> QED BY <1>4, <1>5, <2>1 DEF OnDisk
<1>9. CursorFollows /\ HeadWritten BY DEF CursorFollows, HeadWritten, Reading, NoReq
<1>10. Whole BY DEF Whole, Size
<1>11. Survives BY DEF Survives
<1> QED BY <1>6, <1>7, <1>8, <1>9, <1>10, <1>11 DEF IInv

(* Qbase_write before it adds a row: the last page has room, everything     *)
(* before its end is where it was, and what it replaced is in the file.     *)
TurnedPages == [Pages EXCEPT ![Len(Pages)] = TurnedPage]

(* Qbase_write turns to the last page or a fresh one: there is room in      *)
(* it, and the row it adds goes to place Index.                             *)
LEMMA Turned ==
    ASSUME IInv, Idle, Index < MaxRows, InsertFiles
    PROVE  /\ TurnedPage \in PageRec /\ TurnedPage.Index \in PageNums /\ TurnedPage.Index \in Nat
           /\ TurnedPage.LastRow \in Nat /\ TurnedPage.LastRow < PageRows
           /\ (TurnedPage.Index * PageRows) + TurnedPage.LastRow
                = (LastPage.Index * PageRows) + LastPage.LastRow
           /\ ListOK(TurnedPages) /\ Len(TurnedPages) = Len(Pages)
           /\ TurnedPages[Len(Pages)] = TurnedPage
           /\ \A j \in 1 .. Len(Pages) : j # Len(Pages) => TurnedPages[j] = Pages[j]
           /\ DFile' \in File /\ FromMemory(DFile') /\ OnDisk(TurnedPages, DFile')
           /\ HFile' \in {HFile, Index}
           /\ \A m \in PageNums, s \in Slots :
                 (m * PageRows) + s < (TurnedPage.Index * PageRows) + TurnedPage.LastRow =>
                    At(TurnedPages, DFile', m, s) = At(Pages, DFile, m, s)
<1> DEFINE N == Len(Pages)
           P == PageRows
           w == TurnedPage
           q == TurnedPages
           f == DFile'
           full == LastPage.LastRow >= P
<1>1. /\ ListOK(Pages) /\ OnDisk(Pages, DFile) /\ DFile \in File /\ setup \in Setups
      /\ LastPage = Pages[N] /\ N \in 1 .. N /\ N \in Nat /\ DOMAIN Pages = 1 .. N
      /\ LastPage \in PageRec /\ LastPage.Index \in PageNums /\ LastPage.Index \in Nat
      /\ LastPage.LastRow \in Nat /\ LastPage.LastRow <= P
      /\ (LastPage.Index * P) + LastPage.LastRow <= Index
      /\ P \in Nat /\ P > 0 /\ Index \in Nat /\ MaxRows \in Nat
  BY Opened, Sizes, ListIs DEF Idle, IInv, Types
<1>2. /\ \A j \in 1 .. N : Pages[j] \in PageRec /\ Pages[j].Index \in PageNums /\ Pages[j].Index \in Nat
      /\ \A j, k \in 1 .. N : j < k => Pages[j].Index < Pages[k].Index
      /\ \A j, k \in 1 .. N : Pages[j].Index = Pages[k].Index => j = k
      /\ \A j \in 1 .. N : j < N => Pages[j].LastRow = P
  BY <1>1, ListIs DEF ListOK
<1>3. full => w = [LastPage EXCEPT !.Index = LastPage.Index + 1, !.LastRow = 0, !.NeedSync = FALSE]
  BY DEF TurnedPage
<1>4. ~full => w = LastPage BY DEF TurnedPage
<1>5. full => (LastPage.Index + 1) * P = (LastPage.Index * P) + LastPage.LastRow
  <2>1. full => LastPage.LastRow = P BY <1>1
  <2>2. (LastPage.Index + 1) * P = (LastPage.Index * P) + P BY <1>1
  <2> QED BY <2>1, <2>2
<1>6. full => LastPage.Index + 1 \in PageNums
  <2>1. full => (LastPage.Index + 1) * P <= MaxRows BY <1>1, <1>5
  <2>2. \A a \in Nat : a * P <= MaxRows => a \in PageNums BY <1>1, Positions
  <2>3. LastPage.Index + 1 \in Nat BY <1>1
  <2> HIDE DEF full, P
  <2> QED BY <2>1, <2>2, <2>3
<1>7. /\ w \in PageRec /\ w.Index \in PageNums /\ w.Index \in Nat
      /\ w.LastRow \in Nat /\ w.LastRow < P
      /\ (w.Index * P) + w.LastRow = (LastPage.Index * P) + LastPage.LastRow
      /\ w.Index >= LastPage.Index /\ w.Data = LastPage.Data
      /\ full => w.LastRow = 0 /\ w.Index = LastPage.Index + 1 /\ ~w.NeedSync
  <2>1. CASE full
    <3>w. w = [LastPage EXCEPT !.Index = LastPage.Index + 1, !.LastRow = 0, !.NeedSync = FALSE]
      BY <1>3, <2>1
    <3>r. /\ LastPage \in [Index : PageNums, LastRow : 0 .. P, NeedSync : BOOLEAN, Data : [Slots -> Row]]
          /\ LastPage.Index + 1 \in PageNums /\ 0 \in 0 .. P
      BY <1>1, <1>6, <2>1 DEF PageRec
    <3>1. /\ w.Index = LastPage.Index + 1 /\ w.LastRow = 0 /\ w.NeedSync = FALSE
          /\ w.Data = LastPage.Data /\ w \in PageRec
      <4> HIDE DEF w, P
      <4>1. w \in [Index : PageNums, LastRow : 0 .. P, NeedSync : BOOLEAN, Data : [Slots -> Row]]
        BY <3>w, <3>r
      <4> QED BY <3>w, <3>r, <4>1 DEF PageRec, P
    <3>2. (w.Index * P) + w.LastRow = (LastPage.Index + 1) * P BY <1>1, <3>1
    <3> QED BY <1>1, <1>5, <1>6, <2>1, <3>1, <3>2
  <2>2. CASE ~full BY <1>1, <1>4, <2>2
  <2> QED BY <2>1, <2>2
<1>8. /\ f \in File /\ WrittenFrom(f) /\ HFile' \in {HFile, Index}
      /\ full => f = Synced(DFile, LastPage)
      /\ ~full => f = DFile
  <2>1. CASE full
    <3>1. f = Synced(DFile, LastPage) /\ HFile' = Index BY <2>1 DEF InsertFiles
    <3>2. f \in File BY <1>1, <3>1 DEF Synced, File, PageRec
    <3>3. WrittenFrom(f) BY <1>1, <3>1 DEF Synced, File, WrittenFrom
    <3> QED BY <2>1, <3>1, <3>2, <3>3
  <2>2. CASE ~full
    <3>1. f = DFile /\ HFile' = HFile BY <2>2 DEF InsertFiles, fileVars
    <3> QED BY <1>1, <2>2, <3>1 DEF WrittenFrom
  <2> QED BY <2>1, <2>2
<1> HIDE DEF w, f
<1>9. OnDisk(Pages, f) /\ FromMemory(f) /\ SameRows(Pages, f)
  <2>1. InBoth(Pages, f, LastPage.Index) /\ Left(Pages, f) BY DEF InBoth, Left
  <2> QED BY <1>1, <1>8, <2>1, Unnoticed
<1>10. /\ q \in Seq(PageRec) /\ Len(q) = N /\ q[N] = w
       /\ \A j \in 1 .. N : j # N => q[j] = Pages[j]
  <2>1. Pages \in Seq(PageRec) BY <1>1 DEF ListOK
  <2>2. q = [Pages EXCEPT ![N] = w] BY DEF TurnedPages, w
  <2> HIDE DEF q
  <2> QED BY <1>1, <1>7, <2>1, <2>2
<1> HIDE DEF q
<1>11. ListOK(q)
  <2> SUFFICES ASSUME NEW j \in 1 .. N, NEW k \in 1 .. N, j < k
               PROVE  q[j].Index < q[k].Index /\ q[j].LastRow = P
    BY <1>1, <1>10 DEF ListOK
  <2>n. N \in Nat BY <1>1
  <2>0. j < N /\ j # N
    <3> HIDE DEF N
    <3> QED BY <2>n
  <2>1. j < N /\ q[j] = Pages[j] BY <1>10, <2>0
  <2>2. CASE k = N
    <3>1. Pages[j].Index < LastPage.Index BY <1>1, <1>2, <2>1
    <3>2. Pages[j].Index < w.Index BY <1>1, <1>2, <1>7, <3>1
    <3> QED BY <1>2, <1>10, <2>1, <2>2, <3>2
  <2>3. CASE k # N
    <3>1. q[k] = Pages[k] BY <1>10, <2>3
    <3> QED BY <1>2, <2>1, <3>1
  <2> QED BY <2>2, <2>3
<1>12. OnDisk(q, f)
  <2> SUFFICES ASSUME NEW k \in 1 .. N, ~q[k].NeedSync, NEW s \in Slots, s < q[k].LastRow
               PROVE  q[k].Data[s] = f[q[k].Index][s]
    BY <1>10 DEF OnDisk
  <2>1. CASE k # N BY <1>9, <1>10, <2>1 DEF OnDisk
  <2>2. CASE k = N /\ full
    <3>1. s < 0 BY <1>7, <1>10, <2>2
    <3> QED BY <1>1, <3>1, Sizes
  <2>3. CASE k = N /\ ~full
    <3>1. q[k] = Pages[k] BY <1>1, <1>4, <1>10, <2>3 DEF w
    <3> QED BY <1>9, <3>1 DEF OnDisk
  <2> QED BY <2>1, <2>2, <2>3
<1>a. setup \in Setups /\ ListOK(Pages) /\ LastPage = Pages[N] /\ N \in 1 .. N BY <1>1
<1>l. Len(q) = N BY <1>10
<1>13. ASSUME NEW m \in PageNums, NEW s \in Slots, (m * P) + s < (w.Index * P) + w.LastRow
       PROVE  At(q, f, m, s) = At(Pages, DFile, m, s)
  <2>1. At(Pages, f, m, s) = At(Pages, DFile, m, s) BY <1>9 DEF SameRows
  <2>2. CASE ~full
    <3>1. \A k \in 1 .. N : q[k] = Pages[k] BY <1>1, <1>4, <1>10, <2>2 DEF w
    <3>2. q = Pages
      <4>1. DOMAIN q = 1 .. N /\ q = [k \in 1 .. N |-> q[k]] BY <1>10
      <4>2. Pages = [k \in 1 .. N |-> Pages[k]] BY <1>1 DEF ListOK
      <4> QED BY <3>1, <4>1, <4>2
    <3> QED BY <2>1, <3>2
  <2>3. CASE full
    <3>1. m # w.Index
      <4> SUFFICES ASSUME m = w.Index PROVE FALSE OBVIOUS
      <4>1. s \in Nat /\ w.LastRow = 0 /\ w.Index * P \in Nat BY <1>1, <1>7, <2>3, Sizes, Positions
      <4>2. (w.Index * P) + s < (w.Index * P) + w.LastRow BY <1>13
      <4> QED BY <4>1, <4>2
    <3>2. CASE m = LastPage.Index
      <4>1. At(Pages, f, m, s) = LastPage.Data[s] BY <1>a, <3>2, AtIs
      <4>2. f[m][s] = LastPage.Data[s]
        <5>1. CASE LastPage.NeedSync BY <1>1, <1>8, <2>3, <3>2, <5>1 DEF Synced, File
        <5>2. CASE ~LastPage.NeedSync
          <6>1. s < LastPage.LastRow BY <1>1, <2>3, Sizes
          <6> QED BY <1>1, <1>9, <3>2, <5>2, <6>1 DEF OnDisk
        <5> QED BY <5>1, <5>2
      <4>3. \A k \in 1 .. N : q[k].Index # m
        <5> SUFFICES ASSUME NEW k \in 1 .. N, q[k].Index = m PROVE FALSE OBVIOUS
        <5>1. k # N BY <1>10, <3>1
        <5> QED BY <1>1, <1>2, <1>10, <3>2, <5>1
      <4>4. At(q, f, m, s) = f[m][s] BY <1>a, <1>l, <1>11, <4>3, AtIs
      <4> QED BY <2>1, <4>1, <4>2, <4>4
    <3>3. CASE m # LastPage.Index
      <4>1. ASSUME NEW k \in 1 .. N, Pages[k].Index = m PROVE At(q, f, m, s) = At(Pages, f, m, s)
        <5>1. k # N /\ q[k] = Pages[k] BY <1>1, <1>10, <3>3, <4>1
        <5> QED BY <1>a, <1>l, <1>11, <4>1, <5>1, AtIs
      <4>2. ASSUME \A k \in 1 .. N : Pages[k].Index # m PROVE At(q, f, m, s) = At(Pages, f, m, s)
        <5>1. \A k \in 1 .. N : q[k].Index # m BY <1>10, <3>1, <4>2
        <5> QED BY <1>a, <1>l, <1>11, <4>2, <5>1, AtIs
      <4> QED BY <2>1, <4>1, <4>2
    <3> QED BY <3>2, <3>3
  <2> QED BY <2>2, <2>3
<1> QED BY <1>7, <1>8, <1>9, <1>10, <1>11, <1>12, <1>13 DEF w, q, f

----------------------------------------------------------------------------
(* Every request keeps the invariant, step by step.  Most steps leave the   *)
(* table, its files and what is known of both alone; they change the OCB of *)
(* a client and the request.                                                *)
OcbType == ocb \in [Clients -> [Record : 0 .. MaxRows, Filters : Seq(Filters)]]
ModifyCounted == Modifying => updates > 0

(* A request that leaves table and files alone keeps the invariant if its   *)
(* own part follows.                                                        *)
LEMMA TableStays ==
    ASSUME IInv, setup' = setup,
           UNCHANGED <<Index, Pages, PLocks, open, DFile, rows, flushed, dropped, fails>>,
           open \/ req' = NoReq,
           HFile' = HFile \/ (open /\ HFile' = Index),
           updates' \in Nat, updates' >= updates,
           updates' <= 1 => \A i \in Nat : Untouched(i)' => Untouched(i),
           OcbType', ReqType', ModifyCounted', CursorFollows', HeadWritten'
    PROVE  IInv'
<1>1. /\ setup \in Setups /\ Index \in 0 .. MaxRows /\ HFile \in 0 .. MaxRows
      /\ open \in BOOLEAN /\ DFile \in File /\ rows \in Seq(Row) /\ flushed \in Seq(Row)
      /\ dropped \in BOOLEAN /\ fails \in Nat /\ updates \in Nat
  BY DEF IInv, Types, File
<1>2. Types'
  <2>1. /\ Row' = Row /\ MaxRows' = MaxRows /\ PageNums' = PageNums /\ Slots' = Slots BY SizesStay
  <2>2. /\ Index' \in 0 .. MaxRows' /\ HFile' \in 0 .. MaxRows' /\ open' \in BOOLEAN
        /\ DFile' \in [PageNums' -> [Slots' -> Row']]
        /\ rows' \in Seq(Row') /\ flushed' \in Seq(Row') /\ dropped' \in BOOLEAN
        /\ fails' \in Nat /\ setup' \in Setups
    BY <1>1, <2>1 DEF File
  <2> QED BY <2>2 DEF Types, OcbType, ModifyCounted
<1>3. InMemory'
  <2>1. InMemory BY DEF IInv
  <2>2. PageRows' = PageRows /\ (ListOK(Pages)' <=> ListOK(Pages)) BY Primed, SizesStay
  <2> QED BY <2>1, <2>2 DEF InMemory, LastPage
<1>4. OnDisk(Pages, DFile)' BY Primed DEF IInv
<1>5. Whole'
  <2>1. Size = (IF open' THEN Index' ELSE HFile') BY DEF Size
  <2> QED BY <2>1, Primed DEF IInv, Whole, RowsAre
<1>6. Survives'
  <2> SUFFICES ASSUME fails = 0, ~dropped, updates' <= 1
               PROVE  /\ Len(flushed) <= HFile' /\ Len(flushed) <= Len(rows)
                      /\ \A i \in 1 .. Len(flushed) :
                            /\ FileRow(i)' \in {flushed[i], rows[i]}
                            /\ Untouched(i)' => rows[i] = flushed[i]
    BY DEF Survives
  <2>1. /\ updates <= 1 /\ Len(flushed) <= HFile /\ Len(flushed) <= Len(rows)
        /\ \A i \in 1 .. Len(flushed) :
              /\ FileRow(i) \in {flushed[i], rows[i]}
              /\ Untouched(i) => rows[i] = flushed[i]
    BY <1>1 DEF IInv, Survives
  <2>2. open => Len(rows) = Index BY DEF IInv, Whole, Size
  <2>3. Len(flushed) \in Nat /\ Len(rows) \in Nat BY <1>1
  <2>4. Len(flushed) <= HFile' BY <1>1, <2>1, <2>2
  <2>5. \A i : FileRow(i)' = FileRow(i) BY Primed DEF FileRow
  <2>6. \A i \in 1 .. Len(flushed) : i \in Nat BY <2>3
  <2>7. \A i \in 1 .. Len(flushed) : Untouched(i)' => Untouched(i) BY <2>6
  <2> QED BY <2>1, <2>4, <2>5, <2>7
<1> QED BY <1>2, <1>3, <1>4, <1>5, <1>6 DEF IInv

(* A request that is not a walk                                             *)
LEMMA NotWalking ==
    ASSUME IInv, setup' = setup, req' = NoReq \/ req' \in [op : {"flush", "release"}], updates' = updates
    PROVE  /\ ReqType' /\ ModifyCounted' /\ CursorFollows'
           /\ \A i \in Nat : Untouched(i)' => Untouched(i)
<1>1. req'.op \in {"none", "flush", "release"} BY DEF NoReq
<1>2. ~Modifying' /\ ~Reading' BY <1>1 DEF Modifying, Reading
<1> QED BY <1>2 DEF ReqType, ModifyCounted, CursorFollows, Untouched

(* The record position and the filters of each connection keep their        *)
(* types.                                                                   *)
LEMMA OcbIs == ASSUME IInv PROVE OcbType /\ \A c \in setup.clients : c \in Clients
  BY Sizes DEF IInv, Types, OcbType

(* SEEK and the requests about filters                                      *)
LEMMA SetOcbIInv ==
    ASSUME IInv, setup' = setup, NEW c \in setup.clients,
           Seek(c) \/ FilterDefine(c) \/ FilterPop(c) \/ FilterDelete(c)
    PROVE  IInv'
<1>1. /\ OcbType /\ c \in Clients /\ MaxRows \in Nat /\ Index \in 0 .. MaxRows
  BY OcbIs, Sizes DEF IInv, Types
<1>2. /\ ocb[c].Record \in 0 .. MaxRows /\ ocb[c].Filters \in Seq(Filters)
      /\ ocb[c] \in [Record : 0 .. MaxRows, Filters : Seq(Filters)]
  BY <1>1 DEF OcbType
<1>3. PICK o \in [Record : 0 .. MaxRows, Filters : Seq(Filters)] : SetOcb(c, o)
  <2>1. CASE Seek(c)
    <3>1. PICK key \in 0 .. (MaxRows + 1) : SetOcb(c, [ocb[c] EXCEPT !.Record = Sought(key)])
      BY <2>1 DEF Seek
    <3>2. Sought(key) \in 0 .. MaxRows BY <1>1 DEF Sought
    <3> QED BY <1>2, <3>1, <3>2
  <2>2. CASE FilterDefine(c)
    <3>1. PICK f \in Filters : SetOcb(c, [Record |-> 0, Filters |-> <<f>> \o ocb[c].Filters])
      BY <2>2 DEF FilterDefine
    <3>2. <<f>> \o ocb[c].Filters \in Seq(Filters) BY <1>2
    <3>3. 0 \in 0 .. MaxRows BY <1>1
    <3> QED BY <3>1, <3>2, <3>3
  <2>3. CASE FilterPop(c)
    <3>1. Tail(ocb[c].Filters) \in Seq(Filters) /\ SetOcb(c, [ocb[c] EXCEPT !.Filters = Tail(ocb[c].Filters)])
      BY <1>2, <2>3 DEF FilterPop
    <3> QED BY <1>2, <3>1
  <2>4. CASE FilterDelete(c)
    <3>1. Fresh \in [Record : 0 .. MaxRows, Filters : Seq(Filters)] BY <1>1 DEF Fresh
    <3> QED BY <2>4, <3>1 DEF FilterDelete
  <2> QED BY <2>1, <2>2, <2>3, <2>4
<1>4. /\ open /\ req = NoReq /\ req' = NoReq /\ updates' = updates
      /\ UNCHANGED <<Index, Pages, PLocks, open, DFile, rows, flushed, dropped, fails>>
      /\ HFile' = HFile /\ ocb' = [ocb EXCEPT ![c] = o]
  BY <1>3 DEF SetOcb, Idle, tableVars, fileVars, histVars, countVars
<1>5. OcbType'
  <2>1. MaxRows' = MaxRows BY SizesStay
  <2> QED BY <1>1, <1>4, <2>1 DEF OcbType
<1>6. HeadWritten' BY <1>4 DEF HeadWritten, NoReq
<1>7. updates \in Nat BY DEF IInv, Types
<1> QED BY <1>4, <1>5, <1>6, <1>7, NotWalking, TableStays

(* TBLREAD, UPDATE, UPDCUR and DELETE before the first page                 *)
LEMMA BeginIInv ==
    ASSUME IInv, setup' = setup, NEW c \in setup.clients, ReadBegin(c) \/ ModifyBegin(c)
    PROVE  IInv'
<1>1. /\ OcbType /\ c \in Clients /\ MaxRows \in Nat /\ Index \in 0 .. MaxRows /\ setup \in Setups
      /\ ocb[c].Record \in Nat /\ updates \in Nat
  BY OcbIs, Sizes DEF IInv, Types, OcbType
<1>2. PICK op \in {"read", "delete", "update", "updcur"}, n \in Nat, rule \in {"none"} \cup setup.rules :
         /\ BeginWith(c, op, n, rule)
         /\ op \in {"read", "delete"} => rule = "none"
         /\ op \in {"update", "updcur"} => rule \in setup.rules
         /\ op = "read" => n = ocb[c].Record /\ updates' = updates
         /\ op # "read" => updates' = updates + 1
  <2>1. CASE ReadBegin(c) BY <1>1, <2>1 DEF ReadBegin, Begin
  <2>2. CASE ModifyBegin(c) BY <1>1, <2>2 DEF ModifyBegin, Begin
  <2> QED BY <2>1, <2>2
<1>3. /\ open /\ req = NoReq
      /\ req' = [op |-> op, c |-> c, PIndex |-> Page(n), RIndex |-> Slot(n), TIndex |-> Index,
                 rule |-> rule]
      /\ UNCHANGED <<Index, Pages, PLocks, open, DFile, rows, flushed, dropped, fails>>
      /\ HFile' = HFile /\ ocb' = ocb
  BY <1>2 DEF BeginWith, Idle, tableVars, fileVars, histVars
<1>4. Page(n) \in Nat /\ Slot(n) \in Slots /\ n = (Page(n) * PageRows) + Slot(n) BY <1>1, Positions
<1>5. OcbType' BY <1>1, <1>3, SizesStay DEF OcbType
<1>6. ReqType'
  <2>1. Slots' = Slots /\ Index \in Int BY <1>1, SizesStay
  <2>2. CASE op \in {"read", "delete"}
    <3>1. req' \in WalkRec({"read", "delete"}, {"none"})'
      BY <1>1, <1>2, <1>3, <1>4, <2>1, <2>2 DEF WalkRec
    <3> QED BY <1>3, <2>2, <3>1 DEF ReqType
  <2>3. CASE op \in {"update", "updcur"}
    <3>1. req' \in WalkRec({"update", "updcur"}, setup.rules)'
      BY <1>1, <1>2, <1>3, <1>4, <2>1, <2>3 DEF WalkRec
    <3> QED BY <1>3, <2>3, <3>1 DEF ReqType
  <2> QED BY <2>2, <2>3
<1>7. ModifyCounted' BY <1>1, <1>2, <1>3 DEF ModifyCounted, Modifying
<1>8. CursorFollows' BY <1>2, <1>3, <1>4, SizesStay DEF CursorFollows, Reading
<1>9. HeadWritten' BY <1>3 DEF HeadWritten
<1>10. updates' <= 1 => \A i \in Nat : Untouched(i)' => Untouched(i)
  BY <1>1, <1>2, <1>3 DEF Untouched, Modifying
<1> QED BY <1>1, <1>2, <1>3, <1>5, <1>6, <1>7, <1>8, <1>9, <1>10, TableStays

(* The end of a walk, and of the requests of the kind                       *)
LEMMA EndIInv == ASSUME IInv, setup' = setup, ReadEnd \/ ModifyEnd PROVE IInv'
<1>1. /\ req' = NoReq /\ updates' = updates /\ updates \in Nat /\ ocb' = ocb /\ HFile' = HFile
      /\ UNCHANGED <<Index, Pages, PLocks, open, DFile, rows, flushed, dropped, fails>>
      /\ req # NoReq
  BY DEF IInv, Types, ReadEnd, ModifyEnd, Finish, tableVars, fileVars, histVars, countVars,
         Reading, Modifying, NoReq
<1>2. open /\ open \in BOOLEAN BY <1>1 DEF IInv, InMemory, Types
<1>3. OcbType' BY <1>1, OcbIs, SizesStay DEF OcbType
<1>4. HeadWritten' BY <1>1 DEF HeadWritten, NoReq
<1> QED BY <1>1, <1>2, <1>3, <1>4, NotWalking, TableStays

(* TBLFLUSH and Qbase_TableRelease write the header first.                  *)
LEMMA SyncHeadIInv == ASSUME IInv, setup' = setup, FlushBegin \/ ReleaseBegin PROVE IInv'
<1>1. /\ open /\ HFile' = Index /\ req' \in [op : {"flush", "release"}] /\ ocb' = ocb
      /\ updates' = updates /\ updates \in Nat
      /\ UNCHANGED <<Index, Pages, PLocks, open, DFile, rows, flushed, dropped, fails>>
  BY DEF IInv, Types, FlushBegin, ReleaseBegin, SyncHead, Idle, tableVars, histVars, countVars
<1>2. OcbType' BY <1>1, OcbIs, SizesStay DEF OcbType
<1>3. HeadWritten' BY <1>1 DEF HeadWritten
<1> QED BY <1>1, <1>2, <1>3, NotWalking, TableStays

(* What has to be shown of a step that changes the table                    *)
LEMMA TableChanges ==
    ASSUME setup \in Setups, setup' = setup,
           Index' \in 0 .. MaxRows, HFile' \in 0 .. MaxRows, open' \in BOOLEAN,
           DFile' \in File, rows' \in Seq(Row), flushed' \in Seq(Row), dropped' \in BOOLEAN,
           fails' \in Nat, updates' \in Nat,
           OcbType', ReqType', ModifyCounted', CursorFollows', HeadWritten',
           open' => /\ ListOK(Pages') /\ Len(Pages') = PLocks' /\ PLocks' <= LockPages
                    /\ (LastPage'.Index * PageRows) + LastPage'.LastRow <= Index'
                    /\ fails' = 0 => (LastPage'.Index * PageRows) + LastPage'.LastRow = Index',
           ~open' => Pages' = <<>> /\ PLocks' = 0 /\ req' = NoReq,
           OnDisk(Pages', DFile'),
           (fails' = 0 /\ ~dropped') =>
              RowsAre(Pages', DFile', rows', IF open' THEN Index' ELSE HFile'),
           (fails' = 0 /\ ~dropped' /\ updates' <= 1) =>
              /\ Len(flushed') <= HFile' /\ Len(flushed') <= Len(rows')
              /\ \A i \in 1 .. Len(flushed') :
                    /\ DFile'[Page(i - 1)][Slot(i - 1)] \in {flushed'[i], rows'[i]}
                    /\ Untouched(i)' => rows'[i] = flushed'[i]
    PROVE  IInv'
<1>1. Types'
  <2>1. /\ Row' = Row /\ MaxRows' = MaxRows /\ PageNums' = PageNums /\ Slots' = Slots BY SizesStay
  <2>2. /\ Index' \in 0 .. MaxRows' /\ HFile' \in 0 .. MaxRows' /\ open' \in BOOLEAN
        /\ DFile' \in [PageNums' -> [Slots' -> Row']]
        /\ rows' \in Seq(Row') /\ flushed' \in Seq(Row') /\ dropped' \in BOOLEAN
        /\ fails' \in Nat /\ setup' \in Setups
    BY <2>1 DEF File
  <2> QED BY <2>2 DEF Types, OcbType, ModifyCounted
<1>2. InMemory'
  <2>1. PageRows' = PageRows /\ (ListOK(Pages)' <=> ListOK(Pages')) BY Primed, SizesStay
  <2> QED BY <2>1 DEF InMemory
<1>3. OnDisk(Pages, DFile)' /\ Whole' BY Primed
<1>4. Survives' BY Primed DEF Survives
<1> QED BY <1>1, <1>2, <1>3, <1>4 DEF IInv

(* Qbase_write, whether the row arrives or not                              *)
LEMMA InsertFailsIInv ==
    ASSUME IInv, setup' = setup, NEW c \in setup.clients, InsertFails(c)
    PROVE  IInv'
<1>1. /\ Idle /\ open /\ req = NoReq /\ Index < MaxRows /\ InsertFiles
      /\ fails' = fails + 1 /\ Index' = Index + 1 /\ Pages' = TurnedPages
      /\ UNCHANGED <<PLocks, open, ocb, req, rows, flushed, dropped, updates>>
  BY DEF InsertFails, Idle, TurnedPages, histVars
<1>2. /\ setup \in Setups /\ Index \in Nat /\ HFile \in 0 .. MaxRows /\ MaxRows \in Nat
      /\ rows \in Seq(Row) /\ flushed \in Seq(Row) /\ dropped \in BOOLEAN
      /\ fails \in Nat /\ updates \in Nat /\ open \in BOOLEAN /\ OcbType
  BY Sizes DEF IInv, Types, OcbType
<1>3. /\ Len(Pages) = PLocks /\ PLocks <= LockPages /\ LastPage = Pages[PLocks]
      /\ (LastPage.Index * PageRows) + LastPage.LastRow <= Index
      /\ (LastPage.Index * PageRows) + LastPage.LastRow \in Nat
  <2>1. LastPage.Index * PageRows \in Nat BY <1>1, <1>2, Opened, Positions
  <2> QED BY <1>1, <2>1, Opened
<1>4. /\ ListOK(TurnedPages) /\ Len(TurnedPages) = Len(Pages) /\ TurnedPages[Len(Pages)] = TurnedPage
      /\ (TurnedPage.Index * PageRows) + TurnedPage.LastRow
           = (LastPage.Index * PageRows) + LastPage.LastRow
      /\ DFile' \in File /\ OnDisk(TurnedPages, DFile') /\ HFile' \in {HFile, Index}
  BY <1>1, Turned
<1>5. LastPage' = TurnedPage BY <1>1, <1>4 DEF LastPage
<1>6. OcbType' /\ HeadWritten' BY <1>1, <1>2, SizesStay DEF OcbType, HeadWritten, NoReq
<1>7. ReqType' /\ ModifyCounted' /\ CursorFollows' BY <1>1, NotWalking
<1>8. Index' \in 0 .. MaxRows /\ HFile' \in 0 .. MaxRows BY <1>1, <1>2, <1>4
<1>9. fails' \in Nat /\ fails' # 0 BY <1>1, <1>2
<1>10. (LastPage'.Index * PageRows) + LastPage'.LastRow <= Index' BY <1>1, <1>2, <1>3, <1>4, <1>5
<1> QED BY <1>1, <1>2, <1>3, <1>4, <1>6, <1>7, <1>8, <1>9, <1>10, TableChanges

(* The row goes to the slot after the last one, and the cursor to its key.  *)
LEMMA Inserted ==
    ASSUME IInv, setup' = setup, NEW c, Insert(c)
    PROVE  /\ TurnedPage.LastRow \in Slots
           /\ Len(Pages') = Len(Pages) /\ ListOK(Pages')
           /\ \A j \in 1 .. Len(Pages) : j # Len(Pages) => Pages'[j] = TurnedPages[j]
           /\ Pages'[Len(Pages)].Index = TurnedPage.Index
           /\ Pages'[Len(Pages)].LastRow = TurnedPage.LastRow + 1
           /\ Pages'[Len(Pages)].NeedSync
           /\ \A s \in Slots : Pages'[Len(Pages)].Data[s] =
                 IF s = TurnedPage.LastRow THEN [key |-> Index + 1, num |-> 0] ELSE TurnedPage.Data[s]
<1> DEFINE N == Len(Pages)
           w == TurnedPage
           q == TurnedPages
           row == [key |-> Index + 1, num |-> 0]
           v == [w EXCEPT !.Data[w.LastRow] = row, !.LastRow = @ + 1, !.NeedSync = TRUE]
<1>1. /\ Idle /\ open /\ Index < MaxRows /\ InsertFiles
      /\ Pages' = [Pages EXCEPT ![N] = v]
  BY DEF Insert, Idle
<1>2. /\ w \in PageRec /\ w.Index \in PageNums /\ w.Index \in Nat
      /\ w.LastRow \in Nat /\ w.LastRow < PageRows
      /\ ListOK(q) /\ Len(q) = N /\ q[N] = w
      /\ \A j \in 1 .. N : j # N => q[j] = Pages[j]
  BY <1>1, Turned
<1>3. /\ setup \in Setups /\ ListOK(Pages) /\ N \in 1 .. N /\ N \in Nat /\ DOMAIN Pages = 1 .. N
      /\ PageRows \in Nat /\ Index \in Nat /\ MaxRows \in Nat
  BY <1>1, Opened, ListIs, Sizes DEF IInv, Types
<1>4. w.LastRow \in Slots BY <1>2, <1>3, Sizes
<1>5. row \in Row
  <2>1. Index + 1 \in 0 .. MaxRows /\ 0 \in 0 .. (Width - 1) BY <1>1, <1>3, TableAssumption
  <2> QED BY <2>1 DEF Row
<1> HIDE DEF w, q, row
<1>6. /\ v \in PageRec /\ v.Index = w.Index /\ v.LastRow = w.LastRow + 1 /\ v.NeedSync = TRUE
      /\ \A s \in Slots : v.Data[s] = IF s = w.LastRow THEN row ELSE w.Data[s]
  <2>1. w.LastRow + 1 \in 0 .. PageRows BY <1>2, <1>3
  <2> QED BY <1>2, <1>4, <1>5, <2>1 DEF PageRec
<1> HIDE DEF v
<1>7. /\ Pages' \in Seq(PageRec) /\ Len(Pages') = N /\ Pages'[N] = v
      /\ \A j \in 1 .. N : j # N => Pages'[j] = Pages[j]
  <2>1. Pages \in Seq(PageRec) BY <1>3 DEF ListOK
  <2>2. v \in PageRec /\ Pages' = [Pages EXCEPT ![N] = v] BY <1>1, <1>6
  <2> QED BY <1>3, <2>1, <2>2, Replaced
<1>8. ListOK(Pages')
  <2> SUFFICES ASSUME NEW j \in 1 .. N, NEW k \in 1 .. N, j < k
               PROVE  Pages'[j].Index < Pages'[k].Index /\ Pages'[j].LastRow = PageRows
    BY <1>3, <1>7 DEF ListOK
  <2>0. j < N /\ j # N
    <3> HIDE DEF N
    <3> QED BY <1>3
  <2>1. Pages'[j] = q[j] BY <1>2, <1>7, <2>0
  <2>2. Pages'[k].Index = q[k].Index
    <3>1. CASE k = N BY <1>2, <1>6, <1>7, <3>1
    <3>2. CASE k # N BY <1>2, <1>7, <3>2
    <3> QED BY <3>1, <3>2
  <2>3. q[j].Index < q[k].Index /\ q[j].LastRow = PageRows BY <1>2 DEF ListOK
  <2> QED BY <2>1, <2>2, <2>3
<1> QED BY <1>2, <1>4, <1>6, <1>7, <1>8 DEF w, q, row

(* Qbase_write adds a row, or advances Index and fails, and keeps the       *)
(* invariant.                                                               *)
LEMMA InsertIInv ==
    ASSUME IInv, setup' = setup, NEW c \in setup.clients, Insert(c)
    PROVE  IInv'
<1> DEFINE N == Len(Pages)
           w == TurnedPage
           q == TurnedPages
           f == DFile'
           end == (w.Index * PageRows) + w.LastRow
           row == [key |-> Index + 1, num |-> 0]
<1>1. /\ Idle /\ open /\ req = NoReq /\ Index < MaxRows /\ InsertFiles
      /\ Index' = Index + 1 /\ ocb' = [ocb EXCEPT ![c].Record = Index]
      /\ rows' = Append(rows, row)
      /\ UNCHANGED <<PLocks, open, req, flushed, dropped, fails, updates>>
  <2>1. PostedRecord(Index + 1) = Index BY DEF PostedRecord, IInv, Types
  <2> QED BY <2>1 DEF Insert, Idle, histVars, countVars
<1>2. /\ setup \in Setups /\ Index \in Nat /\ HFile \in 0 .. MaxRows /\ MaxRows \in Nat
      /\ rows \in Seq(Row) /\ flushed \in Seq(Row) /\ dropped \in BOOLEAN
      /\ fails \in Nat /\ updates \in Nat /\ open \in BOOLEAN /\ OcbType /\ c \in Clients
      /\ PageRows \in Nat /\ Index + 1 \in 0 .. MaxRows /\ Index \in 0 .. MaxRows
  BY <1>1, Sizes DEF IInv, Types, OcbType
<1>3. /\ Len(Pages) = PLocks /\ PLocks <= LockPages /\ LastPage = Pages[PLocks] /\ ListOK(Pages)
      /\ (LastPage.Index * PageRows) + LastPage.LastRow <= Index
      /\ fails = 0 => (LastPage.Index * PageRows) + LastPage.LastRow = Index
  BY <1>1, Opened
<1>4. /\ w \in PageRec /\ w.Index \in PageNums /\ w.Index \in Nat /\ w.LastRow \in Nat
      /\ ListOK(q) /\ Len(q) = N /\ q[N] = w
      /\ end = (LastPage.Index * PageRows) + LastPage.LastRow
      /\ f \in File /\ OnDisk(q, f) /\ FromMemory(f) /\ HFile' \in {HFile, Index}
      /\ \A m \in PageNums, s \in Slots : (m * PageRows) + s < end => At(q, f, m, s) = At(Pages, DFile, m, s)
  BY <1>1, Turned
<1>5. /\ w.LastRow \in Slots
      /\ Len(Pages') = N /\ ListOK(Pages')
      /\ \A j \in 1 .. N : j # N => Pages'[j] = q[j]
      /\ Pages'[N].Index = w.Index /\ Pages'[N].LastRow = w.LastRow + 1 /\ Pages'[N].NeedSync
      /\ \A s \in Slots : Pages'[N].Data[s] = IF s = w.LastRow THEN row ELSE w.Data[s]
  BY Inserted
<1>6. w.Index * PageRows \in Nat /\ N \in 1 .. N /\ N \in Nat
  <2>1. \A a \in Nat : a * PageRows \in Nat BY <1>2, Positions
  <2>2. N \in 1 .. N /\ N \in Nat BY <1>2, <1>3, ListIs
  <2> QED BY <1>4, <2>1, <2>2
<1> HIDE DEF w, q, f, row
<1>7. /\ LastPage' = Pages'[N] /\ (LastPage'.Index * PageRows) + LastPage'.LastRow = end + 1
  <2>1. LastPage' = Pages'[N] BY <1>5 DEF LastPage
  <2> QED BY <1>4, <1>5, <1>6, <2>1
<1>8. (LastPage'.Index * PageRows) + LastPage'.LastRow <= Index'
  <2>1. end \in Nat /\ end <= Index BY <1>3, <1>4, <1>6
  <2> HIDE DEF end
  <2> QED BY <1>1, <1>2, <1>7, <2>1
<1>9. fails = 0 => end = Index /\ (LastPage'.Index * PageRows) + LastPage'.LastRow = Index'
  BY <1>1, <1>2, <1>3, <1>4, <1>7
<1>10. row \in Row
  <2>1. 0 \in 0 .. (Width - 1) BY TableAssumption
  <2> QED BY <1>2, <2>1 DEF row, Row
<1>11. rows' \in Seq(Row) /\ Len(rows') = Len(rows) + 1 /\ rows'[Len(rows) + 1] = row
       /\ \A i \in 1 .. Len(rows) : rows'[i] = rows[i]
  BY <1>1, <1>2, <1>10
<1>12. OcbType' /\ HeadWritten'
  <2>1. MaxRows' = MaxRows BY SizesStay
  <2> QED BY <1>1, <1>2, <2>1 DEF OcbType, HeadWritten, NoReq
<1>13. ReqType' /\ ModifyCounted' /\ CursorFollows' BY <1>1, NotWalking
<1>14. Index' \in 0 .. MaxRows /\ HFile' \in 0 .. MaxRows BY <1>1, <1>2, <1>4
<1>15. OnDisk(Pages', f)
  <2> SUFFICES ASSUME NEW k \in 1 .. N, ~Pages'[k].NeedSync, NEW s \in Slots, s < Pages'[k].LastRow
               PROVE  Pages'[k].Data[s] = f[Pages'[k].Index][s]
    BY <1>5 DEF OnDisk
  <2>1. k # N BY <1>5
  <2> QED BY <1>4, <1>5, <2>1 DEF OnDisk
<1>16. ASSUME fails = 0, ~dropped PROVE RowsAre(Pages', f, rows', Index')
  <2>1. Len(rows) = Index /\ Size = Index BY <1>1, <1>16 DEF IInv, Whole, Size
  <2>2. ASSUME NEW i \in 1 .. Index
        PROVE  At(Pages', f, Page(i - 1), Slot(i - 1)) = rows'[i]
    <3> DEFINE m == Page(i - 1)
               s == Slot(i - 1)
    <3>1. m \in PageNums /\ m \in Nat /\ s \in Slots /\ s \in Nat /\ i = ((m * PageRows) + s) + 1
      BY <2>1, <2>2, RowPlaces
    <3>2. At(Pages, DFile, m, s) = rows[i] BY <1>1, <1>16, <2>1, <2>2 DEF IInv, Whole
    <3>3. rows'[i] = rows[i] BY <1>11, <2>1
    <3> HIDE DEF m, s
    <3>4. m * PageRows \in Nat BY <1>2, <3>1, Positions
    <3>5. (m * PageRows) + s < end BY <1>2, <1>9, <1>16, <3>1, <3>4
    <3>6. At(q, f, m, s) = rows[i] BY <1>4, <3>1, <3>2, <3>5
    <3>7. At(Pages', f, m, s) = At(q, f, m, s)
      <4>1. \A k \in 1 .. N : Pages'[k].Index = q[k].Index BY <1>4, <1>5
      <4>2. ASSUME NEW k \in 1 .. N, q[k].Index = m, k # N PROVE At(Pages', f, m, s) = At(q, f, m, s)
        <5>1. At(q, f, m, s) = q[k].Data[s] BY <1>2, <1>4, <4>2, AtIs
        <5>2. At(Pages', f, m, s) = Pages'[k].Data[s] BY <1>2, <1>5, <4>1, <4>2, AtIs
        <5> QED BY <1>5, <4>2, <5>1, <5>2
      <4>3. ASSUME q[N].Index = m PROVE At(Pages', f, m, s) = At(q, f, m, s)
        <5>1. At(q, f, m, s) = w.Data[s] BY <1>2, <1>4, <1>6, <4>3, AtIs
        <5>2. At(Pages', f, m, s) = Pages'[N].Data[s] BY <1>2, <1>5, <1>6, <4>1, <4>3, AtIs
        <5>3. w.Index = m BY <1>4, <4>3
        <5>4. s # w.LastRow BY <1>4, <1>6, <3>1, <3>4, <3>5, <5>3
        <5> QED BY <1>5, <3>1, <5>1, <5>2, <5>4
      <4>4. ASSUME \A k \in 1 .. N : q[k].Index # m PROVE At(Pages', f, m, s) = At(q, f, m, s)
        <5>1. At(q, f, m, s) = f[m][s] BY <1>2, <1>4, <4>4, AtIs
        <5>2. \A k \in 1 .. Len(Pages') : Pages'[k].Index # m BY <1>5, <4>1, <4>4
        <5>3. ListOK(Pages') /\ setup \in Setups BY <1>2, <1>5
        <5>4. At(Pages', f, m, s) = f[m][s] BY <5>2, <5>3, AtIs
        <5> QED BY <5>1, <5>4
      <4> QED BY <1>6, <4>2, <4>3, <4>4
    <3> QED BY <3>3, <3>6, <3>7 DEF m, s
  <2>3. At(Pages', f, Page(Index), Slot(Index)) = rows'[Index + 1]
    <3>1. Page(Index) = w.Index /\ Slot(Index) = w.LastRow
      <4>1. Page(Index) \in Nat /\ Slot(Index) \in Slots /\ Index = (Page(Index) * PageRows) + Slot(Index)
        BY <1>2, Positions
      <4>2. (Page(Index) * PageRows) + Slot(Index) = (w.Index * PageRows) + w.LastRow
        BY <1>9, <1>16, <4>1
      <4>3. \A a, b \in Nat, s, r \in Slots :
               (a * PageRows) + s = (b * PageRows) + r => a = b /\ s = r
        BY <1>2, Positions
      <4> QED BY <1>4, <1>5, <4>1, <4>2, <4>3
    <3>2. At(Pages', f, w.Index, w.LastRow) = Pages'[N].Data[w.LastRow] BY <1>2, <1>5, <1>6, AtIs
    <3> QED BY <1>5, <1>11, <2>1, <3>1, <3>2
  <2>4. ASSUME NEW i \in 1 .. (Index + 1)
        PROVE  At(Pages', f, Page(i - 1), Slot(i - 1)) = rows'[i]
    <3>1. CASE i = Index + 1
      <4>1. i - 1 = Index BY <1>2, <3>1
      <4> QED BY <2>3, <3>1, <4>1
    <3>2. CASE i # Index + 1
      <4>1. i \in 1 .. Index BY <1>2, <3>2
      <4> QED BY <2>2, <4>1
    <3> QED BY <3>1, <3>2
  <2> QED BY <1>1, <1>11, <2>1, <2>4 DEF RowsAre
<1>17. ASSUME fails = 0, ~dropped, updates <= 1
       PROVE  /\ Len(flushed) <= HFile' /\ Len(flushed) <= Len(rows')
              /\ \A i \in 1 .. Len(flushed) :
                    /\ f[Page(i - 1)][Slot(i - 1)] \in {flushed[i], rows'[i]}
                    /\ Untouched(i)' => rows'[i] = flushed[i]
  <2>1. /\ Len(flushed) <= HFile /\ Len(flushed) <= Len(rows) /\ Len(rows) = Index
        /\ \A i \in 1 .. Len(flushed) : Untouched(i) => rows[i] = flushed[i]
    BY <1>1, <1>17 DEF IInv, Survives, Whole, Size
  <2>2. Len(flushed) \in Nat /\ Len(rows) \in Nat BY <1>2
  <2>3. Len(flushed) <= HFile' BY <1>4, <2>1
  <2>4. Len(flushed) <= Len(rows') BY <1>11, <2>1, <2>2
  <2>5. ASSUME NEW i \in 1 .. Len(flushed)
        PROVE  /\ f[Page(i - 1)][Slot(i - 1)] \in {flushed[i], rows'[i]}
               /\ Untouched(i)' => rows'[i] = flushed[i]
    <3>1. i \in 1 .. Len(rows) /\ i \in Nat BY <2>1, <2>2
    <3>2. rows'[i] = rows[i] BY <1>11, <3>1
    <3>3. Untouched(i)' => Untouched(i) BY <1>1, <3>1, NotWalking
    <3>4. f[Page(i - 1)][Slot(i - 1)] \in {flushed[i], rows[i]} BY <1>1, <1>4, <1>17, FileKeeps
    <3> QED BY <2>1, <3>2, <3>3, <3>4
  <2> QED BY <2>3, <2>4, <2>5
<1>18. f = DFile' BY DEF f
<1> QED BY <1>1, <1>2, <1>3, <1>4, <1>5, <1>8, <1>9, <1>11, <1>12, <1>13, <1>14, <1>15, <1>16, <1>17,
           <1>18, TableChanges

(* A request that walks along the table, and the page it takes              *)
LEMMA Walking ==
    ASSUME IInv, Reading \/ Modifying
    PROVE  /\ open /\ setup \in Setups /\ req.c \in Clients
           /\ req.PIndex \in Nat /\ req.RIndex \in Slots /\ req.RIndex \in Nat /\ req.TIndex \in Int
           /\ \/ req.op \in {"read", "delete"} /\ req \in WalkRec({"read", "delete"}, {"none"})
              \/ req.op \in {"update", "updcur"} /\ req \in WalkRec({"update", "updcur"}, setup.rules)
<1>1. ReqType /\ setup \in Setups BY DEF IInv, Types
<1>2. req.op \in {"read", "update", "updcur", "delete"} BY DEF Reading, Modifying
<1>3. \/ req.op \in {"read", "delete"} /\ req \in WalkRec({"read", "delete"}, {"none"})
      \/ req.op \in {"update", "updcur"} /\ req \in WalkRec({"update", "updcur"}, setup.rules)
  BY <1>1, <1>2 DEF ReqType, NoReq
<1>4. req.c \in Clients /\ req.PIndex \in Nat /\ req.RIndex \in Slots /\ req.TIndex \in Int
  BY <1>3 DEF WalkRec
<1>5. req # NoReq BY <1>2 DEF NoReq
<1>6. open BY <1>5 DEF IInv, InMemory, Types
<1>7. req.RIndex \in Nat BY <1>1, <1>4, Sizes
<1> QED BY <1>1, <1>3, <1>4, <1>6, <1>7

(* A walk over the pages that goes to the next page stays a walk of the     *)
(* same request.                                                            *)
LEMMA WalksOn ==
    ASSUME IInv, setup' = setup, Reading \/ Modifying, NEW t \in Int,
           req' = [NextPage EXCEPT !.TIndex = t]
    PROVE  ReqType' /\ req'.op = req.op /\ req'.PIndex = req.PIndex + 1 /\ req'.RIndex = 0 /\ req'.c = req.c
<1>1. /\ setup \in Setups /\ req.PIndex + 1 \in Nat /\ 0 \in Slots /\ Slots' = Slots
  BY Walking, Sizes, SizesStay
<1>2. CASE req.op \in {"read", "delete"} /\ req \in WalkRec({"read", "delete"}, {"none"})
  <2>1. req' \in WalkRec({"read", "delete"}, {"none"})' /\ req'.op = req.op
    BY <1>1, <1>2 DEF WalkRec, NextPage
  <2> QED BY <1>2, <2>1 DEF ReqType, NextPage, WalkRec
<1>3. CASE req.op \in {"update", "updcur"} /\ req \in WalkRec({"update", "updcur"}, setup.rules)
  <2>1. req' \in WalkRec({"update", "updcur"}, setup.rules)' /\ req'.op = req.op
    BY <1>1, <1>3 DEF WalkRec, NextPage
  <2> QED BY <1>3, <2>1 DEF ReqType, NextPage, WalkRec
<1>4. \/ req.op \in {"read", "delete"} /\ req \in WalkRec({"read", "delete"}, {"none"})
      \/ req.op \in {"update", "updcur"} /\ req \in WalkRec({"update", "updcur"}, setup.rules)
  BY Walking
<1> QED BY <1>2, <1>3, <1>4

(* The page LockTablePage returns for a page that exists is that page,      *)
(* with no row beyond Index.                                                *)
LEMMA Taken ==
    ASSUME IInv, open, NEW n \in Nat, Reachable(n), NEW l, l = LockTablePage(n)
    PROVE  /\ LockedOK(l, n) /\ n \in PageNums /\ n <= LastPage.Index
           /\ l.pages[l.at] \in PageRec /\ l.pages[l.at].Index = n
           /\ l.pages[l.at].LastRow \in Nat /\ l.pages[l.at].LastRow <= PageRows
           /\ (n * PageRows) + l.pages[l.at].LastRow <= Index /\ n * PageRows \in Nat
           /\ n < LastPage.Index => l.pages[l.at].LastRow = PageRows
           /\ n = LastPage.Index => l.pages[l.at] = LastPage
           /\ (fails = 0 /\ ~dropped /\ ~l.drops) => RowsAre(l.pages, l.file, rows, Index)
<1> DEFINE N == Len(l.pages)
           p == l.pages[l.at]
<1>o. /\ ListOK(Pages) /\ OnDisk(Pages, DFile) /\ Len(Pages) = PLocks /\ PLocks <= LockPages
      /\ LastPage.Index \in Nat /\ LastPage.LastRow \in Nat
      /\ (LastPage.Index * PageRows) + LastPage.LastRow <= Index
      /\ n <= LastPage.Index
  BY Opened
<1>s. setup \in Setups /\ DFile \in File /\ Index \in 0 .. MaxRows BY DEF IInv, Types, File
<1>p. PageRows \in Nat /\ Index \in Nat BY <1>s, Sizes
<1>1. /\ setup \in Setups /\ DFile \in File /\ ListOK(Pages) /\ OnDisk(Pages, DFile)
      /\ Len(Pages) = PLocks /\ PLocks <= LockPages /\ PageRows \in Nat /\ Index \in Nat
      /\ LastPage.Index \in Nat /\ LastPage.LastRow \in Nat
      /\ (LastPage.Index * PageRows) + LastPage.LastRow <= Index
      /\ n <= LastPage.Index
  BY <1>o, <1>s, <1>p
<1>2. LockedOK(l, n) BY <1>1, Locked
<1>3. /\ ListOK(l.pages) /\ l.at \in 1 .. N /\ p.Index = n /\ l.pages[N] = LastPage
      /\ ~l.drops => SameRows(l.pages, l.file)
  BY <1>2 DEF LockedOK
<1>4. /\ N \in Nat /\ N \in 1 .. N /\ p \in PageRec /\ p.Index \in PageNums
      /\ p.LastRow \in Nat /\ p.LastRow <= PageRows
      /\ l.at < N => p.LastRow = PageRows
      /\ \A i, j \in 1 .. N : l.pages[i].Index = l.pages[j].Index => i = j
  <2>1. /\ N \in Nat /\ N > 0
        /\ \A i \in 1 .. N :
              /\ l.pages[i] \in PageRec /\ l.pages[i].Index \in PageNums
              /\ l.pages[i].LastRow \in Nat /\ l.pages[i].LastRow <= PageRows
              /\ i < N => l.pages[i].LastRow = PageRows
        /\ \A i, j \in 1 .. N : l.pages[i].Index = l.pages[j].Index => i = j
    BY <1>1, <1>3, ListIs
  <2> QED BY <1>3, <2>1
<1> HIDE DEF p, N
<1>5. n < LastPage.Index => p.LastRow = PageRows
  <2>1. n < LastPage.Index => l.at # N BY <1>1, <1>3 DEF p
  <2>2. n < LastPage.Index => l.at < N BY <1>3, <1>4, <2>1
  <2> QED BY <1>4, <2>2
<1>6. n = LastPage.Index => p = LastPage BY <1>3, <1>4 DEF p
<1>7. n * PageRows \in Nat /\ LastPage.Index * PageRows \in Nat
      /\ n < LastPage.Index => (n * PageRows) + PageRows <= LastPage.Index * PageRows
  BY <1>1, Positions
<1>8. (n * PageRows) + p.LastRow <= Index
  <2>1. CASE n = LastPage.Index BY <1>1, <1>6, <2>1
  <2>2. CASE n < LastPage.Index
    <3> DEFINE a == n * PageRows
               b == LastPage.Index * PageRows
    <3>1. a \in Nat /\ b \in Nat /\ a + PageRows <= b /\ b + LastPage.LastRow <= Index
      BY <1>1, <1>7, <2>2
    <3> HIDE DEF a, b
    <3>2. a + p.LastRow <= Index BY <1>1, <1>4, <3>1
    <3> QED BY <3>2 DEF a
  <2> QED BY <1>1, <2>1, <2>2
<1>9. ASSUME fails = 0, ~dropped, ~l.drops PROVE RowsAre(l.pages, l.file, rows, Index)
  <2>1. /\ Len(rows) = Index /\ Size = Index
        /\ \A i \in 1 .. Index : At(Pages, DFile, Page(i - 1), Slot(i - 1)) = rows[i]
    BY <1>9 DEF IInv, Whole, Size
  <2>2. \A i \in 1 .. Index : Page(i - 1) \in PageNums /\ Slot(i - 1) \in Slots BY <2>1, RowPlaces
  <2> QED BY <1>3, <1>9, <2>1, <2>2 DEF RowsAre, SameRows
<1>10. n \in PageNums /\ p.Index = n BY <1>3, <1>4 DEF p
<1>11. p \in PageRec /\ p.LastRow \in Nat /\ p.LastRow <= PageRows BY <1>4
<1>12. n <= LastPage.Index /\ n * PageRows \in Nat BY <1>1, <1>7
<1> QED BY <1>2, <1>5, <1>6, <1>8, <1>9, <1>10, <1>11, <1>12 DEF p

(* A page is read: the cursor stays with the walk.                          *)
LEMMA ReadStepIInv == ASSUME IInv, setup' = setup, ReadStep PROVE IInv'
<1> DEFINE n == req.PIndex
           r == req.RIndex
           c == req.c
           P == PageRows
<1>1. /\ Reading /\ open /\ setup \in Setups /\ c \in Clients /\ n \in Nat /\ r \in Slots /\ r \in Nat
      /\ Reachable(n) /\ OcbType /\ ~Modifying
      /\ P \in Nat /\ Index \in 0 .. MaxRows /\ HFile \in 0 .. MaxRows /\ MaxRows \in Nat
      /\ rows \in Seq(Row) /\ flushed \in Seq(Row) /\ dropped \in BOOLEAN
      /\ fails \in Nat /\ updates \in Nat /\ 0 \in Slots /\ req.TIndex \in Int
  BY Walking, Sizes DEF ReadStep, IInv, Types, OcbType, Reading, Modifying
<1>2. PICK l : l = LockTablePage(n) OBVIOUS
<1> DEFINE p == l.pages[l.at]
           o == ocb[c]
           hits == {s \in Slots : r <= s /\ s < p.LastRow /\ Accepts(o.Filters, p.Data[s]) # 0}
           found == Accepts(o.Filters, p.Data[Least(hits)]) = 1
<1>3. /\ PLocks' = l.locks /\ DFile' = l.file /\ dropped' = (dropped \/ l.drops)
      /\ Pages' = l.pages /\ HFile' = HFile
      /\ UNCHANGED <<Index, open, rows, flushed, fails, updates>>
  BY <1>2 DEF ReadStep, TakePage, countVars
<1>4. hits = {} =>
         /\ ocb' = [ocb EXCEPT ![c].Record = IF r < p.LastRow THEN @ + (p.LastRow - r) ELSE @]
         /\ req' = NextPage
  <2>1. IF hits = {}
          THEN /\ ocb' = [ocb EXCEPT ![req.c].Record =
                             IF req.RIndex < p.LastRow THEN @ + p.LastRow - req.RIndex ELSE @]
               /\ req' = NextPage
          ELSE TRUE
    BY <1>2 DEF ReadStep
  <2> HIDE DEF hits, p
  <2>2. CASE hits = {}
    <3>1. ocb' = [ocb EXCEPT ![c].Record = IF r < p.LastRow THEN @ + (p.LastRow - r) ELSE @] BY <2>1, <2>2
    <3>2. req' = NextPage BY <2>1, <2>2
    <3> QED BY <3>1, <3>2
  <2> QED BY <2>2
<1>5. hits # {} =>
         /\ ocb' = [ocb EXCEPT ![c].Record = (@ + (Least(hits) - r)) + IF found THEN 1 ELSE 0]
         /\ req' = NoReq
  BY <1>2 DEF ReadStep, Finish
<1>6. /\ LockedOK(l, n) /\ n <= LastPage.Index
      /\ p.LastRow \in Nat /\ p.LastRow <= P /\ (n * P) + p.LastRow <= Index /\ n * P \in Nat
      /\ n < LastPage.Index => p.LastRow = P
      /\ n = LastPage.Index => p = LastPage
      /\ (fails = 0 /\ ~dropped /\ ~l.drops) => RowsAre(l.pages, l.file, rows, Index)
  BY <1>1, <1>2, Taken
<1>7. /\ ListOK(l.pages) /\ Len(l.pages) = l.locks /\ l.locks <= LockPages
      /\ l.pages[Len(l.pages)] = LastPage /\ l.file \in File /\ OnDisk(l.pages, l.file)
      /\ FromMemory(l.file) /\ l.drops \in BOOLEAN
  BY <1>6 DEF LockedOK
<1>8. ocb[c].Record = (n * P) + r BY <1>1 DEF IInv, CursorFollows
<1>9. /\ LastPage.Index \in Nat /\ LastPage.LastRow \in Nat
      /\ (LastPage.Index * P) + LastPage.LastRow <= Index
      /\ fails = 0 => (LastPage.Index * P) + LastPage.LastRow = Index
  BY <1>1, Opened
<1>10. LastPage' = LastPage BY <1>3, <1>7 DEF LastPage
<1>11. hits # {} => /\ Least(hits) \in Nat /\ Least(hits) >= r /\ Least(hits) < p.LastRow
  <2>1. hits \subseteq Slots /\ Slots \subseteq Nat BY <1>1, Sizes
  <2>2. hits # {} => Least(hits) \in hits
    <3> HIDE DEF hits
    <3> QED BY <2>1, LeastIs
  <2>3. hits # {} => r <= Least(hits) /\ Least(hits) < p.LastRow /\ Least(hits) \in Slots BY <2>2
  <2> HIDE DEF hits
  <2> QED BY <1>1, <2>1, <2>3
<1> HIDE DEF hits, p, P, found
<1>12. r < P BY <1>1, Sizes DEF P
<1>13. PICK x \in Nat :
          /\ ocb' = [ocb EXCEPT ![c].Record = x] /\ x <= Index
          /\ (hits = {} /\ n < LastPage.Index) => x = (n * P) + P
          /\ (hits = {} /\ n = LastPage.Index) => x >= (n * P) + LastPage.LastRow
  <2>1. CASE hits = {} /\ r < p.LastRow
    <3>1. ocb' = [ocb EXCEPT ![c].Record = (n * P) + p.LastRow]
      <4>1. ocb[c].Record + (p.LastRow - r) = (n * P) + p.LastRow BY <1>1, <1>6, <1>8
      <4>2. ocb' = [ocb EXCEPT ![c].Record = ocb[c].Record + (p.LastRow - r)] BY <1>4, <2>1
      <4> QED BY <4>1, <4>2
    <3>2. (n * P) + p.LastRow \in Nat BY <1>6
    <3> WITNESS (n * P) + p.LastRow \in Nat
    <3>3. p.LastRow = P \/ n # LastPage.Index \/ p = LastPage BY <1>6
    <3> QED BY <1>6, <2>1, <3>1, <3>2
  <2>2. CASE hits = {} /\ ~(r < p.LastRow)
    <3>1. ocb' = [ocb EXCEPT ![c].Record = ocb[c].Record] BY <1>4, <2>2
    <3>2. n = LastPage.Index BY <1>1, <1>6, <1>9, <1>12, <2>2
    <3>3. ocb[c].Record \in 0 .. MaxRows BY <1>1 DEF OcbType
    <3>4. ocb[c].Record < Index BY DEF ReadStep
    <3>5. ocb[c].Record >= (n * P) + LastPage.LastRow BY <1>1, <1>6, <1>8, <1>9, <2>2, <3>2
    <3>6. ocb[c].Record \in Nat /\ ocb[c].Record <= Index BY <1>1, <3>3, <3>4
    <3> USE <3>6
    <3> WITNESS ocb[c].Record \in Nat
    <3> QED BY <1>9, <3>1, <3>2, <3>5, <3>6
  <2>3. CASE hits # {}
    <3>1. ocb' = [ocb EXCEPT ![c].Record = (ocb[c].Record + (Least(hits) - r)) + IF found THEN 1 ELSE 0]
      BY <1>5, <2>3
    <3> DEFINE z == IF found THEN 1 ELSE 0
               x == (ocb[c].Record + (Least(hits) - r)) + z
    <3>2. ocb' = [ocb EXCEPT ![c].Record = x] BY <3>1
    <3>3. z \in {0, 1} OBVIOUS
    <3> HIDE DEF z
    <3>4. x = ((n * P) + Least(hits)) + z BY <1>1, <1>6, <1>8, <1>11, <2>3, <3>3
    <3>5. x \in Nat /\ x <= Index
      <4> DEFINE a == n * P
                 d == Least(hits)
      <4>1. /\ a \in Nat /\ d \in Nat /\ d < p.LastRow /\ a + p.LastRow <= Index /\ p.LastRow \in Nat
            /\ x = (a + d) + z
        BY <1>6, <1>11, <2>3, <3>4
      <4> HIDE DEF a, d, x
      <4> QED BY <1>1, <3>3, <4>1
    <3> HIDE DEF x
    <3> USE <3>5
    <3> WITNESS x \in Nat
    <3> QED BY <2>3, <3>2, <3>5
  <2> QED BY <2>1, <2>2, <2>3
<1>14. OcbType'
  <2>1. MaxRows' = MaxRows /\ x \in 0 .. MaxRows BY <1>1, <1>13, SizesStay
  <2> QED BY <1>1, <1>13, <2>1 DEF OcbType
<1>15. hits = {} => /\ ReqType' /\ req'.op = "read" /\ req'.PIndex = n + 1 /\ req'.RIndex = 0 /\ req'.c = c
  <2> SUFFICES ASSUME hits = {} PROVE ReqType' /\ req'.op = "read" /\ req'.PIndex = n + 1 /\ req'.RIndex = 0 /\ req'.c = c
    OBVIOUS
  <2>1. req' = [NextPage EXCEPT !.TIndex = req.TIndex]
    <3>1. req \in WalkRec({"read", "delete"}, {"none"}) \/ req \in WalkRec({"update", "updcur"}, setup.rules)
      BY <1>1, Walking
    <3> QED BY <1>4, <3>1 DEF NextPage, WalkRec
  <2> QED BY <1>1, <2>1, WalksOn DEF Reading
<1>16. hits # {} => ReqType' BY <1>5 DEF ReqType
<1>17. ModifyCounted' /\ HeadWritten'
  <2>1. req'.op \in {"read", "none"} BY <1>5, <1>15 DEF NoReq
  <2> QED BY <2>1 DEF ModifyCounted, Modifying, HeadWritten
<1>18. CursorFollows'
  <2>1. CASE hits # {} BY <1>5, <2>1 DEF CursorFollows, Reading, NoReq
  <2>2. CASE hits = {}
    <3>1. req'.PIndex = n + 1 /\ req'.RIndex = 0 /\ req'.c = c /\ P' = P BY <1>15, <2>2, SizesStay DEF P
    <3>2. ocb'[c].Record = x BY <1>1, <1>13 DEF OcbType
    <3>3. CASE n < LastPage.Index
      <4>1. x = ((n + 1) * P) + 0 BY <1>1, <1>6, <1>13, <2>2, <3>3 DEF P
      <4> QED BY <3>1, <3>2, <4>1 DEF CursorFollows, P
    <3>4. CASE n = LastPage.Index
      <4>1. ~(Reachable(req.PIndex)')
        <5>1. \A i \in 1 .. Len(l.pages) : l.pages[i].Index <= LastPage.Index /\ l.pages[i].Index \in Nat
          <6>1. \A i \in 1 .. Len(l.pages) : l.pages[i].Index \in Nat BY <1>1, <1>7, ListIs
          <6>2. Len(l.pages) \in Nat BY <1>1, <1>7, ListIs
          <6> QED BY <1>7, <6>1, <6>2 DEF ListOK
        <5>2. DOMAIN l.pages = 1 .. Len(l.pages) BY <1>1, <1>7, ListIs
        <5>3. \A i \in DOMAIN l.pages : ~(l.pages[i].Index >= n + 1) BY <1>1, <3>4, <5>1, <5>2
        <5> QED BY <1>3, <3>1, <5>3 DEF Reachable
      <4>2. fails = 0 => x >= Index BY <1>9, <1>13, <2>2, <3>4
      <4>3. ~(fails' = 0 /\ ocb'[c].Record < Index') BY <1>1, <1>3, <1>13, <3>2, <4>2
      <4> QED BY <3>1, <4>1, <4>3 DEF CursorFollows
    <3> QED BY <1>1, <1>6, <1>9, <3>3, <3>4
  <2> QED BY <2>1, <2>2
<1>19. ~dropped' => ~dropped /\ ~l.drops BY <1>3
<1>20. ASSUME fails = 0, ~dropped', updates <= 1
       PROVE  /\ Len(flushed) <= HFile /\ Len(flushed) <= Len(rows)
              /\ \A i \in 1 .. Len(flushed) :
                    /\ DFile'[Page(i - 1)][Slot(i - 1)] \in {flushed[i], rows[i]}
                    /\ Untouched(i)' => rows[i] = flushed[i]
  <2>1. /\ Len(flushed) <= HFile /\ Len(flushed) <= Len(rows)
        /\ \A i \in 1 .. Len(flushed) : Untouched(i) => rows[i] = flushed[i]
    BY <1>19, <1>20 DEF IInv, Survives
  <2>2. \A i : Untouched(i)' => Untouched(i)
    <3>1. ~Modifying'
      <4>1. req'.op \in {"read", "none"} BY <1>5, <1>15 DEF NoReq
      <4> QED BY <4>1 DEF Modifying
    <3> QED BY <1>3, <3>1 DEF Untouched
  <2>3. \A i \in 1 .. Len(flushed) : l.file[Page(i - 1)][Slot(i - 1)] \in {flushed[i], rows[i]}
    BY <1>1, <1>7, <1>19, <1>20, FileKeeps
  <2> QED BY <1>3, <2>1, <2>2, <2>3
<1>21. dropped' \in BOOLEAN /\ open' BY <1>1, <1>3
<1>22. (fails' = 0 /\ ~dropped') => RowsAre(Pages', DFile', rows', Index') BY <1>3, <1>6, <1>19
<1> QED BY <1>1, <1>3, <1>7, <1>9, <1>10, <1>14, <1>15, <1>16, <1>17, <1>18, <1>20, <1>21, <1>22,
           TableChanges DEF P

(* An update rule stays within the width of the field, and a deleted row is *)
(* still a row.                                                             *)
LEMMA ModifiedIs == ASSUME IInv, Modifying, NEW row \in Row PROVE Modified(row) \in Row
<1>1. setup \in Setups /\ MaxRows \in Nat /\ Width \in Nat \ {0} BY Sizes, TableAssumption DEF IInv, Types
<1>2. row.num \in 0 .. (Width - 1) /\ row.key \in 0 .. MaxRows BY DEF Row
<1>3. CASE req.op = "delete" BY <1>1, <1>3 DEF Modified, Row
<1>4. CASE req.op # "delete"
  <2>1. req.op \in {"update", "updcur"} BY <1>4 DEF Modifying
  <2>2. req.rule \in setup.rules BY <2>1, Walking DEF WalkRec
  <2> DEFINE u == req.rule
             n == row.num
  <2>3. /\ u.how \in {"set", "add", "sub", "mul", "div"} /\ u.value \in 0 .. (Width - 1)
        /\ u.how = "div" => u.value # 0
    BY <1>1, <2>2, Sizes
  <2> HIDE DEF u, n
  <2>4. Ruled(u, n) \in 0 .. (Width - 1)
    <3>1. n \in 0 .. (Width - 1) BY <1>2 DEF n
    <3>2. CASE u.how = "set" BY <2>3, <3>2 DEF Ruled
    <3>3. CASE u.how = "add"
      <4>1. (n + u.value) % Width \in 0 .. (Width - 1) BY <1>1, <2>3, <3>1
      <4> QED BY <3>3, <4>1 DEF Ruled
    <3>4. CASE u.how = "sub"
      <4>1. (n - u.value) % Width \in 0 .. (Width - 1) BY <1>1, <2>3, <3>1
      <4> QED BY <3>4, <4>1 DEF Ruled
    <3>5. CASE u.how = "mul"
      <4>1. \A y \in Int : y % Width \in 0 .. (Width - 1) BY <1>1
      <4>2. n * u.value \in Int BY <2>3, <3>1
      <4>3. (n * u.value) % Width \in 0 .. (Width - 1) BY <4>1, <4>2
      <4> QED BY <3>5, <4>3 DEF Ruled
    <3>6. CASE u.how = "div"
      <4>1. \A x \in Nat, y \in Nat \ {0} : x \div y \in Nat /\ x \div y <= x OBVIOUS
      <4>2. n \in Nat /\ u.value \in Nat \ {0} /\ n <= Width - 1 BY <1>1, <2>3, <3>1, <3>6
      <4>3. n \div u.value \in Nat /\ n \div u.value <= n BY <4>1, <4>2
      <4>4. n \div u.value \in 0 .. (Width - 1)
        <5> DEFINE d == n \div u.value
        <5>1. d \in Nat /\ d <= n BY <4>3
        <5> HIDE DEF d
        <5>2. d \in 0 .. (Width - 1) BY <1>1, <4>2, <5>1
        <5> QED BY <5>2 DEF d
      <4> QED BY <3>6, <4>4 DEF Ruled
    <3> QED BY <2>3, <3>2, <3>3, <3>4, <3>5, <3>6
  <2>5. Modified(row) = [row EXCEPT !.num = Ruled(u, n)] BY <1>4 DEF Modified, u, n
  <2> QED BY <2>4, <2>5 DEF Row
<1> QED BY <1>3, <1>4

(* UPDATE, UPDCUR or DELETE on one page: the rows that are met change in    *)
(* memory as they do for the clients, and no others.                        *)
LEMMA ModifyStepIInv == ASSUME IInv, setup' = setup, ModifyStep PROVE IInv'
<1> DEFINE n == req.PIndex
           P == PageRows
           base == n * P + 1
<1>1. /\ Modifying /\ ~Reading /\ open /\ setup \in Setups /\ n \in Nat
      /\ Reachable(n) /\ OcbType /\ updates > 0
      /\ P \in Nat /\ P > 0 /\ Index \in 0 .. MaxRows /\ HFile \in 0 .. MaxRows /\ MaxRows \in Nat
      /\ rows \in Seq(Row) /\ flushed \in Seq(Row) /\ dropped \in BOOLEAN
      /\ fails \in Nat /\ updates \in Nat /\ req.TIndex \in Int
  BY Walking, Sizes DEF ModifyStep, IInv, Types, OcbType, Reading, Modifying
<1>2. PICK l : l = LockTablePage(n) OBVIOUS
<1> DEFINE p == l.pages[l.at]
           verdict(s) == Accepts(ocb[req.c].Filters, p.Data[s])
           all == {s \in Slots : req.RIndex <= s /\ s < p.LastRow /\ s < req.RIndex + req.TIndex}
           stop == {s \in all : verdict(s) = -1 \/ req.op = "updcur"}
           seen == {s \in all : \A x \in stop : s <= x}
           hits == {s \in seen : verdict(s) = 1}
           data == [s \in Slots |-> IF s \in hits THEN Modified(p.Data[s]) ELSE p.Data[s]]
           v == MarkedDirty([p EXCEPT !.Data = data])
           t == IF stop # {} THEN 0 ELSE req.TIndex - Cardinality(all)
<1>3. /\ PLocks' = l.locks /\ DFile' = l.file /\ dropped' = (dropped \/ l.drops)
      /\ HFile' = HFile /\ UNCHANGED <<Index, open, ocb, flushed, fails, updates>>
  BY <1>2 DEF ModifyStep, TakePage, countVars
<1>4. Pages' = IF hits = {} THEN l.pages ELSE [l.pages EXCEPT ![l.at] = v]
  BY <1>2 DEF ModifyStep
<1>5. rows' = [i \in DOMAIN rows |-> IF i - base \in hits THEN Modified(rows[i]) ELSE rows[i]]
  BY <1>2 DEF ModifyStep
<1>6. req' = [NextPage EXCEPT !.TIndex = t] /\ t \in Int
  <2>1. req' = [NextPage EXCEPT !.TIndex = IF stop # {} THEN 0 ELSE @ - Cardinality(all)]
    BY <1>2 DEF ModifyStep
  <2>2. NextPage.TIndex = req.TIndex
    <3>1. req \in WalkRec({"read", "delete"}, {"none"}) \/ req \in WalkRec({"update", "updcur"}, setup.rules)
      BY <1>1, Walking
    <3> QED BY <3>1 DEF NextPage, WalkRec
  <2>3. Cardinality(all) \in Nat
    <3>1. IsFiniteSet(0 .. (P - 1)) BY <1>1, FS_Interval
    <3>2. all \subseteq 0 .. (P - 1) BY DEF Slots
    <3>3. IsFiniteSet(all) BY <3>1, <3>2, FS_Subset
    <3> QED BY <3>3, FS_CardinalityType
  <2> HIDE DEF stop, all
  <2>4. req' = [NextPage EXCEPT !.TIndex = t] BY <2>1, <2>2
  <2> QED BY <1>1, <2>3, <2>4
<1>7. /\ LockedOK(l, n) /\ n \in PageNums
      /\ p \in PageRec /\ p.Index = n /\ n * P \in Nat
      /\ (fails = 0 /\ ~dropped /\ ~l.drops) => RowsAre(l.pages, l.file, rows, Index)
  BY <1>1, <1>2, Taken
<1>8. /\ ListOK(l.pages) /\ Len(l.pages) = l.locks /\ l.locks <= LockPages /\ l.at \in 1 .. Len(l.pages)
      /\ l.pages[Len(l.pages)] = LastPage /\ l.file \in File /\ OnDisk(l.pages, l.file)
      /\ FromMemory(l.file) /\ l.drops \in BOOLEAN
  BY <1>7 DEF LockedOK
<1>9. hits \subseteq Slots OBVIOUS
<1> HIDE DEF hits, stop, all, t
<1>10. data \in [Slots -> Row]
  <2>1. p.Data \in [Slots -> Row] BY <1>7 DEF PageRec
  <2>2. \A s \in Slots : p.Data[s] \in Row /\ Modified(p.Data[s]) \in Row BY <1>1, <2>1, ModifiedIs
  <2> HIDE DEF p
  <2> QED BY <2>2
<1> HIDE DEF data
<1>11. /\ v \in PageRec /\ v.Index = p.Index /\ v.LastRow = p.LastRow /\ v.NeedSync = TRUE /\ v.Data = data
  <2> HIDE DEF p
  <2>1. v = [p EXCEPT !.Data = data, !.NeedSync = TRUE] BY <1>7 DEF MarkedDirty, PageRec
  <2> HIDE DEF v
  <2> QED BY <1>7, <1>10, <2>1 DEF PageRec
<1> HIDE DEF v
<1> DEFINE N == Len(l.pages)
<1>12. /\ Pages' \in Seq(PageRec) /\ Len(Pages') = N
       /\ \A j \in 1 .. N : j # l.at => Pages'[j] = l.pages[j]
       /\ Pages'[l.at] = IF hits = {} THEN p ELSE v
  <2>1. l.pages \in Seq(PageRec) BY <1>8 DEF ListOK
  <2>2. CASE hits = {} BY <1>4, <2>1, <2>2
  <2>3. CASE hits # {}
    <3>1. Pages' = [l.pages EXCEPT ![l.at] = v] BY <1>4, <2>3
    <3> QED BY <1>8, <1>11, <2>1, <2>3, <3>1, Replaced
  <2> QED BY <2>2, <2>3
<1>13. \A j \in 1 .. N : Pages'[j].Index = l.pages[j].Index /\ Pages'[j].LastRow = l.pages[j].LastRow
  BY <1>11, <1>12
<1>14. N \in Nat /\ N > 0 /\ N \in 1 .. N /\ DOMAIN l.pages = 1 .. N BY <1>1, <1>8, ListIs
<1>15. ListOK(Pages') BY <1>8, <1>12, <1>13, <1>14 DEF ListOK
<1>16. OnDisk(Pages', l.file)
  <2> SUFFICES ASSUME NEW k \in 1 .. N, ~Pages'[k].NeedSync, NEW s \in Slots, s < Pages'[k].LastRow
               PROVE  Pages'[k].Data[s] = l.file[Pages'[k].Index][s]
    BY <1>12 DEF OnDisk
  <2>1. Pages'[k] = l.pages[k] BY <1>11, <1>12
  <2> QED BY <1>8, <2>1 DEF OnDisk
<1>17. /\ LastPage'.Index = LastPage.Index /\ LastPage'.LastRow = LastPage.LastRow
  <2>1. LastPage' = Pages'[N] BY <1>12 DEF LastPage
  <2> QED BY <1>8, <1>13, <1>14, <2>1
<1>18. /\ (LastPage.Index * P) + LastPage.LastRow <= Index
       /\ fails = 0 => (LastPage.Index * P) + LastPage.LastRow = Index
  BY <1>1, Opened
<1>19. /\ rows' \in Seq(Row) /\ Len(rows') = Len(rows)
       /\ \A i \in 1 .. Len(rows) :
             rows'[i] = IF i - base \in hits THEN Modified(rows[i]) ELSE rows[i]
  <2>1. Len(rows) \in Nat /\ DOMAIN rows = 1 .. Len(rows) BY <1>1
  <2>2. \A i \in 1 .. Len(rows) : rows[i] \in Row /\ Modified(rows[i]) \in Row BY <1>1, ModifiedIs
  <2> QED BY <1>5, <2>1, <2>2
<1>20. ReqType' /\ req'.op = req.op /\ req'.PIndex = n + 1 BY <1>1, <1>6, WalksOn
<1>21. ModifyCounted' /\ CursorFollows' /\ HeadWritten'
  BY <1>1, <1>3, <1>20 DEF ModifyCounted, CursorFollows, HeadWritten, Reading, Modifying
<1>22. OcbType' BY <1>1, <1>3, SizesStay DEF OcbType
<1>23. ~dropped' => ~dropped /\ ~l.drops BY <1>3
<1> HIDE DEF base
(* which rows the slots that are met belong to                              *)
<1>24. ASSUME NEW i \in Nat, NEW m \in Nat, NEW s \in Slots, i = ((m * P) + s) + 1
       PROVE  (i - base \in hits) <=> (m = n /\ s \in hits)
  <2>1. s \in Nat /\ m * P \in Nat /\ n * P \in Nat /\ Slots \subseteq Nat BY <1>1, <1>7, <1>24, Sizes, Positions
  <2>2. base = (n * P) + 1 BY DEF base
  <2>3. i - base = ((m * P) + s) - (n * P)
    <3> DEFINE a == m * P
               b == n * P
    <3>1. i = (a + s) + 1 /\ base = b + 1 /\ a \in Nat /\ b \in Nat BY <1>24, <2>1, <2>2
    <3> HIDE DEF a, b
    <3>2. i - base = (a + s) - b BY <2>1, <3>1
    <3> QED BY <3>2 DEF a, b
  <2>4. ASSUME i - base \in hits PROVE m = n /\ s \in hits
    <3>1. PICK r \in Slots : r = i - base BY <1>9, <2>4
    <3>2. r \in Nat BY <2>1, <3>1
    <3>3. (n * P) + r = (m * P) + s
      <4> DEFINE a == m * P
                 b == n * P
      <4>1. r = (a + s) - b /\ a \in Nat /\ b \in Nat BY <2>1, <2>3, <3>1
      <4> HIDE DEF a, b
      <4>2. b + r = a + s BY <2>1, <3>2, <4>1
      <4> QED BY <4>2 DEF a, b
    <3>4. \A a, b \in Nat, x, y \in Slots : (a * P) + x = (b * P) + y => a = b /\ x = y
      BY <1>1, Positions
    <3>5. n \in Nat BY <1>1
    <3>6. m = n /\ s = r BY <3>3, <3>4, <3>5, Zenon
    <3> QED BY <2>4, <3>1, <3>6
  <2>5. ASSUME m = n, s \in hits PROVE i - base \in hits
    <3>1. ((m * P) + s) - (n * P) = s
      <4> DEFINE a == n * P
      <4>1. a \in Nat BY <2>1
      <4> HIDE DEF a
      <4>2. (a + s) - a = s BY <2>1, <4>1
      <4> QED BY <2>5, <4>2 DEF a
    <3> QED BY <2>3, <2>5, <3>1
  <2> QED BY <2>4, <2>5
<1>25. ASSUME fails = 0, ~dropped' PROVE RowsAre(Pages', l.file, rows', Index)
  <2>1. /\ Len(rows) = Index /\ Size = Index
        /\ \A i \in 1 .. Index : At(l.pages, l.file, Page(i - 1), Slot(i - 1)) = rows[i]
    BY <1>1, <1>7, <1>23, <1>25 DEF RowsAre, Size
  <2> SUFFICES ASSUME NEW i \in 1 .. Index
               PROVE  At(Pages', l.file, Page(i - 1), Slot(i - 1)) = rows'[i]
    BY <1>19, <2>1 DEF RowsAre
  <2> DEFINE m == Page(i - 1)
             s == Slot(i - 1)
  <2>2. m \in PageNums /\ m \in Nat /\ s \in Slots /\ i = ((m * P) + s) + 1 /\ i \in Nat
    BY <1>1, <2>1, RowPlaces
  <2>3. At(l.pages, l.file, m, s) = rows[i] BY <2>1
  <2>4. rows'[i] = IF m = n /\ s \in hits THEN Modified(rows[i]) ELSE rows[i]
    <3>1. (i - base \in hits) <=> (m = n /\ s \in hits) BY <1>24, <2>2
    <3> QED BY <1>19, <2>1, <3>1
  <2> HIDE DEF m, s
  <2>5. CASE m = n
    <3>1. At(l.pages, l.file, m, s) = p.Data[s] BY <1>1, <1>7, <1>8, <2>5, AtIs
    <3>2. At(Pages', l.file, m, s) = Pages'[l.at].Data[s] 
      <4>1. l.at \in 1 .. Len(Pages') /\ Pages'[l.at].Index = m BY <1>7, <1>8, <1>12, <1>13, <2>5
      <4>2. setup \in Setups BY <1>1
      <4> QED BY <1>15, <4>1, <4>2, AtIs
    <3>3. CASE hits = {} BY <1>12, <2>3, <2>4, <3>1, <3>2, <3>3 DEF m, s
    <3>4. CASE hits # {}
      <4>1. data[s] = IF s \in hits THEN Modified(p.Data[s]) ELSE p.Data[s] BY <2>2 DEF data
      <4> QED BY <1>11, <1>12, <2>3, <2>4, <2>5, <3>1, <3>2, <3>4, <4>1 DEF m, s
    <3> QED BY <3>3, <3>4
  <2>6. CASE m # n
    <3>1. ASSUME NEW k \in 1 .. N, l.pages[k].Index = m
          PROVE  At(Pages', l.file, m, s) = At(l.pages, l.file, m, s)
      <4>1. k # l.at BY <1>7, <2>6, <3>1
      <4>2. At(l.pages, l.file, m, s) = l.pages[k].Data[s] BY <1>1, <1>8, <3>1, AtIs
      <4>3. At(Pages', l.file, m, s) = Pages'[k].Data[s] BY <1>1, <1>12, <1>13, <1>15, <3>1, AtIs
      <4> QED BY <1>12, <4>1, <4>2, <4>3
    <3>2. ASSUME \A k \in 1 .. N : l.pages[k].Index # m
          PROVE  At(Pages', l.file, m, s) = At(l.pages, l.file, m, s)
      <4>1. At(l.pages, l.file, m, s) = l.file[m][s] BY <1>1, <1>8, <3>2, AtIs
      <4>2. At(Pages', l.file, m, s) = l.file[m][s]
        <5>1. \A k \in 1 .. Len(Pages') : Pages'[k].Index # m BY <1>12, <1>13, <3>2
        <5>2. setup \in Setups BY <1>1
        <5> QED BY <1>15, <5>1, <5>2, AtIs
      <4> QED BY <4>1, <4>2
    <3> QED BY <2>3, <2>4, <2>6, <3>1, <3>2 DEF m, s
  <2> QED BY <2>5, <2>6 DEF m, s
<1>26. ASSUME fails = 0, ~dropped', updates <= 1
       PROVE  /\ Len(flushed) <= HFile /\ Len(flushed) <= Len(rows')
              /\ \A i \in 1 .. Len(flushed) :
                    /\ DFile'[Page(i - 1)][Slot(i - 1)] \in {flushed[i], rows'[i]}
                    /\ Untouched(i)' => rows'[i] = flushed[i]
  <2>1. /\ Len(flushed) <= HFile /\ Len(flushed) <= Len(rows)
        /\ \A i \in 1 .. Len(flushed) : Untouched(i) => rows[i] = flushed[i]
    BY <1>23, <1>26 DEF IInv, Survives
  <2>2. ASSUME NEW i \in 1 .. Len(flushed)
        PROVE  /\ l.file[Page(i - 1)][Slot(i - 1)] \in {flushed[i], rows'[i]}
               /\ Untouched(i)' => rows'[i] = flushed[i]
    <3> DEFINE m == Page(i - 1)
               s == Slot(i - 1)
    <3>1. i \in 1 .. Size /\ l.file[m][s] \in {flushed[i], rows[i]}
      BY <1>1, <1>8, <1>23, <1>26, FileKeeps
    <3>2. m \in Nat /\ s \in Slots /\ s \in Nat /\ i = ((m * P) + s) + 1 BY <3>1, RowPlaces
    <3>3. i \in 1 .. Len(rows) /\ i \in Nat BY <1>1, <2>1
    <3> HIDE DEF m, s
    <3>4. (i - base \in hits) <=> (m = n /\ s \in hits) BY <1>24, <3>2, <3>3
    <3>5. m = n => Untouched(i)
      <4> SUFFICES ASSUME m = n PROVE n * P < i BY <1>1 DEF Untouched
      <4> DEFINE a == n * P
      <4>1. a \in Nat /\ i = (a + s) + 1 BY <1>7, <3>2
      <4> HIDE DEF a
      <4>2. a < i BY <3>2, <4>1
      <4> QED BY <4>2 DEF a
    <3>6. l.file[m][s] \in {flushed[i], rows'[i]}
      <4>1. CASE i - base \in hits BY <2>1, <3>1, <3>4, <3>5, <4>1
      <4>2. CASE ~(i - base \in hits) BY <1>19, <3>1, <3>3, <4>2
      <4> QED BY <4>1, <4>2
    <3>7. ASSUME Untouched(i)' PROVE rows'[i] = flushed[i]
      <4>1. (n + 1) * P < i
        <5>1. updates' # 0 BY <1>1, <1>3
        <5> QED BY <1>20, <3>7, <5>1, SizesStay DEF Untouched
      <4>2. (n + 1) * P = (n * P) + P BY <1>1
      <4>3. n * P < i
        <5> DEFINE a == n * P
        <5>1. a \in Nat /\ a + P < i BY <1>7, <4>1, <4>2
        <5> HIDE DEF a
        <5>2. a < i BY <1>1, <3>3, <5>1
        <5> QED BY <5>2 DEF a
      <4>4. m # n
        <5> SUFFICES ASSUME m = n PROVE FALSE OBVIOUS
        <5> DEFINE a == n * P
        <5>1. a \in Nat /\ a + P < i /\ i = (a + s) + 1 BY <1>7, <3>2, <4>1, <4>2
        <5>2. s < P BY <1>1, <3>2, Sizes
        <5> HIDE DEF a
        <5> QED BY <1>1, <3>2, <5>1, <5>2
      <4>5. Untouched(i) BY <1>1, <4>3 DEF Untouched
      <4> QED BY <1>19, <2>1, <3>3, <3>4, <4>4, <4>5
    <3> QED BY <3>6, <3>7 DEF m, s
  <2>3. Len(flushed) <= Len(rows') BY <1>19, <2>1
  <2> QED BY <1>3, <2>1, <2>2, <2>3
<1>27. dropped' \in BOOLEAN /\ open' BY <1>1, <1>3
<1>28. (LastPage'.Index * P) + LastPage'.LastRow = (LastPage.Index * P) + LastPage.LastRow BY <1>17
<1>29. /\ (LastPage'.Index * P) + LastPage'.LastRow <= Index'
       /\ fails' = 0 => (LastPage'.Index * P) + LastPage'.LastRow = Index'
  BY <1>3, <1>18, <1>28
<1>30. OnDisk(Pages', DFile') /\ ((fails' = 0 /\ ~dropped') => RowsAre(Pages', DFile', rows', Index'))
  BY <1>3, <1>16, <1>25
<1>31. Len(Pages') = PLocks' /\ PLocks' <= LockPages /\ DFile' \in File BY <1>3, <1>8, <1>12
<1> QED BY <1>1, <1>3, <1>15, <1>19, <1>20, <1>21, <1>22, <1>26, <1>27, <1>29, <1>30, <1>31,
           TableChanges

(* All pages of the list are written: the file has every row before the end *)
(* of the table.                                                            *)
LEMMA Flushed ==
    ASSUME IInv, open, HFile = Index, NEW f, f = SyncedAll, NEW qs,
           qs = [i \in DOMAIN Pages |-> Clean(Pages[i])]
    PROVE  /\ f \in File /\ ListOK(qs) /\ Len(qs) = Len(Pages) /\ OnDisk(qs, f)
           /\ \A i \in 1 .. Len(qs) : qs[i].Index = Pages[i].Index /\ qs[i].LastRow = Pages[i].LastRow
           /\ (fails = 0 /\ ~dropped) =>
                 /\ RowsAre(qs, f, rows, Index) /\ RowsAre(<<>>, f, rows, Index)
                 /\ Len(rows) = Index
                 /\ \A i \in 1 .. Len(rows) : f[Page(i - 1)][Slot(i - 1)] = rows[i]
<1> DEFINE N == Len(Pages)
           P == PageRows
<1>1. /\ ListOK(Pages) /\ OnDisk(Pages, DFile) /\ DFile \in File /\ setup \in Setups
      /\ N \in Nat /\ N > 0 /\ N \in 1 .. N /\ DOMAIN Pages = 1 .. N
      /\ LastPage = Pages[N] /\ P \in Nat /\ Index \in Nat
      /\ fails = 0 => (LastPage.Index * P) + LastPage.LastRow = Index
  BY Opened, Sizes, ListIs DEF Idle, IInv, Types
<1>2. \A j \in 1 .. N :
         /\ Pages[j] \in PageRec /\ Pages[j].Index \in PageNums /\ Pages[j].Index \in Nat
         /\ Pages[j].LastRow \in Nat
         /\ j < N => Pages[j].LastRow = P
  BY <1>1, ListIs
<1>3. \A j, k \in 1 .. N : Pages[j].Index = Pages[k].Index => j = k BY <1>1, ListIs
<1>4. \A j \in 1 .. N : f[Pages[j].Index] = IF Pages[j].NeedSync THEN Pages[j].Data ELSE DFile[Pages[j].Index]
  <2> SUFFICES ASSUME NEW j \in 1 .. N
               PROVE  f[Pages[j].Index] = IF Pages[j].NeedSync THEN Pages[j].Data ELSE DFile[Pages[j].Index]
    OBVIOUS
  <2> DEFINE m == Pages[j].Index
             at == CHOOSE i \in DOMAIN Pages : Pages[i].Index = m
  <2>1. m \in PageNums /\ j \in DOMAIN Pages BY <1>1, <1>2
  <2>2. at \in 1 .. N /\ Pages[at].Index = m BY <1>1, <2>1
  <2>3. at = j BY <1>3, <2>2
  <2>4. f[m] = IF \E i \in DOMAIN Pages : Pages[i].Index = m /\ Pages[i].NeedSync
                 THEN Pages[at].Data ELSE DFile[m]
    BY <2>1 DEF SyncedAll
  <2>5. (\E i \in DOMAIN Pages : Pages[i].Index = m /\ Pages[i].NeedSync) <=> Pages[j].NeedSync
    BY <1>1, <1>3, <2>1
  <2> HIDE DEF at
  <2> QED BY <2>3, <2>4, <2>5
<1>5. \A m \in PageNums : (\A j \in 1 .. N : Pages[j].Index # m) => f[m] = DFile[m]
  BY <1>1 DEF SyncedAll
<1>6. f \in File
  <2>1. \A m \in PageNums : f[m] \in [Slots -> Row]
    <3> SUFFICES ASSUME NEW m \in PageNums PROVE f[m] \in [Slots -> Row] OBVIOUS
    <3>1. ASSUME NEW j \in 1 .. N, Pages[j].Index = m PROVE f[m] \in [Slots -> Row]
      BY <1>1, <1>2, <1>4, <3>1 DEF PageRec, File
    <3>2. (\A j \in 1 .. N : Pages[j].Index # m) => f[m] \in [Slots -> Row] BY <1>1, <1>5 DEF File
    <3> QED BY <3>1, <3>2
  <2>2. f = [m \in PageNums |-> f[m]] BY DEF SyncedAll
  <2> QED BY <2>1, <2>2 DEF File
<1>7. WrittenFrom(f)
  <2> SUFFICES ASSUME NEW m \in PageNums
               PROVE  f[m] = DFile[m] \/ \E j \in 1 .. N : Pages[j].Index = m /\ f[m] = Pages[j].Data
    BY DEF WrittenFrom
  <2> QED BY <1>4, <1>5
<1>8. OnDisk(Pages, f) /\ SameRows(Pages, f)
  <2>1. InBoth(Pages, f, LastPage.Index) /\ Left(Pages, f) BY DEF InBoth, Left
  <2>2. LastPage.Index \in PageNums BY <1>1, <1>2
  <2> QED BY <1>1, <1>6, <1>7, <2>1, <2>2, Unnoticed
<1>9. \A j \in 1 .. N, s \in Slots : s < Pages[j].LastRow => Pages[j].Data[s] = f[Pages[j].Index][s]
  BY <1>4, <1>8 DEF OnDisk
<1>10. /\ qs \in Seq(PageRec) /\ Len(qs) = N
       /\ \A j \in 1 .. N : /\ qs[j].Index = Pages[j].Index /\ qs[j].LastRow = Pages[j].LastRow
                            /\ qs[j].Data = Pages[j].Data
  <2>1. \A j \in 1 .. N : /\ Clean(Pages[j]) \in PageRec /\ Clean(Pages[j]).Index = Pages[j].Index
                          /\ Clean(Pages[j]).LastRow = Pages[j].LastRow /\ Clean(Pages[j]).Data = Pages[j].Data
    BY <1>2 DEF Clean, PageRec
  <2> QED BY <1>1, <2>1
<1>11. ListOK(qs) BY <1>1, <1>10 DEF ListOK
<1>12. OnDisk(qs, f)
  <2>1. \A j \in 1 .. N, s \in Slots : s < qs[j].LastRow => qs[j].Data[s] = f[qs[j].Index][s]
    BY <1>9, <1>10
  <2> QED BY <1>10, <2>1 DEF OnDisk
<1>13. ASSUME fails = 0, ~dropped
       PROVE  /\ Len(rows) = Index
              /\ \A i \in 1 .. Index :
                    /\ f[Page(i - 1)][Slot(i - 1)] = rows[i]
                    /\ At(qs, f, Page(i - 1), Slot(i - 1)) = rows[i]
                    /\ At(<<>>, f, Page(i - 1), Slot(i - 1)) = rows[i]
  <2>1. /\ Len(rows) = Index /\ Size = Index
        /\ \A i \in 1 .. Index : At(Pages, DFile, Page(i - 1), Slot(i - 1)) = rows[i]
    BY <1>13 DEF IInv, Whole, Size
  <2>2. ASSUME NEW i \in 1 .. Index
        PROVE  /\ f[Page(i - 1)][Slot(i - 1)] = rows[i]
               /\ At(qs, f, Page(i - 1), Slot(i - 1)) = rows[i]
               /\ At(<<>>, f, Page(i - 1), Slot(i - 1)) = rows[i]
    <3> DEFINE m == Page(i - 1)
               s == Slot(i - 1)
    <3>1. m \in PageNums /\ m \in Nat /\ s \in Slots /\ s \in Nat /\ i = ((m * P) + s) + 1
      BY <2>1, RowPlaces
    <3>2. At(Pages, f, m, s) = rows[i] BY <1>8, <2>1, <3>1 DEF SameRows
    <3> HIDE DEF m, s
    <3>3. ASSUME NEW j \in 1 .. N, Pages[j].Index = m
          PROVE  f[m][s] = rows[i] /\ At(qs, f, m, s) = rows[i]
      <4>1. Pages[j].Data[s] = rows[i] BY <1>1, <3>2, <3>3, AtIs
      <4>2. s < Pages[j].LastRow
        <5>1. CASE j < N BY <1>1, <1>2, <3>1, <5>1, Sizes
        <5>2. CASE j = N
          <6> DEFINE a == m * P
          <6>0. LastPage.Index = m /\ LastPage.LastRow \in Nat BY <1>1, <1>2, <3>3, <5>2
          <6>1. a \in Nat /\ a + LastPage.LastRow = Index /\ LastPage.LastRow \in Nat /\ i = (a + s) + 1 /\ i <= Index
            <7>1. a \in Nat BY <1>1, <3>1, Positions
            <7>2. a + LastPage.LastRow = Index BY <1>1, <1>13, <6>0
            <7>3. i <= Index BY <1>1
            <7> QED BY <3>1, <6>0, <7>1, <7>2, <7>3
          <6> HIDE DEF a
          <6>2. s < LastPage.LastRow BY <3>1, <6>1
          <6> QED BY <1>1, <5>2, <6>2
        <5>3. j < N \/ j = N
          <6> HIDE DEF N
          <6> QED BY <1>1
        <5> QED BY <5>1, <5>2, <5>3
      <4>3. f[m][s] = rows[i] BY <1>9, <3>1, <3>3, <4>1, <4>2
      <4>4. setup \in Setups /\ j \in 1 .. Len(qs) /\ qs[j].Index = m /\ qs[j].Data[s] = rows[i]
        BY <1>1, <1>10, <3>3, <4>1
      <4>5. At(qs, f, m, s) = rows[i] BY <1>11, <4>4, AtIs
      <4> QED BY <4>3, <4>5
    <3>4. ASSUME \A j \in 1 .. N : Pages[j].Index # m
          PROVE  f[m][s] = rows[i] /\ At(qs, f, m, s) = rows[i]
      <4>1. f[m][s] = rows[i] BY <1>1, <3>2, <3>4, AtIs
      <4>2. setup \in Setups /\ \A j \in 1 .. Len(qs) : qs[j].Index # m BY <1>1, <1>10, <3>4
      <4>3. DOMAIN qs = 1 .. Len(qs) BY <1>10
      <4>4. ~\E j \in DOMAIN qs : qs[j].Index = m BY <4>2, <4>3
      <4>5. At(qs, f, m, s) = f[m][s] BY <4>4 DEF At
      <4> QED BY <4>1, <4>5
    <3>5. At(<<>>, f, m, s) = f[m][s] BY DEF At
    <3> QED BY <3>3, <3>4, <3>5 DEF m, s
  <2> QED BY <2>1, <2>2
<1>14. (fails = 0 /\ ~dropped) =>
          /\ RowsAre(qs, f, rows, Index) /\ RowsAre(<<>>, f, rows, Index)
          /\ Len(rows) = Index
          /\ \A i \in 1 .. Len(rows) : f[Page(i - 1)][Slot(i - 1)] = rows[i]
  BY <1>13 DEF RowsAre
<1> QED BY <1>6, <1>10, <1>11, <1>12, <1>14

(* TBLFLUSH and Qbase_TableRelease write the pages.                         *)
LEMMA FlushIInv == ASSUME IInv, setup' = setup, FlushEnd \/ ReleaseEnd PROVE IInv'
<1>1. /\ open /\ HFile = Index /\ setup \in Setups
      /\ Index \in 0 .. MaxRows /\ rows \in Seq(Row) /\ dropped \in BOOLEAN
      /\ fails \in Nat /\ updates \in Nat /\ OcbType /\ MaxRows \in Nat
  <2>1. req.op \in {"flush", "release"} /\ req # NoReq BY DEF FlushEnd, ReleaseEnd, NoReq
  <2> QED BY <2>1, Sizes DEF IInv, Types, InMemory, HeadWritten, OcbType
<1>2. /\ DFile' = SyncedAll /\ flushed' = rows /\ req' = NoReq
      /\ UNCHANGED <<Index, HFile, rows, dropped, fails, updates>>
  BY DEF FlushEnd, ReleaseEnd, Finish, countVars
<1>3. \/ /\ Pages' = [i \in DOMAIN Pages |-> Clean(Pages[i])] /\ PLocks' = PLocks
         /\ open' = open /\ ocb' = ocb
      \/ Pages' = <<>> /\ PLocks' = 0 /\ open' = FALSE /\ ocb' = [c \in Clients |-> Fresh]
  BY DEF FlushEnd, ReleaseEnd
<1> DEFINE qs == [i \in DOMAIN Pages |-> Clean(Pages[i])]
<1>4. /\ DFile' \in File /\ ListOK(qs) /\ Len(qs) = Len(Pages) /\ OnDisk(qs, DFile')
      /\ \A i \in 1 .. Len(qs) : qs[i].Index = Pages[i].Index /\ qs[i].LastRow = Pages[i].LastRow
      /\ (fails = 0 /\ ~dropped) =>
            /\ RowsAre(qs, DFile', rows, Index) /\ RowsAre(<<>>, DFile', rows, Index)
            /\ Len(rows) = Index
            /\ \A i \in 1 .. Len(rows) : DFile'[Page(i - 1)][Slot(i - 1)] = rows[i]
  BY <1>1, <1>2, Flushed
<1>5. /\ LastPage = Pages[Len(Pages)] /\ Len(Pages) \in 1 .. Len(Pages)
      /\ Len(Pages) = PLocks /\ PLocks <= LockPages
      /\ (LastPage.Index * PageRows) + LastPage.LastRow <= Index
      /\ fails = 0 => (LastPage.Index * PageRows) + LastPage.LastRow = Index
  BY <1>1, Opened DEF LastPage
<1> HIDE DEF qs
<1>6. OcbType'
  <2>1. MaxRows' = MaxRows /\ Fresh \in [Record : 0 .. MaxRows, Filters : Seq(Filters)]
    BY <1>1, SizesStay DEF Fresh
  <2> QED BY <1>1, <1>3, <2>1 DEF OcbType
<1>7. ReqType' /\ ModifyCounted' /\ CursorFollows' BY <1>2, NotWalking
<1>8. HeadWritten' BY <1>2 DEF HeadWritten, NoReq
<1>9. open' => /\ ListOK(Pages') /\ Len(Pages') = PLocks' /\ PLocks' <= LockPages
               /\ (LastPage'.Index * PageRows) + LastPage'.LastRow <= Index'
               /\ fails' = 0 => (LastPage'.Index * PageRows) + LastPage'.LastRow = Index'
  <2> SUFFICES ASSUME open'
               PROVE  /\ ListOK(Pages') /\ Len(Pages') = PLocks' /\ PLocks' <= LockPages
                      /\ (LastPage'.Index * PageRows) + LastPage'.LastRow <= Index'
                      /\ fails' = 0 => (LastPage'.Index * PageRows) + LastPage'.LastRow = Index'
    OBVIOUS
  <2>1. Pages' = qs /\ PLocks' = PLocks BY <1>3 DEF qs
  <2>2. LastPage' = qs[Len(Pages)] BY <1>4, <2>1 DEF LastPage
  <2>3. LastPage'.Index = LastPage.Index /\ LastPage'.LastRow = LastPage.LastRow BY <1>4, <1>5, <2>2
  <2> QED BY <1>2, <1>4, <1>5, <2>1, <2>3
<1>10. ~open' => Pages' = <<>> /\ PLocks' = 0 /\ req' = NoReq BY <1>1, <1>2, <1>3
<1>11. OnDisk(Pages', DFile')
  <2>1. CASE Pages' = qs BY <1>4, <2>1
  <2>2. CASE Pages' = <<>> BY <2>2 DEF OnDisk
  <2> QED BY <1>3, <2>1, <2>2 DEF qs
<1>12. (fails' = 0 /\ ~dropped') => RowsAre(Pages', DFile', rows', IF open' THEN Index' ELSE HFile')
  <2>1. Pages' = qs \/ Pages' = <<>> BY <1>3 DEF qs
  <2>2. (IF open' THEN Index' ELSE HFile') = Index BY <1>1, <1>2
  <2>3. (fails = 0 /\ ~dropped) => RowsAre(Pages', DFile', rows, Index) BY <1>4, <2>1
  <2> QED BY <1>2, <2>2, <2>3
<1>13. (fails' = 0 /\ ~dropped' /\ updates' <= 1) =>
          /\ Len(flushed') <= HFile' /\ Len(flushed') <= Len(rows')
          /\ \A i \in 1 .. Len(flushed') :
                /\ DFile'[Page(i - 1)][Slot(i - 1)] \in {flushed'[i], rows'[i]}
                /\ Untouched(i)' => rows'[i] = flushed'[i]
  BY <1>1, <1>2, <1>4
<1>14. open' \in BOOLEAN BY <1>1, <1>3
<1> QED BY <1>1, <1>2, <1>4, <1>6, <1>7, <1>8, <1>9, <1>10, <1>11, <1>12, <1>13, <1>14, TableChanges

(* TBLSELECT: the last page is read, as far as the header says.             *)
LEMMA SelectIInv == ASSUME IInv, setup' = setup, Select PROVE IInv'
<1> DEFINE n == Page(HFile)
           pg == [Index |-> n, LastRow |-> SelectedLastRow, NeedSync |-> FALSE, Data |-> DFile[n]]
<1>1. /\ ~open /\ req = NoReq /\ Pages = <<>> /\ setup \in Setups
      /\ HFile \in 0 .. MaxRows /\ HFile \in Nat /\ MaxRows \in Nat /\ PageRows \in Nat
      /\ DFile \in File /\ rows \in Seq(Row) /\ flushed \in Seq(Row) /\ dropped \in BOOLEAN
      /\ fails \in Nat /\ updates \in Nat /\ OcbType
  BY Sizes DEF Select, IInv, Types, InMemory, OcbType, File
<1>2. /\ open' = TRUE /\ Index' = HFile /\ Pages' = <<pg>> /\ PLocks' = 1
      /\ UNCHANGED <<DFile, HFile, ocb, req, rows, flushed, dropped, fails, updates>>
  BY DEF Select, fileVars, histVars, countVars
<1>3. /\ n \in Nat /\ Slot(HFile) \in Slots /\ Slot(HFile) \in Nat /\ n * PageRows \in Nat
      /\ HFile = (n * PageRows) + Slot(HFile) /\ Slot(HFile) < PageRows
  <2>1. /\ n \in Nat /\ Slot(HFile) \in Slots /\ HFile = (n * PageRows) + Slot(HFile)
        /\ n * PageRows \in Nat
    BY <1>1, Positions
  <2> QED BY <1>1, <2>1, Sizes
<1>4. n \in PageNums
  <2>1. n * PageRows <= MaxRows BY <1>1, <1>3
  <2> QED BY <1>1, <1>3, <2>1, Positions
<1>5. pg \in PageRec /\ pg.Index = n /\ pg.LastRow = Slot(HFile) /\ pg.Data = DFile[n]
  <2>1. DFile[n] \in [Slots -> Row] /\ Slot(HFile) \in 0 .. PageRows BY <1>1, <1>3, <1>4 DEF File
  <2> HIDE DEF n
  <2> QED BY <1>4, <2>1 DEF PageRec, SelectedLastRow
<1> HIDE DEF pg, n
<1>6. Pages' \in Seq(PageRec) /\ Len(Pages') = 1 /\ Pages'[1] = pg /\ LastPage' = pg
  BY <1>2, <1>5 DEF LastPage
<1>7. ListOK(Pages') BY <1>6 DEF ListOK
<1>8. OnDisk(Pages', DFile') BY <1>2, <1>5, <1>6 DEF OnDisk
<1>9. LockPages \in Nat /\ 1 <= LockPages BY TableAssumption
<1>10. (LastPage'.Index * PageRows) + LastPage'.LastRow = Index' BY <1>2, <1>3, <1>5, <1>6
<1>11. (fails' = 0 /\ ~dropped') => RowsAre(Pages', DFile', rows', IF open' THEN Index' ELSE HFile')
  <2>1. \A m, s : At(Pages, DFile, m, s) = DFile[m][s] BY <1>1 DEF At
  <2>2. \A m, s : At(Pages', DFile', m, s) = DFile[m][s] BY <1>2, <1>5, <1>6 DEF At
  <2>3. (fails = 0 /\ ~dropped) => RowsAre(Pages, DFile, rows, HFile)
    BY <1>1 DEF IInv, Whole, RowsAre, Size
  <2> QED BY <1>2, <2>1, <2>2, <2>3 DEF RowsAre
<1>12. OcbType' /\ HeadWritten' BY <1>1, <1>2, SizesStay DEF OcbType, HeadWritten, NoReq
<1>13. ReqType' /\ ModifyCounted' /\ CursorFollows' BY <1>1, <1>2, NotWalking
<1>14. (fails' = 0 /\ ~dropped' /\ updates' <= 1) =>
          /\ Len(flushed') <= HFile' /\ Len(flushed') <= Len(rows')
          /\ \A i \in 1 .. Len(flushed') :
                /\ DFile'[Page(i - 1)][Slot(i - 1)] \in {flushed'[i], rows'[i]}
                /\ Untouched(i)' => rows'[i] = flushed'[i]
  <2> SUFFICES ASSUME fails = 0, ~dropped, updates <= 1
               PROVE  /\ Len(flushed) <= HFile /\ Len(flushed) <= Len(rows)
                      /\ \A i \in 1 .. Len(flushed) :
                            /\ DFile[Page(i - 1)][Slot(i - 1)] \in {flushed[i], rows[i]}
                            /\ Untouched(i)' => rows[i] = flushed[i]
    BY <1>2
  <2>1. Len(flushed) \in Nat BY <1>1
  <2>2. \A i \in 1 .. Len(flushed) : Untouched(i)' => Untouched(i) BY <1>1, <1>2, <2>1, NotWalking
  <2> QED BY <2>2 DEF IInv, Survives, FileRow
<1> QED BY <1>1, <1>2, <1>7, <1>6, <1>8, <1>9, <1>10, <1>11, <1>12, <1>13, <1>14, TableChanges

(* The server dies: the clients have what the files hold.                   *)
LEMMA CrashIInv == ASSUME IInv, setup' = setup, Crash PROVE IInv'
<1>1. /\ setup \in Setups /\ HFile \in 0 .. MaxRows /\ Index \in 0 .. MaxRows /\ MaxRows \in Nat
      /\ DFile \in File /\ fails \in Nat /\ updates \in Nat
  BY Sizes DEF IInv, Types, File
<1>2. /\ Pages' = <<>> /\ PLocks' = 0 /\ open' = FALSE /\ ocb' = [c \in Clients |-> Fresh]
      /\ rows' = [i \in 1 .. HFile |-> FileRow(i)] /\ flushed' = <<>> /\ dropped' = FALSE /\ req' = NoReq
      /\ UNCHANGED <<Index, DFile, HFile, fails, updates>>
  BY DEF Crash, Finish, fileVars
<1>3. \A i \in 1 .. HFile : FileRow(i) \in Row
  <2> SUFFICES ASSUME NEW i \in 1 .. HFile PROVE FileRow(i) \in Row OBVIOUS
  <2>1. i - 1 \in Nat /\ i - 1 <= MaxRows BY <1>1
  <2>2. /\ Page(i - 1) \in Nat /\ Slot(i - 1) \in Slots /\ Page(i - 1) * PageRows \in Nat
        /\ i - 1 = (Page(i - 1) * PageRows) + Slot(i - 1)
    BY <1>1, <2>1, Positions
  <2>3. Slot(i - 1) \in Nat BY <1>1, <2>2, Sizes
  <2>4. Page(i - 1) * PageRows <= MaxRows BY <1>1, <2>1, <2>2, <2>3
  <2>5. Page(i - 1) \in PageNums BY <1>1, <2>2, <2>4, Positions
  <2> QED BY <1>1, <2>2, <2>5 DEF File, FileRow
<1>4. rows' \in Seq(Row) /\ Len(rows') = HFile /\ \A i \in 1 .. HFile : rows'[i] = FileRow(i)
  <2>1. HFile \in Nat BY <1>1
  <2> QED BY <1>2, <1>3, <2>1
<1>5. RowsAre(Pages', DFile', rows', HFile')
  <2>1. \A m, s : At(Pages', DFile', m, s) = DFile[m][s] BY <1>2 DEF At
  <2> QED BY <1>2, <1>4, <2>1 DEF RowsAre, FileRow
<1>6. OcbType'
  <2>1. MaxRows' = MaxRows /\ Fresh \in [Record : 0 .. MaxRows, Filters : Seq(Filters)]
    BY <1>1, SizesStay DEF Fresh
  <2> QED BY <1>2, <2>1 DEF OcbType
<1>7. ReqType' /\ ModifyCounted' /\ CursorFollows' BY <1>2, NotWalking
<1>8. HeadWritten' BY <1>2 DEF HeadWritten, NoReq
<1>9. OnDisk(Pages', DFile') BY <1>2 DEF OnDisk
<1>10. flushed' \in Seq(Row) /\ Len(flushed') = 0 BY <1>2
<1>11. (fails' = 0 /\ ~dropped' /\ updates' <= 1) =>
          /\ Len(flushed') <= HFile' /\ Len(flushed') <= Len(rows')
          /\ \A i \in 1 .. Len(flushed') :
                /\ DFile'[Page(i - 1)][Slot(i - 1)] \in {flushed'[i], rows'[i]}
                /\ Untouched(i)' => rows'[i] = flushed'[i]
  BY <1>1, <1>2, <1>4, <1>10
<1> QED BY <1>1, <1>2, <1>4, <1>5, <1>6, <1>7, <1>8, <1>9, <1>10, <1>11, TableChanges

(* Every step keeps the invariant.                                          *)
LEMMA NextIInv == ASSUME IInv, [Next]_vars PROVE IInv'
<1>1. CASE UNCHANGED vars
  <2>1. /\ setup' = setup /\ HFile' = HFile /\ ocb' = ocb /\ req' = req /\ updates' = updates
        /\ UNCHANGED <<Index, Pages, PLocks, open, DFile, rows, flushed, dropped, fails>>
    BY <1>1 DEF vars, tableVars, fileVars, histVars, countVars
  <2>2. /\ OcbType /\ ReqType /\ ModifyCounted /\ CursorFollows /\ HeadWritten /\ updates \in Nat
        /\ ~open => req = NoReq
    BY DEF IInv, Types, OcbType, ModifyCounted, InMemory
  <2>3. OcbType' /\ HeadWritten' /\ ModifyCounted'
    BY <2>1, <2>2, SizesStay DEF OcbType, HeadWritten, ModifyCounted, Modifying
  <2>4. ReqType' BY <2>1, <2>2, SizesStay DEF ReqType, WalkRec
  <2>5. CursorFollows' BY <2>1, <2>2, SizesStay DEF CursorFollows, Reading, Reachable
  <2>6. \A i \in Nat : Untouched(i)' => Untouched(i) BY <2>1, SizesStay DEF Untouched, Modifying
  <2>7. open \in BOOLEAN BY DEF IInv, Types
  <2> QED BY <2>1, <2>2, <2>3, <2>4, <2>5, <2>6, <2>7, TableStays
<1>2. CASE Next
  <2>1. setup' = setup BY <1>2 DEF Next
  <2>2. ASSUME NEW c \in setup.clients,
               \/ Insert(c) \/ InsertFails(c) \/ Seek(c)
               \/ FilterDefine(c) \/ FilterPop(c) \/ FilterDelete(c)
               \/ ReadBegin(c) \/ ModifyBegin(c)
        PROVE  IInv'
    BY <2>1, <2>2, InsertIInv, InsertFailsIInv, SetOcbIInv, BeginIInv
  <2>3. CASE ReadStep BY <2>1, <2>3, ReadStepIInv
  <2>4. CASE ReadEnd \/ ModifyEnd BY <2>1, <2>4, EndIInv
  <2>5. CASE ModifyStep BY <2>1, <2>5, ModifyStepIInv
  <2>6. CASE FlushBegin \/ ReleaseBegin BY <2>1, <2>6, SyncHeadIInv
  <2>7. CASE FlushEnd \/ ReleaseEnd BY <2>1, <2>7, FlushIInv
  <2>8. CASE Select BY <2>1, <2>8, SelectIInv
  <2>9. CASE Crash BY <2>1, <2>9, CrashIInv
  <2> QED BY <1>2, <2>2, <2>3, <2>4, <2>5, <2>6, <2>7, <2>8, <2>9 DEF Next, Step
<1> QED BY <1>1, <1>2

(* The invariant holds in every state of the table server.                  *)
LEMMA TableInvariant == Spec => []IInv
<1>1. Init => IInv BY InitIInv
<1>2. IInv /\ [Next]_vars => IInv' BY NextIInv
<1> QED BY <1>1, <1>2, PTL DEF Spec

----------------------------------------------------------------------------
(* The list of pages is sorted, counted and never longer than allowed, and  *)
(* only its last page is partly filled, however pages come and go.          *)
THEOREM TablePagesWellFormed == Spec => []PagesWellFormed
<1>1. ASSUME IInv PROVE PagesWellFormed
  <2>1. setup \in Setups /\ MaxRows \in Nat /\ Slots \subseteq Nat /\ LockPages \in Nat
    BY <1>1, Sizes, TableAssumption DEF IInv, Types
  <2>2. PLocks \in 0 .. LockPages /\ Pages \in Seq(PageRec)
    <3>1. CASE open
      <4>1. PLocks \in Nat /\ PLocks <= LockPages /\ ListOK(Pages) BY <1>1, <3>1, Opened
      <4> QED BY <2>1, <4>1 DEF ListOK
    <3>2. CASE ~open
      <4>1. Pages = <<>> /\ PLocks = 0 BY <1>1, <3>2 DEF IInv, InMemory
      <4> QED BY <2>1, <4>1
    <3> QED BY <3>1, <3>2
  <2>3. \A c \in Clients : ocb[c].Record \in 0 .. MaxRows BY <1>1 DEF IInv, Types
  <2>4. TypeOK BY <1>1, <2>2, <2>3 DEF TypeOK, IInv, Types, PageRec
  <2>5. ASSUME open
        PROVE  /\ Len(Pages) = PLocks /\ PLocks \in 1 .. LockPages
               /\ \A i \in 1 .. (Len(Pages) - 1) :
                     Pages[i].Index < Pages[i + 1].Index /\ Pages[i].LastRow = PageRows
               /\ LastPage.LastRow <= PageRows
    <3>1. /\ ListOK(Pages) /\ Len(Pages) = PLocks /\ PLocks \in 1 .. Len(Pages) /\ PLocks <= LockPages
          /\ PLocks \in Nat /\ LastPage.LastRow <= PageRows
      BY <1>1, <2>5, Opened
    <3>2. PLocks \in 1 .. LockPages BY <2>1, <3>1
    <3>3. ASSUME NEW i \in 1 .. (Len(Pages) - 1)
          PROVE  Pages[i].Index < Pages[i + 1].Index /\ Pages[i].LastRow = PageRows
      <4>1. i \in 1 .. Len(Pages) /\ i + 1 \in 1 .. Len(Pages) /\ i < i + 1 BY <3>1
      <4> QED BY <3>1, <4>1 DEF ListOK
    <3> QED BY <3>1, <3>2, <3>3
  <2> QED BY <2>4, <2>5 DEF PagesWellFormed
<1> QED BY <1>1, TableInvariant, PTL

(* Qbase_PageSync may skip a page whose NeedSync is 0: the file has it.     *)
THEOREM TableCleanPageIsOnDisk == Spec => []CleanPageIsOnDisk
<1>1. ASSUME IInv PROVE CleanPageIsOnDisk
  <2>1. DOMAIN Pages = 1 .. Len(Pages)
    <3>1. CASE open BY <1>1, <3>1, Opened DEF ListOK
    <3>2. CASE ~open BY <1>1, <3>2 DEF IInv, InMemory
    <3> QED BY <3>1, <3>2
  <2> QED BY <1>1, <2>1 DEF CleanPageIsOnDisk, OnDisk, IInv
<1> QED BY <1>1, TableInvariant, PTL

(* As long as no page was replaced that had to be written and no insert     *)
(* failed, the table is what the clients made of it.                        *)
THEOREM TableNothingElseIsLost == Spec => []NothingElseIsLost
<1>1. ASSUME IInv PROVE NothingElseIsLost
  <2> SUFFICES ASSUME open, fails = 0, ~dropped PROVE TableIsWhole BY DEF NothingElseIsLost
  <2>1. /\ Len(rows) = Index
        /\ \A i \in 1 .. Index : At(Pages, DFile, Page(i - 1), Slot(i - 1)) = rows[i]
    BY <1>1 DEF IInv, Whole, Size
  <2>2. \A i : Content(i) = At(Pages, DFile, Page(i - 1), Slot(i - 1)) BY DEF Content, At, FileRow
  <2> QED BY <2>1, <2>2 DEF TableIsWhole
<1> QED BY <1>1, TableInvariant, PTL

(* A crash, even in the middle of a flush, loses nothing that was flushed   *)
(* before.                                                                  *)
THEOREM TableFlushedSurvives == Spec => FlushedSurvives
<1> DEFINE Survivors ==
             (Crash /\ fails = 0 /\ ~dropped /\ updates <= 1) => \A i \in DOMAIN flushed :
                i <= HFile /\ FileRow(i) \in {flushed[i], rows[i]}
<1>1. ASSUME IInv, [Next]_vars PROVE [Survivors]_vars
  <2> SUFFICES ASSUME fails = 0, ~dropped, updates <= 1, NEW i \in DOMAIN flushed
               PROVE  i <= HFile /\ FileRow(i) \in {flushed[i], rows[i]}
    OBVIOUS
  <2>1. flushed \in Seq(Row) /\ Len(flushed) \in Nat /\ HFile \in Int BY <1>1 DEF IInv, Types
  <2>2. i \in 1 .. Len(flushed) BY <2>1
  <2> QED BY <1>1, <2>1, <2>2 DEF IInv, Survives
<1>2. []IInv /\ [][Next]_vars => [][Survivors]_vars
  <2> HIDE DEF Survivors
  <2> QED BY <1>1, PTL
<1> QED BY <1>2, TableInvariant, PTL DEF Spec, FlushedSurvives

(* After an insert the cursor is at the record just posted.                 *)
THEOREM TablePostedIsNext == Spec => PostedIsNext
<1> DEFINE Posted ==
             \A c \in Clients : (fails = 0 /\ Insert(c)) =>
                LET n == ocb'[c].Record
                IN /\ Page(n) = LastPage'.Index
                   /\ LastPage'.Data[Slot(n)].key = Index'
<1>1. ASSUME IInv, [Next]_vars PROVE [Posted]_vars
  <2> SUFFICES ASSUME ~(UNCHANGED vars), NEW c \in Clients, fails = 0, Insert(c)
               PROVE  /\ Page(ocb'[c].Record) = LastPage'.Index
                      /\ LastPage'.Data[Slot(ocb'[c].Record)].key = Index'
    OBVIOUS
  <2>0. setup' = setup BY <1>1 DEF Next
  <2>1. /\ Idle /\ open /\ Index < MaxRows /\ InsertFiles /\ Index' = Index + 1
        /\ ocb' = [ocb EXCEPT ![c].Record = Index] /\ Index \in Nat /\ OcbType /\ setup \in Setups
    <3>1. PostedRecord(Index + 1) = Index BY <1>1 DEF PostedRecord, IInv, Types
    <3>2. /\ Idle /\ Index < MaxRows /\ InsertFiles /\ Index' = Index + 1
          /\ ocb' = [ocb EXCEPT ![c].Record = PostedRecord(Index + 1)]
      BY DEF Insert
    <3>3. Index \in Nat /\ OcbType /\ setup \in Setups BY <1>1, Sizes DEF IInv, Types, OcbType
    <3> QED BY <3>1, <3>2, <3>3 DEF Idle
  <2>2. ocb'[c].Record = Index BY <2>1 DEF OcbType
  <2>3. /\ TurnedPage.Index \in Nat /\ TurnedPage.LastRow \in Slots
        /\ (TurnedPage.Index * PageRows) + TurnedPage.LastRow = Index
    BY <1>1, <2>0, <2>1, Opened, Turned, Inserted
  <2>4. /\ Page(Index) \in Nat /\ Slot(Index) \in Slots /\ Index = (Page(Index) * PageRows) + Slot(Index)
        /\ \A a, b \in Nat, s, r \in Slots : (a * PageRows) + s = (b * PageRows) + r => a = b /\ s = r
    BY <2>1, Positions
  <2>5. Page(Index) = TurnedPage.Index /\ Slot(Index) = TurnedPage.LastRow BY <2>3, <2>4
  <2>6. /\ LastPage'.Index = TurnedPage.Index
        /\ LastPage'.Data[TurnedPage.LastRow] = [key |-> Index + 1, num |-> 0]
    BY <1>1, <2>0, Inserted DEF LastPage
  <2> QED BY <2>1, <2>2, <2>5, <2>6
<1>2. []IInv /\ [][Next]_vars => [][Posted]_vars
  <2> HIDE DEF Posted
  <2> QED BY <1>1, PTL
<1> QED BY <1>2, TableInvariant, PTL DEF Spec, PostedIsNext

(* A row passes the filters, fails one, or fails one that ends the          *)
(* search.                                                                  *)
LEMMA AcceptsIs == ASSUME NEW fs, NEW row PROVE Accepts(fs, row) \in {-1, 0, 1}
<1> DEFINE broken == {i \in DOMAIN fs : ~Meets(fs[i], row.num)}
           x == fs[Least(broken)].strict
<1>1. Accepts(fs, row) = CASE row.key = 0 -> 0
                           [] row.key # 0 /\ broken = {} -> 1
                           [] row.key # 0 /\ broken # {} -> IF x THEN -1 ELSE 0
  BY DEF Accepts
<1> HIDE DEF broken, x
<1>2. CASE row.key = 0 BY <1>1, <1>2
<1>3. CASE row.key # 0 /\ broken = {} BY <1>1, <1>3
<1>4. CASE row.key # 0 /\ broken # {} BY <1>1, <1>4
<1> QED BY <1>2, <1>3, <1>4

(* The page where a read ends holds the first row from the cursor on that   *)
(* is not passed over.                                                      *)
LEMMA ReadStepIsRight ==
    ASSUME IInv, setup' = setup, ReadStep, req' = NoReq, fails = 0, ~dropped'
    PROVE  answer' = FirstMatch
<1> DEFINE n == req.PIndex
           r == req.RIndex
           P == PageRows
           o == ocb[req.c]
<1>1. /\ Reading /\ open /\ setup \in Setups /\ n \in Nat /\ r \in Slots /\ r \in Nat
      /\ Reachable(n) /\ P \in Nat /\ Index \in Nat /\ Slots \subseteq Nat
      /\ \A t \in Nat : t \in Slots <=> t < P
  <2>1. Reading /\ Reachable(n) BY DEF ReadStep
  <2>2. open /\ setup \in Setups /\ n \in Nat /\ r \in Slots /\ r \in Nat BY <2>1, Walking
  <2>3. MaxRows \in Nat /\ Index \in 0 .. MaxRows BY <2>2, Sizes DEF IInv, Types
  <2>4. Index \in Nat BY <2>3
  <2> QED BY <2>1, <2>2, <2>4, Sizes
<1>2. PICK l : l = LockTablePage(n) OBVIOUS
<1> DEFINE p == l.pages[l.at]
           met == {s \in Slots : r <= s /\ s < p.LastRow /\ Accepts(o.Filters, p.Data[s]) # 0}
           first == Least(met)
           verdict == Accepts(o.Filters, p.Data[first])
<1>3. dropped' = (dropped \/ l.drops) BY <1>2 DEF ReadStep, TakePage
<1>4. met # {}
  <2>1. met = {} => req' = NextPage BY <1>2 DEF ReadStep
  <2>2. req \in WalkRec({"read", "delete"}, {"none"}) \/ req \in WalkRec({"update", "updcur"}, setup.rules)
    BY <1>1, Walking
  <2>3. NextPage.op = "read" BY <1>1, <2>2 DEF NextPage, WalkRec, Reading
  <2>4. NextPage # NoReq BY <2>3 DEF NoReq
  <2> HIDE DEF met
  <2> QED BY <2>1, <2>4
<1>5. answer' = IF verdict = 1 THEN p.Data[first] ELSE "lastrow" BY <1>2, <1>4 DEF ReadStep
<1>6. /\ LockedOK(l, n) /\ p.Index = n /\ p.LastRow \in Nat /\ p.LastRow <= P
      /\ (n * P) + p.LastRow <= Index /\ n * P \in Nat
      /\ RowsAre(l.pages, l.file, rows, Index)
  BY <1>1, <1>2, <1>3, Taken
<1>7. ListOK(l.pages) /\ l.at \in 1 .. Len(l.pages) BY <1>6 DEF LockedOK
<1>8. o.Record = (n * P) + r BY <1>1 DEF IInv, CursorFollows
<1>9. met \subseteq Nat /\ met \subseteq Slots BY <1>1
<1>10. /\ \A s \in met : r <= s /\ s < p.LastRow /\ Accepts(o.Filters, p.Data[s]) # 0
       /\ \A s \in Slots : r <= s /\ s < p.LastRow /\ Accepts(o.Filters, p.Data[s]) # 0 => s \in met
  OBVIOUS
<1> HIDE DEF met
<1>11. first \in met /\ \A s \in met : first <= s BY <1>4, <1>9, LeastIs
<1> HIDE DEF first, p
<1> DEFINE a == n * P
<1>12. \A t \in Slots : t < p.LastRow => rows[(a + t) + 1] = p.Data[t]
  <2> SUFFICES ASSUME NEW t \in Slots, t < p.LastRow PROVE rows[(a + t) + 1] = p.Data[t] OBVIOUS
  <2> DEFINE i == (a + t) + 1
  <2>1. i \in 1 .. Index /\ i - 1 \in Nat /\ i - 1 = a + t
    <3>1. a \in Nat /\ a + p.LastRow <= Index /\ p.LastRow \in Nat /\ t \in Nat BY <1>1, <1>6
    <3> HIDE DEF a
    <3> QED BY <1>1, <3>1
  <2> HIDE DEF i
  <2>2. Page(i - 1) \in Nat /\ Slot(i - 1) \in Slots /\ i - 1 = (Page(i - 1) * P) + Slot(i - 1)
    BY <1>1, <2>1, Positions
  <2>3. n \in Nat /\ (Page(i - 1) * P) + Slot(i - 1) = (n * P) + t BY <1>1, <2>1, <2>2
  <2>4. setup \in Setups BY <1>1
  <2>5. Page(i - 1) = n /\ Slot(i - 1) = t
    <3> DEFINE x == Page(i - 1)
               u == Slot(i - 1)
    <3>1. x \in Nat /\ u \in Slots /\ n \in Nat /\ (x * P) + u = (n * P) + t BY <2>2, <2>3
    <3> HIDE DEF x, u, n
    <3>2. x = n /\ u = t BY <2>4, <3>1, SamePlace
    <3> QED BY <3>2 DEF x, u
  <2>6. At(l.pages, l.file, n, t) = p.Data[t]
    <3>1. setup \in Setups /\ l.pages[l.at].Index = n BY <1>1, <1>6 DEF p
    <3> QED BY <1>7, <3>1, AtIs DEF p
  <2>7. At(l.pages, l.file, Page(i - 1), Slot(i - 1)) = rows[i] BY <1>6, <2>1 DEF RowsAre
  <2> QED BY <2>5, <2>6, <2>7 DEF i
<1>13. Len(rows) = Index BY <1>6 DEF RowsAre
<1>14. a \in Nat /\ a + p.LastRow <= Index /\ p.LastRow \in Nat /\ o.Record = a + r BY <1>6, <1>8
<1> HIDE DEF a, n, r, o, verdict
<1> DEFINE hits == {i \in (o.Record + 1) .. Len(rows) : Accepts(o.Filters, rows[i]) # 0}
           i0 == (a + first) + 1
<1>15. first \in Nat /\ first \in Slots /\ r <= first /\ first < p.LastRow BY <1>9, <1>10, <1>11
<1>16. rows[i0] = p.Data[first] BY <1>12, <1>15
<1>17. i0 \in hits
  <2>1. i0 \in (o.Record + 1) .. Len(rows) BY <1>1, <1>13, <1>14, <1>15
  <2> HIDE DEF i0
  <2>2. Accepts(o.Filters, rows[i0]) # 0 BY <1>10, <1>11, <1>16
  <2> QED BY <2>1, <2>2
<1>18. ASSUME NEW i \in hits PROVE i0 <= i
  <2> SUFFICES ASSUME i < i0 PROVE FALSE BY <1>1, <1>13, <1>14, <1>15
  <2>1. PICK t \in Nat : i = (a + t) + 1 /\ r <= t /\ t < first
    <3>1. i \in Nat /\ i >= (a + r) + 1 /\ i < (a + first) + 1 BY <1>1, <1>13, <1>14
    <3>2. (i - 1) - a \in Nat /\ i = (a + ((i - 1) - a)) + 1 /\ r <= (i - 1) - a /\ (i - 1) - a < first
      BY <1>1, <1>14, <1>15, <3>1
    <3> QED BY <3>2
  <2>2. t \in Slots /\ t < p.LastRow BY <1>1, <1>6, <1>14, <1>15, <2>1
  <2>3. rows[i] = p.Data[t] BY <1>12, <2>1, <2>2
  <2>4. Accepts(o.Filters, rows[i]) # 0 OBVIOUS
  <2>5. t \in met BY <1>10, <2>1, <2>2, <2>3, <2>4
  <2> QED BY <1>11, <1>15, <2>1, <2>5
<1>19. Least(hits) = i0
  <2>1. hits \subseteq Nat /\ hits # {} BY <1>1, <1>13, <1>14, <1>17
  <2>2. i0 \in hits /\ \A i \in hits : i0 <= i BY <1>17, <1>18
  <2> HIDE DEF hits, i0
  <2>3. Least(hits) \in hits /\ \A i \in hits : Least(hits) <= i BY <2>1, LeastIs
  <2>4. Least(hits) \in Nat /\ i0 \in Nat /\ Least(hits) <= i0 /\ i0 <= Least(hits) BY <2>1, <2>2, <2>3
  <2> QED BY <2>4
<1>20. FirstMatch = IF hits = {} \/ Accepts(o.Filters, rows[Least(hits)]) = -1 THEN "lastrow"
                    ELSE rows[Least(hits)]
  BY DEF FirstMatch, o
<1>21. hits # {} BY <1>17
<1> HIDE DEF hits, i0
<1>22. FirstMatch = IF verdict = -1 THEN "lastrow" ELSE p.Data[first] BY <1>16, <1>19, <1>20, <1>21 DEF verdict
<1>23. verdict # 0 BY <1>10, <1>11 DEF verdict
<1>24. verdict \in {-1, 0, 1} BY AcceptsIs DEF verdict
<1> QED BY <1>5, <1>22, <1>23, <1>24 DEF p, verdict, first

(* Qbase_read answers with the first row its filters decide, or with the    *)
(* end of the table.                                                        *)
LEMMA ReadEndIsRight ==
    ASSUME IInv, ReadEnd, fails = 0, ~dropped
    PROVE  answer' = FirstMatch
<1> DEFINE o == ocb[req.c]
           P == PageRows
           hits == {i \in (o.Record + 1) .. Len(rows) : Accepts(o.Filters, rows[i]) # 0}
<1>1. /\ Reading /\ open /\ setup \in Setups /\ req.c \in Clients /\ req.PIndex \in Nat
      /\ req.RIndex \in Nat /\ P \in Nat /\ Index \in Nat /\ o.Record \in Nat
  BY Walking, Sizes DEF ReadEnd, IInv, Types
<1>2. Len(rows) = Index BY <1>1 DEF IInv, Whole, Size
<1>3. o.Record >= Index
  <2> SUFFICES ASSUME o.Record < Index PROVE FALSE BY <1>1
  <2>1. ~Reachable(req.PIndex) BY <1>1 DEF ReadEnd
  <2>2. o.Record = (req.PIndex * P) + req.RIndex BY <1>1 DEF IInv, CursorFollows
  <2>3. /\ LastPage.Index \in Nat /\ LastPage.LastRow \in Nat /\ LastPage.LastRow <= P
        /\ (LastPage.Index * P) + LastPage.LastRow = Index
        /\ LastPage.Index < req.PIndex
    BY <1>1, <2>1, Opened
  <2>4. (LastPage.Index * P) + P <= req.PIndex * P BY <1>1, <2>3, Positions
  <2> DEFINE a == LastPage.Index * P
             b == req.PIndex * P
  <2>5. /\ a \in Nat /\ b \in Nat /\ a + P <= b /\ a + LastPage.LastRow = Index
        /\ o.Record = b + req.RIndex
    BY <1>1, <2>2, <2>3, <2>4, Positions
  <2> HIDE DEF a, b
  <2> QED BY <1>1, <2>3, <2>5
<1>4. hits = {} BY <1>1, <1>2, <1>3
<1>5. FirstMatch = IF hits = {} \/ Accepts(o.Filters, rows[Least(hits)]) = -1 THEN "lastrow"
                   ELSE rows[Least(hits)]
  BY DEF FirstMatch
<1>6. FirstMatch = "lastrow" BY <1>4, <1>5
<1>7. answer' = "lastrow" BY <1>1, <1>3 DEF ReadEnd
<1> QED BY <1>6, <1>7

(* A read returns the first row from the cursor on that passes the filters. *)
THEOREM TableReadIsRight == Spec => ReadIsRight
<1> DEFINE Right ==
             (Reading /\ req' = NoReq /\ ~Crash /\ fails = 0 /\ ~dropped') => answer' = FirstMatch
<1>1. ASSUME IInv, [Next]_vars PROVE [Right]_vars
  <2> SUFFICES ASSUME ~(UNCHANGED vars), Reading, req' = NoReq, ~Crash, fails = 0, ~dropped'
               PROVE  answer' = FirstMatch
    OBVIOUS
  <2>1. Next /\ setup' = setup BY <1>1 DEF Next
  <2>2. req # NoReq /\ ~Modifying /\ req.op \notin {"flush", "release"}
    BY DEF Reading, Modifying, NoReq
  <2>3. ~Idle /\ open BY <1>1, <2>2 DEF Idle, IInv, InMemory, Types
  <2>4. \A c : /\ ~Insert(c) /\ ~InsertFails(c) /\ ~Seek(c)
               /\ ~FilterDefine(c) /\ ~FilterPop(c) /\ ~FilterDelete(c)
               /\ ~ReadBegin(c) /\ ~ModifyBegin(c)
    BY <2>3 DEF Insert, InsertFails, Seek, FilterDefine, FilterPop, FilterDelete, SetOcb,
                ReadBegin, ModifyBegin, Begin, BeginWith
  <2>5. /\ ~ModifyStep /\ ~ModifyEnd /\ ~FlushBegin /\ ~FlushEnd /\ ~ReleaseBegin /\ ~ReleaseEnd
        /\ ~Select
    BY <2>2, <2>3 DEF ModifyStep, ModifyEnd, FlushBegin, FlushEnd, ReleaseBegin, ReleaseEnd, SyncHead, Select
  <2>6. ReadStep \/ ReadEnd BY <2>1, <2>4, <2>5 DEF Next, Step
  <2>7. CASE ReadStep BY <1>1, <2>1, <2>7, ReadStepIsRight
  <2>8. CASE ReadEnd
    <3>1. ~dropped BY <2>8 DEF ReadEnd, histVars
    <3> QED BY <1>1, <2>8, <3>1, ReadEndIsRight
  <2> QED BY <2>6, <2>7, <2>8
<1>2. []IInv /\ [][Next]_vars => [][Right]_vars
  <2> HIDE DEF Right
  <2> QED BY <1>1, PTL
<1> QED BY <1>2, TableInvariant, PTL DEF Spec, ReadIsRight

----------------------------------------------------------------------------
(* The catalogue: the tables in memory, their list and the files.           *)
TableRec == [Name : Names \cup {NULL}, locks : Nat, Next : Copies \cup {NULL}, Prev : Copies \cup {NULL},
             Index : Nat, rows : SUBSET Nat, DFile : BOOLEAN]
FileRec == [head : {"absent", "empty", "full"}, Index : Nat, rows : SUBSET Nat, body : BOOLEAN]
ConnRec == [Table : Copies \cup {NULL}, Filters : Names \cup {NULL}]
DbRec == [Tables : Copies \cup {NULL}, tbl : [Copies -> TableRec], disk : [Names -> FileRec]]

InUse(d) == {k \in Copies : d.tbl[k].Name # NULL}

(* A block is in use as long as it counts a connection; the table in it has *)
(* a header file, and its data file open if there is one.  Without a data   *)
(* file nothing was ever written.                                           *)
Sane(d) ==
    /\ d \in DbRec
    /\ \A k \in Copies : d.tbl[k].Name # NULL <=> d.tbl[k].locks > 0
    /\ \A k \in InUse(d) : /\ d.disk[d.tbl[k].Name].head = "full"
                           /\ d.tbl[k].DFile = d.disk[d.tbl[k].Name].body
    /\ \A n \in Names : /\ d.disk[n].body => d.disk[n].head = "full"
                        /\ ~d.disk[n].body => d.disk[n].rows = {}

(* f lists the m members of X, each once.                                   *)
Lists(f, m, X) ==
    /\ f \in [1 .. m -> Copies]
    /\ \A i, j \in 1 .. m : f[i] = f[j] => i = j
    /\ X = {f[i] : i \in 1 .. m}

(* f is the doubly linked list of the m tables in memory.                   *)
Chain(d, m, f) ==
    /\ Lists(f, m, InUse(d))
    /\ d.Tables = IF m = 0 THEN NULL ELSE f[1]
    /\ \A i \in 1 .. m : /\ d.tbl[f[i]].Next = IF i = m THEN NULL ELSE f[i + 1]
                         /\ d.tbl[f[i]].Prev = IF i = 1 THEN NULL ELSE f[i - 1]

Chained(d) == \E m \in Nat : \E f \in [1 .. m -> Copies] : Chain(d, m, f)

(* Each table is loaded once, and holds what was acknowledged; those not in *)
(* memory have it in their data files.                                      *)
Single(d) == \A k, l \in InUse(d) : d.tbl[k].Name = d.tbl[l].Name => k = l

Holds(d, a) ==
    /\ \A k \in InUse(d) : d.disk[d.tbl[k].Name].body => a[d.tbl[k].Name] = d.tbl[k].rows
    /\ \A n \in Names : (d.disk[n].body /\ \A k \in InUse(d) : d.tbl[k].Name # n) => a[n] = d.disk[n].rows

InOrder(d, a) == Chained(d) /\ Single(d) /\ Holds(d, a)

Users(k) == {c \in Connections : conn[c].Table = k}

(* A creation that is not finished has written the header file at most.     *)
Started ==
    \/ busy = NoCreation
    \/ /\ busy \in [step : {"head", "body"}, c : Connections, name : Names]
       /\ db.disk[busy.name].head = (IF busy.step = "head" THEN "empty" ELSE "full")
       /\ ~db.disk[busy.name].body /\ acked[busy.name] = {}
       /\ \A k \in InUse(db) : db.tbl[k].Name # busy.name

CatalogInv ==
    /\ bounds \in CatalogSetups /\ Sane(db)
    /\ conn \in [Connections -> ConnRec]
    /\ acked \in [Names -> SUBSET Nat] /\ torn \in BOOLEAN
    /\ \A k \in Copies : db.tbl[k].locks = Cardinality(Users(k))
    /\ \A c \in Connections : conn[c].Filters # NULL =>
         conn[c].Table # NULL /\ db.tbl[conn[c].Table].Name = conn[c].Filters
    /\ Started
    /\ \A n \in Names : db.disk[n].head = "absent" => acked[n] = {}
    /\ ~torn => InOrder(db, acked)

(* What the tables are when the connection to k leaves it: the others keep  *)
(* everything but their places in the list.                                 *)
SameTable(s, t) == s.Name = t.Name /\ s.locks = t.locks /\ s.Index = t.Index /\ s.rows = t.rows /\ s.DFile = t.DFile

(* Another connection has the table: only the counter changes.              *)
LEMMA LeaveCounts ==
    ASSUME NEW d, Sane(d), NEW k \in InUse(d), d.tbl[k].locks > 1
    PROVE  Leave(d, k) = [d EXCEPT !.tbl = [d.tbl EXCEPT ![k] = [d.tbl[k] EXCEPT !.locks = d.tbl[k].locks - 1]]]
<1> DEFINE e == [d EXCEPT !.tbl[k].locks = @ - 1]
<1>1. k \in Copies /\ d \in DbRec /\ d.tbl[k] \in TableRec BY DEF Sane, InUse, DbRec
<1>2. e = [d EXCEPT !.tbl = [d.tbl EXCEPT ![k] = [d.tbl[k] EXCEPT !.locks = d.tbl[k].locks - 1]]] OBVIOUS
<1>3. e.tbl[k].locks = d.tbl[k].locks - 1 BY <1>1, <1>2 DEF DbRec, TableRec
<1>4. e.tbl[k].locks > 0 BY <1>1, <1>3 DEF TableRec
<1>5. k # NULL BY <1>1, CatalogAssumption
<1> QED BY <1>2, <1>4, <1>5 DEF Leave

(* It was the last one: the table is released.                              *)
LEMMA LeaveReleases ==
    ASSUME NEW d, Sane(d), NEW k \in InUse(d), ~(d.tbl[k].locks > 1)
    PROVE  LET t == d.tbl[k] IN
           /\ t.locks = 1
           /\ Leave(d, k) \in [Tables : {IF t.Prev = NULL THEN t.Next ELSE d.Tables},
                               tbl : {Leave(d, k).tbl}, disk : {Written(d.disk, t)}]
           /\ Leave(d, k).tbl =
                [i \in Copies |-> IF i = k THEN Free
                                  ELSE IF i = t.Prev THEN [d.tbl[i] EXCEPT !.Next = t.Next]
                                  ELSE IF i = t.Next THEN [d.tbl[i] EXCEPT !.Prev = t.Prev]
                                  ELSE d.tbl[i]]
<1> DEFINE e == [d EXCEPT !.tbl[k].locks = @ - 1]
           t == d.tbl[k]
<1>1. k \in Copies /\ d \in DbRec /\ t \in TableRec BY DEF Sane, InUse, DbRec
<1>2. e = [d EXCEPT !.tbl = [d.tbl EXCEPT ![k] = [t EXCEPT !.locks = t.locks - 1]]] OBVIOUS
<1>3. t.locks = 1 BY <1>1 DEF Sane, InUse, TableRec
<1>4. PICK s : s = [t EXCEPT !.locks = 0] OBVIOUS
<1>5. /\ e = [d EXCEPT !.tbl = [d.tbl EXCEPT ![k] = s]]
      /\ s.Name = t.Name /\ s.Next = t.Next /\ s.Prev = t.Prev /\ s.Index = t.Index /\ s.rows = t.rows
      /\ s.DFile = t.DFile /\ s.locks = 0
  BY <1>1, <1>2, <1>3, <1>4 DEF TableRec
<1>6. /\ e.tbl = [d.tbl EXCEPT ![k] = s] /\ e.Tables = d.Tables /\ e.disk = d.disk /\ e.tbl[k] = s
      /\ \A i \in Copies : i # k => e.tbl[i] = d.tbl[i]
  BY <1>1, <1>5 DEF DbRec
<1>7. k # NULL BY <1>1, CatalogAssumption
<1>8. Leave(d, k) = Release(e, k)
  <2> HIDE DEF e
  <2>1. e.tbl[k].locks = 0 BY <1>5, <1>6
  <2> QED BY <1>7, <2>1 DEF Leave, e
<1> HIDE DEF e
<1>9. Written(e.disk, s) = Written(d.disk, t) BY <1>5, <1>6 DEF Written
<1>10. PICK around : around = [i \in Copies |->
                       IF i = t.Prev THEN [e.tbl[i] EXCEPT !.Next = t.Next]
                       ELSE IF i = t.Next THEN [e.tbl[i] EXCEPT !.Prev = t.Prev]
                       ELSE e.tbl[i]]
  OBVIOUS
<1>11. Release(e, k) = [Tables |-> IF t.Prev = NULL THEN t.Next ELSE d.Tables,
                        tbl |-> [around EXCEPT ![k] = Free], disk |-> Written(d.disk, t)]
  BY <1>5, <1>6, <1>9, <1>10 DEF Release
<1>12. [around EXCEPT ![k] = Free] =
         [i \in Copies |-> IF i = k THEN Free
                           ELSE IF i = t.Prev THEN [d.tbl[i] EXCEPT !.Next = t.Next]
                           ELSE IF i = t.Next THEN [d.tbl[i] EXCEPT !.Prev = t.Prev]
                           ELSE d.tbl[i]]
  BY <1>1, <1>6, <1>10
<1> QED BY <1>3, <1>8, <1>11, <1>12

(* What a table writes to its files: rows only if it has a data file.       *)
SyncedFile(d, t, w, n) ==
    /\ w[n].head = d.disk[n].head /\ w[n].body = d.disk[n].body
    /\ n # t.Name => w[n] = d.disk[n]
    /\ n = t.Name => w[n].rows = IF d.disk[n].body THEN t.rows ELSE d.disk[n].rows

LEMMA WrittenIs ==
    ASSUME NEW d, Sane(d), NEW k \in InUse(d)
    PROVE  LET w == Written(d.disk, d.tbl[k])
           IN w \in [Names -> FileRec] /\ \A n \in Names : SyncedFile(d, d.tbl[k], w, n)
<1> PICK t : t = d.tbl[k] OBVIOUS
<1> PICK w : w = Written(d.disk, t) OBVIOUS
<1>1. k \in Copies /\ d.disk \in [Names -> FileRec] /\ t \in TableRec BY DEF Sane, InUse, DbRec
<1>2. t.Name \in Names /\ t.DFile = d.disk[t.Name].body BY <1>1 DEF Sane, InUse, TableRec
<1>3. PICK h \in FileRec : h = d.disk[t.Name] BY <1>1, <1>2
<1>4. PICK r : r = IF h.body THEN t.rows ELSE h.rows OBVIOUS
<1>5. r \in SUBSET Nat BY <1>1, <1>3, <1>4 DEF TableRec, FileRec
<1>6. PICK v : v = [h EXCEPT !.Index = t.Index, !.rows = r] OBVIOUS
<1>7. v \in FileRec /\ v.head = h.head /\ v.body = h.body /\ v.rows = r
  <2>1. t.Index \in Nat BY <1>1 DEF TableRec
  <2> QED BY <1>3, <1>5, <1>6, <2>1 DEF FileRec
<1>8. w = [d.disk EXCEPT ![t.Name] = v] BY <1>1, <1>2, <1>3, <1>4, <1>6 DEF Written, FileRec
<1>9. w \in [Names -> FileRec] BY <1>1, <1>7, <1>8
<1>10. \A n \in Names : SyncedFile(d, t, w, n) BY <1>1, <1>2, <1>3, <1>4, <1>7, <1>8 DEF SyncedFile
<1> QED BY <1>9, <1>10

(* Either way the tables stay as they should be, and nobody else's table    *)
(* changes.                                                                 *)
LEMMA LeaveSane ==
    ASSUME NEW d, Sane(d), NEW k \in InUse(d)
    PROVE  LET e == Leave(d, k) IN
           /\ Sane(e)
           /\ \A i \in Copies : e.tbl[i].locks = IF i = k THEN d.tbl[k].locks - 1 ELSE d.tbl[i].locks
           /\ \A i \in InUse(e) : i \in InUse(d) /\ e.tbl[i].Name = d.tbl[i].Name
           /\ \A i \in InUse(d) : i # k => i \in InUse(e)
           /\ \A n \in Names : e.disk[n].head = d.disk[n].head /\ e.disk[n].body = d.disk[n].body
<1> PICK e : e = Leave(d, k) OBVIOUS
<1> USE CatalogAssumption
<1>1. k \in Copies /\ d \in DbRec /\ d.tbl[k] \in TableRec BY DEF Sane, InUse, DbRec
<1>2. CASE d.tbl[k].locks > 1
  <2>1. PICK s : s = [d.tbl[k] EXCEPT !.locks = d.tbl[k].locks - 1] OBVIOUS
  <2>2. s \in TableRec /\ s.locks > 0 /\ s.locks = d.tbl[k].locks - 1 /\ s.Name = d.tbl[k].Name /\ s.DFile = d.tbl[k].DFile
    BY <1>1, <1>2, <2>1 DEF TableRec
  <2>3. e = [d EXCEPT !.tbl = [d.tbl EXCEPT ![k] = s]] BY <1>2, <2>1, LeaveCounts
  <2>4. e \in DbRec /\ e.disk = d.disk /\ e.tbl[k] = s /\ \A i \in Copies : i # k => e.tbl[i] = d.tbl[i]
    BY <1>1, <2>2, <2>3 DEF DbRec
  <2>5. InUse(e) = InUse(d) BY <1>1, <2>2, <2>4 DEF InUse
  <2>6. Sane(e) BY <1>1, <2>2, <2>4, <2>5 DEF Sane, InUse
  <2>7. \A i \in Copies : e.tbl[i].locks = IF i = k THEN d.tbl[k].locks - 1 ELSE d.tbl[i].locks
    BY <2>2, <2>4
  <2>8. \A i \in InUse(e) : i \in InUse(d) /\ e.tbl[i].Name = d.tbl[i].Name
    BY <2>2, <2>4, <2>5 DEF InUse
  <2>9. Leave(d, k) = e OBVIOUS
  <2> QED BY <2>4, <2>5, <2>6, <2>7, <2>8, <2>9
<1>3. CASE ~(d.tbl[k].locks > 1)
  <2>1. PICK t : t = d.tbl[k] OBVIOUS
  <2>2. t \in TableRec /\ t.Name \in Names /\ t.locks = 1 /\ t.DFile = d.disk[t.Name].body
    BY <1>1, <1>3, <2>1, LeaveReleases DEF InUse, TableRec, Sane
  <2>3. /\ e \in [Tables : {IF t.Prev = NULL THEN t.Next ELSE d.Tables}, tbl : {e.tbl}, disk : {Written(d.disk, t)}]
        /\ e.tbl = [i \in Copies |-> IF i = k THEN Free
                                     ELSE IF i = t.Prev THEN [d.tbl[i] EXCEPT !.Next = t.Next]
                                     ELSE IF i = t.Next THEN [d.tbl[i] EXCEPT !.Prev = t.Prev]
                                     ELSE d.tbl[i]]
    BY <1>3, <2>1, LeaveReleases
  <2>4. Free \in TableRec /\ Free.Name = NULL /\ Free.locks = 0 BY DEF Free, TableRec
  <2>5. \A i \in Copies : /\ e.tbl[i] \in TableRec
                          /\ i # k => e.tbl[i].Name = d.tbl[i].Name /\ e.tbl[i].locks = d.tbl[i].locks /\ e.tbl[i].DFile = d.tbl[i].DFile
    BY <1>1, <2>2, <2>3, <2>4 DEF TableRec, DbRec
  <2>6. e.tbl[k] = Free BY <1>1, <2>3
  <2>7. e.disk \in [Names -> FileRec] /\ \A n \in Names : SyncedFile(d, t, e.disk, n)
    <3>1. e.disk = Written(d.disk, t) BY <2>3
    <3> QED BY <2>1, <3>1, WrittenIs
  <2>8. \A n \in Names : /\ e.disk[n].head = d.disk[n].head /\ e.disk[n].body = d.disk[n].body
                         /\ n # t.Name => e.disk[n] = d.disk[n]
                         /\ ~t.DFile => e.disk[n].rows = d.disk[n].rows
    BY <2>2, <2>7 DEF SyncedFile
  <2>9. e \in DbRec
    <3>1. e.Tables \in Copies \cup {NULL} BY <1>1, <2>2, <2>3 DEF DbRec, TableRec
    <3>2. e.tbl \in [Copies -> TableRec] BY <2>3, <2>5
    <3> QED BY <2>3, <2>7, <3>1, <3>2 DEF DbRec
  <2>10. InUse(e) = InUse(d) \ {k} BY <2>4, <2>5, <2>6 DEF InUse
  <2>11. \A i \in Copies : e.tbl[i].Name # NULL <=> e.tbl[i].locks > 0 BY <2>4, <2>5, <2>6 DEF Sane
  <2>12. \A i \in InUse(e) : e.disk[e.tbl[i].Name].head = "full" /\ e.tbl[i].DFile = e.disk[e.tbl[i].Name].body
    <3> TAKE i \in InUse(e)
    <3>1. i \in InUse(d) /\ i # k /\ i \in Copies BY <2>10 DEF InUse
    <3>2. d.tbl[i].Name \in Names BY <1>1, <3>1 DEF InUse, DbRec, TableRec
    <3> QED BY <2>5, <2>8, <3>1, <3>2 DEF Sane
  <2>13. \A n \in Names : /\ e.disk[n].body => e.disk[n].head = "full"
                          /\ ~e.disk[n].body => e.disk[n].rows = {}
    <3> TAKE n \in Names
    <3>1. CASE n = t.Name BY <2>2, <2>8, <3>1 DEF Sane
    <3>2. CASE n # t.Name BY <2>8, <3>2 DEF Sane
    <3> QED BY <3>1, <3>2
  <2>14. Sane(e) BY <2>9, <2>11, <2>12, <2>13 DEF Sane
  <2> QED BY <1>1, <2>1, <2>2, <2>4, <2>5, <2>6, <2>8, <2>10, <2>14 DEF InUse
<1> QED BY <1>2, <1>3

(* A list with one element less                                             *)
Without(f, m, j) == [i \in 1 .. (m - 1) |-> IF i < j THEN f[i] ELSE f[i + 1]]

LEMMA WithoutIs ==
    ASSUME NEW m \in Nat, NEW f, NEW X, NEW j \in 1 .. m, Lists(f, m, X)
    PROVE  /\ m - 1 \in Nat /\ Lists(Without(f, m, j), m - 1, X \ {f[j]})
           /\ \A i \in 1 .. (m - 1) : Without(f, m, j)[i] = IF i < j THEN f[i] ELSE f[i + 1]
<1> USE DEF Lists
<1> PICK g : g = Without(f, m, j) OBVIOUS
<1>1. \A i \in 1 .. (m - 1) : i \in 1 .. m /\ i + 1 \in 1 .. m OBVIOUS
<1>2. g \in [1 .. (m - 1) -> Copies] /\ \A i \in 1 .. (m - 1) : g[i] = IF i < j THEN f[i] ELSE f[i + 1]
  BY <1>1 DEF Without
<1>3. \A x, y \in 1 .. (m - 1) : g[x] = g[y] => x = y
  <2> TAKE x, y \in 1 .. (m - 1)
  <2>1. CASE x < j /\ y < j BY <1>1, <1>2, <2>1
  <2>2. CASE x < j /\ ~(y < j) BY <1>1, <1>2, <2>2
  <2>3. CASE ~(x < j) /\ y < j BY <1>1, <1>2, <2>3
  <2>4. CASE ~(x < j) /\ ~(y < j) BY <1>1, <1>2, <2>4
  <2> QED BY <2>1, <2>2, <2>3, <2>4
<1>4. \A i \in 1 .. (m - 1) : g[i] \in {f[h] : h \in 1 .. m} /\ g[i] # f[j]
  <2> TAKE i \in 1 .. (m - 1)
  <2>1. CASE i < j BY <1>1, <1>2, <2>1
  <2>2. CASE ~(i < j) BY <1>1, <1>2, <2>2
  <2> QED BY <2>1, <2>2
<1>5. \A h \in 1 .. m : f[h] # f[j] => f[h] \in {g[i] : i \in 1 .. (m - 1)}
  <2> TAKE h \in 1 .. m
  <2>1. CASE h < j
    <3>1. h \in 1 .. (m - 1) /\ g[h] = f[h] BY <1>2, <2>1
    <3> QED BY <3>1
  <2>2. CASE h > j
    <3>1. h - 1 \in 1 .. (m - 1) /\ ~(h - 1 < j) /\ (h - 1) + 1 = h BY <2>2
    <3>2. g[h - 1] = f[h] BY <1>2, <3>1
    <3> QED BY <3>1, <3>2
  <2> QED BY <2>1, <2>2
<1>6. m - 1 \in Nat OBVIOUS
<1>7. {g[i] : i \in 1 .. (m - 1)} = X \ {f[j]} BY <1>4, <1>5
<1>8. Lists(g, m - 1, X \ {f[j]}) BY <1>2, <1>3, <1>7
<1> HIDE DEF Lists
<1> QED BY <1>2, <1>6, <1>8

(* A table that is released leaves the list in order, wherever it was.      *)
LEMMA LeaveInOrder ==
    ASSUME NEW d, Sane(d), NEW k \in InUse(d), NEW a, InOrder(d, a)
    PROVE  InOrder(Leave(d, k), a)
<1> PICK e : e = Leave(d, k) OBVIOUS
<1> USE CatalogAssumption
<1>1. k \in Copies /\ d \in DbRec /\ d.tbl[k] \in TableRec BY DEF Sane, InUse, DbRec
<1>2. PICK m \in Nat : \E f \in [1 .. m -> Copies] : Chain(d, m, f) BY DEF InOrder, Chained
<1>3. PICK f \in [1 .. m -> Copies] : Chain(d, m, f) BY <1>2
<1>4. Single(d) /\ Holds(d, a) BY DEF InOrder
<1>5. /\ \A i \in InUse(e) : i \in InUse(d) /\ e.tbl[i].Name = d.tbl[i].Name
      /\ \A n \in Names : e.disk[n].head = d.disk[n].head /\ e.disk[n].body = d.disk[n].body
      /\ Sane(e)
  BY LeaveSane
<1>6. Single(e) BY <1>4, <1>5 DEF Single
<1>7. CASE d.tbl[k].locks > 1
  <2>1. PICK s : s = [d.tbl[k] EXCEPT !.locks = d.tbl[k].locks - 1] OBVIOUS
  <2>2. s.locks > 0 /\ s.Name = d.tbl[k].Name /\ s.rows = d.tbl[k].rows /\ s.Next = d.tbl[k].Next /\ s.Prev = d.tbl[k].Prev
    BY <1>1, <1>7, <2>1 DEF TableRec
  <2>3. e = [d EXCEPT !.tbl = [d.tbl EXCEPT ![k] = s]] BY <1>7, <2>1, LeaveCounts
  <2>4. e.disk = d.disk /\ e.Tables = d.Tables /\ e.tbl[k] = s /\ \A i \in Copies : i # k => e.tbl[i] = d.tbl[i]
    BY <1>1, <2>2, <2>3 DEF DbRec
  <2>5. \A i \in Copies : /\ e.tbl[i].Name = d.tbl[i].Name /\ e.tbl[i].rows = d.tbl[i].rows
                          /\ e.tbl[i].Next = d.tbl[i].Next /\ e.tbl[i].Prev = d.tbl[i].Prev
    BY <2>2, <2>4
  <2>6. InUse(e) = InUse(d) BY <2>5 DEF InUse
  <2>7. Chain(e, m, f) BY <1>3, <2>4, <2>5, <2>6 DEF Chain, Lists
  <2>8. Holds(e, a) BY <1>4, <2>4, <2>5, <2>6 DEF Holds, InUse
  <2> QED BY <1>6, <2>7, <2>8 DEF InOrder, Chained
<1>8. CASE ~(d.tbl[k].locks > 1)
  <2>1. PICK t : t = d.tbl[k] OBVIOUS
  <2>2. t.Name \in Names BY <1>1, <2>1 DEF InUse, TableRec
  <2>3. /\ e \in [Tables : {IF t.Prev = NULL THEN t.Next ELSE d.Tables}, tbl : {e.tbl}, disk : {Written(d.disk, t)}]
        /\ e.tbl = [i \in Copies |-> IF i = k THEN Free
                                     ELSE IF i = t.Prev THEN [d.tbl[i] EXCEPT !.Next = t.Next]
                                     ELSE IF i = t.Next THEN [d.tbl[i] EXCEPT !.Prev = t.Prev]
                                     ELSE d.tbl[i]]
    BY <1>8, <2>1, LeaveReleases
  <2>4. \A i \in Copies : i # k =>
          /\ e.tbl[i].Name = d.tbl[i].Name /\ e.tbl[i].rows = d.tbl[i].rows
          /\ e.tbl[i].Next = IF i = t.Prev THEN t.Next ELSE d.tbl[i].Next
          /\ e.tbl[i].Prev = IF i # t.Prev /\ i = t.Next THEN t.Prev ELSE d.tbl[i].Prev
    BY <1>1, <2>3 DEF TableRec, DbRec
  <2>5. InUse(e) = InUse(d) \ {k}
    <3>1. e.tbl[k].Name = NULL BY <1>1, <2>3 DEF Free
    <3> QED BY <2>4, <3>1 DEF InUse
  <2>6. PICK j \in 1 .. m : f[j] = k BY <1>3 DEF Chain, Lists
  <2>7. PICK g : g = Without(f, m, j) OBVIOUS
  <2>8. Chain(e, m - 1, g)
    <3>1. /\ Lists(g, m - 1, InUse(e))
          /\ \A i \in 1 .. (m - 1) : g[i] = IF i < j THEN f[i] ELSE f[i + 1]
      <4>1. Lists(f, m, InUse(d)) BY <1>3 DEF Chain, Lists
      <4> QED BY <2>5, <2>6, <2>7, <4>1, WithoutIs
    <3>3. t.Next = (IF j = m THEN NULL ELSE f[j + 1]) /\ t.Prev = (IF j = 1 THEN NULL ELSE f[j - 1])
      BY <1>3, <2>1, <2>6 DEF Chain, Lists
    <3>4. \A x \in 1 .. m : f[x] \in Copies /\ f[x] # NULL BY <1>3 DEF Chain, Lists
    <3>5. e.Tables = IF m - 1 = 0 THEN NULL ELSE g[1]
      <4>1. e.Tables = IF t.Prev = NULL THEN t.Next ELSE d.Tables BY <2>3
      <4>2. CASE j = 1
        <5>1. t.Prev = NULL BY <3>3, <4>2
        <5>2. m # 1 => g[1] = f[2] BY <3>1, <4>2
        <5> QED BY <3>3, <4>1, <4>2, <5>1, <5>2
      <4>3. CASE j # 1
        <5>1. j - 1 \in 1 .. m /\ m - 1 # 0 /\ 1 \in 1 .. (m - 1) /\ 1 < j BY <4>3
        <5>2. t.Prev # NULL BY <3>3, <3>4, <4>3, <5>1
        <5>3. d.Tables = f[1] BY <1>3, <5>1 DEF Chain, Lists
        <5> QED BY <3>1, <4>1, <5>1, <5>2, <5>3
      <4> QED BY <4>2, <4>3
    <3>6. ASSUME NEW i \in 1 .. (m - 1)
          PROVE  /\ e.tbl[g[i]].Next = IF i = m - 1 THEN NULL ELSE g[i + 1]
                 /\ e.tbl[g[i]].Prev = IF i = 1 THEN NULL ELSE g[i - 1]
      <4>1. PICK h \in 1 .. m : h = IF i < j THEN i ELSE i + 1 OBVIOUS
      <4>2. g[i] = f[h] /\ h # j /\ f[h] # k /\ f[h] \in Copies BY <1>3, <2>6, <3>1, <4>1 DEF Chain, Lists
      <4>3. f[h] = t.Prev <=> h = j - 1
        <5>1. CASE j = 1 BY <3>3, <3>4, <5>1
        <5>2. CASE j # 1
          <6>1. j - 1 \in 1 .. m BY <5>2
          <6> QED BY <1>3, <3>3, <5>2, <6>1 DEF Chain, Lists
        <5> QED BY <5>1, <5>2
      <4>4. f[h] = t.Next <=> h = j + 1
        <5>1. CASE j = m BY <3>3, <3>4, <5>1
        <5>2. CASE j # m
          <6>1. j + 1 \in 1 .. m BY <5>2
          <6> QED BY <1>3, <3>3, <5>2, <6>1 DEF Chain, Lists
        <5> QED BY <5>1, <5>2
      <4>5. d.tbl[f[h]].Next = (IF h = m THEN NULL ELSE f[h + 1]) /\ d.tbl[f[h]].Prev = (IF h = 1 THEN NULL ELSE f[h - 1])
        BY <1>3 DEF Chain, Lists
      <4>6. e.tbl[g[i]].Next = IF h = j - 1 THEN t.Next ELSE d.tbl[f[h]].Next BY <2>4, <4>2, <4>3
      <4>7. e.tbl[g[i]].Prev = IF h = j + 1 THEN t.Prev ELSE d.tbl[f[h]].Prev
        <5>1. h = j + 1 => h # j - 1 OBVIOUS
        <5> QED BY <2>4, <4>2, <4>3, <4>4, <5>1
      <4>8. e.tbl[g[i]].Next = IF i = m - 1 THEN NULL ELSE g[i + 1]
        <5>1. CASE i = m - 1 BY <3>3, <4>1, <4>5, <4>6, <5>1
        <5>2. CASE i # m - 1
          <6>1. i + 1 \in 1 .. (m - 1) BY <5>2
          <6>2. g[i + 1] = IF i + 1 < j THEN f[i + 1] ELSE f[(i + 1) + 1] BY <3>1, <6>1
          <6> QED BY <3>3, <4>1, <4>5, <4>6, <5>2, <6>2
        <5> QED BY <5>1, <5>2
      <4>9. e.tbl[g[i]].Prev = IF i = 1 THEN NULL ELSE g[i - 1]
        <5>1. CASE i = 1 BY <3>3, <4>1, <4>5, <4>7, <5>1
        <5>2. CASE i # 1
          <6>1. i - 1 \in 1 .. (m - 1) BY <5>2
          <6>2. g[i - 1] = IF i - 1 < j THEN f[i - 1] ELSE f[(i - 1) + 1] BY <3>1, <6>1
          <6> QED BY <3>3, <4>1, <4>5, <4>7, <5>2, <6>2
        <5> QED BY <5>1, <5>2
      <4> QED BY <4>8, <4>9
    <3> QED BY <3>1, <3>5, <3>6 DEF Chain, Lists
  <2>9. Holds(e, a)
    <3>1. \A n \in Names : SyncedFile(d, t, e.disk, n)
      <4>1. e.disk = Written(d.disk, t) BY <2>3
      <4> QED BY <2>1, <4>1, WrittenIs
    <3>2. e.disk[t.Name].body => e.disk[t.Name].rows = t.rows BY <2>2, <3>1 DEF SyncedFile
    <3>3. ASSUME NEW i \in InUse(e), e.disk[e.tbl[i].Name].body PROVE a[e.tbl[i].Name] = e.tbl[i].rows
      <4>1. i \in Copies /\ i # k /\ i \in InUse(d) BY <2>5 DEF InUse
      <4>2. d.tbl[i].Name \in Names BY <1>1, <4>1 DEF InUse, DbRec, TableRec
      <4> QED BY <1>4, <1>5, <2>4, <3>3, <4>1, <4>2 DEF Holds
    <3>4. ASSUME NEW n \in Names, e.disk[n].body, \A i \in InUse(e) : e.tbl[i].Name # n PROVE a[n] = e.disk[n].rows
      <4>1. d.disk[n].body BY <1>5, <3>4
      <4>2. CASE n = t.Name
        <5>1. a[t.Name] = t.rows BY <1>4, <2>1, <4>1, <4>2 DEF Holds
        <5> QED BY <3>2, <3>4, <4>2, <5>1
      <4>3. CASE n # t.Name
        <5>1. \A i \in InUse(d) : d.tbl[i].Name # n
          <6> SUFFICES ASSUME NEW i \in InUse(d), d.tbl[i].Name = n PROVE FALSE OBVIOUS
          <6>1. i # k BY <2>1, <4>3
          <6>2. i \in InUse(e) /\ i \in Copies BY <2>5, <6>1 DEF InUse
          <6> QED BY <2>4, <3>4, <6>1, <6>2
        <5> QED BY <1>4, <3>1, <4>1, <4>3, <5>1 DEF Holds, SyncedFile
      <4> QED BY <4>2, <4>3
    <3> QED BY <3>3, <3>4 DEF Holds
  <2>10. m - 1 \in Nat BY <2>6
  <2>11. g \in [1 .. (m - 1) -> Copies] BY <2>8 DEF Chain, Lists
  <2> QED BY <1>6, <2>8, <2>9, <2>10, <2>11 DEF InOrder, Chained
<1> QED BY <1>7, <1>8

(* malloc finds a block as long as one is free, the first of them.          *)
LEMMA BlockIs ==
    ASSUME NEW d, InUse(d) # Copies
    PROVE  Block(d) \in Copies /\ d.tbl[Block(d)].Name = NULL
<1> DEFINE S == {k \in Copies : d.tbl[k].Name = NULL}
<1>1. S \subseteq Nat /\ S # {} BY CatalogAssumption DEF InUse
<1>2. PICK x \in S : \A y \in S : x <= y
  <2> HIDE DEF S
  <2> QED BY <1>1, LeastIs
<1>3. \E k \in Copies : d.tbl[k].Name = NULL /\ \A l \in Copies : d.tbl[l].Name = NULL => k <= l BY <1>2
<1> QED BY <1>3 DEF Block

(* A list with one more element in front                                    *)
Before(x, f, m) == [i \in 1 .. (m + 1) |-> IF i = 1 THEN x ELSE f[i - 1]]

LEMMA BeforeIs ==
    ASSUME NEW m \in Nat, NEW f, NEW X, Lists(f, m, X), NEW x \in Copies, x \notin X, NEW Y, Y = X \cup {x}
    PROVE  /\ Lists(Before(x, f, m), m + 1, Y)
           /\ Before(x, f, m)[1] = x
<1> USE DEF Lists
<1> PICK g : g = Before(x, f, m) OBVIOUS
<1>1. g \in [1 .. (m + 1) -> Copies] /\ g[1] = x /\ \A i \in 1 .. (m + 1) : i # 1 => i - 1 \in 1 .. m /\ g[i] = f[i - 1]
  BY DEF Before
<1>2. \A i \in 1 .. m : g[i + 1] = f[i]
  <2> TAKE i \in 1 .. m
  <2>1. i + 1 \in 1 .. (m + 1) /\ i + 1 # 1 /\ (i + 1) - 1 = i OBVIOUS
  <2> QED BY <1>1, <2>1
<1>3. \A i, j \in 1 .. (m + 1) : g[i] = g[j] => i = j
  <2> TAKE i, j \in 1 .. (m + 1)
  <2>1. \A l \in 1 .. (m + 1) : l # 1 => g[l] \in X /\ g[l] # x BY <1>1
  <2>2. CASE i = 1 \/ j = 1 BY <1>1, <2>1, <2>2
  <2>3. CASE i # 1 /\ j # 1 BY <1>1, <2>3
  <2> QED BY <2>2, <2>3
<1>4. Y = {g[i] : i \in 1 .. (m + 1)}
  <2>1. \A i \in 1 .. (m + 1) : g[i] \in X \cup {x} BY <1>1
  <2>2. \A i \in 1 .. m : i + 1 \in 1 .. (m + 1) OBVIOUS
  <2>3. \A y \in X : \E i \in 1 .. (m + 1) : g[i] = y BY <1>2, <2>2
  <2>4. 1 \in 1 .. (m + 1) OBVIOUS
  <2>5. \A y \in Y : y \in {g[i] : i \in 1 .. (m + 1)}
    <3> TAKE y \in Y
    <3>1. CASE y = x BY <1>1, <2>4, <3>1
    <3>2. CASE y \in X BY <2>3, <3>2
    <3> QED BY <3>1, <3>2
  <2>6. {g[i] : i \in 1 .. (m + 1)} \subseteq Y BY <2>1
  <2> QED BY <2>5, <2>6
<1>5. Lists(g, m + 1, Y) BY <1>1, <1>3, <1>4
<1> HIDE DEF Lists
<1> QED BY <1>1, <1>2, <1>5

(* A table that TBLSELECT or TBLCREATE puts in front of the list: t has     *)
(* what the files of its name have.                                         *)
Loads(d, t) ==
    /\ t \in TableRec /\ t.Name \in Names /\ t.locks = 1
    /\ d.disk[t.Name].head = "full" /\ t.DFile = d.disk[t.Name].body

LinkedTo(d, k, t, e) ==
    /\ e.Tables = k /\ e.disk = d.disk /\ InUse(e) = InUse(d) \cup {k}
    /\ e.tbl[k] = [t EXCEPT !.Next = d.Tables, !.Prev = NULL]
    /\ \A i \in Copies : i # k => e.tbl[i] = IF i = d.Tables THEN [d.tbl[i] EXCEPT !.Prev = k] ELSE d.tbl[i]

LEMMA LinkIs ==
    ASSUME NEW d, Sane(d), NEW k \in Copies \ InUse(d), NEW t, Loads(d, t)
    PROVE  Sane(Link(d, k, t)) /\ LinkedTo(d, k, t, Link(d, k, t))
<1> PICK e : e = Link(d, k, t) OBVIOUS
<1> USE CatalogAssumption
<1>1. d \in DbRec /\ k \in Copies /\ d.Tables \in Copies \cup {NULL} BY DEF Sane, DbRec
<1>2. PICK s : s = [t EXCEPT !.Next = d.Tables, !.Prev = NULL] OBVIOUS
<1>3. s \in TableRec /\ s.Name = t.Name /\ s.locks = 1 /\ s.DFile = t.DFile
  <2>1. t \in TableRec /\ t.locks = 1 BY DEF Loads
  <2> QED BY <1>1, <1>2, <2>1 DEF TableRec
<1>4. PICK q : q = [i \in Copies |-> IF i = k THEN s
                                     ELSE IF i = d.Tables THEN [d.tbl[i] EXCEPT !.Prev = k] ELSE d.tbl[i]]
  OBVIOUS
<1>5. e = [d EXCEPT !.Tables = k, !.tbl = q] BY <1>2, <1>4 DEF Link, Behind
<1>6. e.Tables = k /\ e.tbl = q /\ e.disk = d.disk BY <1>1, <1>5 DEF DbRec
<1>7. \A i \in Copies : i # k => /\ q[i] \in TableRec /\ q[i].Name = d.tbl[i].Name /\ q[i].locks = d.tbl[i].locks
                                 /\ q[i].DFile = d.tbl[i].DFile
  BY <1>1, <1>4 DEF TableRec, DbRec
<1>8. q[k] = s BY <1>4
<1>9. e \in DbRec
  <2>1. q \in [Copies -> TableRec] BY <1>3, <1>4, <1>7, <1>8
  <2> QED BY <1>1, <1>5, <2>1 DEF DbRec
<1>10. InUse(e) = InUse(d) \cup {k} BY <1>3, <1>6, <1>7, <1>8 DEF InUse, Loads
<1>11. Sane(e)
  <2>1. \A i \in Copies : e.tbl[i].Name # NULL <=> e.tbl[i].locks > 0
    BY <1>3, <1>6, <1>7, <1>8 DEF Sane, Loads
  <2>2. \A i \in InUse(e) : e.disk[e.tbl[i].Name].head = "full" /\ e.tbl[i].DFile = e.disk[e.tbl[i].Name].body
    BY <1>3, <1>6, <1>7, <1>8, <1>10 DEF Sane, Loads, InUse
  <2> QED BY <1>6, <1>9, <2>1, <2>2 DEF Sane
<1>12. LinkedTo(d, k, t, e) BY <1>2, <1>4, <1>6, <1>8, <1>10 DEF LinkedTo
<1> QED BY <1>11, <1>12

(* The list stays in order if no table in memory has the name and t has the *)
(* rows that were acknowledged.                                             *)
LEMMA LinkInOrder ==
    ASSUME NEW d, Sane(d), NEW k \in Copies \ InUse(d), NEW t, Loads(d, t), NEW a, InOrder(d, a),
           \A i \in InUse(d) : d.tbl[i].Name # t.Name,
           d.disk[t.Name].body => a[t.Name] = t.rows
    PROVE  InOrder(Link(d, k, t), a)
<1> PICK e : e = Link(d, k, t) OBVIOUS
<1> USE CatalogAssumption
<1>1. d \in DbRec /\ k \in Copies /\ t \in TableRec /\ t.Name \in Names BY DEF Sane, Loads
<1>2. LinkedTo(d, k, t, e) BY LinkIs
<1>3. e.tbl[k].Name = t.Name /\ e.tbl[k].rows = t.rows /\ e.tbl[k].Next = d.Tables /\ e.tbl[k].Prev = NULL
  BY <1>1, <1>2 DEF TableRec, LinkedTo
<1>4. \A i \in Copies : i # k => /\ e.tbl[i].Name = d.tbl[i].Name /\ e.tbl[i].rows = d.tbl[i].rows
                                 /\ e.tbl[i].Next = d.tbl[i].Next
                                 /\ e.tbl[i].Prev = IF i = d.Tables THEN k ELSE d.tbl[i].Prev
  <2> TAKE i \in Copies
  <2>1. d.tbl[i] \in TableRec BY <1>1 DEF DbRec
  <2> QED BY <1>2, <2>1 DEF TableRec, LinkedTo
<1>5. Single(d) /\ Holds(d, a) /\ Chained(d) BY DEF InOrder
<1>6. e.disk = d.disk /\ e.Tables = k /\ InUse(e) = InUse(d) \cup {k} BY <1>2 DEF LinkedTo
<1>7. \A i \in InUse(e) : \/ i = k /\ e.tbl[i].Name = t.Name /\ e.tbl[i].rows = t.rows
                         \/ /\ i # k /\ i \in InUse(d)
                            /\ e.tbl[i].Name = d.tbl[i].Name /\ e.tbl[i].rows = d.tbl[i].rows
  <2> TAKE i \in InUse(e)
  <2>1. i \in Copies BY DEF InUse
  <2>2. CASE i = k BY <1>3, <2>2
  <2>3. CASE i # k
    <3>1. i \in InUse(d) BY <1>6, <2>3
    <3> QED BY <1>4, <2>1, <2>3, <3>1
  <2> QED BY <2>2, <2>3
<1>8. Single(e)
  <2> SUFFICES ASSUME NEW i \in InUse(e), NEW l \in InUse(e), e.tbl[i].Name = e.tbl[l].Name PROVE i = l
    BY DEF Single
  <2> QED BY <1>5, <1>7 DEF Single
<1>9. Holds(e, a)
  <2>1. ASSUME NEW i \in InUse(e), e.disk[e.tbl[i].Name].body PROVE a[e.tbl[i].Name] = e.tbl[i].rows
    <3>1. CASE i = k BY <1>3, <1>6, <2>1, <3>1
    <3>2. CASE i # k
      <4>1. i \in InUse(d) /\ e.tbl[i].Name = d.tbl[i].Name /\ e.tbl[i].rows = d.tbl[i].rows BY <1>7, <3>2
      <4> QED BY <1>5, <1>6, <2>1, <4>1 DEF Holds
    <3> QED BY <3>1, <3>2
  <2>2. ASSUME NEW n \in Names, e.disk[n].body, \A i \in InUse(e) : e.tbl[i].Name # n PROVE a[n] = e.disk[n].rows
    <3>1. \A i \in InUse(d) : d.tbl[i].Name # n
      <4> TAKE i \in InUse(d)
      <4>1. i \in InUse(e) /\ i # k BY <1>6
      <4> QED BY <1>7, <2>2, <4>1
    <3> QED BY <1>5, <1>6, <2>2, <3>1 DEF Holds
  <2> QED BY <2>1, <2>2 DEF Holds
<1>10. Chained(e)
  <2>1. PICK m \in Nat : \E f \in [1 .. m -> Copies] : Chain(d, m, f) BY <1>5 DEF Chained
  <2>2. PICK f \in [1 .. m -> Copies] : Chain(d, m, f) BY <2>1
  <2>3. PICK g : g = Before(k, f, m) OBVIOUS
  <2>4. Lists(f, m, InUse(d)) BY <2>2 DEF Chain
  <2>5. Lists(g, m + 1, InUse(e)) /\ g[1] = k /\ \A i \in 1 .. m : g[i + 1] = f[i]
    <3>1. k \in Copies /\ k \notin InUse(d) /\ m \in Nat OBVIOUS
    <3>2. InUse(e) = InUse(d) \cup {k} BY <1>6
    <3>3. Lists(Before(k, f, m), m + 1, InUse(e)) BY ONLY <2>4, <3>1, <3>2, BeforeIs
    <3>4. Before(k, f, m)[1] = k BY ONLY <2>4, <3>1, <3>2, BeforeIs
    <3>5. \A i \in 1 .. m : Before(k, f, m)[i + 1] = f[i]
      <4> TAKE i \in 1 .. m
      <4>1. i + 1 \in 1 .. (m + 1) /\ i + 1 # 1 /\ (i + 1) - 1 = i OBVIOUS
      <4> QED BY <4>1 DEF Before
    <3> QED BY ONLY <2>3, <3>3, <3>4, <3>5
  <2>6. m + 1 \in Nat /\ g \in [1 .. (m + 1) -> Copies] BY <2>5 DEF Lists
  <2>7. ASSUME NEW i \in 1 .. (m + 1)
        PROVE  /\ e.tbl[g[i]].Next = IF i = m + 1 THEN NULL ELSE g[i + 1]
               /\ e.tbl[g[i]].Prev = IF i = 1 THEN NULL ELSE g[i - 1]
    <3>1. CASE i = 1
      <4>1. d.Tables = IF m = 0 THEN NULL ELSE f[1] BY <2>2 DEF Chain
      <4>2. m # 0 => g[2] = f[1] BY <2>5
      <4> QED BY <1>3, <2>5, <3>1, <4>1, <4>2
    <3>2. CASE i # 1
      <4>1. PICK h \in 1 .. m : h = i - 1 BY <3>2
      <4>2. g[i] = f[h] /\ i = h + 1 BY <2>5, <4>1
      <4>3. f[h] \in InUse(d) /\ f[h] \in Copies /\ f[h] # k BY <2>4 DEF Lists, InUse
      <4>4. d.tbl[f[h]].Next = (IF h = m THEN NULL ELSE f[h + 1]) /\ d.tbl[f[h]].Prev = (IF h = 1 THEN NULL ELSE f[h - 1])
        BY <2>2 DEF Chain
      <4>5. d.Tables = f[1] /\ (f[h] = d.Tables <=> h = 1) BY <2>2, <2>4 DEF Chain, Lists
      <4>6. h # m => h + 1 \in 1 .. m /\ g[i + 1] = f[h + 1] BY <2>5, <4>2
      <4>7. i - 1 = h /\ (h # 1 => h - 1 \in 1 .. m /\ g[h] = f[h - 1])
        <5>1. h # 1 => h - 1 \in 1 .. m /\ (h - 1) + 1 = h OBVIOUS
        <5> QED BY <2>5, <4>1, <5>1
      <4>8. e.tbl[f[h]].Next = d.tbl[f[h]].Next /\ e.tbl[f[h]].Prev = IF h = 1 THEN k ELSE d.tbl[f[h]].Prev
        BY ONLY <1>4, <4>3, <4>5
      <4>9. i = m + 1 <=> h = m BY <4>2
      <4> QED BY ONLY <2>5, <3>2, <4>2, <4>4, <4>6, <4>7, <4>8, <4>9
    <3> QED BY <3>1, <3>2
  <2>8. e.Tables = IF m + 1 = 0 THEN NULL ELSE g[1] BY <1>6, <2>5
  <2> QED BY <2>5, <2>6, <2>7, <2>8 DEF Chained, Chain
<1> QED BY <1>8, <1>9, <1>10 DEF InOrder

----------------------------------------------------------------------------
(* What leaving a table, or none, does to the tables                        *)
AfterLeave(d, k, e) ==
    /\ Sane(e)
    /\ \A i \in Copies : e.tbl[i].locks = IF i = k THEN d.tbl[k].locks - 1 ELSE d.tbl[i].locks
    /\ \A i \in InUse(e) : i \in InUse(d) /\ e.tbl[i].Name = d.tbl[i].Name
    /\ \A i \in InUse(d) : i # k => i \in InUse(e)
    /\ \A n \in Names : e.disk[n].head = d.disk[n].head /\ e.disk[n].body = d.disk[n].body

LEMMA LeaveIs ==
    ASSUME NEW d, Sane(d), NEW k \in InUse(d) \cup {NULL}
    PROVE  AfterLeave(d, k, Leave(d, k)) /\ \A a : InOrder(d, a) => InOrder(Leave(d, k), a)
<1>1. CASE k = NULL
  <2>1. Leave(d, k) = d BY <1>1 DEF Leave
  <2>2. \A i \in Copies : i # k BY <1>1, CatalogAssumption
  <2>3. AfterLeave(d, k, d) BY <2>2 DEF AfterLeave, InUse
  <2> QED BY <2>1, <2>3
<1>2. CASE k \in InUse(d)
  <2>1. AfterLeave(d, k, Leave(d, k)) BY <1>2, LeaveSane DEF AfterLeave
  <2> QED BY <1>2, <2>1, LeaveInOrder
<1> QED BY <1>1, <1>2

(* If only counters change the list is as it was.                           *)
SamePlaces(d, e) ==
    /\ e.disk = d.disk /\ e.Tables = d.Tables
    /\ \A i \in Copies : /\ e.tbl[i].Name = d.tbl[i].Name /\ e.tbl[i].rows = d.tbl[i].rows
                         /\ e.tbl[i].Next = d.tbl[i].Next /\ e.tbl[i].Prev = d.tbl[i].Prev

LEMMA OrderStays ==
    ASSUME NEW d, NEW e, SamePlaces(d, e), NEW a, InOrder(d, a)
    PROVE  InOrder(e, a)
<1> USE DEF SamePlaces
<1>1. InUse(e) = InUse(d) BY DEF InUse
<1>2. \A i \in InUse(d) : i \in Copies BY DEF InUse
<1>3. Single(e) BY <1>1, <1>2 DEF InOrder, Single
<1>4. Holds(e, a) BY <1>1, <1>2 DEF InOrder, Holds
<1>5. PICK m \in Nat : \E f \in [1 .. m -> Copies] : Chain(d, m, f) BY DEF InOrder, Chained
<1>6. PICK f \in [1 .. m -> Copies] : Chain(d, m, f) BY <1>5
<1>7. Chain(e, m, f) BY <1>1, <1>6 DEF Chain
<1> QED BY <1>3, <1>4, <1>7 DEF InOrder, Chained

(* One more connection to a table in memory                                 *)
AfterLock(d, k, e) ==
    /\ Sane(e) /\ e.disk = d.disk /\ InUse(e) = InUse(d)
    /\ \A i \in Copies : /\ e.tbl[i].locks = IF i = k THEN d.tbl[k].locks + 1 ELSE d.tbl[i].locks
                         /\ e.tbl[i].Name = d.tbl[i].Name

LEMMA LockAgain ==
    ASSUME NEW d, Sane(d), NEW k \in InUse(d)
    PROVE  LET e == [d EXCEPT !.tbl[k].locks = @ + 1]
           IN AfterLock(d, k, e) /\ \A a : InOrder(d, a) => InOrder(e, a)
<1> PICK e : e = [d EXCEPT !.tbl[k].locks = @ + 1] OBVIOUS
<1>1. k \in Copies /\ d \in DbRec /\ d.tbl[k] \in TableRec BY DEF Sane, InUse, DbRec
<1>2. PICK s : s = [d.tbl[k] EXCEPT !.locks = d.tbl[k].locks + 1] OBVIOUS
<1>3. /\ s \in TableRec /\ s.locks = d.tbl[k].locks + 1 /\ s.Name = d.tbl[k].Name /\ s.DFile = d.tbl[k].DFile
      /\ s.rows = d.tbl[k].rows /\ s.Next = d.tbl[k].Next /\ s.Prev = d.tbl[k].Prev
  BY <1>1, <1>2 DEF TableRec
<1>4. e = [d EXCEPT !.tbl = [d.tbl EXCEPT ![k] = s]] BY <1>2
<1>5. /\ e \in DbRec /\ e.disk = d.disk /\ e.Tables = d.Tables /\ e.tbl[k] = s
      /\ \A i \in Copies : i # k => e.tbl[i] = d.tbl[i]
  BY <1>1, <1>3, <1>4 DEF DbRec
<1>6. \A i \in Copies : /\ e.tbl[i].Name = d.tbl[i].Name /\ e.tbl[i].rows = d.tbl[i].rows
                        /\ e.tbl[i].Next = d.tbl[i].Next /\ e.tbl[i].Prev = d.tbl[i].Prev
                        /\ e.tbl[i].DFile = d.tbl[i].DFile
                        /\ e.tbl[i].locks = IF i = k THEN d.tbl[k].locks + 1 ELSE d.tbl[i].locks
  BY <1>3, <1>5
<1>7. InUse(e) = InUse(d) BY <1>6 DEF InUse
<1>8. Sane(e)
  <2>1. d.tbl[k].locks > 0 /\ s.locks > 0 BY <1>1, <1>3 DEF Sane, InUse, TableRec
  <2>2. \A i \in Copies : e.tbl[i].Name # NULL <=> e.tbl[i].locks > 0
    BY <1>3, <1>5, <2>1 DEF Sane
  <2>3. \A i \in InUse(e) : e.disk[e.tbl[i].Name].head = "full" /\ e.tbl[i].DFile = e.disk[e.tbl[i].Name].body
    BY <1>5, <1>6, <1>7 DEF Sane, InUse
  <2> QED BY <1>5, <2>2, <2>3 DEF Sane
<1>9. ASSUME NEW a, InOrder(d, a) PROVE InOrder(e, a)
  <2>1. SamePlaces(d, e) BY <1>5, <1>6 DEF SamePlaces
  <2> QED BY <1>9, <2>1, OrderStays
<1>10. AfterLock(d, k, e) BY <1>5, <1>6, <1>7, <1>8 DEF AfterLock
<1> QED BY <1>9, <1>10

(* Which connections have a table, when c turns to another one              *)
Counts(c, r, k) ==
    /\ Cardinality(Users(k)) \in Nat
    /\ Cardinality(Users(k))' = IF k = r.Table
                                  THEN IF k = conn[c].Table THEN Cardinality(Users(k)) ELSE Cardinality(Users(k)) + 1
                                  ELSE IF k = conn[c].Table THEN Cardinality(Users(k)) - 1 ELSE Cardinality(Users(k))

LEMMA UsersAre ==
    ASSUME conn \in [Connections -> ConnRec], NEW c \in Connections, NEW r \in ConnRec,
           conn' = [conn EXCEPT ![c] = r], NEW k \in Copies
    PROVE  Counts(c, r, k)
<1> USE DEF Counts
<1>1. IsFiniteSet(Users(k)) /\ Cardinality(Users(k)) \in Nat
  BY CatalogAssumption, FS_Subset, FS_CardinalityType DEF Users
<1>2. c \in Users(k) <=> k = conn[c].Table BY DEF Users
<1>3. CASE k = r.Table
  <2>1. Users(k)' = Users(k) \cup {c} BY <1>3 DEF Users
  <2> QED BY <1>1, <1>2, <1>3, <2>1, FS_AddElement
<1>4. CASE k # r.Table
  <2>1. Users(k)' = Users(k) \ {c} BY <1>4 DEF Users
  <2> QED BY <1>1, <1>2, <1>4, <2>1, FS_RemoveElement
<1> QED BY <1>1, <1>3, <1>4

(* The tables in memory are those that connections have selected.           *)
LEMMA InUseIs ==
    ASSUME CatalogInv
    PROVE  /\ \A k \in Copies : k \in InUse(db) <=> \E c \in Connections : conn[c].Table = k
           /\ \A c \in Connections : conn[c].Table \in InUse(db) \cup {NULL}
<1> USE CatalogAssumption
<1>1. ASSUME NEW k \in Copies PROVE k \in InUse(db) <=> \E c \in Connections : conn[c].Table = k
  <2>1. IsFiniteSet(Users(k)) BY FS_Subset DEF Users
  <2>2. Cardinality(Users(k)) \in Nat /\ (Cardinality(Users(k)) = 0 <=> Users(k) = {})
    BY <2>1, FS_CardinalityType, FS_EmptySet
  <2>3. db.tbl[k].locks = Cardinality(Users(k)) BY DEF CatalogInv
  <2>4. k \in InUse(db) <=> db.tbl[k].locks > 0 BY DEF CatalogInv, Sane, InUse
  <2>5. Users(k) # {} <=> \E c \in Connections : conn[c].Table = k BY DEF Users
  <2> QED BY <2>2, <2>3, <2>4, <2>5
<1>2. ASSUME NEW c \in Connections PROVE conn[c].Table \in InUse(db) \cup {NULL}
  <2>1. conn[c].Table \in Copies \cup {NULL} BY DEF CatalogInv, ConnRec
  <2> QED BY <1>1, <2>1
<1> QED BY <1>1, <1>2

(* One block at least is free: there are fewer connections.                 *)
LEMMA OneIsFree == ASSUME CatalogInv PROVE InUse(db) # Copies
<1> DEFINE C == {c \in Connections : conn[c].Table # NULL}
           g == [c \in C |-> conn[c].Table]
<1> USE CatalogAssumption
<1>1. C \in SUBSET Connections OBVIOUS
<1>2. IsFiniteSet(C) /\ Cardinality(C) <= Cardinality(Connections) BY <1>1, FS_Subset
<1>3. g \in Surjection(C, InUse(db))
  <2>1. \A c \in C : g[c] \in InUse(db) BY InUseIs
  <2>2. \A k \in InUse(db) : \E c \in C : g[c] = k
    <3> TAKE k \in InUse(db)
    <3>1. k \in Copies /\ k # NULL BY DEF InUse
    <3>2. PICK c \in Connections : conn[c].Table = k BY <3>1, InUseIs
    <3> QED BY <3>1, <3>2
  <2> QED BY <2>1, <2>2 DEF Surjection
<1>4. Cardinality(InUse(db)) <= Cardinality(C)
  <2> HIDE DEF C, g
  <2> QED BY <1>2, <1>3, FS_Surjection
<1>5. Cardinality(C) \in Nat /\ Cardinality(Connections) \in Nat /\ Cardinality(Copies) \in Nat
  BY <1>2, FS_CardinalityType
<1>6. IsFiniteSet(InUse(db)) /\ Cardinality(InUse(db)) \in Nat
  <2>1. IsFiniteSet(InUse(db)) BY FS_Subset DEF InUse
  <2> QED BY <2>1, FS_CardinalityType
<1> HIDE DEF C, g
<1> QED BY <1>2, <1>4, <1>5, <1>6

(* When c leaves its table, those of the others stay.                       *)
LEMMA OthersStay ==
    ASSUME CatalogInv, NEW d, NEW e, NEW c \in Connections, NEW x \in Connections, x # c, conn[x].Table # NULL,
           Sane(d), AfterLeave(d, conn[c].Table, e),
           \A i \in InUse(db) : i \in InUse(d) /\ d.tbl[i].locks = db.tbl[i].locks
    PROVE  conn[x].Table \in InUse(e) /\ e.tbl[conn[x].Table].Name = d.tbl[conn[x].Table].Name
<1> USE CatalogAssumption
<1>1. PICK k : k = conn[x].Table OBVIOUS
<1>2. k \in InUse(db) /\ k \in Copies BY <1>1, InUseIs DEF InUse
<1>3. k \in InUse(e)
  <2>1. CASE k # conn[c].Table BY <1>2, <2>1 DEF AfterLeave
  <2>2. CASE k = conn[c].Table
    <3>1. IsFiniteSet(Users(k)) BY FS_Subset DEF Users
    <3>2. {c} \cup {x} \in SUBSET Users(k) BY <1>1, <2>2 DEF Users
    <3>3. Cardinality({c} \cup {x}) = 2
      <4>1. IsFiniteSet({c}) /\ Cardinality({c}) = 1 /\ x \notin {c} BY FS_Singleton
      <4>2. Cardinality({c} \cup {x}) = Cardinality({c}) + 1 BY <4>1, FS_AddElement
      <4>3. Cardinality({c}) = 1 BY <4>1
      <4> QED BY ONLY <4>2, <4>3
    <3>4. Cardinality(Users(k)) \in Nat /\ Cardinality(Users(k)) >= 2
      <4>1. Cardinality(Users(k)) \in Nat BY <3>1, FS_CardinalityType
      <4>2. Cardinality({c} \cup {x}) <= Cardinality(Users(k)) BY <3>1, <3>2, FS_Subset
      <4>3. 2 <= Cardinality(Users(k)) BY ONLY <3>3, <4>2
      <4> QED BY ONLY <4>1, <4>3
    <3>5. db.tbl[k].locks = Cardinality(Users(k)) BY <1>2 DEF CatalogInv
    <3>6. e.tbl[k].locks = db.tbl[k].locks - 1 BY <1>2, <2>2 DEF AfterLeave
    <3>7. e.tbl[k].locks > 0 BY <3>4, <3>5, <3>6
    <3> QED BY <1>2, <3>7 DEF AfterLeave, Sane, InUse
  <2> QED BY <2>1, <2>2
<1> QED BY <1>1, <1>3 DEF AfterLeave

(* What is to be shown of a step in which c turns from a table to another.  *)
LEMMA Turns ==
    ASSUME CatalogInv, NEW c \in Connections, NEW r \in ConnRec, r.Filters = NULL,
           conn' = [conn EXCEPT ![c] = r], bounds' = bounds, torn' = torn, acked' = acked,
           busy' = NoCreation, Sane(db'),
           \A i \in Copies : db'.tbl[i].locks =
             IF i = r.Table
               THEN IF i = conn[c].Table THEN db.tbl[i].locks ELSE db.tbl[i].locks + 1
               ELSE IF i = conn[c].Table THEN db.tbl[i].locks - 1 ELSE db.tbl[i].locks,
           \A x \in Connections : x # c /\ conn[x].Table # NULL =>
             db'.tbl[conn[x].Table].Name = db.tbl[conn[x].Table].Name,
           \A n \in Names : db'.disk[n].head = db.disk[n].head,
           ~torn => InOrder(db', acked)
    PROVE  CatalogInv'
<1>1. /\ conn \in [Connections -> ConnRec] /\ acked \in [Names -> SUBSET Nat] /\ torn \in BOOLEAN /\ bounds \in CatalogSetups
      /\ \A k \in Copies : db.tbl[k].locks = Cardinality(Users(k))
      /\ \A x \in Connections : conn[x].Filters # NULL =>
           conn[x].Table # NULL /\ db.tbl[conn[x].Table].Name = conn[x].Filters
      /\ \A n \in Names : db.disk[n].head = "absent" => acked[n] = {}
  BY DEF CatalogInv
<1>2. conn' \in [Connections -> ConnRec] BY <1>1
<1>3. \A k \in Copies : db'.tbl[k].locks = Cardinality(Users(k)')
  <2> TAKE k \in Copies
  <2>1. Counts(c, r, k) BY <1>1, UsersAre
  <2> QED BY <1>1, <2>1 DEF Counts
<1>4. ASSUME NEW x \in Connections, conn'[x].Filters # NULL
      PROVE  conn'[x].Table # NULL /\ db'.tbl[conn'[x].Table].Name = conn'[x].Filters
  <2>1. x # c BY <1>1, <1>4
  <2>2. conn'[x] = conn[x] BY <1>1, <2>1
  <2> QED BY <1>1, <1>4, <2>1, <2>2
<1>5. Started' BY DEF Started
<1> QED BY <1>1, <1>2, <1>3, <1>4, <1>5 DEF CatalogInv

(* A connection ends.                                                       *)
LEMMA CloseInv ==
    ASSUME CatalogInv, bounds' = bounds, NEW c \in Connections, Close(c)
    PROVE  CatalogInv'
<1> USE CatalogAssumption
<1>1. /\ busy' = NoCreation /\ conn' = [conn EXCEPT ![c] = Unselected] /\ db' = Leave(db, conn[c].Table)
      /\ acked' = acked /\ torn' = torn
  BY DEF Close, NotCreating
<1>2. Unselected \in ConnRec /\ Unselected.Filters = NULL /\ Unselected.Table = NULL BY DEF Unselected, ConnRec
<1>3. Sane(db) /\ (~torn => InOrder(db, acked)) BY DEF CatalogInv
<1>4. conn[c].Table \in InUse(db) \cup {NULL} BY InUseIs
<1>5. AfterLeave(db, conn[c].Table, db') /\ (~torn => InOrder(db', acked)) BY <1>1, <1>3, <1>4, LeaveIs
<1>6. \A x \in Connections : x # c /\ conn[x].Table # NULL => db'.tbl[conn[x].Table].Name = db.tbl[conn[x].Table].Name
  <2> TAKE x \in Connections
  <2>1. \A i \in InUse(db) : i \in InUse(db) /\ db.tbl[i].locks = db.tbl[i].locks OBVIOUS
  <2> QED BY <1>3, <1>5, <2>1, OthersStay
<1>7. \A i \in Copies : i # NULL OBVIOUS
<1> QED BY <1>1, <1>2, <1>5, <1>6, <1>7, Turns DEF AfterLeave

(* TBLSELECT of a table in memory                                           *)
LEMMA SelectLoadedInv ==
    ASSUME CatalogInv, bounds' = bounds, NEW c \in Connections, SelectLoaded(c)
    PROVE  CatalogInv'
<1> USE CatalogAssumption
<1>1. PICK n \in bounds.names, k \in Copies :
                            /\ k \in Found(n) /\ conn[c].Table # k
                             /\ db' = [Leave(db, conn[c].Table) EXCEPT !.tbl[k].locks = @ + 1]
                             /\ conn' = [conn EXCEPT ![c] = [Table |-> k, Filters |-> NULL]]
  BY DEF SelectLoaded
<1>2. busy' = NoCreation /\ acked' = acked /\ torn' = torn BY DEF SelectLoaded, NotCreating
<1>3. Sane(db) /\ (~torn => InOrder(db, acked)) /\ bounds \in CatalogSetups BY DEF CatalogInv
<1>4. k \in InUse(db)
  <2>1. n \in Names BY <1>1, <1>3
  <2>2. db.tbl[k].Name = n BY <1>1 DEF Found
  <2> QED BY <2>1, <2>2 DEF InUse
<1>5. conn[c].Table \in InUse(db) \cup {NULL} BY InUseIs
<1>6. PICK e : e = Leave(db, conn[c].Table) OBVIOUS
<1>7. AfterLeave(db, conn[c].Table, e) /\ (~torn => InOrder(e, acked)) BY <1>3, <1>5, <1>6, LeaveIs
<1>8. k \in InUse(e) /\ Sane(e) BY <1>1, <1>4, <1>7 DEF AfterLeave
<1>9. db' = [e EXCEPT !.tbl[k].locks = @ + 1] BY <1>1, <1>6
<1>10. AfterLock(e, k, db') /\ \A a : InOrder(e, a) => InOrder(db', a) BY <1>8, <1>9, LockAgain
<1>11. PICK r : r = [Table |-> k, Filters |-> NULL] OBVIOUS
<1>12. r \in ConnRec /\ r.Filters = NULL /\ r.Table = k BY <1>11 DEF ConnRec
<1>13. ASSUME NEW x \in Connections, x # c, conn[x].Table # NULL
       PROVE  db'.tbl[conn[x].Table].Name = db.tbl[conn[x].Table].Name
  <2>1. conn[x].Table \in InUse(e) /\ e.tbl[conn[x].Table].Name = db.tbl[conn[x].Table].Name
    BY <1>3, <1>7, <1>13, OthersStay
  <2>2. conn[x].Table \in Copies BY <2>1 DEF InUse
  <2> QED BY <1>10, <2>1, <2>2 DEF AfterLock
<1>14. \A i \in Copies : db'.tbl[i].locks =
             IF i = r.Table
               THEN IF i = conn[c].Table THEN db.tbl[i].locks ELSE db.tbl[i].locks + 1
               ELSE IF i = conn[c].Table THEN db.tbl[i].locks - 1 ELSE db.tbl[i].locks
  BY <1>1, <1>7, <1>10, <1>12 DEF AfterLeave, AfterLock
<1>15. \A l \in Names : db'.disk[l].head = db.disk[l].head BY <1>7, <1>10 DEF AfterLeave, AfterLock
<1> QED BY <1>1, <1>2, <1>7, <1>10, <1>11, <1>12, <1>13, <1>14, <1>15, Turns DEF AfterLock

(* The walk along Next meets the tables of the list one after the other.    *)
LEMMA WalkIs ==
    ASSUME NEW d, NEW m \in Nat, NEW f, Chain(d, m, f)
    PROVE  /\ DOMAIN Walk(d) = 0 .. Cardinality(Copies)
           /\ \A i \in 0 .. Cardinality(Copies) : Walk(d)[i] = IF i < m THEN f[i + 1] ELSE NULL
<1> DEFINE at[i \in 0 .. Cardinality(Copies)] ==
             IF i = 0 THEN d.Tables
             ELSE IF at[i - 1] = NULL THEN NULL ELSE d.tbl[at[i - 1]].Next
<1> USE CatalogAssumption
<1>1. PICK N \in Nat : N = Cardinality(Copies) BY FS_CardinalityType
<1>2. PICK g : g = [i \in 0 .. N |-> IF i < m THEN f[i + 1] ELSE NULL] OBVIOUS
<1>3. \A i \in 0 .. N : g[i] = IF i = 0 THEN d.Tables
                               ELSE IF g[i - 1] = NULL THEN NULL ELSE d.tbl[g[i - 1]].Next
  <2> TAKE i \in 0 .. N
  <2>1. CASE i = 0 BY <1>2, <2>1 DEF Chain
  <2>2. CASE i # 0
    <3>1. i - 1 \in 0 .. N /\ g[i - 1] = (IF i - 1 < m THEN f[i] ELSE NULL) /\ g[i] = (IF i < m THEN f[i + 1] ELSE NULL)
      BY <1>2, <2>2
    <3>2. CASE i - 1 < m
      <4>1. i \in 1 .. m /\ f[i] \in Copies BY <2>2, <3>2 DEF Chain, Lists
      <4>2. d.tbl[f[i]].Next = IF i = m THEN NULL ELSE f[i + 1] BY <4>1 DEF Chain
      <4>3. i < m <=> i # m BY <4>1
      <4> QED BY <2>2, <3>1, <3>2, <4>1, <4>2, <4>3
    <3>3. CASE ~(i - 1 < m)
      <4>1. ~(i < m) BY <3>3
      <4> QED BY <2>2, <3>1, <3>3, <4>1
    <3> QED BY <3>2, <3>3
  <2> QED BY <2>1, <2>2
<1>4. g = [i \in 0 .. Cardinality(Copies) |-> IF i = 0 THEN d.Tables
                                              ELSE IF g[i - 1] = NULL THEN NULL ELSE d.tbl[g[i - 1]].Next]
  BY <1>1, <1>2, <1>3
<1>5. at = [i \in 0 .. Cardinality(Copies) |-> IF i = 0 THEN d.Tables
                                               ELSE IF at[i - 1] = NULL THEN NULL ELSE d.tbl[at[i - 1]].Next]
  BY <1>4, Zenon
<1>6. Walk(d) = at BY DEF Walk
<1> HIDE DEF at
<1> DEFINE S == {i \in 0 .. N : at[i] # g[i]}
<1>7. S = {}
  <2>1. SUFFICES ASSUME S # {} PROVE FALSE OBVIOUS
  <2>2. S \subseteq Nat OBVIOUS
  <2>3. PICK l \in S : \A y \in S : l <= y
    <3> HIDE DEF S
    <3> QED BY <2>1, <2>2, LeastIs
  <2>4. l \in 0 .. N /\ at[l] # g[l] OBVIOUS
  <2>5. l # 0 BY <1>1, <1>3, <1>5, <2>4
  <2>6. l - 1 \in 0 .. N /\ l - 1 \notin S BY <2>3, <2>4, <2>5
  <2>7. at[l - 1] = g[l - 1] BY <2>6
  <2> QED BY <1>1, <1>3, <1>5, <2>4, <2>5, <2>7
<1>8. \A i \in 0 .. N : at[i] = g[i] BY <1>7
<1> QED BY <1>1, <1>2, <1>5, <1>6, <1>8

(* Whoever looks for a table finds it if it is in memory.                   *)
LEMMA ListedIs ==
    ASSUME NEW d, Chained(d)
    PROVE  Listed(d) = InUse(d) /\ Walk(d)[Cardinality(InUse(d))] = NULL
<1> USE CatalogAssumption
<1>1. PICK m \in Nat : \E f \in [1 .. m -> Copies] : Chain(d, m, f) BY DEF Chained
<1>2. PICK f \in [1 .. m -> Copies] : Chain(d, m, f) BY <1>1
<1>3. PICK N \in Nat : N = Cardinality(Copies) BY FS_CardinalityType
<1>4. DOMAIN Walk(d) = 0 .. N /\ \A i \in 0 .. N : Walk(d)[i] = IF i < m THEN f[i + 1] ELSE NULL
  BY <1>2, <1>3, WalkIs
<1>5. Cardinality(InUse(d)) = m
  <2>1. f \in Bijection(1 .. m, InUse(d)) BY <1>2 DEF Chain, Lists, Bijection, Injection, Surjection, IsInjective
  <2>2. IsFiniteSet(1 .. m) /\ Cardinality(1 .. m) = m BY FS_Interval
  <2> QED BY <2>1, <2>2, FS_Bijection DEF ExistsBijection
<1>6. m <= N BY <1>3, <1>5, FS_Subset DEF InUse
<1>7. \A k \in Listed(d) : k \in InUse(d)
  <2> TAKE k \in Listed(d)
  <2>1. PICK i \in 0 .. N : k = Walk(d)[i] /\ k # NULL BY <1>4 DEF Listed
  <2>2. i < m /\ k = f[i + 1] BY <1>4, <2>1
  <2>3. i + 1 \in 1 .. m BY <2>2
  <2> QED BY <1>2, <2>2, <2>3 DEF Chain, Lists
<1>8. \A k \in InUse(d) : k \in Listed(d)
  <2> TAKE k \in InUse(d)
  <2>1. PICK j \in 1 .. m : k = f[j] BY <1>2 DEF Chain, Lists
  <2>2. j - 1 \in 0 .. N /\ j - 1 < m /\ (j - 1) + 1 = j BY <1>6
  <2>3. Walk(d)[j - 1] = k BY <1>4, <2>1, <2>2
  <2>4. k # NULL BY DEF InUse
  <2> QED BY <1>4, <2>2, <2>3, <2>4 DEF Listed
<1>9. Walk(d)[m] = NULL BY <1>4, <1>6
<1> QED BY <1>5, <1>7, <1>8, <1>9

(* TBLSELECT of a table that is not in memory                               *)
LEMMA SelectFileInv ==
    ASSUME CatalogInv, bounds' = bounds, NEW c \in Connections, SelectFile(c)
    PROVE  CatalogInv'
<1> USE CatalogAssumption
<1>1. PICK k : k = Block(db) OBVIOUS
<1>2. PICK n \in bounds.names :
        /\ Found(n) = {} /\ db.disk[n].head = "full"
        /\ db' = Leave(Link(db, k, Read(n)), conn[c].Table)
        /\ conn' = [conn EXCEPT ![c] = [Table |-> k, Filters |-> NULL]]
  BY <1>1 DEF SelectFile
<1>3. busy' = NoCreation /\ acked' = acked /\ torn' = torn BY DEF SelectFile, NotCreating
<1>4. Sane(db) /\ (~torn => InOrder(db, acked)) /\ bounds \in CatalogSetups BY DEF CatalogInv
<1>5. k \in Copies \ InUse(db) BY <1>1, OneIsFree, BlockIs DEF InUse
<1>6. n \in Names BY <1>4
<1>7. PICK t : t = Read(n) OBVIOUS
<1>8. /\ t.Name = n /\ t.rows = db.disk[n].rows /\ Loads(db, t)
  <2>1. db.disk[n] \in FileRec BY <1>4, <1>6 DEF Sane, DbRec
  <2>2. t = [Name |-> n, locks |-> 1, Next |-> NULL, Prev |-> NULL,
             Index |-> db.disk[n].Index, rows |-> db.disk[n].rows, DFile |-> db.disk[n].body]
    BY <1>7 DEF Read, Free
  <2> QED BY <1>2, <1>6, <2>1, <2>2 DEF Loads, TableRec, FileRec
<1>9. PICK e : e = Link(db, k, t) OBVIOUS
<1>10. Sane(e) /\ LinkedTo(db, k, t, e) BY <1>4, <1>5, <1>8, <1>9, LinkIs
<1>11. ~torn => InOrder(e, acked)
  <2> SUFFICES ASSUME ~torn PROVE InOrder(e, acked) OBVIOUS
  <2>1. Listed(db) = InUse(db) BY <1>4, ListedIs DEF InOrder
  <2>2. \A i \in InUse(db) : db.tbl[i].Name # t.Name BY <1>2, <1>8, <2>1 DEF Found
  <2>3. db.disk[t.Name].body => acked[t.Name] = t.rows BY <1>4, <1>6, <1>8, <2>2 DEF InOrder, Holds
  <2> QED BY <1>4, <1>5, <1>8, <1>9, <2>2, <2>3, LinkInOrder
<1>12. /\ \A i \in Copies : e.tbl[i].locks = IF i = k THEN 1 ELSE db.tbl[i].locks
       /\ \A i \in Copies : i # k => e.tbl[i].Name = db.tbl[i].Name
       /\ InUse(e) = InUse(db) \cup {k} /\ e.disk = db.disk
  <2>1. t \in TableRec /\ t.locks = 1 BY <1>8 DEF Loads
  <2>2. \A i \in Copies : db.tbl[i] \in TableRec BY <1>4 DEF Sane, DbRec
  <2> QED BY <1>5, <1>10, <2>1, <2>2 DEF LinkedTo, TableRec
<1>13. conn[c].Table \in InUse(e) \cup {NULL} /\ conn[c].Table # k BY <1>5, <1>12, InUseIs
<1>14. AfterLeave(e, conn[c].Table, db') /\ (~torn => InOrder(db', acked))
  BY <1>2, <1>7, <1>9, <1>10, <1>11, <1>13, LeaveIs
<1>15. PICK r : r = [Table |-> k, Filters |-> NULL] OBVIOUS
<1>16. r \in ConnRec /\ r.Filters = NULL /\ r.Table = k BY <1>5, <1>15 DEF ConnRec
<1>17. db.tbl[k].locks = 0
  <2>1. db.tbl[k] \in TableRec BY <1>4, <1>5 DEF Sane, DbRec
  <2> QED BY <1>4, <1>5, <2>1 DEF Sane, InUse, TableRec
<1>18. \A i \in Copies : db'.tbl[i].locks =
             IF i = r.Table
               THEN IF i = conn[c].Table THEN db.tbl[i].locks ELSE db.tbl[i].locks + 1
               ELSE IF i = conn[c].Table THEN db.tbl[i].locks - 1 ELSE db.tbl[i].locks
  BY <1>12, <1>13, <1>14, <1>16, <1>17 DEF AfterLeave
<1>19. ASSUME NEW x \in Connections, x # c, conn[x].Table # NULL
       PROVE  db'.tbl[conn[x].Table].Name = db.tbl[conn[x].Table].Name
  <2>1. \A i \in InUse(db) : i \in InUse(e) /\ e.tbl[i].locks = db.tbl[i].locks
    BY <1>5, <1>12 DEF InUse
  <2>2. db'.tbl[conn[x].Table].Name = e.tbl[conn[x].Table].Name BY <1>10, <1>14, <1>19, <2>1, OthersStay
  <2>3. conn[x].Table \in InUse(db) /\ conn[x].Table \in Copies /\ conn[x].Table # k BY <1>5, <1>19, InUseIs DEF InUse
  <2> QED BY <1>12, <2>2, <2>3
<1>20. \A n_ \in Names : db'.disk[n_].head = db.disk[n_].head BY <1>12, <1>14 DEF AfterLeave
<1> QED BY <1>2, <1>3, <1>14, <1>15, <1>16, <1>18, <1>19, <1>20, Turns DEF AfterLeave

(* A step that leaves connections, copies and history alone                 *)
LEMMA SameConnections ==
    ASSUME CatalogInv, bounds' = bounds, conn' = conn, Sane(db'), Started',
           acked' \in [Names -> SUBSET Nat], torn' \in BOOLEAN,
           \A i \in Copies : db'.tbl[i].locks = db.tbl[i].locks /\ db'.tbl[i].Name = db.tbl[i].Name,
           \A n \in Names : db'.disk[n].head = "absent" => acked'[n] = {},
           ~torn' => InOrder(db', acked')
    PROVE  CatalogInv'
<1>1. \A k \in Copies : Cardinality(Users(k))' = Cardinality(Users(k)) BY DEF Users
<1>2. /\ conn \in [Connections -> ConnRec] /\ bounds \in CatalogSetups
      /\ \A k \in Copies : db.tbl[k].locks = Cardinality(Users(k))
      /\ \A x \in Connections : conn[x].Filters # NULL =>
           conn[x].Table # NULL /\ db.tbl[conn[x].Table].Name = conn[x].Filters
  BY DEF CatalogInv
<1>3. \A x \in Connections : conn[x].Filters # NULL =>
           conn[x].Table # NULL /\ db'.tbl[conn[x].Table].Name = conn[x].Filters
  BY <1>2 DEF ConnRec
<1> QED BY <1>1, <1>2, <1>3 DEF CatalogInv

(* A release of a table that was never linked: the list loses its head, but *)
(* that is noted unless it had none.                                        *)
LEMMA ReleaseUnlinkedInv ==
    ASSUME CatalogInv, bounds' = bounds, ReleaseUnlinked
    PROVE  CatalogInv'
<1> USE CatalogAssumption
<1>1. /\ db' = [db EXCEPT !.Tables = NULL] /\ torn' = (torn \/ db.Tables # NULL)
      /\ conn' = conn /\ busy' = busy /\ acked' = acked
  BY DEF ReleaseUnlinked
<1>2. Sane(db) /\ db \in DbRec /\ acked \in [Names -> SUBSET Nat] /\ torn \in BOOLEAN /\ (~torn => InOrder(db, acked))
  BY DEF CatalogInv, Sane
<1>3. db'.tbl = db.tbl /\ db'.disk = db.disk /\ db' \in DbRec BY <1>1, <1>2 DEF DbRec
<1>4. InUse(db') = InUse(db) BY <1>3 DEF InUse
<1>5. Sane(db') BY <1>2, <1>3, <1>4 DEF Sane
<1>6. ~torn' => InOrder(db', acked')
  <2> SUFFICES ASSUME ~torn' PROVE InOrder(db', acked') OBVIOUS
  <2>1. ~torn /\ db.Tables = NULL BY <1>1
  <2>2. db' = db BY <1>1, <1>2, <2>1 DEF DbRec
  <2> QED BY <1>1, <1>2, <2>1, <2>2
<1>7. Started' BY <1>1, <1>3, <1>4 DEF CatalogInv, Started
<1>8. torn' \in BOOLEAN BY <1>1, <1>2
<1>9. \A n \in Names : db'.disk[n].head = "absent" => acked'[n] = {} BY <1>1, <1>3 DEF CatalogInv
<1> QED BY <1>1, <1>2, <1>3, <1>5, <1>6, <1>7, <1>8, <1>9, SameConnections

(* A creation writes a file of a table that nobody has in memory.           *)
AfterFile(d, n, w, e) ==
    /\ Sane(e) /\ e.tbl = d.tbl /\ InUse(e) = InUse(d) /\ e.disk[n] = w
    /\ \A l \in Names : l # n => e.disk[l] = d.disk[l]

LEMMA FileIs ==
    ASSUME NEW d, Sane(d), NEW n \in Names, \A i \in InUse(d) : d.tbl[i].Name # n,
           NEW w \in FileRec, w.rows = {}, w.body => w.head = "full"
    PROVE  LET e == [d EXCEPT !.disk = [d.disk EXCEPT ![n] = w]]
           IN AfterFile(d, n, w, e) /\ \A a : InOrder(d, a) /\ a[n] = {} => InOrder(e, a)
<1> PICK e : e = [d EXCEPT !.disk = [d.disk EXCEPT ![n] = w]] OBVIOUS
<1>1. d \in DbRec BY DEF Sane
<1>2. /\ e \in DbRec /\ e.tbl = d.tbl /\ e.Tables = d.Tables /\ e.disk[n] = w
      /\ \A l \in Names : l # n => e.disk[l] = d.disk[l]
  BY <1>1 DEF DbRec
<1>3. InUse(e) = InUse(d) /\ \A i \in InUse(d) : i \in Copies /\ d.tbl[i].Name \in Names
  BY <1>1, <1>2 DEF InUse, DbRec, TableRec
<1>4. Sane(e)
  <2>1. \A i \in InUse(e) : e.disk[e.tbl[i].Name].head = "full" /\ e.tbl[i].DFile = e.disk[e.tbl[i].Name].body
    BY <1>2, <1>3 DEF Sane
  <2>2. \A l \in Names : (e.disk[l].body => e.disk[l].head = "full") /\ (~e.disk[l].body => e.disk[l].rows = {})
    BY <1>2 DEF Sane
  <2> QED BY <1>2, <2>1, <2>2 DEF Sane
<1>5. ASSUME NEW a, InOrder(d, a), a[n] = {} PROVE InOrder(e, a)
  <2>1. Single(e) BY <1>2, <1>3, <1>5 DEF InOrder, Single
  <2>2. Holds(e, a)
    <3>1. Holds(d, a) BY <1>5 DEF InOrder
    <3>2. ASSUME NEW i \in InUse(e), e.disk[e.tbl[i].Name].body PROVE a[e.tbl[i].Name] = e.tbl[i].rows
      <4>1. i \in InUse(d) /\ d.tbl[i].Name \in Names /\ d.tbl[i].Name # n BY <1>3
      <4>2. e.disk[d.tbl[i].Name] = d.disk[d.tbl[i].Name] BY <1>2, <4>1
      <4> QED BY <1>2, <3>1, <3>2, <4>1, <4>2 DEF Holds
    <3>3. ASSUME NEW l \in Names, e.disk[l].body, \A i \in InUse(e) : e.tbl[i].Name # l PROVE a[l] = e.disk[l].rows
      <4>1. CASE l = n BY <1>2, <1>5, <4>1
      <4>2. CASE l # n
        <5>1. \A i \in InUse(d) : d.tbl[i].Name # l BY <1>2, <1>3, <3>3
        <5> QED BY <1>2, <3>1, <3>3, <4>2, <5>1 DEF Holds
      <4> QED BY <4>1, <4>2
    <3> QED BY <3>2, <3>3 DEF Holds
  <2>3. PICK m \in Nat : \E f \in [1 .. m -> Copies] : Chain(d, m, f) BY <1>5 DEF InOrder, Chained
  <2>4. PICK f \in [1 .. m -> Copies] : Chain(d, m, f) BY <2>3
  <2>5. Chain(e, m, f) BY <1>2, <1>3, <2>4 DEF Chain
  <2> QED BY <2>1, <2>2, <2>5 DEF InOrder, Chained
<1>6. AfterFile(d, n, w, e) BY <1>2, <1>3, <1>4 DEF AfterFile
<1> QED BY <1>5, <1>6

(* The header file of a new table                                           *)
LEMMA CreateBeginInv ==
    ASSUME CatalogInv, bounds' = bounds, NEW c \in Connections, CreateBegin(c)
    PROVE  CatalogInv'
<1>1. PICK n \in bounds.names : /\ db.disk[n].head = "absent" /\ db' = [db EXCEPT !.disk[n].head = "empty"]
                                /\ busy' = [step |-> "head", c |-> c, name |-> n]
  BY DEF CreateBegin
<1>2. conn' = conn /\ acked' = acked /\ torn' = torn BY DEF CreateBegin
<1>3. /\ Sane(db) /\ (~torn => InOrder(db, acked)) /\ acked \in [Names -> SUBSET Nat] /\ torn \in BOOLEAN
      /\ n \in Names /\ acked[n] = {}
  BY <1>1, CatalogAssumption DEF CatalogInv
<1>4. \A i \in InUse(db) : db.tbl[i].Name # n BY <1>1, <1>3 DEF Sane
<1>5. ~db.disk[n].body /\ db.disk[n].rows = {} /\ db.disk[n] \in FileRec BY <1>1, <1>3 DEF Sane, DbRec
<1>6. PICK w : w = [db.disk[n] EXCEPT !.head = "empty"] OBVIOUS
<1>7. w \in FileRec /\ w.rows = {} /\ ~w.body /\ w.head = "empty" BY <1>5, <1>6 DEF FileRec
<1>8. db' = [db EXCEPT !.disk = [db.disk EXCEPT ![n] = w]] BY <1>1, <1>6
<1>9. AfterFile(db, n, w, db') /\ (~torn => InOrder(db', acked)) BY <1>3, <1>4, <1>7, <1>8, FileIs
<1>10. Started'
  <2>1. busy' \in [step : {"head", "body"}, c : Connections, name : Names] BY <1>1, <1>3
  <2>2. busy'.step = "head" /\ busy'.name = n BY <1>1
  <2>3. \A k \in InUse(db') : db'.tbl[k].Name # n BY <1>4, <1>9 DEF AfterFile
  <2>4. db'.disk[n].head = "empty" /\ ~db'.disk[n].body BY <1>7, <1>9 DEF AfterFile
  <2> QED BY <1>2, <1>3, <2>1, <2>2, <2>3, <2>4 DEF Started
<1>11. \A l \in Names : db'.disk[l].head = "absent" => acked'[l] = {}
  BY <1>2, <1>7, <1>9 DEF AfterFile, CatalogInv
<1> QED BY <1>2, <1>3, <1>9, <1>10, <1>11, SameConnections DEF AfterFile

(* The header                                                               *)
LEMMA CreateHeadInv ==
    ASSUME CatalogInv, bounds' = bounds, CreateHead
    PROVE  CatalogInv'
<1> PICK n : n = busy.name OBVIOUS
<1>1. /\ busy.step = "head" /\ db' = [db EXCEPT !.disk[n].head = "full"] /\ busy' = [busy EXCEPT !.step = "body"]
      /\ conn' = conn /\ acked' = acked /\ torn' = torn
  BY DEF CreateHead
<1>2. /\ busy \in [step : {"head", "body"}, c : Connections, name : Names]
      /\ ~db.disk[n].body /\ acked[n] = {} /\ \A k \in InUse(db) : db.tbl[k].Name # n
  BY <1>1 DEF CatalogInv, Started, NoCreation
<1>3. Sane(db) /\ (~torn => InOrder(db, acked)) /\ acked \in [Names -> SUBSET Nat] /\ torn \in BOOLEAN /\ n \in Names
  BY <1>2 DEF CatalogInv
<1>4. db.disk[n].rows = {} /\ db.disk[n] \in FileRec BY <1>2, <1>3 DEF Sane, DbRec
<1>5. PICK w : w = [db.disk[n] EXCEPT !.head = "full"] OBVIOUS
<1>6. w \in FileRec /\ w.rows = {} /\ ~w.body /\ w.head = "full" BY <1>2, <1>4, <1>5 DEF FileRec
<1>7. db' = [db EXCEPT !.disk = [db.disk EXCEPT ![n] = w]] BY <1>1, <1>5
<1>8. AfterFile(db, n, w, db') /\ (~torn => InOrder(db', acked)) BY <1>2, <1>3, <1>6, <1>7, FileIs
<1>9. Started'
  <2>1. busy' \in [step : {"head", "body"}, c : Connections, name : Names] /\ busy'.step = "body" /\ busy'.name = n
    BY <1>1, <1>2
  <2>2. \A k \in InUse(db') : db'.tbl[k].Name # n BY <1>2, <1>8 DEF AfterFile
  <2>3. db'.disk[n].head = "full" /\ ~db'.disk[n].body BY <1>6, <1>8 DEF AfterFile
  <2> QED BY <1>1, <1>2, <2>1, <2>2, <2>3 DEF Started
<1>10. \A l \in Names : db'.disk[l].head = "absent" => acked'[l] = {}
  BY <1>1, <1>6, <1>8 DEF AfterFile, CatalogInv
<1> QED BY <1>1, <1>3, <1>8, <1>9, <1>10, SameConnections DEF AfterFile

(* The data file: the old table is left, then the new one linked.           *)
LEMMA CreateEndInv ==
    ASSUME CatalogInv, bounds' = bounds, CreateEnd
    PROVE  CatalogInv'
<1> USE CatalogAssumption
<1> PICK n : n = busy.name OBVIOUS
<1> PICK c : c = busy.c OBVIOUS
<1> PICK d : d = [db EXCEPT !.disk[n].body = TRUE] OBVIOUS
<1> PICK old : old = Leave(d, conn[c].Table) OBVIOUS
<1> PICK k : k = Block(old) OBVIOUS
<1> PICK t : t = [Free EXCEPT !.Name = n, !.locks = 1, !.DFile = TRUE] OBVIOUS
<1>1. /\ busy.step = "body" /\ db' = Link(old, k, t) /\ conn' = [conn EXCEPT ![c] = [Table |-> k, Filters |-> NULL]]
      /\ busy' = NoCreation /\ acked' = acked /\ torn' = torn
  BY DEF CreateEnd
<1>2. /\ busy \in [step : {"head", "body"}, c : Connections, name : Names]
      /\ db.disk[n].head = "full" /\ ~db.disk[n].body /\ acked[n] = {} /\ \A i \in InUse(db) : db.tbl[i].Name # n
  BY <1>1 DEF CatalogInv, Started, NoCreation
<1>3. Sane(db) /\ (~torn => InOrder(db, acked)) /\ n \in Names /\ c \in Connections BY <1>2 DEF CatalogInv
<1>4. db.disk[n].rows = {} /\ db.disk[n] \in FileRec BY <1>2, <1>3 DEF Sane, DbRec
<1>5. PICK w : w = [db.disk[n] EXCEPT !.body = TRUE] OBVIOUS
<1>6. w \in FileRec /\ w.rows = {} /\ w.body /\ w.head = "full" BY <1>2, <1>4, <1>5 DEF FileRec
<1>7. d = [db EXCEPT !.disk = [db.disk EXCEPT ![n] = w]] BY <1>5
<1>8. AfterFile(db, n, w, d) /\ (~torn => InOrder(d, acked))
  <2>1. w.body => w.head = "full" BY <1>6
  <2> QED BY ONLY <1>2, <1>3, <1>6, <1>7, <2>1, FileIs
<1>a. Sane(d) /\ d.tbl = db.tbl /\ InUse(d) = InUse(db) /\ d.disk[n] = w /\ \A l \in Names : l # n => d.disk[l] = db.disk[l]
  BY <1>8 DEF AfterFile
<1>9. conn[c].Table \in InUse(d) \cup {NULL} BY <1>3, <1>a, InUseIs
<1>10. AfterLeave(d, conn[c].Table, old) /\ (~torn => InOrder(old, acked)) BY <1>8, <1>9, <1>a, LeaveIs
<1>b. /\ Sane(old)
      /\ \A i \in Copies : old.tbl[i].locks = IF i = conn[c].Table THEN d.tbl[conn[c].Table].locks - 1 ELSE d.tbl[i].locks
      /\ \A i \in InUse(old) : i \in InUse(d) /\ old.tbl[i].Name = d.tbl[i].Name
      /\ \A l \in Names : old.disk[l].head = d.disk[l].head /\ old.disk[l].body = d.disk[l].body
  BY <1>10 DEF AfterLeave
<1>11. k \in Copies \ InUse(old)
  <2>1. InUse(old) # Copies
    <3>1. \A i \in InUse(old) : i \in InUse(db) BY <1>a, <1>b
    <3>2. InUse(db) # Copies BY OneIsFree
    <3> QED BY <3>1, <3>2 DEF InUse
  <2> QED BY <2>1, BlockIs DEF InUse
<1>12. \A i \in InUse(old) : old.tbl[i].Name # n
  <2> TAKE i \in InUse(old)
  <2>1. i \in InUse(d) /\ old.tbl[i].Name = d.tbl[i].Name BY <1>b
  <2>2. i \in InUse(db) /\ old.tbl[i].Name = db.tbl[i].Name BY <1>a, <2>1
  <2> QED BY <1>2, <2>2
<1>13. /\ t \in TableRec /\ t.Name = n /\ t.locks = 1 /\ t.DFile = TRUE /\ t.rows = {}
  BY <1>3 DEF Free, TableRec
<1>14. old.disk[n].head = "full" /\ old.disk[n].body BY <1>3, <1>6, <1>a, <1>b
<1>15. Loads(old, t)
  <2>1. old.disk[n].body = TRUE
    <3>1. w.body = TRUE BY <1>5, <1>4 DEF FileRec
    <3> QED BY <1>3, <1>a, <1>b, <3>1
  <2> QED BY <1>3, <1>13, <1>14, <2>1 DEF Loads
<1>16. Sane(old) BY <1>b
<1>17. Sane(db') /\ LinkedTo(old, k, t, db') BY <1>1, <1>11, <1>15, <1>16, LinkIs
<1>18. ~torn => InOrder(db', acked')
  <2>1. \A i \in InUse(old) : old.tbl[i].Name # t.Name BY <1>12, <1>13
  <2>2. acked[t.Name] = t.rows BY <1>2, <1>13
  <2> SUFFICES ASSUME ~torn PROVE InOrder(db', acked') OBVIOUS
  <2>3. InOrder(old, acked) BY <1>10
  <2>4. old.disk[t.Name].body => acked[t.Name] = t.rows BY <2>2
  <2>5. InOrder(Link(old, k, t), acked) BY ONLY <1>11, <1>15, <1>16, <2>1, <2>3, <2>4, LinkInOrder
  <2> QED BY <1>1, <2>5
<1>19. PICK r : r = [Table |-> k, Filters |-> NULL] OBVIOUS
<1>20. r \in ConnRec /\ r.Filters = NULL /\ r.Table = k BY <1>11, <1>19 DEF ConnRec
<1>21. /\ \A i \in Copies : db'.tbl[i].locks = IF i = k THEN 1 ELSE old.tbl[i].locks
       /\ \A i \in Copies : i # k => db'.tbl[i].Name = old.tbl[i].Name
       /\ db'.disk = old.disk
  <2>1. \A i \in Copies : old.tbl[i] \in TableRec BY <1>16 DEF Sane, DbRec
  <2>2. /\ db'.disk = old.disk /\ db'.tbl[k] = [t EXCEPT !.Next = old.Tables, !.Prev = NULL]
        /\ \A i \in Copies : i # k => db'.tbl[i] = IF i = old.Tables THEN [old.tbl[i] EXCEPT !.Prev = k] ELSE old.tbl[i]
    BY <1>17 DEF LinkedTo
  <2>3. db'.tbl[k].locks = 1 BY <1>13, <2>2 DEF TableRec
  <2>4. \A i \in Copies : i # k => db'.tbl[i].locks = old.tbl[i].locks /\ db'.tbl[i].Name = old.tbl[i].Name
    <3> TAKE i \in Copies
    <3>1. PICK s \in TableRec : s = old.tbl[i] BY <2>1
    <3>2. i # k => db'.tbl[i] = IF i = old.Tables THEN [s EXCEPT !.Prev = k] ELSE s BY <2>2, <3>1
    <3> QED BY <3>1, <3>2 DEF TableRec
  <2> QED BY <2>2, <2>3, <2>4
<1>22. old.tbl[k].locks = 0
  <2>1. old.tbl[k] \in TableRec BY <1>11, <1>16 DEF Sane, DbRec
  <2>2. old.tbl[k].Name = NULL BY <1>11 DEF InUse
  <2>3. ~(old.tbl[k].locks > 0) BY <1>11, <1>16, <2>2 DEF Sane
  <2> QED BY <2>1, <2>3 DEF TableRec
<1>23. \A i \in Copies : db'.tbl[i].locks =
             IF i = r.Table
               THEN IF i = conn[c].Table THEN db.tbl[i].locks ELSE db.tbl[i].locks + 1
               ELSE IF i = conn[c].Table THEN db.tbl[i].locks - 1 ELSE db.tbl[i].locks
  <2> TAKE i \in Copies
  <2>1. d.tbl = db.tbl /\ db.tbl[i].locks \in Nat BY <1>3, <1>a DEF Sane, DbRec, TableRec
  <2>2. old.tbl[i].locks = IF i = conn[c].Table THEN db.tbl[i].locks - 1 ELSE db.tbl[i].locks
    BY <1>b, <2>1
  <2> QED BY <1>11, <1>20, <1>21, <1>22, <2>1, <2>2
<1>24. ASSUME NEW x \in Connections, x # c, conn[x].Table # NULL
       PROVE  db'.tbl[conn[x].Table].Name = db.tbl[conn[x].Table].Name
  <2>1. \A i \in InUse(db) : i \in InUse(d) /\ d.tbl[i].locks = db.tbl[i].locks BY <1>a
  <2>2. conn[x].Table \in InUse(old) /\ old.tbl[conn[x].Table].Name = d.tbl[conn[x].Table].Name
    BY ONLY CatalogInv, <1>3, <1>a, <1>10, <1>24, <2>1, OthersStay
  <2>3. conn[x].Table \in Copies /\ conn[x].Table # k BY <1>11, <2>2 DEF InUse
  <2> QED BY <1>a, <1>21, <2>2, <2>3
<1>25. \A l \in Names : db'.disk[l].head = db.disk[l].head
  <2> TAKE l \in Names
  <2>1. d.disk[l].head = db.disk[l].head BY <1>2, <1>6, <1>a
  <2>2. old.disk[l].head = d.disk[l].head BY <1>b
  <2> QED BY <1>21, <2>1, <2>2
<1>26. Sane(db') BY <1>17
<1>27. conn' = [conn EXCEPT ![c] = r] BY <1>1, <1>19
<1>28. ~torn => InOrder(db', acked) BY <1>1, <1>18
<1>29. torn' = torn /\ acked' = acked /\ busy' = NoCreation BY <1>1
<1>30. c \in Connections /\ r \in ConnRec /\ r.Filters = NULL BY <1>3, <1>20
<1> QED BY ONLY CatalogInv, bounds' = bounds, <1>23, <1>24, <1>25, <1>26, <1>27, <1>28, <1>29, <1>30, Turns

----------------------------------------------------------------------------
(* A row that is added to a table, or its writing to the files              *)
AfterFill(d, k, s, w, e) ==
    /\ Sane(e) /\ e.disk = w /\ e.tbl[k] = s /\ InUse(e) = InUse(d)
    /\ \A i \in Copies : e.tbl[i].locks = d.tbl[i].locks /\ e.tbl[i].Name = d.tbl[i].Name
    /\ \A n \in Names : w[n].head = d.disk[n].head

(* s is the table t with other rows.                                        *)
Refilled(t, s) ==
    /\ s \in TableRec /\ s.Name = t.Name /\ s.locks = t.locks /\ s.DFile = t.DFile
    /\ s.Next = t.Next /\ s.Prev = t.Prev

(* b acknowledges the rows of s.                                            *)
Acknowledges(d, a, b, s) ==
    /\ \A n \in Names : n # s.Name => b[n] = a[n]
    /\ d.disk[s.Name].body => b[s.Name] = s.rows

(* An insert changes one table and at most its own files.                   *)
LEMMA FillIs ==
    ASSUME NEW d, Sane(d), NEW k \in InUse(d), NEW w, w \in {d.disk, Written(d.disk, d.tbl[k])},
           NEW s, Refilled(d.tbl[k], s)
    PROVE  LET e == [d EXCEPT !.disk = w, !.tbl = [d.tbl EXCEPT ![k] = s]]
           IN /\ AfterFill(d, k, s, w, e)
              /\ \A a, b : InOrder(d, a) /\ Acknowledges(d, a, b, s) => InOrder(e, b)
<1> PICK e : e = [d EXCEPT !.disk = w, !.tbl = [d.tbl EXCEPT ![k] = s]] OBVIOUS
<1> PICK t : t = d.tbl[k] OBVIOUS
<1>1. k \in Copies /\ d \in DbRec /\ t \in TableRec BY DEF Sane, InUse, DbRec
<1>2. t.Name \in Names /\ t.Name # NULL /\ s.Name = t.Name /\ s \in TableRec
  BY <1>1, CatalogAssumption DEF InUse, TableRec, Refilled
<1>3. /\ w \in [Names -> FileRec]
      /\ \A n \in Names : /\ w[n].head = d.disk[n].head /\ w[n].body = d.disk[n].body
                          /\ n # t.Name => w[n] = d.disk[n]
                          /\ ~d.disk[n].body => w[n].rows = d.disk[n].rows
  <2>1. CASE w = d.disk BY <1>1, <2>1 DEF DbRec
  <2>2. CASE w = Written(d.disk, t)
    <3>1. w \in [Names -> FileRec] /\ \A n \in Names : SyncedFile(d, t, w, n) BY <2>2, WrittenIs
    <3> QED BY <3>1 DEF SyncedFile
  <2> QED BY <2>1, <2>2
<1>4. e.disk = w /\ e.tbl = [d.tbl EXCEPT ![k] = s] /\ e.Tables = d.Tables BY <1>1 DEF DbRec
<1>5. e.tbl[k] = s /\ \A i \in Copies : i # k => e.tbl[i] = d.tbl[i] BY <1>1, <1>4 DEF DbRec
<1>6. e \in DbRec BY <1>1, <1>2, <1>3 DEF DbRec
<1>7. \A i \in Copies : /\ e.tbl[i].Name = d.tbl[i].Name /\ e.tbl[i].locks = d.tbl[i].locks
                        /\ e.tbl[i].DFile = d.tbl[i].DFile
                        /\ e.tbl[i].Next = d.tbl[i].Next /\ e.tbl[i].Prev = d.tbl[i].Prev
  BY <1>5 DEF Refilled
<1>8. InUse(e) = InUse(d) BY <1>7 DEF InUse
<1>9. \A i \in InUse(d) : i \in Copies /\ d.tbl[i].Name \in Names
  BY <1>1 DEF InUse, DbRec, TableRec
<1>10. Sane(e)
  <2>1. \A i \in Copies : e.tbl[i].Name # NULL <=> e.tbl[i].locks > 0 BY <1>7 DEF Sane
  <2>2. \A i \in InUse(e) : e.disk[e.tbl[i].Name].head = "full" /\ e.tbl[i].DFile = e.disk[e.tbl[i].Name].body
    BY <1>3, <1>4, <1>7, <1>8, <1>9 DEF Sane
  <2>3. \A n \in Names : (e.disk[n].body => e.disk[n].head = "full") /\ (~e.disk[n].body => e.disk[n].rows = {})
    BY <1>3, <1>4 DEF Sane
  <2> QED BY <1>6, <2>1, <2>2, <2>3 DEF Sane
<1>11. ASSUME NEW a, NEW b, InOrder(d, a), Acknowledges(d, a, b, s) PROVE InOrder(e, b)
  <2>1. Single(d) /\ Holds(d, a) /\ Chained(d) BY <1>11 DEF InOrder
  <2>2. Single(e) BY <1>7, <1>8, <1>9, <2>1 DEF Single
  <2>3. PICK m \in Nat : \E f \in [1 .. m -> Copies] : Chain(d, m, f) BY <2>1 DEF Chained
  <2>4. PICK f \in [1 .. m -> Copies] : Chain(d, m, f) BY <2>3
  <2>5. Chain(e, m, f) BY <1>4, <1>7, <1>8, <2>4 DEF Chain
  <2>6. /\ \A n \in Names : n # t.Name => b[n] = a[n]
        /\ d.disk[t.Name].body => b[t.Name] = s.rows
    BY <1>2, <1>11 DEF Acknowledges
  <2>7. ASSUME NEW i \in InUse(e), e.disk[e.tbl[i].Name].body PROVE b[e.tbl[i].Name] = e.tbl[i].rows
    <3>1. i \in InUse(d) /\ i \in Copies /\ d.tbl[i].Name \in Names /\ e.tbl[i].Name = d.tbl[i].Name BY <1>7, <1>8, <1>9
    <3>2. d.disk[d.tbl[i].Name].body BY <1>3, <1>4, <2>7, <3>1
    <3>3. CASE i = k BY <1>2, <1>5, <2>6, <3>1, <3>2, <3>3
    <3>4. CASE i # k
      <4>1. d.tbl[i].Name # t.Name BY <2>1, <3>1, <3>4 DEF Single
      <4>2. a[d.tbl[i].Name] = d.tbl[i].rows BY <2>1, <3>1, <3>2 DEF Holds
      <4> QED BY <1>5, <2>6, <3>1, <3>4, <4>1, <4>2
    <3> QED BY <3>3, <3>4
  <2>8. ASSUME NEW n \in Names, e.disk[n].body, \A i \in InUse(e) : e.tbl[i].Name # n PROVE b[n] = e.disk[n].rows
    <3>1. n # t.Name BY <1>1, <1>7, <1>8, <2>8
    <3>2. \A i \in InUse(d) : d.tbl[i].Name # n BY <1>7, <1>8, <1>9, <2>8
    <3>3. a[n] = d.disk[n].rows BY <1>3, <1>4, <2>1, <2>8, <3>2 DEF Holds
    <3> QED BY <1>3, <1>4, <2>6, <3>1, <3>3
  <2>9. Holds(e, b) BY <2>7, <2>8 DEF Holds
  <2> QED BY <2>2, <2>5, <2>9 DEF InOrder, Chained
<1>12. AfterFill(d, k, s, w, e) BY <1>3, <1>4, <1>5, <1>7, <1>8, <1>10 DEF AfterFill
<1> QED BY <1>11, <1>12

(* An insert: the row is acknowledged and in the copy in memory.            *)
LEMMA InsertRowInv ==
    ASSUME CatalogInv, bounds' = bounds, NEW c \in Connections, InsertRow(c)
    PROVE  CatalogInv'
<1> USE CatalogAssumption
<1> PICK k : k = conn[c].Table OBVIOUS
<1> PICK t : t = db.tbl[k] OBVIOUS
<1>1. PICK w : /\ w \in {db.disk, Written(db.disk, t)}
               /\ db' = [db EXCEPT !.disk = w, !.tbl[k] = [t EXCEPT !.Index = @ + 1, !.rows = @ \cup {t.Index + 1}]]
  BY DEF InsertRow
<1>2. /\ acked' = [acked EXCEPT ![t.Name] = @ \cup {t.Index + 1}]
      /\ conn' = conn /\ busy' = busy /\ busy = NoCreation /\ torn' = torn /\ k # NULL
  BY DEF InsertRow, NotCreating
<1>3. Sane(db) /\ (~torn => InOrder(db, acked)) /\ acked \in [Names -> SUBSET Nat] /\ torn \in BOOLEAN BY DEF CatalogInv
<1>4. k \in InUse(db) BY <1>2, InUseIs
<1>5. k \in Copies /\ db \in DbRec /\ t \in TableRec /\ t.Name \in Names /\ t.Index + 1 \in Nat /\ db.disk[t.Name].head = "full"
  BY <1>3, <1>4 DEF Sane, InUse, DbRec, TableRec
<1>6. PICK s : s = [t EXCEPT !.Index = t.Index + 1, !.rows = t.rows \cup {t.Index + 1}] OBVIOUS
<1>7. Refilled(t, s) /\ s.rows = t.rows \cup {t.Index + 1} /\ s.Name = t.Name BY <1>5, <1>6 DEF TableRec, Refilled
<1>8. db' = [db EXCEPT !.disk = w, !.tbl = [db.tbl EXCEPT ![k] = s]]
  <2>1. db' = [db EXCEPT !.disk = w, !.tbl[k] = s] BY <1>1, <1>6
  <2> QED BY <2>1
<1>9. AfterFill(db, k, s, w, db') /\ \A a, b : InOrder(db, a) /\ Acknowledges(db, a, b, s) => InOrder(db', b)
  <2>1. w \in {db.disk, Written(db.disk, db.tbl[k])} /\ Refilled(db.tbl[k], s) BY <1>1, <1>7
  <2> QED BY ONLY <1>3, <1>4, <1>8, <2>1, FillIs
<1>10. acked' \in [Names -> SUBSET Nat] /\ acked'[t.Name] = acked[t.Name] \cup {t.Index + 1}
       /\ \A n \in Names : n # t.Name => acked'[n] = acked[n]
  BY <1>2, <1>3, <1>5
<1>11. ~torn' => InOrder(db', acked')
  <2> SUFFICES ASSUME ~torn PROVE InOrder(db', acked') BY <1>2
  <2>1. db.disk[t.Name].body => acked[t.Name] = t.rows BY <1>3, <1>4 DEF InOrder, Holds
  <2>2. Acknowledges(db, acked, acked', s) BY <1>7, <1>10, <2>1 DEF Acknowledges
  <2> QED BY <1>3, <1>9, <2>2
<1>12. Started' BY <1>2 DEF Started
<1>13. /\ Sane(db') /\ \A i \in Copies : db'.tbl[i].locks = db.tbl[i].locks /\ db'.tbl[i].Name = db.tbl[i].Name
       /\ \A n \in Names : db'.disk[n].head = db.disk[n].head
  BY <1>9 DEF AfterFill
<1>14. \A n \in Names : db'.disk[n].head = "absent" => acked'[n] = {}
  <2> SUFFICES ASSUME NEW n \in Names, db'.disk[n].head = "absent" PROVE acked'[n] = {} OBVIOUS
  <2>1. db.disk[n].head = "absent" /\ n # t.Name BY <1>5, <1>13
  <2> QED BY <1>10, <2>1 DEF CatalogInv
<1>15. torn' \in BOOLEAN BY <1>2, <1>3
<1> QED BY ONLY CatalogInv, bounds' = bounds, <1>2, <1>10, <1>11, <1>12, <1>13, <1>14, <1>15, SameConnections

(* The writing of a table                                                   *)
LEMMA FlushInv ==
    ASSUME CatalogInv, bounds' = bounds, NEW c \in Connections, Flush(c)
    PROVE  CatalogInv'
<1> USE CatalogAssumption
<1> PICK k : k = conn[c].Table OBVIOUS
<1> PICK t : t = db.tbl[k] OBVIOUS
<1> PICK w : w = Written(db.disk, t) OBVIOUS
<1>1. /\ db' = [db EXCEPT !.disk = w]
      /\ acked' = acked /\ conn' = conn /\ busy' = busy /\ busy = NoCreation /\ torn' = torn /\ k # NULL
  BY DEF Flush, NotCreating
<1>2. Sane(db) /\ (~torn => InOrder(db, acked)) /\ acked \in [Names -> SUBSET Nat] /\ torn \in BOOLEAN BY DEF CatalogInv
<1>3. k \in InUse(db) BY <1>1, InUseIs
<1>4. k \in Copies /\ db \in DbRec /\ t \in TableRec BY <1>2, <1>3 DEF Sane, InUse, DbRec
<1>5. Refilled(t, t) BY <1>4 DEF Refilled
<1>6. db' = [db EXCEPT !.disk = w, !.tbl = [db.tbl EXCEPT ![k] = t]]
  <2>1. db.tbl = [db.tbl EXCEPT ![k] = t] BY <1>4 DEF DbRec
  <2> QED BY <1>1, <1>4, <2>1 DEF DbRec
<1>7. AfterFill(db, k, t, w, db') /\ \A a, b : InOrder(db, a) /\ Acknowledges(db, a, b, t) => InOrder(db', b)
  BY <1>2, <1>3, <1>5, <1>6, FillIs
<1>8. ~torn' => InOrder(db', acked')
  <2> SUFFICES ASSUME ~torn PROVE InOrder(db', acked') BY <1>1
  <2>1. db.disk[t.Name].body => acked[t.Name] = t.rows BY <1>2, <1>3 DEF InOrder, Holds
  <2>2. Acknowledges(db, acked, acked', t) BY <1>1, <2>1 DEF Acknowledges
  <2> QED BY <1>2, <1>7, <2>2
<1>9. Started' BY <1>1 DEF Started
<1>10. /\ Sane(db') /\ \A i \in Copies : db'.tbl[i].locks = db.tbl[i].locks /\ db'.tbl[i].Name = db.tbl[i].Name
       /\ \A n \in Names : db'.disk[n].head = db.disk[n].head
  BY <1>7 DEF AfterFill
<1>11. \A n \in Names : db'.disk[n].head = "absent" => acked'[n] = {} BY <1>1, <1>10 DEF CatalogInv
<1>12. torn' \in BOOLEAN /\ acked' \in [Names -> SUBSET Nat] BY <1>1, <1>2
<1> QED BY ONLY CatalogInv, bounds' = bounds, <1>1, <1>8, <1>9, <1>10, <1>11, <1>12, SameConnections

(* The definition of a filter for the table selected                        *)
LEMMA DefineFilterInv ==
    ASSUME CatalogInv, bounds' = bounds, NEW c \in Connections, DefineFilter(c)
    PROVE  CatalogInv'
<1> USE CatalogAssumption
<1> PICK k : k = conn[c].Table OBVIOUS
<1> PICK r : r = [conn[c] EXCEPT !.Filters = db.tbl[k].Name] OBVIOUS
<1>1. conn' = [conn EXCEPT ![c] = r] /\ db' = db /\ acked' = acked /\ busy' = busy /\ torn' = torn /\ k # NULL
  BY DEF DefineFilter
<1>2. Sane(db) /\ conn \in [Connections -> ConnRec] BY DEF CatalogInv
<1>3. k \in Copies /\ db.tbl[k] \in TableRec BY <1>1, <1>2 DEF Sane, DbRec, ConnRec
<1>4. r \in ConnRec /\ r.Table = k /\ r.Filters = db.tbl[k].Name
  <2>1. conn[c] \in ConnRec BY <1>2
  <2> QED BY <1>3, <2>1 DEF ConnRec, TableRec
<1>5. conn' \in [Connections -> ConnRec] /\ \A x \in Connections : conn'[x].Table = conn[x].Table
  BY <1>1, <1>2, <1>4
<1>6. \A l \in Copies : db'.tbl[l].locks = Cardinality(Users(l)')
  <2> TAKE l \in Copies
  <2>1. Users(l)' = Users(l) BY <1>5 DEF Users
  <2> QED BY <1>1, <2>1 DEF CatalogInv
<1>7. ASSUME NEW x \in Connections, conn'[x].Filters # NULL
      PROVE  conn'[x].Table # NULL /\ db'.tbl[conn'[x].Table].Name = conn'[x].Filters
  <2>1. CASE x = c BY <1>1, <1>2, <1>4, <2>1
  <2>2. CASE x # c BY <1>1, <1>2, <1>7, <2>2 DEF CatalogInv
  <2> QED BY <2>1, <2>2
<1>8. Started' BY <1>1 DEF CatalogInv, Started
<1> QED BY <1>1, <1>5, <1>6, <1>7, <1>8 DEF CatalogInv

(* A server without tables in memory, as it is started                      *)
AtRest(d, a, o) ==
    /\ d.Tables = NULL /\ d.tbl = [k \in Copies |-> Free]
    /\ d \in DbRec /\ a \in [Names -> SUBSET Nat] /\ o = [c \in Connections |-> Unselected]
    /\ \A n \in Names : /\ d.disk[n].body => d.disk[n].head = "full"
                        /\ ~d.disk[n].body => d.disk[n].rows = {}
                        /\ a[n] = d.disk[n].rows

LEMMA AtRestIs ==
    ASSUME NEW d, NEW a, NEW o, AtRest(d, a, o)
    PROVE  /\ Sane(d) /\ InOrder(d, a) /\ o \in [Connections -> ConnRec]
           /\ \A c \in Connections : o[c].Filters = NULL
           /\ \A k \in Copies : d.tbl[k].locks = Cardinality({c \in Connections : o[c].Table = k})
           /\ \A n \in Names : d.disk[n].head = "absent" => a[n] = {}
<1> USE CatalogAssumption DEF AtRest
<1>1. \A k \in Copies : d.tbl[k] = Free /\ k # NULL OBVIOUS
<1>2. Free.Name = NULL /\ Free.locks = 0 BY DEF Free
<1>3. InUse(d) = {} BY <1>1, <1>2 DEF InUse
<1>4. Sane(d) BY <1>1, <1>2, <1>3 DEF Sane
<1>5. Unselected \in ConnRec /\ Unselected.Table = NULL /\ Unselected.Filters = NULL BY DEF Unselected, ConnRec
<1>6. \A k \in Copies : d.tbl[k].locks = Cardinality({c \in Connections : o[c].Table = k})
  <2> TAKE k \in Copies
  <2>1. {c \in Connections : o[c].Table = k} = {} BY <1>1, <1>5
  <2> QED BY <1>1, <1>2, <2>1, FS_EmptySet
<1>7. InOrder(d, a)
  <2>1. PICK f : f = [i \in 1 .. 0 |-> i] OBVIOUS
  <2>2. f \in [1 .. 0 -> Copies] BY <2>1
  <2>3. Lists(f, 0, InUse(d)) BY <1>3, <2>2 DEF Lists
  <2>4. Chain(d, 0, f) BY <2>3 DEF Chain
  <2>5. Chained(d) BY <2>2, <2>4 DEF Chained
  <2>6. Single(d) /\ Holds(d, a) BY <1>3 DEF Single, Holds
  <2> QED BY <2>5, <2>6 DEF InOrder
<1>8. \A n \in Names : d.disk[n].head = "absent" => a[n] = {} OBVIOUS
<1>9. o \in [Connections -> ConnRec] /\ \A c \in Connections : o[c].Filters = NULL BY <1>5
<1> QED BY <1>4, <1>6, <1>7, <1>8, <1>9

(* The server dies: the files are what it finds when it is started again.   *)
LEMMA ServerDiesInv ==
    ASSUME CatalogInv, bounds' = bounds, ServerDies
    PROVE  CatalogInv'
<1>1. /\ db' = [db EXCEPT !.Tables = NULL, !.tbl = [k \in Copies |-> Free]]
      /\ conn' = [c \in Connections |-> Unselected] /\ busy' = NoCreation
      /\ acked' = [n \in Names |-> db.disk[n].rows] /\ torn' = FALSE
  BY DEF ServerDies
<1>2. Sane(db) /\ db \in DbRec /\ bounds \in CatalogSetups BY DEF CatalogInv, Sane
<1>3. AtRest(db', acked', conn')
  <2>1. Free \in TableRec BY DEF Free, TableRec
  <2>2. db' \in DbRec /\ db'.disk = db.disk /\ db'.Tables = NULL /\ db'.tbl = [k \in Copies |-> Free]
    BY <1>1, <1>2, <2>1 DEF DbRec
  <2>3. acked' \in [Names -> SUBSET Nat] BY <1>1, <1>2 DEF DbRec, FileRec
  <2>4. \A n \in Names : /\ db'.disk[n].body => db'.disk[n].head = "full"
                         /\ ~db'.disk[n].body => db'.disk[n].rows = {}
    BY <1>2, <2>2 DEF Sane
  <2> QED BY <1>1, <2>2, <2>3, <2>4 DEF AtRest
<1>4. acked' \in [Names -> SUBSET Nat] BY <1>3 DEF AtRest
<1>5. /\ Sane(db') /\ InOrder(db', acked') /\ conn' \in [Connections -> ConnRec]
      /\ \A c \in Connections : conn'[c].Filters = NULL
      /\ \A k \in Copies : db'.tbl[k].locks = Cardinality({c \in Connections : conn'[c].Table = k})
      /\ \A n \in Names : db'.disk[n].head = "absent" => acked'[n] = {}
  BY <1>3, AtRestIs
<1>6. Started' BY <1>1 DEF Started
<1> QED BY <1>1, <1>2, <1>4, <1>5, <1>6 DEF CatalogInv, Users

(* At the start there are no files yet.                                     *)
LEMMA CatalogStarts == CatalogInit => CatalogInv
<1> SUFFICES ASSUME CatalogInit PROVE CatalogInv OBVIOUS
<1> USE DEF CatalogInit
<1>1. AtRest(db, acked, conn)
  <2>1. Free \in TableRec /\ NoFile \in FileRec BY DEF Free, TableRec, NoFile, FileRec
  <2>2. NoFile.body = FALSE /\ NoFile.rows = {} BY DEF NoFile
  <2> QED BY <2>1, <2>2 DEF AtRest, DbRec
<1>2. acked \in [Names -> SUBSET Nat] BY <1>1 DEF AtRest
<1>3. /\ Sane(db) /\ InOrder(db, acked) /\ conn \in [Connections -> ConnRec]
      /\ \A c \in Connections : conn[c].Filters = NULL
      /\ \A k \in Copies : db.tbl[k].locks = Cardinality({c \in Connections : conn[c].Table = k})
      /\ \A n \in Names : db.disk[n].head = "absent" => acked[n] = {}
  BY <1>1, AtRestIs
<1>4. Started BY DEF Started
<1> QED BY <1>2, <1>3, <1>4 DEF CatalogInv, Users

(* Selections, creations, inserts, ends of connections and crashes keep it. *)
LEMMA CatalogInvariant == CatalogSpec => []CatalogInv
<1>1. ASSUME CatalogInv, [CatalogNext]_catalogVars PROVE CatalogInv'
  <2>1. CASE UNCHANGED catalogVars
    <3>1. /\ bounds' = bounds /\ db' = db /\ conn' = conn /\ busy' = busy /\ acked' = acked /\ torn' = torn
      BY <2>1 DEF catalogVars
    <3>2. \A k \in Copies : Users(k)' = Users(k) BY <3>1 DEF Users
    <3>3. Started' BY <1>1, <3>1 DEF CatalogInv, Started
    <3> QED BY <1>1, <3>1, <3>2, <3>3 DEF CatalogInv
  <2>2. CASE CatalogNext
    <3>1. bounds' = bounds /\ bounds.clients \subseteq Connections
      BY <1>1, <2>2, CatalogAssumption DEF CatalogNext, CatalogInv
    <3>2. ASSUME NEW c \in bounds.clients,
                 \/ SelectLoaded(c) \/ SelectFile(c) \/ SelectEmpty(c)
                 \/ CreateRefused(c) \/ CreateBegin(c) \/ Close(c)
                 \/ DefineFilter(c) \/ InsertRow(c) \/ Flush(c)
          PROVE  CatalogInv'
      <4> c \in Connections BY <3>1
      <4>1. CASE SelectLoaded(c) BY <1>1, <3>1, <4>1, SelectLoadedInv
      <4>2. CASE SelectFile(c) BY <1>1, <3>1, <4>2, SelectFileInv
      <4>3. CASE SelectEmpty(c) \/ CreateRefused(c)
        <5>1. ReleaseUnlinked BY <4>3 DEF SelectEmpty, CreateRefused
        <5> QED BY <1>1, <3>1, <5>1, ReleaseUnlinkedInv
      <4>4. CASE CreateBegin(c) BY <1>1, <3>1, <4>4, CreateBeginInv
      <4>5. CASE Close(c) BY <1>1, <3>1, <4>5, CloseInv
      <4>6. CASE DefineFilter(c) BY <1>1, <3>1, <4>6, DefineFilterInv
      <4>7. CASE InsertRow(c) BY <1>1, <3>1, <4>7, InsertRowInv
      <4>8. CASE Flush(c) BY <1>1, <3>1, <4>8, FlushInv
      <4> QED BY <3>2, <4>1, <4>2, <4>3, <4>4, <4>5, <4>6, <4>7, <4>8
    <3>3. CASE CreateHead BY <1>1, <3>1, <3>3, CreateHeadInv
    <3>4. CASE CreateEnd BY <1>1, <3>1, <3>4, CreateEndInv
    <3>5. CASE ServerDies BY <1>1, <3>1, <3>5, ServerDiesInv
    <3> QED BY <2>2, <3>2, <3>3, <3>4, <3>5 DEF CatalogNext, CatalogStep
  <2> QED BY <1>1, <2>1, <2>2
<1> QED BY <1>1, CatalogStarts, PTL DEF CatalogSpec

(* The server counts the connections to each table and keeps it in memory   *)
(* as long as there is one; every table in memory is found through the      *)
(* list, once, and no acknowledged row is lost, in memory or in the files,  *)
(* unless the list was torn by a creation that was refused.                 *)
THEOREM CatalogTablesAreWhole == CatalogSpec => []TablesAreWhole
<1>1. ASSUME CatalogInv PROVE TablesAreWhole
  <2>1. Loaded = InUse(db) BY DEF Loaded, InUse
  <2>2. LocksCountUsers
    <3>1. \A k \in InUse(db) : k # NULL BY CatalogAssumption DEF InUse
    <3>2. \A k \in InUse(db) : k \in {conn[c].Table : c \in Connections} BY <1>1, InUseIs DEF InUse
    <3>3. \A c \in Connections : conn[c].Table \in InUse(db) \cup {NULL} BY <1>1, InUseIs
    <3>4. Loaded = {conn[c].Table : c \in Connections} \ {NULL} BY <2>1, <3>1, <3>2, <3>3
    <3> QED BY <1>1, <3>4 DEF LocksCountUsers, CatalogInv, Users
  <2>3. ASSUME ~torn PROVE ListIsWhole /\ NothingMislaid
    <3>1. Chained(db) /\ Single(db) /\ Holds(db, acked) BY <1>1, <2>3 DEF CatalogInv, InOrder
    <3>2. ListIsWhole BY <2>1, <3>1, ListedIs DEF ListIsWhole, Single
    <3>3. NothingMislaid
      <4> SUFFICES ASSUME NEW n \in Names, db.disk[n].body
                   PROVE  acked[n] = IF \E k \in Loaded : db.tbl[k].Name = n
                                       THEN db.tbl[CHOOSE k \in Loaded : db.tbl[k].Name = n].rows
                                       ELSE db.disk[n].rows
        BY DEF NothingMislaid
      <4>1. CASE \E k \in Loaded : db.tbl[k].Name = n
        <5>1. PICK l : l = CHOOSE k \in Loaded : db.tbl[k].Name = n OBVIOUS
        <5>2. l \in Loaded /\ db.tbl[l].Name = n BY <4>1, <5>1
        <5>3. acked[n] = db.tbl[l].rows BY <2>1, <3>1, <5>2 DEF Holds
        <5> QED BY <4>1, <5>1, <5>3
      <4>2. CASE ~\E k \in Loaded : db.tbl[k].Name = n BY <2>1, <3>1, <4>2 DEF Holds
      <4> QED BY <4>1, <4>2
    <3> QED BY <3>2, <3>3
  <2> QED BY <2>2, <2>3 DEF TablesAreWhole
<1> QED BY <1>1, CatalogInvariant, PTL
=============================================================================
