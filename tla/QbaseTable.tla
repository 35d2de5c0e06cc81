----------------------------- MODULE QbaseTable -----------------------------
(***************************************************************************)
(* One table of the Qbase server (QX-base): rows in pages of PageRows, at  *)
(* most LockPages of them in memory, the last one always among them; the   *)
(* header with the autoincrement Index; the two files; and the cursor and  *)
(* the filter that each client keeps in its OCB.                           *)
(*                                                                         *)
(* The resource manager library holds the attribute structure during a     *)
(* request (default lock_ocb), so one request is served at a time: req.    *)
(* The requests that walk along the table take one step per page, those    *)
(* that write several files one step per file, so that the server can die  *)
(* in between.  A row is its primary key and one unsigned number.          *)
(***************************************************************************)
EXTENDS Integers, Sequences, FiniteSets, SequencesExt

CONSTANTS Clients,    \* connections (OCBs)
          LockPages,  \* pages the table may keep in memory
          Filters,    \* filters a client may define: flags, a value, STRICT or not
          Width,      \* how many values the number has (2^16, 2^32)
          Setups      \* sizes and bounds of a behaviour, one record each:
                      \*   clients   those of Clients that connect
                      \*   pagerows  rows of a page
                      \*   filters   bound on the filters of a client
                      \*   rows      bound on Index
                      \*   fails     bound on failed inserts
                      \*   updates   bound on UPDATE, UPDCUR and DELETE requests
                      \*   rules     update rules in use
                      \*   crashes   bound on crashes of the server

ASSUME TableAssumption ==
    /\ LockPages \in Nat /\ LockPages >= 3      \* QBASE_E_FEWPLOCKS otherwise
    /\ Width \in Nat \ {0}
    /\ Filters \subseteq [flags : SUBSET {"EQ", "G", "L"}, value : 0 .. (Width - 1), strict : BOOLEAN]
    /\ Setups \subseteq [clients : SUBSET Clients, pagerows : Nat \ {0}, filters : Nat,
                         rows : Nat, fails : Nat, updates : Nat, crashes : Nat,
                         rules : SUBSET [how : {"set", "add", "sub", "mul", "div"}, value : 0 .. (Width - 1)]]
    \* an update that divides by 0 ends the server
    /\ \A s \in Setups : \A u \in s.rules : u.how = "div" => u.value # 0

VARIABLES
    setup,    \* the member of Setups this behaviour has; never changes
    Index,    \* Table->Index: rows inserted, the last primary key
    Pages,    \* the list of pages in memory; the last element is LastPage
    PLocks,   \* number of pages in memory
    DFile,    \* data file: page number -> rows
    HFile,    \* header file: Index when the header was written last
    open,     \* the table is in memory
    ocb,      \* per client: Record (the cursor) and Filters, the newest first
    req,      \* the request being served
    answer,   \* what the last read returned
    rows,     \* history: what the clients made of the table
    flushed,  \* history: the table when it was flushed last
    dropped,  \* history: a page was replaced in memory although it had to be written
    fails, updates, crashes

tableVars == <<Index, Pages, PLocks, open>>
fileVars == <<DFile, HFile>>
countVars == <<fails, updates, crashes>>
histVars == <<flushed, dropped>>
vars == <<setup, tableVars, fileVars, ocb, req, answer, rows, histVars, countVars>>

PageRows == setup.pagerows
MaxRows == setup.rows

Slots == 0 .. (PageRows - 1)
PageNums == 0 .. (MaxRows \div PageRows)
Junk == [key |-> 0, num |-> 0]       \* a deleted row, or a slot never written
NoReq == [op |-> "none"]
Fresh == [Record |-> 0, Filters |-> <<>>]

EmptyPage(n) == [Index |-> n, LastRow |-> 0, NeedSync |-> FALSE, Data |-> [s \in Slots |-> Junk]]

(* TBLCREATE *)
Init ==
    /\ setup \in Setups
    /\ Index = 0 /\ Pages = <<EmptyPage(0)>> /\ PLocks = 1 /\ open = TRUE
    /\ DFile = [n \in PageNums |-> [s \in Slots |-> Junk]] /\ HFile = 0
    /\ ocb = [c \in Clients |-> Fresh]
    /\ req = NoReq /\ answer = "none"
    /\ rows = <<>> /\ flushed = <<>> /\ dropped = FALSE
    /\ fails = 0 /\ updates = 0 /\ crashes = 0

LastPage == Pages[Len(Pages)]

Least(S) == CHOOSE x \in S : \A y \in S : x <= y

Page(n) == n \div PageRows
Slot(n) == n % PageRows

----------------------------------------------------------------------------
(* Qbase_PageSync: the file after page p was written if it is dirty *)
Synced(f, p) == IF p.NeedSync THEN [f EXCEPT ![p.Index] = p.Data] ELSE f

Clean(p) == [p EXCEPT !.NeedSync = FALSE]

(* Every page of the list written (the second half of Qbase_TableSync) *)
SyncedAll_slip == Synced(DFile, LastPage)
SyncedAll ==
    [n \in PageNums |->
       IF \E i \in DOMAIN Pages : Pages[i].Index = n /\ Pages[i].NeedSync
         THEN Pages[CHOOSE i \in DOMAIN Pages : Pages[i].Index = n].Data
         ELSE DFile[n]]

(* LockTablePage: the list, the number of pages, the file and the position  *)
(* of page n in the list.  A page that is not in memory is read in front of *)
(* the first page with a greater number, if there is room; otherwise that   *)
(* page is replaced, unless it is LastPage: then the first page of the list *)
(* moves there, written to the file before.                                 *)
ReadPage(f, n) == [Index |-> n, LastRow |-> PageRows, NeedSync |-> FALSE, Data |-> f[n]]

(* The list when the first page is reused in front of LastPage at i *)
Recycled_slip(f, n, i) == SubSeq(Pages, 1, i - 1) \o <<ReadPage(f, n), Pages[i]>>
Recycled(f, n, i) == SubSeq(Pages, 2, i - 1) \o <<ReadPage(f, n), Pages[i]>>

RecycledFile == Synced(DFile, Pages[1])

(* The page is in the list or can be read: no number is greater than LastPage's *)
Reachable(n) == \E i \in DOMAIN Pages : Pages[i].Index >= n

LockTablePage(n) ==
    LET i == CHOOSE j \in DOMAIN Pages :
                Pages[j].Index >= n /\ \A k \in 1 .. (j - 1) : Pages[k].Index < n
    IN CASE Pages[i].Index = n ->
              [pages |-> Pages, locks |-> PLocks, file |-> DFile, at |-> i, drops |-> FALSE]
         [] Pages[i].Index > n /\ PLocks < LockPages ->
              [pages |-> InsertAt(Pages, i, ReadPage(DFile, n)), locks |-> PLocks + 1,
               file |-> DFile, at |-> i, drops |-> FALSE]
         [] Pages[i].Index > n /\ PLocks >= LockPages /\ i = Len(Pages) ->
              [pages |-> Recycled(RecycledFile, n, i), locks |-> PLocks,
               file |-> RecycledFile, at |-> i - 1, drops |-> FALSE]
         [] Pages[i].Index > n /\ PLocks >= LockPages /\ i < Len(Pages) ->
              [pages |-> [Pages EXCEPT ![i] = ReadPage(DFile, n)], locks |-> PLocks,
               file |-> DFile, at |-> i, drops |-> Pages[i].NeedSync]

(* Qbase_filter_uint and its like: any comparison asked for suffices *)
Meets(f, n) ==
    \/ "EQ" \in f.flags /\ n = f.value
    \/ "G" \in f.flags /\ n > f.value
    \/ "L" \in f.flags /\ n < f.value

(* Qbase_data_filter: 1 (all rules are met), 0, or -1 (a strict one is not) *)
Accepts(fs, row) ==
    LET broken == {i \in DOMAIN fs : ~Meets(fs[i], row.num)}
    IN CASE row.key = 0 -> 0
         [] row.key # 0 /\ broken = {} -> 1
         [] row.key # 0 /\ broken # {} -> IF fs[Least(broken)].strict THEN -1 ELSE 0

----------------------------------------------------------------------------
Idle == open /\ req = NoReq

(* Qbase_write.  A full last page is written out and its memory reused for  *)
(* the next one, the rows of the old page still in it.                      *)
TurnedPage_slip == [LastPage EXCEPT !.Index = @ + 1, !.LastRow = 0]
TurnedPage ==
    IF LastPage.LastRow >= PageRows
      THEN [LastPage EXCEPT !.Index = @ + 1, !.LastRow = 0, !.NeedSync = FALSE]
      ELSE LastPage

InsertFiles ==
    IF LastPage.LastRow >= PageRows
      THEN DFile' = Synced(DFile, LastPage) /\ HFile' = Index
      ELSE UNCHANGED fileVars

(* The cursor after an insert *)
PostedRecord_slip(key) == key
PostedRecord(key) == key - 1

Insert(c) ==
    /\ Idle /\ Index < MaxRows
    /\ InsertFiles
    /\ Index' = Index + 1
    /\ LET w == TurnedPage
           row == [key |-> Index + 1, num |-> 0]
       IN Pages' = [Pages EXCEPT ![Len(Pages)] =
                      [w EXCEPT !.Data[w.LastRow] = row, !.LastRow = @ + 1, !.NeedSync = TRUE]]
    /\ ocb' = [ocb EXCEPT ![c].Record = PostedRecord(Index + 1)]
    /\ rows' = Append(rows, [key |-> Index + 1, num |-> 0])
    /\ answer' = "none"
    /\ UNCHANGED <<PLocks, open, req, histVars, countVars>>

(* resmgr_msgread fails: the key is used up, the row is not added *)
InsertFails(c) ==
    /\ Idle /\ Index < MaxRows /\ fails < setup.fails
    /\ fails' = fails + 1
    /\ InsertFiles
    /\ Index' = Index + 1
    /\ Pages' = [Pages EXCEPT ![Len(Pages)] = TurnedPage]
    /\ answer' = "none"
    /\ UNCHANGED <<PLocks, open, ocb, req, rows, histVars, updates, crashes>>

(* The requests that change the OCB only.  Record is a uint32_t: key 0 is   *)
(* far beyond the end.  FETCHRST is a SEEK to key 1.                        *)
Sought(key) == IF key > 0 /\ key - 1 <= Index THEN key - 1 ELSE 0

SetOcb(c, o) ==
    /\ Idle
    /\ ocb' = [ocb EXCEPT ![c] = o]
    /\ answer' = "none"
    /\ UNCHANGED <<tableVars, fileVars, req, rows, histVars, countVars>>

Seek(c) == \E key \in 0 .. (MaxRows + 1) : SetOcb(c, [ocb[c] EXCEPT !.Record = Sought(key)])

FilterDefine(c) ==
    /\ Len(ocb[c].Filters) < setup.filters
    /\ \E f \in Filters : SetOcb(c, [Record |-> 0, Filters |-> <<f>> \o ocb[c].Filters])

FilterPop(c) ==
    /\ ocb[c].Filters # <<>>
    /\ SetOcb(c, [ocb[c] EXCEPT !.Filters = Tail(@)])

FilterDelete(c) == SetOcb(c, Fresh)

----------------------------------------------------------------------------
(* Requests that walk along the table, one page per step *)
BeginWith(c, op, n, rule) ==
    /\ Idle
    /\ req' = [op |-> op, c |-> c, PIndex |-> Page(n), RIndex |-> Slot(n), TIndex |-> Index,
               rule |-> rule]
    /\ answer' = "none"
    /\ UNCHANGED <<tableVars, fileVars, ocb, rows, histVars, fails, crashes>>

Begin(c, op, n) == BeginWith(c, op, n, "none")

Finish == req' = NoReq

TakePage(l) ==
    /\ PLocks' = l.locks
    /\ DFile' = l.file
    /\ dropped' = (dropped \/ l.drops)

NextPage == [req EXCEPT !.PIndex = @ + 1, !.RIndex = 0]

(* Qbase_read *)
ReadBegin(c) == Begin(c, "read", ocb[c].Record) /\ UNCHANGED updates

Reading == req.op = "read"

ReadStep ==
    /\ Reading /\ ocb[req.c].Record < Index /\ Reachable(req.PIndex)
    /\ LET l == LockTablePage(req.PIndex)
           p == l.pages[l.at]
           o == ocb[req.c]
           hits == {s \in Slots : req.RIndex <= s /\ s < p.LastRow /\ Accepts(o.Filters, p.Data[s]) # 0}
       IN /\ TakePage(l)
          /\ Pages' = l.pages
          /\ IF hits = {}
                THEN /\ ocb' = [ocb EXCEPT ![req.c].Record =
                                    IF req.RIndex < p.LastRow THEN @ + p.LastRow - req.RIndex ELSE @]
                     /\ req' = NextPage
                     /\ UNCHANGED answer
                ELSE LET s == Least(hits)
                         found == Accepts(o.Filters, p.Data[s]) = 1
                     IN /\ ocb' = [ocb EXCEPT ![req.c].Record =
                                       @ + (s - req.RIndex) + IF found THEN 1 ELSE 0]
                        /\ answer' = IF found THEN p.Data[s] ELSE "lastrow"
                        /\ Finish
    /\ UNCHANGED <<Index, open, HFile, rows, flushed, countVars>>

ReadEnd ==
    /\ Reading
    /\ \/ ocb[req.c].Record >= Index /\ answer' = "lastrow"
       \/ ocb[req.c].Record < Index /\ ~Reachable(req.PIndex) /\ answer' = "none"
    /\ Finish
    /\ UNCHANGED <<tableVars, fileVars, ocb, rows, histVars, countVars>>

(* UPDATE, UPDCUR (the row at the cursor only) and DELETE *)
ModifyBegin(c) ==
    /\ updates < setup.updates
    /\ updates' = updates + 1
    /\ \/ Begin(c, "delete", 0)
       \/ \E rule \in setup.rules :
            \/ BeginWith(c, "update", 0, rule)
            \/ BeginWith(c, "updcur", ocb[c].Record, rule)

Modifying == req.op \in {"update", "updcur", "delete"}

(* The update rules, in the arithmetic of the field *)
Ruled(rule, n) ==
    CASE rule.how = "set" -> rule.value
      [] rule.how = "add" -> (n + rule.value) % Width
      [] rule.how = "sub" -> (n - rule.value) % Width
      [] rule.how = "mul" -> (n * rule.value) % Width
      [] rule.how = "div" -> n \div rule.value

Modified(row) ==
    IF req.op = "delete" THEN [row EXCEPT !.key = 0] ELSE [row EXCEPT !.num = Ruled(req.rule, @)]

(* A page changed in memory has to be written some time *)
MarkedDirty_slip(p) == p
MarkedDirty(p) == [p EXCEPT !.NeedSync = TRUE]

ModifyStep ==
    /\ Modifying /\ req.TIndex > 0 /\ Reachable(req.PIndex)
    /\ LET l == LockTablePage(req.PIndex)
           p == l.pages[l.at]
           verdict(s) == Accepts(ocb[req.c].Filters, p.Data[s])
           all == {s \in Slots : req.RIndex <= s /\ s < p.LastRow /\ s < req.RIndex + req.TIndex}
           stop == {s \in all : verdict(s) = -1 \/ req.op = "updcur"}
           seen == {s \in all : \A x \in stop : s <= x}
           hits == {s \in seen : verdict(s) = 1}
           data == [s \in Slots |-> IF s \in hits THEN Modified(p.Data[s]) ELSE p.Data[s]]
           base == req.PIndex * PageRows + 1
       IN /\ TakePage(l)
          /\ Pages' = IF hits = {} THEN l.pages
                      ELSE [l.pages EXCEPT ![l.at] = MarkedDirty([p EXCEPT !.Data = data])]
          /\ rows' = [i \in DOMAIN rows |->
                        IF i - base \in hits THEN Modified(rows[i]) ELSE rows[i]]
          /\ req' = [NextPage EXCEPT !.TIndex = IF stop # {} THEN 0 ELSE @ - Cardinality(all)]
    /\ UNCHANGED <<Index, open, HFile, ocb, answer, flushed, countVars>>

ModifyEnd ==
    /\ Modifying
    /\ req.TIndex = 0 \/ ~Reachable(req.PIndex)
    /\ Finish
    /\ UNCHANGED <<tableVars, fileVars, ocb, answer, rows, histVars, countVars>>

----------------------------------------------------------------------------
(* TBLFLUSH and, when the last client goes, Qbase_TableRelease: the header  *)
(* is written first, then the pages.                                        *)
SyncHead(op) ==
    /\ Idle
    /\ HFile' = Index
    /\ req' = [op |-> op]
    /\ UNCHANGED <<tableVars, DFile, ocb, answer, rows, histVars, countVars>>

FlushBegin == SyncHead("flush")
ReleaseBegin == SyncHead("release")

FlushEnd ==
    /\ req.op = "flush"
    /\ DFile' = SyncedAll
    /\ Pages' = [i \in DOMAIN Pages |-> Clean(Pages[i])]
    /\ flushed' = rows
    /\ Finish
    /\ UNCHANGED <<Index, PLocks, open, HFile, ocb, answer, rows, dropped, countVars>>

ReleaseEnd ==
    /\ req.op = "release"
    /\ DFile' = SyncedAll
    /\ Pages' = <<>> /\ PLocks' = 0 /\ open' = FALSE
    /\ flushed' = rows
    /\ ocb' = [c \in Clients |-> Fresh]
    /\ answer' = "none"
    /\ Finish
    /\ UNCHANGED <<Index, HFile, rows, dropped, countVars>>

(* TBLSELECT of a table that is not in memory: only the last page is read   *)
SelectedLastRow_slip == IF HFile > 0 /\ Slot(HFile) = 0 THEN PageRows ELSE Slot(HFile)
SelectedLastRow == Slot(HFile)

Select ==
    /\ ~open
    /\ open' = TRUE
    /\ Index' = HFile
    /\ Pages' = <<[Index |-> Page(HFile), LastRow |-> SelectedLastRow, NeedSync |-> FALSE,
                   Data |-> DFile[Page(HFile)]]>>
    /\ PLocks' = 1
    /\ UNCHANGED <<fileVars, ocb, req, answer, rows, histVars, countVars>>

FileRow(i) == DFile[Page(i - 1)][Slot(i - 1)]

(* The server dies: what the clients have now is what the files hold *)
Crash ==
    /\ open /\ crashes < setup.crashes
    /\ crashes' = crashes + 1
    /\ Pages' = <<>> /\ PLocks' = 0 /\ open' = FALSE
    /\ ocb' = [c \in Clients |-> Fresh]
    /\ answer' = "none"
    /\ rows' = [i \in 1 .. HFile |-> FileRow(i)]
    /\ flushed' = <<>> /\ dropped' = FALSE
    /\ Finish
    /\ UNCHANGED <<Index, fileVars, fails, updates>>

Step ==
    \/ \E c \in setup.clients :
          \/ Insert(c) \/ InsertFails(c) \/ Seek(c)
          \/ FilterDefine(c) \/ FilterPop(c) \/ FilterDelete(c)
          \/ ReadBegin(c) \/ ModifyBegin(c)
    \/ ReadStep \/ ReadEnd \/ ModifyStep \/ ModifyEnd
    \/ FlushBegin \/ FlushEnd \/ ReleaseBegin \/ ReleaseEnd \/ Select \/ Crash

Next == Step /\ UNCHANGED setup

Spec == Init /\ [][Next]_vars

----------------------------------------------------------------------------
Row == [key : 0 .. MaxRows, num : 0 .. (Width - 1)]

TypeOK ==
    /\ Index \in 0 .. MaxRows /\ HFile \in 0 .. MaxRows /\ open \in BOOLEAN
    /\ Pages \in Seq([Index : PageNums, LastRow : 0 .. PageRows, NeedSync : BOOLEAN,
                       Data : [Slots -> Row]])
    /\ PLocks \in 0 .. LockPages
    /\ DFile \in [PageNums -> [Slots -> Row]]
    /\ \A c \in Clients : ocb[c].Record \in 0 .. MaxRows
    /\ rows \in Seq(Row) /\ flushed \in Seq(Row) /\ dropped \in BOOLEAN

(* The list of pages is sorted without duplicates, PLocks counts it and     *)
(* never exceeds the limit, only LastPage is partly filled, and every       *)
(* variable has its type.                                                   *)
PagesWellFormed == TypeOK /\ (open =>
    /\ Len(Pages) = PLocks /\ PLocks \in 1 .. LockPages
    /\ \A i \in 1 .. (Len(Pages) - 1) :
          Pages[i].Index < Pages[i + 1].Index /\ Pages[i].LastRow = PageRows
    /\ LastPage.LastRow <= PageRows)

(* Qbase_PageSync skips a page whose NeedSync is 0: whatever replaced it,   *)
(* reloaded it or turned it, the rows of such a page are those of the file. *)
CleanPageIsOnDisk ==
    \A i \in DOMAIN Pages : ~Pages[i].NeedSync =>
        \A s \in Slots : s < Pages[i].LastRow => Pages[i].Data[s] = DFile[Pages[i].Index][s]

(* The row at position i as a client sees it: from memory, else from disk.  *)
Content(i) ==
    IF \E k \in DOMAIN Pages : Pages[k].Index = Page(i - 1)
      THEN Pages[CHOOSE k \in DOMAIN Pages : Pages[k].Index = Page(i - 1)].Data[Slot(i - 1)]
      ELSE FileRow(i)

(* The table holds what the clients inserted, updated and deleted, wherever *)
(* its pages happen to be, in memory or in the file.                        *)
TableIsWhole == Index = Len(rows) /\ \A i \in 1 .. Index : Content(i) = rows[i]

(* "The page goes to be sync()-ed next time it is going to be replaced by   *)
(* new one": no change is lost when pages come and go.                      *)
NothingIsLost == open /\ fails = 0 => TableIsWhole

(* Replacing a dirty page in place, and an insert that failed, are the only *)
(* ways to lose anything.                                                   *)
NothingElseIsLost == open /\ fails = 0 /\ ~dropped => TableIsWhole

(* A read returns the first row from the cursor on that passes the filters, *)
(* and none only if there is none or a strict filter stops it (as long as   *)
(* the table is whole).                                                     *)
FirstMatch ==
    LET o == ocb[req.c]
        hits == {i \in (o.Record + 1) .. Len(rows) : Accepts(o.Filters, rows[i]) # 0}
    IN IF hits = {} \/ Accepts(o.Filters, rows[Least(hits)]) = -1 THEN "lastrow" ELSE rows[Least(hits)]

ReadIsRight ==
    [][(Reading /\ req' = NoReq /\ ~Crash /\ fails = 0 /\ ~dropped') => answer' = FirstMatch]_vars

(* A crash, even in the middle of a flush, loses nothing that was flushed   *)
(* before: every such row is in the files as it was or with the one update  *)
(* made since (as long as the table was whole).                             *)
FlushedSurvives ==
    [][(Crash /\ fails = 0 /\ ~dropped /\ updates <= 1) => \A i \in DOMAIN flushed :
         i <= HFile /\ FileRow(i) \in {flushed[i], rows[i]}]_vars

(* "If client reads just after the write operation and there are no filters *)
(* it should get the record that was just posted" (until an insert fails:   *)
(* from then on keys run ahead of the rows).                                *)
PostedIsNext ==
    [][\A c \in Clients : (fails = 0 /\ Insert(c)) =>
         LET n == ocb'[c].Record
         IN /\ Page(n) = LastPage'.Index
            /\ LastPage'.Data[Slot(n)].key = Index']_vars
=============================================================================
