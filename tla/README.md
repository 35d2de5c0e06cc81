# QNXstuff in TLA+

QNXstuff is a set of servers and drivers for a small Internet provider that
runs QNX: a packet filter with billing, a table server, a DNS server, a mail
server and a virus scanner, most of them multi-threaded resource managers in C.
This directory holds TLA+ modules of the parts whose behaviour depends on the
interleaving of threads, on buffers that are reused and on failures between two
steps, the TLC runs that check them on small instances, and theorems checked by
TLAPS.  `PROJECT.json` maps every definition to the lines it stands for.

To check a run: `tlc -config MCQxcLog.cfg MCQxcLog`.
To check proofs: `tlapm QxcProofs.tla`.

## 1. Inventory

| Part | Source | State it keeps | Operations | What is hard |
|---|---|---|---|---|
| nfm-qxc packet log | QX-billing/qxc_logging.c, qxc_rm.c | two shared-memory regions, counter of the active one, rwlock | `log_store_pkt` (io-net threads), `log_swap_log` (resource manager thread) | slots reserved with an atomic add under a *shared* lock; the region is handed to a process that takes no lock |
| nfm-qxc rules | QX-billing/qxc_rules.c, qxc_main.c | two lists of exemptions, two arrays of tree nodes, two rwlocks | `rule_match_*` (io-net threads), `rule_add_*`, `rule_swap_lists` | trees are built in the array that was searched a period ago; nodes are reused |
| billing logger (qxl) | QX-billing/qxl_main.c | lists `crnt_*` and `shdw_*` of cards, accounts and taxes, the mapped log, the day | the endless cycle: load taxes, accounts, cards, swap, open the table of the day, bill, charge | its lists lag behind the filter's rules by one period; when the table of the day fails it exits and the filter goes on; other failures of Qbase it prints and goes on itself |
| end-of-day thread | QX-billing/qxl_eod.c | `log_t_tm`, `log_t_time`, condition | the daily part of the monthly tax, payments | a condition without a predicate; the day and the time of the change read while the logger writes them; failures only printed |
| consistency tool | QX-billing/qxl_consistency.c | none of its own | moves a row of the table of the day to another card and its price from account to account | three updates per row while the logger works on the same tables |
| Qbase table | QX-base/qbase_iofunc.c, qbase_filefunc.c, qbase_filterfunc.c | page cache, head, record position and filters of each client | write, read, seek, filters, update, updcur, delete, flush, select, release | a cache shorter than the table, pages in the cache that the files do not have yet |
| Qbase catalogue | the same | list of tables with reference counts, header and data files | create, select, release, end of a connection | a table released while others have it; a table released that was never linked; a crash between two files |
| QX-dns | QX-dns/main.c | buffers, ready list, free list, queue of queries | receive, resend scan, pool threads | one node type chained into three lists under two mutexes; answers late, twice or never |
| QX-dns cache and zones | QX-dns/cache.c, master.c | cached answers, zones | lookup, insert | which record goes when the cache is full; names found through lists built backwards |
| QX-mail | QX-mail/\*.c | accept list, SMTP and POP3 sessions, stack of messages, mailbox mutexes | see 3.7 | a POP3 session holds its mailbox to its end, spoolers wait for it |
| Qavird | QX-avird/qavird.c | engine in use, statistics, rwlock | SCANFILE, AVBASERELOAD, INFO | the engine is replaced and freed while others scan |
| nfm-ntc | nfm-ntc/main.c, ntc_rm.c | queue of log records, lists of interfaces and of addresses let through | frames and adapters' messages (io-net threads), read and devctl (its own thread) | a reply points into the queue while new frames arrive; a search under one lock, the insertion under another |
| ntcread | ntcread/ntcread.c | cards, sessions not saved yet | start, read, count, save | what was read is lost when it ends; the filter goes on letting through a card taken from the table |
| QX-vpn | QX-vpn/qx_vpn_main.c, qx_vpn_cc.c, qx_vpn_ppp.c | a record per control connection with mutex, call and sequence numbers | accept, PPTP messages, GRE packets, destroy | threads that wait for a record that is destroyed; sockets the record loses sight of |
| devn-ser, getconf, resmx, qxb_resize, tools | their directories | — | — | see section 7 |

How they interact: packets come to nfm-qxc by calls of io-net
(`qxc_rx_up`, `qxc_rx_down`), which returns a verdict; the logger talks to the
filter by `devctl` on its device and reads packets through shared memory, and
talks to Qbase by reads, writes and `devctl`, as do the administrator, the
end-of-day thread, the consistency tool and ntcread.  nfm-ntc is the older filter: io-net
calls it too, and ntcread reads its queue from its device.
QX-mail asks Qavird by `devctl` and DNS servers by UDP.  Requests on one device
of Qbase or Qavird are served one at a time although both have thread pools,
because the resource manager library locks the attribute structure of the
device for the time of a request; the thread pools of QX-dns, QX-mail and QX-vpn do not
work on devices and are truly concurrent, and the threads of io-net never pass
through the library.

What makes each part correct, in a sentence:

* *log*: every packet let through is billed once, and none is read half written;
* *rules*: a verdict is that of one complete rule set, and every lookup ends;
* *logger, end-of-day thread, tool*: the tables of the days and of payments explain every
  balance, a log is billed with the cards and the tariff it was filled under, a day is
  taxed once, and nobody who is broke goes on for ever;
* *Qbase*: a read returns the first row from the client's position on that its
  filters accept, what was flushed survives, and no table is lost among the others;
* *QX-dns*: the queue stays a list, each buffer has one owner, each client gets
  at most one answer, to its own question; the cache gives up the record least asked for;
* *QX-mail*: acknowledged mail is neither lost nor multiplied;
* *Qavird*: no scan uses a freed engine, no result is forgotten;
* *nfm-ntc and ntcread*: every frame that found room in the queue is accounted for, and fetched once no more come;
* *QX-vpn*: nobody is in a record that was freed, and a call has been asked for.

## 2. Modules

```
PktLedger  <--implements-- QxcLog <-- MCQxcLog
                           QxcRules <-- MCQxcRules
                QxcLog, QxcRules <-- QxcProofs
                           QxcBilling <-- MCQxcBilling, QxcBillingProofs   (filter, logger, end of day, tool)
                           Qavird <-- MCQavird, QavirdProofs
                           QbaseTable <-- MCQbase
                           QbaseCatalog <-- MCQbaseCatalog
        QbaseTable, QbaseCatalog <-- QbaseProofs
   DnsZones, DnsCache <--  QxDns <-- MCQxDns
                           QxMail <-- MCQxMail, QxMailProofs
            NtcFilter <--  NtcReader <-- MCNtc, NtcReaderProofs   (filter and reader composed)
                           QxVpn <-- MCQxVpn, QxVpnProofs
                           SumLemmas <-- QxcBillingProofs, NtcReaderProofs
```

Each module declares the sizes of the system as CONSTANTS with a named
assumption, keeps the names of the source where it can, and has one action per
handler or per stretch of a handler between two points where another thread can
get in.  The few expressions on which a property hinges (`CountAfterAdd`,
`TailAfterUnlink`, `MarkedDirty` ...) are operators of their own; next to each
stands a `_slip`, the same expression with a plausible mistake in it, which no
specification uses: `PROJECT.json` lists which property notices which slip.
The MC modules only define symmetry and constants that a `.cfg` cannot
write.

Six modules have a constant `Setups` and a variable `setup` (`CatalogSetups` and `bounds` in QbaseCatalog;
`budget`, which is used up, in NtcFilter): the bounds of a behaviour, chosen at the start.  One run then explores
several small instances, each for a question of its own, instead of their product.

## 3. What the modules say

### 3.1 QxcLog and PktLedger: the packet log

`StoreLock .. StoreUnlock` are the steps of `log_store_pkt`: the shared lock,
the atomic add, the copy, the clamp of a counter that overshot, the unlock.
`SwapRequest`, `SwapRegions`, `SwapReply` are `log_swap_log`: the request, the
exchange of the regions under the exclusive lock, the count and the descriptor
in the reply.  `LoggerRead` is the logger reading one packet of the region it
mapped.  A packet is a model value.

`PktLedger` is the promise: a packet is accepted or, if the log is full, refused;
the accepted ones are handed over when the last handover is worked off; each is
billed once.  `LedgerSpec` states that QxcLog implements it under the mapping in
`Pending`, `Captured` and `Refused`: a packet is accepted when its slot is
reserved, even though it is not copied yet.

### 3.2 QxcRules: exemptions and cards

`rule_add_exempt`, `rule_add_nic` and `SwapExempts`, `SwapNics` (the two halves
of `rule_swap_lists`, each under its own lock) are the resource manager's
thread; `PacketArrives`, `ExemptStep`, `ClientStep` ... are a packet thread's
walk, one element at a time.  The arrays hold what was in them before: a node is
only cleared when it is taken (`NewNode`).  `exInUse` and `ncInUse` remember what was
added to the sets in use; the expected verdict is computed from them.  The module shares no
name with QxcLog, so that one module can prove about both: hence `RulesInit`, `RulesNext`, `RulesSpec`.

### 3.3 QxcBilling: the logger against the filter

One step per loop iteration or request of the logger (`LoadTaxes`, `LoadDetails`, `LoadAccount`, `AccountsEnd`, `LoadNic`, `NicsEnd`,
`SwapLog`, `SwapRules`, `Table`, `Signal`, `SetTime`, `Bill`, `Charge`, `BillEnd`) against a coarse filter
(`Match`: a thread looks up the card; `Store`: it logs the packet, which is
another critical section), the end-of-day thread (`EodStart`, `EodSpurious`, `EodWake`, `EodDate`, `EodTax`, `EodPay`,
`EodSkip`, `EodEnd`), the consistency tool (`ToolStart` .. `ToolEnd`), the administrator (`Pay`, `Switch`,
`NewTariff`) and `Restart`,
the logger's exit, because it is stopped or cannot select, create or write the table of the day, and its start with empty lists while
the filter goes on.  A packet has the price of the last tax detail that matches its host,
else that of the account's tax; sizes, directions and times of the day are left out.
`Table` is the change to the table of another day: it writes `log_t_tm` without the mutex.  `Signal` is the
signal under the mutex, `SetTime` the write of `log_t_time` after the mutex was released, so that the woken thread
may read `log_t_tm` (`EodWake`) and `log_t_time` (`EodDate`) before or after it.  The wait has no predicate:
`EodSpurious` ends it by itself.  Copying the `struct tm` is one step.

Any other failure of Qbase is only printed (qxl_main.c:715, 748, 807, 855, 901, 1143-1148, qxl_eod.c:239-250), or not even
that (the fetches of the end-of-day thread, qxl_eod.c:218, 230), and
`fails` counts those that happen (`Calls`).  A fetch that fails cuts a list short: `LoadTaxes` and `LoadDetails` take the first
rows, `AccountsEnd`, `NicsEnd` and `EodSkip` end their loop early.  A failed `Qbase_seek` leaves the connection where it was, and the
account found there is charged in place of the right one (`Found`, `T_updacc`, `TU_updacc`); a failed `Qbase_updcur` charges nobody;
a payment that cannot be inserted leaves the tax taken without a record.  `tlog` is the money billed per
card, `payments` the taxes per account and day, `table` rows of earlier days for the tool.
History variables: `paid`, `law` and `captured_law` (which tariff the rules were loaded with),
`untaken` and `unbooked` (what failures have left an account owing to the tables, or taken from it without a row there),
`skipped` (accounts a failure kept out of the payments), `spurious` (rounds nobody signalled), `opened` (days whose table was opened),
`swaps` (swaps since the restart, up to two), `stale` (a packet whose card was looked up in
rules that are no longer in use), `changes`, `late` (a day began before the thread
was through with the last), `corrected` and `halfway` (what the tool has done).

### 3.4 QbaseTable and QbaseCatalog: one table, and all of them

`QbaseTable`: `Pages` is the cache in the order of its list, `DFile` and `HFile` the data and
the head file.  `LockTablePage` is the function of that name: hit, free memory,
replacement in place, or recycling of the oldest page, with the sync of the page
that goes.  `rows` is the reference: what the clients have been told the table
holds.  Reads, updates and deletes proceed page by page; requests do not overlap
(see section 1), but clients interleave between them and keep their own position
and filters.  A row is its key and one unsigned number, which filters compare (`Meets`) and
updates set, add to, subtract from, multiply or divide modulo its `Width` (`Ruled`).
`Crash` loses the cache; `Select` loads the table from the files.
`fails` counts inserts whose message could not be read, `dropped` remembers that
a page with changes was replaced in place.

`QbaseCatalog`: `db` holds the doubly linked list `Tables`, the copies of tables in
memory and the files; `conn` what each connection has selected.  The names differ from those of
QbaseTable (`bounds`, `CatalogSpec` ...), so that one module can prove about both.  Every request runs under
`tables_mutex` as a whole, except that `CreateBegin`, `CreateHead` and `CreateEnd` write one
file each, so that `ServerDies` can come between them.  `Release` and `Link` are the pointer
operations of the code.  A table that was never linked is released (`ReleaseUnlinked`) when a
creation is refused or a header file is empty: `Tables` is then set to its null `Next`, and
the list is lost.  Its other pointers were never set; if the server dies of them, that is
`ServerDies`.  `acked` remembers the rows acknowledged, `torn` that the list was lost.

### 3.5 Qavird: the virus engine

`Scan*`, `Reload*` (`Load`, `LoadFails`, `BuildFails`, `Switch`, `SwitchInfo`,
`FreeOld`) and `Info*` are the stretches of the three requests between lock
operations.  `AttrLocked` says whether the library serialises requests.  With
FALSE the module is what the daemon's own rwlock guarantees; the run uses that.

### 3.6 QxDns, DnsZones, DnsCache

`Select`, `Receive`, `Scan*` are the main thread, `Take`, `Find*`, `AnswerClient`,
`Retry`, `AnswerError`, `AnswerMaster`, `AnswerCache`, `Forward`, `Save`, `Release` a pool thread; `next` and `prev`
are the pointers of the buffers, shared by the ready list, the free list and the
queue as in the code.  Datagrams are lost, duplicated, delayed and answered by
any server that was asked (`ServerReply`), and some are too short for a header
(`ClientSendShort`).

`DnsZones` is `qxdns_master_lookup` on the hosts the configuration names: the lists are
built at their heads, so the host configured last is found first (`FirstFound`) and addresses
come in the reverse order; a name may be completed by its zone.  `MasterRight` says what an
answer has to be without any order.  `DnsCache` is the array of records with the
replacement rule.  The cache compares names without their type; the model assumes
that no name is asked for with two (`OneTypePerName`).

### 3.7 QxMail: the mail server

`Accept` and `Take` are the accept list; `Helo .. SmtpEnd` an SMTP session, one
action per command, DATA in two; `User .. PopEnd` a POP3 session; `Fetch .. Release`
a spooler: scan, local delivery box by box, recipients elsewhere grouped by
domain, the domain's exchangers tried one after the other.  A mailbox counts the
copies of each message; `Among` is the selection of a spooler's recipients by domain.  History variables: `blocked` (infected messages), `gone`
(copies deleted by their owner), `login` and `trusted` (who proved a password on
this connection, and the messages they addressed).  The model ends (`crashed`)
when the code dereferences the null message of a session after a HELO without an argument.

### 3.8 NtcFilter and NtcReader: the older filter and its reader

An io-net thread brings a frame through `CheckIface`, `Scan`, `LogFrame`, `LogLength`
(the length is filled in on the way down, by `ntc_rx_down`), or an adapter's message through `Dying` or `Advert`,
`SearchName`, `SetCell`, `LinkName`; a stretch under one lock is one step.  The thread of the device
serves `NtcRead`, `CopySlot` (the library copies the reply after the mutex is
released), `Flush`, `AddBlock`, `DelBlock`, `SetInterest`.  `AddBlock` and `DelBlock` concern the addresses let through.
The numbers of an adapter of a frame are chosen when it is checked.

`NtcReader` is ntcread: `Start`, `AddIf`, `Allow`, then `Read`, `Reply`, `Count`, `Save` for
ever, `Exit` at a failure of Qbase and `Alert` at an address it does not know.  A packet
counts 1.  `TakeOut` is the administrator, `Command` another client of the device.
History: `sent`, `stored`, `flushed`, `got` and `lost` follow each frame, `clobbered` says that
a slot was written while a reply was still to be copied, `twin` that two adverts of
adapters overlapped, `asked` and `allowed` what the filter was told.

### 3.9 QxVpn: control connections

`Accept` is the listening socket; `Dispatch` hands an event of a socket to a thread of the
pool with the record `select_attach` got, and the socket is not dispatched again before
the handler has returned; `Lock` waits for the record's mutex.  A block that was freed may have been
handed to another client, or not: a thread that waits for its mutex then goes in or gives
up (`touched`).  `StartReq`, `OCallRefused`, `OCallGranted`, `CClearReq`, `SLinkInfo`, `Echo`, `Stop`
are the messages of the control connection, `Packet` a GRE packet, `Ignore` anything else.
`forgotten` counts the sockets whose number the record has overwritten, `loose` says
that such a record, or one another thread waited for, was destroyed.

## 4. Runs

| Run | Instance | What it shows |
|---|---|---|
| `qxc_log` | 3 threads, 3 packets, 2 slots | `NoTornRead`, `CountWithinRegion`, `SlotsAreExclusive`, the refinement `LedgerSpec`, and under fairness `PassedIsBilled` |
| `qxc_rules` | 1 packet thread, 3 cards, 2 overlapping exemptions, 2 × 2 addresses | `ShadowIsPrivate` (with the types), `ClientIsRight`, `ExemptIsRight`, and `FilterReturns`: no lookup runs in a circle |
| `billing` | 2 accounts, one of which may be negative and pays a monthly tax, 2 cards, 2 slots, 2 tariffs; setups: 5 packets; 3 packets, an act of the administrator and a restart; 3 days and a restart; 2 hosts and a new tariff; 2 runs of the tool on 4 rows; 2 failures and 2 days; a wait that ends by itself, 3 days and a restart (971,130 states) | `DebtIsBounded`, `BooksBalance` (with the types), `CrntSettles`, `PeriodIsBillable`, `DayIsTaxedOnce`, and under fairness `BrokeIsCutOff` |
| `qavird` | 3 threads, 4 engines, 3 scans | `NoUseAfterFree`, `NoScanLost`, `InfoIsOfEngineInUse`, requests overlapping |
| `dns` | 2 pool threads, 3 buffers; setups: 2 queries at 1 server, with different numbers or the same; 2 queries at 2 servers, the second asked by the scan alone; a cache of 2 records of any age and use; 3 servers that fail; 3 servers and a short datagram; 7 questions for two hosts of one zone | `QueueIsList`, `BuffersAccounted` (with the types), `AnsweredOnce`, `ServersInOrder`, `CacheReplaces` |
| `qbase` | setups: 2 clients, pages of 2 rows, a filter, 3 rows, 2 updates; 1 client, pages of 1 row, 3 cached pages, 4 rows, a failing insert, an update, a crash; 2 rows and 3 updates with every rule | `PagesWellFormed` (with the types), `CleanPageIsOnDisk`, `NothingElseIsLost`, `ReadIsRight`, `PostedIsNext`, `FlushedSurvives` |
| `qbase_catalog` | setups: 3 connections and 3 tables; 2 connections, 2 tables of 2 rows, a refused creation, a crash | `TablesAreWhole`: reference counts, list, and rows |
| `mail` | 2 pool threads, 2 spoolers, a mailbox and an address elsewhere, 2 messages with 2 recipients together | `MailConserved`, `ViewIsStable`, `LocksAreOwned` (with the types), `NoStrangerRelays` |
| `ntc` | 2 io-net threads, 2 stations, 2 adapters; setups: 3 frames in 1 slot or 3; a frame and 2 adverts; 3 messages of adapters and a change; a change and an exit of the reader | `PacketsAddUp` (with the types), `AlertIsExplained`, `AskedIsKept`, and under fairness `QueueDrains` |
| `vpn` | 3 threads, 2 blocks, 5 sockets; setups: 6 control messages; 4 GRE packets; 3 connections | `CallsAreLegal` (with the types), `FreedIsExplained` |
| `dns_cycle` | 2 queries, 2 servers | finding: `QueueIsList` is violated |
| `qbase_evict` | 5 rows | finding: `NothingIsLost` is violated |

The types of the packet log and of the virus engine are theorems of their own (section 5); those of the
other modules are a conjunct of the property named in the table.

*Why the bounds are enough.*  The log needs one thread that overshoots while
another copies and a third is about to reserve, and one more packet than slots:
3, 3 and 2.  The rules need one card
on either side of the root and a period in which a reused node has other
children: 3 cards and more than one swap.  One packet thread is enough there,
because packet threads only read the rules and meet no one but the resource manager's
thread.  Billing needs a log full twice and one packet more; a day change that
overtakes the end-of-day thread, and one that does not, need 3 days; a tool that is stopped
and started again needs 2 runs and a row whose cards have different accounts.  An account that is not found
and one that is not updated, or a payment that is missing besides, are 2 failures.  Qavird needs two
overlapping reloads and a scan.  A doubly linked queue needs a head, a tail and a
buffer that is leaving it; a cache that has to choose, two records.  A cache of 3 pages and 4 rows of one page
each reaches both the replacement in place and the recycling.  The list of tables needs
one between two others that leaves, and two connections on one table.  A mailbox needs a
POP3 session, a second client who fails to log in or sends, and two spoolers
with a message each.  A reply that is overwritten needs a slot read, a frame that is stored
meanwhile and one more that waits; a doubled interface, two adverts of one name.  A record
freed under a waiting thread needs two sockets of one client and a block that is handed
out again: 3 threads so that a third one accepts.

*Named bounds.*  `LogLimit`, `NcLimit`, `ExLimit`, `LockPages`, `Width`, `CacheMAX`, `CacheTTL`,
`Room`, `MaxPktRead`, `LogPeriod`, `Period`, and in the setups `pagerows`, `servers`, `ids` and `slots`
are sizes the code has, made small.  `MaxAdds`, `MaxPkts`, `MaxScans`, `MaxClock`, `MaxRcpt`, `MaxTargets`,
`MaxSeq`, and the other fields of the setups only end the exploration.

*Deadlock* is checked except where the program may stop: `dns` (the main
thread blocks in `recvfrom` after a short datagram), `mail` (the server crashes, or
every message has been sent), `ntc` (the network is silent, and ntcread sleeps and asks an empty queue again) and
`vpn` (the peers are silent, or the process has ended).

*Fairness.*  Weak fairness of a thread inside a call of io-net, of the resource
manager's thread, of the logger's endless loop, of the end-of-day thread and of ntcread's loop
(`QxcLog!FairSpec`, `QxcRules!RulesFairSpec`, `QxcBilling!FairSpec`, `NtcReader!FairSpec`):
each of them is a thread of its own that the
QNX scheduler runs, and the locks they wait for are held for a bounded number of
steps.  Nothing forces a packet to arrive, a rule to be
added, a payment, a day, a restart or an exit.  `QxcRules` needs no fairness of the resource manager.
The other modules are checked for safety only.

## 5. Proofs

`QxcProofs` proves for any number of threads, packets and slots
(`LogAssumption`): the variables keep their types, `NoTornRead`,
`CountWithinRegion` and `SlotsAreExclusive`.  None of them is inductive.  The invariant `IInv` adds
who holds the shared lock (`Holders`), that the counter exceeds the log only by threads which will
clamp it (`OvershootIsOwned`), that a slot being filled lies below the counter
(`CopyBelowCount`), which region belongs to whom (`RegionRoles`) and what the reply of the
resource manager says of it (`LoggerView`).  The core of the argument is that
copying threads hold the shared lock, so that at the moment of the exchange
nobody is copying, and that the logger's region is the one not active as
long as it has packets to read.

It also proves the refinement, `LogImplementsLedger`: the initial states of QxcLog
are those of PktLedger, and each step of a thread accepts or refuses the packet, hands
the log over, bills a packet, or changes nothing.  `PktInv` adds to `IInv` that a packet arrives once
(`ArrivesOnce`), that the slots filled or reserved hold different packets (`SlotsDiffer`), and that
a counter which overshot means a full region (`FullWhileClamping`), so that a packet is refused only then.

About the rules the module proves `ShadowIsPrivate`, `ExemptIsRight` and `ClientIsRight` for any number of
packet threads, cards and exemptions and any sizes of the arrays (`RulesAssumption`: addresses of cards are numbers, and
there is at least one card, address and host).  `RulesInv` says who holds the two locks
(`ReadersHold`), that the first entries of an array are the exemptions the logger added (`ExemptsFollow`) and that
a search has passed only those that do not match (`SearchFollows`), and that both arrays are search trees of the rules
they were given (`CardsFollow`): links go to later nodes, and the way from the root that the card of a node takes
leads to this node.  "Leads to" is stated without recursion, by the sets of nodes that a card's way does not
leave (`Stays`, `Leads`).  While a thread walks down the tree, the node of its card is still ahead (`WalkFollows`), and the
lock it holds for reading keeps the tree from being swapped.

`QavirdProofs` proves for any number of threads and engines
(`AvirdAssumption`), with and without the attribute lock:
the types, `NoUseAfterFree`, `NoScanLost` and `InfoIsOfEngineInUse`; and with the attribute lock
`AvirdEngineFreedOnce`: every engine but the one in use is freed exactly once.  Here
`IInv` says that a scan uses the engine in use, that a new engine is nobody
else's until the switch and an old one nobody's after it, and `SInv` adds
that one request runs at a time and accounts for each allocated engine.  Without the
attribute lock two reloads may both read the same old engine and free it twice,
which is why the last theorem assumes `AttrLocked`.

`QxcBillingProofs` proves all five invariants of QxcBilling for any accounts, cards, hosts, tariffs, days
and tables (`BillingAssumption`: finitely many accounts and hosts, at least one tariff, every
tax in every tariff, and packets that have a host).  Each invariant has its part of `IInv`:

* `Types` adds to the types what the places of the threads say (a session while one is
  charged, an account while its tax is recorded, a day while it is taxed), and that the rows of the table of the day are
  part of what the tables say a card has used (`RowsAreIn`), so that the tool never takes more than is there;
* `ListsFollow` compares the logger's lists with the filter's rules and shadow at each place of the cycle, depending on
  the number of swaps since the restart: `CrntSettles`;
* `PeriodFollows` follows a packet from the rules in use through the log to the log handed over, with the
  tariff of the rules and the one in the logger's lists: `PeriodIsBillable`;
* `DayFollows` is in four parts: `DatesFollow` (the day and the time of the change, and the dates the thread has read of them),
  `ClockFollows` (the days opened, changed to and gone by), `RoundsFollow` (the thread is at the day the logger changed to last, or in a round nobody asked
  for, unless it is late) and `DuesFollow` (which accounts have paid for which day while the thread is in its round): `DayIsTaxedOnce`;
* `BooksFollow` is the equation of `BooksBalance` with `untaken` and `unbooked` among its terms; what a call that fails does to
  the balances, it does to one of these two (`Take`), so that a step changes its terms by the same amount on both sides;
* `DebtFollows` is the argument for `DebtIsBounded`.  An account whose cards are in the list read for the next
  period could be used when it was read.  From then on it is charged for what was logged before
  the rules are swapped and for the period after, so for at most two logs: an account
  of the list in use owes at most the packets billed of one log, one of the list swapped out at most a full
  log more, and one of neither at most two logs.  That a packet costs at most `MaxPrice` is `PricesFollow`; an amount
  is compared with a number of packets times that price (`Covers`), since the provers do not multiply two variables.

The amounts are sums over finite sets.  `SumLemmas` proves what they come to from their recursive definition: an element
may be taken out of a sum, sums of functions that agree are equal, and sums have the type of their terms.  The induction is
done with a smallest counterexample among the subsets of a set (`Smallest`), because the
library's induction theorems cannot be instantiated.

`QbaseProofs` proves the six properties of QbaseTable for any clients, filters, sizes of pages, of the table and of the cache
(`TableAssumption`: at least the three locked pages the code asks for, numbers with a positive width, no division by zero).  `IInv` says that
the list of pages is sorted and only its last page partly filled (`InMemory`), that a page without changes is in
the file (`OnDisk`), that page by page the list or else the file holds the reference `rows` (`Whole`), that what was
flushed is in the file up to the one update since (`Survives`), and where the cursor of a reader is (`CursorFollows`).  `LockTablePage`
is dealt with once, in `Unnoticed`: whatever pages it brings, drops or saves, no row changes unless it replaces a
page with changes in place.  The action properties `ReadIsRight`, `PostedIsNext` and `FlushedSurvives` follow from the
invariant before the step; for a read, `CursorFollows` shows that the filters turned away all rows the cursor has passed.

It also proves `TablesAreWhole` of QbaseCatalog for any finite number of connections and any names (`CatalogAssumption`: blocks of memory
are finitely many, and more than connections, because a selection loads the new table before it leaves the old one).  `CatalogInv` says that a block is
in use exactly as long as it counts a connection and that the table in it has the files its flags say
(`Sane`), that the counts are those of the connections, what a creation that is not finished has written (`Started`), and, unless the list was torn,
that some sequence without repetition is the doubly linked list, forwards and backwards (`Chain`), that each
table is loaded once (`Single`) and that a table in memory, or else its file, holds what was acknowledged (`Holds`).  The pointer operations are dealt with
once each: `LeaveInOrder` takes a table out of the sequence wherever it was, `LinkInOrder` puts one in front, and
`ListedIs` shows that the walk along `Next`, a recursive function, meets all of them.  That a free block is found (`OneIsFree`) is why there must be more
blocks than connections.

`QxMailProofs` proves `MailConserved`, `ViewIsStable`, `NoStrangerRelays` and `LocksAreOwned` (with `MailLocksAreHeld`, its part that is
not about types) for any number of sessions, spoolers, boxes and messages
(`MailAssumption`: NULL is none of them, spoolers are not pool threads).  `IInv` says that a session writes a message of its own that nobody has
acknowledged (`Sessions`), who named recipients elsewhere (`Trusted`), that an acknowledged message
is at one place of the queue or with one spooler (`Custody`), that a mutex has one owner (`Owned`) and that a POP3 session
deletes no more than it listed (`Listed`).  For the types of a spooler's lists, `Routed` follows them through scan, grouping and
delivery, and `AmongType` shows by a smallest counterexample that the recursive function `Among` selects a list of recipients from a list of recipients.

`NtcReaderProofs` proves `PacketsAddUp`, `AlertIsExplained` and `AskedIsKept` for any number of io-net threads, adapters,
slots and frames (`FilterAssumption`, `ReaderAssumption`: the server is not a client, finitely many clients, and a
finite choice of budgets).  `IInv` says that frames are numbered, and that one in a thread's hand is in no slot and in
nobody else's hand (`Numbered`); how often a frame has been handed out, depending on whether its
slot waits to be read, to be copied, or both, which is when it was overwritten (`Handing`); the two equations
of `PacketsAddUp` (`Counted`); that what waits or has been read is from or to a station (`Known`), without which
a packet could be dropped by the reader's count; that names in the list of interfaces are distinct unless two adverts
overlapped (`Named`); and that nobody is let through more often than he was allowed (`LetThrough`).  The
sums over frames and cards rest on `SumLemmas`.

`QxVpnProofs` proves `CallsAreLegal` and `FreedIsExplained` for any number of threads, blocks, sockets and calls (`VpnAssumption`,
`NoOneAssumption`).  `IInv` says that a handler runs under the mutex of its record (`HandlersOwn`), that records are numbered and a number
is used once (`Numbered`), that the sockets of a record are those it knows and those counted as `forgotten` (`SocketsAreCounted`), and that
a socket or a waiting thread leads to a record that is gone only after a record was destroyed too early (`Explained`).

*Only model-checked*:

* QxDns with DnsZones and DnsCache: `QueueIsList`, `BuffersAccounted`, `AnsweredOnce`, `ServersInOrder` and `CacheReplaces`.
  The four invariants are no theorems, because they are false once a query is retried at another
  server, by the handler of a failure, with a second one behind it (finding `dns_cycle`): `QueueIsList`, `BuffersAccounted` and
  `ServersInOrder` already with 2 queries and 2 servers, `AnsweredOnce` with 3 queries.  The run `dns` shows
  them where that cannot happen: queries no handler of a response sends on (one server, or a
  second one that only the scan goes on to), or a single query with several servers.
  `AnsweredOnce` is weaker than one may wish: the numbers of queries are used again after 2^16, and a response is matched by its number
  alone (main.c:166), so a query may get the answer to another one that went out under the same number; the setup with
  one number for two queries shows that this happens, and that it is all that does.
  `CacheReplaces` does not depend on the queue; it is model-checked and not proved;
* the liveness properties `PassedIsBilled`, `FilterReturns`, `BrokeIsCutOff` and `QueueDrains`, which are out of the prover's reach.

## 6. Findings

* `dns_cycle`.  A query that is retried at the next server is unlinked and appended to
  the queue with its old `next` (main.c:310-320); if it had a successor, the tail
  of the queue points back into it.
  The consequences go beyond the list: buffers get lost to all three lists or belong to two, a query's
  server number no longer tells which servers it went to, and a buffer that was answered and freed is still reached from the queue, so that a late or
  repeated response answers its client a second time.
* `qbase_evict`.  `LockTablePage` replaces a page in place without writing its
  changes (qbase_iofunc.c:201-209); the recycling path does write them.
  `NothingElseIsLost` shows that this is the only way a change is lost while the server lives.

Behaviours seen while modelling that no run is about:

* nfm-qxc's logger: qxl_main.c:913 says that the `crnt_*` lists describe the rules
  the filter follows when the log is swapped.  After a restart they do not:
  the first log has cards of before the restart, and cards that were pushed to the
  filter before it stay in its next rules.  `CrntSettles` shows that two swaps mend it.
* An account whose tax is 0 keeps the tax pointer of whoever had its place in the list before (838-849), which
  is null at first and followed when it is billed (1107); the model assumes that every account has a tax.
* A packet delayed between lookup and log beyond a swap can be billed to nobody (qxl_main.c:1098-1101); that is what `stale` excludes from `PeriodIsBillable`.
* The end-of-day thread misses a day that begins before it waits, and takes the tax for the
  wrong day if the next one begins meanwhile; `DayIsTaxedOnce` holds where it is through in time (`late`).  A wait that
  ends by itself takes the tax of a day once more, and a payment may be dated the last change of tables before its day, because
  the logger writes the time after the signal (qxl_main.c:1037-1045).
* A failed seek is only printed, and the account the connection stood at pays for another (qxl_main.c:1143-1148, qxl_eod.c:239-244);
  a failed update leaves a row or a payment nobody paid.  `BooksBalance` holds with these amounts as terms of their own.
* The consistency tool moves a row's price before it puts the row right.  If it is
  stopped in between and run again, it moves the price twice; and it refunds the account the old card has now,
  not the one the row was billed to.
* QX-dns gives a waiting query the answer to another one that had the same number, for the question in the response is not
  compared with the one that was asked (main.c:166); it takes more queries than there are numbers while the first still waits or
  a response to it is late (`TakenFor`).
* QX-dns sends a question before it queues it (291-320), so a fast answer finds no query and is dropped.
* The scan's resend branch (901-905) neither refreshes the time of the query nor moves on, so all servers are used up in one pass.
* The clock of the scan stands still while nothing arrives (839).
* A datagram too short for a header leaves the main thread in `recvfrom` (869).
* The cache of QX-dns answers a question with a record of the same name and another type (cache.c:143).
* Qbase: an insert whose message cannot be read leaves `Index` advanced
  (qbase_iofunc.c:428-432), after which keys and rows disagree; `PostedIsNext` and `ReadIsRight` are stated for `fails = 0`.
* Qbase: UPDCUR beyond the end unlocks the table twice (1058, 1279).
* Qbase: a TBLCREATE that is refused (769) and a TBLSELECT of an empty header file (618) empty the list of
  tables; those in use are then loaded a second time, and the copies overwrite each other (`torn`).
  A crash between header and data file leaves a table that can be selected and whose rows go nowhere.
* Qbase: selecting a table in memory does not reset the record position (582), selecting one from its files
  forgets the filters without freeing them (700).
* Qbase: a filter asked for "lower, any case" compares like "greater, any case"
  (qbase_filterfunc.c:213), and binary data is never found equal (168).
* QX-mail: a list of one connection passes for an empty one, so the queue holds at most one (main.c:694); HELO without an argument leaves a state without message (smtp.c:144-153); a failed login leaves the mailbox it found in the session, and the unlock that follows is refused by the mutex (`Unlocked`); mail without recipients is acknowledged and vanishes; mail not delivered when the server ends is never looked at again; a spooler waits as long as a POP3 session holds the mailbox.
* nfm-ntc: deleting an address that is not the first drops every entry before it (ntc_rm.c:208-230); a reply points
  into slots that new frames may take (75); two adverts of one adapter may add it twice (main.c:384-416).
* nfm-ntc: the comments at main.c:338-341 and 346-349 want `ofinterest` of a dying adapter set to 0; the code sets
  only `dead` (353), which nothing reads, and leaves `ofinterest` as it was.  `AskedIsKept` promises the interest of an interface only
  until its adapter dies.
* nfm-ntc: while frames keep coming, a frame at the bottom of the queue may wait for ever, for the queue is read from its end
  (ntc_rm.c:69-75); `QueueDrains` speaks of a queue no more frames come to.
* ntcread ends, and loses what it had read, at the first address it does not know (346) and at any failure of Qbase.
* QX-vpn: a refused call closes its socket and is remembered as established all the same (qx_vpn_cc.c:169-192); a
  new call overwrites the number of the raw socket of the old one; a record is freed while
  threads wait for its mutex (qx_vpn_main.c:148); sequence numbers that arrive twice are accepted
  (qx_vpn_ppp.c:76), and the reply to a packet overwrites the stack (120).

## 7. What is not modelled

* Failing allocations, formatting, parsing of packets, DNS names and mail texts, MD5.
* QxcBilling: taxes by time of the day and by direction, the end of the month and its length, by which the daily part of a tax is
  divided tax by tax (`DayTax` is a constant), failing calls that prepare the tables at the start (the logger exits), what the tool
  does when the card of a row is gone (it ends: `ToolEnd`).
* QbaseTable: filters on strings and binary data.  Their comparisons are functions without state
  of one row; section 6 names two mistakes in them.
* The client library of Qbase, which only builds messages, and `qxb_resize`, a sequential conversion of a table's files.
* QX-mail: a restart of the server, a `link` into a mailbox that fails (the spooler
  ignores its result, spooler.c:222), connection errors other than a refusal (the
  code tries again, for ever if need be), the order in which bytes of a dialogue arrive.
* nfm-ntc: sessions and prices of ntcread (a packet counts 1); registration with io-net; programs other than ntcread that let
  through an address which is not in the table (`NTC_ADDBLOCK`), by which ntcread would be ended too.
* QX-vpn: LCP and PPP negotiation, which the code has not got beyond parsing.
* devn-ser (a skeleton of a driver: hardware and calls into io-net), getconf (a parser), resmx (an example),
  the loaders, test programs, PHP, LCD and httpd tools: no state of interest.

## 8. Plan

Done: QxcLog with PktLedger and its proofs, Qavird and its proofs, QxDns with DnsZones and DnsCache,
QbaseTable, QbaseCatalog, QxcRules, QxcBilling with the end of the day and the consistency tool, QxMail,
NtcFilter with NtcReader, QxVpn.

Proved: the packet log with its refinement, the rules, Qavird, the billing, the Qbase table and the catalogue, QxMail,
NtcFilter with NtcReader, and QxVpn: every invariant and action property of their runs.

Next theorems: QxDns under the assumption that a query is asked at one server only, where its queue stays a list:
`QueueIsList` and `BuffersAccounted`, with the three lists as sequences beside their pointers as `Chain` is
in the proofs of the catalogue, then `AnsweredOnce` and `ServersInOrder`; DnsCache: `CacheReplaces`.

Worth modelling after that: an abstract table (a map from keys to rows) that QbaseTable
implements as long as nothing was dropped, and the comparison of strings in filters.
