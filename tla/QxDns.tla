-------------------------------- MODULE QxDns --------------------------------
(***************************************************************************)
(* The forwarding core of QX-dns (main.c): the main thread that receives   *)
(* datagrams and looks for expired queries, and the pool threads that      *)
(* answer a query or forward it to the external servers one after another. *)
(*                                                                         *)
(* Buffers live in three lists (free, ready, queue) that share the fields  *)
(* next and prev; they are modelled as the linked lists they are, because  *)
(* the code moves buffers between the lists without resetting next.        *)
(*                                                                         *)
(* A query stands for one datagram of one client: its address, its ID and  *)
(* its question.  What the master zones and the cache say of a question is *)
(* the subject of DnsZones and DnsCache.                                   *)
(***************************************************************************)
EXTENDS Integers, Sequences, FiniteSets, DnsZones, DnsCache
LOCAL INSTANCE SequencesExt

CONSTANTS Pool,      \* threads of the pool
          Main,      \* the main thread
          Buffers,   \* addresses malloc may return
          NULL,      \* the null pointer
          Queries,   \* queries of the clients
          Period,    \* 2 in the code: seconds select waits, and a query may wait
          MaxClock,  \* bound on the clock
          Setups     \* servers, bounds and inputs of the behaviours

(* A setup: servers is the number of external servers, in the order of      *)
(* srvr_connectors; ids is 2^16 in the code, where IntReqNum is a uint16_t; *)
(* queries, shorts and replies bound the queries, the datagrams too short   *)
(* to be one and the responses of the servers; rcodes are their codes,      *)
(* questions those the clients ask, and caches the contents the cache may   *)
(* have when the behaviour starts.                                          *)
ASSUME DnsAssumption ==
    /\ Period \in Nat \ {0} /\ MaxClock \in Nat
    /\ Main \notin Pool /\ NULL \notin Buffers
    /\ \A s \in Setups : {s.servers, s.queries, s.shorts, s.replies} \subseteq Nat /\ s.ids \in Nat \ {0}

(* The cache does not look at the type of a question: no name is asked for  *)
(* with two types.                                                          *)
ASSUME OneTypePerName ==
    \A s \in Setups : \A x, y \in s.questions : x.name = y.name => x = y

VARIABLES
    setup,                   \* the setup of this behaviour
    next, prev,              \* the links of every buffer
    buf,                     \* the other fields of every buffer
    heap,                    \* buffers allocated so far
    free_buf, ready_buf,     \* heads of the two stacks
    queue_head, queue_tail,  \* the queue of forwarded queries
    queue_mutex,             \* set of threads inside a section under queue_mutex
    IntReqNum,               \* ID of the next forwarded query
    pc,                      \* pool threads: place in the handler,
    request, tmp_q, save_rq, \*   and its local variables
    main_pc, scan,           \* main thread: place in its loop, its local tmp_q in the scan
    socks,                   \* sockets select found readable, not handled yet
    cur_time,                \* local variable of main, not initialised by the code
    clock,                   \* time()
    shorts,                  \* short datagrams the clients have sent
    responses,               \* number of responses sent by the servers
    sent,                    \* queries the clients have sent
    question,                \* what they ask
    wire,                    \* datagrams on their way to QX-dns
    asked,                   \* the requests each query made to the servers, in their order
    replies,                 \* answers each query got
    cache                    \* CacheROOT

Servers == 1 .. setup.servers
Socks == 0 .. setup.servers \* bind_connectors: the listening socket, then one per server
Client == 0                 \* the listening socket
IdSpace == setup.ids

listVars == <<next, prev, free_buf, ready_buf, queue_head, queue_tail>>
poolVars == <<pc, request, tmp_q, save_rq>>
mainVars == <<main_pc, scan, socks, cur_time>>
clientVars == <<setup, shorts, sent, question>>
netVars == <<clientVars, responses, wire, asked, replies, cache>>
vars == <<listVars, buf, heap, queue_mutex, IntReqNum, poolVars, mainVars, clock, netVars>>

Blank == [qr |-> FALSE, q |-> NULL, rcode |-> "ok", ID |-> 0, qserver |-> 0, rcvtime |-> 0]

Datagram == [sock |-> Client, short |-> FALSE, qr |-> FALSE, q |-> NULL, ID |-> 0, rcode |-> "ok"]

NoQuestion == [type |-> "none", name |-> <<>>]

Init ==
    /\ setup \in Setups
    /\ question = [q \in Queries |-> NoQuestion]
    /\ cache \in setup.caches
    /\ next = [b \in Buffers |-> NULL] /\ prev = [b \in Buffers |-> NULL]
    /\ buf = [b \in Buffers |-> Blank]
    /\ heap = {}
    /\ free_buf = NULL /\ ready_buf = NULL /\ queue_head = NULL /\ queue_tail = NULL
    /\ queue_mutex = {}
    /\ IntReqNum = 1 % IdSpace
    /\ pc = [t \in Pool |-> "block"]
    /\ request = [t \in Pool |-> NULL] /\ tmp_q = [t \in Pool |-> NULL]
    /\ save_rq = [t \in Pool |-> FALSE]
    /\ main_pc = "select" /\ scan = NULL /\ socks = {}
    /\ cur_time \in 0 .. MaxClock
    /\ clock = 0
    /\ shorts = 0 /\ responses = 0 /\ sent = {} /\ wire = {}
    /\ asked = [q \in Queries |-> <<>>]
    /\ replies = [q \in Queries |-> <<>>]

----------------------------------------------------------------------------
(* The pieces the handlers are built from, each with the slips (..._slip)   *)
(* the properties are meant to catch.                                       *)

(* IntReqNum++ *)
NextReqNum_slip == IntReqNum
NextReqNum == (IntReqNum + 1) % IdSpace

(* The next server of a query *)
NextServer_slip(b) == buf[b].qserver
NextServer(b) == buf[b].qserver + 1

(* DNS_OPT_RCODE_SF or above DNS_OPT_RCODE_NE, and there is another server  *)
TryNextServer(r, b) == buf[r].rcode = "failed" /\ buf[b].qserver < setup.servers

(* DNS_OPT_RCODE_OK or DNS_OPT_RCODE_NE: the answer is worth keeping        *)
Cacheable(r) == buf[r].rcode = "ok"

Answer(from, x, a) == [from |-> from, question |-> x, data |-> a]

(* Unlinking b from the queue *)
TailAfterUnlink_slip(b) == queue_tail
TailAfterUnlink(b) == IF next[b] # NULL THEN queue_tail ELSE prev[b]

HeadAfterUnlink_slip(b) == queue_head
HeadAfterUnlink(b) == IF prev[b] # NULL THEN queue_head ELSE next[b]

Unlink(b) ==
    /\ next' = IF prev[b] # NULL THEN [next EXCEPT ![prev[b]] = next[b]] ELSE next
    /\ queue_head' = HeadAfterUnlink(b)
    /\ prev' = IF next[b] # NULL THEN [prev EXCEPT ![next[b]] = prev[b]] ELSE prev
    /\ queue_tail' = TailAfterUnlink(b)

(* The buffers a pool thread returns to the free list at the end: tmp_q, if *)
(* it found one, and the request unless it has to be saved in the queue.    *)
Returned_slip(t) == SelectSeq(<<tmp_q[t], request[t]>>, LAMBDA b : b # NULL)
Returned(t) ==
    SelectSeq(<<tmp_q[t], IF save_rq[t] THEN NULL ELSE request[t]>>, LAMBDA b : b # NULL)

(* Pushing a sequence of buffers on the free list, the first one first *)
PushFree(bs) ==
    /\ free_buf' = IF bs = <<>> THEN free_buf ELSE bs[Len(bs)]
    /\ next' = [b \in Buffers |->
                  IF \E i \in DOMAIN bs : bs[i] = b
                    THEN LET i == CHOOSE j \in DOMAIN bs : bs[j] = b
                         IN IF i = 1 THEN free_buf ELSE bs[i - 1]
                    ELSE next[b]]

(* The element the search for a query looks at after b *)
NextInQueue(b) == next[b]

(* queue_mutex after pthread_mutex_unlock *)
Unlocked == {}

SendTo(s, b) == asked' = [asked EXCEPT ![buf'[b].q] = Append(@, [s |-> s, ID |-> buf'[b].ID])]

----------------------------------------------------------------------------
(* Clients and servers.  A server may answer late, several times or never.  *)
ClientSend(q) ==
    /\ q \in Queries \ sent /\ Cardinality(sent) < setup.queries
    /\ sent' = sent \cup {q}
    /\ \E x \in setup.questions : question' = [question EXCEPT ![q] = x]
    /\ wire' = wire \cup {[Datagram EXCEPT !.q = q]}
    /\ UNCHANGED <<listVars, buf, heap, queue_mutex, IntReqNum, poolVars, mainVars, clock,
                   setup, shorts, responses, asked, replies, cache>>

ClientSendShort ==
    /\ shorts < setup.shorts
    /\ shorts' = shorts + 1
    /\ wire' = wire \cup {[Datagram EXCEPT !.short = TRUE]}
    /\ UNCHANGED <<listVars, buf, heap, queue_mutex, IntReqNum, poolVars, mainVars, clock,
                   setup, responses, sent, question, asked, replies, cache>>

ServerReply ==
    /\ responses < setup.replies
    /\ responses' = responses + 1
    /\ \E q \in Queries, c \in setup.rcodes : \E r \in ToSet(asked[q]) :
          wire' = wire \cup {[Datagram EXCEPT !.sock = r.s, !.qr = TRUE, !.q = q, !.ID = r.ID,
                                              !.rcode = c]}
    /\ UNCHANGED <<listVars, buf, heap, queue_mutex, IntReqNum, poolVars, mainVars, clock,
                   clientVars, asked, replies, cache>>

Tick ==
    /\ clock < MaxClock
    /\ clock' = clock + 1
    /\ UNCHANGED <<listVars, buf, heap, queue_mutex, IntReqNum, poolVars, mainVars, netVars>>

----------------------------------------------------------------------------
(* The main thread.  select() returns with readable sockets or, after       *)
(* Period seconds, without: cur_time is only set in the first case.         *)
Readable == {m.sock : m \in wire}

Select ==
    /\ main_pc = "select"
    /\ Readable # {}
    /\ socks' = Readable
    /\ cur_time' = clock
    /\ main_pc' = "recv"
    /\ UNCHANGED <<listVars, buf, heap, queue_mutex, IntReqNum, poolVars, scan, clock, netVars>>

SelectTimeout ==
    /\ main_pc = "select"
    /\ Readable = {}
    /\ main_pc' = "recv"
    /\ UNCHANGED <<listVars, buf, heap, queue_mutex, IntReqNum, poolVars, scan, socks, cur_time,
                   clock, netVars>>

(* One datagram from the next readable socket: a buffer from the free list  *)
(* or from malloc is zeroed, filled and pushed on the ready list.           *)
Sock == CHOOSE s \in socks : \A u \in socks : s <= u

Receive ==
    /\ main_pc = "recv" /\ socks # {}
    /\ \E m \in {w \in wire : w.sock = Sock /\ ~w.short},
          b \in IF free_buf # NULL THEN {free_buf} ELSE Buffers \ heap :
          /\ free_buf' = IF free_buf # NULL THEN next[free_buf] ELSE NULL
          /\ heap' = heap \cup {b}
          /\ buf' = [buf EXCEPT ![b] = [Blank EXCEPT !.qr = m.qr, !.q = m.q, !.ID = m.ID,
                                                     !.rcode = m.rcode, !.rcvtime = cur_time]]
          /\ next' = [next EXCEPT ![b] = ready_buf]
          /\ prev' = [prev EXCEPT ![b] = NULL]
          /\ ready_buf' = b
          /\ wire' = wire \ {m}
    /\ socks' = socks \ {Sock}
    /\ UNCHANGED <<queue_head, queue_tail, queue_mutex, IntReqNum, poolVars, main_pc, scan, cur_time,
                   clock, clientVars, responses, asked, replies, cache>>

(* A datagram too short: the buffer goes back to the free list, and the     *)
(* loop receives from the same socket again, readable or not.               *)
ReceiveShort ==
    /\ main_pc = "recv" /\ socks # {}
    /\ \E m \in {w \in wire : w.sock = Sock /\ w.short},
          b \in IF free_buf # NULL THEN {free_buf} ELSE Buffers \ heap :
          /\ free_buf' = b
          /\ heap' = heap \cup {b}
          /\ buf' = [buf EXCEPT ![b] = Blank]
          /\ next' = [next EXCEPT ![b] = IF b = free_buf THEN @ ELSE NULL]
          /\ prev' = [prev EXCEPT ![b] = NULL]
          /\ wire' = wire \ {m}
    /\ UNCHANGED <<ready_buf, queue_head, queue_tail, queue_mutex, IntReqNum, poolVars, mainVars, clock,
                   clientVars, responses, asked, replies, cache>>

(* cur_time -= 2 and the walk over the queue under queue_mutex.  All values *)
(* of cur_time up to 0 are equal here: no query is older than that.         *)
ScanBegin ==
    /\ main_pc = "recv" /\ socks = {} /\ queue_mutex = {}
    /\ cur_time' = IF cur_time > Period THEN cur_time - Period ELSE 0
    /\ queue_mutex' = {Main}
    /\ scan' = queue_head
    /\ main_pc' = "scan"
    /\ UNCHANGED <<listVars, buf, heap, IntReqNum, poolVars, socks, clock, netVars>>

Expired(b) == buf[b].rcvtime < cur_time

ScanKeep ==
    /\ main_pc = "scan" /\ scan # NULL /\ ~Expired(scan)
    /\ scan' = next[scan]
    /\ UNCHANGED <<listVars, buf, heap, queue_mutex, IntReqNum, poolVars, main_pc, socks, cur_time,
                   clock, netVars>>

(* The query goes to its next server; the walk stays where it is *)
ScanResend ==
    /\ main_pc = "scan" /\ scan # NULL /\ Expired(scan)
    /\ buf[scan].qserver < setup.servers
    /\ buf' = [buf EXCEPT ![scan].qserver = NextServer(scan)]
    /\ SendTo(NextServer(scan), scan)
    /\ UNCHANGED <<listVars, heap, queue_mutex, IntReqNum, poolVars, main_pc, scan, socks, cur_time, clock,
                   clientVars, responses, wire, replies, cache>>

ScanRemove ==
    /\ main_pc = "scan" /\ scan # NULL /\ Expired(scan)
    /\ buf[scan].qserver = setup.servers
    /\ queue_head' = HeadAfterUnlink(scan)
    /\ queue_tail' = TailAfterUnlink(scan)
    /\ prev' = IF next[scan] # NULL THEN [prev EXCEPT ![next[scan]] = prev[scan]] ELSE prev
    /\ next' = [b \in Buffers |-> IF b = scan THEN free_buf
                                  ELSE IF b = prev[scan] THEN next[scan] ELSE next[b]]
    /\ free_buf' = scan
    /\ scan' = next[scan]
    /\ UNCHANGED <<ready_buf, buf, heap, queue_mutex, IntReqNum, poolVars, main_pc, socks, cur_time,
                   clock, netVars>>

ScanEnd ==
    /\ main_pc = "scan" /\ scan = NULL
    /\ queue_mutex' = Unlocked
    /\ main_pc' = "select"
    /\ UNCHANGED <<listVars, buf, heap, IntReqNum, poolVars, scan, socks, cur_time, clock, netVars>>

----------------------------------------------------------------------------
(* A pool thread takes the newest buffer of the ready list (thread_block)   *)
Take(t) ==
    /\ pc[t] = "block" /\ ready_buf # NULL
    /\ request' = [request EXCEPT ![t] = ready_buf]
    /\ tmp_q' = [tmp_q EXCEPT ![t] = NULL]
    /\ save_rq' = [save_rq EXCEPT ![t] = FALSE]
    /\ ready_buf' = next[ready_buf]
    /\ pc' = [pc EXCEPT ![t] = IF buf[ready_buf].qr THEN "response" ELSE "query"]
    /\ UNCHANGED <<next, prev, free_buf, queue_head, queue_tail, buf, heap, queue_mutex, IntReqNum,
                   mainVars, clock, netVars>>

(* thread_handler, a response: look for the query with its ID in the queue  *)
FindBegin(t) ==
    /\ pc[t] = "response" /\ queue_mutex = {}
    /\ queue_mutex' = {t}
    /\ tmp_q' = [tmp_q EXCEPT ![t] = queue_head]
    /\ pc' = [pc EXCEPT ![t] = "find"]
    /\ UNCHANGED <<listVars, buf, heap, IntReqNum, request, save_rq, mainVars, clock, netVars>>

FindNext(t) ==
    /\ pc[t] = "find" /\ tmp_q[t] # NULL
    /\ buf[tmp_q[t]].ID # buf[request[t]].ID
    /\ tmp_q' = [tmp_q EXCEPT ![t] = NextInQueue(tmp_q[t])]
    /\ UNCHANGED <<listVars, buf, heap, queue_mutex, IntReqNum, pc, request, save_rq, mainVars, clock, netVars>>

Found(t) ==
    /\ pc[t] = "find" /\ tmp_q[t] # NULL
    /\ buf[tmp_q[t]].ID = buf[request[t]].ID
    /\ Unlink(tmp_q[t])
    /\ queue_mutex' = Unlocked
    /\ pc' = [pc EXCEPT ![t] = "found"]
    /\ UNCHANGED <<free_buf, ready_buf, buf, heap, IntReqNum, request, tmp_q, save_rq, mainVars, clock, netVars>>

(* There is no source query: the response is dropped *)
Lost(t) ==
    /\ pc[t] = "find" /\ tmp_q[t] = NULL
    /\ queue_mutex' = Unlocked
    /\ pc' = [pc EXCEPT ![t] = "release"]
    /\ UNCHANGED <<listVars, buf, heap, IntReqNum, request, tmp_q, save_rq, mainVars, clock, netVars>>

AnswerClient(t) ==
    /\ pc[t] = "found" /\ ~TryNextServer(request[t], tmp_q[t])
    /\ LET r == request[t] IN
       /\ cache' = IF Cacheable(r) THEN CacheAdd(cache, question[buf[r].q], buf[r].rcvtime) ELSE cache
       /\ replies' = [replies EXCEPT ![buf[tmp_q[t]].q] =
                         Append(@, Answer("server", question[buf[r].q], NothingFound))]
    /\ pc' = [pc EXCEPT ![t] = "release"]
    /\ UNCHANGED <<listVars, buf, heap, queue_mutex, IntReqNum, request, tmp_q, save_rq, mainVars, clock,
                   clientVars, responses, wire, asked>>

(* The two buffers change roles: the query is sent again and saved *)
Retry(t) ==
    /\ pc[t] = "found" /\ TryNextServer(request[t], tmp_q[t])
    /\ request' = [request EXCEPT ![t] = tmp_q[t]]
    /\ tmp_q' = [tmp_q EXCEPT ![t] = request[t]]
    /\ buf' = [buf EXCEPT ![tmp_q[t]].qserver = NextServer(tmp_q[t])]
    /\ SendTo(NextServer(tmp_q[t]), tmp_q[t])
    /\ save_rq' = [save_rq EXCEPT ![t] = TRUE]
    /\ pc' = [pc EXCEPT ![t] = "release"]
    /\ UNCHANGED <<listVars, heap, queue_mutex, IntReqNum, mainVars, clock,
                   clientVars, responses, wire, replies, cache>>

(* thread_handler, a query: it does not have exactly one question, or there *)
(* is nobody left to ask ...                                                *)
Asked(t) == question[buf[request[t]].q]
OneQuestion(t) == Asked(t).type # "many"
InMaster(t) == MasterLookup(Asked(t)) # NothingFound
InCache(t) == CacheHits(cache, Asked(t), buf[request[t]].rcvtime) # {}

Local(t, a) ==
    /\ pc[t] = "query"
    /\ replies' = [replies EXCEPT ![buf[request[t]].q] = Append(@, a)]
    /\ pc' = [pc EXCEPT ![t] = "release"]
    /\ UNCHANGED <<listVars, buf, heap, queue_mutex, IntReqNum, request, tmp_q, save_rq, mainVars, clock,
                   clientVars, responses, wire, asked>>

AnswerError(t) ==
    /\ pc[t] = "query"
    /\ OneQuestion(t) => ~InMaster(t) /\ ~InCache(t) /\ setup.servers = 0
    /\ Local(t, Answer("error", Asked(t), NothingFound))
    /\ UNCHANGED cache

(* ... or the master zones know the answer ...                              *)
AnswerMaster(t) ==
    /\ pc[t] = "query" /\ OneQuestion(t) /\ InMaster(t)
    /\ Local(t, Answer("zone", Asked(t), MasterLookup(Asked(t))))
    /\ UNCHANGED cache

(* ... or the cache does: it is copied over the question ...                *)
AnswerCache(t) ==
    /\ pc[t] = "query" /\ OneQuestion(t) /\ ~InMaster(t) /\ InCache(t)
    /\ LET i == CacheHit(cache, Asked(t), buf[request[t]].rcvtime) IN
       /\ Local(t, Answer("cache", cache[i].question, NothingFound))
       /\ cache' = [cache EXCEPT ![i].hits = @ + 1]

(* ... or it is sent to the first server.                                   *)
Forward(t) ==
    /\ pc[t] = "query" /\ queue_mutex = {}
    /\ OneQuestion(t) /\ ~InMaster(t) /\ ~InCache(t) /\ setup.servers > 0
    /\ next' = [next EXCEPT ![request[t]] = NULL]
    /\ buf' = [buf EXCEPT ![request[t]].ID = IntReqNum, ![request[t]].qserver = 1]
    /\ IntReqNum' = NextReqNum
    /\ SendTo(1, request[t])
    /\ save_rq' = [save_rq EXCEPT ![t] = TRUE]
    /\ pc' = [pc EXCEPT ![t] = "release"]
    /\ UNCHANGED <<prev, free_buf, ready_buf, queue_head, queue_tail, heap, queue_mutex, request, tmp_q,
                   mainVars, clock,
                   clientVars, responses, wire, replies, cache>>

(* Return buffers to the free list, tmp_q first *)
Release(t) ==
    /\ pc[t] = "release"
    /\ PushFree(Returned(t))
    /\ request' = [request EXCEPT ![t] = IF save_rq[t] THEN @ ELSE NULL]
    /\ tmp_q' = [tmp_q EXCEPT ![t] = NULL]
    /\ pc' = [pc EXCEPT ![t] = IF save_rq[t] THEN "save" ELSE "block"]
    /\ UNCHANGED <<prev, ready_buf, queue_head, queue_tail, save_rq, buf, heap, queue_mutex, IntReqNum,
                   mainVars, clock, netVars>>

(* Only now the query is linked into the queue; its next is left as it was  *)
Save(t) ==
    /\ pc[t] = "save" /\ queue_mutex = {}
    /\ prev' = [prev EXCEPT ![request[t]] = queue_tail]
    /\ next' = IF queue_tail # NULL THEN [next EXCEPT ![queue_tail] = request[t]] ELSE next
    /\ queue_head' = IF queue_tail # NULL THEN queue_head ELSE request[t]
    /\ queue_tail' = request[t]
    /\ request' = [request EXCEPT ![t] = NULL]
    /\ pc' = [pc EXCEPT ![t] = "block"]
    /\ UNCHANGED <<free_buf, ready_buf, buf, heap, queue_mutex, IntReqNum, tmp_q, save_rq, mainVars, clock, netVars>>

----------------------------------------------------------------------------
Network == (\E q \in Queries : ClientSend(q)) \/ ClientSendShort \/ ServerReply

MainLoop ==
    \/ Select \/ SelectTimeout \/ Receive \/ ReceiveShort
    \/ ScanBegin \/ ScanKeep \/ ScanResend \/ ScanRemove \/ ScanEnd

Handler(t) ==
    \/ FindBegin(t) \/ FindNext(t) \/ Found(t) \/ Lost(t) \/ AnswerClient(t) \/ Retry(t)
    \/ AnswerError(t) \/ AnswerMaster(t) \/ AnswerCache(t) \/ Forward(t) \/ Release(t) \/ Save(t)

Next == Network \/ Tick \/ MainLoop \/ \E t \in Pool : Take(t) \/ Handler(t)

Spec == Init /\ [][Next]_vars

----------------------------------------------------------------------------
(* The buffers of a list, from its head along next: Walk(h)[n] is the n-th  *)
(* one.  A list of more than Cardinality(Buffers) elements is a cycle.      *)
Walk(h) ==
    LET w[n \in 0 .. Cardinality(Buffers)] ==
          IF n = 0 THEN h ELSE IF w[n - 1] = NULL THEN NULL ELSE next[w[n - 1]]
    IN w

Members(h) == {Walk(h)[n] : n \in 0 .. Cardinality(Buffers)} \ {NULL}

Acyclic(h) == Walk(h)[Cardinality(Buffers)] = NULL

Held == {request[t] : t \in Pool} \ {NULL}

HeldOld == {tmp_q[t] : t \in {u \in Pool : pc[u] \in {"found", "release"}}} \ {NULL}

TypeOK ==
    /\ setup \in Setups
    /\ next \in [Buffers -> Buffers \cup {NULL}] /\ prev \in [Buffers -> Buffers \cup {NULL}]
    /\ buf \in [Buffers -> [qr : BOOLEAN, q : Queries \cup {NULL}, rcode : {"ok", "format", "failed"},
                            ID : 0 .. (IdSpace - 1), qserver : Socks, rcvtime : 0 .. MaxClock]]
    /\ heap \subseteq Buffers
    /\ {free_buf, ready_buf, queue_head, queue_tail, scan} \subseteq Buffers \cup {NULL}
    /\ queue_mutex \subseteq Pool \cup {Main} /\ Cardinality(queue_mutex) <= 1
    /\ IntReqNum \in 0 .. (IdSpace - 1)
    /\ pc \in [Pool -> {"block", "response", "query", "find", "found", "release", "save"}]
    /\ request \in [Pool -> Buffers \cup {NULL}] /\ tmp_q \in [Pool -> Buffers \cup {NULL}]
    /\ save_rq \in [Pool -> BOOLEAN]
    /\ main_pc \in {"select", "recv", "scan"} /\ socks \subseteq Socks
    /\ cur_time \in 0 .. MaxClock /\ clock \in 0 .. MaxClock
    /\ sent \subseteq Queries /\ shorts \in 0 .. setup.shorts /\ responses \in 0 .. setup.replies
    /\ question \in [Queries -> setup.questions \cup {NoQuestion}]
    /\ Len(cache) <= CacheMAX

(* The queue is the list the code takes it for: it ends, at queue_tail, and *)
(* prev is the inverse of next all along.  This and the next three hold as  *)
(* long as no query is retried with another one behind it in the queue:     *)
(* requeued with its old next (main.c:310-320), it closes a cycle.          *)
QueueIsList ==
    /\ Acyclic(queue_head)
    /\ queue_head = NULL <=> queue_tail = NULL
    /\ queue_head # NULL => prev[queue_head] = NULL /\ queue_tail \in Members(queue_head)
    /\ \A b \in Members(queue_head) :
          IF next[b] = NULL THEN b = queue_tail ELSE prev[next[b]] = b

(* No buffer is leaked or has two owners: every buffer ever allocated is in *)
(* exactly one of the three lists or held by exactly one pool thread.       *)
BuffersAccounted ==
    /\ TypeOK
    /\ Acyclic(free_buf) /\ Acyclic(ready_buf)
    /\ \A t, u \in Pool : t # u => request[t] = NULL \/ request[t] # request[u]
    /\ LET places == <<Members(free_buf), Members(ready_buf), Members(queue_head), Held, HeldOld>>
       IN /\ heap = UNION {places[i] : i \in DOMAIN places}
          /\ \A i, j \in DOMAIN places : i # j => places[i] \cap places[j] = {}

(* A query is answered at most once, and with an answer to its own question *)
(* even if responses come late, twice or out of order or the answer is      *)
(* another client's out of the cache; and what the zones answer is right    *)
(* whatever the order of their lists.  Only when more queries have been     *)
(* forwarded than there are numbers may one get the answer to another, and  *)
(* that to one that went out under the same number.                         *)
Numbers(q) == {r.ID : r \in ToSet(asked[q])}
NumbersReused == Cardinality({q \in Queries : asked[q] # <<>>}) > IdSpace
TakenFor(q, p) == NumbersReused /\ Numbers(p) \cap Numbers(q) # {}

AnsweredOnce ==
    \A q \in Queries :
        /\ Len(replies[q]) <= 1
        /\ \A i \in DOMAIN replies[q] :
              LET a == replies[q][i] IN
              /\ \/ a.question = question[q]
                 \/ a.from = "server" /\ \E p \in Queries : TakenFor(q, p) /\ a.question = question[p]
              /\ a.from = "zone" => MasterRight(a.question, a.data)

(* The servers are asked in their order, none is skipped or asked twice,    *)
(* whether the scan or the handler of a response sends the query on: one    *)
(* that waits for the server qserver, or is about to be put back into the   *)
(* queue, went to the servers up to that one, once each.                    *)
Forwarded == Members(queue_head) \cup {request[t] : t \in {u \in Pool : save_rq[u] /\ pc[u] \in {"release", "save"}}}
ServersInOrder ==
    \A b \in Forwarded :
        LET requests == asked[buf[b].q]
        IN [i \in DOMAIN requests |-> requests[i].s] = [i \in 1 .. buf[b].qserver |-> i]

(* "Expired records are removed from cache as soon as possible": an answer  *)
(* that comes in takes the place of an expired one if there is one, else    *)
(* free room, and only in a full cache the place of a record that none has  *)
(* fewer hits than, nor as many and less time to live.                      *)
Weaker(r, c) == c.hits < r.hits \/ (c.hits = r.hits /\ c.expires < r.expires)
CacheReplaces == [][
    \/ \E i \in DOMAIN cache : cache' = [cache EXCEPT ![i].hits = @ + 1]
    \/ \E t \in {u \in Pool : pc[u] = "found"} :
          LET now == buf[request[t]].rcvtime
              rec == Record(question[buf[request[t]].q], now)
              live == {i \in DOMAIN cache : cache[i].expires >= now}
          IN \/ cache' = Append(cache, rec) /\ live = DOMAIN cache /\ Len(cache) < CacheMAX
             \/ \E i \in DOMAIN cache :
                   /\ cache' = [cache EXCEPT ![i] = rec]
                   /\ i \in live => /\ live = DOMAIN cache /\ Len(cache) = CacheMAX
                                    /\ \A j \in live : ~Weaker(cache[i], cache[j])
  ]_cache
=============================================================================
