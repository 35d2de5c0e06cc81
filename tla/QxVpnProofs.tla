---------------------------- MODULE QxVpnProofs ----------------------------
(***************************************************************************)
(* Proofs about QxVpn for any number of threads, blocks of memory, sockets *)
(* and calls.                                                              *)
(***************************************************************************)
EXTENDS QxVpn, FiniteSetTheorems, WellFoundedInduction, TLAPS

(* The types of all variables but budget.                                   *)
EventType == [pc : {"lock", "handle"}, fd : Fds, block : Blocks, number : Nat]

Types ==
    /\ mem \in [Blocks -> ClientType \cup {Free}]
    /\ owner \in [Blocks -> Threads \cup {NoOne}]
    /\ fds \in [Fds -> [block : Blocks, number : Nat] \cup {Closed}]
    /\ th \in [Threads -> EventType \cup {Idle}]
    /\ births \in Nat
    /\ forgotten \in [Blocks -> Nat]
    /\ loose \in BOOLEAN /\ touched \in BOOLEAN /\ crashed \in BOOLEAN

(* A client as the control connection may leave it.                         *)
Legal(c) ==
    /\ (c.call_id # 0 \/ c.cc_call_id # 0 \/ c.raw_sock # NoSock) => c.cc_state = "established"
    /\ c.snd_ack = 0 \/ c.snd_ack < c.snd_num
    /\ c.cc_sock # c.raw_sock

ClientsAreLegal == \A b \in Blocks : Live(b) => Legal(mem[b])

(* Only the holder of the mutex is in a handler.                            *)
HandlersOwn == \A t \in Threads : th[t].pc = "handle" => Live(th[t].block) /\ owner[th[t].block] = t

(* Clients are numbered, and a number is given once.                        *)
Numbered ==
    /\ \A b \in Blocks : Live(b) => mem[b].number \in 1 .. births
    /\ \A b, c \in Blocks : Live(b) /\ mem[b].number = mem[c].number => b = c
    /\ \A f \in OpenFds : fds[f].number \in 1 .. births
    /\ \A t \in Threads : th[t] # Idle => th[t].number \in 1 .. births

(* A client has its sockets, and the ones it has forgotten are counted.     *)
HasSockets(b) ==
    /\ {mem[b].cc_sock, mem[b].raw_sock} \ {NoSock} \subseteq SocketsOf(b)
    /\ Cardinality(SocketsOf(b) \ {mem[b].cc_sock, mem[b].raw_sock}) = forgotten[b]

SocketsAreCounted == \A b \in Blocks : Live(b) => HasSockets(b)

(* A socket or an event leads to a client that is gone only if one was      *)
(* destroyed too early.                                                     *)
Explained ==
    /\ \A f \in OpenFds : loose \/ mem[fds[f].block].number = fds[f].number
    /\ \A t \in Threads : th[t] # Idle => loose \/ mem[th[t].block].number = th[t].number
    /\ touched => loose

IInv ==
    /\ Types
    /\ ClientsAreLegal
    /\ HandlersOwn
    /\ Numbered
    /\ SocketsAreCounted
    /\ Explained
----------------------------------------------------------------------------
(* The system gives a new socket a number that is not in use.               *)
LEMMA NextFdIsFree == OpenFds # Fds => NextFd \in Fds /\ NextFd \notin OpenFds
<1> SUFFICES ASSUME OpenFds # Fds PROVE NextFd \in Fds \ OpenFds
  OBVIOUS
<1> DEFINE T == Fds \ OpenFds
           R == OpToRel(<, Nat)
<1> USE VpnAssumption
<1>1. T # {} /\ T \subseteq Nat BY DEF OpenFds, Fds
<1>2. \A y, x \in Nat : y < x => <<y, x>> \in R BY Zenon DEF OpToRel
<1>3. IsWellFoundedOn(R, Nat) BY NatLessThanWellFounded
<1>4. \E x \in T : \A y \in T : x =< y
  <2> HIDE DEF R, T
  <2>1. PICK x \in T : \A y \in T : ~(<<y, x>> \in R) BY <1>1, <1>3, WFMin
  <2>2. \A y \in T : ~(y < x) BY <1>1, <1>2, <2>1
  <2> QED BY <1>1, <2>2
<1>5. (CHOOSE z \in T : \A y \in T : z =< y) \in T BY <1>4
<1> QED BY <1>5 DEF NextFd, Min

(* No client, no socket and no thread at the start.                         *)
LEMMA InitIInv == Init => IInv
<1> SUFFICES ASSUME Init PROVE IInv
  OBVIOUS
<1> USE VpnAssumption DEF Init
<1>1. Types BY DEF Types
<1>2. /\ \A b \in Blocks : ~Live(b)
      /\ \A t \in Threads : th[t] = Idle /\ th[t].pc # "handle"
      /\ OpenFds = {}
  BY DEF Live, OpenFds, Idle
<1>3. ClientsAreLegal /\ HandlersOwn /\ Numbered /\ SocketsAreCounted /\ Explained
  BY <1>2 DEF ClientsAreLegal, HandlersOwn, Numbered, SocketsAreCounted, Explained
<1> QED BY <1>1, <1>3 DEF IInv

(* What a handler may do.  It leaves the client with its sockets, ...       *)
Keeps(t) ==
    \E c \in ClientType :
       /\ Becomes(t, c) /\ UNCHANGED <<fds, forgotten, loose>>
       /\ Legal(c)
       /\ c.number = Client(t).number /\ c.cc_sock = Client(t).cc_sock /\ c.raw_sock = Client(t).raw_sock

(* ... gives it another raw socket or none, ...                             *)
Changes(t) ==
    \E c \in ClientType :
       /\ Becomes(t, c) /\ Forgets(t)
       /\ Legal(c)
       /\ c.number = Client(t).number /\ c.cc_sock = Client(t).cc_sock
       /\ \/ c.raw_sock = NoSock /\ UNCHANGED fds
          \/ /\ OpenFds # Fds /\ c.raw_sock = NextFd
             /\ fds' = [fds EXCEPT ![NextFd] = [block |-> th[t].block, number |-> Client(t).number]]

(* ... destroys it, or ends the process.                                    *)
Crashes == crashed' = TRUE /\ UNCHANGED <<mem, owner, fds, th, births, forgotten, loose, touched>>

Outcome(t) == Keeps(t) \/ Changes(t) \/ Destroy(t) \/ Crashes

(* Every message and every packet has one of these outcomes.                *)
LEMMA HandlerOutcome ==
    ASSUME IInv, NEW t \in Threads, Handle(t)
    PROVE  th[t].pc = "handle" /\ Outcome(t)
<1> USE VpnAssumption
<1> DEFINE c0 == Client(t)
<1>0. /\ th[t].pc = "handle" => c0 \in ClientType /\ Legal(c0) /\ th[t] \in EventType /\ Live(th[t].block)
  BY DEF IInv, Types, HandlersOwn, ClientsAreLegal, Live, Client, Idle, EventType
<1> USE DEF Outcome
<1>1. CASE Stop(t) \/ OCallEarly(t)
  BY <1>1 DEF Stop, OCallEarly, CcEvent
<1>2. CASE Echo(t) \/ Ignore(t)
  BY <1>0, <1>2 DEF Echo, Ignore, CcEvent, RawEvent, Keeps
<1>3. CASE CClearReq(t)
  <2>1. Cleared(c0) \in ClientType /\ Legal(Cleared(c0))
    BY <1>0, <1>3 DEF CClearReq, CcEvent, Cleared, ClientType, Legal
  <2>2. Cleared(c0).number = c0.number /\ Cleared(c0).cc_sock = c0.cc_sock /\ Cleared(c0).raw_sock = c0.raw_sock
    BY <1>0, <1>3 DEF CClearReq, CcEvent, Cleared, ClientType
  <2> QED BY <1>3, <2>1, <2>2 DEF CClearReq, CcEvent, Keeps
<1>4. CASE SLinkInfo(t)
  BY <1>0, <1>4 DEF SLinkInfo, CcEvent, Keeps
<1>5. ASSUME NEW known \in BOOLEAN, StartReq(t, known) PROVE th[t].pc = "handle" /\ Outcome(t)
  <2> DEFINE c == [c0 EXCEPT !.cc_state = "established"]
  <2>0. th[t].pc = "handle" BY <1>5 DEF StartReq, CcEvent
  <2>1. c \in ClientType /\ Legal(c) /\ c.number = c0.number /\ c.cc_sock = c0.cc_sock /\ c.raw_sock = c0.raw_sock
    BY <1>0, <2>0 DEF ClientType, Legal
  <2> QED BY <1>5, <2>0, <2>1 DEF StartReq, Keeps
<1>6. ASSUME NEW id \in CallIds \cup {0}, NEW sn \in CallIds \cup {0},
             OCallRefused(t, id, sn) \/ OCallGranted(t, id, sn)
      PROVE  th[t].pc = "handle" /\ Outcome(t)
  <2> DEFINE c == Called(c0, id, sn)
  <2>0. th[t].pc = "handle" /\ c0.cc_state = "established"
    BY <1>6 DEF OCallRefused, OCallGranted, CcEvent, CallBeforeStart
  <2>1. c \in ClientType /\ Legal(c) /\ c.number = c0.number /\ c.cc_sock = c0.cc_sock /\ c.raw_sock = c0.raw_sock
    BY <1>0, <2>0 DEF ClientType, Legal, Called, OurCallId
  <2>2. CASE HasCall(c0) BY <1>6, <2>0, <2>1, <2>2 DEF OCallRefused, OCallGranted, Keeps
  <2>3. CASE ~HasCall(c0) /\ OCallRefused(t, id, sn)
    <3> DEFINE d == [c EXCEPT !.raw_sock = NoSock]
    <3>1. d \in ClientType /\ Legal(d) /\ d.number = c0.number /\ d.cc_sock = c0.cc_sock /\ d.raw_sock = NoSock
      BY <1>0, <2>0, <2>1 DEF ClientType, Legal, NoSock, Fds
    <3> QED BY <2>0, <2>3, <3>1 DEF OCallRefused, Changes
  <2>4. CASE OCallGranted(t, id, sn)
    <3> DEFINE d == [c EXCEPT !.raw_sock = NextFd]
    <3>1. NextFd \in Fds /\ NextFd \notin OpenFds BY <2>4, NextFdIsFree DEF OCallGranted
    <3>2. c0.cc_sock \in OpenFds
      <4>1. th[t].block \in Blocks /\ HasSockets(th[t].block)
        BY <1>0, <2>0 DEF IInv, SocketsAreCounted, EventType
      <4>2. c0.cc_sock \in {c0.cc_sock, c0.raw_sock} \ {NoSock}
        BY <1>0, <2>0 DEF ClientType, NoSock, Fds
      <4> QED BY <4>1, <4>2 DEF HasSockets, SocketsOf, Client
    <3>3. d \in ClientType /\ Legal(d) /\ d.number = c0.number /\ d.cc_sock = c0.cc_sock /\ d.raw_sock = NextFd
      BY <2>0, <2>1, <3>1, <3>2 DEF ClientType, Legal, Called
    <3> QED BY <2>0, <2>4, <3>3 DEF OCallGranted, Changes
  <2> QED BY <1>6, <2>2, <2>3, <2>4
<1>7. ASSUME NEW key \in {0, OurCallId}, NEW ack \in 0 .. NoNum, NEW seq \in 0 .. NoNum, Packet(t, key, ack, seq)
      PROVE  th[t].pc = "handle" /\ Outcome(t)
  <2> DEFINE acked == IF ack = NoNum THEN c0 ELSE [c0 EXCEPT !.snd_ack = ack]
             got == [acked EXCEPT !.rcv_num = seq]
             sent == [got EXCEPT !.snd_num = @ + 1]
             Good(c) == /\ c \in ClientType /\ Legal(c) /\ c.number = c0.number
                        /\ c.cc_sock = c0.cc_sock /\ c.raw_sock = c0.raw_sock
  <2>0. th[t].pc = "handle" /\ ~AckWrong(c0, ack) BY <1>7 DEF Packet, RawEvent
  <2>1. Good(acked) BY <1>0, <2>0 DEF ClientType, Legal, AckWrong, NoNum
  <2>2. ASSUME ~(seq = NoNum) PROVE Good(got) BY <2>1, <2>2 DEF ClientType, Legal, NoNum
  <2>3. ASSUME ~(seq = NoNum) PROVE Good(sent)
    <3> HIDE DEF got
    <3> QED BY <2>2, <2>3 DEF ClientType, Legal
  <2>4. CASE seq = NoNum \/ seq < acked.rcv_num
    <3>1. Becomes(t, acked) /\ UNCHANGED <<fds, forgotten, loose>> BY <1>7, <2>4 DEF Packet
    <3> HIDE DEF acked
    <3> QED BY <2>0, <2>1, <3>1 DEF Keeps
  <2>5. CASE ~(seq = NoNum \/ seq < acked.rcv_num)
    <3>1. /\ UNCHANGED <<fds, forgotten, loose>>
          /\ \/ Becomes(t, got) \/ Becomes(t, sent)
             \/ crashed' = TRUE /\ UNCHANGED <<mem, owner, th, births, touched>>
      <4>1. /\ IF seq = NoNum \/ seq < acked.rcv_num
                  THEN Becomes(t, acked)
                  ELSE \/ Becomes(t, got)
                       \/ Becomes(t, sent)
                       \/ crashed' = TRUE /\ UNCHANGED <<mem, owner, th, births, touched>>
            /\ UNCHANGED <<fds, forgotten, loose>>
        BY <1>7, Zenon DEF Packet
      <4> HIDE DEF acked, got, sent
      <4> QED BY <2>5, <4>1
    <3>2. Good(got) /\ Good(sent) BY <2>2, <2>3, <2>5
    <3> HIDE DEF got, sent
    <3> QED BY <2>0, <3>1, <3>2 DEF Keeps, Crashes
  <2> QED BY <2>4, <2>5
<1> QED
  BY <1>1, <1>2, <1>3, <1>4, <1>5, <1>6, <1>7 DEF Handle

(* A socket more or less in a set that is counted.                          *)
LEMMA Counting ==
    /\ Cardinality({}) = 0
    /\ \A S, x : IsFiniteSet(S) /\ x \notin S => Cardinality(S \cup {x}) = Cardinality(S) + 1
    /\ \A S : S \subseteq Fds => IsFiniteSet(S) /\ Cardinality(S) \in Nat
    /\ \A S : IsFiniteSet(S) /\ S # {} => Cardinality(S) > 0
<1>1. \A S, x : IsFiniteSet(S) /\ x \notin S => Cardinality(S \cup {x}) = Cardinality(S) + 1
  BY FS_AddElement
<1>2. IsFiniteSet(Fds) BY VpnAssumption, FS_Interval DEF Fds
<1>3. \A S : S \subseteq Fds => IsFiniteSet(S) /\ Cardinality(S) \in Nat
  BY <1>2, FS_Subset, FS_CardinalityType
<1>4. \A S : IsFiniteSet(S) /\ S # {} => Cardinality(S) > 0
  BY FS_EmptySet, FS_CardinalityType
<1> QED BY <1>1, <1>3, <1>4, FS_EmptySet

(* A new connection keeps the invariant.                                    *)
LEMMA AcceptIInv == IInv /\ Accept => IInv'
<1> SUFFICES ASSUME IInv, Accept PROVE IInv'
  OBVIOUS
<1> USE VpnAssumption DEF IInv
<1>1. NextFd \in Fds /\ NextFd \notin OpenFds BY NextFdIsFree DEF Accept
<1>2. PICK f \in Fds : f = NextFd BY <1>1
<1>3. PICK b \in Blocks :
        /\ ~Live(b)
        /\ mem' = [mem EXCEPT ![b] = NewClient(f)]
        /\ owner' = [owner EXCEPT ![b] = NoOne]
        /\ fds' = [fds EXCEPT ![f] = [block |-> b, number |-> births + 1]]
        /\ forgotten' = [forgotten EXCEPT ![b] = 0]
  BY <1>2 DEF Accept
<1>4. births' = births + 1 /\ UNCHANGED <<th, loose, touched, crashed>> BY DEF Accept
<1>5. NewClient(f) \in ClientType /\ Legal(NewClient(f)) /\ NewClient(f).number = births + 1
      /\ NewClient(f).cc_sock = f /\ NewClient(f).raw_sock = NoSock
  BY DEF NewClient, ClientType, Legal, Types, NoSock, Fds
<1>6. Types' BY <1>3, <1>4, <1>5 DEF Types
<1>7. /\ \A c \in Blocks : c # b => mem'[c] = mem[c] /\ (Live(c)' <=> Live(c)) /\ forgotten'[c] = forgotten[c]
      /\ mem'[b] = NewClient(f) /\ Live(b)' /\ forgotten'[b] = 0 /\ mem[b].number = 0
  <2>1. NewClient(f) # Free BY <1>5 DEF Free, Types
  <2> QED BY <1>3, <1>5, <2>1 DEF Types, Live, Free
<1>8. /\ OpenFds' = OpenFds \cup {f} /\ f \notin OpenFds
      /\ \A g \in OpenFds : fds'[g] = fds[g]
      /\ fds'[f].number = births + 1 /\ fds'[f].block = b
  <2>1. [block |-> b, number |-> births + 1] # Closed BY DEF Closed, Types
  <2> QED BY <1>1, <1>2, <1>3, <2>1 DEF Types, OpenFds
<1>9. ClientsAreLegal' BY <1>5, <1>7 DEF ClientsAreLegal
<1>10. HandlersOwn'
  <2>1. \A t \in Threads : th[t].pc = "handle" => th[t].block \in Blocks /\ th[t].block # b
    BY <1>3 DEF HandlersOwn, Types, EventType, Idle
  <2> QED BY <1>3, <1>4, <1>7, <2>1 DEF HandlersOwn, Types
<1>11. Numbered'
  <2>1. births \in Nat /\ births' = births + 1 BY <1>4 DEF Types
  <2>2. (\A c \in Blocks : Live(c) => mem[c].number \in 1 .. births)'
    BY <1>5, <1>7, <2>1 DEF Numbered
  <2>3. (\A c, d \in Blocks : Live(c) /\ mem[c].number = mem[d].number => c = d)'
    <3>1. \A c \in Blocks : c # b => mem[c].number # births + 1
      <4>1. \A c \in Blocks : ~Live(c) => mem[c].number = 0 BY DEF Live, Free
      <4> QED BY <2>1, <4>1 DEF Numbered
    <3> QED BY <1>5, <1>7, <3>1 DEF Numbered
  <2>4. (\A g \in OpenFds : fds[g].number \in 1 .. births)' BY <1>8, <2>1 DEF Numbered
  <2>5. (\A t \in Threads : th[t] # Idle => th[t].number \in 1 .. births)'
    BY <1>4, <2>1 DEF Numbered
  <2> QED BY <2>2, <2>3, <2>4, <2>5 DEF Numbered
<1>12. SocketsAreCounted'
  <2>1. ASSUME NEW c \in Blocks, Live(c), c # b PROVE HasSockets(c)'
    <3>1. mem[c].number \in 1 .. births BY <2>1 DEF Numbered
    <3>2. SocketsOf(c)' = SocketsOf(c) BY <1>7, <1>8, <2>1, <3>1 DEF SocketsOf, Types
    <3> QED BY <1>7, <2>1, <3>2 DEF SocketsAreCounted, HasSockets
  <2>2. HasSockets(b)'
    <3>1. SocketsOf(b)' = {f} BY <1>5, <1>7, <1>8 DEF SocketsOf, Numbered, Types
    <3>2. (SocketsOf(b) \ {mem[b].cc_sock, mem[b].raw_sock})' = {} BY <1>5, <1>7, <3>1
    <3> QED BY <1>5, <1>7, <3>1, <3>2, Counting DEF HasSockets
  <2> QED BY <1>7, <2>1, <2>2 DEF SocketsAreCounted
<1>13. Explained'
  <2>1. \A g \in OpenFds : g # f /\ fds[g].number # 0 BY <1>8 DEF Numbered
  <2>2. \A t \in Threads : th[t] # Idle => th[t].number # 0 /\ th[t].block \in Blocks
    BY DEF Numbered, Types, EventType
  <2>3. \A g \in OpenFds : fds[g].block \in Blocks BY DEF OpenFds, Types
  <2> QED BY <1>4, <1>5, <1>7, <1>8, <2>1, <2>2, <2>3 DEF Explained
<1> QED BY <1>6, <1>9, <1>10, <1>11, <1>12, <1>13

(* So does the end of a handler that leaves the client with its sockets ... *)
LEMMA KeepsIInv == ASSUME IInv, NEW t \in Threads, th[t].pc = "handle", Keeps(t) PROVE IInv'
<1> USE VpnAssumption DEF IInv
<1> PICK b \in Blocks : b = th[t].block BY DEF IInv, Types, EventType, Idle
<1>0. b \in Blocks /\ Live(b) /\ owner[b] = t /\ th[t] \in EventType
  BY DEF HandlersOwn, Types, EventType, Idle
<1>1. PICK c \in ClientType :
        /\ Becomes(t, c) /\ UNCHANGED <<fds, forgotten, loose>>
        /\ Legal(c)
        /\ c.number = mem[b].number /\ c.cc_sock = mem[b].cc_sock /\ c.raw_sock = mem[b].raw_sock
  BY DEF Keeps, Client
<1> USE DEF Becomes, Unlock
<1>2. Types' BY <1>0, <1>1 DEF Types
<1>3. mem[b].number \in 1 .. births BY <1>0 DEF Numbered
<1>4. c # Free BY <1>1, <1>3 DEF Free
<1>5. \A d \in Blocks : /\ Live(d)' <=> Live(d)
                        /\ mem'[d].number = mem[d].number
                        /\ Live(d) => mem'[d].cc_sock = mem[d].cc_sock /\ mem'[d].raw_sock = mem[d].raw_sock
                        /\ Legal(mem[d]) => Legal(mem'[d])
  BY <1>0, <1>1, <1>4 DEF Types, Live
<1>6. ClientsAreLegal' BY <1>5 DEF ClientsAreLegal
<1>7. /\ \A u \in Threads : u # t => th'[u] = th[u]
      /\ th'[t] = Idle
      /\ \A d \in Blocks : d # b => owner'[d] = owner[d]
  BY <1>0, <1>1 DEF Types
<1>8. HandlersOwn'
  <2>1. \A u \in Threads : th'[u].pc = "handle" => u # t /\ th[u].pc = "handle" BY <1>7 DEF Idle
  <2>2. \A u \in Threads : th[u].pc = "handle" => th[u].block \in Blocks BY DEF Types, EventType, Idle
  <2>3. \A u \in Threads : (u # t /\ th[u].pc = "handle") => th[u].block # b BY <1>0 DEF HandlersOwn
  <2> QED BY <1>5, <1>7, <2>1, <2>2, <2>3 DEF HandlersOwn
<1>9. Numbered' BY <1>1, <1>5, <1>7 DEF Numbered, OpenFds
<1>10. SocketsAreCounted'
  <2>1. \A d \in Blocks : SocketsOf(d)' = SocketsOf(d) BY <1>1, <1>5 DEF SocketsOf, OpenFds
  <2> QED BY <1>1, <1>5, <2>1 DEF SocketsAreCounted, HasSockets
<1>11. Explained'
  <2>1. \A u \in Threads : th[u] # Idle => th[u].block \in Blocks BY DEF Types, EventType
  <2>2. \A g \in OpenFds : fds[g].block \in Blocks BY DEF OpenFds, Types
  <2> QED BY <1>1, <1>5, <1>7, <2>1, <2>2 DEF Explained, OpenFds
<1> QED BY <1>2, <1>6, <1>8, <1>9, <1>10, <1>11

(* ... or with another raw socket, the old one being forgotten ...          *)
LEMMA ChangesIInv == ASSUME IInv, NEW t \in Threads, th[t].pc = "handle", Changes(t) PROVE IInv'
<1> USE VpnAssumption DEF IInv
<1> PICK b \in Blocks : b = th[t].block BY DEF IInv, Types, EventType, Idle
<1>0. b \in Blocks /\ Live(b) /\ owner[b] = t /\ th[t] \in EventType /\ mem[b] \in ClientType
  BY DEF HandlersOwn, Types, EventType, Idle, Live
<1>1. PICK c \in ClientType :
        /\ Becomes(t, c) /\ Forgets(t)
        /\ Legal(c)
        /\ c.number = mem[b].number /\ c.cc_sock = mem[b].cc_sock
        /\ \/ c.raw_sock = NoSock /\ UNCHANGED fds
           \/ /\ OpenFds # Fds /\ c.raw_sock = NextFd
              /\ fds' = [fds EXCEPT ![NextFd] = [block |-> b, number |-> mem[b].number]]
  BY DEF Changes, Client
<1> USE DEF Becomes, Unlock
<1>2. births' = births /\ touched' = touched /\ loose' = loose /\ crashed' = crashed
  BY <1>1 DEF Forgets
<1>3. mem[b].number \in 1 .. births BY <1>0 DEF Numbered
<1>4. c # Free BY <1>1, <1>3 DEF Free
<1>5. /\ \A d \in Blocks : (Live(d)' <=> Live(d)) /\ mem'[d].number = mem[d].number
      /\ \A d \in Blocks : d # b => mem'[d] = mem[d] /\ forgotten'[d] = forgotten[d]
      /\ mem'[b] = c
      /\ forgotten' \in [Blocks -> Nat]
      /\ forgotten'[b] = IF mem[b].raw_sock = NoSock THEN forgotten[b] ELSE forgotten[b] + 1
  BY <1>0, <1>1, <1>4 DEF Types, Live, Forgets, Client
<1>6. ClientsAreLegal' BY <1>1, <1>5 DEF ClientsAreLegal
<1>7. /\ \A u \in Threads : u # t => th'[u] = th[u]
      /\ th'[t] = Idle
      /\ \A d \in Blocks : d # b => owner'[d] = owner[d]
  BY <1>0, <1>1 DEF Types
<1>8. HandlersOwn'
  <2>1. \A u \in Threads : th'[u].pc = "handle" => u # t /\ th[u].pc = "handle" BY <1>7 DEF Idle
  <2>2. \A u \in Threads : th[u].pc = "handle" => th[u].block \in Blocks BY DEF Types, EventType, Idle
  <2>3. \A u \in Threads : (u # t /\ th[u].pc = "handle") => th[u].block # b BY <1>0 DEF HandlersOwn
  <2> QED BY <1>5, <1>7, <2>1, <2>2, <2>3 DEF HandlersOwn
<1>9. \/ c.raw_sock = NoSock /\ UNCHANGED fds /\ OpenFds' = OpenFds
      \/ /\ c.raw_sock \in Fds \ OpenFds /\ OpenFds' = OpenFds \cup {c.raw_sock}
         /\ fds' = [fds EXCEPT ![c.raw_sock] = [block |-> b, number |-> mem[b].number]]
  <2>1. CASE c.raw_sock = NoSock /\ UNCHANGED fds BY <2>1 DEF OpenFds
  <2>2. CASE /\ OpenFds # Fds /\ c.raw_sock = NextFd
             /\ fds' = [fds EXCEPT ![NextFd] = [block |-> b, number |-> mem[b].number]]
    <3>1. NextFd \in Fds /\ NextFd \notin OpenFds BY <2>2, NextFdIsFree
    <3>2. [block |-> b, number |-> mem[b].number] # Closed BY <1>3 DEF Closed, Types
    <3> QED BY <2>2, <3>1, <3>2 DEF Types, OpenFds
  <2> QED BY <1>1, <2>1, <2>2
<1>10. /\ \A g \in OpenFds : g \in OpenFds' /\ fds'[g] = fds[g]
       /\ \A g \in OpenFds' : g \in OpenFds \/ (fds'[g].number = mem[b].number /\ fds'[g].block = b)
  BY <1>9 DEF OpenFds, Types
<1>11. Types'
  <2>1. mem' \in [Blocks -> ClientType \cup {Free}] BY <1>1 DEF Types
  <2>2. fds' \in [Fds -> [block : Blocks, number : Nat] \cup {Closed}] BY <1>3, <1>9 DEF Types
  <2>3. owner' \in [Blocks -> Threads \cup {NoOne}] /\ th' \in [Threads -> EventType \cup {Idle}]
    BY <1>1 DEF Types
  <2> QED BY <1>2, <1>5, <2>1, <2>2, <2>3 DEF Types
<1>12. Numbered' BY <1>2, <1>3, <1>5, <1>7, <1>10 DEF Numbered
<1>13. SocketsAreCounted'
  <2>1. ASSUME NEW d \in Blocks, Live(d), d # b PROVE HasSockets(d)'
    <3>1. mem[d].number # mem[b].number BY <1>0, <2>1 DEF Numbered
    <3>2. SocketsOf(d)' = SocketsOf(d) BY <1>5, <1>10, <2>1, <3>1 DEF SocketsOf
    <3> QED BY <1>5, <2>1, <3>2 DEF SocketsAreCounted, HasSockets
  <2>2. HasSockets(b)'
    <3> DEFINE raw == mem[b].raw_sock
               cc == mem[b].cc_sock
               rest == SocketsOf(b) \ {cc, raw}
               rest2 == SocketsOf(b) \ {cc}
    <3>1. HasSockets(b) BY <1>0 DEF SocketsAreCounted
    <3>2. SocketsOf(b) \subseteq OpenFds /\ OpenFds \subseteq Fds BY DEF SocketsOf, OpenFds
    <3>3. cc \in Fds /\ cc # raw /\ NoSock \notin Fds
      BY <1>0 DEF ClientType, ClientsAreLegal, Legal, NoSock, Fds
    <3>4. cc \in SocketsOf(b) /\ (raw # NoSock => raw \in SocketsOf(b)) BY <3>1, <3>3 DEF HasSockets
    <3>5. Cardinality(rest) = forgotten[b] /\ IsFiniteSet(rest) BY <3>1, <3>2, Counting DEF HasSockets
    <3>6. Cardinality(rest2) = forgotten'[b]
      <4>1. CASE raw = NoSock
        <5>1. rest2 = rest BY <3>2, <3>3, <4>1
        <5> QED BY <1>5, <3>5, <4>1, <5>1
      <4>2. CASE raw # NoSock
        <5>1. rest2 = rest \cup {raw} BY <3>3, <3>4, <4>2
        <5> HIDE DEF rest, rest2, raw
        <5>2. raw \notin rest BY DEF rest
        <5> QED BY <1>5, <3>5, <4>2, <5>1, <5>2, Counting DEF raw
      <4> QED BY <4>1, <4>2
    <3>7. /\ (SocketsOf(b))' = SocketsOf(b) \cup ({c.raw_sock} \ {NoSock})
          /\ c.raw_sock \notin SocketsOf(b)
      BY <1>1, <1>3, <1>5, <1>9, <1>10, <3>2, <3>3 DEF SocketsOf, Types
    <3>8. (SocketsOf(b) \ {mem[b].cc_sock, mem[b].raw_sock})' = rest2
      BY <1>1, <1>5, <3>7
    <3>9. ({mem[b].cc_sock, mem[b].raw_sock} \ {NoSock} \subseteq SocketsOf(b))'
      BY <1>1, <1>5, <3>4, <3>7
    <3> QED BY <3>6, <3>8, <3>9 DEF HasSockets
  <2> QED BY <1>5, <2>1, <2>2 DEF SocketsAreCounted
<1>14. Explained'
  <2>1. \A u \in Threads : th[u] # Idle => th[u].block \in Blocks BY DEF Types, EventType
  <2>2. \A g \in OpenFds : fds[g].block \in Blocks BY DEF OpenFds, Types
  <2> QED BY <1>0, <1>2, <1>5, <1>7, <1>10, <2>1, <2>2 DEF Explained
<1> QED BY <1>6, <1>8, <1>11, <1>12, <1>13, <1>14

(* ... or destroys the client.                                              *)
LEMMA DestroyIInv == ASSUME IInv, NEW t \in Threads, th[t].pc = "handle", Destroy(t) PROVE IInv'
<1> USE VpnAssumption DEF IInv
<1> PICK b \in Blocks : b = th[t].block BY DEF IInv, Types, EventType, Idle
<1>0. b \in Blocks /\ Live(b) /\ owner[b] = t /\ th[t] \in EventType /\ mem[b] \in ClientType
  BY DEF HandlersOwn, Types, EventType, Idle, Live
<1> USE DEF Destroy, Unlock, Client, ClosedWith
<1>1. births' = births /\ touched' = touched /\ crashed' = crashed
  OBVIOUS
<1>2. Types' BY <1>0 DEF Types
<1>3. /\ \A d \in Blocks : d # b => mem'[d] = mem[d] /\ (Live(d)' <=> Live(d)) /\ forgotten'[d] = forgotten[d]
                                  /\ owner'[d] = owner[d]
      /\ mem'[b] = Free /\ ~Live(b)'
  BY <1>0 DEF Types, Live
<1>4. ClientsAreLegal' BY <1>3 DEF ClientsAreLegal
<1>5. (\A u \in Threads : u # t => th'[u] = th[u]) /\ th'[t] = Idle
  BY DEF Types
<1>6. HandlersOwn'
  <2>1. \A u \in Threads : th'[u].pc = "handle" => u # t /\ th[u].pc = "handle" BY <1>5 DEF Idle
  <2>2. \A u \in Threads : th[u].pc = "handle" => th[u].block \in Blocks BY DEF Types, EventType, Idle
  <2>3. \A u \in Threads : (u # t /\ th[u].pc = "handle") => th[u].block # b BY <1>0 DEF HandlersOwn
  <2> QED BY <1>3, <1>5, <2>1, <2>2, <2>3 DEF HandlersOwn
<1>7. /\ OpenFds' = OpenFds \ {mem[b].cc_sock, mem[b].raw_sock}
      /\ \A g \in OpenFds' : fds'[g] = fds[g]
  BY DEF OpenFds
<1>8. Numbered'
  <2>1. \A d \in Blocks : Live(d)' => d # b /\ mem[d].number # 0 /\ Live(d) BY <1>3 DEF Numbered
  <2>2. mem'[b].number = 0 BY <1>3 DEF Free
  <2> QED BY <1>1, <1>3, <1>5, <1>7, <2>1, <2>2 DEF Numbered
<1>9. HasSockets(b) /\ mem[b].raw_sock \in Fds \cup {NoSock} /\ NoSock \notin Fds
  BY <1>0 DEF SocketsAreCounted, ClientType, NoSock, Fds
<1>10. SocketsAreCounted'
  <2>1. ASSUME NEW d \in Blocks, Live(d), d # b PROVE HasSockets(d)'
    <3>1. mem[d].number # mem[b].number BY <1>0, <2>1 DEF Numbered
    <3>2. {mem[b].cc_sock, mem[b].raw_sock} \ {NoSock} \subseteq SocketsOf(b) BY <1>9 DEF HasSockets
    <3>3. SocketsOf(d) \cap {mem[b].cc_sock, mem[b].raw_sock} = {}
      BY <1>9, <3>1, <3>2 DEF SocketsOf, OpenFds
    <3>4. SocketsOf(d)' = SocketsOf(d) BY <1>3, <1>7, <2>1, <3>3 DEF SocketsOf
    <3> QED BY <1>3, <2>1, <3>4 DEF SocketsAreCounted, HasSockets
  <2> QED BY <1>3, <2>1 DEF SocketsAreCounted
<1>11. Explained'
  <2>1. \A u \in Threads : th[u] # Idle => th[u].block \in Blocks BY DEF Types, EventType
  <2>2. \A g \in OpenFds : fds[g].block \in Blocks BY DEF OpenFds, Types
  <2>3. loose => loose' OBVIOUS
  <2>4. ASSUME NEW u \in Threads, th'[u] # Idle
        PROVE  loose' \/ mem'[th'[u].block].number = th'[u].number
    <3>1. u # t /\ th'[u] = th[u] BY <1>5, <2>4
    <3>2. CASE th[u].block # b BY <1>3, <2>1, <2>3, <2>4, <3>1, <3>2 DEF Explained
    <3>3. CASE th[u].block = b BY <2>3, <2>4, <3>1, <3>3 DEF Explained
    <3> QED BY <3>2, <3>3
  <2>5. ASSUME NEW g \in OpenFds'
        PROVE  loose' \/ mem'[fds'[g].block].number = fds'[g].number
    <3>1. g \in OpenFds /\ g \notin {mem[b].cc_sock, mem[b].raw_sock} /\ fds'[g] = fds[g] BY <1>7
    <3>2. CASE fds[g].block # b /\ ~loose
      <4>1. mem'[fds[g].block] = mem[fds[g].block] BY <1>3, <2>2, <3>1, <3>2
      <4>2. mem[fds[g].block].number = fds[g].number BY <3>1, <3>2 DEF Explained
      <4> QED BY <3>1, <4>1, <4>2
    <3>3. CASE fds[g].block = b /\ ~loose
      <4> DEFINE rest == SocketsOf(b) \ {mem[b].cc_sock, mem[b].raw_sock}
      <4>1. g \in rest BY <3>1, <3>3 DEF Explained, SocketsOf
      <4>2. rest \subseteq Fds BY DEF SocketsOf, OpenFds
      <4>3. Cardinality(rest) = forgotten[b] BY <1>9 DEF HasSockets
      <4> HIDE DEF rest
      <4>4. forgotten[b] > 0 BY <4>1, <4>2, <4>3, Counting
      <4> QED BY <4>4
    <3> QED BY <2>3, <3>2, <3>3
  <2>6. touched' => loose' BY <1>1, <2>3 DEF Explained
  <2> QED BY <2>4, <2>5, <2>6 DEF Explained
<1> QED BY <1>2, <1>4, <1>6, <1>8, <1>10, <1>11

(* Every step of the server keeps the invariant.                            *)
LEMMA NextIInv == IInv /\ [Next]_vars => IInv'
<1> SUFFICES ASSUME IInv, [Next]_vars PROVE IInv'
  OBVIOUS
<1>1. CASE Accept BY <1>1, AcceptIInv
<1>2. CASE UNCHANGED <<mem, owner, fds, th, births, forgotten, loose, touched>> /\ crashed' \in BOOLEAN
  BY <1>2 DEF IInv, Types, ClientsAreLegal, HandlersOwn, Numbered, SocketsAreCounted, Explained, Live,
       HasSockets, SocketsOf, OpenFds
<1>3. ASSUME NEW t \in Threads, Handle(t) PROVE IInv'
  <2>1. th[t].pc = "handle" /\ Outcome(t) BY <1>3, HandlerOutcome
  <2>2. CASE Crashes BY <1>2, <2>2 DEF Crashes
  <2> QED BY <2>1, <2>2, KeepsIInv, ChangesIInv, DestroyIInv DEF Outcome
<1>4. ASSUME NEW t \in Threads, Lock(t) PROVE IInv'
  <2> USE <1>4 DEF IInv, Lock
  <2> PICK b \in Blocks : b = th[t].block BY DEF Types, EventType, Idle
  <2> DEFINE e == [th[t] EXCEPT !.pc = "handle"]
  <2>1. th[t] \in EventType /\ e \in EventType /\ e.number = th[t].number /\ e.block = b
    BY DEF Types, EventType, Idle
  <2>2. UNCHANGED <<mem, fds, births, forgotten, loose>> /\ OpenFds' = OpenFds BY DEF OpenFds
  <2>3. /\ \A u \in Threads : u # t => th'[u] = th[u]
        /\ \/ /\ Live(b) /\ owner[b] = NoOne /\ owner' = [owner EXCEPT ![b] = t]
              /\ th' = [th EXCEPT ![t] = e] /\ th'[t] = e /\ crashed' = crashed
              /\ touched' = (touched \/ mem[b].number # th[t].number)
           \/ /\ ~Live(b) /\ owner' = owner /\ th' = [th EXCEPT ![t] = Idle] /\ th'[t] = Idle
              /\ touched' = TRUE /\ crashed' \in BOOLEAN
    BY DEF Types
  <2>4. Types'
    <3> HIDE DEF e, Lock
    <3>1. touched' \in BOOLEAN /\ crashed' \in BOOLEAN BY <2>3 DEF Types
    <3>2. owner' \in [Blocks -> Threads \cup {NoOne}] /\ th' \in [Threads -> EventType \cup {Idle}]
      BY <2>1, <2>3 DEF Types
    <3> QED BY <2>2, <3>1, <3>2 DEF Types
  <2>5. ClientsAreLegal' /\ SocketsAreCounted'
    BY <2>2 DEF ClientsAreLegal, SocketsAreCounted, HasSockets, SocketsOf, Live
  <2> HIDE DEF e, Lock
  <2>6. HandlersOwn'
    <3>1. \A u \in Threads : th[u].pc = "handle" => th[u].block \in Blocks BY DEF Types, EventType, Idle
    <3>2. \A u \in Threads : u # t /\ th[u].pc = "handle" => owner'[th[u].block] = u /\ th'[u] = th[u]
      BY <2>3, <3>1, NoOneAssumption DEF HandlersOwn, Types
    <3>3. th'[t].pc = "handle" => Live(b) /\ owner'[b] = t /\ th'[t].block = b
      BY <2>1, <2>3 DEF Types, Idle
    <3> QED BY <2>2, <2>3, <3>2, <3>3 DEF HandlersOwn, Live
  <2>7. \A u \in Threads : th'[u] # Idle =>
           th[u] # Idle /\ th'[u].number = th[u].number /\ th'[u].block = th[u].block
    BY <2>1, <2>3 DEF EventType, Idle
  <2>8. Numbered' BY <2>2, <2>7 DEF Numbered, Live
  <2>9. touched' => loose
    <3>1. th[t] # Idle /\ th[t].number # 0 BY <2>1 DEF Numbered, Idle, EventType
    <3>2. ~Live(b) => mem[b].number # th[t].number BY <3>1 DEF Live, Free
    <3>3. mem[b].number # th[t].number => loose BY <3>1 DEF Explained
    <3> QED BY <2>3, <3>2, <3>3 DEF Explained
  <2>10. Explained' BY <2>2, <2>7, <2>9 DEF Explained
  <2> QED BY <2>4, <2>5, <2>6, <2>8, <2>10
<1>5. ASSUME NEW t \in Threads, NEW fd \in Fds, Dispatch(t, fd) PROVE IInv'
  <2> USE <1>5 DEF IInv, Dispatch
  <2> DEFINE e == [pc |-> "lock", fd |-> fd, block |-> fds[fd].block, number |-> fds[fd].number]
  <2>1. e \in EventType /\ fd \in OpenFds BY DEF Types, EventType, OpenFds
  <2>2. UNCHANGED <<mem, owner, fds, births, forgotten, loose, touched>> /\ OpenFds' = OpenFds BY DEF OpenFds
  <2>3. Types' BY <2>1 DEF Types
  <2>4. ClientsAreLegal' /\ SocketsAreCounted'
    BY <2>2 DEF ClientsAreLegal, SocketsAreCounted, HasSockets, SocketsOf, Live
  <2>5. (\A u \in Threads : u # t => th'[u] = th[u]) /\ th'[t] = e BY DEF Types
  <2>6. HandlersOwn' BY <2>2, <2>5 DEF HandlersOwn, Live
  <2>7. Numbered' BY <2>1, <2>2, <2>5 DEF Numbered, Live
  <2>8. Explained' BY <2>1, <2>2, <2>5 DEF Explained
  <2> QED BY <2>3, <2>4, <2>6, <2>7, <2>8
<1>6. CASE UNCHANGED vars BY <1>2, <1>6 DEF vars, IInv, Types
<1>7. CASE AcceptFails BY <1>2, <1>7 DEF AcceptFails, IInv, Types
<1> QED BY <1>1, <1>3, <1>4, <1>5, <1>6, <1>7 DEF Next

(* The invariant holds in every reachable state.                            *)
LEMMA VpnInvariant == Spec => []IInv
  BY InitIInv, NextIInv, PTL DEF Spec

(* A call is only ever found behind a start request, an acknowledgement     *)
(* never runs ahead of what was sent, and only the holder of a client's     *)
(* mutex is in one of its handlers (qx_vpn_cc.c, qx_vpn_ppp.c).             *)
THEOREM VpnCallsAreLegal == Spec => []CallsAreLegal
<1>1. IInv => CallsAreLegal
  <2> SUFFICES ASSUME IInv PROVE CallsAreLegal
    OBVIOUS
  <2>1. TypeOK
    <3>1. \A t \in Threads : th[t] = Idle \/ th[t].pc \in {"lock", "handle"} BY DEF IInv, Types, EventType
    <3>2. \A f \in Fds : fds[f] = Closed \/ fds[f].block \in Blocks BY DEF IInv, Types
    <3> QED BY <3>1, <3>2 DEF IInv, Types, TypeOK
  <2> QED BY <2>1 DEF IInv, ClientsAreLegal, Legal, HandlersOwn, CallsAreLegal
<1> QED BY VpnInvariant, <1>1, PTL

(* A thread goes into a client that is gone only if another one waited for  *)
(* the client when destroy_client ran, or the client had lost sight of a    *)
(* raw socket; no other socket of a client is ever lost.                    *)
THEOREM VpnFreedIsExplained == Spec => []FreedIsExplained
<1>1. IInv => FreedIsExplained
  BY DEF IInv, Explained, SocketsAreCounted, HasSockets, FreedIsExplained
<1> QED BY VpnInvariant, <1>1, PTL
=============================================================================
