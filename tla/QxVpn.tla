------------------------------- MODULE QxVpn -------------------------------
(***************************************************************************)
(* The PPTP server QX-vpn: a pool of threads that handle the events of     *)
(* sockets (qx_vpn_main.c), the messages of a control connection           *)
(* (qx_vpn_cc.c) and the GRE packets of its call (qx_vpn_ppp.c).           *)
(*                                                                         *)
(* The memory of a client and the numbers of sockets are used again after  *)
(* they are freed, as malloc and the system do.  An event of a socket is   *)
(* not dispatched again before its handler has returned.                   *)
(***************************************************************************)
EXTENDS Integers, FiniteSets, FiniteSetsExt

CONSTANTS Threads,    \* pool threads
          Blocks,     \* blocks of memory malloc has for a client
          NumFds,     \* sockets the process may have open, besides the one it listens on
          CallIds,    \* numbers a peer gives its calls
          MaxSeq,     \* bound on sequence numbers
          Setups      \* a behaviour has one of them: bounds on connections, control messages
                      \* and GRE packets

ASSUME VpnAssumption ==
    /\ NumFds \in Nat \ {0} /\ MaxSeq \in Nat /\ CallIds \subseteq Nat \ {0}
    /\ Setups \subseteq [accepts : Nat, messages : Nat, packets : Nat]

Fds == 1 .. NumFds
OurCallId == 3

VARIABLES
    mem,      \* the client record in a block, or Free
    owner,    \* the thread that holds the mutex of a block, or NoOne
    fds,      \* open sockets: what select_attach gave with them, or Closed
    th,       \* pool threads: the event in hand
    budget,   \* the setup, less what has been used of it
    births,   \* (history) clients so far; they are numbered
    forgotten,  \* (history) raw sockets a client has lost sight of
    loose,    \* (history) a client was destroyed that had forgotten a socket, or for which a thread waited
    touched,  \* (history) a thread went into the block of a client that was freed
    crashed   \* the process has ended

vars == <<mem, owner, fds, th, budget, births, forgotten, loose, touched, crashed>>

Free == [number |-> 0]
Closed == [block |-> "none", number |-> 0]
NoOne == "no one"   \* none of the threads
Idle == [pc |-> "idle"]
NoSock == 0

ASSUME NoOneAssumption == NoOne \notin Threads

Init ==
    /\ mem = [b \in Blocks |-> Free] /\ owner = [b \in Blocks |-> NoOne]
    /\ fds = [f \in Fds |-> Closed]
    /\ th = [t \in Threads |-> Idle]
    /\ budget \in Setups
    /\ births = 0 /\ forgotten = [b \in Blocks |-> 0] /\ loose = FALSE /\ touched = FALSE /\ crashed = FALSE

----------------------------------------------------------------------------
Live(b) == mem[b] # Free
OpenFds == {f \in Fds : fds[f] # Closed}
NextFd == Min(Fds \ OpenFds)
Spend(item) == budget[item] > 0 /\ budget' = [budget EXCEPT ![item] = @ - 1]

NewClient(fd) ==
    [number |-> births + 1, cc_sock |-> fd, raw_sock |-> NoSock, cc_state |-> "idle",
     cc_call_id |-> 0, cc_call_sn |-> 0, call_id |-> 0, snd_num |-> 0, snd_ack |-> 0, rcv_num |-> 0]

(* lstn_action: a connection is accepted and attached with its client; ...  *)
Accept ==
    /\ ~crashed /\ Spend("accepts")
    /\ OpenFds # Fds
    /\ \E b \in Blocks :
          /\ ~Live(b)
          /\ mem' = [mem EXCEPT ![b] = NewClient(NextFd)]
          /\ owner' = [owner EXCEPT ![b] = NoOne]
          /\ fds' = [fds EXCEPT ![NextFd] = [block |-> b, number |-> births + 1]]
          /\ forgotten' = [forgotten EXCEPT ![b] = 0]
    /\ births' = births + 1
    /\ UNCHANGED <<th, loose, touched, crashed>>

(* ... if there is no memory for it or it cannot be attached, all that is   *)
(* undone.                                                                  *)
AcceptFails ==
    /\ ~crashed /\ Spend("accepts")
    /\ UNCHANGED <<mem, owner, fds, th, births, forgotten, loose, touched, crashed>>

(* A pool thread is given an event of a socket ...                          *)
Dispatch(t, fd) ==
    /\ ~crashed /\ th[t] = Idle
    /\ fds[fd] # Closed
    /\ \A u \in Threads : th[u] # Idle => th[u].fd # fd \/ th[u].number # fds[fd].number
    /\ th' = [th EXCEPT ![t] = [pc |-> "lock", fd |-> fd, block |-> fds[fd].block, number |-> fds[fd].number]]
    /\ UNCHANGED <<mem, owner, fds, budget, births, forgotten, loose, touched, crashed>>

(* ... and locks the client.  In a block that is free the lock may fail, as *)
(* the code hopes, or anything may follow.                                  *)
Lock(t) ==
    /\ ~crashed /\ th[t].pc = "lock"
    /\ LET b == th[t].block
       IN \/ /\ Live(b) /\ owner[b] = NoOne
             /\ owner' = [owner EXCEPT ![b] = t]
             /\ th' = [th EXCEPT ![t].pc = "handle"]
             /\ touched' = (touched \/ mem[b].number # th[t].number)
             /\ UNCHANGED crashed
          \/ /\ ~Live(b)
             /\ th' = [th EXCEPT ![t] = Idle]
             /\ touched' = TRUE
             /\ crashed' \in BOOLEAN
             /\ UNCHANGED owner
    /\ UNCHANGED <<mem, fds, budget, births, forgotten, loose>>

----------------------------------------------------------------------------
Client(t) == mem[th[t].block]
CcEvent(t) == ~crashed /\ th[t].pc = "handle" /\ th[t].fd = Client(t).cc_sock
RawEvent(t) == /\ ~crashed /\ th[t].pc = "handle"
               /\ th[t].fd # Client(t).cc_sock /\ th[t].fd = Client(t).raw_sock

Unlock(t) == owner' = [owner EXCEPT ![th[t].block] = NoOne] /\ th' = [th EXCEPT ![t] = Idle]

(* The client after the message; the event is done.                         *)
Becomes(t, client) ==
    /\ mem' = [mem EXCEPT ![th[t].block] = client]
    /\ Unlock(t)
    /\ UNCHANGED <<births, touched, crashed>>

(* destroy_client: with the mutex, on which others may wait                 *)
ClosedWith_slip(c) == {c.cc_sock}
ClosedWith(c) == {c.cc_sock, c.raw_sock}

Destroy(t) ==
    /\ mem' = [mem EXCEPT ![th[t].block] = Free]
    /\ fds' = [f \in Fds |-> IF f \in ClosedWith(Client(t)) THEN Closed ELSE fds[f]]
    /\ forgotten' = [forgotten EXCEPT ![th[t].block] = 0]
    /\ loose' = (\/ loose \/ forgotten[th[t].block] > 0
                 \/ \E u \in Threads \ {t} : th[u] # Idle /\ th[u].number = Client(t).number)
    /\ Unlock(t)
    /\ UNCHANGED <<births, touched, crashed>>

(* A connection that is closed or out of step, a message that only a server *)
(* sends, one whose reserved part is not zero, and the request to stop      *)
Stop(t) ==
    /\ CcEvent(t)
    /\ Destroy(t)
    /\ UNCHANGED budget

(* Messages that change nothing: echoes, and a signal instead of a message  *)
Echo(t) ==
    /\ CcEvent(t)
    /\ Becomes(t, Client(t))
    /\ UNCHANGED <<fds, forgotten, loose, budget>>

(* Start-control-connection-request: known is whether we speak its version  *)
StartReq(t, known) ==
    /\ CcEvent(t) /\ Spend("messages")
    /\ IF Client(t).cc_state = "idle" /\ ~known
          THEN Destroy(t)
          ELSE Becomes(t, [Client(t) EXCEPT !.cc_state = "established"]) /\ UNCHANGED <<fds, forgotten, loose>>

(* Outgoing-call-request: refused before the start, ...                     *)
HasCall(c) == c.cc_call_id # 0 /\ c.cc_call_sn # 0

CallBeforeStart_slip(t) == FALSE
CallBeforeStart(t) == Client(t).cc_state # "established"

OCallEarly(t) ==
    /\ CcEvent(t) /\ Spend("messages")
    /\ CallBeforeStart(t)
    /\ Destroy(t)

(* ... refused when there is a call, or when the raw socket cannot be made  *)
(* or attached; refused or not, its numbers are taken.                      *)
Forgets(t) ==
    /\ forgotten' = IF Client(t).raw_sock = NoSock THEN forgotten
                    ELSE [forgotten EXCEPT ![th[t].block] = @ + 1]
    /\ UNCHANGED loose

Called(c, id, sn) == [c EXCEPT !.cc_call_id = id, !.cc_call_sn = sn, !.call_id = OurCallId]

OCallRefused(t, id, sn) ==
    /\ CcEvent(t) /\ Spend("messages")
    /\ ~CallBeforeStart(t)
    /\ \/ HasCall(Client(t)) /\ Becomes(t, Called(Client(t), id, sn))
          /\ UNCHANGED <<forgotten, loose>>
       \/ ~HasCall(Client(t)) /\ Becomes(t, [Called(Client(t), id, sn) EXCEPT !.raw_sock = NoSock])
          /\ Forgets(t)
    /\ UNCHANGED fds

(* ... granted: a raw socket is made, attached with the client and kept in  *)
(* place of the one of the call before.                                     *)
OCallGranted(t, id, sn) ==
    /\ CcEvent(t) /\ Spend("messages")
    /\ ~CallBeforeStart(t) /\ ~HasCall(Client(t))
    /\ OpenFds # Fds
    /\ fds' = [fds EXCEPT ![NextFd] = [block |-> th[t].block, number |-> Client(t).number]]
    /\ Becomes(t, [Called(Client(t), id, sn) EXCEPT !.raw_sock = NextFd])
    /\ Forgets(t)

(* Call-clear-request: whatever call it names, there is none afterwards;    *)
(* the raw socket stays.                                                    *)
Cleared(c) == [c EXCEPT !.cc_call_id = 0, !.cc_call_sn = 0, !.call_id = 0]

CClearReq(t) ==
    /\ CcEvent(t) /\ Spend("messages")
    /\ Becomes(t, Cleared(Client(t)))
    /\ UNCHANGED <<fds, forgotten, loose>>

(* Set-link-info is for an established connection with a call               *)
SLinkInfo(t) ==
    /\ CcEvent(t) /\ Spend("messages")
    /\ IF Client(t).cc_state = "established" /\ HasCall(Client(t))
          THEN Becomes(t, Client(t)) /\ UNCHANGED <<fds, forgotten, loose>>
          ELSE Destroy(t)

(* A GRE packet of the call: ack and seq are the numbers it carries, NoNum  *)
(* if it carries none.  An acknowledgement outside the window drops it, and *)
(* so does a number below the last one; a PPP packet is answered under the  *)
(* next number.  The answer is put together where the code keeps its local  *)
(* variables: it may go out, or the process crash.                          *)
NoNum == MaxSeq + 1
AckWrong_slip(c, ack) == ack # NoNum /\ (ack < c.snd_ack \/ ack > c.snd_num)
AckWrong(c, ack) == ack # NoNum /\ (ack < c.snd_ack \/ ack >= c.snd_num)

Packet(t, key, ack, seq) ==
    /\ RawEvent(t) /\ Spend("packets")
    /\ key = Client(t).call_id /\ ~AckWrong(Client(t), ack)
    /\ LET acked == IF ack = NoNum THEN Client(t) ELSE [Client(t) EXCEPT !.snd_ack = ack]
           got == [acked EXCEPT !.rcv_num = seq]
       IN IF seq = NoNum \/ seq < acked.rcv_num
             THEN Becomes(t, acked)
             ELSE \/ Becomes(t, got)
                  \/ Becomes(t, [got EXCEPT !.snd_num = @ + 1])
                  \/ crashed' = TRUE /\ UNCHANGED <<mem, owner, th, births, touched>>
    /\ UNCHANGED <<fds, forgotten, loose>>

(* A packet that is not ours, or of a socket the client has forgotten       *)
Ignore(t) ==
    /\ \/ RawEvent(t)
       \/ ~crashed /\ th[t].pc = "handle" /\ th[t].fd \notin {Client(t).cc_sock, Client(t).raw_sock}
    /\ Becomes(t, Client(t))
    /\ UNCHANGED <<fds, forgotten, loose, budget>>

Handle(t) ==
    \/ Stop(t) \/ Echo(t) \/ OCallEarly(t) \/ CClearReq(t) \/ SLinkInfo(t) \/ Ignore(t)
    \/ \E known \in BOOLEAN : StartReq(t, known)
    \/ \E id \in CallIds \cup {0}, sn \in CallIds \cup {0} : OCallRefused(t, id, sn) \/ OCallGranted(t, id, sn)
    \/ \E key \in {0, OurCallId}, ack, seq \in 0 .. NoNum : Packet(t, key, ack, seq)

Next ==
    \/ Accept \/ AcceptFails
    \/ \E t \in Threads : Lock(t) \/ Handle(t) \/ \E fd \in Fds : Dispatch(t, fd)

Spec == Init /\ [][Next]_vars

----------------------------------------------------------------------------
ClientType ==
    [number : Nat, cc_sock : Fds, raw_sock : Fds \cup {NoSock}, cc_state : {"idle", "established"},
     cc_call_id : CallIds \cup {0}, cc_call_sn : CallIds \cup {0}, call_id : {0, OurCallId},
     snd_num : Nat, snd_ack : 0 .. MaxSeq, rcv_num : 0 .. MaxSeq]

TypeOK ==
    /\ \A b \in Blocks : mem[b] = Free \/ mem[b] \in ClientType
    /\ owner \in [Blocks -> Threads \cup {NoOne}]
    /\ \A f \in Fds : fds[f] = Closed \/ fds[f].block \in Blocks
    /\ \A t \in Threads : th[t] = Idle \/ th[t].pc \in {"lock", "handle"}

(* A call, and the socket and the numbers that belong to one, are only ever *)
(* found behind a start request; what is acknowledged has been sent; and    *)
(* nobody but the holder of the mutex is in a handler.                      *)
CallsAreLegal ==
    /\ TypeOK
    /\ \A b \in Blocks : Live(b) =>
          /\ (mem[b].call_id # 0 \/ mem[b].cc_call_id # 0 \/ mem[b].raw_sock # NoSock) => mem[b].cc_state = "established"
          /\ mem[b].snd_ack = 0 \/ mem[b].snd_ack < mem[b].snd_num
    /\ \A t \in Threads : th[t].pc = "handle" => Live(th[t].block) /\ owner[th[t].block] = t

(* "Now that we have locked mutex - no thread can destroy client": a thread *)
(* goes into the block of a client that is gone only if another one waited  *)
(* for the client when it was destroyed, or the client had lost sight of a  *)
(* socket; of its sockets it loses no others.                               *)
SocketsOf(b) == {f \in OpenFds : fds[f].number = mem[b].number}
FreedIsExplained ==
    /\ touched => loose
    /\ \A b \in Blocks : Live(b) =>
          /\ {mem[b].cc_sock, mem[b].raw_sock} \ {NoSock} \subseteq SocketsOf(b)
          /\ Cardinality(SocketsOf(b) \ {mem[b].cc_sock, mem[b].raw_sock}) = forgotten[b]
=============================================================================
