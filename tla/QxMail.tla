------------------------------- MODULE QxMail -------------------------------
(***************************************************************************)
(* The mail server QX-mail: the main thread that accepts connections, the  *)
(* pool threads that speak SMTP or POP3 on them, the spooler threads that  *)
(* deliver accepted messages, and the mailboxes, each with a mutex that a  *)
(* POP3 session holds to its end and a spooler for one delivery.           *)
(*                                                                         *)
(* A message is a model value, a recipient a mailbox or an external        *)
(* address.  A mailbox holds any number of copies of a message.            *)
(***************************************************************************)
EXTENDS Integers, Sequences, FiniteSets, SequencesExt, FiniteSetsExt

CONSTANTS Pool,       \* threads of the pool
          Spoolers,   \* spooler threads
          Boxes,      \* local mailboxes
          Ext,        \* external addresses
          Domain,     \* the mail domain of an external address
          Msgs,       \* messages the clients send
          NULL,
          MaxRcpt,    \* bound on the recipients of all messages together
          MaxTargets  \* bound on the mail exchangers of a domain

ASSUME MailAssumption ==
    /\ Domain \in [Ext -> Ext] /\ MaxRcpt \in Nat /\ MaxTargets \in Nat \ {0}
    /\ NULL \notin Msgs \cup Boxes \cup {"smtp", "pop"} /\ Boxes \cap Ext = {} /\ Pool \cap Spoolers = {}

VARIABLES
    queue,             \* c_head .. c_tail: kinds of the connections nobody serves yet
    kind,              \* pool thread: "smtp", "pop", or NULL between connections
    sstate, auth, msg, \* its SMTP session
    pstate, mbox, msgs, del,   \* its POP3 session: mailbox, messages listed, messages marked
    mtx,               \* mailbox: the thread that has it locked, as a set
    box,               \* mailbox: copies of each message
    files,             \* messages whose spool file exists
    spool_msgs,        \* the stack of messages to deliver
    spc, smsg,         \* spooler: place in its loop, message
    rcpt, crcpt, group,\* spooler: recipients to look at, external ones, those being served
    targets,           \* spooler: mail exchangers left to try
    to,                \* recipients of a message
    used, acked,       \* messages begun; messages acknowledged after DATA
    blocked, gone,     \* history: infected messages; copies deleted by POP3 clients
    login, trusted,    \* history: clients who proved a password; messages they named recipients of
    crashed            \* the server dereferenced a null pointer

connVars == <<queue, kind>>
smtpVars == <<sstate, auth, msg>>
popVars == <<pstate, mbox, msgs, del>>
boxVars == <<mtx, box>>
spoolVars == <<spc, smsg, rcpt, crcpt, group, targets>>
msgVars == <<files, spool_msgs, to, used, acked>>
histVars == <<blocked, gone, login, trusted>>
vars == <<connVars, smtpVars, popVars, boxVars, spoolVars, msgVars, histVars, crashed>>

None == [m \in Msgs |-> 0]
Addressed == MapThenSumSet(LAMBDA m : Len(to[m]), Msgs)
Occurs(r, s) == Cardinality({k \in DOMAIN s : s[k] = r})

Init ==
    /\ queue = <<>> /\ kind = [t \in Pool |-> NULL]
    /\ sstate = [t \in Pool |-> "none"] /\ auth = [t \in Pool |-> FALSE] /\ msg = [t \in Pool |-> NULL]
    /\ pstate = [t \in Pool |-> "none"] /\ mbox = [t \in Pool |-> NULL]
    /\ msgs = [t \in Pool |-> None] /\ del = [t \in Pool |-> None]
    /\ mtx = [b \in Boxes |-> {}] /\ box = [b \in Boxes |-> None]
    /\ files = {} /\ spool_msgs = <<>>
    /\ spc = [s \in Spoolers |-> "wait"] /\ smsg = [s \in Spoolers |-> NULL]
    /\ rcpt = [s \in Spoolers |-> <<>>] /\ crcpt = rcpt /\ group = rcpt
    /\ targets = [s \in Spoolers |-> 0]
    /\ to = [m \in Msgs |-> <<>>] /\ used = {} /\ acked = {}
    /\ blocked = {} /\ gone = [b \in Boxes |-> None]
    /\ login = [t \in Pool |-> FALSE] /\ trusted = {} /\ crashed = FALSE

----------------------------------------------------------------------------
(* The pieces of the actions with the slips the properties should catch     *)

(* A new connection: the test for an empty list also holds for a list of    *)
(* one, which is then overwritten.                                          *)
QueueAfterAccept(k) == IF Len(queue) <= 1 THEN <<k>> ELSE Append(queue, k)

(* Whether a connection begins authenticated: its descriptor is cleared     *)
AuthAtStart_slip(t) == auth[t]
AuthAtStart(t) == FALSE

(* What the SMTP session keeps of a message handed to the spoolers          *)
MsgAfterData_slip(t) == msg[t]
MsgAfterData(t) == NULL

(* The mutexes after the thread unlocked mailbox b; one it does not hold is *)
(* left alone (QNX answers EPERM).                                          *)
Unlocked_slip(t, b) == mtx
Unlocked(t, b) == IF b = NULL THEN mtx ELSE [mtx EXCEPT ![b] = @ \ {t}]

(* A spooler may enter a mailbox *)
BoxFree_slip(b) == TRUE
BoxFree(b) == mtx[b] = {}

(* Mail exchangers left when one of them refused or has no address          *)
FewerTargets_slip(s) == targets[s] - 2
FewerTargets(s) == targets[s] - 1

----------------------------------------------------------------------------
(* main: accept *)
Accept(k) ==
    /\ queue' = QueueAfterAccept(k)
    /\ UNCHANGED <<kind, smtpVars, popVars, boxVars, spoolVars, msgVars, histVars, crashed>>

(* pool_block, and the first lines of the handlers *)
Take(t) ==
    /\ kind[t] = NULL /\ queue # <<>>
    /\ kind' = [kind EXCEPT ![t] = Head(queue)]
    /\ queue' = Tail(queue)
    /\ sstate' = [sstate EXCEPT ![t] = "none"]
    /\ auth' = [auth EXCEPT ![t] = AuthAtStart(t)]
    /\ login' = [login EXCEPT ![t] = FALSE]
    /\ pstate' = [pstate EXCEPT ![t] = "none"]
    /\ mbox' = [mbox EXCEPT ![t] = NULL]
    /\ UNCHANGED <<msg, msgs, del, boxVars, spoolVars, msgVars, blocked, gone, trusted, crashed>>

----------------------------------------------------------------------------
(* thread_handler_smtp *)
Smtp(t) == kind[t] = "smtp" /\ sstate[t] # "data"

(* FreeSMTPSession: the message of the session and its spool file           *)
FreeSMTPSession(t) ==
    /\ msg' = [msg EXCEPT ![t] = NULL]
    /\ files' = files \ {msg[t]}

SmtpFrame == UNCHANGED <<connVars, popVars, boxVars, spoolVars, blocked, gone>>

(* HELO and EHLO *)
Helo(t) ==
    /\ Smtp(t)
    /\ IF sstate[t] # "none" THEN FreeSMTPSession(t) ELSE UNCHANGED <<msg, files>>
    /\ sstate' = [sstate EXCEPT ![t] = "helo"]
    /\ auth' = [auth EXCEPT ![t] = FALSE]
    /\ SmtpFrame /\ UNCHANGED <<spool_msgs, to, used, acked, login, trusted, crashed>>

(* The same without an argument: the message is freed, the state stays      *)
HeloShort(t) ==
    /\ Smtp(t) /\ sstate[t] # "none"
    /\ FreeSMTPSession(t)
    /\ SmtpFrame /\ UNCHANGED <<sstate, auth, spool_msgs, to, used, acked, login, trusted, crashed>>

Mail(t) ==
    /\ Smtp(t) /\ sstate[t] = "helo"
    /\ \E m \in Msgs \ used :
          /\ msg' = [msg EXCEPT ![t] = m]
          /\ used' = used \cup {m}
    /\ sstate' = [sstate EXCEPT ![t] = "rcpt"]
    /\ SmtpFrame /\ UNCHANGED <<auth, files, spool_msgs, to, acked, login, trusted, crashed>>

(* Mail to others than the local mailboxes needs a password *)
Rcpt(t, r) ==
    /\ Smtp(t) /\ sstate[t] = "rcpt"
    /\ r \in Boxes \/ auth[t]
    /\ msg[t] # NULL /\ Addressed < MaxRcpt
    /\ to' = [to EXCEPT ![msg[t]] = <<r>> \o @]
    /\ trusted' = IF login[t] THEN trusted \cup {msg[t]} ELSE trusted
    /\ SmtpFrame /\ UNCHANGED <<smtpVars, files, spool_msgs, used, acked, login, crashed>>

(* DATA, from mkstemp ... *)
DataBegin(t) ==
    /\ Smtp(t) /\ sstate[t] = "rcpt" /\ msg[t] # NULL
    /\ files' = files \cup {msg[t]}
    /\ sstate' = [sstate EXCEPT ![t] = "data"]
    /\ SmtpFrame /\ UNCHANGED <<auth, msg, spool_msgs, to, used, acked, login, trusted, crashed>>

(* ... to the lone dot: the message goes to the spoolers                    *)
DataEnd(t) ==
    /\ kind[t] = "smtp" /\ sstate[t] = "data"
    /\ spool_msgs' = <<msg[t]>> \o spool_msgs
    /\ acked' = acked \cup {msg[t]}
    /\ msg' = [msg EXCEPT ![t] = MsgAfterData(t)]
    /\ sstate' = [sstate EXCEPT ![t] = "helo"]
    /\ SmtpFrame /\ UNCHANGED <<auth, files, to, used, login, trusted, crashed>>

(* RCPT or DATA after a HELO without an argument: conn->msg is NULL         *)
RcptCrash(t) ==
    /\ Smtp(t) /\ sstate[t] = "rcpt" /\ msg[t] = NULL
    /\ crashed' = TRUE
    /\ SmtpFrame /\ UNCHANGED <<smtpVars, msgVars, login, trusted>>

Rset(t) ==
    /\ Smtp(t)
    /\ FreeSMTPSession(t)
    /\ sstate' = [sstate EXCEPT ![t] = "helo"]
    /\ SmtpFrame /\ UNCHANGED <<auth, spool_msgs, to, used, acked, login, trusted, crashed>>

(* AUTH with the right password; with a wrong one LOGIN ends the session    *)
(* and CRAM-MD5 changes nothing.                                            *)
Auth(t) ==
    /\ Smtp(t) /\ sstate[t] = "helo"
    /\ auth' = [auth EXCEPT ![t] = TRUE]
    /\ login' = [login EXCEPT ![t] = TRUE]
    /\ SmtpFrame /\ UNCHANGED <<sstate, msg, msgVars, trusted, crashed>>

(* QUIT, a loop, a failed AUTH LOGIN, a timeout or the end of the stream,   *)
(* in DATA too                                                              *)
SmtpEnd(t) ==
    /\ kind[t] = "smtp"
    /\ FreeSMTPSession(t)
    /\ kind' = [kind EXCEPT ![t] = NULL]
    /\ UNCHANGED <<queue, sstate, auth, popVars, boxVars, spoolVars, spool_msgs, to, used, acked, histVars, crashed>>

----------------------------------------------------------------------------
(* thread_handler_pop *)
PopFrame == UNCHANGED <<queue, smtpVars, spoolVars, msgVars, blocked, login, trusted, crashed>>

Pop(t) == kind[t] = "pop"

User(t) ==
    /\ Pop(t) /\ pstate[t] = "none"
    /\ pstate' = [pstate EXCEPT ![t] = "auth"]
    /\ PopFrame /\ UNCHANGED <<kind, mbox, msgs, del, boxVars, gone>>

(* PASS, or APOP without USER, with the right password: trylock, and the    *)
(* list of messages (POPBuildSession)                                       *)
Login(t, b) ==
    /\ Pop(t) /\ pstate[t] \in {"none", "auth"} /\ mtx[b] = {}
    /\ mtx' = [mtx EXCEPT ![b] = {t}]
    /\ mbox' = [mbox EXCEPT ![t] = b]
    /\ pstate' = [pstate EXCEPT ![t] = "tran"]
    /\ msgs' = [msgs EXCEPT ![t] = box[b]]
    /\ del' = [del EXCEPT ![t] = None]
    /\ PopFrame /\ UNCHANGED <<kind, box, gone>>

(* A locked mailbox, a wrong password or an unknown name: mbox keeps what   *)
(* the search left in it                                                    *)
LoginFails(t, b) ==
    /\ Pop(t) /\ pstate[t] \in {"none", "auth"}
    /\ mbox' = [mbox EXCEPT ![t] = b]
    /\ pstate' = [pstate EXCEPT ![t] = "none"]
    /\ PopFrame /\ UNCHANGED <<kind, msgs, del, boxVars, gone>>

Dele(t, m) ==
    /\ Pop(t) /\ pstate[t] = "tran" /\ del[t][m] < msgs[t][m]
    /\ del' = [del EXCEPT ![t][m] = @ + 1]
    /\ PopFrame /\ UNCHANGED <<kind, pstate, mbox, msgs, boxVars, gone>>

PopRset(t) ==
    /\ Pop(t) /\ pstate[t] = "tran"
    /\ del' = [del EXCEPT ![t] = None]
    /\ PopFrame /\ UNCHANGED <<kind, pstate, mbox, msgs, boxVars, gone>>

PopClose(t) ==
    /\ kind' = [kind EXCEPT ![t] = NULL]
    /\ mtx' = Unlocked(t, mbox[t])
    /\ msgs' = [msgs EXCEPT ![t] = None] /\ del' = [del EXCEPT ![t] = None]

(* QUIT: the files marked are removed, the mailbox is unlocked              *)
PopQuit(t) ==
    /\ Pop(t)
    /\ IF pstate[t] = "tran"
          THEN /\ box' = [box EXCEPT ![mbox[t]] = [m \in Msgs |-> @[m] - del[t][m]]]
               /\ gone' = [gone EXCEPT ![mbox[t]] = [m \in Msgs |-> @[m] + del[t][m]]]
          ELSE UNCHANGED <<box, gone>>
    /\ PopClose(t)
    /\ PopFrame /\ UNCHANGED <<pstate, mbox>>

(* A timeout or the end of the stream: nothing is removed                   *)
PopEnd(t) ==
    /\ Pop(t)
    /\ PopClose(t)
    /\ PopFrame /\ UNCHANGED <<pstate, mbox, box, gone>>

----------------------------------------------------------------------------
(* Spooler *)
SpoolFrame == UNCHANGED <<connVars, smtpVars, popVars, to, used, acked, gone, login, trusted, crashed>>

Goto(s, place) == spc' = [spc EXCEPT ![s] = place]

Fetch(s) ==
    /\ spc[s] = "wait" /\ spool_msgs # <<>>
    /\ smsg' = [smsg EXCEPT ![s] = Head(spool_msgs)]
    /\ rcpt' = [rcpt EXCEPT ![s] = to[Head(spool_msgs)]]
    /\ spool_msgs' = Tail(spool_msgs)
    /\ Goto(s, "scan")
    /\ SpoolFrame /\ UNCHANGED <<boxVars, crcpt, group, targets, files, blocked>>

(* Qavird finds a virus, or the scan is passed, fails or is switched off    *)
ScanVirus(s) ==
    /\ spc[s] = "scan"
    /\ blocked' = blocked \cup {smsg[s]}
    /\ rcpt' = [rcpt EXCEPT ![s] = <<>>]
    /\ files' = files \ {smsg[s]}
    /\ smsg' = [smsg EXCEPT ![s] = NULL]
    /\ Goto(s, "wait")
    /\ SpoolFrame /\ UNCHANGED <<boxVars, crcpt, group, targets, spool_msgs>>

ScanClean(s) ==
    /\ spc[s] = "scan"
    /\ Goto(s, "local")
    /\ SpoolFrame /\ UNCHANGED <<boxVars, smsg, rcpt, crcpt, group, targets, files, spool_msgs, blocked>>

(* Local delivery: lock the mailbox of the next recipient ...               *)
BoxLock(s) ==
    /\ spc[s] = "local" /\ rcpt[s] # <<>> /\ Head(rcpt[s]) \in Boxes
    /\ BoxFree(Head(rcpt[s]))
    /\ mtx' = [mtx EXCEPT ![Head(rcpt[s])] = @ \cup {s}]
    /\ Goto(s, "link")
    /\ SpoolFrame /\ UNCHANGED <<box, smsg, rcpt, crcpt, group, targets, files, spool_msgs, blocked>>

(* ... link the spool file into it, unlock                                  *)
BoxLink(s) ==
    /\ spc[s] = "link"
    /\ LET b == Head(rcpt[s])
       IN /\ box' = IF smsg[s] \in files THEN [box EXCEPT ![b][smsg[s]] = @ + 1] ELSE box
          /\ mtx' = [mtx EXCEPT ![b] = @ \ {s}]
    /\ rcpt' = [rcpt EXCEPT ![s] = Tail(@)]
    /\ Goto(s, "local")
    /\ SpoolFrame /\ UNCHANGED <<smsg, crcpt, group, targets, files, spool_msgs, blocked>>

(* A recipient elsewhere is put aside                                       *)
PutAside(s) ==
    /\ spc[s] = "local" /\ rcpt[s] # <<>> /\ Head(rcpt[s]) \in Ext
    /\ crcpt' = [crcpt EXCEPT ![s] = <<Head(rcpt[s])>> \o @]
    /\ rcpt' = [rcpt EXCEPT ![s] = Tail(@)]
    /\ SpoolFrame /\ UNCHANGED <<boxVars, spc, smsg, group, targets, files, spool_msgs, blocked>>

(* The members of the list q that are in R, in their order                  *)
Among(q, R) ==
    LET upTo[k \in 0 .. Len(q)] ==
          IF k = 0 THEN <<>> ELSE IF q[k] \in R THEN Append(upTo[k - 1], q[k]) ELSE upTo[k - 1]
    IN upTo[Len(q)]

(* External delivery: the recipients of the first one's domain ...          *)
Group(s) ==
    /\ spc[s] = "local" /\ rcpt[s] = <<>> /\ crcpt[s] # <<>>
    /\ LET d == Domain[Head(crcpt[s])]
       IN /\ group' = [group EXCEPT ![s] = Among(crcpt[s], {r \in Ext : Domain[r] = d})]
          /\ crcpt' = [crcpt EXCEPT ![s] = Among(crcpt[s], {r \in Ext : Domain[r] # d})]
    /\ Goto(s, "mx")
    /\ SpoolFrame /\ UNCHANGED <<boxVars, smsg, rcpt, targets, files, spool_msgs, blocked>>

(* ... their mail exchangers, or the host itself; no answer from the DNS    *)
(* server gives up the group ...                                            *)
AskMx(s) ==
    /\ spc[s] = "mx"
    /\ \/ \E n \in 1 .. MaxTargets : targets' = [targets EXCEPT ![s] = n] /\ Goto(s, "connect")
       \/ Goto(s, "clear") /\ UNCHANGED targets
    /\ SpoolFrame /\ UNCHANGED <<boxVars, smsg, rcpt, crcpt, group, files, spool_msgs, blocked>>

(* ... a connection to one of them: a host without address or one that      *)
(* refuses is struck off, any other error leads to another try ...          *)
Refused(s) ==
    /\ spc[s] = "connect" /\ targets[s] > 0
    /\ targets' = [targets EXCEPT ![s] = FewerTargets(s)]
    /\ SpoolFrame /\ UNCHANGED <<boxVars, spc, smsg, rcpt, crcpt, group, files, spool_msgs, blocked>>

(* ... and the dialogue, or none when there is nobody left: whatever comes  *)
(* of it, the group is done with                                            *)
Talk(s) ==
    /\ spc[s] = "connect"
    /\ Goto(s, "clear")
    /\ SpoolFrame /\ UNCHANGED <<boxVars, smsg, rcpt, crcpt, group, targets, files, spool_msgs, blocked>>

Clear(s) ==
    /\ spc[s] = "clear"
    /\ group' = [group EXCEPT ![s] = <<>>]
    /\ targets' = [targets EXCEPT ![s] = 0]
    /\ Goto(s, "local")
    /\ SpoolFrame /\ UNCHANGED <<boxVars, smsg, rcpt, crcpt, files, spool_msgs, blocked>>

(* All recipients served: remove the spool file                             *)
Release(s) ==
    /\ spc[s] = "local" /\ rcpt[s] = <<>> /\ crcpt[s] = <<>>
    /\ files' = files \ {smsg[s]}
    /\ smsg' = [smsg EXCEPT ![s] = NULL]
    /\ Goto(s, "wait")
    /\ SpoolFrame /\ UNCHANGED <<boxVars, rcpt, crcpt, group, targets, spool_msgs, blocked>>

----------------------------------------------------------------------------
SmtpCommand(t) ==
    \/ Helo(t) \/ HeloShort(t) \/ Mail(t) \/ (\E r \in Boxes \cup Ext : Rcpt(t, r))
    \/ DataBegin(t) \/ DataEnd(t) \/ RcptCrash(t) \/ Rset(t) \/ Auth(t) \/ SmtpEnd(t)

PopCommand(t) ==
    \/ User(t) \/ (\E b \in Boxes : Login(t, b)) \/ (\E b \in Boxes \cup {NULL} : LoginFails(t, b))
    \/ (\E m \in Msgs : Dele(t, m)) \/ PopRset(t) \/ PopQuit(t) \/ PopEnd(t)

Spooler(s) ==
    \/ Fetch(s) \/ ScanVirus(s) \/ ScanClean(s) \/ BoxLock(s) \/ BoxLink(s) \/ PutAside(s)
    \/ Group(s) \/ AskMx(s) \/ Refused(s) \/ Talk(s) \/ Clear(s) \/ Release(s)

Next ==
    /\ ~crashed
    /\ \/ \E k \in {"smtp", "pop"} : Accept(k)
       \/ \E t \in Pool : Take(t) \/ SmtpCommand(t) \/ PopCommand(t)
       \/ \E s \in Spoolers : Spooler(s)

Spec == Init /\ [][Next]_vars

----------------------------------------------------------------------------
Copies == [Msgs -> Nat]

TypeOK ==
    /\ queue \in Seq({"smtp", "pop"}) /\ kind \in [Pool -> {"smtp", "pop", NULL}]
    /\ sstate \in [Pool -> {"none", "helo", "rcpt", "data"}] /\ auth \in [Pool -> BOOLEAN]
    /\ msg \in [Pool -> Msgs \cup {NULL}]
    /\ pstate \in [Pool -> {"none", "auth", "tran"}] /\ mbox \in [Pool -> Boxes \cup {NULL}]
    /\ msgs \in [Pool -> Copies] /\ del \in [Pool -> Copies]
    /\ mtx \in [Boxes -> SUBSET (Pool \cup Spoolers)] /\ box \in [Boxes -> Copies]
    /\ files \subseteq Msgs /\ spool_msgs \in Seq(Msgs)
    /\ spc \in [Spoolers -> {"wait", "scan", "local", "link", "mx", "connect", "clear"}]
    /\ smsg \in [Spoolers -> Msgs \cup {NULL}]
    /\ {rcpt[s] : s \in Spoolers} \subseteq Seq(Boxes \cup Ext)
    /\ {crcpt[s] : s \in Spoolers} \cup {group[s] : s \in Spoolers} \subseteq Seq(Ext)
    /\ targets \in [Spoolers -> 0 .. MaxTargets]
    /\ acked \subseteq used /\ used \subseteq Msgs /\ blocked \subseteq acked

(* Copies of m still to be put into b *)
Pending(m, b) ==
    IF m \in ToSet(spool_msgs) THEN Occurs(b, to[m])
    ELSE LET s == {x \in Spoolers : smsg[x] = m}
         IN IF s = {} THEN 0 ELSE Occurs(b, rcpt[CHOOSE x \in s : TRUE])

(* A message the server has acknowledged is neither lost nor multiplied:    *)
(* each RCPT for a mailbox is one copy, still to be delivered, in the       *)
(* mailbox or deleted by its owner; nothing is delivered that was not       *)
(* acknowledged.                                                            *)
MailConserved ==
    \A b \in Boxes, m \in Msgs \ blocked :
        box[b][m] + gone[b][m] + Pending(m, b) = IF m \in acked THEN Occurs(b, to[m]) ELSE 0

(* What a POP3 session has listed is what is in its mailbox up to QUIT: no  *)
(* spooler adds to it and no other session removes from it, so the numbers  *)
(* of the messages stay valid.                                              *)
ViewIsStable ==
    \A t \in Pool : (Pop(t) /\ pstate[t] = "tran") => msgs[t] = box[mbox[t]]

(* Who has a mailbox locked: the POP3 session logged in to it or the        *)
(* spooler in it, and nobody else.                                          *)
HoldersHold ==
    \A b \in Boxes :
        mtx[b] = {t \in Pool : Pop(t) /\ pstate[t] = "tran" /\ mbox[t] = b}
                 \cup {s \in Spoolers : spc[s] = "link" /\ Head(rcpt[s]) = b}

(* A mailbox is locked exactly by the POP3 session logged in to it or the   *)
(* spooler in it: no way out of a session leaves it locked, and no failed   *)
(* login opens it to a second one.  Every variable has its type.            *)
LocksAreOwned == TypeOK /\ HoldersHold

(* Mail leaves for other hosts only if its sender gave a password on the    *)
(* same connection, whatever RSET, HELO and earlier connections did.        *)
NoStrangerRelays ==
    \A m \in acked : (\E k \in DOMAIN to[m] : to[m][k] \in Ext) => m \in trusted
=============================================================================
