--------------------------- MODULE QxMailProofs ---------------------------
(***************************************************************************)
(* Proofs about QxMail for any number of pool threads, spoolers,           *)
(* mailboxes, addresses and messages.                                      *)
(***************************************************************************)
EXTENDS QxMail, FiniteSetTheorems, WellFoundedInduction, TLAPS

(* The types of all variables but crcpt, group and targets, which only      *)
(* decide whom a spooler connects to: see Routed.                           *)
Addresses == Boxes \cup Ext

Types ==
    /\ queue \in Seq({"smtp", "pop"}) /\ kind \in [Pool -> {"smtp", "pop", NULL}]
    /\ sstate \in [Pool -> {"none", "helo", "rcpt", "data"}]
    /\ auth \in [Pool -> BOOLEAN] /\ login \in [Pool -> BOOLEAN]
    /\ msg \in [Pool -> Msgs \cup {NULL}]
    /\ pstate \in [Pool -> {"none", "auth", "tran"}] /\ mbox \in [Pool -> Boxes \cup {NULL}]
    /\ msgs \in [Pool -> Copies] /\ del \in [Pool -> Copies]
    /\ mtx \in [Boxes -> SUBSET (Pool \cup Spoolers)]
    /\ box \in [Boxes -> Copies] /\ gone \in [Boxes -> Copies]
    /\ files \subseteq Msgs /\ spool_msgs \in Seq(Msgs)
    /\ spc \in [Spoolers -> {"wait", "scan", "local", "link", "mx", "connect", "clear"}]
    /\ smsg \in [Spoolers -> Msgs \cup {NULL}] /\ rcpt \in [Spoolers -> Seq(Addresses)]
    /\ to \in [Msgs -> Seq(Addresses)]
    /\ acked \subseteq used /\ used \subseteq Msgs /\ trusted \subseteq Msgs

(* A session writes a message of its own that nobody has acknowledged, and  *)
(* DATA writes to a file that is there.                                     *)
Sessions ==
    /\ \A t \in Pool :
          /\ msg[t] # NULL => /\ kind[t] = "smtp" /\ sstate[t] \in {"rcpt", "data"}
                              /\ msg[t] \in used /\ msg[t] \notin acked
          /\ (kind[t] = "smtp" /\ sstate[t] = "data") => msg[t] # NULL /\ msg[t] \in files
          /\ (kind[t] = "smtp" /\ auth[t]) => login[t]
    /\ \A t, u \in Pool : msg[t] # NULL /\ msg[t] = msg[u] => t = u

(* Only who gave a password on this connection named recipients elsewhere.  *)
Trusted == \A m \in Msgs : (\E k \in DOMAIN to[m] : to[m][k] \in Ext) => m \in trusted

(* An acknowledged message waits at one place of the stack or is with one   *)
(* spooler, and its file is there as long.                                  *)
Custody ==
    /\ \A i, j \in DOMAIN spool_msgs : spool_msgs[i] = spool_msgs[j] => i = j
    /\ \A i \in DOMAIN spool_msgs : spool_msgs[i] \in acked /\ spool_msgs[i] \in files
    /\ \A s \in Spoolers : (smsg[s] = NULL) = (spc[s] = "wait")
    /\ \A s \in Spoolers : smsg[s] # NULL =>
          /\ smsg[s] \in acked /\ smsg[s] \in files
          /\ \A i \in DOMAIN spool_msgs : spool_msgs[i] # smsg[s]
          /\ \A u \in Spoolers : smsg[u] = smsg[s] => u = s
    /\ \A s \in Spoolers : spc[s] = "link" => rcpt[s] # <<>> /\ Head(rcpt[s]) \in Boxes
    /\ \A s \in Spoolers : spc[s] \in {"mx", "connect", "clear"} => rcpt[s] = <<>>

(* The mutex of a mailbox has at most one owner.                            *)
Owned ==
    /\ HoldersHold
    /\ \A b \in Boxes : \A x, y \in mtx[b] : x = y
    /\ \A t \in Pool : Pop(t) /\ pstate[t] = "tran" => mbox[t] \in Boxes

(* A session lists what is there and marks no more than it listed.          *)
Listed ==
    /\ ViewIsStable
    /\ \A t \in Pool, m \in Msgs : Pop(t) /\ pstate[t] = "tran" => del[t][m] <= msgs[t][m]

IInv == Types /\ Sessions /\ Trusted /\ Custody /\ Owned /\ Listed
----------------------------------------------------------------------------
(* The initial states satisfy the invariant.                                *)
LEMMA InitIInv == Init => IInv
<1> SUFFICES ASSUME Init PROVE IInv OBVIOUS
<1> USE MailAssumption DEF Init
<1>1. None \in Copies BY DEF None, Copies
<1>2. Types BY <1>1 DEF Types
<1>3. Sessions BY DEF Sessions
<1>4. Trusted BY DEF Trusted
<1>5. Custody BY DEF Custody
<1>6. Owned BY DEF Owned, HoldersHold, Pop
<1>7. Listed BY DEF Listed, ViewIsStable, Pop
<1> QED BY <1>2, <1>3, <1>4, <1>5, <1>6, <1>7 DEF IInv

(* A connection is put into the list or taken from it: the handler begins   *)
(* with a session of its own.                                               *)
LEMMA ConnectionIInv ==
    ASSUME IInv, (\E k \in {"smtp", "pop"} : Accept(k)) \/ (\E t \in Pool : Take(t))
    PROVE  IInv'
<1> USE MailAssumption DEF IInv
<1>1. ASSUME NEW k \in {"smtp", "pop"}, Accept(k) PROVE IInv'
  <2> USE <1>1 DEF Accept, smtpVars, popVars, boxVars, spoolVars, msgVars, histVars
  <2>1. queue' \in Seq({"smtp", "pop"})
    <3>1. queue \in Seq({"smtp", "pop"}) BY DEF Types
    <3>2. <<k>> \in Seq({"smtp", "pop"}) /\ Append(queue, k) \in Seq({"smtp", "pop"}) BY <3>1
    <3> QED BY <3>2 DEF QueueAfterAccept
  <2>7. Types' BY <2>1 DEF Types
  <2>2. Sessions' BY DEF Sessions
  <2>3. Trusted' BY DEF Trusted
  <2>4. Custody' BY DEF Custody
  <2>5. Owned' BY DEF Owned, HoldersHold, Pop
  <2>6. Listed' BY DEF Listed, ViewIsStable, Pop
  <2> QED BY <2>2, <2>3, <2>4, <2>5, <2>6, <2>7
<1>2. ASSUME NEW t \in Pool, Take(t) PROVE IInv'
  <2> USE <1>2 DEF Take, boxVars, spoolVars, msgVars
  <2>1. Types' BY DEF Types, AuthAtStart
  <2>2. Sessions' BY DEF Sessions, Types, AuthAtStart
  <2>3. Trusted' BY DEF Trusted
  <2>4. Custody' BY DEF Custody
  <2>5. Owned'
    <3>1. ~Pop(t) /\ pstate'[t] = "none" BY DEF Pop, Types
    <3>2. \A u \in Pool \ {t} : Pop(u)' = Pop(u) /\ pstate'[u] = pstate[u] /\ mbox'[u] = mbox[u]
      BY DEF Pop, Types
    <3> QED BY <3>1, <3>2 DEF Owned, HoldersHold
  <2>6. Listed'
    <3>1. pstate'[t] = "none" BY DEF Types
    <3>2. \A u \in Pool \ {t} : Pop(u)' = Pop(u) /\ pstate'[u] = pstate[u] /\ mbox'[u] = mbox[u]
      BY DEF Pop, Types
    <3> QED BY <3>1, <3>2 DEF Listed, ViewIsStable
  <2> QED BY <2>1, <2>2, <2>3, <2>4, <2>5, <2>6
<1> QED BY <1>1, <1>2

(* What an SMTP command leaves to the POP3 sessions and the spoolers.       *)
LEMMA SmtpFrameKeeps ==
    ASSUME IInv, UNCHANGED <<popVars, boxVars, spoolVars>>,
           \A u \in Pool : Pop(u)' = Pop(u)
    PROVE  Owned' /\ Listed'
<1> USE DEF IInv, popVars, boxVars, spoolVars
<1>1. Owned' BY DEF Owned, HoldersHold
<1>2. Listed' BY DEF Listed, ViewIsStable
<1> QED BY <1>1, <1>2

(* FreeSMTPSession removes the file of no message that was acknowledged.    *)
LEMMA FreedIsUnacknowledged ==
    ASSUME IInv, NEW t \in Pool, files' = files \ {msg[t]},
           UNCHANGED <<spoolVars, spool_msgs, acked>>
    PROVE  Custody'
<1> USE MailAssumption DEF IInv, spoolVars
<1>1. msg[t] \notin acked BY DEF Sessions, Types
<1>2. \A m \in acked : m \in files => m \in files' BY <1>1
<1> QED BY <1>2 DEF Custody

(* Each SMTP command: a session only touches the message it is writing.     *)
LEMMA SmtpIInv == ASSUME IInv, NEW t \in Pool, SmtpCommand(t) PROVE IInv'
<1> USE MailAssumption DEF IInv, SmtpFrame, connVars
<1>1. ASSUME Helo(t) \/ HeloShort(t) \/ Rset(t) PROVE IInv'
  <2> USE <1>1 DEF Helo, HeloShort, Rset, FreeSMTPSession, Smtp
  <2>1. Types'
    <3>1. msg' \in [Pool -> Msgs \cup {NULL}] /\ files' \subseteq Msgs BY DEF Types
    <3>2. sstate' \in [Pool -> {"none", "helo", "rcpt", "data"}] /\ auth' \in [Pool -> BOOLEAN]
      <4>1. /\ sstate' = [sstate EXCEPT ![t] = "helo"] \/ sstate' = sstate
            /\ auth' = [auth EXCEPT ![t] = FALSE] \/ auth' = auth
        OBVIOUS
      <4>2. /\ sstate \in [Pool -> {"none", "helo", "rcpt", "data"}]
            /\ auth \in [Pool -> BOOLEAN]
        BY DEF Types
      <4>3. [auth EXCEPT ![t] = FALSE] \in [Pool -> BOOLEAN] BY <4>2
      <4>4. [sstate EXCEPT ![t] = "helo"] \in [Pool -> {"none", "helo", "rcpt", "data"}] BY <4>2
      <4> QED BY <4>1, <4>2, <4>3, <4>4
    <3>3. UNCHANGED <<queue, kind, login, spool_msgs, to, used, acked, trusted>> OBVIOUS
    <3> QED BY <3>1, <3>2, <3>3 DEF Types, popVars, boxVars, spoolVars
  <2>2. Sessions'
    <3>1. msg' \in [Pool -> Msgs \cup {NULL}] /\ msg'[t] = NULL
          /\ \A u \in Pool \ {t} : msg'[u] = msg[u] /\ sstate'[u] = sstate[u] /\ auth'[u] = auth[u]
      <4>1. /\ msg' = [msg EXCEPT ![t] = NULL] \/ (msg' = msg /\ sstate[t] = "none" /\ kind[t] = "smtp")
            /\ sstate' = [sstate EXCEPT ![t] = "helo"] \/ sstate' = sstate
            /\ auth' = [auth EXCEPT ![t] = FALSE] \/ auth' = auth
        OBVIOUS
      <4>2. /\ msg \in [Pool -> Msgs \cup {NULL}] /\ DOMAIN sstate = Pool /\ DOMAIN auth = Pool
            /\ sstate[t] = "none" => msg[t] = NULL
        BY DEF Types, Sessions
      <4> HIDE <1>1
      <4> QED BY <4>1, <4>2
    <3>2. sstate'[t] # "data" /\ (auth'[t] => auth[t]) BY DEF Types
    <3>3. \A u \in Pool \ {t} : msg[u] # NULL /\ msg[u] \in files => msg[u] \in files'
      BY DEF Types, Sessions
    <3> QED BY <3>1, <3>2, <3>3 DEF Sessions
  <2>3. Trusted' BY DEF Trusted
  <2>4. Custody'
    <3>1. CASE files' = files \ {msg[t]} BY <3>1, FreedIsUnacknowledged
    <3>2. CASE files' = files BY <3>2 DEF Custody, spoolVars
    <3> QED BY <3>1, <3>2
  <2>5. Owned' /\ Listed' BY SmtpFrameKeeps DEF Pop
  <2> QED BY <2>1, <2>2, <2>3, <2>4, <2>5
<1>2. ASSUME Mail(t) PROVE IInv'
  <2> USE <1>2 DEF Mail, Smtp
  <2>0. PICK m \in Msgs \ used : msg' = [msg EXCEPT ![t] = m] /\ used' = used \cup {m} OBVIOUS
  <2>1. Types' BY <2>0 DEF Types, popVars, boxVars, spoolVars
  <2>2. Sessions'
    <3>1. msg'[t] = m /\ sstate'[t] = "rcpt" /\ m \in used' /\ m \notin acked' BY <2>0 DEF Types
    <3>2. \A u \in Pool \ {t} : msg'[u] = msg[u] /\ sstate'[u] = sstate[u] /\ msg[u] # m
      BY <2>0 DEF Types, Sessions
    <3> QED BY <2>0, <3>1, <3>2 DEF Sessions
  <2>3. Trusted' BY DEF Trusted
  <2>4. Custody' BY DEF Custody, spoolVars
  <2>5. Owned' /\ Listed' BY SmtpFrameKeeps DEF Pop
  <2> QED BY <2>1, <2>2, <2>3, <2>4, <2>5
<1>3. ASSUME NEW r \in Boxes \cup Ext, Rcpt(t, r) PROVE IInv'
  <2> USE <1>3 DEF Rcpt, Smtp, smtpVars
  <2>0. msg[t] \in Msgs /\ (auth[t] => login[t]) BY DEF Types, Sessions
  <2>1. Types' BY <2>0 DEF Types, Addresses, popVars, boxVars, spoolVars
  <2>2. Sessions' BY DEF Sessions
  <2>3. Trusted'
    <3>1. \A m \in Msgs \ {msg[t]} : to'[m] = to[m] BY DEF Types
    <3>2. to'[msg[t]] = <<r>> \o to[msg[t]] /\ to[msg[t]] \in Seq(Addresses) BY <2>0 DEF Types
    <3>3. CASE login[t]
      <4>1. msg[t] \in trusted' /\ trusted \subseteq trusted' BY <3>3
      <4> QED BY <3>1, <4>1 DEF Trusted
    <3>4. CASE ~login[t]
      <4>1. r \notin Ext /\ trusted' = trusted BY <2>0, <3>4
      <4>2. ASSUME NEW k \in DOMAIN to'[msg[t]], to'[msg[t]][k] \in Ext
            PROVE  \E j \in DOMAIN to[msg[t]] : to[msg[t]][j] \in Ext
        <5>1. k # 1 /\ k - 1 \in DOMAIN to[msg[t]] /\ to'[msg[t]][k] = to[msg[t]][k - 1]
          BY <3>2, <4>1, <4>2
        <5> QED BY <4>2, <5>1
      <4> QED BY <2>0, <3>1, <4>1, <4>2 DEF Trusted
    <3> QED BY <3>3, <3>4
  <2>4. Custody' BY DEF Custody, spoolVars
  <2>5. Owned' /\ Listed' BY SmtpFrameKeeps DEF Pop
  <2> QED BY <2>1, <2>2, <2>3, <2>4, <2>5
<1>4. ASSUME DataBegin(t) PROVE IInv'
  <2> USE <1>4 DEF DataBegin, Smtp
  <2>1. Types' BY DEF Types, popVars, boxVars, spoolVars
  <2>2. Sessions' BY DEF Sessions, Types
  <2>3. Trusted' BY DEF Trusted
  <2>4. Custody' BY DEF Custody, spoolVars
  <2>5. Owned' /\ Listed' BY SmtpFrameKeeps DEF Pop
  <2> QED BY <2>1, <2>2, <2>3, <2>4, <2>5
<1>5. ASSUME DataEnd(t) PROVE IInv'
  <2> USE <1>5 DEF DataEnd, MsgAfterData
  <2>0. msg[t] \in Msgs /\ msg[t] \in used /\ msg[t] \notin acked /\ msg[t] \in files
    BY DEF Types, Sessions
  <2>1. Types' BY <2>0 DEF Types, popVars, boxVars, spoolVars
  <2>2. Sessions'
    <3>1. msg'[t] = NULL /\ sstate'[t] = "helo" BY DEF Types
    <3>2. \A u \in Pool \ {t} : msg'[u] = msg[u] /\ sstate'[u] = sstate[u] /\ msg[u] # msg[t]
      BY <2>0 DEF Types, Sessions
    <3> QED BY <3>1, <3>2 DEF Sessions
  <2>3. Trusted' BY DEF Trusted
  <2>4. Custody'
    <3>1. /\ DOMAIN spool_msgs' = 1 .. (Len(spool_msgs) + 1) /\ DOMAIN spool_msgs = 1 .. Len(spool_msgs)
          /\ spool_msgs'[1] = msg[t] /\ Len(spool_msgs) \in Nat
          /\ \A i \in 1 .. Len(spool_msgs) : spool_msgs'[i + 1] = spool_msgs[i]
      BY <2>0 DEF Types
    <3>2. \A i \in DOMAIN spool_msgs' :
             \/ i = 1 /\ spool_msgs'[i] = msg[t]
             \/ i - 1 \in DOMAIN spool_msgs /\ spool_msgs'[i] = spool_msgs[i - 1]
      <4>1. \A i \in 1 .. (Len(spool_msgs) + 1) : i = 1 \/ (i - 1 \in 1 .. Len(spool_msgs) /\ (i - 1) + 1 = i)
        BY <3>1
      <4> QED BY <3>1, <4>1
    <3>3. \A i \in DOMAIN spool_msgs : spool_msgs[i] # msg[t] BY <2>0 DEF Custody
    <3>4. \A s \in Spoolers : smsg[s] # NULL => smsg[s] # msg[t] BY <2>0 DEF Custody
    <3>5. \A i, j \in DOMAIN spool_msgs' : spool_msgs'[i] = spool_msgs'[j] => i = j
      <4> SUFFICES ASSUME NEW i \in DOMAIN spool_msgs', NEW j \in DOMAIN spool_msgs',
                          spool_msgs'[i] = spool_msgs'[j]
                   PROVE  i = j
        OBVIOUS
      <4>1. CASE i = 1 \/ j = 1 BY <3>1, <3>2, <3>3, <4>1
      <4>2. CASE i # 1 /\ j # 1
        <5>1. i - 1 \in DOMAIN spool_msgs /\ j - 1 \in DOMAIN spool_msgs
              /\ spool_msgs[i - 1] = spool_msgs[j - 1]
          BY <3>2, <4>2
        <5>2. i - 1 = j - 1 BY <5>1 DEF Custody
        <5> QED BY <3>1, <5>2
      <4> QED BY <4>1, <4>2
    <3>6. \A i \in DOMAIN spool_msgs' : spool_msgs'[i] \in acked' /\ spool_msgs'[i] \in files'
      BY <2>0, <3>2 DEF Custody
    <3>7. ASSUME NEW s \in Spoolers, smsg[s] # NULL
          PROVE  \A i \in DOMAIN spool_msgs' : spool_msgs'[i] # smsg[s]
      BY <3>2, <3>4, <3>7 DEF Custody
    <3> QED BY <3>5, <3>6, <3>7 DEF Custody, spoolVars
  <2>5. Owned' /\ Listed' BY SmtpFrameKeeps DEF Pop
  <2> QED BY <2>1, <2>2, <2>3, <2>4, <2>5
<1>6. ASSUME RcptCrash(t) PROVE IInv'
  <2> USE <1>6 DEF RcptCrash, smtpVars, msgVars
  <2>1. Types' BY DEF Types, popVars, boxVars, spoolVars
  <2>2. Sessions' BY DEF Sessions
  <2>3. Trusted' BY DEF Trusted
  <2>4. Custody' BY DEF Custody, spoolVars
  <2>5. Owned' /\ Listed' BY SmtpFrameKeeps DEF Pop
  <2> QED BY <2>1, <2>2, <2>3, <2>4, <2>5
<1>7. ASSUME Auth(t) PROVE IInv'
  <2> USE <1>7 DEF Auth, msgVars, Smtp
  <2>1. Types' BY DEF Types, popVars, boxVars, spoolVars
  <2>2. Sessions' BY DEF Sessions, Types
  <2>3. Trusted' BY DEF Trusted
  <2>4. Custody' BY DEF Custody, spoolVars
  <2>5. Owned' /\ Listed' BY SmtpFrameKeeps DEF Pop
  <2> QED BY <2>1, <2>2, <2>3, <2>4, <2>5
<1>8. ASSUME SmtpEnd(t) PROVE IInv'
  <2> USE <1>8 DEF SmtpEnd, FreeSMTPSession, histVars
  <2>1. Types' BY DEF Types, popVars, boxVars, spoolVars
  <2>2. Sessions'
    <3>1. msg'[t] = NULL /\ kind'[t] = NULL BY DEF Types
    <3>2. \A u \in Pool \ {t} : msg'[u] = msg[u] /\ kind'[u] = kind[u] BY DEF Types
    <3>3. \A u \in Pool \ {t} : msg[u] # NULL /\ msg[u] \in files => msg[u] \in files'
      BY DEF Types, Sessions
    <3> QED BY <3>1, <3>2, <3>3 DEF Sessions
  <2>3. Trusted' BY DEF Trusted
  <2>4. Custody' BY FreedIsUnacknowledged
  <2>5. \A u \in Pool : Pop(u)' = Pop(u) BY DEF Pop, Types
  <2>6. Owned' /\ Listed' BY <2>5, SmtpFrameKeeps
  <2> QED BY <2>1, <2>2, <2>3, <2>4, <2>6
<1> QED BY <1>1, <1>2, <1>3, <1>4, <1>5, <1>6, <1>7, <1>8 DEF SmtpCommand

(* What a POP3 command leaves to the SMTP sessions and the spoolers.        *)
LEMMA PopFrameKeeps ==
    ASSUME IInv, NEW t \in Pool, kind[t] = "pop", kind' = kind \/ kind' = [kind EXCEPT ![t] = NULL], PopFrame
    PROVE  Sessions' /\ Trusted' /\ Custody'
<1> USE MailAssumption DEF IInv, PopFrame, smtpVars, spoolVars, msgVars
<1>1. \A u \in Pool : kind'[u] = "smtp" <=> kind[u] = "smtp" BY DEF Types
<1>2. Sessions' BY <1>1 DEF Sessions
<1>3. Trusted' BY DEF Trusted
<1>4. Custody' BY DEF Custody
<1> QED BY <1>2, <1>3, <1>4

(* The end of a POP3 session: its mailbox is unlocked, and one that a       *)
(* failed login left in it stays with its owner.                            *)
LEMMA PopCloses ==
    ASSUME IInv, NEW t \in Pool, Pop(t), PopClose(t), PopFrame, UNCHANGED <<pstate, mbox>>
    PROVE  /\ Owned' /\ mtx' \in [Boxes -> SUBSET (Pool \cup Spoolers)]
           /\ \A u \in Pool : u # t => Pop(u)' = Pop(u)
           /\ ~Pop(t)'
<1> USE MailAssumption DEF IInv, PopClose, PopFrame, spoolVars, Unlocked, Pop
<1>1. mtx' \in [Boxes -> SUBSET (Pool \cup Spoolers)] BY DEF Types
<1>2. /\ \A u \in Pool : u # t => Pop(u)' = Pop(u)
      /\ ~Pop(t)'
  BY DEF Types
<1>3. \A b \in Boxes : mtx'[b] = mtx[b] \ {t}
  <2> SUFFICES ASSUME NEW b \in Boxes PROVE mtx'[b] = mtx[b] \ {t} OBVIOUS
  <2>1. CASE mbox[t] = b BY <2>1 DEF Types
  <2>2. CASE mbox[t] # b
    <3>1. t \notin mtx[b] BY <2>2 DEF Owned, HoldersHold
    <3>2. mtx'[b] = mtx[b] BY <2>2 DEF Types
    <3> QED BY <3>1, <3>2
  <2> QED BY <2>1, <2>2
<1>4. HoldersHold'
  <2> SUFFICES ASSUME NEW b \in Boxes
               PROVE  (mtx[b] = {u \in Pool : Pop(u) /\ pstate[u] = "tran" /\ mbox[u] = b}
                                \cup {s \in Spoolers : spc[s] = "link" /\ Head(rcpt[s]) = b})'
    BY DEF HoldersHold
  <2>1. mtx[b] = {u \in Pool : Pop(u) /\ pstate[u] = "tran" /\ mbox[u] = b}
                 \cup {s \in Spoolers : spc[s] = "link" /\ Head(rcpt[s]) = b}
    BY DEF Owned, HoldersHold
  <2>2. mtx'[b] = mtx[b] \ {t} BY <1>3
  <2>3. t \notin Spoolers OBVIOUS
  <2> HIDE DEF Pop
  <2> QED BY <1>2, <2>1, <2>2, <2>3
<1>5. \A b \in Boxes : \A x, y \in mtx'[b] : x = y BY <1>3 DEF Owned
<1>6. \A u \in Pool : Pop(u)' /\ pstate'[u] = "tran" => mbox'[u] \in Boxes BY <1>2 DEF Owned
<1> HIDE DEF Pop
<1> QED BY <1>1, <1>2, <1>4, <1>5, <1>6 DEF Owned

(* Two sessions are never logged in to one mailbox.                         *)
LEMMA Alone ==
    ASSUME IInv, NEW t \in Pool, NEW u \in Pool, t # u, Pop(t), Pop(u), pstate[t] = "tran",
           pstate[u] = "tran"
    PROVE  mbox[t] # mbox[u]
<1>1. t \in mtx[mbox[t]] /\ u \in mtx[mbox[u]] /\ mbox[t] \in Boxes BY DEF IInv, Owned, HoldersHold
<1> QED BY <1>1 DEF IInv, Owned

(* Each POP3 command.                                                       *)
LEMMA PopIInv == ASSUME IInv, NEW t \in Pool, PopCommand(t) PROVE IInv'
<1> USE MailAssumption DEF IInv, PopFrame, smtpVars, spoolVars, msgVars
<1>1. ASSUME User(t) \/ (\E b \in Boxes \cup {NULL} : LoginFails(t, b)) PROVE IInv'
  <2> USE <1>1 DEF User, LoginFails, boxVars, Pop
  <2>1. Types'
    <3>1. pstate' \in [Pool -> {"none", "auth", "tran"}] /\ mbox' \in [Pool -> Boxes \cup {NULL}]
      <4>1. /\ pstate' = [pstate EXCEPT ![t] = "auth"] \/ pstate' = [pstate EXCEPT ![t] = "none"]
            /\ mbox' = mbox \/ \E b \in Boxes \cup {NULL} : mbox' = [mbox EXCEPT ![t] = b]
        OBVIOUS
      <4> HIDE <1>1
      <4>2. pstate \in [Pool -> {"none", "auth", "tran"}] /\ mbox \in [Pool -> Boxes \cup {NULL}]
        BY DEF Types
      <4>3. pstate' \in [Pool -> {"none", "auth", "tran"}] BY <4>1, <4>2
      <4>4. ASSUME NEW b \in Boxes \cup {NULL} PROVE [mbox EXCEPT ![t] = b] \in [Pool -> Boxes \cup {NULL}]
        BY <4>2
      <4> QED BY <4>1, <4>2, <4>3, <4>4
    <3>2. UNCHANGED <<queue, kind, msgs, del, mtx, box, gone, trusted, login>> OBVIOUS
    <3>3. UNCHANGED <<smtpVars, spoolVars, msgVars>> OBVIOUS
    <3> HIDE <1>1
    <3> QED BY <3>1, <3>2, <3>3 DEF Types
  <2>2. Sessions' /\ Trusted' /\ Custody' BY PopFrameKeeps
  <2>3. pstate[t] # "tran" /\ pstate'[t] # "tran" BY DEF Types
  <2>4. \A u \in Pool \ {t} : pstate'[u] = pstate[u] /\ mbox'[u] = mbox[u] BY DEF Types
  <2>5. kind' = kind /\ mtx' = mtx /\ box' = box /\ msgs' = msgs /\ del' = del OBVIOUS
  <2>6. Owned' BY <2>3, <2>4, <2>5 DEF Owned, HoldersHold
  <2>7. Listed' BY <2>3, <2>4, <2>5 DEF Listed, ViewIsStable
  <2> QED BY <2>1, <2>2, <2>6, <2>7
<1>2. ASSUME NEW b \in Boxes, Login(t, b) PROVE IInv'
  <2> USE <1>2 DEF Login, Pop
  <2>0. None \in Copies /\ box[b] \in Copies BY DEF None, Copies, Types
  <2>1. Types' BY <2>0 DEF Types
  <2>2. Sessions' /\ Trusted' /\ Custody' BY PopFrameKeeps
  <2>3. /\ pstate[t] # "tran" /\ pstate'[t] = "tran" /\ mbox'[t] = b /\ mtx'[b] = {t} /\ mtx[b] = {}
        /\ msgs'[t] = box[b] /\ del'[t] = None
    BY DEF Types
  <2>4. /\ \A u \in Pool \ {t} : /\ pstate'[u] = pstate[u] /\ mbox'[u] = mbox[u]
                                 /\ msgs'[u] = msgs[u] /\ del'[u] = del[u]
        /\ \A c \in Boxes \ {b} : mtx'[c] = mtx[c]
    BY DEF Types
  <2>5. Owned'
    <3>1. ASSUME NEW c \in Boxes
          PROVE  (mtx[c] = {u \in Pool : Pop(u) /\ pstate[u] = "tran" /\ mbox[u] = c}
                           \cup {s \in Spoolers : spc[s] = "link" /\ Head(rcpt[s]) = c})'
      <4>1. mtx[c] = {u \in Pool : Pop(u) /\ pstate[u] = "tran" /\ mbox[u] = c}
                     \cup {s \in Spoolers : spc[s] = "link" /\ Head(rcpt[s]) = c}
        BY DEF Owned, HoldersHold
      <4>2. CASE c = b BY <2>3, <2>4, <4>1, <4>2
      <4>3. CASE c # b BY <2>3, <2>4, <4>1, <4>3
      <4> QED BY <4>2, <4>3
    <3>2. \A c \in Boxes : \A x, y \in mtx'[c] : x = y BY <2>3, <2>4 DEF Owned
    <3>3. \A u \in Pool : Pop(u)' /\ pstate'[u] = "tran" => mbox'[u] \in Boxes
      BY <2>3, <2>4 DEF Owned
    <3> QED BY <3>1, <3>2, <3>3 DEF Owned, HoldersHold
  <2>6. Listed'
    <3>1. \A m \in Msgs : del'[t][m] <= msgs'[t][m] BY <2>0, <2>3 DEF None, Copies
    <3> QED BY <2>3, <2>4, <3>1 DEF Listed, ViewIsStable
  <2> QED BY <2>1, <2>2, <2>5, <2>6
<1>3. ASSUME (\E m \in Msgs : Dele(t, m)) \/ PopRset(t) PROVE IInv'
  <2> USE <1>3 DEF PopRset, boxVars, Pop
  <2>0. None \in Copies /\ \A m \in Msgs : del[t][m] \in Nat BY DEF None, Copies, Types
  <2>1. /\ del' \in [Pool -> Copies] /\ \A m \in Msgs : del'[t][m] <= msgs[t][m]
        /\ \A u \in Pool \ {t} : del'[u] = del[u]
        /\ UNCHANGED <<kind, pstate, mbox, msgs, boxVars, gone>>
        /\ Pop(t) /\ PopFrame
    <3>1. CASE PopRset(t)
      <4>1. \A m \in Msgs : None[m] = 0 /\ msgs[t][m] \in Nat BY DEF None, Types, Copies
      <4> QED BY <2>0, <3>1, <4>1 DEF Types
    <3>2. ASSUME NEW m \in Msgs, Dele(t, m)
          PROVE  /\ del' \in [Pool -> Copies] /\ \A n \in Msgs : del'[t][n] <= msgs[t][n]
                 /\ \A u \in Pool \ {t} : del'[u] = del[u]
                 /\ UNCHANGED <<kind, pstate, mbox, msgs, boxVars, gone>>
                 /\ Pop(t) /\ PopFrame
      <4>1. /\ del[t] \in Copies /\ msgs[t] \in Copies /\ del \in [Pool -> Copies]
            /\ \A n \in Msgs : del[t][n] <= msgs[t][n]
        BY <3>2 DEF Types, Listed, Dele
      <4>2. del' = [del EXCEPT ![t] = [del[t] EXCEPT ![m] = @ + 1]] BY <3>2, <4>1 DEF Dele
      <4>3. [del[t] EXCEPT ![m] = @ + 1] \in Copies BY <4>1 DEF Copies
      <4>4. del' \in [Pool -> Copies] /\ \A u \in Pool \ {t} : del'[u] = del[u] BY <4>1, <4>2, <4>3
      <4>5. \A n \in Msgs : del'[t][n] <= msgs[t][n]
        <5>1. del'[t] = [del[t] EXCEPT ![m] = @ + 1] BY <4>1, <4>2
        <5>2. del[t][m] < msgs[t][m] /\ del[t][m] \in Nat /\ msgs[t][m] \in Nat BY <3>2, <4>1 DEF Dele, Copies
        <5> QED BY <4>1, <5>1, <5>2 DEF Copies
      <4> QED BY <3>2, <4>4, <4>5 DEF Dele
    <3> QED BY <3>1, <3>2
  <2>2. Types' BY <2>1 DEF Types
  <2>3. Sessions' /\ Trusted' /\ Custody' BY <2>1, PopFrameKeeps
  <2>4. Owned' BY <2>1 DEF Owned, HoldersHold
  <2>5. Listed' BY <2>1 DEF Listed, ViewIsStable
  <2> QED BY <2>2, <2>3, <2>4, <2>5
<1>4. ASSUME PopEnd(t) \/ (PopQuit(t) /\ pstate[t] # "tran") PROVE IInv'
  <2> USE <1>4 DEF PopEnd, PopQuit
  <2>1. PopClose(t) /\ PopFrame /\ Pop(t) /\ UNCHANGED <<pstate, mbox, box, gone>> OBVIOUS
  <2>2. None \in Copies BY DEF None, Copies
  <2>3. Owned' /\ mtx' \in [Boxes -> SUBSET (Pool \cup Spoolers)] BY <2>1, PopCloses
  <2>4. (\A u \in Pool : u # t => Pop(u)' = Pop(u)) /\ ~Pop(t)' BY <2>1, PopCloses
  <2>5. Types' BY <2>1, <2>2, <2>3 DEF Types, PopClose
  <2>6. Sessions' /\ Trusted' /\ Custody' BY <2>1, PopFrameKeeps DEF PopClose, Pop
  <2>7. \A u \in Pool : u # t => msgs'[u] = msgs[u] /\ del'[u] = del[u] BY <2>1 DEF PopClose, Types
  <2>8. Listed' BY <2>1, <2>4, <2>7 DEF Listed, ViewIsStable
  <2> QED BY <2>3, <2>5, <2>6, <2>8
<1>5. ASSUME PopQuit(t), pstate[t] = "tran" PROVE IInv'
  <2> USE <1>5 DEF PopQuit
  <2> DEFINE b == mbox[t]
  <2>1. PopClose(t) /\ PopFrame /\ Pop(t) /\ UNCHANGED <<pstate, mbox>> OBVIOUS
  <2>2. None \in Copies BY DEF None, Copies
  <2>3. Owned' /\ mtx' \in [Boxes -> SUBSET (Pool \cup Spoolers)] BY <2>1, PopCloses
  <2>4. (\A u \in Pool : u # t => Pop(u)' = Pop(u)) /\ ~Pop(t)' BY <2>1, PopCloses
  <2>5. b \in Boxes /\ \A m \in Msgs : del[t][m] <= box[b][m]
    BY <2>1 DEF Owned, Listed, ViewIsStable
  <2>6. /\ box[b] \in Copies /\ gone[b] \in Copies /\ del[t] \in Copies
    BY <2>5 DEF Types
  <2>7. /\ [m \in Msgs |-> box[b][m] - del[t][m]] \in Copies
        /\ [m \in Msgs |-> gone[b][m] + del[t][m]] \in Copies
    BY <2>5, <2>6 DEF Copies
  <2>8. /\ box' = [box EXCEPT ![b] = [m \in Msgs |-> box[b][m] - del[t][m]]]
        /\ gone' = [gone EXCEPT ![b] = [m \in Msgs |-> gone[b][m] + del[t][m]]]
    BY <2>5 DEF Types
  <2>9. Types' BY <2>1, <2>2, <2>3, <2>5, <2>7, <2>8 DEF Types, PopClose
  <2>10. Sessions' /\ Trusted' /\ Custody' BY <2>1, PopFrameKeeps DEF PopClose, Pop
  <2>11. \A u \in Pool : u # t => msgs'[u] = msgs[u] /\ del'[u] = del[u] BY <2>1 DEF PopClose, Types
  <2>12. ASSUME NEW u \in Pool, Pop(u)', pstate'[u] = "tran" PROVE box'[mbox'[u]] = box[mbox[u]]
    <3>1. u # t /\ Pop(u) BY <2>4, <2>12
    <3>2. mbox[u] # b BY <2>1, <2>12, <3>1, Alone
    <3> QED BY <2>1, <2>8, <3>2 DEF Types
  <2>13. Listed'
    <3> HIDE DEF b
    <3> QED BY <2>1, <2>4, <2>11, <2>12 DEF Listed, ViewIsStable
  <2> QED BY <2>3, <2>9, <2>10, <2>13
<1> QED BY <1>1, <1>2, <1>3, <1>4, <1>5 DEF PopCommand

(* What a spooler leaves to the sessions, as long as the files it removes   *)
(* are those of acknowledged messages.                                      *)
LEMMA SpoolFrameKeeps ==
    ASSUME IInv, SpoolFrame, \A m \in files : m \notin acked => m \in files'
    PROVE  Sessions' /\ Trusted'
<1> USE DEF IInv, SpoolFrame, connVars, smtpVars
<1>1. Sessions' BY DEF Sessions
<1>2. Trusted' BY DEF Trusted
<1> QED BY <1>1, <1>2

(* A step of a spooler outside the mailboxes disturbs no lock and no list.  *)
LEMMA OutsideKeeps ==
    ASSUME IInv, SpoolFrame, UNCHANGED boxVars,
           \A u \in Spoolers : /\ (spc[u] = "link") <=> (spc'[u] = "link")
                               /\ spc[u] = "link" => rcpt'[u] = rcpt[u]
    PROVE  Owned' /\ Listed'
<1> USE DEF IInv, SpoolFrame, connVars, popVars, boxVars, Pop
<1>1. \A b \in Boxes : {s \in Spoolers : spc[s] = "link" /\ Head(rcpt[s]) = b}'
                       = {s \in Spoolers : spc[s] = "link" /\ Head(rcpt[s]) = b}
  OBVIOUS
<1>2. HoldersHold' BY <1>1 DEF Owned, HoldersHold
<1>3. Owned' BY <1>2 DEF Owned
<1>4. Listed' BY DEF Listed, ViewIsStable
<1> QED BY <1>3, <1>4

(* Each step of a spooler.                                                  *)
LEMMA SpoolerIInv == ASSUME IInv, NEW s \in Spoolers, Spooler(s) PROVE IInv'
<1> USE MailAssumption DEF IInv, Goto
<1>1. ASSUME Fetch(s) PROVE IInv'
  <2> USE <1>1 DEF Fetch
  <2> DEFINE N == Len(spool_msgs)
             m == Head(spool_msgs)
  <2>0. SpoolFrame /\ UNCHANGED <<boxVars, files, blocked>> OBVIOUS
  <2>1. /\ N \in Nat /\ N > 0 /\ DOMAIN spool_msgs = 1 .. N
        /\ m = spool_msgs[1] /\ m \in Msgs /\ 1 \in 1 .. N
        /\ DOMAIN spool_msgs' = 1 .. (N - 1)
        /\ \A i \in 1 .. (N - 1) : spool_msgs'[i] = spool_msgs[i + 1]
        /\ spool_msgs' \in Seq(Msgs)
    BY DEF Types
  <2>2. /\ smsg'[s] = m /\ spc'[s] = "scan" /\ rcpt'[s] = to[m]
        /\ \A u \in Spoolers \ {s} : smsg'[u] = smsg[u] /\ spc'[u] = spc[u] /\ rcpt'[u] = rcpt[u]
    BY DEF Types
  <2>3. Types'
    <3>1. to[m] \in Seq(Addresses) BY <2>1 DEF Types
    <3>2. /\ rcpt' \in [Spoolers -> Seq(Addresses)] /\ smsg' \in [Spoolers -> Msgs \cup {NULL}]
          /\ spc' \in [Spoolers -> {"wait", "scan", "local", "link", "mx", "connect", "clear"}]
      BY <2>1, <3>1 DEF Types
    <3> HIDE DEF m
    <3> HIDE <1>1
    <3> QED BY <2>0, <2>1, <3>2 DEF Types, SpoolFrame, connVars, smtpVars, popVars, boxVars
  <2>4. Sessions' /\ Trusted' BY <2>0, SpoolFrameKeeps
  <2>5. Owned' /\ Listed' BY <2>0, <2>2, OutsideKeeps
  <2>6. Custody'
    <3> HIDE DEF m
    <3>0. acked' = acked /\ files' = files BY <2>0 DEF SpoolFrame
    <3>1. \A i \in 1 .. (N - 1) : i + 1 \in 1 .. N /\ spool_msgs'[i] = spool_msgs[i + 1] /\ i + 1 # 1
      BY <2>1
    <3>2. m \in acked /\ m \in files BY <2>1 DEF Custody
    <3>3. \A i \in 1 .. (N - 1) : spool_msgs'[i] # m BY <2>1, <3>1 DEF Custody
    <3>4. \A u \in Spoolers : smsg[u] # m BY <2>1 DEF Custody
    <3>5. \A i, j \in 1 .. (N - 1) : spool_msgs'[i] = spool_msgs'[j] => i = j
      <4> SUFFICES ASSUME NEW i \in 1 .. (N - 1), NEW j \in 1 .. (N - 1), spool_msgs'[i] = spool_msgs'[j]
                   PROVE  i = j
        OBVIOUS
      <4>0. /\ i + 1 \in DOMAIN spool_msgs /\ j + 1 \in DOMAIN spool_msgs
            /\ spool_msgs[i + 1] = spool_msgs[j + 1]
        BY <2>1, <3>1
      <4>1. i + 1 = j + 1 BY <4>0 DEF Custody
      <4> QED BY <2>1, <4>1
    <3>6. m # NULL BY <2>1
    <3>7. \A i \in 1 .. (N - 1) : spool_msgs'[i] \in acked /\ spool_msgs'[i] \in files
      BY <2>1, <3>1 DEF Custody
    <3>8. ASSUME NEW u \in Spoolers, u # s, smsg[u] # NULL
          PROVE  /\ smsg[u] \in acked /\ smsg[u] \in files
                 /\ \A i \in 1 .. (N - 1) : spool_msgs'[i] # smsg[u]
                 /\ \A v \in Spoolers : smsg'[v] = smsg[u] => v = u
      <4>1. /\ smsg[u] \in acked /\ smsg[u] \in files
            /\ \A i \in 1 .. N : spool_msgs[i] # smsg[u]
            /\ \A v \in Spoolers : smsg[v] = smsg[u] => v = u
        BY <2>1, <3>8 DEF Custody
      <4>2. \A i \in 1 .. (N - 1) : spool_msgs'[i] # smsg[u] BY <3>1, <4>1
      <4>3. smsg'[s] # smsg[u] BY <2>2, <3>4
      <4>4. \A v \in Spoolers : smsg'[v] = smsg[u] => v = u BY <2>2, <4>1, <4>3
      <4> QED BY <4>1, <4>2, <4>4
    <3>9. \A u \in Spoolers : smsg'[u] = m => u = s BY <2>2, <3>4
    <3> HIDE <1>1
    <3>10. ASSUME NEW u \in Spoolers, smsg'[u] # NULL
           PROVE  /\ smsg'[u] \in acked' /\ smsg'[u] \in files'
                  /\ \A i \in DOMAIN spool_msgs' : spool_msgs'[i] # smsg'[u]
                  /\ \A v \in Spoolers : smsg'[v] = smsg'[u] => v = u
      <4>1. CASE u = s BY <2>1, <2>2, <3>0, <3>2, <3>3, <3>9, <4>1
      <4>2. CASE u # s BY <2>1, <2>2, <3>0, <3>8, <3>10, <4>2
      <4> QED BY <4>1, <4>2
    <3>11. \A u \in Spoolers : (smsg'[u] = NULL) = (spc'[u] = "wait") BY <2>2, <3>6 DEF Custody
    <3>12. \A u \in Spoolers : spc'[u] = "link" => rcpt'[u] # <<>> /\ Head(rcpt'[u]) \in Boxes
      BY <2>2 DEF Custody
    <3>13. \A u \in Spoolers : spc'[u] \in {"mx", "connect", "clear"} => rcpt'[u] = <<>>
      BY <2>2 DEF Custody
    <3> QED BY <2>1, <3>0, <3>5, <3>7, <3>10, <3>11, <3>12, <3>13 DEF Custody
  <2> QED BY <2>3, <2>4, <2>5, <2>6
<1>2. ASSUME ScanVirus(s) \/ Release(s) PROVE IInv'
  <2> USE <1>2 DEF ScanVirus, Release
  <2>0. /\ SpoolFrame /\ UNCHANGED <<boxVars, spool_msgs>>
        /\ files' = files \ {smsg[s]} /\ smsg' = [smsg EXCEPT ![s] = NULL]
        /\ spc' = [spc EXCEPT ![s] = "wait"] /\ spc[s] \in {"scan", "local"}
        /\ rcpt' = [rcpt EXCEPT ![s] = <<>>] \/ rcpt' = rcpt
    OBVIOUS
  <2> HIDE <1>2
  <2>1. /\ smsg'[s] = NULL /\ spc'[s] = "wait"
        /\ \A u \in Spoolers \ {s} : smsg'[u] = smsg[u] /\ spc'[u] = spc[u] /\ rcpt'[u] = rcpt[u]
    BY <2>0 DEF Types
  <2>2. smsg[s] # NULL /\ smsg[s] \in acked BY <2>0 DEF Custody
  <2>3. Types'
    <3>1. rcpt' \in [Spoolers -> Seq(Addresses)]
      <4>1. <<>> \in Seq(Addresses) OBVIOUS
      <4>2. rcpt \in [Spoolers -> Seq(Addresses)] BY DEF Types
      <4>3. [rcpt EXCEPT ![s] = <<>>] \in [Spoolers -> Seq(Addresses)] BY <4>1, <4>2
      <4> QED BY <2>0, <4>2, <4>3
    <3> QED BY <2>0, <3>1 DEF Types, SpoolFrame, connVars, smtpVars, popVars, boxVars
  <2>4. Sessions' /\ Trusted' BY <2>0, <2>2, SpoolFrameKeeps
  <2>5. Owned' /\ Listed' BY <2>0, <2>1, OutsideKeeps
  <2>6. Custody'
    <3>1. acked' = acked /\ spool_msgs' = spool_msgs BY <2>0 DEF SpoolFrame
    <3>2. \A m \in files : m # smsg[s] => m \in files' BY <2>0
    <3>3. \A i \in DOMAIN spool_msgs : spool_msgs[i] # smsg[s] BY <2>2 DEF Custody
    <3>4. \A u \in Spoolers \ {s} : smsg[u] # smsg[s] BY <2>2 DEF Custody
    <3> QED BY <2>1, <2>2, <3>1, <3>2, <3>3, <3>4 DEF Custody
  <2> QED BY <2>3, <2>4, <2>5, <2>6
<1>3. ASSUME BoxLock(s) PROVE IInv'
  <2> USE <1>3 DEF BoxLock, BoxFree
  <2> DEFINE b == Head(rcpt[s])
  <2>0. SpoolFrame /\ UNCHANGED <<box, smsg, rcpt, files, spool_msgs>> OBVIOUS
  <2>1. /\ spc'[s] = "link" /\ spc[s] = "local" /\ rcpt[s] # <<>> /\ b \in Boxes
        /\ mtx[b] = {} /\ mtx'[b] = {s}
        /\ \A u \in Spoolers \ {s} : spc'[u] = spc[u]
        /\ \A c \in Boxes \ {b} : mtx'[c] = mtx[c]
    BY DEF Types
  <2>2. Types' BY <2>1 DEF Types, SpoolFrame, connVars, smtpVars, popVars
  <2>3. Sessions' /\ Trusted' BY <2>0, SpoolFrameKeeps
  <2>4. Custody' BY <2>0, <2>1 DEF Custody, SpoolFrame
  <2> HIDE DEF b
  <2>5. Owned'
    <3>0. UNCHANGED <<kind, pstate, mbox, rcpt>> BY <2>0 DEF SpoolFrame, connVars, popVars
    <3>1. ASSUME NEW c \in Boxes
          PROVE  (mtx[c] = {u \in Pool : Pop(u) /\ pstate[u] = "tran" /\ mbox[u] = c}
                           \cup {u \in Spoolers : spc[u] = "link" /\ Head(rcpt[u]) = c})'
      <4>1. mtx[c] = {u \in Pool : Pop(u) /\ pstate[u] = "tran" /\ mbox[u] = c}
                     \cup {u \in Spoolers : spc[u] = "link" /\ Head(rcpt[u]) = c}
        BY DEF Owned, HoldersHold
      <4>2. CASE c = b BY <2>1, <3>0, <4>1, <4>2 DEF Pop, b
      <4>3. CASE c # b BY <2>1, <3>0, <4>1, <4>3 DEF Pop, b
      <4> QED BY <4>2, <4>3
    <3>2. \A c \in Boxes : \A x, y \in mtx'[c] : x = y BY <2>1 DEF Owned
    <3> QED BY <3>0, <3>1, <3>2 DEF Owned, HoldersHold, Pop
  <2>6. Listed' BY <2>0 DEF Listed, ViewIsStable, Pop, SpoolFrame, connVars, popVars
  <2> QED BY <2>2, <2>3, <2>4, <2>5, <2>6
<1>4. ASSUME BoxLink(s) PROVE IInv'
  <2> USE <1>4 DEF BoxLink
  <2> DEFINE b == Head(rcpt[s])
             m == smsg[s]
  <2>0. SpoolFrame /\ UNCHANGED <<smsg, files, spool_msgs>> OBVIOUS
  <2>1. /\ spc[s] = "link" /\ rcpt[s] # <<>> /\ b \in Boxes /\ m \in Msgs /\ m \in files /\ s \in mtx[b]
        /\ rcpt[s] \in Seq(Addresses)
    <3>1. spc[s] = "link" OBVIOUS
    <3>2. rcpt[s] # <<>> /\ b \in Boxes /\ m # NULL BY <3>1 DEF Custody
    <3>3. m \in Msgs /\ m \in files /\ rcpt[s] \in Seq(Addresses) BY <3>2 DEF Custody, Types
    <3>4. s \in mtx[b] BY <3>1, <3>2 DEF Owned, HoldersHold
    <3> QED BY <3>1, <3>2, <3>3, <3>4
  <2>2. /\ spc'[s] = "local" /\ mtx'[b] = {}
        /\ rcpt'[s] = Tail(rcpt[s]) /\ rcpt'[s] \in Seq(Addresses)
        /\ \A u \in Spoolers \ {s} : spc'[u] = spc[u] /\ rcpt'[u] = rcpt[u]
        /\ \A c \in Boxes \ {b} : mtx'[c] = mtx[c]
    BY <2>1 DEF Types, Owned
  <2>3. box' = [box EXCEPT ![b] = [box[b] EXCEPT ![m] = @ + 1]] /\ box[b] \in Copies
    BY <2>1 DEF Types
  <2>4. box' \in [Boxes -> Copies] /\ (\A c \in Boxes \ {b} : box'[c] = box[c])
    BY <2>1, <2>3 DEF Types, Copies
  <2>5. mtx' \in [Boxes -> SUBSET (Pool \cup Spoolers)] BY <2>1 DEF Types
  <2>6. rcpt' \in [Spoolers -> Seq(Addresses)] BY <2>2 DEF Types
  <2>7. Types'
    <3>1. spc' \in [Spoolers -> {"wait", "scan", "local", "link", "mx", "connect", "clear"}] BY DEF Types
    <3> HIDE <1>4
    <3> QED BY <2>0, <2>4, <2>5, <2>6, <3>1 DEF Types, SpoolFrame, connVars, smtpVars, popVars
  <2>8. Sessions' /\ Trusted' BY <2>0, SpoolFrameKeeps
  <2>9. Custody' BY <2>0, <2>1, <2>2 DEF Custody, SpoolFrame
  <2> HIDE DEF b
  <2> HIDE <1>4
  <2>10. UNCHANGED <<kind, pstate, mbox, msgs, del>> BY <2>0 DEF SpoolFrame, connVars, popVars
  <2>11. ASSUME NEW u \in Pool, Pop(u), pstate[u] = "tran" PROVE mbox[u] \in Boxes \ {b}
    BY <2>1, <2>11 DEF Owned, HoldersHold
  <2>12. \A u \in Spoolers : spc[u] = "link" /\ Head(rcpt[u]) = b => u = s
    BY <2>1 DEF Owned, HoldersHold
  <2>13. Owned'
    <3>1. ASSUME NEW c \in Boxes
          PROVE  (mtx[c] = {u \in Pool : Pop(u) /\ pstate[u] = "tran" /\ mbox[u] = c}
                           \cup {u \in Spoolers : spc[u] = "link" /\ Head(rcpt[u]) = c})'
      <4>1. mtx[c] = {u \in Pool : Pop(u) /\ pstate[u] = "tran" /\ mbox[u] = c}
                     \cup {u \in Spoolers : spc[u] = "link" /\ Head(rcpt[u]) = c}
        BY DEF Owned, HoldersHold
      <4>2. CASE c = b BY <2>2, <2>10, <2>11, <2>12, <4>2 DEF Pop
      <4>3. CASE c # b
        <5>1. \A u \in Spoolers : (spc[u] = "link" /\ Head(rcpt[u]) = c)' <=> spc[u] = "link" /\ Head(rcpt[u]) = c
          BY <2>1, <2>2, <4>3 DEF b
        <5> QED BY <2>2, <2>10, <4>1, <4>3, <5>1 DEF Pop
      <4> QED BY <4>2, <4>3
    <3>2. \A c \in Boxes : \A x, y \in mtx'[c] : x = y BY <2>2 DEF Owned
    <3> QED BY <2>10, <3>1, <3>2 DEF Owned, HoldersHold, Pop
  <2>14. Listed' BY <2>4, <2>10, <2>11 DEF Listed, ViewIsStable, Pop
  <2> QED BY <2>7, <2>8, <2>9, <2>13, <2>14
<1>5. ASSUME PutAside(s) PROVE IInv'
  <2> USE <1>5 DEF PutAside
  <2>0. SpoolFrame /\ UNCHANGED <<boxVars, spc, smsg, files, spool_msgs>> /\ spc[s] = "local" OBVIOUS
  <2>1. rcpt' \in [Spoolers -> Seq(Addresses)] /\ \A u \in Spoolers \ {s} : rcpt'[u] = rcpt[u]
    <3>1. rcpt[s] \in Seq(Addresses) /\ rcpt[s] # <<>> BY DEF Types
    <3>2. Tail(rcpt[s]) \in Seq(Addresses) BY <3>1
    <3> QED BY <3>2 DEF Types
  <2> HIDE <1>5
  <2>2. Types' BY <2>0, <2>1 DEF Types, SpoolFrame, connVars, smtpVars, popVars, boxVars
  <2>3. Sessions' /\ Trusted' BY <2>0, SpoolFrameKeeps
  <2>4. Custody' BY <2>0, <2>1 DEF Custody, SpoolFrame
  <2>5. Owned' /\ Listed' BY <2>0, <2>1, OutsideKeeps
  <2> QED BY <2>2, <2>3, <2>4, <2>5
<1>6. ASSUME ScanClean(s) \/ Group(s) \/ AskMx(s) \/ Refused(s) \/ Talk(s) \/ Clear(s) PROVE IInv'
  <2> USE <1>6 DEF ScanClean, Group, AskMx, Refused, Talk, Clear
  <2>0. /\ SpoolFrame /\ UNCHANGED <<boxVars, smsg, rcpt, files, spool_msgs>>
        /\ spc[s] \in {"scan", "local", "mx", "connect", "clear"}
        /\ \/ spc' = spc
           \/ spc' = [spc EXCEPT ![s] = "local"]
           \/ rcpt[s] = <<>> /\ \E p \in {"mx", "connect", "clear"} : spc' = [spc EXCEPT ![s] = p]
    BY DEF Custody
  <2> HIDE <1>6
  <2>1. \A u \in Spoolers : spc'[u] = spc[u] \/ (u = s /\ spc'[u] = "local")
                            \/ (u = s /\ rcpt[s] = <<>> /\ spc'[u] \in {"mx", "connect", "clear"})
    BY <2>0 DEF Types
  <2>2. Types' BY <2>0 DEF Types, SpoolFrame, connVars, smtpVars, popVars, boxVars
  <2>3. Sessions' /\ Trusted' BY <2>0, SpoolFrameKeeps
  <2>4. Custody' BY <2>0, <2>1 DEF Custody, SpoolFrame
  <2>5. Owned' /\ Listed' BY <2>0, <2>1, OutsideKeeps
  <2> QED BY <2>2, <2>3, <2>4, <2>5
<1> QED BY <1>1, <1>2, <1>3, <1>4, <1>5, <1>6 DEF Spooler

(* Every step of the pool, the spoolers and the network keeps the           *)
(* invariant.                                                               *)
LEMMA NextIInv == IInv /\ [Next]_vars => IInv'
<1> SUFFICES ASSUME IInv, [Next]_vars PROVE IInv' OBVIOUS
<1>1. CASE UNCHANGED vars
  <2> USE <1>1 DEF IInv, vars, connVars, smtpVars, popVars, boxVars, spoolVars, msgVars, histVars
  <2>1. Types' BY DEF Types
  <2>2. Sessions' /\ Trusted' /\ Custody' BY DEF Sessions, Trusted, Custody
  <2>3. Owned' /\ Listed' BY DEF Owned, Listed, HoldersHold, ViewIsStable, Pop
  <2> QED BY <2>1, <2>2, <2>3
<1>2. ASSUME NEW k \in {"smtp", "pop"}, Accept(k) PROVE IInv' BY <1>2, ConnectionIInv
<1>3. ASSUME NEW t \in Pool, Take(t) PROVE IInv' BY <1>3, ConnectionIInv
<1>4. ASSUME NEW t \in Pool, SmtpCommand(t) PROVE IInv' BY <1>4, SmtpIInv
<1>5. ASSUME NEW t \in Pool, PopCommand(t) PROVE IInv' BY <1>5, PopIInv
<1>6. ASSUME NEW s \in Spoolers, Spooler(s) PROVE IInv' BY <1>6, SpoolerIInv
<1> QED BY <1>1, <1>2, <1>3, <1>4, <1>5, <1>6 DEF Next

(* The invariant holds in every state of the mail server.                   *)
LEMMA MailInvariant == Spec => []IInv
<1>1. Init => IInv BY InitIInv
<1>2. IInv /\ [Next]_vars => IInv' BY NextIInv
<1> QED BY <1>1, <1>2, PTL DEF Spec

----------------------------------------------------------------------------
(* A mailbox is locked exactly by the session logged in to it or the        *)
(* spooler in it: QUIT, a timeout and a failed login all leave the mutex    *)
(* to whom it belongs.                                                      *)
THEOREM MailLocksAreHeld == Spec => []HoldersHold
<1>1. IInv => HoldersHold BY DEF IInv, Owned
<1> QED BY <1>1, MailInvariant, PTL

(* Every set of numbers has a smallest one.                                 *)
LEMMA LeastIn ==
    ASSUME NEW S \in SUBSET Nat, S # {}
    PROVE  \E x \in S : \A y \in S : x =< y
<1>1. PICK x \in S : \A y \in S : ~ (<<y, x>> \in OpToRel(<, Nat))
  BY NatLessThanWellFounded, WFMin
<1>2. ASSUME NEW y \in S PROVE x =< y
  <2>1. <<y, x>> \in Nat \X Nat /\ <<y, x>>[1] = y /\ <<y, x>>[2] = x OBVIOUS
  <2>2. ~ (y < x) BY <1>1, <2>1 DEF OpToRel
  <2> QED BY <2>2
<1> QED BY <1>2

(* The part of a list a spooler serves together, up to place j              *)
PartOf(f, q, R, j) ==
    f = [k \in 0 .. j |->
           IF k = 0 THEN <<>> ELSE IF q[k] \in R THEN Append(f[k - 1], q[k]) ELSE f[k - 1]]

(* There is such a part, and it is a list of members of the list.           *)
LEMMA PartExists ==
    ASSUME NEW T, NEW q \in Seq(T), NEW R, NEW j \in 0 .. Len(q)
    PROVE  \E f \in [0 .. j -> Seq(T)] : PartOf(f, q, R, j)
<1> DEFINE P(l) == \E f \in [0 .. l -> Seq(T)] : PartOf(f, q, R, l)
           S == {l \in 0 .. Len(q) : ~ P(l)}
<1> SUFFICES ASSUME S # {} PROVE FALSE OBVIOUS
<1>0. Len(q) \in Nat OBVIOUS
<1>1. PICK l \in S : \A y \in S : l =< y
  <2>1. S \in SUBSET Nat BY <1>0
  <2> HIDE DEF S
  <2> QED BY <2>1, LeastIn
<1>2. l \in 0 .. Len(q) /\ ~ P(l) BY <1>1
<1>3. P(0)
  <2>1. PICK f : f = [k \in 0 .. 0 |-> <<>>] OBVIOUS
  <2>2. <<>> \in Seq(T) OBVIOUS
  <2>3. f \in [0 .. 0 -> Seq(T)] BY <2>1, <2>2
  <2>4. PartOf(f, q, R, 0) BY <2>1 DEF PartOf
  <2> QED BY <2>3, <2>4
<1>4. l # 0 BY <1>2, <1>3
<1>5. l - 1 \in 0 .. Len(q) /\ l - 1 < l BY <1>0, <1>2, <1>4
<1>6. P(l - 1)
  <2> HIDE DEF P
  <2> QED BY <1>5, <1>1
<1>7. PICK f \in [0 .. l - 1 -> Seq(T)] : PartOf(f, q, R, l - 1) BY <1>6
<1>8. PICK g : g = [k \in 0 .. l |-> IF k = 0 THEN <<>>
                       ELSE IF q[k] \in R THEN Append(f[k - 1], q[k]) ELSE f[k - 1]]
  OBVIOUS
<1>9. \A k \in 0 .. l : k # 0 => k - 1 \in 0 .. l - 1 /\ k - 1 \in 0 .. l /\ k \in 1 .. Len(q)
  BY <1>0, <1>2
<1>10. \A k \in 0 .. l - 1 : g[k] = f[k]
  <2>1. \A k \in 0 .. l - 1 : k \in 0 .. l BY <1>0, <1>2
  <2> QED BY <1>7, <1>8, <2>1 DEF PartOf
<1>11. PartOf(g, q, R, l) BY <1>8, <1>9, <1>10 DEF PartOf
<1>12. ASSUME NEW k \in 0 .. l PROVE g[k] \in Seq(T)
  <2>1. CASE k = 0
    <3>1. <<>> \in Seq(T) OBVIOUS
    <3> QED BY <2>1, <3>1, <1>8
  <2>2. CASE k # 0
    <3>1. f[k - 1] \in Seq(T) /\ q[k] \in T BY <2>2, <1>9, <1>7
    <3>2. Append(f[k - 1], q[k]) \in Seq(T) BY <3>1
    <3> QED BY <2>2, <3>1, <3>2, <1>8
  <2> QED BY <2>1, <2>2
<1>13. g \in [0 .. l -> Seq(T)] BY <1>8, <1>12
<1> QED BY <1>2, <1>11, <1>13

(* Whom a spooler serves together are recipients it was to serve.           *)
LEMMA AmongType ==
    ASSUME NEW T, NEW q \in Seq(T), NEW R
    PROVE  Among(q, R) \in Seq(T)
<1> DEFINE upTo[k \in 0 .. Len(q)] ==
          IF k = 0 THEN <<>> ELSE IF q[k] \in R THEN Append(upTo[k - 1], q[k]) ELSE upTo[k - 1]
<1>1. Among(q, R) = upTo[Len(q)] BY DEF Among
<1>2. Len(q) \in Nat /\ Len(q) \in 0 .. Len(q) OBVIOUS
<1>3. PICK f \in [0 .. Len(q) -> Seq(T)] : PartOf(f, q, R, Len(q)) BY <1>2, PartExists
<1>4. f = [k \in 0 .. Len(q) |->
             IF k = 0 THEN <<>> ELSE IF q[k] \in R THEN Append(f[k - 1], q[k]) ELSE f[k - 1]]
  BY <1>3 DEF PartOf
<1>5. upTo = [k \in 0 .. Len(q) |->
             IF k = 0 THEN <<>> ELSE IF q[k] \in R THEN Append(upTo[k - 1], q[k]) ELSE upTo[k - 1]]
  BY <1>4, Zenon
<1> HIDE DEF upTo
<1>6. PICK g : g = upTo OBVIOUS
<1>7. PartOf(g, q, R, Len(q)) BY <1>5, <1>6 DEF PartOf
<1>8. ASSUME NEW j \in 0 .. Len(q) PROVE g[j] \in Seq(T)
  <2> DEFINE S == {k \in 0 .. Len(q) : g[k] \notin Seq(T)}
  <2> SUFFICES ASSUME S # {} PROVE FALSE OBVIOUS
  <2>1. PICK k \in S : \A y \in S : k =< y
    <3>1. S \in SUBSET Nat BY <1>2
    <3> HIDE DEF S
    <3> QED BY <3>1, LeastIn
  <2>2. k # 0
    <3>1. g[0] = <<>> BY <1>7, <1>2 DEF PartOf
    <3>2. <<>> \in Seq(T) OBVIOUS
    <3> QED BY <3>1, <3>2, <2>1
  <2>3. k \in 0 .. Len(q) /\ k - 1 \in 0 .. Len(q) /\ k - 1 < k /\ k \in 1 .. Len(q)
    BY <1>2, <2>1, <2>2
  <2>4. g[k - 1] \in Seq(T) BY <2>1, <2>3
  <2>5. g[k] = IF q[k] \in R THEN Append(g[k - 1], q[k]) ELSE g[k - 1]
    BY <1>7, <2>2, <2>3 DEF PartOf
  <2>6. g[k] \in Seq(T) BY <2>3, <2>4, <2>5
  <2> QED BY <2>1, <2>6
<1> QED BY <1>1, <1>2, <1>6, <1>8

(* The types of the recipients elsewhere and of the hosts to connect to;    *)
(* only messages that were accepted are found to carry a virus.             *)
Routed ==
    /\ crcpt \in [Spoolers -> Seq(Ext)] /\ group \in [Spoolers -> Seq(Ext)]
    /\ targets \in [Spoolers -> 0 .. MaxTargets]
    /\ blocked \subseteq acked

(* Spoolers keep them.                                                      *)
LEMMA RoutedInv == Spec => []Routed
<1>1. Init => Routed
  <2>1. <<>> \in Seq(Ext) OBVIOUS
  <2> QED BY <2>1, MailAssumption DEF Init, Routed
<1>2. IInv /\ Routed /\ [Next]_vars => Routed'
  <2> SUFFICES ASSUME IInv, Routed, [Next]_vars PROVE Routed' OBVIOUS
  <2> USE MailAssumption
  <2> DEFINE Kept == UNCHANGED <<crcpt, group, targets, blocked>> /\ acked \subseteq acked'
  <2>1. ASSUME Kept PROVE Routed' BY <2>1 DEF Routed
  <2>2. ASSUME NEW s \in Spoolers, PutAside(s) PROVE Routed'
    <3>1. rcpt[s] \in Seq(Addresses) /\ rcpt[s] # <<>> /\ Head(rcpt[s]) \in Ext
      BY <2>2 DEF PutAside, IInv, Types
    <3>2. PICK q \in Seq(Ext) : q = <<Head(rcpt[s])>> \o crcpt[s]
      <4>1. crcpt[s] \in Seq(Ext) BY DEF Routed
      <4>2. <<Head(rcpt[s])>> \in Seq(Ext) BY <3>1
      <4>3. <<Head(rcpt[s])>> \o crcpt[s] \in Seq(Ext) BY <4>1, <4>2
      <4> QED BY <4>3
    <3>3. crcpt' = [crcpt EXCEPT ![s] = q] BY <2>2, <3>2 DEF PutAside
    <3> QED BY <2>2, <3>3 DEF PutAside, Routed, SpoolFrame
  <2>3. ASSUME NEW s \in Spoolers, Group(s) PROVE Routed'
    <3>1. crcpt[s] \in Seq(Ext) BY DEF Routed
    <3>2. PICK a : a = {r \in Ext : Domain[r] = Domain[Head(crcpt[s])]} OBVIOUS
    <3>3. PICK b : b = {r \in Ext : Domain[r] # Domain[Head(crcpt[s])]} OBVIOUS
    <3>4. PICK p \in Seq(Ext) : p = Among(crcpt[s], a) BY <3>1, AmongType
    <3>5. PICK q \in Seq(Ext) : q = Among(crcpt[s], b) BY <3>1, AmongType
    <3>6. group' = [group EXCEPT ![s] = p] /\ crcpt' = [crcpt EXCEPT ![s] = q] /\ UNCHANGED <<targets, acked, blocked>>
      BY <2>3, <3>2, <3>3, <3>4, <3>5 DEF Group, SpoolFrame
    <3> QED BY <3>6 DEF Routed
  <2>4. ASSUME NEW s \in Spoolers, AskMx(s) \/ Refused(s) \/ Clear(s) PROVE Routed'
    <3>1. <<>> \in Seq(Ext) OBVIOUS
    <3>2. CASE AskMx(s)
      <4>1. ASSUME NEW n \in 1 .. MaxTargets, targets' = [targets EXCEPT ![s] = n] PROVE Routed'
        BY <3>2, <4>1 DEF AskMx, Routed, SpoolFrame
      <4>2. CASE UNCHANGED targets BY <3>2, <4>2 DEF AskMx, Routed, SpoolFrame
      <4> QED BY <3>2, <4>1, <4>2 DEF AskMx
    <3>3. CASE Refused(s) BY <3>3 DEF Refused, FewerTargets, Routed, SpoolFrame
    <3>4. CASE Clear(s) BY <3>1, <3>4 DEF Clear, Routed, SpoolFrame
    <3> QED BY <2>4, <3>2, <3>3, <3>4
  <2>5. ASSUME NEW s \in Spoolers,
               Fetch(s) \/ ScanClean(s) \/ BoxLock(s) \/ BoxLink(s) \/ Talk(s) \/ Release(s)
        PROVE  Kept
    BY <2>5 DEF Fetch, ScanClean, BoxLock, BoxLink, Talk, Release, SpoolFrame
  <2>12. ASSUME NEW s \in Spoolers, ScanVirus(s) PROVE Routed'
    <3>1. smsg[s] \in acked
      BY <2>12 DEF ScanVirus, IInv, Custody, Types
    <3> QED BY <2>12, <3>1 DEF ScanVirus, SpoolFrame, Routed
  <2>6. ASSUME NEW t \in Pool, SmtpCommand(t) PROVE Kept
    <3>1. CASE Helo(t) BY <3>1 DEF Helo, SmtpFrame, spoolVars, msgVars
    <3>2. CASE HeloShort(t) BY <3>2 DEF HeloShort, SmtpFrame, spoolVars, msgVars
    <3>3. CASE Mail(t) BY <3>3 DEF Mail, SmtpFrame, spoolVars, msgVars
    <3>4. CASE DataBegin(t) BY <3>4 DEF DataBegin, SmtpFrame, spoolVars, msgVars
    <3>5. CASE DataEnd(t) BY <3>5 DEF DataEnd, SmtpFrame, spoolVars, msgVars
    <3>6. CASE RcptCrash(t) BY <3>6 DEF RcptCrash, SmtpFrame, spoolVars, msgVars
    <3>7. CASE Rset(t) BY <3>7 DEF Rset, SmtpFrame, spoolVars, msgVars
    <3>8. CASE Auth(t) BY <3>8 DEF Auth, SmtpFrame, spoolVars, msgVars
    <3>9. CASE SmtpEnd(t) BY <3>9 DEF SmtpEnd, SmtpFrame, spoolVars, histVars
    <3>10. ASSUME NEW r, Rcpt(t, r) PROVE Kept BY <3>10 DEF Rcpt, SmtpFrame, spoolVars
    <3> HIDE DEF Kept
    <3> QED BY <2>6, <3>1, <3>2, <3>3, <3>4, <3>5, <3>6, <3>7, <3>8, <3>9, <3>10 DEF SmtpCommand
  <2>7. ASSUME NEW t \in Pool, PopCommand(t) PROVE Kept
    BY <2>7 DEF PopCommand, User, Login, LoginFails, Dele, PopRset, PopQuit, PopEnd, PopFrame, spoolVars, msgVars
  <2>8. ASSUME NEW t \in Pool, Take(t) PROVE Kept
    BY <2>8 DEF Take, spoolVars, msgVars
  <2>9. ASSUME NEW k, Accept(k) PROVE Kept
    BY <2>9 DEF Accept, spoolVars, msgVars, histVars
  <2>10. CASE UNCHANGED vars BY <2>1, <2>10 DEF vars, spoolVars, msgVars, histVars
  <2>11. ASSUME NEW s \in Spoolers, Spooler(s) PROVE Routed'
    BY <2>1, <2>2, <2>3, <2>4, <2>5, <2>11, <2>12 DEF Spooler
  <2> QED BY <2>1, <2>6, <2>7, <2>8, <2>9, <2>10, <2>11 DEF Next
<1> QED BY <1>1, <1>2, MailInvariant, PTL DEF Spec

(* Every variable of the mail server has its type, and mailboxes are locked *)
(* by those who are in them.                                                *)
THEOREM MailLocksAreOwned == Spec => []LocksAreOwned
<1>1. IInv /\ Routed => LocksAreOwned
  <2> SUFFICES ASSUME IInv, Routed PROVE LocksAreOwned OBVIOUS
  <2>1. /\ {rcpt[s] : s \in Spoolers} \subseteq Seq(Boxes \cup Ext)
        /\ {crcpt[s] : s \in Spoolers} \cup {group[s] : s \in Spoolers} \subseteq Seq(Ext)
    BY DEF IInv, Types, Routed, Addresses
  <2>2. TypeOK BY <2>1 DEF IInv, Types, Routed, TypeOK
  <2> QED BY <2>2 DEF IInv, Owned, LocksAreOwned
<1> QED BY <1>1, MailInvariant, RoutedInv, PTL

(* Nothing is added to or removed from a mailbox while a POP3 session has   *)
(* it listed.                                                               *)
THEOREM MailViewIsStable == Spec => []ViewIsStable
<1>1. IInv => ViewIsStable BY DEF IInv, Listed
<1> QED BY <1>1, MailInvariant, PTL

(* No acknowledged message names a recipient elsewhere unless its sender    *)
(* gave a password on the same connection.                                  *)
THEOREM MailNoStrangerRelays == Spec => []NoStrangerRelays
<1>1. IInv => NoStrangerRelays BY DEF IInv, Types, Trusted, NoStrangerRelays
<1> QED BY <1>1, MailInvariant, PTL

----------------------------------------------------------------------------
(* How often a recipient is named in a list.                                *)
LEMMA OccursIs ==
    ASSUME NEW R, NEW q \in Seq(R), NEW r
    PROVE  /\ Occurs(r, q) \in Nat
           /\ q = <<>> => Occurs(r, q) = 0
           /\ q # <<>> => Occurs(r, q) = Occurs(r, Tail(q)) + (IF Head(q) = r THEN 1 ELSE 0)
<1> DEFINE n == Len(q)
           D == {k \in 1 .. n : q[k] = r}
<1>1. n \in Nat /\ DOMAIN q = 1 .. n OBVIOUS
<1>2. IsFiniteSet(1 .. n) BY <1>1, FS_Interval
<1>3. IsFiniteSet(D) /\ Cardinality(D) \in Nat
  <2>1. D \in SUBSET (1 .. n) OBVIOUS
  <2>2. IsFiniteSet(D)
    <3> HIDE DEF D, n
    <3> QED BY <1>2, <2>1, FS_Subset
  <2> QED BY <2>2, FS_CardinalityType
<1>4. Occurs(r, q) = Cardinality(D) BY <1>1 DEF Occurs
<1>5. q = <<>> => D = {} BY <1>1
<1>6. ASSUME q # <<>>
      PROVE  Occurs(r, q) = Occurs(r, Tail(q)) + (IF Head(q) = r THEN 1 ELSE 0)
  <2> DEFINE T == Tail(q)
             E == {k \in 1 .. (n - 1) : T[k] = r}
             f == [k \in E |-> k + 1]
             F == D \ {1}
  <2>1. /\ n > 0 /\ DOMAIN T = 1 .. (n - 1) /\ Head(q) = q[1]
        /\ \A k \in 1 .. (n - 1) : T[k] = q[k + 1]
    BY <1>6
  <2>2. Occurs(r, T) = Cardinality(E) BY <2>1 DEF Occurs
  <2>3. f \in Bijection(E, F)
    <3> HIDE DEF T
    <3>1. \A k \in E : k + 1 \in F BY <1>1, <2>1
    <3>2. \A j \in F : j - 1 \in E /\ (j - 1) + 1 = j BY <1>1, <2>1
    <3>3. \A j, k \in E : j + 1 = k + 1 => j = k OBVIOUS
    <3> HIDE DEF E, F
    <3>4. f \in Injection(E, F) BY <3>1, <3>3 DEF Injection, IsInjective
    <3>5. f \in Surjection(E, F) BY <3>1, <3>2 DEF Surjection
    <3> QED BY <3>4, <3>5 DEF Bijection
  <2>4. IsFiniteSet(E)
    <3>1. IsFiniteSet(1 .. (n - 1)) /\ E \in SUBSET (1 .. (n - 1))
      <4>1. n - 1 \in Int BY <1>1
      <4> QED BY <4>1, FS_Interval
    <3> HIDE DEF E
    <3> QED BY <3>1, FS_Subset
  <2>5. Cardinality(F) = Cardinality(E)
    <3> HIDE DEF E, F, f
    <3> QED BY <2>3, <2>4, FS_Bijection DEF ExistsBijection
  <2>6. Cardinality(F) = IF 1 \in D THEN Cardinality(D) - 1 ELSE Cardinality(D)
    <3> HIDE DEF D
    <3> QED BY <1>3, FS_RemoveElement
  <2>7. 1 \in D <=> Head(q) = r BY <1>1, <2>1
  <2> HIDE DEF D, E, F, T, f
  <2>8. Occurs(r, q) = Occurs(r, T) + (IF Head(q) = r THEN 1 ELSE 0)
    BY <1>3, <1>4, <2>2, <2>5, <2>6, <2>7
  <2> QED BY <2>8 DEF T
<1>7. q = <<>> => Occurs(r, q) = 0
  <2> HIDE DEF D
  <2> QED BY <1>4, <1>5, FS_EmptySet
<1>8. Occurs(r, q) \in Nat
  <2> HIDE DEF D
  <2> QED BY <1>3, <1>4
<1> QED BY <1>6, <1>7, <1>8

(* The copies of a message that are still to be put into a mailbox, by      *)
(* where the message is.                                                    *)
PendingIs ==
    \A m \in Msgs, b \in Boxes :
        /\ (\E i \in DOMAIN spool_msgs : spool_msgs[i] = m) => Pending(m, b) = Occurs(b, to[m])
        /\ \A s \in Spoolers : smsg[s] = m => Pending(m, b) = Occurs(b, rcpt[s])
        /\ (/\ \A i \in DOMAIN spool_msgs : spool_msgs[i] # m
            /\ \A s \in Spoolers : smsg[s] # m) => Pending(m, b) = 0

(* The copies of a message still to be delivered are those of its           *)
(* recipients in the queue or at the spooler that has it.                   *)
LEMMA PendingFollows == IInv => PendingIs
<1> SUFFICES ASSUME IInv, NEW m \in Msgs, NEW b \in Boxes
             PROVE  /\ (\E i \in DOMAIN spool_msgs : spool_msgs[i] = m) => Pending(m, b) = Occurs(b, to[m])
                    /\ \A s \in Spoolers : smsg[s] = m => Pending(m, b) = Occurs(b, rcpt[s])
                    /\ (/\ \A i \in DOMAIN spool_msgs : spool_msgs[i] # m
                        /\ \A s \in Spoolers : smsg[s] # m) => Pending(m, b) = 0
  BY DEF PendingIs
<1>1. m \in ToSet(spool_msgs) <=> \E i \in DOMAIN spool_msgs : spool_msgs[i] = m BY DEF ToSet
<1>2. ASSUME NEW s \in Spoolers, smsg[s] = m PROVE Pending(m, b) = Occurs(b, rcpt[s])
  <2>1. smsg[s] # NULL BY <1>2, MailAssumption
  <2>2. /\ \A i \in DOMAIN spool_msgs : spool_msgs[i] # m
        /\ \A u \in Spoolers : smsg[u] = m => u = s
    BY <1>2, <2>1 DEF IInv, Custody
  <2>3. {x \in Spoolers : smsg[x] = m} = {s} BY <1>2, <2>2
  <2>4. m \notin ToSet(spool_msgs) BY <1>1, <2>2
  <2>5. (CHOOSE x \in {s} : TRUE) = s OBVIOUS
  <2> QED BY <2>3, <2>4, <2>5 DEF Pending
<1>3. (\E i \in DOMAIN spool_msgs : spool_msgs[i] = m) => Pending(m, b) = Occurs(b, to[m])
  BY <1>1 DEF Pending
<1>4. (/\ \A i \in DOMAIN spool_msgs : spool_msgs[i] # m
       /\ \A s \in Spoolers : smsg[s] # m) => Pending(m, b) = 0
  <2> SUFFICES ASSUME \A i \in DOMAIN spool_msgs : spool_msgs[i] # m, \A s \in Spoolers : smsg[s] # m
               PROVE  Pending(m, b) = 0
    OBVIOUS
  <2>1. {x \in Spoolers : smsg[x] = m} = {} OBVIOUS
  <2> QED BY <1>1, <2>1 DEF Pending
<1> QED BY <1>2, <1>3, <1>4

(* A message that was not acknowledged is nowhere.                          *)
LEMMA NotAccepted ==
    ASSUME IInv, PendingIs, NEW m \in Msgs, m \notin acked, NEW b \in Boxes
    PROVE  Pending(m, b) = 0
<1>1. \A i \in DOMAIN spool_msgs : spool_msgs[i] # m BY DEF IInv, Custody
<1>2. \A s \in Spoolers : smsg[s] # m BY MailAssumption DEF IInv, Custody
<1> QED BY <1>1, <1>2 DEF PendingIs

(* What a spooler does with its message is nothing to another one.          *)
LEMMA Elsewhere ==
    ASSUME PendingIs, PendingIs', NEW s \in Spoolers, UNCHANGED <<spool_msgs, to>>,
           \A u \in Spoolers \ {s} : smsg'[u] = smsg[u] /\ rcpt'[u] = rcpt[u],
           NEW m \in Msgs, smsg[s] # m, smsg'[s] # m, NEW b \in Boxes
    PROVE  Pending(m, b)' = Pending(m, b)
<1>1. CASE \E i \in DOMAIN spool_msgs : spool_msgs[i] = m BY <1>1 DEF PendingIs
<1>2. ASSUME NEW u \in Spoolers, smsg[u] = m PROVE Pending(m, b)' = Pending(m, b)
  <2>1. u # s /\ smsg'[u] = m /\ rcpt'[u] = rcpt[u] BY <1>2
  <2>2. Pending(m, b) = Occurs(b, rcpt[u]) BY <1>2 DEF PendingIs
  <2>3. Pending(m, b)' = Occurs(b, rcpt[u])' BY <2>1 DEF PendingIs
  <2> QED BY <2>1, <2>2, <2>3 DEF Occurs
<1>3. CASE (\A i \in DOMAIN spool_msgs : spool_msgs[i] # m) /\ (\A u \in Spoolers : smsg[u] # m)
  <2>1. \A u \in Spoolers : smsg'[u] # m BY <1>3
  <2> QED BY <1>3, <2>1 DEF PendingIs
<1> QED BY <1>1, <1>2, <1>3

(* The equation that MailConserved states of a message and a mailbox.       *)
Balanced(m, b) ==
    box[b][m] + gone[b][m] + Pending(m, b) = IF m \in acked THEN Occurs(b, to[m]) ELSE 0

(* Counts are natural numbers.                                              *)
LEMMA Counts ==
    ASSUME IInv, PendingIs, NEW m \in Msgs, NEW b \in Boxes
    PROVE  box[b][m] \in Nat /\ gone[b][m] \in Nat /\ Pending(m, b) \in Nat
<1>1. box[b][m] \in Nat /\ gone[b][m] \in Nat BY DEF IInv, Types, Copies
<1>2. CASE \E i \in DOMAIN spool_msgs : spool_msgs[i] = m
  <2>1. to[m] \in Seq(Addresses) BY DEF IInv, Types
  <2>2. Occurs(b, to[m]) \in Nat BY <2>1, OccursIs
  <2> QED BY <1>1, <1>2, <2>2 DEF PendingIs
<1>3. ASSUME NEW u \in Spoolers, smsg[u] = m PROVE Pending(m, b) \in Nat
  <2>1. rcpt[u] \in Seq(Addresses) BY DEF IInv, Types
  <2>2. Occurs(b, rcpt[u]) \in Nat BY <2>1, OccursIs
  <2> QED BY <1>3, <2>2 DEF PendingIs
<1>4. CASE (\A i \in DOMAIN spool_msgs : spool_msgs[i] # m) /\ (\A u \in Spoolers : smsg[u] # m)
  <2>1. Pending(m, b) = 0 BY <1>4 DEF PendingIs
  <2> QED BY <1>1, <2>1
<1> QED BY <1>1, <1>2, <1>3, <1>4

(* A session's part in the balance: RCPT adds to a message that is not      *)
(* acknowledged, DATA puts it on the stack, QUIT deletes copies.            *)
LEMMA SessionBalances ==
    ASSUME IInv, IInv', PendingIs, PendingIs', MailConserved, NEW t \in Pool,
           SmtpCommand(t) \/ PopCommand(t) \/ Take(t)
    PROVE  MailConserved'
<1> USE MailAssumption
<1> SUFFICES ASSUME NEW m \in Msgs, m \notin blocked, NEW b \in Boxes
             PROVE  Balanced(m, b)'
  <2>1. blocked' = blocked
    BY DEF SmtpCommand, PopCommand, Take, Helo, HeloShort, Mail, Rcpt, DataBegin, DataEnd, RcptCrash, Rset,
           Auth, SmtpEnd, SmtpFrame, histVars, User, Login, LoginFails, Dele, PopRset, PopQuit, PopEnd, PopFrame
  <2> QED BY <2>1 DEF MailConserved, Balanced
<1>b. Balanced(m, b) BY DEF MailConserved, Balanced
<1>0. ASSUME UNCHANGED <<boxVars, gone, spoolVars, spool_msgs, to, acked>> PROVE Balanced(m, b)'
  BY <1>0, <1>b DEF Balanced, Pending, Occurs, boxVars, spoolVars
<1>1. CASE Take(t) BY <1>0, <1>1 DEF Take, msgVars
<1>2. CASE Helo(t) \/ HeloShort(t) \/ Mail(t) \/ DataBegin(t) \/ RcptCrash(t) \/ Rset(t) \/ Auth(t) \/ SmtpEnd(t)
  BY <1>0, <1>2 DEF Helo, HeloShort, Mail, DataBegin, RcptCrash, Rset, Auth, SmtpEnd, SmtpFrame, msgVars, histVars
<1>3. ASSUME NEW r \in Boxes \cup Ext, Rcpt(t, r) PROVE Balanced(m, b)'
  <2>0. UNCHANGED <<boxVars, gone, spoolVars, spool_msgs, acked>> /\ msg[t] \in Msgs
        /\ to' = [to EXCEPT ![msg[t]] = <<r>> \o @]
    BY <1>3 DEF Rcpt, SmtpFrame, IInv, Types
  <2>1. CASE m = msg[t]
    <3>1. m \notin acked /\ m \notin acked' BY <2>0, <2>1 DEF IInv, Sessions
    <3>2. Pending(m, b) = 0 /\ Pending(m, b)' = 0
      <4>1. Pending(m, b) = 0 BY <3>1, NotAccepted
      <4>2. \A i \in DOMAIN spool_msgs' : spool_msgs'[i] # m BY <3>1 DEF IInv, Custody
      <4>3. \A s \in Spoolers : smsg'[s] # m BY <3>1 DEF IInv, Custody
      <4> QED BY <4>1, <4>2, <4>3 DEF PendingIs
    <3> QED BY <1>b, <2>0, <3>1, <3>2 DEF Balanced, boxVars
  <2>2. CASE m # msg[t]
    <3>1. to'[m] = to[m] BY <2>0, <2>2 DEF IInv, Types
    <3>3. Occurs(b, to[m])' = Occurs(b, to[m]) BY <3>1 DEF Occurs
    <3>5. UNCHANGED <<spool_msgs, smsg, rcpt>> BY <2>0 DEF spoolVars
    <3>2. Pending(m, b)' = Pending(m, b)
      <4>1. CASE \E i \in DOMAIN spool_msgs : spool_msgs[i] = m BY <3>3, <3>5, <4>1 DEF PendingIs
      <4>2. ASSUME NEW u \in Spoolers, smsg[u] = m PROVE Pending(m, b)' = Pending(m, b)
        <5>1. Pending(m, b) = Occurs(b, rcpt[u]) /\ Pending(m, b)' = Occurs(b, rcpt[u])'
          BY <3>5, <4>2 DEF PendingIs
        <5> QED BY <3>5, <5>1 DEF Occurs
      <4>3. CASE (\A i \in DOMAIN spool_msgs : spool_msgs[i] # m) /\ (\A u \in Spoolers : smsg[u] # m)
        BY <3>5, <4>3 DEF PendingIs
      <4> QED BY <4>1, <4>2, <4>3
    <3>4. box' = box /\ gone' = gone /\ acked' = acked BY <2>0 DEF boxVars
    <3> QED BY <1>b, <3>2, <3>3, <3>4 DEF Balanced
  <2> QED BY <2>1, <2>2
<1>4. CASE DataEnd(t)
  <2>0. /\ UNCHANGED <<boxVars, gone, spoolVars, to>> /\ spool_msgs' = <<msg[t]>> \o spool_msgs
        /\ acked' = acked \cup {msg[t]} /\ msg[t] \in Msgs /\ msg[t] \notin acked /\ spool_msgs \in Seq(Msgs)
    BY <1>4 DEF DataEnd, SmtpFrame, IInv, Types, Sessions
  <2>1. CASE m = msg[t]
    <3>1. Pending(m, b) = 0 BY <2>0, <2>1, NotAccepted
    <3>2. box[b][m] = 0 /\ gone[b][m] = 0
      <4>1. box[b][m] \in Nat /\ gone[b][m] \in Nat BY Counts
      <4> QED BY <1>b, <2>0, <2>1, <3>1, <4>1 DEF Balanced
    <3>3. 1 \in DOMAIN spool_msgs' /\ spool_msgs'[1] = m BY <2>0, <2>1
    <3>4. Pending(m, b)' = Occurs(b, to[m])' BY <3>3 DEF PendingIs
    <3>5. m \in acked' /\ Pending(m, b)' \in Nat /\ box' = box /\ gone' = gone
      <4>1. Pending(m, b)' \in Nat
        <5>1. to[m] \in Seq(Addresses) BY DEF IInv, Types
        <5>2. Occurs(b, to[m]) \in Nat BY <5>1, OccursIs
        <5>3. Occurs(b, to[m])' = Occurs(b, to[m]) BY <2>0 DEF Occurs
        <5> QED BY <3>4, <5>2, <5>3
      <4> QED BY <2>0, <2>1, <4>1 DEF boxVars
    <3> QED BY <3>2, <3>4, <3>5 DEF Balanced
  <2>2. CASE m # msg[t]
    <3>1. m \in ToSet(spool_msgs') <=> m \in ToSet(spool_msgs)
      <4>1. /\ \A i \in DOMAIN spool_msgs : i + 1 \in DOMAIN spool_msgs' /\ spool_msgs'[i + 1] = spool_msgs[i]
            /\ \A i \in DOMAIN spool_msgs' : i = 1 \/ (i - 1 \in DOMAIN spool_msgs /\ spool_msgs'[i] = spool_msgs[i - 1])
            /\ spool_msgs'[1] = msg[t]
        BY <2>0
      <4> QED BY <2>2, <4>1 DEF ToSet
    <3>2. Pending(m, b)' = Pending(m, b) BY <2>0, <3>1 DEF Pending, Occurs, spoolVars
    <3> QED BY <1>b, <2>0, <2>2, <3>2 DEF Balanced, Occurs, boxVars
  <2> QED BY <2>1, <2>2
<1>5. CASE User(t) \/ (\E c \in Boxes : Login(t, c)) \/ (\E c \in Boxes \cup {NULL} : LoginFails(t, c))
           \/ (\E n \in Msgs : Dele(t, n)) \/ PopRset(t) \/ PopEnd(t) \/ (PopQuit(t) /\ pstate[t] # "tran")
  <2>1. UNCHANGED <<box, gone, smsg, rcpt, spool_msgs, to, acked>>
    BY <1>5 DEF User, Login, LoginFails, Dele, PopRset, PopEnd, PopQuit, PopFrame, boxVars, spoolVars, msgVars
  <2> QED BY <1>b, <2>1 DEF Balanced, Pending, Occurs
<1>6. CASE PopQuit(t) /\ pstate[t] = "tran"
  <2>0. UNCHANGED <<spoolVars, spool_msgs, to, acked>> /\ Pop(t) BY <1>6 DEF PopQuit, PopFrame, msgVars
  <2>1. /\ box' = [box EXCEPT ![mbox[t]] = [n \in Msgs |-> box[mbox[t]][n] - del[t][n]]]
        /\ gone' = [gone EXCEPT ![mbox[t]] = [n \in Msgs |-> gone[mbox[t]][n] + del[t][n]]]
    <3>1. mbox[t] \in Boxes BY <1>6, <2>0 DEF IInv, Owned
    <3> QED BY <1>6, <3>1 DEF PopQuit, IInv, Types
  <2>2. box[b][m] \in Nat /\ gone[b][m] \in Nat /\ del[t][m] \in Nat BY DEF IInv, Types, Copies
  <2>3. box'[b][m] + gone'[b][m] = box[b][m] + gone[b][m]
    <3>1. CASE b = mbox[t]
      <4>1. box'[b][m] = box[b][m] - del[t][m] /\ gone'[b][m] = gone[b][m] + del[t][m]
        BY <2>1, <3>1 DEF IInv, Types
      <4> QED BY <2>2, <4>1
    <3>2. CASE b # mbox[t] BY <2>1, <3>2 DEF IInv, Types
    <3> QED BY <3>1, <3>2
  <2>4. Pending(m, b)' = Pending(m, b) BY <2>0 DEF Pending, Occurs, spoolVars
  <2> QED BY <1>b, <2>0, <2>3, <2>4 DEF Balanced, Occurs
<1> QED BY <1>1, <1>2, <1>3, <1>4, <1>5, <1>6 DEF SmtpCommand, PopCommand

(* A spooler's part: it takes the message from the stack with all its       *)
(* recipients and gives each mailbox its copies.                            *)
LEMMA SpoolerBalances ==
    ASSUME IInv, IInv', PendingIs, PendingIs', MailConserved, NEW s \in Spoolers, Spooler(s)
    PROVE  MailConserved'
<1> USE MailAssumption
<1> SUFFICES ASSUME NEW m \in Msgs, m \notin blocked', NEW b \in Boxes
             PROVE  Balanced(m, b)'
  BY DEF MailConserved, Balanced
<1>a. m \notin blocked /\ UNCHANGED <<to, acked, gone>>
  BY DEF Spooler, Fetch, ScanVirus, ScanClean, BoxLock, BoxLink, PutAside, Group, AskMx, Refused, Talk, Clear,
         Release, SpoolFrame, boxVars
<1>b. Balanced(m, b) BY <1>a DEF MailConserved, Balanced
<1>0. ASSUME UNCHANGED box, Pending(m, b)' = Pending(m, b) PROVE Balanced(m, b)'
  BY <1>0, <1>a, <1>b DEF Balanced, Occurs
<1>1. CASE ScanClean(s) \/ BoxLock(s) \/ Group(s) \/ AskMx(s) \/ Refused(s) \/ Talk(s) \/ Clear(s)
  <2>1. UNCHANGED <<box, smsg, rcpt, spool_msgs>>
    BY <1>1 DEF ScanClean, BoxLock, Group, AskMx, Refused, Talk, Clear, boxVars
  <2>2. Pending(m, b)' = Pending(m, b) BY <1>a, <2>1 DEF Pending, Occurs
  <2> QED BY <1>0, <2>1, <2>2
<1>2. CASE Fetch(s)
  <2> DEFINE N == Len(spool_msgs)
             h == Head(spool_msgs)
  <2>0. box' = box /\ spool_msgs \in Seq(Msgs) /\ spool_msgs # <<>> /\ spool_msgs' = Tail(spool_msgs)
    BY <1>2 DEF Fetch, boxVars, IInv, Types
  <2>1. /\ N \in Nat /\ N > 0 /\ DOMAIN spool_msgs = 1 .. N /\ 1 \in 1 .. N /\ h = spool_msgs[1]
        /\ DOMAIN spool_msgs' = 1 .. (N - 1)
        /\ \A i \in 1 .. (N - 1) : i + 1 \in 1 .. N /\ spool_msgs'[i] = spool_msgs[i + 1]
        /\ \A i \in 1 .. N : i = 1 \/ (i - 1 \in 1 .. (N - 1) /\ spool_msgs'[i - 1] = spool_msgs[i])
    BY <2>0
  <2>2. /\ smsg[s] = NULL /\ smsg'[s] = h /\ rcpt'[s] = to[h]
        /\ \A u \in Spoolers \ {s} : smsg'[u] = smsg[u] /\ rcpt'[u] = rcpt[u]
    BY <1>2 DEF Fetch, IInv, Types, Custody
  <2> HIDE DEF h, N
  <2>3. CASE m = h
    <3>1. Pending(m, b) = Occurs(b, to[m]) BY <2>1, <2>3 DEF PendingIs
    <3>2. Pending(m, b)' = Occurs(b, rcpt[s])' BY <2>2, <2>3 DEF PendingIs
    <3>3. Occurs(b, rcpt[s])' = Occurs(b, to[m]) BY <2>2, <2>3 DEF Occurs
    <3> QED BY <1>0, <2>0, <3>1, <3>2, <3>3
  <2>4. CASE m # h
    <3>1. CASE \E i \in DOMAIN spool_msgs : spool_msgs[i] = m
      <4>1. \E i \in DOMAIN spool_msgs' : spool_msgs'[i] = m BY <2>1, <2>4, <3>1
      <4>2. Pending(m, b)' = Occurs(b, to[m])' BY <4>1 DEF PendingIs
      <4>3. Pending(m, b) = Occurs(b, to[m]) BY <3>1 DEF PendingIs
      <4> QED BY <1>0, <1>a, <2>0, <4>2, <4>3 DEF Occurs
    <3>2. ASSUME NEW u \in Spoolers, smsg[u] = m PROVE Balanced(m, b)'
      <4>1. u # s /\ smsg'[u] = m /\ rcpt'[u] = rcpt[u] BY <2>2, <3>2
      <4>2. Pending(m, b) = Occurs(b, rcpt[u]) BY <3>2 DEF PendingIs
      <4>3. Pending(m, b)' = Occurs(b, rcpt[u])' BY <4>1 DEF PendingIs
      <4> QED BY <1>0, <2>0, <4>1, <4>2, <4>3 DEF Occurs
    <3>3. CASE (\A i \in DOMAIN spool_msgs : spool_msgs[i] # m) /\ (\A u \in Spoolers : smsg[u] # m)
      <4>1. \A i \in DOMAIN spool_msgs' : spool_msgs'[i] # m BY <2>1, <3>3
      <4>2. \A u \in Spoolers : smsg'[u] # m BY <2>2, <2>4, <3>3
      <4>3. Pending(m, b)' = 0 /\ Pending(m, b) = 0 BY <3>3, <4>1, <4>2 DEF PendingIs
      <4> QED BY <1>0, <2>0, <4>3
    <3> QED BY <3>1, <3>2, <3>3
  <2> QED BY <2>3, <2>4
<1>3. CASE ScanVirus(s) \/ Release(s)
  <2>0. /\ UNCHANGED <<box, spool_msgs>> /\ smsg'[s] = NULL /\ smsg[s] # NULL
        /\ \A u \in Spoolers \ {s} : smsg'[u] = smsg[u] /\ rcpt'[u] = rcpt[u]
    <3>1. /\ UNCHANGED <<box, spool_msgs>> /\ smsg' = [smsg EXCEPT ![s] = NULL] /\ spc[s] # "wait"
          /\ rcpt' = rcpt \/ rcpt' = [rcpt EXCEPT ![s] = <<>>]
      BY <1>3 DEF ScanVirus, Release, boxVars
    <3>2. smsg \in [Spoolers -> Msgs \cup {NULL}] /\ rcpt \in [Spoolers -> Seq(Addresses)]
      BY DEF IInv, Types
    <3>3. smsg[s] # NULL BY <3>1 DEF IInv, Custody
    <3> QED BY <3>1, <3>2, <3>3
  <2>1. CASE m # smsg[s]
    <3>1. Pending(m, b)' = Pending(m, b) BY <1>a, <2>0, <2>1, Elsewhere
    <3> QED BY <1>0, <2>0, <3>1
  <2>2. CASE m = smsg[s]
    <3>1. Release(s) /\ rcpt[s] = <<>> BY <1>3, <2>2 DEF ScanVirus, Release
    <3>2. Pending(m, b) = Occurs(b, rcpt[s]) BY <2>2 DEF PendingIs
    <3>3. rcpt[s] \in Seq(Addresses) BY DEF IInv, Types
    <3>4. Pending(m, b) = 0 BY <3>1, <3>2, <3>3, OccursIs
    <3>5. \A i \in DOMAIN spool_msgs' : spool_msgs'[i] # m BY <2>0, <2>2 DEF IInv, Custody
    <3>6. \A u \in Spoolers : smsg'[u] # m BY <2>0, <2>2 DEF IInv, Custody
    <3>7. Pending(m, b)' = 0 BY <3>5, <3>6 DEF PendingIs
    <3> QED BY <1>0, <2>0, <3>4, <3>7
  <2> QED BY <2>1, <2>2
<1>4. CASE BoxLink(s) \/ PutAside(s)
  <2> DEFINE h == Head(rcpt[s])
  <2>0. /\ UNCHANGED <<smsg, spool_msgs>> /\ rcpt[s] \in Seq(Addresses) /\ rcpt[s] # <<>>
        /\ rcpt'[s] = Tail(rcpt[s]) /\ smsg[s] # NULL /\ smsg[s] \in Msgs /\ smsg[s] \in files
        /\ \A u \in Spoolers \ {s} : rcpt'[u] = rcpt[u]
    BY <1>4 DEF BoxLink, PutAside, boxVars, IInv, Types, Custody
  <2>1. /\ BoxLink(s) => h \in Boxes /\ box' = [box EXCEPT ![h][smsg[s]] = @ + 1]
        /\ PutAside(s) => h \notin Boxes /\ box' = box
    BY <1>4, <2>0 DEF BoxLink, PutAside, boxVars, IInv, Custody
  <2>4. BoxLink(s) => box' = [box EXCEPT ![h] = [box[h] EXCEPT ![smsg[s]] = box[h][smsg[s]] + 1]]
    BY <2>1 DEF IInv, Types
  <2>5. box \in [Boxes -> Copies] /\ \A c \in Boxes : box[c] \in [Msgs -> Nat] BY DEF IInv, Types, Copies
  <2>6. /\ BoxLink(s) => /\ h \in Boxes
                         /\ box'[h] = [box[h] EXCEPT ![smsg[s]] = box[h][smsg[s]] + 1]
                         /\ \A c \in Boxes \ {h} : box'[c] = box[c]
        /\ PutAside(s) => h \notin Boxes /\ box' = box
    BY <2>1, <2>4, <2>5
  <2> HIDE DEF h
  <2>2. CASE m # smsg[s]
    <3>1. Pending(m, b)' = Pending(m, b) BY <1>a, <2>0, <2>2, Elsewhere
    <3>2. box'[b][m] = box[b][m] BY <1>4, <2>2, <2>5, <2>6
    <3> QED BY <1>a, <1>b, <3>1, <3>2 DEF Balanced, Occurs
  <2>3. CASE m = smsg[s]
    <3>1. Pending(m, b) = Occurs(b, rcpt[s]) BY <2>3 DEF PendingIs
    <3>2. Pending(m, b)' = Occurs(b, rcpt[s])' BY <2>0, <2>3 DEF PendingIs
    <3>3. Occurs(b, rcpt[s])' = Occurs(b, Tail(rcpt[s])) BY <2>0 DEF Occurs
    <3>4. /\ Pending(m, b) = Pending(m, b)' + (IF h = b THEN 1 ELSE 0)
          /\ Pending(m, b)' \in Nat
      <4>1. Tail(rcpt[s]) \in Seq(Addresses) BY <2>0
      <4>2. Occurs(b, Tail(rcpt[s])) \in Nat BY <4>1, OccursIs
      <4>3. Occurs(b, rcpt[s]) = Occurs(b, Tail(rcpt[s])) + (IF Head(rcpt[s]) = b THEN 1 ELSE 0)
        BY <2>0, OccursIs
      <4> QED BY <3>1, <3>2, <3>3, <4>2, <4>3 DEF h
    <3>5. box[b][m] \in Nat /\ gone[b][m] \in Nat BY Counts
    <3>6. box'[b][m] = box[b][m] + (IF h = b THEN 1 ELSE 0)
      BY <1>4, <2>0, <2>3, <2>5, <2>6, <3>5
    <3>7. box'[b][m] + gone'[b][m] + Pending(m, b)' = box[b][m] + gone[b][m] + Pending(m, b)
      BY <1>a, <3>4, <3>5, <3>6
    <3> QED BY <1>a, <1>b, <3>7 DEF Balanced, Occurs
  <2> QED BY <2>2, <2>3
<1> QED BY <1>1, <1>2, <1>3, <1>4 DEF Spooler

(* Every RCPT for a mailbox of an acknowledged message is one copy: still   *)
(* to be delivered, delivered, or deleted by its owner.                     *)
THEOREM MailIsConserved == Spec => []MailConserved
<1>1. Init => MailConserved
  <2> SUFFICES ASSUME Init, NEW m \in Msgs, NEW b \in Boxes PROVE Balanced(m, b)
    BY DEF MailConserved, Balanced
  <2>1. IInv BY InitIInv
  <2>2. PendingIs BY <2>1, PendingFollows
  <2>3. Pending(m, b) = 0 BY <2>1, <2>2, NotAccepted DEF Init
  <2> QED BY <2>3 DEF Balanced, Init, None
<1>2. IInv /\ IInv' /\ PendingIs /\ PendingIs' /\ MailConserved /\ [Next]_vars => MailConserved'
  <2> SUFFICES ASSUME IInv, IInv', PendingIs, PendingIs', MailConserved, [Next]_vars PROVE MailConserved'
    OBVIOUS
  <2>1. CASE UNCHANGED vars \/ \E k \in {"smtp", "pop"} : Accept(k)
    <3>1. UNCHANGED <<box, gone, smsg, rcpt, spool_msgs, to, acked, blocked>>
      BY <2>1 DEF vars, Accept, boxVars, spoolVars, msgVars, histVars
    <3> SUFFICES ASSUME NEW m \in Msgs, m \notin blocked, NEW b \in Boxes
                 PROVE  (box[b][m] + gone[b][m] + Pending(m, b) = IF m \in acked THEN Occurs(b, to[m]) ELSE 0)'
      BY <3>1 DEF MailConserved
    <3>2. box[b][m] + gone[b][m] + Pending(m, b) = IF m \in acked THEN Occurs(b, to[m]) ELSE 0
      BY DEF MailConserved
    <3>3. Pending(m, b)' = Pending(m, b) BY <3>1 DEF Pending, Occurs
    <3>4. Occurs(b, to[m])' = Occurs(b, to[m]) BY <3>1 DEF Occurs
    <3> QED BY <3>1, <3>2, <3>3, <3>4
  <2>2. ASSUME NEW t \in Pool, Take(t) \/ SmtpCommand(t) \/ PopCommand(t) PROVE MailConserved'
    BY <2>2, SessionBalances
  <2>3. ASSUME NEW s \in Spoolers, Spooler(s) PROVE MailConserved' BY <2>3, SpoolerBalances
  <2> QED BY <2>1, <2>2, <2>3 DEF Next
<1> QED BY <1>1, <1>2, MailInvariant, PendingFollows, PTL DEF Spec
=============================================================================
