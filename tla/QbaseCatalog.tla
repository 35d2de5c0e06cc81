---------------------------- MODULE QbaseCatalog ----------------------------
(***************************************************************************)
(* The tables of the Qbase server as a whole (QX-base): the doubly linked  *)
(* list Tables of those in memory, their reference counts, the table each  *)
(* connection has selected, and the header and data files.                 *)
(*                                                                         *)
(* TBLSELECT, TBLCREATE and the end of a connection change them under      *)
(* tables_mutex, one at a time.  TBLCREATE takes one step per file, so     *)
(* that the server can die in between.  What a table holds is the set of   *)
(* its primary keys; QbaseTable has its pages in detail.                   *)
(***************************************************************************)
EXTENDS Integers, FiniteSets

CONSTANTS Connections,    \* clients (OCBs)
          Names,          \* names of tables
          Copies,         \* blocks of memory a table can be loaded into, numbered
          NULL,           \* the null pointer
          CatalogSetups   \* those of Connections and Names in use, and bounds on the rows of
                          \* a table, the creations with too few pages and the crashes

ASSUME CatalogAssumption ==
    /\ IsFiniteSet(Connections) /\ IsFiniteSet(Copies)
    /\ Copies \subseteq Nat /\ NULL \notin Copies \cup Names
    /\ Cardinality(Copies) > Cardinality(Connections)    \* a select loads before it releases
    /\ CatalogSetups \subseteq [clients : SUBSET Connections, names : SUBSET Names,
                                rows : Nat, refused : Nat, deaths : Nat]

VARIABLES
    bounds,   \* the member of CatalogSetups this behaviour has; never changes
    db,       \* Tables (the list), tbl (the copies in memory), disk (the files)
    conn,     \* per client: Table, and the table its Filters were defined for
    busy,     \* the creation between two writes of files
    acked,    \* history: per table, the rows acknowledged and not lost with a crash
    torn,     \* history: the list was emptied although it had tables
    refused, deaths

catalogVars == <<bounds, db, conn, busy, acked, torn, refused, deaths>>

Free == [Name |-> NULL, locks |-> 0, Next |-> NULL, Prev |-> NULL,
         Index |-> 0, rows |-> {}, DFile |-> FALSE]
NoFile == [head |-> "absent", Index |-> 0, rows |-> {}, body |-> FALSE]
Unselected == [Table |-> NULL, Filters |-> NULL]
NoCreation == [step |-> "none"]

CatalogInit ==
    /\ bounds \in CatalogSetups
    /\ db = [Tables |-> NULL, tbl |-> [k \in Copies |-> Free], disk |-> [n \in Names |-> NoFile]]
    /\ conn = [c \in Connections |-> Unselected]
    /\ busy = NoCreation
    /\ acked = [n \in Names |-> {}] /\ torn = FALSE
    /\ refused = 0 /\ deaths = 0

Loaded == {k \in Copies : db.tbl[k].Name # NULL}

(* malloc: which free block it is does not matter *)
Block(d) == CHOOSE k \in Copies :
               d.tbl[k].Name = NULL /\ \A l \in Copies : d.tbl[l].Name = NULL => k <= l

(* The tables met on the way along Next, at most as many as there are *)
Walk(d) ==
    LET at[i \in 0 .. Cardinality(Copies)] ==
            IF i = 0 THEN d.Tables
            ELSE IF at[i - 1] = NULL THEN NULL ELSE d.tbl[at[i - 1]].Next
    IN at

Listed(d) == {Walk(d)[i] : i \in DOMAIN Walk(d)} \ {NULL}

Found(n) == {k \in Listed(db) : db.tbl[k].Name = n}

----------------------------------------------------------------------------
(* Qbase_TableSync of t; without a data file its rows are written nowhere *)
Written(disk, t) ==
    [disk EXCEPT ![t.Name].Index = t.Index, ![t.Name].rows = IF t.DFile THEN t.rows ELSE @]

(* Qbase_TableRelease *)
Release(d, k) ==
    LET t == d.tbl[k]
        around == [i \in Copies |->
                     IF i = t.Prev THEN [d.tbl[i] EXCEPT !.Next = t.Next]
                     ELSE IF i = t.Next THEN [d.tbl[i] EXCEPT !.Prev = t.Prev]
                     ELSE d.tbl[i]]
    IN [Tables |-> IF t.Prev = NULL THEN t.Next ELSE d.Tables,
        tbl |-> [around EXCEPT ![k] = Free],
        disk |-> Written(d.disk, t)]

(* A connection leaves the table it has selected *)
Leave(d, k) ==
    LET e == [d EXCEPT !.tbl[k].locks = @ - 1]
    IN CASE k = NULL -> d
         [] k # NULL /\ e.tbl[k].locks > 0 -> e
         [] k # NULL /\ e.tbl[k].locks = 0 -> Release(e, k)

(* The old head of the list points back to the new one *)
Behind_slip(t, k) == t
Behind(t, k) == [t EXCEPT !.Prev = k]

Link(d, k, t) ==
    [d EXCEPT !.Tables = k,
              !.tbl = [i \in Copies |->
                         IF i = k THEN [t EXCEPT !.Next = d.Tables, !.Prev = NULL]
                         ELSE IF i = d.Tables THEN Behind(d.tbl[i], k) ELSE d.tbl[i]]]

Read(n) ==
    [Free EXCEPT !.Name = n, !.locks = 1, !.Index = db.disk[n].Index,
                 !.rows = db.disk[n].rows, !.DFile = db.disk[n].body]

----------------------------------------------------------------------------
NotCreating == busy = NoCreation

(* TBLSELECT of a table in memory; of the one already selected it does nothing *)
SelectLoaded(c) ==
    /\ NotCreating
    /\ \E n \in bounds.names, k \in Copies :
         /\ k \in Found(n) /\ conn[c].Table # k
         /\ db' = [Leave(db, conn[c].Table) EXCEPT !.tbl[k].locks = @ + 1]
         /\ conn' = [conn EXCEPT ![c] = [Table |-> k, Filters |-> NULL]]
    /\ UNCHANGED <<busy, acked, torn, refused, deaths>>

(* TBLSELECT of a table that has a header file: linked, then the old one left *)
SelectFile(c) ==
    /\ NotCreating
    /\ \E n \in bounds.names : LET k == Block(db) IN
         /\ Found(n) = {} /\ db.disk[n].head = "full"
         /\ db' = Leave(Link(db, k, Read(n)), conn[c].Table)
         /\ conn' = [conn EXCEPT ![c] = [Table |-> k, Filters |-> NULL]]
    /\ UNCHANGED <<busy, acked, torn, refused, deaths>>

(* Qbase_TableRelease of a table that was never linked: Tables = Next, which *)
(* is NULL.  Its other pointers were never set; that the server survives to  *)
(* follow them is one of the outcomes, the other one is ServerDies.          *)
ReleaseUnlinked ==
    /\ db' = [db EXCEPT !.Tables = NULL]
    /\ torn' = (torn \/ db.Tables # NULL)
    /\ UNCHANGED <<conn, busy, acked, deaths>>

(* TBLSELECT of a table with an empty header file *)
SelectEmpty(c) ==
    /\ NotCreating
    /\ \E n \in bounds.names : Found(n) = {} /\ db.disk[n].head = "empty"
    /\ ReleaseUnlinked
    /\ UNCHANGED refused

(* TBLCREATE with fewer than 3 pages: QBASE_E_FEWPLOCKS *)
CreateRefused(c) ==
    /\ NotCreating /\ refused < bounds.refused
    /\ \E n \in bounds.names : db.disk[n].head = "absent"
    /\ refused' = refused + 1
    /\ ReleaseUnlinked

(* TBLCREATE: the header file, the header, the data file with the first page *)
CreateBegin(c) ==
    /\ NotCreating
    /\ \E n \in bounds.names :
         /\ db.disk[n].head = "absent"
         /\ db' = [db EXCEPT !.disk[n].head = "empty"]
         /\ busy' = [step |-> "head", c |-> c, name |-> n]
    /\ UNCHANGED <<conn, acked, torn, refused, deaths>>

CreateHead ==
    /\ busy.step = "head"
    /\ db' = [db EXCEPT !.disk[busy.name].head = "full"]
    /\ busy' = [busy EXCEPT !.step = "body"]
    /\ UNCHANGED <<conn, acked, torn, refused, deaths>>

(* The old table is left, then the new one linked *)
CreateEnd ==
    /\ busy.step = "body"
    /\ LET old == Leave([db EXCEPT !.disk[busy.name].body = TRUE], conn[busy.c].Table)
           k == Block(old)
           t == [Free EXCEPT !.Name = busy.name, !.locks = 1, !.DFile = TRUE]
       IN /\ db' = Link(old, k, t)
          /\ conn' = [conn EXCEPT ![busy.c] = [Table |-> k, Filters |-> NULL]]
    /\ busy' = NoCreation
    /\ UNCHANGED <<acked, torn, refused, deaths>>

(* Qbase_OCB_free *)
Close(c) ==
    /\ NotCreating /\ conn[c].Table # NULL
    /\ db' = Leave(db, conn[c].Table)
    /\ conn' = [conn EXCEPT ![c] = Unselected]
    /\ UNCHANGED <<busy, acked, torn, refused, deaths>>

(* FLTRDEFINE: the filter refers to the fields of the table selected *)
DefineFilter(c) ==
    /\ NotCreating /\ conn[c].Table # NULL
    /\ conn' = [conn EXCEPT ![c].Filters = db.tbl[conn[c].Table].Name]
    /\ UNCHANGED <<db, busy, acked, torn, refused, deaths>>

(* An insert; if the last page is full, everything before it is written first *)
InsertRow(c) ==
    /\ NotCreating /\ conn[c].Table # NULL
    /\ LET k == conn[c].Table
           t == db.tbl[k]
       IN /\ t.Index < bounds.rows
          /\ \E disk \in {db.disk, Written(db.disk, t)} :
               db' = [db EXCEPT !.disk = disk,
                                !.tbl[k] = [t EXCEPT !.Index = @ + 1, !.rows = @ \cup {t.Index + 1}]]
          /\ acked' = [acked EXCEPT ![t.Name] = @ \cup {t.Index + 1}]
    /\ UNCHANGED <<conn, busy, torn, refused, deaths>>

Flush(c) ==
    /\ NotCreating /\ conn[c].Table # NULL
    /\ db' = [db EXCEPT !.disk = Written(@, db.tbl[conn[c].Table])]
    /\ UNCHANGED <<conn, busy, acked, torn, refused, deaths>>

ServerDies ==
    /\ deaths < bounds.deaths
    /\ deaths' = deaths + 1
    /\ db' = [db EXCEPT !.Tables = NULL, !.tbl = [k \in Copies |-> Free]]
    /\ conn' = [c \in Connections |-> Unselected]
    /\ busy' = NoCreation
    /\ acked' = [n \in Names |-> db.disk[n].rows] /\ torn' = FALSE
    /\ UNCHANGED refused

CatalogStep ==
    \/ \E c \in bounds.clients :
          \/ SelectLoaded(c) \/ SelectFile(c) \/ SelectEmpty(c)
          \/ CreateRefused(c) \/ CreateBegin(c) \/ Close(c)
          \/ DefineFilter(c) \/ InsertRow(c) \/ Flush(c)
    \/ CreateHead \/ CreateEnd \/ ServerDies

CatalogNext == CatalogStep /\ UNCHANGED bounds

CatalogSpec == CatalogInit /\ [][CatalogNext]_catalogVars

----------------------------------------------------------------------------
(* A table counts the connections that have selected it, is in memory as    *)
(* long as there is one, and no filter outlives the table it refers to.     *)
LocksCountUsers ==
    /\ \A k \in Copies : db.tbl[k].locks = Cardinality({c \in Connections : conn[c].Table = k})
    /\ Loaded = {conn[c].Table : c \in Connections} \ {NULL}
    /\ \A c \in Connections : conn[c].Filters # NULL =>
         conn[c].Table # NULL /\ db.tbl[conn[c].Table].Name = conn[c].Filters

(* Each table in memory is in the list, once, and no other has its name *)
ListIsWhole ==
    /\ Listed(db) = Loaded /\ Walk(db)[Cardinality(Loaded)] = NULL
    /\ \A k, l \in Loaded : (k # l => db.tbl[k].Name # db.tbl[l].Name)

(* Tables that were created completely keep every row that was             *)
(* acknowledged, in memory or in their files, whoever selects, creates and *)
(* leaves tables in whatever order.  A creation that is refused, or an     *)
(* empty header file, ends that: the list is emptied, tables in use are    *)
(* loaded a second time, and the copies overwrite each other.              *)
NothingMislaid ==
    \A n \in Names : db.disk[n].body =>
        acked[n] = IF \E k \in Loaded : db.tbl[k].Name = n
                     THEN db.tbl[CHOOSE k \in Loaded : db.tbl[k].Name = n].rows
                     ELSE db.disk[n].rows

TablesAreWhole == LocksCountUsers /\ (~torn => ListIsWhole /\ NothingMislaid)
=============================================================================
