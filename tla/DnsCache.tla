------------------------------ MODULE DnsCache ------------------------------
(***************************************************************************)
(* The cache of QX-dns (cache.c): an array of records, each the answer to  *)
(* a question with its number of hits and the time it expires.             *)
(*                                                                         *)
(* Both functions run under cache_rwlock as a whole; now is the time the   *)
(* datagram was received, not the time of the lookup.                      *)
(***************************************************************************)
EXTENDS Integers, Sequences
LOCAL INSTANCE FiniteSetsExt
LOCAL INSTANCE SequencesExt

CONSTANTS CacheMAX, CacheTTL

ASSUME CacheAssumption == CacheMAX \in Nat \ {0} /\ CacheTTL \in Nat

Record(x, now) == [question |-> x, expires |-> now + CacheTTL, hits |-> 1]

Outdated(rec, now) == rec.expires < now

(* The candidate for replacement, as the loop over the records finds it:    *)
(* fewer hits win, and among equals the record that expires earlier         *)
Better_slip(r, c) == r.hits <= c.hits
Better(r, c) == r.hits < c.hits \/ (r.hits = c.hits /\ r.expires <= c.expires)

Candidate(cache) ==
    FoldLeft(LAMBDA c, i : IF c = 0 THEN i ELSE IF Better(cache[i], cache[c]) THEN i ELSE c,
             0, [i \in 1 .. Len(cache) |-> i])

(* qxdns_cache_add: the first expired record is replaced, else there is     *)
(* room at the end, else the candidate goes                                 *)
CacheAdd(cache, x, now) ==
    LET expired == {i \in DOMAIN cache : Outdated(cache[i], now)}
    IN IF expired # {} THEN [cache EXCEPT ![Min(expired)] = Record(x, now)]
       ELSE IF Len(cache) < CacheMAX THEN Append(cache, Record(x, now))
       ELSE [cache EXCEPT ![Candidate(cache)] = Record(x, now)]

(* qxdns_cache_lookup compares the names and nothing else *)
CacheHits(cache, x, now) ==
    {i \in DOMAIN cache : ~Outdated(cache[i], now) /\ cache[i].question.name = x.name}

CacheHit(cache, x, now) == Min(CacheHits(cache, x, now))
=============================================================================
