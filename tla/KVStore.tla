------------------------------ MODULE KVStore ------------------------------
(***************************************************************************)
(* What a letree promises its callers (spec.md, the key-value interface): *)
(* a map from keys to values on which                                     *)
(*   Put(k, v)    makes k map to v (insert or overwrite) and succeeds,    *)
(*   Get(k)       returns the value of k, or NotFound,                    *)
(*   Update(k, v) overwrites the value of a present key, else fails,      *)
(*   Delete(k)    removes a present key, else fails,                      *)
(*   BulkLoad(S, f) makes the map exactly f on the keys of S (spec.md,   *)
(*                property 8: bulk_load(S) then get(k) returns the       *)
(*                loaded value),                                          *)
(*   Scan(k, len) returns the first len pairs whose key is >= k, in      *)
(*                ascending key order (spec.md, properties 7 and seed    *)
(*                scenario 4: "30 consecutive pairs starting at key 250"). *)
(* ret records the result of the last operation, so that a refinement     *)
(* also constrains what Get, Update and Delete report.                    *)
(***************************************************************************)
EXTENDS Naturals, SequencesExt

CONSTANTS Keys, Vals, NotFound

VARIABLES dict, ret

vars == <<dict, ret>>

Ops == {"none", "put", "get", "upd", "del", "scan", "load"}

Result(op, k, res) == [op |-> op, k |-> k, res |-> res]

TypeOK ==
    /\ dict \in [Keys -> Vals \cup {NotFound}]
    /\ ret \in [op : Ops, k : Keys \cup {0}, res : Vals \cup {NotFound, TRUE, FALSE}]

Init ==
    /\ dict = [k \in Keys |-> NotFound]
    /\ ret = Result("none", 0, NotFound)

Put(k, v) ==
    /\ dict' = [dict EXCEPT ![k] = v]
    /\ ret' = Result("put", k, TRUE)

Get(k) ==
    /\ ret' = Result("get", k, dict[k])
    /\ UNCHANGED dict

Update(k, v) ==
    /\ dict' = IF dict[k] # NotFound THEN [dict EXCEPT ![k] = v] ELSE dict
    /\ ret' = Result("upd", k, dict[k] # NotFound)

Delete(k) ==
    /\ dict' = [dict EXCEPT ![k] = NotFound]
    /\ ret' = Result("del", k, dict[k] # NotFound)

(* The pairs a scan from k returns: the present keys >= k in ascending    *)
(* order, each with its value, at most len of them.                       *)
ScanOf(d, k, len) ==
    LET ks == SetToSortSeq({x \in Keys : x >= k /\ d[x] # NotFound}, <)
    IN  [i \in 1..Min({len, Len(ks)}) |-> <<ks[i], d[ks[i]]>>]

(* The lengths a caller may ask for: beyond the number of keys they all  *)
(* return every key.                                                      *)
ScanLens == 1..Cardinality(Keys) + 1

Scan(k, len) ==
    /\ ret' = Result("scan", k, ScanOf(dict, k, len))
    /\ UNCHANGED dict

BulkLoad(S, f) ==
    /\ dict' = [k \in Keys |-> IF k \in S THEN f[k] ELSE NotFound]
    /\ ret' = Result("load", 0, TRUE)

Next ==
    \/ \E S \in SUBSET Keys : \E f \in [S -> Vals] : BulkLoad(S, f)
    \/ \E k \in Keys, len \in ScanLens : Scan(k, len)
    \/ \E k \in Keys :
        \/ Get(k)
        \/ Delete(k)
        \/ \E v \in Vals : Put(k, v) \/ Update(k, v)

Spec == Init /\ [][Next]_vars

=============================================================================
