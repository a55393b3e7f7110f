------------------------------- MODULE BEntry -------------------------------
(***************************************************************************)
(* BEntry (src/src/bentry.h, bentry.cc), the B-level entry of the combo-  *)
(* tree (the bentry_t of BLevel when POINTER_BENTRY and NO_ENTRY_BUF are  *)
(* undefined, blevel.h 24-32): an entry_key, a KVBuffer write buffer      *)
(* (src/src/kvbuffer.h) and a CLevel B+-tree the buffer spills into.     *)
(*                                                                         *)
(* An entry value is [key |-> entry_key, buf |-> [rec |-> slot -> record, *)
(* n |-> entries], root |-> the CLevel root, or Nil before Setup].  The   *)
(* KVBuffer is the unsorted one (BUF_SORT undefined): Put appends, Find   *)
(* scans from the last slot down, Delete moves the last record into the  *)
(* hole.  The buffer and the tree nodes are both 112-byte arrays of       *)
(* 8-byte values, so both hold MaxEntries records.                        *)
(***************************************************************************)
EXTENDS CLevel

(* KVBuffer::Find: the last of slots 0 .. entries - 1 holding the key,   *)
(* else entries.                                                          *)
KFind(b, t) ==
    LET hits == {i \in 0..b.n - 1 : b.rec[i].k = t}
    IN  IF hits = {} THEN [pos |-> b.n, found |-> FALSE]
        ELSE [pos |-> Max(hits), found |-> TRUE]

(* The records a buffer holds, in slot order. *)
Live(b) == [i \in 1..b.n |-> b.rec[i - 1]]

(* KVBuffer::Put(entries, key, value): the record goes to slot entries. *)
KPut(b, key, val) == [rec |-> [b.rec EXCEPT ![b.n] = Rec(key, val)], n |-> b.n + 1]

(* Mutant: the hole is not filled with the last record. *)
KDeleteNoMove(b, pos) == [b EXCEPT !.n = @ - 1]

(* KVBuffer::Delete: unless pos is the last slot, the last record is     *)
(* copied into pos; entries--.  The last slot keeps its bytes.           *)
KDelete(b, pos) == [rec |-> [b.rec EXCEPT ![pos] = b.rec[b.n - 1]], n |-> b.n - 1]

(* A zeroed buffer (a new PM file); Clear only sets entries to 0. *)
ZeroBuf == [rec |-> [i \in 0..MaxEntries - 1 |-> Rec(0, 0)], n |-> 0]

(* The constructor BEntry(key, prefix_len, mem) over zeroed PM: an empty *)
(* buffer and a CLevel whose root_ is null.                              *)
NewEntry(key) == [key |-> key, buf |-> ZeroBuf, root |-> Nil]

(* CLevel::Put of the buffer's records, slot 0 first. *)
RECURSIVE PutAll(_, _, _, _), PutAllNext(_, _, _)
PutAll(m, root, buf, i) ==
    IF i > Len(buf) THEN [m |-> m, root |-> root]
    ELSE PutAllNext(CPut(m, root, buf[i].k, buf[i].v), buf, i)

PutAllNext(r, buf, i) == PutAll(r.m, r.root, buf, i + 1)

(* FlushToCLevel: the first flush sets the tree up from the buffer       *)
(* (Setup), later ones Put every record into it; then Clear empties the   *)
(* buffer.                                                               *)
Cleared(r, e) == [m |-> r.m, e |-> [e EXCEPT !.buf.n = 0, !.root = r.root]]

Flush(m, e) ==
    Cleared(IF e.root = Nil THEN CSetup(m, Live(e.buf)) ELSE PutAll(m, e.root, Live(e.buf), 1), e)

(* Put: the buffer is flushed when it is full, or one short of full      *)
(* while the tree is not set up yet (so that Setup leaves the leaf room); *)
(* then the record is appended, with no look for the key.                *)
Appended(r, key, val) == [m |-> r.m, e |-> [r.e EXCEPT !.buf = KPut(@, key, val)]]

EPut(m, e, key, val) ==
    Appended(IF (e.root = Nil /\ e.buf.n = MaxEntries - 1) \/ e.buf.n >= MaxEntries
             THEN Flush(m, e) ELSE [m |-> m, e |-> e], key, val)

(* Get: the buffer first, then the tree if it is set up. *)
EGet(m, e, key, notFound) ==
    LET f == KFind(e.buf, key)
    IN  IF f.found THEN e.buf.rec[f.pos].v
        ELSE IF e.root # Nil THEN CGet(m, e.root, key, notFound)
        ELSE notFound

WithEntry(u, e) == [ok |-> u.ok, m |-> u.m, e |-> e]

(* Update: KVBuffer::Update in the buffer, else CLevel::Update; with no  *)
(* tree it is assert(0) and false in a release build.                    *)
EUpdate(m, e, key, val) ==
    LET f == KFind(e.buf, key)
    IN  IF f.found THEN [ok |-> TRUE, m |-> m, e |-> [e EXCEPT !.buf.rec[f.pos].v = val]]
        ELSE IF e.root # Nil THEN WithEntry(CUpdate(m, e.root, key, val), e)
        ELSE [ok |-> FALSE, m |-> m, e |-> e]

(* Delete: KVBuffer::Delete in the buffer, else CLevel::Delete (which    *)
(* reports true), else false.                                            *)
EDelete(m, e, key) ==
    LET f == KFind(e.buf, key)
    IN  IF f.found THEN [ok |-> TRUE, m |-> m, e |-> [e EXCEPT !.buf = KDelete(@, f.pos)]]
        ELSE IF e.root # Nil THEN [ok |-> TRUE, m |-> CDelete(m, e.root, key), e |-> e]
        ELSE [ok |-> FALSE, m |-> m, e |-> e]

=============================================================================
