----------------------------- MODULE MC_ALevel -----------------------------
(***************************************************************************)
(* ALevel routing over every BLevel an Expansion can write with keys up to *)
(* RouteMaxKey: entry 0 keyed 0 and up to RouteMaxLen - 1 more entries     *)
(* with increasing keys, under each span of RouteSpans.  Each input is an  *)
(* initial state of rt; nothing changes it.                                *)
(***************************************************************************)
EXTENDS Integers, FiniteSetsExt, SequencesExt

CONSTANTS RouteMaxKey, RouteMaxLen, RouteSpans

VARIABLE rt

AL(s) == INSTANCE ALevel WITH Span <- s

(* The entries_ arrays: <<0>> followed by the sorted keys of a set. *)
EntryArrays ==
    {[i \in 1..Cardinality(S) + 1 |-> [key |-> (<<0>> \o SetToSortSeq(S, <))[i]]] :
        S \in {T \in SUBSET (1..RouteMaxKey) : Cardinality(T) < RouteMaxLen}}

Init == rt \in [es : EntryArrays, span : RouteSpans]

Next == UNCHANGED rt

(* The reference: the last entry whose key is <= k. *)
OwnerOf(es, k) == Max({i \in 0..Len(es) - 1 : es[i + 1].key <= k})

RoutedBy(r, k) == AL(rt.span)!Find(rt.es, k, r.b, r.e) = OwnerOf(rt.es, k)

(* For every key, the [begin, end] that GetBLevelRange_ reads off the     *)
(* table ALevel's constructor built (CDFIndex_, the back-filled empty     *)
(* slots, begin-- when begin = end), searched by BLevel::Find_ (a middle  *)
(* probe and a linear scan bounded by begin and end), gives the last      *)
(* entry whose key is <= the key.                                          *)
ALevelRoutes ==
    \A k \in 1..RouteMaxKey + 1 :
        RoutedBy(AL(rt.span)!GetBLevelRange(AL(rt.span)!NewALevel(rt.es), k), k)

=============================================================================
