---------------------------- MODULE MC_ComboTree ----------------------------
(***************************************************************************)
(* The combo-tree with its sizes scaled down: nodes and buffers of        *)
(* MaxEntries records, key_buf of ExpandBufKey pairs, so that buffer      *)
(* flushes, leaf splits and expansions happen with a handful of keys.     *)
(***************************************************************************)
EXTENDS ComboTree

(* absDict is the map the combo-tree represents, read with BLevel::Get   *)
(* through the ALevel (the refinement mapping), and absPrev the one of    *)
(* the state before: the history Delete's result is compared against.    *)
VARIABLES absDict, absPrev

ContentsOf(m, es, a) ==
    [k \in Keys |-> IF Len(es) = 0 THEN NotFound ELSE LookupIn(m, es, a, k)]

MCInit == Init /\ absDict = ContentsOf(mem, ents, al) /\ absPrev = absDict

MCNext ==
    /\ Next
    /\ absDict' = ContentsOf(mem', ents', al')
    /\ absPrev' = absDict

MCSpec == MCInit /\ [][MCNext]_<<vars, absDict, absPrev>>

(* ret only records what the last call returned, and absDict and absPrev *)
(* are functions of the states: states that differ only in them have the *)
(* same futures.  Properties about them are checked on every transition.  *)
StateView == <<mem, ents, phys, al, size, dels, exps>>

(* The results KVStore has for what the combo-tree returns.  ALevel::Put *)
(* returns status::OK (0) converted to bool, false, for every stored      *)
(* pair, and BLevel::Delete_ returns true whatever it found: neither says *)
(* anything about the map, so they are mapped to KVStore's own results    *)
(* (Put true, Delete whether absPrev held the key).  Get's value and      *)
(* Update's success are compared as returned.                             *)
AbsRet ==
    CASE ret.op = "put" -> [ret EXCEPT !.res = TRUE]
      [] ret.op = "del" -> [ret EXCEPT !.res = absPrev[ret.k] # NotFound]
      [] OTHER -> ret

(* The combo-tree implements the key-value map of KVStore: read off the  *)
(* tree with BLevel::Get through the ALevel, every Put, Update, Delete   *)
(* and Get changes it, and reports, what KVStore says, and Expansion      *)
(* (BLevel::Expansion(old) and a new ALevel) leaves it unchanged.          *)
KV == INSTANCE KVStore WITH dict <- absDict, ret <- AbsRet

KVRefinement == KV!Spec

=============================================================================
