------------------------------ MODULE LETreeMT ------------------------------
(***************************************************************************)
(* The MULTI_THREAD build of letree (src/src/letree.h with the define at  *)
(* line 16 enabled): threads calling Put, Update, Delete and Get         *)
(* concurrently, synchronised by                                           *)
(*   - lock_space, one pthread mutex per group, replaced by ExpandTree;   *)
(*   - is_tree_expand, the atomic flag ExpandTree raises by CAS;          *)
(*   - expand_wait_cv, on which trans_begin waits while the flag is set.  *)
(*                                                                         *)
(* The keys and the tree are abstracted away: find_group picks any group  *)
(* of the current tree, and group::Put may return Full (which sends the  *)
(* thread into ExpandTree) until MaxGen expansions have happened.  What   *)
(* is kept is every read and write of the shared synchronisation state,  *)
(* in the code's order: each one is a step of its own, so that other     *)
(* threads can run between them.                                          *)
(*                                                                         *)
(* A group_space/lock_space pair is a generation: gen is the current one. *)
(* Every pthread_mutex_lock/unlock reads lock_space anew, so a mutex is   *)
(* named by the generation read and the group index.                      *)
(***************************************************************************)
EXTENDS Integers, FiniteSets

CONSTANTS
    Threads,    \* the client threads
    NGroups,    \* nr_groups_ after an ExpandTree (letree::Init makes 1)
    MaxGen,     \* bound on the number of ExpandTree calls that complete
    MaxOps,     \* bound on the operations each thread calls
    Ops,        \* the operations the threads call: a subset of OpNames
    NoOwner     \* owner of an unlocked mutex

OpNames == {"Put", "Update", "Delete", "Get"}

ASSUME NGroups >= 1 /\ MaxGen \in Nat /\ MaxOps >= 1 /\ Ops \subseteq OpNames

Gens     == 0..MaxGen
GroupsOf(gn) == IF gn = 0 THEN 1 ELSE NGroups
LockIds  == {<<gn, g>> : gn \in Gens, g \in 0..NGroups - 1}

VARIABLES
    pc,       \* thread -> where it is in its operation
    op,       \* thread -> the operation it is running
    nops,     \* thread -> operations started so far
    grpOf,    \* thread -> group_id returned by find_group
    lkGen,    \* thread -> the lock_space generation pthread_mutex_lock read
    res,      \* thread -> what group::Put returned
    flag,     \* is_tree_expand
    waitSet,  \* threads blocked in expand_wait_cv.wait
    gen,      \* generation of group_space, nr_groups_ and lock_space
    owner,    \* mutex -> the thread holding it, or NoOwner
    freed     \* generations whose lock_space has been delete[]d

vars == <<pc, op, nops, grpOf, lkGen, res, flag, waitSet, gen, owner, freed>>

(* letree::Init: one group, one mutex, the flag clear. *)
Init ==
    /\ pc = [t \in Threads |-> "idle"]
    /\ op = [t \in Threads |-> "Get"]
    /\ nops = [t \in Threads |-> 0]
    /\ grpOf = [t \in Threads |-> 0]
    /\ lkGen = [t \in Threads |-> 0]
    /\ res = [t \in Threads |-> "OK"]
    /\ flag = FALSE
    /\ waitSet = {}
    /\ gen = 0
    /\ owner = [l \in LockIds |-> NoOwner]
    /\ freed = {}

Goto(t, p) == pc' = [pc EXCEPT ![t] = p]

(* Where an operation goes once trans_begin returns. *)
AfterTransBegin(o) == IF o = "Get" THEN "rd" ELSE "fg"

(* A client thread calls an operation. *)
Start(t, o) ==
    /\ pc[t] = "idle" /\ nops[t] < MaxOps
    /\ op' = [op EXCEPT ![t] = o]
    /\ nops' = [nops EXCEPT ![t] = @ + 1]
    /\ Goto(t, "tb")
    /\ UNCHANGED <<grpOf, lkGen, res, flag, waitSet, gen, owner, freed>>

(* trans_begin: if is_tree_expand is set, go and wait on the condition   *)
(* variable.  The flag is tested before expand_wait_lock is taken.        *)
TransBegin(t) ==
    /\ pc[t] = "tb"
    /\ Goto(t, IF flag THEN "tbw" ELSE AfterTransBegin(op[t]))
    /\ UNCHANGED <<op, nops, grpOf, lkGen, res, flag, waitSet, gen, owner, freed>>

(* unique_lock(expand_wait_lock); expand_wait_cv.wait(lock): the thread  *)
(* sleeps whatever the flag is now; wait has no predicate.                *)
WaitCV(t) ==
    /\ pc[t] = "tbw"
    /\ waitSet' = waitSet \cup {t}
    /\ Goto(t, "wait")
    /\ UNCHANGED <<op, nops, grpOf, lkGen, res, flag, gen, owner, freed>>

(* wait returns once notified, and trans_begin returns. *)
Wake(t) ==
    /\ pc[t] = "wait" /\ t \notin waitSet
    /\ Goto(t, AfterTransBegin(op[t]))
    /\ UNCHANGED <<op, nops, grpOf, lkGen, res, flag, waitSet, gen, owner, freed>>

(* std::condition_variable::wait may also return without a notify. *)
SpuriousWake(t) ==
    /\ pc[t] = "wait" /\ t \in waitSet
    /\ waitSet' = waitSet \ {t}
    /\ UNCHANGED <<pc, op, nops, grpOf, lkGen, res, flag, gen, owner, freed>>

(* Fault model: the clamp of find_group off by one at the top. *)
FindGroupPastEnd(t) ==
    /\ pc[t] = "fg"
    /\ \E g \in 0..GroupsOf(gen) : grpOf' = [grpOf EXCEPT ![t] = g]
    /\ Goto(t, "lk")
    /\ UNCHANGED <<op, nops, lkGen, res, flag, waitSet, gen, owner, freed>>

(* find_group: a group of the current tree (clamped to nr_groups_ - 1). *)
FindGroup(t) ==
    /\ pc[t] = "fg"
    /\ \E g \in 0..GroupsOf(gen) - 1 : grpOf' = [grpOf EXCEPT ![t] = g]
    /\ Goto(t, "lk")
    /\ UNCHANGED <<op, nops, lkGen, res, flag, waitSet, gen, owner, freed>>

(* pthread_mutex_lock(&lock_space[group_id]) reads lock_space ...        *)
LockRead(t) ==
    /\ pc[t] = "lk"
    /\ lkGen' = [lkGen EXCEPT ![t] = gen]
    /\ Goto(t, "acq")
    /\ UNCHANGED <<op, nops, grpOf, res, flag, waitSet, gen, owner, freed>>

(* ... and blocks until that mutex is free (a default mutex locked again *)
(* by its owner blocks forever).  Put then rechecks the flag; Update and  *)
(* Delete go straight to the group.                                       *)
Acquire(t) ==
    LET m == <<lkGen[t], grpOf[t]>>
    IN  /\ pc[t] = "acq" /\ owner[m] = NoOwner
        /\ owner' = [owner EXCEPT ![m] = t]
        /\ Goto(t, IF op[t] = "Put" THEN "chk" ELSE "cs")
        /\ UNCHANGED <<op, nops, grpOf, lkGen, res, flag, waitSet, gen, freed>>

(* pthread_mutex_unlock(&lock_space[group_id]) reads lock_space again: it *)
(* releases the mutex of the current generation, whoever holds it (glibc  *)
(* does not check the owner of a default mutex).                          *)
UnlockCurrent(t) == owner' = [owner EXCEPT ![<<gen, grpOf[t]>>] = NoOwner]

(* letree::Put, after the lock: if an expansion started meanwhile, unlock *)
(* and goto retry0.                                                       *)
Recheck(t) ==
    /\ pc[t] = "chk"
    /\ IF flag THEN UnlockCurrent(t) /\ Goto(t, "tb")
               ELSE UNCHANGED owner /\ Goto(t, "cs")
    /\ UNCHANGED <<op, nops, grpOf, lkGen, res, flag, waitSet, gen, freed>>

(* The return from an operation: its locals go out of scope. *)
Return(t) ==
    /\ pc' = [pc EXCEPT ![t] = "idle"]
    /\ grpOf' = [grpOf EXCEPT ![t] = 0]
    /\ lkGen' = [lkGen EXCEPT ![t] = 0]
    /\ res' = [res EXCEPT ![t] = "OK"]
    /\ op' = [op EXCEPT ![t] = "Get"]

(* Full results that have not been turned into an installed tree yet. *)
PendingExpansions ==
    Cardinality({t \in Threads : res[t] = "Full" /\ pc[t] \in {"unl", "exp", "ecopy", "einst"}})

(* group_space[group_id].Put / Update / Delete.  Put may find the group   *)
(* full (next_entry_count > max_entry_count), as long as fewer than       *)
(* MaxGen expansions have happened or are under way.  Update returns      *)
(* without unlocking (letree.h:835-836).                                  *)
GroupOp(t) ==
    /\ pc[t] = "cs"
    /\ \/ /\ op[t] = "Update"
          /\ Return(t)
       \/ /\ op[t] # "Update"
          /\ \E r \in {"OK"} \cup (IF op[t] = "Put" /\ gen + PendingExpansions < MaxGen
                                   THEN {"Full"} ELSE {}) :
                res' = [res EXCEPT ![t] = r]
          /\ Goto(t, "unl")
          /\ UNCHANGED <<op, grpOf, lkGen>>
    /\ UNCHANGED <<nops, flag, waitSet, gen, owner, freed>>

(* The unlock after the group operation; a Full Put calls ExpandTree. *)
Unlock(t) ==
    /\ pc[t] = "unl"
    /\ UnlockCurrent(t)
    /\ IF op[t] = "Put" /\ res[t] = "Full"
       THEN Goto(t, "exp") /\ UNCHANGED <<op, grpOf, lkGen, res>>
       ELSE Return(t)
    /\ UNCHANGED <<nops, flag, waitSet, gen, freed>>

(* letree::Get: find_fast then find_slow, without any lock. *)
Read(t) ==
    /\ pc[t] = "rd"
    /\ Return(t)
    /\ UNCHANGED <<nops, flag, waitSet, gen, owner, freed>>

(* Fault model: ExpandTree setting the flag without the compare-exchange. *)
ExpandBeginUnchecked(t) ==
    /\ pc[t] = "exp"
    /\ flag' = TRUE
    /\ Goto(t, "ecopy")
    /\ UNCHANGED <<op, nops, grpOf, lkGen, res, waitSet, gen, owner, freed>>

(* ExpandTree: compare_exchange_strong(false, true) on is_tree_expand;    *)
(* if another thread is expanding, return (and Put goes to retry0).       *)
ExpandBegin(t) ==
    /\ pc[t] = "exp"
    /\ IF flag THEN UNCHANGED flag /\ Goto(t, "tb")
               ELSE flag' = TRUE /\ Goto(t, "ecopy")
    /\ UNCHANGED <<op, nops, grpOf, lkGen, res, waitSet, gen, owner, freed>>

(* The root model is retrained and the new groups are filled from the   *)
(* entries of every old group, without taking any group lock.           *)
ExpandBuild(t) ==
    /\ pc[t] = "ecopy"
    /\ Goto(t, "einst")
    /\ UNCHANGED <<op, nops, grpOf, lkGen, res, flag, waitSet, gen, owner, freed>>

(* delete[] lock_space; nr_groups_, group_space and lock_space take the  *)
(* new generation, whose mutexes are all unlocked.                       *)
ExpandInstall(t) ==
    /\ pc[t] = "einst"
    /\ freed' = freed \cup {gen}
    /\ gen' = gen + 1
    /\ Goto(t, "eclr")
    /\ UNCHANGED <<op, nops, grpOf, lkGen, res, flag, waitSet, owner>>

(* Fault model: the store of false to is_tree_expand left out. *)
ExpandClearLost(t) ==
    /\ pc[t] = "eclr"
    /\ Goto(t, "enot")
    /\ UNCHANGED <<op, nops, grpOf, lkGen, res, flag, waitSet, gen, owner, freed>>

(* is_tree_expand.store(false) *)
ExpandClear(t) ==
    /\ pc[t] = "eclr"
    /\ flag' = FALSE
    /\ Goto(t, "enot")
    /\ UNCHANGED <<op, nops, grpOf, lkGen, res, waitSet, gen, owner, freed>>

(* expand_wait_cv.notify_all(); ExpandTree returns and Put retries. *)
ExpandNotify(t) ==
    /\ pc[t] = "enot"
    /\ waitSet' = {}
    /\ Goto(t, "tb")
    /\ UNCHANGED <<op, nops, grpOf, lkGen, res, flag, gen, owner, freed>>

(* Every step of a thread except calling an operation and a spurious     *)
(* wake-up.                                                               *)
Step(t) ==
    \/ TransBegin(t) \/ WaitCV(t) \/ Wake(t)
    \/ FindGroup(t) \/ LockRead(t) \/ Acquire(t) \/ Recheck(t)
    \/ GroupOp(t) \/ Unlock(t) \/ Read(t)
    \/ ExpandBegin(t) \/ ExpandBuild(t) \/ ExpandInstall(t)
    \/ ExpandClear(t) \/ ExpandNotify(t)

(* Every thread has made all its calls and returned from them. *)
Finished ==
    /\ \A t \in Threads : pc[t] = "idle" /\ nops[t] = MaxOps
    /\ UNCHANGED vars

Next ==
    \/ \E t \in Threads : \/ \E o \in Ops : Start(t, o)
                          \/ Step(t)
                          \/ SpuriousWake(t)
    \/ Finished

(* Threads are OS threads: one that can run eventually does.  Nothing    *)
(* makes a client call again, and a spurious wake-up may never come.      *)
Spec == Init /\ [][Next]_vars /\ \A t \in Threads : WF_vars(Step(t))

-----------------------------------------------------------------------------
(* Properties *)

PCs == {"idle", "tb", "tbw", "wait", "fg", "lk", "acq", "chk", "cs", "unl",
        "rd", "exp", "ecopy", "einst", "eclr", "enot"}

TypeOK ==
    /\ pc \in [Threads -> PCs]
    /\ op \in [Threads -> OpNames]
    /\ nops \in [Threads -> 0..MaxOps]
    /\ grpOf \in [Threads -> 0..NGroups - 1]
    /\ lkGen \in [Threads -> Gens]
    /\ res \in [Threads -> {"OK", "Full"}]
    /\ flag \in BOOLEAN /\ waitSet \subseteq Threads
    /\ gen \in Gens /\ freed \subseteq Gens
    /\ owner \in [LockIds -> Threads \cup {NoOwner}]

(* ExpandTree's compare-exchange lets one thread at a time rebuild and   *)
(* install the tree: two would both delete[] the same lock_space and     *)
(* build from a group_space the other is replacing.                       *)
ExpandExclusive ==
    \A t, u \in Threads :
        t # u /\ pc[t] \in {"ecopy", "einst"} => pc[u] \notin {"ecopy", "einst", "eclr"}

(* Once ExpandTree has set is_tree_expand it clears it: the flag that     *)
(* blocks every writer in trans_begin never stays set for good.           *)
ExpansionEnds == flag ~> ~flag

(* Findings: what the spec says of the MULTI_THREAD build, stated so that *)
(* TLC can look for a behaviour that breaks it.                           *)

(* "Each Learned Group owns one mutex protecting its BEntry array         *)
(* mutations": no two threads are inside group operations under the same  *)
(* mutex, the one named by the generation each read and the group index. *)
(* Two threads under mutexes of different generations are not a breach   *)
(* of this: that is the expansion race (NoWriterDuringExpand) or the use *)
(* of a freed mutex (NoFreedMutexUse).                                    *)
GroupExclusive ==
    \A t, u \in Threads :
        t # u /\ pc[t] = "cs" /\ pc[u] = "cs"
            => <<lkGen[t], grpOf[t]>> # <<lkGen[u], grpOf[u]>>

(* "While [is_tree_expand is] set, writers are redirected or blocked":    *)
(* no writer modifies a group while ExpandTree copies the groups.        *)
NoWriterDuringExpand ==
    \A t, u \in Threads : pc[t] = "ecopy" => pc[u] # "cs"

(* No thread locks a mutex of a lock_space that has been delete[]d. *)
NoFreedMutexUse ==
    \A t \in Threads : pc[t] = "acq" => lkGen[t] \notin freed

(* A thread that sleeps in trans_begin is woken: writers "wait on a       *)
(* condition variable until expansion completes".                         *)
WaitersWake == \A t \in Threads : (t \in waitSet) ~> (t \notin waitSet)

(* Every group mutex that is locked is unlocked again. *)
LocksReleased ==
    \A m \in LockIds, t \in Threads : (owner[m] = t) ~> (owner[m] # t)

=============================================================================
