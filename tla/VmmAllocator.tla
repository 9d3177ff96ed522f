----------------------------- MODULE VmmAllocator -----------------------------
(***************************************************************************)
(* vllm_v1_worker_gpu/edmm_allocator.py: tensors whose pages are mapped to *)
(* physical handles with the CUDA driver, the registry _allocations, and   *)
(* remap_block, which swaps the handle behind one page under _remap_lock.  *)
(* A step of a thread is one driver call with the Python code around it.   *)
(* The driver (external) keeps address ranges, handles and mappings.       *)
(***************************************************************************)
EXTENDS Naturals, FiniteSets

CONSTANTS
  VAs,          \* address ranges cuMemAddressReserve may return
  Objs,         \* bound: VMMAllocation objects ever made
  NumPages,     \* pages of a tensor
  Handles,      \* bound: handles cuMemCreate ever returns
  Threads,      \* threads that call the allocator
  MayFail,      \* whether driver calls may fail
  Overlap,      \* whether a tensor may be freed during a remap of it
  NoObj, NoHandle, NoVA

Nobody == "nobody"

ASSUME VmmAssumption ==
  /\ NumPages \in Nat \ {0}
  /\ MayFail \in BOOLEAN /\ Overlap \in BOOLEAN
  /\ NoObj \notin Objs /\ NoHandle \notin Handles /\ NoVA \notin VAs
  /\ Nobody \notin Threads

Pages == 0..(NumPages - 1)

VARIABLES
  \* Python
  registry,     \* registry[v]: the object _allocations has under v
  handlesOf,    \* handlesOf[o][p]: the handles list of object o
  made,         \* objects made so far
  lock,         \* holder of _remap_lock
  op,           \* op[t]: what thread t is doing, with its local variables
  callers,      \* handles callers own: created for them or returned to them
  \* the driver
  reserved,     \* reserved address ranges
  mapped,       \* mapped[v][p]: the handle mapped at page p of v
  access,       \* access[v]: pages of v that may be read and written
  created,      \* handles cuMemCreate returned
  releases,     \* releases[h]: times cuMemRelease was called for h
  \* history: what failed driver calls left behind
  lost,         \* handles of allocations that were given up
  holes         \* pages a remap unmapped before it failed

driverVars == <<reserved, mapped, access, created, releases>>
failureVars == <<lost, holes>>
vars == <<registry, handlesOf, made, lock, op, callers, driverVars, failureVars>>

Steps == {"idle", "create", "map", "setAccess",               \* allocate
          "remapLock", "remapMap", "remapAccess", "remapRecord",
          "freeUnmap", "freeRelease", "freeAddress"}
Idle == [step |-> "idle", va |-> NoVA, obj |-> NoObj, page |-> 0, handle |-> NoHandle]

TypeOK ==
  /\ registry \in [VAs -> Objs \cup {NoObj}]
  /\ handlesOf \in [Objs -> [Pages -> Handles \cup {NoHandle}]]
  /\ made \subseteq Objs
  /\ lock \in Threads \cup {Nobody}
  /\ op \in [Threads -> [step : Steps, va : VAs \cup {NoVA}, obj : Objs \cup {NoObj},
                         page : 0..NumPages, handle : Handles \cup {NoHandle}]]
  /\ callers \subseteq Handles
  /\ reserved \subseteq VAs
  /\ mapped \in [VAs -> [Pages -> Handles \cup {NoHandle}]]
  /\ access \in [VAs -> SUBSET Pages]
  /\ created \subseteq Handles
  /\ releases \in [Handles -> Nat]
  /\ lost \subseteq Handles
  /\ holes \subseteq VAs \X Pages

Unmapped == [p \in Pages |-> NoHandle]

Init ==
  /\ registry = [v \in VAs |-> NoObj]
  /\ handlesOf = [o \in Objs |-> Unmapped]
  /\ made = {}
  /\ lock = Nobody
  /\ op = [t \in Threads |-> Idle]
  /\ callers = {}
  /\ reserved = {}
  /\ mapped = [v \in VAs |-> Unmapped]
  /\ access = [v \in VAs |-> {}]
  /\ created = {}
  /\ releases = [h \in Handles |-> 0]
  /\ lost = {}
  /\ holes = {}

At(t, step) == op[t].step = step
Goto(t, step) == op' = [op EXCEPT ![t].step = step]
Return(t) == op' = [op EXCEPT ![t] = Idle]

------------------------------------------------------------------------------
(* allocate_vmm_kv_cache.                                                   *)

\* (Mutant.)  The tensor is registered before its pages are mapped.
RegisterEarly(t, v, o) ==
  /\ At(t, "idle")
  /\ v \notin reserved
  /\ o \notin made
  /\ reserved' = reserved \cup {v}
  /\ made' = made \cup {o}
  /\ registry' = [registry EXCEPT ![v] = o]
  /\ op' = [op EXCEPT ![t] = [Idle EXCEPT !.step = "create", !.va = v, !.obj = o]]
  /\ UNCHANGED <<handlesOf, lock, callers, mapped, access, created, releases,
                 failureVars>>

\* cuMemAddressReserve; nothing happened yet if it fails.
BeginAllocate(t, v, o) ==
  /\ At(t, "idle")
  /\ v \notin reserved
  /\ o \notin made
  /\ reserved' = reserved \cup {v}
  /\ made' = made \cup {o}
  /\ op' = [op EXCEPT ![t] = [Idle EXCEPT !.step = "create", !.va = v, !.obj = o]]
  /\ holes' = {x \in holes : x[1] # v}
  /\ UNCHANGED <<registry, handlesOf, lock, callers, mapped, access, created, releases,
                 lost>>

CreatePage(t, h) ==
  /\ At(t, "create")
  /\ h \notin created
  /\ created' = created \cup {h}
  /\ op' = [op EXCEPT ![t] = [op[t] EXCEPT !.step = "map", !.handle = h]]
  /\ UNCHANGED <<registry, handlesOf, made, lock, callers, reserved, mapped, access,
                 releases,
                 failureVars>>

\* (Mutant.)  One page too many.
MorePagesOrLast(t) == op[t].page < NumPages

MorePages(t) == op[t].page + 1 < NumPages

MapPage(t) ==
  /\ At(t, "map")
  /\ mapped' = [mapped EXCEPT ![op[t].va][op[t].page] = op[t].handle]
  /\ handlesOf' = [handlesOf EXCEPT ![op[t].obj][op[t].page] = op[t].handle]
  /\ op' = [op EXCEPT ![t] = [op[t] EXCEPT !.page = @ + 1, !.handle = NoHandle,
                                  !.step = IF MorePages(t) THEN "create" ELSE "setAccess"]]
  /\ UNCHANGED <<registry, made, lock, callers, reserved, access, created, releases,
                 failureVars>>

FinishAllocate(t) ==
  /\ At(t, "setAccess")
  /\ access' = [access EXCEPT ![op[t].va] = Pages]
  /\ registry' = [registry EXCEPT ![op[t].va] = op[t].obj]
  /\ Return(t)
  /\ UNCHANGED <<handlesOf, made, lock, callers, reserved, mapped, created, releases,
                 failureVars>>

\* _check raises: range, handles and mappings made so far are given up.
AllocateFails(t) ==
  /\ MayFail
  /\ op[t].step \in {"create", "map", "setAccess"}
  /\ lost' = (lost \cup {op[t].handle} \cup {handlesOf[op[t].obj][p] : p \in Pages})
               \ {NoHandle}
  /\ Return(t)
  /\ UNCHANGED <<registry, handlesOf, made, lock, callers, driverVars, holes>>

------------------------------------------------------------------------------
(* create_physical_handle, release_physical_handle.                         *)

CreatePhysicalHandle(h) ==
  /\ h \notin created
  /\ created' = created \cup {h}
  /\ callers' = callers \cup {h}
  /\ UNCHANGED <<registry, handlesOf, made, lock, op, reserved, mapped, access, releases,
                 failureVars>>

ReleasePhysicalHandle(h) ==
  /\ h \in callers
  /\ callers' = callers \ {h}
  /\ releases' = [releases EXCEPT ![h] = @ + 1]
  /\ UNCHANGED <<registry, handlesOf, made, lock, op, reserved, mapped, access, created,
                 failureVars>>

------------------------------------------------------------------------------
(* remap_block.                                                             *)

\* The checks before the lock; the object found here is used until the end.
BeginRemap(t, v, p, h) ==
  /\ At(t, "idle")
  /\ registry[v] # NoObj
  /\ h \in callers
  /\ callers' = callers \ {h}
  /\ op' = [op EXCEPT ![t] = [step |-> "remapLock", va |-> v, obj |-> registry[v],
                              page |-> p, handle |-> h]]
  /\ UNCHANGED <<registry, handlesOf, made, lock, driverVars, failureVars>>

MappedAt(t) == mapped[op[t].va][op[t].page]

\* (Mutant.)  The lock is one per thread, so it keeps nobody out.
OwnLock(t) == lock' = t

Acquire(t) == lock = Nobody /\ lock' = t

\* with _remap_lock: cuMemUnmap.
RemapUnmap(t) ==
  /\ At(t, "remapLock")
  /\ MappedAt(t) # NoHandle
  /\ Acquire(t)
  /\ mapped' = [mapped EXCEPT ![op[t].va][op[t].page] = NoHandle]
  /\ access' = [access EXCEPT ![op[t].va] = @ \ {op[t].page}]
  /\ Goto(t, "remapMap")
  /\ UNCHANGED <<registry, handlesOf, made, callers, reserved, created, releases,
                 failureVars>>

RemapMap(t) ==
  /\ At(t, "remapMap")
  /\ op[t].va \in reserved
  /\ MappedAt(t) = NoHandle
  /\ mapped' = [mapped EXCEPT ![op[t].va][op[t].page] = op[t].handle]
  /\ Goto(t, "remapAccess")
  /\ UNCHANGED <<registry, handlesOf, made, lock, callers, reserved, access, created,
                 releases,
                 failureVars>>

RemapAccess(t) ==
  /\ At(t, "remapAccess")
  /\ MappedAt(t) # NoHandle
  /\ access' = [access EXCEPT ![op[t].va] = @ \cup {op[t].page}]
  /\ holes' = holes \ {<<op[t].va, op[t].page>>}
  /\ Goto(t, "remapRecord")
  /\ UNCHANGED <<registry, handlesOf, made, lock, callers, reserved, mapped, created,
                 releases,
                 lost>>

\* (Mutant.)  The old handle is returned but also stays in the list.
RemapForgetsList(t) ==
  /\ At(t, "remapRecord")
  /\ callers' = callers \cup {handlesOf[op[t].obj][op[t].page]}
  /\ lock' = Nobody
  /\ Return(t)
  /\ UNCHANGED <<registry, handlesOf, made, driverVars, failureVars>>

\* The list entry is swapped, the lock released, the old handle returned.
RemapRecord(t) ==
  /\ At(t, "remapRecord")
  /\ handlesOf' = [handlesOf EXCEPT ![op[t].obj][op[t].page] = op[t].handle]
  /\ callers' = callers \cup {handlesOf[op[t].obj][op[t].page]}
  /\ lock' = Nobody
  /\ Return(t)
  /\ UNCHANGED <<registry, made, driverVars, failureVars>>

\* A driver call fails: of itself, or because the page is not as expected.  The
\* lock is released, the caller keeps the handle it passed.
RemapFails(t) ==
  /\ \/ MayFail /\ op[t].step \in {"remapMap", "remapAccess"}
     \/ At(t, "remapLock") /\ lock = Nobody /\ (MayFail \/ MappedAt(t) = NoHandle)
     \/ At(t, "remapMap") /\ (op[t].va \notin reserved \/ MappedAt(t) # NoHandle)
     \/ At(t, "remapAccess") /\ MappedAt(t) = NoHandle
  /\ lock' = IF lock = t THEN Nobody ELSE lock
  /\ callers' = callers \cup {op[t].handle}
  /\ holes' = IF op[t].step = "remapLock" THEN holes
               ELSE holes \cup {<<op[t].va, op[t].page>>}
  /\ Return(t)
  /\ UNCHANGED <<registry, handlesOf, made, driverVars, lost>>

------------------------------------------------------------------------------
(* free_vmm_kv_cache: without the lock, driver errors ignored.              *)

Remapping(o) == \E t \in Threads :
                  /\ op[t].step \in {"remapLock", "remapMap", "remapAccess", "remapRecord"}
                  /\ op[t].obj = o

BeginFree(t, v) ==
  /\ At(t, "idle")
  /\ registry[v] # NoObj
  /\ Overlap \/ ~Remapping(registry[v])
  /\ op' = [op EXCEPT ![t] = [Idle EXCEPT !.step = "freeUnmap", !.va = v,
                                          !.obj = registry[v]]]
  /\ registry' = [registry EXCEPT ![v] = NoObj]
  /\ UNCHANGED <<handlesOf, made, lock, callers, driverVars, failureVars>>

\* cuMemUnmap refuses a range with a hole in it.
FreeUnmap(t) ==
  /\ At(t, "freeUnmap")
  /\ IF \A p \in Pages : mapped[op[t].va][p] # NoHandle
     THEN /\ mapped' = [mapped EXCEPT ![op[t].va] = Unmapped]
          /\ access' = [access EXCEPT ![op[t].va] = {}]
     ELSE UNCHANGED <<mapped, access>>
  /\ Goto(t, "freeRelease")
  /\ UNCHANGED <<registry, handlesOf, made, lock, callers, reserved, created, releases,
                 failureVars>>

FreeRelease(t) ==
  /\ At(t, "freeRelease")
  /\ releases' = [h \in Handles |->
                    releases[h] + Cardinality({p \in Pages : handlesOf[op[t].obj][p] = h})]
  /\ Goto(t, "freeAddress")
  /\ UNCHANGED <<registry, handlesOf, made, lock, callers, reserved, mapped, access,
                 created,
                 failureVars>>

\* cuMemAddressFree refuses a range with mappings left.
FreeAddress(t) ==
  /\ At(t, "freeAddress")
  /\ reserved' = IF mapped[op[t].va] = Unmapped THEN reserved \ {op[t].va} ELSE reserved
  /\ Return(t)
  /\ UNCHANGED <<registry, handlesOf, made, lock, callers, mapped, access, created,
                 releases,
                 failureVars>>

------------------------------------------------------------------------------

Remap(t) == RemapUnmap(t) \/ RemapMap(t) \/ RemapAccess(t) \/ RemapRecord(t)
              \/ RemapFails(t)
Free(t) == FreeUnmap(t) \/ FreeRelease(t) \/ FreeAddress(t)

Next ==
  \/ \E t \in Threads :
        \/ \E v \in VAs, o \in Objs : BeginAllocate(t, v, o)
        \/ \E h \in Handles : CreatePage(t, h)
        \/ MapPage(t) \/ FinishAllocate(t) \/ AllocateFails(t)
        \/ \E v \in VAs, p \in Pages, h \in Handles : BeginRemap(t, v, p, h)
        \/ Remap(t)
        \/ \E v \in VAs : BeginFree(t, v)
        \/ Free(t)
  \/ \E h \in Handles : CreatePhysicalHandle(h) \/ ReleasePhysicalHandle(h)

Spec == Init /\ [][Next]_vars

------------------------------------------------------------------------------
(* Properties.                                                              *)

InCriticalSection(v, p) ==
  \E t \in Threads : lock = t /\ op[t].va = v /\ op[t].page = p

\* Outside the critical section of a remap of that very page, a page of a
\* registered tensor can be accessed, unless a remap of it failed half way, and
\* what can be accessed is what the list of handles says: a failed remap never
\* leaves a page readable that is backed by a handle the list does not hold.
PagesBacked ==
  \A v \in VAs, p \in Pages :
     registry[v] # NoObj /\ ~InCriticalSection(v, p) =>
        /\ p \in access[v] => /\ mapped[v][p] # NoHandle
                              /\ mapped[v][p] = handlesOf[registry[v]][p]
        /\ p \in access[v] \/ <<v, p>> \in holes

\* Who has a handle: callers, a call in progress, the list of a live object.
LiveObj(o) == \/ \E v \in VAs : registry[v] = o
              \/ \E t \in Threads : /\ op[t].obj = o
                                    /\ op[t].step \in {"create", "map", "setAccess",
                                                       "freeUnmap", "freeRelease"}
Claims(h) ==
  (IF h \in callers THEN {<<"caller">>} ELSE {})
    \cup {<<"call", t>> : t \in {u \in Threads : op[u].handle = h}}
    \cup {<<"page", x>> : x \in
            {y \in Objs \X Pages : LiveObj(y[1]) /\ handlesOf[y[1]][y[2]] = h}}

\* Every handle that was created is in exactly one place, was released exactly
\* once or was lost by an allocation that failed: no other handle leaks, none backs
\* two pages, none is released twice, however remaps of one page by several
\* threads, allocations and frees interleave and whichever driver call fails.
HandlesAccounted ==
  \A h \in created :
     Cardinality(Claims(h)) + releases[h] = IF h \in lost THEN 0 ELSE 1

\* The allocator implements its promise: remap_block, three driver calls and a
\* list update, looks to its callers like one exchange of one page's handle.
Returned == [v \in VAs |-> IF registry[v] = NoObj THEN Unmapped ELSE handlesOf[registry[v]]]
Loose == callers \cup {op[t].handle : t \in {u \in Threads : op[u].step \in
                         {"remapLock", "remapMap", "remapAccess", "remapRecord"}}}
Spent == {h \in Handles : releases[h] > 0}
           \cup UNION {{handlesOf[op[t].obj][p] : p \in Pages} :
                         t \in {u \in Threads : op[u].step \in {"freeUnmap", "freeRelease"}}}
Promise == INSTANCE PageTable WITH backing <- Returned, loose <- Loose, spent <- Spent
ImplementsPageTable == Promise!Spec
==============================================================================
