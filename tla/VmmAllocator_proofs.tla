-------------------------- MODULE VmmAllocator_proofs --------------------------
(***************************************************************************)
(* Theorems about VmmAllocator, for any number of ranges, pages, handles   *)
(* and threads, whichever driver calls fail: the types and, when no tensor *)
(* is freed during a remap of it, that registered pages stay backed, that  *)
(* every handle is in one place, and that the allocator implements         *)
(* PageTable.                                                              *)
(***************************************************************************)
EXTENDS VmmAllocator, FiniteSetTheorems, TLAPS

\* A thread's call and its local variables.
Calls == [step : Steps, va : VAs \cup {NoVA}, obj : Objs \cup {NoObj},
          page : 0..NumPages, handle : Handles \cup {NoHandle}]

\* A call in progress works on a range, on an object and, where it has one, with
\* a handle.
CallsHaveTargets ==
  \A t \in Threads :
     /\ op[t].step # "idle" => op[t].va \in VAs /\ op[t].obj \in Objs
     /\ op[t].step \in {"create", "map", "remapLock", "remapMap", "remapAccess",
                        "remapRecord"} => op[t].page \in Pages
     /\ op[t].step \in {"map", "remapLock", "remapMap", "remapAccess", "remapRecord"} =>
           op[t].handle \in Handles

Allocating(t) == op[t].step \in {"create", "map", "setAccess"}
Freeing(t) == op[t].step \in {"freeUnmap", "freeRelease", "freeAddress"}
Private(t) == Allocating(t) \/ Freeing(t)
Remaps(t) == op[t].step \in {"remapLock", "remapMap", "remapAccess", "remapRecord"}

\* The list of a registered object, or of one being remapped, has no hole; the
\* list of one under construction has none up to the page the allocation is at.
ListsFull ==
  /\ \A v \in VAs, p \in Pages :
        registry[v] # NoObj => handlesOf[registry[v]][p] \in Handles
  /\ \A t \in Threads, p \in Pages :
        /\ Remaps(t) => handlesOf[op[t].obj][p] \in Handles
        /\ Allocating(t) /\ p < op[t].page => handlesOf[op[t].obj][p] \in Handles
  /\ \A t \in Threads : op[t].step = "setAccess" => op[t].page = NumPages

TypeInv == TypeOK /\ CallsHaveTargets /\ ListsFull

\* The lock is held by the thread inside the critical section.
LockInv == \A t \in Threads :
             op[t].step \in {"remapMap", "remapAccess", "remapRecord"} <=> lock = t

\* A registered object has one range, reserved, and was made.
RegistryInv ==
  /\ \A v \in VAs : registry[v] # NoObj => v \in reserved /\ registry[v] \in made
  /\ \A v, w \in VAs : registry[v] = registry[w] /\ registry[v] # NoObj => v = w

\* A tensor that is not yet, or no longer, registered belongs to one thread.
PrivateInv ==
  /\ \A t \in Threads : Private(t) => /\ op[t].va \in reserved
                                      /\ registry[op[t].va] = NoObj
  /\ \A t, u \in Threads : Private(t) /\ Private(u) /\ op[t].va = op[u].va => t = u

\* An object under construction is nobody else's.
ObjectInv ==
  /\ \A t \in Threads : Allocating(t) => /\ op[t].obj \in made
                                         /\ \A v \in VAs : registry[v] # op[t].obj
  /\ \A t, u \in Threads :
        Allocating(t) /\ Allocating(u) /\ op[t].obj = op[u].obj => t = u

\* The object a remap found before it took the lock is still registered.
RemapInv == \A t \in Threads : Remaps(t) => registry[op[t].va] = op[t].obj

\* The pages an allocation has been through are mapped as its list says.
AllocationInv ==
  \A t \in Threads, p \in Pages :
     Allocating(t) /\ p < op[t].page => mapped[op[t].va][p] = handlesOf[op[t].obj][p]

\* What the driver has at the page of the critical section, after each call.
CriticalInv ==
  \A t \in Threads :
     /\ op[t].step = "remapMap" => mapped[op[t].va][op[t].page] = NoHandle
     /\ op[t].step \in {"remapAccess", "remapRecord"} =>
           mapped[op[t].va][op[t].page] = op[t].handle
     /\ op[t].step \in {"remapMap", "remapAccess"} =>
           op[t].page \notin access[op[t].va]
     /\ op[t].step = "remapRecord" => op[t].page \in access[op[t].va]

BackedInv == /\ TypeInv /\ LockInv /\ RegistryInv /\ PrivateInv /\ ObjectInv
             /\ RemapInv /\ AllocationInv /\ CriticalInv /\ PagesBacked

------------------------------------------------------------------------------
(* Types.                                                                   *)

LEMMA InitTypeInv == Init => TypeInv
BY VmmAssumption
   DEF Init, TypeInv, TypeOK, CallsHaveTargets, ListsFull, Remaps, Allocating, Idle,
       Unmapped, Steps, Pages

LEMMA IdleCall == Idle \in Calls
BY VmmAssumption DEF Idle, Calls, Steps

\* What a call that starts writes into its thread.
LEMMA NewCall ==
  ASSUME NEW step \in Steps, NEW v \in VAs, NEW o \in Objs
  PROVE  [Idle EXCEPT !.step = step, !.va = v, !.obj = o] \in Calls
BY IdleCall DEF Calls

\* No step leaves the types.
LEMMA StepTypeInv == TypeInv /\ [Next]_vars => TypeInv'
<1> SUFFICES ASSUME TypeInv, [Next]_vars PROVE TypeInv'
  OBVIOUS
<1> USE DEF At, Goto, Return, driverVars, failureVars
<1>a. op \in [Threads -> Calls]
  BY DEF TypeInv, TypeOK, Calls
<1>b. /\ mapped \in [VAs -> [Pages -> Handles \cup {NoHandle}]]
      /\ handlesOf \in [Objs -> [Pages -> Handles \cup {NoHandle}]]
      /\ access \in [VAs -> SUBSET Pages]
      /\ \A t \in Threads : op[t].handle \in Handles \cup {NoHandle}
  BY <1>a DEF TypeInv, TypeOK, Calls
<1>1. ASSUME NEW t \in Threads, NEW v \in VAs, NEW o \in Objs, BeginAllocate(t, v, o)
      PROVE  TypeInv'
  <2> USE <1>1 DEF BeginAllocate
  <2>1. op' \in [Threads -> Calls]
    BY <1>a, NewCall DEF Steps
  <2>2. TypeOK'
    BY <2>1 DEF TypeInv, TypeOK, Calls
  <2>3. CallsHaveTargets'
    BY VmmAssumption DEF TypeInv, TypeOK, CallsHaveTargets, Steps, Idle, Pages
  <2>4. ListsFull'
    BY VmmAssumption DEF TypeInv, TypeOK, CallsHaveTargets, ListsFull, Remaps,
       Allocating,
                         Steps, Idle, Pages
  <2> QED
    BY <2>2, <2>3, <2>4 DEF TypeInv
<1>2. ASSUME NEW t \in Threads, NEW h \in Handles, CreatePage(t, h) PROVE TypeInv'
  <2> USE <1>2 DEF CreatePage
  <2>1. op' \in [Threads -> Calls]
    <3>1. [op[t] EXCEPT !.step = "map", !.handle = h] \in Calls
      BY <1>a DEF Calls, Steps
    <3>2. op' = [op EXCEPT ![t] = [op[t] EXCEPT !.step = "map", !.handle = h]]
      BY <1>a
    <3> QED
      BY <1>a, <3>1, <3>2
  <2>2. TypeOK'
    BY <2>1 DEF TypeInv, TypeOK, Calls
  <2>3. CallsHaveTargets'
    BY VmmAssumption DEF TypeInv, TypeOK, CallsHaveTargets, Steps, Idle, Pages
  <2>4. ListsFull'
    BY VmmAssumption DEF TypeInv, TypeOK, CallsHaveTargets, ListsFull, Remaps,
       Allocating,
                         Steps, Idle, Pages
  <2> QED
    BY <2>2, <2>3, <2>4 DEF TypeInv
<1>3. ASSUME NEW t \in Threads, MapPage(t) PROVE TypeInv'
  <2> USE <1>3 DEF MapPage
  <2>1. op[t].page \in Pages /\ op[t].handle \in Handles /\ op[t].va \in VAs
          /\ op[t].obj \in Objs
    BY DEF TypeInv, CallsHaveTargets
  <2>2. op[t].page + 1 \in 0..NumPages
    BY <2>1, VmmAssumption DEF Pages
  <2>3. /\ op'[t].va = op[t].va /\ op'[t].obj = op[t].obj
        /\ op'[t].page = op[t].page + 1 /\ op'[t].handle = NoHandle
        /\ op'[t].step = IF MorePages(t) THEN "create" ELSE "setAccess"
        /\ \A u \in Threads : u # t => op'[u] = op[u]
    BY <1>a DEF Calls
  <2>4. op' \in [Threads -> Calls]
    <3>1. [op[t] EXCEPT !.page = @ + 1, !.handle = NoHandle,
                        !.step = IF MorePages(t) THEN "create" ELSE "setAccess"] \in Calls
      BY <1>a, <2>2 DEF Calls, Steps
    <3> QED
      BY <1>a, <3>1
  <2>5. /\ mapped' \in [VAs -> [Pages -> Handles \cup {NoHandle}]]
        /\ handlesOf' \in [Objs -> [Pages -> Handles \cup {NoHandle}]]
    BY <1>b
  <2>6. TypeOK'
    BY <2>4, <2>5 DEF TypeInv, TypeOK, Calls
  <2>7. CallsHaveTargets'
    BY <2>1, <2>2, <2>3, VmmAssumption DEF TypeInv, CallsHaveTargets, MorePages, Pages
  <2>8. ListsFull'
    <3>1. /\ handlesOf'[op[t].obj][op[t].page] = op[t].handle
          /\ \A o \in Objs, p \in Pages :
                o # op[t].obj \/ p # op[t].page => handlesOf'[o][p] = handlesOf[o][p]
      BY <1>b, <2>1
    <3>2. \A o \in Objs, p \in Pages :
             handlesOf[o][p] \in Handles => handlesOf'[o][p] \in Handles
      BY <2>1, <3>1
    <3>3. \A v \in VAs, p \in Pages :
             registry'[v] # NoObj => handlesOf'[registry'[v]][p] \in Handles
      BY <3>2 DEF TypeInv, TypeOK, ListsFull
    <3>4. \A u \in Threads, p \in Pages :
             Remaps(u)' => handlesOf'[op'[u].obj][p] \in Handles
      BY <2>3, <3>2 DEF TypeInv, CallsHaveTargets, ListsFull, Remaps
    <3>5. ASSUME NEW u \in Threads, NEW p \in Pages, Allocating(u)', p < op'[u].page
          PROVE  handlesOf'[op'[u].obj][p] \in Handles
      <4>1. CASE u # t
        BY <2>3, <3>2, <3>5, <4>1 DEF TypeInv, CallsHaveTargets, ListsFull, Allocating
      <4>2. CASE u = t /\ p = op[t].page
        BY <2>1, <2>3, <3>1, <4>2
      <4>3. CASE u = t /\ p # op[t].page
        <5>1. p < op[t].page
          BY <2>1, <2>3, <3>5, <4>3, VmmAssumption DEF Pages
        <5> QED
          BY <2>1, <2>3, <3>2, <4>3, <5>1 DEF TypeInv, ListsFull, Allocating
      <4> QED
        BY <4>1, <4>2, <4>3
    <3>6. \A u \in Threads : op'[u].step = "setAccess" => op'[u].page = NumPages
      BY <2>1, <2>3, VmmAssumption DEF TypeInv, ListsFull, MorePages, Pages
    <3> QED
      BY <3>3, <3>4, <3>5, <3>6 DEF ListsFull
  <2> QED
    BY <2>6, <2>7, <2>8 DEF TypeInv
<1>4. ASSUME NEW t \in Threads, FinishAllocate(t) PROVE TypeInv'
  <2> USE <1>4 DEF FinishAllocate
  <2>1. op' \in [Threads -> Calls]
    BY <1>a, VmmAssumption DEF Calls, Steps, Idle, Pages
  <2>2. TypeOK'
    BY <2>1 DEF TypeInv, TypeOK, Calls
  <2>3. CallsHaveTargets'
    BY VmmAssumption DEF TypeInv, TypeOK, CallsHaveTargets, Steps, Idle, Pages
  <2>4. ListsFull'
    BY VmmAssumption DEF TypeInv, TypeOK, CallsHaveTargets, ListsFull, Remaps,
       Allocating,
                         Steps, Idle, Pages
  <2> QED
    BY <2>2, <2>3, <2>4 DEF TypeInv
<1>5. ASSUME NEW t \in Threads, AllocateFails(t) PROVE TypeInv'
  <2> USE <1>5 DEF AllocateFails
  <2>1. op' \in [Threads -> Calls]
    BY <1>a, VmmAssumption DEF Calls, Steps, Idle, Pages
  <2>2. TypeOK'
    <3>1. op[t].obj \in Objs
      BY DEF TypeInv, CallsHaveTargets
    <3>2. lost' \subseteq Handles
      BY <1>b, <3>1 DEF TypeInv, TypeOK
    <3> QED
      BY <2>1, <3>2 DEF TypeInv, TypeOK, Calls
  <2>3. CallsHaveTargets'
    BY VmmAssumption DEF TypeInv, TypeOK, CallsHaveTargets, Steps, Idle, Pages
  <2>4. ListsFull'
    BY VmmAssumption DEF TypeInv, TypeOK, CallsHaveTargets, ListsFull, Remaps,
       Allocating,
                         Steps, Idle, Pages
  <2> QED
    BY <2>2, <2>3, <2>4 DEF TypeInv
<1>6. ASSUME NEW t \in Threads, NEW v \in VAs, NEW p \in Pages, NEW h \in Handles,
             BeginRemap(t, v, p, h)
      PROVE  TypeInv'
  <2> USE <1>6 DEF BeginRemap
  <2>1. op' \in [Threads -> Calls]
    <3>1. registry[v] \in Objs /\ p \in 0..NumPages
      BY VmmAssumption DEF TypeInv, TypeOK, Pages
    <3>2. [step |-> "remapLock", va |-> v, obj |-> registry[v],
           page |-> p, handle |-> h] \in Calls
      BY <3>1 DEF Calls, Steps
    <3> QED
      BY <1>a, <3>2
  <2>2. TypeOK'
    BY <2>1 DEF TypeInv, TypeOK, Calls
  <2>3. CallsHaveTargets'
    BY VmmAssumption DEF TypeInv, TypeOK, CallsHaveTargets, Steps, Idle, Pages
  <2>4. ListsFull'
    BY VmmAssumption DEF TypeInv, TypeOK, CallsHaveTargets, ListsFull, Remaps,
       Allocating,
                         Steps, Idle, Pages
  <2> QED
    BY <2>2, <2>3, <2>4 DEF TypeInv
<1>7. ASSUME NEW t \in Threads, RemapUnmap(t) PROVE TypeInv'
  <2> USE <1>7 DEF RemapUnmap, Acquire, MappedAt
  <2>1. op' \in [Threads -> Calls]
    BY <1>a, VmmAssumption DEF Calls, Steps, Idle, Pages
  <2>2. /\ mapped' \in [VAs -> [Pages -> Handles \cup {NoHandle}]]
        /\ access' \in [VAs -> SUBSET Pages]
    BY <1>b DEF Idle
  <2>3. TypeOK'
    BY <2>1, <2>2 DEF TypeInv, TypeOK, Calls
  <2>4. CallsHaveTargets'
    BY VmmAssumption DEF TypeInv, TypeOK, CallsHaveTargets, Steps, Idle, Pages
  <2>5. ListsFull'
    BY VmmAssumption DEF TypeInv, TypeOK, CallsHaveTargets, ListsFull, Remaps,
       Allocating,
                         Steps, Idle, Pages
  <2> QED
    BY <2>3, <2>4, <2>5 DEF TypeInv
<1>8. ASSUME NEW t \in Threads, RemapMap(t) PROVE TypeInv'
  <2> USE <1>8 DEF RemapMap, MappedAt
  <2>1. op' \in [Threads -> Calls]
    BY <1>a, VmmAssumption DEF Calls, Steps, Idle, Pages
  <2>2. mapped' \in [VAs -> [Pages -> Handles \cup {NoHandle}]]
    BY <1>b DEF Idle
  <2>3. TypeOK'
    BY <2>1, <2>2 DEF TypeInv, TypeOK, Calls
  <2>4. CallsHaveTargets'
    BY VmmAssumption DEF TypeInv, TypeOK, CallsHaveTargets, Steps, Idle, Pages
  <2>5. ListsFull'
    BY VmmAssumption DEF TypeInv, TypeOK, CallsHaveTargets, ListsFull, Remaps,
       Allocating,
                         Steps, Idle, Pages
  <2> QED
    BY <2>3, <2>4, <2>5 DEF TypeInv
<1>9. ASSUME NEW t \in Threads, RemapAccess(t) PROVE TypeInv'
  <2> USE <1>9 DEF RemapAccess, MappedAt
  <2>1. op' \in [Threads -> Calls]
    BY <1>a, VmmAssumption DEF Calls, Steps, Idle, Pages
  <2>2. access' \in [VAs -> SUBSET Pages]
    BY <1>b DEF TypeInv, CallsHaveTargets
  <2>3. TypeOK'
    BY <2>1, <2>2 DEF TypeInv, TypeOK, Calls
  <2>4. CallsHaveTargets'
    BY VmmAssumption DEF TypeInv, TypeOK, CallsHaveTargets, Steps, Idle, Pages
  <2>5. ListsFull'
    BY VmmAssumption DEF TypeInv, TypeOK, CallsHaveTargets, ListsFull, Remaps,
       Allocating,
                         Steps, Idle, Pages
  <2> QED
    BY <2>3, <2>4, <2>5 DEF TypeInv
<1>10. ASSUME NEW t \in Threads, RemapRecord(t) PROVE TypeInv'
  <2> USE <1>10 DEF RemapRecord
  <2>1. op' \in [Threads -> Calls]
    BY <1>a, VmmAssumption DEF Calls, Steps, Idle, Pages
  <2>2. handlesOf' \in [Objs -> [Pages -> Handles \cup {NoHandle}]]
    BY <1>b DEF Idle
  <2>3. TypeOK'
    <3>1. handlesOf[op[t].obj][op[t].page] \in Handles
      BY DEF TypeInv, CallsHaveTargets, ListsFull, Remaps
    <3> QED
      BY <2>1, <2>2, <3>1 DEF TypeInv, TypeOK, Calls
  <2>4. CallsHaveTargets'
    BY VmmAssumption DEF TypeInv, TypeOK, CallsHaveTargets, Steps, Idle, Pages
  <2>5. ListsFull'
    BY VmmAssumption DEF TypeInv, TypeOK, CallsHaveTargets, ListsFull, Remaps,
       Allocating,
                         Steps, Idle, Pages
  <2> QED
    BY <2>3, <2>4, <2>5 DEF TypeInv
<1>11. ASSUME NEW t \in Threads, RemapFails(t) PROVE TypeInv'
  <2> USE <1>11 DEF RemapFails, MappedAt
  <2>1. op' \in [Threads -> Calls]
    BY <1>a, VmmAssumption DEF Calls, Steps, Idle, Pages
  <2>2. TypeOK'
    <3>1. op[t].handle \in Handles /\ op[t].va \in VAs /\ op[t].page \in Pages
      BY DEF TypeInv, CallsHaveTargets
    <3>2. holes' \subseteq VAs \X Pages
      BY <3>1 DEF TypeInv, TypeOK
    <3> QED
      BY <2>1, <3>1, <3>2 DEF TypeInv, TypeOK, Calls
  <2>3. CallsHaveTargets'
    BY VmmAssumption DEF TypeInv, TypeOK, CallsHaveTargets, Steps, Idle, Pages
  <2>4. ListsFull'
    BY VmmAssumption DEF TypeInv, TypeOK, CallsHaveTargets, ListsFull, Remaps,
       Allocating,
                         Steps, Idle, Pages
  <2> QED
    BY <2>2, <2>3, <2>4 DEF TypeInv
<1>12. ASSUME NEW t \in Threads, NEW v \in VAs, BeginFree(t, v) PROVE TypeInv'
  <2> USE <1>12 DEF BeginFree
  <2>1. op' \in [Threads -> Calls]
    <3>1. registry[v] \in Objs
      BY DEF TypeInv, TypeOK
    <3> QED
      BY <1>a, <3>1, NewCall DEF Steps
  <2>2. TypeOK'
    BY <2>1 DEF TypeInv, TypeOK, Calls
  <2>3. CallsHaveTargets'
    BY VmmAssumption DEF TypeInv, TypeOK, CallsHaveTargets, Steps, Idle, Pages
  <2>4. ListsFull'
    BY VmmAssumption DEF TypeInv, TypeOK, CallsHaveTargets, ListsFull, Remaps,
       Allocating,
                         Steps, Idle, Pages
  <2> QED
    BY <2>2, <2>3, <2>4 DEF TypeInv
<1>13. ASSUME NEW t \in Threads, FreeUnmap(t) PROVE TypeInv'
  <2> USE <1>13 DEF FreeUnmap, Unmapped
  <2>1. op' \in [Threads -> Calls]
    <3>1. "freeRelease" \in Steps /\ op[t] \in Calls
      BY <1>a DEF Steps
    <3>2. [op[t] EXCEPT !.step = "freeRelease"] \in Calls
      BY <3>1 DEF Calls
    <3>3. op' = [op EXCEPT ![t] = [op[t] EXCEPT !.step = "freeRelease"]]
      BY <1>a
    <3> QED
      BY <1>a, <3>2, <3>3
  <2>2. mapped' \in [VAs -> [Pages -> Handles \cup {NoHandle}]]
    BY <1>b DEF Idle
  <2>3. TypeOK'
    BY <2>1, <2>2 DEF TypeInv, TypeOK, Calls
  <2>4. CallsHaveTargets'
    BY VmmAssumption DEF TypeInv, TypeOK, CallsHaveTargets, Steps, Idle, Pages
  <2>5. ListsFull'
    BY VmmAssumption DEF TypeInv, TypeOK, CallsHaveTargets, ListsFull, Remaps,
       Allocating,
                         Steps, Idle, Pages
  <2> QED
    BY <2>3, <2>4, <2>5 DEF TypeInv
<1>14. ASSUME NEW t \in Threads, FreeRelease(t) PROVE TypeInv'
  <2> USE <1>14 DEF FreeRelease
  <2>1. op' \in [Threads -> Calls]
    BY <1>a, VmmAssumption DEF Calls, Steps, Idle, Pages
  <2>2. releases' \in [Handles -> Nat]
    <3>1. IsFiniteSet(Pages)
      <4>1. 0 \in Int /\ NumPages - 1 \in Int
        BY VmmAssumption
      <4> QED
        BY <4>1, FS_Interval DEF Pages
    <3>2. ASSUME NEW h \in Handles
          PROVE  Cardinality({p \in Pages : handlesOf[op[t].obj][p] = h}) \in Nat
      BY <3>1, FS_Subset, FS_CardinalityType
    <3>3. releases \in [Handles -> Nat]
      BY DEF TypeInv, TypeOK
    <3>4. ASSUME NEW h \in Handles
          PROVE  releases[h] + Cardinality({p \in Pages : handlesOf[op[t].obj][p] = h})
                   \in Nat
      <4> DEFINE n == Cardinality({p \in Pages : handlesOf[op[t].obj][p] = h})
      <4>1. n \in Nat
        BY <3>2
      <4> HIDE DEF n
      <4>2. releases[h] + n \in Nat
        BY <3>3, <4>1
      <4> QED
        BY <4>2 DEF n
    <3> QED
      BY <3>4
  <2>3. TypeOK'
    <3>1. UNCHANGED <<registry, handlesOf, made, lock, callers, reserved, mapped, access,
                      created, lost, holes>>
      OBVIOUS
    <3> HIDE DEF FreeRelease
    <3> QED
      BY <2>1, <2>2, <3>1 DEF TypeInv, TypeOK, Calls
  <2>4. CallsHaveTargets'
    BY VmmAssumption DEF TypeInv, TypeOK, CallsHaveTargets, Steps, Idle, Pages
  <2>5. ListsFull'
    BY VmmAssumption DEF TypeInv, TypeOK, CallsHaveTargets, ListsFull, Remaps,
       Allocating,
                         Steps, Idle, Pages
  <2> QED
    BY <2>3, <2>4, <2>5 DEF TypeInv
<1>15. ASSUME NEW t \in Threads, FreeAddress(t) PROVE TypeInv'
  <2> USE <1>15 DEF FreeAddress
  <2>1. op' \in [Threads -> Calls]
    BY <1>a, VmmAssumption DEF Calls, Steps, Idle, Pages
  <2>2. TypeOK'
    BY <2>1 DEF TypeInv, TypeOK, Calls
  <2>3. CallsHaveTargets'
    BY VmmAssumption DEF TypeInv, TypeOK, CallsHaveTargets, Steps, Idle, Pages
  <2>4. ListsFull'
    BY VmmAssumption DEF TypeInv, TypeOK, CallsHaveTargets, ListsFull, Remaps,
       Allocating,
                         Steps, Idle, Pages
  <2> QED
    BY <2>2, <2>3, <2>4 DEF TypeInv
<1>16. ASSUME NEW h \in Handles, CreatePhysicalHandle(h) PROVE TypeInv'
  BY <1>16 DEF CreatePhysicalHandle, TypeInv, TypeOK, CallsHaveTargets, ListsFull,
     Remaps, Allocating
<1>17. ASSUME NEW h \in Handles, ReleasePhysicalHandle(h) PROVE TypeInv'
  BY <1>17 DEF ReleasePhysicalHandle, TypeInv, TypeOK, CallsHaveTargets, ListsFull,
     Remaps, Allocating
<1>18. CASE UNCHANGED vars
  BY <1>18 DEF vars, TypeInv, TypeOK, CallsHaveTargets, ListsFull,
     Remaps, Allocating
<1> QED
  BY <1>1, <1>2, <1>3, <1>4, <1>5, <1>6, <1>7, <1>8, <1>9, <1>10, <1>11, <1>12, <1>13,
     <1>14, <1>15, <1>16, <1>17, <1>18
     DEF Next, Remap, Free

LEMMA TypesHold == Spec => []TypeInv
BY InitTypeInv, StepTypeInv, PTL DEF Spec

\* Every reachable state is well typed: remap_block never returns a hole of the
\* list, an allocation never goes past its last page.
THEOREM TypeCorrect == Spec => []TypeOK
BY TypesHold, PTL DEF TypeInv

------------------------------------------------------------------------------
(* Pages stay backed.                                                       *)

\* The invariant behind PagesBacked holds at the start and in every step: an
\* object, its range and its pages belong to the registry or to one thread.
LEMMA InitBacked == Init => BackedInv
BY InitTypeInv, VmmAssumption
   DEF Init, BackedInv, LockInv, RegistryInv, PrivateInv, ObjectInv, RemapInv,
       AllocationInv, CriticalInv, PagesBacked, Private, Allocating, Freeing,
       Remaps, Idle

LEMMA StepBacked ==
  ASSUME Overlap = FALSE, BackedInv, [Next]_vars
  PROVE  BackedInv'
<1> USE DEF At, Goto, Return, driverVars, failureVars, BackedInv, TypeInv, TypeOK, CallsHaveTargets
<1>a. TypeInv'
  BY StepTypeInv
<1>1. ASSUME NEW t \in Threads, NEW v \in VAs, NEW o \in Objs, BeginAllocate(t, v, o)
      PROVE  BackedInv'
  <2> USE <1>1 DEF BeginAllocate, Idle
  <2>1. LockInv'
    BY DEF LockInv
  <2>2. RegistryInv'
    BY DEF RegistryInv
  <2>3. PrivateInv'
    BY DEF PrivateInv, RegistryInv, Private, Allocating, Freeing
  <2>4. ObjectInv'
    BY VmmAssumption DEF ObjectInv, RegistryInv, Allocating
  <2>5. RemapInv'
    BY DEF RemapInv, Remaps
  <2>6. AllocationInv'
    BY DEF AllocationInv, Pages, Allocating
  <2>7. CriticalInv'
    BY DEF CriticalInv
  <2>8. PagesBacked'
    BY DEF PagesBacked, InCriticalSection, LockInv, RegistryInv
  <2> QED
    BY <1>a, <2>1, <2>2, <2>3, <2>4, <2>5, <2>6, <2>7, <2>8
<1>2. ASSUME NEW t \in Threads, NEW h \in Handles, CreatePage(t, h) PROVE BackedInv'
  <2> USE <1>2 DEF CreatePage
  <2>1. LockInv'
    BY DEF LockInv
  <2>2. RegistryInv'
    BY DEF RegistryInv
  <2>3. PrivateInv'
    BY DEF PrivateInv, Private, Allocating, Freeing
  <2>4. ObjectInv'
    BY DEF ObjectInv, Allocating
  <2>5. RemapInv'
    BY DEF RemapInv, Remaps
  <2>6. AllocationInv'
    BY DEF AllocationInv, Allocating
  <2>7. CriticalInv'
    BY DEF CriticalInv
  <2>8. PagesBacked'
    BY DEF PagesBacked, InCriticalSection
  <2> QED
    BY <1>a, <2>1, <2>2, <2>3, <2>4, <2>5, <2>6, <2>7, <2>8
<1>3. ASSUME NEW t \in Threads, MapPage(t) PROVE BackedInv'
  <2> USE <1>3 DEF MapPage
  <2>1. /\ op[t].page \in Pages /\ op[t].handle \in Handles /\ op[t].va \in VAs
        /\ op[t].obj \in Objs
    OBVIOUS
  <2>2. /\ op'[t].va = op[t].va /\ op'[t].obj = op[t].obj
        /\ op'[t].page = op[t].page + 1
        /\ op'[t].step \in {"create", "setAccess"}
        /\ \A u \in Threads : u # t => op'[u] = op[u]
    OBVIOUS
  <2>3. /\ mapped'[op[t].va][op[t].page] = op[t].handle
        /\ \A v \in VAs, p \in Pages :
              v # op[t].va \/ p # op[t].page => mapped'[v][p] = mapped[v][p]
    OBVIOUS
  <2>4. /\ handlesOf'[op[t].obj][op[t].page] = op[t].handle
        /\ \A o \in Objs, p \in Pages :
              o # op[t].obj \/ p # op[t].page => handlesOf'[o][p] = handlesOf[o][p]
    OBVIOUS
  <2>5. LockInv'
    BY <2>2 DEF LockInv
  <2>6. RegistryInv'
    BY DEF RegistryInv
  <2>7. PrivateInv'
    BY <2>2 DEF PrivateInv, Private, Allocating, Freeing
  <2>8. ObjectInv'
    BY <2>2 DEF ObjectInv, Allocating
  <2>9. RemapInv'
    BY <2>2 DEF RemapInv, Remaps
  <2>10. AllocationInv'
    <3> SUFFICES ASSUME NEW u \in Threads, NEW p \in Pages, Allocating(u)', p < op'[u].page
                 PROVE  mapped'[op'[u].va][p] = handlesOf'[op'[u].obj][p]
      BY DEF AllocationInv
    <3>1. CASE u # t
      <4>1. op[u].va # op[t].va /\ op[u].obj # op[t].obj
        BY <2>2, <3>1 DEF PrivateInv, ObjectInv, Private, Allocating
      <4> QED
        BY <2>2, <2>3, <2>4, <3>1, <4>1 DEF AllocationInv, Allocating
    <3>2. CASE u = t /\ p = op[t].page
      BY <2>2, <2>3, <2>4, <3>2
    <3>3. CASE u = t /\ p # op[t].page
      <4>1. p < op[t].page
        BY <2>1, <2>2, <3>3, VmmAssumption DEF Pages
      <4> QED
        BY <2>1, <2>2, <2>3, <2>4, <3>3, <4>1 DEF AllocationInv, Allocating
    <3> QED
      BY <3>1, <3>2, <3>3
  <2>11. CriticalInv'
    <3>1. ASSUME NEW u \in Threads, Remaps(u) PROVE op[u].va # op[t].va
      BY <3>1, VmmAssumption DEF RemapInv, PrivateInv, Private, Allocating, Remaps
    <3> QED
      BY <2>2, <2>3, <3>1 DEF CriticalInv, Remaps
  <2>12. PagesBacked'
    <3>1. registry[op[t].va] = NoObj /\ \A v \in VAs : registry[v] # op[t].obj
      BY DEF PrivateInv, ObjectInv, Private, Allocating
    <3>2. \A v \in VAs, p \in Pages :
             InCriticalSection(v, p) => InCriticalSection(v, p)'
      BY <2>2 DEF InCriticalSection, LockInv
    <3> QED
      BY <2>3, <2>4, <3>1, <3>2 DEF PagesBacked
  <2> QED
    BY <1>a, <2>5, <2>6, <2>7, <2>8, <2>9, <2>10, <2>11, <2>12
<1>4. ASSUME NEW t \in Threads, FinishAllocate(t) PROVE BackedInv'
  <2> USE <1>4 DEF FinishAllocate, Idle
  <2>1. LockInv'
    BY DEF LockInv
  <2>2. RegistryInv'
    BY DEF RegistryInv, ObjectInv, PrivateInv, Private, Allocating
  <2>3. PrivateInv'
    BY DEF PrivateInv, Private, Allocating, Freeing
  <2>4. ObjectInv'
    BY DEF ObjectInv, Allocating
  <2>5. RemapInv'
    BY VmmAssumption DEF RemapInv, PrivateInv, Private, Allocating, Remaps
  <2>6. AllocationInv'
    BY DEF AllocationInv, Allocating
  <2>7. CriticalInv'
    <3>1. ASSUME NEW u \in Threads, Remaps(u) PROVE op[u].va # op[t].va
      BY <3>1, VmmAssumption DEF PrivateInv, RemapInv, Private, Allocating, Remaps
    <3> QED
      BY <3>1 DEF CriticalInv, Remaps
  <2>8. PagesBacked'
    <3>1. /\ registry'[op[t].va] = op[t].obj
          /\ \A v \in VAs : v # op[t].va => registry'[v] = registry[v]
      OBVIOUS
    <3>2. \A p \in Pages : p < op[t].page
      BY VmmAssumption DEF ListsFull, Pages
    <3>3. ASSUME NEW p \in Pages
          PROVE  /\ mapped[op[t].va][p] = handlesOf[op[t].obj][p]
                 /\ handlesOf[op[t].obj][p] \in Handles
      BY <3>2 DEF AllocationInv, ListsFull, Allocating
    <3>4. /\ access'[op[t].va] = Pages
          /\ \A v \in VAs : v # op[t].va => access'[v] = access[v]
      OBVIOUS
    <3>5. \A v \in VAs, p \in Pages :
             InCriticalSection(v, p) => InCriticalSection(v, p)'
      BY DEF InCriticalSection, LockInv
    <3>6. ASSUME NEW v \in VAs, NEW p \in Pages,
                 registry'[v] # NoObj, ~InCriticalSection(v, p)'
          PROVE  /\ p \in access'[v] => /\ mapped[v][p] # NoHandle
                                        /\ mapped[v][p] = handlesOf[registry'[v]][p]
                 /\ p \in access'[v] \/ <<v, p>> \in holes
      BY <3>1, <3>3, <3>4, <3>5, <3>6, VmmAssumption DEF PagesBacked
    <3> QED
      BY <3>6 DEF PagesBacked
  <2> QED
    BY <1>a, <2>1, <2>2, <2>3, <2>4, <2>5, <2>6, <2>7, <2>8
<1>5. ASSUME NEW t \in Threads, AllocateFails(t) PROVE BackedInv'
  <2> USE <1>5 DEF AllocateFails, Idle
  <2>1. LockInv'
    BY DEF LockInv
  <2>2. RegistryInv'
    BY DEF RegistryInv
  <2>3. PrivateInv'
    BY DEF PrivateInv, Private, Allocating, Freeing
  <2>4. ObjectInv'
    BY DEF ObjectInv, Allocating
  <2>5. RemapInv'
    BY DEF RemapInv, Remaps
  <2>6. AllocationInv'
    BY DEF AllocationInv, Allocating
  <2>7. CriticalInv'
    BY DEF CriticalInv
  <2>8. PagesBacked'
    <3>1. \A v \in VAs, p \in Pages :
             InCriticalSection(v, p) => InCriticalSection(v, p)'
      BY DEF InCriticalSection, LockInv
    <3>2. UNCHANGED <<registry, handlesOf, access, mapped, holes>>
      OBVIOUS
    <3> QED
      BY <3>1, <3>2 DEF PagesBacked
  <2> QED
    BY <1>a, <2>1, <2>2, <2>3, <2>4, <2>5, <2>6, <2>7, <2>8
<1>6. ASSUME NEW t \in Threads, NEW v \in VAs, NEW p \in Pages, NEW h \in Handles,
             BeginRemap(t, v, p, h)
      PROVE  BackedInv'
  <2> USE <1>6 DEF BeginRemap
  <2>1. LockInv'
    BY DEF LockInv
  <2>2. RegistryInv'
    BY DEF RegistryInv
  <2>3. PrivateInv'
    BY DEF PrivateInv, Private, Allocating, Freeing
  <2>4. ObjectInv'
    BY DEF ObjectInv, Allocating
  <2>5. RemapInv'
    BY DEF RemapInv, Remaps
  <2>6. AllocationInv'
    BY DEF AllocationInv, Allocating
  <2>7. CriticalInv'
    BY DEF CriticalInv
  <2>8. PagesBacked'
    BY DEF PagesBacked, InCriticalSection, LockInv
  <2> QED
    BY <1>a, <2>1, <2>2, <2>3, <2>4, <2>5, <2>6, <2>7, <2>8
<1>7. ASSUME NEW t \in Threads, RemapUnmap(t) PROVE BackedInv'
  <2> USE <1>7 DEF RemapUnmap, Acquire, MappedAt
  <2>1. LockInv'
    BY VmmAssumption DEF LockInv
  <2>2. RegistryInv'
    BY DEF RegistryInv
  <2>3. PrivateInv'
    BY DEF PrivateInv, Private, Allocating, Freeing
  <2>4. ObjectInv'
    BY DEF ObjectInv, Allocating
  <2>5. RemapInv'
    BY DEF RemapInv, Remaps
  <2>6. AllocationInv'
    BY VmmAssumption DEF AllocationInv, PrivateInv, RemapInv, Private, Allocating,
       Remaps
  <2>7. CriticalInv'
    BY VmmAssumption DEF CriticalInv, LockInv
  <2>8. PagesBacked'
    BY VmmAssumption DEF PagesBacked, InCriticalSection
  <2> QED
    BY <1>a, <2>1, <2>2, <2>3, <2>4, <2>5, <2>6, <2>7, <2>8
<1>8. ASSUME NEW t \in Threads, RemapMap(t) PROVE BackedInv'
  <2> USE <1>8 DEF RemapMap, MappedAt
  <2>1. LockInv'
    BY DEF LockInv
  <2>2. RegistryInv'
    BY DEF RegistryInv
  <2>3. PrivateInv'
    BY DEF PrivateInv, Private, Allocating, Freeing
  <2>4. ObjectInv'
    BY DEF ObjectInv, Allocating
  <2>5. RemapInv'
    BY DEF RemapInv, Remaps
  <2>6. AllocationInv'
    BY VmmAssumption DEF AllocationInv, PrivateInv, RemapInv, Private, Allocating,
       Remaps
  <2>7. CriticalInv'
    BY DEF CriticalInv, LockInv
  <2>8. PagesBacked'
    BY DEF PagesBacked, InCriticalSection
  <2> QED
    BY <1>a, <2>1, <2>2, <2>3, <2>4, <2>5, <2>6, <2>7, <2>8
<1>9. ASSUME NEW t \in Threads, RemapAccess(t) PROVE BackedInv'
  <2> USE <1>9 DEF RemapAccess, MappedAt
  <2>1. LockInv'
    BY DEF LockInv
  <2>2. RegistryInv'
    BY DEF RegistryInv
  <2>3. PrivateInv'
    BY DEF PrivateInv, Private, Allocating, Freeing
  <2>4. ObjectInv'
    BY DEF ObjectInv, Allocating
  <2>5. RemapInv'
    BY DEF RemapInv, Remaps
  <2>6. AllocationInv'
    BY DEF AllocationInv, Allocating
  <2>7. CriticalInv'
    BY DEF CriticalInv, LockInv
  <2>8. PagesBacked'
    BY DEF PagesBacked, InCriticalSection, LockInv
  <2> QED
    BY <1>a, <2>1, <2>2, <2>3, <2>4, <2>5, <2>6, <2>7, <2>8
<1>10. ASSUME NEW t \in Threads, RemapRecord(t) PROVE BackedInv'
  <2> USE <1>10 DEF RemapRecord, Idle
  <2>1. LockInv'
    BY VmmAssumption DEF LockInv
  <2>2. RegistryInv'
    BY DEF RegistryInv
  <2>3. PrivateInv'
    BY DEF PrivateInv, Private, Allocating, Freeing
  <2>4. ObjectInv'
    BY DEF ObjectInv, Allocating
  <2>5. RemapInv'
    BY DEF RemapInv, Remaps
  <2>6. AllocationInv'
    BY DEF AllocationInv, PrivateInv, ObjectInv, RemapInv, Allocating, Remaps
  <2>7. CriticalInv'
    BY DEF CriticalInv
  <2>8. PagesBacked'
    BY VmmAssumption DEF PagesBacked, InCriticalSection, CriticalInv, LockInv,
       RegistryInv, RemapInv, Remaps
  <2> QED
    BY <1>a, <2>1, <2>2, <2>3, <2>4, <2>5, <2>6, <2>7, <2>8
<1>11. ASSUME NEW t \in Threads, RemapFails(t) PROVE BackedInv'
  <2> USE <1>11 DEF RemapFails, MappedAt, Idle
  <2>1. LockInv'
    BY VmmAssumption DEF LockInv
  <2>2. RegistryInv'
    BY DEF RegistryInv
  <2>3. PrivateInv'
    BY DEF PrivateInv, Private, Allocating, Freeing
  <2>4. ObjectInv'
    BY DEF ObjectInv, Allocating
  <2>5. RemapInv'
    BY DEF RemapInv, Remaps
  <2>6. AllocationInv'
    BY DEF AllocationInv, Allocating
  <2>7. CriticalInv'
    BY DEF CriticalInv
  <2>8. PagesBacked'
    <3>1. ASSUME NEW v \in VAs, NEW p \in Pages, registry[v] # NoObj,
                 ~InCriticalSection(v, p)'
          PROVE  \/ ~InCriticalSection(v, p)
                 \/ /\ op[t].va = v /\ op[t].page = p
                    /\ op[t].step \in {"remapMap", "remapAccess"}
      BY <3>1, VmmAssumption DEF InCriticalSection, LockInv
    <3> QED
      BY <3>1 DEF PagesBacked, CriticalInv
  <2> QED
    BY <1>a, <2>1, <2>2, <2>3, <2>4, <2>5, <2>6, <2>7, <2>8
<1>12. ASSUME NEW t \in Threads, NEW v \in VAs, BeginFree(t, v) PROVE BackedInv'
  <2> USE <1>12 DEF BeginFree, Remapping, Idle
  <2>1. LockInv'
    BY DEF LockInv
  <2>2. RegistryInv'
    BY DEF RegistryInv
  <2>3. PrivateInv'
    BY DEF PrivateInv, RegistryInv, Private, Allocating, Freeing
  <2>4. ObjectInv'
    BY VmmAssumption DEF ObjectInv, Allocating
  <2>5. RemapInv'
    BY DEF RemapInv, Remaps
  <2>6. AllocationInv'
    BY DEF AllocationInv, Allocating
  <2>7. CriticalInv'
    BY DEF CriticalInv
  <2>8. PagesBacked'
    BY DEF PagesBacked, InCriticalSection, LockInv
  <2> QED
    BY <1>a, <2>1, <2>2, <2>3, <2>4, <2>5, <2>6, <2>7, <2>8
<1>13. ASSUME NEW t \in Threads, FreeUnmap(t) PROVE BackedInv'
  <2> USE <1>13 DEF FreeUnmap
  <2>1. LockInv'
    BY DEF LockInv
  <2>2. RegistryInv'
    BY DEF RegistryInv
  <2>3. PrivateInv'
    BY DEF PrivateInv, Private, Allocating, Freeing
  <2>4. ObjectInv'
    BY DEF ObjectInv, Allocating
  <2>5. RemapInv'
    BY DEF RemapInv, Remaps
  <2>6. AllocationInv'
    BY DEF AllocationInv, PrivateInv, Private, Allocating, Freeing
  <2>7. CriticalInv'
    <3>1. ASSUME NEW u \in Threads, Remaps(u) PROVE op[u].va # op[t].va
      BY <3>1, VmmAssumption DEF PrivateInv, RemapInv, Private, Freeing, Remaps
    <3>2. ASSUME NEW u \in Threads, Remaps(u)
          PROVE  /\ op'[u] = op[u]
                 /\ mapped'[op[u].va] = mapped[op[u].va]
                 /\ access'[op[u].va] = access[op[u].va]
      BY <3>1, <3>2 DEF Remaps
    <3>3. \A u \in Threads : op'[u].step \in {"remapMap", "remapAccess", "remapRecord"}
                              => Remaps(u)
      BY DEF Remaps
    <3> QED
      BY <3>2, <3>3 DEF CriticalInv
  <2>8. PagesBacked'
    BY DEF PagesBacked, InCriticalSection, RegistryInv, PrivateInv, Private,
       Allocating, Freeing
  <2> QED
    BY <1>a, <2>1, <2>2, <2>3, <2>4, <2>5, <2>6, <2>7, <2>8
<1>14. ASSUME NEW t \in Threads, FreeRelease(t) PROVE BackedInv'
  <2> USE <1>14 DEF FreeRelease
  <2>1. LockInv'
    BY DEF LockInv
  <2>2. RegistryInv'
    BY DEF RegistryInv
  <2>3. PrivateInv'
    BY DEF PrivateInv, Private, Allocating, Freeing
  <2>4. ObjectInv'
    BY DEF ObjectInv, Allocating
  <2>5. RemapInv'
    BY DEF RemapInv, Remaps
  <2>6. AllocationInv'
    BY DEF AllocationInv, Allocating
  <2>7. CriticalInv'
    BY DEF CriticalInv
  <2>8. PagesBacked'
    BY DEF PagesBacked, InCriticalSection
  <2> QED
    BY <1>a, <2>1, <2>2, <2>3, <2>4, <2>5, <2>6, <2>7, <2>8
<1>15. ASSUME NEW t \in Threads, FreeAddress(t) PROVE BackedInv'
  <2> USE <1>15 DEF FreeAddress, Idle
  <2>1. LockInv'
    BY DEF LockInv
  <2>2. RegistryInv'
    BY DEF RegistryInv, PrivateInv, Private, Freeing
  <2>3. PrivateInv'
    BY DEF PrivateInv, Private, Allocating, Freeing
  <2>4. ObjectInv'
    BY DEF ObjectInv, Allocating
  <2>5. RemapInv'
    BY DEF RemapInv, Remaps
  <2>6. AllocationInv'
    BY DEF AllocationInv, Allocating
  <2>7. CriticalInv'
    BY DEF CriticalInv
  <2>8. PagesBacked'
    BY DEF PagesBacked, InCriticalSection, PrivateInv, Private, Freeing
  <2> QED
    BY <1>a, <2>1, <2>2, <2>3, <2>4, <2>5, <2>6, <2>7, <2>8
<1>16. ASSUME NEW h \in Handles, CreatePhysicalHandle(h) PROVE BackedInv'
  <2> USE <1>16 DEF CreatePhysicalHandle
  <2>1. LockInv'
    BY DEF LockInv
  <2>2. RegistryInv'
    BY DEF RegistryInv
  <2>3. PrivateInv'
    BY DEF PrivateInv, Private, Allocating, Freeing
  <2>4. ObjectInv'
    BY DEF ObjectInv, Allocating
  <2>5. RemapInv'
    BY DEF RemapInv, Remaps
  <2>6. AllocationInv'
    BY DEF AllocationInv, Allocating
  <2>7. CriticalInv'
    BY DEF CriticalInv
  <2>8. PagesBacked'
    BY DEF PagesBacked, InCriticalSection
  <2> QED
    BY <1>a, <2>1, <2>2, <2>3, <2>4, <2>5, <2>6, <2>7, <2>8
<1>17. ASSUME NEW h \in Handles, ReleasePhysicalHandle(h) PROVE BackedInv'
  <2> USE <1>17 DEF ReleasePhysicalHandle
  <2>1. LockInv'
    BY DEF LockInv
  <2>2. RegistryInv'
    BY DEF RegistryInv
  <2>3. PrivateInv'
    BY DEF PrivateInv, Private, Allocating, Freeing
  <2>4. ObjectInv'
    BY DEF ObjectInv, Allocating
  <2>5. RemapInv'
    BY DEF RemapInv, Remaps
  <2>6. AllocationInv'
    BY DEF AllocationInv, Allocating
  <2>7. CriticalInv'
    BY DEF CriticalInv
  <2>8. PagesBacked'
    BY DEF PagesBacked, InCriticalSection
  <2> QED
    BY <1>a, <2>1, <2>2, <2>3, <2>4, <2>5, <2>6, <2>7, <2>8
<1>18. CASE UNCHANGED vars
  BY <1>a, <1>18 DEF vars, LockInv, RegistryInv, PrivateInv, ObjectInv, RemapInv,
       AllocationInv, CriticalInv, PagesBacked, InCriticalSection, Private,
       Allocating, Freeing, Remaps
<1> QED
  BY <1>1, <1>2, <1>3, <1>4, <1>5, <1>6, <1>7, <1>8, <1>9, <1>10, <1>11, <1>12, <1>13,
     <1>14, <1>15, <1>16, <1>17, <1>18
     DEF Next, Remap, Free

\* When no tensor is freed during a remap of it, every page of a registered tensor
\* that can be accessed outside the critical section of a remap is backed by the
\* handle the list names, and only a failed remap makes one inaccessible, for any
\* number of threads that call allocate_vmm_kv_cache, remap_block and
\* free_vmm_kv_cache and whichever driver calls fail.
THEOREM PagesStayBacked ==
  ASSUME Overlap = FALSE
  PROVE  Spec => []PagesBacked
<1>1. BackedInv /\ [Next]_vars => BackedInv'
  BY StepBacked
<1>2. BackedInv => PagesBacked
  BY DEF BackedInv
<1> QED
  BY InitBacked, <1>1, <1>2, PTL DEF Spec

------------------------------------------------------------------------------
(* Every handle is in one place.                                            *)

\* A thread that builds an object or takes one apart is the only one that does.
Owns(t) == op[t].step \in {"create", "map", "setAccess", "freeUnmap", "freeRelease"}
OwnersInv ==
  /\ \A t \in Threads : Owns(t) => /\ op[t].obj \in made
                                   /\ \A v \in VAs : registry[v] # op[t].obj
  /\ \A t, u \in Threads : Owns(t) /\ Owns(u) /\ op[t].obj = op[u].obj => t = u

\* Lists are empty until their pages are mapped, and calls have a handle only
\* between the steps that take it and give it away.
EmptyInv ==
  /\ \A o \in Objs, p \in Pages : o \notin made => handlesOf[o][p] = NoHandle
  /\ \A t \in Threads, p \in Pages :
        Allocating(t) /\ op[t].page <= p => handlesOf[op[t].obj][p] = NoHandle
  /\ \A t \in Threads : op[t].handle \in Handles =>
        op[t].step \in {"map", "remapLock", "remapMap", "remapAccess", "remapRecord"}

\* Objects whose list counts: registered, or a thread's own.
Live == {o \in Objs : LiveObj(o)}

\* The places of a handle, and whether it is out of use.
WithCaller(h) == h \in callers
WithCall(t, h) == op[t].handle = h
AtPage(o, p, h) == o \in Live /\ handlesOf[o][p] = h
Gone(h) == h \in lost \/ releases[h] > 0

\* No handle is in two places.
OnePlaceInv ==
  \A h \in Handles :
     /\ WithCaller(h) => /\ \A t \in Threads : ~WithCall(t, h)
                         /\ \A o \in Objs, p \in Pages : ~AtPage(o, p, h)
     /\ \A t, u \in Threads : WithCall(t, h) /\ WithCall(u, h) => t = u
     /\ \A t \in Threads, o \in Objs, p \in Pages : ~(WithCall(t, h) /\ AtPage(o, p, h))
     /\ \A o, w \in Objs, p, q \in Pages :
           AtPage(o, p, h) /\ AtPage(w, q, h) => o = w /\ p = q

\* One that does not exist yet, was released or was lost is in none, and any other
\* is in some place.
SomePlaceInv ==
  \A h \in Handles :
     /\ h \notin created \/ Gone(h) => /\ ~WithCaller(h)
                                       /\ \A t \in Threads : ~WithCall(t, h)
                                       /\ \A o \in Objs, p \in Pages : ~AtPage(o, p, h)
     /\ h \in created /\ ~Gone(h) => \/ WithCaller(h)
                                     \/ \E t \in Threads : WithCall(t, h)
                                     \/ \E o \in Objs, p \in Pages : AtPage(o, p, h)

\* It was released at most once, if it existed, and not when it was lost.
ReleasesInv ==
  \A h \in Handles : /\ h \notin created => ~Gone(h)
                     /\ releases[h] \in {0, 1}
                     /\ h \in lost => releases[h] = 0

AccountInv == /\ BackedInv /\ OwnersInv /\ EmptyInv /\ OnePlaceInv /\ SomePlaceInv
              /\ ReleasesInv

LEMMA InitAccount == Init => AccountInv
BY InitBacked, VmmAssumption
   DEF Init, AccountInv, OwnersInv, EmptyInv, OnePlaceInv, SomePlaceInv, ReleasesInv,
       Owns, Allocating, Idle, Unmapped, WithCaller, WithCall, AtPage, Gone

LEMMA StepOwners ==
  ASSUME Overlap = FALSE, AccountInv, [Next]_vars
  PROVE  OwnersInv'
<1> USE DEF At, Goto, Return, driverVars, failureVars, AccountInv, BackedInv, TypeInv, TypeOK, CallsHaveTargets
<1>1. ASSUME NEW t \in Threads, NEW v \in VAs, NEW o \in Objs, BeginAllocate(t, v, o)
      PROVE  OwnersInv'
  BY <1>1, VmmAssumption DEF BeginAllocate, Idle, OwnersInv, Owns, RegistryInv
<1>2. ASSUME NEW t \in Threads, NEW h \in Handles, CreatePage(t, h) PROVE OwnersInv'
  BY <1>2 DEF CreatePage, OwnersInv, Owns
<1>3. ASSUME NEW t \in Threads, MapPage(t) PROVE OwnersInv'
  BY <1>3 DEF MapPage, OwnersInv, Owns
<1>4. ASSUME NEW t \in Threads, FinishAllocate(t) PROVE OwnersInv'
  BY <1>4 DEF FinishAllocate, Idle, OwnersInv, Owns
<1>5. ASSUME NEW t \in Threads, AllocateFails(t) PROVE OwnersInv'
  BY <1>5 DEF AllocateFails, Idle, OwnersInv, Owns
<1>6. ASSUME NEW h \in Handles, CreatePhysicalHandle(h) PROVE OwnersInv'
  BY <1>6 DEF CreatePhysicalHandle, OwnersInv, Owns
<1>7. ASSUME NEW h \in Handles, ReleasePhysicalHandle(h) PROVE OwnersInv'
  BY <1>7 DEF ReleasePhysicalHandle, OwnersInv, Owns
<1>8. ASSUME NEW t \in Threads, NEW v \in VAs, NEW p \in Pages, NEW h \in Handles,
             BeginRemap(t, v, p, h)
      PROVE  OwnersInv'
  BY <1>8 DEF BeginRemap, OwnersInv, Owns
<1>9. ASSUME NEW t \in Threads, RemapUnmap(t) PROVE OwnersInv'
  BY <1>9 DEF RemapUnmap, OwnersInv, Owns
<1>10. ASSUME NEW t \in Threads, RemapMap(t) PROVE OwnersInv'
  BY <1>10 DEF RemapMap, OwnersInv, Owns
<1>11. ASSUME NEW t \in Threads, RemapAccess(t) PROVE OwnersInv'
  BY <1>11 DEF RemapAccess, OwnersInv, Owns
<1>12. ASSUME NEW t \in Threads, RemapRecord(t) PROVE OwnersInv'
  BY <1>12 DEF RemapRecord, Idle, OwnersInv, Owns
<1>13. ASSUME NEW t \in Threads, RemapFails(t) PROVE OwnersInv'
  BY <1>13 DEF RemapFails, Idle, OwnersInv, Owns
<1>14. ASSUME NEW t \in Threads, NEW v \in VAs, BeginFree(t, v) PROVE OwnersInv'
  BY <1>14, VmmAssumption DEF BeginFree, Idle, OwnersInv, Owns, RegistryInv
<1>15. ASSUME NEW t \in Threads, FreeUnmap(t) PROVE OwnersInv'
  BY <1>15 DEF FreeUnmap, OwnersInv, Owns
<1>16. ASSUME NEW t \in Threads, FreeRelease(t) PROVE OwnersInv'
  BY <1>16 DEF FreeRelease, OwnersInv, Owns
<1>17. ASSUME NEW t \in Threads, FreeAddress(t) PROVE OwnersInv'
  BY <1>17 DEF FreeAddress, Idle, OwnersInv, Owns
<1>18. CASE UNCHANGED vars
  BY <1>18 DEF vars, OwnersInv, Owns
<1> QED
  BY <1>1, <1>2, <1>3, <1>4, <1>5, <1>6, <1>7, <1>8, <1>9, <1>10, <1>11, <1>12, <1>13,
     <1>14, <1>15, <1>16, <1>17, <1>18
     DEF Next, Remap, Free

LEMMA StepEmpty ==
  ASSUME Overlap = FALSE, AccountInv, [Next]_vars
  PROVE  EmptyInv'
<1> USE DEF At, Goto, Return, driverVars, failureVars, AccountInv, BackedInv, TypeInv, TypeOK, CallsHaveTargets
<1>1. ASSUME NEW t \in Threads, NEW v \in VAs, NEW o \in Objs, BeginAllocate(t, v, o)
      PROVE  EmptyInv'
  BY <1>1, VmmAssumption DEF BeginAllocate, Idle, EmptyInv, Allocating
<1>2. ASSUME NEW t \in Threads, NEW h \in Handles, CreatePage(t, h) PROVE EmptyInv'
  BY <1>2 DEF CreatePage, EmptyInv, Allocating
<1>3. ASSUME NEW t \in Threads, MapPage(t) PROVE EmptyInv'
  <2>1. /\ op[t].page \in Pages /\ op[t].handle \in Handles /\ op[t].obj \in Objs
        /\ op[t].obj \in made /\ NoHandle \notin Handles
    BY <1>3, VmmAssumption DEF MapPage, ObjectInv, Allocating
  <2>2. /\ op'[t].obj = op[t].obj /\ op'[t].page = op[t].page + 1
        /\ op'[t].step \in {"create", "setAccess"} /\ op'[t].handle = NoHandle
        /\ \A u \in Threads : u # t => op'[u] = op[u]
    BY <1>3 DEF MapPage
  <2>3. \A o \in Objs, p \in Pages :
           o # op[t].obj \/ p # op[t].page => handlesOf'[o][p] = handlesOf[o][p]
    BY <1>3, <2>1 DEF MapPage
  <2>4. \A o \in Objs, p \in Pages : o \notin made' => handlesOf'[o][p] = NoHandle
    BY <1>3, <2>1, <2>3 DEF MapPage, EmptyInv
  <2>5. ASSUME NEW u \in Threads, NEW p \in Pages, Allocating(u)', op'[u].page <= p
        PROVE  handlesOf'[op'[u].obj][p] = NoHandle
    <3>1. CASE u = t
      <4>1. op[t].page <= p /\ p # op[t].page
        BY <2>1, <2>2, <2>5, <3>1, VmmAssumption DEF Pages
      <4> QED
        BY <1>3, <2>1, <2>2, <2>3, <3>1, <4>1 DEF EmptyInv, MapPage, Allocating
    <3>2. CASE u # t
      <4>1. op'[u] = op[u] /\ op[u].obj # op[t].obj /\ op[u].obj \in Objs
        BY <1>3, <2>2, <2>5, <3>2 DEF ObjectInv, Allocating, MapPage
      <4> QED
        BY <2>3, <2>5, <4>1 DEF EmptyInv, Allocating
    <3> QED
      BY <3>1, <3>2
  <2>6. \A u \in Threads : op'[u].handle \in Handles =>
           op'[u].step \in {"map", "remapLock", "remapMap", "remapAccess", "remapRecord"}
    BY <2>1, <2>2 DEF EmptyInv
  <2> QED
    BY <2>4, <2>5, <2>6 DEF EmptyInv
<1>4. ASSUME NEW t \in Threads, FinishAllocate(t) PROVE EmptyInv'
  BY <1>4, VmmAssumption DEF FinishAllocate, Idle, EmptyInv, Allocating
<1>5. ASSUME NEW t \in Threads, AllocateFails(t) PROVE EmptyInv'
  BY <1>5, VmmAssumption DEF AllocateFails, Idle, EmptyInv, Allocating
<1>6. ASSUME NEW h \in Handles, CreatePhysicalHandle(h) PROVE EmptyInv'
  BY <1>6 DEF CreatePhysicalHandle, EmptyInv, Allocating
<1>7. ASSUME NEW h \in Handles, ReleasePhysicalHandle(h) PROVE EmptyInv'
  BY <1>7 DEF ReleasePhysicalHandle, EmptyInv, Allocating
<1>8. ASSUME NEW t \in Threads, NEW v \in VAs, NEW p \in Pages, NEW h \in Handles,
             BeginRemap(t, v, p, h)
      PROVE  EmptyInv'
  BY <1>8 DEF BeginRemap, EmptyInv, Allocating
<1>9. ASSUME NEW t \in Threads, RemapUnmap(t) PROVE EmptyInv'
  BY <1>9 DEF RemapUnmap, EmptyInv, Allocating
<1>10. ASSUME NEW t \in Threads, RemapMap(t) PROVE EmptyInv'
  BY <1>10 DEF RemapMap, EmptyInv, Allocating
<1>11. ASSUME NEW t \in Threads, RemapAccess(t) PROVE EmptyInv'
  BY <1>11 DEF RemapAccess, EmptyInv, Allocating
<1>12. ASSUME NEW t \in Threads, RemapRecord(t) PROVE EmptyInv'
  <2>1. /\ op[t].obj \in Objs /\ op[t].obj \in made /\ op[t].page \in Pages
        /\ \A u \in Threads : Allocating(u) => op[u].obj # op[t].obj
    BY <1>12, VmmAssumption DEF RemapRecord, RemapInv, RegistryInv, ObjectInv, Remaps
  <2>2. /\ op'[t] = Idle /\ \A u \in Threads : u # t => op'[u] = op[u]
        /\ \A o \in Objs : o # op[t].obj => handlesOf'[o] = handlesOf[o]
        /\ made' = made
    BY <1>12 DEF RemapRecord
  <2>3. \A o \in Objs, p \in Pages : o \notin made' => handlesOf'[o][p] = NoHandle
    BY <2>1, <2>2 DEF EmptyInv
  <2>4. ASSUME NEW u \in Threads, NEW p \in Pages, Allocating(u)', op'[u].page <= p
        PROVE  handlesOf'[op'[u].obj][p] = NoHandle
    <3>1. u # t /\ op'[u] = op[u]
      BY <2>2, <2>4 DEF Allocating, Idle
    <3>2. op[u].obj \in Objs /\ op[u].obj # op[t].obj
      BY <2>1, <2>4, <3>1 DEF Allocating
    <3> QED
      BY <2>2, <2>4, <3>1, <3>2 DEF EmptyInv, Allocating
  <2>5. \A u \in Threads : op'[u].handle \in Handles =>
           op'[u].step \in {"map", "remapLock", "remapMap", "remapAccess", "remapRecord"}
    BY <2>2, VmmAssumption DEF EmptyInv, Idle
  <2> QED
    BY <2>3, <2>4, <2>5 DEF EmptyInv
<1>13. ASSUME NEW t \in Threads, RemapFails(t) PROVE EmptyInv'
  BY <1>13, VmmAssumption DEF RemapFails, Idle, EmptyInv, Allocating
<1>14. ASSUME NEW t \in Threads, NEW v \in VAs, BeginFree(t, v) PROVE EmptyInv'
  BY <1>14, VmmAssumption DEF BeginFree, Idle, EmptyInv, Allocating
<1>15. ASSUME NEW t \in Threads, FreeUnmap(t) PROVE EmptyInv'
  BY <1>15 DEF FreeUnmap, EmptyInv, Allocating
<1>16. ASSUME NEW t \in Threads, FreeRelease(t) PROVE EmptyInv'
  BY <1>16 DEF FreeRelease, EmptyInv, Allocating
<1>17. ASSUME NEW t \in Threads, FreeAddress(t) PROVE EmptyInv'
  BY <1>17, VmmAssumption DEF FreeAddress, Idle, EmptyInv, Allocating
<1>18. CASE UNCHANGED vars
  BY <1>18 DEF vars, EmptyInv, Allocating
<1> QED
  BY <1>1, <1>2, <1>3, <1>4, <1>5, <1>6, <1>7, <1>8, <1>9, <1>10, <1>11, <1>12, <1>13,
     <1>14, <1>15, <1>16, <1>17, <1>18
     DEF Next, Remap, Free

\* Where handles are after a step that moves none.
LEMMA PlacesKept ==
  ASSUME AccountInv, Live' = Live, handlesOf' = handlesOf, callers' = callers,
         created' = created, releases' = releases, lost' = lost,
         \A t \in Threads : op'[t].handle = op[t].handle
  PROVE  OnePlaceInv' /\ SomePlaceInv' /\ ReleasesInv'
BY DEF AccountInv, OnePlaceInv, SomePlaceInv, ReleasesInv, WithCaller, WithCall, AtPage, Gone

LEMMA LiveMember ==
  \A o : o \in Live <=> /\ o \in Objs
                        /\ \/ \E v \in VAs : registry[v] = o
                           \/ \E t \in Threads : Owns(t) /\ op[t].obj = o
BY DEF Live, LiveObj, Owns

LEMMA LiveMemberNext ==
  \A o : o \in Live' <=> /\ o \in Objs
                         /\ \/ \E v \in VAs : registry'[v] = o
                            \/ \E t \in Threads : Owns(t)' /\ op'[t].obj = o
BY DEF Live, LiveObj, Owns

\* A step that leaves the registry alone and no thread takes or gives up an object in.
LEMMA LiveKept ==
  ASSUME registry' = registry,
         \A t \in Threads : (Owns(t)' <=> Owns(t)) /\ (Owns(t) => op'[t].obj = op[t].obj)
  PROVE  Live' = Live
<1>1. \A o : o \in Live <=> o \in Live'
  BY LiveMember, LiveMemberNext
<1> QED BY <1>1

\* A thread that gives up its object takes it out of Live.
LEMMA OwnerGone ==
  ASSUME OwnersInv, registry' = registry, NEW t \in Threads, Owns(t), ~Owns(t)',
         \A u \in Threads : u # t => op'[u] = op[u]
  PROVE  \A w : w \in Live' <=> w \in Live /\ w # op[t].obj
<1>1. \A u \in Threads : u # t => (Owns(u)' <=> Owns(u)) /\ op'[u].obj = op[u].obj
  BY DEF Owns
<1>2. /\ \A v \in VAs : registry[v] # op[t].obj
      /\ \A u \in Threads : u # t /\ Owns(u) => op[u].obj # op[t].obj
  BY DEF OwnersInv
<1>3. ASSUME NEW w \in Live' PROVE w \in Live /\ w # op[t].obj
  BY <1>1, <1>2, <1>3, LiveMember, LiveMemberNext
<1>4. ASSUME NEW w \in Live, w # op[t].obj PROVE w \in Live'
  BY <1>1, <1>2, <1>4, LiveMember, LiveMemberNext
<1> QED
  BY <1>3, <1>4

\* FreeRelease releases each handle of the list once.
LEMMA FreeReleasePlaces ==
  ASSUME Overlap = FALSE, AccountInv, NEW t \in Threads, FreeRelease(t)
  PROVE  OnePlaceInv' /\ SomePlaceInv' /\ ReleasesInv'
<1> USE DEF At, Goto, Return, driverVars, failureVars, AccountInv, BackedInv, TypeInv, TypeOK, CallsHaveTargets
<1> DEFINE o == op[t].obj
           At_(g) == {p \in Pages : handlesOf[o][p] = g}
<1>1. /\ \A u \in Threads : u # t => op'[u] = op[u]
      /\ op'[t].handle = op[t].handle /\ Owns(t) /\ ~Owns(t)' /\ o \in Objs
  BY DEF FreeRelease, Owns
<1>2. \A w : w \in Live' <=> w \in Live /\ w # o
  BY <1>1, OwnerGone DEF FreeRelease
<1>3. o \in Live
  BY <1>1, LiveMember
<1>4. \A g \in Handles : releases'[g] = releases[g] + Cardinality(At_(g))
  BY DEF FreeRelease
<1>5. handlesOf' = handlesOf /\ callers' = callers /\ created' = created /\ lost' = lost
  BY DEF FreeRelease
<1>6. \A g \in Handles, p \in Pages : p \in At_(g) <=> AtPage(o, p, g)
  BY <1>3 DEF AtPage
<1>7. \A g \in Handles : At_(g) \subseteq Pages
  OBVIOUS
<1> HIDE DEF o, At_
<1>8. ASSUME NEW g \in Handles, NEW p \in Pages, AtPage(o, p, g)
      PROVE  releases'[g] = 1 /\ releases[g] = 0 /\ g \in created /\ g \notin lost
  <2>1. At_(g) = {p}
    BY <1>1, <1>6, <1>7, <1>8 DEF OnePlaceInv
  <2>2. Cardinality(At_(g)) = 1
    BY <2>1, FS_Singleton
  <2>3. g \in created /\ ~Gone(g)
    BY <1>1, <1>8 DEF SomePlaceInv
  <2>4. releases[g] = 0 /\ g \notin lost
    BY <2>3 DEF Gone, ReleasesInv
  <2> QED
    BY <1>4, <2>2, <2>3, <2>4
<1>9. ASSUME NEW g \in Handles, \A p \in Pages : ~AtPage(o, p, g)
      PROVE  releases'[g] = releases[g]
  <2>1. At_(g) = {}
    BY <1>6, <1>7, <1>9
  <2>2. Cardinality(At_(g)) = 0
    BY <2>1, FS_EmptySet
  <2> QED
    BY <1>4, <2>2
<1>10. \A u \in Threads, g \in Handles : WithCall(u, g)' <=> WithCall(u, g)
  BY <1>1 DEF WithCall
<1>11. \A w \in Objs, q \in Pages, g \in Handles :
          AtPage(w, q, g)' <=> AtPage(w, q, g) /\ w # o
  BY <1>2, <1>5 DEF AtPage
<1>12. \A g \in Handles : WithCaller(g)' <=> WithCaller(g)
  BY <1>5 DEF WithCaller
<1>13. \A g \in Handles : Gone(g)' <=> Gone(g) \/ \E p \in Pages : AtPage(o, p, g)
  BY <1>5, <1>8, <1>9 DEF Gone
<1>14. OnePlaceInv'
  BY <1>10, <1>11, <1>12 DEF OnePlaceInv
<1>15. SomePlaceInv'
  BY <1>1, <1>5, <1>10, <1>11, <1>12, <1>13 DEF SomePlaceInv, OnePlaceInv
<1>16. ReleasesInv'
  BY <1>5, <1>8, <1>9, <1>13 DEF ReleasesInv
<1> QED
  BY <1>14, <1>15, <1>16

\* Every step keeps each handle in one place: it moves from the call that created it
\* to a list, from a caller to a remap, from a list to a caller, and out of use when
\* it is released or lost.
LEMMA StepPlaces ==
  ASSUME Overlap = FALSE, AccountInv, [Next]_vars
  PROVE  OnePlaceInv' /\ SomePlaceInv' /\ ReleasesInv'
<1> USE DEF At, Goto, Return, driverVars, failureVars, AccountInv, BackedInv, TypeInv, TypeOK, CallsHaveTargets
<1>0. NoHandle \notin Handles /\ NoObj \notin Objs
  BY VmmAssumption
<1>1. ASSUME NEW t \in Threads, NEW v \in VAs, NEW o \in Objs, BeginAllocate(t, v, o)
      PROVE  OnePlaceInv' /\ SomePlaceInv' /\ ReleasesInv'
  <2>1. /\ op'[t].handle = NoHandle /\ op'[t].obj = o /\ Owns(t)' /\ ~Owns(t)
        /\ op[t].handle \notin Handles
        /\ \A u \in Threads : u # t => op'[u] = op[u]
    BY <1>1 DEF BeginAllocate, Idle, EmptyInv, Owns
  <2>2. \A w : w \in Live' <=> w \in Live \/ w = o
    BY <1>1, <2>1, LiveMember, LiveMemberNext DEF BeginAllocate, Owns
  <2>3. \A u \in Threads, h \in Handles : WithCall(u, h)' <=> WithCall(u, h)
    BY <1>0, <2>1 DEF WithCall
  <2>4. \A w \in Objs, p \in Pages, h \in Handles : AtPage(w, p, h)' <=> AtPage(w, p, h)
    BY <1>0, <1>1, <2>2 DEF AtPage, EmptyInv, BeginAllocate
  <2>5. \A h \in Handles : (WithCaller(h)' <=> WithCaller(h)) /\ (Gone(h)' <=> Gone(h))
    BY <1>1 DEF WithCaller, Gone, BeginAllocate
  <2>6. created' = created /\ releases' = releases /\ lost' = lost
    BY <1>1 DEF BeginAllocate
  <2>7. OnePlaceInv'
    BY <2>3, <2>4, <2>5 DEF OnePlaceInv
  <2>8. SomePlaceInv'
    BY <2>3, <2>4, <2>5, <2>6 DEF SomePlaceInv
  <2> QED
    BY <2>5, <2>6, <2>7, <2>8 DEF ReleasesInv
<1>2. ASSUME NEW t \in Threads, NEW h \in Handles, CreatePage(t, h)
      PROVE  OnePlaceInv' /\ SomePlaceInv' /\ ReleasesInv'
  <2>1. /\ op'[t].handle = h /\ op[t].handle \notin Handles
        /\ \A u \in Threads : u # t => op'[u] = op[u]
        /\ \A u \in Threads : (Owns(u)' <=> Owns(u)) /\ op'[u].obj = op[u].obj
    BY <1>2 DEF CreatePage, EmptyInv, Owns
  <2>2. Live' = Live
    BY <1>2, <2>1, LiveKept DEF CreatePage
  <2>3. \A u \in Threads, g \in Handles :
           WithCall(u, g)' <=> WithCall(u, g) \/ (u = t /\ g = h)
    BY <2>1 DEF WithCall
  <2>4. \A w \in Objs, p \in Pages, g \in Handles : AtPage(w, p, g)' <=> AtPage(w, p, g)
    BY <1>2, <2>2 DEF AtPage, CreatePage
  <2>5. \A g \in Handles : (WithCaller(g)' <=> WithCaller(g)) /\ (Gone(g)' <=> Gone(g))
    BY <1>2 DEF WithCaller, Gone, CreatePage
  <2>6. created' = created \cup {h} /\ h \notin created /\ releases' = releases /\ lost' = lost
    BY <1>2 DEF CreatePage
  <2>7. OnePlaceInv'
    BY <2>3, <2>4, <2>5, <2>6 DEF OnePlaceInv, SomePlaceInv
  <2>8. SomePlaceInv'
    BY <2>3, <2>4, <2>5, <2>6 DEF SomePlaceInv, ReleasesInv
  <2>9. ReleasesInv'
    BY <2>5, <2>6 DEF ReleasesInv
  <2> QED
    BY <2>7, <2>8, <2>9
<1>3. ASSUME NEW t \in Threads, MapPage(t)
      PROVE  OnePlaceInv' /\ SomePlaceInv' /\ ReleasesInv'
  <2> DEFINE h == op[t].handle
             o == op[t].obj
             p == op[t].page
  <2>1. h \in Handles /\ o \in Objs /\ p \in Pages /\ Allocating(t) /\ Owns(t)
    BY <1>3 DEF MapPage, Allocating, Owns
  <2>2. /\ op'[t].handle = NoHandle
        /\ \A u \in Threads : u # t => op'[u] = op[u]
        /\ \A u \in Threads : (Owns(u)' <=> Owns(u)) /\ op'[u].obj = op[u].obj
    BY <1>3 DEF MapPage, Owns
  <2>3. Live' = Live /\ o \in Live
    BY <1>3, <2>1, <2>2, LiveKept, LiveMember DEF MapPage
  <2>4. /\ handlesOf[o][p] = NoHandle /\ handlesOf'[o][p] = h
        /\ \A w \in Objs, q \in Pages : w # o \/ q # p => handlesOf'[w][q] = handlesOf[w][q]
    <3>1. p <= p
      BY <2>1, VmmAssumption DEF Pages
    <3> QED
      BY <1>3, <2>1, <3>1 DEF EmptyInv, MapPage
  <2> HIDE DEF h, o, p
  <2>5. \A u \in Threads, g \in Handles : WithCall(u, g)' <=> WithCall(u, g) /\ u # t
    BY <1>0, <2>2 DEF WithCall
  <2>6. \A w \in Objs, q \in Pages, g \in Handles :
           AtPage(w, q, g)' <=> AtPage(w, q, g) \/ (w = o /\ q = p /\ g = h)
    BY <1>0, <2>1, <2>3, <2>4 DEF AtPage
  <2>7. \A g \in Handles : (WithCaller(g)' <=> WithCaller(g)) /\ (Gone(g)' <=> Gone(g))
    BY <1>3 DEF WithCaller, Gone, MapPage
  <2>8. \A g \in Handles : WithCall(t, g) <=> g = h
    BY DEF WithCall, h
  <2>9. created' = created /\ releases' = releases /\ lost' = lost
    BY <1>3 DEF MapPage
  <2>10. OnePlaceInv'
    BY <2>1, <2>5, <2>6, <2>7, <2>8 DEF OnePlaceInv
  <2>11. SomePlaceInv'
    BY <2>1, <2>5, <2>6, <2>7, <2>8, <2>9 DEF SomePlaceInv
  <2> QED
    BY <2>7, <2>9, <2>10, <2>11 DEF ReleasesInv
<1>4. ASSUME NEW t \in Threads, FinishAllocate(t)
      PROVE  OnePlaceInv' /\ SomePlaceInv' /\ ReleasesInv'
  <2>1. /\ op'[t] = Idle /\ \A u \in Threads : u # t => op'[u] = op[u]
        /\ Owns(t) /\ ~Owns(t)' /\ op[t].handle \notin Handles
        /\ op[t].va \in VAs /\ op[t].obj \in Objs /\ registry[op[t].va] = NoObj
    BY <1>4, <1>0 DEF FinishAllocate, Idle, Owns, EmptyInv, PrivateInv, Private, Allocating
  <2>2. \A w : w \in Live <=> w \in Live'
    BY <1>0, <1>4, <2>1, LiveMember, LiveMemberNext DEF FinishAllocate, Owns
  <2>3. \A u \in Threads : op'[u].handle = op[u].handle
    BY <2>1 DEF Idle
  <2> QED
    BY <1>4, <2>2, <2>3, PlacesKept DEF FinishAllocate
<1>5. ASSUME NEW t \in Threads, AllocateFails(t)
      PROVE  OnePlaceInv' /\ SomePlaceInv' /\ ReleasesInv'
  <2> DEFINE o == op[t].obj
  <2>1. /\ op'[t] = Idle /\ \A u \in Threads : u # t => op'[u] = op[u]
        /\ Owns(t) /\ ~Owns(t)' /\ o \in Objs
    BY <1>5 DEF AllocateFails, Idle, Owns
  <2>2. \A w : w \in Live' <=> w \in Live /\ w # o
    BY <1>5, <2>1, OwnerGone DEF AllocateFails
  <2>3. o \in Live
    BY <2>1, LiveMember
  <2>4. \A g \in Handles : g \in lost' <=> \/ g \in lost \/ g = op[t].handle
                                           \/ \E p \in Pages : g = handlesOf[o][p]
    BY <1>0, <1>5 DEF AllocateFails
  <2>5. handlesOf' = handlesOf /\ callers' = callers /\ created' = created
        /\ releases' = releases
    BY <1>5 DEF AllocateFails
  <2> HIDE DEF o
  <2>6. \A u \in Threads, g \in Handles : WithCall(u, g)' <=> WithCall(u, g) /\ u # t
    BY <1>0, <2>1 DEF WithCall, Idle
  <2>7. \A w \in Objs, q \in Pages, g \in Handles :
           AtPage(w, q, g)' <=> AtPage(w, q, g) /\ w # o
    BY <2>2, <2>5 DEF AtPage
  <2>8. \A g \in Handles : WithCaller(g)' <=> WithCaller(g)
    BY <2>5 DEF WithCaller
  <2>9. \A g \in Handles : g \in lost' <=> \/ g \in lost \/ WithCall(t, g)
                                           \/ \E p \in Pages : AtPage(o, p, g)
    BY <2>3, <2>4 DEF WithCall, AtPage
  <2>10. \A g \in Handles : Gone(g)' <=> g \in lost' \/ releases[g] > 0
    BY <2>5 DEF Gone
  <2>11. OnePlaceInv'
    BY <2>6, <2>7, <2>8 DEF OnePlaceInv
  <2>12. SomePlaceInv'
    BY <2>1, <2>5, <2>6, <2>7, <2>8, <2>9, <2>10 DEF SomePlaceInv, OnePlaceInv, Gone
  <2>13. ReleasesInv'
    BY <2>1, <2>5, <2>9, <2>10 DEF SomePlaceInv, ReleasesInv, Gone
  <2> QED
    BY <2>11, <2>12, <2>13
<1>6. ASSUME NEW h \in Handles, CreatePhysicalHandle(h)
      PROVE  OnePlaceInv' /\ SomePlaceInv' /\ ReleasesInv'
  <2>1. Live' = Live
    BY <1>6, LiveKept DEF CreatePhysicalHandle, Owns
  <2>2. \A u \in Threads, g \in Handles : WithCall(u, g)' <=> WithCall(u, g)
    BY <1>6 DEF CreatePhysicalHandle, WithCall
  <2>3. \A w \in Objs, q \in Pages, g \in Handles : AtPage(w, q, g)' <=> AtPage(w, q, g)
    BY <1>6, <2>1 DEF CreatePhysicalHandle, AtPage
  <2>4. \A g \in Handles : (WithCaller(g)' <=> WithCaller(g) \/ g = h)
                           /\ (Gone(g)' <=> Gone(g))
    BY <1>6 DEF CreatePhysicalHandle, WithCaller, Gone
  <2>5. created' = created \cup {h} /\ h \notin created /\ releases' = releases /\ lost' = lost
    BY <1>6 DEF CreatePhysicalHandle
  <2>6. OnePlaceInv'
    BY <2>2, <2>3, <2>4, <2>5 DEF OnePlaceInv, SomePlaceInv
  <2>7. SomePlaceInv'
    BY <2>2, <2>3, <2>4, <2>5 DEF SomePlaceInv, ReleasesInv
  <2> QED
    BY <2>4, <2>5, <2>6, <2>7 DEF ReleasesInv
<1>7. ASSUME NEW h \in Handles, ReleasePhysicalHandle(h)
      PROVE  OnePlaceInv' /\ SomePlaceInv' /\ ReleasesInv'
  <2>1. Live' = Live
    BY <1>7, LiveKept DEF ReleasePhysicalHandle, Owns
  <2>2. \A u \in Threads, g \in Handles : WithCall(u, g)' <=> WithCall(u, g)
    BY <1>7 DEF ReleasePhysicalHandle, WithCall
  <2>3. \A w \in Objs, q \in Pages, g \in Handles : AtPage(w, q, g)' <=> AtPage(w, q, g)
    BY <1>7, <2>1 DEF ReleasePhysicalHandle, AtPage
  <2>4. WithCaller(h) /\ \A g \in Handles : WithCaller(g)' <=> WithCaller(g) /\ g # h
    BY <1>7 DEF ReleasePhysicalHandle, WithCaller
  <2>5. h \in created /\ ~Gone(h)
    BY <2>4 DEF SomePlaceInv
  <2>6. releases[h] = 0 /\ h \notin lost
    BY <2>5 DEF ReleasesInv, Gone
  <2>7. /\ releases'[h] = 1 /\ \A g \in Handles : g # h => releases'[g] = releases[g]
        /\ created' = created /\ lost' = lost
    BY <1>7, <2>6 DEF ReleasePhysicalHandle
  <2>8. \A g \in Handles : Gone(g)' <=> Gone(g) \/ g = h
    BY <2>7 DEF Gone
  <2>9. OnePlaceInv'
    BY <2>2, <2>3, <2>4 DEF OnePlaceInv
  <2>10. SomePlaceInv'
    BY <2>2, <2>3, <2>4, <2>5, <2>7, <2>8 DEF SomePlaceInv, OnePlaceInv
  <2>11. ReleasesInv'
    BY <2>5, <2>6, <2>7, <2>8 DEF ReleasesInv
  <2> QED
    BY <2>9, <2>10, <2>11
<1>8. ASSUME NEW t \in Threads, NEW v \in VAs, NEW p \in Pages, NEW h \in Handles,
             BeginRemap(t, v, p, h)
      PROVE  OnePlaceInv' /\ SomePlaceInv' /\ ReleasesInv'
  <2>1. /\ op'[t].handle = h /\ op[t].handle \notin Handles
        /\ \A u \in Threads : u # t => op'[u] = op[u]
        /\ ~Owns(t) /\ ~Owns(t)'
    BY <1>8 DEF BeginRemap, EmptyInv, Owns
  <2>2. Live' = Live
    BY <1>8, <2>1, LiveKept DEF BeginRemap, Owns
  <2>3. \A u \in Threads, g \in Handles :
           WithCall(u, g)' <=> WithCall(u, g) \/ (u = t /\ g = h)
    BY <2>1 DEF WithCall
  <2>4. \A w \in Objs, q \in Pages, g \in Handles : AtPage(w, q, g)' <=> AtPage(w, q, g)
    BY <1>8, <2>2 DEF AtPage, BeginRemap
  <2>5. /\ WithCaller(h)
        /\ \A g \in Handles : (WithCaller(g)' <=> WithCaller(g) /\ g # h)
                              /\ (Gone(g)' <=> Gone(g))
    BY <1>8 DEF WithCaller, Gone, BeginRemap
  <2>6. created' = created /\ releases' = releases /\ lost' = lost
    BY <1>8 DEF BeginRemap
  <2>7. OnePlaceInv'
    BY <2>3, <2>4, <2>5 DEF OnePlaceInv
  <2>8. SomePlaceInv'
    BY <2>3, <2>4, <2>5, <2>6 DEF SomePlaceInv
  <2> QED
    BY <2>5, <2>6, <2>7, <2>8 DEF ReleasesInv
<1>9. ASSUME NEW t \in Threads, RemapUnmap(t) \/ RemapMap(t) \/ RemapAccess(t)
      PROVE  OnePlaceInv' /\ SomePlaceInv' /\ ReleasesInv'
  <2>1. \A u \in Threads : /\ (Owns(u)' <=> Owns(u)) /\ op'[u].obj = op[u].obj
                           /\ op'[u].handle = op[u].handle
    BY <1>9 DEF RemapUnmap, RemapMap, RemapAccess, Owns
  <2>2. Live' = Live
    BY <1>9, <2>1, LiveKept DEF RemapUnmap, RemapMap, RemapAccess
  <2> QED
    BY <1>9, <2>1, <2>2, PlacesKept DEF RemapUnmap, RemapMap, RemapAccess
<1>10. ASSUME NEW t \in Threads, RemapRecord(t)
      PROVE  OnePlaceInv' /\ SomePlaceInv' /\ ReleasesInv'
  <2> DEFINE h == op[t].handle
             o == op[t].obj
             p == op[t].page
             old == handlesOf[o][p]
  <2>1. h \in Handles /\ o \in Objs /\ p \in Pages /\ old \in Handles
        /\ registry[op[t].va] = o /\ op[t].va \in VAs
    BY <1>10 DEF RemapRecord, ListsFull, Remaps, RemapInv
  <2>2. /\ op'[t] = Idle /\ ~Owns(t) /\ ~Owns(t)'
        /\ \A u \in Threads : u # t => op'[u] = op[u]
    BY <1>10 DEF RemapRecord, Owns, Idle
  <2>3. Live' = Live /\ o \in Live
    <3>1. Live' = Live
      BY <1>10, <2>2, LiveKept DEF RemapRecord, Owns
    <3> QED
      BY <2>1, <3>1, LiveMember
  <2>4. /\ handlesOf'[o][p] = h
        /\ \A w \in Objs, q \in Pages : w # o \/ q # p => handlesOf'[w][q] = handlesOf[w][q]
    BY <1>10, <2>1 DEF RemapRecord
  <2>5. callers' = callers \cup {old} /\ created' = created /\ releases' = releases
        /\ lost' = lost
    BY <1>10 DEF RemapRecord
  <2>6. \A g \in Handles : WithCall(t, g) <=> g = h
    BY DEF WithCall
  <2>7. \A g \in Handles : AtPage(o, p, g) <=> g = old
    BY <2>3 DEF AtPage
  <2> HIDE DEF h, o, p, old
  <2>8. \A u \in Threads, g \in Handles : WithCall(u, g)' <=> WithCall(u, g) /\ u # t
    BY <1>0, <2>2 DEF WithCall, Idle
  <2>9. \A w \in Objs, q \in Pages, g \in Handles :
           AtPage(w, q, g)' <=> IF w = o /\ q = p THEN g = h ELSE AtPage(w, q, g)
    BY <2>1, <2>3, <2>4 DEF AtPage
  <2>10. \A g \in Handles : (WithCaller(g)' <=> WithCaller(g) \/ g = old)
                            /\ (Gone(g)' <=> Gone(g))
    BY <2>5 DEF WithCaller, Gone
  <2>11. OnePlaceInv'
    BY <1>10, <2>1, <2>6, <2>7, <2>8, <2>9, <2>10 DEF OnePlaceInv
  <2>12. SomePlaceInv'
    BY <1>10, <2>1, <2>5, <2>6, <2>7, <2>8, <2>9, <2>10 DEF SomePlaceInv
  <2> QED
    BY <2>5, <2>10, <2>11, <2>12 DEF ReleasesInv
<1>11. ASSUME NEW t \in Threads, RemapFails(t)
      PROVE  OnePlaceInv' /\ SomePlaceInv' /\ ReleasesInv'
  <2> DEFINE h == op[t].handle
  <2>1. Remaps(t) /\ h \in Handles
    BY <1>11 DEF RemapFails, Remaps
  <2>2. /\ op'[t] = Idle /\ ~Owns(t) /\ ~Owns(t)'
        /\ \A u \in Threads : u # t => op'[u] = op[u]
    BY <1>11, <2>1 DEF RemapFails, Owns, Idle, Remaps
  <2>3. Live' = Live
    BY <1>11, <2>2, LiveKept DEF RemapFails, Owns
  <2>4. callers' = callers \cup {h} /\ created' = created /\ releases' = releases
        /\ lost' = lost /\ handlesOf' = handlesOf
    BY <1>11 DEF RemapFails
  <2>5. \A g \in Handles : WithCall(t, g) <=> g = h
    BY DEF WithCall
  <2> HIDE DEF h
  <2>6. \A u \in Threads, g \in Handles : WithCall(u, g)' <=> WithCall(u, g) /\ u # t
    BY <1>0, <2>2 DEF WithCall, Idle
  <2>7. \A w \in Objs, q \in Pages, g \in Handles : AtPage(w, q, g)' <=> AtPage(w, q, g)
    BY <2>3, <2>4 DEF AtPage
  <2>8. \A g \in Handles : (WithCaller(g)' <=> WithCaller(g) \/ g = h)
                           /\ (Gone(g)' <=> Gone(g))
    BY <2>4 DEF WithCaller, Gone
  <2>9. OnePlaceInv'
    BY <1>11, <2>1, <2>5, <2>6, <2>7, <2>8 DEF OnePlaceInv
  <2>10. SomePlaceInv'
    BY <1>11, <2>1, <2>4, <2>5, <2>6, <2>7, <2>8 DEF SomePlaceInv
  <2> QED
    BY <2>4, <2>8, <2>9, <2>10 DEF ReleasesInv
<1>12. ASSUME NEW t \in Threads, NEW v \in VAs, BeginFree(t, v)
      PROVE  OnePlaceInv' /\ SomePlaceInv' /\ ReleasesInv'
  <2>1. /\ \A u \in Threads : u # t => op'[u] = op[u]
        /\ op[t].handle \notin Handles /\ op[t].handle = NoHandle /\ op'[t].handle = NoHandle
        /\ op'[t].obj = registry[v] /\ registry[v] \in Objs /\ Owns(t)' /\ ~Owns(t)
    BY <1>12, <1>0 DEF BeginFree, Idle, Owns, EmptyInv
  <2>2. registry'[v] = NoObj /\ \A w \in VAs : w # v => registry'[w] = registry[w]
    BY <1>12 DEF BeginFree
  <2>3. \A w : w \in Live <=> w \in Live'
    <3>1. \A u \in Threads : u # t => (Owns(u)' <=> Owns(u)) /\ op'[u].obj = op[u].obj
      BY <2>1 DEF Owns
    <3>2. ASSUME NEW w \in Live PROVE w \in Live'
      <4>1. CASE \E x \in VAs : registry[x] = w
        <5>1. PICK x \in VAs : registry[x] = w
          BY <4>1
        <5>2. CASE x = v
          BY <2>1, <5>1, <5>2, LiveMemberNext
        <5>3. CASE x # v
          <6>1. registry'[x] = w /\ w \in Objs
            BY <2>2, <3>2, <5>1, <5>3, LiveMember
          <6> QED BY <6>1, LiveMemberNext
        <5> QED BY <5>2, <5>3
      <4>2. CASE \E u \in Threads : Owns(u) /\ op[u].obj = w
        <5>1. PICK u \in Threads : Owns(u) /\ op[u].obj = w
          BY <4>2
        <5>2. Owns(u)' /\ op'[u].obj = w /\ w \in Objs
          BY <2>1, <3>1, <3>2, <5>1, LiveMember
        <5> QED BY <5>2, LiveMemberNext
      <4> QED BY <3>2, <4>1, <4>2, LiveMember
    <3>3. ASSUME NEW w \in Live' PROVE w \in Live
      <4>1. CASE \E x \in VAs : registry'[x] = w
        <5>1. PICK x \in VAs : registry'[x] = w
          BY <4>1
        <5>2. x # v /\ registry[x] = w /\ w \in Objs
          BY <1>0, <2>2, <3>3, <5>1, LiveMemberNext
        <5> QED BY <5>2, LiveMember
      <4>2. CASE \E u \in Threads : Owns(u)' /\ op'[u].obj = w
        <5>1. PICK u \in Threads : Owns(u)' /\ op'[u].obj = w
          BY <4>2
        <5>2. CASE u = t
          <6>1. w = registry[v] /\ w \in Objs
            BY <2>1, <5>1, <5>2
          <6> QED BY <1>12, <6>1, LiveMember
        <5>3. CASE u # t
          <6>1. Owns(u) /\ op[u].obj = w /\ w \in Objs
            BY <3>1, <3>3, <5>1, <5>3, LiveMemberNext
          <6> QED BY <6>1, LiveMember
        <5> QED BY <5>2, <5>3
      <4> QED BY <3>3, <4>1, <4>2, LiveMemberNext
    <3> QED BY <3>2, <3>3
  <2>4. \A u \in Threads : op'[u].handle = op[u].handle
    BY <2>1
  <2> QED
    BY <1>12, <2>3, <2>4, PlacesKept DEF BeginFree
<1>13. ASSUME NEW t \in Threads, FreeUnmap(t)
      PROVE  OnePlaceInv' /\ SomePlaceInv' /\ ReleasesInv'
  <2>1. \A u \in Threads : /\ (Owns(u)' <=> Owns(u)) /\ op'[u].obj = op[u].obj
                           /\ op'[u].handle = op[u].handle
    BY <1>13 DEF FreeUnmap, Owns
  <2>2. Live' = Live
    BY <1>13, <2>1, LiveKept DEF FreeUnmap
  <2> QED
    BY <1>13, <2>1, <2>2, PlacesKept DEF FreeUnmap
<1>15. ASSUME NEW t \in Threads, FreeAddress(t)
      PROVE  OnePlaceInv' /\ SomePlaceInv' /\ ReleasesInv'
  <2>1. /\ \A u \in Threads : u # t => op'[u] = op[u]
        /\ op'[t] = Idle /\ op[t].handle \in Handles \cup {NoHandle}
        /\ op[t].handle \notin Handles /\ ~Owns(t) /\ ~Owns(t)'
    BY <1>15 DEF FreeAddress, Idle, Owns, EmptyInv
  <2>2. Live' = Live
    BY <1>15, <2>1, LiveKept DEF FreeAddress, Owns
  <2>3. \A u \in Threads : op'[u].handle = op[u].handle
    BY <2>1 DEF Idle
  <2> QED
    BY <1>15, <2>2, <2>3, PlacesKept DEF FreeAddress
<1>16. CASE UNCHANGED vars
  <2>1. Live' = Live
    BY <1>16, LiveKept DEF vars, Owns
  <2> QED
    BY <1>16, <2>1, PlacesKept DEF vars
<1>14. ASSUME NEW t \in Threads, FreeRelease(t)
      PROVE  OnePlaceInv' /\ SomePlaceInv' /\ ReleasesInv'
  BY <1>14, FreeReleasePlaces
<1> QED
  BY <1>1, <1>2, <1>3, <1>4, <1>5, <1>6, <1>7, <1>8, <1>9, <1>10, <1>11, <1>12, <1>13,
     <1>14, <1>15, <1>16
     DEF Next, Remap, Free

LEMMA StepAccount ==
  ASSUME Overlap = FALSE, AccountInv, [Next]_vars
  PROVE  AccountInv'
<1>1. BackedInv'
  BY StepBacked DEF AccountInv
<1> QED
  BY <1>1, StepOwners, StepEmpty, StepPlaces DEF AccountInv

LEMMA AccountHolds ==
  ASSUME Overlap = FALSE
  PROVE  Spec => []AccountInv
<1>1. AccountInv /\ [Next]_vars => AccountInv'
  BY StepAccount
<1> QED
  BY InitAccount, <1>1, PTL DEF Spec

\* A handle in one place has one claim, and one in no place has none.
LEMMA OneClaim ==
  ASSUME AccountInv
  PROVE  HandlesAccounted
<1>1. SUFFICES ASSUME NEW h \in created
               PROVE  Cardinality(Claims(h)) + releases[h] = IF h \in lost THEN 0 ELSE 1
  BY DEF HandlesAccounted
<1>2. h \in Handles
  BY <1>1 DEF AccountInv, BackedInv, TypeInv, TypeOK
<1>3. \A c : c \in Claims(h) <=>
              \/ WithCaller(h) /\ c = <<"caller">>
              \/ \E t \in Threads : WithCall(t, h) /\ c = <<"call", t>>
              \/ \E o \in Objs, p \in Pages : AtPage(o, p, h) /\ c = <<"page", <<o, p>>>>
  <2> DEFINE C == IF h \in callers THEN {<<"caller">>} ELSE {}
             T == {<<"call", t>> : t \in {u \in Threads : op[u].handle = h}}
             Y == {y \in Objs \X Pages : LiveObj(y[1]) /\ handlesOf[y[1]][y[2]] = h}
             P == {<<"page", x>> : x \in Y}
  <2>1. \A c : c \in C <=> WithCaller(h) /\ c = <<"caller">>
    BY DEF WithCaller
  <2>2. \A c : c \in T <=> \E t \in Threads : WithCall(t, h) /\ c = <<"call", t>>
    BY DEF WithCall
  <2>3. \A x : x \in Y <=> \E o \in Objs, p \in Pages : AtPage(o, p, h) /\ x = <<o, p>>
    BY DEF AtPage, Live
  <2> HIDE DEF Y
  <2>4. \A c : c \in P <=> \E o \in Objs, p \in Pages :
                             AtPage(o, p, h) /\ c = <<"page", <<o, p>>>>
    BY <2>3
  <2>5. Claims(h) = C \cup T \cup P
    BY DEF Claims, Y
  <2> HIDE DEF C, T, P
  <2> QED
    BY <2>1, <2>2, <2>4, <2>5
<1>4. CASE Gone(h)
  <2>1. Claims(h) = {}
    BY <1>2, <1>3, <1>4 DEF AccountInv, SomePlaceInv
  <2>2. Cardinality(Claims(h)) = 0
    BY <2>1, FS_EmptySet
  <2>3. releases[h] = IF h \in lost THEN 0 ELSE 1
    BY <1>2, <1>4 DEF AccountInv, ReleasesInv, Gone
  <2> QED
    BY <2>2, <2>3
<1>5. CASE ~Gone(h)
  <2>1. \E c : Claims(h) = {c}
    <3>1. \/ WithCaller(h)
          \/ \E t \in Threads : WithCall(t, h)
          \/ \E o \in Objs, p \in Pages : AtPage(o, p, h)
      BY <1>1, <1>2, <1>5 DEF AccountInv, SomePlaceInv
    <3>2. CASE WithCaller(h)
      <4>1. Claims(h) = {<<"caller">>}
        BY <1>2, <1>3, <3>2 DEF AccountInv, OnePlaceInv
      <4> QED BY <4>1
    <3>3. ASSUME NEW t \in Threads, WithCall(t, h) PROVE \E c : Claims(h) = {c}
      <4>1. Claims(h) = {<<"call", t>>}
        BY <1>2, <1>3, <3>3 DEF AccountInv, OnePlaceInv
      <4> QED BY <4>1
    <3>4. ASSUME NEW o \in Objs, NEW p \in Pages, AtPage(o, p, h)
          PROVE  \E c : Claims(h) = {c}
      <4>1. Claims(h) = {<<"page", <<o, p>>>>}
        <5>1. /\ ~WithCaller(h) /\ \A t \in Threads : ~WithCall(t, h)
              /\ \A w \in Objs, q \in Pages : AtPage(w, q, h) => w = o /\ q = p
          BY <1>2, <3>4 DEF AccountInv, OnePlaceInv
        <5>2. \A c : c \in Claims(h) <=> c = <<"page", <<o, p>>>>
          BY <1>3, <3>4, <5>1
        <5> QED BY <5>2
      <4> QED BY <4>1
    <3> QED BY <3>1, <3>2, <3>3, <3>4
  <2>2. Cardinality(Claims(h)) = 1
    BY <2>1, FS_Singleton
  <2>3. releases[h] = 0 /\ h \notin lost
    BY <1>2, <1>5 DEF AccountInv, ReleasesInv, Gone
  <2> QED
    BY <2>2, <2>3
<1> QED
  BY <1>4, <1>5

\* When no tensor is freed during a remap of it, every physical handle ever created
\* is with a caller, with a call in progress or behind one page of one tensor, or was
\* released exactly once, or belongs to an allocation that failed: no other handle
\* leaks, none backs two pages and none is released twice, for any number of threads
\* that allocate, remap and free, and whichever driver calls fail.
THEOREM HandlesInOnePlace ==
  ASSUME Overlap = FALSE
  PROVE  Spec => []HandlesAccounted
BY AccountHolds, OneClaim, PTL

------------------------------------------------------------------------------
(* The allocator implements PageTable.                                      *)

FreesList(t) == op[t].step \in {"freeUnmap", "freeRelease"}

\* A list that is being freed has no hole.
FreeingFull == \A t \in Threads, p \in Pages :
                 FreesList(t) => handlesOf[op[t].obj][p] \in Handles

RefineInv == AccountInv /\ FreeingFull

LEMMA LooseMember ==
  \A g : g \in Loose <=> \/ WithCaller(g)
                         \/ \E t \in Threads : Remaps(t) /\ WithCall(t, g)
BY DEF Loose, WithCaller, Remaps, WithCall

LEMMA LooseMemberNext ==
  \A g : g \in Loose' <=> \/ WithCaller(g)'
                          \/ \E t \in Threads : Remaps(t)' /\ WithCall(t, g)'
BY DEF Loose, WithCaller, Remaps, WithCall

LEMMA SpentMember ==
  \A g : g \in Spent <=>
           \/ g \in Handles /\ releases[g] > 0
           \/ \E t \in Threads, p \in Pages : FreesList(t) /\ handlesOf[op[t].obj][p] = g
BY DEF Spent, FreesList

LEMMA SpentMemberNext ==
  \A g : g \in Spent' <=>
           \/ g \in Handles /\ releases'[g] > 0
           \/ \E t \in Threads, p \in Pages : FreesList(t)' /\ handlesOf'[op'[t].obj][p] = g
BY DEF Spent, FreesList

\* What a step does not touch stays as it is in the abstract state.
LEMMA LooseKept ==
  ASSUME callers' = callers,
         \A t \in Threads : /\ Remaps(t)' <=> Remaps(t)
                            /\ Remaps(t) => op'[t].handle = op[t].handle
  PROVE  Loose' = Loose
<1>1. \A g : g \in Loose' <=> g \in Loose
  BY LooseMember, LooseMemberNext DEF WithCaller, WithCall
<1> QED BY <1>1

LEMMA SpentKept ==
  ASSUME releases' = releases,
         \A t \in Threads : /\ FreesList(t)' <=> FreesList(t)
                            /\ FreesList(t) => op'[t].obj = op[t].obj,
         \A t \in Threads, p \in Pages :
            FreesList(t) => handlesOf'[op[t].obj][p] = handlesOf[op[t].obj][p]
  PROVE  Spent' = Spent
<1>1. \A g : g \in Spent' <=> g \in Spent
  BY SpentMember, SpentMemberNext
<1> QED BY <1>1

LEMMA ReturnedKept ==
  ASSUME registry' = registry,
         \A v \in VAs : registry[v] # NoObj => handlesOf'[registry[v]] = handlesOf[registry[v]]
  PROVE  Returned' = Returned
BY DEF Returned

LEMMA ReturnedAt ==
  \A v \in VAs : /\ registry[v] = NoObj => Returned[v] = Unmapped
                 /\ registry[v] # NoObj => Returned[v] = handlesOf[registry[v]]
BY DEF Returned

LEMMA InitFreeing == Init => FreeingFull
BY DEF Init, FreeingFull, FreesList, Idle

LEMMA StepFreeing ==
  ASSUME Overlap = FALSE, RefineInv, [Next]_vars
  PROVE  FreeingFull'
<1> USE DEF At, Goto, Return, driverVars, failureVars, RefineInv, AccountInv, BackedInv, TypeInv, TypeOK, CallsHaveTargets
<1>1. ASSUME NEW t \in Threads,
             \/ \E v \in VAs, o \in Objs : BeginAllocate(t, v, o)
             \/ \E h \in Handles : CreatePage(t, h)
             \/ FinishAllocate(t) \/ AllocateFails(t)
             \/ \E v \in VAs, p \in Pages, h \in Handles : BeginRemap(t, v, p, h)
             \/ RemapUnmap(t) \/ RemapMap(t) \/ RemapAccess(t) \/ RemapFails(t)
             \/ FreeUnmap(t) \/ FreeRelease(t) \/ FreeAddress(t)
      PROVE  FreeingFull'
  <2>1. handlesOf' = handlesOf /\ \A u \in Threads : u # t => op'[u] = op[u]
    <3>1. handlesOf' = handlesOf
      <4>1. CASE \/ \E v \in VAs, o \in Objs : BeginAllocate(t, v, o)
                 \/ \E h \in Handles : CreatePage(t, h)
                 \/ \E v \in VAs, p \in Pages, h \in Handles : BeginRemap(t, v, p, h)
        BY <4>1, Zenon DEF BeginAllocate, CreatePage, BeginRemap
      <4>2. CASE FinishAllocate(t) \/ AllocateFails(t) \/ FreeUnmap(t) \/ FreeRelease(t)
                 \/ FreeAddress(t)
        BY <4>2 DEF FinishAllocate, AllocateFails, FreeUnmap, FreeRelease, FreeAddress
      <4>3. CASE RemapUnmap(t) \/ RemapMap(t) \/ RemapAccess(t) \/ RemapFails(t)
        BY <4>3 DEF RemapUnmap, RemapMap, RemapAccess, RemapFails
      <4> QED BY <1>1, <4>1, <4>2, <4>3
    <3>2. \E c : op' = [op EXCEPT ![t] = c]
      <4>1. ASSUME NEW s, op' = [op EXCEPT ![t].step = s] PROVE \E c : op' = [op EXCEPT ![t] = c]
        BY <4>1
      <4> QED
        BY <1>1, <4>1, Zenon
           DEF BeginAllocate, CreatePage, FinishAllocate, AllocateFails, BeginRemap,
               RemapUnmap, RemapMap, RemapAccess, RemapFails, FreeUnmap, FreeRelease,
               FreeAddress
    <3> QED BY <3>1, <3>2
  <2>2. FreesList(t)' => FreesList(t) /\ op'[t].obj = op[t].obj
    <3>1. CASE \/ \E v \in VAs, o \in Objs : BeginAllocate(t, v, o)
               \/ \E h \in Handles : CreatePage(t, h)
               \/ \E v \in VAs, p \in Pages, h \in Handles : BeginRemap(t, v, p, h)
      <4>1. ASSUME NEW v \in VAs, NEW o \in Objs, BeginAllocate(t, v, o) PROVE ~FreesList(t)'
        BY <4>1 DEF BeginAllocate, FreesList, Idle
      <4>2. ASSUME NEW h \in Handles, CreatePage(t, h) PROVE ~FreesList(t)'
        BY <4>2 DEF CreatePage, FreesList
      <4>3. ASSUME NEW v \in VAs, NEW p \in Pages, NEW h \in Handles, BeginRemap(t, v, p, h)
            PROVE  ~FreesList(t)'
        BY <4>3 DEF BeginRemap, FreesList
      <4> QED BY <3>1, <4>1, <4>2, <4>3
    <3>2. CASE FinishAllocate(t) \/ AllocateFails(t) \/ RemapFails(t) \/ FreeAddress(t)
      BY <3>2 DEF FinishAllocate, AllocateFails, RemapFails, FreeAddress, FreesList, Idle
    <3>3. CASE RemapUnmap(t) \/ RemapMap(t) \/ RemapAccess(t) \/ FreeRelease(t)
      BY <3>3 DEF RemapUnmap, RemapMap, RemapAccess, FreeRelease, FreesList
    <3>4. CASE FreeUnmap(t)
      BY <3>4 DEF FreeUnmap, FreesList
    <3> QED BY <1>1, <3>1, <3>2, <3>3, <3>4
  <2> QED
    BY <2>1, <2>2 DEF FreeingFull, FreesList
<1>2. ASSUME NEW t \in Threads, MapPage(t) PROVE FreeingFull'
  <2>1. /\ ~FreesList(t)' /\ \A u \in Threads : u # t => op'[u] = op[u]
        /\ \A o \in Objs : o # op[t].obj => handlesOf'[o] = handlesOf[o]
    BY <1>2 DEF MapPage, FreesList
  <2>2. \A u \in Threads : u # t /\ FreesList(u) => op[u].obj # op[t].obj /\ op[u].obj \in Objs
    BY <1>2 DEF MapPage, FreesList, OwnersInv, Owns
  <2> QED
    BY <2>1, <2>2 DEF FreeingFull, FreesList
<1>3. ASSUME NEW t \in Threads, RemapRecord(t) PROVE FreeingFull'
  <2>1. /\ ~FreesList(t)' /\ \A u \in Threads : u # t => op'[u] = op[u]
        /\ \A o \in Objs : o # op[t].obj => handlesOf'[o] = handlesOf[o]
    BY <1>3 DEF RemapRecord, FreesList, Idle
  <2>2. \A u \in Threads : u # t /\ FreesList(u) => op[u].obj # op[t].obj /\ op[u].obj \in Objs
    BY <1>3 DEF RemapRecord, FreesList, OwnersInv, Owns, RemapInv, Remaps
  <2> QED
    BY <2>1, <2>2 DEF FreeingFull, FreesList
<1>4. ASSUME NEW t \in Threads, NEW v \in VAs, BeginFree(t, v) PROVE FreeingFull'
  <2>1. /\ handlesOf' = handlesOf /\ \A u \in Threads : u # t => op'[u] = op[u]
        /\ op'[t].obj = registry[v]
        /\ \A p \in Pages : handlesOf[registry[v]][p] \in Handles
    BY <1>4 DEF BeginFree, ListsFull, Idle
  <2> QED
    BY <2>1 DEF FreeingFull, FreesList
<1>5. ASSUME NEW h \in Handles, CreatePhysicalHandle(h) \/ ReleasePhysicalHandle(h)
      PROVE  FreeingFull'
  BY <1>5 DEF CreatePhysicalHandle, ReleasePhysicalHandle, FreeingFull, FreesList
<1>6. CASE UNCHANGED vars
  BY <1>6 DEF vars, FreeingFull, FreesList
<1> QED
  BY <1>1, <1>2, <1>3, <1>4, <1>5, <1>6 DEF Next, Remap, Free

\* Handles the page table has in use: all are created, with a caller or a remap, on
\* their way out or gone, or behind a page of a registered tensor.
LEMMA InUseMember ==
  ASSUME RefineInv, NEW g \in Handles, g \in Promise!InUse
  PROVE  \/ WithCaller(g)
         \/ \E t \in Threads : Remaps(t) /\ WithCall(t, g)
         \/ releases[g] > 0
         \/ \E t \in Threads, p \in Pages : FreesList(t) /\ handlesOf[op[t].obj][p] = g
         \/ \E v \in VAs, p \in Pages : registry[v] # NoObj /\ handlesOf[registry[v]][p] = g
<1>1. g \in Loose \/ g \in Spent \/ \E v \in VAs : g \in Promise!Backing(v)
  BY DEF Promise!InUse
<1>2. CASE \E v \in VAs : g \in Promise!Backing(v)
  <2>1. PICK v \in VAs, p \in Pages : g = Returned[v][p] /\ g # NoHandle
    BY <1>2 DEF Promise!Backing, Promise!Pages, Pages
  <2>2. registry[v] # NoObj
    BY <2>1, ReturnedAt DEF Unmapped
  <2> QED BY <2>1, <2>2, ReturnedAt
<1> QED BY <1>1, <1>2, LooseMember, SpentMember

\* cuMemCreate for a caller is Create.
LEMMA CreateRefines ==
  ASSUME RefineInv, NEW h \in Handles, CreatePhysicalHandle(h)
  PROVE  Promise!Next
<1> USE DEF driverVars, failureVars, RefineInv, AccountInv, BackedInv, TypeInv, TypeOK
<1>1. /\ h \notin created /\ callers' = callers \cup {h}
      /\ UNCHANGED <<registry, handlesOf, op, releases>>
  BY DEF CreatePhysicalHandle
<1>2. /\ ~WithCaller(h) /\ \A t \in Threads : ~WithCall(t, h)
      /\ \A o \in Objs, p \in Pages : ~AtPage(o, p, h) /\ ~Gone(h)
  BY <1>1 DEF SomePlaceInv, ReleasesInv
<1>3. h \notin Promise!InUse
  <2>1. ~(releases[h] > 0)
    BY <1>1 DEF Gone, ReleasesInv
  <2>2. \A t \in Threads, p \in Pages : FreesList(t) => handlesOf[op[t].obj][p] # h
    BY <1>2, LiveMember DEF AtPage, FreesList, Owns, CallsHaveTargets
  <2>3. \A v \in VAs, p \in Pages : registry[v] # NoObj => handlesOf[registry[v]][p] # h
    BY <1>2, LiveMember DEF AtPage
  <2> QED BY <1>2, <2>1, <2>2, <2>3, InUseMember
<1>4. Loose' = Loose \cup {h}
  <2>1. \A g : g \in Loose' <=> g \in Loose \/ g = h
    BY <1>1, LooseMember, LooseMemberNext DEF WithCaller, WithCall, Remaps
  <2> QED BY <2>1
<1>5. Returned' = Returned
  BY <1>1, ReturnedKept
<1>6. Spent' = Spent
  BY <1>1, SpentKept DEF FreesList
<1>7. Promise!Create(h)
  BY <1>3, <1>4, <1>5, <1>6 DEF Promise!Create
<1> QED BY <1>7 DEF Promise!Next

\* cuMemRelease by a caller is Release.
LEMMA ReleaseRefines ==
  ASSUME RefineInv, NEW h \in Handles, ReleasePhysicalHandle(h)
  PROVE  Promise!Next
<1> USE DEF driverVars, failureVars, RefineInv, AccountInv, BackedInv, TypeInv, TypeOK
<1>1. /\ h \in callers /\ callers' = callers \ {h}
      /\ UNCHANGED <<registry, handlesOf, op>>
      /\ releases' = [releases EXCEPT ![h] = @ + 1]
  BY DEF ReleasePhysicalHandle
<1>2. WithCaller(h) /\ \A t \in Threads : ~WithCall(t, h)
  BY <1>1 DEF OnePlaceInv, WithCaller
<1>3. releases'[h] > 0 /\ \A g \in Handles : g # h => releases'[g] = releases[g]
  BY <1>1 DEF ReleasesInv
<1>4. Loose' = Loose \ {h} /\ h \in Loose
  <2>1. \A g : g \in Loose' <=> g \in Loose /\ g # h
    BY <1>1, <1>2, LooseMember, LooseMemberNext DEF WithCaller, WithCall, Remaps
  <2> QED BY <1>2, <2>1, LooseMember
<1>5. Returned' = Returned
  BY <1>1, ReturnedKept
<1>6. Spent' = Spent \cup {h}
  <2>1. \A g : g \in Spent' <=> g \in Spent \/ g = h
    BY <1>1, <1>3, SpentMember, SpentMemberNext DEF FreesList
  <2> QED BY <2>1
<1>7. Promise!Release(h)
  BY <1>4, <1>5, <1>6 DEF Promise!Release
<1> QED BY <1>7 DEF Promise!Next

\* The end of allocate_vmm_kv_cache is Allocate.
LEMMA AllocateRefines ==
  ASSUME RefineInv, NEW t \in Threads, FinishAllocate(t)
  PROVE  Promise!Next
<1> USE DEF At, Return, driverVars, failureVars, RefineInv, AccountInv, BackedInv, TypeInv, TypeOK, CallsHaveTargets
<1> DEFINE v == op[t].va
           o == op[t].obj
           f == handlesOf[o]
<1>0. NoHandle \notin Handles /\ NoObj \notin Objs
  BY VmmAssumption
<1>1. /\ v \in VAs /\ o \in Objs /\ op'[t] = Idle /\ \A u \in Threads : u # t => op'[u] = op[u]
      /\ registry' = [registry EXCEPT ![v] = o] /\ UNCHANGED <<handlesOf, callers, releases>>
      /\ Owns(t) /\ Allocating(t) /\ ~Remaps(t) /\ ~FreesList(t) /\ ~Remaps(t)' /\ ~FreesList(t)'
  BY DEF FinishAllocate, Owns, Allocating, Remaps, FreesList, Idle
<1>2. registry[v] = NoObj
  BY <1>1 DEF PrivateInv, Private
<1>3. \A p \in Pages : f[p] \in Handles
  <2>1. \A p \in Pages : p < op[t].page
    BY VmmAssumption DEF FinishAllocate, ListsFull, Pages
  <2> QED BY <1>1, <2>1 DEF ListsFull
<1>4. f \in [Pages -> Handles]
  BY <1>1, <1>3
<1>5. o \in Live
  BY <1>1, LiveMember
<1>6. ASSUME NEW p \in Pages PROVE f[p] \notin Promise!InUse
  <2> DEFINE g == f[p]
  <2>1. AtPage(o, p, g) /\ g \in Handles
    BY <1>3, <1>5 DEF AtPage
  <2> HIDE DEF g
  <2>2. /\ ~WithCaller(g) /\ \A u \in Threads : ~WithCall(u, g)
        /\ \A w \in Objs, q \in Pages : AtPage(w, q, g) => w = o
    BY <1>1, <2>1 DEF OnePlaceInv
  <2>3. ~(releases[g] > 0)
    BY <1>1, <2>1 DEF SomePlaceInv, Gone
  <2>4. \A u \in Threads, q \in Pages : FreesList(u) => handlesOf[op[u].obj][q] # g
    <3>1. SUFFICES ASSUME NEW u \in Threads, NEW q \in Pages, FreesList(u),
                          handlesOf[op[u].obj][q] = g
                   PROVE  FALSE
      OBVIOUS
    <3>2. Owns(u) /\ op[u].obj \in Objs /\ u # t
      BY <1>1, <3>1 DEF FreesList, Owns
    <3>3. AtPage(op[u].obj, q, g)
      BY <3>1, <3>2, LiveMember DEF AtPage
    <3>4. op[u].obj = o
      BY <2>2, <3>2, <3>3
    <3> QED BY <1>1, <3>2, <3>4 DEF OwnersInv
  <2>5. \A w \in VAs, q \in Pages : registry[w] # NoObj => handlesOf[registry[w]][q] # g
    <3>1. SUFFICES ASSUME NEW w \in VAs, NEW q \in Pages, registry[w] # NoObj,
                          handlesOf[registry[w]][q] = g
                   PROVE  FALSE
      OBVIOUS
    <3>2. registry[w] \in Objs /\ AtPage(registry[w], q, g)
      BY <3>1, LiveMember DEF AtPage
    <3>3. registry[w] = o
      BY <2>2, <3>2
    <3> QED BY <1>1, <3>3 DEF OwnersInv
  <2>6. g \notin Promise!InUse
    BY <2>1, <2>2, <2>3, <2>4, <2>5, InUseMember
  <2> QED BY <2>6 DEF g
<1>7. ASSUME NEW p \in Pages, NEW q \in Pages, f[p] = f[q] PROVE p = q
  <2>1. AtPage(o, p, f[p]) /\ AtPage(o, q, f[p]) /\ f[p] \in Handles
    BY <1>3, <1>5, <1>7 DEF AtPage
  <2> QED BY <1>1, <2>1 DEF OnePlaceInv
<1>8. Returned[v] = Unmapped
  BY <1>1, <1>2, ReturnedAt
<1>9. Returned' = [Returned EXCEPT ![v] = f]
  BY <1>0, <1>1 DEF Returned
<1>10. Loose' = Loose
  BY <1>1, LooseKept DEF Remaps
<1>11. Spent' = Spent
  BY <1>1, SpentKept DEF FreesList
<1>12. f \in [Pages -> Handles \ Promise!InUse]
  BY <1>4, <1>6
<1> HIDE DEF f, o, v
<1>13. Promise!Allocate(v)
  BY <1>7, <1>8, <1>9, <1>10, <1>11, <1>12
     DEF Promise!Allocate, Promise!Pages, Promise!Unbacked, Unmapped, Pages
<1> QED BY <1>1, <1>13 DEF Promise!Next

\* The end of remap_block is Swap.
LEMMA SwapRefines ==
  ASSUME Overlap = FALSE, RefineInv, NEW t \in Threads, RemapRecord(t)
  PROVE  Promise!Next
<1> USE DEF At, Return, driverVars, failureVars, RefineInv, AccountInv, BackedInv, TypeInv, TypeOK, CallsHaveTargets
<1> DEFINE v == op[t].va
           o == op[t].obj
           p == op[t].page
           h == op[t].handle
           old == handlesOf[o][p]
<1>0. NoHandle \notin Handles /\ NoObj \notin Objs
  BY VmmAssumption
<1>1. /\ v \in VAs /\ o \in Objs /\ p \in Pages /\ h \in Handles
      /\ op'[t] = Idle /\ \A u \in Threads : u # t => op'[u] = op[u]
      /\ handlesOf' = [handlesOf EXCEPT ![o][p] = h]
      /\ callers' = callers \cup {old} /\ UNCHANGED <<registry, releases>>
      /\ Remaps(t) /\ ~FreesList(t) /\ ~Remaps(t)' /\ ~FreesList(t)'
  BY DEF RemapRecord, Remaps, FreesList, Idle
<1>2. registry[v] = o /\ old \in Handles
  BY <1>1 DEF RemapInv, ListsFull
<1>3. Returned[v] = handlesOf[o] /\ Returned[v] # Unmapped
  <2>1. Returned[v] = handlesOf[o]
    BY <1>0, <1>1, <1>2, ReturnedAt
  <2>2. handlesOf[o] # Unmapped
    BY <1>0, <1>1, <1>2 DEF Unmapped
  <2> QED BY <2>1, <2>2
<1>4. WithCall(t, h) /\ h \in Loose
  BY <1>1, LooseMember DEF WithCall
<1>5. ~WithCaller(h) /\ \A u \in Threads : WithCall(u, h) => u = t
  BY <1>1, <1>4 DEF OnePlaceInv
<1>6. AtPage(o, p, old) /\ AtPage(o, p, old) => old # h
  <2>1. o \in Live
    BY <1>1, <1>2, LiveMember
  <2>2. AtPage(o, p, old)
    BY <2>1 DEF AtPage
  <2> QED BY <1>1, <1>2, <1>4, <2>2 DEF OnePlaceInv
<1>7. Loose' = (Loose \ {h}) \cup {old}
  <2> HIDE DEF h, old
  <2>1. \A u \in Threads : u # t => (Remaps(u)' <=> Remaps(u)) /\ op'[u].handle = op[u].handle
    BY <1>1 DEF Remaps
  <2>2. \A g : g \in Loose' <=> g = old \/ WithCaller(g)
                              \/ \E u \in Threads : u # t /\ Remaps(u) /\ WithCall(u, g)
    BY <1>1, <2>1, LooseMemberNext DEF WithCaller, WithCall
  <2>3. \A g : WithCall(t, g) <=> g = h
    BY DEF WithCall, h
  <2>4. \A g : g \in Loose' <=> g = old \/ (g \in Loose /\ g # h)
    BY <1>1, <1>5, <2>2, <2>3, LooseMember
  <2> QED BY <2>4
<1>8. Returned' = [Returned EXCEPT ![v][p] = h]
  <2>1. \A w \in VAs : w # v => registry[w] # o
    BY <1>0, <1>1, <1>2 DEF RegistryInv
  <2>2. /\ handlesOf'[o] = [handlesOf[o] EXCEPT ![p] = h]
        /\ \A x \in Objs : x # o => handlesOf'[x] = handlesOf[x]
    BY <1>1
  <2>3. Returned' = [Returned EXCEPT ![v] = handlesOf'[o]]
    <3>1. DOMAIN Returned = VAs /\ DOMAIN Returned' = VAs /\ Returned = [w \in VAs |-> Returned[w]]
          /\ Returned' = [w \in VAs |-> Returned'[w]]
      BY DEF Returned
    <3>2. ASSUME NEW w \in VAs, w # v PROVE Returned'[w] = Returned[w]
      <4>1. registry[w] # NoObj => handlesOf'[registry[w]] = handlesOf[registry[w]]
        BY <2>1, <2>2, <3>2
      <4> QED BY <1>1, <4>1 DEF Returned
    <3>3. Returned'[v] = handlesOf'[o]
      BY <1>0, <1>1, <1>2 DEF Returned
    <3> HIDE DEF v, o
    <3> QED BY <1>1, <3>1, <3>2, <3>3
  <2> QED BY <1>1, <1>3, <2>2, <2>3 DEF Returned
<1>9. Spent' = Spent
  <2>1. \A u \in Threads : FreesList(u) => op[u].obj # o /\ op[u].obj \in Objs
    BY <1>1, <1>2 DEF OwnersInv, Owns, FreesList
  <2> QED BY <1>1, <2>1, SpentKept DEF FreesList
<1>10. old = Returned[v][p]
  BY <1>3
<1> HIDE DEF v, o, p, h, old
<1>11. Promise!Swap(v, p, h)
  BY <1>3, <1>4, <1>7, <1>8, <1>9, <1>10
     DEF Promise!Swap, Promise!Unbacked, Promise!Pages, Unmapped, Pages
<1> QED BY <1>1, <1>11 DEF Promise!Next, Promise!Pages, Pages

\* The beginning of free_vmm_kv_cache is Free.
LEMMA FreeRefines ==
  ASSUME RefineInv, NEW t \in Threads, NEW v \in VAs, BeginFree(t, v)
  PROVE  Promise!Next
<1> USE DEF At, driverVars, failureVars, RefineInv, AccountInv, BackedInv, TypeInv, TypeOK, CallsHaveTargets
<1> DEFINE o == registry[v]
<1>0. NoHandle \notin Handles /\ NoObj \notin Objs
  BY VmmAssumption
<1>1. /\ o # NoObj /\ o \in Objs /\ op'[t].obj = o /\ \A u \in Threads : u # t => op'[u] = op[u]
      /\ registry' = [registry EXCEPT ![v] = NoObj]
      /\ UNCHANGED <<handlesOf, callers, releases>>
      /\ ~Remaps(t) /\ ~FreesList(t) /\ ~Remaps(t)' /\ FreesList(t)'
  BY DEF BeginFree, Remaps, FreesList, Idle
<1>2. \A p \in Pages : handlesOf[o][p] \in Handles
  BY <1>1 DEF ListsFull
<1>3. Returned[v] = handlesOf[o] /\ Returned[v] # Unmapped
  <2>1. 0 \in Pages
    BY VmmAssumption DEF Pages
  <2>2. handlesOf[o] # Unmapped
    BY <1>0, <1>2, <2>1 DEF Unmapped
  <2> QED BY <1>1, <2>2, ReturnedAt
<1>4. Returned' = [Returned EXCEPT ![v] = Unmapped]
  BY <1>1 DEF Returned
<1>5. Loose' = Loose
  BY <1>1, LooseKept DEF Remaps
<1>6. Spent' = Spent \cup Promise!Backing(v)
  <2>1. \A g : g \in Promise!Backing(v) <=> \E p \in Pages : handlesOf[o][p] = g
    BY <1>0, <1>2, <1>3 DEF Promise!Backing, Promise!Pages, Pages
  <2> HIDE DEF o
  <2>2. \A u \in Threads : u # t => (FreesList(u)' <=> FreesList(u)) /\ op'[u].obj = op[u].obj
    BY <1>1 DEF FreesList
  <2>3. \A g : g \in Spent' <=> g \in Spent \/ \E p \in Pages : handlesOf[o][p] = g
    BY <1>1, <2>2, SpentMember, SpentMemberNext
  <2> QED BY <2>1, <2>3
<1>7. Promise!Free(v)
  BY <1>3, <1>4, <1>5, <1>6 DEF Promise!Free, Promise!Unbacked, Promise!Pages, Unmapped, Pages
<1> QED BY <1>7 DEF Promise!Next

\* What FreeRelease releases was on its way out.
LEMMA ReleasedIsSpent ==
  ASSUME RefineInv, NEW t \in Threads, FreeRelease(t)
  PROVE  Spent' = Spent
<1> USE DEF At, Goto, driverVars, failureVars, RefineInv, AccountInv, BackedInv, TypeInv, TypeOK, CallsHaveTargets
<1> DEFINE o == op[t].obj
           At_(g) == {p \in Pages : handlesOf[o][p] = g}
<1>1. /\ \A u \in Threads : u # t => op'[u] = op[u]
      /\ handlesOf' = handlesOf /\ FreesList(t) /\ ~FreesList(t)'
      /\ \A p \in Pages : handlesOf[o][p] \in Handles
  BY DEF FreeRelease, FreesList, FreeingFull
<1>2. \A g \in Handles : releases'[g] = releases[g] + Cardinality(At_(g))
  BY DEF FreeRelease
<1>3. IsFiniteSet(Pages)
  BY VmmAssumption, FS_Interval DEF Pages
<1>4. ASSUME NEW g \in Handles
      PROVE  releases'[g] > 0 <=> releases[g] > 0 \/ \E p \in Pages : handlesOf[o][p] = g
  <2>1. At_(g) \subseteq Pages
    OBVIOUS
  <2>2. At_(g) # {} <=> \E p \in Pages : handlesOf[o][p] = g
    OBVIOUS
  <2> HIDE DEF At_
  <2>3. Cardinality(At_(g)) \in Nat /\ (Cardinality(At_(g)) = 0 <=> At_(g) = {})
    BY <1>3, <2>1, FS_Subset, FS_CardinalityType, FS_EmptySet
  <2> DEFINE n == Cardinality(At_(g))
  <2>4. releases[g] \in Nat /\ releases'[g] = releases[g] + n
    BY <1>2
  <2>5. n \in Nat /\ (n = 0 <=> ~ \E p \in Pages : handlesOf[o][p] = g)
    BY <2>2, <2>3
  <2> HIDE DEF n
  <2>6. releases'[g] > 0 <=> releases[g] > 0 \/ n # 0
    BY <2>4, <2>5
  <2> QED BY <2>5, <2>6
<1> HIDE DEF At_, o
<1>5. \A u \in Threads : u # t => (FreesList(u)' <=> FreesList(u)) /\ op'[u].obj = op[u].obj
  BY <1>1 DEF FreesList
<1>6. ASSUME NEW g PROVE g \in Spent' <=> g \in Spent
  <2>1. g \in Spent' <=> \/ g \in Handles /\ releases'[g] > 0
                         \/ \E u \in Threads, p \in Pages :
                               u # t /\ FreesList(u) /\ handlesOf[op[u].obj][p] = g
    BY <1>1, <1>5, SpentMemberNext
  <2>2. g \in Spent <=> \/ g \in Handles /\ releases[g] > 0
                        \/ \E p \in Pages : handlesOf[o][p] = g
                        \/ \E u \in Threads, p \in Pages :
                               u # t /\ FreesList(u) /\ handlesOf[op[u].obj][p] = g
    BY <1>1, SpentMember DEF o
  <2> QED BY <1>1, <1>4, <2>1, <2>2
<1> QED BY <1>6

\* One turn of the allocator is one of the page table, or nothing there.
LEMMA StepRefines ==
  ASSUME Overlap = FALSE, RefineInv, [Next]_vars
  PROVE  [Promise!Next]_(Promise!vars)
<1> USE DEF At, Goto, Return, driverVars, failureVars, RefineInv, AccountInv, BackedInv, TypeInv, TypeOK, CallsHaveTargets
<1> USE DEF Promise!vars
<1>0. NoHandle \notin Handles /\ NoObj \notin Objs
  BY VmmAssumption
<1>1. ASSUME NEW t \in Threads, NEW v \in VAs, NEW o \in Objs, BeginAllocate(t, v, o)
      PROVE  UNCHANGED Promise!vars
  <2>1. Returned' = Returned
    BY <1>1, ReturnedKept DEF BeginAllocate
  <2>2. Loose' = Loose
    BY <1>1, LooseKept DEF BeginAllocate, Remaps, Idle
  <2>3. Spent' = Spent
    BY <1>1, SpentKept DEF BeginAllocate, FreesList, Idle
  <2> QED BY <2>1, <2>2, <2>3
<1>2. ASSUME NEW t \in Threads, NEW h \in Handles, CreatePage(t, h)
      PROVE  UNCHANGED Promise!vars
  <2>1. Returned' = Returned
    BY <1>2, ReturnedKept DEF CreatePage
  <2>2. Loose' = Loose
    BY <1>2, LooseKept DEF CreatePage, Remaps
  <2>3. Spent' = Spent
    BY <1>2, SpentKept DEF CreatePage, FreesList
  <2> QED BY <2>1, <2>2, <2>3
<1>3. ASSUME NEW t \in Threads, MapPage(t)
      PROVE  UNCHANGED Promise!vars
  <2>1. /\ \A u \in Threads : u # t => op'[u] = op[u]
        /\ \A o \in Objs : o # op[t].obj => handlesOf'[o] = handlesOf[o]
        /\ op[t].obj \in Objs /\ Owns(t) /\ ~Remaps(t) /\ ~FreesList(t)
        /\ ~Remaps(t)' /\ ~FreesList(t)'
    BY <1>3 DEF MapPage, Owns, Remaps, FreesList
  <2>2. Returned' = Returned
    <3>1. \A v \in VAs : registry[v] # op[t].obj
      BY <2>1 DEF OwnersInv
    <3> QED BY <1>3, <2>1, <3>1, ReturnedKept DEF MapPage
  <2>3. Loose' = Loose
    BY <1>3, <2>1, LooseKept DEF MapPage, Remaps
  <2>4. Spent' = Spent
    <3>1. \A u \in Threads : FreesList(u) => op[u].obj # op[t].obj /\ op[u].obj \in Objs
      BY <2>1 DEF OwnersInv, Owns, FreesList
    <3> QED BY <1>3, <2>1, <3>1, SpentKept DEF MapPage, FreesList
  <2> QED BY <2>2, <2>3, <2>4
<1>4. ASSUME NEW t \in Threads, FinishAllocate(t) PROVE Promise!Next
  BY <1>4, AllocateRefines
<1>5. ASSUME NEW t \in Threads, AllocateFails(t) PROVE UNCHANGED Promise!vars
  <2>1. Returned' = Returned
    BY <1>5, ReturnedKept DEF AllocateFails
  <2>2. Loose' = Loose
    BY <1>5, LooseKept DEF AllocateFails, Remaps, Idle
  <2>3. Spent' = Spent
    BY <1>5, SpentKept DEF AllocateFails, FreesList, Idle
  <2> QED BY <2>1, <2>2, <2>3
<1>6. ASSUME NEW h \in Handles, CreatePhysicalHandle(h) PROVE Promise!Next
  BY <1>6, CreateRefines
<1>7. ASSUME NEW h \in Handles, ReleasePhysicalHandle(h) PROVE Promise!Next
  BY <1>7, ReleaseRefines
<1>8. ASSUME NEW t \in Threads, NEW v \in VAs, NEW p \in Pages, NEW h \in Handles,
             BeginRemap(t, v, p, h)
      PROVE  UNCHANGED Promise!vars
  <2>1. Returned' = Returned
    BY <1>8, ReturnedKept DEF BeginRemap
  <2>2. Spent' = Spent
    BY <1>8, SpentKept DEF BeginRemap, FreesList
  <2>3. /\ callers' = callers \ {h} /\ h \in callers
        /\ \A u \in Threads : u # t => op'[u] = op[u]
        /\ ~Remaps(t) /\ Remaps(t)' /\ op'[t].handle = h
    BY <1>8 DEF BeginRemap, Remaps
  <2>4. \A g : g \in Loose' <=> g \in Loose
    <3>1. \A u \in Threads : u # t => (Remaps(u)' <=> Remaps(u))
                                    /\ \A g : WithCall(u, g)' <=> WithCall(u, g)
      BY <2>3 DEF Remaps, WithCall
    <3>2. \A g : /\ WithCall(t, g)' <=> g = h
                 /\ WithCaller(g)' <=> WithCaller(g) /\ g # h
                 /\ g = h => WithCaller(g)
      BY <2>3 DEF WithCall, WithCaller
    <3> QED BY <2>3, <3>1, <3>2, LooseMember, LooseMemberNext
  <2> QED BY <2>1, <2>2, <2>4
<1>9. ASSUME NEW t \in Threads, RemapUnmap(t) \/ RemapMap(t) \/ RemapAccess(t)
      PROVE  UNCHANGED Promise!vars
  <2>1. /\ registry' = registry /\ handlesOf' = handlesOf /\ callers' = callers
        /\ releases' = releases
    BY <1>9 DEF RemapUnmap, RemapMap, RemapAccess
  <2>2. \A u \in Threads : /\ op'[u].obj = op[u].obj /\ op'[u].handle = op[u].handle
                           /\ Remaps(u)' <=> Remaps(u)
                           /\ FreesList(u)' <=> FreesList(u)
    <3>1. \E s \in {"remapMap", "remapAccess", "remapRecord"} : op' = [op EXCEPT ![t].step = s]
      BY <1>9 DEF RemapUnmap, RemapMap, RemapAccess
    <3>2. op[t].step \in {"remapLock", "remapMap", "remapAccess"}
      BY <1>9 DEF RemapUnmap, RemapMap, RemapAccess
    <3> QED BY <1>9, <3>1, <3>2 DEF Remaps, FreesList
  <2>3. Returned' = Returned
    BY <2>1, ReturnedKept
  <2>4. Loose' = Loose
    BY <2>1, <2>2, LooseKept
  <2>5. Spent' = Spent
    BY <2>1, <2>2, SpentKept
  <2> QED BY <2>3, <2>4, <2>5
<1>10. ASSUME NEW t \in Threads, RemapRecord(t) PROVE Promise!Next
  BY <1>10, SwapRefines
<1>11. ASSUME NEW t \in Threads, RemapFails(t) PROVE UNCHANGED Promise!vars
  <2>1. Returned' = Returned
    BY <1>11, ReturnedKept DEF RemapFails
  <2>2. Spent' = Spent
    BY <1>11, SpentKept DEF RemapFails, FreesList, Idle
  <2>3. /\ callers' = callers \cup {op[t].handle}
        /\ \A u \in Threads : u # t => op'[u] = op[u]
        /\ Remaps(t) /\ ~Remaps(t)'
    BY <1>11 DEF RemapFails, Remaps, Idle
  <2>4. \A g : g \in Loose' <=> g \in Loose
    <3>1. \A u \in Threads : u # t => (Remaps(u)' <=> Remaps(u))
                                    /\ \A g : WithCall(u, g)' <=> WithCall(u, g)
      BY <2>3 DEF Remaps, WithCall
    <3>2. \A g : WithCaller(g)' <=> WithCaller(g) \/ WithCall(t, g)
      BY <2>3 DEF WithCall, WithCaller
    <3> QED BY <2>3, <3>1, <3>2, LooseMember, LooseMemberNext
  <2> QED BY <2>1, <2>2, <2>4
<1>12. ASSUME NEW t \in Threads, NEW v \in VAs, BeginFree(t, v) PROVE Promise!Next
  BY <1>12, FreeRefines
<1>13. ASSUME NEW t \in Threads, FreeUnmap(t) PROVE UNCHANGED Promise!vars
  <2>1. Returned' = Returned
    BY <1>13, ReturnedKept DEF FreeUnmap
  <2>2. Loose' = Loose
    BY <1>13, LooseKept DEF FreeUnmap, Remaps
  <2>3. Spent' = Spent
    BY <1>13, SpentKept DEF FreeUnmap, FreesList
  <2> QED BY <2>1, <2>2, <2>3
<1>14. ASSUME NEW t \in Threads, FreeRelease(t) PROVE UNCHANGED Promise!vars
  <2>1. Returned' = Returned
    BY <1>14, ReturnedKept DEF FreeRelease
  <2>2. Loose' = Loose
    BY <1>14, LooseKept DEF FreeRelease, Remaps
  <2>3. Spent' = Spent
    BY <1>14, ReleasedIsSpent
  <2> QED BY <2>1, <2>2, <2>3
<1>15. ASSUME NEW t \in Threads, FreeAddress(t) PROVE UNCHANGED Promise!vars
  <2>1. Returned' = Returned
    BY <1>15, ReturnedKept DEF FreeAddress
  <2>2. Loose' = Loose
    BY <1>15, LooseKept DEF FreeAddress, Remaps, Idle
  <2>3. Spent' = Spent
    BY <1>15, SpentKept DEF FreeAddress, FreesList, Idle
  <2> QED BY <2>1, <2>2, <2>3
<1>16. CASE UNCHANGED vars
  <2>1. Returned' = Returned
    BY <1>16, ReturnedKept DEF vars
  <2>2. Loose' = Loose
    BY <1>16, LooseKept DEF vars, Remaps
  <2>3. Spent' = Spent
    BY <1>16, SpentKept DEF vars, FreesList
  <2> QED BY <2>1, <2>2, <2>3
<1> QED
  BY <1>1, <1>2, <1>3, <1>4, <1>5, <1>6, <1>7, <1>8, <1>9, <1>10, <1>11, <1>12, <1>13,
     <1>14, <1>15, <1>16
     DEF Next, Remap, Free

\* When no tensor is freed during a remap of it, the allocator does what PageTable
\* says: allocate_vmm_kv_cache backs all pages of a tensor at once, remap_block
\* exchanges one page's handle in one step or not at all, free_vmm_kv_cache gives all
\* of a tensor's handles up, whatever threads do in between and whichever driver
\* calls fail.
THEOREM AllocatorImplementsPageTable ==
  ASSUME Overlap = FALSE
  PROVE  Spec => ImplementsPageTable
<1>1. Init => Promise!Init
  BY DEF Init, Promise!Init, Promise!Unbacked, Promise!Pages, Returned, Loose, Spent,
         Unmapped, Pages, Idle
<1>2. Init => RefineInv
  BY InitAccount, InitFreeing DEF RefineInv
<1>3. RefineInv /\ [Next]_vars => RefineInv'
  BY StepAccount, StepFreeing DEF RefineInv
<1>4. RefineInv /\ [Next]_vars => [Promise!Next]_(Promise!vars)
  BY StepRefines
<1> QED
  BY <1>1, <1>2, <1>3, <1>4, PTL DEF Spec, ImplementsPageTable, Promise!Spec
==============================================================================
