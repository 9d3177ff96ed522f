------------------------------ MODULE PageTable ------------------------------
(***************************************************************************)
(* What the VMM allocator promises, without driver calls, locks or         *)
(* failures: every page of an allocated tensor is backed by one physical   *)
(* handle of its own, and remap_block exchanges, in one step, the handle   *)
(* of one page for a handle of the caller.                                 *)
(***************************************************************************)
EXTENDS Naturals

CONSTANTS VAs,        \* virtual address ranges tensors may get
          NumPages,   \* pages of a tensor
          Handles,    \* physical handles
          NoHandle    \* no backing

Pages == 0..(NumPages - 1)
Unbacked == [p \in Pages |-> NoHandle]

VARIABLES backing,    \* backing[v][p]: the handle behind page p of v
          loose,      \* handles that back nothing and that callers hold
          spent       \* released handles

vars == <<backing, loose, spent>>

Backing(v) == {backing[v][p] : p \in Pages} \ {NoHandle}
InUse == loose \cup spent \cup UNION {Backing(v) : v \in VAs}

Init == /\ backing = [v \in VAs |-> Unbacked]
        /\ loose = {}
        /\ spent = {}

Create(h) == /\ h \notin InUse
             /\ loose' = loose \cup {h}
             /\ UNCHANGED <<backing, spent>>

Release(h) == /\ h \in loose
              /\ loose' = loose \ {h}
              /\ spent' = spent \cup {h}
              /\ UNCHANGED backing

Allocate(v) ==
  /\ backing[v] = Unbacked
  /\ \E f \in [Pages -> Handles \ InUse] :
        /\ \A p, q \in Pages : f[p] = f[q] => p = q
        /\ backing' = [backing EXCEPT ![v] = f]
  /\ UNCHANGED <<loose, spent>>

Swap(v, p, h) ==
  /\ backing[v] # Unbacked
  /\ h \in loose
  /\ backing' = [backing EXCEPT ![v][p] = h]
  /\ loose' = (loose \ {h}) \cup {backing[v][p]}
  /\ UNCHANGED spent

Free(v) ==
  /\ backing[v] # Unbacked
  /\ backing' = [backing EXCEPT ![v] = Unbacked]
  /\ spent' = spent \cup Backing(v)
  /\ UNCHANGED loose

Next == \/ \E h \in Handles : Create(h) \/ Release(h)
        \/ \E v \in VAs : Allocate(v) \/ Free(v)
        \/ \E v \in VAs, p \in Pages, h \in Handles : Swap(v, p, h)

Spec == Init /\ [][Next]_vars
==============================================================================
