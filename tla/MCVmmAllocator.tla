---------------------------- MODULE MCVmmAllocator ----------------------------
(* Model-checking instance of VmmAllocator: see the .cfg files for the bounds. *)
EXTENDS VmmAllocator, TLC

Symmetry == Permutations(Handles) \cup Permutations(Threads) \cup Permutations(Objs)

\* What the tensors hold is a matter of KvLayout's operators, checked here on every
\* layout of up to four pages of two kernel blocks.
Layout == INSTANCE KvLayout
Layouts == {[kvFirst |-> kv, padded |-> pad, rows |-> rows, hidden |-> h, dtype |-> d,
             split |-> s, page |-> s * rows * h * d + extra] :
              kv \in BOOLEAN, pad \in BOOLEAN, rows \in 2..3, h \in 1..3, d \in 1..2,
              s \in 1..2, extra \in 0..2}
Specs(kind(_)) == {spec \in Layouts : Layout!IsSpec(spec) /\ kind(spec)}
Fits(spec, view, n) == Layout!InItsPage(spec, view, n) /\ Layout!Apart(spec, view, n)

\* A hybrid model's attention layers keep to their pages, K/V-first backends because
\* their strides are changed.  Two blocks of an MLA tensor are taken for K and V.
ASSUME HybridLayoutFits ==
  \A spec \in Specs(Layout!IsTight), n \in 1..4 :
    LET blocks == Layout!KernelBlocks(spec, n * spec.page)
        plain == Layout!AttentionView(spec, blocks)
    IN  blocks # 2 =>
          /\ Fits(spec, Layout!UpdateHybridAttentionLayout(plain), n)
          /\ Layout!Apart(spec, plain, n)
          /\ spec.kvFirst /\ n > 1 => ~Layout!InItsPage(spec, plain, n)
ASSUME TwoBlocksAreTakenForKandV ==
  \A spec \in Specs(Layout!IsTight) : spec.rows # 2 /\ spec.split = 1 =>
    LET view == Layout!AttentionView(spec, 2)
    IN  ~Layout!InItsPage(spec, Layout!UpdateHybridAttentionLayout(view), 2)

\* Padded pages of block-first tensors.
ASSUME PaddedLayoutFits ==
  \A spec \in Specs(Layout!IsPadded), n \in 1..4 :
    Fits(spec, Layout!AttentionView(spec, n), n)

\* The states of a Mamba layer, in a page the last one may leave room in.
ASSUME MambaStatesFit ==
  \A a, b \in [numel : 1..3, dtype : {1, 2}], spare \in 0..3, n \in 1..3 :
    LET page == 2 * (a.numel * a.dtype + b.numel * b.dtype + spare) IN
    (a.numel * a.dtype) % b.dtype = 0 => Layout!StatesInTheirPage(page, <<a, b>>, n)

ASSUME EngineReservesAsCounted ==
  \A layers \in 1..3, h \in 1..4, d \in 1..2, n \in 0..5, granule \in 1..5 :
    Layout!ReservedAsCounted([layers |-> layers, hidden |-> h, dtype |-> d], n, granule)
==============================================================================
