-------------------------------- MODULE KvLayout --------------------------------
(***************************************************************************)
(* Where the worker puts the KV cache of a layer in a raw tensor: the      *)
(* shapes and strides of _reshape_kv_cache and the change hybrid models    *)
(* get, as operators, and the bytes the older CacheEngine reserves.  All   *)
(* layers of a raw tensor, attention or Mamba, take the same pages of it   *)
(* in turn, so what matters is that the bytes of a page stay in it.        *)
(*                                                                         *)
(* spec is an attention layer's AttentionSpec with its backend: kvFirst    *)
(* when get_kv_cache_shape starts with the K/V dimension, rows the size of *)
(* the dimension that is not the block's (2 for K and V, tokens for MLA),  *)
(* hidden the elements below both, dtype the bytes of one, split the       *)
(* kernel blocks of a page, page the bytes of page_size_bytes.  Stride     *)
(* orders permute only dimensions that hidden counts as one.               *)
(***************************************************************************)
EXTENDS Integers, SequencesExt

\* Kernel blocks of a raw tensor of so many bytes.
KernelBlocks(spec, bytes) == (bytes \div spec.page) * spec.split

\* get_kv_cache_shape of the backend.
Shape(spec, n) == IF spec.kvFirst THEN <<2, n, spec.hidden>>
                                  ELSE <<n, spec.rows, spec.hidden>>

\* A view: its size and the strides of its first two dimensions, in elements.
Contiguous(size) == [size |-> size, stride |-> <<size[2] * size[3], size[3]>>]

\* The view of a page with padding: only the first stride knows of it.
Padded(size, spec) ==
  [Contiguous(size) EXCEPT !.stride = <<spec.page \div spec.dtype, size[3]>>]

AttentionView(spec, n) ==
  IF spec.padded THEN Padded(Shape(spec, n), spec) ELSE Contiguous(Shape(spec, n))

\* _update_hybrid_attention_layout takes a first dimension of 2 for K and V.
UpdateHybridAttentionLayout(view) ==
  IF view.size[1] = 2
  THEN [view EXCEPT !.stride = <<view.size[3], 2 * view.size[3]>>]
  ELSE view

\* First byte of element e of row r in kernel block k of page p.
Byte(spec, view, p, k, r, e) ==
  LET b == p * spec.split + k
  IN  spec.dtype * (IF spec.kvFirst THEN r * view.stride[1] + b * view.stride[2] + e
                                    ELSE b * view.stride[1] + r * view.stride[2] + e)

\* The states of a Mamba layer, [numel, dtype] each, lie one after the other in
\* every page: where state i starts, and the first byte of its element e in page p.
StateStart(states, i) ==
  FoldLeft(LAMBDA n, s : n + s.numel * s.dtype, 0, SubSeq(states, 1, i - 1))
StateByte(page, state, start, p, e) ==
  state.dtype * (p * (page \div state.dtype) + start \div state.dtype + e)

\* allocate_vmm_kv_cache reserves whole pages of the driver.
Reserved(bytes, granule) == ((bytes + granule - 1) \div granule) * granule

\* CacheEngine: bytes of one layer's tensor, and what get_cache_block_size says a
\* block takes in all layers.
LayerBytes(engine, n) == 2 * n * engine.hidden * engine.dtype
CacheBlockSize(engine) == engine.dtype * (engine.layers * (engine.hidden + engine.hidden))

-------------------------------------------------------------------------------
(* Properties of a layout *)

IsSpec(spec) ==
  /\ spec.kvFirst \in BOOLEAN /\ spec.padded \in BOOLEAN
  /\ spec.rows \in Nat \ {0} /\ spec.hidden \in Nat \ {0}
  /\ spec.dtype \in Nat \ {0} /\ spec.split \in Nat \ {0} /\ spec.page \in Nat \ {0}
  /\ spec.kvFirst => spec.rows = 2

\* The page is as large as its kernel blocks.
IsTight(spec) ==
  ~spec.padded /\ spec.page = spec.split * (spec.rows * (spec.hidden * spec.dtype))

\* The page is padded: the backend has block-first tensors and one kernel block
\* per page, as the comment in _reshape_kv_cache demands.
IsPadded(spec) ==
  /\ spec.padded /\ ~spec.kvFirst /\ spec.split = 1
  /\ spec.page % spec.dtype = 0
  /\ spec.rows * (spec.hidden * spec.dtype) <= spec.page

\* The view keeps every element of a page within the page's bytes.
InItsPage(spec, view, pages) ==
  \A p \in 0..pages - 1, k \in 0..spec.split - 1, r \in 0..spec.rows - 1,
     e \in 0..spec.hidden - 1 :
    /\ p * spec.page <= Byte(spec, view, p, k, r, e)
    /\ Byte(spec, view, p, k, r, e) + spec.dtype <= (p + 1) * spec.page

\* No two elements share a byte.
Apart(spec, view, pages) ==
  \A p, q \in 0..pages - 1, j, k \in 0..spec.split - 1, r, s \in 0..spec.rows - 1,
     e, f \in 0..spec.hidden - 1 :
    <<p, j, r, e>> # <<q, k, s, f>> =>
      \/ Byte(spec, view, p, j, r, e) + spec.dtype <= Byte(spec, view, q, k, s, f)
      \/ Byte(spec, view, q, k, s, f) + spec.dtype <= Byte(spec, view, p, j, r, e)

\* The states of a Mamba layer stay in their page, one after the other.
StatesInTheirPage(page, states, pages) ==
  \A p \in 0..pages - 1, i \in DOMAIN states :
    LET start == StateStart(states, i) IN
    \A e \in 0..states[i].numel - 1 :
      /\ p * page + start <= StateByte(page, states[i], start, p, e)
      /\ StateByte(page, states[i], start, p, e) + states[i].dtype
           <= p * page + start + states[i].numel * states[i].dtype
      /\ start + states[i].numel * states[i].dtype <= page

\* What the engine reserves for n blocks: no less than was counted for them, and
\* less than a driver page more in every layer.
ReservedAsCounted(engine, n, granule) ==
  LET reserved == engine.layers * Reserved(LayerBytes(engine, n), granule)
  IN  /\ n * CacheBlockSize(engine) <= reserved
      /\ reserved < n * CacheBlockSize(engine) + engine.layers * granule
==============================================================================
