----------------------------- MODULE KvLayout_proofs -----------------------------
(***************************************************************************)
(* The layouts of KvLayout keep the bytes of a page in it and apart, for   *)
(* tensors of any size.  The argument is that of numbers written with      *)
(* digits: an element's byte is a number whose digits are its page, its    *)
(* kernel block, its row and its place in the row.                         *)
(***************************************************************************)
EXTENDS KvLayout, TLAPS

\* Multiplication by a natural number preserves <.
LEMMA TimesMonotone ==
  ASSUME NEW a \in Nat, NEW b \in Nat, NEW n \in Nat, a < b
  PROVE  a * n + n <= b * n
<1> DEFINE d == b - (a + 1)
<1>1. d \in Nat /\ b = a + 1 + d
  OBVIOUS
<1>2. b * n = a * n + n + d * n
  BY <1>1, Z3
<1>3. d * n >= 0 /\ d * n \in Nat /\ a * n \in Nat /\ b * n \in Nat
  BY <1>1, Z3
<1> QED
  BY <1>2, <1>3

\* A number a * n + d with a digit d < n lies in the a-th interval of length n.
LEMMA DigitInInterval ==
  ASSUME NEW a \in Nat, NEW b \in Nat, NEW n \in Nat, NEW d \in 0..n - 1, a < b
  PROVE  /\ a * n + d \in Nat
         /\ a * n <= a * n + d
         /\ a * n + d < b * n
<1>1. a * n \in Nat /\ b * n \in Nat
  BY Z3
<1>2. a * n + n <= b * n
  BY TimesMonotone
<1> QED
  BY <1>1, <1>2

\* Two such numbers differ when their digits do.
LEMMA DigitsUnique ==
  ASSUME NEW n \in Nat, NEW a \in Nat, NEW b \in Nat,
         NEW c \in 0..n - 1, NEW d \in 0..n - 1, <<a, c>> # <<b, d>>
  PROVE  a * n + c # b * n + d
<1>1. a * n \in Nat /\ b * n \in Nat
  BY Z3
<1>2. CASE a < b
  <2>1. a * n + n <= b * n
    BY <1>2, TimesMonotone
  <2> QED
    BY <1>1, <2>1
<1>3. CASE b < a
  <2>1. b * n + n <= a * n
    BY <1>3, TimesMonotone
  <2> QED
    BY <1>1, <2>1
<1>4. CASE a = b
  BY <1>1, <1>4
<1> QED
  BY <1>2, <1>3, <1>4

-------------------------------------------------------------------------------
(* Attention layers of a hybrid model *)

\* An element's place among those of the tensor, and how many a page has.
Place(spec, p, k, r, e) == ((p * spec.split + k) * spec.rows + r) * spec.hidden + e
PageElements(spec) == spec.split * (spec.rows * spec.hidden)
HybridView(spec, n) == UpdateHybridAttentionLayout(AttentionView(spec, n))

\* The layout puts elements in the order of their places: the K and V of a block
\* come after those of the block before it.
LEMMA HybridByte ==
  ASSUME NEW spec, IsSpec(spec), ~spec.padded, NEW n \in Nat, n # 2,
         NEW p \in Nat, NEW k \in Nat, NEW r \in Nat, NEW e \in Nat
  PROVE  Byte(spec, HybridView(spec, n), p, k, r, e) = spec.dtype * Place(spec, p, k, r, e)
<1> DEFINE b == p * spec.split + k
           h == spec.hidden
<1>1. b \in Nat /\ h \in Nat /\ spec.rows \in Nat
  BY Z3 DEF IsSpec
<1>2. CASE spec.kvFirst
  <2>1. spec.rows = 2
    BY <1>2 DEF IsSpec
  <2>2. HybridView(spec, n).stride = <<h, 2 * h>>
    BY <1>2 DEF HybridView, UpdateHybridAttentionLayout, AttentionView, Contiguous, Shape
  <2>3. Byte(spec, HybridView(spec, n), p, k, r, e) = spec.dtype * (r * h + b * (2 * h) + e)
    BY <1>2, <2>2 DEF Byte
  <2>4. r * h + b * (2 * h) + e = (b * 2 + r) * h + e
    BY <1>1, Z3
  <2> QED
    BY <2>1, <2>3, <2>4 DEF Place
<1>3. CASE ~spec.kvFirst
  <2>1. HybridView(spec, n).stride = <<spec.rows * h, h>>
    BY <1>3 DEF HybridView, UpdateHybridAttentionLayout, AttentionView, Contiguous, Shape
  <2>2. Byte(spec, HybridView(spec, n), p, k, r, e)
          = spec.dtype * (b * (spec.rows * h) + r * h + e)
    BY <1>3, <2>1 DEF Byte
  <2>3. b * (spec.rows * h) + r * h + e = (b * spec.rows + r) * h + e
    BY <1>1, Z3
  <2> QED
    BY <2>2, <2>3 DEF Place
<1> QED
  BY <1>2, <1>3 DEF IsSpec

\* The places of page p are those from p * PageElements(spec) on.
LEMMA PlaceInPage ==
  ASSUME NEW spec, IsSpec(spec), NEW p \in Nat, NEW k \in 0..spec.split - 1,
         NEW r \in 0..spec.rows - 1, NEW e \in 0..spec.hidden - 1
  PROVE  /\ Place(spec, p, k, r, e) \in Nat
         /\ p * PageElements(spec) <= Place(spec, p, k, r, e)
         /\ Place(spec, p, k, r, e) < (p + 1) * PageElements(spec)
<1> DEFINE s == spec.split
           w == spec.rows
           h == spec.hidden
           b == p * s + k
           q == b * w + r
<1>1. s \in Nat /\ w \in Nat /\ h \in Nat
  BY DEF IsSpec
<1>2. b \in Nat /\ p * s <= b /\ b < (p + 1) * s
  BY <1>1, DigitInInterval
<1>3. q \in Nat /\ b * w <= q /\ q < (b + 1) * w
  BY <1>1, <1>2, DigitInInterval
<1>4. q * h + e \in Nat /\ q * h <= q * h + e /\ q * h + e < (q + 1) * h
  BY <1>1, <1>3, DigitInInterval
<1>5. Place(spec, p, k, r, e) = q * h + e
  BY DEF Place
<1>6. p * PageElements(spec) = ((p * s) * w) * h
  BY <1>1, Z3 DEF PageElements
<1>7. (p + 1) * PageElements(spec) = (((p + 1) * s) * w) * h
  BY <1>1, Z3 DEF PageElements
<1> HIDE DEF s, w, h, b, q
<1>8. (p * s) * w <= q /\ (p * s) * w \in Nat
  <2>1. p * s \in Nat
    BY <1>1, Z3
  <2>2. (p * s) * w \in Nat /\ b * w \in Nat
    BY <1>1, <1>2, <2>1, Z3
  <2>3. CASE p * s = b
    BY <1>3, <2>2, <2>3
  <2>4. CASE p * s < b
    <3>1. (p * s) * w + w <= b * w
      BY <1>1, <1>2, <2>1, <2>4, TimesMonotone
    <3> QED
      BY <1>1, <1>3, <2>2, <3>1
  <2> QED
    BY <1>2, <2>1, <2>3, <2>4
<1>9. ((p * s) * w) * h <= q * h
  <2>1. ((p * s) * w) * h \in Nat /\ q * h \in Nat
    BY <1>1, <1>3, <1>8, Z3
  <2>2. CASE (p * s) * w < q
    BY <1>1, <1>3, <1>8, <2>1, <2>2, TimesMonotone
  <2> QED
    BY <1>3, <1>8, <2>1, <2>2
<1>10. q + 1 <= ((p + 1) * s) * w /\ ((p + 1) * s) * w \in Nat
  <2>1. (p + 1) * s \in Nat
    BY <1>1, Z3
  <2>2. ((p + 1) * s) * w \in Nat /\ b * w \in Nat
    BY <1>1, <1>2, <2>1, Z3
  <2>3. b * w + w <= ((p + 1) * s) * w
    BY <1>1, <1>2, <2>1, TimesMonotone
  <2>4. (b + 1) * w = b * w + w
    BY <1>1, <1>2, Z3
  <2> QED
    BY <1>1, <1>3, <2>2, <2>3, <2>4
<1>11. (q + 1) * h <= (((p + 1) * s) * w) * h
  <2>1. (((p + 1) * s) * w) * h \in Nat /\ (q + 1) * h \in Nat
    BY <1>1, <1>3, <1>10, Z3
  <2>2. CASE q + 1 < ((p + 1) * s) * w
    BY <1>1, <1>3, <1>10, <2>1, <2>2, TimesMonotone
  <2> QED
    BY <1>3, <1>10, <2>1, <2>2
<1>12. ((p * s) * w) * h \in Nat /\ (((p + 1) * s) * w) * h \in Nat /\ (q + 1) * h \in Nat
       /\ q * h \in Nat
  BY <1>1, <1>3, <1>8, <1>10, Z3
<1> QED
  BY <1>4, <1>5, <1>6, <1>7, <1>9, <1>11, <1>12

\* Different elements have different places.
LEMMA PlacesUnique ==
  ASSUME NEW spec, IsSpec(spec), NEW p \in Nat, NEW q \in Nat,
         NEW j \in 0..spec.split - 1, NEW k \in 0..spec.split - 1,
         NEW r \in 0..spec.rows - 1, NEW s \in 0..spec.rows - 1,
         NEW e \in 0..spec.hidden - 1, NEW f \in 0..spec.hidden - 1,
         <<p, j, r, e>> # <<q, k, s, f>>
  PROVE  Place(spec, p, j, r, e) # Place(spec, q, k, s, f)
<1> DEFINE a == p * spec.split + j
           b == q * spec.split + k
           c == a * spec.rows + r
           d == b * spec.rows + s
<1>1. spec.split \in Nat /\ spec.rows \in Nat /\ spec.hidden \in Nat
  BY DEF IsSpec
<1>2. a \in Nat /\ b \in Nat
  BY <1>1, Z3
<1>3. c \in Nat /\ d \in Nat
  BY <1>1, <1>2, Z3
<1>4. <<p, j>> # <<q, k>> => a # b
  BY <1>1, DigitsUnique
<1>5. <<a, r>> # <<b, s>> => c # d
  <2> HIDE DEF a, b
  <2> QED
    BY <1>1, <1>2, DigitsUnique
<1>6. <<c, e>> # <<d, f>> => c * spec.hidden + e # d * spec.hidden + f
  <2> HIDE DEF c, d
  <2> QED
    BY <1>1, <1>3, DigitsUnique
<1>7. <<c, e>> # <<d, f>>
  <2> HIDE DEF a, b, c, d
  <2> QED
    BY <1>4, <1>5
<1> QED
  BY <1>6, <1>7 DEF Place

\* A hybrid model's attention layers keep the bytes of a page in it, whatever the
\* sizes, also with K/V-first backends: after _update_hybrid_attention_layout a page
\* may belong to another layer without anyone's KV being overwritten.
THEOREM HybridPagesKept ==
  ASSUME NEW spec, IsSpec(spec), IsTight(spec), NEW pages \in Nat, NEW n \in Nat, n # 2
  PROVE  InItsPage(spec, HybridView(spec, n), pages)
<1> SUFFICES ASSUME NEW p \in 0..pages - 1, NEW k \in 0..spec.split - 1,
                    NEW r \in 0..spec.rows - 1, NEW e \in 0..spec.hidden - 1
             PROVE  LET byte == Byte(spec, HybridView(spec, n), p, k, r, e) IN
                    /\ p * spec.page <= byte
                    /\ byte + spec.dtype <= (p + 1) * spec.page
  BY DEF InItsPage
<1> DEFINE at == Place(spec, p, k, r, e)
           m == PageElements(spec)
           d == spec.dtype
<1>1. p \in Nat /\ d \in Nat /\ m \in Nat
  <2>1. p \in Nat /\ d \in Nat
    BY DEF IsSpec
  <2>2. m \in Nat
    BY Z3 DEF IsSpec, PageElements
  <2> QED
    BY <2>1, <2>2
<1>2. at \in Nat /\ p * m <= at /\ at < (p + 1) * m
  BY <1>1, PlaceInPage
<1>3. Byte(spec, HybridView(spec, n), p, k, r, e) = d * at
  <2>1. k \in Nat /\ r \in Nat /\ e \in Nat
    BY DEF IsSpec
  <2> QED
    BY <1>1, <2>1, HybridByte DEF IsTight
<1>4. spec.page = m * d
  <2>1. spec.split \in Nat /\ spec.rows \in Nat /\ spec.hidden \in Nat /\ spec.dtype \in Nat
    BY DEF IsSpec
  <2>2. spec.split * (spec.rows * (spec.hidden * spec.dtype))
          = (spec.split * (spec.rows * spec.hidden)) * spec.dtype
    BY <2>1, Z3
  <2> QED
    BY <2>2 DEF IsTight, PageElements
<1> HIDE DEF at, m, d
<1>5. p * m \in Nat /\ (p + 1) * m \in Nat /\ at * d \in Nat /\ d * at = at * d
  BY <1>1, <1>2, Z3
<1>6. (p * m) * d <= at * d
  <2>1. (p * m) * d \in Nat
    BY <1>1, <1>5, Z3
  <2>2. CASE p * m < at
    BY <1>1, <1>2, <1>5, <2>1, <2>2, TimesMonotone
  <2> QED
    BY <1>2, <1>5, <2>1, <2>2
<1>7. at * d + d <= ((p + 1) * m) * d
  BY <1>1, <1>2, <1>5, TimesMonotone
<1>8. p * (m * d) = (p * m) * d /\ (p + 1) * (m * d) = ((p + 1) * m) * d
  BY <1>1, Z3
<1>9. d * at = at * d
  BY <1>5
<1> QED
  BY <1>3, <1>4, <1>6, <1>7, <1>8, <1>9 DEF d

\* And no two elements of such a layer share a byte.
THEOREM HybridElementsApart ==
  ASSUME NEW spec, IsSpec(spec), IsTight(spec), NEW pages \in Nat, NEW n \in Nat, n # 2
  PROVE  Apart(spec, HybridView(spec, n), pages)
<1> SUFFICES ASSUME NEW p \in 0..pages - 1, NEW q \in 0..pages - 1,
                    NEW j \in 0..spec.split - 1, NEW k \in 0..spec.split - 1,
                    NEW r \in 0..spec.rows - 1, NEW s \in 0..spec.rows - 1,
                    NEW e \in 0..spec.hidden - 1, NEW f \in 0..spec.hidden - 1,
                    <<p, j, r, e>> # <<q, k, s, f>>
             PROVE  LET x == Byte(spec, HybridView(spec, n), p, j, r, e)
                        y == Byte(spec, HybridView(spec, n), q, k, s, f)
                    IN  x + spec.dtype <= y \/ y + spec.dtype <= x
  BY DEF Apart
<1> DEFINE x == Place(spec, p, j, r, e)
           y == Place(spec, q, k, s, f)
           d == spec.dtype
<1>1. p \in Nat /\ q \in Nat /\ d \in Nat
  BY DEF IsSpec
<1>2. x \in Nat /\ y \in Nat /\ x # y
  BY <1>1, PlaceInPage, PlacesUnique
<1>3. j \in Nat /\ r \in Nat /\ e \in Nat /\ k \in Nat /\ s \in Nat /\ f \in Nat
  BY DEF IsSpec
<1>4. /\ Byte(spec, HybridView(spec, n), p, j, r, e) = d * x
      /\ Byte(spec, HybridView(spec, n), q, k, s, f) = d * y
  <2>1. ~spec.padded
    BY DEF IsTight
  <2>2. Byte(spec, HybridView(spec, n), p, j, r, e) = d * x
    BY <1>1, <1>3, <2>1, HybridByte
  <2>3. Byte(spec, HybridView(spec, n), q, k, s, f) = d * y
    BY <1>1, <1>3, <2>1, HybridByte
  <2> QED BY <2>2, <2>3
<1> HIDE DEF x, y, d
<1>5. x * d + d <= y * d \/ y * d + d <= x * d
  <2>1. CASE x < y
    BY <1>1, <1>2, <2>1, TimesMonotone
  <2>2. CASE y < x
    BY <1>1, <1>2, <2>2, TimesMonotone
  <2> QED
    BY <1>2, <2>1, <2>2
<1>6. d * x = x * d /\ d * y = y * d
  BY <1>1, <1>2, Z3
<1> QED
  BY <1>4, <1>5, <1>6 DEF d

-------------------------------------------------------------------------------
(* Padded pages *)

\* A page with padding keeps its bytes when the backend's first dimension is the
\* block's, which the comment in _reshape_kv_cache assumes.
THEOREM PaddedPagesKept ==
  ASSUME NEW spec, IsSpec(spec), IsPadded(spec), NEW pages \in Nat, NEW n \in Nat
  PROVE  InItsPage(spec, AttentionView(spec, n), pages)
<1> SUFFICES ASSUME NEW p \in 0..pages - 1, NEW k \in 0..spec.split - 1,
                    NEW r \in 0..spec.rows - 1, NEW e \in 0..spec.hidden - 1
             PROVE  LET byte == Byte(spec, AttentionView(spec, n), p, k, r, e) IN
                    /\ p * spec.page <= byte
                    /\ byte + spec.dtype <= (p + 1) * spec.page
  BY DEF InItsPage
<1> DEFINE d == spec.dtype
           h == spec.hidden
           w == spec.rows
           u == spec.page \div d
           at == r * h + e
<1>1. p \in Nat /\ d \in Nat \ {0} /\ h \in Nat /\ w \in Nat /\ r \in Nat /\ e \in 0..h - 1
      /\ r < w /\ spec.page \in Nat
  BY DEF IsSpec
<1>2. k = 0 /\ spec.split = 1 /\ spec.page % d = 0 /\ w * (h * d) <= spec.page
  BY DEF IsPadded
<1>3. u \in Nat /\ spec.page = d * u
  BY <1>1, <1>2, Z3
<1>4. AttentionView(spec, n).stride = <<u, h>>
  BY DEF AttentionView, Padded, Contiguous, Shape, IsPadded
<1>5. Byte(spec, AttentionView(spec, n), p, k, r, e) = d * (p * u + r * h + e)
  <2>1. p * spec.split + k = p
    BY <1>1, <1>2
  <2> QED
    BY <1>4, <2>1 DEF Byte, IsPadded
<1>6. at \in Nat /\ at < w * h /\ w * h \in Nat
  <2> HIDE DEF w, h
  <2>1. at \in Nat /\ at < w * h
    BY <1>1, DigitInInterval
  <2>2. w * h \in Nat
    BY <1>1, Z3
  <2> QED
    BY <2>1, <2>2
<1> HIDE DEF d, h, w, u
<1>7. at * d + d <= (w * h) * d /\ at * d \in Nat
  <2>1. at \in Nat /\ at < w * h /\ w * h \in Nat /\ d \in Nat
    BY <1>1, <1>6
  <2> HIDE DEF at
  <2>2. at * d \in Nat
    BY <2>1, Z3
  <2> QED
    BY <2>1, <2>2, TimesMonotone
<1>8. (w * h) * d = w * (h * d) /\ w * (h * d) \in Nat
  BY <1>1, Z3
<1>9. d * (p * u + r * h + e) = p * (d * u) + at * d
  BY <1>1, <1>3, Z3
<1>10. (p + 1) * spec.page = p * spec.page + spec.page /\ p * spec.page \in Nat
  <2>1. p \in Nat /\ spec.page \in Nat
    BY <1>1
  <2> QED
    BY <2>1, SMT
<1> HIDE DEF at
<1> QED
  BY <1>1, <1>2, <1>3, <1>5, <1>7, <1>8, <1>9, <1>10 DEF d

-------------------------------------------------------------------------------
(* Memory the engine reserves *)

\* Rounding up to whole driver pages adds less than a page.
LEMMA ReservedBounds ==
  ASSUME NEW bytes \in Nat, NEW granule \in Nat \ {0}
  PROVE  /\ Reserved(bytes, granule) \in Nat
         /\ bytes <= Reserved(bytes, granule)
         /\ Reserved(bytes, granule) < bytes + granule
<1> DEFINE x == bytes + granule - 1
           q == x \div granule
<1>1. x \in Nat
  OBVIOUS
<1>2. q \in Nat /\ x = granule * q + (x % granule) /\ x % granule \in 0..granule - 1
  <2> HIDE DEF x
  <2> QED
    BY <1>1
<1>3. granule * q = q * granule /\ q * granule \in Nat
  BY <1>2, Z3
<1> QED
  BY <1>2, <1>3 DEF Reserved

\* CacheEngine's GPU tensors take what get_cache_block_size counts for their blocks,
\* and at most one driver page per layer more, which nothing accounts for.
THEOREM EngineReservation ==
  ASSUME NEW engine, engine.layers \in Nat \ {0}, engine.hidden \in Nat, engine.dtype \in Nat,
         NEW n \in Nat, NEW granule \in Nat \ {0}
  PROVE  ReservedAsCounted(engine, n, granule)
<1> DEFINE layer == LayerBytes(engine, n)
           one == Reserved(layer, granule)
           l == engine.layers
<1>1. layer \in Nat
  BY Z3 DEF LayerBytes
<1>2. one \in Nat /\ layer <= one /\ one < layer + granule
  BY <1>1, ReservedBounds
<1>3. n * CacheBlockSize(engine) = layer * l
  <2> DEFINE h == engine.hidden
             d == engine.dtype
  <2>1. n * (d * (l * (h + h))) = (2 * n * h * d) * l
    BY Z3
  <2> QED
    BY <2>1 DEF CacheBlockSize, LayerBytes
<1> HIDE DEF layer, one
<1>4. layer * l \in Nat /\ one * l \in Nat /\ granule * l \in Nat
      /\ l * one = one * l /\ l * granule = granule * l
      /\ (layer + granule) * l = layer * l + granule * l
  BY <1>1, <1>2, Z3
<1>5. layer * l <= one * l
  <2>1. CASE layer < one
    BY <1>1, <1>2, <1>4, <2>1, TimesMonotone
  <2> QED
    BY <1>1, <1>2, <1>4, <2>1
<1>6. one * l + l <= (layer + granule) * l
  BY <1>1, <1>2, TimesMonotone
<1> QED
  BY <1>3, <1>4, <1>5, <1>6 DEF ReservedAsCounted, one, layer

-------------------------------------------------------------------------------
(* Mamba states *)

\* A state that starts at a multiple of its element size and ends within the page
\* stays there in every page of the tensor.
THEOREM MambaStateInItsPage ==
  ASSUME NEW page \in Nat, NEW state, state.numel \in Nat, state.dtype \in Nat \ {0},
         NEW start \in Nat, page % state.dtype = 0, start % state.dtype = 0,
         start + state.numel * state.dtype <= page,
         NEW p \in Nat, NEW e \in 0..state.numel - 1
  PROVE  LET byte == StateByte(page, state, start, p, e) IN
         /\ p * page + start <= byte
         /\ byte + state.dtype <= (p + 1) * page
<1> DEFINE d == state.dtype
           u == page \div d
           v == start \div d
<1>1. d \in Nat \ {0} /\ u \in Nat /\ v \in Nat /\ e \in Nat
  BY Z3
<1>2. page = d * u /\ start = d * v
  BY Z3
<1>3. StateByte(page, state, start, p, e) = d * (p * u + v + e)
  BY DEF StateByte
<1> HIDE DEF u, v
<1>4. d * (p * u + v + e) = p * (d * u) + d * v + e * d
  BY <1>1, Z3
<1>5. e * d + d <= state.numel * d /\ e * d \in Nat /\ state.numel * d \in Nat
  <2>1. e < state.numel
    OBVIOUS
  <2>2. e * d \in Nat /\ state.numel * d \in Nat
    BY <1>1, Z3
  <2> QED
    BY <1>1, <2>1, <2>2, TimesMonotone
<1>6. (p + 1) * page = p * page + page /\ p * page \in Nat
  BY Z3
<1> QED
  BY <1>2, <1>3, <1>4, <1>5, <1>6
==============================================================================
